----------------------------- MODULE HookProofs -----------------------------
(***************************************************************************)
(* The two wrappers (HookPoints), each for any number of what comes by:    *)
(* the injected input of the client (RemoteInput), for any devices, keys   *)
(* and commands, and the protocol tables of the servers (ProtocolTable),   *)
(* for any opcodes, plugins and hook slots.                                *)
(***************************************************************************)
EXTENDS HookPoints, FiniteSetTheorems, SequenceTheorems, Induction, TLAPS

(***************************************************************************)
(* The programs of the commands.                                           *)
(***************************************************************************)
StepT ==
    [do : {"key", "button", "cursor", "wheel", "chars", "frames"},
     arg : AllKeys \cup Int \cup {"left", "notch", "line"}, down : BOOLEAN]

IsUp(x) == x.do = "key" /\ ~x.down
KeysOf(t) == IF t = Serve THEN Keys ELSE {Tab}

\* each thread has its own keys; only the controller has the rest
StepFits(t, x) ==
    /\ x.do = "key" => x.arg \in KeysOf(t)
    /\ x.do = "cursor" => x.arg \in Places
    /\ x.do = "frames" => x.arg \in Nat
    /\ x.do \in {"button", "cursor", "wheel", "chars"} => t = Serve

\* a key comes up two frames after it went down, and a press of the button inside a program is that of a click
Shape(t, s) ==
    /\ \A i \in DOMAIN s : StepFits(t, s[i])
    /\ \A i \in DOMAIN s : i > 1 /\ IsUp(s[i]) => s[i - 1] = FramesStep(2)
    /\ \A i \in DOMAIN s : i > 2 /\ IsUp(s[i]) => s[i - 2] = KeyStep(s[i].arg, TRUE)
    /\ \A i \in DOMAIN s : i < Len(s) /\ s[i].do = "button" /\ s[i].down =>
          Len(s) = i + 2 /\ s[i + 1] = FramesStep(2) /\ s[i + 2].do = "button"

\* a program does not begin with a wait, and a longer one not with a key coming up
Begins(s) == Len(s) > 0 /\ s[1].do # "frames" /\ (Len(s) > 1 => ~IsUp(s[1]) /\ ~IsUp(s[2]))

LEMMA ShapeTail ==
    ASSUME NEW t, NEW s \in Seq(StepT), s # << >>, Shape(t, s)
    PROVE  Tail(s) \in Seq(StepT) /\ Shape(t, Tail(s))
<1> DEFINE r == Tail(s)
<1>1. /\ r \in Seq(StepT) /\ Len(s) \in Nat /\ Len(s) > 0 /\ Len(r) = Len(s) - 1 /\ DOMAIN r = 1 .. Len(s) - 1
      /\ DOMAIN s = 1 .. Len(s)
      /\ \A i \in 1 .. Len(s) - 1 : r[i] = s[i + 1]
  OBVIOUS
<1> HIDE DEF r
<1>2. ASSUME NEW i \in DOMAIN r PROVE StepFits(t, r[i])
  <2>1. i + 1 \in DOMAIN s /\ r[i] = s[i + 1]
    BY <1>1
  <2> QED BY <2>1 DEF Shape
<1>3. ASSUME NEW i \in DOMAIN r, i > 1, IsUp(r[i]) PROVE r[i - 1] = FramesStep(2)
  <2>1. i + 1 \in DOMAIN s /\ r[i] = s[i + 1] /\ i + 1 > 1 /\ i + 1 - 1 = i /\ i - 1 \in 1 .. Len(s) - 1 /\ i - 1 + 1 = i
    BY <1>1, <1>3
  <2>2. s[i + 1 - 1] = FramesStep(2)
    BY <1>3, <2>1 DEF Shape
  <2> QED BY <1>1, <2>1, <2>2
<1>4. ASSUME NEW i \in DOMAIN r, i > 2, IsUp(r[i]) PROVE r[i - 2] = KeyStep(r[i].arg, TRUE)
  <2>1. /\ i + 1 \in DOMAIN s /\ r[i] = s[i + 1] /\ i + 1 > 2 /\ i + 1 - 2 = i - 1
        /\ i - 2 \in 1 .. Len(s) - 1 /\ i - 2 + 1 = i - 1
    BY <1>1, <1>4
  <2>2. \A j \in DOMAIN s : j > 2 /\ IsUp(s[j]) => s[j - 2] = KeyStep(s[j].arg, TRUE)
    BY Zenon DEF Shape
  <2>3. IsUp(s[i + 1])
    BY <1>4, <2>1
  <2> DEFINE j == i + 1
  <2>4. j \in DOMAIN s /\ j > 2 /\ IsUp(s[j]) /\ r[i] = s[j] /\ j - 2 = i - 1
    BY <2>1, <2>3
  <2> HIDE DEF j
  <2>5. s[j - 2] = KeyStep(s[j].arg, TRUE)
    BY <2>2, <2>4, Zenon
  <2> QED BY <1>1, <2>1, <2>4, <2>5
<1>5. ASSUME NEW i \in DOMAIN r, i < Len(r), r[i].do = "button", r[i].down
      PROVE  Len(r) = i + 2 /\ r[i + 1] = FramesStep(2) /\ r[i + 2].do = "button"
  <2>1. i + 1 \in DOMAIN s /\ r[i] = s[i + 1] /\ i + 1 < Len(s) /\ i \in Nat
    BY <1>1, <1>5
  <2>2. Len(s) = i + 1 + 2 /\ s[i + 1 + 1] = FramesStep(2) /\ s[i + 1 + 2].do = "button"
    BY <1>5, <2>1 DEF Shape
  <2>3. i + 1 \in 1 .. Len(s) - 1 /\ i + 2 \in 1 .. Len(s) - 1
    BY <1>1, <2>1, <2>2
  <2> QED BY <1>1, <2>1, <2>2, <2>3
<1> QED BY <1>1, <1>2, <1>3, <1>4, <1>5 DEF Shape, r

LEMMA Joined ==
    ASSUME NEW S, NEW x \in Seq(S), NEW y \in Seq(S)
    PROVE  /\ x \o y \in Seq(S) /\ Len(x \o y) = Len(x) + Len(y)
           /\ \A i \in 1 .. Len(x) + Len(y) : (x \o y)[i] = IF i =< Len(x) THEN x[i] ELSE y[i - Len(x)]
  OBVIOUS

LEMMA Four ==
    ASSUME NEW S, NEW a \in S, NEW b \in S, NEW c \in S, NEW d \in S
    PROVE  <<a, b, c, d>> \in Seq(S)
  OBVIOUS

LEMMA Five ==
    ASSUME NEW S, NEW a \in S, NEW b \in S, NEW c \in S, NEW d \in S, NEW e \in S
    PROVE  <<a, b, c, d, e>> \in Seq(S)
  OBVIOUS

\* the eleven steps of a line of chat
LEMMA SayIs ==
    /\ Say \in Seq(StepT) /\ Len(Say) = 11
    /\ Say[1] = KeyStep(Enter, TRUE) /\ Say[2] = FramesStep(2) /\ Say[3] = KeyStep(Enter, FALSE) /\ Say[4] = FramesStep(1)
    /\ Say[5] = FramesStep(3) /\ Say[6] = CharsStep /\ Say[7] = FramesStep(2)
    /\ Say[8] = KeyStep(Enter, TRUE) /\ Say[9] = FramesStep(2) /\ Say[10] = KeyStep(Enter, FALSE) /\ Say[11] = FramesStep(1)
<1>1. Press(Enter) \in Seq(StepT) /\ <<FramesStep(3), CharsStep, FramesStep(2)>> \in Seq(StepT)
  BY HookPointsOK DEF RemoteInputConstantsOK, Press, KeyStep, FramesStep, CharsStep, StepT, AllKeys
<1> DEFINE a == Press(Enter)
           b == <<FramesStep(3), CharsStep, FramesStep(2)>>
<1>2. /\ Len(a) = 4 /\ a[1] = KeyStep(Enter, TRUE) /\ a[2] = FramesStep(2) /\ a[3] = KeyStep(Enter, FALSE) /\ a[4] = FramesStep(1)
      /\ Len(b) = 3 /\ b[1] = FramesStep(3) /\ b[2] = CharsStep /\ b[3] = FramesStep(2)
  BY DEF Press
<1> HIDE DEF a, b
<1>3. a \o b \in Seq(StepT) /\ Len(a \o b) = 7 /\ \A i \in 1 .. 7 : (a \o b)[i] = IF i =< 4 THEN a[i] ELSE b[i - 4]
  <2>1. a \in Seq(StepT) /\ b \in Seq(StepT) /\ 4 = Len(a) /\ 3 = Len(b)
    BY <1>1, <1>2 DEF a, b
  <2>2. /\ a \o b \in Seq(StepT) /\ Len(a \o b) = Len(a) + Len(b)
        /\ \A i \in 1 .. Len(a) + Len(b) : (a \o b)[i] = IF i =< Len(a) THEN a[i] ELSE b[i - Len(a)]
    BY <2>1, Joined, Zenon
  <2> QED BY <1>2, <2>2
<1>4. Say = (a \o b) \o a
  BY DEF Say, a, b
<1> DEFINE c == a \o b
<1> HIDE DEF c
<1>5. c \in Seq(StepT) /\ Len(c) = 7 /\ \A i \in 1 .. 7 : c[i] = IF i =< 4 THEN a[i] ELSE b[i - 4]
  BY <1>3 DEF c
<1>6. Say = c \o a /\ a \in Seq(StepT)
  BY <1>1, <1>4 DEF a, c
<1>7. Say \in Seq(StepT) /\ Len(Say) = 11 /\ \A i \in 1 .. 11 : Say[i] = IF i =< 7 THEN c[i] ELSE a[i - 7]
  <2>1. 7 = Len(c) /\ 4 = Len(a) /\ c \in Seq(StepT) /\ a \in Seq(StepT)
    BY <1>2, <1>5, <1>6
  <2>2. /\ c \o a \in Seq(StepT) /\ Len(c \o a) = Len(c) + Len(a)
        /\ \A i \in 1 .. Len(c) + Len(a) : (c \o a)[i] = IF i =< Len(c) THEN c[i] ELSE a[i - Len(c)]
    BY <2>1, Joined, Zenon
  <2>3. Len(c) + Len(a) = 11 /\ Len(c) = 7
    BY <1>2, <1>5
  <2>4. /\ c \o a \in Seq(StepT) /\ Len(c \o a) = 11
        /\ \A i \in 1 .. 11 : (c \o a)[i] = IF i =< 7 THEN c[i] ELSE a[i - 7]
    BY <2>2, <2>3, Zenon
  <2> QED BY <1>6, <2>4
<1>8. /\ c[1] = a[1] /\ c[2] = a[2] /\ c[3] = a[3] /\ c[4] = a[4] /\ c[5] = b[1] /\ c[6] = b[2] /\ c[7] = b[3]
  BY <1>5
<1>9. /\ Say[1] = c[1] /\ Say[2] = c[2] /\ Say[3] = c[3] /\ Say[4] = c[4] /\ Say[5] = c[5] /\ Say[6] = c[6] /\ Say[7] = c[7]
      /\ Say[8] = a[1] /\ Say[9] = a[2] /\ Say[10] = a[3] /\ Say[11] = a[4]
  BY <1>7
<1> QED BY <1>2, <1>7, <1>8, <1>9

\* what each kind of step is
LEMMA StepsFit ==
    ASSUME NEW t \in Threads
    PROVE  /\ \A k \in KeysOf(t), d \in BOOLEAN : KeyStep(k, d) \in StepT /\ StepFits(t, KeyStep(k, d))
           /\ \A n \in Nat : FramesStep(n) \in StepT /\ StepFits(t, FramesStep(n))
           /\ t = Serve => /\ \A q \in Places : CursorStep(q) \in StepT /\ StepFits(t, CursorStep(q))
                           /\ \A d \in BOOLEAN : ButtonStep(d) \in StepT /\ StepFits(t, ButtonStep(d))
                           /\ WheelStep \in StepT /\ StepFits(t, WheelStep)
                           /\ CharsStep \in StepT /\ StepFits(t, CharsStep)
<1>1. Places \subseteq Int
  BY HookPointsOK DEF RemoteInputConstantsOK
<1>2. KeysOf(t) \subseteq AllKeys
  BY DEF KeysOf, AllKeys
<1> QED BY <1>1, <1>2 DEF StepT, StepFits, KeyStep, FramesStep, CursorStep, ButtonStep, WheelStep, CharsStep

LEMMA ProgramShape ==
    ASSUME NEW t \in Threads, NEW p \in Programs(t)
    PROVE  p \in Seq(StepT) /\ Shape(t, p) /\ Begins(p) /\ (\A i \in DOMAIN p : p[i].do = "chars" => p = Say /\ has \cap Kbs # {})
<1> DEFINE G == p \in Seq(StepT) /\ Shape(t, p) /\ Begins(p) /\ (\A i \in DOMAIN p : p[i].do = "chars" => p = Say /\ has \cap Kbs # {})
<1> SUFFICES G
  OBVIOUS
<1>0. Enter \in Keys
  BY HookPointsOK DEF RemoteInputConstantsOK
<1>1. ASSUME NEW k \in KeysOf(t), p = Press(k) PROVE G
  <2>1. /\ p = <<KeyStep(k, TRUE), FramesStep(2), KeyStep(k, FALSE), FramesStep(1)>>
        /\ Len(p) = 4 /\ DOMAIN p = 1 .. 4
        /\ p[1] = KeyStep(k, TRUE) /\ p[2] = FramesStep(2) /\ p[3] = KeyStep(k, FALSE) /\ p[4] = FramesStep(1)
    BY <1>1 DEF Press
  <2>2. /\ KeyStep(k, TRUE) \in StepT /\ FramesStep(2) \in StepT /\ KeyStep(k, FALSE) \in StepT /\ FramesStep(1) \in StepT
        /\ StepFits(t, KeyStep(k, TRUE)) /\ StepFits(t, FramesStep(2)) /\ StepFits(t, KeyStep(k, FALSE)) /\ StepFits(t, FramesStep(1))
    BY StepsFit
  <2>3. p \in Seq(StepT)
    BY <2>1, <2>2, Four, Zenon
  <2>4. \A i \in DOMAIN p : i = 1 \/ i = 2 \/ i = 3 \/ i = 4
    BY <2>1
  <2>5. ASSUME NEW i \in DOMAIN p PROVE StepFits(t, p[i]) /\ (IsUp(p[i]) => i = 3) /\ p[i].do # "button" /\ p[i].do # "chars"
    <3>1. p[i] = KeyStep(k, TRUE) \/ (p[i] = KeyStep(k, FALSE) /\ i = 3) \/ p[i] = FramesStep(2) \/ p[i] = FramesStep(1)
      BY <2>1, <2>4, Zenon
    <3>2. /\ KeyStep(k, TRUE).down /\ KeyStep(k, TRUE).do = "key" /\ KeyStep(k, FALSE).do = "key"
          /\ FramesStep(1).do = "frames" /\ FramesStep(2).do = "frames"
      BY DEF KeyStep, FramesStep
    <3> QED BY <2>2, <3>1, <3>2 DEF IsUp
  <2>6. Shape(t, p)
    <3>1. p[3].arg = k
      BY <2>1 DEF KeyStep
    <3>2. \A i \in DOMAIN p : i > 1 /\ IsUp(p[i]) => p[i - 1] = FramesStep(2)
      BY <2>1, <2>5
    <3>3. \A i \in DOMAIN p : i > 2 /\ IsUp(p[i]) => p[i - 2] = KeyStep(p[i].arg, TRUE)
      <4>1. \A i \in DOMAIN p : IsUp(p[i]) => i = 3 /\ i - 2 = 1
        BY <2>5
      <4>2. p[1] = KeyStep(p[3].arg, TRUE)
        BY <2>1, <3>1
      <4> QED BY <4>1, <4>2
    <3> QED BY <2>5, <3>2, <3>3 DEF Shape
  <2>7. Begins(p)
    <3>1. p[1].do = "key" /\ p[1].down /\ p[2].do = "frames" /\ Len(p) = 4
      BY <2>1 DEF KeyStep, FramesStep
    <3> QED BY <3>1 DEF Begins, IsUp
  <2> QED BY <2>3, <2>5, <2>6, <2>7
<1>2. CASE t = Login
  <2>1. p = Press(Tab) /\ Tab \in KeysOf(t)
    BY <1>2 DEF Programs, KeysOf, Login, Serve
  <2> QED BY <1>1, <2>1
<1>3. CASE t = Serve
  <2>1. \/ has \cap Kbs # {} /\ p \in KeyCommands \cup {Say}
        \/ p \in MouseCommands
    BY <1>3 DEF Programs, Login, Serve
  <2>2. KeysOf(t) = Keys
    BY <1>3 DEF KeysOf
  <2>3. CASE \E k \in Keys : p = Press(k)
    BY <1>1, <2>2, <2>3
  <2>4. ASSUME NEW k \in Keys, NEW d \in BOOLEAN, p = <<KeyStep(k, d)>> PROVE G
    <3>1. Len(p) = 1 /\ DOMAIN p = {1} /\ p[1] = KeyStep(k, d)
      BY <2>4
    <3>2. KeyStep(k, d) \in StepT /\ StepFits(t, KeyStep(k, d)) /\ KeyStep(k, d).do = "key"
      BY <2>2, StepsFit DEF KeyStep
    <3>3. p \in Seq(StepT)
      BY <2>4, <3>2
    <3>4. Shape(t, p)
      BY <3>1, <3>2 DEF Shape
    <3>5. Begins(p)
      BY <3>1, <3>2 DEF Begins
    <3> QED BY <3>1, <3>2, <3>3, <3>4, <3>5
  <2>5. CASE has \cap Kbs # {} /\ p = Say
    <3>1. DOMAIN p = 1 .. 11 /\ Len(p) = 11 /\ p \in Seq(StepT)
      BY <2>5, SayIs
    <3>2. \A i \in DOMAIN p : i = 1 \/ i = 2 \/ i = 3 \/ i = 4 \/ i = 5 \/ i = 6 \/ i = 7 \/ i = 8 \/ i = 9 \/ i = 10 \/ i = 11
      BY <3>1
    <3>3. /\ StepFits(t, KeyStep(Enter, TRUE)) /\ StepFits(t, KeyStep(Enter, FALSE)) /\ StepFits(t, CharsStep)
          /\ StepFits(t, FramesStep(1)) /\ StepFits(t, FramesStep(2)) /\ StepFits(t, FramesStep(3))
      BY <1>0, <1>3, <2>2, StepsFit
    <3>4. ASSUME NEW i \in DOMAIN p PROVE StepFits(t, p[i]) /\ (IsUp(p[i]) => i = 3 \/ i = 10) /\ p[i].do # "button"
      <4>1. \/ p[i] = KeyStep(Enter, FALSE) /\ (i = 3 \/ i = 10)
            \/ p[i] = KeyStep(Enter, TRUE) \/ p[i] = CharsStep
            \/ p[i] = FramesStep(1) \/ p[i] = FramesStep(2) \/ p[i] = FramesStep(3)
        BY <2>5, <3>2, SayIs, Zenon
      <4>2. /\ KeyStep(Enter, TRUE).down /\ ~IsUp(CharsStep) /\ ~IsUp(FramesStep(1)) /\ ~IsUp(FramesStep(2)) /\ ~IsUp(FramesStep(3))
            /\ KeyStep(Enter, TRUE).do # "button" /\ KeyStep(Enter, FALSE).do # "button" /\ CharsStep.do # "button"
            /\ FramesStep(1).do # "button" /\ FramesStep(2).do # "button" /\ FramesStep(3).do # "button"
        BY DEF IsUp, KeyStep, FramesStep, CharsStep
      <4>3. ~IsUp(KeyStep(Enter, TRUE))
        BY <4>2 DEF IsUp
      <4> QED BY <3>3, <4>1, <4>2, <4>3, Zenon
    <3>5. p[2] = FramesStep(2) /\ p[1] = KeyStep(p[3].arg, TRUE) /\ p[9] = FramesStep(2) /\ p[8] = KeyStep(p[10].arg, TRUE)
      BY <2>5, SayIs DEF KeyStep
    <3>6. Shape(t, p)
      <4>1. \A i \in DOMAIN p : i > 1 /\ IsUp(p[i]) => p[i - 1] = FramesStep(2)
        <5>1. SUFFICES ASSUME NEW i \in DOMAIN p, IsUp(p[i]) PROVE p[i - 1] = FramesStep(2)
          OBVIOUS
        <5>2. i - 1 = 2 \/ i - 1 = 9
          BY <3>4, <5>1
        <5> QED BY <3>5, <5>2
      <4>2. \A i \in DOMAIN p : i > 2 /\ IsUp(p[i]) => p[i - 2] = KeyStep(p[i].arg, TRUE)
        <5>1. SUFFICES ASSUME NEW i \in DOMAIN p, IsUp(p[i]) PROVE p[i - 2] = KeyStep(p[i].arg, TRUE)
          OBVIOUS
        <5>2. (i - 2 = 1 /\ i = 3) \/ (i - 2 = 8 /\ i = 10)
          BY <3>4, <5>1
        <5> QED BY <3>5, <5>2
      <4> QED BY <3>4, <4>1, <4>2 DEF Shape
    <3>7. Begins(p)
      <4>1. p[1].do = "key" /\ p[1].down /\ p[2].do = "frames"
        BY <2>5, SayIs DEF KeyStep, FramesStep
      <4> QED BY <3>1, <4>1 DEF Begins, IsUp
    <3> QED BY <2>5, <3>1, <3>6, <3>7
  <2>6. ASSUME p \in MouseCommands PROVE G
    <3>0. /\ \A q \in Places : CursorStep(q) \in StepT /\ StepFits(t, CursorStep(q))
          /\ \A d \in BOOLEAN : ButtonStep(d) \in StepT /\ StepFits(t, ButtonStep(d))
          /\ WheelStep \in StepT /\ StepFits(t, WheelStep)
          /\ FramesStep(2) \in StepT /\ StepFits(t, FramesStep(2))
      BY <1>3, StepsFit
    <3>1. ASSUME NEW q \in Places, p = Click(q) PROVE G
      <4>1. p = <<CursorStep(q), FramesStep(2), ButtonStep(TRUE), FramesStep(2), ButtonStep(FALSE)>>
        BY <3>1 DEF Click, Sleep
      <4>2. /\ Len(p) = 5 /\ DOMAIN p = 1 .. 5
            /\ p[1] = CursorStep(q) /\ p[2] = FramesStep(2) /\ p[3] = ButtonStep(TRUE) /\ p[4] = FramesStep(2) /\ p[5] = ButtonStep(FALSE)
        BY <4>1
      <4>3. CursorStep(q) \in StepT /\ ButtonStep(TRUE) \in StepT /\ ButtonStep(FALSE) \in StepT /\ FramesStep(2) \in StepT
        BY <3>0
      <4>4. p \in Seq(StepT)
        BY <4>1, <4>3, Five, Zenon
      <4>5. \A i \in DOMAIN p : i = 1 \/ i = 2 \/ i = 3 \/ i = 4 \/ i = 5
        BY <4>2
      <4>6. ASSUME NEW i \in DOMAIN p PROVE StepFits(t, p[i]) /\ p[i].do \in {"cursor", "frames", "button"} /\ (p[i].do = "button" => i = 3 \/ i = 5)
        <5>1. \/ p[i] = CursorStep(q)
              \/ p[i] = FramesStep(2)
              \/ (p[i] = ButtonStep(TRUE) \/ p[i] = ButtonStep(FALSE)) /\ (i = 3 \/ i = 5)
          BY <4>2, <4>5, Zenon
        <5>2. StepFits(t, CursorStep(q)) /\ StepFits(t, FramesStep(2)) /\ StepFits(t, ButtonStep(TRUE)) /\ StepFits(t, ButtonStep(FALSE))
          BY <3>0
        <5>3. CursorStep(q).do = "cursor" /\ FramesStep(2).do = "frames" /\ ButtonStep(TRUE).do = "button" /\ ButtonStep(FALSE).do = "button"
          BY DEF CursorStep, FramesStep, ButtonStep
        <5> QED BY <5>1, <5>2, <5>3
      <4>7. \A i \in DOMAIN p : i < Len(p) /\ p[i].do = "button" /\ p[i].down => Len(p) = i + 2 /\ p[i + 1] = FramesStep(2) /\ p[i + 2].do = "button"
        <5>1. p[5].do = "button"
          BY <4>2 DEF ButtonStep
        <5>2. SUFFICES ASSUME NEW i \in DOMAIN p, i < Len(p), p[i].do = "button" PROVE Len(p) = i + 2 /\ p[i + 1] = FramesStep(2) /\ p[i + 2].do = "button"
          OBVIOUS
        <5>3. i = 3
          BY <4>2, <4>6, <5>2
        <5>4. i + 1 = 4 /\ i + 2 = 5
          BY <5>3
        <5> QED BY <4>2, <5>1, <5>4
      <4>8. Shape(t, p)
        BY <4>6, <4>7 DEF Shape, IsUp
      <4>9. Begins(p)
        <5>1. p[1].do = "cursor" /\ p[2].do = "frames"
          BY <4>2 DEF CursorStep, FramesStep
        <5> QED BY <4>2, <5>1 DEF Begins, IsUp
      <4> QED BY <4>4, <4>6, <4>8, <4>9
    <3>2. ASSUME NEW q \in Places, p = <<CursorStep(q)>> PROVE G
      <4>1. Len(p) = 1 /\ DOMAIN p = {1} /\ p[1] = CursorStep(q)
        BY <3>2
      <4>2. p \in Seq(StepT)
        BY <3>0, <3>2
      <4>3. StepFits(t, p[1]) /\ p[1].do = "cursor"
        BY <3>0, <4>1 DEF CursorStep
      <4>4. Shape(t, p)
        BY <4>1, <4>3 DEF Shape, IsUp
      <4>5. Begins(p)
        BY <4>1, <4>3 DEF Begins
      <4> QED BY <4>1, <4>2, <4>3, <4>4, <4>5
    <3>3. ASSUME NEW q \in Places, NEW x \in {WheelStep, ButtonStep(TRUE), ButtonStep(FALSE)}, p = <<CursorStep(q), x>> PROVE G
      <4>1. Len(p) = 2 /\ DOMAIN p = 1 .. 2 /\ p[1] = CursorStep(q) /\ p[2] = x
        BY <3>3
      <4>2. x \in StepT /\ CursorStep(q) \in StepT /\ StepFits(t, x) /\ StepFits(t, CursorStep(q))
        BY <3>0
      <4>3. x.do \in {"wheel", "button"} /\ CursorStep(q).do = "cursor"
        BY DEF WheelStep, ButtonStep, CursorStep
      <4>4. p \in Seq(StepT)
        BY <3>3, <4>2
      <4>5. \A i \in DOMAIN p : i = 1 \/ i = 2
        BY <4>1
      <4>6. \A i \in DOMAIN p : StepFits(t, p[i]) /\ p[i].do \in {"cursor", "wheel", "button"} /\ (p[i].do = "button" => i = 2)
        BY <4>1, <4>2, <4>3, <4>5
      <4>7. \A i \in DOMAIN p : ~(i < Len(p) /\ p[i].do = "button")
        BY <4>1, <4>6
      <4>8. Shape(t, p)
        BY <4>6, <4>7 DEF Shape, IsUp
      <4>9. Begins(p)
        <5>1. p[1].do = "cursor" /\ p[2].do # "key"
          BY <4>1, <4>3
        <5> QED BY <4>1, <5>1 DEF Begins, IsUp
      <4> QED BY <4>4, <4>6, <4>8, <4>9
    <3>4. \/ \E q \in Places : p = Click(q) \/ p = <<CursorStep(q)>>
          \/ \E q \in Places, x \in {WheelStep, ButtonStep(TRUE), ButtonStep(FALSE)} : p = <<CursorStep(q), x>>
      <4>0. \/ \E q \in Places : p = Click(q) \/ p = <<CursorStep(q)>> \/ p = <<CursorStep(q), WheelStep>>
            \/ \E q \in Places, d \in BOOLEAN : p = <<CursorStep(q), ButtonStep(d)>>
        BY <2>6 DEF MouseCommands
      <4>1. CASE \E q \in Places, d \in BOOLEAN : p = <<CursorStep(q), ButtonStep(d)>>
        <5>1. PICK q \in Places, d \in BOOLEAN : p = <<CursorStep(q), ButtonStep(d)>>
          BY <4>1
        <5>2. d = TRUE \/ d = FALSE
          OBVIOUS
        <5> QED BY <5>1, <5>2
      <4> QED BY <4>0, <4>1
    <3> HIDE DEF G
    <3> QED BY <3>1, <3>2, <3>3, <3>4
  <2> HIDE DEF G
  <2>7. ASSUME p \in KeyCommands PROVE \/ \E k \in Keys : p = Press(k)
                                       \/ \E k \in Keys, d \in BOOLEAN : p = <<KeyStep(k, d)>>
    BY <2>7 DEF KeyCommands
  <2>8. G
    <3>1. CASE has \cap Kbs # {} /\ p \in KeyCommands
      BY <2>3, <2>4, <2>7, <3>1
    <3>2. CASE has \cap Kbs # {} /\ p = Say
      BY <2>5, <3>2
    <3> QED BY <2>1, <2>6, <3>1, <3>2
  <2> QED BY <2>8
<1> QED BY <1>2, <1>3 DEF Threads

(***************************************************************************)
(* The injected input: what holds in every state.                          *)
(***************************************************************************)
Events ==
    {<<"key", k, d>> : k \in AllKeys, d \in BOOLEAN} \cup {<<"button", q, d, c>> : q \in Places, d \in BOOLEAN, c \in BOOLEAN}
    \cup {<<"motion", n, FALSE>> : n \in Int} \cup {<<"wheel", 1, FALSE>>}
Motion == [d : Int, z : Int]

Control ==
    /\ has \subseteq Devices /\ due \subseteq Reads
    /\ steps \in [Threads -> Seq(StepT)] /\ left \in [Threads -> Nat] /\ given \in [Threads -> Nat]

Flow ==
    /\ queue \in [Devices -> Seq(Events)] /\ got \in [Devices -> Seq(Events)] /\ sent \in [Devices -> Seq(Events)]
    /\ \A d \in Devices \ has : queue[d] = << >>

Moving == cursor \in Places /\ owed \in [Mice -> Motion] /\ moved \in [Mice -> Motion] /\ pushed \in Motion

Keyed == keys \subseteq AllKeys /\ seen \in [Threads -> [key : AllKeys \cup {"none"}, by : SUBSET (has \cap Kbs)]]

InputTyped == Control /\ Flow /\ Moving /\ Keyed

Shaped == \A t \in Threads : Shape(t, steps[t])

\* what both kinds of moves of a thread leave it with
LEMMA Turned ==
    ASSUME InputTyped, NEW t \in Threads, NEW rest \in Seq(StepT), Shape(t, rest), Turn(t, rest)
    PROVE  /\ steps' \in [Threads -> Seq(StepT)] /\ left' \in [Threads -> Nat]
           /\ steps'[t] = rest /\ \A u \in Threads \ {t} : steps'[u] = steps[u] /\ left'[u] = left[u]
           /\ left'[t] = IF rest # << >> /\ rest[1].do = "frames" THEN rest[1].arg ELSE 0
<1>1. rest # << >> => 1 \in DOMAIN rest /\ Head(rest) = rest[1]
  BY EmptySeq
<1>2. rest # << >> /\ rest[1].do = "frames" => rest[1].arg \in Nat
  BY <1>1 DEF Shape, StepFits
<1>3. steps \in [Threads -> Seq(StepT)] /\ left \in [Threads -> Nat]
  BY DEF InputTyped, Control, Flow
<1>4. /\ steps' = [steps EXCEPT ![t] = rest]
      /\ left' = [left EXCEPT ![t] = IF rest # << >> /\ rest[1].do = "frames" THEN rest[1].arg ELSE 0]
  BY <1>1 DEF Turn
<1> QED BY <1>2, <1>3, <1>4

\* a step of a thread is the first of its program, and the rest stays to do
LEMMA Stepped ==
    ASSUME InputTyped, Shaped, NEW t \in Threads, Step(t)
    PROVE  /\ steps[t] # << >> /\ 1 \in DOMAIN steps[t] /\ Len(steps[t]) \in Nat /\ Len(steps[t]) > 0
           /\ steps[t][1] \in StepT /\ StepFits(t, steps[t][1]) /\ Head(steps[t]) = steps[t][1]
           /\ Tail(steps[t]) \in Seq(StepT) /\ Shape(t, Tail(steps[t])) /\ Turn(t, Tail(steps[t]))
           /\ Len(Tail(steps[t])) = Len(steps[t]) - 1
           /\ \A i \in 1 .. Len(steps[t]) - 1 : Tail(steps[t])[i] = steps[t][i + 1]
           /\ UNCHANGED <<slow, has, given, game, got, moved, misplaced, short>>
<1>1. steps[t] # << >> /\ Turn(t, Tail(steps[t]))
  BY DEF Step, DiKey, DiButton, DiCursor, DiWheel, PostChars, WaitFrames, Doing
<1>2. UNCHANGED <<slow, has, given, game, got, moved, misplaced, short>>
  BY DEF Step, DiKey, DiButton, DiCursor, DiWheel, PostChars, WaitFrames, game
<1>3. steps[t] \in Seq(StepT) /\ Shape(t, steps[t])
  BY DEF InputTyped, Control, Shaped
<1> DEFINE s == steps[t]
<1> HIDE DEF s
<1>4. s \in Seq(StepT) /\ s # << >> /\ Shape(t, s) /\ Turn(t, Tail(s))
  BY <1>1, <1>3 DEF s
<1>5. 1 \in DOMAIN s /\ Len(s) \in Nat /\ Len(s) > 0 /\ Head(s) = s[1] /\ s[1] \in StepT
  BY <1>4, EmptySeq
<1>6. StepFits(t, s[1])
  BY <1>4, <1>5 DEF Shape
<1>7. Tail(s) \in Seq(StepT) /\ Shape(t, Tail(s))
  BY <1>4, ShapeTail
<1>8. Len(Tail(s)) = Len(s) - 1 /\ \A i \in 1 .. Len(s) - 1 : Tail(s)[i] = s[i + 1]
  BY <1>4, HeadTailProperties
<1> QED BY <1>2, <1>4, <1>5, <1>6, <1>7, <1>8 DEF s

\* an event goes to every device of its kind, behind what is queued there
LEMMA Pushed ==
    ASSUME InputTyped, EachEventOnce, NEW devs \in SUBSET has, NEW e \in Events, Push(devs, e)
    PROVE  /\ queue' \in [Devices -> Seq(Events)] /\ sent' \in [Devices -> Seq(Events)]
           /\ \A d \in Devices : got[d] \o queue'[d] = sent'[d]
           /\ \A d \in Devices : queue'[d] = queue[d] \/ (d \in devs /\ queue'[d] = Append(queue[d], e))
<1>1. queue \in [Devices -> Seq(Events)] /\ sent \in [Devices -> Seq(Events)] /\ got \in [Devices -> Seq(Events)]
  BY DEF InputTyped, Control, Flow
<1>2. /\ queue' = [d \in Devices |-> IF d \in devs THEN Append(queue[d], e) ELSE queue[d]]
      /\ sent' = [d \in Devices |-> IF d \in devs THEN Append(sent[d], e) ELSE sent[d]]
  BY DEF Push
<1>3. ASSUME NEW d \in Devices PROVE Append(queue[d], e) \in Seq(Events) /\ Append(sent[d], e) \in Seq(Events)
  BY <1>1
<1>4. ASSUME NEW d \in Devices PROVE got[d] \o queue'[d] = sent'[d]
  <2> DEFINE q == queue[d]
             g == got[d]
  <2>1. q \in Seq(Events) /\ g \in Seq(Events) /\ <<e>> \in Seq(Events)
    BY <1>1
  <2>2. g \o q = sent[d]
    BY DEF EachEventOnce
  <2>3. CASE d \notin devs
    BY <1>2, <2>2, <2>3
  <2>4. CASE d \in devs
    <3> HIDE DEF q, g
    <3>1. g \o q \in Seq(Events)
      BY <2>1
    <3>2. Append(q, e) = q \o <<e>> /\ Append(g \o q, e) = (g \o q) \o <<e>>
      BY <2>1, <3>1, AppendIsConcat
    <3>3. (g \o q) \o <<e>> = g \o (q \o <<e>>)
      BY <2>1, ConcatAssociative
    <3>4. queue'[d] = Append(q, e) /\ sent'[d] = Append(g \o q, e)
      BY <1>2, <2>2, <2>4 DEF q
    <3> QED BY <3>2, <3>3, <3>4 DEF g
  <2> QED BY <2>3, <2>4
<1> QED BY <1>1, <1>2, <1>3, <1>4

\* what a step does to the keys, the buttons and the motion
LEMMA Kinds ==
    ASSUME InputTyped, Shaped, NEW t \in Threads, Step(t)
    PROVE  LET x == steps[t][1] IN
           \/ x.do = "key" /\ x.arg \in KeysOf(t) /\ DiKey(t)
           \/ x.do = "button" /\ t = Serve /\ DiButton(t)
           \/ x.do = "cursor" /\ t = Serve /\ x.arg \in Places /\ DiCursor(t)
           \/ x.do = "wheel" /\ t = Serve /\ DiWheel(t)
           \/ x.do = "chars" /\ t = Serve /\ PostChars(t)
           \/ x.do = "frames" /\ WaitFrames(t)
<1>1. Head(steps[t]) = steps[t][1] /\ StepFits(t, steps[t][1])
  BY Stepped
<1> QED BY <1>1 DEF Step, DiKey, DiButton, DiCursor, DiWheel, PostChars, WaitFrames, Doing, StepFits

LEMMA ControlNext ==
    ASSUME InputTyped, Shaped, Next
    PROVE  Control' /\ Shaped'
<1>1. CASE \E t \in Threads : Give(t)
  <2>1. PICK t \in Threads : Give(t)
    BY <1>1
  <2>2. PICK p \in Programs(t) : Turn(t, p)
    BY <2>1 DEF Give
  <2>3. p \in Seq(StepT) /\ Shape(t, p)
    BY <2>2, ProgramShape
  <2>4. /\ steps' \in [Threads -> Seq(StepT)] /\ left' \in [Threads -> Nat]
        /\ steps'[t] = p /\ \A u \in Threads \ {t} : steps'[u] = steps[u]
    BY <2>2, <2>3, Turned
  <2>5. has' = has /\ due' = due /\ given' \in [Threads -> Nat]
    BY <2>1 DEF Give, game, InputTyped, Control
  <2>6. Control'
    BY <2>4, <2>5 DEF InputTyped, Control, Reads
  <2>7. Shaped'
    BY <2>3, <2>4 DEF Shaped
  <2> QED BY <2>6, <2>7
<1>2. CASE \E t \in Threads : Step(t)
  <2>1. PICK t \in Threads : Step(t)
    BY <1>2
  <2>2. /\ Tail(steps[t]) \in Seq(StepT) /\ Shape(t, Tail(steps[t])) /\ Turn(t, Tail(steps[t]))
        /\ has' = has /\ given' = given /\ due' = due
    BY <2>1, Stepped DEF game
  <2>3. /\ steps' \in [Threads -> Seq(StepT)] /\ left' \in [Threads -> Nat]
        /\ steps'[t] = Tail(steps[t]) /\ \A u \in Threads \ {t} : steps'[u] = steps[u]
    BY <2>2, Turned
  <2>6. Control'
    BY <2>2, <2>3 DEF InputTyped, Control, Reads
  <2>7. Shaped'
    BY <2>2, <2>3 DEF Shaped
  <2> QED BY <2>6, <2>7
<1>3. CASE \/ \E d \in Kbs, hr \in Answer : KbState(d, hr)
           \/ \E d \in Mice, hr \in Answer : MouseState(d, hr)
           \/ \E d \in Devices, room \in Rooms : DeviceData(d, room)
  <2>1. due' \subseteq due /\ UNCHANGED <<has, steps, left, given>>
    BY <1>3 DEF KbState, MouseState, DeviceData
  <2> QED BY <2>1 DEF InputTyped, Control, Shaped, Reads
<1>4. CASE Present
  <2>1. /\ due' = Reads /\ UNCHANGED <<has, steps, given>>
        /\ left' = [t \in Threads |-> IF left[t] > 0 THEN left[t] - 1 ELSE 0]
    BY <1>4 DEF Present, Count
  <2>2. left' \in [Threads -> Nat]
    BY <2>1 DEF InputTyped, Control
  <2> QED BY <2>1, <2>2 DEF InputTyped, Control, Shaped, Reads
<1> QED BY <1>1, <1>2, <1>3, <1>4 DEF Next

LEMMA KeyedNext ==
    ASSUME InputTyped, Shaped, Next
    PROVE  Keyed'
<1> USE DEF InputTyped, Keyed
<1>1. CASE \E t \in Threads : Give(t)
  BY <1>1 DEF Give, input, history
<1>2. CASE \E t \in Threads : Step(t)
  <2>1. PICK t \in Threads : Step(t)
    BY <1>2
  <2>2. has' = has /\ Head(steps[t]) = steps[t][1] /\ KeysOf(t) \subseteq AllKeys
    BY <2>1, Stepped DEF KeysOf, AllKeys
  <2>3. CASE steps[t][1].arg \in KeysOf(t) /\ DiKey(t)
    <3>1. /\ keys' = IF steps[t][1].down THEN keys \cup {steps[t][1].arg} ELSE keys \ {steps[t][1].arg}
          /\ seen' = IF steps[t][1].down THEN [seen EXCEPT ![t] = [key |-> steps[t][1].arg, by |-> {}]] ELSE seen
      BY <2>2, <2>3 DEF DiKey
    <3>2. steps[t][1].arg \in AllKeys
      BY <2>2, <2>3
    <3>3. seen' \in [Threads -> [key : AllKeys \cup {"none"}, by : SUBSET (has \cap Kbs)]]
      BY <3>1, <3>2
    <3> QED BY <2>2, <3>1, <3>2, <3>3
  <2>4. CASE DiButton(t) \/ DiCursor(t) \/ DiWheel(t) \/ PostChars(t) \/ WaitFrames(t)
    <3>1. keys' = keys /\ seen' = seen
      BY <2>4 DEF DiButton, DiCursor, DiWheel, PostChars, WaitFrames, input
    <3> QED BY <2>2, <3>1
  <2> QED BY <2>1, <2>3, <2>4, Kinds
<1>3. CASE \E d \in Kbs, hr \in Answer : KbState(d, hr)
  <2>1. PICK d \in Kbs, hr \in Answer : KbState(d, hr)
    BY <1>3
  <2>2. d \in has /\ keys' = keys /\ has' = has
    BY <2>1 DEF KbState, Control, Reads, input
  <2>3. \/ seen' = seen
        \/ seen' = [t \in Threads |-> IF seen[t].key \in keys THEN [seen[t] EXCEPT !.by = @ \cup {d}] ELSE seen[t]]
    BY <2>1 DEF KbState
  <2>4. seen' \in [Threads -> [key : AllKeys \cup {"none"}, by : SUBSET (has \cap Kbs)]]
    BY <2>2, <2>3
  <2> QED BY <2>2, <2>4
<1>4. CASE \/ \E d \in Mice, hr \in Answer : MouseState(d, hr)
           \/ \E d \in Devices, room \in Rooms : DeviceData(d, room)
           \/ Present
  BY <1>4 DEF MouseState, DeviceData, Present, input, history
<1> QED BY <1>1, <1>2, <1>3, <1>4 DEF Next

\* what a read of n events takes and what it leaves
LEMMA TookSome ==
    ASSUME NEW g \in Seq(Events), NEW q \in Seq(Events), NEW n \in 0 .. Len(q)
    PROVE  /\ SubSeq(q, 1, n) \in Seq(Events) /\ KeepRest(q, n) \in Seq(Events)
           /\ (g \o SubSeq(q, 1, n)) \o KeepRest(q, n) = g \o q
           /\ Len(SubSeq(q, 1, n)) = n /\ \A i \in 1 .. n : SubSeq(q, 1, n)[i] = q[i]
           /\ n = Len(q) => KeepRest(q, n) = << >>
<1>1. Len(q) \in Nat /\ n \in Nat /\ n =< Len(q) /\ \A i \in 1 .. Len(q) : q[i] \in Events
  BY ElementOfSeq
<1> DEFINE a == SubSeq(q, 1, n)
           b == SubSeq(q, n + 1, Len(q))
<1>2. a \in Seq(Events) /\ Len(a) = n /\ \A i \in 1 .. n : a[i] = q[i]
  <2>1. \A i \in 1 .. n : q[i] \in Events
    BY <1>1
  <2>2. 1 \in Int /\ n \in Int
    BY <1>1
  <2>3. /\ SubSeq(q, 1, n) \in Seq(Events)
        /\ Len(SubSeq(q, 1, n)) = IF 1 =< n THEN n - 1 + 1 ELSE 0
        /\ \A i \in 1 .. n - 1 + 1 : SubSeq(q, 1, n)[i] = q[1 + i - 1]
    BY <2>1, <2>2, SubSeqProperties
  <2>4. n - 1 + 1 = n /\ (~(1 =< n) => n = 0) /\ \A i \in 1 .. n : 1 + i - 1 = i
    BY <1>1
  <2> QED BY <2>3, <2>4
<1>3. b \in Seq(Events)
  <2>1. \A i \in n + 1 .. Len(q) : q[i] \in Events
    BY <1>1
  <2>2. n + 1 \in Int /\ Len(q) \in Int
    BY <1>1
  <2> QED BY <2>1, <2>2, SubSeqProperties
<1>4. a \o b = q
  <2>1. 1 \in 1 .. Len(q) + 1 /\ n \in 1 - 1 .. Len(q) /\ Len(q) \in n .. Len(q)
    BY <1>1
  <2>2. SubSeq(q, 1, n) \o SubSeq(q, n + 1, Len(q)) = SubSeq(q, 1, Len(q))
    BY <2>1, ConcatAdjacentSubSeq
  <2> QED BY <2>2, SubSeqFull
<1>5. (g \o a) \o b = g \o (a \o b)
  <2> HIDE DEF a, b
  <2> QED BY <1>2, <1>3, ConcatAssociative
<1>6. n = Len(q) => b = << >>
  BY <1>1, SubSeqEmpty
<1> QED BY <1>2, <1>3, <1>4, <1>5, <1>6 DEF KeepRest

LEMMA FlowNext ==
    ASSUME InputTyped, Shaped, EachEventOnce, Next
    PROVE  Flow' /\ EachEventOnce'
<1>0. /\ queue \in [Devices -> Seq(Events)] /\ got \in [Devices -> Seq(Events)] /\ sent \in [Devices -> Seq(Events)]
      /\ has \subseteq Devices /\ \A d \in Devices \ has : queue[d] = << >>
  BY DEF InputTyped, Flow, Control
<1>1. CASE \E t \in Threads : Step(t)
  <2>1. PICK t \in Threads : Step(t)
    BY <1>1
  <2>2. has' = has /\ got' = got /\ Head(steps[t]) = steps[t][1] /\ steps[t][1] \in StepT
    BY <2>1, Stepped
  <2> DEFINE x == steps[t][1]
  <2>3. CASE PostChars(t) \/ WaitFrames(t)
    <3>1. queue' = queue /\ sent' = sent
      BY <2>3 DEF PostChars, WaitFrames, input
    <3> QED BY <1>0, <2>2, <3>1 DEF Flow, EachEventOnce
  <2>4. CASE \E e \in Events, devs \in SUBSET has : Push(devs, e)
    <3>1. PICK e \in Events, devs \in SUBSET has : Push(devs, e)
      BY <2>4
    <3>2. /\ queue' \in [Devices -> Seq(Events)] /\ sent' \in [Devices -> Seq(Events)]
          /\ \A d \in Devices : got[d] \o queue'[d] = sent'[d]
          /\ \A d \in Devices : queue'[d] = queue[d] \/ (d \in devs /\ queue'[d] = Append(queue[d], e))
      BY <3>1, Pushed
    <3> QED BY <1>0, <2>2, <3>2 DEF Flow, EachEventOnce
  <2>5. x.down \in BOOLEAN /\ has \cap Kbs \in SUBSET has /\ has \cap Mice \in SUBSET has
    BY <2>2 DEF StepT
  <2>6. CASE x.do = "key" /\ x.arg \in KeysOf(t) /\ DiKey(t)
    <3>1. x.arg \in AllKeys
      BY <2>6 DEF KeysOf, AllKeys
    <3>2. <<"key", x.arg, x.down>> \in Events
      BY <2>5, <3>1 DEF Events
    <3>3. Push(has \cap Kbs, <<"key", x.arg, x.down>>)
      BY <2>2, <2>6 DEF DiKey
    <3> QED BY <2>4, <2>5, <3>2, <3>3
  <2>7. CASE DiButton(t)
    <3>1. cursor \in Places /\ button' = x.down
      BY <2>2, <2>7 DEF DiButton, InputTyped, Moving
    <3>2. PICK c \in BOOLEAN : c = (Len(steps[t]) > 1)
      <4>1. (Len(steps[t]) > 1) \in BOOLEAN
        OBVIOUS
      <4> QED BY <4>1, Zenon
    <3>3. <<"button", cursor, x.down, c>> \in Events
      <4>1. \A q \in Places, u \in BOOLEAN, v \in BOOLEAN : <<"button", q, u, v>> \in Events
        BY DEF Events
      <4> QED BY <2>5, <3>1, <4>1
    <3>4. Push(has \cap Mice, <<"button", cursor, x.down, c>>)
      BY <2>7, <3>1, <3>2 DEF DiButton
    <3> QED BY <2>4, <2>5, <3>3, <3>4
  <2>8. CASE x.arg \in Places /\ DiCursor(t)
    <3>1. cursor \in Places /\ Places \subseteq Int
      BY HookPointsOK DEF InputTyped, Moving, RemoteInputConstantsOK
    <3> DEFINE dx == IF x.arg = cursor THEN 1 ELSE x.arg - cursor
    <3>2. dx \in Int
      <4>1. \A p \in Places, c \in Places : (IF p = c THEN 1 ELSE p - c) \in Int
        BY <3>1
      <4> QED BY <2>8, <3>1, <4>1
    <3>3. Push(has \cap Mice, <<"motion", dx, FALSE>>)
      BY <2>2, <2>8 DEF DiCursor
    <3>4. <<"motion", dx, FALSE>> \in Events
      BY <3>2 DEF Events
    <3> QED BY <2>4, <2>5, <3>3, <3>4
  <2>9. CASE DiWheel(t)
    <3>1. Push(has \cap Mice, <<"wheel", 1, FALSE>>) /\ <<"wheel", 1, FALSE>> \in Events
      BY <2>9 DEF DiWheel, Events
    <3> QED BY <2>4, <2>5, <3>1
  <2> QED BY <2>1, <2>3, <2>6, <2>7, <2>8, <2>9, Kinds
<1>2. CASE \E d \in Devices, room \in Rooms : DeviceData(d, room)
  <2>1. PICK d \in Devices, room \in Rooms : DeviceData(d, room)
    BY <1>2
  <2> DEFINE q == queue[d]
             n == IF room < Len(q) THEN room ELSE Len(q)
  <2>2. q \in Seq(Events) /\ got[d] \in Seq(Events) /\ room \in Nat
    BY <1>0, HookPointsOK DEF RemoteInputConstantsOK
  <2>3. n \in 0 .. Len(q)
    <3>1. Len(q) \in Nat
      BY <2>2
    <3> QED BY <2>2, <3>1
  <2>4. /\ has' = has /\ sent' = sent
        /\ got' = [got EXCEPT ![d] = @ \o SubSeq(q, 1, n)]
        /\ queue' = [queue EXCEPT ![d] = KeepRest(@, n)]
    BY <2>1 DEF DeviceData
  <2>5. /\ SubSeq(q, 1, n) \in Seq(Events) /\ KeepRest(q, n) \in Seq(Events)
        /\ (got[d] \o SubSeq(q, 1, n)) \o KeepRest(q, n) = got[d] \o q
        /\ n = Len(q) => KeepRest(q, n) = << >>
    BY <2>2, <2>3, TookSome
  <2> HIDE DEF n
  <2>6. got[d] \o SubSeq(q, 1, n) \in Seq(Events)
    BY <2>2, <2>5
  <2>7. got' \in [Devices -> Seq(Events)] /\ queue' \in [Devices -> Seq(Events)]
    BY <1>0, <2>4, <2>5, <2>6
  <2>8. \A c \in Devices : got'[c] \o queue'[c] = sent'[c]
    BY <1>0, <2>4, <2>5 DEF EachEventOnce
  <2>9. d \in has
    BY <2>1 DEF DeviceData, InputTyped, Control, Reads
  <2> QED BY <1>0, <2>4, <2>7, <2>8, <2>9 DEF Flow, EachEventOnce
<1>3. CASE \/ \E t \in Threads : Give(t)
           \/ \E d \in Kbs, hr \in Answer : KbState(d, hr)
           \/ \E d \in Mice, hr \in Answer : MouseState(d, hr)
           \/ Present
  <2>1. UNCHANGED <<has, queue, got, sent>>
    BY <1>3 DEF Give, KbState, MouseState, Present, input, history
  <2> QED BY <1>0, <2>1 DEF Flow, EachEventOnce
<1> QED BY <1>1, <1>2, <1>3 DEF Next

\* what is owed to a mouse grows with what was moved
LEMMA Owed ==
    ASSUME InputTyped, MotionIsWhole, NEW field \in {"d", "z"}, NEW n \in Int, Owe(field, n)
    PROVE  /\ owed' \in [Mice -> Motion] /\ pushed' \in Motion
           /\ \A m \in has \cap Mice : moved[m].d + owed'[m].d = pushed'.d /\ moved[m].z + owed'[m].z = pushed'.z
<1>1. /\ owed' = [m \in Mice |-> IF m \in has THEN [owed[m] EXCEPT ![field] = @ + n] ELSE owed[m]]
      /\ pushed' = [pushed EXCEPT ![field] = @ + n]
  BY DEF Owe
<1>2. owed \in [Mice -> Motion] /\ moved \in [Mice -> Motion] /\ pushed \in Motion
  BY DEF InputTyped, Moving
<1>3. ASSUME NEW o \in Motion PROVE [o EXCEPT ![field] = @ + n] \in Motion
  BY DEF Motion
<1>4. owed' \in [Mice -> Motion] /\ pushed' \in Motion
  BY <1>1, <1>2, <1>3
<1>5. ASSUME NEW m \in has \cap Mice PROVE moved[m].d + owed'[m].d = pushed'.d /\ moved[m].z + owed'[m].z = pushed'.z
  <2>1. moved[m].d + owed[m].d = pushed.d /\ moved[m].z + owed[m].z = pushed.z
    BY DEF MotionIsWhole
  <2>2. owed'[m] = [owed[m] EXCEPT ![field] = @ + n]
    BY <1>1
  <2>3. moved[m] \in Motion /\ owed[m] \in Motion
    BY <1>2
  <2>4. CASE field = "d"
    <3>1. owed'[m].d = owed[m].d + n /\ owed'[m].z = owed[m].z /\ pushed'.d = pushed.d + n /\ pushed'.z = pushed.z
      BY <1>1, <1>2, <2>2, <2>3, <2>4 DEF Motion
    <3> QED BY <1>2, <2>1, <2>3, <3>1 DEF Motion
  <2>5. CASE field = "z"
    <3>1. owed'[m].z = owed[m].z + n /\ owed'[m].d = owed[m].d /\ pushed'.z = pushed.z + n /\ pushed'.d = pushed.d
      BY <1>1, <1>2, <2>2, <2>3, <2>5 DEF Motion
    <3> QED BY <1>2, <2>1, <2>3, <3>1 DEF Motion
  <2> QED BY <2>4, <2>5
<1> QED BY <1>4, <1>5

LEMMA MovingNext ==
    ASSUME InputTyped, Shaped, MotionIsWhole, Next
    PROVE  Moving' /\ MotionIsWhole'
<1>0. cursor \in Places /\ owed \in [Mice -> Motion] /\ moved \in [Mice -> Motion] /\ pushed \in Motion
  BY DEF InputTyped, Moving
<1>1. CASE \E t \in Threads : Step(t)
  <2>1. PICK t \in Threads : Step(t)
    BY <1>1
  <2>2. has' = has /\ moved' = moved /\ Head(steps[t]) = steps[t][1]
    BY <2>1, Stepped
  <2>3. CASE DiKey(t) \/ DiButton(t) \/ PostChars(t) \/ WaitFrames(t)
    <3>1. UNCHANGED <<cursor, owed, pushed>>
      BY <2>3 DEF DiKey, DiButton, PostChars, WaitFrames, input
    <3> QED BY <1>0, <2>2, <3>1 DEF Moving, MotionIsWhole
  <2>4. CASE steps[t][1].arg \in Places /\ DiCursor(t)
    <3> DEFINE p == steps[t][1].arg
               dx == IF p = cursor THEN 1 ELSE p - cursor
    <3>1. dx \in Int
      BY <1>0, <2>4, HookPointsOK DEF RemoteInputConstantsOK
    <3>2. Owe("d", dx) /\ cursor' = p
      BY <2>2, <2>4 DEF DiCursor
    <3> HIDE DEF dx
    <3>3. /\ owed' \in [Mice -> Motion] /\ pushed' \in Motion
          /\ \A m \in has \cap Mice : moved[m].d + owed'[m].d = pushed'.d /\ moved[m].z + owed'[m].z = pushed'.z
      BY <3>1, <3>2, Owed
    <3> QED BY <1>0, <2>2, <2>4, <3>2, <3>3 DEF Moving, MotionIsWhole
  <2>5. CASE DiWheel(t)
    <3>1. Owe("z", 1) /\ cursor' = cursor
      BY <2>5 DEF DiWheel
    <3>2. /\ owed' \in [Mice -> Motion] /\ pushed' \in Motion
          /\ \A m \in has \cap Mice : moved[m].d + owed'[m].d = pushed'.d /\ moved[m].z + owed'[m].z = pushed'.z
      BY <3>1, Owed
    <3> QED BY <1>0, <2>2, <3>1, <3>2 DEF Moving, MotionIsWhole
  <2> QED BY <2>1, <2>3, <2>4, <2>5, Kinds
<1>2. CASE \E d \in Mice, hr \in Answer : MouseState(d, hr)
  <2>1. PICK d \in Mice, hr \in Answer : MouseState(d, hr)
    BY <1>2
  <2>2. UNCHANGED <<has, cursor, pushed>>
    BY <2>1 DEF MouseState
  <2>3. CASE UNCHANGED <<moved, owed>>
    BY <1>0, <2>2, <2>3 DEF Moving, MotionIsWhole
  <2>4. CASE /\ moved' = [moved EXCEPT ![d] = [d |-> @.d + owed[d].d, z |-> @.z + owed[d].z]]
             /\ owed' = [owed EXCEPT ![d] = Still]
    <3>1. Still \in Motion /\ Still.d = 0 /\ Still.z = 0
      BY DEF Motion, Still
    <3>2. moved[d] \in Motion /\ owed[d] \in Motion
      BY <1>0
    <3>3. [d |-> moved[d].d + owed[d].d, z |-> moved[d].z + owed[d].z] \in Motion
      BY <3>2 DEF Motion
    <3>4. moved' \in [Mice -> Motion] /\ owed' \in [Mice -> Motion]
      BY <1>0, <2>4, <3>1, <3>3
    <3>5. /\ moved'[d].d = moved[d].d + owed[d].d /\ moved'[d].z = moved[d].z + owed[d].z
          /\ owed'[d].d = 0 /\ owed'[d].z = 0
          /\ \A m \in Mice \ {d} : moved'[m] = moved[m] /\ owed'[m] = owed[m]
      BY <1>0, <2>4, <3>1
    <3>6. moved'[d].d + owed'[d].d = moved[d].d + owed[d].d /\ moved'[d].z + owed'[d].z = moved[d].z + owed[d].z
      BY <3>2, <3>5 DEF Motion
    <3>7. MotionIsWhole'
      BY <2>2, <3>5, <3>6 DEF MotionIsWhole
    <3> QED BY <1>0, <2>2, <3>4, <3>7 DEF Moving
  <2> QED BY <2>1, <2>3, <2>4 DEF MouseState, TakeMotion
<1>3. CASE \/ \E t \in Threads : Give(t)
           \/ \E d \in Kbs, hr \in Answer : KbState(d, hr)
           \/ \E d \in Devices, room \in Rooms : DeviceData(d, room)
           \/ Present
  <2>1. UNCHANGED <<has, cursor, owed, pushed, moved>>
    BY <1>3 DEF Give, KbState, DeviceData, Present, input, history
  <2> QED BY <1>0, <2>1 DEF Moving, MotionIsWhole
<1> QED BY <1>1, <1>2, <1>3 DEF Next

\* a key is held until the wait behind its press is over, and every keyboard has been read by then
Holding(t) ==
    (~slow /\ Len(steps[t]) > 1 /\ IsUp(steps[t][2])) =>
        /\ seen[t].key = steps[t][2].arg /\ steps[t][2].arg \in keys /\ left[t] =< 2
        /\ left[t] = 1 => \A d \in has \cap Kbs : <<d, "state">> \in due \/ d \in seen[t].by
        /\ left[t] = 0 => \A d \in has \cap Kbs : d \in seen[t].by

Released(t) == (~slow /\ Len(steps[t]) > 1 /\ IsUp(steps[t][1])) => \A d \in has \cap Kbs : d \in seen[t].by

Presses == \A t \in Threads : Holding(t) /\ Released(t)

LEMMA PressSeenIs ==
    ASSUME InputTyped, Presses
    PROVE  PressSeen
<1> SUFFICES ASSUME NEW t \in Threads, Doing(t, "key"), Len(steps[t]) > 1, ~Head(steps[t]).down, ~slow
             PROVE  seen[t].by = has \cap Kbs
  BY DEF PressSeen
<1>1. steps[t] \in Seq(StepT) /\ steps[t] # << >> /\ seen[t].by \subseteq has \cap Kbs
  BY DEF InputTyped, Control, Keyed, Doing
<1>2. Head(steps[t]) = steps[t][1]
  BY <1>1
<1>3. IsUp(steps[t][1])
  BY <1>2 DEF Doing, IsUp
<1> QED BY <1>1, <1>3 DEF Presses, Released

\* a thread that moves does not touch the key another one holds
LEMMA OthersKeep ==
    ASSUME InputTyped, Shaped, Presses, NEW t \in Threads, Step(t), NEW u \in Threads, u # t
    PROVE  Holding(u)' /\ Released(u)'
<1>1. /\ steps'[u] = steps[u] /\ left'[u] = left[u] /\ slow' = slow /\ has' = has /\ due' = due
      /\ Head(steps[t]) = steps[t][1]
  <2>1. /\ Tail(steps[t]) \in Seq(StepT) /\ Shape(t, Tail(steps[t])) /\ Turn(t, Tail(steps[t]))
        /\ slow' = slow /\ has' = has /\ due' = due /\ Head(steps[t]) = steps[t][1]
    BY Stepped DEF game
  <2> QED BY <2>1, Turned
<1>2. seen'[u] = seen[u]
  <2>1. CASE DiKey(t)
    <3>1. seen \in [Threads -> [key : AllKeys \cup {"none"}, by : SUBSET (has \cap Kbs)]]
      BY DEF InputTyped, Keyed
    <3> QED BY <2>1, <3>1 DEF DiKey
  <2>2. CASE ~DiKey(t)
    BY <2>2 DEF Step, DiButton, DiCursor, DiWheel, PostChars, WaitFrames
  <2> QED BY <2>1, <2>2
<1>3. \A k \in keys : k \in keys' \/ k \in KeysOf(t)
  <2>1. CASE steps[t][1].arg \in KeysOf(t) /\ DiKey(t)
    BY <1>1, <2>1 DEF DiKey
  <2>2. CASE DiButton(t) \/ DiCursor(t) \/ DiWheel(t) \/ PostChars(t) \/ WaitFrames(t)
    BY <2>2 DEF DiButton, DiCursor, DiWheel, PostChars, WaitFrames, input
  <2> QED BY <2>1, <2>2, Kinds
<1>4. KeysOf(t) \cap KeysOf(u) = {}
  BY HookPointsOK DEF RemoteInputConstantsOK, KeysOf, Threads, Serve, Login
<1>5. ASSUME Len(steps[u]) > 1, IsUp(steps[u][2]) PROVE steps[u][2].arg \in KeysOf(u)
  <2>1. steps[u] \in Seq(StepT) /\ Shape(u, steps[u])
    BY DEF InputTyped, Control, Shaped
  <2>2. 2 \in DOMAIN steps[u]
    BY <1>5, <2>1
  <2> QED BY <1>5, <2>1, <2>2 DEF Shape, StepFits, IsUp
<1>6. Released(u)'
  BY <1>1, <1>2 DEF Presses, Released
<1>7. Holding(u)'
  <2>1. Holding(u)
    BY DEF Presses
  <2> QED BY <1>1, <1>2, <1>3, <1>4, <1>5, <2>1 DEF Holding
<1> QED BY <1>6, <1>7

\* the thread that moves: a key that goes down starts its wait, and one goes up behind a wait that is over
LEMMA MoverHolds ==
    ASSUME InputTyped, Shaped, Presses, NEW t \in Threads, Step(t)
    PROVE  Holding(t)' /\ Released(t)'
<1> DEFINE s == steps[t]
           r == Tail(s)
<1>0. /\ s \in Seq(StepT) /\ Shape(t, s) /\ Len(s) \in Nat /\ Len(s) > 0 /\ Head(s) = s[1]
      /\ r \in Seq(StepT) /\ Shape(t, r) /\ Turn(t, r)
      /\ Len(r) = Len(s) - 1 /\ \A i \in 1 .. Len(s) - 1 : r[i] = s[i + 1]
      /\ slow' = slow /\ has' = has /\ due' = due
  BY Stepped DEF InputTyped, Control, Shaped, game
<1>1. steps'[t] = r /\ left'[t] = IF r # << >> /\ r[1].do = "frames" THEN r[1].arg ELSE 0
  BY <1>0, Turned
<1>2. DOMAIN s = 1 .. Len(s)
  BY <1>0
<1>x. Len(steps'[t]) = Len(s) - 1
  BY <1>0, <1>1
<1>3. ASSUME ~slow, Len(steps'[t]) > 1, IsUp(steps'[t][2])
      PROVE  /\ seen'[t].key = steps'[t][2].arg /\ steps'[t][2].arg \in keys' /\ left'[t] = 2
  <2>1. 3 \in DOMAIN s /\ r[2] = s[3] /\ r[1] = s[2] /\ r # << >>
    <3>1. Len(s) > 2 /\ 1 \in 1 .. Len(s) - 1 /\ 2 \in 1 .. Len(s) - 1
      BY <1>0, <1>x, <1>3
    <3>2. r[1] = s[1 + 1] /\ r[2] = s[2 + 1] /\ Len(r) > 1
      BY <1>0, <3>1
    <3>3. r # << >>
      <4> HIDE DEF r
      <4> QED BY <3>2
    <3>4. 3 \in DOMAIN s /\ 1 + 1 = 2 /\ 2 + 1 = 3
      BY <1>0, <1>2, <3>1
    <3> QED BY <3>2, <3>3, <3>4
  <2>2. IsUp(s[3])
    BY <1>1, <1>3, <2>1
  <2>3. s[2] = FramesStep(2) /\ s[1] = KeyStep(s[3].arg, TRUE)
    <3>1. 3 > 1 /\ 3 > 2 /\ 3 - 1 = 2 /\ 3 - 2 = 1
      OBVIOUS
    <3>2. s[3 - 1] = FramesStep(2) /\ s[3 - 2] = KeyStep(s[3].arg, TRUE)
      BY <1>0, <2>1, <2>2, <3>1, Zenon DEF Shape
    <3> QED BY <3>1, <3>2
  <2>4. s[1].do = "key" /\ s[1].down /\ s[1].arg = s[3].arg
    BY <2>3 DEF KeyStep
  <2>5. DiKey(t)
    BY <2>4, Kinds
  <2>6. keys' = keys \cup {s[3].arg} /\ seen' = [seen EXCEPT ![t] = [key |-> s[3].arg, by |-> {}]]
    BY <1>0, <2>4, <2>5 DEF DiKey
  <2>7. seen'[t].key = s[3].arg
    BY <2>6 DEF InputTyped, Keyed
  <2>8. left'[t] = 2
    BY <1>1, <2>1, <2>3 DEF FramesStep
  <2> QED BY <1>1, <2>1, <2>6, <2>7, <2>8
<1>4. ASSUME ~slow, Len(steps'[t]) > 1, IsUp(steps'[t][1]) PROVE \A d \in has \cap Kbs : d \in seen'[t].by
  <2>1. 2 \in DOMAIN s /\ r[1] = s[2] /\ Len(s) > 1
    <3>1. Len(s) > 2 /\ 1 \in 1 .. Len(s) - 1
      BY <1>0, <1>x, <1>4
    <3>2. r[1] = s[1 + 1]
      BY <1>0, <3>1
    <3> QED BY <1>0, <1>2, <3>1, <3>2
  <2>2. IsUp(s[2])
    BY <1>1, <1>4, <2>1
  <2>3. s[1] = FramesStep(2)
    <3>1. 2 > 1 /\ 2 - 1 = 1
      OBVIOUS
    <3>2. s[2 - 1] = FramesStep(2)
      BY <1>0, <2>1, <2>2, <3>1, Zenon DEF Shape
    <3> QED BY <3>1, <3>2
  <2>4. s[1].do = "frames"
    BY <2>3 DEF FramesStep
  <2>5. WaitFrames(t)
    BY <2>4, Kinds
  <2>6. left[t] = 0 /\ seen' = seen
    BY <1>4, <2>5 DEF WaitFrames, InputTyped, Control
  <2>7. Holding(t)
    BY DEF Presses
  <2> QED BY <1>4, <2>1, <2>2, <2>6, <2>7 DEF Holding
<1>5. Holding(t)'
  <2> HIDE DEF s, r
  <2> QED BY <1>0, <1>3 DEF Holding
<1>6. Released(t)'
  <2> HIDE DEF s, r
  <2> QED BY <1>0, <1>4 DEF Released
<1> QED BY <1>5, <1>6

LEMMA PressesNext ==
    ASSUME InputTyped, Shaped, Presses, Next
    PROVE  Presses'
<1> SUFFICES ASSUME NEW u \in Threads PROVE Holding(u)' /\ Released(u)'
  BY DEF Presses
<1>0. Holding(u) /\ Released(u)
  BY DEF Presses
<1>1. CASE \E t \in Threads : Give(t)
  <2>1. PICK t \in Threads : Give(t)
    BY <1>1
  <2>2. PICK p \in Programs(t) : Turn(t, p)
    BY <2>1 DEF Give
  <2>3. p \in Seq(StepT) /\ Shape(t, p) /\ Begins(p)
    BY <2>2, ProgramShape
  <2>4. steps'[t] = p /\ (u # t => steps'[u] = steps[u] /\ left'[u] = left[u])
    BY <2>2, <2>3, Turned
  <2>5. UNCHANGED <<slow, has, keys, due, seen>>
    BY <2>1 DEF Give, input, game, history
  <2>6. CASE u = t
    BY <2>3, <2>4, <2>6 DEF Begins, Holding, Released
  <2>7. CASE u # t
    BY <1>0, <2>4, <2>5, <2>7 DEF Holding, Released
  <2> QED BY <2>6, <2>7
<1>2. CASE \E t \in Threads : Step(t)
  BY <1>2, OthersKeep, MoverHolds
<1>3. CASE \E d \in Kbs, hr \in Answer : KbState(d, hr)
  <2>1. PICK d \in Kbs, hr \in Answer : KbState(d, hr)
    BY <1>3
  <2>2. UNCHANGED <<slow, has, keys, steps, left>> /\ due' = due \ {<<d, "state">>}
    BY <2>1 DEF KbState, input
  <2>3. /\ seen'[u].key = seen[u].key /\ seen[u].by \subseteq seen'[u].by
        /\ seen[u].key \in keys => d \in seen'[u].by
    <3>1. seen \in [Threads -> [key : AllKeys \cup {"none"}, by : SUBSET (has \cap Kbs)]]
      BY DEF InputTyped, Keyed
    <3>2. CASE StateHealthy(hr)
      BY <2>1, <3>1, <3>2 DEF KbState
    <3>3. CASE ~StateHealthy(hr)
      <4>1. keys = {} /\ seen' = seen
        BY <2>1, <3>3 DEF KbState, StateHealthy
      <4> QED BY <4>1
    <3> QED BY <3>2, <3>3
  <2> QED BY <1>0, <2>2, <2>3 DEF Holding, Released
<1>4. CASE \/ \E d \in Mice, hr \in Answer : MouseState(d, hr)
           \/ \E d \in Devices, room \in Rooms : DeviceData(d, room)
  <2>1. UNCHANGED <<slow, has, keys, steps, left, seen>>
    BY <1>4 DEF MouseState, DeviceData
  <2>2. \A d \in has \cap Kbs : <<d, "state">> \in due => <<d, "state">> \in due'
    BY <1>4, HookPointsOK DEF MouseState, DeviceData, RemoteInputConstantsOK
  <2> QED BY <1>0, <2>1, <2>2 DEF Holding, Released
<1>5. CASE Present
  <2>1. /\ UNCHANGED <<slow, has, keys, steps, seen>> /\ due = {} /\ due' = Reads
        /\ left' = [t \in Threads |-> IF left[t] > 0 THEN left[t] - 1 ELSE 0]
    BY <1>5 DEF Present, Count, input, history
  <2>2. left[u] \in Nat /\ left'[u] = IF left[u] > 0 THEN left[u] - 1 ELSE 0
    BY <2>1 DEF InputTyped, Control
  <2>3. \A d \in has \cap Kbs : <<d, "state">> \in due'
    BY <2>1 DEF Reads
  <2>4. Released(u)'
    BY <1>0, <2>1 DEF Released
  <2>5. Holding(u)'
    <3>1. left[u] =< 2 => left'[u] =< 2
      BY <2>2
    <3>2. left'[u] = 0 => left[u] = 0 \/ left[u] = 1
      BY <2>2
    <3>3. \A d \in has \cap Kbs : <<d, "state">> \notin due
      BY <2>1
    <3> QED BY <1>0, <2>1, <2>3, <3>1, <3>2, <3>3 DEF Holding
  <2> QED BY <2>4, <2>5
<1> QED BY <1>1, <1>2, <1>3, <1>4, <1>5 DEF Next

\* the press of a click stays queued no longer than the pause behind it, in which the cursor rests
ClickPress(e) == e[1] = "button" /\ e[3] /\ e[4]
Paused(d) ==
    /\ Len(steps[Serve]) = 2 /\ steps[Serve][1] = FramesStep(2) /\ steps[Serve][2].do = "button"
    /\ left[Serve] = 2 \/ (left[Serve] = 1 /\ <<d, "data">> \in due)
Clicking(d) == \A i \in DOMAIN queue[d] : ClickPress(queue[d][i]) => queue[d][i][2] = cursor /\ Paused(d)
Clicks == ~slow /\ ~short => ~misplaced /\ \A d \in Devices : Clicking(d)

\* a step of the controller's thread: the pause is over and its press is read, unless the step is a press itself
LEMMA ServeClicks ==
    ASSUME InputTyped, Shaped, EachEventOnce, ~slow, \A d \in Devices : Clicking(d), Step(Serve), NEW d \in Devices
    PROVE  Clicking(d)'
<1> DEFINE s == steps[Serve]
           r == Tail(s)
<1>0. /\ Serve \in Threads /\ s \in Seq(StepT) /\ Shape(Serve, s) /\ Len(s) \in Nat /\ Len(s) > 0 /\ Head(s) = s[1] /\ s[1] \in StepT
      /\ r \in Seq(StepT) /\ Shape(Serve, r) /\ Turn(Serve, r)
      /\ Len(r) = Len(s) - 1 /\ \A i \in 1 .. Len(s) - 1 : r[i] = s[i + 1]
      /\ 1 \in DOMAIN s
  BY Stepped DEF InputTyped, Control, Shaped, Threads
<1>1. steps'[Serve] = r /\ left'[Serve] = IF r # << >> /\ r[1].do = "frames" THEN r[1].arg ELSE 0
  BY <1>0, Turned
<1>2. queue \in [Devices -> Seq(Events)]
  BY DEF InputTyped, Flow
<1>3. \A i \in DOMAIN queue[d] : ~ClickPress(queue[d][i])
  <2> SUFFICES ASSUME Paused(d) PROVE FALSE
    BY DEF Clicking
  <2>1. s[1].do = "frames" /\ left[Serve] > 0
    BY DEF Paused, FramesStep
  <2>2. WaitFrames(Serve)
    BY <1>0, <2>1, Kinds
  <2> QED BY <2>1, <2>2 DEF WaitFrames
<1>4. ASSUME NEW e \in Events, NEW devs \in SUBSET has, Push(devs, e), ~ClickPress(e)
      PROVE  Clicking(d)'
  <2>1. queue'[d] = queue[d] \/ queue'[d] = Append(queue[d], e)
    BY <1>4, Pushed
  <2>2. queue[d] \in Seq(Events)
    BY <1>2
  <2>3. \A i \in DOMAIN queue'[d] : ~ClickPress(queue'[d][i])
    <3>1. CASE queue'[d] = queue[d]
      BY <1>3, <3>1
    <3>2. CASE queue'[d] = Append(queue[d], e)
      <4> DEFINE q == queue[d]
      <4>1. q \in Seq(Events) /\ \A i \in DOMAIN q : ~ClickPress(q[i])
        BY <1>3, <2>2
      <4>2. queue'[d] = Append(q, e)
        BY <3>2
      <4> HIDE DEF q
      <4>3. \A i \in DOMAIN Append(q, e) : ~ClickPress(Append(q, e)[i])
        <5>1. DOMAIN Append(q, e) = 1 .. Len(q) + 1 /\ DOMAIN q = 1 .. Len(q) /\ Len(q) \in Nat
          BY <4>1
        <5>2. \A i \in 1 .. Len(q) : Append(q, e)[i] = q[i]
          BY <4>1
        <5>3. Append(q, e)[Len(q) + 1] = e
          BY <4>1
        <5>4. \A i \in 1 .. Len(q) + 1 : i \in 1 .. Len(q) \/ i = Len(q) + 1
          BY <5>1
        <5> QED BY <1>4, <4>1, <5>1, <5>2, <5>3, <5>4
      <4> QED BY <4>2, <4>3
    <3> QED BY <2>1, <3>1, <3>2
  <2> QED BY <2>3 DEF Clicking
<1>5. s[1].down \in BOOLEAN /\ has \cap Kbs \in SUBSET has /\ has \cap Mice \in SUBSET has
  BY <1>0 DEF StepT
<1>6. CASE s[1].do = "key" /\ s[1].arg \in KeysOf(Serve) /\ DiKey(Serve)
  <2>1. s[1].arg \in AllKeys
    BY <1>6 DEF KeysOf, AllKeys
  <2>2. <<"key", s[1].arg, s[1].down>> \in Events
    BY <1>5, <2>1 DEF Events
  <2>3. Push(has \cap Kbs, <<"key", s[1].arg, s[1].down>>)
    BY <1>0, <1>6 DEF DiKey
  <2>4. ~ClickPress(<<"key", s[1].arg, s[1].down>>)
    BY DEF ClickPress
  <2> QED BY <1>4, <1>5, <2>2, <2>3, <2>4
<1>7. CASE DiButton(Serve)
  <2>1. cursor \in Places /\ cursor' = cursor /\ button' = s[1].down /\ s[1].do = "button"
    BY <1>0, <1>7 DEF DiButton, InputTyped, Moving, Doing
  <2>2. PICK c \in BOOLEAN : c = (Len(s) > 1)
    <3>1. (Len(s) > 1) \in BOOLEAN
      OBVIOUS
    <3> QED BY <3>1, Zenon
  <2> DEFINE e == <<"button", cursor, s[1].down, c>>
  <2>3. e \in Events
    <3>1. \A q \in Places, u \in BOOLEAN, v \in BOOLEAN : <<"button", q, u, v>> \in Events
      BY DEF Events
    <3> QED BY <1>5, <2>1, <3>1
  <2>4. Push(has \cap Mice, e)
    BY <1>7, <2>1, <2>2 DEF DiButton
  <2>5. CASE ~ClickPress(e)
    <3> HIDE DEF e
    <3> QED BY <1>4, <1>5, <2>3, <2>4, <2>5
  <2>6. CASE ClickPress(e)
    <3>1. s[1].down /\ c
      BY <2>6 DEF ClickPress
    <3>2. Len(s) > 1
      BY <2>2, <3>1
    <3>3. Len(s) = 1 + 2 /\ s[1 + 1] = FramesStep(2) /\ s[1 + 2].do = "button"
      <4> HIDE DEF s
      <4> QED BY <1>0, <2>1, <3>1, <3>2 DEF Shape
    <3>4. Len(r) = 2 /\ r[1] = FramesStep(2) /\ r[2].do = "button" /\ r # << >>
      <4> HIDE DEF s, r
      <4>1. Len(s) = 3 /\ s[2] = FramesStep(2) /\ s[3].do = "button"
        BY <3>3
      <4>2. r[1] = s[1 + 1] /\ r[2] = s[2 + 1] /\ Len(r) = 2
        BY <1>0, <4>1
      <4> QED BY <4>1, <4>2
    <3>5. Paused(d)'
      <4>1. left'[Serve] = 2
        BY <1>1, <3>4 DEF FramesStep
      <4> HIDE DEF s, r
      <4> QED BY <1>1, <3>4, <4>1 DEF Paused
    <3>6. \A i \in DOMAIN queue'[d] : ClickPress(queue'[d][i]) => queue'[d][i][2] = cursor
      <4> DEFINE q == queue[d]
      <4>1. q \in Seq(Events) /\ \A i \in DOMAIN q : ~ClickPress(q[i])
        BY <1>2, <1>3
      <4>2. e[2] = cursor
        OBVIOUS
      <4>3. queue'[d] = q \/ queue'[d] = Append(q, e)
        <5> HIDE DEF e
        <5> QED BY <1>5, <2>3, <2>4, Pushed
      <4> HIDE DEF q, e
      <4>4. \A i \in DOMAIN Append(q, e) : ClickPress(Append(q, e)[i]) => Append(q, e)[i][2] = cursor
        <5>1. DOMAIN Append(q, e) = 1 .. Len(q) + 1 /\ DOMAIN q = 1 .. Len(q) /\ Len(q) \in Nat
          BY <2>3, <4>1
        <5>2. \A i \in 1 .. Len(q) : Append(q, e)[i] = q[i]
          BY <4>1
        <5>3. Append(q, e)[Len(q) + 1] = e
          BY <4>1
        <5>4. \A i \in 1 .. Len(q) + 1 : i \in 1 .. Len(q) \/ i = Len(q) + 1
          BY <5>1
        <5> QED BY <4>1, <4>2, <5>1, <5>2, <5>3, <5>4
      <4> QED BY <4>1, <4>3, <4>4
    <3> QED BY <2>1, <3>5, <3>6 DEF Clicking
  <2> QED BY <2>5, <2>6
<1>8. CASE s[1].arg \in Places /\ DiCursor(Serve)
  <2>1. cursor \in Places /\ Places \subseteq Int
    BY HookPointsOK DEF InputTyped, Moving, RemoteInputConstantsOK
  <2> DEFINE dx == IF s[1].arg = cursor THEN 1 ELSE s[1].arg - cursor
  <2>2. dx \in Int
    <3>1. \A p \in Places, c \in Places : (IF p = c THEN 1 ELSE p - c) \in Int
      BY <2>1
    <3> QED BY <1>8, <2>1, <3>1
  <2>3. Push(has \cap Mice, <<"motion", dx, FALSE>>)
    BY <1>0, <1>8 DEF DiCursor
  <2>4. <<"motion", dx, FALSE>> \in Events
    BY <2>2 DEF Events
  <2>5. ~ClickPress(<<"motion", dx, FALSE>>)
    BY DEF ClickPress
  <2> QED BY <1>4, <1>5, <2>3, <2>4, <2>5
<1>9. CASE DiWheel(Serve)
  <2>1. Push(has \cap Mice, <<"wheel", 1, FALSE>>) /\ <<"wheel", 1, FALSE>> \in Events
    BY <1>9 DEF DiWheel, Events
  <2>2. ~ClickPress(<<"wheel", 1, FALSE>>)
    BY DEF ClickPress
  <2> QED BY <1>4, <1>5, <2>1, <2>2
<1>10. CASE PostChars(Serve) \/ WaitFrames(Serve)
  <2>1. queue' = queue
    BY <1>10 DEF PostChars, WaitFrames, input
  <2> QED BY <1>3, <2>1 DEF Clicking
<1> QED BY <1>0, <1>6, <1>7, <1>8, <1>9, <1>10, Kinds

LEMMA ClicksNext ==
    ASSUME InputTyped, Shaped, EachEventOnce, Clicks, Next
    PROVE  Clicks'
<1> SUFFICES ASSUME ~slow', ~short' PROVE ~misplaced' /\ \A d \in Devices : Clicking(d)'
  BY DEF Clicks
<1>0. slow' = slow /\ ~short
  <2>1. CASE \E t \in Threads : Step(t)
    BY <2>1, Stepped
  <2>2. CASE \/ \E t \in Threads : Give(t)
             \/ \E d \in Kbs, hr \in Answer : KbState(d, hr)
             \/ \E d \in Mice, hr \in Answer : MouseState(d, hr)
             \/ Present
    <3>1. slow' = slow /\ short' = short
      BY <2>2 DEF Give, KbState, MouseState, Present, history
    <3> QED BY <3>1
  <2>3. CASE \E d \in Devices, room \in Rooms : DeviceData(d, room)
    BY <2>3 DEF DeviceData
  <2> QED BY <2>1, <2>2, <2>3 DEF Next
<1>1. ~slow /\ ~misplaced /\ \A d \in Devices : Clicking(d)
  BY <1>0 DEF Clicks
<1>2. queue \in [Devices -> Seq(Events)] /\ Serve \in Threads
  BY DEF InputTyped, Flow, Threads
<1>3. CASE \E t \in Threads : Give(t)
  <2>1. PICK t \in Threads : Give(t)
    BY <1>3
  <2>2. PICK p \in Programs(t) : Turn(t, p)
    BY <2>1 DEF Give
  <2>3. p \in Seq(StepT) /\ Shape(t, p)
    BY <2>2, ProgramShape
  <2>4. t # Serve => steps'[Serve] = steps[Serve] /\ left'[Serve] = left[Serve]
    BY <1>2, <2>2, <2>3, Turned
  <2>5. UNCHANGED <<cursor, queue, due, misplaced>> /\ steps[t] = << >>
    BY <2>1 DEF Give, input, game, history
  <2>6. CASE t = Serve
    <3>1. \A d \in Devices : ~Paused(d)
      BY <2>5, <2>6 DEF Paused
    <3> QED BY <1>1, <2>5, <3>1 DEF Clicking
  <2>7. CASE t # Serve
    BY <1>1, <2>4, <2>5, <2>7 DEF Clicking, Paused
  <2> QED BY <2>6, <2>7
<1>4. CASE \E t \in Threads : Step(t)
  <2>1. PICK t \in Threads : Step(t)
    BY <1>4
  <2>2. misplaced' = misplaced
    BY <2>1, Stepped
  <2>3. CASE t = Serve
    BY <1>1, <2>1, <2>2, <2>3, ServeClicks
  <2>4. CASE t # Serve
    <3>1. /\ Tail(steps[t]) \in Seq(StepT) /\ Shape(t, Tail(steps[t])) /\ Turn(t, Tail(steps[t]))
          /\ due' = due /\ Head(steps[t]) = steps[t][1] /\ steps[t][1] \in StepT
      BY <2>1, Stepped DEF game
    <3>2. steps'[Serve] = steps[Serve] /\ left'[Serve] = left[Serve]
      BY <1>2, <2>4, <3>1, Turned
    <3>3. (steps[t][1].arg \in KeysOf(t) /\ DiKey(t)) \/ WaitFrames(t)
      BY <2>1, <2>4, Kinds
    <3>4. cursor' = cursor
      BY <3>3 DEF DiKey, WaitFrames, input
    <3>5. CASE WaitFrames(t)
      <4>1. queue' = queue
        BY <3>5 DEF WaitFrames, input
      <4> QED BY <1>1, <2>2, <3>1, <3>2, <3>4, <4>1 DEF Clicking, Paused
    <3>6. CASE steps[t][1].arg \in KeysOf(t) /\ DiKey(t)
      <4>1. steps[t][1].arg \in AllKeys /\ steps[t][1].down \in BOOLEAN
        BY <3>1, <3>6 DEF KeysOf, AllKeys, StepT
      <4> DEFINE e == <<"key", steps[t][1].arg, steps[t][1].down>>
      <4>2. e \in Events
        BY <4>1 DEF Events
      <4>3. Push(has \cap Kbs, e)
        BY <3>1, <3>6 DEF DiKey
      <4>4. ~ClickPress(e)
        BY DEF ClickPress
      <4> HIDE DEF e
      <4> SUFFICES ASSUME NEW d \in Devices PROVE Clicking(d)'
        BY <1>1, <2>2
      <4>5. queue'[d] = queue[d] \/ queue'[d] = Append(queue[d], e)
        BY <4>2, <4>3, Pushed
      <4>6. Paused(d) => Paused(d)'
        BY <3>1, <3>2 DEF Paused
      <4> DEFINE q == queue[d]
      <4>7. q \in Seq(Events) /\ \A i \in DOMAIN q : ClickPress(q[i]) => q[i][2] = cursor' /\ Paused(d)'
        BY <1>1, <1>2, <3>4, <4>6 DEF Clicking
      <4>8. queue'[d] = q \/ queue'[d] = Append(q, e)
        BY <4>5
      <4> HIDE DEF q
      <4>9. \A i \in DOMAIN queue'[d] : ClickPress(queue'[d][i]) => \E j \in DOMAIN q : queue'[d][i] = q[j]
        <5>1. DOMAIN Append(q, e) = 1 .. Len(q) + 1 /\ DOMAIN q = 1 .. Len(q) /\ Len(q) \in Nat
          BY <4>2, <4>7
        <5>2. \A i \in 1 .. Len(q) : Append(q, e)[i] = q[i]
          BY <4>7
        <5>3. Append(q, e)[Len(q) + 1] = e
          BY <4>7
        <5>4. \A i \in 1 .. Len(q) + 1 : i \in 1 .. Len(q) \/ i = Len(q) + 1
          BY <5>1
        <5> QED BY <4>4, <4>8, <5>1, <5>2, <5>3, <5>4
      <4> QED BY <4>7, <4>9 DEF Clicking
    <3> QED BY <3>3, <3>5, <3>6
  <2> QED BY <2>3, <2>4
<1>5. CASE \/ \E d \in Kbs, hr \in Answer : KbState(d, hr)
           \/ \E d \in Mice, hr \in Answer : MouseState(d, hr)
  <2>1. UNCHANGED <<cursor, queue, steps, left, misplaced>>
    BY <1>5 DEF KbState, MouseState, input
  <2>2. \A d \in Devices : <<d, "data">> \in due => <<d, "data">> \in due'
    BY <1>5 DEF KbState, MouseState
  <2> QED BY <1>1, <2>1, <2>2 DEF Clicking, Paused
<1>6. CASE \E d \in Devices, room \in Rooms : DeviceData(d, room)
  <2>1. PICK d \in Devices, room \in Rooms : DeviceData(d, room)
    BY <1>6
  <2> DEFINE q == queue[d]
             n == IF room < Len(q) THEN room ELSE Len(q)
  <2>2. /\ UNCHANGED <<cursor, steps, left>> /\ due' = due \ {<<d, "data">>}
        /\ queue' = [queue EXCEPT ![d] = KeepRest(@, n)]
        /\ misplaced' = (misplaced \/ \E i \in 1 .. n : Misplaced(SubSeq(q, 1, n)[i]))
        /\ short' = (short \/ n < Len(q))
    BY <2>1 DEF DeviceData
  <2>3. q \in Seq(Events) /\ Len(q) \in Nat /\ room \in Nat
    BY <1>2, HookPointsOK DEF RemoteInputConstantsOK
  <2>4. n = Len(q) /\ n \in 0 .. Len(q)
    <3>1. ~(n < Len(q))
      <4> HIDE DEF n
      <4> QED BY <2>2
    <3>2. ~(room < Len(q))
      BY <3>1
    <3> QED BY <2>3, <3>2
  <2> HIDE DEF n
  <2>5. KeepRest(q, n) = << >> /\ \A i \in 1 .. n : SubSeq(q, 1, n)[i] = q[i]
    BY <2>3, <2>4, TookSome
  <2>6. ~misplaced'
    <3>1. \A i \in 1 .. n : ClickPress(q[i]) => q[i][2] = cursor
      BY <1>1, <2>3, <2>4 DEF Clicking
    <3> QED BY <1>1, <2>2, <2>5, <3>1 DEF Misplaced, ClickPress
  <2>7. ASSUME NEW c \in Devices PROVE Clicking(c)'
    <3>1. CASE c = d
      <4>1. queue'[c] = << >>
        BY <1>2, <2>2, <2>5, <3>1
      <4>2. DOMAIN queue'[c] = {}
        BY <4>1
      <4> QED BY <4>2 DEF Clicking
    <3>2. CASE c # d
      <4>1. queue'[c] = queue[c] /\ (<<c, "data">> \in due => <<c, "data">> \in due')
        BY <1>2, <2>2, <3>2
      <4> QED BY <1>1, <2>2, <4>1 DEF Clicking, Paused
    <3> QED BY <3>1, <3>2
  <2> QED BY <2>6, <2>7
<1>7. CASE Present
  <2>1. /\ UNCHANGED <<has, cursor, queue, steps, misplaced>> /\ due = {} /\ due' = Reads
        /\ left' = [t \in Threads |-> IF left[t] > 0 THEN left[t] - 1 ELSE 0]
    BY <1>7 DEF Present, Count, input, history
  <2>2. left' [Serve] = IF left[Serve] > 0 THEN left[Serve] - 1 ELSE 0
    BY <1>2, <2>1
  <2> SUFFICES ASSUME NEW d \in Devices, NEW i \in DOMAIN queue[d], ClickPress(queue[d][i])
               PROVE  queue[d][i][2] = cursor /\ Paused(d)'
    BY <1>1, <2>1 DEF Clicking
  <2>3. queue[d][i][2] = cursor /\ Paused(d)
    BY <1>1 DEF Clicking
  <2>4. left[Serve] = 2
    BY <2>1, <2>3 DEF Paused
  <2>5. d \in has
    <3>1. d \notin has => queue[d] = << >>
      BY DEF InputTyped, Flow
    <3> QED BY <3>1
  <2>6. <<d, "data">> \in due'
    BY <2>1, <2>5 DEF Reads
  <2>7. left'[Serve] = 1
    BY <2>2, <2>4
  <2> QED BY <2>1, <2>3, <2>6, <2>7 DEF Paused
<1> QED BY <1>3, <1>4, <1>5, <1>6, <1>7 DEF Next

\* the first line of chat, from the Enter that opens the input to the characters that go into it
Rest(n) == Len(steps[Serve]) = n /\ \A i \in 1 .. n : steps[Serve][i] = Say[i + 11 - n]
Chatting(n) ==
    /\ n = 11 => Enter \notin keys /\ Enter \notin was /\ chat = "closed"
    /\ n = 10 \/ n = 9 => Enter \in keys
    /\ n = 10 => \/ Enter \notin was /\ chat = "closed" /\ seen[Serve].by = {}
                 \/ Enter \in was /\ chat \in {"opening", "open"}
    /\ n = 10 /\ left[Serve] = 0 => chat = "open"
    /\ n = 9 => Enter \in was /\ chat = "open"
    /\ n < 9 => Enter \notin keys /\ chat = "open"
ToPost == \E i \in DOMAIN steps[Serve] : steps[Serve][i].do = "chars"
Saying ==
    ~slow /\ given[Serve] =< 1 =>
        /\ ~astray
        /\ given[Serve] = 0 => steps[Serve] = << >> /\ Enter \notin keys /\ Enter \notin was /\ chat = "closed"
        /\ ToPost => has \cap Kbs # {} /\ \E n \in 6 .. 11 : Rest(n) /\ Chatting(n)

LEMMA OnlyOneLine == \A i \in 1 .. 11 : Say[i].do = "chars" => i = 6
<1>1. \A i \in 1 .. 11 : i = 1 \/ i = 2 \/ i = 3 \/ i = 4 \/ i = 5 \/ i = 6 \/ i = 7 \/ i = 8 \/ i = 9 \/ i = 10 \/ i = 11
  OBVIOUS
<1>2. /\ KeyStep(Enter, TRUE).do = "key" /\ KeyStep(Enter, FALSE).do = "key"
      /\ FramesStep(1).do = "frames" /\ FramesStep(2).do = "frames" /\ FramesStep(3).do = "frames"
  BY DEF KeyStep, FramesStep
<1> QED BY <1>1, <1>2, SayIs

\* the controller's thread takes its line a step further
LEMMA ServeSays ==
    ASSUME InputTyped, Shaped, Presses, Saying, ~slow, given[Serve] =< 1, Step(Serve)
    PROVE  Saying'
<1> DEFINE s == steps[Serve]
           r == Tail(s)
<1>0. /\ Serve \in Threads /\ s \in Seq(StepT) /\ Len(s) \in Nat /\ Len(s) > 0 /\ s # << >> /\ Head(s) = s[1]
      /\ r \in Seq(StepT) /\ Shape(Serve, r) /\ Turn(Serve, r)
      /\ Len(r) = Len(s) - 1 /\ \A i \in 1 .. Len(s) - 1 : r[i] = s[i + 1]
      /\ 1 \in DOMAIN s /\ given' = given /\ chat' = chat /\ was' = was /\ has' = has
  BY Stepped DEF InputTyped, Control, Shaped, Threads, game
<1>1. steps'[Serve] = r /\ left'[Serve] = IF r # << >> /\ r[1].do = "frames" THEN r[1].arg ELSE 0
  BY <1>0, Turned
<1>2. ~astray /\ given[Serve] # 0 /\ (ToPost => has \cap Kbs # {} /\ \E n \in 6 .. 11 : Rest(n) /\ Chatting(n))
  BY <1>0 DEF Saying
<1>3. ASSUME NEW n \in 6 .. 11, Rest(n), Chatting(n) PROVE s[1] = Say[12 - n] /\ Len(s) = n
  <2>1. 1 \in 1 .. n /\ 1 + 11 - n = 12 - n
    OBVIOUS
  <2> QED BY <1>3, <2>1 DEF Rest
<1>4. ~astray'
  <2>1. CASE s[1].do = "chars" /\ PostChars(Serve)
    <3>1. ToPost
      BY <1>0, <2>1 DEF ToPost
    <3>2. PICK n \in 6 .. 11 : Rest(n) /\ Chatting(n)
      BY <1>2, <3>1
    <3>3. Say[12 - n].do = "chars" /\ 12 - n \in 1 .. 11
      BY <1>3, <2>1, <3>2
    <3>4. n = 6
      BY <3>3, OnlyOneLine
    <3>5. chat = "open"
      BY <3>2, <3>4 DEF Chatting
    <3>6. astray' = (astray \/ chat # "open")
      BY <2>1 DEF PostChars
    <3> QED BY <1>2, <3>5, <3>6
  <2>2. CASE DiKey(Serve) \/ DiButton(Serve) \/ DiCursor(Serve) \/ DiWheel(Serve) \/ WaitFrames(Serve)
    BY <1>2, <2>2 DEF DiKey, DiButton, DiCursor, DiWheel, WaitFrames
  <2> QED BY <1>0, <2>1, <2>2, Kinds
<1>5. ASSUME ToPost' PROVE has' \cap Kbs # {} /\ \E m \in 6 .. 11 : Rest(m)' /\ Chatting(m)'
  <2>1. PICK i \in DOMAIN r : r[i].do = "chars"
    <3>1. \E i \in DOMAIN steps'[Serve] : steps'[Serve][i].do = "chars"
      BY <1>5 DEF ToPost
    <3> QED BY <1>1, <3>1
  <2>2. i \in 1 .. Len(s) - 1 /\ r[i] = s[i + 1] /\ i + 1 \in DOMAIN s
    BY <1>0
  <2>3. ToPost
    BY <2>1, <2>2 DEF ToPost
  <2>4. PICK n \in 6 .. 11 : Rest(n) /\ Chatting(n)
    BY <1>2, <2>3
  <2>5. Len(s) = n /\ s[1] = Say[12 - n] /\ \A j \in 1 .. n : s[j] = Say[j + 11 - n]
    BY <1>3, <2>4 DEF Rest
  <2>6. n > 6
    <3>0. i + 1 \in 1 .. n /\ i + 1 + 11 - n \in 1 .. 11
      <4>1. i \in 1 .. n - 1
        BY <2>2, <2>5, Zenon
      <4> QED BY <4>1
    <3>1. i + 1 \in 1 .. n /\ i + 1 + 11 - n \in 1 .. 11 /\ Say[i + 1 + 11 - n].do = "chars"
      BY <2>1, <2>2, <2>5, <3>0, Zenon
    <3>2. i + 1 + 11 - n = 6
      BY <3>1, OnlyOneLine
    <3> QED BY <2>2, <3>2
  <2>7. n - 1 \in 6 .. 11 /\ Len(r) = n - 1 /\ r # << >>
    <3>1. n - 1 \in 6 .. 11 /\ Len(r) = n - 1
      BY <1>0, <2>5, <2>6
    <3> HIDE DEF r
    <3> QED BY <3>1
  <2>8. ASSUME NEW j \in 1 .. n - 1 PROVE r[j] = Say[j + 11 - (n - 1)]
    <3>1. j \in 1 .. Len(s) - 1 /\ j + 1 \in 1 .. n /\ j + 1 + 11 - n = j + 11 - (n - 1)
      BY <2>5
    <3>2. r[j] = s[j + 1] /\ s[j + 1] = Say[j + 1 + 11 - n]
      BY <1>0, <2>5, <3>1
    <3> QED BY <3>1, <3>2
  <2>9. Rest(n - 1)'
    <3> HIDE DEF s, r
    <3> QED BY <1>1, <2>7, <2>8 DEF Rest
  <2>10. Chatting(n - 1)'
    <3>1. CASE n = 11
      <4>1. s[1] = KeyStep(Enter, TRUE) /\ 12 - n = 1
        <5>1. 12 - n = 1
          BY <3>1
        <5> QED BY <2>5, <5>1, SayIs
      <4>2. s[1].do = "key" /\ s[1].down /\ s[1].arg = Enter
        BY <4>1 DEF KeyStep
      <4>3. DiKey(Serve)
        BY <1>0, <4>2, Kinds
      <4>4. keys' = keys \cup {Enter} /\ seen' = [seen EXCEPT ![Serve] = [key |-> Enter, by |-> {}]]
        BY <1>0, <4>2, <4>3 DEF DiKey
      <4>5. seen'[Serve].by = {}
        BY <1>0, <4>4 DEF InputTyped, Keyed
      <4>6. r[1] = FramesStep(2)
        <5>1. 1 \in 1 .. n - 1 /\ 1 + 11 - (n - 1) = 2
          BY <3>1
        <5> QED BY <2>8, <5>1, SayIs
      <4>7. left'[Serve] = 2
        BY <1>1, <2>7, <4>6 DEF FramesStep
      <4>8. Enter \notin was' /\ chat' = "closed" /\ n - 1 = 10
        BY <1>0, <2>4, <3>1 DEF Chatting
      <4> QED BY <4>4, <4>5, <4>7, <4>8 DEF Chatting
    <3>2. CASE n = 10
      <4>1. s[1] = FramesStep(2)
        BY <2>5, <3>2, SayIs
      <4>2. s[1].do = "frames"
        BY <4>1 DEF FramesStep
      <4>3. WaitFrames(Serve)
        BY <1>0, <4>2, Kinds
      <4>4. left[Serve] = 0 /\ keys' = keys
        BY <1>0, <4>3 DEF WaitFrames, input, InputTyped, Control
      <4>5. Enter \in keys /\ Enter \in was /\ chat = "open"
        BY <2>4, <3>2, <4>4 DEF Chatting
      <4>6. Enter \in keys' /\ Enter \in was' /\ chat' = "open" /\ n - 1 = 9
        BY <1>0, <3>2, <4>4, <4>5
      <4> QED BY <4>6 DEF Chatting
    <3>3. CASE n = 9
      <4>1. s[1] = KeyStep(Enter, FALSE)
        <5>1. 12 - n = 3
          BY <3>3
        <5> QED BY <2>5, <5>1, SayIs
      <4>2. s[1].do = "key" /\ s[1].down = FALSE /\ s[1].arg = Enter
        BY <4>1 DEF KeyStep
      <4>3. DiKey(Serve)
        BY <1>0, <4>2, Kinds
      <4>4. keys' = keys \ {Enter}
        BY <1>0, <4>2, <4>3 DEF DiKey
      <4>5. chat' = "open" /\ n - 1 = 8
        BY <1>0, <2>4, <3>3 DEF Chatting
      <4> QED BY <4>4, <4>5 DEF Chatting
    <3>4. CASE n = 8 \/ n = 7
      <4>1. s[1] = FramesStep(1) \/ s[1] = FramesStep(3)
        BY <2>5, <3>4, SayIs
      <4>2. s[1].do = "frames"
        BY <4>1 DEF FramesStep
      <4>3. WaitFrames(Serve)
        BY <1>0, <4>2, Kinds
      <4>4. keys' = keys
        BY <4>3 DEF WaitFrames, input
      <4>5. Enter \notin keys /\ chat = "open" /\ n - 1 < 9 /\ n - 1 # 9 /\ n - 1 # 10 /\ n - 1 # 11
        BY <2>4, <3>4 DEF Chatting
      <4>6. Enter \notin keys' /\ chat' = "open"
        BY <1>0, <4>4, <4>5
      <4> QED BY <4>5, <4>6 DEF Chatting
    <3>5. n = 11 \/ n = 10 \/ n = 9 \/ n = 8 \/ n = 7
      BY <2>6
    <3> QED BY <3>1, <3>2, <3>3, <3>4, <3>5
  <2> QED BY <1>0, <1>2, <2>3, <2>7, <2>9, <2>10
<1> QED BY <1>0, <1>2, <1>4, <1>5 DEF Saying

LEMMA SayingNext ==
    ASSUME InputTyped, Shaped, Presses, Saying, Next
    PROVE  Saying'
<1> SUFFICES ASSUME ~slow', given'[Serve] =< 1 PROVE Saying'
  BY DEF Saying
<1>0. Enter # Tab /\ Enter \in Keys /\ Serve \in Threads /\ given \in [Threads -> Nat] /\ Serve # Login
  BY HookPointsOK DEF RemoteInputConstantsOK, Threads, InputTyped, Control, Serve, Login
<1>1. CASE \E t \in Threads : Give(t)
  <2>1. PICK t \in Threads : Give(t)
    BY <1>1
  <2>2. PICK p \in Programs(t) : Turn(t, p)
    BY <2>1 DEF Give
  <2>3. p \in Seq(StepT) /\ Shape(t, p) /\ (\A i \in DOMAIN p : p[i].do = "chars" => p = Say /\ has \cap Kbs # {})
    BY <2>2, ProgramShape
  <2>4. steps'[t] = p /\ (t # Serve => steps'[Serve] = steps[Serve] /\ left'[Serve] = left[Serve])
    BY <1>0, <2>2, <2>3, Turned
  <2>5. UNCHANGED <<slow, has, keys, was, chat, seen, astray>> /\ given' = [given EXCEPT ![t] = @ + 1]
    BY <2>1 DEF Give, input, game, history
  <2>6. CASE t = Serve
    <3>1. given[Serve] = 0 /\ given'[Serve] = 1
      <4>1. given'[Serve] = given[Serve] + 1 /\ given[Serve] \in Nat
        BY <1>0, <2>5, <2>6
      <4> QED BY <4>1
    <3>2. ~astray /\ Enter \notin keys /\ Enter \notin was /\ chat = "closed"
      BY <2>5, <3>1 DEF Saying
    <3>3. ASSUME ToPost' PROVE has' \cap Kbs # {} /\ \E n \in 6 .. 11 : Rest(n)' /\ Chatting(n)'
      <4>1. \E i \in DOMAIN steps'[Serve] : steps'[Serve][i].do = "chars"
        BY <3>3 DEF ToPost
      <4>2. p = Say /\ has \cap Kbs # {}
        BY <2>3, <2>4, <2>6, <4>1
      <4>3. Rest(11)'
        <5>1. \A i \in 1 .. 11 : i + 11 - 11 = i
          OBVIOUS
        <5> QED BY <2>4, <2>6, <4>2, <5>1, SayIs DEF Rest
      <4>4. Chatting(11)'
        BY <2>5, <3>2 DEF Chatting
      <4>5. 11 \in 6 .. 11
        OBVIOUS
      <4> QED BY <2>5, <4>2, <4>3, <4>4, <4>5
    <3> QED BY <2>5, <3>1, <3>2, <3>3 DEF Saying
  <2>7. CASE t # Serve
    <3>1. given'[Serve] = given[Serve]
      BY <1>0, <2>5, <2>7
    <3> QED BY <2>4, <2>5, <2>7, <3>1 DEF Saying, Rest, Chatting, ToPost
  <2> QED BY <2>6, <2>7
<1>2. CASE \E t \in Threads : Step(t)
  <2>1. PICK t \in Threads : Step(t)
    BY <1>2
  <2>2. /\ Tail(steps[t]) \in Seq(StepT) /\ Shape(t, Tail(steps[t])) /\ Turn(t, Tail(steps[t]))
        /\ UNCHANGED <<slow, has, given, chat, was>> /\ Head(steps[t]) = steps[t][1]
    BY <2>1, Stepped DEF game
  <2>3. CASE t = Serve
    BY <2>1, <2>2, <2>3, ServeSays
  <2>4. CASE t # Serve
    <3>1. steps'[Serve] = steps[Serve] /\ left'[Serve] = left[Serve]
      BY <1>0, <2>2, <2>4, Turned
    <3>2. (steps[t][1].arg \in KeysOf(t) /\ DiKey(t)) \/ WaitFrames(t)
      BY <2>1, <2>4, Kinds
    <3>3. astray' = astray
      BY <3>2 DEF DiKey, WaitFrames
    <3>4. (Enter \in keys' <=> Enter \in keys) /\ seen'[Serve] = seen[Serve]
      <4>1. CASE steps[t][1].arg \in KeysOf(t) /\ DiKey(t)
        <5>1. steps[t][1].arg = Tab
          BY <2>4, <4>1 DEF KeysOf
        <5>2. keys' = keys \cup {Tab} \/ keys' = keys \ {Tab}
          BY <2>2, <4>1, <5>1 DEF DiKey
        <5>3. seen'[Serve] = seen[Serve]
          BY <1>0, <2>4, <4>1 DEF DiKey, InputTyped, Keyed
        <5> QED BY <1>0, <5>2, <5>3
      <4>2. CASE WaitFrames(t)
        BY <4>2 DEF WaitFrames, input
      <4> QED BY <3>2, <4>1, <4>2
    <3> QED BY <2>2, <3>1, <3>3, <3>4 DEF Saying, Rest, Chatting, ToPost
  <2> QED BY <2>3, <2>4
<1>3. CASE \E d \in Kbs, hr \in Answer : KbState(d, hr)
  <2>1. PICK d \in Kbs, hr \in Answer : KbState(d, hr)
    BY <1>3
  <2>2. UNCHANGED <<slow, has, keys, steps, left, given, astray>>
    BY <2>1 DEF KbState, input
  <2>3. \/ UNCHANGED <<seen, chat, was>> /\ keys = {}
        \/ was' = keys /\ chat' = ChatAfter(keys)
    BY <2>1 DEF KbState, StateHealthy
  <2>4. ASSUME Enter \notin keys PROVE chat' = chat /\ (Enter \notin was => Enter \notin was')
    BY <2>3, <2>4 DEF ChatAfter
  <2>5. ASSUME Enter \in keys
        PROVE  /\ Enter \in was'
               /\ Enter \in was => chat' = chat
               /\ chat = "closed" /\ Enter \notin was => chat' = "opening"
    BY <2>3, <2>5 DEF ChatAfter
  <2>6. ASSUME NEW n \in 6 .. 11, Chatting(n) PROVE Chatting(n)'
    <3>1. CASE n = 11
      BY <2>2, <2>4, <2>6, <3>1 DEF Chatting
    <3>2. CASE n = 10
      <4>1. Enter \in keys /\ Enter \in was' /\ Enter \in keys'
        BY <2>2, <2>5, <2>6, <3>2 DEF Chatting
      <4>2. (Enter \in was /\ chat' = chat) \/ (Enter \notin was /\ chat = "closed" /\ chat' = "opening")
        BY <2>5, <2>6, <3>2, <4>1 DEF Chatting
      <4>3. left'[Serve] = 0 => chat' = "open"
        BY <2>2, <2>6, <3>2, <4>2 DEF Chatting
      <4>4. chat' \in {"opening", "open"}
        BY <2>6, <3>2, <4>2 DEF Chatting
      <4> QED BY <3>2, <4>1, <4>3, <4>4 DEF Chatting
    <3>3. CASE n = 9
      BY <2>2, <2>5, <2>6, <3>3 DEF Chatting
    <3>4. CASE n < 9
      BY <2>2, <2>4, <2>6, <3>4 DEF Chatting
    <3> QED BY <3>1, <3>2, <3>3, <3>4
  <2> QED BY <2>2, <2>4, <2>6 DEF Saying, Rest, ToPost
<1>4. CASE \/ \E d \in Mice, hr \in Answer : MouseState(d, hr)
           \/ \E d \in Devices, room \in Rooms : DeviceData(d, room)
  <2>1. UNCHANGED <<slow, has, keys, steps, left, given, astray, seen, chat, was>>
    BY <1>4 DEF MouseState, DeviceData
  <2> QED BY <2>1 DEF Saying, Rest, Chatting, ToPost
<1>5. CASE Present
  <2>1. /\ UNCHANGED <<slow, has, keys, steps, given, astray, seen, was>> /\ due = {}
        /\ left' = [t \in Threads |-> IF left[t] > 0 THEN left[t] - 1 ELSE 0]
        /\ chat = "closed" => chat' = "closed"
        /\ chat \in {"opening", "open"} => chat' = "open"
    BY <1>5 DEF Present, Count, input, history
  <2>2. left[Serve] \in Nat /\ left'[Serve] = IF left[Serve] > 0 THEN left[Serve] - 1 ELSE 0
    BY <1>0, <2>1 DEF InputTyped, Control
  <2>3. left'[Serve] = 0 => left[Serve] = 0 \/ left[Serve] = 1
    BY <2>2
  <2>4. ASSUME NEW n \in 6 .. 11, Rest(n), Chatting(n), has \cap Kbs # {} PROVE Chatting(n)'
    <3>1. CASE n = 11
      BY <2>1, <2>4, <3>1 DEF Chatting
    <3>2. CASE n = 10
      <4>1. steps[Serve][2] = KeyStep(Enter, FALSE) /\ Len(steps[Serve]) > 1
        <5>1. 2 \in 1 .. n /\ 2 + 11 - n = 3 /\ n > 1
          BY <3>2
        <5>2. Len(steps[Serve]) = n /\ steps[Serve][2] = Say[2 + 11 - n]
          BY <2>4, <5>1, Zenon DEF Rest
        <5> QED BY <5>1, <5>2, SayIs
      <4>2. IsUp(steps[Serve][2])
        BY <4>1 DEF IsUp, KeyStep
      <4>3. ASSUME left[Serve] = 1 PROVE seen[Serve].by # {}
        <5>1. Holding(Serve)
          BY <1>0 DEF Presses
        <5>2. \A d \in has \cap Kbs : d \in seen[Serve].by
          BY <2>1, <4>1, <4>2, <4>3, <5>1 DEF Holding
        <5> QED BY <2>4, <5>2
      <4>4. left'[Serve] = 0 => chat' = "open"
        BY <2>1, <2>3, <2>4, <3>2, <4>3 DEF Chatting
      <4>5. Enter \in keys' /\ (\/ Enter \notin was' /\ chat' = "closed" /\ seen'[Serve].by = {}
                                \/ Enter \in was' /\ chat' \in {"opening", "open"})
        BY <2>1, <2>4, <3>2 DEF Chatting
      <4> QED BY <3>2, <4>4, <4>5 DEF Chatting
    <3>3. CASE n = 9
      BY <2>1, <2>4, <3>3 DEF Chatting
    <3>4. CASE n < 9
      BY <2>1, <2>4, <3>4 DEF Chatting
    <3> QED BY <3>1, <3>2, <3>3, <3>4
  <2>5. \A n \in 6 .. 11 : Rest(n) => Rest(n)'
    BY <2>1 DEF Rest
  <2> QED BY <2>1, <2>4, <2>5 DEF Saying, ToPost
<1> QED BY <1>1, <1>2, <1>3, <1>4, <1>5 DEF Next

(***************************************************************************)
(* Together, for the input part of HookPoints.                             *)
(***************************************************************************)
InputInv == InputTyped /\ Shaped /\ EachEventOnce /\ MotionIsWhole /\ Presses /\ Clicks /\ Saying

LEMMA InputInit ==
    ASSUME Init
    PROVE  InputInv
<1>1. << >> \in Seq(Events) /\ << >> \in Seq(StepT) /\ [d |-> 0, z |-> 0] \in Motion /\ DOMAIN << >> = {}
  BY DEF Motion
<1>2. /\ has \subseteq Devices /\ due = Reads
      /\ steps = [t \in Threads |-> << >>] /\ left = [t \in Threads |-> 0] /\ given = [t \in Threads |-> 0]
      /\ queue = [d \in Devices |-> << >>] /\ got = queue /\ sent = queue
  BY HookPointsOK DEF Init, RemoteInputConstantsOK, Devices
<1>3. Control /\ Flow
  BY <1>1, <1>2 DEF Control, Flow
<1>4. Moving /\ Keyed
  BY <1>1 DEF Init, Moving, Keyed
<1>5. Shaped /\ Presses
  <2>1. \A t \in Threads : steps[t] = << >>
    BY <1>2
  <2>2. ~(Len(<< >>) > 1) /\ DOMAIN << >> = {}
    OBVIOUS
  <2> QED BY <2>1, <2>2 DEF Shaped, Shape, Presses, Holding, Released
<1>6. EachEventOnce
  <2>1. << >> \o << >> = << >>
    BY <1>1, ConcatEmptySeq
  <2> QED BY <1>2, <2>1 DEF EachEventOnce
<1>7. MotionIsWhole
  BY DEF Init, MotionIsWhole
<1>8. Clicks
  <2>1. \A d \in Devices : DOMAIN queue[d] = {}
    BY <1>2
  <2> QED BY <2>1 DEF Init, Clicks, Clicking
<1>9. Saying
  <2>1. Serve \in Threads /\ steps[Serve] = << >> /\ DOMAIN steps[Serve] = {}
    BY <1>2 DEF Threads
  <2>2. ~astray /\ keys = {} /\ was = {} /\ chat = "closed"
    BY DEF Init
  <2> QED BY <2>1, <2>2 DEF Saying, ToPost
<1> QED BY <1>3, <1>4, <1>5, <1>6, <1>7, <1>8, <1>9 DEF InputInv, InputTyped

LEMMA InputNext ==
    ASSUME InputInv, Next
    PROVE  InputInv'
BY ControlNext, KeyedNext, FlowNext, MovingNext, PressesNext, ClicksNext, SayingNext DEF InputInv, InputTyped

LEMMA InputRests ==
    ASSUME InputInv, UNCHANGED vars
    PROVE  InputInv'
BY DEF vars, input, game, history, InputInv, InputTyped, Control, Flow, Moving, Keyed, Shaped, EachEventOnce, MotionIsWhole,
       Presses, Holding, Released, Clicks, Clicking, Paused, Saying, ToPost, Rest, Chatting, Reads

LEMMA InputIsWhole ==
    ASSUME InputInv
    PROVE  EventsWhole
<1>1. PressSeen
  BY PressSeenIs DEF InputInv
<1>2. ClickLandsThere /\ SayGoesToChat
  <2>1. given[Serve] \in Nat
    BY DEF InputInv, InputTyped, Control, Threads
  <2> QED BY <2>1 DEF InputInv, Clicks, Saying, ClickLandsThere, SayGoesToChat
<1> QED BY <1>1, <1>2 DEF InputInv, EventsWhole

\* Whatever the controller, the login and the game do, for any devices, keys and commands, and however often and however
\* little the game reads (remote_control.cpp): every injected event comes out once and in order at every device, motion
\* is whole, a press has been seen by every keyboard, a click lands where the cursor was and the first line of chat goes
\* into the input its own Enter has opened.
THEOREM InputArrivesWhole == HookSpec => []EventsWhole
<1>1. HookInit => InputInv
  BY InputInit DEF HookInit
<1>2. InputInv /\ [HookNext]_<<part, vars, tableVars>> => InputInv'
  <2>1. InputInv /\ HookNext => InputInv'
    BY InputNext, InputRests DEF HookNext
  <2>2. InputInv /\ UNCHANGED <<part, vars, tableVars>> => InputInv'
    BY InputRests
  <2> QED BY <2>1, <2>2
<1>3. InputInv => EventsWhole
  BY InputIsWhole
<1> QED BY <1>1, <1>2, <1>3, PTL DEF HookSpec

(***************************************************************************)
(* The protocol tables: the hooks of an opcode lie on top of each other,   *)
(* and each kept what was below it.                                        *)
(***************************************************************************)
\* what is at a place of the pile: a thunk, or below the last of them the base
Node(st, b, i) == IF i =< Len(st) THEN <<"thunk", st[i]>> ELSE b

\* the last of a plugin's thunks on the pile
LowestOf(p, st, j) == st[j][1] = p /\ \A i \in DOMAIN st : j < i => st[i][1] # p

Swapped(p, op) == \E i \in DOMAIN swaps[p] : swaps[p][i].at = op

\* the hooks asked for are on the pile, and the table and the originals lead down it
Piled(op, st, b) ==
    /\ \A t \in Tables!Thunks : <<t, op>> \in asked <=> \E i \in DOMAIN st : st[i] = t
    /\ \A i, j \in DOMAIN st : st[i] = st[j] => i = j
    /\ Tables!Get(op) = Node(st, b, 1)
    /\ \A i \in DOMAIN st : originals[st[i]][op] = Node(st, b, i + 1)

\* at its base is the server's handler, or nobody's
Based(op, b) ==
    /\ op \in registered => b = Tables!Stock(op)
    /\ op \notin registered => b = Tables!Unknown \/ \E p \in Plugins : b = Tables!Cover(p)

\* a plugin that was loaded later lies further up
Ordered(st) == \A i, j \in DOMAIN st, m, n \in DOMAIN loaded : i < j /\ loaded[m] = st[i][1] /\ loaded[n] = st[j][1] => n =< m

\* the first swap a plugin remembers of an opcode is what lies below all its thunks
Kept(op, st, b) ==
    \A p \in Plugins :
        /\ Swapped(p, op) <=> \E j \in DOMAIN st : st[j][1] = p
        /\ \A j \in DOMAIN st : LowestOf(p, st, j) => Tables!Restored(swaps[p], op) = Node(st, b, j + 1)

Pile(op, st, b) == Piled(op, st, b) /\ Based(op, b) /\ Ordered(st) /\ Kept(op, st, b)

Swap == [at : Tables!Ops, was : Tables!Handler]

TableTyped ==
    /\ own \subseteq Cmds /\ row \in [Cmds -> [Depts -> Tables!Handler]] /\ def \in [Depts -> Tables!Handler]
    /\ \A d \in Depts : def[d] = Tables!Unknown \/ \E p \in Plugins : def[d] = Tables!Cover(p)
    /\ swaps \in [Plugins -> Seq(Swap)]
    /\ originals \in [Tables!Thunks -> [Tables!Ops -> Tables!Handler \cup {Tables!None}]]
    /\ registered \subseteq Tables!Ops /\ asked \subseteq Tables!Thunks \X Tables!Ops
    /\ \A op \in registered : op[1] \in own
    /\ \A a \in asked : a[2][1] \in own /\ \E i \in DOMAIN loaded : loaded[i] = a[1][1]
    /\ loaded \in Seq(Plugins)
    /\ \A i, j \in DOMAIN loaded : loaded[i] = loaded[j] => i = j

TableInv == TableTyped /\ (lost \/ \A op \in Tables!Ops : \E st \in Seq(Tables!Thunks), b \in Tables!Handler : Pile(op, st, b))

LEMMA OpIs == \A op \in Tables!Ops : op[1] \in Cmds /\ op[2] \in Depts /\ op = <<op[1], op[2]>>
BY DEF Tables!Ops

LEMMA ThunkIs == \A t \in Tables!Thunks : t[1] \in Plugins /\ t[2] \in Ks /\ t = <<t[1], t[2]>>
BY DEF Tables!Thunks

\* a slot of the table before and after one is written
LEMMA PutIs ==
    ASSUME TableTyped, NEW op \in Tables!Ops, NEW h \in Tables!Handler, Tables!Put(op, h)
    PROVE  /\ own' \subseteq Cmds /\ own' = own \cup {op[1]} /\ row' \in [Cmds -> [Depts -> Tables!Handler]] /\ def' = def
           /\ Tables!Get(op)' = h
           /\ \A o \in Tables!Ops \ {op} : Tables!Get(o)' = IF o[1] = op[1] /\ o[1] \notin own THEN Tables!Unknown ELSE Tables!Get(o)
<1>1. /\ own' = own \cup {op[1]} /\ def' = def
      /\ row' = [row EXCEPT ![op[1]] = [Tables!Slot(op[1]) EXCEPT ![op[2]] = h]]
  BY DEF Tables!Put
<1>2. op[1] \in Cmds /\ op[2] \in Depts /\ op = <<op[1], op[2]>>
  BY OpIs
<1>3. Tables!Unknown \in Tables!Handler
  BY DEF Tables!Handler
<1>4. Tables!Slot(op[1]) \in [Depts -> Tables!Handler]
  BY <1>2, <1>3 DEF Tables!Slot, TableTyped
<1>5. [Tables!Slot(op[1]) EXCEPT ![op[2]] = h] \in [Depts -> Tables!Handler]
  BY <1>2, <1>4
<1>6. row \in [Cmds -> [Depts -> Tables!Handler]] /\ own \subseteq Cmds
  BY DEF TableTyped
<1>7. row' \in [Cmds -> [Depts -> Tables!Handler]] /\ own' \subseteq Cmds
  BY <1>1, <1>2, <1>5, <1>6
<1>8. /\ row'[op[1]] = [Tables!Slot(op[1]) EXCEPT ![op[2]] = h]
      /\ \A c \in Cmds \ {op[1]} : row'[c] = row[c]
  BY <1>1, <1>2, <1>6
<1>9. Tables!Get(op)' = h
  <2>1. row'[op[1]][op[2]] = h
    BY <1>2, <1>4, <1>8
  <2> QED BY <1>1, <2>1 DEF Tables!Get
<1>10. ASSUME NEW o \in Tables!Ops \ {op}
       PROVE  Tables!Get(o)' = IF o[1] = op[1] /\ o[1] \notin own THEN Tables!Unknown ELSE Tables!Get(o)
  <2>1. o[1] \in Cmds /\ o[2] \in Depts /\ (o[1] = op[1] => o[2] # op[2])
    BY <1>2, OpIs
  <2>2. CASE o[1] # op[1]
    <3>1. row'[o[1]] = row[o[1]] /\ (o[1] \in own' <=> o[1] \in own)
      BY <1>1, <1>8, <2>1, <2>2
    <3> QED BY <1>1, <2>2, <3>1 DEF Tables!Get
  <2>3. CASE o[1] = op[1]
    <3>1. row'[o[1]][o[2]] = Tables!Slot(op[1])[o[2]] /\ o[1] \in own'
      BY <1>1, <1>4, <1>8, <2>1, <2>3
    <3>2. Tables!Slot(op[1])[o[2]] = IF op[1] \in own THEN row[op[1]][o[2]] ELSE Tables!Unknown
      BY <2>1 DEF Tables!Slot
    <3> QED BY <2>3, <3>1, <3>2 DEF Tables!Get
  <2> QED BY <2>2, <2>3
<1> QED BY <1>1, <1>7, <1>9, <1>10

\* on a pile that is not there yet the table says what its base is
LEMMA NoPile ==
    ASSUME TableTyped, NEW op \in Tables!Ops, NEW st \in Seq(Tables!Thunks), NEW b, Piled(op, st, b),
           \A t \in Tables!Thunks : <<t, op>> \notin asked
    PROVE  st = << >> /\ DOMAIN st = {} /\ Tables!Get(op) = b
<1>1. DOMAIN st = 1 .. Len(st) /\ Len(st) \in Nat /\ \A i \in DOMAIN st : st[i] \in Tables!Thunks
  OBVIOUS
<1>2. DOMAIN st = {}
  BY <1>1 DEF Piled
<1>3. Len(st) = 0
  BY <1>1, <1>2
<1>4. st = << >>
  BY <1>3, EmptySeq
<1> QED BY <1>2, <1>3, <1>4 DEF Piled, Node

LEMMA Unowned ==
    ASSUME TableTyped, NEW op \in Tables!Ops, op[1] \notin own
    PROVE  /\ \A t \in Tables!Thunks : <<t, op>> \notin asked
           /\ op \notin registered
BY DEF TableTyped

\* the first of the swaps of an opcode
LEMMA RestoredIs ==
    ASSUME NEW ss \in Seq(Swap), NEW op, NEW m \in DOMAIN ss, ss[m].at = op, \A i \in DOMAIN ss : i < m => ss[i].at # op
    PROVE  Tables!Restored(ss, op) = ss[m].was
<1> DEFINE mine == {i \in DOMAIN ss : ss[i].at = op}
           first == CHOOSE i \in mine : \A j \in mine : i =< j
<1>1. DOMAIN ss = 1 .. Len(ss) /\ Len(ss) \in Nat
  OBVIOUS
<1>2. m \in mine /\ \A j \in mine : m =< j
  BY <1>1
<1>3. first \in mine /\ \A j \in mine : first =< j
  BY <1>2
<1>4. first = m
  <2>1. first =< m /\ m =< first /\ first \in Nat /\ m \in Nat
    BY <1>1, <1>2, <1>3
  <2> HIDE DEF first
  <2> QED BY <2>1
<1>5. Tables!Restored(ss, op) = ss[first].was
  BY Zenon DEF Tables!Restored, first, mine
<1> QED BY <1>4, <1>5

LEMMA FirstSwap ==
    ASSUME NEW ss \in Seq(Swap), NEW op, \E i \in DOMAIN ss : ss[i].at = op
    PROVE  \E m \in DOMAIN ss : ss[m].at = op /\ \A i \in DOMAIN ss : i < m => ss[i].at # op
<1> DEFINE mine == {i \in DOMAIN ss : ss[i].at = op}
<1>1. mine \subseteq Nat /\ mine # {}
  OBVIOUS
<1>2. PICK m \in mine : \A j \in mine : m =< j
  <2> HIDE DEF mine
  <2> QED BY <1>1, FirstNumber, Zenon
<1>3. ASSUME NEW i \in DOMAIN ss, i < m PROVE ss[i].at # op
  <2>1. i \in Nat /\ m \in Nat /\ ~(m =< i)
    BY <1>1, <1>3
  <2> QED BY <1>2, <2>1
<1> QED BY <1>2, <1>3

\* swaps that are added do not change what the ones before them restore
Grown(all, ss, more, op, w) ==
    /\ all \in Seq(Swap)
    /\ (\E i \in DOMAIN all : all[i].at = op) <=> (\E i \in DOMAIN ss : ss[i].at = op) \/ (\E i \in DOMAIN more : more[i].at = op)
    /\ (\E i \in DOMAIN ss : ss[i].at = op) => Tables!Restored(all, op) = Tables!Restored(ss, op)
    /\ ~(\E i \in DOMAIN ss : ss[i].at = op) /\ (\E i \in DOMAIN more : more[i].at = op) => Tables!Restored(all, op) = w

LEMMA RestoredGrows ==
    ASSUME NEW ss \in Seq(Swap), NEW more \in Seq(Swap), NEW op, NEW w, \A i \in DOMAIN more : more[i].at = op => more[i].was = w
    PROVE  Grown(ss \o more, ss, more, op, w)
<1> DEFINE all == ss \o more
           n == Len(ss)
<1>1. /\ all \in Seq(Swap) /\ n \in Nat /\ Len(more) \in Nat /\ DOMAIN ss = 1 .. n /\ DOMAIN more = 1 .. Len(more)
      /\ DOMAIN all = 1 .. n + Len(more)
      /\ \A i \in 1 .. n + Len(more) : all[i] = IF i =< n THEN ss[i] ELSE more[i - n]
  BY ConcatProperties
<1> HIDE DEF all, n
<1>2. \A i \in DOMAIN ss : i \in DOMAIN all /\ all[i] = ss[i]
  BY <1>1
<1>3. \A i \in DOMAIN more : n + i \in DOMAIN all /\ all[n + i] = more[i]
  BY <1>1
<1>4. \A i \in DOMAIN all : i \in DOMAIN ss \/ (i - n \in DOMAIN more /\ all[i] = more[i - n])
  BY <1>1
<1>5. (\E i \in DOMAIN all : all[i].at = op) <=> (\E i \in DOMAIN ss : ss[i].at = op) \/ (\E i \in DOMAIN more : more[i].at = op)
  BY <1>2, <1>3, <1>4
<1>6. ASSUME \E i \in DOMAIN ss : ss[i].at = op PROVE Tables!Restored(all, op) = Tables!Restored(ss, op)
  <2>1. PICK m \in DOMAIN ss : ss[m].at = op /\ \A i \in DOMAIN ss : i < m => ss[i].at # op
    BY <1>6, FirstSwap
  <2>2. Tables!Restored(ss, op) = ss[m].was
    BY <2>1, RestoredIs
  <2>3. m \in DOMAIN all /\ all[m] = ss[m]
    BY <1>2
  <2>4. \A i \in DOMAIN all : i < m => i \in DOMAIN ss
    BY <1>1
  <2>5. \A i \in DOMAIN all : i < m => all[i].at # op
    BY <1>2, <2>1, <2>4
  <2>6. Tables!Restored(all, op) = all[m].was
    BY <1>1, <2>1, <2>3, <2>5, RestoredIs
  <2> QED BY <2>2, <2>3, <2>6
<1>7. ASSUME ~(\E i \in DOMAIN ss : ss[i].at = op), \E i \in DOMAIN more : more[i].at = op PROVE Tables!Restored(all, op) = w
  <2>1. \E i \in DOMAIN all : all[i].at = op
    BY <1>5, <1>7
  <2>2. PICK m \in DOMAIN all : all[m].at = op /\ \A i \in DOMAIN all : i < m => all[i].at # op
    BY <1>1, <2>1, FirstSwap
  <2>3. Tables!Restored(all, op) = all[m].was
    BY <1>1, <2>2, RestoredIs
  <2>4. m - n \in DOMAIN more /\ all[m] = more[m - n]
    BY <1>2, <1>4, <1>7, <2>2
  <2> QED BY <2>2, <2>3, <2>4
<1>8. Grown(all, ss, more, op, w)
  BY <1>1, <1>5, <1>6, <1>7 DEF Grown
<1> QED BY <1>8 DEF all

\* the places of a pile with one thunk more on top
Topped(up, t, st, b) ==
           /\ up \in Seq(Tables!Thunks) /\ DOMAIN up = 1 .. Len(st) + 1 /\ up[1] = t /\ Len(st) \in Nat /\ DOMAIN st = 1 .. Len(st)
           /\ \A i \in DOMAIN st : up[i + 1] = st[i] /\ i + 1 \in DOMAIN up
           /\ \A i \in DOMAIN up : i = 1 \/ (i - 1 \in DOMAIN st /\ up[i] = st[i - 1])
           /\ Node(up, b, 1) = <<"thunk", t>>
           /\ \A i \in 1 .. Len(st) + 1 : Node(up, b, i + 1) = Node(st, b, i)

LEMMA OnPile ==
    ASSUME NEW t \in Tables!Thunks, NEW st \in Seq(Tables!Thunks), NEW b
    PROVE  Topped(<<t>> \o st, t, st, b)
<1> DEFINE up == <<t>> \o st
<1>1. /\ up \in Seq(Tables!Thunks) /\ Len(up) = Len(st) + 1 /\ DOMAIN up = 1 .. Len(st) + 1 /\ up[1] = t
      /\ Len(st) \in Nat /\ DOMAIN st = 1 .. Len(st)
      /\ \A i \in 1 .. Len(st) : up[i + 1] = st[i]
  <2>1. <<t>> \in Seq(Tables!Thunks) /\ Len(<<t>>) = 1 /\ <<t>>[1] = t
    OBVIOUS
  <2>2. /\ up \in Seq(Tables!Thunks) /\ Len(up) = Len(<<t>>) + Len(st)
        /\ \A i \in 1 .. Len(<<t>>) + Len(st) : up[i] = IF i =< Len(<<t>>) THEN <<t>>[i] ELSE st[i - Len(<<t>>)]
    BY <2>1, ConcatProperties
  <2>3. Len(st) \in Nat /\ DOMAIN st = 1 .. Len(st)
    OBVIOUS
  <2> DEFINE one == <<t>>
  <2> HIDE DEF up, one
  <2>4. /\ up \in Seq(Tables!Thunks) /\ Len(up) = 1 + Len(st)
        /\ \A i \in 1 .. 1 + Len(st) : up[i] = IF i =< 1 THEN one[i] ELSE st[i - 1]
    BY <2>1, <2>2 DEF one
  <2>5. DOMAIN up = 1 .. Len(up) /\ one[1] = t
    BY <2>1, <2>4 DEF one
  <2>6. up[1] = t
    BY <2>3, <2>4, <2>5
  <2>7. ASSUME NEW i \in 1 .. Len(st) PROVE up[i + 1] = st[i]
    <3>1. i + 1 \in 1 .. 1 + Len(st) /\ ~(i + 1 =< 1) /\ i + 1 - 1 = i
      BY <2>3
    <3> QED BY <2>4, <3>1
  <2> QED BY <2>3, <2>4, <2>5, <2>6, <2>7
<1> HIDE DEF up
<1>2. \A i \in DOMAIN up : i = 1 \/ (i - 1 \in DOMAIN st /\ up[i] = st[i - 1])
  <2>1. SUFFICES ASSUME NEW i \in DOMAIN up, i # 1 PROVE i - 1 \in DOMAIN st /\ up[i] = st[i - 1]
    OBVIOUS
  <2>2. i - 1 \in 1 .. Len(st) /\ i - 1 + 1 = i
    BY <1>1, <2>1
  <2>3. up[i - 1 + 1] = st[i - 1]
    BY <1>1, <2>2
  <2> QED BY <1>1, <2>2, <2>3
<1>3. Node(up, b, 1) = <<"thunk", t>>
  BY <1>1 DEF Node
<1>4. ASSUME NEW i \in 1 .. Len(st) + 1 PROVE Node(up, b, i + 1) = Node(st, b, i)
  <2>1. CASE i \in 1 .. Len(st)
    BY <1>1, <2>1 DEF Node
  <2>2. CASE i = Len(st) + 1
    <3>1. ~(i + 1 =< Len(up)) /\ ~(i =< Len(st))
      BY <1>1, <2>2
    <3> QED BY <3>1 DEF Node
  <2> QED BY <1>1, <2>1, <2>2
<1>5. Topped(up, t, st, b)
  BY <1>1, <1>2, <1>3, <1>4 DEF Topped
<1> QED BY <1>5 DEF up

\* the handler a hook finds, and the pile it is put on
Was(op) == Tables!Slot(op[1])[op[2]]

LEMMA PileFound ==
    ASSUME TableTyped, NEW op \in Tables!Ops, NEW st \in Seq(Tables!Thunks), NEW b \in Tables!Handler, Pile(op, st, b)
    PROVE  \E c \in Tables!Handler :
              /\ Based(op, c) /\ Was(op) = Node(st, c, 1) /\ \A i \in DOMAIN st : Node(st, c, i + 1) = Node(st, b, i + 1)
              /\ op[1] \in own => c = b
<1>1. op[1] \in Cmds /\ op[2] \in Depts
  BY OpIs
<1>2. CASE op[1] \in own
  <2>1. Was(op) = Tables!Get(op)
    BY <1>2 DEF Was, Tables!Slot, Tables!Get
  <2> QED BY <2>1 DEF Pile, Piled
<1>3. CASE op[1] \notin own
  <2>1. Was(op) = Tables!Unknown
    BY <1>1, <1>3 DEF Was, Tables!Slot
  <2>2. \A t \in Tables!Thunks : <<t, op>> \notin asked
    BY <1>3, Unowned
  <2>3. st = << >> /\ DOMAIN st = {}
    BY <2>2, NoPile DEF Pile
  <2>4. Node(st, Tables!Unknown, 1) = Tables!Unknown
    BY <2>3 DEF Node
  <2>5. Based(op, Tables!Unknown) /\ Tables!Unknown \in Tables!Handler
    BY <1>3, Unowned DEF Based, Tables!Handler
  <2> QED BY <1>3, <2>1, <2>3, <2>4, <2>5
<1> QED BY <1>2, <1>3

\* what both ways of hooking do to the table
Hooks(p, k, ops, more) ==
    /\ Tables!MayHook(p) /\ \A o \in ops : <<<<p, k>>, o>> \notin asked
    /\ loaded' = loaded /\ registered' = registered
    /\ asked' = asked \cup {<<<<p, k>>, o>> : o \in ops}
    /\ \A o \in ops : Tables!Get(o)' = Tables!Thunk(p, k)
    /\ \A o \in Tables!Ops \ ops : Tables!Get(o)' = Tables!Get(o) \/ (o[1] \notin own /\ Tables!Get(o)' = Tables!Unknown)
    /\ \A t \in Tables!Thunks, o \in Tables!Ops : originals'[t][o] = IF t = <<p, k>> /\ o \in ops THEN Was(o) ELSE originals[t][o]
    /\ \A q \in Plugins \ {p} : swaps'[q] = swaps[q]
    /\ swaps'[p] = swaps[p] \o more
    /\ \A i \in DOMAIN more : more[i].at \in ops /\ more[i].was = Was(more[i].at)
    /\ \A o \in ops : \E i \in DOMAIN more : more[i].at = o

\* an opcode that is hooked gets the thunk on top of its pile
LEMMA HookedOnTop ==
    ASSUME TableTyped, NEW p \in Plugins, NEW k \in Ks, NEW ops \in SUBSET Tables!Ops, NEW more \in Seq(Swap),
           Hooks(p, k, ops, more), NEW op \in ops, NEW st \in Seq(Tables!Thunks), NEW b \in Tables!Handler, Pile(op, st, b)
    PROVE  \E u \in Seq(Tables!Thunks), c \in Tables!Handler : Pile(op, u, c)'
<1>. PICK t \in Tables!Thunks : t = <<p, k>>
  BY DEF Tables!Thunks
<1>0. op \in Tables!Ops /\ t[1] = p
  OBVIOUS
<1>1. PICK c \in Tables!Handler :
         /\ Based(op, c) /\ Was(op) = Node(st, c, 1) /\ \A i \in DOMAIN st : Node(st, c, i + 1) = Node(st, b, i + 1)
  BY <1>0, PileFound
<1>2. /\ \A x \in Tables!Thunks : <<x, op>> \in asked <=> \E i \in DOMAIN st : st[i] = x
      /\ \A i, j \in DOMAIN st : st[i] = st[j] => i = j
      /\ \A i \in DOMAIN st : originals[st[i]][op] = Node(st, c, i + 1) /\ st[i] \in Tables!Thunks
  BY <1>1 DEF Pile, Piled
<1>10. PICK u : Topped(u, t, st, c)
  BY OnPile
<1>3. /\ u \in Seq(Tables!Thunks) /\ DOMAIN u = 1 .. Len(st) + 1 /\ u[1] = t /\ Len(st) \in Nat /\ DOMAIN st = 1 .. Len(st)
      /\ \A i \in DOMAIN st : u[i + 1] = st[i] /\ i + 1 \in DOMAIN u
      /\ \A i \in DOMAIN u : i = 1 \/ (i - 1 \in DOMAIN st /\ u[i] = st[i - 1])
      /\ Node(u, c, 1) = <<"thunk", t>>
      /\ \A i \in 1 .. Len(st) + 1 : Node(u, c, i + 1) = Node(st, c, i)
  BY <1>10 DEF Topped
<1>4. <<t, op>> \notin asked /\ \A x : <<x, op>> \in asked' <=> <<x, op>> \in asked \/ x = t
  BY DEF Hooks
<1>5. \A i \in DOMAIN st : st[i] # t
  BY <1>0, <1>2, <1>4
<1>6. Piled(op, u, c)'
  <2>1. ASSUME NEW x \in Tables!Thunks PROVE <<x, op>> \in asked' <=> \E i \in DOMAIN u : u[i] = x
    <3>1. (\E i \in DOMAIN u : u[i] = x) <=> x = t \/ \E i \in DOMAIN st : st[i] = x
      <4>1. ASSUME NEW i \in DOMAIN u, u[i] = x PROVE x = t \/ \E e \in DOMAIN st : st[e] = x
        BY <1>3, <4>1
      <4>2. ASSUME NEW i \in DOMAIN st, st[i] = x PROVE \E e \in DOMAIN u : u[e] = x
        BY <1>3, <4>2
      <4>3. 1 \in DOMAIN u /\ u[1] = t
        BY <1>3
      <4> QED BY <4>1, <4>2, <4>3
    <3> QED BY <1>2, <1>4, <3>1
  <2>2. ASSUME NEW i \in DOMAIN u, NEW j \in DOMAIN u, u[i] = u[j] PROVE i = j
    <3>1. CASE i = 1 /\ j = 1
      BY <3>1
    <3>2. CASE i # 1 /\ j # 1
      <4>1. i - 1 \in DOMAIN st /\ j - 1 \in DOMAIN st /\ st[i - 1] = st[j - 1]
        BY <1>3, <2>2, <3>2
      <4>2. i - 1 = j - 1 /\ i \in Nat /\ j \in Nat
        BY <1>2, <1>3, <4>1
      <4> QED BY <4>2
    <3>3. CASE i = 1 /\ j # 1
      BY <1>3, <1>5, <2>2, <3>3
    <3>4. CASE i # 1 /\ j = 1
      BY <1>3, <1>5, <2>2, <3>4
    <3> QED BY <3>1, <3>2, <3>3, <3>4
  <2>3. Tables!Get(op)' = Node(u, c, 1)
    BY <1>3 DEF Hooks, Tables!Thunk
  <2>4. ASSUME NEW i \in DOMAIN u PROVE originals'[u[i]][op] = Node(u, c, i + 1)
    <3>1. CASE i = 1
      <4>1. originals'[t][op] = Was(op)
        BY <1>0 DEF Hooks
      <4>2. 1 \in 1 .. Len(st) + 1
        BY <1>3
      <4>3. Node(u, c, 1 + 1) = Node(st, c, 1)
        BY <1>3, <4>2
      <4> QED BY <1>1, <1>3, <3>1, <4>1, <4>3
    <3>2. CASE i # 1
      <4>1. i - 1 \in DOMAIN st /\ u[i] = st[i - 1] /\ i \in 1 .. Len(st) + 1 /\ i - 1 + 1 = i
        BY <1>3, <3>2
      <4>2. originals'[st[i - 1]][op] = originals[st[i - 1]][op]
        BY <1>0, <1>2, <1>5, <4>1 DEF Hooks
      <4>3. originals[st[i - 1]][op] = Node(st, c, i - 1 + 1)
        BY <1>2, <4>1
      <4>4. Node(u, c, i + 1) = Node(st, c, i)
        BY <1>3, <4>1
      <4> QED BY <4>1, <4>2, <4>3, <4>4
    <3> QED BY <3>1, <3>2
  <2> QED BY <2>1, <2>2, <2>3, <2>4 DEF Piled
<1>7. Based(op, c)'
  BY <1>1 DEF Hooks, Based, Tables!Stock, Tables!Unknown, Tables!Cover
<1>8. Ordered(u)'
  <2>1. SUFFICES ASSUME NEW i \in DOMAIN u, NEW j \in DOMAIN u, NEW m \in DOMAIN loaded, NEW n \in DOMAIN loaded,
                        i < j, loaded[m] = u[i][1], loaded[n] = u[j][1]
                 PROVE  n =< m
    BY DEF Hooks, Ordered
  <2>2. i \in Nat /\ j \in Nat /\ j # 1
    BY <1>3, <2>1
  <2>3. j - 1 \in DOMAIN st /\ u[j] = st[j - 1]
    BY <1>3, <2>2
  <2>4. CASE i = 1
    <3>1. loaded[m] = p
      BY <1>0, <1>3, <2>1, <2>4
    <3>2. PICK e \in DOMAIN loaded : loaded[e] = p /\ \A f \in DOMAIN loaded : e < f => \A a \in asked : a[1][1] # loaded[f]
      BY DEF Hooks, Tables!MayHook
    <3>3. e = m
      BY <3>1, <3>2 DEF TableTyped
    <3>4. <<st[j - 1], op>> \in asked
      BY <1>2, <2>3
    <3>5. <<st[j - 1], op>>[1][1] = loaded[n]
      BY <2>1, <2>3
    <3>6. ~(m < n)
      BY <3>2, <3>3, <3>4, <3>5
    <3>7. m \in Nat /\ n \in Nat
      BY DEF TableTyped
    <3> QED BY <3>6, <3>7
  <2>5. CASE i # 1
    <3>1. i - 1 \in DOMAIN st /\ u[i] = st[i - 1] /\ i - 1 < j - 1
      BY <1>3, <2>1, <2>2, <2>5
    <3> QED BY <2>1, <2>3, <3>1 DEF Pile, Ordered
  <2> QED BY <2>4, <2>5
<1>9. Kept(op, u, c)'
  <2> SUFFICES ASSUME NEW q \in Plugins
               PROVE  /\ Swapped(q, op)' <=> \E j \in DOMAIN u : u[j][1] = q
                      /\ \A j \in DOMAIN u : LowestOf(q, u, j) => Tables!Restored(swaps'[q], op) = Node(u, c, j + 1)
    BY DEF Kept, LowestOf, Tables!Restored, Node
  <2>1. /\ Swapped(q, op) <=> \E j \in DOMAIN st : st[j][1] = q
        /\ \A j \in DOMAIN st : LowestOf(q, st, j) => Tables!Restored(swaps[q], op) = Node(st, c, j + 1)
    BY <1>1 DEF Pile, Kept
  <2>2. (\E j \in DOMAIN u : u[j][1] = q) <=> q = p \/ \E j \in DOMAIN st : st[j][1] = q
    <3>1. ASSUME NEW i \in DOMAIN u, u[i][1] = q PROVE q = p \/ \E e \in DOMAIN st : st[e][1] = q
      BY <1>0, <1>3, <3>1
    <3>2. ASSUME NEW i \in DOMAIN st, st[i][1] = q PROVE \E e \in DOMAIN u : u[e][1] = q
      BY <1>3, <3>2
    <3>3. 1 \in DOMAIN u /\ u[1][1] = p
      BY <1>0, <1>3
    <3> QED BY <3>1, <3>2, <3>3
  <2>3. ASSUME NEW j \in DOMAIN u, j # 1, LowestOf(q, u, j)
        PROVE  j - 1 \in DOMAIN st /\ LowestOf(q, st, j - 1) /\ Node(u, c, j + 1) = Node(st, c, j - 1 + 1)
    <3>1. j - 1 \in DOMAIN st /\ u[j] = st[j - 1] /\ j \in 1 .. Len(st) + 1 /\ j - 1 + 1 = j
      BY <1>3, <2>3
    <3>2. Node(u, c, j + 1) = Node(st, c, j)
      BY <1>3, <3>1
    <3>3. ASSUME NEW i \in DOMAIN st, j - 1 < i PROVE st[i][1] # q
      <4>1. i + 1 \in DOMAIN u /\ u[i + 1] = st[i]
        BY <1>3
      <4>2. j < i + 1
        BY <1>3, <3>1, <3>3
      <4> QED BY <2>3, <4>1, <4>2 DEF LowestOf
    <3> QED BY <2>3, <3>1, <3>2, <3>3 DEF LowestOf
  <2>4. CASE q # p
    <3>1. swaps'[q] = swaps[q]
      BY <2>4 DEF Hooks
    <3>2. Swapped(q, op)' <=> Swapped(q, op)
      BY <3>1 DEF Swapped
    <3>3. ASSUME NEW j \in DOMAIN u, LowestOf(q, u, j) PROVE Tables!Restored(swaps'[q], op) = Node(u, c, j + 1)
      <4>1. j # 1
        BY <1>0, <1>3, <2>4, <3>3 DEF LowestOf
      <4> QED BY <2>1, <2>3, <3>1, <3>3, <4>1
    <3> QED BY <2>1, <2>2, <2>4, <3>2, <3>3
  <2>5. CASE q = p
    <3>. PICK ss \in Seq(Swap) : ss = swaps[p]
      BY DEF TableTyped
    <3>. PICK w : w = Was(op)
      OBVIOUS
    <3>1. swaps'[p] = ss \o more /\ \A i \in DOMAIN more : more[i].at = op => more[i].was = w
      BY DEF Hooks
    <3>2. \E i \in DOMAIN more : more[i].at = op
      BY DEF Hooks
    <3>0. PICK all : all = ss \o more /\ Grown(all, ss, more, op, w)
      BY <3>1, RestoredGrows
    <3>3. /\ swaps'[p] = all /\ \E i \in DOMAIN all : all[i].at = op
          /\ (\E i \in DOMAIN ss : ss[i].at = op) => Tables!Restored(all, op) = Tables!Restored(ss, op)
          /\ ~(\E i \in DOMAIN ss : ss[i].at = op) => Tables!Restored(all, op) = w
      BY <3>0, <3>1, <3>2 DEF Grown
    <3>4. Swapped(q, op)' /\ (Swapped(q, op) <=> \E i \in DOMAIN ss : ss[i].at = op)
      BY <2>5, <3>1, <3>3 DEF Swapped
    <3>5. ASSUME NEW j \in DOMAIN u, LowestOf(q, u, j) PROVE Tables!Restored(swaps'[q], op) = Node(u, c, j + 1)
      <4>1. CASE j = 1
        <5>1. \A i \in DOMAIN st : st[i][1] # q
          <6>1. SUFFICES ASSUME NEW i \in DOMAIN st PROVE st[i][1] # q
            OBVIOUS
          <6>2. i + 1 \in DOMAIN u /\ u[i + 1] = st[i] /\ 1 < i + 1
            BY <1>3
          <6> QED BY <3>5, <4>1, <6>2 DEF LowestOf
        <5>2. ~Swapped(q, op)
          BY <2>1, <5>1
        <5>3. Tables!Restored(swaps'[q], op) = w
          BY <2>5, <3>1, <3>3, <3>4, <5>2
        <5>4. 1 \in 1 .. Len(st) + 1
          BY <1>3
        <5>5. Node(u, c, 1 + 1) = Node(st, c, 1)
          BY <1>3, <5>4
        <5> QED BY <1>1, <4>1, <5>3, <5>5
      <4>2. CASE j # 1
        <5>1. j - 1 \in DOMAIN st /\ LowestOf(q, st, j - 1) /\ Node(u, c, j + 1) = Node(st, c, j - 1 + 1)
          BY <2>3, <3>5, <4>2
        <5>2. Tables!Restored(swaps[q], op) = Node(st, c, j - 1 + 1) /\ Swapped(q, op)
          BY <2>1, <5>1 DEF LowestOf
        <5> QED BY <2>5, <3>1, <3>3, <3>4, <5>1, <5>2
      <4> QED BY <4>1, <4>2
    <3> QED BY <2>2, <2>5, <3>4, <3>5
  <2> QED BY <2>4, <2>5
<1> QED BY <1>3, <1>6, <1>7, <1>8, <1>9 DEF Pile

\* a pile that a step does not touch, but for what nobody hooked lies on
LEMMA PileStays ==
    ASSUME NEW op \in Tables!Ops, NEW st \in Seq(Tables!Thunks), NEW b, NEW c, Pile(op, st, b),
           Based(op, c)', Tables!Get(op)' = Node(st, c, 1), \A i \in DOMAIN st : Node(st, c, i + 1) = Node(st, b, i + 1),
           \A t \in Tables!Thunks : <<t, op>> \in asked' <=> <<t, op>> \in asked,
           \A i \in DOMAIN st : originals'[st[i]][op] = originals[st[i]][op],
           Ordered(st)',
           \A q \in Plugins : Swapped(q, op)' <=> Swapped(q, op),
           \A q \in Plugins : Swapped(q, op) => Tables!Restored(swaps'[q], op) = Tables!Restored(swaps[q], op)
    PROVE  Pile(op, st, c)'
<1>1. Piled(op, st, c)'
  <2>1. \A i \in DOMAIN st : st[i] \in Tables!Thunks
    OBVIOUS
  <2>2. \A t \in Tables!Thunks : <<t, op>> \in asked' <=> \E i \in DOMAIN st : st[i] = t
    BY DEF Pile, Piled
  <2>3. \A i, j \in DOMAIN st : st[i] = st[j] => i = j
    BY DEF Pile, Piled
  <2>4. \A i \in DOMAIN st : originals'[st[i]][op] = Node(st, c, i + 1)
    BY DEF Pile, Piled
  <2> QED BY <2>2, <2>3, <2>4 DEF Piled
<1>2. Kept(op, st, c)'
  <2> SUFFICES ASSUME NEW q \in Plugins
               PROVE  /\ Swapped(q, op)' <=> \E j \in DOMAIN st : st[j][1] = q
                      /\ \A j \in DOMAIN st : LowestOf(q, st, j) => Tables!Restored(swaps'[q], op) = Node(st, c, j + 1)
    BY DEF Kept, LowestOf, Tables!Restored, Node
  <2>1. /\ Swapped(q, op) <=> \E j \in DOMAIN st : st[j][1] = q
        /\ \A j \in DOMAIN st : LowestOf(q, st, j) => Tables!Restored(swaps[q], op) = Node(st, b, j + 1)
    BY DEF Pile, Kept
  <2>2. ASSUME NEW j \in DOMAIN st, LowestOf(q, st, j) PROVE Tables!Restored(swaps'[q], op) = Node(st, c, j + 1)
    <3>1. Swapped(q, op)
      BY <2>1, <2>2 DEF LowestOf
    <3> QED BY <2>1, <2>2, <3>1
  <2> QED BY <2>1, <2>2
<1> QED BY <1>1, <1>2 DEF Pile

\* an opcode that is not hooked keeps its pile
LEMMA HookedElsewhere ==
    ASSUME TableTyped, NEW p \in Plugins, NEW k \in Ks, NEW ops \in SUBSET Tables!Ops, NEW more \in Seq(Swap),
           Hooks(p, k, ops, more), NEW op \in Tables!Ops \ ops, NEW st \in Seq(Tables!Thunks), NEW b \in Tables!Handler, Pile(op, st, b)
    PROVE  \E u \in Seq(Tables!Thunks), c \in Tables!Handler : Pile(op, u, c)'
<1>1. PICK c \in Tables!Handler :
         /\ Based(op, c) /\ Tables!Get(op)' = Node(st, c, 1) /\ \A i \in DOMAIN st : Node(st, c, i + 1) = Node(st, b, i + 1)
  <2>1. CASE Tables!Get(op)' = Tables!Get(op)
    BY <2>1 DEF Pile, Piled
  <2>2. CASE op[1] \notin own /\ Tables!Get(op)' = Tables!Unknown
    <3>1. st = << >> /\ DOMAIN st = {} /\ op \notin registered
      BY <2>2, Unowned, NoPile DEF Pile
    <3>2. Node(st, Tables!Unknown, 1) = Tables!Unknown
      BY <3>1 DEF Node
    <3>3. Based(op, Tables!Unknown) /\ Tables!Unknown \in Tables!Handler
      BY <3>1 DEF Based, Tables!Handler
    <3> QED BY <2>2, <3>1, <3>2, <3>3
  <2> QED BY <2>1, <2>2 DEF Hooks
<1>2. Based(op, c)'
  BY <1>1 DEF Hooks, Based, Tables!Stock, Tables!Unknown, Tables!Cover
<1>3. \A t \in Tables!Thunks : <<t, op>> \in asked' <=> <<t, op>> \in asked
  BY DEF Hooks
<1>4. \A i \in DOMAIN st : originals'[st[i]][op] = originals[st[i]][op]
  <2>1. \A i \in DOMAIN st : st[i] \in Tables!Thunks
    OBVIOUS
  <2> QED BY <2>1 DEF Hooks
<1>5. Ordered(st)'
  BY DEF Hooks, Ordered, Pile
<1>6. ASSUME NEW q \in Plugins
      PROVE  /\ Swapped(q, op)' <=> Swapped(q, op)
             /\ Swapped(q, op) => Tables!Restored(swaps'[q], op) = Tables!Restored(swaps[q], op)
  <2>1. CASE q # p
    BY <2>1 DEF Hooks, Swapped
  <2>2. CASE q = p
    <3>. PICK ss \in Seq(Swap) : ss = swaps[p]
      BY DEF TableTyped
    <3>1. swaps'[p] = ss \o more /\ \A i \in DOMAIN more : more[i].at # op
      BY DEF Hooks
    <3>2. \A i \in DOMAIN more : more[i].at = op => more[i].was = b
      BY <3>1
    <3>3. PICK all : all = ss \o more /\ Grown(all, ss, more, op, b)
      BY <3>2, RestoredGrows
    <3>4. swaps'[p] = all
      BY <3>1, <3>3
    <3> QED BY <2>2, <3>1, <3>3, <3>4 DEF Grown, Swapped
  <2> QED BY <2>1, <2>2
<1>7. Pile(op, st, c)'
  BY <1>1, <1>2, <1>3, <1>4, <1>5, <1>6, PileStays
<1> QED BY <1>7

LEMMA Hooked ==
    ASSUME TableInv, NEW p \in Plugins, NEW k \in Ks, NEW ops \in SUBSET Tables!Ops, NEW more \in Seq(Swap),
           Hooks(p, k, ops, more), TableTyped', lost => lost'
    PROVE  TableInv'
<1> SUFFICES ASSUME ~lost', ~lost, NEW op \in Tables!Ops
             PROVE  \E u \in Seq(Tables!Thunks), c \in Tables!Handler : Pile(op, u, c)'
  BY DEF TableInv
<1>1. PICK st \in Seq(Tables!Thunks), b \in Tables!Handler : Pile(op, st, b)
  BY DEF TableInv
<1>2. TableTyped
  BY DEF TableInv
<1>3. CASE op \in ops
  BY <1>1, <1>2, <1>3, HookedOnTop
<1>4. CASE op \in Tables!Ops \ ops
  BY <1>1, <1>2, <1>4, HookedElsewhere
<1> QED BY <1>3, <1>4

LEMMA WasIs ==
    ASSUME TableTyped
    PROVE  \A op \in Tables!Ops : Was(op) \in Tables!Handler
<1> SUFFICES ASSUME NEW op \in Tables!Ops PROVE Was(op) \in Tables!Handler
  OBVIOUS
<1>1. op[1] \in Cmds /\ op[2] \in Depts
  BY OpIs
<1>2. Tables!Unknown \in Tables!Handler
  BY DEF Tables!Handler
<1>3. row[op[1]][op[2]] \in Tables!Handler
  BY <1>1 DEF TableTyped
<1> QED BY <1>1, <1>2, <1>3 DEF Was, Tables!Slot

LEMMA OneMore ==
    ASSUME NEW S, NEW x \in S
    PROVE  /\ <<x>> \in Seq(S) /\ DOMAIN <<x>> = {1} /\ <<x>>[1] = x
           /\ \A q \in Seq(S) : Append(q, x) \in Seq(S)
OBVIOUS

LEMMA HookOpcodeKeeps ==
    ASSUME TableInv, NEW p \in Plugins, NEW k \in Ks, NEW op \in Tables!Ops, Tables!HookOpcode(p, k, op)
    PROVE  TableInv'
<1>0. TableTyped
  BY DEF TableInv
<1>. PICK w \in Tables!Handler : w = Was(op)
  BY <1>0, WasIs
<1>1. /\ Tables!MayHook(p) /\ <<<<p, k>>, op>> \notin asked
      /\ Tables!Put(op, Tables!Thunk(p, k)) /\ Tables!Remember(p, op, w)
      /\ originals' = [originals EXCEPT ![<<p, k>>][op] = w]
      /\ asked' = asked \cup {<<<<p, k>>, op>>}
      /\ loaded' = loaded /\ registered' = registered
  BY DEF Tables!HookOpcode, Was
<1>2. <<p, k>> \in Tables!Thunks /\ Tables!Thunk(p, k) \in Tables!Handler
  BY DEF Tables!Thunks, Tables!Thunk, Tables!Handler
<1>3. /\ own' \subseteq Cmds /\ own' = own \cup {op[1]} /\ row' \in [Cmds -> [Depts -> Tables!Handler]] /\ def' = def
      /\ Tables!Get(op)' = Tables!Thunk(p, k)
      /\ \A o \in Tables!Ops \ {op} : Tables!Get(o)' = IF o[1] = op[1] /\ o[1] \notin own THEN Tables!Unknown ELSE Tables!Get(o)
  BY <1>0, <1>1, <1>2, PutIs
<1>. PICK s \in Swap : s = [at |-> op, was |-> w]
  BY DEF Swap
<1>4. swaps \in [Plugins -> Seq(Swap)] /\ swaps[p] \in Seq(Swap)
  BY <1>0 DEF TableTyped
<1>5. \/ swaps' = [swaps EXCEPT ![p] = Append(@, s)] /\ lost' = lost
      \/ swaps' = swaps /\ lost' = TRUE
  BY <1>1 DEF Tables!Remember
<1>6. TableTyped'
  <2>1. swaps' \in [Plugins -> Seq(Swap)]
    <3>1. Append(swaps[p], s) \in Seq(Swap)
      BY <1>4, OneMore
    <3> QED BY <1>4, <1>5, <3>1
  <2>2. originals' \in [Tables!Thunks -> [Tables!Ops -> Tables!Handler \cup {Tables!None}]]
    <3>1. originals \in [Tables!Thunks -> [Tables!Ops -> Tables!Handler \cup {Tables!None}]]
      BY <1>0 DEF TableTyped
    <3>2. [originals[<<p, k>>] EXCEPT ![op] = w] \in [Tables!Ops -> Tables!Handler \cup {Tables!None}]
      BY <1>2, <3>1
    <3> QED BY <1>1, <1>2, <3>1, <3>2
  <2>3. \A o \in registered' : o[1] \in own'
    BY <1>0, <1>1, <1>3 DEF TableTyped
  <2>4. \A a \in asked' : a[2][1] \in own' /\ \E i \in DOMAIN loaded' : loaded'[i] = a[1][1]
    <3>1. \E i \in DOMAIN loaded : loaded[i] = p
      BY <1>1 DEF Tables!MayHook
    <3>2. ASSUME NEW a \in asked PROVE a[2][1] \in own' /\ \E i \in DOMAIN loaded : loaded[i] = a[1][1]
      BY <1>0, <1>3 DEF TableTyped
    <3> QED BY <1>1, <1>3, <3>1, <3>2
  <2>5. asked' \subseteq Tables!Thunks \X Tables!Ops
    <3>1. asked \subseteq Tables!Thunks \X Tables!Ops
      BY <1>0 DEF TableTyped
    <3>2. <<<<p, k>>, op>> \in Tables!Thunks \X Tables!Ops
      BY <1>2
    <3> QED BY <1>1, <3>1, <3>2
  <2>6. /\ def' \in [Depts -> Tables!Handler]
        /\ \A d \in Depts : def'[d] = Tables!Unknown \/ \E q \in Plugins : def'[d] = Tables!Cover(q)
    BY <1>0, <1>3 DEF TableTyped
  <2>7. /\ registered' \subseteq Tables!Ops /\ loaded' \in Seq(Plugins)
        /\ \A i, j \in DOMAIN loaded' : loaded'[i] = loaded'[j] => i = j
    BY <1>0, <1>1 DEF TableTyped
  <2> QED BY <1>3, <2>1, <2>2, <2>3, <2>4, <2>5, <2>6, <2>7 DEF TableTyped
<1>7. CASE lost' = TRUE
  BY <1>6, <1>7 DEF TableInv
<1>8. CASE swaps' = [swaps EXCEPT ![p] = Append(@, s)] /\ lost' = lost
  <2>. PICK more \in Seq(Swap) : more = <<s>>
    BY OneMore
  <2>. PICK ops \in SUBSET Tables!Ops : ops = {op}
    OBVIOUS
  <2>1. DOMAIN more = {1} /\ more[1] = s /\ s.at = op /\ s.was = w
    BY OneMore
  <2>2. swaps'[p] = swaps[p] \o more /\ \A q \in Plugins \ {p} : swaps'[q] = swaps[q]
    <3>1. swaps'[p] = Append(swaps[p], s) /\ \A q \in Plugins \ {p} : swaps'[q] = swaps[q]
      BY <1>4, <1>8
    <3>2. Append(swaps[p], s) = swaps[p] \o <<s>>
      BY <1>4, AppendIsConcat
    <3> QED BY <3>1, <3>2
  <2>3. ASSUME NEW t \in Tables!Thunks, NEW o \in Tables!Ops
        PROVE  originals'[t][o] = IF t = <<p, k>> /\ o \in ops THEN Was(o) ELSE originals[t][o]
    <3>1. originals \in [Tables!Thunks -> [Tables!Ops -> Tables!Handler \cup {Tables!None}]]
      BY <1>0 DEF TableTyped
    <3> QED BY <1>1, <1>2, <3>1
  <2>4. \A i \in DOMAIN more : more[i].at \in ops /\ more[i].was = Was(more[i].at)
    BY <2>1
  <2>5. \A o \in ops : \E i \in DOMAIN more : more[i].at = o
    BY <2>1
  <2>6. asked' = asked \cup {<<<<p, k>>, o>> : o \in ops}
    BY <1>1
  <2>7. \A o \in Tables!Ops \ ops : Tables!Get(o)' = Tables!Get(o) \/ (o[1] \notin own /\ Tables!Get(o)' = Tables!Unknown)
    BY <1>3
  <2>8. Hooks(p, k, ops, more)
    BY <1>1, <1>3, <2>2, <2>3, <2>4, <2>5, <2>6, <2>7 DEF Hooks
  <2> QED BY <1>6, <1>8, <2>8, Hooked
<1> QED BY <1>5, <1>7, <1>8

LEMMA SameCardinality == \A S : Tables!Cardinality(S) = Cardinality(S)
BY DEF Tables!Cardinality, Cardinality

\* the opcodes of a department that have a handler
LEMMA Department ==
    ASSUME NEW d \in Depts
    PROVE  /\ Tables!InDepartment(d) \in SUBSET Tables!Ops /\ Tables!Cardinality(Tables!InDepartment(d)) \in Nat
           /\ \A o \in Tables!InDepartment(d) : o[2] = d
<1> DEFINE ops == Tables!InDepartment(d)
<1>1. ops \subseteq Tables!Ops /\ \A o \in ops : o[2] = d
  BY DEF Tables!InDepartment
<1>2. IsFiniteSet(Cmds) /\ IsFiniteSet(Depts)
  BY HookPointsOK DEF Tables!ProtocolTableConstantsOK, Tables!IsFiniteSet, IsFiniteSet
<1>3. IsFiniteSet(Tables!Ops)
  BY <1>2, FS_Product DEF Tables!Ops
<1> HIDE DEF ops
<1>4. IsFiniteSet(ops)
  BY <1>1, <1>3, FS_Subset
<1>5. Cardinality(ops) \in Nat
  BY <1>4, FS_CardinalityType
<1>6. Tables!Cardinality(ops) = Cardinality(ops)
  BY SameCardinality
<1> QED BY <1>1, <1>5, <1>6 DEF ops

\* the rows after a department is hooked
LEMMA DepartmentIs ==
    ASSUME TableTyped, NEW p \in Plugins, NEW k \in Ks, NEW d \in Depts, Tables!HookDepartment(p, k, d),
           NEW ops \in SUBSET Tables!Ops, ops = Tables!InDepartment(d), NEW h \in Tables!Handler, h = Tables!Thunk(p, k)
    PROVE  /\ own' \subseteq Cmds /\ row' \in [Cmds -> [Depts -> Tables!Handler]]
           /\ \A o \in ops : Tables!Get(o)' = h
           /\ \A o \in Tables!Ops \ ops : Tables!Get(o)' = Tables!Get(o) \/ (o[1] \notin own /\ Tables!Get(o)' = Tables!Unknown)
<1>0. /\ own' = own \cup {op[1] : op \in ops} /\ def' = def
      /\ row' = [c \in Cmds |-> IF <<c, d>> \in ops THEN [Tables!Slot(c) EXCEPT ![d] = h] ELSE row[c]]
  BY DEF Tables!HookDepartment
<1>1. /\ \A o \in Tables!Ops : o[1] \in Cmds /\ o[2] \in Depts /\ o = <<o[1], o[2]>>
      /\ \A o \in ops : o[2] = d
  BY OpIs, Department
<1>2. own \subseteq Cmds /\ row \in [Cmds -> [Depts -> Tables!Handler]] /\ Tables!Unknown \in Tables!Handler
  BY DEF TableTyped, Tables!Handler
<1>3. \A c \in Cmds : Tables!Slot(c) \in [Depts -> Tables!Handler]
  BY <1>2 DEF Tables!Slot
<1>4. own' \subseteq Cmds
  BY <1>0, <1>1, <1>2
<1>5. \A c \in Cmds : row'[c] = IF <<c, d>> \in ops THEN [Tables!Slot(c) EXCEPT ![d] = h] ELSE row[c]
  BY <1>0
<1>6. \A c \in Cmds : [Tables!Slot(c) EXCEPT ![d] = h] \in [Depts -> Tables!Handler]
  BY <1>3
<1>7. row' \in [Cmds -> [Depts -> Tables!Handler]]
  BY <1>0, <1>2, <1>6
<1>8. ASSUME NEW o \in ops PROVE Tables!Get(o)' = h
  <2>1. o[1] \in Cmds /\ o[2] = d /\ <<o[1], d>> \in ops /\ o[1] \in own'
    BY <1>0, <1>1
  <2>2. row'[o[1]] = [Tables!Slot(o[1]) EXCEPT ![d] = h]
    BY <1>5, <2>1
  <2>3. row'[o[1]][o[2]] = h
    BY <1>3, <2>1, <2>2
  <2> QED BY <2>1, <2>3 DEF Tables!Get
<1>9. ASSUME NEW o \in Tables!Ops \ ops
      PROVE  Tables!Get(o)' = Tables!Get(o) \/ (o[1] \notin own /\ Tables!Get(o)' = Tables!Unknown)
  <2>1. o[1] \in Cmds /\ o[2] \in Depts /\ o = <<o[1], o[2]>>
    BY <1>1
  <2>2. CASE <<o[1], d>> \notin ops
    <3>1. row'[o[1]] = row[o[1]]
      BY <1>5, <2>1, <2>2
    <3>2. o[1] \in own' <=> o[1] \in own
      <4>1. \A op \in ops : op[1] # o[1]
        BY <1>1, <2>2
      <4> QED BY <1>0, <4>1
    <3>3. CASE o[1] \in own
      <4>1. o[1] \in own' /\ row'[o[1]][o[2]] = row[o[1]][o[2]]
        BY <3>1, <3>2, <3>3
      <4> QED BY <3>3, <4>1, Zenon DEF Tables!Get
    <3>4. CASE o[1] \notin own
      <4>1. o[1] \notin own' /\ def'[o[2]] = def[o[2]]
        BY <1>0, <3>2, <3>4
      <4> QED BY <3>4, <4>1, Zenon DEF Tables!Get
    <3> QED BY <3>3, <3>4
  <2>3. CASE <<o[1], d>> \in ops
    <3>1. o[2] # d
      BY <2>1, <2>3
    <3>2. row'[o[1]][o[2]] = Tables!Slot(o[1])[o[2]]
      BY <1>3, <1>5, <2>1, <2>3, <3>1
    <3>3. <<o[1], d>>[1] \in own' /\ <<o[1], d>>[1] = o[1]
      BY <1>0, <2>3
    <3>4. Tables!Slot(o[1])[o[2]] = IF o[1] \in own THEN row[o[1]][o[2]] ELSE Tables!Unknown
      BY <2>1 DEF Tables!Slot
    <3> QED BY <3>2, <3>3, <3>4 DEF Tables!Get
  <2> QED BY <2>2, <2>3
<1> QED BY <1>4, <1>7, <1>8, <1>9

\* what is kept of a sequence that may be too long
LEMMA FirstPart ==
    ASSUME NEW S, NEW s \in Seq(S), NEW m \in Nat, NEW n, n = IF Len(s) =< m THEN Len(s) ELSE m
    PROVE  SubSeq(s, 1, n) \in Seq(S) /\ (~(Len(s) > m) => SubSeq(s, 1, n) = s)
<1>1. Len(s) \in Nat
  OBVIOUS
<1>2. n \in Nat /\ n =< Len(s) /\ (~(Len(s) > m) => n = Len(s))
  BY <1>1
<1>3. SubSeq(s, 1, n) \in Seq(S) /\ (n = Len(s) => SubSeq(s, 1, n) = s)
  BY <1>2
<1> QED BY <1>2, <1>3

LEMMA HookDepartmentKeeps ==
    ASSUME TableInv, NEW p \in Plugins, NEW k \in Ks, NEW d \in Depts, Tables!HookDepartment(p, k, d)
    PROVE  TableInv'
<1>0. TableTyped
  BY DEF TableInv
<1>. PICK ops \in SUBSET Tables!Ops : ops = Tables!InDepartment(d)
  BY Department
<1>1. Tables!Cardinality(ops) \in Nat /\ \A o \in ops : o[2] = d
  BY Department
<1>. PICK h \in Tables!Handler : h = Tables!Thunk(p, k)
  BY DEF Tables!Thunks, Tables!Thunk, Tables!Handler
<1>2. /\ Tables!MayHook(p) /\ \A o \in ops : <<<<p, k>>, o>> \notin asked
      /\ own' = own \cup {op[1] : op \in ops}
      /\ row' = [c \in Cmds |-> IF <<c, d>> \in ops THEN [Tables!Slot(c) EXCEPT ![d] = h] ELSE row[c]]
      /\ originals' = [originals EXCEPT ![<<p, k>>] = [op \in Tables!Ops |-> IF op \in ops THEN Tables!Slot(op[1])[d] ELSE @[op]]]
      /\ asked' = asked \cup {<<<<p, k>>, o>> : o \in ops}
      /\ def' = def /\ loaded' = loaded /\ registered' = registered
  BY DEF Tables!HookDepartment
<1>3. PICK order \in [1 .. Tables!Cardinality(ops) -> ops] :
         /\ Tables!ToSet(order) = ops
         /\ LET all == swaps[p] \o [i \in DOMAIN order |-> [at |-> order[i], was |-> Tables!Slot(order[i][1])[d]]]
            IN  /\ swaps' = [swaps EXCEPT ![p] = SubSeq(all, 1, IF Len(all) =< kMaxSwaps THEN Len(all) ELSE kMaxSwaps)]
                /\ lost' = (lost \/ Len(all) > kMaxSwaps)
  BY DEF Tables!HookDepartment
<1>. PICK more : more = [i \in DOMAIN order |-> [at |-> order[i], was |-> Tables!Slot(order[i][1])[d]]]
  OBVIOUS
<1>4. \A o \in ops : Was(o) = Tables!Slot(o[1])[d] /\ Was(o) \in Tables!Handler
  BY <1>0, <1>1, WasIs DEF Was
<1>5. /\ more \in Seq(Swap) /\ DOMAIN more = DOMAIN order
      /\ \A i \in DOMAIN more : more[i].at = order[i] /\ more[i].at \in ops /\ more[i].was = Was(more[i].at)
  <2>1. ASSUME NEW i \in DOMAIN order PROVE more[i] \in Swap /\ more[i].at = order[i] /\ order[i] \in ops /\ more[i].was = Was(order[i])
    <3>1. order[i] \in ops /\ order[i] \in Tables!Ops
      OBVIOUS
    <3>2. more[i] = [at |-> order[i], was |-> Was(order[i])]
      BY <1>4, <3>1
    <3> QED BY <1>4, <3>1, <3>2 DEF Swap
  <2>2. DOMAIN more = 1 .. Tables!Cardinality(ops)
    OBVIOUS
  <2>3. more = [i \in 1 .. Tables!Cardinality(ops) |-> more[i]]
    OBVIOUS
  <2>4. more \in Seq(Swap)
    BY <1>1, <2>1, <2>2, <2>3
  <2> QED BY <2>1, <2>2, <2>4
<1>6. \A o \in ops : \E i \in DOMAIN more : more[i].at = o
  BY <1>3, <1>5 DEF Tables!ToSet
<1>7. swaps \in [Plugins -> Seq(Swap)] /\ swaps[p] \in Seq(Swap) /\ kMaxSwaps \in Nat
  BY <1>0, HookPointsOK DEF TableTyped, Tables!ProtocolTableConstantsOK
<1>. PICK all \in Seq(Swap) : all = swaps[p] \o more
  BY <1>5, <1>7, ConcatProperties
<1>. PICK n : n = IF Len(all) =< kMaxSwaps THEN Len(all) ELSE kMaxSwaps
  OBVIOUS
<1>8. swaps' = [swaps EXCEPT ![p] = SubSeq(all, 1, n)] /\ (lost => lost') /\ (~lost' => ~(Len(all) > kMaxSwaps))
  BY <1>3
<1>10. SubSeq(all, 1, n) \in Seq(Swap) /\ (~(Len(all) > kMaxSwaps) => SubSeq(all, 1, n) = all)
  BY <1>7, FirstPart
<1>11. /\ own' \subseteq Cmds /\ row' \in [Cmds -> [Depts -> Tables!Handler]]
       /\ \A o \in ops : Tables!Get(o)' = h
       /\ \A o \in Tables!Ops \ ops : Tables!Get(o)' = Tables!Get(o) \/ (o[1] \notin own /\ Tables!Get(o)' = Tables!Unknown)
  BY <1>0, DepartmentIs
<1>12. ASSUME NEW t \in Tables!Thunks, NEW o \in Tables!Ops
       PROVE  originals'[t][o] = IF t = <<p, k>> /\ o \in ops THEN Was(o) ELSE originals[t][o]
  <2>1. originals \in [Tables!Thunks -> [Tables!Ops -> Tables!Handler \cup {Tables!None}]]
    BY <1>0 DEF TableTyped
  <2>2. CASE t = <<p, k>>
    <3>1. originals'[t] = [op \in Tables!Ops |-> IF op \in ops THEN Tables!Slot(op[1])[d] ELSE originals[t][op]]
      BY <1>2, <2>1, <2>2
    <3>2. originals'[t][o] = IF o \in ops THEN Tables!Slot(o[1])[d] ELSE originals[t][o]
      BY <3>1
    <3> QED BY <1>4, <2>2, <3>2
  <2>3. CASE t # <<p, k>>
    BY <1>2, <2>1, <2>3
  <2> QED BY <2>2, <2>3
<1>13. TableTyped'
  <2>1. swaps' \in [Plugins -> Seq(Swap)]
    BY <1>7, <1>8, <1>10
  <2>2. originals' \in [Tables!Thunks -> [Tables!Ops -> Tables!Handler \cup {Tables!None}]]
    <3>1. originals \in [Tables!Thunks -> [Tables!Ops -> Tables!Handler \cup {Tables!None}]]
      BY <1>0 DEF TableTyped
    <3>. PICK f : f = [op \in Tables!Ops |-> IF op \in ops THEN Tables!Slot(op[1])[d] ELSE originals[<<p, k>>][op]]
      OBVIOUS
    <3>2. <<p, k>> \in Tables!Thunks
      BY DEF Tables!Thunks
    <3>3. f \in [Tables!Ops -> Tables!Handler \cup {Tables!None}]
      BY <1>4, <3>1, <3>2
    <3>4. originals' = [originals EXCEPT ![<<p, k>>] = f]
      BY <1>2
    <3> QED BY <3>1, <3>2, <3>3, <3>4
  <2>3. \A o \in registered' : o[1] \in own'
    BY <1>0, <1>2 DEF TableTyped
  <2>4. \A a \in asked' : a[2][1] \in own' /\ \E i \in DOMAIN loaded' : loaded'[i] = a[1][1]
    <3>1. \E i \in DOMAIN loaded : loaded[i] = p
      BY <1>2 DEF Tables!MayHook
    <3>2. ASSUME NEW a \in asked PROVE a[2][1] \in own' /\ \E i \in DOMAIN loaded : loaded[i] = a[1][1]
      BY <1>0, <1>2 DEF TableTyped
    <3>3. ASSUME NEW o \in ops, NEW a, a = <<<<p, k>>, o>> PROVE a[2][1] \in own' /\ \E i \in DOMAIN loaded : loaded[i] = a[1][1]
      BY <1>2, <3>1, <3>3
    <3> QED BY <1>2, <3>2, <3>3
  <2>5. asked' \subseteq Tables!Thunks \X Tables!Ops
    <3>1. asked \subseteq Tables!Thunks \X Tables!Ops
      BY <1>0 DEF TableTyped
    <3>2. \A o \in ops : <<<<p, k>>, o>> \in Tables!Thunks \X Tables!Ops
      BY DEF Tables!Thunks
    <3> QED BY <1>2, <3>1, <3>2
  <2>6. /\ def' \in [Depts -> Tables!Handler]
        /\ \A e \in Depts : def'[e] = Tables!Unknown \/ \E q \in Plugins : def'[e] = Tables!Cover(q)
    BY <1>0, <1>2 DEF TableTyped
  <2>7. /\ registered' \subseteq Tables!Ops /\ loaded' \in Seq(Plugins)
        /\ \A i, j \in DOMAIN loaded' : loaded'[i] = loaded'[j] => i = j
    BY <1>0, <1>2 DEF TableTyped
  <2> QED BY <1>11, <2>1, <2>2, <2>3, <2>4, <2>5, <2>6, <2>7 DEF TableTyped
<1>14. CASE lost'
  BY <1>13, <1>14 DEF TableInv
<1>15. CASE ~lost'
  <2>1. swaps'[p] = swaps[p] \o more /\ \A q \in Plugins \ {p} : swaps'[q] = swaps[q]
    BY <1>7, <1>8, <1>10, <1>15
  <2>2. Hooks(p, k, ops, more)
    BY <1>2, <1>5, <1>6, <1>11, <1>12, <2>1 DEF Hooks
  <2>3. more \in Seq(Swap)
    BY <1>5
  <2> QED BY <1>8, <1>13, <2>2, <2>3, Hooked
<1> QED BY <1>14, <1>15

\* a step that neither hooks nor takes hooks back
LEMMA HooksStay ==
    ASSUME TableInv, TableTyped', lost' = lost, asked' = asked, originals' = originals, swaps' = swaps,
           \A op \in Tables!Ops, st \in Seq(Tables!Thunks), b \in Tables!Handler : Pile(op, st, b) =>
              /\ Ordered(st)'
              /\ \E c \in Tables!Handler : /\ Based(op, c)' /\ Tables!Get(op)' = Node(st, c, 1)
                                           /\ \A i \in DOMAIN st : Node(st, c, i + 1) = Node(st, b, i + 1)
    PROVE  TableInv'
<1> SUFFICES ASSUME ~lost, NEW op \in Tables!Ops
             PROVE  \E st \in Seq(Tables!Thunks), c \in Tables!Handler : Pile(op, st, c)'
  BY DEF TableInv
<1>1. PICK st \in Seq(Tables!Thunks), b \in Tables!Handler : Pile(op, st, b)
  BY DEF TableInv
<1>2. PICK c \in Tables!Handler : /\ Based(op, c)' /\ Tables!Get(op)' = Node(st, c, 1)
                                  /\ \A i \in DOMAIN st : Node(st, c, i + 1) = Node(st, b, i + 1)
  BY <1>1
<1>3. Ordered(st)'
  BY <1>1
<1>4. \A q \in Plugins : Swapped(q, op)' <=> Swapped(q, op)
  BY DEF Swapped
<1>5. Pile(op, st, c)'
  BY <1>1, <1>2, <1>3, <1>4, PileStays
<1> QED BY <1>5

LEMMA LoadKeeps ==
    ASSUME TableInv, NEW p \in Plugins, Tables!Load(p)
    PROVE  TableInv'
<1>0. TableTyped
  BY DEF TableInv
<1>1. /\ \A i \in DOMAIN loaded : loaded[i] # p
      /\ loaded' = Append(loaded, p)
      /\ own' = own /\ row' = row /\ def' = def /\ swaps' = swaps /\ originals' = originals /\ registered' = registered
      /\ asked' = asked /\ lost' = lost
  BY DEF Tables!Load, Tables!table, Tables!ToSet
<1>2. loaded \in Seq(Plugins) /\ Len(loaded) \in Nat /\ DOMAIN loaded = 1 .. Len(loaded)
  BY <1>0 DEF TableTyped
<1>3. /\ loaded' \in Seq(Plugins) /\ DOMAIN loaded' = 1 .. Len(loaded) + 1 /\ loaded'[Len(loaded) + 1] = p
      /\ \A i \in DOMAIN loaded : i \in DOMAIN loaded' /\ loaded'[i] = loaded[i]
  BY <1>1, <1>2
<1>4. \A i \in DOMAIN loaded' : (i \in DOMAIN loaded /\ loaded'[i] = loaded[i]) \/ (i = Len(loaded) + 1 /\ loaded'[i] = p)
  BY <1>2, <1>3
<1>5. TableTyped'
  <2>1. \A i, j \in DOMAIN loaded' : loaded'[i] = loaded'[j] => i = j
    BY <1>0, <1>1, <1>4 DEF TableTyped
  <2>2. \A a \in asked' : a[2][1] \in own' /\ \E i \in DOMAIN loaded' : loaded'[i] = a[1][1]
    <3>1. SUFFICES ASSUME NEW a \in asked PROVE a[2][1] \in own /\ \E i \in DOMAIN loaded' : loaded'[i] = a[1][1]
      BY <1>1
    <3>2. a[2][1] \in own /\ \E i \in DOMAIN loaded : loaded[i] = a[1][1]
      BY <1>0 DEF TableTyped
    <3> QED BY <1>3, <3>2
  <2> QED BY <1>0, <1>1, <1>3, <2>1, <2>2 DEF TableTyped
<1>6. ASSUME NEW op \in Tables!Ops, NEW st \in Seq(Tables!Thunks), NEW b \in Tables!Handler, Pile(op, st, b)
      PROVE  /\ Ordered(st)'
             /\ \E c \in Tables!Handler : /\ Based(op, c)' /\ Tables!Get(op)' = Node(st, c, 1)
                                          /\ \A i \in DOMAIN st : Node(st, c, i + 1) = Node(st, b, i + 1)
  <2>1. \A i \in DOMAIN st : st[i][1] # p
    <3>1. SUFFICES ASSUME NEW i \in DOMAIN st PROVE st[i][1] # p
      OBVIOUS
    <3>2. st[i] \in Tables!Thunks
      OBVIOUS
    <3>3. <<st[i], op>> \in asked
      BY <1>6, <3>2 DEF Pile, Piled
    <3>4. \E e \in DOMAIN loaded : loaded[e] = st[i][1]
      BY <1>0, <3>3 DEF TableTyped
    <3> QED BY <1>1, <3>4
  <2>2. Ordered(st)'
    BY <1>4, <1>6, <2>1 DEF Ordered, Pile
  <2>3. Tables!Get(op)' = Tables!Get(op)
    BY <1>1 DEF Tables!Get
  <2>4. Based(op, b)' /\ Tables!Get(op)' = Node(st, b, 1)
    BY <1>1, <1>6, <2>3 DEF Based, Pile, Piled
  <2> QED BY <2>2, <2>4
<1> QED BY <1>1, <1>5, <1>6, HooksStay

LEMMA StoreKeeps ==
    ASSUME TableInv, NEW op \in Tables!Ops, Tables!Store(op)
    PROVE  TableInv'
<1>0. TableTyped
  BY DEF TableInv
<1>1. /\ \A t \in Tables!Thunks : <<t, op>> \notin asked
      /\ Tables!Put(op, Tables!Stock(op)) /\ registered' = registered \cup {op}
      /\ swaps' = swaps /\ originals' = originals /\ loaded' = loaded /\ asked' = asked /\ lost' = lost
  BY DEF Tables!Store
<1>2. Tables!Stock(op) \in Tables!Handler
  BY DEF Tables!Handler
<1>3. /\ own' \subseteq Cmds /\ own' = own \cup {op[1]} /\ row' \in [Cmds -> [Depts -> Tables!Handler]] /\ def' = def
      /\ Tables!Get(op)' = Tables!Stock(op)
      /\ \A o \in Tables!Ops \ {op} : Tables!Get(o)' = IF o[1] = op[1] /\ o[1] \notin own THEN Tables!Unknown ELSE Tables!Get(o)
  BY <1>0, <1>1, <1>2, PutIs
<1>4. TableTyped'
  BY <1>0, <1>1, <1>3 DEF TableTyped
<1>5. ASSUME NEW o \in Tables!Ops, NEW st \in Seq(Tables!Thunks), NEW b \in Tables!Handler, Pile(o, st, b)
      PROVE  /\ Ordered(st)'
             /\ \E c \in Tables!Handler : /\ Based(o, c)' /\ Tables!Get(o)' = Node(st, c, 1)
                                          /\ \A i \in DOMAIN st : Node(st, c, i + 1) = Node(st, b, i + 1)
  <2>1. Ordered(st)'
    BY <1>1, <1>5 DEF Ordered, Pile
  <2>2. CASE o = op
    <3>1. st = << >> /\ DOMAIN st = {}
      BY <1>0, <1>1, <1>5, <2>2, NoPile DEF Pile
    <3>2. Node(st, Tables!Stock(op), 1) = Tables!Stock(op)
      BY <3>1 DEF Node
    <3>3. Based(op, Tables!Stock(op))'
      BY <1>1 DEF Based, Tables!Stock
    <3> QED BY <1>2, <1>3, <2>1, <2>2, <3>1, <3>2, <3>3
  <2>3. CASE o # op
    <3>1. o \in registered' <=> o \in registered
      BY <1>1, <2>3
    <3>2. CASE o[1] = op[1] /\ o[1] \notin own
      <4>1. st = << >> /\ DOMAIN st = {} /\ o \notin registered
        BY <1>0, <1>5, <3>2, Unowned, NoPile DEF Pile
      <4>2. Node(st, Tables!Unknown, 1) = Tables!Unknown
        BY <4>1 DEF Node
      <4>3. Based(o, Tables!Unknown)' /\ Tables!Unknown \in Tables!Handler
        BY <3>1, <4>1 DEF Based, Tables!Handler, Tables!Unknown
      <4>4. Tables!Get(o)' = Tables!Unknown
        BY <1>3, <2>3, <3>2
      <4> QED BY <2>1, <4>1, <4>2, <4>3, <4>4
    <3>3. CASE ~(o[1] = op[1] /\ o[1] \notin own)
      <4>1. Tables!Get(o)' = Node(st, b, 1)
        BY <1>3, <1>5, <2>3, <3>3 DEF Pile, Piled
      <4>2. Based(o, b)'
        BY <1>5, <3>1 DEF Based, Pile, Tables!Stock, Tables!Unknown, Tables!Cover
      <4> QED BY <2>1, <4>1, <4>2
    <3> QED BY <3>2, <3>3
  <2> QED BY <2>2, <2>3
<1> QED BY <1>1, <1>4, <1>5, HooksStay

LEMMA CoverKeeps ==
    ASSUME TableInv, NEW p \in Plugins, Tables!CoverUnregistered(p)
    PROVE  TableInv'
<1>0. TableTyped
  BY DEF TableInv
<1>1. /\ def' = [d \in Depts |-> Tables!Covering(p, def[d])]
      /\ row' = [c \in Cmds |-> IF c \in own THEN [d \in Depts |-> Tables!Covering(p, row[c][d])] ELSE row[c]]
      /\ own' = own /\ swaps' = swaps /\ originals' = originals /\ loaded' = loaded /\ registered' = registered
      /\ asked' = asked /\ lost' = lost
  BY DEF Tables!CoverUnregistered
<1>2. \A h \in Tables!Handler : Tables!Covering(p, h) \in Tables!Handler
  BY DEF Tables!Covering, Tables!Handler
<1>3. row \in [Cmds -> [Depts -> Tables!Handler]] /\ def \in [Depts -> Tables!Handler]
  BY <1>0 DEF TableTyped
<1>4. ASSUME NEW c \in Cmds PROVE row'[c] \in [Depts -> Tables!Handler]
  <2>1. [d \in Depts |-> Tables!Covering(p, row[c][d])] \in [Depts -> Tables!Handler]
    BY <1>2, <1>3
  <2>2. row'[c] = IF c \in own THEN [d \in Depts |-> Tables!Covering(p, row[c][d])] ELSE row[c]
    BY <1>1
  <2> QED BY <1>3, <2>1, <2>2
<1>5. row' \in [Cmds -> [Depts -> Tables!Handler]]
  <2>1. row' = [c \in Cmds |-> row'[c]]
    BY <1>1
  <2> QED BY <1>4, <2>1
<1>6. TableTyped'
  <2>1. def' \in [Depts -> Tables!Handler]
    BY <1>1, <1>2, <1>3
  <2>2. \A d \in Depts : def'[d] = Tables!Unknown \/ \E q \in Plugins : def'[d] = Tables!Cover(q)
    <3>1. SUFFICES ASSUME NEW d \in Depts PROVE def'[d] = Tables!Unknown \/ \E q \in Plugins : def'[d] = Tables!Cover(q)
      OBVIOUS
    <3>2. def'[d] = Tables!Covering(p, def[d])
      BY <1>1
    <3> QED BY <1>0, <3>2 DEF Tables!Covering, TableTyped
  <2> QED BY <1>0, <1>1, <1>5, <2>1, <2>2 DEF TableTyped
<1>7. ASSUME NEW op \in Tables!Ops
      PROVE  Tables!Get(op)' = Tables!Covering(p, Tables!Get(op))
  <2>1. op[1] \in Cmds /\ op[2] \in Depts
    BY OpIs
  <2>2. CASE op[1] \in own
    <3>1. row'[op[1]][op[2]] = Tables!Covering(p, row[op[1]][op[2]])
      BY <1>1, <2>1, <2>2
    <3>2. op[1] \in own'
      BY <1>1, <2>2
    <3> QED BY <2>2, <3>1, <3>2 DEF Tables!Get
  <2>3. CASE op[1] \notin own
    <3>1. def'[op[2]] = Tables!Covering(p, def[op[2]])
      BY <1>1, <2>1
    <3>2. op[1] \notin own'
      BY <1>1, <2>3
    <3> QED BY <2>3, <3>1, <3>2 DEF Tables!Get
  <2> QED BY <2>2, <2>3
<1>8. ASSUME NEW op \in Tables!Ops, NEW st \in Seq(Tables!Thunks), NEW b \in Tables!Handler, Pile(op, st, b)
      PROVE  /\ Ordered(st)'
             /\ \E c \in Tables!Handler : /\ Based(op, c)' /\ Tables!Get(op)' = Node(st, c, 1)
                                          /\ \A i \in DOMAIN st : Node(st, c, i + 1) = Node(st, b, i + 1)
  <2>1. Ordered(st)'
    BY <1>1, <1>8 DEF Ordered, Pile
  <2>2. Len(st) \in Nat /\ DOMAIN st = 1 .. Len(st)
    OBVIOUS
  <2>3. Tables!Get(op) = Node(st, b, 1)
    BY <1>8 DEF Pile, Piled
  <2>4. CASE Len(st) = 0
    <3>1. DOMAIN st = {} /\ \A c : Node(st, c, 1) = c
      BY <2>2, <2>4 DEF Node
    <3>. PICK c \in Tables!Handler : c = Tables!Covering(p, b)
      BY <1>2
    <3>2. Tables!Get(op)' = Node(st, c, 1)
      BY <1>7, <2>3, <3>1
    <3>3. Based(op, c)'
      BY <1>1, <1>8 DEF Based, Pile, Tables!Covering, Tables!Stock, Tables!Unknown, Tables!Cover
    <3> QED BY <2>1, <3>1, <3>2, <3>3
  <2>5. CASE Len(st) # 0
    <3>1. Tables!Get(op) = <<"thunk", st[1]>>
      BY <2>2, <2>3, <2>5 DEF Node
    <3>2. Tables!Get(op) # Tables!Unknown
      BY <3>1 DEF Tables!Unknown
    <3>3. Tables!Get(op)' = Node(st, b, 1)
      BY <1>7, <2>3, <3>2 DEF Tables!Covering
    <3>4. Based(op, b)'
      BY <1>1, <1>8 DEF Based, Pile
    <3> QED BY <2>1, <3>3, <3>4
  <2> QED BY <2>4, <2>5
<1> QED BY <1>1, <1>6, <1>8, HooksStay

\* the table and the lists after the DLL loaded last is gone
LEMMA UnloadIs ==
    ASSUME TableTyped, NEW p \in Plugins, Tables!Unload(p)
    PROVE  /\ TableTyped' /\ own' = own /\ def' = def /\ registered' = registered /\ lost' = lost
           /\ loaded # << >> /\ p = loaded[Len(loaded)] /\ DOMAIN loaded' = 1 .. Len(loaded) - 1
           /\ \A i \in DOMAIN loaded' : i \in DOMAIN loaded /\ loaded'[i] = loaded[i]
           /\ \A op \in Tables!Ops : row'[op[1]][op[2]] = IF Swapped(p, op) THEN Tables!Restored(swaps[p], op) ELSE row[op[1]][op[2]]
           /\ swaps'[p] = << >> /\ \A q \in Plugins \ {p} : swaps'[q] = swaps[q]
           /\ \A t \in Tables!Thunks : t[1] # p => originals'[t] = originals[t]
           /\ \A t, op : <<t, op>> \in asked' <=> <<t, op>> \in asked /\ t[1] # p
<1>. PICK mine : mine = {swaps[p][i].at : i \in DOMAIN swaps[p]}
  OBVIOUS
<1>1. /\ loaded # << >> /\ p = Tables!Last(loaded) /\ loaded' = Tables!Front(loaded)
      /\ row' = [c \in Cmds |-> [d \in Depts |-> IF <<c, d>> \in mine THEN Tables!Restored(swaps[p], <<c, d>>) ELSE row[c][d]]]
      /\ swaps' = [swaps EXCEPT ![p] = << >>]
      /\ originals' = [t \in Tables!Thunks |-> IF t[1] = p THEN [op \in Tables!Ops |-> Tables!None] ELSE originals[t]]
      /\ asked' = {a \in asked : a[1][1] # p}
      /\ own' = own /\ def' = def /\ registered' = registered /\ lost' = lost
  BY DEF Tables!Unload
<1>2. loaded \in Seq(Plugins) /\ Len(loaded) \in Nat /\ DOMAIN loaded = 1 .. Len(loaded)
  BY DEF TableTyped
<1>3. /\ p = loaded[Len(loaded)] /\ loaded' \in Seq(Plugins) /\ DOMAIN loaded' = 1 .. Len(loaded) - 1
      /\ \A i \in DOMAIN loaded' : i \in DOMAIN loaded /\ loaded'[i] = loaded[i]
  <2>1. Len(loaded) - 1 \in Nat
    BY <1>1, <1>2
  <2>2. loaded' = SubSeq(loaded, 1, Len(loaded) - 1) /\ p = loaded[Len(loaded)]
    BY <1>1 DEF Tables!Front, Tables!Last
  <2> QED BY <1>2, <2>1, <2>2
<1>4. swaps \in [Plugins -> Seq(Swap)] /\ swaps[p] \in Seq(Swap)
  BY DEF TableTyped
<1>5. \A op : op \in mine <=> Swapped(p, op)
  BY DEF Swapped
<1>6. ASSUME NEW op, Swapped(p, op) PROVE Tables!Restored(swaps[p], op) \in Tables!Handler
  <2>. PICK ss \in Seq(Swap) : ss = swaps[p]
    BY <1>4
  <2>1. \E i \in DOMAIN ss : ss[i].at = op
    BY <1>6 DEF Swapped
  <2>2. PICK m \in DOMAIN ss : ss[m].at = op /\ \A i \in DOMAIN ss : i < m => ss[i].at # op
    BY <2>1, FirstSwap
  <2>3. Tables!Restored(ss, op) = ss[m].was
    BY <2>2, RestoredIs
  <2>4. ss[m] \in Swap
    OBVIOUS
  <2> QED BY <2>3, <2>4 DEF Swap
<1>7. row \in [Cmds -> [Depts -> Tables!Handler]]
  BY DEF TableTyped
<1>8. row' \in [Cmds -> [Depts -> Tables!Handler]]
  <2>1. ASSUME NEW c \in Cmds, NEW d \in Depts
        PROVE  (IF <<c, d>> \in mine THEN Tables!Restored(swaps[p], <<c, d>>) ELSE row[c][d]) \in Tables!Handler
    BY <1>5, <1>6, <1>7
  <2> QED BY <1>1, <2>1
<1>9. ASSUME NEW op \in Tables!Ops
      PROVE  row'[op[1]][op[2]] = IF Swapped(p, op) THEN Tables!Restored(swaps[p], op) ELSE row[op[1]][op[2]]
  <2>1. op[1] \in Cmds /\ op[2] \in Depts /\ op = <<op[1], op[2]>>
    BY OpIs
  <2>. PICK c \in Cmds, d \in Depts : c = op[1] /\ d = op[2] /\ op = <<c, d>>
    BY <2>1
  <2>2. row'[c][d] = IF <<c, d>> \in mine THEN Tables!Restored(swaps[p], <<c, d>>) ELSE row[c][d]
    BY <1>1
  <2> QED BY <1>5, <2>2
<1>10. originals' \in [Tables!Thunks -> [Tables!Ops -> Tables!Handler \cup {Tables!None}]]
  BY <1>1 DEF TableTyped
<1>11. \A t, op : <<t, op>> \in asked' <=> <<t, op>> \in asked /\ t[1] # p
  BY <1>1
<1>12. swaps'[p] = << >> /\ swaps' \in [Plugins -> Seq(Swap)] /\ \A q \in Plugins \ {p} : swaps'[q] = swaps[q]
  BY <1>1, <1>4
<1>13. \A t \in Tables!Thunks : t[1] # p => originals'[t] = originals[t]
  BY <1>1
<1>14. TableTyped'
  <2>1. \A i, j \in DOMAIN loaded' : loaded'[i] = loaded'[j] => i = j
    BY <1>3 DEF TableTyped
  <2>2. asked' \subseteq Tables!Thunks \X Tables!Ops
    BY <1>1 DEF TableTyped
  <2>3. ASSUME NEW a \in asked' PROVE a[2][1] \in own' /\ \E i \in DOMAIN loaded' : loaded'[i] = a[1][1]
    <3>1. a \in asked /\ a[1][1] # p
      BY <1>1
    <3>2. PICK i \in DOMAIN loaded : loaded[i] = a[1][1]
      BY <3>1 DEF TableTyped
    <3>3. i \in DOMAIN loaded'
      BY <1>2, <1>3, <3>1, <3>2
    <3>4. a[2][1] \in own
      BY <3>1 DEF TableTyped
    <3> QED BY <1>1, <1>3, <3>2, <3>3, <3>4
  <2>4. \A op \in registered' : op[1] \in own'
    BY <1>1 DEF TableTyped
  <2>5. /\ own' \subseteq Cmds /\ def' \in [Depts -> Tables!Handler] /\ registered' \subseteq Tables!Ops
        /\ \A d \in Depts : def'[d] = Tables!Unknown \/ \E q \in Plugins : def'[d] = Tables!Cover(q)
    BY <1>1 DEF TableTyped
  <2> QED BY <1>3, <1>8, <1>10, <1>12, <2>1, <2>2, <2>3, <2>4, <2>5 DEF TableTyped
<1> QED BY <1>1, <1>3, <1>9, <1>11, <1>12, <1>13, <1>14

\* a pile without its first m thunks
Dropped(u, st, b, m) ==
    /\ u \in Seq(Tables!Thunks) /\ DOMAIN u = 1 .. Len(st) - m /\ DOMAIN st = 1 .. Len(st) /\ Len(st) \in Nat
    /\ \A i \in DOMAIN u : m + i \in DOMAIN st /\ u[i] = st[m + i]
    /\ \A i \in 1 .. Len(st) - m + 1 : Node(u, b, i) = Node(st, b, m + i)

LEMMA IsSequence ==
    ASSUME NEW S, NEW n \in Nat, NEW f \in [1 .. n -> S]
    PROVE  f \in Seq(S) /\ Len(f) = n
OBVIOUS

LEMMA OffPile ==
    ASSUME NEW st \in Seq(Tables!Thunks), NEW b, NEW m \in DOMAIN st
    PROVE  \E u : Dropped(u, st, b, m)
<1>1. DOMAIN st = 1 .. Len(st) /\ Len(st) \in Nat /\ m \in Nat /\ m =< Len(st)
  OBVIOUS
<1>. PICK n \in Nat : n = Len(st) - m
  BY <1>1
<1>. PICK u : u = [i \in 1 .. n |-> st[m + i]]
  OBVIOUS
<1>2. \A i \in 1 .. n : m + i \in DOMAIN st
  BY <1>1
<1>3. /\ u \in Seq(Tables!Thunks) /\ DOMAIN u = 1 .. n /\ Len(u) = n
      /\ \A i \in 1 .. n : u[i] = st[m + i]
  <2>1. \A i \in 1 .. n : st[m + i] \in Tables!Thunks
    BY <1>2
  <2>2. DOMAIN u = 1 .. n /\ \A i \in 1 .. n : u[i] = st[m + i] /\ u[i] \in Tables!Thunks
    BY <2>1
  <2>3. u \in [1 .. n -> Tables!Thunks]
    BY <2>1
  <2> QED BY <2>2, <2>3, IsSequence
<1>4. ASSUME NEW i \in 1 .. n + 1 PROVE Node(u, b, i) = Node(st, b, m + i)
  <2>1. i =< n <=> m + i =< Len(st)
    BY <1>1
  <2>2. i =< n => i \in 1 .. n
    OBVIOUS
  <2> QED BY <1>3, <2>1, <2>2 DEF Node
<1>5. Dropped(u, st, b, m)
  BY <1>1, <1>2, <1>3, <1>4 DEF Dropped
<1> QED BY <1>5

\* the thunks of the DLL loaded last lie on top
LEMMA TakenOff ==
    ASSUME TableTyped, NEW p \in Plugins, Tables!Unload(p),
           NEW op \in Tables!Ops, NEW st \in Seq(Tables!Thunks), NEW b \in Tables!Handler, Pile(op, st, b), Swapped(p, op)
    PROVE  \E u \in Seq(Tables!Thunks) : Pile(op, u, b)'
<1>0. /\ own' = own /\ def' = def /\ registered' = registered
      /\ loaded # << >> /\ p = loaded[Len(loaded)] /\ DOMAIN loaded' = 1 .. Len(loaded) - 1
      /\ \A i \in DOMAIN loaded' : i \in DOMAIN loaded /\ loaded'[i] = loaded[i]
      /\ row'[op[1]][op[2]] = Tables!Restored(swaps[p], op)
      /\ swaps'[p] = << >> /\ \A q \in Plugins \ {p} : swaps'[q] = swaps[q]
      /\ \A t \in Tables!Thunks : t[1] # p => originals'[t] = originals[t]
      /\ \A t : <<t, op>> \in asked' <=> <<t, op>> \in asked /\ t[1] # p
  BY UnloadIs
<1>1. /\ \A t \in Tables!Thunks : <<t, op>> \in asked <=> \E i \in DOMAIN st : st[i] = t
      /\ \A i, j \in DOMAIN st : st[i] = st[j] => i = j
      /\ \A i \in DOMAIN st : originals[st[i]][op] = Node(st, b, i + 1)
      /\ Ordered(st) /\ Based(op, b)
      /\ \A q \in Plugins : Swapped(q, op) <=> \E j \in DOMAIN st : st[j][1] = q
      /\ \A q \in Plugins : \A j \in DOMAIN st : LowestOf(q, st, j) => Tables!Restored(swaps[q], op) = Node(st, b, j + 1)
  BY DEF Pile, Piled, Kept
<1>2. DOMAIN st = 1 .. Len(st) /\ Len(st) \in Nat /\ \A i \in DOMAIN st : st[i] \in Tables!Thunks
  OBVIOUS
<1>3. loaded \in Seq(Plugins) /\ Len(loaded) \in Nat /\ DOMAIN loaded = 1 .. Len(loaded) /\ Len(loaded) \in DOMAIN loaded
  BY <1>0 DEF TableTyped
<1>. PICK his : his = {j \in DOMAIN st : st[j][1] = p}
  OBVIOUS
<1>4. his \subseteq Nat /\ his # {} /\ \A i \in his : i =< Len(st)
  BY <1>1, <1>2
<1>. PICK m \in his : \A j \in his : j =< m
  BY <1>2, <1>4, LastNumber
<1>5. m \in DOMAIN st /\ m \in Nat /\ st[m][1] = p /\ \A i \in DOMAIN st : m < i => st[i][1] # p
  BY <1>2
<1>6. LowestOf(p, st, m)
  BY <1>5 DEF LowestOf
<1>7. ASSUME NEW i \in DOMAIN st, i =< m PROVE st[i][1] = p
  <2>1. CASE i = m
    BY <1>5, <2>1
  <2>2. CASE i < m
    <3>1. <<st[i], op>> \in asked
      BY <1>1, <1>2
    <3>2. PICK e \in DOMAIN loaded : loaded[e] = st[i][1]
      BY <3>1 DEF TableTyped
    <3>3. Len(loaded) =< e
      <4>. PICK f \in DOMAIN loaded : f = Len(loaded)
        BY <1>3
      <4>1. loaded[f] = st[m][1]
        BY <1>0, <1>5
      <4>2. \A x, y \in DOMAIN st, c, d \in DOMAIN loaded : x < y /\ loaded[c] = st[x][1] /\ loaded[d] = st[y][1] => d =< c
        BY <1>1 DEF Ordered
      <4> QED BY <1>5, <2>2, <3>2, <4>1, <4>2
    <3>4. e = Len(loaded)
      BY <1>3, <3>3
    <3> QED BY <1>0, <3>2, <3>4
  <2> QED BY <1>2, <1>5, <1>7, <2>1, <2>2
<1>8. \A i \in DOMAIN st : st[i][1] = p <=> i =< m
  BY <1>2, <1>5, <1>7
<1>. PICK u : Dropped(u, st, b, m)
  BY <1>5, OffPile
<1>9. /\ u \in Seq(Tables!Thunks) /\ DOMAIN u = 1 .. Len(st) - m
      /\ \A i \in DOMAIN u : m + i \in DOMAIN st /\ u[i] = st[m + i]
      /\ \A i \in 1 .. Len(st) - m + 1 : Node(u, b, i) = Node(st, b, m + i)
  BY DEF Dropped
<1>10. \A i \in DOMAIN u : i \in Nat /\ i + 1 \in 1 .. Len(st) - m + 1 /\ ~(m + i =< m) /\ m + (i + 1) = (m + i) + 1
  BY <1>2, <1>5, <1>9
<1>11. ASSUME NEW j \in DOMAIN st, st[j][1] # p PROVE j - m \in DOMAIN u /\ m + (j - m) = j /\ u[j - m] = st[j]
  <2>1. ~(j =< m)
    BY <1>8, <1>11
  <2>2. j - m \in DOMAIN u /\ m + (j - m) = j
    BY <1>2, <1>5, <1>9, <2>1
  <2> QED BY <1>9, <2>2
<1>12. Piled(op, u, b)'
  <2>1. ASSUME NEW x \in Tables!Thunks PROVE <<x, op>> \in asked' <=> \E i \in DOMAIN u : u[i] = x
    <3>1. ASSUME <<x, op>> \in asked' PROVE \E i \in DOMAIN u : u[i] = x
      <4>1. x[1] # p /\ \E j \in DOMAIN st : st[j] = x
        BY <1>0, <1>1, <3>1
      <4> QED BY <1>11, <4>1
    <3>2. ASSUME NEW i \in DOMAIN u, u[i] = x PROVE <<x, op>> \in asked'
      <4>1. m + i \in DOMAIN st /\ st[m + i] = x
        BY <1>9, <3>2
      <4>2. x[1] # p
        BY <1>8, <1>10, <4>1
      <4> QED BY <1>0, <1>1, <4>1, <4>2
    <3> QED BY <3>1, <3>2
  <2>2. ASSUME NEW i \in DOMAIN u, NEW j \in DOMAIN u, u[i] = u[j] PROVE i = j
    <3>1. m + i = m + j
      BY <1>1, <1>9, <2>2
    <3>2. i \in Nat /\ j \in Nat /\ m \in Nat
      BY <1>5, <1>10
    <3> QED BY <3>1, <3>2
  <2>3. Tables!Get(op)' = Node(u, b, 1)
    <3>1. op[1] \in own
      <4>1. <<st[m], op>> \in asked
        BY <1>1, <1>2, <1>5
      <4> QED BY <4>1 DEF TableTyped
    <3>2. Tables!Get(op)' = row'[op[1]][op[2]]
      BY <1>0, <3>1 DEF Tables!Get
    <3>3. Tables!Restored(swaps[p], op) = Node(st, b, m + 1)
      BY <1>1, <1>5, <1>6
    <3>4. 1 \in 1 .. Len(st) - m + 1
      BY <1>2, <1>5
    <3>5. Node(u, b, 1) = Node(st, b, m + 1)
      BY <1>9, <3>4
    <3> QED BY <1>0, <3>2, <3>3, <3>5
  <2>4. ASSUME NEW i \in DOMAIN u PROVE originals'[u[i]][op] = Node(u, b, i + 1)
    <3>1. m + i \in DOMAIN st /\ u[i] = st[m + i]
      BY <1>9
    <3>2. st[m + i] \in Tables!Thunks /\ st[m + i][1] # p
      BY <1>2, <1>8, <1>10, <3>1
    <3>3. originals'[u[i]][op] = originals[st[m + i]][op]
      BY <1>0, <3>1, <3>2
    <3>4. originals[st[m + i]][op] = Node(st, b, (m + i) + 1)
      BY <1>1, <3>1
    <3>5. Node(u, b, i + 1) = Node(st, b, m + (i + 1))
      BY <1>9, <1>10
    <3> QED BY <1>10, <3>3, <3>4, <3>5
  <2> QED BY <2>1, <2>2, <2>3, <2>4 DEF Piled
<1>13. Based(op, b)'
  BY <1>0, <1>1 DEF Based
<1>14. Ordered(u)'
  <2>1. SUFFICES ASSUME NEW i \in DOMAIN u, NEW j \in DOMAIN u, NEW e \in DOMAIN loaded', NEW f \in DOMAIN loaded',
                        i < j, loaded'[e] = u[i][1], loaded'[f] = u[j][1]
                 PROVE  f =< e
    BY DEF Ordered
  <2>2. m + i < m + j /\ m + i \in DOMAIN st /\ m + j \in DOMAIN st
    BY <1>5, <1>9, <1>10, <2>1
  <2>3. loaded[e] = st[m + i][1] /\ loaded[f] = st[m + j][1] /\ e \in DOMAIN loaded /\ f \in DOMAIN loaded
    BY <1>0, <1>9, <2>1
  <2> QED BY <1>1, <2>2, <2>3 DEF Ordered
<1>15. Kept(op, u, b)'
  <2> SUFFICES ASSUME NEW q \in Plugins
               PROVE  /\ Swapped(q, op)' <=> \E j \in DOMAIN u : u[j][1] = q
                      /\ \A j \in DOMAIN u : LowestOf(q, u, j) => Tables!Restored(swaps'[q], op) = Node(u, b, j + 1)
    BY DEF Kept, LowestOf, Tables!Restored, Node
  <2>1. \A j \in DOMAIN u : u[j][1] # p
    BY <1>8, <1>9, <1>10
  <2>2. CASE q = p
    <3>1. ~Swapped(q, op)'
      BY <1>0, <2>2 DEF Swapped
    <3> QED BY <2>1, <2>2, <3>1 DEF LowestOf
  <2>3. CASE q # p
    <3>1. swaps'[q] = swaps[q] /\ (Swapped(q, op)' <=> Swapped(q, op))
      BY <1>0, <2>3 DEF Swapped
    <3>2. (\E j \in DOMAIN u : u[j][1] = q) <=> \E j \in DOMAIN st : st[j][1] = q
      <4>1. ASSUME NEW j \in DOMAIN st, st[j][1] = q PROVE \E i \in DOMAIN u : u[i][1] = q
        BY <1>11, <2>3, <4>1
      <4>2. ASSUME NEW i \in DOMAIN u, u[i][1] = q PROVE \E j \in DOMAIN st : st[j][1] = q
        BY <1>9, <4>2
      <4> QED BY <4>1, <4>2
    <3>3. ASSUME NEW j \in DOMAIN u, LowestOf(q, u, j) PROVE Tables!Restored(swaps'[q], op) = Node(u, b, j + 1)
      <4>1. m + j \in DOMAIN st /\ st[m + j][1] = q
        BY <1>9, <3>3 DEF LowestOf
      <4>2. ASSUME NEW i \in DOMAIN st, m + j < i PROVE st[i][1] # q
        <5>1. CASE st[i][1] = p
          BY <2>3, <5>1
        <5>2. CASE st[i][1] # p
          <6>1. i - m \in DOMAIN u /\ u[i - m] = st[i]
            BY <1>11, <5>2
          <6>2. j < i - m
            BY <1>2, <1>5, <1>10, <4>2
          <6> QED BY <3>3, <6>1, <6>2 DEF LowestOf
        <5> QED BY <5>1, <5>2
      <4>3. LowestOf(q, st, m + j)
        BY <4>1, <4>2 DEF LowestOf
      <4>4. Tables!Restored(swaps[q], op) = Node(st, b, (m + j) + 1)
        BY <1>1, <4>1, <4>3
      <4>5. Node(u, b, j + 1) = Node(st, b, m + (j + 1))
        BY <1>9, <1>10
      <4> QED BY <1>10, <3>1, <4>4, <4>5
    <3> QED BY <1>1, <3>1, <3>2, <3>3
  <2> QED BY <2>2, <2>3
<1> QED BY <1>9, <1>12, <1>13, <1>14, <1>15 DEF Pile

LEMMA UnloadKeeps ==
    ASSUME TableInv, NEW p \in Plugins, Tables!Unload(p)
    PROVE  TableInv'
<1>0. TableTyped
  BY DEF TableInv
<1>1. /\ TableTyped' /\ own' = own /\ def' = def /\ registered' = registered /\ lost' = lost
      /\ loaded # << >> /\ p = loaded[Len(loaded)] /\ DOMAIN loaded' = 1 .. Len(loaded) - 1
      /\ \A i \in DOMAIN loaded' : i \in DOMAIN loaded /\ loaded'[i] = loaded[i]
      /\ \A op \in Tables!Ops : row'[op[1]][op[2]] = IF Swapped(p, op) THEN Tables!Restored(swaps[p], op) ELSE row[op[1]][op[2]]
      /\ swaps'[p] = << >> /\ \A q \in Plugins \ {p} : swaps'[q] = swaps[q]
      /\ \A t \in Tables!Thunks : t[1] # p => originals'[t] = originals[t]
      /\ \A t, op : <<t, op>> \in asked' <=> <<t, op>> \in asked /\ t[1] # p
  BY <1>0, UnloadIs
<1> SUFFICES ASSUME ~lost, NEW op \in Tables!Ops
             PROVE  \E u \in Seq(Tables!Thunks), c \in Tables!Handler : Pile(op, u, c)'
  BY <1>1 DEF TableInv
<1>2. PICK st \in Seq(Tables!Thunks), b \in Tables!Handler : Pile(op, st, b)
  BY DEF TableInv
<1>3. CASE Swapped(p, op)
  BY <1>0, <1>2, <1>3, TakenOff
<1>4. CASE ~Swapped(p, op)
  <2>1. \A i \in DOMAIN st : st[i] \in Tables!Thunks
    OBVIOUS
  <2>2. \A i \in DOMAIN st : st[i][1] # p
    BY <1>2, <1>4 DEF Pile, Kept
  <2>3. Tables!Get(op)' = Tables!Get(op)
    BY <1>1, <1>4 DEF Tables!Get
  <2>4. Based(op, b)' /\ Tables!Get(op)' = Node(st, b, 1)
    BY <1>1, <1>2, <2>3 DEF Based, Pile, Piled
  <2>5. ASSUME NEW t \in Tables!Thunks PROVE <<t, op>> \in asked' <=> <<t, op>> \in asked
    <3>1. <<t, op>> \in asked => t[1] # p
      BY <1>2, <2>2 DEF Pile, Piled
    <3> QED BY <1>1, <3>1
  <2>6. \A i \in DOMAIN st : originals'[st[i]][op] = originals[st[i]][op]
    BY <1>1, <2>1, <2>2
  <2>7. Ordered(st)'
    BY <1>1, <1>2 DEF Ordered, Pile
  <2>8. ASSUME NEW q \in Plugins
        PROVE  /\ Swapped(q, op)' <=> Swapped(q, op)
               /\ Swapped(q, op) => Tables!Restored(swaps'[q], op) = Tables!Restored(swaps[q], op)
    <3>1. CASE q = p
      BY <1>1, <1>4, <3>1 DEF Swapped
    <3>2. CASE q # p
      BY <1>1, <3>2 DEF Swapped
    <3> QED BY <3>1, <3>2
  <2>9. Pile(op, st, b)'
    BY <1>2, <2>4, <2>5, <2>6, <2>7, <2>8, PileStays
  <2> QED BY <2>9
<1> QED BY <1>3, <1>4

(***************************************************************************)
(* What a packet meets on its way down the pile.                           *)
(***************************************************************************)
LEMMA PileFits ==
    ASSUME NEW st \in Seq(Tables!Thunks), \A i, j \in DOMAIN st : st[i] = st[j] => i = j
    PROVE  Tables!Longest \in Nat /\ Len(st) < Tables!Longest
<1>1. DOMAIN st = 1 .. Len(st) /\ Len(st) \in Nat /\ \A i \in DOMAIN st : st[i] \in Tables!Thunks
  OBVIOUS
<1>2. IsFiniteSet(Plugins) /\ IsFiniteSet(Ks)
  BY HookPointsOK DEF Tables!ProtocolTableConstantsOK, Tables!IsFiniteSet, IsFiniteSet
<1>3. IsFiniteSet(Tables!Thunks) /\ Cardinality(Tables!Thunks) = Cardinality(Plugins) * Cardinality(Ks)
  BY <1>2, FS_Product DEF Tables!Thunks
<1>4. Cardinality(Tables!Thunks) \in Nat
  BY <1>3, FS_CardinalityType
<1>5. IsFiniteSet(1 .. Len(st)) /\ Cardinality(1 .. Len(st)) = Len(st)
  <2>1. Cardinality(1 .. Len(st)) = IF 1 > Len(st) THEN 0 ELSE Len(st) - 1 + 1
    BY <1>1, FS_Interval
  <2> QED BY <1>1, <2>1, FS_Interval
<1>6. st \in Injection(1 .. Len(st), Tables!Thunks)
  BY <1>1 DEF Injection, IsInjective
<1>7. Cardinality(1 .. Len(st)) =< Cardinality(Tables!Thunks)
  BY <1>3, <1>5, <1>6, FS_Injection
<1>8. Tables!Longest = Cardinality(Tables!Thunks) + 1
  BY <1>3, SameCardinality DEF Tables!Longest
<1> QED BY <1>1, <1>4, <1>5, <1>7, <1>8

LEMMA ChainIs ==
    ASSUME NEW op \in Tables!Ops, NEW st \in Seq(Tables!Thunks), NEW b \in Tables!Handler, Piled(op, st, b), b[1] # "thunk"
    PROVE  \A n \in 0 .. Tables!Longest : Tables!Chain(op)[n] = Node(st, b, n + 1)
<1>0. DOMAIN st = 1 .. Len(st) /\ Len(st) \in Nat
  OBVIOUS
<1>. PICK m \in Nat : m = Tables!Longest
  BY PileFits DEF Piled
<1>1. ASSUME NEW n \in 1 .. m PROVE Tables!Below(Node(st, b, n), op) = Node(st, b, n + 1)
  <2>1. CASE n \in DOMAIN st
    <3>1. Node(st, b, n) = <<"thunk", st[n]>>
      BY <1>0, <2>1 DEF Node
    <3>2. originals[st[n]][op] = Node(st, b, n + 1)
      BY <2>1 DEF Piled
    <3> QED BY <3>1, <3>2 DEF Tables!Below
  <2>2. CASE n \notin DOMAIN st
    <3>1. Node(st, b, n) = b /\ Node(st, b, n + 1) = b
      BY <1>0, <2>2 DEF Node
    <3> QED BY <3>1 DEF Tables!Below
  <2> QED BY <2>1, <2>2
<1>2. \E f : f = [n \in 0 .. m |-> IF n = 0 THEN Tables!Get(op) ELSE Tables!Below(f[n - 1], op)]
  <2>. PICK g : g = [n \in 0 .. m |-> Node(st, b, n + 1)]
    OBVIOUS
  <2>1. ASSUME NEW n \in 0 .. m PROVE g[n] = IF n = 0 THEN Tables!Get(op) ELSE Tables!Below(g[n - 1], op)
    <3>1. CASE n = 0
      BY <3>1 DEF Piled
    <3>2. CASE n # 0
      <4>1. n \in 1 .. m /\ n - 1 \in 0 .. m /\ n - 1 + 1 = n
        BY <3>2
      <4>2. g[n - 1] = Node(st, b, n)
        BY <4>1
      <4> QED BY <1>1, <3>2, <4>1, <4>2
    <3> QED BY <3>1, <3>2
  <2>2. g = [n \in 0 .. m |-> IF n = 0 THEN Tables!Get(op) ELSE Tables!Below(g[n - 1], op)]
    BY <2>1
  <2> QED BY <2>2
<1>. PICK c : c = Tables!Chain(op)
  OBVIOUS
<1>3. c = CHOOSE f : f = [n \in 0 .. m |-> IF n = 0 THEN Tables!Get(op) ELSE Tables!Below(f[n - 1], op)]
  BY DEF Tables!Chain
<1>4. c = [n \in 0 .. m |-> IF n = 0 THEN Tables!Get(op) ELSE Tables!Below(c[n - 1], op)]
  BY <1>2, <1>3, Zenon
<1>5. \A n \in 0 .. m : c[n] = IF n = 0 THEN Tables!Get(op) ELSE Tables!Below(c[n - 1], op)
  BY <1>4
<1>. PICK S : S = {n \in 0 .. m : c[n] = Node(st, b, n + 1)}
  OBVIOUS
<1>6. 0 \in S
  BY <1>5 DEF Piled
<1>7. ASSUME NEW n \in 0 .. m, n < m, n \in S PROVE n + 1 \in S
  <2>1. n + 1 \in 1 .. m /\ n + 1 \in 0 .. m /\ n + 1 # 0 /\ n + 1 - 1 = n
    BY <1>7
  <2>2. c[n + 1] = Tables!Below(c[n], op)
    BY <1>5, <2>1
  <2>3. c[n] = Node(st, b, n + 1)
    BY <1>7
  <2>4. c[n + 1] = Node(st, b, n + 1 + 1)
    BY <1>1, <2>1, <2>2, <2>3
  <2> QED BY <2>1, <2>4
<1>8. \A n \in 0 .. m : n \in S
  BY <1>6, <1>7, UpTo
<1> QED BY <1>8

LEMMA BaseIs ==
    ASSUME NEW op \in Tables!Ops, NEW b, Based(op, b)
    PROVE  b[1] # "thunk" /\ (op \notin registered => b[1] \in {"unknown", "cover"})
<1>1. b = Tables!Stock(op) \/ b = Tables!Unknown \/ \E p \in Plugins : b = Tables!Cover(p)
  BY DEF Based
<1> QED BY <1>1 DEF Based, Tables!Stock, Tables!Unknown, Tables!Cover

LEMMA TableTells ==
    ASSUME TableInv
    PROVE  Tables!OnlyTheHooksAsked /\ Tables!OriginalReached /\ Tables!PutBack
<1> SUFFICES ASSUME ~lost PROVE Tables!OnlyTheHooksAsked /\ Tables!OriginalReached /\ Tables!PutBack
  BY DEF Tables!OnlyTheHooksAsked, Tables!OriginalReached, Tables!PutBack
<1>1. ASSUME NEW op \in Tables!Ops
      PROVE  /\ Tables!Met(op) = {t \in Tables!Thunks : <<t, op>> \in asked}
             /\ IF op \in registered THEN Tables!EndOf(op) = Tables!Stock(op)
                ELSE Tables!EndOf(op) = Tables!Unknown \/ \E p \in Plugins : Tables!EndOf(op) = Tables!Cover(p)
             /\ loaded = << >> => IF op \in registered THEN Tables!Get(op) = Tables!Stock(op)
                                  ELSE Tables!Get(op)[1] \in {"unknown", "cover"}
  <2>1. PICK st \in Seq(Tables!Thunks), b \in Tables!Handler : Pile(op, st, b)
    BY DEF TableInv
  <2>2. Piled(op, st, b) /\ Based(op, b)
    BY <2>1 DEF Pile
  <2>3. b[1] # "thunk" /\ (op \notin registered => b[1] \in {"unknown", "cover"})
    BY <2>2, BaseIs
  <2>. PICK m \in Nat : m = Tables!Longest /\ Len(st) < m
    BY <2>2, PileFits DEF Piled
  <2>4. DOMAIN st = 1 .. Len(st) /\ Len(st) \in Nat
    OBVIOUS
  <2>5. \A n \in 0 .. m : Tables!Chain(op)[n] = Node(st, b, n + 1)
    BY <2>2, <2>3, ChainIs
  <2>6. ASSUME NEW t \in Tables!Thunks
        PROVE  (\E n \in 0 .. m : Tables!Chain(op)[n] = <<"thunk", t>>) <=> <<t, op>> \in asked
    <3>1. ASSUME NEW n \in 0 .. m, Tables!Chain(op)[n] = <<"thunk", t>> PROVE \E i \in DOMAIN st : st[i] = t
      <4>1. Node(st, b, n + 1) = <<"thunk", t>>
        BY <2>5, <3>1
      <4>2. n + 1 =< Len(st)
        BY <2>3, <4>1 DEF Node
      <4>3. n + 1 \in DOMAIN st /\ st[n + 1] = t
        BY <2>4, <4>1, <4>2 DEF Node
      <4> QED BY <4>3
    <3>2. ASSUME NEW i \in DOMAIN st, st[i] = t PROVE \E n \in 0 .. m : Tables!Chain(op)[n] = <<"thunk", t>>
      <4>1. i - 1 \in 0 .. m /\ i - 1 + 1 = i /\ i =< Len(st)
        BY <2>4
      <4>2. Tables!Chain(op)[i - 1] = Node(st, b, i)
        BY <2>5, <4>1
      <4>3. Node(st, b, i) = <<"thunk", t>>
        BY <3>2, <4>1 DEF Node
      <4> QED BY <4>1, <4>2, <4>3
    <3> QED BY <2>2, <3>1, <3>2 DEF Piled
  <2>7. Tables!Met(op) = {t \in Tables!Thunks : <<t, op>> \in asked}
    BY <2>6 DEF Tables!Met
  <2>8. Tables!EndOf(op) = b
    <3>1. m \in 0 .. m /\ ~(m + 1 =< Len(st))
      BY <2>4
    <3> QED BY <2>5, <3>1 DEF Tables!EndOf, Node
  <2>9. ASSUME loaded = << >> PROVE Tables!Get(op) = b
    <3>1. DOMAIN loaded = {}
      BY <2>9
    <3>2. \A t \in Tables!Thunks : <<t, op>> \notin asked
      BY <3>1 DEF TableInv, TableTyped
    <3> QED BY <2>2, <3>2, NoPile DEF TableInv
  <2> QED BY <2>2, <2>3, <2>7, <2>8, <2>9 DEF Based
<1> QED BY <1>1 DEF Tables!OnlyTheHooksAsked, Tables!OriginalReached, Tables!PutBack

LEMMA TableInit == Tables!Init => TableInv
<1> SUFFICES ASSUME Tables!Init PROVE TableInv
  OBVIOUS
<1>1. /\ registered \in SUBSET Tables!Ops
      /\ own = {op[1] : op \in registered}
      /\ row = [c \in Cmds |-> [d \in Depts |-> IF <<c, d>> \in registered THEN Tables!Stock(<<c, d>>) ELSE Tables!Unknown]]
      /\ def = [d \in Depts |-> Tables!Unknown]
      /\ swaps = [p \in Plugins |-> << >>]
      /\ originals = [t \in Tables!Thunks |-> [op \in Tables!Ops |-> Tables!None]]
      /\ loaded = << >> /\ asked = {}
  BY DEF Tables!Init
<1>2. \A op \in Tables!Ops : op[1] \in Cmds /\ op[2] \in Depts /\ op = <<op[1], op[2]>>
  BY OpIs
<1>3. Tables!Unknown \in Tables!Handler /\ \A op \in Tables!Ops : Tables!Stock(op) \in Tables!Handler
  BY DEF Tables!Handler
<1>4. TableTyped
  <2>1. \A c \in Cmds, d \in Depts : <<c, d>> \in Tables!Ops
    BY DEF Tables!Ops
  <2>2. row \in [Cmds -> [Depts -> Tables!Handler]]
    BY <1>1, <1>3, <2>1
  <2>3. def \in [Depts -> Tables!Handler] /\ \A d \in Depts : def[d] = Tables!Unknown
    BY <1>1, <1>3
  <2>4. own \subseteq Cmds /\ \A op \in registered : op[1] \in own
    BY <1>1, <1>2
  <2>5. /\ swaps \in [Plugins -> Seq(Swap)]
        /\ originals \in [Tables!Thunks -> [Tables!Ops -> Tables!Handler \cup {Tables!None}]]
        /\ loaded \in Seq(Plugins) /\ DOMAIN loaded = {}
    BY <1>1
  <2> QED BY <1>1, <2>2, <2>3, <2>4, <2>5 DEF TableTyped
<1>5. ASSUME NEW op \in Tables!Ops PROVE \E st \in Seq(Tables!Thunks), b \in Tables!Handler : Pile(op, st, b)
  <2>. PICK st \in Seq(Tables!Thunks) : st = << >> /\ DOMAIN st = {} /\ Len(st) = 0
    <3>1. << >> \in Seq(Tables!Thunks) /\ Len(<< >>) = 0
      BY EmptySeq
    <3>2. DOMAIN << >> = {}
      OBVIOUS
    <3> QED BY <3>1, <3>2
  <2>. PICK b \in Tables!Handler : b = IF op \in registered THEN Tables!Stock(op) ELSE Tables!Unknown
    BY <1>3
  <2>1. Tables!Get(op) = b
    <3>1. op[1] \in Cmds /\ op[2] \in Depts /\ op = <<op[1], op[2]>>
      BY <1>2
    <3>2. row[op[1]][op[2]] = b
      BY <1>1, <3>1
    <3>3. def[op[2]] = Tables!Unknown
      BY <1>1, <3>1
    <3>4. op \in registered => op[1] \in own
      BY <1>1
    <3> QED BY <3>2, <3>3, <3>4 DEF Tables!Get
  <2>2. Piled(op, st, b)
    BY <1>1, <2>1 DEF Piled, Node
  <2>3. Based(op, b)
    BY DEF Based
  <2>4. Ordered(st)
    BY DEF Ordered
  <2>5. Kept(op, st, b)
    BY <1>1 DEF Kept, Swapped
  <2> QED BY <2>2, <2>3, <2>4, <2>5 DEF Pile
<1> QED BY <1>4, <1>5 DEF TableInv

LEMMA TableNext == TableInv /\ Tables!Next => TableInv'
<1> SUFFICES ASSUME TableInv, Tables!Next PROVE TableInv'
  OBVIOUS
<1>1. CASE \E p \in Plugins : Tables!Load(p)
  BY <1>1, LoadKeeps
<1>2. CASE \E p \in Plugins : Tables!Unload(p)
  BY <1>2, UnloadKeeps
<1>3. CASE \E p \in Plugins : Tables!CoverUnregistered(p)
  BY <1>3, CoverKeeps
<1>4. CASE \E p \in Plugins, k \in Ks, op \in Tables!Ops : Tables!HookOpcode(p, k, op)
  BY <1>4, HookOpcodeKeeps
<1>5. CASE \E p \in Plugins, k \in Ks, d \in Depts : Tables!HookDepartment(p, k, d)
  BY <1>5, HookDepartmentKeeps
<1>6. CASE \E op \in Tables!Ops : Tables!Store(op)
  BY <1>6, StoreKeeps
<1> QED BY <1>1, <1>2, <1>3, <1>4, <1>5, <1>6 DEF Tables!Next

LEMMA TableRests == TableInv /\ UNCHANGED tableVars => TableInv'
<1> SUFFICES ASSUME TableInv, UNCHANGED tableVars PROVE TableInv'
  OBVIOUS
<1>1. /\ own' = own /\ row' = row /\ def' = def /\ swaps' = swaps /\ originals' = originals /\ loaded' = loaded
      /\ registered' = registered /\ asked' = asked /\ lost' = lost
  BY DEF tableVars
<1>2. TableTyped'
  BY <1>1 DEF TableInv, TableTyped
<1>3. ASSUME NEW op \in Tables!Ops, NEW st \in Seq(Tables!Thunks), NEW b \in Tables!Handler, Pile(op, st, b)
      PROVE  /\ Ordered(st)'
             /\ \E c \in Tables!Handler : /\ Based(op, c)' /\ Tables!Get(op)' = Node(st, c, 1)
                                          /\ \A i \in DOMAIN st : Node(st, c, i + 1) = Node(st, b, i + 1)
  <2>1. Ordered(st)' /\ Based(op, b)' /\ Tables!Get(op)' = Tables!Get(op)
    BY <1>1, <1>3 DEF Pile, Ordered, Based, Tables!Get
  <2> QED BY <1>3, <2>1 DEF Pile, Piled
<1> QED BY <1>1, <1>2, <1>3, HooksStay

LEMMA TableAlways == HookSpec => []TableInv
<1>1. HookInit => TableInv
  BY TableInit DEF HookInit
<1>2. TableInv /\ [HookNext]_<<part, vars, tableVars>> => TableInv'
  <2>1. TableInv /\ HookNext => TableInv'
    BY TableNext, TableRests DEF HookNext
  <2>2. TableInv /\ UNCHANGED <<part, vars, tableVars>> => TableInv'
    BY TableRests
  <2> QED BY <2>1, <2>2
<1> QED BY <1>1, <1>2, PTL DEF HookSpec

\* Whatever hooks are put on top of each other and in whatever order the plugins come, a packet meets the callbacks that
\* asked for its opcode and no others (hook_core.h: hook_opcode, hook_department, restore_all), unless a full g_swaps has
\* forgotten a swap.
THEOREM PacketsMeetTheirHooks == HookSpec => []OnlyTheHooksAsked
<1>1. TableInv => OnlyTheHooksAsked
  BY TableTells DEF OnlyTheHooksAsked
<1> QED BY <1>1, TableAlways, PTL

\* Calling the original from every callback ends in the server's own handler of that opcode, and with every plugin gone
\* that handler is in its slot again (hook_core.h: original, uninstall_all).
THEOREM HandlersAreKept == HookSpec => []OriginalsKept
<1>1. TableInv => OriginalsKept
  BY TableTells DEF OriginalsKept
<1> QED BY <1>1, TableAlways, PTL
=============================================================================
