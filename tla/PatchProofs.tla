---------------------------- MODULE PatchProofs ----------------------------
(***************************************************************************)
(* What holds of every image apply.py and build.py make, for any set of    *)
(* recipes stacked in any order in any number of runs, and for any sizes.  *)
(***************************************************************************)
EXTENDS PatchRun, FiniteSetTheorems, Induction, TLAPS

USE DEF Original

(***************************************************************************)
(* Aligning up.                                                            *)
(***************************************************************************)
LEMMA ModRange == ASSUME NEW a \in Nat \ {0}, NEW v \in Int PROVE v % a \in 0 .. a - 1
  OBVIOUS

LEMMA AlignUp ==
    ASSUME NEW a \in Nat \ {0}, NEW v \in Nat
    PROVE  Align(v, a) \in Nat /\ v <= Align(v, a)
  BY ModRange DEF Align

LEMMA Aligned == ASSUME NEW a \in Nat \ {0}, NEW v \in Nat PROVE Align(v, a) % a = 0
  BY ModRange DEF Align

LEMMA VsizeXOK == VsizeX \in Nat /\ ArenaDirAt <= VsizeX
  BY AlignUp, AlignmentsOK DEF VsizeX

(***************************************************************************)
(* The invariant of an image.                                              *)
(***************************************************************************)
Typed(im) == im \in Image /\ IsFiniteSet(im.relocs)

\* an arena that exists has its header in use; before there are arenas nothing was handed out
Marks(im) ==
    /\ im.arenas => ArenaDirAt <= im.usedX /\ ArenaHeader <= im.usedD
    /\ ~im.arenas => im.given = << >>

Sound(im) == Typed(im) /\ Marks(im) /\ RegionsSound(im) /\ DirectoryCurrent(im)

\* what recipes are there for: the arenas are none of it
Rest(im, to) == to.sites = im.sites /\ to.imports = im.imports /\ to.relocs = im.relocs /\ to.did = im.did

LEMMA StockSound == Sound(Stock)
<1> DEFINE S == Stock
<1>1. Stock \in Image
  BY AlignmentsOK DEF Stock, Image, Const, Value
<1>2. Stock.relocs = {} /\ Stock.given = << >> /\ Stock.arenas = FALSE
      /\ Stock.usedX = 0 /\ Stock.usedD = 0 /\ Stock.vsizeD = 0
  BY DEF Stock
<1>3. IsFiniteSet({})
  BY FS_EmptySet
<1> QED
  BY <1>1, <1>2, <1>3, VsizeXOK DEF Sound, Typed, Marks, RegionsSound, DirectoryCurrent

\* what an image promises depends on its arenas and its directory only
LEMMA Frame ==
    ASSUME NEW im, NEW to, Sound(im), Typed(to),
           to.arenas = im.arenas, to.usedX = im.usedX, to.usedD = im.usedD,
           to.vsizeD = im.vsizeD, to.given = im.given, to.dir = im.dir
    PROVE  Sound(to)
  BY DEF Sound, Marks, RegionsSound, DirectoryCurrent, Placed, Apart, End, Lookup, SlotsOf, Entry

LEMMA EnsureSound ==
    ASSUME NEW im, Sound(im), NEW hint \in Nat, EnsureArenas(im, hint) # Refused
    PROVE  /\ Sound(EnsureArenas(im, hint))
           /\ EnsureArenas(im, hint).arenas
           /\ Rest(im, EnsureArenas(im, hint))
<1>1. CASE im.arenas
  BY <1>1 DEF EnsureArenas, Rest
<1>2. CASE ~im.arenas
  <2> DEFINE to == EnsureArenas(im, hint)
  <2>1. im.room \in Nat /\ ~(im.room < 2) /\ im \in Image /\ im.room - 2 \in Nat
    <3>1. im.room \in Nat /\ im \in Image
      BY DEF Sound, Typed, Image
    <3>2. ~(im.room < 2)
      BY <1>2 DEF EnsureArenas
    <3> QED
      BY <3>1, <3>2
  <2>2. to = [im EXCEPT !.arenas = TRUE, !.room = im.room - 2, !.usedX = ArenaDirAt,
                !.usedD = ArenaHeader, !.vsizeD = Align(hint + ArenaHeader, SectionAlign),
                !.rawD = Align(hint + ArenaHeader, FileAlign)]
    BY <1>2, <2>1 DEF EnsureArenas
  <2>3. /\ Align(hint + ArenaHeader, SectionAlign) \in Nat
        /\ ArenaHeader <= Align(hint + ArenaHeader, SectionAlign)
        /\ Align(hint + ArenaHeader, FileAlign) \in Nat
    <3>1. hint + ArenaHeader \in Nat /\ ArenaHeader <= hint + ArenaHeader /\ ArenaHeader \in Nat
      BY AlignmentsOK
    <3> QED
      BY <3>1, AlignUp, AlignmentsOK
  <2> HIDE DEF to
  <2>4. to \in Image
    BY <2>1, <2>2, <2>3, AlignmentsOK DEF Image
  <2>5. /\ to.arenas = TRUE /\ to.usedX = ArenaDirAt /\ to.usedD = ArenaHeader
        /\ to.vsizeD = Align(hint + ArenaHeader, SectionAlign)
        /\ to.given = im.given /\ to.relocs = im.relocs /\ Rest(im, to)
    BY <2>1, <2>2 DEF Image, Rest
  <2>6. im.given = << >>
    BY <1>2 DEF Sound, Marks
  <2>7. Sound(to)
    BY <2>3, <2>4, <2>5, <2>6, VsizeXOK, AlignmentsOK
       DEF Sound, Typed, Marks, RegionsSound, DirectoryCurrent
  <2> QED
    BY <2>5, <2>7 DEF to
<1> QED
  BY <1>1, <1>2

\* the region about to be handed out
Spot(im, exec) == Align(IF exec THEN im.usedX ELSE im.usedD, RegionAlign)

LEMMA SpotOK ==
    ASSUME NEW im, Sound(im), im.arenas, NEW exec \in BOOLEAN
    PROVE  /\ Spot(im, exec) \in Nat /\ Spot(im, exec) % RegionAlign = 0
           /\ IF exec THEN im.usedX <= Spot(im, exec) ELSE im.usedD <= Spot(im, exec)
<1>1. im.usedX \in Nat /\ im.usedD \in Nat
  BY DEF Sound, Typed, Image
<1> QED
  BY <1>1, AlignUp, Aligned, AlignmentsOK DEF Spot

LEMMA RoomSound ==
    ASSUME NEW im, Sound(im), im.arenas, NEW size \in Nat, NEW exec \in BOOLEAN,
           MakeRoom(im, size, exec) # Refused
    PROVE  LET to == MakeRoom(im, size, exec)
           IN  /\ Sound(to) /\ to.arenas /\ Rest(im, to) /\ Spot(to, exec) = Spot(im, exec)
               /\ Spot(to, exec) + size <= IF exec THEN VsizeX ELSE to.vsizeD
<1> DEFINE need == Spot(im, exec) + size
           to == MakeRoom(im, size, exec)
<1>0. need \in Nat /\ im \in Image /\ im.vsizeD \in Nat /\ VsizeX \in Nat
  <2>1. im \in Image /\ im.vsizeD \in Nat
    BY DEF Sound, Typed, Image
  <2>2. Spot(im, exec) \in Nat
    BY SpotOK
  <2> QED
    BY <2>1, <2>2, VsizeXOK
<1>1. CASE exec
  BY <1>0, <1>1 DEF MakeRoom, Spot, Rest
<1>2. CASE ~exec /\ need <= im.vsizeD
  BY <1>0, <1>2 DEF MakeRoom, GrowDataArena, Spot, Rest
<1>3. CASE ~exec /\ ~(need <= im.vsizeD)
  <2>1. to = [im EXCEPT !.vsizeD = need, !.rawD = Align(need, FileAlign)]
    BY <1>3 DEF MakeRoom, GrowDataArena, Spot
  <2>2. Align(need, FileAlign) \in Nat
    BY <1>0, AlignUp, AlignmentsOK
  <2> HIDE DEF to, need
  <2>3. to \in Image
    BY <2>1, <2>2, <1>0 DEF Image
  <2>4. /\ to.arenas = im.arenas /\ to.usedX = im.usedX /\ to.usedD = im.usedD
        /\ to.vsizeD = need /\ to.given = im.given /\ to.dir = im.dir /\ to.relocs = im.relocs
        /\ Rest(im, to)
    BY <2>1, <1>0 DEF Image, Rest
  <2>5. to.usedD <= to.vsizeD
    <3>1. im.usedD \in Nat /\ im.usedD <= im.vsizeD
      BY DEF Sound, Typed, Image, RegionsSound
    <3> QED
      BY <3>1, <2>4, <1>0, <1>3
  <2>6. Sound(to)
    BY <2>3, <2>4, <2>5
       DEF Sound, Typed, Marks, RegionsSound, DirectoryCurrent, Placed, Apart, End, Lookup,
           SlotsOf, Entry
  <2>7. Spot(to, exec) = Spot(im, exec)
    BY <2>4 DEF Spot
  <2>8. Spot(to, exec) + size <= to.vsizeD
    BY <2>4, <2>7, <1>0 DEF need
  <2> QED
    BY <2>4, <2>6, <2>7, <2>8, <1>3 DEF to
<1> QED
  BY <1>1, <1>2, <1>3

-----------------------------------------------------------------------------
(***************************************************************************)
(* Handing out a region.                                                   *)
(***************************************************************************)
\* _arena_record touches the directory only, and what the directory says of any other name stays
LEMMA RecordOK ==
    ASSUME NEW im \in Image, NEW label \in DOMAIN Key, NEW exec \in BOOLEAN,
           NEW off \in Nat, NEW size \in Nat,
           ArenaRecord(im, label, exec, off, size) # Refused
    PROVE  LET to == ArenaRecord(im, label, exec, off, size)
           IN  /\ to \in Image
               /\ to = [im EXCEPT !.dir = to.dir]
               /\ Lookup(to, label) = {Entry(label, exec, off, size)}
               /\ \A other \in DOMAIN Key : Key[other] # Key[label] => Lookup(to, other) = Lookup(im, other)
<1> DEFINE e == Entry(label, exec, off, size)
           to == ArenaRecord(im, label, exec, off, size)
<1>1. e \in EntryT /\ e.key = Key[label] /\ im.dir \in Seq(EntryT)
  BY DEF Entry, EntryT, Image
<1>2. CASE SlotsOf(im, label) # {}
  <2> DEFINE d == [i \in DOMAIN im.dir |-> IF i \in SlotsOf(im, label) THEN e ELSE im.dir[i]]
  <2>1. to = [im EXCEPT !.dir = d]
    BY <1>2 DEF ArenaRecord
  <2>2. d \in Seq(EntryT) /\ DOMAIN d = DOMAIN im.dir
    BY <1>1
  <2>3. \A i \in DOMAIN d : d[i] = IF i \in SlotsOf(im, label) THEN e ELSE im.dir[i]
    OBVIOUS
  <2> HIDE DEF d, to
  <2>4. to \in Image /\ to.dir = d /\ to = [im EXCEPT !.dir = to.dir]
    BY <2>1, <2>2 DEF Image
  <2>5. SlotsOf(to, label) = SlotsOf(im, label)
    BY <2>2, <2>3, <2>4, <1>1 DEF SlotsOf
  <2>6. Lookup(to, label) = {e}
    BY <2>2, <2>3, <2>4, <2>5, <1>2 DEF Lookup, SlotsOf
  <2>7. ASSUME NEW other \in DOMAIN Key, Key[other] # Key[label]
        PROVE  Lookup(to, other) = Lookup(im, other)
    <3>1. SlotsOf(to, other) = SlotsOf(im, other)
      BY <2>7, <2>2, <2>3, <2>4, <1>1 DEF SlotsOf
    <3>2. \A i \in SlotsOf(im, other) : i \in DOMAIN d /\ i \notin SlotsOf(im, label)
      BY <2>7, <2>2 DEF SlotsOf
    <3> QED
      BY <3>1, <3>2, <2>3, <2>4 DEF Lookup
  <2> QED
    BY <2>4, <2>6, <2>7 DEF to
<1>3. CASE SlotsOf(im, label) = {}
  <2> DEFINE d == Append(im.dir, e)
  <2>1. to = [im EXCEPT !.dir = d]
    BY <1>3 DEF ArenaRecord
  <2>2. /\ d \in Seq(EntryT) /\ DOMAIN d = DOMAIN im.dir \union {Len(im.dir) + 1}
        /\ Len(im.dir) + 1 \notin DOMAIN im.dir
        /\ d[Len(im.dir) + 1] = e /\ \A i \in DOMAIN im.dir : d[i] = im.dir[i]
    BY <1>1
  <2> HIDE DEF d, to
  <2>4. to \in Image /\ to.dir = d /\ to = [im EXCEPT !.dir = to.dir]
    BY <2>1, <2>2 DEF Image
  <2>5. SlotsOf(to, label) = {Len(im.dir) + 1}
    BY <2>2, <2>4, <1>1, <1>3 DEF SlotsOf
  <2>6. Lookup(to, label) = {e}
    BY <2>2, <2>4, <2>5 DEF Lookup
  <2>7. ASSUME NEW other \in DOMAIN Key, Key[other] # Key[label]
        PROVE  Lookup(to, other) = Lookup(im, other)
    <3>1. SlotsOf(to, other) = SlotsOf(im, other)
      BY <2>7, <2>2, <2>4, <1>1 DEF SlotsOf
    <3>2. \A i \in SlotsOf(im, other) : i \in DOMAIN im.dir
      BY DEF SlotsOf
    <3> QED
      BY <3>1, <3>2, <2>2, <2>4 DEF Lookup
  <2> QED
    BY <2>4, <2>6, <2>7 DEF to
<1> QED
  BY <1>2, <1>3

LEMMA CarveSound ==
    ASSUME NEW im, Sound(im), im.arenas, NEW size \in Nat, NEW exec \in BOOLEAN,
           NEW label \in DOMAIN Key,
           Spot(im, exec) + size <= IF exec THEN VsizeX ELSE im.vsizeD,
           Carve(im, size, exec, label) # Refused
    PROVE  LET to == Carve(im, size, exec, label)
           IN  /\ Sound(to) /\ to.given # << >> /\ Rest(im, to)
               /\ Latest(to) = Region(label, exec, Spot(im, exec), size)
<1> DEFINE off  == Spot(im, exec)
           R    == Region(label, exec, off, size)
           kept == [(IF exec THEN [im EXCEPT !.usedX = off + size]
                             ELSE [im EXCEPT !.usedD = off + size])
                      EXCEPT !.given = Append(@, R)]
           to   == ArenaRecord(kept, label, exec, off, size)
<1>1. /\ im \in Image /\ IsFiniteSet(im.relocs) /\ im.usedX \in Nat /\ im.usedD \in Nat
      /\ im.given \in Seq(RegionT)
  BY DEF Sound, Typed, Image
<1>2. off \in Nat /\ off + size \in Nat /\ off % RegionAlign = 0
      /\ IF exec THEN im.usedX <= off ELSE im.usedD <= off
  <2>1. off \in Nat /\ off % RegionAlign = 0 /\ IF exec THEN im.usedX <= off ELSE im.usedD <= off
    BY SpotOK
  <2> QED
    BY <2>1
<1>3. Carve(im, size, exec, label) = to
  BY DEF Carve, Spot
<1> HIDE DEF off
<1>4. R \in RegionT /\ R.label = label /\ R.exec = exec /\ R.off = off /\ R.size = size
  BY <1>2 DEF Region, RegionT
<1> HIDE DEF R
<1>5. /\ kept \in Image /\ kept.arenas = im.arenas /\ kept.vsizeD = im.vsizeD
      /\ kept.dir = im.dir /\ kept.relocs = im.relocs /\ Rest(im, kept)
      /\ kept.given = Append(im.given, R)
      /\ kept.usedX = IF exec THEN off + size ELSE im.usedX
      /\ kept.usedD = IF exec THEN im.usedD ELSE off + size
  <2>1. Append(im.given, R) \in Seq(RegionT)
    BY <1>1, <1>4
  <2>2. CASE exec
    <3> DEFINE u == [im EXCEPT !.usedX = off + size]
    <3>1. u \in Image /\ u.given = im.given /\ u.usedX = off + size /\ u.usedD = im.usedD
          /\ u.arenas = im.arenas /\ u.vsizeD = im.vsizeD /\ u.dir = im.dir /\ u.relocs = im.relocs
          /\ Rest(im, u)
      BY <1>1, <1>2 DEF Image, Rest
    <3>2. kept = [u EXCEPT !.given = Append(u.given, R)]
      BY <2>2
    <3> HIDE DEF u, kept
    <3> QED
      BY <2>1, <2>2, <3>1, <3>2 DEF Image, Rest
  <2>3. CASE ~exec
    <3> DEFINE u == [im EXCEPT !.usedD = off + size]
    <3>1. u \in Image /\ u.given = im.given /\ u.usedD = off + size /\ u.usedX = im.usedX
          /\ u.arenas = im.arenas /\ u.vsizeD = im.vsizeD /\ u.dir = im.dir /\ u.relocs = im.relocs
          /\ Rest(im, u)
      BY <1>1, <1>2 DEF Image, Rest
    <3>2. kept = [u EXCEPT !.given = Append(u.given, R)]
      BY <2>3
    <3> HIDE DEF u, kept
    <3> QED
      BY <2>1, <2>3, <3>1, <3>2 DEF Image, Rest
  <2> QED
    BY <2>2, <2>3
<1> HIDE DEF kept
<1>6. /\ to \in Image /\ to = [kept EXCEPT !.dir = to.dir]
      /\ Lookup(to, label) = {Entry(label, exec, off, size)}
      /\ \A other \in DOMAIN Key : Key[other] # Key[label] => Lookup(to, other) = Lookup(kept, other)
  BY <1>2, <1>3, <1>5, RecordOK
<1> HIDE DEF to
<1>7. /\ to.arenas = im.arenas /\ to.vsizeD = im.vsizeD /\ to.relocs = im.relocs
      /\ to.given = Append(im.given, R) /\ to.usedX = kept.usedX /\ to.usedD = kept.usedD
      /\ Rest(im, to)
  BY <1>5, <1>6 DEF Image, Rest
<1> DEFINE n == Len(im.given) + 1
<1>8. /\ DOMAIN to.given = DOMAIN im.given \union {n} /\ n \notin DOMAIN im.given
      /\ Len(to.given) = n /\ to.given[n] = R /\ n \in Nat
      /\ \A i \in DOMAIN im.given : /\ to.given[i] = im.given[i] /\ i \in Nat /\ i < n
                                    /\ im.given[i] \in RegionT
  BY <1>1, <1>4, <1>7
<1> HIDE DEF n
<1>9. Marks(to)
  <2>1. ArenaDirAt <= im.usedX /\ ArenaHeader <= im.usedD
    BY DEF Sound, Marks
  <2> QED
    BY <2>1, <1>1, <1>2, <1>5, <1>7, AlignmentsOK DEF Marks
<1>10. RegionsSound(to)
  <2>1. /\ \A i \in DOMAIN im.given : Placed(im, im.given[i])
        /\ \A i, j \in DOMAIN im.given : i # j => Apart(im.given[i], im.given[j])
        /\ im.usedX <= VsizeX /\ im.usedD <= im.vsizeD
        /\ ArenaDirAt <= im.usedX /\ ArenaHeader <= im.usedD
    BY DEF Sound, Marks, RegionsSound
  <2>2. \A i \in DOMAIN im.given : Placed(to, im.given[i])
    <3> TAKE i \in DOMAIN im.given
    <3>1. im.given[i].off \in Nat /\ im.given[i].size \in Nat
      BY <1>8 DEF RegionT
    <3> QED
      BY <3>1, <2>1, <1>1, <1>2, <1>5, <1>7 DEF Placed, End
  <2>3. Placed(to, R)
    BY <2>1, <1>1, <1>2, <1>4, <1>5, <1>7, AlignmentsOK DEF Placed, End
  <2>4. \A i \in DOMAIN im.given : Apart(im.given[i], R) /\ Apart(R, im.given[i])
    <3> TAKE i \in DOMAIN im.given
    <3>1. im.given[i].off \in Nat /\ im.given[i].size \in Nat /\ im.given[i].exec \in BOOLEAN
      BY <1>8 DEF RegionT
    <3> QED
      BY <3>1, <2>1, <1>1, <1>2, <1>4 DEF Placed, Apart, End
  <2>5. to.usedX <= VsizeX /\ to.usedD <= to.vsizeD
    BY <2>1, <1>1, <1>2, <1>5, <1>7 DEF off
  <2> QED
    BY <2>1, <2>2, <2>3, <2>4, <2>5, <1>8 DEF RegionsSound
<1>11. DirectoryCurrent(to)
  <2> SUFFICES ASSUME NEW i \in DOMAIN to.given,
                      \A j \in DOMAIN to.given : j > i => Key[to.given[j].label] # Key[to.given[i].label]
               PROVE  Lookup(to, to.given[i].label) =
                        {Entry(to.given[i].label, to.given[i].exec, to.given[i].off, to.given[i].size)}
    BY DEF DirectoryCurrent
  <2>1. CASE i = n
    BY <2>1, <1>4, <1>6, <1>8
  <2>2. CASE i \in DOMAIN im.given
    <3>1. to.given[i] = im.given[i] /\ im.given[i].label \in DOMAIN Key
      BY <2>2, <1>8 DEF RegionT
    <3>2. Key[label] # Key[im.given[i].label]
      BY <2>2, <3>1, <1>4, <1>8
    <3>3. \A j \in DOMAIN im.given : j > i => Key[im.given[j].label] # Key[im.given[i].label]
      BY <2>2, <3>1, <1>8
    <3>4. Lookup(im, im.given[i].label) =
            {Entry(im.given[i].label, im.given[i].exec, im.given[i].off, im.given[i].size)}
      BY <2>2, <3>3 DEF Sound, DirectoryCurrent
    <3>5. Lookup(to, im.given[i].label) = Lookup(kept, im.given[i].label)
      BY <3>1, <3>2, <1>6
    <3>6. Lookup(kept, im.given[i].label) = Lookup(im, im.given[i].label)
      BY <1>5 DEF Lookup, SlotsOf
    <3> QED
      BY <3>1, <3>4, <3>5, <3>6
  <2> QED
    BY <2>1, <2>2, <1>8
<1>12. Sound(to)
  BY <1>1, <1>6, <1>7, <1>9, <1>10, <1>11 DEF Sound, Typed
<1>13. to.given # << >> /\ Latest(to) = R
  BY <1>8 DEF Latest
<1> QED
  BY <1>3, <1>7, <1>12, <1>13 DEF R, off

\* Reserve: a sound image stays sound, and the region handed out is a well-formed one
LEMMA ReserveSound ==
    ASSUME NEW im, Sound(im), NEW size \in Nat, NEW exec \in BOOLEAN, NEW label \in DOMAIN Key,
           Reserve(im, size, exec, label) # Refused
    PROVE  LET to == Reserve(im, size, exec, label)
           IN  /\ Sound(to) /\ Latest(to) \in RegionT
               /\ Latest(to).exec = exec /\ Rest(im, to)
<1> DEFINE hint == IF exec THEN 0 ELSE size
           mapped == EnsureArenas(im, hint)
           roomy == MakeRoom(mapped, size, exec)
           to == Carve(roomy, size, exec, label)
<1>1. mapped # Refused /\ roomy # Refused /\ Reserve(im, size, exec, label) = to /\ hint \in Nat
  BY DEF Reserve
<1> HIDE DEF hint
<1>2. Sound(mapped) /\ mapped.arenas /\ Rest(im, mapped)
  BY <1>1, EnsureSound
<1> HIDE DEF mapped
<1>3. /\ Sound(roomy) /\ roomy.arenas /\ Rest(mapped, roomy) /\ Spot(roomy, exec) = Spot(mapped, exec)
      /\ Spot(roomy, exec) + size <= IF exec THEN VsizeX ELSE roomy.vsizeD
  BY <1>1, <1>2, RoomSound
<1> HIDE DEF roomy
<1>4. Sound(to) /\ Latest(to) = Region(label, exec, Spot(roomy, exec), size) /\ Rest(roomy, to)
  BY <1>1, <1>3, CarveSound
<1>5. Spot(roomy, exec) \in Nat
  BY <1>3, SpotOK
<1> HIDE DEF to
<1> QED
  BY <1>1, <1>2, <1>3, <1>4, <1>5 DEF Region, RegionT, Rest

-----------------------------------------------------------------------------
(***************************************************************************)
(* The rest of a recipe.                                                   *)
(***************************************************************************)
LEMMA LengthenSound ==
    ASSUME NEW im, Sound(im), NEW exec \in BOOLEAN, NEW end \in Nat
    PROVE  Sound(Lengthen(im, exec, end)) /\ Rest(im, Lengthen(im, exec, end))
<1>1. CASE exec
  BY <1>1 DEF Lengthen, Rest
<1>2. CASE ~exec
  <2> DEFINE t == Larger(im.tail, end - im.rawD)
             to == Lengthen(im, exec, end)
  <2>1. im \in Image /\ IsFiniteSet(im.relocs) /\ im.tail \in Nat /\ im.rawD \in Nat
    BY DEF Sound, Typed, Image
  <2>2. t \in Nat
    BY <2>1 DEF Larger
  <2>3. to = [im EXCEPT !.tail = t]
    BY <1>2, <2>1 DEF Lengthen
  <2> HIDE DEF t, to
  <2>4. to \in Image /\ to.relocs = im.relocs /\ to.arenas = im.arenas /\ to.usedX = im.usedX
        /\ to.usedD = im.usedD /\ to.vsizeD = im.vsizeD /\ to.given = im.given /\ to.dir = im.dir
        /\ Rest(im, to)
    BY <2>1, <2>2, <2>3 DEF Image, Rest
  <2>5. Typed(to)
    BY <2>1, <2>4 DEF Typed
  <2> QED
    BY <2>4, <2>5, Frame DEF to
<1> QED
  BY <1>1, <1>2

LEMMA AddImportSound ==
    ASSUME NEW im, Sound(im), AddImport(im) # Refused
    PROVE  LET to == AddImport(im)
           IN  /\ Sound(to)
               /\ to.sites = im.sites /\ to.relocs = im.relocs /\ to.did = im.did /\ to.imports = im.imports + 1
<1> DEFINE total == im.imports + 3
           got == Reserve(im, total, FALSE, ImportLabel)
           off == Latest(got).off
           mid == [got EXCEPT !.imports = @ + 1, !.importsAt = off]
<1>1. total \in Nat
  BY DEF Sound, Typed, Image
<1>2. got # Refused /\ AddImport(im) = Lengthen(mid, FALSE, off + total)
  BY DEF AddImport
<1>3. Sound(got) /\ off \in Nat /\ Rest(im, got)
  <2>1. Sound(got) /\ Latest(got) \in RegionT /\ Rest(im, got)
    BY <1>1, <1>2, ReserveSound, LabelsOK
  <2> QED
    BY <2>1 DEF RegionT
<1> HIDE DEF got, off, total
<1>4. got \in Image /\ IsFiniteSet(got.relocs) /\ got.imports \in Nat
  BY <1>3 DEF Sound, Typed, Image
<1>5. mid \in Image /\ mid.relocs = got.relocs /\ mid.arenas = got.arenas /\ mid.usedX = got.usedX
      /\ mid.usedD = got.usedD /\ mid.vsizeD = got.vsizeD /\ mid.given = got.given
      /\ mid.dir = got.dir
      /\ mid.sites = got.sites /\ mid.did = got.did /\ mid.imports = got.imports + 1
  <2>1. got.imports + 1 \in Nat /\ mid = [got EXCEPT !.imports = got.imports + 1, !.importsAt = off]
    BY <1>4 DEF Image
  <2> HIDE DEF mid
  <2> QED
    BY <2>1, <1>3, <1>4 DEF Image
<1> HIDE DEF mid
<1>6. Sound(mid)
  <2>1. Typed(mid)
    BY <1>4, <1>5 DEF Typed
  <2> QED
    BY <1>3, <1>5, <2>1, Frame
<1>7. off + total \in Nat
  BY <1>1, <1>3
<1>8. Sound(Lengthen(mid, FALSE, off + total)) /\ Rest(mid, Lengthen(mid, FALSE, off + total))
  BY <1>6, <1>7, LengthenSound
<1> QED
  BY <1>2, <1>3, <1>5, <1>8 DEF Rest

LEMMA AddRelocationsSound ==
    ASSUME NEW im, Sound(im), NEW addrs \in SUBSET Value, IsFiniteSet(addrs),
           AddRelocations(im, addrs) # Refused
    PROVE  LET to == AddRelocations(im, addrs)
           IN  /\ Sound(to)
               /\ to.sites = im.sites /\ to.relocs = im.relocs \union addrs /\ to.did = im.did /\ to.imports = im.imports
<1> DEFINE fresh == addrs \ im.relocs
           total == StockRelocs + Cardinality(im.relocs) + Cardinality(fresh)
           got == Reserve(im, total, FALSE, RelocLabel)
           off == Latest(got).off
           mid == [got EXCEPT !.relocs = @ \union fresh, !.relocsAt = off]
<1>1. CASE fresh = {}
  <2>1. im.relocs = im.relocs \union addrs
    BY <1>1
  <2> QED
    BY <1>1, <2>1 DEF AddRelocations
<1>2. CASE fresh # {}
  <2>1. total \in Nat /\ IsFiniteSet(fresh) /\ fresh \in SUBSET Value
    <3>1. IsFiniteSet(im.relocs)
      BY DEF Sound, Typed
    <3>2. IsFiniteSet(fresh)
      BY FS_Difference
    <3>3. Cardinality(im.relocs) \in Nat /\ Cardinality(fresh) \in Nat
      BY <3>1, <3>2, FS_CardinalityType
    <3> QED
      BY <3>2, <3>3, AlignmentsOK
  <2>2. got # Refused /\ AddRelocations(im, addrs) = Lengthen(mid, FALSE, off + total)
    BY <1>2 DEF AddRelocations
  <2> HIDE DEF total
  <2>3. Sound(got) /\ off \in Nat /\ Rest(im, got) /\ got.relocs \union fresh = im.relocs \union addrs
    <3>1. Sound(got) /\ Latest(got) \in RegionT /\ Rest(im, got)
      BY <2>1, <2>2, ReserveSound, LabelsOK
    <3> QED
      BY <3>1 DEF RegionT, Rest
  <2> HIDE DEF got, off, fresh
  <2>4. got \in Image /\ IsFiniteSet(got.relocs) /\ got.relocs \in SUBSET Value
    BY <2>3 DEF Sound, Typed, Image
  <2>5. mid \in Image /\ mid.relocs = got.relocs \union fresh /\ mid.arenas = got.arenas
        /\ mid.usedX = got.usedX /\ mid.usedD = got.usedD /\ mid.vsizeD = got.vsizeD
        /\ mid.given = got.given /\ mid.dir = got.dir
        /\ mid.sites = got.sites /\ mid.did = got.did /\ mid.imports = got.imports
    BY <2>1, <2>3, <2>4 DEF Image
  <2> HIDE DEF mid
  <2>6. Sound(mid)
    <3>1. IsFiniteSet(mid.relocs)
      BY <2>1, <2>4, <2>5, FS_Union
    <3>2. Typed(mid)
      BY <2>5, <3>1 DEF Typed
    <3> QED
      BY <2>3, <2>5, <3>2, Frame
  <2>7. off + total \in Nat
    BY <2>1, <2>3
  <2>8. Sound(Lengthen(mid, FALSE, off + total)) /\ Rest(mid, Lengthen(mid, FALSE, off + total))
    BY <2>6, <2>7, LengthenSound
  <2> QED
    BY <2>2, <2>3, <2>5, <2>8 DEF Rest
<1> QED
  BY <1>1, <1>2

\* what the rest of main() is given as @newbase
LEMMA BaseOK == ASSUME NEW region \in RegionT PROVE BaseOf(region) \in Value /\ BaseOf(region).kind # "const"
  BY DEF BaseOf, ArenaOf, Addr, Value, RegionT

LEMMA AbsSitesOK ==
    ASSUME NEW r \in Recipes, NEW base \in Value
    PROVE  AbsSites(r, base) \in SUBSET Value /\ IsFiniteSet(AbsSites(r, base))
<1>1. r.abs \in SUBSET Nat /\ IsFiniteSet(r.abs)
  BY RunConstantsOK DEF RecipeT
<1>2. AbsSites(r, base) \in SUBSET Value
  BY <1>1 DEF AbsSites, Addr, Value
<1>3. IsFiniteSet(AbsSites(r, base))
  <2> DEFINE f == [k \in r.abs |-> Addr(base.kind, base.at + k)]
  <2>1. f \in Surjection(r.abs, AbsSites(r, base))
    BY DEF Surjection, AbsSites
  <2> QED
    BY <1>1, <2>1, FS_Surjection
<1> QED
  BY <1>2, <1>3

\* the entry that stands for a recipe, and the sites after it
Entered(r, base) == [recipe |-> r, base |-> base]
Rewritten(sites, d) == [s \in Sites |-> IF EditsOf(d, s) = {} THEN sites[s] ELSE LastWrite(d, s)]

LEMMA EditedSound ==
    ASSUME NEW im, Sound(im), NEW r \in Recipes, NEW base \in Value, NEW reader \in Image,
           Validated(reader, r, base)
    PROVE  LET to == Edited(im, r, base)
           IN  /\ Sound(to)
               /\ to.relocs = im.relocs /\ to.did = im.did /\ to.imports = im.imports
               /\ to.sites = Rewritten(im.sites, Entered(r, base))
<1> DEFINE hits(s) == {i \in DOMAIN r.edits : r.edits[i].site = s}
           last(s) == CHOOSE i \in hits(s) : \A j \in hits(s) : j <= i
           w == [s \in Sites |-> IF hits(s) = {} THEN im.sites[s]
                                 ELSE Evaluate(r.edits[last(s)].write, base)]
           to == [im EXCEPT !.sites = w]
<1>1. Edited(im, r, base) = to /\ im \in Image /\ IsFiniteSet(im.relocs)
  BY DEF Edited, Sound, Typed
<1>2. r.edits \in Seq(EditT)
  BY RunConstantsOK DEF RecipeT
<1>3. \A i \in DOMAIN r.edits : Evaluate(r.edits[i].write, base) \in Value
  <2> TAKE i \in DOMAIN r.edits
  <2>1. r.edits[i] \in EditT
    BY <1>2
  <2>2. r.edits[i].write # TooWide
    BY DEF Validated, EditOK
  <2> QED
    BY <2>1, <2>2 DEF EditT, Evaluate
<1>4. ASSUME NEW s \in Sites, hits(s) # {} PROVE last(s) \in DOMAIN r.edits
  <2>1. \E i \in hits(s) : \A j \in hits(s) : j <= i
    <3>1. DOMAIN r.edits = 1 .. Len(r.edits) /\ Len(r.edits) \in Nat
      BY <1>2
    <3>2. hits(s) \in SUBSET Nat /\ \A i \in hits(s) : i <= Len(r.edits)
      BY <3>1
    <3> QED
      BY <1>4, <3>1, <3>2, LastNumber
  <2> QED
    BY <2>1
<1>5. w \in [Sites -> Value]
  <2> SUFFICES ASSUME NEW s \in Sites PROVE w[s] \in Value
    OBVIOUS
  <2>1. CASE hits(s) = {}
    BY <2>1, <1>1 DEF Image
  <2>2. CASE hits(s) # {}
    BY <2>2, <1>3, <1>4
  <2> QED
    BY <2>1, <2>2
<1>9. w = Rewritten(im.sites, Entered(r, base))
  BY DEF Rewritten, Entered, EditsOf, LastWrite
<1> HIDE DEF w
<1>6. to \in Image /\ to.did = im.did /\ to.imports = im.imports /\ to.sites = w /\ to.relocs = im.relocs /\ to.arenas = im.arenas /\ to.usedX = im.usedX
      /\ to.usedD = im.usedD /\ to.vsizeD = im.vsizeD /\ to.given = im.given /\ to.dir = im.dir
  BY <1>1, <1>5 DEF Image
<1> HIDE DEF to
<1>7. Typed(to)
  BY <1>1, <1>6 DEF Typed
<1>8. Sound(to)
  BY <1>6, <1>7, Frame
<1> QED
  BY <1>1, <1>6, <1>8, <1>9 DEF to

\* what a recipe does to an image but for its region
Stacked(im, to, d) ==
    /\ to.did = Append(im.did, d)
    /\ to.relocs = im.relocs \union AbsSites(d.recipe, d.base)
    /\ to.sites = Rewritten(im.sites, d)
    /\ \A i \in DOMAIN d.recipe.edits :
         im.sites[d.recipe.edits[i].site] = Evaluate(d.recipe.edits[i].expect, d.base)

LEMMA FinishSound ==
    ASSUME NEW im, Sound(im), NEW r \in Recipes, NEW base \in Value, Finish(im, r, base) # Refused
    PROVE  LET to == Finish(im, r, base)
           IN  Sound(to) /\ Stacked(im, to, Entered(r, base)) /\ to.imports = im.imports
<1> DEFINE edited == Edited(im, r, base)
           placed == PlaceBlob(edited, r, base)
           moved == AddRelocations(placed, AbsSites(r, base))
           d == [recipe |-> r, base |-> base]
           to == [moved EXCEPT !.did = Append(@, d)]
<1>1. Validated(im, r, base) /\ placed # Refused /\ moved # Refused /\ Finish(im, r, base) = to
  BY DEF Finish
<1>2. /\ Sound(edited) /\ edited.relocs = im.relocs /\ edited.did = im.did /\ edited.imports = im.imports
      /\ edited.sites = Rewritten(im.sites, d)
  BY <1>1, EditedSound DEF Sound, Typed, Entered
<1> HIDE DEF edited
<1>3. Sound(placed) /\ Rest(edited, placed)
  <2>1. r.blob \in Nat /\ r.exec \in BOOLEAN /\ base.at \in Nat
    BY RunConstantsOK DEF RecipeT, Value
  <2>2. base.at + r.blob \in Nat
    BY <2>1
  <2>3. CASE r.blob = 0
    BY <2>3, <1>2 DEF PlaceBlob, Rest
  <2>4. CASE r.blob # 0
    <3>1. placed = Lengthen(edited, r.exec, base.at + r.blob)
      BY <2>4, <1>1 DEF PlaceBlob
    <3> QED
      BY <3>1, <2>1, <2>2, <1>2, LengthenSound
  <2> QED
    BY <2>3, <2>4
<1> HIDE DEF placed
<1>4. /\ Sound(moved) /\ moved.sites = placed.sites /\ moved.relocs = placed.relocs \union AbsSites(r, base)
      /\ moved.did = placed.did /\ moved.imports = placed.imports
  BY <1>1, <1>3, AbsSitesOK, AddRelocationsSound
<1> HIDE DEF moved
<1>5. moved \in Image /\ IsFiniteSet(moved.relocs) /\ moved.did \in Seq([recipe : Recipes, base : Value])
  BY <1>4 DEF Sound, Typed, Image
<1>6. Append(moved.did, d) \in Seq([recipe : Recipes, base : Value])
  BY <1>5
<1>7. to \in Image /\ to.relocs = moved.relocs /\ to.arenas = moved.arenas
      /\ to.usedX = moved.usedX /\ to.usedD = moved.usedD /\ to.vsizeD = moved.vsizeD
      /\ to.given = moved.given /\ to.dir = moved.dir
      /\ to.sites = moved.sites /\ to.imports = moved.imports /\ to.did = Append(moved.did, d)
  BY <1>5, <1>6 DEF Image
<1> HIDE DEF to
<1>8. Typed(to)
  BY <1>5, <1>7 DEF Typed
<1>9. Sound(to)
  BY <1>4, <1>7, <1>8, Frame
<1>10. to.did = Append(im.did, d) /\ to.relocs = im.relocs \union AbsSites(r, base) /\ to.imports = im.imports
       /\ to.sites = Rewritten(im.sites, d)
  BY <1>2, <1>3, <1>4, <1>7 DEF Rest
<1>11. \A i \in DOMAIN r.edits : im.sites[r.edits[i].site] = Evaluate(r.edits[i].expect, base)
  BY <1>1 DEF Validated, EditOK
<1> QED
  BY <1>1, <1>9, <1>10, <1>11 DEF Stacked, Entered

\* the address a recipe is given is that of the region it has just been handed, if it has one
BaseFits(r, base) == IF HasRegion(r) THEN base.kind # "const" ELSE base = Const(0)

\* one whole run of apply.py's main(): a sound image gives a sound image, with the recipe on top, or a refusal
LEMMA AppliedSound ==
    ASSUME NEW im, Sound(im), NEW r \in Recipes, NEW allow \in BOOLEAN,
           Applied(im, r, allow) # Refused
    PROVE  LET to == Applied(im, r, allow)
           IN  /\ Sound(to)
               /\ \E base \in Value : BaseFits(r, base) /\ Stacked(im, to, Entered(r, base))
               /\ to.imports = IF r.import THEN im.imports + 1 ELSE im.imports
<1> DEFINE one == Reserved(im, r)
           base == IF HasRegion(r) THEN BaseOf(Latest(one)) ELSE Const(0)
           two == IF r.import THEN AddImport(one) ELSE one
<1>1. one # Refused /\ two # Refused /\ Applied(im, r, allow) = Finish(two, r, base)
  BY DEF Applied
<1>2. r.size \in Nat /\ r.exec \in BOOLEAN /\ r.label \in DOMAIN Key
  BY RunConstantsOK DEF RecipeT
<1>3. Sound(one) /\ base \in Value /\ BaseFits(r, base) /\ Rest(im, one)
  <2>1. CASE HasRegion(r)
    <3>1. Sound(one) /\ Latest(one) \in RegionT /\ Rest(im, one)
      BY <2>1, <1>1, <1>2, ReserveSound DEF Reserved
    <3> QED
      BY <2>1, <3>1, BaseOK DEF BaseFits
  <2>2. CASE ~HasRegion(r)
    BY <2>2 DEF Reserved, Const, Value, BaseFits, Rest
  <2> QED
    BY <2>1, <2>2
<1> HIDE DEF one, base
<1>4. /\ Sound(two) /\ two.sites = im.sites /\ two.relocs = im.relocs /\ two.did = im.did
      /\ two.imports = IF r.import THEN im.imports + 1 ELSE im.imports
  BY <1>1, <1>3, AddImportSound DEF Rest
<1> HIDE DEF two
<1>5. LET to == Finish(two, r, base)
      IN  Sound(to) /\ Stacked(two, to, Entered(r, base)) /\ to.imports = two.imports
  BY <1>1, <1>3, <1>4, FinishSound
<1>6. Stacked(im, Finish(two, r, base), Entered(r, base))
  BY <1>4, <1>5 DEF Stacked
<1> QED
  BY <1>1, <1>3, <1>4, <1>5, <1>6

(***************************************************************************)
(* The recipes of an image, one on top of the other.                       *)
(***************************************************************************)
EntryOf == [recipe : Recipes, base : Value]
EditorsOf(im, s) == {k \in DOMAIN im.did : EditsOf(im.did[k], s) # {}}

LEMMA OnTop ==
    ASSUME NEW im \in Image, NEW to, NEW d \in EntryOf, to.did = Append(im.did, d)
    PROVE  LET n == Len(im.did)
           IN  /\ n \in Nat /\ DOMAIN im.did = 1 .. n /\ DOMAIN to.did = 1 .. n + 1 /\ Len(to.did) = n + 1
               /\ \A k \in 1 .. n : to.did[k] = im.did[k] /\ im.did[k] \in EntryOf
               /\ to.did[n + 1] = d
<1>1. im.did \in Seq(EntryOf)
  BY DEF Image, EntryOf
<1> QED BY <1>1

\* the last of an image's recipes to edit a site
LEMMA LastEditor ==
    ASSUME NEW im \in Image, NEW s \in Sites, EditorsOf(im, s) # {}
    PROVE  \E k \in EditorsOf(im, s) : \A j \in EditorsOf(im, s) : j =< k
<1>1. Len(im.did) \in Nat /\ DOMAIN im.did = 1 .. Len(im.did)
  BY DEF Image
<1>2. EditorsOf(im, s) \subseteq Nat /\ \A i \in EditorsOf(im, s) : i =< Len(im.did)
  BY <1>1 DEF EditorsOf
<1> HIDE DEF EditorsOf
<1> QED BY <1>1, <1>2, LastNumber, Zenon

\* a site holds what its last editor wrote, told without a choice
SitesTold(im) ==
    \A s \in Sites :
        /\ EditorsOf(im, s) = {} => im.sites[s] = Const(0)
        /\ \A k \in EditorsOf(im, s) : (\A j \in EditorsOf(im, s) : j =< k) => im.sites[s] = LastWrite(im.did[k], s)

SitesWhole(im) ==
    \A s \in Sites :
         LET by == {k \in DOMAIN im.did : EditsOf(im.did[k], s) # {}}
         IN  im.sites[s] = IF by = {} THEN Const(0)
                           ELSE LastWrite(im.did[CHOOSE k \in by : \A j \in by : j <= k], s)

LEMMA SitesAgree == ASSUME NEW im \in Image PROVE SitesTold(im) <=> SitesWhole(im)
<1> SUFFICES ASSUME NEW s \in Sites
             PROVE  /\ EditorsOf(im, s) = {} => im.sites[s] = Const(0)
                    /\ \A k \in EditorsOf(im, s) : (\A j \in EditorsOf(im, s) : j =< k) => im.sites[s] = LastWrite(im.did[k], s)
                    <=> im.sites[s] = IF EditorsOf(im, s) = {} THEN Const(0)
                           ELSE LastWrite(im.did[CHOOSE k \in EditorsOf(im, s) : \A j \in EditorsOf(im, s) : j <= k], s)
  BY Zenon DEF SitesTold, SitesWhole, EditorsOf
<1>1. EditorsOf(im, s) \subseteq Nat
  BY DEF EditorsOf, Image
<1>2. CASE EditorsOf(im, s) = {}
  BY <1>2
<1>3. CASE EditorsOf(im, s) # {}
  <2>1. PICK k \in EditorsOf(im, s) : \A j \in EditorsOf(im, s) : j =< k
    BY <1>3, LastEditor
  <2>2. \A i \in EditorsOf(im, s) : (\A j \in EditorsOf(im, s) : j =< i) => i = k
    BY <1>1, <2>1
  <2>3. (CHOOSE i \in EditorsOf(im, s) : \A j \in EditorsOf(im, s) : j <= i) = k
    BY <2>1, <2>2
  <2> QED BY <1>3, <2>1, <2>2, <2>3
<1> QED BY <1>2, <1>3

\* the sites after one more recipe
LEMMA SitesStacked ==
    ASSUME NEW im \in Image, NEW to, NEW d \in EntryOf, SitesTold(im),
           to.did = Append(im.did, d), to.sites = Rewritten(im.sites, d)
    PROVE  SitesTold(to)
<1> DEFINE n == Len(im.did)
<1>1. /\ n \in Nat /\ DOMAIN im.did = 1 .. n /\ DOMAIN to.did = 1 .. n + 1
      /\ \A k \in 1 .. n : to.did[k] = im.did[k]
      /\ to.did[n + 1] = d
  BY OnTop
<1> HIDE DEF n
<1> SUFFICES ASSUME NEW s \in Sites
             PROVE  /\ EditorsOf(to, s) = {} => to.sites[s] = Const(0)
                    /\ \A k \in EditorsOf(to, s) : (\A j \in EditorsOf(to, s) : j =< k) => to.sites[s] = LastWrite(to.did[k], s)
  BY Zenon DEF SitesTold
<1>2. EditorsOf(im, s) \subseteq 1 .. n
  BY <1>1 DEF EditorsOf
<1>3. CASE EditsOf(d, s) = {}
  <2>1. EditorsOf(to, s) = EditorsOf(im, s)
    BY <1>1, <1>3 DEF EditorsOf
  <2>2. to.sites[s] = im.sites[s]
    BY <1>3 DEF Rewritten
  <2>3. \A k \in EditorsOf(im, s) : to.did[k] = im.did[k]
    BY <1>1, <1>2
  <2>4. /\ EditorsOf(im, s) = {} => im.sites[s] = Const(0)
        /\ \A k \in EditorsOf(im, s) : (\A j \in EditorsOf(im, s) : j =< k) => im.sites[s] = LastWrite(im.did[k], s)
    BY Zenon DEF SitesTold
  <2> HIDE DEF EditorsOf
  <2> QED BY <2>1, <2>2, <2>3, <2>4, Zenon
<1>4. CASE EditsOf(d, s) # {}
  <2>1. n + 1 \in EditorsOf(to, s) /\ \A k \in EditorsOf(to, s) : n + 1 =< k => k = n + 1
    BY <1>1, <1>4 DEF EditorsOf
  <2>2. to.sites[s] = LastWrite(to.did[n + 1], s)
    BY <1>1, <1>4 DEF Rewritten
  <2> HIDE DEF EditorsOf
  <2> QED BY <2>1, <2>2
<1> QED BY <1>3, <1>4

ImportsWhole(im) == im.imports = StockImports + Cardinality({k \in DOMAIN im.did : im.did[k].recipe.import})

LEMMA ImportsStacked ==
    ASSUME NEW im \in Image, NEW to, NEW d \in EntryOf, ImportsWhole(im), to.did = Append(im.did, d),
           to.imports = IF d.recipe.import THEN im.imports + 1 ELSE im.imports
    PROVE  ImportsWhole(to)
<1> DEFINE n == Len(im.did)
           had == {k \in DOMAIN im.did : im.did[k].recipe.import}
           has == {k \in DOMAIN to.did : to.did[k].recipe.import}
<1>1. /\ n \in Nat /\ DOMAIN im.did = 1 .. n /\ DOMAIN to.did = 1 .. n + 1
      /\ \A k \in 1 .. n : to.did[k] = im.did[k]
      /\ to.did[n + 1] = d
  BY OnTop
<1>2. IsFiniteSet(had) /\ n + 1 \notin had
  <2>1. had \subseteq 1 .. n /\ n + 1 \notin 1 .. n /\ n \in Int
    BY <1>1
  <2>2. IsFiniteSet(1 .. n)
    BY <2>1, FS_Interval
  <2> HIDE DEF had, n
  <2>3. IsFiniteSet(had)
    BY <2>1, <2>2, FS_Subset, Zenon
  <2> QED BY <2>1, <2>3
<1>3. Cardinality(had) \in Nat /\ Cardinality(had \cup {n + 1}) = Cardinality(had) + 1
  <2> HIDE DEF had
  <2> QED BY <1>2, FS_CardinalityType, FS_AddElement
<1>4. has = IF d.recipe.import THEN had \cup {n + 1} ELSE had
  BY <1>1
<1>5. im.imports = StockImports + Cardinality(had)
  BY DEF ImportsWhole
<1> HIDE DEF had, n
<1>6. to.imports = StockImports + Cardinality(has)
  <2> HIDE DEF has
  <2>1. CASE d.recipe.import
    BY <1>3, <1>4, <1>5, <2>1, AlignmentsOK
  <2>2. CASE ~d.recipe.import
    BY <1>4, <1>5, <2>2
  <2> QED BY <2>1, <2>2
<1> QED BY <1>6 DEF ImportsWhole

RelocsWhole(im) == im.relocs = UNION {AbsSites(im.did[k].recipe, im.did[k].base) : k \in DOMAIN im.did}

LEMMA RelocsStacked ==
    ASSUME NEW im \in Image, NEW to, NEW d \in EntryOf, RelocsWhole(im), to.did = Append(im.did, d),
           to.relocs = im.relocs \cup AbsSites(d.recipe, d.base)
    PROVE  RelocsWhole(to)
<1> DEFINE n == Len(im.did)
           Of(e) == AbsSites(e.recipe, e.base)
<1>1. /\ n \in Nat /\ DOMAIN im.did = 1 .. n /\ DOMAIN to.did = 1 .. n + 1
      /\ \A k \in 1 .. n : to.did[k] = im.did[k]
      /\ to.did[n + 1] = d
  BY OnTop
<1>2. 1 .. n + 1 = 1 .. n \cup {n + 1}
  BY <1>1
<1>3. im.relocs = UNION {Of(im.did[k]) : k \in 1 .. n} /\ to.relocs = im.relocs \cup Of(d)
  BY <1>1 DEF RelocsWhole
<1> HIDE DEF n, Of
<1>4. UNION {Of(to.did[k]) : k \in 1 .. n + 1} = (UNION {Of(im.did[k]) : k \in 1 .. n}) \cup Of(d)
  BY <1>1, <1>2
<1> QED BY <1>1, <1>3, <1>4 DEF RelocsWhole, Of

LEMMA WholeIs == ASSUME NEW im \in Image PROVE Whole(im) <=> SitesTold(im) /\ ImportsWhole(im) /\ RelocsWhole(im)
<1>1. Whole(im) <=> SitesWhole(im) /\ ImportsWhole(im) /\ RelocsWhole(im)
  BY Zenon DEF Whole, SitesWhole, ImportsWhole, RelocsWhole
<1> QED BY <1>1, SitesAgree

LEMMA WholeStacked ==
    ASSUME NEW im \in Image, NEW to \in Image, NEW d \in EntryOf, Whole(im), Stacked(im, to, d),
           to.imports = IF d.recipe.import THEN im.imports + 1 ELSE im.imports
    PROVE  Whole(to)
  BY WholeIs, SitesStacked, ImportsStacked, RelocsStacked DEF Stacked

LEMMA StockWhole == Whole(Stock)
<1>1. Stock \in Image /\ Stock.did = << >> /\ Stock.imports = StockImports /\ Stock.relocs = {}
      /\ Stock.sites = [s \in Sites |-> Const(0)]
  BY StockSound DEF Sound, Typed, Stock
<1>2. SitesTold(Stock)
  BY <1>1 DEF SitesTold, EditorsOf
<1>3. ImportsWhole(Stock)
  <2>1. {k \in DOMAIN Stock.did : Stock.did[k].recipe.import} = {}
    BY <1>1
  <2> QED BY <1>1, <2>1, FS_EmptySet, AlignmentsOK DEF ImportsWhole
<1>4. RelocsWhole(Stock)
  BY <1>1 DEF RelocsWhole
<1> QED BY <1>1, <1>2, <1>3, <1>4, WholeIs

\* an address written to a site stays: no later recipe of the image edits it, since it would have expected a number there
Anchored(im) ==
    \A j \in DOMAIN im.did, s \in Sites : EditsOf(im.did[j], s) # {} /\ LastWrite(im.did[j], s).kind # "const" =>
        \A k \in DOMAIN im.did : k > j => EditsOf(im.did[k], s) = {}

BasesFit(im) == \A k \in DOMAIN im.did : BaseFits(im.did[k].recipe, im.did[k].base)

LEMMA AnchoredStacked ==
    ASSUME NEW im \in Image, NEW to, NEW d \in EntryOf, Whole(im), Anchored(im), Stacked(im, to, d)
    PROVE  Anchored(to)
<1> DEFINE n == Len(im.did)
<1>1. /\ n \in Nat /\ DOMAIN im.did = 1 .. n /\ DOMAIN to.did = 1 .. n + 1
      /\ \A k \in 1 .. n : to.did[k] = im.did[k]
      /\ to.did[n + 1] = d
  BY OnTop DEF Stacked
<1> SUFFICES ASSUME NEW j \in DOMAIN to.did, NEW s \in Sites, EditsOf(to.did[j], s) # {},
                    LastWrite(to.did[j], s).kind # "const", NEW k \in DOMAIN to.did, k > j, EditsOf(to.did[k], s) # {}
             PROVE  FALSE
  BY Zenon DEF Anchored
<1>2. j \in 1 .. n /\ to.did[j] = im.did[j]
  BY <1>1
<1>3. \A i \in DOMAIN im.did : i > j => EditsOf(im.did[i], s) = {}
  BY <1>1, <1>2, Zenon DEF Anchored
<1>4. k = n + 1 /\ EditsOf(d, s) # {}
  <2>1. k \notin 1 .. n
    BY <1>1, <1>3
  <2> QED BY <1>1, <2>1
<1>5. im.sites[s] = LastWrite(im.did[j], s)
  <2>1. j \in EditorsOf(im, s) /\ \A i \in EditorsOf(im, s) : i =< j
    <3>1. j \in Nat /\ \A i \in DOMAIN im.did : i \in Nat
      BY <1>1, <1>2
    <3>2. j \in EditorsOf(im, s)
      BY <1>1, <1>2 DEF EditorsOf
    <3>3. \A i \in EditorsOf(im, s) : i \in Nat /\ ~(i > j)
      BY <1>3, <3>1 DEF EditorsOf
    <3> QED BY <3>1, <3>2, <3>3
  <2>2. SitesTold(im)
    BY WholeIs
  <2> QED BY <2>1, <2>2, Zenon DEF SitesTold
<1>6. PICK i \in DOMAIN d.recipe.edits : d.recipe.edits[i].site = s
  BY <1>4 DEF EditsOf
<1>7. im.sites[s] = Evaluate(d.recipe.edits[i].expect, d.base)
  BY <1>6 DEF Stacked
<1>8. d.recipe.edits[i].expect.kind = "const"
  BY PlainNumbers DEF EntryOf
<1>9. Evaluate(d.recipe.edits[i].expect, d.base).kind = "const"
  BY <1>8 DEF Evaluate, NewBase
<1> QED BY <1>2, <1>5, <1>7, <1>9

\* all that holds of an image, and that a recipe on top of it keeps
Good(im) == Sound(im) /\ Whole(im) /\ BasesFit(im) /\ Anchored(im)

LEMMA StockGood == Good(Stock)
<1>1. Stock.did = << >>
  BY DEF Stock
<1> QED BY <1>1, StockSound, StockWhole DEF Good, BasesFit, Anchored

LEMMA AppliedGood ==
    ASSUME NEW im, Good(im), NEW r \in Recipes, NEW allow \in BOOLEAN, Applied(im, r, allow) # Refused
    PROVE  LET to == Applied(im, r, allow)
           IN  Good(to) /\ \E d \in EntryOf : to.did = Append(im.did, d) /\ d.recipe = r
<1> DEFINE to == Applied(im, r, allow)
<1>1. PICK base \in Value : BaseFits(r, base) /\ Stacked(im, to, Entered(r, base))
  BY AppliedSound DEF Good
<1>2. Sound(to) /\ to.imports = IF r.import THEN im.imports + 1 ELSE im.imports
  BY AppliedSound DEF Good
<1> HIDE DEF to
<1> DEFINE d == Entered(r, base)
<1>3. d \in EntryOf /\ d.recipe = r /\ d.base = base
  BY DEF EntryOf, Entered
<1> HIDE DEF d
<1>4. im \in Image /\ to \in Image /\ Whole(im) /\ Anchored(im) /\ BasesFit(im)
  BY <1>2 DEF Good, Sound, Typed
<1>5. Stacked(im, to, d) /\ to.did = Append(im.did, d)
  BY <1>1 DEF d, Stacked
<1>6. Whole(to) /\ Anchored(to)
  BY <1>2, <1>3, <1>4, <1>5, WholeStacked, AnchoredStacked
<1>7. BasesFit(to)
  <2>1. \A k \in DOMAIN to.did : (k \in DOMAIN im.did /\ to.did[k] = im.did[k]) \/ to.did[k] = d
    <3> DEFINE n == Len(im.did)
    <3>1. n \in Nat /\ DOMAIN im.did = 1 .. n /\ DOMAIN to.did = 1 .. n + 1 /\ \A k \in 1 .. n : to.did[k] = im.did[k]
      BY <1>3, <1>4, <1>5, OnTop
    <3>2. to.did[n + 1] = d
      BY <1>3, <1>4, <1>5, OnTop
    <3> QED BY <3>1, <3>2
  <2> QED BY <2>1, <1>1, <1>3, <1>4 DEF BasesFit
<1> QED BY <1>2, <1>3, <1>5, <1>6, <1>7 DEF Good, to

\* Verified at the region the directory gives, a recipe holds at the one it was given: if it wrote that address anywhere,
\* nobody came after it, so the directory gives the same.
LEMMA VerifiedHolds ==
    ASSUME NEW im, Good(im), NEW m \in DOMAIN im.did, Verified(im, im.did[m].recipe)
    PROVE  HoldsAt(im, im.did[m].recipe, im.did[m].base)
<1> DEFINE d == im.did[m]
           r == d.recipe
<1>1. im \in Image /\ d \in EntryOf /\ r \in Recipes /\ m \in Nat
  <2>1. im \in Image
    BY DEF Good, Sound, Typed
  <2>2. im.did \in Seq(EntryOf)
    BY <2>1 DEF Image, EntryOf
  <2>3. m \in Nat /\ d \in EntryOf
    BY <2>2
  <2> QED BY <2>1, <2>3 DEF EntryOf
<1>2. BaseFits(r, d.base)
  BY DEF Good, BasesFit
<1>3. CASE ~HasRegion(r)
  BY <1>2, <1>3 DEF BaseFits, Verified
<1>4. CASE HasRegion(r)
  <2>1. PICK e \in Lookup(im, r.label) : HoldsAt(im, r, BaseOf(e))
    BY <1>4 DEF Verified
  <2> DEFINE there == BaseOf(e)
  <2>2. there.kind # "const"
    BY DEF BaseOf, ArenaOf, Addr
  <2>3. AbsSites(r, d.base) \subseteq im.relocs
    <3>1. RelocsWhole(im)
      BY <1>1, WholeIs DEF Good
    <3> QED BY <3>1 DEF RelocsWhole
  <2>4. \A i \in DOMAIN r.edits : EditOK(im, r.edits[i], r.edits[i].write, there)
    BY <2>1 DEF HoldsAt
  <2> HIDE DEF there
  <2>5. CASE \A i \in DOMAIN r.edits : r.edits[i].write # NewBase
    BY <2>3, <2>4, <2>5 DEF HoldsAt, EditOK, Evaluate
  <2>6. CASE \E i \in DOMAIN r.edits : r.edits[i].write = NewBase
    <3>1. PICK i \in DOMAIN r.edits : r.edits[i].write = NewBase
      BY <2>6
    <3> DEFINE s == r.edits[i].site
    <3>2. s \in Sites /\ im.sites[s] = there
      <4>1. r.edits \in Seq(EditT)
        BY <1>1, RunConstantsOK DEF RecipeT
      <4>2. s \in Sites
        <5>1. r.edits[i] \in EditT
          BY <4>1
        <5> QED BY <5>1 DEF EditT
      <4> HIDE DEF r
      <4>3. im.sites[s] = Evaluate(r.edits[i].write, there)
        BY <2>4 DEF EditOK
      <4> QED BY <4>2, <4>3, <3>1 DEF Evaluate
    <3>3. PICK l \in EditsOf(d, s) : \A j \in EditsOf(d, s) : j =< l
      <4>1. Len(r.edits) \in Nat /\ DOMAIN r.edits = 1 .. Len(r.edits)
        BY <1>1, RunConstantsOK DEF RecipeT
      <4>2. i \in EditsOf(d, s)
        BY DEF EditsOf
      <4>3. EditsOf(d, s) \subseteq Nat /\ \A j \in EditsOf(d, s) : j =< Len(r.edits)
        BY <4>1 DEF EditsOf
      <4> QED BY <4>1, <4>2, <4>3, LastNumber, Zenon
    <3>4. (CHOOSE k \in EditsOf(d, s) : \A j \in EditsOf(d, s) : j <= k) = l
      <4>1. EditsOf(d, s) \subseteq Nat
        BY <1>1, RunConstantsOK DEF EditsOf, RecipeT
      <4>2. \A k \in EditsOf(d, s) : (\A j \in EditsOf(d, s) : j <= k) => k = l
        BY <3>3, <4>1
      <4> QED BY <3>3, <4>2
    <3>5. r.edits[l].site = s /\ l \in DOMAIN r.edits
      BY <3>3 DEF EditsOf
    <3>6. LastWrite(d, s) = Evaluate(r.edits[l].write, d.base)
      BY <3>4 DEF LastWrite
    <3> HIDE DEF s
    <3>7. r.edits[l].write = NewBase
      <4>1. Evaluate(r.edits[l].write, there) = there /\ r.edits[l].write # TooWide
        BY <2>4, <3>2, <3>5 DEF EditOK
      <4>2. r.edits[l].write \in {NewBase, TooWide} \/ r.edits[l].write.kind = "const"
        BY <1>1, <3>5, PlainNumbers
      <4> QED BY <2>2, <4>1, <4>2 DEF Evaluate
    <3>8. LastWrite(d, s) = d.base /\ d.base.kind # "const"
      BY <1>2, <1>4, <3>6, <3>7 DEF Evaluate, BaseFits
    <3>9. EditsOf(d, s) # {}
      BY <3>3
    <3> HIDE DEF d
    <3>10. m \in EditorsOf(im, s) /\ \A k \in EditorsOf(im, s) : k =< m
      <4>1. \A k \in DOMAIN im.did : k > m => EditsOf(im.did[k], s) = {}
        BY <3>2, <3>8, <3>9 DEF Good, Anchored, d
      <4>2. DOMAIN im.did = 1 .. Len(im.did) /\ Len(im.did) \in Nat
        BY <1>1 DEF Image
      <4>3. \A k \in EditorsOf(im, s) : k \in Nat /\ ~(k > m)
        <5>1. \A k \in EditorsOf(im, s) : k \in DOMAIN im.did /\ EditsOf(im.did[k], s) # {}
          BY DEF EditorsOf
        <5> HIDE DEF EditorsOf
        <5>2. \A k \in EditorsOf(im, s) : ~(k > m)
          BY <4>1, <5>1, Zenon
        <5>3. \A k \in DOMAIN im.did : k \in Nat
          BY <4>2
        <5> QED BY <5>1, <5>2, <5>3
      <4>4. m \in EditorsOf(im, s)
        BY <3>9 DEF EditorsOf, d
      <4> QED BY <1>1, <4>3, <4>4
    <3>11. im.sites[s] = LastWrite(d, s)
      BY <1>1, <3>2, <3>10, WholeIs DEF Good, SitesTold, d
    <3>12. d.base = there
      BY <3>2, <3>8, <3>11
    <3> QED BY <2>1, <3>12 DEF there, d
  <2> QED BY <2>5, <2>6
<1> QED BY <1>3, <1>4

-----------------------------------------------------------------------------
(***************************************************************************)
(* The invariant of the runs.                                              *)
(***************************************************************************)
AllGood == \A im \in Images : Good(im)

\* a build works on a recipe of its chain
NextOK == pc \in {"chain", "verify"} => next \in DOMAIN chain

RunInv == PatchTypeOK /\ NextOK /\ AllGood

\* every image there is after a step was there before it, or is a good one the step made
LEMMA StepGood ==
    ASSUME RunInv, PatchTypeOK', NextOK', \A im \in Images' : im \in Images \/ Good(im)
    PROVE  RunInv'
<1>1. \A im \in Images' : Good(im)
  BY DEF RunInv, AllGood
<1> QED
  BY <1>1 DEF RunInv, AllGood

\* an image is told from a file that is none
LEMMA ImageIs == ASSUME NEW im, im \in Image PROVE IsImage(im)
  BY NoneIsAnImage DEF IsImage

LEMMA GoneOK ==
    ASSUME RunInv, Gone
    PROVE  /\ mode' = "none" /\ pc' = "idle" /\ exe' \in Paths /\ out' \in Paths
           /\ img' \in Image /\ Good(img') /\ chain' \in Seq(Recipes)
           /\ next' \in Nat \ {0} /\ bad' \in Nat /\ held' = FALSE /\ NextOK'
  BY StockGood, RunConstantsOK DEF Gone, Good, Sound, Typed, NextOK

LEMMA InitInv == PatchInit => RunInv
<1> SUFFICES ASSUME PatchInit PROVE RunInv
  OBVIOUS
<1>1. Stock \in Image /\ Good(Stock)
  BY StockGood DEF Good, Sound, Typed
<1>2. PatchTypeOK
  <2>1. files \in [Paths -> Image \union {Absent, Torn, Cut}] /\ made \in [Paths -> {"given", "killed", "checked", "waived"}]
    BY <1>1, Zenon DEF PatchInit
  <2>2. img \in Image \union {Cut} /\ chain \in Seq(Recipes) /\ sure \in [Paths -> Nat]
    BY <1>1 DEF PatchInit
  <2>3. /\ mode = "none" /\ pc = "idle" /\ exe \in Paths /\ out \in Paths /\ held = FALSE
        /\ next \in Nat \ {0} /\ bad \in Nat
    BY RunConstantsOK DEF PatchInit
  <2> QED BY <2>1, <2>2, <2>3 DEF PatchTypeOK
<1>3. \A im \in Images : im = Stock
  BY DEF PatchInit, Images, IsImage
<1> QED
  BY <1>1, <1>2, <1>3 DEF RunInv, AllGood, NextOK, PatchInit

LEMMA GoodTyped == ASSUME NEW im, Good(im) PROVE im \in Image
  BY DEF Good, Sound, Typed

\* what the run works on
LEMMA InMemory == ASSUME RunInv PROVE img = Cut \/ Good(img)
<1>1. img = Cut \/ img \in Image
  BY DEF RunInv, PatchTypeOK
<1>2. img # Cut => img \in Images
  BY <1>1, ImageIs DEF Images
<1> QED BY <1>2 DEF RunInv, AllGood

\* what a recipe makes of a good image is good; of a cut file it makes another
LEMMA OutcomeGood ==
    ASSUME NEW im, im = Cut \/ Good(im), NEW r \in Recipes, NEW allow \in BOOLEAN,
           NEW res \in Outcomes(im, r, allow), res # Refused
    PROVE  res = Cut \/ Good(res)
<1>1. CASE im # Cut
  BY <1>1, AppliedGood DEF Outcomes
<1>2. CASE im = Cut
  BY <1>2 DEF Outcomes
<1> QED BY <1>1, <1>2

LEMMA StartApplyInv ==
    ASSUME RunInv, NEW e \in Paths, NEW o \in Outs, NEW r \in Recipes, NEW allow \in BOOLEAN,
           StartApply(e, o, r, allow)
    PROVE  RunInv'
<1>1. PICK res \in Outcomes(files[e], r, allow) \ {Refused} :
        Start("apply", "open", e, o, res, <<r>>, r.pinned /\ ~allow)
  BY Zenon DEF StartApply
<1>2. files[e] = Cut \/ Good(files[e])
  BY DEF StartApply, Readable, RunInv, AllGood, Images, IsImage
<1>3. res = Cut \/ Good(res)
  BY <1>1, <1>2, OutcomeGood
<1>4. img' = res /\ files' = files /\ pc' = "open"
  BY <1>1 DEF Start, onDisk
<1>5. PatchTypeOK'
  <2>1. (r.pinned /\ ~allow) \in BOOLEAN /\ <<r>> \in Seq(Recipes)
    OBVIOUS
  <2> QED BY <1>1, <1>3, <2>1, GoodTyped, RunConstantsOK DEF RunInv, PatchTypeOK, Start, onDisk
<1>6. \A im \in Images' : im \in Images \/ Good(im)
  BY <1>3, <1>4 DEF Images, IsImage
<1>7. NextOK'
  BY <1>4 DEF NextOK
<1> QED
  BY <1>5, <1>6, <1>7, StepGood

LEMMA StartBuildInv ==
    ASSUME RunInv, NEW e \in Paths, NEW o \in Outs, NEW c \in Chains, StartBuild(e, o, c)
    PROVE  RunInv'
<1>1. files[e] \notin {Absent, Torn} /\ img' = files[e] /\ files' = files
  BY DEF StartBuild, Start, Readable, onDisk
<1>2. files[e] = Cut \/ Good(files[e])
  BY <1>1 DEF RunInv, AllGood, Images, IsImage
<1>3. c \in Seq(Recipes) /\ 1 \in DOMAIN c
  BY RunConstantsOK DEF Chains
<1>4. c[1].pinned \in BOOLEAN
  <2>1. c[1] \in RecipeT
    BY <1>3, RunConstantsOK
  <2> QED BY <2>1 DEF RecipeT
<1>5. PatchTypeOK'
  BY <1>1, <1>2, <1>3, <1>4, GoodTyped, RunConstantsOK DEF RunInv, PatchTypeOK, StartBuild, Start, onDisk
<1>6. \A im \in Images' : im \in Images \/ Good(im)
  BY <1>1, <1>2 DEF Images, IsImage
<1>7. NextOK'
  BY <1>3 DEF StartBuild, Start, NextOK
<1> QED
  BY <1>5, <1>6, <1>7, StepGood

LEMMA ApplyNextInv == ASSUME RunInv, ApplyNext PROVE RunInv'
<1>1. PICK res \in Outcomes(img, chain[next], next > 1) : Chained(res)
  BY DEF ApplyNext
<1>2. next \in DOMAIN chain /\ chain \in Seq(Recipes) /\ next \in Nat \ {0}
      /\ files' = files /\ sure' = sure /\ made' = made /\ (img = Cut \/ Good(img))
  BY InMemory DEF RunInv, PatchTypeOK, NextOK, ApplyNext, onDisk
<1>3. CASE res = Refused
  <2>1. Gone
    BY <1>1, <1>3 DEF Chained
  <2>2. PatchTypeOK'
    BY <1>2, <2>1, GoneOK DEF RunInv, PatchTypeOK
  <2>3. \A im \in Images' : im \in Images \/ Good(im)
    BY <1>2, <2>1, GoneOK DEF Images
  <2> QED
    BY <2>1, <2>2, <2>3, GoneOK, StepGood
<1>4. CASE res # Refused
  <2>1. res = Cut \/ Good(res)
    <3>1. chain[next] \in Recipes /\ (next > 1) \in BOOLEAN
      BY <1>2
    <3> QED
      BY <1>1, <1>2, <1>4, <3>1, OutcomeGood
  <2>2. /\ img' = res /\ chain' = chain /\ mode' = mode /\ exe' = exe /\ out' = out /\ bad' = bad /\ held' = held
        /\ \/ next < Len(chain) /\ next' = next + 1 /\ pc' = pc
           \/ next' = 1 /\ pc' = "verify"
    BY <1>1, <1>4 DEF Chained
  <2>3. PatchTypeOK'
    BY <1>2, <2>1, <2>2, GoodTyped DEF RunInv, PatchTypeOK
  <2>4. NextOK'
    BY <1>2, <2>2 DEF NextOK
  <2>5. \A im \in Images' : im \in Images \/ Good(im)
    BY <1>2, <2>1, <2>2 DEF Images, IsImage
  <2> QED
    BY <2>3, <2>4, <2>5, StepGood
<1> QED
  BY <1>3, <1>4

\* the verdict on one recipe, and what the loop makes of it
LEMMA VerdictIs ==
    ASSUME RunInv, VerifyNext
    PROVE  \E ok \in BOOLEAN :
             /\ ok \in Verdicts(img, chain[next])
             /\ Verifying(bad + (IF ok THEN 0 ELSE 1))
<1>1. PICK ok \in Verdicts(img, chain[next]) : Verifying(bad + (IF ok THEN 0 ELSE 1))
  BY DEF VerifyNext
<1>2. ok \in BOOLEAN
  <2>1. Verified(img, chain[next]) \in BOOLEAN
    BY DEF Verified, HoldsAt
  <2> QED BY <2>1 DEF Verdicts
<1> QED BY <1>1, <1>2

LEMMA VerifyNextInv == ASSUME RunInv, VerifyNext PROVE RunInv'
<1>1. PICK ok \in BOOLEAN : Verifying(bad + (IF ok THEN 0 ELSE 1))
  BY VerdictIs
<1> DEFINE now == bad + (IF ok THEN 0 ELSE 1)
<1>2. next \in DOMAIN chain /\ chain \in Seq(Recipes) /\ next \in Nat \ {0} /\ bad \in Nat
      /\ files' = files /\ sure' = sure /\ made' = made
  BY DEF RunInv, PatchTypeOK, NextOK, VerifyNext, onDisk
<1>3. now \in Nat
  BY <1>2
<1> HIDE DEF now
<1>4. Verifying(now)
  BY <1>1 DEF now
<1>5. CASE next = Len(chain) /\ now > 0
  <2>1. Gone
    BY <1>4, <1>5 DEF Verifying
  <2>2. PatchTypeOK'
    BY <1>2, <2>1, GoneOK DEF RunInv, PatchTypeOK
  <2>3. \A im \in Images' : im \in Images \/ Good(im)
    BY <1>2, <2>1, GoneOK DEF Images
  <2> QED
    BY <2>1, <2>2, <2>3, GoneOK, StepGood
<1>6. CASE ~(next = Len(chain) /\ now > 0)
  <2>1. /\ img' = img /\ chain' = chain /\ mode' = mode /\ exe' = exe /\ out' = out /\ bad' = now /\ held' = held
        /\ \/ next < Len(chain) /\ next' = next + 1 /\ pc' = pc
           \/ next' = next /\ pc' = "open"
    BY <1>4, <1>6 DEF Verifying
  <2>2. PatchTypeOK'
    BY <1>2, <1>3, <2>1 DEF RunInv, PatchTypeOK
  <2>3. NextOK'
    BY <1>2, <2>1 DEF NextOK
  <2>4. \A im \in Images' : im \in Images \/ Good(im)
    BY <1>2, <2>1 DEF Images
  <2> QED
    BY <2>2, <2>3, <2>4, StepGood
<1> QED
  BY <1>5, <1>6

LEMMA OpenOutInv == ASSUME RunInv, OpenOut PROVE RunInv'
<1>1. PatchTypeOK'
  BY DEF RunInv, PatchTypeOK, OpenOut
<1>2. NextOK'
  BY DEF OpenOut, NextOK
<1>3. \A im \in Images' : im \in Images \/ Good(im)
  BY DEF RunInv, PatchTypeOK, OpenOut, Images, IsImage
<1> QED
  BY <1>1, <1>2, <1>3, StepGood

LEMMA WriteSomeInv == ASSUME RunInv, WriteSome PROVE RunInv'
<1>1. PatchTypeOK'
  BY DEF RunInv, PatchTypeOK, WriteSome
<1>2. NextOK'
  BY DEF WriteSome, NextOK
<1>3. \A im \in Images' : im \in Images \/ Good(im)
  BY DEF RunInv, PatchTypeOK, WriteSome, Images, IsImage
<1> QED
  BY <1>1, <1>2, <1>3, StepGood

LEMMA WriteOutInv == ASSUME RunInv, WriteOut PROVE RunInv'
<1>1. Gone /\ files' = [files EXCEPT ![out] = img]
      /\ sure' = [sure EXCEPT ![out] = IF mode = "build" THEN Len(chain) ELSE 0]
      /\ made' = [made EXCEPT ![out] = IF held THEN "checked" ELSE "waived"]
  BY DEF WriteOut
<1>2. PatchTypeOK'
  <2>1. Len(chain) \in Nat
    BY DEF RunInv, PatchTypeOK
  <2>2. files' \in [Paths -> Image \union {Absent, Torn, Cut}] /\ sure' \in [Paths -> Nat]
        /\ made' \in [Paths -> {"given", "killed", "checked", "waived"}]
    BY <1>1, <2>1 DEF RunInv, PatchTypeOK
  <2> QED
    BY <1>1, <2>2, GoneOK DEF PatchTypeOK
<1>3. \A im \in Images' : im \in Images \/ Good(im)
  BY <1>1, GoneOK DEF RunInv, PatchTypeOK, Images
<1> QED
  BY <1>1, <1>2, <1>3, GoneOK, StepGood

LEMMA KillInv == ASSUME RunInv, Kill PROVE RunInv'
<1>1. Gone /\ files' = files /\ sure' = sure /\ made' = made
  BY DEF Kill, onDisk
<1>2. PatchTypeOK'
  BY <1>1, GoneOK DEF RunInv, PatchTypeOK
<1>3. \A im \in Images' : im \in Images \/ Good(im)
  BY <1>1, GoneOK DEF Images
<1> QED
  BY <1>1, <1>2, <1>3, GoneOK, StepGood

LEMMA StepInv == RunInv /\ [PatchNext]_patchVars => RunInv'
<1> SUFFICES ASSUME RunInv, [PatchNext]_patchVars PROVE RunInv'
  OBVIOUS
<1>1. CASE UNCHANGED patchVars
  <2>1. PatchTypeOK' /\ NextOK'
    BY <1>1 DEF patchVars, onDisk, RunInv, PatchTypeOK, NextOK
  <2>2. Images' = Images
    BY <1>1 DEF patchVars, onDisk, Images
  <2> QED
    BY <2>1, <2>2, StepGood
<1>2. CASE PatchNext
  BY <1>2, StartApplyInv, StartBuildInv, ApplyNextInv, VerifyNextInv, OpenOutInv, WriteSomeInv, WriteOutInv,
     KillInv DEF PatchNext
<1> QED
  BY <1>1, <1>2

-----------------------------------------------------------------------------
\* The inductive invariant holds in every reachable state.
THEOREM PatchInvariant == PatchSpec => []RunInv
<1>1. PatchInit => RunInv
  BY InitInv
<1>2. RunInv /\ [PatchNext]_patchVars => RunInv'
  BY StepInv
<1> QED
  BY <1>1, <1>2, PTL DEF PatchSpec

\* Every image has the declared shape: no mark, size or tail of an image is ever negative, and
\* every recipe index a build uses is one of its chain.
THEOREM PatchTypes == PatchSpec => []PatchTypeOK
<1>1. RunInv => PatchTypeOK
  BY DEF RunInv
<1> QED
  BY <1>1, PatchInvariant, PTL

\* Whatever recipes are stacked, in whatever order and number of apply.py and build.py runs, the
\* regions of an image are aligned, inside their arena and pairwise disjoint.
THEOREM RegionsDisjoint == PatchSpec => []RegionsNeverOverlap
<1>1. RunInv => RegionsNeverOverlap
  BY DEF RunInv, AllGood, Good, Sound, RegionsNeverOverlap
<1> QED
  BY <1>1, PatchInvariant, PTL

\* The arena directory always answers with the latest region of a name.
THEOREM DirectoryIsCurrent == PatchSpec => []DirectoryTellsTheTruth
<1>1. RunInv => DirectoryTellsTheTruth
  BY DEF RunInv, AllGood, Good, Sound, DirectoryTellsTheTruth
<1> QED
  BY <1>1, PatchInvariant, PTL

(***************************************************************************)
(* Files that lack their end.  A run that is held to the hash starts from  *)
(* the stock image, so it never works on one.                              *)
(***************************************************************************)
CutInv ==
    /\ pc = "chain" /\ held => chain[1].pinned /\ (next = 1 \/ img # Cut)
    /\ pc \in {"verify", "open", "write", "rest"} /\ held => img # Cut
    /\ pc = "write" => made[out] = "killed"
    /\ \A p \in Paths : made[p] = "checked" => files[p] # Cut

\* a recipe held to its hash makes an image, and an image stays one
LEMMA OutcomeKnown ==
    ASSUME NEW im, im = Cut \/ Good(im), NEW r \in Recipes, NEW allow \in BOOLEAN,
           NEW res \in Outcomes(im, r, allow), res # Refused, im # Cut \/ (r.pinned /\ ~allow)
    PROVE  res # Cut
<1>1. im # Cut
  BY DEF Outcomes
<1>2. Good(res)
  BY <1>1, AppliedGood DEF Outcomes
<1> QED BY <1>2, GoodTyped, NoneIsAnImage

LEMMA CutInit == PatchInit => CutInv
  BY DEF PatchInit, CutInv

LEMMA CutStep == RunInv /\ CutInv /\ [PatchNext]_patchVars => CutInv'
<1> SUFFICES ASSUME RunInv, CutInv, [PatchNext]_patchVars PROVE CutInv'
  OBVIOUS
<1>1. ASSUME NEW e \in Paths, NEW o \in Outs, NEW r \in Recipes, NEW allow \in BOOLEAN, StartApply(e, o, r, allow)
      PROVE  CutInv'
  <2>1. PICK res \in Outcomes(files[e], r, allow) \ {Refused} :
          Start("apply", "open", e, o, res, <<r>>, r.pinned /\ ~allow)
    BY <1>1, Zenon DEF StartApply
  <2>2. files[e] = Cut \/ Good(files[e])
    BY <1>1 DEF StartApply, Readable, RunInv, AllGood, Images, IsImage
  <2>3. r.pinned /\ ~allow => res # Cut
    BY <2>1, <2>2, OutcomeKnown
  <2>4. img' = res /\ held' = (r.pinned /\ ~allow) /\ pc' = "open" /\ files' = files /\ made' = made
    BY <2>1 DEF Start, onDisk
  <2> QED BY <2>3, <2>4 DEF CutInv
<1>2. ASSUME NEW e \in Paths, NEW o \in Outs, NEW c \in Chains, StartBuild(e, o, c) PROVE CutInv'
  <2>1. held' = c[1].pinned /\ chain' = c /\ next' = 1 /\ pc' = "chain" /\ files' = files /\ made' = made
    BY <1>2 DEF StartBuild, Start, onDisk
  <2> QED BY <2>1 DEF CutInv
<1>3. ASSUME Gone, files' = files, made' = made PROVE CutInv'
  BY <1>3 DEF Gone, CutInv
<1>4. CASE ApplyNext
  <2>1. PICK res \in Outcomes(img, chain[next], next > 1) : Chained(res)
    BY <1>4 DEF ApplyNext
  <2>2. pc = "chain" /\ files' = files /\ made' = made
    BY <1>4 DEF ApplyNext, onDisk
  <2>3. CASE res = Refused
    BY <1>3, <2>1, <2>2, <2>3 DEF Chained
  <2>4. CASE res # Refused
    <3>1. /\ img' = res /\ chain' = chain /\ held' = held
          /\ pc' \in {"chain", "verify"} /\ next' \in {next + 1, 1}
      BY <2>1, <2>2, <2>4 DEF Chained
    <3>2. /\ next \in DOMAIN chain /\ chain \in Seq(Recipes) /\ next \in Nat \ {0} /\ (img = Cut \/ Good(img))
      BY <2>2, InMemory DEF RunInv, PatchTypeOK, NextOK
    <3>3. held => img # Cut \/ (chain[next].pinned /\ ~(next > 1))
      BY <2>2, <3>2 DEF CutInv
    <3>4. held => res # Cut
      <4>1. chain[next] \in Recipes /\ (next > 1) \in BOOLEAN
        BY <3>2
      <4> QED BY <2>1, <2>4, <3>2, <3>3, <4>1, OutcomeKnown
    <3> QED BY <2>2, <3>1, <3>4 DEF CutInv
  <2> QED BY <2>3, <2>4
<1>5. CASE VerifyNext
  <2>1. PICK ok \in BOOLEAN : Verifying(bad + (IF ok THEN 0 ELSE 1))
    BY <1>5, VerdictIs
  <2> DEFINE now == bad + (IF ok THEN 0 ELSE 1)
  <2> HIDE DEF now
  <2>2. Verifying(now)
    BY <2>1 DEF now
  <2>3. pc = "verify" /\ files' = files /\ made' = made
    BY <1>5 DEF VerifyNext, onDisk
  <2>4. Gone \/ (img' = img /\ held' = held /\ pc' \in {"verify", "open"})
    BY <2>2, <2>3 DEF Verifying
  <2> QED BY <1>3, <2>3, <2>4 DEF CutInv
<1>6. CASE OpenOut
  BY <1>6 DEF OpenOut, RunInv, PatchTypeOK, CutInv
<1>7. CASE WriteSome
  BY <1>7 DEF WriteSome, RunInv, PatchTypeOK, CutInv
<1>8. CASE WriteOut
  <2>1. /\ pc = "rest" /\ pc' = "idle" /\ files' = [files EXCEPT ![out] = img]
        /\ made' = [made EXCEPT ![out] = IF held THEN "checked" ELSE "waived"]
    BY <1>8 DEF WriteOut, Gone
  <2> QED BY <2>1 DEF RunInv, PatchTypeOK, CutInv
<1>9. CASE Kill
  BY <1>3, <1>9 DEF Kill, onDisk
<1>10. CASE UNCHANGED patchVars
  BY <1>10 DEF patchVars, onDisk, CutInv
<1> QED
  BY <1>1, <1>2, <1>4, <1>5, <1>6, <1>7, <1>8, <1>9, <1>10 DEF PatchNext

\* All or nothing: whatever was stacked and wherever a process was killed, an image a run reads, holds or has finished consists
\* of whole recipes; a file that a kill left without its end gets into a finished result only past a waived hash.
THEOREM WholeRecipes == PatchSpec => []AllOrNothing
<1>1. RunInv /\ CutInv => AllOrNothing
  BY DEF RunInv, CutInv, AllGood, Good, AllOrNothing
<1> QED
  BY <1>1, PatchInvariant, CutInit, CutStep, PTL DEF PatchSpec

-----------------------------------------------------------------------------
(***************************************************************************)
(* How far a build has come.                                               *)
(***************************************************************************)

\* the last n recipes of the image are the first n of the chain
Tops(n) == img # Cut =>
    /\ n \in 0 .. Len(chain) /\ n =< Len(img.did)
    /\ \A i \in 1 .. n : img.did[Len(img.did) - n + i].recipe = chain[i]

AllVerified(n) == img # Cut => \A i \in 1 .. n : Verified(img, chain[i])

BuildInv ==
    /\ pc = "chain" => mode = "build" /\ Tops(next - 1)
    /\ pc = "verify" => mode = "build" /\ Tops(Len(chain)) /\ (bad = 0 => AllVerified(next - 1))
    /\ pc \in {"open", "write", "rest"} /\ mode = "build" => Tops(Len(chain)) /\ AllVerified(Len(chain))
    /\ BuildHolds

\* what was on disk holds as long as it stays
LEMMA Undisturbed ==
    ASSUME BuildHolds, files' = files, sure' = sure PROVE BuildHolds'
  BY DEF BuildHolds, IsImage

LEMMA BuildInit == PatchInit => BuildInv
<1> SUFFICES ASSUME PatchInit PROVE BuildInv
  OBVIOUS
<1>1. pc = "idle"
  BY DEF PatchInit
<1>2. BuildHolds
  <2> SUFFICES ASSUME NEW p \in Paths, IsImage(files[p]), NEW k \in DOMAIN files[p].did,
                      k > Len(files[p].did) - sure[p]
               PROVE  FALSE
    BY DEF BuildHolds
  <2>1. files[p].did = << >>
    BY DEF PatchInit, Stock, IsImage
  <2> QED BY <2>1
<1> QED BY <1>1, <1>2 DEF BuildInv

LEMMA BuildApplyNext == ASSUME RunInv, BuildInv, ApplyNext PROVE BuildInv'
<1>1. /\ (img = Cut \/ Good(img)) /\ next \in DOMAIN chain /\ chain \in Seq(Recipes) /\ next \in Nat \ {0}
      /\ files' = files /\ sure' = sure /\ pc = "chain" /\ mode = "build" /\ Tops(next - 1)
  BY InMemory DEF RunInv, PatchTypeOK, NextOK, ApplyNext, BuildInv, onDisk
<1>2. BuildHolds'
  BY <1>1, Undisturbed DEF BuildInv
<1>3. PICK res \in Outcomes(img, chain[next], next > 1) : Chained(res)
  BY DEF ApplyNext
<1>4. CASE res = Refused
  <2>1. pc' = "idle"
    BY <1>3, <1>4 DEF Chained, Gone
  <2> QED BY <1>2, <2>1 DEF BuildInv
<1>5. CASE res # Refused
  <2>1. /\ img' = res /\ chain' = chain /\ mode' = mode /\ bad' = bad
        /\ \/ next < Len(chain) /\ next' = next + 1 /\ pc' = pc
           \/ ~(next < Len(chain)) /\ next' = 1 /\ pc' = "verify"
    BY <1>3, <1>5 DEF Chained
  <2>2. Len(chain) \in Nat /\ next \in 1 .. Len(chain)
    BY <1>1
  <2>3. img' # Cut => /\ next =< Len(img'.did)
                      /\ \A i \in 1 .. next : img'.did[Len(img'.did) - next + i].recipe = chain[i]
    <3> SUFFICES ASSUME img' # Cut
                 PROVE  /\ next =< Len(img'.did)
                        /\ \A i \in 1 .. next : img'.did[Len(img'.did) - next + i].recipe = chain[i]
      OBVIOUS
    <3>1. img # Cut /\ res = Applied(img, chain[next], next > 1)
      BY <1>3, <1>5, <2>1 DEF Outcomes
    <3>2. Good(img) /\ img \in Image /\ chain[next] \in Recipes /\ (next > 1) \in BOOLEAN
      BY <1>1, <3>1, GoodTyped
    <3>3. PICK d \in EntryOf : res.did = Append(img.did, d) /\ d.recipe = chain[next]
      BY <1>5, <3>1, <3>2, AppliedGood
    <3> DEFINE n == Len(img.did)
    <3>4. /\ n \in Nat /\ Len(img'.did) = n + 1
          /\ \A k \in 1 .. n : img'.did[k] = img.did[k]
          /\ img'.did[n + 1] = d
      BY <2>1, <3>2, <3>3, OnTop
    <3>5. next - 1 =< n /\ \A i \in 1 .. next - 1 : img.did[n - (next - 1) + i].recipe = chain[i]
      BY <1>1, <3>1 DEF Tops
    <3> HIDE DEF n
    <3>6. next =< n + 1
      BY <2>2, <3>4, <3>5
    <3>7. ASSUME NEW i \in 1 .. next PROVE img'.did[(n + 1) - next + i].recipe = chain[i]
      <4>1. CASE i = next
        <5>1. n + 1 - next + i = n + 1
          BY <2>2, <3>4, <4>1
        <5> QED BY <3>3, <3>4, <4>1, <5>1
      <4>2. CASE i # next
        <5>1. i \in 1 .. next - 1 /\ (n + 1) - next + i = n - (next - 1) + i /\ n - (next - 1) + i \in 1 .. n
          BY <2>2, <3>4, <3>5, <4>2
        <5>2. img'.did[n - (next - 1) + i] = img.did[n - (next - 1) + i]
          BY <3>4, <5>1
        <5>3. img.did[n - (next - 1) + i].recipe = chain[i]
          BY <3>5, <5>1
        <5> QED BY <5>1, <5>2, <5>3, Zenon
      <4> QED BY <4>1, <4>2
    <3>8. Len(img'.did) = n + 1
      BY <3>4
    <3> HIDE <3>4
    <3> QED BY <3>6, <3>7, <3>8, Zenon
  <2>4. CASE next < Len(chain) /\ next' = next + 1 /\ pc' = pc
    <3>1. next' - 1 = next
      BY <2>2, <2>4
    <3>2. img' # Cut => /\ next \in 0 .. Len(chain') /\ next =< Len(img'.did)
                        /\ \A i \in 1 .. next : img'.did[Len(img'.did) - next + i].recipe = chain'[i]
      BY <2>1, <2>2, <2>3
    <3>3. Tops(next - 1)'
      BY <3>1, <3>2, Zenon DEF Tops
    <3> QED BY <1>1, <1>2, <2>1, <2>4, <3>3 DEF BuildInv
  <2>5. CASE ~(next < Len(chain)) /\ next' = 1 /\ pc' = "verify"
    <3>1. next = Len(chain)
      BY <2>2, <2>5
    <3>2. Tops(Len(chain))'
      BY <2>1, <2>2, <2>3, <3>1 DEF Tops
    <3>3. AllVerified(next - 1)'
      BY <2>5 DEF AllVerified
    <3> QED BY <1>1, <1>2, <2>1, <2>5, <3>2, <3>3 DEF BuildInv
  <2> QED BY <2>1, <2>4, <2>5
<1> QED BY <1>4, <1>5

LEMMA BuildVerifyNext == ASSUME RunInv, BuildInv, VerifyNext PROVE BuildInv'
<1>1. PICK ok \in BOOLEAN : ok \in Verdicts(img, chain[next]) /\ Verifying(bad + (IF ok THEN 0 ELSE 1))
  BY VerdictIs
<1> DEFINE fails == IF ok THEN 0 ELSE 1
           now == bad + fails
<1>2. /\ next \in DOMAIN chain /\ chain \in Seq(Recipes) /\ next \in Nat \ {0} /\ bad \in Nat /\ pc = "verify"
      /\ files' = files /\ sure' = sure /\ mode = "build" /\ Tops(Len(chain)) /\ (bad = 0 => AllVerified(next - 1))
  BY DEF RunInv, PatchTypeOK, NextOK, VerifyNext, BuildInv, onDisk
<1>3. BuildHolds'
  BY <1>2, Undisturbed DEF BuildInv
<1>4. fails \in {0, 1} /\ (fails = 0 /\ img # Cut => Verified(img, chain[next]))
  BY <1>1 DEF Verdicts
<1> HIDE DEF fails
<1>5. now \in Nat /\ (now = 0 => bad = 0 /\ fails = 0)
  BY <1>2, <1>4
<1>6. next \in 1 .. Len(chain) /\ Len(chain) \in Nat
  BY <1>2
<1>7. now = 0 => AllVerified(next)
  <2> SUFFICES ASSUME now = 0, img # Cut, NEW i \in 1 .. next PROVE Verified(img, chain[i])
    BY DEF AllVerified
  <2>1. i \in 1 .. next - 1 \/ i = next
    BY <1>6
  <2>2. \A j \in 1 .. next - 1 : Verified(img, chain[j])
    BY <1>2, <1>5 DEF AllVerified
  <2> QED BY <1>4, <1>5, <2>1, <2>2
<1>8. Verifying(now)
  BY <1>1 DEF now, fails
<1> HIDE DEF now
<1>9. CASE next = Len(chain) /\ now > 0
  <2>1. pc' = "idle"
    BY <1>8, <1>9 DEF Verifying, Gone
  <2> QED BY <1>3, <2>1 DEF BuildInv
<1>10. CASE ~(next = Len(chain) /\ now > 0)
  <2>1. /\ img' = img /\ chain' = chain /\ mode' = mode /\ bad' = now
        /\ \/ next < Len(chain) /\ next' = next + 1 /\ pc' = pc
           \/ ~(next < Len(chain)) /\ pc' = "open"
    BY <1>8, <1>10 DEF Verifying
  <2>2. Tops(Len(chain))'
    BY <1>2, <2>1 DEF Tops
  <2>3. CASE next < Len(chain) /\ next' = next + 1 /\ pc' = pc
    <3>1. next' - 1 = next
      BY <1>6, <2>3
    <3>2. bad' = 0 => AllVerified(next - 1)'
      BY <2>1, <1>7, <3>1 DEF AllVerified
    <3> QED BY <1>2, <1>3, <2>1, <2>2, <2>3, <3>2 DEF BuildInv
  <2>4. CASE ~(next < Len(chain)) /\ pc' = "open"
    <3>1. next = Len(chain)
      BY <1>6, <2>4
    <3>2. now = 0
      BY <1>5, <1>10, <3>1
    <3>3. AllVerified(Len(chain))'
      BY <2>1, <1>7, <3>1, <3>2 DEF AllVerified
    <3> QED BY <1>3, <2>2, <2>4, <3>3 DEF BuildInv
  <2> QED BY <2>1, <2>3, <2>4
<1> QED BY <1>9, <1>10

LEMMA BuildOpenOut == ASSUME RunInv, BuildInv, OpenOut PROVE BuildInv'
<1>1. /\ pc = "open" /\ pc' = "write" /\ files' = [files EXCEPT ![out] = Torn] /\ sure' = [sure EXCEPT ![out] = 0]
      /\ mode' = mode /\ img' = img /\ chain' = chain
  BY DEF OpenOut
<1>2. mode = "build" => Tops(Len(chain)) /\ AllVerified(Len(chain))
  BY <1>1 DEF BuildInv
<1>3. mode' = "build" => Tops(Len(chain))' /\ AllVerified(Len(chain))'
  BY <1>1, <1>2 DEF Tops, AllVerified
<1>4. BuildHolds'
  BY <1>1 DEF RunInv, PatchTypeOK, BuildInv, BuildHolds, IsImage
<1> QED BY <1>1, <1>3, <1>4 DEF BuildInv

LEMMA BuildWriteSome == ASSUME RunInv, BuildInv, WriteSome PROVE BuildInv'
<1>1. /\ pc = "write" /\ pc' = "rest" /\ files' = [files EXCEPT ![out] = Cut] /\ sure' = sure
      /\ mode' = mode /\ img' = img /\ chain' = chain
  BY DEF WriteSome
<1>2. mode = "build" => Tops(Len(chain)) /\ AllVerified(Len(chain))
  BY <1>1 DEF BuildInv
<1>3. mode' = "build" => Tops(Len(chain))' /\ AllVerified(Len(chain))'
  BY <1>1, <1>2 DEF Tops, AllVerified
<1>4. BuildHolds'
  BY <1>1 DEF RunInv, PatchTypeOK, BuildInv, BuildHolds, IsImage
<1> QED BY <1>1, <1>3, <1>4 DEF BuildInv

LEMMA BuildWriteOut == ASSUME RunInv, BuildInv, WriteOut PROVE BuildInv'
<1>1. /\ pc = "rest" /\ pc' = "idle" /\ files' = [files EXCEPT ![out] = img]
      /\ sure' = [sure EXCEPT ![out] = IF mode = "build" THEN Len(chain) ELSE 0]
  BY DEF WriteOut, Gone
<1>2. (img = Cut \/ Good(img)) /\ files \in [Paths -> Image \union {Absent, Torn, Cut}] /\ sure \in [Paths -> Nat]
  BY InMemory DEF RunInv, PatchTypeOK
<1>3. img # Cut => Len(img.did) \in Nat /\ DOMAIN img.did = 1 .. Len(img.did)
  <2>1. img # Cut => img \in Image
    BY <1>2, GoodTyped
  <2> QED BY <2>1 DEF Image
<1>4. BuildHolds'
  <2> SUFFICES ASSUME NEW p \in Paths, IsImage(files'[p]), NEW k \in DOMAIN files'[p].did,
                      k > Len(files'[p].did) - sure'[p]
               PROVE  HoldsAt(files'[p], files'[p].did[k].recipe, files'[p].did[k].base)
    BY DEF BuildHolds, IsImage
  <2>1. CASE p # out
    <3>1. files'[p] = files[p] /\ sure'[p] = sure[p]
      BY <1>1, <1>2, <2>1
    <3> QED BY <3>1 DEF BuildInv, BuildHolds
  <2>2. CASE p = out
    <3>1. files'[p] = img /\ img # Cut /\ sure'[p] = IF mode = "build" THEN Len(chain) ELSE 0
      BY <1>1, <1>2, <2>2 DEF IsImage
    <3>2. mode = "build" /\ sure'[p] = Len(chain)
      <4>1. k \in DOMAIN img.did /\ k > Len(img.did) - sure'[p]
        BY <3>1
      <4>2. k \in 1 .. Len(img.did)
        BY <1>3, <3>1, <4>1
      <4>3. Len(img.did) \in Nat
        BY <1>3, <3>1
      <4> HIDE <1>3, <3>1
      <4>4. sure'[p] # 0
        BY <4>1, <4>2, <4>3
      <4> QED BY <3>1, <4>4
    <3>3. Tops(Len(chain)) /\ AllVerified(Len(chain))
      BY <1>1, <3>2 DEF BuildInv
    <3> DEFINE i == k - (Len(img.did) - Len(chain))
    <3>4. Len(chain) \in Nat
      BY DEF RunInv, PatchTypeOK
    <3>5. i \in 1 .. Len(chain) /\ k = Len(img.did) - Len(chain) + i /\ k \in DOMAIN img.did
      BY <1>3, <3>1, <3>2, <3>4
    <3> HIDE DEF i
    <3>6. img.did[k].recipe = chain[i] /\ Verified(img, chain[i])
      BY <3>1, <3>3, <3>5 DEF Tops, AllVerified
    <3> QED BY <1>2, <3>1, <3>5, <3>6, VerifiedHolds
  <2> QED BY <2>1, <2>2
<1> QED BY <1>1, <1>4 DEF BuildInv

LEMMA BuildStep == RunInv /\ BuildInv /\ [PatchNext]_patchVars => BuildInv'
<1> SUFFICES ASSUME RunInv, BuildInv, [PatchNext]_patchVars PROVE BuildInv'
  OBVIOUS
<1>1. ASSUME NEW e \in Paths, NEW o \in Outs, NEW r \in Recipes, NEW allow \in BOOLEAN, StartApply(e, o, r, allow)
      PROVE  BuildInv'
  <2>1. pc' = "open" /\ mode' = "apply" /\ files' = files /\ sure' = sure
    BY <1>1 DEF StartApply, Start, onDisk
  <2> QED BY <2>1, Undisturbed DEF BuildInv
<1>2. ASSUME NEW e \in Paths, NEW o \in Outs, NEW c \in Chains, StartBuild(e, o, c) PROVE BuildInv'
  <2>1. pc' = "chain" /\ mode' = "build" /\ files' = files /\ sure' = sure /\ next' = 1 /\ chain' = c /\ img' = files[e]
    BY <1>2 DEF StartBuild, Start, onDisk
  <2>2. Len(c) \in Nat /\ (files[e] # Cut => Len(files[e].did) \in Nat)
    <3>1. Len(c) \in Nat
      BY RunConstantsOK DEF Chains
    <3>2. files[e] # Cut => files[e] \in Image
      BY <1>2 DEF RunInv, PatchTypeOK, StartBuild, Readable
    <3>3. files[e] # Cut => files[e].did \in Seq([recipe : Recipes, base : Value])
      BY <3>2 DEF Image
    <3> QED BY <3>1, <3>3
  <2>3. Tops(next - 1)'
    BY <2>1, <2>2 DEF Tops
  <2> QED BY <2>1, <2>3, Undisturbed DEF BuildInv
<1>3. ASSUME Kill PROVE BuildInv'
  <2>1. pc' = "idle" /\ files' = files /\ sure' = sure
    BY <1>3 DEF Kill, Gone, onDisk
  <2> QED BY <2>1, Undisturbed DEF BuildInv
<1>4. CASE UNCHANGED patchVars
  <2>1. /\ pc' = pc /\ mode' = mode /\ files' = files /\ sure' = sure /\ next' = next /\ chain' = chain /\ img' = img
        /\ bad' = bad
    BY <1>4 DEF patchVars, onDisk
  <2> QED BY <2>1 DEF BuildInv, Tops, AllVerified, BuildHolds, IsImage
<1> QED
  BY <1>1, <1>2, <1>3, <1>4, BuildApplyNext, BuildVerifyNext, BuildOpenOut, BuildWriteSome, BuildWriteOut DEF PatchNext

\* A file build.py wrote holds every recipe of its chain, each at the address that recipe was given, although verify()
\* looks each region up by its name and another recipe may have taken the name over.
THEOREM BuildsHold == PatchSpec => []BuildHolds
<1>1. PatchInit => BuildInv
  BY BuildInit
<1>2. RunInv /\ BuildInv /\ [PatchNext]_patchVars => BuildInv'
  BY BuildStep
<1>3. BuildInv => BuildHolds
  BY DEF BuildInv
<1> QED
  BY <1>1, <1>2, <1>3, PatchInvariant, PTL DEF PatchSpec
=============================================================================
