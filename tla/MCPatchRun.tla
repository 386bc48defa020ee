----------------------------- MODULE MCPatchRun -----------------------------
(***************************************************************************)
(* A small instance of PatchRun: ten recipes that between them use every *)
(* part of a recipe, and get in each other's way.                          *)
(***************************************************************************)
EXTENDS PatchRun

MCSites == {"s1", "s2", "s3", "gap"}
MCBacked == {"s1", "s2", "s3"}
MCLabels == {"mobhat", "mobhat-2", "cave", "stub"}
\* two of the labels agree in their first 19 characters
MCKey == [l \in MCLabels \union {ImportLabel, RelocLabel} |-> IF l = "mobhat-2" THEN "mobhat" ELSE l]

Edit(s, from, to) == [site |-> s, expect |-> from, write |-> to]
Recipe(l, size, exec, import, edits, blob, abs, pinned) ==
    [label |-> l, size |-> size, exec |-> exec, import |-> import, edits |-> edits,
     blob |-> blob, abs |-> abs, pinned |-> pinned]

MCRecipes == {
    \* a static object moved to a region of its own
    Recipe("mobhat", 3, FALSE, FALSE, <<Edit("s1", Const(0), NewBase)>>, 0, {}, TRUE),
    \* the same under a name that collides with it, and a site more
    Recipe("mobhat-2", 4, FALSE, FALSE, <<Edit("s3", Const(0), NewBase)>>, 0, {}, TRUE),
    \* a code cave with an absolute operand, no hash recorded (a recipe that names symbols)
    Recipe("cave", 3, TRUE, FALSE, <<Edit("s2", Const(0), NewBase)>>, 3, {1}, FALSE),
    \* a second user of the same name, with nearly all the room the executable arena has left
    Recipe("cave", 9, TRUE, FALSE, << >>, 9, {}, TRUE),
    \* bytes in a data region
    Recipe("stub", 5, FALSE, FALSE, << >>, 5, {2}, FALSE),
    \* the plugin loader: an import and no edit
    Recipe("stub", 0, FALSE, TRUE, << >>, 0, {}, TRUE),
    \* two edits; the second expects what another recipe writes
    Recipe("stub", 0, FALSE, FALSE, <<Edit("s2", Const(0), Const(5)), Edit("s3", Const(1), Const(2))>>, 0, {}, TRUE),
    \* one edit, in the way of both recipes above
    Recipe("stub", 0, FALSE, FALSE, <<Edit("s3", Const(0), Const(1))>>, 0, {}, TRUE),
    \* an edit of bytes the file does not have, and one that does not fit
    Recipe("stub", 0, FALSE, FALSE, <<Edit("gap", Const(0), Const(1))>>, 0, {}, TRUE),
    Recipe("stub", 0, FALSE, FALSE, <<Edit("s1", Const(0), TooWide)>>, 0, {}, TRUE)
}
=============================================================================
