--------------------------- MODULE MCZoneStorage ---------------------------
(* The bag: two characters, two items, two pooled objects and two list requests.  The  *)
(* titles: one type inside the stock array and one past it, two elements, a value that *)
(* fits its two bits and one that does not.  The vault: five classes of two lines,     *)
(* three of them high jobs, and up to three rows.                                      *)
EXTENDS ZoneStorage, TLC

TwoLines == <<1, 1, 1, 4, 4>>

Symmetry == Permutations(Items) \union Permutations(Chars) \union Permutations(Objs) \union Permutations(Calls)
=============================================================================
