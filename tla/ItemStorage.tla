----------------------------- MODULE ItemStorage -----------------------------
(***************************************************************************)
(* What a character's item storage promises, whatever bags it is kept in:  *)
(* an item is in one place, a place holds one item, and the only things    *)
(* that ever happen are a move into a free place and an exchange of two    *)
(* items, both within one character.  It knows nothing of logins, replies  *)
(* or in-memory bags.  VoidBag is shown to implement it: the rows of tItem *)
(* must change this way although a move is judged on the in-memory bag.    *)
(***************************************************************************)
CONSTANTS Items, Chars, Spots

VARIABLE row    \* item -> [char, bag, slot], as tItem holds it

Places == {[char |-> c, bag |-> b[1], slot |-> b[2]] : c \in Chars, b \in Spots}

Distinct(r) == \A i, j \in Items : r[i] = r[j] => i = j

Init == row \in [Items -> Places] /\ Distinct(row)

Relocate(i, place) ==
    /\ place.char = row[i].char
    /\ \A j \in Items : row[j] # place
    /\ row' = [row EXCEPT ![i] = place]

Swap(i, j) ==
    /\ row[i].char = row[j].char
    /\ row' = [row EXCEPT ![i] = row[j], ![j] = row[i]]

Next == \/ \E i \in Items, place \in Places : Relocate(i, place)
        \/ \E i, j \in Items : i # j /\ Swap(i, j)

Spec == Init /\ [][Next]_row
=============================================================================
