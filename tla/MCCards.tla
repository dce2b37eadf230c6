------------------------------- MODULE MCCards -------------------------------
(* CardParts for TLC: two cards that edit, two tabs of one browser, and a       *)
(* mower that stands at its last two indices, whose path is cut off at three    *)
(* points: pieces and files overlap, leave gaps and fill them.                  *)
EXTENDS CardParts

Stretch(first, last, turn) == [from |-> first, to |-> last, angle |-> turn]

Places == [i \in 0 .. 3 |-> IF i = 3 THEN 2 ELSE i]
TaskIds == 1 .. 2
Pieces == {Stretch(0, 0, 0), Stretch(2, 3, 0), Stretch(1, 1, 0), Stretch(1, 3, 1)}
Files  == {[to |-> 0, angle |-> 0], [to |-> 3, angle |-> 1]}
==============================================================================
