----------------------------- MODULE MCPayouts -------------------------------
(***************************************************************************)
(* Instances of Payouts for TLC.  The operator has queued one request; the *)
(* feed has another, and a third for the swap of the first.                *)
(***************************************************************************)
EXTENDS Payouts

Request(i, s, n) == [id |-> i, ref |-> s, amount |-> n]

first == Request(1, 1, 1)
second == Request(2, 2, 1)
again == Request(3, 1, 1)
empty == Request(4, 3, 0)
stranger == Request(5, 4, 1)

FewRequests == {first, second, again, empty, stranger}
OnlyStranger == {stranger}
Queue == <<first, empty, again>>
Answers == {{}, {again, second, stranger}}

TwoRequests == {first, second}
ShortQueue == <<first>>
NoAnswers == {{}}
NoOne == {}
==============================================================================
