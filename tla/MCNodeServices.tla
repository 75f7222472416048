---------------------------- MODULE MCNodeServices ----------------------------
(***************************************************************************)
(* Instances of NodeServices for TLC: a legacy address, the address of     *)
(* its key and a stranger's, and two requests at a time.                   *)
(***************************************************************************)
EXTENDS NodeServices, TLC

CONSTANTS old, new, other, c1, c2, s1, s2

ThreeWallets == {old, new, other}
TwoKeys == {new, other}
TwoCallers == {c1, c2}
TwoSigners == {s1, s2}
OneSigner == {s1}
OneLegacy == {old}
SameKey == old :> new
Balances == (old :> 2) @@ (new :> 4) @@ (other :> 0)
\* A burn of 3 is above MaxPerBurn, and one of 0 is refused.
SomeAmounts == {0, 1, 3}
One == {1}
SomeFaults == {"db", "disconnect", "crash"}
LostAnswers == {"db", "lostAnswer"}
CrashOnly == {"crash"}

\* Requests are interchangeable, and so are signers.
ServiceSymmetry == Permutations(TwoCallers) \cup Permutations(TwoSigners)

\* What db.rs:1007-1009 says of a burn's row, and does not hold once the answer
\* to an INSERT is lost (Faults <- LostAnswers): whatever is paid out was burned.
PaidIsBurned == Bridge!PaidIsBurned
==============================================================================
