----------------------------- MODULE MCChainStore -----------------------------
(***************************************************************************)
(* Instances of ChainStore for TLC.  Time is counted in seconds.           *)
(***************************************************************************)
EXTENDS ChainStore

CONSTANTS t1, t2

TwoTx == {t1, t2}
\* An operator may also set 0, and is refused.
OneLength == {0, 2}
TwoLengths == {2, 3}
AllFaults == {"db", "apply", "crash"}
==============================================================================
