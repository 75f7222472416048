----------------------------- MODULE MCNodeLedger -----------------------------
(***************************************************************************)
(* Instances of NodeLedger for TLC.  Where MinFee is 3, two validators     *)
(* leave a remainder of a block's fees for the reserve.                    *)
(***************************************************************************)
EXTENDS NodeLedger, TLC

CONSTANTS w1, w2, treasury, reserve, h1, h2, noHash

TwoWallets == {w1, w2}
OneHash == {h1}
TwoHashes == {h1, h2}

\* The order of the addresses as strings.
Order == (w1 :> 1) @@ (w2 :> 2) @@ (treasury :> 3) @@ (reserve :> 4)

\* Balances and sessions at the start.  A wallet with one session is left over
\* from before the threshold of two.
RichAndLeft == (w1 :> 13) @@ (w2 :> 4)
Four == (w1 :> 4) @@ (w2 :> 0)
ThreeAndTwo == (w1 :> 3) @@ (w2 :> 2)
OnlyFirst == (w1 :> 2) @@ (w2 :> 0)
OnlySecond == (w1 :> 1) @@ (w2 :> 2)

One == {1}
OneAndTwo == {1, 2}
Three == {3}
OneTime == {1}
TwoTimes == {1, 2}

\* Web2 ledgers: ANTS and sessions for the second wallet, more ANTS for the
\* first; each leaves the other wallet out.
SecondJoins == {w2 :> [ants |-> 2, sessions |-> 2]}
PoolLedgers == SecondJoins \cup {w1 :> [ants |-> 14, sessions |-> 2]}

PoolOps == {"submit", "credit", "sync", "storeFails", "crash"}
FundsOps == AllOps \ {"mint"}
LiveOps == AllOps \ {"migrate"}
CreditOps == {"credit", "crash"}

\* No hash is padded.
Exact == [h \in Hashes |-> h]

HashSymmetry == Permutations(Hashes)

\* Without the history, which the properties of ledger_funds do not speak of.
WithoutHistory ==
  <<accountVars, poolVars, durableVars, pc, loop, sealVars, replayVars>>
==============================================================================
