-------------------------- MODULE MCValidatorSeats ---------------------------
(***************************************************************************)
(* Instances of ValidatorSeats for TLC: two bootstrap seats, a miner and   *)
(* one that migrates to a new address; two organic validators are a        *)
(* quorum, and there are two seats, so that one organic validator leaves   *)
(* room for one of the two bootstrap seats.                                *)
(***************************************************************************)
EXTENDS ValidatorSeats, Functions, TLC

CONSTANTS boot1, boot2, miner, legacy, secp

Wallets == {boot1, boot2, miner, legacy, secp}
TwoSeats == {boot1, boot2}
TwoMiners == {miner, legacy}
OneMove == {<<legacy, secp>>}

\* As strings, the addresses of the bootstrap seats come first.
Order == (boot1 :> 1) @@ (boot2 :> 2) @@ (legacy :> 3) @@ (miner :> 4) @@ (secp :> 5)

EveryOp == AllOps
MoveOnly == {"migrate"}

\* state.rs:1257 says that sessions are transferred by a migration and not
\* duplicated: the accounts together have no more than their owners have earned.
\* It does not hold (Ops <- MoveOnly).
SessionsNotDuplicated ==
  pc = "up" => SumFunctionOnSet(sessions, Addresses \ Bootstrap) <= SumFunctionOnSet(web2, Miners)
==============================================================================
