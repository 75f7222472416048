----------------------------- MODULE MCNativeDex -----------------------------
(***************************************************************************)
(* Instances of NativeDex for TLC.  The first wallet is a validator whose  *)
(* balance is in part an activation; the second has neither sessions nor   *)
(* ANTS unless the instance says that the bridge has paid it.              *)
(***************************************************************************)
EXTENDS NativeDex, TLC

CONSTANTS w1, w2, wanet

TwoWallets == {w1, w2}
OnlyWanet == {wanet}

Balances == (w1 :> 4) @@ (w2 :> 1)
Activations == (w1 :> 2) @@ (w2 :> 0)
First == {w1}
Second == {w2}

UnitSizes == {1, 3}
Rates == {30, 301}
Minimums == {0, 2}
Heights == {0, 9}

EveryOp == AllOps

\* The histories do not bear on what happens next.
WithoutHistory == <<ants, activated, members, assets, pools, registry, pending,
                     height, saved, requests>>

\* README.md:292 offers min_amount_out as protection against slippage: a refused
\* swap is to leave the trader's balances as they were.  It does not hold.
RefusedSwapIsHarmless ==
  [][last' = [op |-> "swap", ok |-> FALSE] => UNCHANGED <<ants, assets>>]_vars
==============================================================================
