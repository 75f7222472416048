----------------------------- MODULE Settlement ------------------------------
(***************************************************************************)
(* What the payout contract promises for each swap that a user has asked   *)
(* USDC for (RENDER_WORKER_SETUP.md, PI-4 and PI-6): it is paid once, it   *)
(* is reported as paid after it is, and the report stays.  Payouts is      *)
(* shown to implement this specification.                                  *)
(***************************************************************************)
CONSTANT Refs        \* the swaps

VARIABLE phase       \* "open", "sent" or "reported"

Init == phase = [s \in Refs |-> "open"]

Send == \E s \in Refs : phase[s] = "open" /\ phase' = [phase EXCEPT ![s] = "sent"]

\* A cycle reports what it has paid when it ends.
Report ==
  \E S \in SUBSET {s \in Refs : phase[s] = "sent"} :
     phase' = [s \in Refs |-> IF s \in S THEN "reported" ELSE phase[s]]

Next == Send \/ Report

Spec == Init /\ [][Next]_phase
==============================================================================
