--------------------------- MODULE MCSubmissions -----------------------------
(***************************************************************************)
(* Instances of Submissions for TLC: one miner that submits two proofs     *)
(* with one nonce and a third with the next, and sends a heartbeat; one    *)
(* more wallet is not on the allowlist.                                    *)
(***************************************************************************)
EXTENDS Submissions

CONSTANTS miner, stranger

TwoWallets == {miner, stranger}
OnlyMiner == {miner}

Submission(k, w, n, i) == [kind |-> k, wallet |-> w, nonce |-> n, id |-> i]

SomeRequests ==
  { Submission("proof", miner, 1, 1), Submission("proof", miner, 1, 2),
    Submission("proof", miner, 2, 1), Submission("heartbeat", miner, 1, 1),
    Submission("heartbeat", stranger, 1, 1) }

\* What VALIDATOR_DEPLOYMENT_GUIDE.md:81 says, and does not hold: a block clears
\* the proofs it lists.
ClearedWhenListed == \A r \in Requests : times[r] <= 1
==============================================================================
