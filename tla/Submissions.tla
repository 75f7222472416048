---------------------------- MODULE Submissions ------------------------------
(***************************************************************************)
(* Mining proofs and validator heartbeats: signed submissions with a       *)
(* nonce that PostgreSQL lets a wallet use once (src/src/rpc.rs, db.rs),   *)
(* what the node remembers of them (src/src/state.rs) and the blocks its   *)
(* consensus loop makes while it does (src/src/consensus.rs).              *)
(*                                                                         *)
(* A submission is a request of its own, with an identity: two of them may *)
(* carry the same nonce, because a client repeats one whose answer it has  *)
(* not seen or signs another.  Hashes and signatures are valid.            *)
(*                                                                         *)
(* Time is counted in epochs.  An age is the number of epochs begun since  *)
(* the proof was recorded; one of MaxAge epochs may be on either side of   *)
(* the cutoff of 300 seconds, which does not fall on an epoch's start.     *)
(***************************************************************************)
EXTENDS Integers, Functions

CONSTANTS
  Wallets,     \* addresses of miners and validators
  Listed,      \* ANET_VALIDATOR_ALLOWLIST, or Wallets when it is not set
  Requests,    \* submissions: [kind, wallet, nonce, id]
  MaxAge,      \* the cutoff of pending_proofs_for_block, in epochs
  MaxLate,     \* how many epochs a loop with work may let pass
  MaxTrouble   \* bound on failures, disconnections and restarts

Kinds == {"proof", "heartbeat"}
ProofRequests == {r \in Requests : r.kind = "proof"}

ASSUME SubmissionsAssumption ==
  /\ \A r \in Requests : r.kind \in Kinds /\ r.wallet \in Wallets /\ r.nonce \in Nat
  /\ Listed \subseteq Wallets
  /\ MaxAge \in Nat /\ MaxLate \in Nat /\ MaxLate + 1 < MaxAge
  /\ MaxTrouble \in Nat

VARIABLES
  lastNonce, \* mining_proof_nonces and validator_heartbeat_nonces, 0 without a row
  flight,    \* the requests being handled: whether their nonce is taken, and the
             \* newest that had been recorded when they arrived
  newest,    \* the newest nonce that has been recorded
  recorded,  \* how often each request has been recorded
  proofs,    \* pending_mining_proofs: the age of each
  commit,    \* other work for a block
  inEpoch,   \* the last block is of the present epoch
  times,     \* how many blocks list each proof
  late,      \* epochs in which the running loop has left its work
  loop,      \* "running", "exited", or "down" with the node
  trouble    \* how many failures there have been

requestVars == <<lastNonce, flight, newest, recorded>>
blockVars == <<inEpoch, times, late>>
vars == <<lastNonce, flight, newest, recorded, proofs, commit, inEpoch, times, late, loop, trouble>>

Up == loop # "down"

Trouble == trouble < MaxTrouble /\ trouble' = trouble + 1

------------------------------------------------------------------------------
(***************************************************************************)
(* Submissions.                                                            *)
(***************************************************************************)
\* What verify_tpow_proof_submission, verify_signed_action_authorization and
\* the allowlist tell apart.
Valid(r) == r.nonce > 0 /\ (r.kind = "heartbeat" => r.wallet \in Listed)

\* Mutant of Unused: a nonce that has been used is taken again.
UnusedYet(last, nonce) == last <= nonce

\* WHERE last_nonce < EXCLUDED.last_nonce
Unused(last, nonce) == last < nonce

Last(r) == lastNonce[r.kind][r.wallet]

Arrive(r) ==
  /\ Up
  /\ r \notin DOMAIN flight
  /\ Valid(r)
  /\ flight' = [q \in DOMAIN flight \cup {r} |->
                  IF q = r THEN [taken |-> FALSE, behind |-> newest[r.kind][r.wallet]] ELSE flight[q]]
  /\ UNCHANGED <<lastNonce, newest, recorded, proofs, commit, blockVars, loop, trouble>>

Ended(r) == Restrict(flight, DOMAIN flight \ {r})

\* record_mining_proof_nonce, record_validator_heartbeat_nonce: one statement.
Upsert(r) ==
  lastNonce' = [lastNonce EXCEPT ![r.kind][r.wallet] =
                  IF Unused(Last(r), r.nonce) THEN r.nonce ELSE Last(r)]

TakeNonce(r) ==
  /\ r \in DOMAIN flight
  /\ ~flight[r].taken
  /\ Upsert(r)
  /\ flight' = IF Unused(Last(r), r.nonce) THEN [flight EXCEPT ![r].taken = TRUE] ELSE Ended(r)
  /\ UNCHANGED <<newest, recorded, proofs, commit, blockVars, loop, trouble>>

\* The statement fails, executed or not.
TakeFails(r) ==
  /\ r \in DOMAIN flight
  /\ ~flight[r].taken
  /\ Trouble
  /\ Upsert(r) \/ UNCHANGED lastNonce
  /\ flight' = Ended(r)
  /\ UNCHANGED <<newest, recorded, proofs, commit, blockVars, loop>>

\* With the lock that the handler has waited for: record_mining_proof or
\* record_validator_heartbeat.
Record(r) ==
  /\ r \in DOMAIN flight
  /\ flight[r].taken
  /\ flight' = Ended(r)
  /\ recorded' = [recorded EXCEPT ![r] = @ + 1]
  /\ newest' = [newest EXCEPT ![r.kind][r.wallet] =
                  IF newest[r.kind][r.wallet] < r.nonce THEN r.nonce ELSE newest[r.kind][r.wallet]]
  /\ proofs' = IF r.kind = "proof" THEN [p \in DOMAIN proofs \cup {r} |-> IF p = r THEN 0 ELSE proofs[p]]
               ELSE proofs
  /\ UNCHANGED <<lastNonce, commit, blockVars, loop, trouble>>

\* The client goes away, and the handler with it.
Disconnect(r) ==
  /\ r \in DOMAIN flight
  /\ Trouble
  /\ flight' = Ended(r)
  /\ UNCHANGED <<lastNonce, newest, recorded, proofs, commit, blockVars, loop>>

------------------------------------------------------------------------------
(***************************************************************************)
(* The consensus loop.                                                     *)
(***************************************************************************)
\* has_pending_block_work
HasWork == commit \/ DOMAIN proofs # {}

\* Mutant of Due: the epoch of the last block is not looked at.
DueAtOnce == loop = "running" /\ HasWork

Due == loop = "running" /\ HasWork /\ ~inEpoch

\* Mutants of Kept: proofs stay when they are listed; a proof that no block has
\* had the time to list is taken for an old one.
KeptForever == {DOMAIN proofs}
KeptFresh == {{p \in DOMAIN proofs : proofs[p] = 0}}

\* pending_proofs_for_block: what stays, and goes into the block.
Kept ==
  {S \in SUBSET DOMAIN proofs :
     \A p \in DOMAIN proofs : (proofs[p] < MaxAge => p \in S) /\ (p \in S => proofs[p] <= MaxAge)}

\* Counted one beyond the bound that RepeatsBounded states.
Again(n) == IF n > MaxAge + 1 THEN n ELSE n + 1

\* create_block
CreateBlock ==
  /\ Due
  /\ \E kept \in Kept :
       /\ proofs' = Restrict(proofs, kept)
       /\ times' = [r \in Requests |-> IF r \in kept THEN Again(times[r]) ELSE times[r]]
  /\ commit' = FALSE /\ inEpoch' = TRUE /\ late' = 0
  /\ UNCHANGED <<requestVars, loop, trouble>>

\* Reading the tip or storing the block fails: the old proofs may be gone.
CreateBlockFails ==
  /\ Due
  /\ Trouble
  /\ loop' = "exited"
  /\ \E kept \in Kept \cup {DOMAIN proofs} : proofs' = Restrict(proofs, kept)
  /\ UNCHANGED <<requestVars, commit, blockVars>>

\* A request that is not modelled here leaves work for a block.
OtherWork ==
  /\ Up
  /\ ~commit
  /\ commit' = TRUE
  /\ UNCHANGED <<requestVars, proofs, blockVars, loop, trouble>>

Older(age) == IF age > MaxAge THEN age ELSE age + 1

\* The next epoch begins.  The loop polls several times in each: one that has
\* work lets pass MaxLate of them at most.
Tick ==
  /\ Due => late < MaxLate
  /\ late' = IF Due THEN late + 1 ELSE 0
  /\ inEpoch' = FALSE
  /\ proofs' = [p \in DOMAIN proofs |-> Older(proofs[p])]
  /\ UNCHANGED <<requestVars, commit, times, loop, trouble>>

Crash ==
  /\ Up
  /\ Trouble
  /\ loop' = "down"
  /\ flight' = <<>> /\ proofs' = <<>> /\ commit' = FALSE /\ late' = 0
  /\ UNCHANGED <<lastNonce, newest, recorded, inEpoch, times>>

Restart ==
  /\ loop = "down"
  /\ loop' = "running"
  /\ UNCHANGED <<requestVars, proofs, commit, blockVars, trouble>>

------------------------------------------------------------------------------
Init ==
  /\ lastNonce = [k \in Kinds |-> [w \in Wallets |-> 0]]
  /\ flight = <<>>
  /\ newest = [k \in Kinds |-> [w \in Wallets |-> 0]]
  /\ recorded = [r \in Requests |-> 0]
  /\ proofs = <<>>
  /\ commit = FALSE /\ inEpoch = FALSE
  /\ times = [r \in Requests |-> 0]
  /\ late = 0
  /\ loop = "running"
  /\ trouble = 0

Handling(r) == Arrive(r) \/ TakeNonce(r) \/ Record(r)

Failing == (\E r \in Requests : TakeFails(r) \/ Disconnect(r)) \/ CreateBlockFails \/ Crash

Next ==
  \/ \E r \in Requests : Handling(r)
  \/ CreateBlock \/ OtherWork \/ Tick \/ Restart
  \/ Failing

Spec == Init /\ [][Next]_vars

\* Epochs begin and the consensus task is scheduled.
FairSpec == Spec /\ WF_vars(Tick) /\ WF_vars(CreateBlock)

------------------------------------------------------------------------------
(***************************************************************************)
(* Properties.                                                             *)
(***************************************************************************)
TypeOK ==
  /\ lastNonce \in [Kinds -> [Wallets -> Nat]]
  /\ DOMAIN flight \subseteq ProofRequests \cup {r \in Requests : r.wallet \in Listed}
  /\ \A r \in DOMAIN flight : flight[r] \in [taken : BOOLEAN, behind : Nat]
  /\ newest \in [Kinds -> [Wallets -> Nat]]
  /\ recorded \in [Requests -> Nat]
  /\ DOMAIN proofs \subseteq ProofRequests
  /\ \A p \in DOMAIN proofs : proofs[p] \in 0 .. MaxAge + 1
  /\ commit \in BOOLEAN /\ inEpoch \in BOOLEAN
  /\ times \in [Requests -> 0 .. MaxAge + 2]
  /\ late \in 0 .. MaxLate
  /\ loop \in {"running", "exited", "down"}
  /\ trouble \in Nat

SameNonce(r, q) == r.kind = q.kind /\ r.wallet = q.wallet /\ r.nonce = q.nonce

\* A wallet's nonce counts for one submission, once, although the nonce is taken
\* before the lock that the recording waits for, and although clients repeat
\* requests, sign others with the same nonce, and the node forgets everything
\* when it restarts.
CountedOnce ==
  \A r, q \in Requests :
    SameNonce(r, q) /\ recorded[r] > 0 /\ recorded[q] > 0 => r = q /\ recorded[r] = 1

\* A heartbeat or a proof replaces or follows a newer one of its wallet only if
\* both were on their way at once: a client that waits for its answers is never
\* set back, across restarts too.
RecordedInTurn == \A r \in DOMAIN flight : flight[r].taken => r.nonce > flight[r].behind

\* A proof is work for a block as long as it is kept, and every block lists it:
\* still it makes no more blocks than there are epochs in its 300 seconds, and
\* one for the epoch in which it came.
RepeatsBounded == \A r \in Requests : times[r] <= MaxAge + 1

\* As long as the node stays up, no proof is dropped that no block lists: a loop
\* that is not too late comes before the cutoff.
DroppedOnlyIfListed ==
  [][loop' # "down" => \A p \in DOMAIN proofs \ DOMAIN proofs' : times[p] > 0]_vars

\* When no more are submitted, the proofs run out and stop making blocks.
ProofsRunOut ==
  <>[](DOMAIN flight = {}) => []<>(DOMAIN proofs = {} \/ loop # "running")
==============================================================================
