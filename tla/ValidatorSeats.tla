---------------------------- MODULE ValidatorSeats ----------------------------
(***************************************************************************)
(* Who validates: the selection of validators from the accounts' sessions  *)
(* (src/src/state.rs), the seats an operator configures for the time in    *)
(* which there are too few of them, and what changes sessions: the sync    *)
(* task with its Web2 ledger (src/src/main.rs), migrations and the         *)
(* administrators' minting routes.                                         *)
(*                                                                         *)
(* eligible_miners is a list and modelled as a set: its order is that of   *)
(* the explorer's directory.  It is recomputed by some of the steps that   *)
(* change sessions and not by others.  The sync task reads the Web2 ledger *)
(* without the lock, so the rows it applies may be old.                    *)
(*                                                                         *)
(* An account that does not exist and one without sessions are alike here. *)
(* genesis.json is written whole or not at all; that a crash can also tear *)
(* it is in NodeLedger.                                                    *)
(***************************************************************************)
EXTENDS Integers, FiniteSets

CONSTANTS
  Addresses,      \* addresses of wallets
  Rank,           \* their order as strings
  Bootstrap,      \* ANET_BOOTSTRAP_VALIDATORS
  Miners,         \* the wallets that have a row in the Web2 ledger
  Moves,          \* pairs of a legacy address and the one it migrates to
  MinSessions,    \* MIN_SESSIONS_FOR_ANET
  MaxValidators,  \* MAX_VALIDATORS
  Quorum,         \* BOOTSTRAP_SUNSET_ORGANIC_QUORUM
  NoRows,         \* the sync task has read nothing
  Ops,            \* the operations this instance enables
  MaxSessions,    \* bound on a wallet's sessions in the Web2 ledger
  MaxTrouble      \* bound on failures and restarts

AllOps == {"delete", "migrate", "admit", "trouble"}

ASSUME ValidatorSeatsAssumption ==
  /\ IsFiniteSet(Addresses)
  /\ Rank \in [Addresses -> Nat]
  /\ \A a, b \in Addresses : Rank[a] = Rank[b] => a = b
  /\ Bootstrap \subseteq Addresses /\ Miners \subseteq Addresses
  /\ Moves \subseteq Addresses \X Addresses
  /\ \A m \in Moves : m[1] # m[2]
  /\ MinSessions \in Nat \ {0} /\ MaxValidators \in Nat /\ Quorum \in Nat \ {0}
  /\ NoRows \notin [Miners -> Nat]
  /\ Ops \subseteq AllOps
  /\ MaxSessions \in Nat /\ MaxTrouble \in Nat

VARIABLES
  web2,       \* effective_sessions, 0 for a wallet that is deleted
  sessions,   \* the accounts' sessions
  seats,      \* bootstrap_validators
  validators, \* eligible_miners
  file,       \* the sessions in genesis.json
  rows,       \* what the sync task has read and not applied
  revealed,   \* the legacy addresses whose migration is recorded as revealed
  pc,         \* "up", or "down"
  trouble     \* how many failures and restarts there have been

nodeVars == <<sessions, seats, validators>>
durableVars == <<file, revealed>>
vars == <<web2, sessions, seats, validators, file, rows, revealed, pc, trouble>>

None == [a \in Addresses |-> 0]

------------------------------------------------------------------------------
(***************************************************************************)
(* Selection.                                                              *)
(***************************************************************************)
Eligible(s) == {a \in Addresses : s[a] >= MinSessions}

\* More sessions first, then the smaller address.
Ahead(s, a, b) == s[a] > s[b] \/ (s[a] = s[b] /\ Rank[a] < Rank[b])

\* The first n of a set of candidates.
Top(s, candidates, n) ==
  {a \in candidates : Cardinality({b \in candidates : Ahead(s, b, a)}) < n}

\* compute_validators_from_accounts
FromAccounts(s) == Top(s, Eligible(s), MaxValidators)

\* Mutant of ActiveSet: below the quorum the candidates are not told apart.
ActiveSetMixed(s, boot) ==
  LET organic == Eligible(s) \ boot
  IN  IF Cardinality(organic) >= Quorum THEN Top(s, organic, MaxValidators)
      ELSE Top(s, Eligible(s), MaxValidators)

\* compute_active_validator_set: bootstrap seats fill what organic validators
\* leave free, and none is filled once there is a quorum of organic ones.
ActiveSet(s, boot) ==
  LET organic == Eligible(s) \ boot
      first == Top(s, organic, MaxValidators)
  IN  IF Cardinality(organic) >= Quorum THEN first
      ELSE first \cup Top(s, Eligible(s) \cap boot, MaxValidators - Cardinality(first))

------------------------------------------------------------------------------
(***************************************************************************)
(* What a sync and a seeding make of the sessions and of the validators.   *)
(***************************************************************************)
\* The accounts' sessions are raised to those of the rows, never lowered.
Raised(s, r) ==
  [a \in Addresses |->
     IF a \in Miners /\ r[a] >= MinSessions /\ r[a] > s[a] THEN r[a] ELSE s[a]]

\* Every configured seat has at least the sessions a validator needs.
Seeded(s) ==
  [a \in Addresses |-> IF a \in Bootstrap /\ s[a] < MinSessions THEN MinSessions ELSE s[a]]

\* Mutant of Remembered: a seat whose account is eligible already is not noted.
RememberedIfRaised(s, known) == known \cup {a \in Bootstrap : s[a] < MinSessions}

\* The bootstrap seats the node knows of once they have been seeded.
Remembered(s, known) == known \cup Bootstrap

\* Mutant of SeatsSeeded: the validators are left as they were.
SeatsUnchanged(s, known, current) == current

\* seed_bootstrap_validators chooses anew only if it has raised an account.
SeatsSeeded(s, known, current) ==
  IF Seeded(s) # s THEN ActiveSet(Seeded(s), Remembered(s, known)) ELSE current

\* Seeding: s, known and current are what the step before it has left.
Seed(s, known, current) ==
  /\ sessions' = Seeded(s)
  /\ seats' = Remembered(s, known)
  /\ validators' = SeatsSeeded(s, known, current)

\* Mutant of Resynced: a sync leaves the validators to the seeding.
ResyncedLater(s, known) == validators

\* How sync_activated_accounts and replace_validators choose.
Resynced(s, known) == ActiveSet(s, known)

------------------------------------------------------------------------------
Init ==
  /\ web2 = [a \in Miners |-> 0]
  /\ sessions = None
  /\ seats = {}
  /\ validators = {}
  /\ file = None
  /\ rows = NoRows
  /\ revealed = {}
  /\ pc = "down"
  /\ trouble = 0

(***************************************************************************)
(* The Web2 ledger.                                                        *)
(***************************************************************************)
Earn(a) ==
  /\ web2[a] < MaxSessions
  /\ web2' = [web2 EXCEPT ![a] = @ + 1]
  /\ UNCHANGED <<nodeVars, durableVars, rows, pc, trouble>>

\* The wallet is deleted: its row is no longer read.  load_genesis_accounts does
\* read one that is banned or flagged, and the list of load_eligible_validators,
\* which leaves it out, is informational.
Delete(a) ==
  /\ "delete" \in Ops
  /\ web2[a] > 0
  /\ web2' = [web2 EXCEPT ![a] = 0]
  /\ UNCHANGED <<nodeVars, durableVars, rows, pc, trouble>>

(***************************************************************************)
(* The sync task.                                                          *)
(***************************************************************************)
Trouble == "trouble" \in Ops /\ trouble < MaxTrouble /\ trouble' = trouble + 1

\* load_postgres_sync_data
SyncLoad ==
  /\ pc = "up"
  /\ rows = NoRows
  /\ rows' = web2
  /\ UNCHANGED <<web2, nodeVars, durableVars, pc, trouble>>

\* The database cannot be reached: the seats are seeded all the same.
SyncLoadFails ==
  /\ pc = "up"
  /\ rows = NoRows
  /\ Trouble
  /\ Seed(sessions, seats, validators)
  /\ UNCHANGED <<web2, durableVars, rows, pc>>

\* The snapshot is written if an account has changed, by its sessions or, what
\* is not modelled here, by its ANTS; then the validators are chosen.
SyncApply ==
  /\ pc = "up"
  /\ rows # NoRows
  /\ LET raised == Raised(sessions, rows) IN
       /\ file' \in IF raised # sessions THEN {raised} ELSE {file, raised}
       /\ Seed(raised, seats, Resynced(raised, seats))
  /\ rows' = NoRows
  /\ UNCHANGED <<web2, revealed, pc, trouble>>

\* The snapshot cannot be written: the accounts stay changed, nothing follows.
SyncApplyFails ==
  /\ pc = "up"
  /\ rows # NoRows
  /\ Trouble
  /\ sessions' = Raised(sessions, rows)
  /\ rows' = NoRows
  /\ UNCHANGED <<web2, seats, validators, durableVars, pc>>

(***************************************************************************)
(* Requests.                                                               *)
(***************************************************************************)
\* migrate_legacy_to_secp, as post_wallet_migrate_reveal calls it: once for each
\* legacy address.  The validators are left as they were.
Migrate(legacy, secp) ==
  /\ "migrate" \in Ops
  /\ pc = "up"
  /\ legacy \notin revealed
  /\ revealed' = revealed \cup {legacy}
  /\ sessions' = [sessions EXCEPT ![legacy] = 0, ![secp] = @ + sessions[legacy]]
  /\ UNCHANGED <<web2, seats, validators, file, rows, pc, trouble>>

\* admin_genesis_bootstrap and admin_top_up_liquidity make their wallet a member.
Admit(a) ==
  /\ "admit" \in Ops
  /\ pc = "up"
  /\ sessions[a] < MinSessions
  /\ sessions' = [sessions EXCEPT ![a] = MinSessions]
  /\ UNCHANGED <<web2, seats, validators, durableVars, rows, pc, trouble>>

(***************************************************************************)
(* Start-up, from genesis.json: first no seat is known to be a bootstrap   *)
(* one, and the first sync chooses among all the accounts alike.           *)
(***************************************************************************)
Start ==
  /\ pc = "down"
  /\ LET raised == Raised(file, web2) IN
       /\ file' = raised
       /\ Seed(raised, {}, Resynced(raised, {}))
  /\ pc' = "up"
  /\ UNCHANGED <<web2, rows, revealed, trouble>>

\* Without the database the node starts from the file alone.
StartAlone ==
  /\ pc = "down"
  /\ Trouble
  /\ Seed(file, {}, FromAccounts(file))
  /\ pc' = "up"
  /\ UNCHANGED <<web2, durableVars, rows>>

Stop ==
  /\ pc = "up"
  /\ Trouble
  /\ sessions' = None /\ seats' = {} /\ validators' = {}
  /\ rows' = NoRows
  /\ pc' = "down"
  /\ UNCHANGED <<web2, durableVars>>

Ledger == \E a \in Miners : Earn(a) \/ Delete(a)

Syncing == SyncLoad \/ SyncApply

Requests ==
  \/ \E m \in Moves : Migrate(m[1], m[2])
  \/ \E a \in Addresses \ Bootstrap : Admit(a)

Failing == SyncLoadFails \/ SyncApplyFails \/ StartAlone \/ Stop

Next == Ledger \/ Syncing \/ Requests \/ Start \/ Failing

Spec == Init /\ [][Next]_vars

\* The process is started again and its sync task ticks.
FairSpec == Spec /\ WF_vars(Syncing) /\ WF_vars(Start)

------------------------------------------------------------------------------
(***************************************************************************)
(* Properties.                                                             *)
(***************************************************************************)
TypeOK ==
  /\ web2 \in [Miners -> Nat]
  /\ sessions \in [Addresses -> Nat]
  /\ seats \subseteq Bootstrap
  /\ validators \subseteq Addresses
  /\ file \in [Addresses -> Nat]
  /\ rows = NoRows \/ rows \in [Miners -> Nat]
  /\ revealed \subseteq Addresses
  /\ pc \in {"up", "down"}
  /\ trouble \in Nat

Organic(s) == Eligible(s) \ Bootstrap

\* With a configured seat the set of validators is never empty while the node
\* runs, whatever fails at its start and whoever migrates: what
\* seed_bootstrap_validators is there for.
NeverVacant == pc = "up" /\ Bootstrap # {} /\ MaxValidators > 0 => validators # {}

\* There are never more validators than seats.
WithinCap == Cardinality(validators) <= MaxValidators

\* A running node that chooses its validators never gives a bootstrap seat a
\* place that an organic validator is left without, however often the seats are
\* seeded again.
OrganicFirst ==
  [][pc = "up" /\ (SyncApply \/ validators' # validators) /\ validators' \cap Bootstrap # {}
       => Organic(sessions') \subseteq validators']_vars

\* After a sync that finds a quorum of organic validators, no bootstrap seat is
\* left, whatever start-up took the seats for before.
RetiredBySync ==
  [][SyncApply /\ Cardinality(Organic(sessions')) >= Quorum
       => validators' \cap Bootstrap = {}]_vars

\* Outages, failed writes and restarts that end do not keep bootstrap seats: once
\* the Web2 ledger lists a quorum of organic miners for good, they go for good.
SunsetHolds ==
  <>[](Cardinality({a \in Miners \ Bootstrap : web2[a] >= MinSessions}) >= Quorum)
    => <>[](validators \cap Bootstrap = {})

\* Although half of what changes sessions does not choose validators, the set a
\* node works with is, again and again, the one the rule gives for its accounts.
SeatsCatchUp == []<>(validators = ActiveSet(sessions, Bootstrap))
==============================================================================
