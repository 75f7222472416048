----------------------------- MODULE NodeServices -----------------------------
(***************************************************************************)
(* The outbound bridge and the migration of wallets in one process: both   *)
(* change the accounts in memory in one step of a request and a table of   *)
(* their own in another, and the requests of the one run between the steps *)
(* of the other.                                                           *)
(***************************************************************************)
EXTENDS Integers, Sequences, FiniteSets

CONSTANTS
  Wallets, Senders, Funds, Callers, Faults,
  Amounts, MaxPerBurn, MinFee, Signers, Threshold, Lifetime, MaxTime, MaxBurns,
  Legacy, SecpOf, Nonces

\* Faults: the database refuses a statement; it executes one whose answer is
\* lost; a client disconnects; the process dies.
ASSUME NodeServicesAssumption ==
  /\ IsFiniteSet(Wallets)
  /\ Funds \in [Wallets -> Nat]
  /\ Amounts \subseteq Nat
  /\ MaxPerBurn \in Nat
  /\ MinFee \in Nat \ {0}
  /\ IsFiniteSet(Signers) /\ Threshold \in 1 .. Cardinality(Signers)
  /\ Lifetime \in Nat \ {0}
  /\ MaxTime \in Nat
  /\ MaxBurns \in Nat
  /\ Faults \subseteq {"db", "lostAnswer", "disconnect", "crash"}
  /\ Senders \subseteq Wallets
  /\ Legacy \subseteq Wallets \ Senders
  /\ SecpOf \in [Legacy -> Senders]

VARIABLES
  ants, fees, clock, burns, sigs, burning, signing, released, boot,
  migrations, revealing

Bridge == INSTANCE BridgeBurns
Migration == INSTANCE WalletMigration

vars == <<ants, fees, clock, burns, sigs, burning, signing, released, boot,
          migrations, revealing>>

Init == Bridge!Init /\ Migration!Init

\* The process dies and is started again.  The tables stay; the requests are
\* gone; the accounts are what the replay of the chain makes of them, and
\* neither a burn nor a migration is a transaction of the chain.
Crash ==
  /\ "crash" \in Faults
  /\ ants' = Funds
  /\ fees' = 0
  /\ burning' = {}
  /\ signing' = {}
  /\ revealing' = {}
  /\ boot' = Len(burns)
  /\ UNCHANGED <<clock, burns, sigs, released, migrations>>

Next ==
  \/ Bridge!Next /\ UNCHANGED <<migrations, revealing>>
  \/ Migration!Next
     /\ UNCHANGED <<fees, clock, burns, sigs, burning, signing, released, boot>>
  \/ Crash

Spec == Init /\ [][Next]_vars

\* Every table and every account holds what it should, whatever runs between
\* two steps of a request.
TypeOK == Bridge!TypeOK /\ Migration!TypeOK

\* What the vault has paid out since the start has left L1 (see BridgeBurns),
\* though migrations move balances between the two steps of a burn.
PaidIsBurnedSinceStart == Bridge!PaidIsBurnedSinceStart

\* The condition under which NodeServicesProofs proves it: an INSERT that the
\* database has executed is not reported as failed.
FailuresAreReal == "lostAnswer" \notin Faults

\* A burn has one outcome (see BridgeBurns).
OutcomeIsFinal == Bridge!OutcomeIsFinal

\* A revealed migration stays revealed (see WalletMigration).
RevealedIsFinal == Migration!RevealedIsFinal

\* No migrated address is left with a balance (see WalletMigration).
NothingStranded == Migration!NothingStranded
==============================================================================
