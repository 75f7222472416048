--------------------------- MODULE WalletMigration ---------------------------
(***************************************************************************)
(* The migration of a wallet to the address of its signing key: a commit,  *)
(* a reveal and, by an administrator, a cancellation, over the table       *)
(* wallet_migrations and the accounts in memory (src/src/rpc.rs and db.rs, *)
(* NodeState::migrate_legacy_to_secp).                                     *)
(*                                                                         *)
(* A reveal is three steps, with other requests between them: it reads the *)
(* row and checks it, it moves the balance under the write lock, and it    *)
(* writes the row.  A commit is one: the SELECT before its INSERT is only  *)
(* a friendlier answer than the primary key's.                             *)
(*                                                                         *)
(* The key behind a legacy address determines the address it migrates to   *)
(* (SecpOf), so what the reveal derives from the key is what the model     *)
(* compares with the row.  A commitment stands for the nonce in it.  Of an *)
(* account only the balance is kept: activation and sessions move with it  *)
(* (NodeLedger).                                                           *)
(***************************************************************************)
EXTENDS Integers, FiniteSets

CONSTANTS
  Wallets,  \* accounts on L1
  Senders,  \* those with a key that can sign
  Legacy,   \* those with legacy addresses
  SecpOf,   \* the address of the same key
  Nonces,   \* nonces of commitments
  Callers,  \* requests that are served at the same time
  Faults    \* what may go wrong (see NodeServices)

VARIABLES
  ants,       \* ants_balance of the accounts, in memory
  migrations, \* table wallet_migrations, by legacy address
  revealing   \* reveals between two of their steps

NoRow == [status |-> "none"]

Row == {NoRow}
  \cup [status : {"committed"}, secp : Wallets, nonce : Nonces]
  \cup [status : {"revealed"}, secp : Wallets, nonce : Nonces, moved : Nat]

Task == [caller : Callers, legacy : Legacy, step : {"move", "record"}, moved : Nat]

Init ==
  /\ migrations = [l \in Legacy |-> NoRow]
  /\ revealing = {}

------------------------------------------------------------------------------
\* post_wallet_migrate_commit: the row is signed for by its secp address, which
\* need not be that of the legacy address's key.
Commit(legacy, secp, nonce) ==
  /\ migrations[legacy] = NoRow
  /\ migrations' = [migrations EXCEPT ![legacy] =
                      [status |-> "committed", secp |-> secp, nonce |-> nonce]]
  /\ UNCHANGED <<ants, revealing>>

\* post_wallet_migrate_reveal, up to the lock.
Reveal(caller, legacy, nonce) ==
  /\ \A t \in revealing : t.caller # caller
  /\ migrations[legacy].status = "committed"
  /\ migrations[legacy].secp = SecpOf[legacy]
  /\ migrations[legacy].nonce = nonce
  /\ revealing' = revealing \cup {[caller |-> caller, legacy |-> legacy,
                                   step |-> "move", moved |-> 0]}
  /\ UNCHANGED <<ants, migrations>>

\* Mutant of Moved: the legacy account keeps its balance.
Copied(legacy) ==
  [w \in Wallets |-> ants[w] + (IF w = SecpOf[legacy] THEN ants[legacy] ELSE 0)]

\* The balances once the legacy account has been emptied.
Moved(legacy) ==
  [w \in Wallets |-> IF w = legacy THEN 0
                     ELSE ants[w] + (IF w = SecpOf[legacy] THEN ants[legacy] ELSE 0)]

\* migrate_legacy_to_secp, under the write lock; the legacy address has an
\* account.
Move(t) ==
  /\ t.step = "move"
  /\ ants' = Moved(t.legacy)
  /\ revealing' = (revealing \ {t})
       \cup {[t EXCEPT !.step = "record", !.moved = ants[t.legacy]]}
  /\ UNCHANGED migrations

\* complete_wallet_migration: whatever row the address has by now is revealed.
\* Without a row the statement returns nothing and the request fails.
RecordMove(t) ==
  /\ t.step = "record"
  /\ migrations' =
       IF migrations[t.legacy] = NoRow THEN migrations
       ELSE [migrations EXCEPT ![t.legacy] =
               [status |-> "revealed", secp |-> @.secp, nonce |-> @.nonce,
                moved |-> t.moved]]
  /\ revealing' = revealing \ {t}
  /\ UNCHANGED ants

\* The database fails at the last step, or the client disconnects at either.
RecordMoveFails(t) ==
  /\ \/ "db" \in Faults /\ t.step = "record"
     \/ "disconnect" \in Faults
  /\ revealing' = revealing \ {t}
  /\ UNCHANGED <<ants, migrations>>

\* Mutant of Cancellable: the status is not part of the WHERE clause.
Existing(legacy) == migrations[legacy] # NoRow

Cancellable(legacy) == migrations[legacy].status = "committed"

\* post_admin_wallet_migrate_cancel
Cancel(legacy) ==
  /\ Cancellable(legacy)
  /\ migrations' = [migrations EXCEPT ![legacy] = NoRow]
  /\ UNCHANGED <<ants, revealing>>

Next ==
  \/ \E l \in Legacy, s \in Senders, n \in Nonces : Commit(l, s, n)
  \/ \E c \in Callers, l \in Legacy, n \in Nonces : Reveal(c, l, n)
  \/ \E t \in revealing : Move(t) \/ RecordMove(t) \/ RecordMoveFails(t)
  \/ \E l \in Legacy : Cancel(l)

------------------------------------------------------------------------------
(***************************************************************************)
(* Properties.                                                             *)
(***************************************************************************)

\* Every variable holds a value of its type, and a request has one reveal.
TypeOK ==
  /\ ants \in [Wallets -> Nat]
  /\ migrations \in [Legacy -> Row]
  /\ revealing \subseteq Task
  /\ \A t, u \in revealing : t.caller = u.caller => t = u

\* A revealed migration stays revealed, for the same address: no cancellation
\* and no later commit that races a reveal takes its row ("never delete a
\* 'revealed' row").
RevealedIsFinal ==
  [][\A l \in Legacy : migrations[l].status = "revealed" =>
        /\ migrations'[l].status = "revealed"
        /\ migrations'[l].secp = migrations[l].secp]_migrations

\* Nothing is left behind: a legacy address whose migration is on record, and
\* that can for this reason never be migrated again, holds nothing.
NothingStranded ==
  \A l \in Legacy : migrations[l].status = "revealed" => ants[l] = 0
==============================================================================
