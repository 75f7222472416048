----------------------------- MODULE BridgeBurns -----------------------------
(***************************************************************************)
(* The outbound bridge: a wallet burns ANTS on L1, the burn gets a row in  *)
(* the table bridge_burns, the vault's signers post their signatures over  *)
(* it, and whoever holds enough of them has the vault on BSC release the   *)
(* same amount there (src/src/rpc.rs, src/src/db.rs, bridge_vault.rs).     *)
(*                                                                         *)
(* post_bridge_burn debits the account in memory under the write lock,     *)
(* lets the lock go, and awaits the INSERT: a burn is two steps with any   *)
(* other request between them, and post_bridge_burn_sig is two as well.    *)
(* A handler is dropped at its await when its client disconnects; the      *)
(* statement it waited for may still be executed.                          *)
(*                                                                         *)
(* The digest the signers sign is made of columns no statement changes     *)
(* and of the configuration, so a signature is the pair of a burn and a    *)
(* signer.  The vault and the relayer are not part of the repository: the  *)
(* vault is modelled from what bridge_vault.rs says of releaseBurn.        *)
(***************************************************************************)
EXTENDS Integers, Sequences, FiniteSets, Functions

CONSTANTS
  Wallets,    \* accounts on L1
  Senders,    \* those with a key that can sign (legacy addresses have none)
  Funds,      \* their balances as the replay of the chain restores them
  Amounts,    \* amounts of requests
  MaxPerBurn, \* ANET_BRIDGE_MAX_BURN_PER_TX_ANET, in ANTS
  MinFee,     \* MIN_FEE_ANTS
  Callers,    \* requests that are served at the same time
  Signers,    \* BRIDGE_VAULT_SIGNERS
  Threshold,  \* BRIDGE_VAULT_THRESHOLD
  Lifetime,   \* BRIDGE_DEADLINE_SECS
  MaxTime,    \* bound on the clock
  MaxBurns,   \* bound on the number of rows
  Faults      \* what may go wrong (see NodeServices)

VARIABLES
  ants,     \* ants_balance of the accounts, in memory
  fees,     \* fees of burns, paid to validators or the reserve, in memory
  clock,    \* wall-clock time
  burns,    \* table bridge_burns, by burn_id
  sigs,     \* table bridge_burn_signatures
  burning,  \* burns that are debited and wait for their INSERT
  signing,  \* signatures that are checked and wait for theirs
  released, \* external: the burns the vault has paid out
  boot      \* history: the number of rows when the process was started

Row == [sender : Wallets, amount : Nat \ {0}, deadline : Nat,
        status : {"pending", "released", "failed"}]

Signature == [burn : Nat \ {0}, signer : Signers]

Task == [caller : Callers, sender : Wallets, amount : Nat \ {0}, deadline : Nat]

Init ==
  /\ ants = Funds
  /\ fees = 0
  /\ clock = 0
  /\ burns = << >>
  /\ sigs = {}
  /\ burning = {}
  /\ signing = {}
  /\ released = {}
  /\ boot = 0

------------------------------------------------------------------------------
(***************************************************************************)
(* post_bridge_burn.                                                       *)
(***************************************************************************)

Payable(sender, amount) == ants[sender] >= amount + MinFee

\* The debit of bridge_burn_anet.  Who gets the fee is in NodeLedger.
Burn(caller, sender, amount) ==
  /\ amount \in 1 .. MaxPerBurn
  /\ \A t \in burning : t.caller # caller
  /\ Len(burns) + Cardinality(burning) < MaxBurns
  /\ Payable(sender, amount)
  /\ fees' = fees + MinFee
  /\ ants' = [ants EXCEPT ![sender] = @ - (amount + MinFee)]
  /\ burning' = burning \cup {[caller |-> caller, sender |-> sender,
                               amount |-> amount, deadline |-> clock + Lifetime]}
  /\ UNCHANGED <<clock, burns, sigs, signing, released, boot>>

\* The table with the row of a task.
Recorded(t) ==
  Append(burns, [sender |-> t.sender, amount |-> t.amount,
                 deadline |-> t.deadline, status |-> "pending"])

RecordBurn(t) ==
  /\ burns' = Recorded(t)
  /\ burning' = burning \ {t}
  /\ UNCHANGED <<ants, fees, clock, sigs, signing, released, boot>>

\* Whether a statement without an answer was executed.
Outcomes == IF "lostAnswer" \in Faults THEN {TRUE, FALSE} ELSE {FALSE}

\* Mutant of Recredited: the handler and its caller both give the amount back.
RecreditedTwice(t) == [ants EXCEPT ![t.sender] = @ + 2 * t.amount]

\* What a failed burn gives back, by admin_credit_anet_test: not the fee.
Recredited(t) == [ants EXCEPT ![t.sender] = @ + t.amount]

RecordFails(t) ==
  /\ "db" \in Faults
  /\ \E executed \in Outcomes : burns' = IF executed THEN Recorded(t) ELSE burns
  /\ ants' = Recredited(t)
  /\ burning' = burning \ {t}
  /\ UNCHANGED <<fees, clock, sigs, signing, released, boot>>

\* The client disconnects: nobody reads the answer to the INSERT.
AbandonBurn(t) ==
  /\ "disconnect" \in Faults
  /\ burns' \in {burns, Recorded(t)}
  /\ burning' = burning \ {t}
  /\ UNCHANGED <<ants, fees, clock, sigs, signing, released, boot>>

------------------------------------------------------------------------------
(***************************************************************************)
(* post_bridge_burn_sig.                                                   *)
(***************************************************************************)
Sign(burn, signer) ==
  /\ burn \in DOMAIN burns
  /\ burns[burn].status = "pending"
  /\ burns[burn].deadline >= clock
  /\ signing' = signing \cup {[burn |-> burn, signer |-> signer]}
  /\ UNCHANGED <<ants, fees, clock, burns, sigs, burning, released, boot>>

\* A signer has one row for a burn, whatever is posted again.
RecordSignature(s) ==
  /\ sigs' = sigs \cup {s}
  /\ signing' = signing \ {s}
  /\ UNCHANGED <<ants, fees, clock, burns, burning, released, boot>>

SignatureFails(s) ==
  /\ "db" \in Faults
  /\ signing' = signing \ {s}
  /\ UNCHANGED <<ants, fees, clock, burns, sigs, burning, released, boot>>

------------------------------------------------------------------------------
(***************************************************************************)
(* The vault, and the callbacks of the relayer.                            *)
(***************************************************************************)

\* releaseBurn on BSC, by whoever has the signatures: once for each burn, and
\* until its deadline.
Release(burn) ==
  /\ burn \in DOMAIN burns \ released
  /\ Cardinality({s \in sigs : s.burn = burn}) >= Threshold
  /\ clock <= burns[burn].deadline
  /\ released' = released \cup {burn}
  /\ UNCHANGED <<ants, fees, clock, burns, sigs, burning, signing, boot>>

\* Mutant of Open: the status is not part of the WHERE clause.
Known(burn) == burn \in DOMAIN burns

\* The rows the two UPDATE statements apply to.
Open(burn) == burn \in DOMAIN burns /\ burns[burn].status = "pending"

\* post_bridge_burn_released; the relayer calls it after the release.
MarkReleased(burn) ==
  /\ Open(burn)
  /\ burn \in released
  /\ burns' = [burns EXCEPT ![burn].status = "released"]
  /\ UNCHANGED <<ants, fees, clock, sigs, burning, signing, released, boot>>

\* post_bridge_burn_failed, after a release that was reverted.  Nothing is
\* credited; the signatures stay.
MarkFailed(burn) ==
  /\ Open(burn)
  /\ burns' = [burns EXCEPT ![burn].status = "failed"]
  /\ UNCHANGED <<ants, fees, clock, sigs, burning, signing, released, boot>>

------------------------------------------------------------------------------
Tick ==
  /\ clock < MaxTime
  /\ clock' = clock + 1
  /\ UNCHANGED <<ants, fees, burns, sigs, burning, signing, released, boot>>

Next ==
  \/ \E c \in Callers, w \in Senders, a \in Amounts : Burn(c, w, a)
  \/ \E t \in burning : RecordBurn(t) \/ RecordFails(t) \/ AbandonBurn(t)
  \/ \E b \in 1 .. MaxBurns, s \in Signers : Sign(b, s)
  \/ \E s \in signing : RecordSignature(s) \/ SignatureFails(s)
  \/ \E b \in 1 .. MaxBurns : Release(b) \/ MarkReleased(b) \/ MarkFailed(b)
  \/ Tick

------------------------------------------------------------------------------
(***************************************************************************)
(* Properties.                                                             *)
(***************************************************************************)

\* Every variable holds a value of its type; no account goes below zero.
TypeOK ==
  /\ ants \in [Wallets -> Nat]
  /\ fees \in Nat
  /\ clock \in Nat
  /\ burns \in Seq(Row)
  /\ sigs \subseteq Signature
  /\ burning \subseteq Task
  /\ signing \subseteq Signature
  /\ released \subseteq Nat \ {0}
  /\ boot \in Nat

Supply(balance) == SumFunctionOnSet(balance, Wallets)
Paid(bs) == SumFunctionOnSet([b \in bs |-> burns[b].amount], bs)

\* What circulates on L1 and what the vault has paid on BSC never exceed what
\* there was on L1: ANTS that are paid out over there are gone over here ("the
\* L1 supply has already been decreased by the time this row exists").
PaidIsBurned == Supply(ants) + fees + Paid(released) <= Supply(Funds)

\* The same for the burns since the process was started: a restart brings the
\* ANTS of earlier burns back.
PaidIsBurnedSinceStart ==
  Supply(ants) + fees + Paid({b \in released : b > boot}) <= Supply(Funds)

\* A burn has one outcome: once a callback of the relayer has set it, no other
\* callback, late or repeated, changes it.
OutcomeIsFinal ==
  [][\A b \in DOMAIN burns : burns[b].status # "pending" =>
        burns'[b].status = burns[b].status]_burns
==============================================================================
