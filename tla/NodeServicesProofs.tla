-------------------------- MODULE NodeServicesProofs --------------------------
(***************************************************************************)
(* Proofs about NodeServices, for any number of wallets, requests, signers *)
(* and burns, and whatever may go wrong: the types, that a row that has    *)
(* reached its last status keeps it, and that what the vault has paid out  *)
(* since the start had been debited.                                       *)
(***************************************************************************)
EXTENDS NodeServices, SequenceTheorems, SumTheorems, TLAPS

bridgeVars == <<fees, clock, burns, sigs, burning, signing, released, boot>>
migrationVars == <<migrations, revealing>>

------------------------------------------------------------------------------
(***************************************************************************)
(* The bridge.                                                             *)
(***************************************************************************)

\* The debit of a burn keeps the types: it is checked.
LEMMA BurnKeepsTypes ==
  ASSUME NodeServicesAssumption, Bridge!TypeOK,
         NEW c \in Callers, NEW w \in Senders, NEW a \in Amounts,
         Bridge!Burn(c, w, a)
  PROVE  Bridge!TypeOK'
<1> DEFINE t == [caller |-> c, sender |-> w, amount |-> a,
                 deadline |-> clock + Lifetime]
<1>1. w \in Wallets /\ a \in Nat \ {0} /\ ants[w] >= a + MinFee
  BY DEF NodeServicesAssumption, Bridge!Burn, Bridge!Payable
<1>2. t \in Bridge!Task
  BY <1>1 DEF NodeServicesAssumption, Bridge!TypeOK, Bridge!Task
<1>3. ants' \in [Wallets -> Nat]
  BY <1>1 DEF NodeServicesAssumption, Bridge!Burn, Bridge!TypeOK
<1>4. fees' \in Nat
  BY DEF NodeServicesAssumption, Bridge!Burn, Bridge!TypeOK
<1>5. burning' \subseteq Bridge!Task
  BY <1>2 DEF Bridge!Burn, Bridge!TypeOK
<1>. QED
  BY <1>3, <1>4, <1>5 DEF Bridge!Burn, Bridge!TypeOK

\* So does its second step, in whatever way it ends.
LEMMA RecordKeepsTypes ==
  ASSUME Bridge!TypeOK, NEW t \in burning,
         \/ Bridge!RecordBurn(t)
         \/ Bridge!RecordFails(t)
         \/ Bridge!AbandonBurn(t)
  PROVE  Bridge!TypeOK'
<1>1. t \in Bridge!Task
  BY DEF Bridge!TypeOK
<1>2. Bridge!Recorded(t) \in Seq(Bridge!Row)
  BY <1>1 DEF Bridge!TypeOK, Bridge!Task, Bridge!Recorded, Bridge!Row
<1>3. burns' \in Seq(Bridge!Row)
  BY <1>2 DEF Bridge!TypeOK, Bridge!RecordBurn, Bridge!RecordFails,
              Bridge!AbandonBurn
<1>4. ants' \in [Wallets -> Nat]
  BY <1>1 DEF Bridge!TypeOK, Bridge!Task, Bridge!RecordBurn,
              Bridge!RecordFails, Bridge!AbandonBurn, Bridge!Recredited
<1>. QED
  BY <1>3, <1>4 DEF Bridge!TypeOK, Bridge!RecordBurn, Bridge!RecordFails,
                    Bridge!AbandonBurn

\* Every step of the bridge keeps the types.
LEMMA BridgeKeepsTypes ==
  ASSUME NodeServicesAssumption, Bridge!TypeOK, Bridge!Next
  PROVE  Bridge!TypeOK'
<1>1. CASE \E c \in Callers, w \in Senders, a \in Amounts : Bridge!Burn(c, w, a)
  BY <1>1, BurnKeepsTypes
<1>2. CASE \E t \in burning : \/ Bridge!RecordBurn(t)
                              \/ Bridge!RecordFails(t)
                              \/ Bridge!AbandonBurn(t)
  BY <1>2, RecordKeepsTypes
<1>3. CASE \E b \in 1 .. MaxBurns, s \in Signers : Bridge!Sign(b, s)
  <2>1. PICK b \in 1 .. MaxBurns, s \in Signers : Bridge!Sign(b, s)
    BY <1>3
  <2>2. [burn |-> b, signer |-> s] \in Bridge!Signature
    BY DEF NodeServicesAssumption, Bridge!Signature
  <2>. QED
    BY <2>1, <2>2 DEF Bridge!TypeOK, Bridge!Sign
<1>4. CASE \E s \in signing : Bridge!RecordSignature(s) \/ Bridge!SignatureFails(s)
  BY <1>4 DEF Bridge!TypeOK, Bridge!RecordSignature, Bridge!SignatureFails
<1>5. CASE \E b \in 1 .. MaxBurns : Bridge!Release(b)
  BY <1>5 DEF NodeServicesAssumption, Bridge!TypeOK, Bridge!Release
<1>6. CASE \E b \in 1 .. MaxBurns : Bridge!MarkReleased(b) \/ Bridge!MarkFailed(b)
  <2>1. PICK b \in 1 .. MaxBurns : Bridge!MarkReleased(b) \/ Bridge!MarkFailed(b)
    BY <1>6
  <2>2. b \in DOMAIN burns /\ burns[b] \in Bridge!Row
    BY <2>1 DEF Bridge!TypeOK, Bridge!MarkReleased, Bridge!MarkFailed, Bridge!Open
  <2>3. PICK r \in Bridge!Row : burns' = [burns EXCEPT ![b] = r]
    <3>1. /\ [burns[b] EXCEPT !.status = "released"] \in Bridge!Row
          /\ [burns[b] EXCEPT !.status = "failed"] \in Bridge!Row
      BY <2>2 DEF Bridge!Row
    <3>. QED
      BY <2>1, <3>1 DEF Bridge!MarkReleased, Bridge!MarkFailed
  <2>4. burns' \in Seq(Bridge!Row)
    BY <2>2, <2>3 DEF Bridge!TypeOK
  <2>. QED
    BY <2>1, <2>4 DEF Bridge!TypeOK, Bridge!MarkReleased, Bridge!MarkFailed
<1>7. CASE Bridge!Tick
  BY <1>7 DEF Bridge!TypeOK, Bridge!Tick
<1>. QED
  BY <1>1, <1>2, <1>3, <1>4, <1>5, <1>6, <1>7 DEF Bridge!Next

------------------------------------------------------------------------------
(***************************************************************************)
(* The migration of wallets.                                               *)
(***************************************************************************)

\* What a row may hold, by its status.
LEMMA RowsByStatus ==
  ASSUME NEW r \in Migration!Row
  PROVE  /\ r = Migration!NoRow <=> r.status = "none"
         /\ r.status = "committed" =>
              r \in [status : {"committed"}, secp : Wallets, nonce : Nonces]
         /\ r.status = "revealed" =>
              r \in [status : {"revealed"}, secp : Wallets, nonce : Nonces,
                     moved : Nat]
         /\ r # Migration!NoRow => r.secp \in Wallets /\ r.nonce \in Nonces
         /\ r.status \in {"none", "committed", "revealed"}
BY DEF Migration!Row, Migration!NoRow

\* The two steps of a reveal after its checks, and its failures, keep the types.
LEMMA RevealStepKeepsTypes ==
  ASSUME NodeServicesAssumption, Migration!TypeOK, NEW t \in revealing,
         \/ Migration!Move(t)
         \/ Migration!RecordMove(t)
         \/ Migration!RecordMoveFails(t)
  PROVE  Migration!TypeOK'
<1>1. t \in Migration!Task /\ t.legacy \in Legacy /\ t.legacy \in Wallets
  BY DEF NodeServicesAssumption, Migration!TypeOK, Migration!Task
<1>2. CASE Migration!Move(t)
  <2>1. ants[t.legacy] \in Nat
    BY <1>1 DEF Migration!TypeOK
  <2>2. Migration!Moved(t.legacy) \in [Wallets -> Nat]
    BY <2>1 DEF Migration!TypeOK, Migration!Moved
  <2> DEFINE u == [t EXCEPT !.step = "record", !.moved = ants[t.legacy]]
  <2>3. u \in Migration!Task /\ u.caller = t.caller
    BY <1>1, <2>1 DEF Migration!Task
  <2>4. revealing' = (revealing \ {t}) \cup {u}
    BY <1>2 DEF Migration!Move
  <2>5. \A x, y \in revealing' : x.caller = y.caller => x = y
    BY <2>3, <2>4 DEF Migration!TypeOK
  <2>. QED
    BY <1>2, <2>2, <2>3, <2>4, <2>5 DEF Migration!TypeOK, Migration!Move
<1>3. CASE Migration!RecordMove(t)
  <2>1. migrations' \in [Legacy -> Migration!Row]
    <3>1. CASE migrations[t.legacy] = Migration!NoRow
      BY <1>3, <3>1 DEF Migration!TypeOK, Migration!RecordMove
    <3>2. CASE migrations[t.legacy] # Migration!NoRow
      <4> DEFINE r == migrations[t.legacy]
                 q == [status |-> "revealed", secp |-> r.secp,
                       nonce |-> r.nonce, moved |-> t.moved]
      <4>1. r.secp \in Wallets /\ r.nonce \in Nonces
        BY <1>1, <3>2, RowsByStatus DEF Migration!TypeOK
      <4>2. q \in Migration!Row
        BY <1>1, <4>1 DEF Migration!Row, Migration!Task
      <4>3. migrations' = [migrations EXCEPT ![t.legacy] = q]
        BY <1>3, <3>2 DEF Migration!RecordMove
      <4>. QED
        BY <1>1, <4>2, <4>3 DEF Migration!TypeOK
    <3>. QED
      BY <3>1, <3>2
  <2>. QED
    BY <1>3, <2>1 DEF Migration!TypeOK, Migration!RecordMove
<1>4. CASE Migration!RecordMoveFails(t)
  BY <1>4 DEF Migration!TypeOK, Migration!RecordMoveFails
<1>. QED
  BY <1>2, <1>3, <1>4

\* Every step of a migration keeps the types.
LEMMA MigrationKeepsTypes ==
  ASSUME NodeServicesAssumption, Migration!TypeOK, Migration!Next
  PROVE  Migration!TypeOK'
<1>1. ASSUME NEW l \in Legacy, NEW s \in Senders, NEW n \in Nonces,
             Migration!Commit(l, s, n)
      PROVE  Migration!TypeOK'
  <2>1. [status |-> "committed", secp |-> s, nonce |-> n] \in Migration!Row
    BY DEF NodeServicesAssumption, Migration!Row
  <2>. QED
    BY <1>1, <2>1 DEF Migration!TypeOK, Migration!Commit
<1>2. ASSUME NEW c \in Callers, NEW l \in Legacy, NEW n \in Nonces,
             Migration!Reveal(c, l, n)
      PROVE  Migration!TypeOK'
  <2> DEFINE t == [caller |-> c, legacy |-> l, step |-> "move", moved |-> 0]
  <2>1. t \in Migration!Task
    BY DEF Migration!Task
  <2>. QED
    BY <1>2, <2>1 DEF Migration!TypeOK, Migration!Reveal
<1>3. CASE \E t \in revealing : \/ Migration!Move(t)
                                \/ Migration!RecordMove(t)
                                \/ Migration!RecordMoveFails(t)
  BY <1>3, RevealStepKeepsTypes
<1>4. ASSUME NEW l \in Legacy, Migration!Cancel(l)
      PROVE  Migration!TypeOK'
  <2>1. Migration!NoRow \in Migration!Row
    BY DEF Migration!Row
  <2>. QED
    BY <1>4, <2>1 DEF Migration!TypeOK, Migration!Cancel
<1>. QED
  BY <1>1, <1>2, <1>3, <1>4 DEF Migration!Next

------------------------------------------------------------------------------
(***************************************************************************)
(* The two together.                                                       *)
(***************************************************************************)

\* The types hold from the start and after every step.
LEMMA TypesInductive ==
  /\ NodeServicesAssumption /\ Init => TypeOK
  /\ NodeServicesAssumption /\ TypeOK /\ [Next]_vars => TypeOK'
<1>1. ASSUME NodeServicesAssumption, Init
      PROVE  TypeOK
  BY <1>1 DEF NodeServicesAssumption, Init, Bridge!Init, Migration!Init, TypeOK,
              Bridge!TypeOK, Migration!TypeOK, Migration!Row, Migration!NoRow
<1>2. ASSUME NodeServicesAssumption, TypeOK, [Next]_vars
      PROVE  TypeOK'
  <2>1. CASE Bridge!Next /\ UNCHANGED migrationVars
    <3>1. Bridge!TypeOK'
      BY <1>2, <2>1, BridgeKeepsTypes DEF TypeOK
    <3>2. Migration!TypeOK'
      BY <1>2, <2>1, <3>1 DEF TypeOK, Bridge!TypeOK, Migration!TypeOK, migrationVars
    <3>. QED
      BY <3>1, <3>2 DEF TypeOK
  <2>2. CASE Migration!Next /\ UNCHANGED bridgeVars
    <3>1. Migration!TypeOK'
      BY <1>2, <2>2, MigrationKeepsTypes DEF TypeOK
    <3>2. Bridge!TypeOK'
      BY <1>2, <2>2, <3>1 DEF TypeOK, Bridge!TypeOK, Migration!TypeOK, bridgeVars
    <3>. QED
      BY <3>1, <3>2 DEF TypeOK
  <2>3. CASE Crash
    BY <1>2, <2>3 DEF NodeServicesAssumption, TypeOK, Bridge!TypeOK,
                      Migration!TypeOK, Crash
  <2>4. CASE UNCHANGED vars
    BY <1>2, <2>4 DEF TypeOK, Bridge!TypeOK, Migration!TypeOK, vars
  <2>. QED
    BY <1>2, <2>1, <2>2, <2>3, <2>4 DEF Next, migrationVars, bridgeVars
<1>. QED
  BY <1>1, <1>2

\* Accounts stay natural numbers and every row a row of its table, whatever the
\* requests of the bridge and of migrations do between one another's steps, and
\* a request has one reveal under way.
THEOREM ServicesTypeCorrect == Spec => []TypeOK
BY TypesInductive, NodeServicesAssumption, PTL DEF Spec

\* A row of bridge_burns whose status a callback has set keeps it: the WHERE
\* clauses of the two UPDATE statements are enough, in whatever order callbacks
\* arrive and with whatever INSERT in flight.
THEOREM BurnOutcomesAreFinal == Spec => OutcomeIsFinal
<1> DEFINE Final == \A b \in DOMAIN burns : burns[b].status # "pending" =>
                       burns'[b].status = burns[b].status
<1>1. ASSUME TypeOK, [Next]_vars
      PROVE  [Final]_burns
  <2>1. burns \in Seq(Bridge!Row)
    BY <1>1 DEF TypeOK, Bridge!TypeOK
  <2>2. ASSUME NEW t \in burning, burns' = Bridge!Recorded(t)
        PROVE  Final
    BY <2>1, <2>2 DEF Bridge!Recorded
  <2>3. ASSUME NEW b, Bridge!MarkReleased(b) \/ Bridge!MarkFailed(b)
        PROVE  Final
    BY <2>1, <2>3 DEF Bridge!MarkReleased, Bridge!MarkFailed, Bridge!Open
  <2>4. CASE Bridge!Next
    BY <2>2, <2>3, <2>4
       DEF Bridge!Next, Bridge!Burn, Bridge!RecordBurn, Bridge!RecordFails,
           Bridge!AbandonBurn, Bridge!Sign, Bridge!RecordSignature,
           Bridge!SignatureFails, Bridge!Release, Bridge!Tick
  <2>5. CASE UNCHANGED burns
    BY <2>5
  <2>. QED
    BY <1>1, <2>4, <2>5 DEF Next, Crash, vars
<1>. QED
  BY <1>1, ServicesTypeCorrect, PTL DEF Spec, OutcomeIsFinal, Bridge!OutcomeIsFinal

\* A revealed migration stays revealed, for the same address, although a reveal
\* acts on a status it has read before: neither a cancellation nor another
\* reveal that passed the same check takes the row away.
THEOREM RevealsAreFinal == Spec => RevealedIsFinal
<1> DEFINE Final == \A l \in Legacy : migrations[l].status = "revealed" =>
                       /\ migrations'[l].status = "revealed"
                       /\ migrations'[l].secp = migrations[l].secp
<1>1. ASSUME TypeOK, [Next]_vars
      PROVE  [Final]_migrations
  <2>1. migrations \in [Legacy -> Migration!Row]
    BY <1>1 DEF TypeOK, Migration!TypeOK
  <2>2. ASSUME NEW l \in Legacy, NEW s, NEW n, Migration!Commit(l, s, n)
        PROVE  Final
    <3>1. migrations[l].status = "none"
      BY <2>2 DEF Migration!Commit, Migration!NoRow
    <3>. QED
      BY <2>1, <2>2, <3>1 DEF Migration!Commit
  <2>3. ASSUME NEW t \in revealing, Migration!RecordMove(t)
        PROVE  Final
    BY <2>1, <2>3 DEF Migration!RecordMove
  <2>4. ASSUME NEW l \in Legacy, Migration!Cancel(l)
        PROVE  Final
    BY <2>1, <2>4 DEF Migration!Cancel, Migration!Cancellable
  <2>5. CASE Migration!Next
    BY <2>2, <2>3, <2>4, <2>5
       DEF Migration!Next, Migration!Reveal, Migration!Move,
           Migration!RecordMoveFails
  <2>6. CASE UNCHANGED migrations
    BY <2>6
  <2>. QED
    BY <1>1, <2>5, <2>6 DEF Next, Crash, vars
<1>. QED
  BY <1>1, ServicesTypeCorrect, PTL
     DEF Spec, RevealedIsFinal, Migration!RevealedIsFinal

------------------------------------------------------------------------------
(***************************************************************************)
(* What is paid out has been debited.  The balances, the fees, the burns   *)
(* that are debited and wait for their row, and the rows written since the *)
(* start never add up to more than there was at the start: a burn moves    *)
(* its amount from the first of these to the third and to the fourth, and  *)
(* a failure or a disconnect only loses it or gives it back.               *)
(***************************************************************************)
Circulating == SumFunctionOnSet(ants, Wallets)

Owing == [t \in burning |-> t.amount]
Owed == SumFunctionOnSet(Owing, burning)

Since == boot + 1 .. Len(burns)
Rows == [b \in Since |-> burns[b].amount]
Recent == SumFunctionOnSet(Rows, Since)

AtStart == SumFunctionOnSet(Funds, Wallets)

\* The tables and the tasks fit together.
TasksOK == /\ IsFiniteSet(burning)
           /\ boot <= Len(burns)
           /\ released \subseteq DOMAIN burns

DebitsInv == TasksOK /\ Circulating + fees + Owed + Recent <= AtStart

\* The four are natural numbers.
LEMMA SumsAreNatural ==
  ASSUME NodeServicesAssumption, Bridge!TypeOK, TasksOK
  PROVE  /\ Summable(ants, Wallets) /\ Summable(Owing, burning)
         /\ Summable(Rows, Since)
         /\ Circulating \in Nat /\ fees \in Nat /\ Owed \in Nat /\ Recent \in Nat
         /\ AtStart \in Nat
         /\ \A b \in Since : b \in DOMAIN burns /\ Rows[b] \in Nat
<1>1. IsFiniteSet(Wallets) /\ \A w \in Wallets : ants[w] \in Nat /\ Funds[w] \in Nat
  BY DEF NodeServicesAssumption, Bridge!TypeOK
<1>2. IsFiniteSet(burning) /\ \A t \in burning : Owing[t] \in Nat
  BY DEF TasksOK, Owing, Bridge!TypeOK, Bridge!Task
<1>3. IsFiniteSet(Since)
  BY FS_Interval DEF Since, Bridge!TypeOK
<1>4. \A b \in Since : b \in DOMAIN burns /\ Rows[b] \in Nat
  <2> SUFFICES ASSUME NEW b \in Since PROVE b \in DOMAIN burns /\ Rows[b] \in Nat
    OBVIOUS
  <2>1. b \in DOMAIN burns
    BY DEF Since, Bridge!TypeOK
  <2>2. burns[b] \in Bridge!Row
    BY <2>1 DEF Bridge!TypeOK
  <2> QED  BY <2>1, <2>2 DEF Rows, Bridge!Row
<1>5. fees \in Nat
  BY DEF Bridge!TypeOK
<1>6. Circulating \in Nat /\ AtStart \in Nat
  BY <1>1, SumNat DEF Circulating, AtStart
<1>7. Owed \in Nat /\ Recent \in Nat
  BY <1>2, <1>3, <1>4, SumNat DEF Owed, Recent
<1>8. Summable(ants, Wallets) /\ Summable(Owing, burning) /\ Summable(Rows, Since)
  BY <1>1, <1>2, <1>3, <1>4 DEF Summable
<1> QED  BY <1>4, <1>5, <1>6, <1>7, <1>8

\* A burn waits for its row.
LEMMA OwedGrows ==
  ASSUME NodeServicesAssumption, Bridge!TypeOK, TasksOK,
         NEW t, t \notin burning, t.amount \in Nat, burning' = burning \cup {t}
  PROVE  Owed' = t.amount + Owed /\ IsFiniteSet(burning')
<1> DEFINE f == [u \in burning' |-> u.amount]
<1>1. Summable(Owing, burning)
  BY SumsAreNatural
<1>2. Summable(f, burning) /\ f[t] \in Int /\ \A u \in burning : f[u] = Owing[u]
  BY <1>1 DEF Summable, Owing
<1>3. SumFunctionOnSet(f, burning \cup {t}) = f[t] + SumFunctionOnSet(f, burning)
  BY <1>2, SumInsert
<1>4. SumFunctionOnSet(f, burning) = Owed
  BY <1>1, <1>2, SumSame DEF Owed
<1>5. Owing' = f /\ f[t] = t.amount
  BY DEF Owing
<1>6. IsFiniteSet(burning')
  BY FS_AddElement DEF TasksOK
<1> QED  BY <1>3, <1>4, <1>5, <1>6 DEF Owed

\* Its task ends.
LEMMA OwedShrinks ==
  ASSUME NodeServicesAssumption, Bridge!TypeOK, TasksOK,
         NEW t \in burning, burning' = burning \ {t}
  PROVE  Owed = t.amount + Owed' /\ Owed' \in Nat /\ IsFiniteSet(burning')
<1>1. Summable(Owing, burning) /\ \A u \in burning : u.amount \in Nat
  BY SumsAreNatural DEF Bridge!TypeOK, Bridge!Task
<1>2. Owed = Owing[t] + SumFunctionOnSet(Owing, burning \ {t})
  BY <1>1, SumRemove DEF Owed
<1>3. IsFiniteSet(burning \ {t})
  BY FS_Subset DEF TasksOK
<1>4. Summable(Owing, burning \ {t})
  <2>1. \A u \in burning \ {t} : Owing[u] \in Int
    BY <1>1 DEF Summable
  <2> QED  BY <1>3, <2>1 DEF Summable
<1>5. \A u \in burning \ {t} : Owing[u] = Owing'[u] /\ Owing'[u] \in Nat
  BY <1>1 DEF Owing
<1>6. SumFunctionOnSet(Owing, burning \ {t}) = SumFunctionOnSet(Owing', burning \ {t})
  BY <1>4, <1>5, SumSame
<1>7. SumFunctionOnSet(Owing', burning \ {t}) \in Nat
  BY <1>3, <1>5, SumNat
<1> QED  BY <1>2, <1>3, <1>6, <1>7 DEF Owed, Owing

\* A row is written.
LEMMA RecentGrows ==
  ASSUME NodeServicesAssumption, Bridge!TypeOK, TasksOK, UNCHANGED boot,
         NEW r, r.amount \in Nat, burns' = Append(burns, r)
  PROVE  Recent' = r.amount + Recent
<1> DEFINE n == Len(burns) + 1
<1>1. Summable(Rows, Since)
  BY SumsAreNatural
<1>2. Len(burns) \in Nat /\ boot \in Nat /\ boot <= Len(burns)
  BY DEF Bridge!TypeOK, TasksOK
<1>3. Len(burns') = n /\ burns'[n] = r
  BY AppendProperties DEF Bridge!TypeOK
<1>4. Since' = Since \cup {n} /\ n \notin Since
  BY <1>2, <1>3 DEF Since
<1>5. \A b \in Since : Rows'[b] = Rows[b]
  <2> SUFFICES ASSUME NEW b \in Since PROVE Rows'[b] = Rows[b]
    OBVIOUS
  <2>1. b \in 1 .. Len(burns)
    BY <1>2 DEF Since
  <2>2. burns'[b] = burns[b]
    BY <2>1, AppendProperties DEF Bridge!TypeOK
  <2> QED  BY <1>4, <2>2 DEF Rows
<1>6. Rows'[n] = r.amount
  BY <1>3, <1>4 DEF Rows
<1> HIDE DEF n
<1>7. Summable(Rows', Since)
  BY <1>1, <1>5 DEF Summable
<1>8. SumFunctionOnSet(Rows', Since \cup {n}) = Rows'[n] + SumFunctionOnSet(Rows', Since)
  BY <1>4, <1>6, <1>7, SumInsert
<1>9. SumFunctionOnSet(Rows', Since) = Recent
  BY <1>1, <1>5, SumSame DEF Recent
<1> QED  BY <1>4, <1>6, <1>8, <1>9 DEF Recent

\* A row gets its last status, or nothing happens to the table.
LEMMA RecentStays ==
  ASSUME NodeServicesAssumption, Bridge!TypeOK, TasksOK, UNCHANGED boot,
         DOMAIN burns' = DOMAIN burns, Len(burns') = Len(burns),
         \A b \in DOMAIN burns : burns'[b].amount = burns[b].amount
  PROVE  Recent' = Recent
<1>1. Summable(Rows, Since) /\ Since' = Since
  BY SumsAreNatural DEF Since
<1>2. \A b \in Since : Rows'[b] = Rows[b]
  BY <1>1, SumsAreNatural DEF Rows
<1> QED  BY <1>1, <1>2, SumSame DEF Recent

\* The sums of BridgeBurns are those of this module.
LEMMA SameSums ==
  ASSUME NEW f, NEW S
  PROVE  Bridge!SumFunctionOnSet(f, S) = SumFunctionOnSet(f, S)
BY DEF Bridge!SumFunctionOnSet, Bridge!FoldFunctionOnSet, Bridge!MapThenFoldSet,
       SumFunctionOnSet, FoldFunctionOnSet, MapThenFoldSet

\* What is paid out is among the rows since the start.
LEMMA PaidIsRecent ==
  ASSUME NodeServicesAssumption, Bridge!TypeOK, DebitsInv
  PROVE  PaidIsBurnedSinceStart
<1> DEFINE paid == {b \in released : b > boot}
           f == [b \in paid |-> burns[b].amount]
<1>1. paid \in SUBSET Since
  <2>1. ASSUME NEW b \in released, b > boot PROVE b \in Since
    <3>1. Len(burns) \in Nat /\ boot \in Nat /\ b \in 1 .. Len(burns)
      BY DEF DebitsInv, TasksOK, Bridge!TypeOK
    <3> QED  BY <2>1, <3>1 DEF Since
  <2> QED  BY <2>1
<1>2. /\ IsFiniteSet(Since) /\ \A b \in Since : Rows[b] \in Nat
      /\ Circulating \in Nat /\ fees \in Nat /\ Owed \in Nat /\ Recent \in Nat
      /\ AtStart \in Nat
  BY SumsAreNatural DEF DebitsInv, Summable
<1>3. SumFunctionOnSet(Rows, paid) <= Recent
  BY <1>1, <1>2, SumPart DEF Recent
<1>4. IsFiniteSet(paid) /\ \A b \in paid : Rows[b] \in Nat /\ f[b] = Rows[b]
  BY <1>1, <1>2, FS_Subset DEF Rows
<1> HIDE DEF f, paid
<1>5. SumFunctionOnSet(Rows, paid) = SumFunctionOnSet(f, paid) /\ SumFunctionOnSet(f, paid) \in Nat
  BY <1>4, SumSame, SumNat DEF Summable
<1>6. Circulating + fees + SumFunctionOnSet(f, paid) <= AtStart
  BY <1>2, <1>3, <1>5 DEF DebitsInv
<1>7. /\ Bridge!Supply(ants) = Circulating /\ Bridge!Supply(Funds) = AtStart
      /\ Bridge!Paid(paid) = SumFunctionOnSet(f, paid)
  BY SameSums DEF f, Bridge!Supply, Bridge!Paid, Circulating, AtStart
<1> QED  BY <1>6, <1>7 DEF paid, PaidIsBurnedSinceStart, Bridge!PaidIsBurnedSinceStart

\* A step that changes neither the accounts, the tasks nor the amounts.
LEMMA NothingDebited ==
  ASSUME NodeServicesAssumption, Bridge!TypeOK, DebitsInv,
         UNCHANGED <<ants, fees, burning, boot>>,
         DOMAIN burns' = DOMAIN burns, Len(burns') = Len(burns),
         \A b \in DOMAIN burns : burns'[b].amount = burns[b].amount,
         released' \subseteq DOMAIN burns
  PROVE  DebitsInv'
<1>1. TasksOK /\ TasksOK'
  BY DEF DebitsInv, TasksOK
<1>2. Recent' = Recent
  BY <1>1, RecentStays
<1>3. Circulating' = Circulating /\ Owed' = Owed /\ AtStart' = AtStart
  BY DEF Circulating, Owed, Owing, AtStart
<1> QED  BY <1>1, <1>2, <1>3 DEF DebitsInv

\* The amount leaves the account for the task, and the fee for the fees.
LEMMA BurnDebits ==
  ASSUME NodeServicesAssumption, Bridge!TypeOK, DebitsInv,
         NEW c \in Callers, NEW w \in Senders, NEW a \in Amounts,
         Bridge!Burn(c, w, a)
  PROVE  DebitsInv'
<1> DEFINE t == [caller |-> c, sender |-> w, amount |-> a,
                 deadline |-> clock + Lifetime]
<1>1. /\ a \in Nat /\ MinFee \in Nat /\ w \in Wallets /\ t.amount = a /\ t.caller = c
      /\ \A u \in burning : u.caller # c
      /\ burning' = burning \cup {t} /\ fees' = fees + MinFee
      /\ UNCHANGED <<burns, released, boot>>
  BY DEF Bridge!Burn, NodeServicesAssumption
<1> HIDE DEF t
<1>2. TasksOK
  BY DEF DebitsInv
<1>3. Owed' = a + Owed /\ IsFiniteSet(burning')
  BY <1>1, <1>2, OwedGrows
<1>4. Circulating' = Circulating + (0 - (a + MinFee))
  <2>1. Shifted(ants, ants', Wallets, w, 0 - (a + MinFee))
    <3>1. ants' = [ants EXCEPT ![w] = @ - (a + MinFee)]
      BY DEF Bridge!Burn
    <3>2. Summable(ants, Wallets) /\ ants \in [Wallets -> Nat]
      BY <1>2, SumsAreNatural DEF Bridge!TypeOK
    <3> QED  BY <1>1, <3>1, <3>2 DEF Shifted
  <2> QED  BY <2>1, SumShift DEF Circulating
<1>5. Recent' = Recent /\ AtStart' = AtStart
  BY <1>1 DEF Recent, Rows, Since, AtStart
<1>6. TasksOK'
  BY <1>1, <1>2, <1>3 DEF TasksOK
<1>7. /\ Circulating \in Nat /\ fees \in Nat /\ Owed \in Nat /\ Recent \in Nat
      /\ AtStart \in Nat /\ Circulating + fees + Owed + Recent <= AtStart
  BY <1>2, SumsAreNatural DEF DebitsInv
<1>8. Circulating' + fees' + Owed' + Recent' <= AtStart'
  BY <1>1, <1>3, <1>4, <1>5, <1>7
<1> QED  BY <1>6, <1>8 DEF DebitsInv

\* A task ends with its row written, its amount given back, or neither.
LEMMA TaskEnds ==
  ASSUME NodeServicesAssumption, Bridge!TypeOK, DebitsInv, NEW t \in burning,
         burning' = burning \ {t}, UNCHANGED <<fees, released, boot>>,
         \/ burns' = Bridge!Recorded(t) /\ UNCHANGED ants
         \/ UNCHANGED burns /\ ants' = Bridge!Recredited(t)
         \/ UNCHANGED <<burns, ants>>
  PROVE  DebitsInv'
<1>1. TasksOK
  BY DEF DebitsInv
<1>2. /\ Owed = t.amount + Owed' /\ Owed' \in Nat /\ IsFiniteSet(burning')
      /\ t.amount \in Nat /\ t.sender \in Wallets
  BY <1>1, OwedShrinks DEF Bridge!TypeOK, Bridge!Task
<1>3. /\ Circulating \in Nat /\ fees \in Nat /\ Owed \in Nat /\ Recent \in Nat
      /\ AtStart \in Nat /\ Circulating + fees + Owed + Recent <= AtStart
      /\ AtStart' = AtStart /\ fees' = fees
  BY <1>1, SumsAreNatural DEF DebitsInv, AtStart
<1>4. CASE burns' = Bridge!Recorded(t) /\ UNCHANGED ants
  <2> DEFINE r == [sender |-> t.sender, amount |-> t.amount,
                   deadline |-> t.deadline, status |-> "pending"]
  <2>1. burns' = Append(burns, r) /\ r.amount = t.amount
    BY <1>4 DEF Bridge!Recorded
  <2> HIDE DEF r
  <2>2. Recent' = t.amount + Recent
    BY <1>1, <1>2, <2>1, RecentGrows
  <2>3. Circulating' = Circulating
    BY <1>4 DEF Circulating
  <2>4. TasksOK'
    <3>1. Len(burns') = Len(burns) + 1 /\ Len(burns) \in Nat /\ boot \in Nat
      BY <2>1, AppendProperties DEF Bridge!TypeOK
    <3>2. DOMAIN burns \subseteq DOMAIN burns'
      BY <2>1, AppendProperties, LenProperties DEF Bridge!TypeOK
    <3> QED  BY <1>1, <1>2, <3>1, <3>2 DEF TasksOK
  <2>5. Circulating' + fees' + Owed' + Recent' <= AtStart'
    BY <1>2, <1>3, <2>2, <2>3
  <2> QED  BY <2>4, <2>5 DEF DebitsInv
<1>5. CASE UNCHANGED burns /\ ants' = Bridge!Recredited(t)
  <2>1. Shifted(ants, ants', Wallets, t.sender, t.amount)
    <3>1. ants' = [ants EXCEPT ![t.sender] = @ + t.amount]
      BY <1>5 DEF Bridge!Recredited
    <3>2. Summable(ants, Wallets) /\ ants \in [Wallets -> Nat]
      BY <1>1, SumsAreNatural DEF Bridge!TypeOK
    <3> QED  BY <1>2, <3>1, <3>2 DEF Shifted
  <2>2. Circulating' = Circulating + t.amount
    BY <2>1, SumShift DEF Circulating
  <2>3. Recent' = Recent
    BY <1>5 DEF Recent, Rows, Since
  <2>4. TasksOK'
    BY <1>1, <1>2, <1>5 DEF TasksOK
  <2>5. Circulating' + fees' + Owed' + Recent' <= AtStart'
    BY <1>2, <1>3, <2>2, <2>3
  <2> QED  BY <2>4, <2>5 DEF DebitsInv
<1>6. CASE UNCHANGED <<burns, ants>>
  <2>1. Recent' = Recent /\ Circulating' = Circulating
    BY <1>6 DEF Recent, Rows, Since, Circulating
  <2>2. TasksOK'
    BY <1>1, <1>2, <1>6 DEF TasksOK
  <2>3. Circulating' + fees' + Owed' + Recent' <= AtStart'
    BY <1>2, <1>3, <2>1
  <2> QED  BY <2>2, <2>3 DEF DebitsInv
<1> QED  BY <1>4, <1>5, <1>6

\* A migration moves a balance and loses nothing.
LEMMA MoveConserves ==
  ASSUME NodeServicesAssumption, Bridge!TypeOK, TasksOK, NEW l \in Legacy,
         ants' = Migration!Moved(l)
  PROVE  Circulating' = Circulating
<1> DEFINE s == SecpOf[l]
           n == ants[l]
           emptied == [w \in Wallets |-> IF w = l THEN 0 ELSE ants[w]]
<1>1. /\ l \in Wallets /\ s \in Wallets /\ s # l /\ n \in Int
      /\ ants \in [Wallets -> Nat] /\ Summable(ants, Wallets)
  BY SumsAreNatural DEF NodeServicesAssumption, Bridge!TypeOK
<1>2. Shifted(ants, emptied, Wallets, l, 0 - n)
  BY <1>1 DEF Shifted
<1>3. SumFunctionOnSet(emptied, Wallets) = Circulating + (0 - n) /\ Summable(emptied, Wallets)
  BY <1>2, SumShift DEF Circulating
<1>4. ants'[s] = emptied[s] + n /\ \A w \in Wallets \ {s} : ants'[w] = emptied[w]
  BY <1>1 DEF Migration!Moved
<1>5. Shifted(emptied, ants', Wallets, s, n)
  BY <1>1, <1>3, <1>4 DEF Shifted
<1>6. Circulating' = SumFunctionOnSet(emptied, Wallets) + n
  BY <1>5, SumShift DEF Circulating
<1>7. Circulating \in Nat
  BY SumsAreNatural
<1> HIDE DEF n, emptied
<1> QED  BY <1>1, <1>3, <1>6, <1>7

\* A restart has the balances of the chain again, and counts rows anew.
LEMMA CrashForgets ==
  ASSUME NodeServicesAssumption, Bridge!TypeOK, DebitsInv, Crash
  PROVE  DebitsInv'
<1>1. /\ ants' = Funds /\ fees' = 0 /\ burning' = {} /\ boot' = Len(burns)
      /\ UNCHANGED <<burns, released>>
  BY DEF Crash
<1>2. TasksOK'
  BY <1>1, FS_EmptySet DEF DebitsInv, TasksOK, Bridge!TypeOK
<1>3. Since' = {}
  BY <1>1 DEF Since, Bridge!TypeOK
<1>4. Owed' = 0 /\ Recent' = 0
  BY <1>1, <1>3, SumEmpty DEF Owed, Recent
<1>5. Circulating' = AtStart /\ AtStart' = AtStart
  BY <1>1 DEF Circulating, AtStart
<1>6. AtStart \in Nat
  BY SumsAreNatural DEF DebitsInv
<1>7. Circulating' + fees' + Owed' + Recent' <= AtStart'
  BY <1>1, <1>4, <1>5, <1>6
<1> QED  BY <1>2, <1>7 DEF DebitsInv

\* DebitsInv is inductive, unless an executed INSERT is reported as failed.
LEMMA DebitsInductive ==
  ASSUME FailuresAreReal
  PROVE  /\ NodeServicesAssumption /\ Init => DebitsInv
         /\ NodeServicesAssumption /\ TypeOK /\ DebitsInv /\ [Next]_vars => DebitsInv'
<1>1. ASSUME NodeServicesAssumption, Init
      PROVE  DebitsInv
  <2>1. /\ ants = Funds /\ fees = 0 /\ burning = {} /\ boot = 0 /\ burns = << >>
        /\ released = {}
    BY <1>1 DEF Init, Bridge!Init
  <2>2. TasksOK /\ Since = {}
    BY <2>1, FS_EmptySet DEF TasksOK, Since
  <2>3. Owed = 0 /\ Recent = 0 /\ Circulating = AtStart
    BY <2>1, <2>2, SumEmpty DEF Owed, Recent, Circulating, AtStart
  <2>4. AtStart \in Nat
    BY <1>1, SumNat DEF AtStart, NodeServicesAssumption
  <2>5. Circulating + fees + Owed + Recent <= AtStart
    BY <2>1, <2>3, <2>4
  <2> QED  BY <2>2, <2>5 DEF DebitsInv
<1>2. ASSUME NodeServicesAssumption, TypeOK, DebitsInv, [Next]_vars
      PROVE  DebitsInv'
  <2>0. Bridge!TypeOK /\ TasksOK
    BY <1>2 DEF TypeOK, DebitsInv
  <2>1. ASSUME NEW c \in Callers, NEW w \in Senders, NEW a \in Amounts,
               Bridge!Burn(c, w, a)
        PROVE  DebitsInv'
    BY <1>2, <2>0, <2>1, BurnDebits
  <2>2. ASSUME NEW t \in burning, \/ Bridge!RecordBurn(t)
                                  \/ Bridge!RecordFails(t)
                                  \/ Bridge!AbandonBurn(t)
        PROVE  DebitsInv'
    <3>1. /\ burning' = burning \ {t} /\ UNCHANGED <<fees, released, boot>>
          /\ \/ burns' = Bridge!Recorded(t) /\ UNCHANGED ants
             \/ UNCHANGED burns /\ ants' = Bridge!Recredited(t)
             \/ UNCHANGED <<burns, ants>>
      BY <2>2 DEF Bridge!RecordBurn, Bridge!RecordFails, Bridge!AbandonBurn,
                  Bridge!Outcomes, FailuresAreReal
    <3> QED  BY <1>2, <2>0, <3>1, TaskEnds
  <2>3. ASSUME UNCHANGED <<ants, fees, burns, burning, released, boot>>
        PROVE  DebitsInv'
    <3>1. released' \subseteq DOMAIN burns
      BY <2>0, <2>3 DEF TasksOK
    <3> QED  BY <1>2, <2>0, <2>3, <3>1, NothingDebited
  <2>4. ASSUME NEW b, Bridge!Release(b)
        PROVE  DebitsInv'
    <3>1. /\ UNCHANGED <<ants, fees, burns, burning, boot>>
          /\ released' \subseteq DOMAIN burns
      BY <2>0, <2>4 DEF Bridge!Release, TasksOK
    <3> QED  BY <1>2, <2>0, <3>1, NothingDebited
  <2>5. ASSUME NEW b, Bridge!MarkReleased(b) \/ Bridge!MarkFailed(b)
        PROVE  DebitsInv'
    <3>1. /\ UNCHANGED <<ants, fees, burning, boot, released>>
          /\ released' \subseteq DOMAIN burns
      BY <2>0, <2>5 DEF Bridge!MarkReleased, Bridge!MarkFailed, TasksOK
    <3>2. PICK st : burns' = [burns EXCEPT ![b].status = st]
      BY <2>5 DEF Bridge!MarkReleased, Bridge!MarkFailed
    <3>3. DOMAIN burns' = DOMAIN burns /\ Len(burns') = Len(burns)
      BY <2>0, <3>2 DEF Bridge!TypeOK
    <3>4. \A k \in DOMAIN burns : burns'[k].amount = burns[k].amount
      BY <2>0, <3>2 DEF Bridge!TypeOK, Bridge!Row
    <3> QED  BY <1>2, <2>0, <3>1, <3>3, <3>4, NothingDebited
  <2>6. CASE Bridge!Next
    BY <2>1, <2>2, <2>3, <2>4, <2>5, <2>6
       DEF Bridge!Next, Bridge!Sign, Bridge!RecordSignature, Bridge!SignatureFails,
           Bridge!Tick
  <2>7. CASE Migration!Next /\ UNCHANGED bridgeVars
    <3>1. ASSUME NEW t \in revealing, Migration!Move(t)
          PROVE  DebitsInv'
      <4>1. t.legacy \in Legacy /\ ants' = Migration!Moved(t.legacy)
        BY <1>2, <3>1 DEF TypeOK, Migration!TypeOK, Migration!Task, Migration!Move
      <4>2. Circulating' = Circulating
        BY <1>2, <2>0, <4>1, MoveConserves
      <4>3. /\ Owed' = Owed /\ Recent' = Recent /\ AtStart' = AtStart /\ fees' = fees
            /\ TasksOK'
        BY <2>0, <2>7 DEF bridgeVars, Owed, Owing, Recent, Rows, Since, AtStart, TasksOK
      <4> QED  BY <1>2, <4>2, <4>3 DEF DebitsInv
    <3>2. UNCHANGED ants \/ \E t \in revealing : Migration!Move(t)
      BY <2>7 DEF Migration!Next, Migration!Commit, Migration!Reveal,
                  Migration!RecordMove, Migration!RecordMoveFails, Migration!Cancel
    <3>3. CASE UNCHANGED ants
      BY <2>3, <2>7, <3>3 DEF bridgeVars
    <3> QED  BY <3>1, <3>2, <3>3
  <2>8. CASE Crash
    BY <1>2, <2>0, <2>8, CrashForgets
  <2>9. CASE UNCHANGED vars
    BY <2>3, <2>9 DEF vars
  <2> QED  BY <1>2, <2>6, <2>7, <2>8, <2>9 DEF Next, bridgeVars
<1> QED  BY <1>1, <1>2

\* What the vault has paid out since the process was started has left L1:
\* whatever requests, failures, disconnects, crashes and migrations come between
\* the debit of a burn, its row and its release.
THEOREM ReleasesWereDebited ==
  ASSUME FailuresAreReal
  PROVE  Spec => []PaidIsBurnedSinceStart
<1>1. NodeServicesAssumption /\ TypeOK /\ DebitsInv => PaidIsBurnedSinceStart
  BY PaidIsRecent DEF TypeOK
<1>2. Spec => []DebitsInv
  BY DebitsInductive, ServicesTypeCorrect, NodeServicesAssumption, PTL DEF Spec
<1> QED  BY <1>1, <1>2, ServicesTypeCorrect, NodeServicesAssumption, PTL
==============================================================================
