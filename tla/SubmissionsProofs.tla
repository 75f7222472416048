-------------------------- MODULE SubmissionsProofs --------------------------
(***************************************************************************)
(* What holds of mining proofs and heartbeats for every set of requests    *)
(* and of wallets, every cutoff and every bound on the loop's delay: a     *)
(* nonce counts once, nobody who waits is set back, a proof makes a        *)
(* bounded number of blocks and is not dropped before one lists it.        *)
(***************************************************************************)
EXTENDS Submissions, TLAPS

\* A submission that has taken its nonce, recorded or on its way.
Claims(r) == recorded[r] > 0 \/ (r \in DOMAIN flight /\ flight[r].taken)

\* The durable nonce is at least that of every claim, two claims never share a
\* nonce, and what has been recorded has been recorded once, and by its claim.
NoncesInv ==
  /\ \A r \in Requests : Claims(r) => r.nonce <= lastNonce[r.kind][r.wallet]
  /\ \A r, q \in Requests : SameNonce(r, q) /\ Claims(r) /\ Claims(q) => r = q
  /\ \A r \in Requests : recorded[r] <= 1
  /\ \A r \in DOMAIN flight : flight[r].taken => recorded[r] = 0

\* Nothing newer than the durable nonce is recorded, and a claim is newer than
\* what was recorded when it arrived.
TurnsInv ==
  /\ \A k \in Kinds, w \in Wallets : newest[k][w] <= lastNonce[k][w]
  /\ \A r \in DOMAIN flight : flight[r].behind <= newest[r.kind][r.wallet]
  /\ RecordedInTurn

\* A proof has been listed once for each epoch it has seen at most, and not at all
\* before it is recorded.
ListingsInv ==
  /\ RepeatsBounded
  /\ \A p \in DOMAIN proofs : recorded[p] > 0
  /\ \A r \in Requests : recorded[r] = 0 => times[r] = 0
  /\ \A p \in DOMAIN proofs : times[p] <= proofs[p] + (IF inEpoch THEN 1 ELSE 0)

\* While the loop runs, a proof that no block lists is as old as the loop is late,
\* or came after the block of the epoch that has just ended.
FreshInv ==
  loop = "running" =>
    \A p \in DOMAIN proofs :
      times[p] = 0 => IF inEpoch THEN proofs[p] = 0 ELSE proofs[p] <= late + 1

\* A node that is down remembers nothing.
DownInv == loop = "down" => DOMAIN proofs = {} /\ DOMAIN flight = {}

IInv == TypeOK /\ NoncesInv /\ TurnsInv /\ ListingsInv /\ FreshInv /\ DownInv

------------------------------------------------------------------------------
(***************************************************************************)
(* The tables.                                                             *)
(***************************************************************************)
LEMMA RequestType ==
  ASSUME NEW r \in Requests
  PROVE  r.kind \in Kinds /\ r.wallet \in Wallets /\ r.nonce \in Nat
BY SubmissionsAssumption

\* The statement raises one wallet's nonce or leaves the tables as they are.
LEMMA UpsertRaises ==
  ASSUME TypeOK, NEW r \in Requests, Upsert(r)
  PROVE  /\ lastNonce' \in [Kinds -> [Wallets -> Nat]]
         /\ \A k \in Kinds, w \in Wallets : lastNonce'[k][w] >= lastNonce[k][w]
         /\ Unused(Last(r), r.nonce) => lastNonce'[r.kind][r.wallet] = r.nonce
<1>1. r.kind \in Kinds /\ r.wallet \in Wallets /\ r.nonce \in Nat
  BY RequestType
<1>2. lastNonce \in [Kinds -> [Wallets -> Nat]]
  BY DEF TypeOK
<1> DEFINE new == IF Unused(Last(r), r.nonce) THEN r.nonce ELSE Last(r)
<1>3. Last(r) \in Nat /\ new \in Nat /\ new >= Last(r)
  BY <1>1, <1>2 DEF Last, Unused
<1>4. lastNonce' = [lastNonce EXCEPT ![r.kind][r.wallet] = new]
  BY DEF Upsert
<1>5. Unused(Last(r), r.nonce) => new = r.nonce
  OBVIOUS
<1> HIDE DEF new
<1>6. lastNonce' \in [Kinds -> [Wallets -> Nat]]
  BY <1>1, <1>2, <1>3, <1>4
<1>7. lastNonce'[r.kind][r.wallet] = new
  BY <1>1, <1>2, <1>4
<1>8. ASSUME NEW k \in Kinds, NEW w \in Wallets PROVE lastNonce'[k][w] >= lastNonce[k][w]
  <2>1. CASE k = r.kind /\ w = r.wallet
    BY <2>1, <1>7, <1>3 DEF Last
  <2>2. CASE ~(k = r.kind /\ w = r.wallet)
    <3>1. lastNonce'[k][w] = lastNonce[k][w]
      BY <2>2, <1>1, <1>2, <1>4
    <3> QED BY <3>1, <1>2
  <2> QED BY <2>1, <2>2
<1> QED BY <1>5, <1>6, <1>7, <1>8

\* What Ended leaves of the requests being handled.
LEMMA EndedKeeps ==
  ASSUME NEW r \in Requests
  PROVE  /\ DOMAIN Ended(r) = DOMAIN flight \ {r}
         /\ \A q \in DOMAIN Ended(r) : Ended(r)[q] = flight[q]
BY DEF Ended, Restrict

------------------------------------------------------------------------------
(***************************************************************************)
(* Each step keeps the types and the order of the nonces.                  *)
(***************************************************************************)
LEMMA InitEstablishes == Init => IInv
<1> SUFFICES ASSUME Init PROVE IInv
  OBVIOUS
<1>1. TypeOK
  <2>1. flight = <<>> /\ proofs = <<>> /\ DOMAIN flight = {} /\ DOMAIN proofs = {}
    BY DEF Init
  <2>2. /\ lastNonce \in [Kinds -> [Wallets -> Nat]] /\ newest \in [Kinds -> [Wallets -> Nat]]
        /\ recorded \in [Requests -> Nat] /\ trouble \in Nat
        /\ commit \in BOOLEAN /\ inEpoch \in BOOLEAN /\ loop \in {"running", "exited", "down"}
    BY DEF Init
  <2>3. times \in [Requests -> 0 .. MaxAge + 2] /\ late \in 0 .. MaxLate
    BY SubmissionsAssumption DEF Init
  <2> QED BY <2>1, <2>2, <2>3 DEF TypeOK
<1>2. NoncesInv
  BY SubmissionsAssumption DEF Init, NoncesInv, Claims
<1>3. TurnsInv
  BY DEF Init, TurnsInv, RecordedInTurn
<1>4. ListingsInv /\ FreshInv /\ DownInv
  BY SubmissionsAssumption DEF Init, ListingsInv, FreshInv, DownInv, RepeatsBounded
<1> QED BY <1>1, <1>2, <1>3, <1>4 DEF IInv

\* A step after which every request that has taken its nonce had taken it before.
LEMMA NoNewClaim ==
  ASSUME IInv, lastNonce' \in [Kinds -> [Wallets -> Nat]],
         \A k \in Kinds, w \in Wallets : lastNonce'[k][w] >= lastNonce[k][w],
         UNCHANGED <<newest, recorded>>, DOMAIN flight' \subseteq Requests,
         \A q \in DOMAIN flight' : flight'[q].behind <= newest[q.kind][q.wallet],
         \A q \in DOMAIN flight' : flight'[q].taken =>
           q \in DOMAIN flight /\ flight[q].taken /\ flight'[q].behind = flight[q].behind
  PROVE  NoncesInv' /\ TurnsInv'
<1>1. \A q \in Requests : Claims(q)' => Claims(q)
  BY DEF Claims
<1>2. ASSUME NEW q \in Requests, Claims(q)' PROVE q.nonce <= lastNonce'[q.kind][q.wallet]
  <2>1. q.nonce <= lastNonce[q.kind][q.wallet]
    BY <1>1, <1>2 DEF IInv, NoncesInv
  <2>2. lastNonce'[q.kind][q.wallet] >= lastNonce[q.kind][q.wallet]
    BY RequestType
  <2>3. q.nonce \in Nat /\ lastNonce[q.kind][q.wallet] \in Nat /\ lastNonce'[q.kind][q.wallet] \in Nat
    BY RequestType DEF IInv, TypeOK
  <2> QED BY <2>1, <2>2, <2>3
<1>3. \A q \in DOMAIN flight' : flight'[q].taken => recorded'[q] = 0
  BY DEF IInv, NoncesInv
<1>4. \A q, s \in Requests : SameNonce(q, s) /\ Claims(q)' /\ Claims(s)' => q = s
  BY <1>1 DEF IInv, NoncesInv
<1>5. \A q \in Requests : recorded'[q] <= 1
  BY DEF IInv, NoncesInv
<1>6. NoncesInv'
  BY <1>2, <1>3, <1>4, <1>5 DEF NoncesInv, SameNonce
<1>7. ASSUME NEW k \in Kinds, NEW w \in Wallets PROVE newest'[k][w] <= lastNonce'[k][w]
  <2>1. newest[k][w] <= lastNonce[k][w] /\ lastNonce'[k][w] >= lastNonce[k][w]
    BY DEF IInv, TurnsInv
  <2>2. newest[k][w] \in Nat /\ lastNonce[k][w] \in Nat /\ lastNonce'[k][w] \in Nat
    BY DEF IInv, TypeOK
  <2> QED BY <2>1, <2>2
<1>8. RecordedInTurn'
  BY DEF IInv, TurnsInv, RecordedInTurn
<1>9. TurnsInv'
  BY <1>7, <1>8 DEF TurnsInv
<1> QED BY <1>6, <1>9

\* A step that leaves proofs and blocks alone.
LEMMA BlocksUntouched ==
  ASSUME IInv, UNCHANGED <<recorded, proofs, inEpoch, times, late, loop>>,
         Up \/ DOMAIN flight' \subseteq DOMAIN flight
  PROVE  ListingsInv' /\ FreshInv' /\ DownInv'
<1>1. ListingsInv'
  BY DEF IInv, ListingsInv, RepeatsBounded
<1>2. FreshInv' /\ DownInv'
  BY DEF IInv, FreshInv, DownInv, Up
<1> QED BY <1>1, <1>2

------------------------------------------------------------------------------
(***************************************************************************)
(* The handlers.                                                           *)
(***************************************************************************)
LEMMA FlightType ==
  ASSUME IInv, NEW q \in DOMAIN flight
  PROVE  /\ q \in Requests /\ flight[q] \in [taken : BOOLEAN, behind : Nat]
         /\ flight[q].behind <= newest[q.kind][q.wallet]
BY DEF IInv, TypeOK, TurnsInv, ProofRequests

LEMMA ArriveKeeps ==
  ASSUME IInv, NEW r \in Requests, Arrive(r)
  PROVE  IInv'
<1> USE DEF blockVars
<1>1. newest[r.kind][r.wallet] \in Nat
  BY RequestType DEF IInv, TypeOK
<1>2. /\ DOMAIN flight' = DOMAIN flight \cup {r}
      /\ flight'[r] = [taken |-> FALSE, behind |-> newest[r.kind][r.wallet]]
      /\ \A q \in DOMAIN flight : flight'[q] = flight[q]
  BY DEF Arrive
<1>3. TypeOK'
  <2>1. r \in ProofRequests \cup {q \in Requests : q.wallet \in Listed}
    BY RequestType DEF Arrive, Valid, ProofRequests, Kinds
  <2>2. flight'[r] \in [taken : BOOLEAN, behind : Nat]
    BY <1>1, <1>2
  <2>3. \A q \in DOMAIN flight' : flight'[q] \in [taken : BOOLEAN, behind : Nat]
    BY <1>2, <2>2, FlightType
  <2> QED BY <1>2, <2>1, <2>3 DEF Arrive, IInv, TypeOK
<1>4. UNCHANGED <<lastNonce, newest, recorded>>
  BY DEF Arrive
<1>5. DOMAIN flight' \subseteq Requests
  BY <1>2, FlightType
<1>6. \A q \in DOMAIN flight' : flight'[q].behind <= newest[q.kind][q.wallet]
  BY <1>1, <1>2, FlightType
<1>7. \A q \in DOMAIN flight' : flight'[q].taken =>
        q \in DOMAIN flight /\ flight[q].taken /\ flight'[q].behind = flight[q].behind
  BY <1>2
<1>8. /\ lastNonce' \in [Kinds -> [Wallets -> Nat]]
      /\ \A k \in Kinds, w \in Wallets : lastNonce'[k][w] >= lastNonce[k][w]
  BY <1>4 DEF IInv, TypeOK
<1>9. NoncesInv' /\ TurnsInv'
  BY <1>4, <1>5, <1>6, <1>7, <1>8, NoNewClaim
<1>10. ListingsInv' /\ FreshInv' /\ DownInv'
  BY BlocksUntouched DEF Arrive
<1> QED BY <1>3, <1>9, <1>10 DEF IInv

\* A request ends without having been recorded.
LEMMA EndKeeps ==
  ASSUME IInv, NEW r \in Requests, flight' = Ended(r),
         lastNonce' \in [Kinds -> [Wallets -> Nat]],
         \A k \in Kinds, w \in Wallets : lastNonce'[k][w] >= lastNonce[k][w],
         UNCHANGED <<newest, recorded, proofs, commit, inEpoch, times, late, loop>>, trouble' \in Nat
  PROVE  IInv'
<1>1. DOMAIN flight' = DOMAIN flight \ {r} /\ \A q \in DOMAIN flight' : flight'[q] = flight[q]
  BY EndedKeeps
<1>2. TypeOK'
  BY <1>1 DEF IInv, TypeOK
<1>3. /\ DOMAIN flight' \subseteq Requests
      /\ \A q \in DOMAIN flight' : flight'[q].behind <= newest[q.kind][q.wallet]
      /\ \A q \in DOMAIN flight' : flight'[q].taken =>
           q \in DOMAIN flight /\ flight[q].taken /\ flight'[q].behind = flight[q].behind
  BY <1>1, FlightType
<1>4. NoncesInv' /\ TurnsInv'
  BY <1>3, NoNewClaim
<1>5. ListingsInv' /\ FreshInv' /\ DownInv'
  BY <1>1, BlocksUntouched
<1> QED BY <1>2, <1>4, <1>5 DEF IInv

LEMMA FailuresKeep ==
  ASSUME IInv, NEW r \in Requests, TakeFails(r) \/ Disconnect(r)
  PROVE  IInv'
<1> USE DEF blockVars
<1>1. /\ flight' = Ended(r) /\ trouble' \in Nat
      /\ UNCHANGED <<newest, recorded, proofs, commit, inEpoch, times, late, loop>>
  BY DEF TakeFails, Disconnect, Trouble, IInv, TypeOK
<1>2. Upsert(r) \/ UNCHANGED lastNonce
  BY DEF TakeFails, Disconnect
<1>3. /\ lastNonce' \in [Kinds -> [Wallets -> Nat]]
      /\ \A k \in Kinds, w \in Wallets : lastNonce'[k][w] >= lastNonce[k][w]
  <2>1. CASE Upsert(r)
    BY <2>1, UpsertRaises DEF IInv
  <2>2. CASE UNCHANGED lastNonce
    BY <2>2 DEF IInv, TypeOK
  <2> QED BY <1>2, <2>1, <2>2
<1> QED BY <1>1, <1>3, EndKeeps

\* The nonce is taken: it is above every claim of its wallet, so that none has it.
LEMMA TakeNonceKeeps ==
  ASSUME IInv, NEW r \in Requests, TakeNonce(r)
  PROVE  IInv'
<1> USE DEF blockVars
<1>1. /\ Upsert(r) /\ r \in DOMAIN flight /\ ~flight[r].taken
      /\ UNCHANGED <<newest, recorded, proofs, commit, inEpoch, times, late, loop, trouble>>
  BY DEF TakeNonce
<1>2. /\ lastNonce' \in [Kinds -> [Wallets -> Nat]]
      /\ \A k \in Kinds, w \in Wallets : lastNonce'[k][w] >= lastNonce[k][w]
      /\ Unused(Last(r), r.nonce) => lastNonce'[r.kind][r.wallet] = r.nonce
  BY <1>1, UpsertRaises DEF IInv
<1>3. CASE ~Unused(Last(r), r.nonce)
  <2>1. flight' = Ended(r)
    BY <1>3 DEF TakeNonce
  <2>2. trouble' \in Nat
    BY <1>1 DEF IInv, TypeOK
  <2> QED BY <1>1, <1>2, <2>1, <2>2, EndKeeps
<1>4. CASE Unused(Last(r), r.nonce)
  <2>1. flight' = [flight EXCEPT ![r].taken = TRUE]
    BY <1>4 DEF TakeNonce
  <2>2. /\ DOMAIN flight' = DOMAIN flight
        /\ \A q \in DOMAIN flight : q # r => flight'[q] = flight[q]
    BY <2>1
  <2>3. flight[r] \in [taken : BOOLEAN, behind : Nat]
    BY <1>1, FlightType
  <2>4. flight'[r] = [flight[r] EXCEPT !.taken = TRUE]
    BY <1>1, <2>1
  <2>5. /\ flight'[r].taken /\ flight'[r].behind = flight[r].behind
        /\ flight'[r] \in [taken : BOOLEAN, behind : Nat]
    BY <2>3, <2>4
  <2>6. TypeOK'
    BY <1>1, <1>2, <2>2, <2>5 DEF IInv, TypeOK
  <2>7. /\ lastNonce[r.kind][r.wallet] < r.nonce /\ lastNonce[r.kind][r.wallet] \in Nat
        /\ r.nonce \in Nat /\ newest[r.kind][r.wallet] \in Nat
    BY <1>4, RequestType DEF Unused, Last, IInv, TypeOK
  <2>8. \A q \in Requests : Claims(q) => ~SameNonce(r, q)
    <3> SUFFICES ASSUME NEW q \in Requests, Claims(q), SameNonce(r, q) PROVE FALSE
      OBVIOUS
    <3>1. q.nonce <= lastNonce[q.kind][q.wallet]
      BY DEF IInv, NoncesInv
    <3> QED BY <3>1, <2>7 DEF SameNonce
  <2>9. ~Claims(r)
    BY <2>8 DEF SameNonce
  <2>10. \A q \in Requests : Claims(q)' <=> Claims(q) \/ q = r
    BY <1>1, <2>2, <2>5 DEF Claims
  <2>11. recorded[r] = 0
    BY <2>9 DEF Claims, IInv, TypeOK
  <2>12. NoncesInv'
    <3>1. ASSUME NEW q \in Requests, Claims(q)' PROVE q.nonce <= lastNonce'[q.kind][q.wallet]
      <4>1. CASE q = r
        BY <4>1, <1>2, <1>4, <2>7
      <4>2. CASE Claims(q)
        <5>1. q.nonce <= lastNonce[q.kind][q.wallet]
          BY <4>2 DEF IInv, NoncesInv
        <5>2. lastNonce'[q.kind][q.wallet] >= lastNonce[q.kind][q.wallet]
          BY <1>2, RequestType
        <5>3. q.nonce \in Nat /\ lastNonce[q.kind][q.wallet] \in Nat /\ lastNonce'[q.kind][q.wallet] \in Nat
          BY <1>2, RequestType DEF IInv, TypeOK
        <5> QED BY <5>1, <5>2, <5>3
      <4> QED BY <3>1, <2>10, <4>1, <4>2
    <3>2. \A q, s \in Requests : SameNonce(q, s) /\ Claims(q)' /\ Claims(s)' => q = s
      <4> SUFFICES ASSUME NEW q \in Requests, NEW s \in Requests, SameNonce(q, s),
                          Claims(q)', Claims(s)'
                   PROVE  q = s
        OBVIOUS
      <4>1. SameNonce(s, q)
        BY DEF SameNonce
      <4>2. Claims(q) /\ Claims(s) => q = s
        BY DEF IInv, NoncesInv
      <4> QED BY <4>1, <4>2, <2>8, <2>10
    <3>3. \A q \in Requests : recorded'[q] <= 1
      BY <1>1 DEF IInv, NoncesInv
    <3>4. \A q \in DOMAIN flight' : flight'[q].taken => recorded'[q] = 0
      BY <1>1, <2>2, <2>11 DEF IInv, NoncesInv
    <3> QED BY <3>1, <3>2, <3>3, <3>4 DEF NoncesInv, SameNonce
  <2>13. TurnsInv'
    <3>1. ASSUME NEW k \in Kinds, NEW w \in Wallets PROVE newest'[k][w] <= lastNonce'[k][w]
      <4>1. newest[k][w] <= lastNonce[k][w] /\ lastNonce'[k][w] >= lastNonce[k][w]
        BY <1>2 DEF IInv, TurnsInv
      <4>2. newest[k][w] \in Nat /\ lastNonce[k][w] \in Nat /\ lastNonce'[k][w] \in Nat
        BY <1>2 DEF IInv, TypeOK
      <4> QED BY <1>1, <4>1, <4>2
    <3>2. \A q \in DOMAIN flight' : flight'[q].behind <= newest'[q.kind][q.wallet]
      BY <1>1, <2>2, <2>5 DEF IInv, TurnsInv
    <3>3. r.nonce > flight'[r].behind
      <4>1. newest[r.kind][r.wallet] <= lastNonce[r.kind][r.wallet]
        BY RequestType DEF IInv, TurnsInv
      <4>2. flight[r].behind <= newest[r.kind][r.wallet] /\ flight[r].behind \in Nat
        BY <1>1, <2>3, FlightType
      <4> QED BY <2>5, <2>7, <4>1, <4>2
    <3>4. RecordedInTurn'
      BY <2>2, <3>3 DEF IInv, TurnsInv, RecordedInTurn
    <3> QED BY <3>1, <3>2, <3>4 DEF TurnsInv
  <2>14. ListingsInv' /\ FreshInv' /\ DownInv'
    BY <1>1, <2>2, BlocksUntouched
  <2> QED BY <2>6, <2>12, <2>13, <2>14 DEF IInv
<1> QED BY <1>3, <1>4

\* A proof or a heartbeat is recorded: its claim stays what it was.
LEMMA RecordKeeps ==
  ASSUME IInv, NEW r \in Requests, Record(r)
  PROVE  IInv'
<1> USE DEF blockVars
<1>1. /\ r \in DOMAIN flight /\ flight[r].taken /\ recorded[r] = 0
      /\ UNCHANGED <<lastNonce, commit, inEpoch, times, late, loop, trouble>>
  BY DEF Record, IInv, NoncesInv
<1>2. DOMAIN flight' = DOMAIN flight \ {r} /\ \A q \in DOMAIN flight' : flight'[q] = flight[q]
  BY EndedKeeps DEF Record
<1>3. /\ recorded' \in [Requests -> Nat] /\ recorded'[r] = 1
      /\ \A q \in Requests : q # r => recorded'[q] = recorded[q]
  BY <1>1 DEF Record, IInv, TypeOK
<1> DEFINE new == IF newest[r.kind][r.wallet] < r.nonce THEN r.nonce ELSE newest[r.kind][r.wallet]
<1>4. /\ newest \in [Kinds -> [Wallets -> Nat]] /\ newest[r.kind][r.wallet] \in Nat /\ r.nonce \in Nat
      /\ r.kind \in Kinds /\ r.wallet \in Wallets
  BY RequestType DEF IInv, TypeOK
<1>5. newest' = [newest EXCEPT ![r.kind][r.wallet] = new]
  BY DEF Record
<1>6. new \in Nat /\ new >= newest[r.kind][r.wallet] /\ (new = r.nonce \/ new = newest[r.kind][r.wallet])
  BY <1>4
<1> HIDE DEF new
<1>7. newest' \in [Kinds -> [Wallets -> Nat]] /\ newest'[r.kind][r.wallet] = new
  BY <1>4, <1>5, <1>6
<1>8. \A k \in Kinds, w \in Wallets :
        ~(k = r.kind /\ w = r.wallet) => newest'[k][w] = newest[k][w]
  BY <1>4, <1>5
<1>9. \A q \in Requests : Claims(q)' <=> Claims(q)
  <2> TAKE q \in Requests
  <2>1. CASE q = r
    BY <2>1, <1>1, <1>3 DEF Claims
  <2>2. CASE q # r
    BY <2>2, <1>2, <1>3 DEF Claims
  <2> QED BY <2>1, <2>2
<1>10. NoncesInv'
  <2>1. \A q \in Requests : Claims(q)' => q.nonce <= lastNonce'[q.kind][q.wallet]
    BY <1>1, <1>9 DEF IInv, NoncesInv
  <2>2. \A q, s \in Requests : SameNonce(q, s) /\ Claims(q)' /\ Claims(s)' => q = s
    BY <1>9 DEF IInv, NoncesInv
  <2>3. \A q \in Requests : recorded'[q] <= 1
    BY <1>3 DEF IInv, NoncesInv
  <2>4. \A q \in DOMAIN flight' : flight'[q].taken => recorded'[q] = 0
    BY <1>2, <1>3, FlightType DEF IInv, NoncesInv
  <2> QED BY <2>1, <2>2, <2>3, <2>4 DEF NoncesInv, SameNonce
<1>11. TurnsInv'
  <2>1. ASSUME NEW k \in Kinds, NEW w \in Wallets PROVE newest'[k][w] <= lastNonce'[k][w]
    <3>1. newest[k][w] <= lastNonce[k][w]
      BY DEF IInv, TurnsInv
    <3>2. CASE k = r.kind /\ w = r.wallet
      <4>1. r.nonce <= lastNonce[r.kind][r.wallet]
        BY <1>1 DEF IInv, NoncesInv, Claims
      <4> QED BY <3>1, <3>2, <4>1, <1>1, <1>6, <1>7
    <3>3. CASE ~(k = r.kind /\ w = r.wallet)
      BY <3>1, <3>3, <1>1, <1>8
    <3> QED BY <3>2, <3>3
  <2>2. ASSUME NEW q \in DOMAIN flight' PROVE flight'[q].behind <= newest'[q.kind][q.wallet]
    <3>1. /\ flight'[q] = flight[q] /\ q \in Requests /\ flight[q].behind \in Nat
          /\ flight[q].behind <= newest[q.kind][q.wallet]
      BY <1>2, FlightType
    <3>2. newest'[q.kind][q.wallet] >= newest[q.kind][q.wallet]
      <4>1. CASE q.kind = r.kind /\ q.wallet = r.wallet
        BY <4>1, <1>6, <1>7
      <4>2. CASE ~(q.kind = r.kind /\ q.wallet = r.wallet)
        <5>1. newest'[q.kind][q.wallet] = newest[q.kind][q.wallet] /\ newest[q.kind][q.wallet] \in Nat
          BY <4>2, <3>1, <1>4, <1>8, RequestType
        <5> QED BY <5>1
      <4> QED BY <4>1, <4>2
    <3>3. newest[q.kind][q.wallet] \in Nat /\ newest'[q.kind][q.wallet] \in Nat
      BY <3>1, <1>4, <1>7, RequestType
    <3> QED BY <3>1, <3>2, <3>3
  <2>3. RecordedInTurn'
    BY <1>2 DEF IInv, TurnsInv, RecordedInTurn
  <2> QED BY <2>1, <2>2, <2>3 DEF TurnsInv
<1>12. times[r] = 0 /\ times' = times
  BY <1>1 DEF IInv, ListingsInv
<1>13. CASE r.kind = "proof"
  <2>1. /\ DOMAIN proofs' = DOMAIN proofs \cup {r} /\ proofs'[r] = 0
        /\ \A p \in DOMAIN proofs : p # r => proofs'[p] = proofs[p]
    BY <1>13 DEF Record
  <2>2. r \in ProofRequests
    BY <1>13 DEF ProofRequests
  <2>3. TypeOK'
    <3>1. \A p \in DOMAIN proofs' : proofs'[p] \in 0 .. MaxAge + 1
      BY <2>1, SubmissionsAssumption DEF IInv, TypeOK
    <3>2. \A q \in DOMAIN flight' : flight'[q] \in [taken : BOOLEAN, behind : Nat]
      BY <1>2, FlightType
    <3> QED BY <1>1, <1>2, <1>3, <1>7, <2>1, <2>2, <3>1, <3>2 DEF IInv, TypeOK
  <2>4. ListingsInv'
    <3>1. RepeatsBounded'
      BY <1>12 DEF IInv, ListingsInv, RepeatsBounded
    <3>2. \A p \in DOMAIN proofs' : recorded'[p] > 0
      BY <1>3, <2>1 DEF IInv, ListingsInv, TypeOK, ProofRequests
    <3>3. \A q \in Requests : recorded'[q] = 0 => times'[q] = 0
      BY <1>3, <1>12 DEF IInv, ListingsInv
    <3>4. \A p \in DOMAIN proofs' : times'[p] <= proofs'[p] + (IF inEpoch' THEN 1 ELSE 0)
      BY <1>1, <1>12, <2>1 DEF IInv, ListingsInv
    <3> QED BY <3>1, <3>2, <3>3, <3>4 DEF ListingsInv
  <2>5. FreshInv'
    BY <1>1, <1>12, <2>1 DEF IInv, FreshInv, TypeOK
  <2>6. DownInv'
    BY <1>1 DEF IInv, DownInv
  <2> QED BY <1>10, <1>11, <2>3, <2>4, <2>5, <2>6 DEF IInv
<1>14. CASE r.kind # "proof"
  <2>1. proofs' = proofs /\ r \notin DOMAIN proofs
    BY <1>14 DEF Record, IInv, TypeOK, ProofRequests
  <2>2. TypeOK'
    BY <1>1, <1>2, <1>3, <1>7, <2>1, FlightType DEF IInv, TypeOK
  <2>3. ListingsInv'
    <3>1. \A p \in DOMAIN proofs' : recorded'[p] > 0
      BY <1>3, <2>1 DEF IInv, ListingsInv, TypeOK, ProofRequests
    <3>2. \A q \in Requests : recorded'[q] = 0 => times'[q] = 0
      BY <1>3, <1>12 DEF IInv, ListingsInv
    <3> QED BY <1>1, <2>1, <3>1, <3>2 DEF IInv, ListingsInv, RepeatsBounded
  <2>4. FreshInv' /\ DownInv'
    BY <1>1, <2>1 DEF IInv, FreshInv, DownInv
  <2> QED BY <1>10, <1>11, <2>2, <2>3, <2>4 DEF IInv
<1> QED BY <1>13, <1>14

------------------------------------------------------------------------------
(***************************************************************************)
(* The loop.                                                               *)
(***************************************************************************)
\* What no step of the loop, of the clock and of the process disturbs.
LEMMA RequestsUntouched ==
  ASSUME IInv, UNCHANGED <<lastNonce, newest, recorded>>,
         UNCHANGED flight \/ DOMAIN flight' = {}
  PROVE  NoncesInv' /\ TurnsInv'
<1>1. /\ DOMAIN flight' \subseteq Requests
      /\ \A q \in DOMAIN flight' : flight'[q].behind <= newest[q.kind][q.wallet]
      /\ \A q \in DOMAIN flight' : flight'[q].taken =>
           q \in DOMAIN flight /\ flight[q].taken /\ flight'[q].behind = flight[q].behind
  <2>1. CASE UNCHANGED flight
    BY <2>1, FlightType
  <2>2. CASE DOMAIN flight' = {}
    BY <2>2
  <2> QED BY <2>1, <2>2
<1>2. /\ lastNonce' \in [Kinds -> [Wallets -> Nat]]
      /\ \A k \in Kinds, w \in Wallets : lastNonce'[k][w] >= lastNonce[k][w]
  BY DEF IInv, TypeOK
<1> QED BY <1>1, <1>2, NoNewClaim

\* A block is made or tried: proofs are dropped, none is changed.
LEMMA KeptProofs ==
  ASSUME IInv, NEW kept \in Kept \cup {DOMAIN proofs}, proofs' = Restrict(proofs, kept)
  PROVE  /\ kept \subseteq DOMAIN proofs /\ DOMAIN proofs' = kept
         /\ \A p \in kept : proofs'[p] = proofs[p]
         /\ \A p \in DOMAIN proofs \ kept : proofs[p] >= MaxAge
<1>1. kept \subseteq DOMAIN proofs
  BY DEF Kept
<1>2. DOMAIN proofs' = kept /\ \A p \in kept : proofs'[p] = proofs[p]
  BY <1>1 DEF Restrict
<1>3. ASSUME NEW p \in DOMAIN proofs \ kept PROVE proofs[p] >= MaxAge
  <2>1. ~(proofs[p] < MaxAge)
    BY <1>3 DEF Kept
  <2>2. proofs[p] \in Nat /\ MaxAge \in Nat
    BY SubmissionsAssumption DEF IInv, TypeOK
  <2> QED BY <2>1, <2>2
<1> QED BY <1>1, <1>2, <1>3

\* A proof that is old enough to be dropped is on a block.
LEMMA OldIsListed ==
  ASSUME IInv, Due, NEW p \in DOMAIN proofs, proofs[p] >= MaxAge
  PROVE  times[p] > 0
<1>1. times[p] = 0 => proofs[p] <= late + 1
  BY DEF Due, IInv, FreshInv
<1>2. late \in 0 .. MaxLate /\ proofs[p] \in Nat /\ times[p] \in Nat
  BY SubmissionsAssumption DEF IInv, TypeOK, ProofRequests
<1> QED BY <1>1, <1>2, SubmissionsAssumption

LEMMA CreateBlockKeeps ==
  ASSUME IInv, CreateBlock
  PROVE  IInv'
<1>1. PICK kept \in Kept :
        /\ proofs' = Restrict(proofs, kept)
        /\ times' = [r \in Requests |-> IF r \in kept THEN Again(times[r]) ELSE times[r]]
  BY DEF CreateBlock
<1>2. /\ kept \subseteq DOMAIN proofs /\ DOMAIN proofs' = kept
      /\ \A p \in kept : proofs'[p] = proofs[p]
  BY <1>1, KeptProofs
<1>3. /\ commit' = FALSE /\ inEpoch' = TRUE /\ late' = 0 /\ ~inEpoch
      /\ UNCHANGED <<lastNonce, flight, newest, recorded, loop, trouble>>
  BY DEF CreateBlock, Due, requestVars
<1>4. \A p \in kept : /\ p \in Requests /\ proofs[p] \in 0 .. MaxAge /\ times[p] \in Nat
                      /\ times[p] <= proofs[p] /\ times'[p] = times[p] + 1
  <2> TAKE p \in kept
  <2>1. p \in Requests /\ proofs[p] \in 0 .. MaxAge + 1 /\ times[p] \in 0 .. MaxAge + 2
    BY <1>2 DEF IInv, TypeOK, ProofRequests
  <2>2. proofs[p] <= MaxAge
    BY <1>2 DEF Kept
  <2>3. times[p] <= proofs[p]
    BY <1>2, <1>3, <2>1 DEF IInv, ListingsInv
  <2> QED BY <1>1, <2>1, <2>2, <2>3, SubmissionsAssumption DEF Again
<1>5. \A q \in Requests \ kept : times'[q] = times[q]
  BY <1>1
<1>6. times' \in [Requests -> 0 .. MaxAge + 2]
  <2>1. DOMAIN times' = Requests /\ times' = [q \in Requests |-> times'[q]]
    BY <1>1
  <2>2. \A q \in Requests : times'[q] \in 0 .. MaxAge + 2
    BY <1>4, <1>5, SubmissionsAssumption DEF IInv, TypeOK
  <2> QED BY <2>1, <2>2
<1>7. TypeOK'
  <2>1. late' \in 0 .. MaxLate
    BY <1>3, SubmissionsAssumption
  <2>2. \A p \in DOMAIN proofs' : proofs'[p] \in 0 .. MaxAge + 1
    BY <1>2 DEF IInv, TypeOK
  <2> QED BY <1>2, <1>3, <1>6, <2>1, <2>2 DEF IInv, TypeOK
<1>8. NoncesInv' /\ TurnsInv'
  BY <1>3, RequestsUntouched
<1>9. ListingsInv'
  <2>1. \A q \in Requests : times'[q] <= MaxAge + 1
    BY <1>4, <1>5, SubmissionsAssumption DEF IInv, ListingsInv, RepeatsBounded
  <2>2. \A p \in DOMAIN proofs' : recorded'[p] > 0
    BY <1>2, <1>3 DEF IInv, ListingsInv
  <2>3. \A q \in Requests : recorded'[q] = 0 => times'[q] = 0
    BY <1>2, <1>3, <1>5 DEF IInv, ListingsInv
  <2>4. \A p \in DOMAIN proofs' : times'[p] <= proofs'[p] + (IF inEpoch' THEN 1 ELSE 0)
    BY <1>2, <1>3, <1>4
  <2> QED BY <2>1, <2>2, <2>3, <2>4 DEF ListingsInv, RepeatsBounded
<1>10. FreshInv' /\ DownInv'
  BY <1>2, <1>3, <1>4 DEF IInv, FreshInv, DownInv, CreateBlock, Due
<1> QED BY <1>7, <1>8, <1>9, <1>10 DEF IInv

LEMMA CreateBlockFailsKeeps ==
  ASSUME IInv, CreateBlockFails
  PROVE  IInv'
<1>1. PICK kept \in Kept \cup {DOMAIN proofs} : proofs' = Restrict(proofs, kept)
  BY DEF CreateBlockFails
<1>2. /\ kept \subseteq DOMAIN proofs /\ DOMAIN proofs' = kept
      /\ \A p \in kept : proofs'[p] = proofs[p]
  BY <1>1, KeptProofs
<1>3. /\ loop' = "exited" /\ trouble' \in Nat
      /\ UNCHANGED <<lastNonce, flight, newest, recorded, commit, inEpoch, times, late>>
  BY DEF CreateBlockFails, Trouble, requestVars, blockVars, IInv, TypeOK
<1>4. TypeOK'
  BY <1>2, <1>3 DEF IInv, TypeOK
<1>5. NoncesInv' /\ TurnsInv'
  BY <1>3, RequestsUntouched
<1>6. ListingsInv'
  BY <1>2, <1>3 DEF IInv, ListingsInv, RepeatsBounded
<1>7. FreshInv' /\ DownInv'
  BY <1>3 DEF FreshInv, DownInv
<1> QED BY <1>4, <1>5, <1>6, <1>7 DEF IInv

\* An epoch ends: a running loop that leaves a proof unlisted is one epoch later.
LEMMA TickKeeps ==
  ASSUME IInv, Tick
  PROVE  IInv'
<1>1. /\ Due => late < MaxLate
      /\ late' = IF Due THEN late + 1 ELSE 0
      /\ inEpoch' = FALSE
      /\ DOMAIN proofs' = DOMAIN proofs
      /\ \A p \in DOMAIN proofs : proofs'[p] = Older(proofs[p])
      /\ UNCHANGED <<lastNonce, flight, newest, recorded, commit, times, loop, trouble>>
  BY DEF Tick, requestVars
<1>2. \A p \in DOMAIN proofs : /\ p \in Requests /\ proofs[p] \in 0 .. MaxAge + 1
                              /\ times[p] \in Nat /\ times[p] <= MaxAge + 1
                              /\ times[p] <= proofs[p] + (IF inEpoch THEN 1 ELSE 0)
  BY DEF IInv, TypeOK, ProofRequests, ListingsInv, RepeatsBounded
<1>3. late \in 0 .. MaxLate /\ inEpoch \in BOOLEAN /\ MaxAge \in Nat /\ MaxLate \in Nat
  BY SubmissionsAssumption DEF IInv, TypeOK
<1>4. \A p \in DOMAIN proofs : /\ proofs'[p] \in 0 .. MaxAge + 1
                              /\ proofs'[p] <= proofs[p] + 1
                              /\ times[p] <= proofs'[p]
  BY <1>1, <1>2, <1>3 DEF Older
<1>5. TypeOK'
  <2>1. late' \in 0 .. MaxLate
    BY <1>1, <1>3
  <2> QED BY <1>1, <1>4, <2>1 DEF IInv, TypeOK
<1>6. NoncesInv' /\ TurnsInv'
  BY <1>1, RequestsUntouched
<1>7. ListingsInv'
  <2>1. \A p \in DOMAIN proofs' : times'[p] <= proofs'[p] + (IF inEpoch' THEN 1 ELSE 0)
    BY <1>1, <1>4
  <2> QED BY <1>1, <2>1 DEF IInv, ListingsInv, RepeatsBounded
<1>8. FreshInv'
  <2> SUFFICES ASSUME loop = "running", NEW p \in DOMAIN proofs, times[p] = 0
               PROVE  proofs'[p] <= late' + 1
    BY <1>1 DEF FreshInv
  <2>1. IF inEpoch THEN proofs[p] = 0 ELSE proofs[p] <= late + 1
    BY DEF IInv, FreshInv
  <2>2. ~inEpoch => Due
    BY DEF Due, HasWork
  <2> QED BY <1>1, <1>2, <1>3, <1>4, <2>1, <2>2
<1>9. DownInv'
  BY <1>1 DEF IInv, DownInv
<1> QED BY <1>5, <1>6, <1>7, <1>8, <1>9 DEF IInv

LEMMA StepKeeps == IInv /\ [Next]_vars => IInv'
<1> SUFFICES ASSUME IInv, [Next]_vars PROVE IInv'
  OBVIOUS
<1>1. ASSUME NEW r \in Requests, Handling(r) PROVE IInv'
  BY <1>1, ArriveKeeps, TakeNonceKeeps, RecordKeeps DEF Handling
<1>2. ASSUME NEW r \in Requests, TakeFails(r) \/ Disconnect(r) PROVE IInv'
  BY <1>2, FailuresKeep
<1>3. CASE OtherWork
  <2>1. TypeOK'
    BY <1>3 DEF OtherWork, requestVars, blockVars, IInv, TypeOK
  <2>2. NoncesInv' /\ TurnsInv'
    BY <1>3, RequestsUntouched DEF OtherWork, requestVars
  <2>3. ListingsInv' /\ FreshInv' /\ DownInv'
    BY <1>3, BlocksUntouched DEF OtherWork, requestVars, blockVars
  <2> QED BY <2>1, <2>2, <2>3 DEF IInv
<1>4. CASE Crash
  <2>1. /\ loop' = "down" /\ DOMAIN flight' = {} /\ DOMAIN proofs' = {}
        /\ commit' = FALSE /\ late' = 0 /\ trouble' \in Nat
        /\ UNCHANGED <<lastNonce, newest, recorded, inEpoch, times>>
    BY <1>4 DEF Crash, Trouble, IInv, TypeOK
  <2>2. TypeOK'
    <3>1. late' \in 0 .. MaxLate
      BY <2>1, SubmissionsAssumption
    <3> QED BY <2>1, <3>1 DEF IInv, TypeOK
  <2>3. NoncesInv' /\ TurnsInv'
    BY <2>1, RequestsUntouched
  <2>4. ListingsInv' /\ FreshInv' /\ DownInv'
    BY <2>1 DEF IInv, ListingsInv, RepeatsBounded, FreshInv, DownInv
  <2> QED BY <2>2, <2>3, <2>4 DEF IInv
<1>5. CASE Restart
  <2>1. /\ loop = "down" /\ loop' = "running"
        /\ UNCHANGED <<lastNonce, flight, newest, recorded, proofs, commit, inEpoch, times, late, trouble>>
    BY <1>5 DEF Restart, requestVars, blockVars
  <2>2. TypeOK'
    BY <2>1 DEF IInv, TypeOK
  <2>3. NoncesInv' /\ TurnsInv'
    BY <2>1, RequestsUntouched
  <2>4. ListingsInv' /\ FreshInv' /\ DownInv'
    BY <2>1 DEF IInv, ListingsInv, RepeatsBounded, FreshInv, DownInv
  <2> QED BY <2>2, <2>3, <2>4 DEF IInv
<1>6. CASE UNCHANGED vars
  <2>1. UNCHANGED <<lastNonce, flight, newest, recorded, proofs, commit, inEpoch, times, late, loop, trouble>>
    BY <1>6 DEF vars
  <2>2. TypeOK'
    BY <2>1 DEF IInv, TypeOK
  <2>3. NoncesInv' /\ TurnsInv'
    BY <2>1, RequestsUntouched
  <2>4. ListingsInv' /\ FreshInv' /\ DownInv'
    BY <2>1, BlocksUntouched
  <2> QED BY <2>2, <2>3, <2>4 DEF IInv
<1> QED
  BY <1>1, <1>2, <1>3, <1>4, <1>5, <1>6, CreateBlockKeeps, CreateBlockFailsKeeps, TickKeeps
     DEF Next, Failing

------------------------------------------------------------------------------
(***************************************************************************)
(* Theorems.                                                               *)
(***************************************************************************)
LEMMA Inductive == Spec => []IInv
<1>1. Init => IInv
  BY InitEstablishes
<1>2. IInv /\ [Next]_vars => IInv'
  BY StepKeeps
<1> QED BY <1>1, <1>2, PTL DEF Spec

\* Every reachable state has its type: no heartbeat of a wallet that is not on the
\* allowlist is handled, and the loop is never later than assumed.
THEOREM TypeCorrect == Spec => []TypeOK
<1>1. IInv => TypeOK
  BY DEF IInv
<1> QED BY <1>1, Inductive, PTL

\* One submission is counted for a wallet's nonce, and once, whatever is repeated,
\* fails, goes away or is forgotten in between.
THEOREM SubmissionsCountOnce == Spec => []CountedOnce
<1>1. ASSUME IInv PROVE CountedOnce
  <2> SUFFICES ASSUME NEW r \in Requests, NEW q \in Requests,
                      SameNonce(r, q), recorded[r] > 0, recorded[q] > 0
               PROVE  r = q /\ recorded[r] = 1
    BY DEF CountedOnce
  <2>1. r = q
    BY <1>1 DEF IInv, NoncesInv, Claims
  <2>2. recorded[r] \in Nat /\ recorded[r] <= 1
    BY <1>1 DEF IInv, TypeOK, NoncesInv
  <2> QED BY <2>1, <2>2
<1> QED BY <1>1, Inductive, PTL

\* A client that waits for its answers is never set back by an older submission.
THEOREM SubmissionsInTurn == Spec => []RecordedInTurn
<1>1. IInv => RecordedInTurn
  BY DEF IInv, TurnsInv
<1> QED BY <1>1, Inductive, PTL

\* A proof makes at most one block for each epoch of its 300 seconds, and one.
THEOREM ProofsRepeatBounded == Spec => []RepeatsBounded
<1>1. IInv => RepeatsBounded
  BY DEF IInv, ListingsInv
<1> QED BY <1>1, Inductive, PTL

\* A loop that lets pass fewer epochs than the cutoff has lists every proof before
\* it drops it.
THEOREM ListedBeforeDropped == Spec => DroppedOnlyIfListed
<1> DEFINE Goal == loop' # "down" => \A p \in DOMAIN proofs \ DOMAIN proofs' : times[p] > 0
<1>1. ASSUME IInv, Next, loop' # "down", NEW p \in DOMAIN proofs \ DOMAIN proofs'
      PROVE  times[p] > 0
  <2>1. CASE CreateBlock \/ CreateBlockFails
    <3>1. PICK kept \in Kept \cup {DOMAIN proofs} : proofs' = Restrict(proofs, kept)
      BY <2>1 DEF CreateBlock, CreateBlockFails
    <3>2. proofs[p] >= MaxAge
      BY <1>1, <3>1, KeptProofs
    <3>3. Due
      BY <2>1 DEF CreateBlock, CreateBlockFails
    <3> QED BY <1>1, <3>2, <3>3, OldIsListed
  <2>2. CASE Tick
    BY <1>1, <2>2 DEF Tick
  <2>3. CASE OtherWork \/ Restart
    BY <1>1, <2>3 DEF OtherWork, Restart
  <2>4. CASE Crash
    BY <1>1, <2>4 DEF Crash
  <2>5. ASSUME NEW r \in Requests, Arrive(r) \/ TakeNonce(r) \/ TakeFails(r) \/ Disconnect(r)
        PROVE  times[p] > 0
    BY <1>1, <2>5 DEF Arrive, TakeNonce, TakeFails, Disconnect
  <2>6. ASSUME NEW r \in Requests, Record(r) PROVE times[p] > 0
    BY <1>1, <2>6 DEF Record
  <2> QED BY <1>1, <2>1, <2>2, <2>3, <2>4, <2>5, <2>6 DEF Next, Handling, Failing
<1>2. IInv /\ [Next]_vars => [Goal]_vars
  BY <1>1
<1> HIDE DEF Goal
<1>3. Spec => [][Goal]_vars
  BY <1>2, Inductive, PTL DEF Spec
<1>4. [][Goal]_vars => DroppedOnlyIfListed
  BY PTL DEF Goal, DroppedOnlyIfListed
<1> QED BY <1>3, <1>4
==============================================================================
