--------------------------- MODULE NodeLedgerProofs ---------------------------
(***************************************************************************)
(* Proofs about NodeLedger, for every set of wallets and hashes, every     *)
(* genesis, every Web2 ledger, every fee and threshold, any combination of *)
(* operations and any bound.                                               *)
(***************************************************************************)
EXTENDS NodeLedger, FiniteSetTheorems, SequenceTheorems, WellFoundedInduction,
        SumTheorems, TLAPS

(***************************************************************************)
(* Lemmas about the operators of the module.                               *)
(***************************************************************************)

\* There are finitely many addresses, so a set of validators has a size.
LEMMA AddrFinite == IsFiniteSet(Addr)
<1>1. IsFiniteSet({Treasury, Reserve})
  <2>1. IsFiniteSet({Treasury}) /\ IsFiniteSet({Reserve})
    BY FS_Singleton
  <2>2. IsFiniteSet({Treasury} \cup {Reserve})
    BY <2>1, FS_Union
  <2> QED BY <2>2
<1>2. IsFiniteSet(Wallets)
  BY NodeLedgerAssumption
<1> QED BY <1>1, <1>2, FS_Union DEF Addr

\* A saturating subtraction of natural numbers.
LEMMA MinusType ==
  ASSUME NEW m \in Nat, NEW n \in Nat
  PROVE  /\ Minus(m, n) \in Nat
         /\ Minus(m, n) <= m
         /\ m <= n + Minus(m, n)
BY DEF Minus

\* The validators' share of a fee and the remainder are natural numbers.
LEMMA ShareType ==
  ASSUME NEW ms \in SUBSET Addr, NEW f \in Nat
  PROVE  Share(ms, f) \in Nat /\ Rest(ms, f) \in Nat
<1>1. CASE ms = {}
  BY <1>1 DEF Share, Rest
<1>2. CASE ms # {}
  <2>1. IsFiniteSet(ms)
    BY AddrFinite, FS_Subset
  <2>2. Cardinality(ms) \in Nat /\ Cardinality(ms) # 0
    BY <2>1, <1>2, FS_CardinalityType, FS_EmptySet
  <2>3. Cardinality(ms) > 0
    BY <2>2
  <2>4. f \div Cardinality(ms) \in Nat /\ f % Cardinality(ms) \in Nat
    BY <2>2, <2>3
  <2> QED BY <2>4, <1>2 DEF Share, Rest
<1> QED BY <1>1, <1>2

\* Distributing fees adds to balances and takes from none.
LEMMA WithFeesType ==
  ASSUME NEW b \in [Addr -> Nat], NEW ms \in SUBSET Addr, NEW f \in Nat
  PROVE  /\ WithFees(b, ms, f) \in [Addr -> Nat]
         /\ \A a \in Addr : b[a] <= WithFees(b, ms, f)[a]
<1>1. Share(ms, f) \in Nat /\ Rest(ms, f) \in Nat
  BY ShareType
<1> QED BY <1>1 DEF WithFees

\* A transaction's debit covers its amount and its fee.
LEMMA DebitType ==
  ASSUME NEW tx \in Transaction
  PROVE  /\ Debit(tx) \in Nat
         /\ tx.from \in Addr \ {Reserve} /\ tx.to \in Addr /\ tx.amount \in Nat /\ tx.fee \in Nat
         /\ tx.nonce \in Nat /\ tx.hash \in Hashes \cup {NoHash}
BY DEF Transaction, Debit

\* A transaction its sender can pay for leaves every balance natural, and
\* lowers the sender's only, by no more than the debit.
LEMMA TransferredType ==
  ASSUME NEW b \in [Addr -> Nat], NEW tx \in Transaction, Debit(tx) <= b[tx.from]
  PROVE  /\ Transferred(b, tx) \in [Addr -> Nat]
         /\ \A a \in Addr : a # tx.from => b[a] <= Transferred(b, tx)[a]
         /\ b[tx.from] - Debit(tx) <= Transferred(b, tx)[tx.from]
<1>1. Debit(tx) \in Nat /\ tx.from \in Addr /\ tx.to \in Addr /\ tx.amount \in Nat
  BY DebitType
<1> QED BY <1>1 DEF Transferred

\* The same of what a block in the making has added to balances, which may be
\* negative.
LEMMA TransferredInt ==
  ASSUME NEW b \in [Addr -> Int], NEW tx \in Transaction
  PROVE  Transferred(b, tx) \in [Addr -> Int]
<1>1. Debit(tx) \in Nat /\ tx.amount \in Nat
  BY DebitType
<1> QED BY <1>1 DEF Transferred

LEMMA WithFeesInt ==
  ASSUME NEW b \in [Addr -> Int], NEW ms \in SUBSET Addr, NEW f \in Nat
  PROVE  WithFees(b, ms, f) \in [Addr -> Int]
<1>1. Share(ms, f) \in Nat /\ Rest(ms, f) \in Nat
  BY ShareType
<1> QED BY <1>1 DEF WithFees

\* The head and the tail of a queue of transactions.
LEMMA WorkType ==
  ASSUME NEW q \in Seq(Transaction), q # << >>
  PROVE  Head(q) \in Transaction /\ Tail(q) \in Seq(Transaction)
BY HeadTailProperties

\* The block a replay takes next.
LEMMA BlockAtType ==
  ASSUME chain \in Seq(Block), NEW index
  PROVE  BlockAt(index) \in Block /\ BlockAt(index).txs \in Seq(Transaction)
<1>1. NoBlock \in Block
  BY DEF NoBlock, Block
<1>2. index \in DOMAIN chain => chain[index] \in Block
  BY ElementOfSeq, LenProperties
<1>3. BlockAt(index) \in Block
  BY <1>1, <1>2 DEF BlockAt
<1> QED BY <1>3 DEF Block

\* A transaction of the chain is a transaction.
LEMMA PlaceType ==
  ASSUME chain \in Seq(Block), NEW p \in Places
  PROVE  TxAt(p) \in Transaction
<1>1. PICK b \in DOMAIN chain : p \in {b} \X DOMAIN chain[b].txs
  BY DEF Places
<1>2. chain[b] \in Block
  BY <1>1, ElementOfSeq, LenProperties
<1>3. chain[b].txs \in Seq(Transaction)
  BY <1>2 DEF Block
<1>4. p[1] = b /\ p[2] \in DOMAIN chain[b].txs
  BY <1>1
<1> QED BY <1>3, <1>4, ElementOfSeq, LenProperties DEF TxAt

\* The chain has finitely many transactions, so nonces can be counted.
LEMMA PlacesFinite ==
  ASSUME chain \in Seq(Block)
  PROVE  IsFiniteSet(Places)
<1> DEFINE At(b) == {b} \X DOMAIN chain[b].txs
           Cells == {At(b) : b \in DOMAIN chain}
           f == [b \in DOMAIN chain |-> At(b)]
<1>1. IsFiniteSet(DOMAIN chain)
  BY LenProperties, FS_Interval
<1>2. f \in Surjection(DOMAIN chain, Cells)
  BY DEF Surjection
<1>3. IsFiniteSet(Cells)
  BY <1>1, <1>2, FS_Surjection
<1>4. ASSUME NEW b \in DOMAIN chain PROVE IsFiniteSet(At(b))
  <2>1. chain[b] \in Block
    BY <1>4, ElementOfSeq, LenProperties
  <2>2. chain[b].txs \in Seq(Transaction)
    BY <2>1 DEF Block
  <2>3. DOMAIN chain[b].txs = 1 .. Len(chain[b].txs) /\ Len(chain[b].txs) \in Nat
    BY <2>2, LenProperties
  <2>4. IsFiniteSet(1 .. Len(chain[b].txs))
    BY <2>3, FS_Interval
  <2> QED BY <2>3, <2>4, FS_Singleton, FS_Product
<1>5. IsFiniteSet(UNION Cells)
  BY <1>3, <1>4, FS_UNION
<1> QED BY <1>5 DEF Places

\* The number of signed transactions of an account is a natural number.
LEMMA SignedCount ==
  ASSUME chain \in Seq(Block)
  PROVE  [a \in Addr |-> Cardinality(Signed(a))] \in [Addr -> Nat]
<1>1. ASSUME NEW a \in Addr PROVE Cardinality(Signed(a)) \in Nat
  <2>1. Signed(a) \subseteq Places
    BY DEF Signed
  <2>2. IsFiniteSet(Signed(a))
    BY <2>1, PlacesFinite, FS_Subset
  <2> QED BY <2>2, FS_CardinalityType
<1> QED BY <1>1

\* A set of positions of a sequence has a last one.
LEMMA LastPosition ==
  ASSUME NEW n \in Nat, NEW S \in SUBSET (1 .. n), S # {}
  PROVE  Max(S) \in S /\ \A j \in S : j <= Max(S)
<1> DEFINE T == {n - i : i \in S}
<1>1. T \subseteq Nat /\ T # {}
  <2>1. \A i \in S : i \in Nat /\ i <= n
    OBVIOUS
  <2>2. \A i \in S : n - i \in Nat
    BY <2>1
  <2> QED BY <2>2
<1>2. \E x \in T : \A y \in T : ~ (<<y, x>> \in OpToRel(<, Nat))
  BY <1>1, WFMin, NatLessThanWellFounded
<1>3. PICK x \in T : \A y \in T : ~ (y < x)
  BY <1>1, <1>2 DEF OpToRel
<1>4. PICK i \in S : x = n - i
  OBVIOUS
<1>5. \A j \in S : i >= j
  <2> TAKE j \in S
  <2>1. ~ (n - j < x)
    BY <1>3
  <2> QED BY <2>1, <1>4
<1>6. Max(S) \in S /\ \A j \in S : Max(S) >= j
  BY <1>4, <1>5 DEF Max
<1>7. S \subseteq Nat
  OBVIOUS
<1> QED BY <1>6, <1>7

\* Sealing a block leaves every account with a natural nonce.
LEMMA LastNoncesType ==
  ASSUME nonces \in [Addr -> Nat], NEW txs \in Seq(Transaction)
  PROVE  LastNonces(txs) \in [Addr -> Nat]
<1>1. DOMAIN txs = 1 .. Len(txs) /\ Len(txs) \in Nat
  BY LenProperties
<1>2. \A S \in SUBSET DOMAIN txs : S # {} => Max(S) \in DOMAIN txs
  BY <1>1, LastPosition
<1>3. \A i \in DOMAIN txs : txs[i].nonce \in Nat
  BY <1>1, ElementOfSeq, DebitType
<1> QED BY <1>2, <1>3 DEF LastNonces

------------------------------------------------------------------------------
(***************************************************************************)
(* Balances.  TypeOK and ActivatedBounded are proved together: the         *)
(* clawback subtracts an activation from a balance, so that the balance    *)
(* stays natural only because the activation never exceeds it.             *)
(***************************************************************************)
\* The fee reserve has no activation: it is the one account whose balance a
\* settlement lowers without lowering its activation too.
ReserveIdle == activated[Reserve] = 0 /\ topups[Reserve] = 0 /\ snapshot.ants[Reserve] = 0

BalanceInv == TypeOK /\ ActivatedBounded /\ ReserveIdle

\* The parts of the invariant whose variables a step leaves alone.
LEMMA PartsStay ==
  /\ AccountsOK /\ UNCHANGED accountVars => AccountsOK'
  /\ PoolOK /\ UNCHANGED poolVars => PoolOK'
  /\ DurableOK /\ UNCHANGED durableVars => DurableOK'
  /\ SealOK /\ UNCHANGED sealVars => SealOK'
  /\ ReplayOK /\ UNCHANGED replayVars => ReplayOK'
  /\ ActivatedBounded /\ UNCHANGED <<ants, activated>> => ActivatedBounded'
  /\ ReserveIdle /\ UNCHANGED <<activated, topups, snapshot>> => ReserveIdle'
  /\ HistoryOK /\ UNCHANGED <<sealed, unstored, spent>> => HistoryOK'
BY DEF AccountsOK, PoolOK, DurableOK, SealOK, ReplayOK, ActivatedBounded, ReserveIdle,
       HistoryOK, accountVars, poolVars, durableVars, sealVars, replayVars

\* What the constants are.
LEMMA ConstantTypes ==
  /\ MinFee \in Nat /\ MinFee > 0 /\ Amounts \subseteq Nat \ {0} /\ Fees \subseteq Nat
  /\ Times \subseteq Nat /\ Now \in Nat
  /\ Wallets \subseteq Addr /\ Treasury \in Addr /\ Reserve \in Addr
  /\ Reserve \notin Wallets /\ Treasury # Reserve
  /\ Trimmed \in [Hashes -> Hashes] /\ NoHash \notin Hashes
BY NodeLedgerAssumption DEF Addr

\* genesis.json holds well-formed accounts when the node is started first.
LEMMA InitBalances == Init => BalanceInv
<1> SUFFICES ASSUME Init PROVE BalanceInv
  OBVIOUS
<1>1. Zero \in [Addr -> Nat] /\ \A a \in Addr : Zero[a] = 0
  BY DEF Zero
<1>2. /\ GenesisOf(GenesisAnts) \in [Addr -> Nat]
      /\ GenesisOf(GenesisSessions) \in [Addr -> Nat]
      /\ GenesisOf(GenesisAnts)[Reserve] = 0
  BY NodeLedgerAssumption, ConstantTypes DEF GenesisOf
<1>3. NoBlock \in Block
  BY DEF NoBlock, Block
<1>4. TypeOK
  <2>1. AccountsOK
    BY <1>1 DEF Init, AccountsOK
  <2>4. mempool = << >> /\ nonces = Zero /\ miners = {} /\ dirty = FALSE
        /\ seen = {} /\ funded = {}
    BY DEF Init
  <2>5. PoolOK
    <3>1. mempool \in Seq(Transaction) /\ nonces \in [Addr -> Nat]
      BY <1>1, <2>4
    <3>2. miners \subseteq Addr /\ dirty \in BOOLEAN
      BY <2>4
    <3>3. seen \subseteq Hashes /\ funded \subseteq Addr
      BY <2>4
    <3> QED BY <3>1, <3>2, <3>3 DEF PoolOK
  <2>2. DurableOK
    BY <1>2 DEF Init, DurableOK, Snapshot, GenesisSnapshot
  <2>3. SealOK /\ ReplayOK
    BY <1>1, <1>3 DEF Init, SealOK, ReplayOK
  <2>6. HistoryOK
    BY <1>1, <1>2 DEF Init, HistoryOK
  <2> QED BY <2>1, <2>2, <2>3, <2>5, <2>6 DEF Init, TypeOK
<1>5. ActivatedBounded /\ ReserveIdle
  BY <1>1, <1>2, ConstantTypes DEF Init, ActivatedBounded, ReserveIdle, GenesisSnapshot
<1> QED BY <1>4, <1>5 DEF BalanceInv

\* Queueing a transaction.
LEMMA SubmitBalances ==
  ASSUME BalanceInv, SubmitSome
  PROVE  BalanceInv'
<1>1. PICK from, to \in Wallets, amount \in Amounts, fee \in Fees, time \in Times :
        \E nonce \in 1 .. nonces[from] + Len(mempool) + 2 :
          Submit([from |-> from, to |-> to, amount |-> amount, fee |-> fee,
                  nonce |-> nonce, time |-> time, hash |-> NoHash])
  BY DEF SubmitSome
<1>2. nonces[from] \in Nat /\ Len(mempool) \in Nat
  BY ConstantTypes, LenProperties DEF BalanceInv, TypeOK, PoolOK
<1>3. PICK nonce \in Nat :
        Submit([from |-> from, to |-> to, amount |-> amount, fee |-> fee,
                nonce |-> nonce, time |-> time, hash |-> NoHash])
  BY <1>1, <1>2
<1> DEFINE tx == [from |-> from, to |-> to, amount |-> amount, fee |-> fee,
                  nonce |-> nonce, time |-> time, hash |-> NoHash]
<1>4. tx \in Transaction
  BY ConstantTypes DEF Transaction
<1>5. mempool' = Append(mempool, tx)
  BY <1>3 DEF Submit
<1>6. mempool' \in Seq(Transaction)
  BY <1>4, <1>5, AppendProperties DEF BalanceInv, TypeOK, PoolOK
<1>7. PoolOK'
  BY <1>3, <1>6 DEF BalanceInv, TypeOK, PoolOK, Submit
<1>8. UNCHANGED <<accountVars, durableVars, pc, loop, sealVars, replayVars,
                  sealed, unstored, spent>>
  BY <1>3 DEF Submit
<1> QED BY <1>7, <1>8, PartsStay
        DEF BalanceInv, TypeOK, accountVars, durableVars, replayVars

\* Crediting a bridge deposit.
LEMMA CreditBalances ==
  ASSUME BalanceInv, NEW to \in Wallets, NEW hash \in Hashes, NEW amount \in Amounts,
         BridgeCredit(to, amount, hash)
  PROVE  BalanceInv'
<1> DEFINE tx == [from |-> Treasury, to |-> to, amount |-> amount, fee |-> MinFee,
                  nonce |-> 0, time |-> Now, hash |-> Trimmed[hash]]
<1>1. tx \in Transaction
  BY ConstantTypes DEF Transaction
<1>2. mempool' = Append(mempool, tx) /\ ants' = PreFunded(tx)
  BY DEF BridgeCredit
<1>3. mempool' \in Seq(Transaction)
  BY <1>1, <1>2, AppendProperties DEF BalanceInv, TypeOK, PoolOK
<1>4. ants' \in [Addr -> Nat] /\ \A a \in Addr : ants[a] <= ants'[a]
  <2>1. Debit(tx) \in Nat /\ ants \in [Addr -> Nat]
    BY <1>1, DebitType DEF BalanceInv, TypeOK, AccountsOK
  <2>2. ants' = [ants EXCEPT ![Treasury] = @ + Debit(tx)]
    BY <1>2 DEF PreFunded
  <2> HIDE DEF tx
  <2> QED BY <2>1, <2>2, ConstantTypes
<1>5. AccountsOK'
  BY <1>4, ConstantTypes DEF BalanceInv, TypeOK, AccountsOK, BridgeCredit
<1>6. PoolOK'
  BY <1>3, ConstantTypes DEF BalanceInv, TypeOK, PoolOK, BridgeCredit
<1>7. ActivatedBounded'
  BY <1>4 DEF BalanceInv, TypeOK, AccountsOK, ActivatedBounded, BridgeCredit
<1>8. UNCHANGED <<activated, durableVars, pc, loop, sealVars, replayVars,
                  sealed, unstored, spent>>
  BY DEF BridgeCredit
<1> QED BY <1>5, <1>6, <1>7, <1>8, PartsStay
        DEF BalanceInv, TypeOK, durableVars, replayVars

\* Settling a Pi payment: what the sender lacks comes from the reserve.
LEMMA SettlementBalances ==
  ASSUME BalanceInv, NEW from \in Wallets, NEW to \in Wallets, PiSettlement(from, to)
  PROVE  BalanceInv'
<1> DEFINE tx == [from |-> from, to |-> to, amount |-> 1, fee |-> MinFee,
                  nonce |-> 0, time |-> Now, hash |-> NoHash]
           deficit == Minus(Debit(tx), ants[from])
<1>1. tx \in Transaction
  BY ConstantTypes DEF Transaction
<1>2. Debit(tx) \in Nat /\ ants[from] \in Nat /\ ants[Reserve] \in Nat
  BY <1>1, ConstantTypes, DebitType DEF BalanceInv, TypeOK, AccountsOK
<1>3. deficit \in Nat
  BY <1>2, MinusType
<1>4. /\ deficit > 0 => ants[Reserve] >= deficit
      /\ ants' = [a \in Addr |-> ants[a] - (IF a = Reserve THEN deficit ELSE 0)
                                         + (IF a = from THEN deficit ELSE 0)]
      /\ activated' = [activated EXCEPT ![from] = @ + deficit]
      /\ total' = [total EXCEPT ![from] = @ + deficit]
  BY DEF PiSettlement
<1> HIDE DEF deficit
<1>5. /\ ants' \in [Addr -> Nat] /\ activated' \in [Addr -> Nat]
      /\ total' \in [Addr -> Nat] /\ activated'[Reserve] = 0 /\ ActivatedBounded'
  BY <1>2, <1>3, <1>4, ConstantTypes
  DEF BalanceInv, TypeOK, AccountsOK, ActivatedBounded, ReserveIdle
<1>6. mempool' \in Seq(Transaction) /\ dirty' \in BOOLEAN
  <2>1. \/ UNCHANGED <<mempool, dirty>>
        \/ mempool' = Append(mempool, tx) /\ dirty' = TRUE
    BY DEF PiSettlement
  <2>2. CASE UNCHANGED <<mempool, dirty>>
    BY <2>2 DEF BalanceInv, TypeOK, PoolOK
  <2>3. CASE mempool' = Append(mempool, tx) /\ dirty' = TRUE
    BY <2>3, <1>1, AppendProperties DEF BalanceInv, TypeOK, PoolOK
  <2> QED BY <2>1, <2>2, <2>3
<1>7. /\ UNCHANGED <<exists, sessions>>
      /\ UNCHANGED <<nonces, miners, seen, funded>>
      /\ UNCHANGED <<durableVars, pc, loop, sealVars, replayVars,
                     sealed, unstored, spent>>
  BY DEF PiSettlement
<1>8. AccountsOK' /\ PoolOK'
  BY <1>5, <1>6, <1>7 DEF BalanceInv, TypeOK, AccountsOK, PoolOK
<1>9. ReserveIdle'
  BY <1>5, <1>7 DEF BalanceInv, ReserveIdle, durableVars, replayVars
<1> QED BY <1>5, <1>7, <1>8, <1>9, PartsStay DEF BalanceInv, TypeOK

\* Burning: amount and fee leave the sender, shares of the fee go out.
LEMMA BurnBalances ==
  ASSUME BalanceInv, NEW from \in Wallets, NEW amount \in Amounts,
         BridgeBurn(from, amount)
  PROVE  BalanceInv'
<1> DEFINE toReserve == IF Reserve \in exists THEN Rest(miners, MinFee) ELSE 0
           share(a) == IF a \in miners THEN Share(miners, MinFee) ELSE 0
           debit == amount + MinFee
<1>1. Share(miners, MinFee) \in Nat /\ Rest(miners, MinFee) \in Nat
  BY ShareType, ConstantTypes DEF BalanceInv, TypeOK, PoolOK
<1>2. toReserve \in Nat /\ \A a \in Addr : share(a) \in Nat
  BY <1>1
<1>3. /\ debit \in Nat /\ ants[from] >= debit
      /\ activated' = [activated EXCEPT ![from] = Minus(@, debit)]
      /\ ants' = [a \in Addr |-> ants[a] - (IF a = from THEN debit ELSE 0)
                                         + share(a) + (IF a = Reserve THEN toReserve ELSE 0)]
  BY ConstantTypes DEF BridgeBurn, DebitAnet
<1> HIDE DEF toReserve, share, debit
<1>4. Minus(activated[from], debit) \in Nat /\ activated[from] <= debit + Minus(activated[from], debit)
      /\ Minus(activated[from], debit) = IF activated[from] < debit THEN 0 ELSE activated[from] - debit
  BY <1>3, MinusType, ConstantTypes DEF BalanceInv, TypeOK, AccountsOK, Minus
<1>5. /\ ants' \in [Addr -> Nat] /\ activated' \in [Addr -> Nat]
      /\ \A a \in Addr \ {from} : ants[a] <= ants'[a] /\ activated'[a] = activated[a]
      /\ ants[from] - debit <= ants'[from]
      /\ activated'[from] = Minus(activated[from], debit)
  BY <1>2, <1>3, <1>4, ConstantTypes DEF BalanceInv, TypeOK, AccountsOK
<1>6. ActivatedBounded'
  <2> SUFFICES ASSUME NEW a \in Addr PROVE activated'[a] <= ants'[a]
    BY DEF ActivatedBounded
  <2>1. activated[a] <= ants[a] /\ activated[a] \in Nat /\ ants[a] \in Nat /\ ants'[a] \in Nat
    BY <1>5 DEF BalanceInv, TypeOK, AccountsOK, ActivatedBounded
  <2>2. CASE a = from
    BY <2>1, <2>2, <1>3, <1>4, <1>5
  <2>3. CASE a # from
    BY <2>1, <2>3, <1>5
  <2> QED BY <2>2, <2>3
<1>7. /\ exists' \subseteq Addr
      /\ dirty' = TRUE
      /\ UNCHANGED <<total, sessions>>
      /\ UNCHANGED <<mempool, nonces, miners, seen, funded>>
      /\ UNCHANGED <<durableVars, pc, loop, sealVars, replayVars,
                     sealed, unstored, spent>>
  BY ConstantTypes DEF BridgeBurn, BalanceInv, TypeOK, AccountsOK, PoolOK
<1>8. AccountsOK' /\ PoolOK'
  BY <1>5, <1>7 DEF BalanceInv, TypeOK, AccountsOK, PoolOK
<1>9. ReserveIdle'
  BY <1>5, <1>7, ConstantTypes DEF BalanceInv, ReserveIdle, durableVars, replayVars
<1> QED BY <1>6, <1>7, <1>8, <1>9, PartsStay DEF BalanceInv, TypeOK

\* Minting.
LEMMA MintBalances ==
  ASSUME BalanceInv, NEW to \in Wallets, NEW amount \in Amounts, AdminMint(to, amount)
  PROVE  BalanceInv'
<1>1. /\ ants' = [ants EXCEPT ![to] = @ + amount] /\ exists' = exists \cup {to}
      /\ dirty' = TRUE
      /\ UNCHANGED <<activated, total, sessions>>
      /\ UNCHANGED <<mempool, nonces, miners, seen, funded>>
      /\ UNCHANGED <<durableVars, pc, loop, sealVars, replayVars,
                     sealed, unstored, spent>>
  BY DEF AdminMint
<1>2. amount \in Nat /\ to \in Addr /\ ants \in [Addr -> Nat]
  BY ConstantTypes DEF BalanceInv, TypeOK, AccountsOK
<1>3. ants' \in [Addr -> Nat] /\ \A a \in Addr : ants[a] <= ants'[a]
  BY <1>1, <1>2
<1>4. AccountsOK' /\ PoolOK'
  <2>1. AccountsOK'
    BY <1>1, <1>2, <1>3 DEF BalanceInv, TypeOK, AccountsOK
  <2>2. PoolOK'
    BY <1>1 DEF BalanceInv, TypeOK, PoolOK
  <2> QED BY <2>1, <2>2
<1>5. ActivatedBounded'
  BY <1>1, <1>3 DEF BalanceInv, TypeOK, AccountsOK, ActivatedBounded
<1> QED BY <1>1, <1>4, <1>5, PartsStay DEF BalanceInv, TypeOK, durableVars, replayVars

\* Migrating an account to another address.
LEMMA MigrationBalances ==
  ASSUME BalanceInv, NEW legacy \in Wallets, NEW secp \in Wallets,
         MigrateLegacy(legacy, secp)
  PROVE  BalanceInv'
<1>1. /\ legacy # secp /\ exists' = exists \cup {secp}
      /\ ants' = Moved(ants, legacy, secp)
      /\ activated' = Moved(activated, legacy, secp)
      /\ sessions' = Moved(sessions, legacy, secp)
      /\ total' = [total EXCEPT ![secp] = @ + total[legacy]]
      /\ dirty' = TRUE
      /\ UNCHANGED <<mempool, nonces, miners, seen, funded>>
      /\ UNCHANGED <<durableVars, pc, loop, sealVars, replayVars,
                     sealed, unstored, spent>>
  BY DEF MigrateLegacy
<1>2. AccountsOK' /\ PoolOK'
  <2>1. /\ ants' \in [Addr -> Nat] /\ activated' \in [Addr -> Nat]
        /\ sessions' \in [Addr -> Nat]
    BY <1>1, ConstantTypes DEF BalanceInv, TypeOK, AccountsOK, Moved
  <2>2. total' \in [Addr -> Nat] /\ exists' \subseteq Addr
    BY <1>1, ConstantTypes DEF BalanceInv, TypeOK, AccountsOK
  <2>3. PoolOK'
    BY <1>1 DEF BalanceInv, TypeOK, PoolOK
  <2> QED BY <2>1, <2>2, <2>3 DEF AccountsOK
<1>3. ActivatedBounded' /\ activated'[Reserve] = 0
  BY <1>1, ConstantTypes
  DEF BalanceInv, TypeOK, AccountsOK, ActivatedBounded, ReserveIdle, Moved
<1>4. ReserveIdle'
  BY <1>1, <1>3 DEF BalanceInv, ReserveIdle, durableVars, replayVars
<1> QED BY <1>1, <1>2, <1>3, <1>4, PartsStay DEF BalanceInv, TypeOK

\* Taking over the Web2 ledger: the clawback subtracts no more than there is.
LEMMA SyncBalances ==
  ASSUME BalanceInv, NEW rows \in Web2Ledgers, Sync(rows)
  PROVE  BalanceInv'
<1>1. \A a \in DOMAIN rows : a \in Addr \ {Reserve} /\ rows[a].ants \in Nat
                             /\ rows[a].sessions \in Nat
  BY NodeLedgerAssumption, ConstantTypes DEF Web2Row
<1>2. \A a \in Addr : Gain(rows, a) \in Nat /\ (a = Reserve => Gain(rows, a) = 0)
  BY <1>1, MinusType DEF BalanceInv, TypeOK, AccountsOK, Gain
<1>3. /\ exists' = exists \cup DOMAIN rows
      /\ sessions' = SyncedSessions(rows)
      /\ ants' = [a \in Addr |-> IF a \in ClawedBack(rows) THEN ants[a] - activated[a]
                                                           ELSE ants[a] + Gain(rows, a)]
      /\ activated' = [a \in Addr |-> IF a \in ClawedBack(rows) THEN 0
                                      ELSE activated[a] + Gain(rows, a)]
      /\ total' = [a \in Addr |-> IF a \in ClawedBack(rows) THEN 0
                                  ELSE total[a] + Gain(rows, a)]
      /\ dirty' \in BOOLEAN
      /\ \/ pc' = "persist" /\ UNCHANGED miners
         \/ pc' = "up" /\ miners' = Eligible(sessions')
      /\ UNCHANGED <<mempool, nonces, seen, funded>>
      /\ UNCHANGED <<durableVars, loop, sealVars, replayVars, sealed, unstored, spent>>
  BY DEF Sync, BalanceInv, TypeOK, PoolOK
<1>4. sessions' \in [Addr -> Nat]
  BY <1>1, <1>3 DEF BalanceInv, TypeOK, AccountsOK, SyncedSessions, Larger
<1>5. /\ ants' \in [Addr -> Nat] /\ activated' \in [Addr -> Nat] /\ total' \in [Addr -> Nat]
      /\ ActivatedBounded' /\ activated'[Reserve] = 0
  BY <1>2, <1>3, ConstantTypes
  DEF BalanceInv, TypeOK, AccountsOK, ActivatedBounded, ReserveIdle
<1>6. AccountsOK'
  BY <1>1, <1>3, <1>4, <1>5 DEF BalanceInv, TypeOK, AccountsOK
<1>7. PoolOK'
  BY <1>3 DEF BalanceInv, TypeOK, PoolOK, Eligible
<1>8. ReserveIdle'
  BY <1>3, <1>5 DEF BalanceInv, ReserveIdle, durableVars, replayVars
<1> QED BY <1>3, <1>5, <1>6, <1>7, <1>8, PartsStay DEF BalanceInv, TypeOK

\* Rewriting genesis.json.
LEMMA SnapshotBalances ==
  ASSUME BalanceInv, Truncate \/ WriteSnapshot \/ WriteFails
  PROVE  BalanceInv'
<1>1. CASE Truncate
  <2>1. /\ readable' = FALSE /\ pc' = "write"
        /\ UNCHANGED <<accountVars, poolVars, sealVars, replayVars>>
        /\ UNCHANGED <<chain, snapshot, loop, sealed, unstored, spent>>
    BY <1>1 DEF Truncate
  <2>2. DurableOK'
    BY <2>1 DEF BalanceInv, TypeOK, DurableOK
  <2> QED BY <2>1, <2>2, PartsStay DEF BalanceInv, TypeOK, accountVars, replayVars
<1>2. CASE WriteSnapshot
  <2>1. /\ snapshot' = SnapshotOfAccounts /\ readable' = TRUE
        /\ miners' = Eligible(sessions) /\ pc' = "up"
        /\ sealed' = [a \in Addr |-> IF a = Treasury THEN 0 ELSE ants[a] - unstored[a]]
        /\ UNCHANGED <<accountVars, sealVars, replayVars>>
        /\ UNCHANGED <<mempool, nonces, dirty, seen, funded, chain, loop, unstored, spent>>
    BY <1>2 DEF WriteSnapshot
  <2>2. SnapshotOfAccounts \in Snapshot /\ SnapshotOfAccounts.ants[Reserve] = 0
    BY ConstantTypes
    DEF BalanceInv, TypeOK, AccountsOK, ReserveIdle, Snapshot, SnapshotOfAccounts
  <2>3. DurableOK' /\ PoolOK'
    BY <2>1, <2>2, ConstantTypes
    DEF BalanceInv, TypeOK, AccountsOK, DurableOK, PoolOK, Eligible
  <2>5. HistoryOK'
    BY <2>1 DEF BalanceInv, TypeOK, AccountsOK, HistoryOK
  <2>4. ReserveIdle'
    BY <2>1, <2>2 DEF BalanceInv, ReserveIdle, accountVars, replayVars
  <2> QED BY <2>1, <2>3, <2>4, <2>5, PartsStay DEF BalanceInv, TypeOK, accountVars
<1>3. CASE WriteFails
  BY <1>3, PartsStay
  DEF WriteFails, BalanceInv, TypeOK, accountVars, durableVars, replayVars
<1> QED BY <1>1, <1>2, <1>3

\* Taking the mempool: the transactions of the block are those of the mempool.
LEMMA BeginBalances ==
  ASSUME BalanceInv, BeginBlock
  PROVE  BalanceInv'
<1>1. PICK p \in BlockOrders(mempool) :
        LET txs == [i \in DOMAIN mempool |-> mempool[p[i]]]
        IN  block' = [txs |-> txs, miners |-> miners] /\ work' = txs
  BY DEF BeginBlock
<1> DEFINE txs == [i \in DOMAIN mempool |-> mempool[p[i]]]
<1>2. DOMAIN mempool = 1 .. Len(mempool) /\ Len(mempool) \in Nat
  BY LenProperties DEF BalanceInv, TypeOK, PoolOK
<1>3. \A i \in DOMAIN mempool : mempool[p[i]] \in Transaction
  BY <1>2, ElementOfSeq DEF BalanceInv, TypeOK, PoolOK, BlockOrders
<1>4. txs \in Seq(Transaction)
  <2>1. \E n \in Nat : txs \in [1 .. n -> Transaction]
    BY <1>2, <1>3
  <2> HIDE DEF txs
  <2> QED BY <2>1, SeqDef
<1>5. block' = [txs |-> txs, miners |-> miners] /\ work' = txs
  BY <1>1
<1> HIDE DEF txs
<1>6. SealOK'
  BY <1>4, <1>5 DEF BalanceInv, TypeOK, PoolOK, SealOK, Block, BeginBlock
<1>7. /\ mempool' = << >> /\ pc' = "apply"
      /\ UNCHANGED <<accountVars, durableVars, replayVars>>
      /\ UNCHANGED <<nonces, miners, dirty, seen, funded, loop, sealed, unstored, spent>>
  BY DEF BeginBlock
<1>8. PoolOK'
  <2>1. mempool' \in Seq(Transaction)
    BY <1>7
  <2> QED BY <1>7, <2>1 DEF BalanceInv, TypeOK, PoolOK
<1> QED BY <1>6, <1>7, <1>8, PartsStay
        DEF BalanceInv, TypeOK, accountVars, durableVars, replayVars

\* Applying one transaction, live or in the replay: the activation falls by as
\* much as the balance, or to zero.
LEMMA ApplyBalances ==
  ASSUME BalanceInv, ApplyTx
  PROVE  BalanceInv'
<1> DEFINE tx == Head(work)
<1>1. tx \in Transaction /\ Tail(work) \in Seq(Transaction)
  BY WorkType DEF BalanceInv, TypeOK, SealOK, ApplyTx
<1>2. /\ Debit(tx) \in Nat /\ tx.from \in Addr \ {Reserve} /\ tx.to \in Addr /\ tx.fee \in Nat
  BY <1>1, DebitType
<1>3. /\ Debit(tx) <= ants[tx.from]
      /\ ants' = Transferred(ants, tx)
      /\ activated' = [activated EXCEPT ![tx.from] = Minus(@, Debit(tx))]
      /\ exists' = exists \cup {tx.to}
      /\ fees' = fees + tx.fee
      /\ work' = Tail(work)
      /\ UNCHANGED <<poolVars, durableVars, replayVars>>
      /\ UNCHANGED <<total, sessions, pc, loop, block, sealed>>
      /\ \/ unstored' = Transferred(unstored, tx) /\ spent' = spent \cup {tx.from}
         \/ UNCHANGED <<unstored, spent>>
  BY DEF ApplyTx
<1> HIDE DEF tx
<1>4. /\ ants' \in [Addr -> Nat]
      /\ \A a \in Addr : a # tx.from => ants[a] <= ants'[a]
      /\ ants[tx.from] - Debit(tx) <= ants'[tx.from]
  BY <1>1, <1>3, TransferredType DEF BalanceInv, TypeOK, AccountsOK
<1>5. activated[tx.from] \in Nat /\ ants[tx.from] \in Nat /\ activated[tx.from] <= ants[tx.from]
  BY <1>2 DEF BalanceInv, TypeOK, AccountsOK, ActivatedBounded
<1>6. /\ Minus(activated[tx.from], Debit(tx)) \in Nat
      /\ Minus(activated[tx.from], Debit(tx)) <= ants[tx.from] - Debit(tx)
  BY <1>2, <1>3, <1>5 DEF Minus
<1>7. /\ activated' \in [Addr -> Nat]
      /\ activated'[tx.from] = Minus(activated[tx.from], Debit(tx))
      /\ \A a \in Addr : a # tx.from => activated'[a] = activated[a]
  BY <1>2, <1>3, <1>6 DEF BalanceInv, TypeOK, AccountsOK
<1>8. ActivatedBounded'
  <2> SUFFICES ASSUME NEW a \in Addr PROVE activated'[a] <= ants'[a]
    BY DEF ActivatedBounded
  <2>1. CASE a = tx.from
    BY <2>1, <1>2, <1>4, <1>5, <1>6, <1>7
  <2>2. CASE a # tx.from
    BY <2>2, <1>4, <1>7 DEF BalanceInv, TypeOK, AccountsOK, ActivatedBounded
  <2> QED BY <2>1, <2>2
<1>9. AccountsOK' /\ SealOK'
  <2>1. exists' \subseteq Addr
    BY <1>2, <1>3 DEF BalanceInv, TypeOK, AccountsOK
  <2>2. AccountsOK'
    BY <2>1, <1>3, <1>4, <1>7 DEF BalanceInv, TypeOK, AccountsOK
  <2>3. fees' \in Nat
    BY <1>2, <1>3 DEF BalanceInv, TypeOK, SealOK
  <2>4. work' \in Seq(Transaction)
    BY <1>1, <1>3 DEF tx
  <2>5. SealOK'
    BY <2>3, <2>4, <1>3 DEF BalanceInv, TypeOK, SealOK
  <2> QED BY <2>2, <2>5
<1>10. ReserveIdle'
  BY <1>2, <1>3, <1>7, ConstantTypes DEF BalanceInv, ReserveIdle, durableVars, replayVars
<1>11. HistoryOK'
  <2>1. Transferred(unstored, tx) \in [Addr -> Int]
    BY <1>1, TransferredInt DEF BalanceInv, TypeOK, HistoryOK
  <2> QED BY <1>2, <1>3, <2>1 DEF BalanceInv, TypeOK, HistoryOK
<1> QED BY <1>3, <1>8, <1>9, <1>10, <1>11, PartsStay DEF BalanceInv, TypeOK

\* Distributing the fees, when a block is sealed and when it is replayed.
LEMMA FeesBalances ==
  ASSUME BalanceInv,
         /\ ants' = WithFees(ants, block.miners, fees)
         /\ exists' = exists \cup FeeAccounts(block.miners, fees)
         /\ UNCHANGED <<activated, total, sessions>>
  PROVE  AccountsOK' /\ ActivatedBounded'
<1>1. block.miners \in SUBSET Addr /\ fees \in Nat
  BY DEF BalanceInv, TypeOK, SealOK, Block
<1>2. ants' \in [Addr -> Nat] /\ \A a \in Addr : ants[a] <= ants'[a]
  BY <1>1, WithFeesType DEF BalanceInv, TypeOK, AccountsOK
<1>3. exists' \subseteq Addr
  BY <1>1, ConstantTypes DEF BalanceInv, TypeOK, AccountsOK, FeeAccounts
<1>4. AccountsOK'
  BY <1>2, <1>3 DEF BalanceInv, TypeOK, AccountsOK
<1>5. ActivatedBounded'
  BY <1>2 DEF BalanceInv, TypeOK, AccountsOK, ActivatedBounded
<1> QED BY <1>4, <1>5

\* Finishing a block.
LEMMA FinishBalances ==
  ASSUME BalanceInv, FinishBlock
  PROVE  BalanceInv'
<1>1. /\ ants' = WithFees(ants, block.miners, fees)
      /\ exists' = exists \cup FeeAccounts(block.miners, fees)
      /\ nonces' = LastNonces(block.txs)
      /\ fees' = 0 /\ pc' = "store"
      /\ UNCHANGED <<activated, total, sessions>>
      /\ UNCHANGED <<mempool, miners, dirty, seen, funded>>
      /\ UNCHANGED <<durableVars, replayVars>>
      /\ UNCHANGED <<loop, block, work, sealed, spent>>
      /\ unstored' = WithFees(unstored, block.miners, fees)
  BY DEF FinishBlock
<1>2. AccountsOK' /\ ActivatedBounded'
  BY <1>1, FeesBalances
<1>3. nonces' \in [Addr -> Nat]
  BY <1>1, LastNoncesType DEF BalanceInv, TypeOK, PoolOK, SealOK, Block
<1>4. PoolOK' /\ SealOK'
  BY <1>1, <1>3 DEF BalanceInv, TypeOK, PoolOK, SealOK
<1>5. HistoryOK'
  <2>1. WithFees(unstored, block.miners, fees) \in [Addr -> Int]
    BY WithFeesInt DEF BalanceInv, TypeOK, SealOK, Block, HistoryOK
  <2> QED BY <1>1, <2>1 DEF BalanceInv, TypeOK, HistoryOK
<1> QED BY <1>1, <1>2, <1>4, <1>5, PartsStay DEF BalanceInv, TypeOK, durableVars, replayVars

\* Storing a block, or failing to.
LEMMA StoreBalances ==
  ASSUME BalanceInv, Store \/ StoreFails
  PROVE  BalanceInv'
<1>1. /\ \/ UNCHANGED <<chain, sealed, unstored>>
         \/ chain' = Append(chain, block) /\ sealed' = ants /\ unstored' = Zero
      /\ dirty' \in BOOLEAN /\ block' = NoBlock
      /\ pc' = "up" /\ loop' \in {loop, "exited"}
      /\ UNCHANGED <<accountVars, replayVars>>
      /\ UNCHANGED <<mempool, nonces, miners, seen, funded>>
      /\ UNCHANGED <<snapshot, readable, work, fees, spent>>
  BY DEF Store, StoreFails, LoopEnds, BalanceInv, TypeOK, PoolOK, poolVars
<1>2. chain' \in Seq(Block) /\ HistoryOK'
  <2>1. chain \in Seq(Block) /\ block \in Block /\ ants \in [Addr -> Int] /\ HistoryOK
        /\ Zero \in [Addr -> Int]
    BY DEF BalanceInv, TypeOK, AccountsOK, DurableOK, SealOK, Zero
  <2>2. CASE UNCHANGED <<chain, sealed, unstored>>
    BY <1>1, <2>1, <2>2 DEF HistoryOK
  <2>3. CASE chain' = Append(chain, block) /\ sealed' = ants /\ unstored' = Zero
    BY <1>1, <2>1, <2>3, AppendProperties DEF HistoryOK
  <2> QED BY <2>2, <2>3, <1>1
<1>3. NoBlock \in Block
  BY DEF NoBlock, Block
<1>4. PoolOK' /\ DurableOK' /\ SealOK'
  BY <1>1, <1>2, <1>3 DEF BalanceInv, TypeOK, PoolOK, DurableOK, SealOK
<1>5. ReserveIdle'
  BY <1>1 DEF BalanceInv, ReserveIdle, accountVars, replayVars
<1> QED BY <1>1, <1>2, <1>4, <1>5, PartsStay DEF BalanceInv, TypeOK, accountVars

\* A failed block, or a crash, leaves an empty seal and nothing else to check.
LEMMA FailureBalances ==
  ASSUME BalanceInv, ApplyFails \/ Crash
  PROVE  BalanceInv'
<1>0. NoBlock \in Block /\ << >> \in Seq(Transaction)
  BY DEF NoBlock, Block
<1>1. CASE ApplyFails
  <2>1. /\ block' = NoBlock /\ work' = << >> /\ fees' = 0
        /\ pc' = "up" /\ loop' = "exited"
        /\ UNCHANGED <<accountVars, poolVars, durableVars, replayVars>>
        /\ UNCHANGED <<sealed, unstored, spent>>
    BY <1>1 DEF ApplyFails, LoopEnds
  <2>2. SealOK'
    BY <2>1, <1>0 DEF SealOK
  <2> QED BY <2>1, <2>2, PartsStay
          DEF BalanceInv, TypeOK, accountVars, durableVars, replayVars
<1>2. CASE Crash
  <2>1. Zero \in [Addr -> Nat] /\ \A a \in Addr : Zero[a] = 0
    BY DEF Zero
  <2>2. /\ exists' = {} /\ ants' = Zero /\ activated' = Zero /\ total' = Zero
        /\ sessions' = Zero
        /\ pc' = "down" /\ loop' = "exited"
        /\ next' = 0 /\ sim' = Zero /\ topups' = Zero
        /\ unstored' = Zero /\ UNCHANGED durableVars /\ UNCHANGED <<sealed, spent>>
    BY <1>2 DEF Crash
  <2>3. /\ mempool' = << >> /\ nonces' = Zero /\ miners' = {} /\ dirty' = FALSE
        /\ seen' = {} /\ funded' = {}
        /\ block' = NoBlock /\ work' = << >> /\ fees' = 0
    BY <1>2 DEF Crash
  <2>4. AccountsOK' /\ ReplayOK'
    BY <2>1, <2>2 DEF AccountsOK, ReplayOK
  <2>5. mempool' \in Seq(Transaction) /\ nonces' \in [Addr -> Nat] /\ dirty' \in BOOLEAN
    BY <2>1, <2>3, <1>0
  <2>6. PoolOK'
    BY <2>3, <2>5 DEF PoolOK
  <2>7. SealOK'
    BY <2>3, <1>0 DEF SealOK
  <2>8. ActivatedBounded' /\ ReserveIdle'
    BY <2>1, <2>2, ConstantTypes DEF BalanceInv, ActivatedBounded, ReserveIdle, durableVars
  <2>9. HistoryOK'
    BY <2>1, <2>2 DEF BalanceInv, TypeOK, HistoryOK
  <2> QED BY <2>2, <2>4, <2>6, <2>7, <2>8, <2>9, PartsStay DEF BalanceInv, TypeOK
<1> QED BY <1>1, <1>2

\* Going to a block of the chain.
LEMMA TakeBlockType ==
  ASSUME BalanceInv, NEW index \in Nat, TakeBlock(index)
  PROVE  SealOK' /\ next' \in Nat
<1>1. BlockAt(index) \in Block /\ BlockAt(index).txs \in Seq(Transaction)
  BY BlockAtType DEF BalanceInv, TypeOK, DurableOK
<1>2. block' = BlockAt(index) /\ work' = block'.txs /\ fees' = 0 /\ next' = index
  BY DEF TakeBlock
<1> QED BY <1>1, <1>2 DEF SealOK

\* Loading genesis.json: activations and balances start equal.
LEMMA RestartBalances ==
  ASSUME BalanceInv, Restart \/ RestartFails
  PROVE  BalanceInv'
<1>1. CASE RestartFails
  BY <1>1, PartsStay
  DEF RestartFails, BalanceInv, TypeOK, accountVars, durableVars, replayVars
<1>2. CASE Restart
  <2>1. /\ exists' = {a \in Addr : snapshot.ants[a] > 0 \/ snapshot.sessions[a] > 0}
        /\ ants' = snapshot.ants
        /\ activated' = snapshot.ants
        /\ total' = [a \in Addr |-> Larger(snapshot.total[a], snapshot.ants[a])]
        /\ sessions' = snapshot.sessions
        /\ miners' = Eligible(snapshot.sessions)
        /\ sim' = snapshot.ants
        /\ TakeBlock(1)
        /\ pc' = "reconcile"
        /\ UNCHANGED <<mempool, nonces, dirty, seen, funded, loop, topups,
                       sealed, unstored, spent>>
        /\ UNCHANGED durableVars
    BY <1>2 DEF Restart
  <2>2. /\ snapshot.ants \in [Addr -> Nat] /\ snapshot.total \in [Addr -> Nat]
        /\ snapshot.sessions \in [Addr -> Nat]
    BY DEF BalanceInv, TypeOK, DurableOK, Snapshot
  <2>3. AccountsOK'
    BY <2>1, <2>2 DEF AccountsOK, Larger
  <2>4. PoolOK'
    BY <2>1 DEF BalanceInv, TypeOK, PoolOK, Eligible
  <2>5. SealOK' /\ ReplayOK'
    BY <2>1, <2>2, TakeBlockType DEF BalanceInv, TypeOK, ReplayOK
  <2>6. ActivatedBounded' /\ ReserveIdle'
    BY <2>1, <2>2, ConstantTypes DEF BalanceInv, ActivatedBounded, ReserveIdle, durableVars
  <2> QED BY <2>1, <2>3, <2>4, <2>5, <2>6, PartsStay DEF BalanceInv, TypeOK
<1> QED BY <1>1, <1>2

\* The first pass over the chain: on the copy, no sender falls below zero, and
\* the reserve is never topped up.
LEMMA ReconcileBalances ==
  ASSUME BalanceInv, ReconcileTx \/ ReconcileBlock
  PROVE  BalanceInv'
<1>1. CASE ReconcileTx
  <2> DEFINE tx == Head(work)
             lack == Lack(tx)
             filled == [sim EXCEPT ![tx.from] = @ + lack]
  <2>1. tx \in Transaction /\ Tail(work) \in Seq(Transaction)
    BY <1>1, WorkType DEF BalanceInv, TypeOK, SealOK, ReconcileTx
  <2>2. Debit(tx) \in Nat /\ tx.from \in Addr \ {Reserve} /\ tx.fee \in Nat
    BY <2>1, DebitType
  <2>3. /\ topups' = [topups EXCEPT ![tx.from] = @ + lack]
        /\ sim' = Transferred(filled, tx)
        /\ fees' = fees + tx.fee
        /\ work' = Tail(work)
        /\ UNCHANGED <<accountVars, poolVars, durableVars>>
        /\ UNCHANGED <<pc, loop, block, next, sealed, unstored, spent>>
    BY <1>1 DEF ReconcileTx
  <2>4. sim[tx.from] \in Nat
    BY <2>2 DEF BalanceInv, TypeOK, ReplayOK
  <2>5. lack \in Nat /\ Debit(tx) <= sim[tx.from] + lack
    BY <2>2, <2>4, MinusType DEF Lack
  <2>6. work' \in Seq(Transaction) /\ fees' \in Nat
    BY <2>1, <2>2, <2>3 DEF BalanceInv, TypeOK, SealOK
  <2> HIDE DEF tx, lack
  <2>7. filled \in [Addr -> Nat] /\ Debit(tx) <= filled[tx.from]
    BY <2>2, <2>5 DEF BalanceInv, TypeOK, ReplayOK
  <2> HIDE DEF filled
  <2>8. sim' \in [Addr -> Nat]
    BY <2>1, <2>3, <2>7, TransferredType
  <2>9. topups' \in [Addr -> Nat] /\ topups'[Reserve] = topups[Reserve]
    BY <2>2, <2>3, <2>5, ConstantTypes DEF BalanceInv, TypeOK, ReplayOK
  <2>10. SealOK' /\ ReplayOK'
    BY <2>3, <2>6, <2>8, <2>9 DEF BalanceInv, TypeOK, SealOK, ReplayOK
  <2>11. ReserveIdle'
    BY <2>3, <2>9 DEF BalanceInv, ReserveIdle, accountVars, durableVars
  <2> QED BY <2>3, <2>10, <2>11, PartsStay DEF BalanceInv, TypeOK, accountVars
<1>2. CASE ReconcileBlock
  <2>1. /\ sim' = WithFees(sim, block.miners, fees)
        /\ TakeBlock(next + 1)
        /\ UNCHANGED <<accountVars, poolVars, durableVars>>
        /\ UNCHANGED <<pc, loop, topups, sealed, unstored, spent>>
    BY <1>2 DEF ReconcileBlock
  <2>2. block.miners \in SUBSET Addr /\ fees \in Nat /\ sim \in [Addr -> Nat] /\ next + 1 \in Nat
    BY DEF BalanceInv, TypeOK, SealOK, Block, ReplayOK
  <2>3. sim' \in [Addr -> Nat]
    BY <2>1, <2>2, WithFeesType
  <2>4. SealOK' /\ ReplayOK'
    BY <2>1, <2>2, <2>3, TakeBlockType DEF BalanceInv, TypeOK, ReplayOK
  <2> QED BY <2>1, <2>4, PartsStay DEF BalanceInv, TypeOK, accountVars, durableVars
<1> QED BY <1>1, <1>2

\* The replay: top-ups raise balance and activation alike.
LEMMA ReplayBalances ==
  ASSUME BalanceInv, StartReplay \/ ReplayBlock \/ ReplayFails
  PROVE  BalanceInv'
<1>1. CASE StartReplay
  <2>1. /\ ants' = [a \in Addr |-> ants[a] + topups[a]]
        /\ activated' = [a \in Addr |-> activated[a] + topups[a]]
        /\ total' = [a \in Addr |-> total[a] + topups[a]]
        /\ exists' = exists \cup {a \in Addr : topups[a] > 0}
        /\ topups' = Zero /\ sim' = Zero
        /\ TakeBlock(1)
        /\ pc' = "replay"
        /\ UNCHANGED <<poolVars, durableVars>>
        /\ UNCHANGED <<sessions, loop, sealed, unstored, spent>>
    BY <1>1 DEF StartReplay
  <2>2. Zero \in [Addr -> Nat] /\ \A a \in Addr : Zero[a] = 0
    BY DEF Zero
  <2>3. AccountsOK'
    BY <2>1 DEF BalanceInv, TypeOK, AccountsOK, ReplayOK
  <2>4. SealOK' /\ ReplayOK'
    BY <2>1, <2>2, TakeBlockType DEF ReplayOK
  <2>5. ActivatedBounded'
    BY <2>1 DEF BalanceInv, TypeOK, AccountsOK, ReplayOK, ActivatedBounded
  <2>6. ReserveIdle'
    BY <2>1, <2>2, ConstantTypes DEF BalanceInv, ReserveIdle, durableVars
  <2> QED BY <2>1, <2>3, <2>4, <2>5, <2>6, PartsStay DEF BalanceInv, TypeOK
<1>2. CASE ReplayBlock
  <2>1. /\ ants' = WithFees(ants, block.miners, fees)
        /\ exists' = exists \cup FeeAccounts(block.miners, fees)
        /\ TakeBlock(next + 1)
        /\ UNCHANGED <<activated, total, sessions>>
        /\ UNCHANGED <<poolVars, durableVars>>
        /\ UNCHANGED <<pc, loop, sim, topups, sealed, unstored, spent>>
    BY <1>2 DEF ReplayBlock
  <2>2. AccountsOK' /\ ActivatedBounded'
    BY <2>1, FeesBalances
  <2>3. next + 1 \in Nat
    BY DEF BalanceInv, TypeOK, ReplayOK
  <2>4. SealOK' /\ ReplayOK'
    BY <2>1, <2>3, TakeBlockType DEF BalanceInv, TypeOK, ReplayOK
  <2> QED BY <2>1, <2>2, <2>4, PartsStay DEF BalanceInv, TypeOK, durableVars
<1>3. CASE ReplayFails
  BY <1>3, PartsStay
  DEF ReplayFails, BalanceInv, TypeOK, accountVars, durableVars, replayVars
<1> QED BY <1>1, <1>2, <1>3

\* What the chain says of nonces, hashes and wallets is well-formed.
LEMMA RecoverBalances ==
  ASSUME BalanceInv, Recover
  PROVE  BalanceInv'
<1>1. /\ nonces' = [a \in Addr |-> Cardinality(Signed(a))]
      /\ seen' = CreditHashes /\ funded' = CreditedWallets
      /\ next' = 0 /\ pc' = "up" /\ loop' = "running"
      /\ UNCHANGED <<accountVars, durableVars, sealVars>>
      /\ UNCHANGED <<mempool, miners, dirty, sim, topups, sealed, unstored, spent>>
  BY DEF Recover
<1>2. chain \in Seq(Block)
  BY DEF BalanceInv, TypeOK, DurableOK
<1>3. \A p \in Places : TxAt(p) \in Transaction
  BY <1>2, PlaceType
<1>4. CreditHashes \subseteq Hashes /\ CreditedWallets \subseteq Addr
  BY <1>3, DebitType DEF CreditHashes, CreditedWallets
<1>5. nonces' \in [Addr -> Nat]
  BY <1>1, <1>2, SignedCount
<1>6. PoolOK'
  BY <1>1, <1>4, <1>5 DEF BalanceInv, TypeOK, PoolOK
<1>7. ReplayOK'
  BY <1>1 DEF BalanceInv, TypeOK, ReplayOK
<1> QED BY <1>1, <1>6, <1>7, PartsStay DEF BalanceInv, TypeOK, accountVars, durableVars

\* Every step keeps balances natural and activations within them.
LEMMA NextBalances ==
  ASSUME BalanceInv, [Next]_vars
  PROVE  BalanceInv'
<1>1. CASE Requests
  BY <1>1, SubmitBalances, CreditBalances, SettlementBalances, BurnBalances,
     MintBalances, MigrationBalances DEF Requests
<1>2. CASE Syncing
  BY <1>2, SyncBalances, SnapshotBalances DEF Syncing
<1>3. CASE Sealing
  BY <1>3, BeginBalances, ApplyBalances, FinishBalances, StoreBalances DEF Sealing
<1>4. CASE Failing
  BY <1>4, SnapshotBalances, FailureBalances, StoreBalances DEF Failing
<1>5. CASE StartUp
  BY <1>5, RestartBalances, ReconcileBalances, ReplayBalances, RecoverBalances DEF StartUp
<1>6. CASE UNCHANGED vars
  BY <1>6, PartsStay
  DEF BalanceInv, TypeOK, vars, accountVars, poolVars, durableVars, sealVars, replayVars
<1> QED BY <1>1, <1>2, <1>3, <1>4, <1>5, <1>6 DEF Next

\* BalanceInv is an invariant of the ledger.
LEMMA AlwaysBalanced == Spec => []BalanceInv
BY InitBalances, NextBalances, PTL DEF Spec

\* No balance, nonce or fee ever leaves the natural numbers: sealing, the
\* clawback and the replay never subtract more than there is.
THEOREM BalancesStayNatural == Spec => []TypeOK
<1>1. BalanceInv => TypeOK
  BY DEF BalanceInv
<1> QED BY <1>1, AlwaysBalanced, PTL

\* The clawback of sync_activated_accounts never underflows.
THEOREM ClawbackNeverUnderflows == Spec => []ActivatedBounded
<1>1. BalanceInv => ActivatedBounded
  BY DEF BalanceInv
<1> QED BY <1>1, AlwaysBalanced, PTL

------------------------------------------------------------------------------
(***************************************************************************)
(* Bridge credits.  A credit is applied once because every hash in the     *)
(* chain or on its way there is in processed_evm_bridge_hashes: put there  *)
(* by queue_bridge_credit, and after a restart, which empties the mempool, *)
(* by collect_processed_bridge_hashes.  The same argument shows that no    *)
(* bridged wallet loses its exemption.                                     *)
(***************************************************************************)
Serving == {"up", "persist", "write", "apply", "store"}

\* The mempool is empty while a block is being sealed and before the node serves.
PoolEmpty == pc \notin {"up", "persist", "write"} => mempool = << >>

\* The node remembers the hash and the wallet of credit tx.
Remembered(tx) ==
  tx.hash # NoHash => (Unpadded => tx.hash \in seen) /\ tx.to \in funded

CreditsRemembered ==
  pc \in Serving =>
    /\ \A p \in Places : Remembered(TxAt(p))
    /\ \A i \in DOMAIN Waiting : Remembered(Waiting[i])

CreditsSingle == Unpadded => BridgeCreditOnce

CreditInv == PoolEmpty /\ CreditsRemembered /\ CreditsSingle

\* Nothing waits while the mempool is empty and no block is being sealed.
LEMMA NothingWaits ==
  ASSUME mempool = << >>, pc \notin {"apply", "store"}
  PROVE  DOMAIN Waiting = {}
<1>1. Waiting = << >>
  BY DEF Waiting
<1> QED BY <1>1

\* The places of a chain that did not change.
LEMMA PlacesStay ==
  ASSUME UNCHANGED chain
  PROVE  Places' = Places /\ \A p : TxAt(p)' = TxAt(p)
BY DEF Places, TxAt

\* A step that changes neither the chain nor what waits, and forgets nothing.
LEMMA CreditsStay ==
  ASSUME CreditInv, UNCHANGED chain, Waiting' = Waiting, PoolEmpty',
         pc' \in Serving => pc \in Serving /\ seen \subseteq seen' /\ funded \subseteq funded'
  PROVE  CreditInv'
<1>1. Places' = Places /\ \A p : TxAt(p)' = TxAt(p)
  BY PlacesStay
<1>2. ASSUME Unpadded PROVE BridgeCreditOnce'
  BY <1>1, <1>2 DEF CreditInv, CreditsSingle, BridgeCreditOnce, SameCredit
<1>3. CreditsRemembered'
  BY <1>1 DEF CreditInv, CreditsRemembered, Remembered
<1> QED BY <1>2, <1>3 DEF CreditInv, CreditsSingle

\* A transaction joins the mempool that is no credit, or a credit whose hash
\* is new and now remembered.
LEMMA CreditsQueue ==
  ASSUME BalanceInv, CreditInv, UNCHANGED <<chain, pc>>, pc = "up",
         NEW tx \in Transaction, mempool' = Append(mempool, tx),
         seen \subseteq seen', funded \subseteq funded',
         tx.hash # NoHash =>
           (Unpadded => tx.hash \notin seen /\ tx.hash \in seen') /\ tx.to \in funded'
  PROVE  CreditInv'
<1>1. Places' = Places /\ \A p : TxAt(p)' = TxAt(p)
  BY PlacesStay
<1>2. Waiting = mempool /\ Waiting' = Append(mempool, tx) /\ mempool \in Seq(Transaction)
  BY DEF Waiting, BalanceInv, TypeOK, PoolOK
<1>3. /\ Len(mempool) \in Nat /\ DOMAIN mempool = 1 .. Len(mempool)
      /\ DOMAIN Waiting' = 1 .. Len(mempool) + 1
      /\ \A i \in 1 .. Len(mempool) : Waiting'[i] = mempool[i]
      /\ Waiting'[Len(mempool) + 1] = tx
  BY <1>2, LenProperties, AppendProperties
<1>4. \A i \in DOMAIN Waiting' : \/ i \in DOMAIN Waiting /\ Waiting'[i] = Waiting[i]
                                 \/ i = Len(mempool) + 1 /\ Waiting'[i] = tx
  BY <1>2, <1>3
<1>5. /\ \A p \in Places : Remembered(TxAt(p))
      /\ \A i \in DOMAIN Waiting : Remembered(Waiting[i])
  BY DEF CreditInv, CreditsRemembered, Serving
<1>6. CreditsRemembered'
  <2>1. \A p \in Places' : Remembered(TxAt(p))'
    BY <1>1, <1>5 DEF Remembered
  <2>2. ASSUME NEW i \in DOMAIN Waiting' PROVE Remembered(Waiting[i])'
    BY <2>2, <1>4, <1>5 DEF Remembered
  <2> QED BY <2>1, <2>2 DEF CreditsRemembered
<1>7. ASSUME Unpadded PROVE BridgeCreditOnce'
  <2>0. BridgeCreditOnce
    BY <1>7 DEF CreditInv, CreditsSingle
  <2>1. \A p \in Places : ~ SameCredit(TxAt(p), tx)
    BY <1>5, <1>7 DEF Remembered, SameCredit
  <2>2. \A i \in DOMAIN Waiting : ~ SameCredit(Waiting[i], tx) /\ ~ SameCredit(tx, Waiting[i])
    BY <1>5, <1>7 DEF Remembered, SameCredit
  <2>3. \A p, q \in Places' : SameCredit(TxAt(p), TxAt(q))' => p = q
    BY <1>1, <2>0 DEF BridgeCreditOnce, SameCredit
  <2>4. \A i, j \in DOMAIN Waiting' : SameCredit(Waiting[i], Waiting[j])' => i = j
    BY <1>4, <2>0, <2>2 DEF BridgeCreditOnce, SameCredit
  <2>5. \A p \in Places', i \in DOMAIN Waiting' : ~ SameCredit(TxAt(p), Waiting[i])'
    BY <1>1, <1>4, <2>0, <2>1 DEF BridgeCreditOnce, SameCredit
  <2> QED BY <2>3, <2>4, <2>5 DEF BridgeCreditOnce
<1>8. PoolEmpty'
  BY DEF PoolEmpty
<1> QED BY <1>6, <1>7, <1>8 DEF CreditInv, CreditsSingle

\* The requests.
LEMMA RequestsCredits ==
  ASSUME BalanceInv, CreditInv, Requests
  PROVE  CreditInv'
<1>1. CASE SubmitSome
  <2>1. PICK from, to \in Wallets, amount \in Amounts, fee \in Fees, time \in Times :
          \E nonce \in 1 .. nonces[from] + Len(mempool) + 2 :
            Submit([from |-> from, to |-> to, amount |-> amount, fee |-> fee,
                    nonce |-> nonce, time |-> time, hash |-> NoHash])
    BY <1>1 DEF SubmitSome
  <2>2. nonces[from] \in Nat /\ Len(mempool) \in Nat
    BY ConstantTypes, LenProperties DEF BalanceInv, TypeOK, PoolOK
  <2>3. PICK nonce \in Nat :
          Submit([from |-> from, to |-> to, amount |-> amount, fee |-> fee,
                  nonce |-> nonce, time |-> time, hash |-> NoHash])
    BY <2>1, <2>2
  <2> DEFINE tx == [from |-> from, to |-> to, amount |-> amount, fee |-> fee,
                    nonce |-> nonce, time |-> time, hash |-> NoHash]
  <2>4. tx \in Transaction /\ tx.hash = NoHash
    BY ConstantTypes DEF Transaction
  <2>5. /\ pc = "up" /\ mempool' = Append(mempool, tx)
        /\ UNCHANGED <<chain, pc>> /\ seen' = seen /\ funded' = funded
    BY <2>3 DEF Submit, durableVars
  <2> HIDE DEF tx
  <2> QED BY <2>4, <2>5, CreditsQueue
<1>2. CASE \E to \in Wallets, hash \in Hashes, amount \in Amounts :
             BridgeCredit(to, amount, hash)
  <2>1. PICK to \in Wallets, hash \in Hashes, amount \in Amounts :
          BridgeCredit(to, amount, hash)
    BY <1>2
  <2> DEFINE tx == [from |-> Treasury, to |-> to, amount |-> amount, fee |-> MinFee,
                    nonce |-> 0, time |-> Now, hash |-> Trimmed[hash]]
  <2>2. tx \in Transaction /\ tx.hash = Trimmed[hash] /\ tx.to = to
    BY ConstantTypes DEF Transaction
  <2>3. /\ pc = "up" /\ mempool' = Append(mempool, tx) /\ hash \notin seen
        /\ UNCHANGED <<chain, pc>>
        /\ seen' = seen \cup {hash} /\ funded' = funded \cup {to}
    BY <2>1 DEF BridgeCredit, durableVars
  <2>4. Unpadded => tx.hash = hash
    BY <2>2 DEF Unpadded
  <2> HIDE DEF tx
  <2> QED BY <2>2, <2>3, <2>4, CreditsQueue
<1>3. CASE \E from, to \in Wallets : PiSettlement(from, to)
  <2>1. PICK from, to \in Wallets : PiSettlement(from, to)
    BY <1>3
  <2> DEFINE tx == [from |-> from, to |-> to, amount |-> 1, fee |-> MinFee,
                    nonce |-> 0, time |-> Now, hash |-> NoHash]
  <2>2. tx \in Transaction /\ tx.hash = NoHash
    BY ConstantTypes DEF Transaction
  <2>3. /\ pc = "up"
        /\ UNCHANGED mempool \/ mempool' = Append(mempool, tx)
        /\ UNCHANGED <<chain, pc>> /\ seen' = seen /\ funded' = funded
        /\ UNCHANGED block
    BY <2>1 DEF PiSettlement, durableVars, sealVars
  <2> HIDE DEF tx
  <2>4. CASE UNCHANGED mempool
    BY <2>3, <2>4, CreditsStay DEF Waiting, CreditInv, PoolEmpty
  <2>5. CASE mempool' = Append(mempool, tx)
    BY <2>2, <2>3, <2>5, CreditsQueue
  <2> QED BY <2>3, <2>4, <2>5
<1>4. CASE \/ \E from \in Wallets, amount \in Amounts : BridgeBurn(from, amount)
           \/ \E to \in Wallets, amount \in Amounts : AdminMint(to, amount)
           \/ \E legacy, secp \in Wallets : MigrateLegacy(legacy, secp)
  <2>1. UNCHANGED <<chain, pc, mempool, block, seen, funded>>
    BY <1>4 DEF BridgeBurn, AdminMint, MigrateLegacy, durableVars, sealVars
  <2> QED BY <2>1, CreditsStay DEF Waiting, CreditInv, PoolEmpty
<1> QED BY <1>1, <1>2, <1>3, <1>4 DEF Requests

\* The sync and the snapshot: nothing that waits changes.
LEMMA SyncCredits ==
  ASSUME CreditInv,
         Syncing \/ WriteFails
  PROVE  CreditInv'
<1>1. UNCHANGED <<chain, mempool, seen, funded>>
  BY DEF Syncing, Sync, Truncate, WriteSnapshot, WriteFails, durableVars, poolVars
<1>2. pc \in {"up", "persist", "write"} /\ pc' \in {"up", "persist", "write"}
  BY DEF Syncing, Sync, Truncate, WriteSnapshot, WriteFails
<1>3. Waiting' = Waiting
  BY <1>1, <1>2 DEF Waiting
<1> QED BY <1>1, <1>2, <1>3, CreditsStay DEF CreditInv, PoolEmpty, Serving

\* The block gets the transactions of the mempool, each once.
LEMMA BeginCredits ==
  ASSUME BalanceInv, CreditInv, BeginBlock
  PROVE  CreditInv'
<1>1. PICK p \in BlockOrders(mempool) :
        LET txs == [i \in DOMAIN mempool |-> mempool[p[i]]]
        IN  block' = [txs |-> txs, miners |-> miners] /\ work' = txs
  BY DEF BeginBlock
<1>2. /\ pc = "up" /\ pc' = "apply" /\ mempool' = << >>
      /\ UNCHANGED <<chain, seen, funded>>
  BY DEF BeginBlock, durableVars
<1>3. Waiting = mempool /\ Waiting' = [i \in DOMAIN mempool |-> mempool[p[i]]]
  BY <1>1, <1>2 DEF Waiting
<1>4. DOMAIN mempool = 1 .. Len(mempool) /\ Len(mempool) \in Nat
  BY LenProperties DEF BalanceInv, TypeOK, PoolOK
<1>5. /\ \A i \in DOMAIN mempool : p[i] \in DOMAIN mempool
      /\ \A i, j \in DOMAIN mempool : p[i] = p[j] => i = j
  BY <1>4 DEF BlockOrders
<1>6. DOMAIN Waiting' = DOMAIN mempool
      /\ \A i \in DOMAIN mempool : Waiting'[i] = Waiting[p[i]]
  BY <1>3
<1>7. Places' = Places /\ \A q : TxAt(q)' = TxAt(q)
  BY <1>2, PlacesStay
<1>8. CreditsRemembered'
  <2>1. \A q \in Places : Remembered(TxAt(q))
    BY <1>2 DEF CreditInv, CreditsRemembered, Serving
  <2>2. \A i \in DOMAIN Waiting : Remembered(Waiting[i])
    BY <1>2 DEF CreditInv, CreditsRemembered, Serving
  <2>3. \A q \in Places' : Remembered(TxAt(q))'
    BY <2>1, <1>2, <1>7 DEF Remembered
  <2>4. \A i \in DOMAIN Waiting' : Remembered(Waiting[i])'
    BY <2>2, <1>2, <1>3, <1>5, <1>6 DEF Remembered
  <2> QED BY <2>3, <2>4 DEF CreditsRemembered
<1>9. ASSUME Unpadded PROVE BridgeCreditOnce'
  <2>0. BridgeCreditOnce
    BY <1>9 DEF CreditInv, CreditsSingle
  <2>1. \A q, r \in Places' : SameCredit(TxAt(q), TxAt(r))' => q = r
    BY <1>7, <2>0 DEF BridgeCreditOnce, SameCredit
  <2>2. \A i, j \in DOMAIN Waiting' : SameCredit(Waiting[i], Waiting[j])' => i = j
    BY <1>3, <1>5, <1>6, <2>0 DEF BridgeCreditOnce, SameCredit
  <2>3. \A q \in Places', i \in DOMAIN Waiting' : ~ SameCredit(TxAt(q), Waiting[i])'
    BY <1>3, <1>5, <1>6, <1>7, <2>0 DEF BridgeCreditOnce, SameCredit
  <2> QED BY <2>1, <2>2, <2>3 DEF BridgeCreditOnce
<1>10. PoolEmpty'
  BY <1>2 DEF PoolEmpty
<1> QED BY <1>8, <1>9, <1>10 DEF CreditInv, CreditsSingle

\* Applying the block's transactions, live or in the replay.
LEMMA ApplyCredits ==
  ASSUME CreditInv, ApplyTx \/ FinishBlock
  PROVE  CreditInv'
<1>1. UNCHANGED <<chain, mempool, seen, funded, block>>
  BY DEF ApplyTx, FinishBlock, poolVars, durableVars
<1>2. \/ UNCHANGED pc
      \/ pc = "apply" /\ pc' = "store"
  BY DEF ApplyTx, FinishBlock
<1>3. Waiting' = Waiting /\ PoolEmpty'
  BY <1>1, <1>2 DEF Waiting, CreditInv, PoolEmpty
<1> QED BY <1>1, <1>2, <1>3, CreditsStay DEF Serving

\* The places of a chain that grew by a block.
LEMMA PlacesAppend ==
  ASSUME chain \in Seq(Block), NEW b \in Block, chain' = Append(chain, b)
  PROVE  /\ \A p \in Places' : \/ p \in Places /\ TxAt(p)' = TxAt(p)
                               \/ \E i \in DOMAIN b.txs : /\ p = <<Len(chain) + 1, i>>
                                                          /\ TxAt(p)' = b.txs[i]
<1>1. /\ Len(chain) \in Nat /\ DOMAIN chain = 1 .. Len(chain)
      /\ DOMAIN chain' = 1 .. Len(chain) + 1
      /\ \A n \in 1 .. Len(chain) : chain'[n] = chain[n]
      /\ chain'[Len(chain) + 1] = b
  BY LenProperties, AppendProperties
<1> SUFFICES ASSUME NEW p \in Places'
             PROVE  \/ p \in Places /\ TxAt(p)' = TxAt(p)
                    \/ \E i \in DOMAIN b.txs : /\ p = <<Len(chain) + 1, i>>
                                               /\ TxAt(p)' = b.txs[i]
  OBVIOUS
<1>2. PICK n \in DOMAIN chain' : p \in {n} \X DOMAIN chain'[n].txs
  BY DEF Places
<1>3. PICK i \in DOMAIN chain'[n].txs : p = <<n, i>>
  BY <1>2
<1>4. TxAt(p)' = chain'[n].txs[i]
  BY <1>3 DEF TxAt
<1>5. CASE n \in 1 .. Len(chain)
  <2>1. chain'[n] = chain[n] /\ n \in DOMAIN chain
    BY <1>1, <1>5
  <2>2. p \in Places
    BY <2>1, <1>3 DEF Places
  <2>3. TxAt(p)' = TxAt(p)
    BY <2>1, <1>3, <1>4 DEF TxAt
  <2> QED BY <2>2, <2>3
<1>6. CASE n = Len(chain) + 1
  <2>1. chain'[n] = b
    BY <1>1, <1>6
  <2>2. i \in DOMAIN b.txs /\ p = <<Len(chain) + 1, i>> /\ TxAt(p)' = b.txs[i]
    BY <2>1, <1>3, <1>4, <1>6
  <2> QED BY <2>2
<1> QED BY <1>1, <1>5, <1>6

\* Storing the block moves its transactions from Waiting to the chain.
LEMMA StoreCredits ==
  ASSUME BalanceInv, CreditInv, Store \/ StoreFails
  PROVE  CreditInv'
<1>1. /\ pc = "store" /\ pc' = "up"
      /\ UNCHANGED <<mempool, seen, funded>>
      /\ UNCHANGED chain \/ chain' = Append(chain, block)
  BY DEF Store, StoreFails, LoopEnds, poolVars
<1>2. mempool = << >> /\ Waiting = block.txs
  BY <1>1 DEF CreditInv, PoolEmpty, Waiting
<1>3. DOMAIN Waiting' = {}
  BY <1>1, <1>2 DEF Waiting
<1>4. PoolEmpty'
  BY <1>1 DEF PoolEmpty
<1>5. /\ \A p \in Places : Remembered(TxAt(p))
      /\ \A i \in DOMAIN Waiting : Remembered(Waiting[i])
  BY <1>1 DEF CreditInv, CreditsRemembered, Serving
<1>6. chain \in Seq(Block) /\ block \in Block
  BY DEF BalanceInv, TypeOK, DurableOK, SealOK
<1>7. \A p \in Places' : \/ p \in Places /\ TxAt(p)' = TxAt(p)
                         \/ \E i \in DOMAIN Waiting : /\ p = <<Len(chain) + 1, i>>
                                                      /\ TxAt(p)' = Waiting[i]
  <2>1. CASE UNCHANGED chain
    BY <2>1, PlacesStay
  <2>2. CASE chain' = Append(chain, block)
    BY <2>2, <1>2, <1>6, PlacesAppend
  <2> QED BY <2>1, <2>2, <1>1
<1>8. CreditsRemembered'
  <2>1. \A p \in Places' : Remembered(TxAt(p))'
    BY <1>1, <1>5, <1>7 DEF Remembered
  <2> QED BY <2>1, <1>3 DEF CreditsRemembered
<1>9. ASSUME Unpadded PROVE BridgeCreditOnce'
  <2>1. \A p, q \in Places' : SameCredit(TxAt(p), TxAt(q))' => p = q
    BY <1>7, <1>9 DEF CreditInv, CreditsSingle, BridgeCreditOnce, SameCredit
  <2> QED BY <1>3, <2>1 DEF BridgeCreditOnce
<1> QED BY <1>4, <1>8, <1>9 DEF CreditInv, CreditsSingle

\* A step that leaves the mempool empty, seals nothing, and either does not
\* serve afterwards or forgets nothing: failures and start-up.
LEMMA EmptyCredits ==
  ASSUME CreditInv, UNCHANGED chain, mempool' = << >>, pc' \notin {"apply", "store"},
         pc' \in Serving =>
           pc \in Serving /\ seen \subseteq seen' /\ funded \subseteq funded'
  PROVE  CreditInv'
<1>1. Places' = Places /\ \A p : TxAt(p)' = TxAt(p)
  BY PlacesStay
<1>2. DOMAIN Waiting' = {}
  <2>1. Waiting' = << >>
    BY DEF Waiting
  <2> QED BY <2>1
<1>3. ASSUME Unpadded PROVE BridgeCreditOnce'
  BY <1>1, <1>2, <1>3 DEF CreditInv, CreditsSingle, BridgeCreditOnce, SameCredit
<1>4. CreditsRemembered'
  BY <1>1, <1>2 DEF CreditInv, CreditsRemembered, Remembered
<1>5. PoolEmpty'
  BY DEF PoolEmpty
<1> QED BY <1>3, <1>4, <1>5 DEF CreditInv, CreditsSingle

\* A failed block and a crash.
LEMMA FailureCredits ==
  ASSUME CreditInv, ApplyFails \/ Crash
  PROVE  CreditInv'
<1>1. CASE ApplyFails
  <2>1. pc = "apply" /\ pc' = "up" /\ UNCHANGED <<chain, mempool, seen, funded>>
    BY <1>1 DEF ApplyFails, LoopEnds, poolVars, durableVars
  <2>2. mempool' = << >>
    BY <2>1 DEF CreditInv, PoolEmpty
  <2> QED BY <2>1, <2>2, EmptyCredits DEF Serving
<1>2. CASE Crash
  <2>1. pc' = "down" /\ mempool' = << >> /\ UNCHANGED chain
    BY <1>2 DEF Crash, durableVars
  <2> QED BY <2>1, EmptyCredits DEF Serving
<1> QED BY <1>1, <1>2

\* Start-up: what it takes from the chain is all there is to remember.
LEMMA StartUpCredits ==
  ASSUME BalanceInv, CreditInv, StartUp
  PROVE  CreditInv'
<1>1. CASE Restart \/ RestartFails \/ ReconcileTx \/ ReconcileBlock \/ StartReplay
           \/ ReplayBlock \/ ReplayFails
  <2>1. /\ pc \in {"down", "reconcile", "replay"}
        /\ pc' \in {"reconcile", "replay", "refused"}
        /\ UNCHANGED <<chain, mempool>>
    BY <1>1
    DEF Restart, RestartFails, ReconcileTx, ReconcileBlock, StartReplay, ReplayBlock,
        ReplayFails, poolVars, durableVars
  <2>2. mempool' = << >>
    BY <2>1 DEF CreditInv, PoolEmpty
  <2> QED BY <2>1, <2>2, EmptyCredits DEF Serving
<1>2. CASE Recover
  <2>1. /\ pc = "replay" /\ pc' = "up" /\ UNCHANGED <<chain, mempool>>
        /\ seen' = CreditHashes /\ funded' = CreditedWallets
    BY <1>2 DEF Recover, durableVars
  <2>2. mempool' = << >> /\ Waiting' = << >>
    BY <2>1 DEF CreditInv, PoolEmpty, Waiting
  <2>3. DOMAIN Waiting' = {}
    BY <2>2
  <2>4. Places' = Places /\ \A p : TxAt(p)' = TxAt(p)
    BY <2>1, PlacesStay
  <2>5. \A p \in Places : TxAt(p).hash # NoHash =>
          TxAt(p).hash \in CreditHashes /\ TxAt(p).to \in CreditedWallets
    BY DEF CreditHashes, CreditedWallets
  <2>6. CreditsRemembered'
    BY <2>1, <2>3, <2>4, <2>5 DEF CreditsRemembered, Remembered
  <2>7. ASSUME Unpadded PROVE BridgeCreditOnce'
    BY <2>3, <2>4, <2>7 DEF CreditInv, CreditsSingle, BridgeCreditOnce, SameCredit
  <2>8. PoolEmpty'
    BY <2>1 DEF PoolEmpty
  <2> QED BY <2>6, <2>7, <2>8 DEF CreditInv, CreditsSingle
<1> QED BY <1>1, <1>2 DEF StartUp

\* Before the first start there are no transactions at all.
LEMMA InitCredits == Init => CreditInv
<1> SUFFICES ASSUME Init PROVE CreditInv
  OBVIOUS
<1>1. mempool = << >> /\ chain = << >> /\ pc = "down"
  BY DEF Init
<1>2. DOMAIN Waiting = {}
  BY <1>1, NothingWaits
<1>3. Places = {}
  BY <1>1 DEF Places
<1>4. PoolEmpty /\ CreditsRemembered /\ BridgeCreditOnce
  BY <1>1, <1>2, <1>3 DEF PoolEmpty, CreditsRemembered, BridgeCreditOnce
<1> QED BY <1>4 DEF CreditInv, CreditsSingle

\* Every step keeps credits single and remembered.
LEMMA NextCredits ==
  ASSUME BalanceInv, CreditInv, [Next]_vars
  PROVE  CreditInv'
<1>1. CASE Requests
  BY <1>1, RequestsCredits
<1>2. CASE Syncing
  BY <1>2, SyncCredits
<1>3. CASE Sealing
  BY <1>3, BeginCredits, ApplyCredits, StoreCredits DEF Sealing
<1>4. CASE Failing
  BY <1>4, SyncCredits, FailureCredits, StoreCredits DEF Failing
<1>5. CASE StartUp
  BY <1>5, StartUpCredits
<1>6. CASE UNCHANGED vars
  <2>1. UNCHANGED <<chain, mempool, seen, funded, pc, block>>
    BY <1>6 DEF vars
  <2> QED BY <2>1, CreditsStay DEF Waiting, CreditInv, PoolEmpty
<1> QED BY <1>1, <1>2, <1>3, <1>4, <1>5, <1>6 DEF Next

\* CreditInv is an invariant of the ledger.
LEMMA AlwaysCredited == Spec => []CreditInv
BY InitCredits, NextCredits, AlwaysBalanced, PTL DEF Spec

\* No EVM transaction is ever credited twice, whatever crashes, failed blocks
\* and retries come between its two requests, as long as no request pads its
\* hash with white space.
THEOREM NoDoubleCredit ==
  ASSUME Unpadded
  PROVE  Spec => []BridgeCreditOnce
<1>1. CreditInv => BridgeCreditOnce
  BY DEF CreditInv, CreditsSingle
<1> QED BY <1>1, AlwaysCredited, PTL

\* A wallet that a sealed credit went to is exempt from the session gate
\* whenever requests are served.
THEOREM BridgedWalletsStayExempt == Spec => []ExemptionSurvives
<1>1. CreditInv => ExemptionSurvives
  BY DEF CreditInv, CreditsRemembered, Remembered, ExemptionSurvives, Serving
<1> QED BY <1>1, AlwaysCredited, PTL

------------------------------------------------------------------------------
(***************************************************************************)
(* Sealing conserves: what apply_block takes from the senders goes to the  *)
(* recipients and to the fees, and distribute_fees gives the fees out      *)
(* whole, the remainder of the division included.                          *)
(***************************************************************************)

\* Natural balances add up to a natural number.
LEMMA BalancesSummable ==
  ASSUME NEW b \in [Addr -> Nat]
  PROVE  Summable(b, Addr) /\ SumFunctionOnSet(b, Addr) \in Nat
<1>1. IsFiniteSet(Addr) /\ \A a \in Addr : b[a] \in Nat
  BY AddrFinite
<1> QED BY <1>1, SumNat DEF Summable

\* The fee leaves the balances, and nothing else.
LEMMA TransferConserves ==
  ASSUME NEW b \in [Addr -> Nat], NEW tx \in Transaction
  PROVE  SumFunctionOnSet(Transferred(b, tx), Addr) = SumFunctionOnSet(b, Addr) - tx.fee
<1> DEFINE d == tx.amount + tx.fee
           paid == [a \in Addr |-> b[a] - (IF a = tx.from THEN d ELSE 0)]
           got == Transferred(b, tx)
<1>1. /\ tx.from \in Addr /\ tx.to \in Addr /\ tx.amount \in Nat /\ tx.fee \in Nat
      /\ Debit(tx) = d /\ d \in Nat
  BY DebitType DEF Debit
<1>2. Summable(b, Addr) /\ SumFunctionOnSet(b, Addr) \in Nat
  BY BalancesSummable
<1> HIDE DEF d
<1>3. Shifted(b, paid, Addr, tx.from, 0 - d)
  BY <1>1, <1>2 DEF Shifted
<1>4. SumFunctionOnSet(paid, Addr) = SumFunctionOnSet(b, Addr) + (0 - d) /\ Summable(paid, Addr)
  BY <1>3, SumShift
<1>5. \A a \in Addr : got[a] = paid[a] + (IF a = tx.to THEN tx.amount ELSE 0)
  BY <1>1 DEF Transferred
<1> HIDE DEF paid, got
<1>6. Shifted(paid, got, Addr, tx.to, tx.amount)
  <2>1. \A a \in Addr : paid[a] \in Int
    BY <1>4 DEF Summable
  <2> QED BY <1>1, <1>4, <1>5, <2>1 DEF Shifted
<1>7. SumFunctionOnSet(got, Addr) = SumFunctionOnSet(paid, Addr) + tx.amount
  BY <1>6, SumShift
<1> DEFINE s == SumFunctionOnSet(b, Addr)
<1>8. s \in Nat /\ SumFunctionOnSet(got, Addr) = (s + (0 - d)) + tx.amount
  BY <1>2, <1>4, <1>7
<1> HIDE DEF s
<1>9. SumFunctionOnSet(got, Addr) = s - tx.fee
  BY <1>1, <1>8 DEF d
<1> QED BY <1>9 DEF s, got

\* The validators' shares and the reserve's rest are the whole fee.
LEMMA SharesAreWhole ==
  ASSUME NEW ms \in SUBSET Addr, NEW f \in Nat
  PROVE  Share(ms, f) * Cardinality(ms) + Rest(ms, f) = f
<1>1. IsFiniteSet(ms)
  BY AddrFinite, FS_Subset
<1>2. CASE ms = {}
  <2>1. Share(ms, f) = 0 /\ Rest(ms, f) = f /\ Cardinality(ms) = 0
    BY <1>2, FS_EmptySet DEF Share, Rest
  <2> QED BY <2>1
<1>3. CASE ms # {}
  <2> DEFINE n == Cardinality(ms)
  <2>1. n \in Nat /\ n > 0
    BY <1>1, <1>3, FS_CardinalityType, FS_EmptySet
  <2>2. Share(ms, f) = f \div n /\ Rest(ms, f) = f % n
    BY <1>3 DEF Share, Rest
  <2> HIDE DEF n
  <2>3. (f \div n) * n + (f % n) = f
    BY <2>1
  <2> QED BY <2>2, <2>3 DEF n
<1> QED BY <1>2, <1>3

\* Distributing fees adds exactly what was collected.
LEMMA FeesConserve ==
  ASSUME NEW b \in [Addr -> Nat], NEW ms \in SUBSET Addr, NEW f \in Nat
  PROVE  SumFunctionOnSet(WithFees(b, ms, f), Addr) = SumFunctionOnSet(b, Addr) + f
<1> DEFINE share == [a \in Addr |-> IF a \in ms THEN Share(ms, f) ELSE 0]
           shared == [a \in Addr |-> b[a] + share[a]]
           got == WithFees(b, ms, f)
<1>1. Share(ms, f) \in Nat /\ Rest(ms, f) \in Nat /\ IsFiniteSet(Addr) /\ Reserve \in Addr
  BY ShareType, AddrFinite, ConstantTypes
<1>2. Summable(b, Addr) /\ SumFunctionOnSet(b, Addr) \in Nat
  BY BalancesSummable
<1>3. SumFunctionOnSet(share, Addr) = Share(ms, f) * Cardinality(ms)
  BY <1>1, SumConst
<1>4. Summable(share, Addr) /\ Summable(shared, Addr)
  BY <1>1 DEF Summable
<1>5. SumFunctionOnSet(shared, Addr) = SumFunctionOnSet(b, Addr) + SumFunctionOnSet(share, Addr)
  BY <1>2, <1>4, SumAdd
<1>6. \A a \in Addr : got[a] = shared[a] + (IF a = Reserve THEN Rest(ms, f) ELSE 0)
  BY DEF WithFees
<1>7. got = WithFees(b, ms, f)
  OBVIOUS
<1> HIDE DEF share, shared, got
<1>8. Shifted(shared, got, Addr, Reserve, Rest(ms, f))
  <2>1. \A a \in Addr : shared[a] \in Int
    BY <1>4 DEF Summable
  <2> QED BY <1>1, <1>4, <1>6, <2>1 DEF Shifted
<1>9. SumFunctionOnSet(got, Addr) = SumFunctionOnSet(shared, Addr) + Rest(ms, f)
  BY <1>8, SumShift
<1>10. Share(ms, f) * Cardinality(ms) + Rest(ms, f) = f
  BY SharesAreWhole
<1> DEFINE s == SumFunctionOnSet(b, Addr)
           k == Share(ms, f) * Cardinality(ms)
<1>11. s \in Nat /\ k \in Int
  <2>1. Cardinality(ms) \in Nat
    BY <1>1, FS_Subset, FS_CardinalityType
  <2> QED BY <1>1, <1>2, <2>1
<1>12. s = SumFunctionOnSet(b, Addr)
  OBVIOUS
<1>13. SumFunctionOnSet(got, Addr) = (s + k) + Rest(ms, f) /\ k + Rest(ms, f) = f
  BY <1>3, <1>5, <1>9, <1>10
<1> HIDE DEF s, k
<1>14. ASSUME NEW x \in Int, NEW y \in Int, NEW z \in Int PROVE (x + y) + z = x + (y + z)
  OBVIOUS
<1>15. (s + k) + Rest(ms, f) = s + (k + Rest(ms, f))
  BY <1>1, <1>11, <1>14
<1> QED BY <1>13, <1>15, <1>7, <1>12

\* Sealing a block makes no ANTS and loses none, at any number of validators
\* and whatever the division of the fees leaves over.
THEOREM SealingConserves == Spec => SealConserves
<1> DEFINE Conserved ==
             pc = "apply" /\ pc' \in {"apply", "store"} => Supply' + fees' = Supply + fees
<1>1. ASSUME BalanceInv, [Next]_vars
      PROVE  [Conserved]_vars
  <2> SUFFICES ASSUME Next, pc = "apply", pc' \in {"apply", "store"}
               PROVE  Supply' + fees' = Supply + fees
    BY <1>1
  <2>0. /\ ants \in [Addr -> Nat] /\ fees \in Nat /\ work \in Seq(Transaction)
        /\ block.miners \in SUBSET Addr
    BY <1>1 DEF BalanceInv, TypeOK, AccountsOK, SealOK, Block
  <2>1. SumFunctionOnSet(ants, Addr) \in Nat
    BY <2>0, BalancesSummable
  <2>2. CASE ApplyTx
    <3> DEFINE tx == Head(work)
    <3>1. tx \in Transaction /\ tx.fee \in Nat
      BY <2>0, <2>2, WorkType, DebitType DEF ApplyTx
    <3>2. ants' = Transferred(ants, tx) /\ fees' = fees + tx.fee
      BY <2>2 DEF ApplyTx
    <3> HIDE DEF tx
    <3>3. SumFunctionOnSet(ants', Addr) = SumFunctionOnSet(ants, Addr) - tx.fee
      BY <2>0, <3>1, <3>2, TransferConserves
    <3> QED BY <2>0, <2>1, <3>1, <3>2, <3>3 DEF Supply
  <2>3. CASE FinishBlock
    <3>1. ants' = WithFees(ants, block.miners, fees) /\ fees' = 0
      BY <2>3 DEF FinishBlock
    <3>2. SumFunctionOnSet(ants', Addr) = SumFunctionOnSet(ants, Addr) + fees
      BY <2>0, <3>1, FeesConserve
    <3> QED BY <2>0, <2>1, <3>1, <3>2 DEF Supply
  <2>4. ApplyTx \/ FinishBlock
    BY DEF Next, Requests, SubmitSome, Submit, BridgeCredit, PiSettlement, BridgeBurn,
           AdminMint, MigrateLegacy, Syncing, Sync, Truncate, WriteSnapshot, Sealing,
           BeginBlock, Store, Failing, WriteFails, ApplyFails, StoreFails, LoopEnds, Crash, StartUp,
           Restart, RestartFails, ReconcileTx, ReconcileBlock, StartReplay, ReplayBlock,
           ReplayFails, Recover
  <2> QED BY <2>2, <2>3, <2>4
<1> QED BY <1>1, AlwaysBalanced, PTL DEF Spec, SealConserves

\* What a request to transfer queues.
LEMMA SubmitIsTyped ==
  ASSUME BalanceInv, SubmitSome
  PROVE  \E tx \in Transaction :
           /\ Submit(tx) /\ tx.from \in Wallets /\ tx.to \in Wallets
           /\ tx.nonce # 0 /\ tx.hash = NoHash
<1>1. PICK from, to \in Wallets, amount \in Amounts, fee \in Fees, time \in Times :
        \E nonce \in 1 .. nonces[from] + Len(mempool) + 2 :
          Submit([from |-> from, to |-> to, amount |-> amount, fee |-> fee,
                  nonce |-> nonce, time |-> time, hash |-> NoHash])
  BY DEF SubmitSome
<1>2. nonces[from] \in Nat /\ Len(mempool) \in Nat
  BY ConstantTypes, LenProperties DEF BalanceInv, TypeOK, PoolOK
<1>3. PICK nonce \in Nat \ {0} :
        Submit([from |-> from, to |-> to, amount |-> amount, fee |-> fee,
                nonce |-> nonce, time |-> time, hash |-> NoHash])
  BY <1>1, <1>2
<1> DEFINE tx == [from |-> from, to |-> to, amount |-> amount, fee |-> fee,
                  nonce |-> nonce, time |-> time, hash |-> NoHash]
<1>4. /\ tx \in Transaction /\ tx.from \in Wallets /\ tx.to \in Wallets
      /\ tx.nonce # 0 /\ tx.hash = NoHash
  BY ConstantTypes DEF Transaction
<1> QED BY <1>3, <1>4

------------------------------------------------------------------------------
(***************************************************************************)
(* The chain can be replayed: rebuild_account_nonces finds 1, 2, 3, ... of *)
(* every sender.  queue_transaction keeps the pending nonces of a wallet   *)
(* an interval above its committed nonce, the sort of a block puts them in *)
(* order, and a block that is not stored ends the loop, so that no other   *)
(* block is built on the nonces it left behind.                            *)
(***************************************************************************)

\* The positions of a sender's transactions.
Mine(q, a) == {i \in DOMAIN q : q[i].from = a}

NoncesOf(q, a) == {q[i].nonce : i \in Mine(q, a)}

\* The nonces of a are the ones after c, each once.
Numbered(q, a, c) ==
  /\ \E k \in Nat : NoncesOf(q, a) = (c + 1) .. (c + k)
  /\ \A i, j \in Mine(q, a) : q[i].nonce = q[j].nonce => i = j

Ordered(q, a) == \A i, j \in Mine(q, a) : i < j => q[i].nonce < q[j].nonce

\* Wallets sign, and only wallets do.
SignedBy(q) == \A i \in DOMAIN q : q[i].nonce # 0 <=> q[i].from \in Wallets

\* A block for which c are the nonces of a in the chain.
Sealable(q, a, c) == Numbered(q, a, c) /\ Ordered(q, a)

\* How many signed transactions of a the chain has.
Count(a) == Cardinality(Signed(a))

NonceInv ==
  /\ NoncesRebuild
  /\ pc \in {"up", "persist", "write"} => SignedBy(mempool)
  /\ pc \in {"apply", "store"} => SignedBy(block.txs) /\ loop = "running"
  /\ loop = "running" /\ pc \in {"up", "persist", "write"} =>
       \A a \in Wallets : nonces[a] = Count(a) /\ Numbered(mempool, a, Count(a))
  /\ pc = "apply" =>
       \A a \in Wallets : nonces[a] = Count(a) /\ Sealable(block.txs, a, Count(a))
  /\ pc = "store" =>
       \A a \in Wallets : /\ nonces[a] = Count(a) + Cardinality(Mine(block.txs, a))
                          /\ Sealable(block.txs, a, Count(a))

\* Positions of a sequence are numbers.
LEMMA MineType ==
  ASSUME NEW q \in Seq(Transaction), NEW a
  PROVE  /\ Mine(q, a) \subseteq 1 .. Len(q) /\ Len(q) \in Nat
         /\ Mine(q, a) \subseteq Nat /\ IsFiniteSet(Mine(q, a))
         /\ \A i \in Mine(q, a) : q[i] \in Transaction /\ q[i].nonce \in Nat
<1>1. DOMAIN q = 1 .. Len(q) /\ Len(q) \in Nat
  BY LenProperties
<1>2. Mine(q, a) \subseteq 1 .. Len(q)
  BY <1>1 DEF Mine
<1>3. IsFiniteSet(1 .. Len(q))
  BY <1>1, FS_Interval
<1>4. IsFiniteSet(Mine(q, a))
  BY <1>2, <1>3, FS_Subset
<1>5. \A i \in Mine(q, a) : q[i] \in Transaction /\ q[i].nonce \in Nat
  BY <1>2, ElementOfSeq, DebitType
<1> QED BY <1>1, <1>2, <1>4, <1>5

\* In a block, a position's nonce is one more than c and the positions before.
LEMMA NoncesCount ==
  ASSUME NEW q \in Seq(Transaction), NEW a, NEW c \in Nat, Sealable(q, a, c)
  PROVE  /\ \A i \in Mine(q, a) :
              q[i].nonce = c + 1 + Cardinality({j \in Mine(q, a) : j < i})
         /\ NoncesOf(q, a) = (c + 1) .. (c + Cardinality(Mine(q, a)))
<1>1. PICK k \in Nat : NoncesOf(q, a) = (c + 1) .. (c + k)
  BY DEF Sealable, Numbered
<1>2. /\ Mine(q, a) \subseteq Nat /\ IsFiniteSet(Mine(q, a))
      /\ \A i \in Mine(q, a) : q[i].nonce \in Nat
  BY MineType
<1>3. \A i, j \in Mine(q, a) : q[i].nonce = q[j].nonce => i = j
  BY DEF Sealable, Numbered
<1>4. \A i, j \in Mine(q, a) : j < i <=> q[j].nonce < q[i].nonce
  <2> TAKE i, j \in Mine(q, a)
  <2>1. i \in Nat /\ j \in Nat /\ q[i].nonce \in Nat /\ q[j].nonce \in Nat
    BY <1>2
  <2>2. j < i => q[j].nonce < q[i].nonce
    BY DEF Sealable, Ordered
  <2>3. i < j => q[i].nonce < q[j].nonce
    BY DEF Sealable, Ordered
  <2> QED BY <2>1, <2>2, <2>3
<1>5. ASSUME NEW m \in Nat, m <= k
      PROVE  Cardinality({j \in Mine(q, a) : q[j].nonce <= c + m}) = m
  <2> DEFINE S == {j \in Mine(q, a) : q[j].nonce <= c + m}
             T == (c + 1) .. (c + m)
             f == [j \in S |-> q[j].nonce]
  <2>1. IsFiniteSet(S)
    BY <1>2, FS_Subset
  <2>2. \A j \in S : f[j] \in T
    <3> TAKE j \in S
    <3>1. q[j].nonce \in NoncesOf(q, a)
      BY DEF NoncesOf
    <3> QED BY <1>1, <1>5, <3>1
  <2>3. \A n \in T : \E j \in S : f[j] = n
    <3> TAKE n \in T
    <3>1. n \in NoncesOf(q, a)
      BY <1>1, <1>5
    <3>2. PICK j \in Mine(q, a) : q[j].nonce = n
      BY <3>1 DEF NoncesOf
    <3>3. j \in S
      BY <1>5, <3>2
    <3> QED BY <3>2, <3>3
  <2>4. \A i, j \in S : f[i] = f[j] => i = j
    BY <1>3
  <2>5. f \in Bijection(S, T)
    BY <2>2, <2>3, <2>4 DEF Bijection, Injection, Surjection, IsInjective
  <2>6. Cardinality(T) = Cardinality(S)
    BY <2>1, <2>5, FS_Bijection DEF ExistsBijection
  <2>7. Cardinality(T) = m
    <3>1. c + 1 \in Int /\ c + m \in Int
      BY <1>5
    <3>2. Cardinality(T) = IF c + 1 > c + m THEN 0 ELSE (c + m) - (c + 1) + 1
      BY <3>1, FS_Interval
    <3> QED BY <1>5, <3>2
  <2> QED BY <2>6, <2>7
<1>6. Cardinality(Mine(q, a)) = k
  <2>1. \A j \in Mine(q, a) : q[j].nonce <= c + k
    <3> TAKE j \in Mine(q, a)
    <3>1. q[j].nonce \in NoncesOf(q, a)
      BY DEF NoncesOf
    <3> QED BY <1>1, <3>1
  <2>2. {j \in Mine(q, a) : q[j].nonce <= c + k} = Mine(q, a)
    BY <2>1
  <2> QED BY <1>5, <2>2
<1>7. ASSUME NEW i \in Mine(q, a)
      PROVE  q[i].nonce = c + 1 + Cardinality({j \in Mine(q, a) : j < i})
  <2> DEFINE n == q[i].nonce
             m == n - (c + 1)
  <2>1. n \in (c + 1) .. (c + k)
    <3>1. n \in NoncesOf(q, a)
      BY DEF NoncesOf
    <3> QED BY <1>1, <3>1
  <2>2. n \in Nat /\ m \in Nat /\ m <= k /\ n = c + 1 + m
    BY <2>1
  <2>3. \A j \in Mine(q, a) : j < i <=> q[j].nonce <= c + m
    <3> TAKE j \in Mine(q, a)
    <3>1. j < i <=> q[j].nonce < n
      BY <1>4
    <3>2. q[j].nonce \in Nat
      BY <1>2
    <3> HIDE DEF n, m
    <3> QED BY <2>2, <3>1, <3>2
  <2>4. {j \in Mine(q, a) : j < i} = {j \in Mine(q, a) : q[j].nonce <= c + m}
    BY <2>3
  <2>5. Cardinality({j \in Mine(q, a) : j < i}) = m
    <3> HIDE DEF m
    <3> QED BY <1>5, <2>2, <2>4
  <2> QED BY <2>2, <2>5
<1> QED BY <1>1, <1>6, <1>7

\* The sort permutes the mempool.
LEMMA OrderPermutes ==
  ASSUME NEW q \in Seq(Transaction), NEW p \in BlockOrders(q)
  PROVE  /\ p \in [DOMAIN q -> DOMAIN q]
         /\ \A i, j \in DOMAIN q : p[i] = p[j] => i = j
         /\ \A n \in DOMAIN q : \E i \in DOMAIN q : p[i] = n
<1>1. DOMAIN q = 1 .. Len(q) /\ Len(q) \in Nat
  BY LenProperties
<1>2. /\ p \in [DOMAIN q -> DOMAIN q]
      /\ \A i, j \in DOMAIN q : i < j => p[i] # p[j]
  BY DEF BlockOrders
<1>3. \A i, j \in DOMAIN q : p[i] = p[j] => i = j
  BY <1>1, <1>2
<1>4. \A n \in DOMAIN q : \E i \in DOMAIN q : p[i] = n
  <2>1. IsFiniteSet(DOMAIN q)
    BY <1>1, FS_Interval
  <2>2. p \in Injection(DOMAIN q, DOMAIN q)
    BY <1>2, <1>3 DEF Injection, IsInjective
  <2>3. p \in Surjection(DOMAIN q, DOMAIN q)
    BY <2>1, <2>2, FS_Injection
  <2> QED BY <2>3 DEF Surjection
<1> QED BY <1>2, <1>3, <1>4

\* The permuted mempool is numbered, and the sort has put it in order.
LEMMA SortedBlock ==
  ASSUME NEW q \in Seq(Transaction), NEW p \in BlockOrders(q), NEW txs,
         txs = [i \in DOMAIN q |-> q[p[i]]],
         \A i, j \in DOMAIN q : q[i].from = q[j].from /\ q[i].nonce < q[j].nonce =>
                                  q[i].time <= q[j].time,
         NEW a, NEW c, Numbered(q, a, c)
  PROVE  Sealable(txs, a, c)
<1>1. /\ DOMAIN q = 1 .. Len(q) /\ Len(q) \in Nat
      /\ \A i \in DOMAIN q : q[i] \in Transaction /\ q[i].nonce \in Nat /\ q[i].time \in Nat
  <2>1. DOMAIN q = 1 .. Len(q) /\ Len(q) \in Nat
    BY LenProperties
  <2>2. \A i \in DOMAIN q : q[i] \in Transaction
    BY <2>1, ElementOfSeq
  <2> QED BY <2>1, <2>2 DEF Transaction
<1>2. /\ p \in [DOMAIN q -> DOMAIN q]
      /\ \A i, j \in DOMAIN q : i < j => p[i] # p[j] /\ ~ Before(q[p[j]], q[p[i]])
  BY DEF BlockOrders
<1>3. \A i, j \in DOMAIN q : p[i] = p[j] => i = j
  BY OrderPermutes
<1>4. \A n \in DOMAIN q : \E i \in DOMAIN q : p[i] = n
  BY OrderPermutes
<1>5. /\ DOMAIN txs = DOMAIN q /\ \A i \in DOMAIN q : txs[i] = q[p[i]]
      /\ \A i : i \in Mine(txs, a) <=> i \in DOMAIN q /\ p[i] \in Mine(q, a)
  BY <1>2 DEF Mine
<1>6. NoncesOf(txs, a) = NoncesOf(q, a)
  <2>1. NoncesOf(txs, a) \subseteq NoncesOf(q, a)
    BY <1>5 DEF NoncesOf
  <2>2. ASSUME NEW i \in Mine(q, a) PROVE q[i].nonce \in NoncesOf(txs, a)
    <3>1. i \in DOMAIN q
      BY DEF Mine
    <3>2. PICK j \in DOMAIN q : p[j] = i
      BY <1>4, <3>1
    <3>3. j \in Mine(txs, a) /\ txs[j].nonce = q[i].nonce
      BY <1>5, <3>2
    <3> QED BY <3>3 DEF NoncesOf
  <2> QED BY <2>1, <2>2 DEF NoncesOf
<1>7. \A i, j \in Mine(txs, a) : txs[i].nonce = txs[j].nonce => i = j
  <2> SUFFICES ASSUME NEW i \in Mine(txs, a), NEW j \in Mine(txs, a),
                      txs[i].nonce = txs[j].nonce
               PROVE  i = j
    OBVIOUS
  <2>1. /\ i \in DOMAIN q /\ j \in DOMAIN q /\ p[i] \in Mine(q, a) /\ p[j] \in Mine(q, a)
        /\ q[p[i]].nonce = q[p[j]].nonce
    BY <1>5
  <2>2. p[i] = p[j]
    BY <2>1 DEF Numbered
  <2> QED BY <1>3, <2>1, <2>2
<1>8. ASSUME NEW i \in Mine(txs, a), NEW j \in Mine(txs, a), i < j
      PROVE  txs[i].nonce < txs[j].nonce
  <2> DEFINE t == q[p[i]]
             u == q[p[j]]
  <2>1. /\ i \in DOMAIN q /\ j \in DOMAIN q /\ txs[i] = t /\ txs[j] = u
        /\ p[i] \in DOMAIN q /\ p[j] \in DOMAIN q /\ t.from = a /\ u.from = a
    BY <1>2, <1>5 DEF Mine
  <2>2. /\ t.nonce \in Nat /\ u.nonce \in Nat /\ t.time \in Nat /\ u.time \in Nat
        /\ ~ Before(u, t) /\ (u.nonce < t.nonce => u.time <= t.time)
    BY <1>1, <1>2, <1>8, <2>1
  <2>3. ~ (u.nonce < t.nonce)
    BY <2>1, <2>2 DEF Before
  <2>4. t.nonce # u.nonce
    <3>1. i # j
      BY <1>1, <1>8, <2>1
    <3> QED BY <1>7, <2>1, <3>1
  <2> HIDE DEF t, u
  <2> QED BY <2>1, <2>2, <2>3, <2>4
<1> QED BY <1>6, <1>7, <1>8 DEF Sealable, Numbered, Ordered

\* The places of the last block of a chain.
LastPlaces(n, I) == {<<n, i>> : i \in I}

\* As many as the block has positions.
LEMMA LastPlacesCount ==
  ASSUME NEW n, NEW I, IsFiniteSet(I)
  PROVE  /\ IsFiniteSet(LastPlaces(n, I))
         /\ Cardinality(LastPlaces(n, I)) = Cardinality(I)
<1> DEFINE f == [i \in I |-> <<n, i>>]
<1>1. f \in Bijection(I, LastPlaces(n, I))
  BY DEF LastPlaces, Bijection, Injection, Surjection, IsInjective
<1> QED BY <1>1, FS_Bijection DEF ExistsBijection

\* What a stored block adds to the signed transactions of a.
LEMMA SignedGrows ==
  ASSUME chain \in Seq(Block), NEW blk \in Block, chain' = Append(chain, blk), NEW a
  PROVE  LET n == Len(chain) + 1
             I == {i \in DOMAIN blk.txs : blk.txs[i].from = a /\ blk.txs[i].nonce # 0}
         IN  /\ Signed(a)' = Signed(a) \cup LastPlaces(n, I)
             /\ Signed(a) \cap LastPlaces(n, I) = {}
             /\ \A p \in Signed(a) : p[1] \in Nat /\ p[1] < n /\ TxAt(p)' = TxAt(p)
             /\ \A i \in I : \A p : p = <<n, i>> => TxAt(p)' = blk.txs[i]
<1> DEFINE n == Len(chain) + 1
           I == {i \in DOMAIN blk.txs : blk.txs[i].from = a /\ blk.txs[i].nonce # 0}
<1>1. /\ Len(chain) \in Nat /\ DOMAIN chain = 1 .. Len(chain)
      /\ DOMAIN chain' = 1 .. n
      /\ \A b \in 1 .. Len(chain) : chain'[b] = chain[b]
      /\ chain'[n] = blk
  BY LenProperties, AppendProperties
<1>2. \A p \in Places : /\ p[1] \in 1 .. Len(chain) /\ p[2] \in DOMAIN chain[p[1]].txs
                        /\ p = <<p[1], p[2]>>
  BY <1>1 DEF Places
<1>3. \A p \in Places : p[1] \in Nat /\ p[1] < n /\ TxAt(p)' = TxAt(p)
  BY <1>1, <1>2 DEF TxAt
<1>4. ASSUME NEW i \in DOMAIN blk.txs, NEW p, p = <<n, i>>
      PROVE  TxAt(p)' = blk.txs[i] /\ p \in Places'
  <2>1. p[1] = n /\ p[2] = i
    BY <1>4
  <2>2. chain'[p[1]] = blk
    BY <1>1, <2>1
  <2>3. TxAt(p)' = blk.txs[i]
    BY <2>1, <2>2 DEF TxAt
  <2>4. n \in DOMAIN chain' /\ p \in {n} \X DOMAIN chain'[n].txs
    BY <1>1, <1>4
  <2>5. p \in Places'
    <3> HIDE DEF n
    <3> QED BY <2>4 DEF Places
  <2> QED BY <2>3, <2>5
<1>5. Places \subseteq Places'
  BY <1>1, <1>2 DEF Places
<1>6. \A p \in Places' : p \in Places \/ \E i \in DOMAIN blk.txs : p = <<n, i>>
  BY PlacesAppend
<1> HIDE DEF n
<1>7. Signed(a)' = Signed(a) \cup LastPlaces(n, I)
  <2>1. ASSUME NEW p \in Signed(a)' PROVE p \in Signed(a) \cup LastPlaces(n, I)
    <3>1. p \in Places' /\ TxAt(p)'.from = a /\ TxAt(p)'.nonce # 0
      BY DEF Signed
    <3>2. CASE p \in Places
      BY <1>3, <3>1, <3>2 DEF Signed
    <3>3. CASE \E i \in DOMAIN blk.txs : p = <<n, i>>
      <4>1. PICK i \in DOMAIN blk.txs : p = <<n, i>>
        BY <3>3
      <4>2. i \in I
        <5>1. TxAt(p)' = blk.txs[i]
          BY <1>4, <4>1
        <5> QED BY <3>1, <5>1
      <4> QED BY <4>1, <4>2 DEF LastPlaces
    <3> QED BY <1>6, <3>1, <3>2, <3>3
  <2>2. ASSUME NEW p \in Signed(a) PROVE p \in Signed(a)'
    BY <1>3, <1>5 DEF Signed
  <2>3. ASSUME NEW p \in LastPlaces(n, I) PROVE p \in Signed(a)'
    <3>1. PICK i \in I : p = <<n, i>>
      BY DEF LastPlaces
    <3>2. TxAt(p)' = blk.txs[i] /\ p \in Places'
      BY <1>4, <3>1
    <3>3. TxAt(p)'.from = a /\ TxAt(p)'.nonce # 0
      BY <3>2
    <3> QED BY <3>2, <3>3 DEF Signed
  <2> QED BY <2>1, <2>2, <2>3
<1>8. Signed(a) \subseteq Places
  BY DEF Signed
<1>9. Signed(a) \cap LastPlaces(n, I) = {}
  <2> SUFFICES ASSUME NEW p \in Signed(a), p \in LastPlaces(n, I) PROVE FALSE
    OBVIOUS
  <2>1. p[1] = n
    BY DEF LastPlaces
  <2>2. p[1] \in Nat /\ p[1] < n
    BY <1>3, <1>8
  <2> QED BY <2>1, <2>2
<1>10. \A i \in I : \A p : p = <<n, i>> => TxAt(p)' = blk.txs[i]
  BY <1>4
<1> QED BY <1>3, <1>7, <1>8, <1>9, <1>10 DEF n

\* A block that continues the nonces of the wallets keeps the chain replayable.
LEMMA StoreRebuilds ==
  ASSUME chain \in Seq(Block), NEW blk \in Block, chain' = Append(chain, blk),
         NoncesRebuild, SignedBy(blk.txs),
         \A a \in Wallets : Sealable(blk.txs, a, Count(a))
  PROVE  /\ NoncesRebuild'
         /\ \A a \in Wallets : Count(a)' = Count(a) + Cardinality(Mine(blk.txs, a))
<1> DEFINE n == Len(chain) + 1
           txs == blk.txs
           I(a) == {i \in DOMAIN txs : txs[i].from = a /\ txs[i].nonce # 0}
<1>1. txs \in Seq(Transaction) /\ n \in Nat
  BY LenProperties DEF Block
<1>2. \A a : /\ Signed(a)' = Signed(a) \cup LastPlaces(n, I(a))
             /\ Signed(a) \cap LastPlaces(n, I(a)) = {}
             /\ \A p \in Signed(a) : p[1] \in Nat /\ p[1] < n /\ TxAt(p)' = TxAt(p)
             /\ \A i \in I(a) : \A p : p = <<n, i>> => TxAt(p)' = txs[i]
  BY SignedGrows
<1>3. \A a : IsFiniteSet(Signed(a)) /\ Count(a) \in Nat
  <2> TAKE a
  <2>1. Signed(a) \subseteq Places
    BY DEF Signed
  <2>2. IsFiniteSet(Signed(a))
    BY <2>1, PlacesFinite, FS_Subset
  <2> QED BY <2>2, FS_CardinalityType DEF Count
<1>4. \A a \in Wallets : I(a) = Mine(txs, a)
  BY DEF SignedBy, Mine
<1>5. \A a : a \notin Wallets => I(a) = {}
  BY DEF SignedBy
<1>6. \A a : IsFiniteSet(I(a)) /\ I(a) \subseteq Mine(txs, a) /\ I(a) \subseteq Nat
  <2> TAKE a
  <2>1. I(a) \subseteq Mine(txs, a)
    BY DEF Mine
  <2> HIDE DEF I, txs
  <2> QED BY <1>1, <2>1, MineType, FS_Subset
<1> HIDE DEF n, txs, I
<1>7. ASSUME NEW a, NEW J \in SUBSET I(a)
      PROVE  Cardinality(Signed(a) \cup LastPlaces(n, J)) = Count(a) + Cardinality(J)
  <2>1. IsFiniteSet(J)
    BY <1>6, FS_Subset
  <2>2. IsFiniteSet(LastPlaces(n, J)) /\ Cardinality(LastPlaces(n, J)) = Cardinality(J)
    BY <2>1, LastPlacesCount
  <2>3. LastPlaces(n, J) \subseteq LastPlaces(n, I(a))
    BY DEF LastPlaces
  <2>4. Signed(a) \cap LastPlaces(n, J) = {}
    BY <1>2, <2>3
  <2>5. Cardinality(Signed(a) \cup LastPlaces(n, J))
          = Cardinality(Signed(a)) + Cardinality(J) - Cardinality({})
    BY <1>3, <2>2, <2>4, FS_Union
  <2>6. Cardinality({}) = 0 /\ Cardinality(J) \in Nat
    BY <2>1, FS_EmptySet, FS_CardinalityType
  <2> QED BY <1>3, <2>5, <2>6 DEF Count
<1>8. ASSUME NEW a \in Wallets
      PROVE  Count(a)' = Count(a) + Cardinality(Mine(txs, a))
  <2>1. Count(a)' = Cardinality(Signed(a) \cup LastPlaces(n, I(a)))
    BY <1>2 DEF Count
  <2> QED BY <1>4, <1>7, <2>1
<1>9. ASSUME NEW a \in Addr, NEW p \in Signed(a)'
      PROVE  TxAt(p)'.nonce = 1 + Cardinality({q \in Signed(a)' : Earlier(q, p)})
  <2>1. CASE p \in Signed(a)
    <3>1. {q \in Signed(a)' : Earlier(q, p)} = {q \in Signed(a) : Earlier(q, p)}
      <4>1. \A q \in LastPlaces(n, I(a)) : ~ Earlier(q, p)
        <5>1. p[1] \in Nat /\ p[1] < n
          BY <1>2, <2>1
        <5>2. \A q \in LastPlaces(n, I(a)) : q[1] = n
          BY DEF LastPlaces
        <5> QED BY <1>1, <5>1, <5>2 DEF Earlier
      <4> QED BY <1>2, <4>1
    <3>2. TxAt(p).nonce = 1 + Cardinality({q \in Signed(a) : Earlier(q, p)})
      BY <2>1 DEF NoncesRebuild
    <3>3. TxAt(p)' = TxAt(p)
      BY <1>2, <2>1
    <3> QED BY <3>1, <3>2, <3>3
  <2>2. CASE p \in LastPlaces(n, I(a))
    <3>1. PICK i \in I(a) : p = <<n, i>>
      BY <2>2 DEF LastPlaces
    <3>2. a \in Wallets /\ I(a) = Mine(txs, a)
      BY <1>4, <1>5
    <3> DEFINE J == {j \in Mine(txs, a) : j < i}
    <3>3. {q \in Signed(a)' : Earlier(q, p)} = Signed(a) \cup LastPlaces(n, J)
      <4>1. \A q \in Signed(a) : Earlier(q, p)
        BY <1>2, <3>1 DEF Earlier
      <4>2. \A j : Earlier(<<n, j>>, p) <=> j < i
        BY <1>1, <3>1 DEF Earlier
      <4>3. {q \in LastPlaces(n, I(a)) : Earlier(q, p)} = LastPlaces(n, J)
        BY <3>2, <4>2 DEF LastPlaces
      <4> QED BY <1>2, <4>1, <4>3
    <3>4. Cardinality(Signed(a) \cup LastPlaces(n, J)) = Count(a) + Cardinality(J)
      BY <1>7, <3>2
    <3>5. txs[i].nonce = Count(a) + 1 + Cardinality(J)
      <4>1. Sealable(txs, a, Count(a))
        BY <3>2 DEF txs
      <4>2. Count(a) \in Nat /\ i \in Mine(txs, a)
        BY <1>3, <3>2
      <4>3. ASSUME NEW c \in Nat, Sealable(txs, a, c)
            PROVE  txs[i].nonce = c + 1 + Cardinality({j \in Mine(txs, a) : j < i})
        <5>1. \A h \in Mine(txs, a) :
                txs[h].nonce = c + 1 + Cardinality({j \in Mine(txs, a) : j < h})
          BY <1>1, <4>3, NoncesCount
        <5> QED BY <4>2, <5>1
      <4> QED BY <4>1, <4>2, <4>3
    <3>6. TxAt(p)' = txs[i]
      BY <1>2, <3>1
    <3>7. Cardinality(J) \in Nat
      <4>1. J \subseteq I(a)
        BY <3>2
      <4> HIDE DEF J
      <4> QED BY <1>6, <4>1, FS_Subset, FS_CardinalityType
    <3> HIDE DEF J
    <3>8. TxAt(p)'.nonce = Count(a) + 1 + Cardinality(J)
      BY <3>5, <3>6
    <3>9. Cardinality({q \in Signed(a)' : Earlier(q, p)}) = Count(a) + Cardinality(J)
      BY <3>3, <3>4
    <3> QED BY <1>3, <3>7, <3>8, <3>9
  <2> QED BY <1>2, <2>1, <2>2
<1>10. NoncesRebuild'
  BY <1>9 DEF NoncesRebuild
<1> QED BY <1>8, <1>10 DEF txs

\* Nothing is numbered in an empty queue.
LEMMA NumberedEmpty ==
  ASSUME NEW a, NEW c \in Nat
  PROVE  Numbered(<< >>, a, c)
<1>1. Mine(<< >>, a) = {} /\ NoncesOf(<< >>, a) = {}
  BY DEF Mine, NoncesOf
<1>2. (c + 1) .. (c + 0) = {}
  OBVIOUS
<1> QED BY <1>1, <1>2 DEF Numbered

\* The next nonce continues the pending ones of its sender.
LEMMA NumberedGrows ==
  ASSUME NEW q \in Seq(Transaction), NEW tx \in Transaction, NEW r, r = Append(q, tx),
         NEW a, NEW c \in Nat, Numbered(q, a, c),
         tx.from = a => /\ tx.nonce > c /\ tx.nonce \notin NoncesOf(q, a)
                        /\ (c + 1) .. (tx.nonce - 1) \subseteq NoncesOf(q, a)
  PROVE  Numbered(r, a, c)
<1> DEFINE n == Len(q) + 1
<1>1. /\ DOMAIN q = 1 .. Len(q) /\ Len(q) \in Nat
      /\ DOMAIN r = (1 .. Len(q)) \cup {n} /\ n \notin DOMAIN q
      /\ \A i \in 1 .. Len(q) : r[i] = q[i]
      /\ r[n] = tx
  BY LenProperties, AppendProperties
<1> HIDE DEF n
<1>2. CASE tx.from # a
  <2>1. Mine(r, a) = Mine(q, a) /\ \A i \in Mine(q, a) : r[i] = q[i]
    BY <1>1, <1>2 DEF Mine
  <2>2. NoncesOf(r, a) = NoncesOf(q, a)
    BY <2>1 DEF NoncesOf
  <2> QED BY <2>1, <2>2 DEF Numbered
<1>3. CASE tx.from = a
  <2>1. PICK k \in Nat : NoncesOf(q, a) = (c + 1) .. (c + k)
    BY DEF Numbered
  <2>2. /\ Mine(r, a) = Mine(q, a) \cup {n} /\ \A i \in Mine(q, a) : r[i] = q[i]
        /\ n \notin Mine(q, a)
    BY <1>1, <1>3 DEF Mine
  <2>3. NoncesOf(r, a) = NoncesOf(q, a) \cup {tx.nonce}
    <3>1. \A i \in Mine(r, a) : r[i].nonce \in NoncesOf(q, a) \cup {tx.nonce}
      BY <1>1, <2>2 DEF NoncesOf
    <3>2. \A i \in Mine(q, a) : q[i].nonce \in NoncesOf(r, a)
      BY <2>2 DEF NoncesOf
    <3>3. n \in Mine(r, a) /\ r[n].nonce = tx.nonce
      BY <1>1, <2>2
    <3>4. tx.nonce \in NoncesOf(r, a)
      BY <3>3 DEF NoncesOf
    <3> QED BY <3>1, <3>2, <3>4 DEF NoncesOf
  <2>4. tx.nonce \in Nat
    BY DebitType
  <2>5. tx.nonce = c + k + 1
    <3>1. ~ (tx.nonce <= c + k)
      BY <1>3, <2>1, <2>4
    <3>2. ~ (tx.nonce > c + k + 1)
      <4>1. SUFFICES ASSUME tx.nonce > c + k + 1 PROVE FALSE
        OBVIOUS
      <4>2. c + k + 1 \in (c + 1) .. (tx.nonce - 1)
        BY <2>4, <4>1
      <4>3. c + k + 1 \in (c + 1) .. (c + k)
        BY <1>3, <2>1, <4>2
      <4> QED BY <4>3
    <3> QED BY <2>4, <3>1, <3>2
  <2>6. NoncesOf(r, a) = (c + 1) .. (c + (k + 1))
    BY <2>1, <2>3, <2>5
  <2>7. \A i \in Mine(q, a) : r[i].nonce # tx.nonce
    BY <1>3, <2>2 DEF NoncesOf
  <2>8. \A i, j \in Mine(r, a) : r[i].nonce = r[j].nonce => i = j
    <3> SUFFICES ASSUME NEW i \in Mine(r, a), NEW j \in Mine(r, a),
                        r[i].nonce = r[j].nonce
                 PROVE  i = j
      OBVIOUS
    <3>1. r[n].nonce = tx.nonce
      BY <1>1
    <3>2. CASE i \in Mine(q, a) /\ j \in Mine(q, a)
      BY <2>2, <3>2 DEF Numbered
    <3>3. CASE i = n \/ j = n
      BY <2>2, <2>7, <3>1, <3>3
    <3> QED BY <2>2, <3>2, <3>3
  <2>9. k + 1 \in Nat
    OBVIOUS
  <2> QED BY <2>6, <2>8, <2>9 DEF Numbered
<1> QED BY <1>2, <1>3

\* The nonces a block leaves behind count it.
LEMMA LastNoncesCount ==
  ASSUME NEW txs \in Seq(Transaction), NEW a \in Addr, NEW c \in Nat,
         Sealable(txs, a, c), nonces[a] = c
  PROVE  LastNonces(txs)[a] = c + Cardinality(Mine(txs, a))
<1>1. /\ Mine(txs, a) \subseteq 1 .. Len(txs) /\ Len(txs) \in Nat
      /\ Mine(txs, a) \subseteq Nat /\ IsFiniteSet(Mine(txs, a))
  BY MineType
<1>2. LastNonces(txs)[a] = IF Mine(txs, a) = {} THEN nonces[a]
                           ELSE txs[Max(Mine(txs, a))].nonce
  BY DEF LastNonces, Mine
<1>3. CASE Mine(txs, a) = {}
  <2>1. Cardinality(Mine(txs, a)) = 0
    BY <1>3, FS_EmptySet
  <2> QED BY <1>2, <1>3, <2>1
<1>4. CASE Mine(txs, a) # {}
  <2> DEFINE m == Max(Mine(txs, a))
             S == {j \in Mine(txs, a) : j < m}
  <2>1. m \in Mine(txs, a) /\ \A j \in Mine(txs, a) : j <= m
    BY <1>1, <1>4, LastPosition
  <2> HIDE DEF m
  <2>2. m \in Nat /\ m \notin S /\ Mine(txs, a) = S \cup {m} /\ IsFiniteSet(S)
    <3>1. m \in Nat /\ m \notin S
      BY <1>1, <2>1
    <3>2. Mine(txs, a) = S \cup {m}
      BY <1>1, <2>1
    <3>3. IsFiniteSet(S)
      BY <1>1, FS_Subset
    <3> QED BY <3>1, <3>2, <3>3
  <2>3. txs[m].nonce = c + 1 + Cardinality(S)
    BY <2>1, NoncesCount
  <2>4. Cardinality(Mine(txs, a)) = Cardinality(S) + 1
    <3> HIDE DEF S
    <3> QED BY <2>2, FS_AddElement
  <2>5. Cardinality(S) \in Nat
    <3> HIDE DEF S
    <3> QED BY <2>2, FS_CardinalityType
  <2>6. LastNonces(txs)[a] = txs[m].nonce
    BY <1>2, <1>4 DEF m
  <2> HIDE DEF S
  <2> QED BY <2>3, <2>4, <2>5, <2>6
<1> QED BY <1>3, <1>4

\* The condition on timestamps counts where a block is begun.
Timely == pc = "up" => TimesFollow

\* Neither the chain nor the counts depend on anything else.
LEMMA CountsStay ==
  ASSUME UNCHANGED chain
  PROVE  NoncesRebuild' = NoncesRebuild /\ \A a : Count(a)' = Count(a)
<1>1. Places' = Places /\ \A p : TxAt(p)' = TxAt(p)
  BY DEF Places, TxAt
<1>2. \A a : Signed(a)' = Signed(a)
  BY <1>1 DEF Signed
<1> QED BY <1>1, <1>2 DEF NoncesRebuild, Count

\* How many is a natural number.
LEMMA CountType ==
  ASSUME chain \in Seq(Block), NEW a
  PROVE  Count(a) \in Nat
<1>1. Signed(a) \subseteq Places
  BY DEF Signed
<1>2. IsFiniteSet(Signed(a))
  BY <1>1, PlacesFinite, FS_Subset
<1> QED BY <1>2, FS_CardinalityType DEF Count

\* A step that leaves pending nonces and the chain alone while requests wait.
LEMMA NoncesStay ==
  ASSUME NonceInv, UNCHANGED <<mempool, nonces, chain>>, loop' \in {loop, "exited"},
         pc \in {"up", "persist", "write"}, pc' \in {"up", "persist", "write"}
  PROVE  NonceInv'
BY CountsStay DEF NonceInv

\* A step that leaves the mempool empty, the chain replayable, and no block to
\* be built on what it leaves.
LEMMA NoncesDropped ==
  ASSUME NoncesRebuild', mempool' = << >>, pc' \notin {"apply", "store"},
         loop' = "exited" \/ pc' \notin {"up", "persist", "write"}
  PROVE  NonceInv'
<1>1. SignedBy(mempool)'
  BY DEF SignedBy
<1> QED BY <1>1 DEF NonceInv

\* A transaction joins the mempool.
LEMMA NoncesQueue ==
  ASSUME BalanceInv, NonceInv, UNCHANGED <<nonces, chain, loop, pc>>, pc = "up",
         NEW tx \in Transaction, mempool' = Append(mempool, tx),
         tx.nonce # 0 <=> tx.from \in Wallets,
         tx.from \in Wallets => NextNonce(tx)
  PROVE  NonceInv'
<1>1. mempool \in Seq(Transaction) /\ chain \in Seq(Block)
  BY DEF BalanceInv, TypeOK, PoolOK, DurableOK
<1>2. SignedBy(mempool)'
  <2> DEFINE n == Len(mempool) + 1
  <2>1. /\ DOMAIN mempool = 1 .. Len(mempool)
        /\ DOMAIN mempool' = (1 .. Len(mempool)) \cup {n}
        /\ \A i \in 1 .. Len(mempool) : mempool'[i] = mempool[i]
        /\ mempool'[n] = tx
    BY <1>1, LenProperties, AppendProperties
  <2>2. SignedBy(mempool)
    BY DEF NonceInv
  <2> HIDE DEF n
  <2> QED BY <2>1, <2>2 DEF SignedBy
<1>3. ASSUME loop = "running", NEW a \in Wallets
      PROVE  nonces'[a] = Count(a)' /\ Numbered(mempool', a, Count(a)')
  <2>1. /\ Count(a)' = Count(a) /\ Count(a) \in Nat
        /\ nonces[a] = Count(a) /\ Numbered(mempool, a, Count(a))
    BY <1>1, <1>3, CountsStay, CountType DEF NonceInv
  <2>2. tx.from = a =>
          /\ tx.nonce > Count(a) /\ tx.nonce \notin NoncesOf(mempool, a)
          /\ (Count(a) + 1) .. (tx.nonce - 1) \subseteq NoncesOf(mempool, a)
    <3> SUFFICES ASSUME tx.from = a
                 PROVE  /\ tx.nonce > Count(a) /\ tx.nonce \notin NoncesOf(mempool, a)
                        /\ (Count(a) + 1) .. (tx.nonce - 1) \subseteq NoncesOf(mempool, a)
      OBVIOUS
    <3>1. PendingNonces(a) = NoncesOf(mempool, a)
      BY DEF PendingNonces, NoncesOf, Mine
    <3> QED BY <2>1, <3>1 DEF NextNonce
  <2>3. Numbered(mempool', a, Count(a))
    BY <1>1, <2>1, <2>2, NumberedGrows
  <2> QED BY <2>1, <2>3
<1> QED BY <1>2, <1>3, CountsStay DEF NonceInv

\* Requests.
LEMMA RequestsNonces ==
  ASSUME WalletsSign, BalanceInv, NonceInv, Requests
  PROVE  NonceInv'
<1>1. CASE SubmitSome
  <2>1. PICK tx \in Transaction : Submit(tx) /\ tx.from \in Wallets /\ tx.nonce # 0
    BY <1>1, SubmitIsTyped
  <2>2. /\ pc = "up" /\ mempool' = Append(mempool, tx) /\ NextNonce(tx)
        /\ UNCHANGED <<nonces, chain, loop, pc>>
    BY <2>1 DEF Submit, durableVars
  <2> QED BY <2>1, <2>2, NoncesQueue
<1>2. ASSUME NEW to \in Wallets, NEW hash \in Hashes, NEW amount \in Amounts,
             BridgeCredit(to, amount, hash)
      PROVE  NonceInv'
  <2> DEFINE tx == [from |-> Treasury, to |-> to, amount |-> amount, fee |-> MinFee,
                    nonce |-> 0, time |-> Now, hash |-> Trimmed[hash]]
  <2>1. tx \in Transaction /\ tx.from = Treasury /\ tx.nonce = 0
    BY ConstantTypes DEF Transaction
  <2>2. /\ pc = "up" /\ mempool' = Append(mempool, tx)
        /\ UNCHANGED <<nonces, chain, loop, pc>>
    BY <1>2 DEF BridgeCredit, durableVars
  <2>3. Treasury \notin Wallets
    BY NodeLedgerAssumption
  <2> HIDE DEF tx
  <2> QED BY <2>1, <2>2, <2>3, NoncesQueue
<1>3. ASSUME UNCHANGED <<mempool, nonces, chain, loop, pc>>, pc = "up"
      PROVE  NonceInv'
  BY <1>3, NoncesStay
<1> QED BY <1>1, <1>2, <1>3
        DEF Requests, PiSettlement, BridgeBurn, AdminMint, MigrateLegacy, WalletsSign,
            durableVars

\* A block is begun: the sort puts the nonces of a wallet in order.
LEMMA BeginNonces ==
  ASSUME BalanceInv, NonceInv, Timely, BeginBlock
  PROVE  NonceInv'
<1>1. /\ mempool \in Seq(Transaction) /\ SignedBy(mempool) /\ TimesFollow /\ pc = "up"
      /\ loop = "running" /\ loop' = loop /\ UNCHANGED <<nonces, chain>> /\ pc' = "apply"
  BY DEF BeginBlock, NonceInv, Timely, BalanceInv, TypeOK, PoolOK, durableVars
<1>2. PICK p \in BlockOrders(mempool) :
        block'.txs = [i \in DOMAIN mempool |-> mempool[p[i]]]
  BY DEF BeginBlock
<1> DEFINE txs == block'.txs
<1>3. SignedBy(txs)
  <2>1. p \in [DOMAIN mempool -> DOMAIN mempool]
    BY DEF BlockOrders
  <2> QED BY <1>1, <1>2, <2>1 DEF SignedBy
<1>4. ASSUME NEW a \in Wallets
      PROVE  nonces'[a] = Count(a)' /\ Sealable(txs, a, Count(a)')
  <2>1. /\ Count(a)' = Count(a) /\ nonces[a] = Count(a)
        /\ Numbered(mempool, a, Count(a))
    BY <1>1, CountsStay DEF NonceInv
  <2>2. \A i, j \in DOMAIN mempool :
          mempool[i].from = mempool[j].from /\ mempool[i].nonce < mempool[j].nonce =>
            mempool[i].time <= mempool[j].time
    BY <1>1 DEF TimesFollow
  <2> HIDE DEF txs
  <2>3. txs = [i \in DOMAIN mempool |-> mempool[p[i]]]
    BY <1>2 DEF txs
  <2>4. Sealable(txs, a, Count(a))
    BY <1>1, <2>1, <2>2, <2>3, SortedBlock
  <2> QED BY <1>1, <2>1, <2>4
<1>5. NoncesRebuild'
  BY <1>1, CountsStay DEF NonceInv
<1> QED BY <1>1, <1>3, <1>4, <1>5 DEF NonceInv

\* A block has been applied: the nonces it leaves behind count it.
LEMMA FinishNonces ==
  ASSUME BalanceInv, NonceInv, FinishBlock
  PROVE  NonceInv'
<1>1. /\ block.txs \in Seq(Transaction) /\ chain \in Seq(Block) /\ SignedBy(block.txs)
      /\ loop = "running" /\ loop' = loop /\ UNCHANGED <<chain, block>> /\ pc = "apply"
      /\ pc' = "store" /\ nonces' = LastNonces(block.txs)
  BY DEF FinishBlock, NonceInv, BalanceInv, TypeOK, SealOK, DurableOK, Block, durableVars
<1>2. ASSUME NEW a \in Wallets
      PROVE  /\ nonces'[a] = Count(a)' + Cardinality(Mine(block'.txs, a))
             /\ Sealable(block'.txs, a, Count(a)')
  <2>1. /\ Count(a)' = Count(a) /\ Count(a) \in Nat /\ nonces[a] = Count(a)
        /\ Sealable(block.txs, a, Count(a)) /\ a \in Addr
    BY <1>1, CountsStay, CountType, ConstantTypes DEF NonceInv
  <2>2. ASSUME NEW c \in Nat, nonces[a] = c, Sealable(block.txs, a, c)
        PROVE  LastNonces(block.txs)[a] = c + Cardinality(Mine(block.txs, a))
    BY <1>1, <2>1, <2>2, LastNoncesCount
  <2>3. LastNonces(block.txs)[a] = Count(a) + Cardinality(Mine(block.txs, a))
    BY <2>1, <2>2
  <2> QED BY <1>1, <2>1, <2>3
<1>3. NoncesRebuild'
  BY <1>1, CountsStay DEF NonceInv
<1> QED BY <1>1, <1>2, <1>3 DEF NonceInv

\* A block is stored, or may have been.
LEMMA StoreNonces ==
  ASSUME BalanceInv, NonceInv, PoolEmpty, Store \/ StoreFails
  PROVE  NonceInv'
<1>1. /\ block \in Block /\ block.txs \in Seq(Transaction) /\ chain \in Seq(Block)
      /\ SignedBy(block.txs) /\ NoncesRebuild /\ pc = "store" /\ pc' = "up"
      /\ mempool' = << >> /\ nonces' = nonces
      /\ \A a \in Wallets : /\ nonces[a] = Count(a) + Cardinality(Mine(block.txs, a))
                            /\ Sealable(block.txs, a, Count(a))
  BY DEF Store, StoreFails, LoopEnds, NonceInv, PoolEmpty, BalanceInv, TypeOK, SealOK, DurableOK,
         Block, poolVars
<1>2. ASSUME chain' = Append(chain, block)
      PROVE  NoncesRebuild' /\ \A a \in Wallets : nonces'[a] = Count(a)' /\ Count(a)' \in Nat
  <2>1. /\ NoncesRebuild'
        /\ \A a \in Wallets : Count(a)' = Count(a) + Cardinality(Mine(block.txs, a))
    BY <1>1, <1>2, StoreRebuilds
  <2>2. \A a : Count(a) \in Nat /\ Cardinality(Mine(block.txs, a)) \in Nat
    BY <1>1, CountType, MineType, FS_CardinalityType
  <2>3. \A a \in Wallets : Count(a)' \in Nat
    BY <2>1, <2>2
  <2> QED BY <1>1, <2>1, <2>3
<1>3. CASE Store
  <2>1. chain' = Append(chain, block) /\ loop' = loop
    BY <1>3 DEF Store
  <2>2. SignedBy(mempool)'
    BY <1>1 DEF SignedBy
  <2>3. \A a \in Wallets : nonces'[a] = Count(a)' /\ Numbered(mempool', a, Count(a)')
    BY <1>1, <1>2, <2>1, NumberedEmpty
  <2> QED BY <1>1, <1>2, <2>1, <2>2, <2>3 DEF NonceInv
<1>4. CASE StoreFails
  <2>1. NoncesRebuild' /\ loop' = "exited"
    BY <1>1, <1>2, <1>4, CountsStay DEF StoreFails, LoopEnds
  <2> QED BY <1>1, <2>1, NoncesDropped
<1> QED BY <1>3, <1>4

\* NonceInv is inductive, given the condition on timestamps.
LEMMA NonceInductive ==
  ASSUME WalletsSign
  PROVE  /\ Init => NonceInv
         /\ BalanceInv /\ PoolEmpty /\ Timely /\ NonceInv /\ [Next]_vars => NonceInv'
<1>1. ASSUME Init PROVE NonceInv
  <2>1. \A a : Signed(a) = {}
    BY <1>1 DEF Init, Signed, Places
  <2>2. NoncesRebuild
    BY <2>1 DEF NoncesRebuild
  <2>3. SignedBy(mempool)
    BY <1>1 DEF Init, SignedBy
  <2> QED BY <1>1, <2>2, <2>3 DEF Init, NonceInv
<1>2. ASSUME BalanceInv, PoolEmpty, Timely, NonceInv, [Next]_vars
      PROVE  NonceInv'
  <2>1. ASSUME UNCHANGED <<mempool, nonces, chain, loop>>,
               pc \in {"up", "persist", "write"}, pc' \in {"up", "persist", "write"}
        PROVE  NonceInv'
    BY <1>2, <2>1, NoncesStay
  <2>2. ASSUME UNCHANGED <<mempool, chain>>, pc \notin {"up", "persist", "write"},
               pc' \notin {"apply", "store"},
               loop' = "exited" \/ pc' \notin {"up", "persist", "write"}
        PROVE  NonceInv'
    <3>1. NoncesRebuild' /\ mempool' = << >>
      BY <1>2, <2>2, CountsStay DEF NonceInv, PoolEmpty
    <3> QED BY <2>2, <3>1, NoncesDropped
  <2>3. CASE Requests
    BY <1>2, <2>3, RequestsNonces
  <2>4. CASE Syncing \/ WriteFails
    BY <2>1, <2>4 DEF Syncing, Sync, Truncate, WriteSnapshot, WriteFails,
                      accountVars, poolVars, durableVars
  <2>5. ASSUME UNCHANGED <<nonces, chain, loop, pc, block, mempool>>
        PROVE  NonceInv'
    BY <1>2, <2>5, CountsStay DEF NonceInv
  <2>6. CASE ApplyTx \/ UNCHANGED vars
    BY <2>5, <2>6 DEF ApplyTx, vars, poolVars, durableVars
  <2>7. CASE BeginBlock
    BY <1>2, <2>7, BeginNonces
  <2>8. CASE FinishBlock
    BY <1>2, <2>8, FinishNonces
  <2>9. CASE Store \/ StoreFails
    BY <1>2, <2>9, StoreNonces
  <2>10. CASE ApplyFails
    BY <2>2, <2>10 DEF ApplyFails, LoopEnds, poolVars, durableVars
  <2>11. CASE Crash
    <3>1. NoncesRebuild'
      BY <1>2, <2>11, CountsStay DEF Crash, NonceInv, durableVars
    <3> QED BY <2>11, <3>1, NoncesDropped DEF Crash
  <2>12. CASE StartUp /\ ~ Recover
    BY <2>2, <2>12
       DEF StartUp, Restart, RestartFails, ReconcileTx, ReconcileBlock, StartReplay,
           ReplayBlock, ReplayFails, poolVars, durableVars
  <2>13. CASE Recover
    <3>1. /\ mempool' = << >> /\ chain' = chain /\ pc' = "up" /\ chain \in Seq(Block)
          /\ nonces' = [a \in Addr |-> Cardinality(Signed(a))]
      BY <1>2, <2>13
         DEF Recover, PoolEmpty, BalanceInv, TypeOK, DurableOK, durableVars
    <3>2. \A a \in Wallets : nonces'[a] = Count(a)
      BY <3>1, ConstantTypes DEF Count
    <3>3. \A a \in Wallets : Count(a)' = Count(a) /\ Numbered(mempool', a, Count(a)')
      BY <3>1, CountsStay, CountType, NumberedEmpty
    <3>4. SignedBy(mempool)' /\ NoncesRebuild'
      BY <1>2, <3>1, CountsStay DEF SignedBy, NonceInv
    <3> QED BY <3>1, <3>2, <3>3, <3>4 DEF NonceInv
  <2> QED BY <1>2, <2>3, <2>4, <2>6, <2>7, <2>8, <2>9, <2>10, <2>11, <2>12, <2>13
          DEF Next, Sealing, Failing, Syncing
<1> QED BY <1>1, <1>2

\* Whatever crashes, failing stores and lost blocks there are, the nonces of the
\* chain stay 1, 2, 3, ... for every sender, as long as only wallets sign for
\* wallets and their timestamps follow their nonces.
THEOREM HistoryStaysReplayable ==
  ASSUME WalletsSign
  PROVE  Spec /\ []TimesFollow => []HistoryRebuilds
<1>1. CreditInv => PoolEmpty
  BY DEF CreditInv
<1>2. TimesFollow => Timely
  BY DEF Timely
<1>3. NonceInv => HistoryRebuilds
  BY DEF NonceInv, HistoryRebuilds
<1> QED BY <1>1, <1>2, <1>3, NonceInductive, AlwaysBalanced, AlwaysCredited, PTL DEF Spec
------------------------------------------------------------------------------
(***************************************************************************)
(* Who leaves a sender short.  The consensus loop ends when a sender of a  *)
(* block cannot pay.  queue_transaction counts what a sender has pending,  *)
(* a bridge credit brings its own funds, the sort of a block changes what  *)
(* nobody owes, and each transaction applied settles what it owed.  That   *)
(* leaves the requests that take from a balance without counting.          *)
(***************************************************************************)

\* The positions of a sender, and the debit at each position.
Own(q, a) == {i \in DOMAIN q : q[i].from = a}
Debits(q) == [i \in DOMAIN q |-> Debit(q[i])]

\* What an address owes is a sum of natural numbers.
LEMMA OwingSummable ==
  ASSUME NEW q \in Seq(Transaction), NEW a
  PROVE  /\ Owing(q, a) = SumFunctionOnSet(Debits(q), Own(q, a))
         /\ Summable(Debits(q), Own(q, a)) /\ Owing(q, a) \in Nat
<1>1. DOMAIN q = 1 .. Len(q) /\ Len(q) \in Nat
  BY LenProperties
<1>2. Own(q, a) \subseteq DOMAIN q
  BY DEF Own
<1>3. IsFiniteSet(Own(q, a))
  <2>1. IsFiniteSet(1 .. Len(q))
    BY <1>1, FS_Interval
  <2> QED BY <1>1, <1>2, <2>1, FS_Subset
<1>4. \A i \in DOMAIN q : Debits(q)[i] \in Nat
  BY <1>1, ElementOfSeq, DebitType DEF Debits
<1>5. Owing(q, a) = SumFunctionOnSet(Debits(q), Own(q, a))
  BY DEF Owing, Debits, Own
<1>6. SumFunctionOnSet(Debits(q), Own(q, a)) \in Nat
  BY <1>2, <1>3, <1>4, SumNat
<1>7. \A i \in Own(q, a) : Debits(q)[i] \in Int
  BY <1>2, <1>4
<1>8. Summable(Debits(q), Own(q, a))
  BY <1>3, <1>7 DEF Summable
<1> QED BY <1>5, <1>6, <1>8

LEMMA OwingEmpty ==
  ASSUME NEW q, q = << >>, NEW a
  PROVE  Owing(q, a) = 0
<1>1. {i \in DOMAIN q : q[i].from = a} = {}
  OBVIOUS
<1> QED BY <1>1, SumEmpty DEF Owing

\* The fee reserve sends nothing.
LEMMA ReserveOwesNothing ==
  ASSUME NEW q \in Seq(Transaction)
  PROVE  Owing(q, Reserve) = 0
<1>1. \A i \in DOMAIN q : q[i].from # Reserve
  BY LenProperties, ElementOfSeq, DebitType
<1>2. {i \in DOMAIN q : q[i].from = Reserve} = {}
  BY <1>1
<1> QED BY <1>2, SumEmpty DEF Owing

\* A transaction more adds its debit, to its sender's.
LEMMA OwingGrows ==
  ASSUME NEW q \in Seq(Transaction), NEW tx \in Transaction, NEW a
  PROVE  Owing(Append(q, tx), a) = Owing(q, a) + (IF tx.from = a THEN Debit(tx) ELSE 0)
<1> DEFINE n == Len(q) + 1
           p == Append(q, tx)
<1>1. /\ DOMAIN q = 1 .. Len(q) /\ Len(q) \in Nat /\ p \in Seq(Transaction)
      /\ DOMAIN p = (1 .. Len(q)) \cup {n} /\ n \notin DOMAIN q
      /\ \A i \in 1 .. Len(q) : p[i] = q[i]
      /\ p[n] = tx
  BY LenProperties, AppendProperties
<1> HIDE DEF n, p
<1>2. /\ Summable(Debits(q), Own(q, a)) /\ Owing(q, a) \in Nat
      /\ Owing(q, a) = SumFunctionOnSet(Debits(q), Own(q, a))
      /\ Owing(p, a) = SumFunctionOnSet(Debits(p), Own(p, a))
  BY <1>1, OwingSummable
<1>3. \A i \in Own(q, a) : Debits(p)[i] = Debits(q)[i]
  BY <1>1 DEF Debits, Own
<1>4. SumFunctionOnSet(Debits(p), Own(q, a)) = Owing(q, a) /\ Summable(Debits(p), Own(q, a))
  BY <1>2, <1>3, SumSame DEF Summable
<1>5. Debits(p)[n] = Debit(tx) /\ Debit(tx) \in Nat /\ n \notin Own(q, a)
  BY <1>1, DebitType DEF Debits, Own
<1>6. CASE tx.from = a
  <2>1. Own(p, a) = Own(q, a) \cup {n}
    BY <1>1, <1>6 DEF Own
  <2>2. SumFunctionOnSet(Debits(p), Own(q, a) \cup {n})
          = Debits(p)[n] + SumFunctionOnSet(Debits(p), Own(q, a))
    BY <1>4, <1>5, SumInsert
  <2> QED BY <1>2, <1>4, <1>5, <1>6, <2>1, <2>2 DEF p
<1>7. CASE tx.from # a
  <2>1. Own(p, a) = Own(q, a)
    BY <1>1, <1>7 DEF Own
  <2> QED BY <1>2, <1>4, <1>7, <2>1 DEF p
<1> QED BY <1>6, <1>7

\* Permuting a queue changes what nobody owes.
Permutes(p, q, txs) ==
  /\ DOMAIN txs = DOMAIN q
  /\ \A i \in DOMAIN q : p[i] \in DOMAIN q /\ txs[i] = q[p[i]]
  /\ \A i, j \in DOMAIN q : p[i] = p[j] => i = j
  /\ \A n \in DOMAIN q : \E i \in DOMAIN q : p[i] = n

LEMMA OwingPermuted ==
  ASSUME NEW q \in Seq(Transaction), NEW txs \in Seq(Transaction), NEW p,
         Permutes(p, q, txs), NEW a
  PROVE  Owing(txs, a) = Owing(q, a)
<1> DEFINE S == Own(txs, a)
<1> USE DEF Permutes
<1>1. Summable(Debits(txs), S) /\ Owing(txs, a) = SumFunctionOnSet(Debits(txs), S)
  BY OwingSummable
<1>2. \A i \in S : i \in DOMAIN q /\ Debits(q)[p[i]] = Debits(txs)[i]
  BY DEF Debits, Own
<1>3. {p[i] : i \in S} = Own(q, a)
  <2>1. \A i \in S : p[i] \in Own(q, a)
    BY DEF Own
  <2>2. ASSUME NEW n \in Own(q, a) PROVE \E i \in S : p[i] = n
    <3>1. n \in DOMAIN q /\ q[n].from = a
      BY DEF Own
    <3>2. PICK i \in DOMAIN q : p[i] = n
      BY <3>1
    <3>3. i \in S
      BY <3>1, <3>2 DEF Own
    <3> QED BY <3>2, <3>3
  <2> HIDE DEF S
  <2> QED BY <2>1, <2>2
<1> HIDE DEF S
<1>4. \A i, j \in S : p[i] = p[j] => i = j
  BY <1>2
<1> HIDE DEF Permutes
<1>5. SumFunctionOnSet(Debits(q), {p[i] : i \in S}) = SumFunctionOnSet(Debits(txs), S)
  BY <1>1, <1>2, <1>4, SumRenamed
<1>6. Owing(q, a) = SumFunctionOnSet(Debits(q), Own(q, a))
  BY OwingSummable
<1> QED BY <1>1, <1>3, <1>5, <1>6

\* A queue is its head and what follows.
LEMMA OwingFalls ==
  ASSUME NEW q \in Seq(Transaction), q # << >>, NEW a
  PROVE  /\ Owing(q, a) = (IF Head(q).from = a THEN Debit(Head(q)) ELSE 0) + Owing(Tail(q), a)
         /\ Owing(Tail(q), a) \in Nat
<1> DEFINE tx == Head(q)
           t == Tail(q)
           b == Append(t, tx)
           n == Len(q)
           p == [i \in DOMAIN q |-> IF i = n THEN 1 ELSE i + 1]
<1>1. /\ tx \in Transaction /\ t \in Seq(Transaction) /\ n \in Nat /\ n > 0
      /\ DOMAIN q = 1 .. n /\ Len(t) = n - 1 /\ tx = q[1]
      /\ \A i \in 1 .. n - 1 : t[i] = q[i + 1]
  BY LenProperties, HeadTailProperties
<1> HIDE DEF tx, t, n
<1>2. /\ b \in Seq(Transaction) /\ Len(b) = n /\ DOMAIN b = 1 .. n
      /\ \A i \in 1 .. n - 1 : b[i] = t[i]
      /\ b[n] = tx
  <2>1. /\ b \in Seq(Transaction) /\ Len(b) = Len(t) + 1
        /\ \A i \in 1 .. Len(t) : b[i] = t[i]
        /\ b[Len(t) + 1] = tx
    BY <1>1, AppendProperties
  <2>2. Len(t) + 1 = n
    BY <1>1
  <2> HIDE DEF b
  <2>3. DOMAIN b = 1 .. Len(b)
    BY <2>1, LenProperties
  <2> QED BY <1>1, <2>1, <2>2, <2>3
<1> HIDE DEF b
<1>3. \A i \in DOMAIN q : p[i] \in DOMAIN q /\ b[i] = q[p[i]]
  <2> TAKE i \in DOMAIN q
  <2>1. CASE i = n
    BY <1>1, <1>2, <2>1
  <2>2. CASE i # n
    <3>1. i \in 1 .. n - 1 /\ i + 1 \in 1 .. n
      BY <1>1, <2>2
    <3> QED BY <1>1, <1>2, <2>2, <3>1
  <2> QED BY <2>1, <2>2
<1>4. \A i, j \in DOMAIN q : p[i] = p[j] => i = j
  BY <1>1
<1>5. ASSUME NEW m \in DOMAIN q PROVE \E i \in DOMAIN q : p[i] = m
  <2>1. CASE m = 1
    <3>1. n \in DOMAIN q /\ p[n] = m
      BY <1>1, <2>1
    <3> QED BY <3>1
  <2>2. CASE m # 1
    <3>1. m - 1 \in DOMAIN q /\ p[m - 1] = m
      BY <1>1, <2>2
    <3> QED BY <3>1
  <2> QED BY <2>1, <2>2
<1> HIDE DEF p
<1>6. Owing(b, a) = Owing(q, a)
  <2>1. Permutes(p, q, b)
    BY <1>1, <1>2, <1>3, <1>4, <1>5 DEF Permutes
  <2> QED BY <1>2, <2>1, OwingPermuted
<1>7. Owing(b, a) = Owing(t, a) + (IF tx.from = a THEN Debit(tx) ELSE 0)
  BY <1>1, OwingGrows DEF b
<1>8. Owing(t, a) \in Nat /\ Debit(tx) \in Nat
  BY <1>1, OwingSummable, DebitType
<1> QED BY <1>6, <1>7, <1>8 DEF tx, t

\* When a block is begun, everybody owes what was pending.
LEMMA OwingSorted ==
  ASSUME NEW q \in Seq(Transaction), NEW p \in BlockOrders(q), NEW txs,
         txs = [i \in DOMAIN q |-> q[p[i]]], NEW a
  PROVE  txs \in Seq(Transaction) /\ Owing(txs, a) = Owing(q, a)
<1>1. /\ p \in [DOMAIN q -> DOMAIN q]
      /\ \A i, j \in DOMAIN q : p[i] = p[j] => i = j
      /\ \A n \in DOMAIN q : \E i \in DOMAIN q : p[i] = n
  BY OrderPermutes
<1>2. /\ DOMAIN txs = DOMAIN q /\ DOMAIN q = 1 .. Len(q) /\ Len(q) \in Nat
      /\ \A i \in DOMAIN q : p[i] \in DOMAIN q /\ txs[i] = q[p[i]]
  BY <1>1, LenProperties
<1>3. txs \in Seq(Transaction)
  <2>1. \A i \in 1 .. Len(q) : q[p[i]] \in Transaction
    BY <1>1, <1>2, ElementOfSeq
  <2> QED BY <1>2, <2>1, SeqDef
<1>4. Permutes(p, q, txs)
  BY <1>1, <1>2 DEF Permutes
<1> QED BY <1>3, <1>4, OwingPermuted

\* What an address owes, before a step and after it.
LEMMA DueIs ==
  ASSUME BalanceInv, NEW a \in Addr
  PROVE  /\ Due(a) = Owing(mempool, a) + (IF pc = "apply" THEN Owing(work, a) ELSE 0)
         /\ Due(a)' = Owing(mempool', a) + (IF pc' = "apply" THEN Owing(work', a) ELSE 0)
         /\ Owing(mempool, a) \in Nat /\ Owing(work, a) \in Nat /\ ants[a] \in Nat
<1>1. mempool \in Seq(Transaction) /\ work \in Seq(Transaction) /\ ants \in [Addr -> Nat]
  BY DEF BalanceInv, TypeOK, AccountsOK, PoolOK, SealOK
<1> QED BY <1>1, OwingSummable DEF Due, PendingDebit

\* Nothing is owed where nothing waits.
LEMMA NothingDue ==
  ASSUME BalanceInv', mempool' = << >>, pc' # "apply", NEW a \in Addr
  PROVE  ~ Short(a)'
<1>1. Due(a)' = Owing(mempool', a) + 0
  BY DEF Due, PendingDebit
<1>2. Owing(mempool', a) = 0
  BY OwingEmpty
<1>3. ants'[a] \in Nat
  BY DEF BalanceInv, TypeOK, AccountsOK
<1> QED BY <1>1, <1>2, <1>3 DEF Short

\* A balance that does not fall is not left short by a step that queues nothing.
LEMMA DueStays ==
  ASSUME BalanceInv, BalanceInv', UNCHANGED mempool, pc # "apply", pc' # "apply",
         NEW a \in Addr, ants[a] <= ants'[a] \/ Owing(mempool, a) = 0
  PROVE  Short(a)' => Short(a)
<1>1. /\ Due(a) = Owing(mempool, a) + 0 /\ Due(a)' = Owing(mempool, a) + 0
      /\ Owing(mempool, a) \in Nat /\ ants[a] \in Nat
  BY DueIs
<1>2. ants'[a] \in Nat
  BY DEF BalanceInv, TypeOK, AccountsOK
<1> QED BY <1>1, <1>2 DEF Short

\* A transaction is queued that its sender can pay for on top of the others.
LEMMA DueGrows ==
  ASSUME BalanceInv, BalanceInv', pc = "up", pc' = "up", NEW tx \in Transaction,
         mempool' = Append(mempool, tx), NEW a \in Addr, ants[a] <= ants'[a],
         tx.from = a => Debit(tx) + Owing(mempool, a) <= ants'[a] \/ Short(a)
  PROVE  Short(a)' => Short(a)
<1>1. /\ Due(a) = Owing(mempool, a) + 0 /\ Due(a)' = Owing(mempool', a) + 0
      /\ Owing(mempool, a) \in Nat /\ ants[a] \in Nat
  BY DueIs
<1>2. ants'[a] \in Nat /\ mempool \in Seq(Transaction) /\ Debit(tx) \in Nat
  BY DebitType DEF BalanceInv, TypeOK, AccountsOK, PoolOK
<1>3. Owing(mempool', a) = Owing(mempool, a) + (IF tx.from = a THEN Debit(tx) ELSE 0)
  BY <1>2, OwingGrows
<1>4. CASE tx.from = a
  BY <1>1, <1>2, <1>3, <1>4 DEF Short
<1>5. CASE tx.from # a
  BY <1>1, <1>2, <1>3, <1>5 DEF Short
<1> QED BY <1>4, <1>5

\* A sender that can pay for all it owes can pay for the next, and for the rest.
LEMMA DueFalls ==
  ASSUME BalanceInv, work # << >>, pc = "apply"
  PROVE  /\ ants[Head(work).from] < Debit(Head(work)) => Short(Head(work).from)
         /\ ApplyTx => \A a \in Addr : Short(a)' => Short(a)
<1> DEFINE tx == Head(work)
<1>1. work \in Seq(Transaction) /\ tx \in Transaction /\ tx.from \in Addr
      /\ Debit(tx) \in Nat /\ tx.amount \in Nat /\ ants \in [Addr -> Nat]
  BY WorkType, DebitType DEF BalanceInv, TypeOK, AccountsOK, SealOK
<1>2. ASSUME NEW a \in Addr
      PROVE  /\ Due(a) = Owing(mempool, a) + ((IF tx.from = a THEN Debit(tx) ELSE 0)
                                              + Owing(Tail(work), a))
             /\ Owing(mempool, a) \in Nat /\ Owing(Tail(work), a) \in Nat
             /\ ants[a] \in Nat
  BY <1>1, DueIs, OwingFalls
<1> HIDE DEF tx
<1>3. ASSUME ants[tx.from] < Debit(tx) PROVE Short(tx.from)
  <2>1. /\ Due(tx.from) = Owing(mempool, tx.from) + (Debit(tx) + Owing(Tail(work), tx.from))
        /\ Owing(mempool, tx.from) \in Nat /\ Owing(Tail(work), tx.from) \in Nat
        /\ ants[tx.from] \in Nat
    BY <1>1, <1>2
  <2> QED BY <1>1, <1>3, <2>1 DEF Short
<1>4. ASSUME ApplyTx, NEW a \in Addr PROVE Short(a)' => Short(a)
  <2>1. /\ work' = Tail(work) /\ ants' = Transferred(ants, tx)
        /\ UNCHANGED <<mempool, pc>>
    BY <1>4 DEF ApplyTx, poolVars, tx
  <2>2. Due(a)' = Owing(mempool, a) + Owing(Tail(work), a)
    BY <2>1, DueIs
  <2>3. ants'[a] = ants[a] - (IF a = tx.from THEN Debit(tx) ELSE 0)
                           + (IF a = tx.to THEN tx.amount ELSE 0)
    BY <2>1 DEF Transferred
  <2> DEFINE debit == Debit(tx)
             gain == IF a = tx.to THEN tx.amount ELSE 0
             pool == Owing(mempool, a)
             rest == Owing(Tail(work), a)
  <2>4. gain \in Nat /\ debit \in Nat /\ pool \in Nat /\ rest \in Nat /\ ants[a] \in Nat
    BY <1>1, <1>2
  <2>5. Due(a) = pool + ((IF a = tx.from THEN debit ELSE 0) + rest)
    BY <1>2
  <2>6. Due(a)' = pool + rest /\ ants'[a] = ants[a] - (IF a = tx.from THEN debit ELSE 0) + gain
    BY <2>2, <2>3
  <2> HIDE DEF debit, gain, pool, rest
  <2>7. ants[a] >= Due(a) => ants'[a] >= Due(a)'
    <3>1. CASE a = tx.from
      BY <2>4, <2>5, <2>6, <3>1
    <3>2. CASE a # tx.from
      BY <2>4, <2>5, <2>6, <3>2
    <3> QED BY <3>1, <3>2
  <2>8. ants'[a] \in Int /\ Due(a)' \in Int /\ Due(a) \in Int
    BY <2>4, <2>5, <2>6
  <2> QED BY <2>4, <2>7, <2>8 DEF Short
<1> QED BY <1>3, <1>4 DEF tx

\* A settlement takes from its sender, and from the reserve, which never sends.
LEMMA SettlementShort ==
  ASSUME BalanceInv, BalanceInv', NEW from \in Wallets, NEW to \in Wallets,
         PiSettlement(from, to), NEW a \in Addr
  PROVE  Short(a)' => Short(a) \/ TakesUncounted(a)
<1>1. CASE a = from
  BY <1>1 DEF TakesUncounted
<1>2. CASE a # from
  <2> DEFINE tx == [from |-> from, to |-> to, amount |-> 1, fee |-> MinFee,
                    nonce |-> 0, time |-> Now, hash |-> NoHash]
             deficit == Minus(Debit(tx), ants[from])
  <2>1. tx \in Transaction /\ tx.from = from
    BY ConstantTypes DEF Transaction
  <2>2. /\ pc = "up" /\ pc' = "up"
        /\ ants' = [b \in Addr |-> ants[b] - (IF b = Reserve THEN deficit ELSE 0)
                                           + (IF b = from THEN deficit ELSE 0)]
        /\ mempool' = mempool \/ mempool' = Append(mempool, tx)
    BY DEF PiSettlement
  <2>3. mempool \in Seq(Transaction) /\ ants[a] \in Nat
    BY DEF BalanceInv, TypeOK, AccountsOK, PoolOK
  <2> HIDE DEF tx, deficit
  <2>4. CASE a = Reserve
    <3>1. Owing(mempool, a) = 0 /\ Owing(mempool', a) = 0
      <4>1. mempool' \in Seq(Transaction)
        BY DEF BalanceInv, TypeOK, PoolOK
      <4> QED BY <2>3, <2>4, <4>1, ReserveOwesNothing
    <3>2. Due(a)' = 0
      BY <2>2, <3>1, DueIs
    <3>3. ants'[a] \in Nat
      BY DEF BalanceInv, TypeOK, AccountsOK
    <3> QED BY <3>2, <3>3 DEF Short
  <2>5. CASE a # Reserve
    <3>1. ants'[a] = ants[a] - 0 + 0
      BY <1>2, <2>2, <2>5
    <3>2. ants[a] <= ants'[a]
      BY <2>3, <3>1
    <3>3. CASE mempool' = mempool
      BY <2>2, <3>2, <3>3, DueStays
    <3>4. CASE mempool' = Append(mempool, tx)
      <4>1. tx.from # a
        BY <1>2, <2>1
      <4> QED BY <2>1, <2>2, <3>2, <3>4, <4>1, DueGrows
    <3> QED BY <2>2, <3>3, <3>4
  <2> QED BY <2>4, <2>5
<1> QED BY <1>1, <1>2

\* A burn takes from its sender, and pays out its fee to others.
LEMMA BurnShort ==
  ASSUME BalanceInv, BalanceInv', NEW from \in Wallets, NEW amount \in Amounts,
         BridgeBurn(from, amount), NEW a \in Addr
  PROVE  Short(a)' => Short(a) \/ TakesUncounted(a)
<1>1. CASE a = from
  BY <1>1 DEF TakesUncounted
<1>2. CASE a # from
  <2> DEFINE toReserve == IF Reserve \in exists THEN Rest(miners, MinFee) ELSE 0
             share(b) == IF b \in miners THEN Share(miners, MinFee) ELSE 0
             taken(b) == IF b = from THEN amount + MinFee ELSE 0
             kept(b) == IF b = Reserve THEN toReserve ELSE 0
  <2>1. /\ pc = "up" /\ pc' = "up" /\ mempool' = mempool
        /\ ants' = [b \in Addr |-> ants[b] - taken(b) + share(b) + kept(b)]
    BY DEF BridgeBurn
  <2>2. ants[a] \in Nat /\ miners \in SUBSET Addr /\ MinFee \in Nat
    BY ConstantTypes DEF BalanceInv, TypeOK, AccountsOK, PoolOK
  <2>3. share(a) \in Nat /\ kept(a) \in Nat /\ taken(a) = 0
    BY <1>2, <2>2, ShareType
  <2>4. ants'[a] = ants[a] - taken(a) + share(a) + kept(a)
    BY <2>1
  <2> HIDE DEF share, kept, taken
  <2>5. ants[a] <= ants'[a]
    BY <2>2, <2>3, <2>4
  <2> QED BY <2>1, <2>5, DueStays
<1> QED BY <1>1, <1>2

\* The other requests.
LEMMA RequestsShort ==
  ASSUME BalanceInv, BalanceInv', Requests, NEW a \in Addr
  PROVE  Short(a)' => Short(a) \/ TakesUncounted(a)
<1>0. mempool \in Seq(Transaction) /\ ants \in [Addr -> Nat] /\ ants[a] \in Nat
  BY DEF BalanceInv, TypeOK, AccountsOK, PoolOK
<1>1. CASE SubmitSome
  <2>1. PICK tx \in Transaction : Submit(tx)
    BY <1>1, SubmitIsTyped
  <2>2. /\ pc = "up" /\ pc' = "up" /\ mempool' = Append(mempool, tx) /\ ants' = ants
        /\ Debit(tx) + Owing(mempool, tx.from) <= ants[tx.from]
    BY <2>1 DEF Submit, Covered, PendingDebit, accountVars
  <2>3. ants[a] <= ants'[a]
    BY <1>0, <2>2
  <2> QED BY <2>2, <2>3, DueGrows
<1>2. ASSUME NEW to \in Wallets, NEW hash \in Hashes, NEW amount \in Amounts,
             BridgeCredit(to, amount, hash)
      PROVE  Short(a)' => Short(a)
  <2> DEFINE tx == [from |-> Treasury, to |-> to, amount |-> amount, fee |-> MinFee,
                    nonce |-> 0, time |-> Now, hash |-> Trimmed[hash]]
  <2>1. tx \in Transaction /\ tx.from = Treasury
    BY ConstantTypes DEF Transaction
  <2>2. pc = "up" /\ pc' = "up" /\ mempool' = Append(mempool, tx) /\ ants' = PreFunded(tx)
    BY <1>2 DEF BridgeCredit
  <2> HIDE DEF tx
  <2>3. Debit(tx) \in Nat
    BY <2>1, DebitType
  <2>4. ants'[a] = IF a = Treasury THEN ants[a] + Debit(tx) ELSE ants[a]
    BY <1>0, <2>2 DEF PreFunded
  <2>5. ants[a] <= ants'[a]
    BY <1>0, <2>3, <2>4
  <2>6. ASSUME a = Treasury PROVE Debit(tx) + Owing(mempool, a) <= ants'[a] \/ Short(a)
    <3>1. Due(a) = Owing(mempool, a) + 0 /\ Owing(mempool, a) \in Nat
      BY <2>2, DueIs
    <3>2. ants'[a] = ants[a] + Debit(tx)
      BY <2>4, <2>6
    <3> QED BY <1>0, <2>3, <3>1, <3>2 DEF Short
  <2> QED BY <2>1, <2>2, <2>5, <2>6, DueGrows
<1>3. ASSUME NEW to \in Wallets, NEW amount \in Amounts, AdminMint(to, amount)
      PROVE  Short(a)' => Short(a)
  <2>1. /\ pc = "up" /\ pc' = "up" /\ UNCHANGED mempool /\ amount \in Nat
        /\ ants' = [ants EXCEPT ![to] = @ + amount]
    BY <1>3, ConstantTypes DEF AdminMint
  <2>2. ants[a] <= ants'[a]
    BY <1>0, <2>1
  <2> QED BY <2>1, <2>2, DueStays
<1>4. ASSUME NEW legacy \in Wallets, NEW secp \in Wallets, MigrateLegacy(legacy, secp)
      PROVE  Short(a)' => Short(a) \/ TakesUncounted(a)
  <2>1. CASE a = legacy
    BY <1>4, <2>1 DEF TakesUncounted
  <2>2. CASE a # legacy
    <3>1. /\ pc = "up" /\ pc' = "up" /\ UNCHANGED mempool /\ ants' = Moved(ants, legacy, secp)
          /\ legacy \in Addr
      BY <1>4, ConstantTypes DEF MigrateLegacy
    <3>2. ants'[a] = IF a = secp THEN ants[a] + ants[legacy] ELSE ants[a]
      BY <2>2, <3>1 DEF Moved
    <3>3. ants[legacy] \in Nat
      BY <1>0, <3>1
    <3>4. ants[a] <= ants'[a]
      BY <1>0, <3>2, <3>3
    <3> QED BY <3>1, <3>4, DueStays
  <2> QED BY <2>1, <2>2
<1> QED BY <1>1, <1>2, <1>3, <1>4, SettlementShort, BurnShort DEF Requests

\* A clawback takes from the accounts it claws back.
LEMMA SyncShort ==
  ASSUME BalanceInv, BalanceInv', NEW rows \in Web2Ledgers, Sync(rows), NEW a \in Addr
  PROVE  Short(a)' => Short(a) \/ TakesUncounted(a)
<1>1. CASE a \in ClawedBack(rows)
  BY <1>1 DEF TakesUncounted
<1>2. CASE a \notin ClawedBack(rows)
  <2>1. /\ pc = "up" /\ pc' # "apply" /\ UNCHANGED mempool
        /\ ants'[a] = ants[a] + Gain(rows, a)
    BY <1>2 DEF Sync
  <2>2. Gain(rows, a) \in Nat /\ ants[a] \in Nat
    <3>1. a \in DOMAIN rows => rows[a].ants \in Nat
      BY NodeLedgerAssumption DEF Web2Row
    <3>2. total[a] \in Nat /\ ants[a] \in Nat
      BY DEF BalanceInv, TypeOK, AccountsOK
    <3> QED BY <3>1, <3>2, MinusType DEF Gain
  <2>3. ants[a] <= ants'[a]
    BY <2>1, <2>2
  <2> QED BY <2>1, <2>3, DueStays
<1> QED BY <1>1, <1>2

\* The block takes what was pending.
LEMMA BeginShort ==
  ASSUME BalanceInv, BalanceInv', BeginBlock, NEW a \in Addr
  PROVE  Short(a)' => Short(a)
<1>1. PICK p \in BlockOrders(mempool) :
        LET txs == [i \in DOMAIN mempool |-> mempool[p[i]]]
        IN  block' = [txs |-> txs, miners |-> miners] /\ work' = txs
  BY DEF BeginBlock
<1>2. /\ pc = "up" /\ pc' = "apply" /\ mempool' = << >> /\ UNCHANGED ants
      /\ work' = [i \in DOMAIN mempool |-> mempool[p[i]]]
      /\ mempool \in Seq(Transaction)
  BY <1>1 DEF BeginBlock, accountVars, BalanceInv, TypeOK, PoolOK
<1>3. Owing(work', a) = Owing(mempool, a)
  BY <1>2, OwingSorted
<1>4. Owing(mempool', a) = 0
  BY <1>2, OwingEmpty
<1>5. /\ Due(a) = Owing(mempool, a) + 0 /\ Due(a)' = 0 + Owing(mempool, a)
      /\ Owing(mempool, a) \in Nat
  BY <1>2, <1>3, <1>4, DueIs
<1> QED BY <1>2, <1>5 DEF Short

\* The other steps.
LEMMA StepsShort ==
  ASSUME BalanceInv, BalanceInv', PoolEmpty, [Next]_vars, NEW a \in Addr
  PROVE  Short(a)' => Short(a) \/ TakesUncounted(a)
<1>1. CASE Requests
  BY <1>1, RequestsShort
<1>2. ASSUME UNCHANGED <<ants, mempool>>, pc # "apply", pc' # "apply"
      PROVE  Short(a)' => Short(a)
  <2>1. ants[a] <= ants'[a]
    BY <1>2 DEF BalanceInv, TypeOK, AccountsOK
  <2> QED BY <1>2, <2>1, DueStays
<1>3. CASE Syncing \/ WriteFails
  <2>1. CASE \E rows \in Web2Ledgers : Sync(rows)
    BY <2>1, SyncShort
  <2>2. CASE Truncate \/ WriteSnapshot \/ WriteFails
    <3>1. UNCHANGED <<ants, mempool>> /\ pc # "apply" /\ pc' # "apply"
      BY <2>2 DEF Truncate, WriteSnapshot, WriteFails, accountVars, poolVars
    <3> QED BY <1>2, <3>1
  <2> QED BY <1>3, <2>1, <2>2 DEF Syncing
<1>4. CASE BeginBlock
  BY <1>4, BeginShort
<1>5. CASE ApplyTx /\ pc = "apply"
  BY <1>5, DueFalls DEF ApplyTx
<1>6. ASSUME pc \notin {"up", "persist", "write"}, mempool' \in {mempool, << >>}, pc' # "apply"
      PROVE  ~ Short(a)'
  BY <1>6, NothingDue DEF PoolEmpty
<1>7. CASE (ApplyTx /\ pc # "apply") \/ FinishBlock \/ Store \/ ApplyFails \/ StoreFails
  <2>1. pc \notin {"up", "persist", "write"} /\ mempool' = mempool /\ pc' # "apply"
    BY <1>7 DEF ApplyTx, FinishBlock, Store, ApplyFails, StoreFails, poolVars
  <2> QED BY <1>6, <2>1
<1>8. CASE Crash
  BY <1>8, NothingDue DEF Crash
<1>9. CASE StartUp
  <2>1. pc \notin {"up", "persist", "write"} /\ mempool' = mempool /\ pc' # "apply"
    BY <1>9 DEF StartUp, Restart, RestartFails, ReconcileTx, ReconcileBlock, StartReplay,
           ReplayBlock, ReplayFails, Recover, poolVars
  <2> QED BY <1>6, <2>1
<1>10. CASE UNCHANGED vars
  BY <1>10 DEF vars, Short, Due, PendingDebit
<1> QED BY <1>1, <1>3, <1>4, <1>5, <1>7, <1>8, <1>9, <1>10 DEF Next, Sealing, Failing

\* Whatever requests a node serves, with whatever faults: its consensus loop ends on
\* a transaction only if its sender owed more than it had, and only a settlement, a
\* burn, a migration or a clawback of its own can have brought it there.
THEOREM OnlyTakersEndTheLoop == Spec => OnlyTakersLeaveShort
<1> DEFINE Step == /\ \A a \in Addr : Short(a)' => Short(a) \/ TakesUncounted(a)
                   /\ ApplyFails => Short(Head(work).from)
<1>1. ASSUME BalanceInv, BalanceInv', PoolEmpty, [Next]_vars PROVE [Step]_vars
  <2>1. \A a \in Addr : Short(a)' => Short(a) \/ TakesUncounted(a)
    BY <1>1, StepsShort
  <2>2. ApplyFails => Short(Head(work).from)
    BY <1>1, DueFalls DEF ApplyFails
  <2> QED BY <2>1, <2>2
<1>2. CreditInv => PoolEmpty
  BY DEF CreditInv
<1> QED BY <1>1, <1>2, AlwaysBalanced, AlwaysCredited, PTL DEF Spec, OnlyTakersLeaveShort

------------------------------------------------------------------------------
(***************************************************************************)
(* No restart is refused.  reconcile_replay_sender_balances and the replay *)
(* make the same steps over the chain, the one on a copy of the accounts   *)
(* that it tops up as it goes, the other on accounts that have had all the *)
(* top-ups beforehand.  A pass is what the first of them has at one place  *)
(* of the chain, and a trace is all its passes up to a place: r[n][j] is   *)
(* the pass after j transactions of block n.                               *)
(***************************************************************************)
Pass == [sim : [Addr -> Nat], topups : [Addr -> Nat], fees : Nat]

FirstPass(balance) == [sim |-> balance, topups |-> Zero, fees |-> 0]

Lacking(s, tx) == Minus(Debit(tx), s.sim[tx.from])

TxPass(s, tx) ==
  [sim    |-> Transferred([s.sim EXCEPT ![tx.from] = @ + Lacking(s, tx)], tx),
   topups |-> [s.topups EXCEPT ![tx.from] = @ + Lacking(s, tx)],
   fees   |-> s.fees + tx.fee]

BlockPass(s, b) ==
  [sim |-> WithFees(s.sim, b.miners, s.fees), topups |-> s.topups, fees |-> 0]

\* How far block n has been passed, at transaction i of block b of chain c.
Passed(c, b, i, n) == IF n = b THEN i ELSE Len(c[n].txs)

Trace(c, balance, r, b, i) ==
  /\ r \in [Nat -> [Nat -> Pass]]
  /\ r[1][0] = FirstPass(balance)
  /\ \A n \in 1 .. b : \A j \in Nat :
       j < Passed(c, b, i, n) => r[n][j + 1] = TxPass(r[n][j], c[n].txs[j + 1])
  /\ \A n \in 1 .. b - 1 : r[n + 1][0] = BlockPass(r[n][Len(c[n].txs)], c[n])

\* No top-up is taken back.
Rising(c, r, b, i) ==
  \A n \in 1 .. b : \A j \in Nat : j <= Passed(c, b, i, n) =>
    \A a \in Addr : r[n][j].topups[a] <= r[b][i].topups[a]

\* A transaction: the sender can pay with what it was topped up by, and but for
\* the top-ups the balances move as in apply_block.
LEMMA TxPassType ==
  ASSUME NEW s \in Pass, NEW tx \in Transaction
  PROVE  /\ TxPass(s, tx) \in Pass
         /\ \A a \in Addr :
              /\ s.topups[a] <= TxPass(s, tx).topups[a]
              /\ TxPass(s, tx).sim[a] - TxPass(s, tx).topups[a]
                   = s.sim[a] - s.topups[a] - (IF a = tx.from THEN Debit(tx) ELSE 0)
                                            + (IF a = tx.to THEN tx.amount ELSE 0)
         /\ Debit(tx) <= s.sim[tx.from] + TxPass(s, tx).topups[tx.from] - s.topups[tx.from]
         /\ TxPass(s, tx).fees = s.fees + tx.fee
<1> DEFINE lack == Lacking(s, tx)
           filled == [s.sim EXCEPT ![tx.from] = @ + lack]
           got == TxPass(s, tx)
<1>1. /\ Debit(tx) \in Nat /\ tx.from \in Addr /\ tx.to \in Addr /\ tx.amount \in Nat
      /\ tx.fee \in Nat
  BY DebitType
<1>2. s.sim \in [Addr -> Nat] /\ s.topups \in [Addr -> Nat] /\ s.fees \in Nat
  BY DEF Pass
<1>3. /\ got.sim = Transferred(filled, tx) /\ got.fees = s.fees + tx.fee
      /\ got.topups = [s.topups EXCEPT ![tx.from] = @ + lack]
      /\ got = [sim |-> got.sim, topups |-> got.topups, fees |-> got.fees]
  BY DEF TxPass
<1>4. lack \in Nat /\ Debit(tx) <= s.sim[tx.from] + lack
  <2>1. s.sim[tx.from] \in Nat
    BY <1>1, <1>2
  <2> QED BY <1>1, <2>1, MinusType DEF Lacking
<1> HIDE DEF lack, got
<1>5. filled \in [Addr -> Nat] /\ Debit(tx) <= filled[tx.from]
  BY <1>1, <1>2, <1>4
<1>6. got.sim \in [Addr -> Nat]
  <2> HIDE DEF filled
  <2> QED BY <1>3, <1>5, TransferredType
<1>7. got.topups \in [Addr -> Nat] /\ got.fees \in Nat
  BY <1>1, <1>2, <1>3, <1>4
<1>8. got \in Pass
  BY <1>3, <1>6, <1>7 DEF Pass
<1>9. ASSUME NEW a \in Addr
      PROVE  /\ s.topups[a] <= got.topups[a]
             /\ got.sim[a] - got.topups[a]
                  = s.sim[a] - s.topups[a] - (IF a = tx.from THEN Debit(tx) ELSE 0)
                                           + (IF a = tx.to THEN tx.amount ELSE 0)
  <2>1. got.topups[a] = s.topups[a] + (IF a = tx.from THEN lack ELSE 0)
    BY <1>1, <1>2, <1>3, <1>4
  <2>2. filled[a] = s.sim[a] + (IF a = tx.from THEN lack ELSE 0)
    BY <1>1, <1>2, <1>4
  <2>3. got.sim[a] = filled[a] - (IF a = tx.from THEN Debit(tx) ELSE 0)
                               + (IF a = tx.to THEN tx.amount ELSE 0)
    BY <1>3 DEF Transferred
  <2>4. s.sim[a] \in Nat /\ s.topups[a] \in Nat
    BY <1>2
  <2> HIDE DEF filled
  <2> QED BY <1>1, <1>4, <2>1, <2>2, <2>3, <2>4
<1>10. got.topups[tx.from] = s.topups[tx.from] + lack
  BY <1>1, <1>2, <1>3, <1>4
<1>11. Debit(tx) <= s.sim[tx.from] + got.topups[tx.from] - s.topups[tx.from]
  <2>1. s.sim[tx.from] \in Nat /\ s.topups[tx.from] \in Nat
    BY <1>1, <1>2
  <2> QED BY <1>1, <1>4, <1>10, <2>1
<1> QED BY <1>3, <1>8, <1>9, <1>11 DEF got

\* A block's fees.
LEMMA BlockPassType ==
  ASSUME NEW s \in Pass, NEW b \in Block
  PROVE  /\ BlockPass(s, b) \in Pass /\ BlockPass(s, b).topups = s.topups
         /\ BlockPass(s, b).sim = WithFees(s.sim, b.miners, s.fees)
         /\ BlockPass(s, b).fees = 0
<1>1. s.sim \in [Addr -> Nat] /\ s.topups \in [Addr -> Nat] /\ s.fees \in Nat
      /\ b.miners \in SUBSET Addr
  BY DEF Pass, Block
<1>2. WithFees(s.sim, b.miners, s.fees) \in [Addr -> Nat]
  BY <1>1, WithFeesType
<1> QED BY <1>1, <1>2 DEF BlockPass, Pass

\* The trace of nothing.
LEMMA TraceStarts ==
  ASSUME NEW c, NEW balance \in [Addr -> Nat]
  PROVE  \E r : Trace(c, balance, r, 1, 0) /\ Rising(c, r, 1, 0)
<1> DEFINE first == FirstPass(balance)
           r == [n \in Nat |-> [j \in Nat |-> first]]
<1>1. first \in Pass
  BY DEF FirstPass, Pass, Zero
<1> HIDE DEF first
<1>2. r \in [Nat -> [Nat -> Pass]]
  BY <1>1
<1>3. r[1][0] = first
  OBVIOUS
<1>4. \A n \in 1 .. 1 : n = 1 /\ Passed(c, 1, 0, n) = 0
  BY DEF Passed
<1>5. first.topups \in [Addr -> Nat]
  BY <1>1 DEF Pass
<1>6. Rising(c, r, 1, 0)
  <2>1. ASSUME NEW n \in 1 .. 1, NEW j \in Nat, j <= Passed(c, 1, 0, n), NEW a \in Addr
        PROVE  r[n][j].topups[a] <= r[1][0].topups[a]
    <3>1. n = 1 /\ j = 0
      BY <1>4, <2>1
    <3>2. r[1][0].topups[a] \in Nat
      BY <1>3, <1>5
    <3> QED BY <3>1, <3>2
  <2> HIDE DEF r
  <2> QED BY <2>1 DEF Rising
<1>7. Trace(c, balance, r, 1, 0)
  <2> HIDE DEF r
  <2>1. \A n \in 1 .. 1 : \A j \in Nat : ~ (j < Passed(c, 1, 0, n))
    BY <1>4
  <2>2. 1 .. 1 - 1 = {}
    OBVIOUS
  <2> QED BY <1>2, <1>3, <2>1, <2>2 DEF Trace, first
<1> QED BY <1>6, <1>7

\* A trace that goes one place further: the pass there is changed, and no other.
Passes == [Nat -> [Nat -> Pass]]

Added(q, r, b, i, s) ==
  q[b][i] = s /\ \A n, j \in Nat : n # b \/ j # i => q[n][j] = r[n][j]

LEMMA PassAdded ==
  ASSUME NEW r \in Passes, NEW b \in Nat, NEW i \in Nat, NEW s \in Pass
  PROVE  \E q \in Passes : Added(q, r, b, i, s)
<1> DEFINE q == [n \in Nat |-> [j \in Nat |-> IF n = b /\ j = i THEN s ELSE r[n][j]]]
<1>1. \A n, j \in Nat : r[n][j] \in Pass
  BY DEF Passes
<1>2. q \in Passes
  BY <1>1 DEF Passes
<1>3. q[b][i] = s /\ \A n, j \in Nat : n # b \/ j # i => q[n][j] = r[n][j]
  OBVIOUS
<1> HIDE DEF q
<1> QED BY <1>2, <1>3 DEF Added

LEMMA TraceTx ==
  ASSUME NEW c \in Seq(Block), NEW balance, NEW r, NEW b \in 1 .. Len(c), NEW i \in Nat,
         i < Len(c[b].txs), Trace(c, balance, r, b, i), Rising(c, r, b, i)
  PROVE  \E q : /\ Trace(c, balance, q, b, i + 1) /\ Rising(c, q, b, i + 1)
                /\ q[b][i + 1] = TxPass(r[b][i], c[b].txs[i + 1])
<1> DEFINE tx == c[b].txs[i + 1]
           s == TxPass(r[b][i], tx)
<1>1. /\ r \in [Nat -> [Nat -> Pass]] /\ b \in Nat /\ i + 1 \in Nat
      /\ r[b][i] \in Pass
  BY LenProperties DEF Trace
<1>2. tx \in Transaction
  <2>1. c[b] \in Block
    BY ElementOfSeq
  <2>2. c[b].txs \in Seq(Transaction)
    BY <2>1 DEF Block
  <2>3. i + 1 \in 1 .. Len(c[b].txs)
    BY <2>2, LenProperties
  <2> QED BY <2>2, <2>3, ElementOfSeq
<1>3. s \in Pass /\ \A a \in Addr : r[b][i].topups[a] <= s.topups[a]
  BY <1>1, <1>2, TxPassType
<1> HIDE DEF s, tx
<1>0. PICK q \in Passes : Added(q, r, b, i + 1, s)
  BY <1>1, <1>3, PassAdded DEF Passes
<1>4. /\ q \in [Nat -> [Nat -> Pass]] /\ q[b][i + 1] = s
      /\ \A n, j \in Nat : n # b \/ j # i + 1 => q[n][j] = r[n][j]
  BY <1>0 DEF Added, Passes
<1>5. \A n \in 1 .. b : \A j \in Nat : j <= Passed(c, b, i, n) => q[n][j] = r[n][j]
  <2> TAKE n \in 1 .. b, j \in Nat
  <2>1. n = b /\ j <= Passed(c, b, i, n) => j # i + 1
    BY DEF Passed
  <2> QED BY <1>4, <2>1
<1>6. \A n \in 1 .. b : \A j \in Nat :
        j < Passed(c, b, i + 1, n) =>
          \/ j < Passed(c, b, i, n)
          \/ n = b /\ j = i
  BY DEF Passed
<1>7. ASSUME NEW n \in 1 .. b, NEW j \in Nat, j < Passed(c, b, i + 1, n)
      PROVE  q[n][j + 1] = TxPass(q[n][j], c[n].txs[j + 1])
  <2>1. CASE j < Passed(c, b, i, n)
    <3>1. n = b \/ n \in 1 .. b - 1
      BY <1>1
    <3>2. q[n][j] = r[n][j]
      BY <1>4, <1>5, <2>1 DEF Passed
    <3>3. q[n][j + 1] = r[n][j + 1]
      <4>1. n = b => j + 1 # i + 1
        BY <2>1 DEF Passed
      <4>2. n \in Nat /\ j + 1 \in Nat
        BY <1>1
      <4> QED BY <1>4, <4>1, <4>2
    <3> QED BY <2>1, <3>2, <3>3 DEF Trace
  <2>2. CASE n = b /\ j = i
    <3>1. q[b][i] = r[b][i]
      BY <1>1, <1>4
    <3> QED BY <1>4, <2>2, <3>1 DEF s, tx
  <2> QED BY <1>6, <1>7, <2>1, <2>2
<1>8. ASSUME NEW n \in 1 .. b - 1
      PROVE  q[n + 1][0] = BlockPass(q[n][Len(c[n].txs)], c[n])
  <2>1. n \in Nat /\ n + 1 \in Nat /\ n # b /\ 0 # i + 1 /\ Len(c[n].txs) \in Nat
    <3>1. n \in 1 .. Len(c)
      BY LenProperties
    <3>2. c[n] \in Block
      BY <3>1, ElementOfSeq
    <3>3. n \in Nat /\ n + 1 \in Nat /\ n # b /\ 0 # i + 1
      BY <1>1
    <3>4. Len(c[n].txs) \in Nat
      BY <3>2, LenProperties DEF Block
    <3> QED BY <3>3, <3>4
  <2>2. q[n + 1][0] = r[n + 1][0] /\ q[n][Len(c[n].txs)] = r[n][Len(c[n].txs)]
    BY <1>4, <2>1
  <2> QED BY <2>2 DEF Trace
<1>9. q[1][0] = FirstPass(balance)
  <2>1. r[1][0] = FirstPass(balance)
    BY DEF Trace
  <2>2. 0 # i + 1 /\ 0 \in Nat /\ 1 \in Nat
    OBVIOUS
  <2> QED BY <1>4, <2>1, <2>2
<1>10. Trace(c, balance, q, b, i + 1)
  BY <1>4, <1>7, <1>8, <1>9 DEF Trace
<1>11. ASSUME NEW n \in 1 .. b, NEW j \in Nat, j <= Passed(c, b, i + 1, n), NEW a \in Addr
       PROVE  q[n][j].topups[a] <= q[b][i + 1].topups[a]
  <2>1. s.topups[a] \in Nat
    BY <1>3 DEF Pass
  <2>2. CASE n = b /\ j = i + 1
    BY <1>4, <2>1, <2>2
  <2>3. CASE ~ (n = b /\ j = i + 1)
    <3>1. q[n][j] = r[n][j] /\ q[n][j] \in Pass
      BY <1>4, <2>3
    <3>2. j <= Passed(c, b, i, n)
      BY <1>11, <2>3 DEF Passed
    <3>3. r[n][j].topups[a] <= r[b][i].topups[a]
      BY <3>2 DEF Rising
    <3>4. r[n][j].topups[a] \in Nat /\ r[b][i].topups[a] \in Nat
      BY <1>1, <3>1 DEF Pass
    <3>5. r[b][i].topups[a] <= s.topups[a]
      BY <1>3
    <3> QED BY <1>4, <2>1, <3>1, <3>3, <3>4, <3>5
  <2> QED BY <2>2, <2>3
<1>12. Rising(c, q, b, i + 1)
  BY <1>11 DEF Rising
<1> QED BY <1>4, <1>10, <1>12 DEF s, tx

LEMMA TraceBlock ==
  ASSUME NEW c \in Seq(Block), NEW balance, NEW r, NEW b \in 1 .. Len(c),
         NEW m, m = Len(c[b].txs), Trace(c, balance, r, b, m), Rising(c, r, b, m)
  PROVE  \E q : /\ Trace(c, balance, q, b + 1, 0) /\ Rising(c, q, b + 1, 0)
                /\ q[b + 1][0] = BlockPass(r[b][m], c[b])
<1> DEFINE s == BlockPass(r[b][m], c[b])
<1>1. \A n \in 1 .. b : c[n] \in Block /\ Len(c[n].txs) \in Nat /\ n \in Nat
  <2> TAKE n \in 1 .. b
  <2>1. n \in 1 .. Len(c)
    BY LenProperties
  <2>2. c[n] \in Block
    BY <2>1, ElementOfSeq
  <2> QED BY <2>1, <2>2, LenProperties DEF Block
<1>2. b \in 1 .. b /\ m \in Nat /\ c[b] \in Block /\ b + 1 \in Nat
  BY <1>1
<1>3. r \in [Nat -> [Nat -> Pass]] /\ r[b][m] \in Pass
  BY <1>2 DEF Trace
<1>4. s \in Pass /\ s.topups = r[b][m].topups
  BY <1>2, <1>3, BlockPassType
<1> HIDE DEF s
<1>0. PICK q \in Passes : Added(q, r, b + 1, 0, s)
  <2>1. 0 \in Nat
    OBVIOUS
  <2> QED BY <1>2, <1>3, <1>4, <2>1, PassAdded DEF Passes
<1>5. /\ q \in [Nat -> [Nat -> Pass]] /\ q[b + 1][0] = s
      /\ \A n, j \in Nat : n # b + 1 \/ j # 0 => q[n][j] = r[n][j]
  BY <1>0 DEF Added, Passes
<1>6. \A n \in 1 .. b, j \in Nat : q[n][j] = r[n][j]
  <2> TAKE n \in 1 .. b, j \in Nat
  <2>1. b \in Nat
    BY <1>1, <1>2
  <2>2. n \in Nat /\ n # b + 1
    BY <2>1
  <2> QED BY <1>5, <2>2
<1>7. \A n \in 1 .. b + 1 : n \in 1 .. b \/ n = b + 1
  OBVIOUS
<1>8. \A n \in 1 .. b : Passed(c, b + 1, 0, n) = Passed(c, b, m, n)
  BY DEF Passed
<1>9. Passed(c, b + 1, 0, b + 1) = 0
  BY DEF Passed
<1>10. ASSUME NEW n \in 1 .. b + 1, NEW j \in Nat, j < Passed(c, b + 1, 0, n)
       PROVE  q[n][j + 1] = TxPass(q[n][j], c[n].txs[j + 1])
  <2>1. n \in 1 .. b
    BY <1>7, <1>9, <1>10
  <2>2. r[n][j + 1] = TxPass(r[n][j], c[n].txs[j + 1])
    BY <1>8, <1>10, <2>1 DEF Trace
  <2>3. j + 1 \in Nat
    OBVIOUS
  <2> QED BY <1>6, <2>1, <2>2, <2>3
<1>11. ASSUME NEW n \in 1 .. (b + 1) - 1
       PROVE  q[n + 1][0] = BlockPass(q[n][Len(c[n].txs)], c[n])
  <2>1. n \in 1 .. b /\ n \in Nat /\ n + 1 \in Nat
    BY <1>2
  <2>2. q[n][Len(c[n].txs)] = r[n][Len(c[n].txs)]
    BY <1>1, <1>6, <2>1
  <2>3. CASE n = b
    BY <1>5, <2>2, <2>3 DEF s
  <2>4. CASE n # b
    <3>1. n \in 1 .. b - 1 /\ n + 1 \in 1 .. b
      BY <2>1, <2>4
    <3>2. r[n + 1][0] = BlockPass(r[n][Len(c[n].txs)], c[n])
      BY <3>1 DEF Trace
    <3> QED BY <1>6, <2>2, <3>1, <3>2
  <2> QED BY <2>3, <2>4
<1>12. q[1][0] = FirstPass(balance)
  <2>1. r[1][0] = FirstPass(balance) /\ 1 \in 1 .. b
    BY DEF Trace
  <2> QED BY <1>6, <2>1
<1>13. Trace(c, balance, q, b + 1, 0)
  BY <1>5, <1>10, <1>11, <1>12 DEF Trace
<1>14. ASSUME NEW n \in 1 .. b + 1, NEW j \in Nat, j <= Passed(c, b + 1, 0, n), NEW a \in Addr
       PROVE  q[n][j].topups[a] <= q[b + 1][0].topups[a]
  <2>1. s.topups[a] \in Nat
    BY <1>4 DEF Pass
  <2>2. CASE n = b + 1
    <3>1. j = 0
      BY <1>9, <1>14, <2>2
    <3> QED BY <1>5, <2>1, <2>2, <3>1
  <2>3. CASE n \in 1 .. b
    <3>1. j <= Passed(c, b, m, n)
      BY <1>8, <1>14, <2>3
    <3>2. r[n][j].topups[a] <= r[b][m].topups[a]
      BY <2>3, <3>1 DEF Rising
    <3> QED BY <1>4, <1>5, <1>6, <2>3, <3>2
  <2> QED BY <1>7, <2>2, <2>3
<1>15. Rising(c, q, b + 1, 0)
  BY <1>14 DEF Rising
<1> QED BY <1>5, <1>13, <1>15 DEF s

\* How many transactions of the block have been passed.
Applied == Len(block.txs) - Len(work)

\* The work is what is left of the block at index next.
AtPlace ==
  /\ next \in 1 .. Len(chain) + 1
  /\ block = BlockAt(next)
  /\ Applied \in Nat
  /\ \A k \in 1 .. Len(work) : work[k] = block.txs[Applied + k]

\* The first pass has left a trace; the replay follows a whole one, with the
\* top-ups that are still to come in its balances.
Reconciling(r) ==
  /\ Trace(chain, snapshot.ants, r, next, Applied)
  /\ Rising(chain, r, next, Applied)
  /\ r[next][Applied] = [sim |-> sim, topups |-> topups, fees |-> fees]

Whole(r) ==
  /\ Trace(chain, snapshot.ants, r, Len(chain) + 1, 0)
  /\ Rising(chain, r, Len(chain) + 1, 0)

Follows(r) ==
  /\ fees = r[next][Applied].fees
  /\ \A a \in Addr :
       ants[a] = r[next][Applied].sim[a]
                   + (r[Len(chain) + 1][0].topups[a] - r[next][Applied].topups[a])

RestartInv ==
  /\ pc # "reconcile" => topups = Zero
  /\ pc = "reconcile" => AtPlace /\ ants = snapshot.ants /\ \E r : Reconciling(r)
  /\ pc = "replay" => AtPlace /\ \E r : Whole(r) /\ Follows(r)

\* The place moves by a transaction.
LEMMA PlaceMoves ==
  ASSUME BalanceInv, AtPlace, work # << >>, work' = Tail(work),
         UNCHANGED <<block, next, chain>>
  PROVE  /\ AtPlace' /\ Applied' = Applied + 1
         /\ Applied \in Nat /\ next \in 1 .. Len(chain) /\ block = chain[next]
         /\ Applied < Len(chain[next].txs)
         /\ Head(work) \in Transaction /\ Head(work) = chain[next].txs[Applied + 1]
<1>1. /\ work \in Seq(Transaction) /\ block.txs \in Seq(Transaction) /\ chain \in Seq(Block)
  BY DEF BalanceInv, TypeOK, SealOK, DurableOK, Block
<1>2. /\ Len(work) \in Nat /\ Len(work) > 0 /\ Head(work) = work[1]
      /\ Len(work') = Len(work) - 1 /\ \A k \in 1 .. Len(work') : work'[k] = work[k + 1]
      /\ Len(block.txs) \in Nat /\ Len(chain) \in Nat /\ DOMAIN chain = 1 .. Len(chain)
  BY <1>1, LenProperties, HeadTailProperties
<1>3. /\ Applied \in Nat /\ Applied' = Applied + 1 /\ Applied < Len(block.txs)
  BY <1>2 DEF Applied, AtPlace
<1>4. next \in 1 .. Len(chain)
  <2>1. SUFFICES ASSUME next \notin 1 .. Len(chain) PROVE FALSE
    OBVIOUS
  <2>2. block = NoBlock
    BY <1>2, <2>1 DEF AtPlace, BlockAt
  <2>3. Len(block.txs) = 0
    BY <2>2 DEF NoBlock
  <2> QED BY <1>3, <2>3
<1>5. block = chain[next]
  BY <1>2, <1>4 DEF AtPlace, BlockAt
<1>6. Head(work) = block.txs[Applied + 1]
  <2>1. 1 \in 1 .. Len(work)
    BY <1>2
  <2> QED BY <1>2, <2>1 DEF AtPlace
<1>7. ASSUME NEW k \in 1 .. Len(work') PROVE work'[k] = block.txs[Applied' + k]
  <2>1. k + 1 \in 1 .. Len(work) /\ Applied' + k = Applied + (k + 1)
    BY <1>2, <1>3
  <2> QED BY <1>2, <2>1 DEF AtPlace
<1>8. BlockAt(next)' = BlockAt(next)
  BY DEF BlockAt
<1>9. AtPlace'
  BY <1>3, <1>7, <1>8 DEF AtPlace
<1>10. Head(work) \in Transaction
  BY <1>1, HeadTailProperties
<1> QED BY <1>3, <1>4, <1>5, <1>6, <1>9, <1>10

\* The place is at the beginning of a block.
LEMMA PlaceTaken ==
  ASSUME BalanceInv, NEW index \in 1 .. Len(chain) + 1, TakeBlock(index), UNCHANGED chain
  PROVE  AtPlace' /\ Applied' = 0 /\ next' = index
<1>1. /\ next' = index /\ block' = BlockAt(index) /\ work' = block'.txs
  BY DEF TakeBlock
<1>2. BlockAt(index)' = BlockAt(index)
  BY DEF BlockAt
<1>3. block'.txs \in Seq(Transaction)
  BY <1>1, BlockAtType DEF BalanceInv, TypeOK, DurableOK
<1>4. Len(block'.txs) \in Nat
  BY <1>3, LenProperties
<1>5. Applied' = 0
  BY <1>1, <1>4 DEF Applied
<1>6. \A k \in 1 .. Len(work') : work'[k] = block'.txs[0 + k]
  BY <1>1, <1>4
<1> QED BY <1>1, <1>2, <1>5, <1>6 DEF AtPlace

\* The block at the place has been passed.
LEMMA PlacePassed ==
  ASSUME BalanceInv, AtPlace, work = << >>, next <= Len(chain)
  PROVE  /\ next \in 1 .. Len(chain) /\ block = chain[next] /\ block \in Block
         /\ Applied = Len(chain[next].txs) /\ next + 1 \in 1 .. Len(chain) + 1
<1>1. /\ block \in Block /\ block.txs \in Seq(Transaction) /\ chain \in Seq(Block)
  BY DEF BalanceInv, TypeOK, SealOK, DurableOK, Block
<1>2. /\ Len(block.txs) \in Nat /\ Len(chain) \in Nat /\ DOMAIN chain = 1 .. Len(chain)
      /\ Len(work) = 0
  BY <1>1, LenProperties
<1>3. next \in 1 .. Len(chain) /\ next + 1 \in 1 .. Len(chain) + 1
  BY <1>2 DEF AtPlace
<1>4. block = chain[next]
  BY <1>2, <1>3 DEF AtPlace, BlockAt
<1> QED BY <1>1, <1>2, <1>3, <1>4 DEF Applied

\* The start of a pass.
LEMMA RestartReconciles ==
  ASSUME BalanceInv, RestartInv, Restart
  PROVE  RestartInv'
<1>1. /\ pc = "down" /\ pc' = "reconcile" /\ ants' = snapshot.ants /\ sim' = snapshot.ants
      /\ topups' = topups /\ UNCHANGED <<chain, snapshot>> /\ TakeBlock(1) /\ fees' = 0
  BY DEF Restart, TakeBlock, durableVars
<1>2. topups = Zero
  BY <1>1 DEF RestartInv
<1>3. 1 \in 1 .. Len(chain) + 1 /\ snapshot.ants \in [Addr -> Nat]
  <2>1. Len(chain) \in Nat /\ snapshot \in Snapshot
    BY LenProperties DEF BalanceInv, TypeOK, DurableOK
  <2> QED BY <2>1 DEF Snapshot
<1>4. AtPlace' /\ Applied' = 0 /\ next' = 1
  BY <1>1, <1>3, PlaceTaken
<1>5. PICK r : Trace(chain, snapshot.ants, r, 1, 0) /\ Rising(chain, r, 1, 0)
  BY <1>3, TraceStarts
<1>6. r[1][0] = [sim |-> snapshot.ants, topups |-> Zero, fees |-> 0]
  BY <1>5 DEF Trace, FirstPass
<1>7. Reconciling(r)'
  BY <1>1, <1>2, <1>4, <1>5, <1>6 DEF Reconciling
<1> QED BY <1>1, <1>4, <1>7 DEF RestartInv

\* The first pass goes on.
LEMMA ReconcilingGoesOn ==
  ASSUME BalanceInv, RestartInv, ReconcileTx \/ ReconcileBlock
  PROVE  RestartInv'
<1>1. /\ pc = "reconcile" /\ pc' = pc /\ UNCHANGED <<chain, snapshot, ants>>
      /\ AtPlace /\ ants = snapshot.ants /\ chain \in Seq(Block)
  BY DEF ReconcileTx, ReconcileBlock, RestartInv, durableVars, accountVars,
         BalanceInv, TypeOK, DurableOK
<1>2. PICK r : Reconciling(r)
  BY <1>1 DEF RestartInv
<1>3. CASE ReconcileTx
  <2> DEFINE tx == Head(work)
  <2>1. /\ work # << >> /\ work' = Tail(work) /\ UNCHANGED <<block, next>>
        /\ topups' = [topups EXCEPT ![tx.from] = @ + Lack(tx)]
        /\ sim' = Transferred([sim EXCEPT ![tx.from] = @ + Lack(tx)], tx)
        /\ fees' = fees + tx.fee
    BY <1>3 DEF ReconcileTx
  <2>2. /\ AtPlace' /\ Applied' = Applied + 1 /\ Applied \in Nat
        /\ next \in 1 .. Len(chain) /\ Applied < Len(chain[next].txs)
        /\ tx = chain[next].txs[Applied + 1]
    BY <1>1, <2>1, PlaceMoves
  <2>3. PICK q : /\ Trace(chain, snapshot.ants, q, next, Applied + 1)
                 /\ Rising(chain, q, next, Applied + 1)
                 /\ q[next][Applied + 1] = TxPass(r[next][Applied], chain[next].txs[Applied + 1])
    BY <1>1, <1>2, <2>2, TraceTx DEF Reconciling
  <2>4. q[next][Applied + 1] = [sim |-> sim', topups |-> topups', fees |-> fees']
    <3>1. r[next][Applied] = [sim |-> sim, topups |-> topups, fees |-> fees]
      BY <1>2 DEF Reconciling
    <3> HIDE DEF tx
    <3>2. TxPass([sim |-> sim, topups |-> topups, fees |-> fees], tx)
            = [sim |-> sim', topups |-> topups', fees |-> fees']
      BY <2>1 DEF TxPass, Lacking, Lack
    <3> QED BY <2>2, <2>3, <3>1, <3>2
  <2>5. Reconciling(q)'
    BY <1>1, <2>1, <2>2, <2>3, <2>4 DEF Reconciling
  <2> QED BY <1>1, <2>2, <2>5 DEF RestartInv
<1>4. CASE ReconcileBlock
  <2>1. /\ work = << >> /\ next <= Len(chain) /\ TakeBlock(next + 1) /\ fees' = 0
        /\ sim' = WithFees(sim, block.miners, fees) /\ topups' = topups
    BY <1>4 DEF ReconcileBlock, TakeBlock
  <2>2. /\ next \in 1 .. Len(chain) /\ block = chain[next]
        /\ Applied = Len(chain[next].txs) /\ next + 1 \in 1 .. Len(chain) + 1
    BY <1>1, <2>1, PlacePassed
  <2>3. AtPlace' /\ Applied' = 0 /\ next' = next + 1
    BY <1>1, <2>1, <2>2, PlaceTaken
  <2>4. PICK q : /\ Trace(chain, snapshot.ants, q, next + 1, 0)
                 /\ Rising(chain, q, next + 1, 0)
                 /\ q[next + 1][0] = BlockPass(r[next][Applied], chain[next])
    BY <1>1, <1>2, <2>2, TraceBlock DEF Reconciling
  <2>5. q[next + 1][0] = [sim |-> sim', topups |-> topups', fees |-> fees']
    <3>1. r[next][Applied] = [sim |-> sim, topups |-> topups, fees |-> fees]
      BY <1>2, <2>2 DEF Reconciling
    <3> QED BY <2>1, <2>2, <2>4, <3>1 DEF BlockPass
  <2>6. Reconciling(q)'
    BY <1>1, <2>3, <2>4, <2>5 DEF Reconciling
  <2> QED BY <1>1, <2>3, <2>6 DEF RestartInv
<1> QED BY <1>3, <1>4

\* The top-ups are credited.
LEMMA ReplayStarts ==
  ASSUME BalanceInv, RestartInv, StartReplay
  PROVE  RestartInv'
<1>1. /\ pc = "reconcile" /\ pc' = "replay" /\ UNCHANGED <<chain, snapshot>>
      /\ ants' = [a \in Addr |-> ants[a] + topups[a]] /\ topups' = Zero
      /\ TakeBlock(1) /\ fees' = 0 /\ next > Len(chain)
      /\ AtPlace /\ ants = snapshot.ants /\ ants \in [Addr -> Nat] /\ topups \in [Addr -> Nat]
      /\ chain \in Seq(Block)
  BY DEF StartReplay, TakeBlock, RestartInv, durableVars, BalanceInv, TypeOK, DurableOK,
         AccountsOK, ReplayOK
<1>2. PICK r : Reconciling(r)
  BY <1>1 DEF RestartInv
<1>3. Len(chain) \in Nat /\ next = Len(chain) + 1 /\ 1 \in 1 .. Len(chain) + 1
  BY <1>1, LenProperties DEF AtPlace
<1>4. Applied = 0
  <2>1. block = NoBlock
    <3>1. next \notin DOMAIN chain
      BY <1>1, <1>3, LenProperties
    <3> QED BY <1>1, <3>1 DEF AtPlace, BlockAt
  <2>2. Len(block.txs) = 0
    BY <2>1 DEF NoBlock
  <2>3. Len(work) \in Nat /\ Applied \in Nat
    BY <1>1, LenProperties DEF BalanceInv, TypeOK, SealOK, AtPlace
  <2> QED BY <2>2, <2>3 DEF Applied
<1>5. AtPlace' /\ Applied' = 0 /\ next' = 1
  BY <1>1, <1>3, PlaceTaken
<1>6. Whole(r) /\ r[Len(chain) + 1][0].topups = topups
  BY <1>2, <1>3, <1>4 DEF Reconciling, Whole
<1>7. r[1][0] = [sim |-> snapshot.ants, topups |-> Zero, fees |-> 0]
  BY <1>6 DEF Whole, Trace, FirstPass
<1>8. Whole(r)'
  BY <1>1, <1>6 DEF Whole
<1>9. ASSUME NEW a \in Addr
      PROVE  ants'[a] = r[1][0].sim[a] + (r[Len(chain) + 1][0].topups[a] - r[1][0].topups[a])
  <2>1. ants[a] \in Nat /\ topups[a] \in Nat /\ ants'[a] = ants[a] + topups[a] /\ Zero[a] = 0
    BY <1>1 DEF Zero
  <2>2. r[1][0].sim[a] = ants[a] /\ r[1][0].topups[a] = 0
    BY <1>1, <1>7, <2>1
  <2> QED BY <1>6, <2>1, <2>2
<1>10. Follows(r)'
  BY <1>1, <1>5, <1>7, <1>9 DEF Follows
<1> QED BY <1>1, <1>5, <1>8, <1>10 DEF RestartInv

\* The passes of a whole trace.
LEMMA WholeTypes ==
  ASSUME chain \in Seq(Block), NEW r, Whole(r), NEW n \in 1 .. Len(chain) + 1, NEW j \in Nat
  PROVE  /\ r[n][j] \in Pass /\ r[n][j].fees \in Nat
         /\ r[n][j].sim \in [Addr -> Nat] /\ r[n][j].topups \in [Addr -> Nat]
         /\ r[Len(chain) + 1][0].topups \in [Addr -> Nat]
<1>1. r \in [Nat -> [Nat -> Pass]]
  BY DEF Whole, Trace
<1>2. n \in Nat /\ Len(chain) + 1 \in Nat /\ 0 \in Nat
  BY LenProperties
<1>3. r[n][j] \in Pass /\ r[Len(chain) + 1][0] \in Pass
  BY <1>1, <1>2
<1> QED BY <1>3 DEF Pass

\* What a whole trace says of a transaction.
LEMMA WholeTx ==
  ASSUME chain \in Seq(Block), NEW r, Whole(r), NEW n \in 1 .. Len(chain), NEW j \in Nat,
         j < Len(chain[n].txs)
  PROVE  /\ r[n][j + 1] = TxPass(r[n][j], chain[n].txs[j + 1])
         /\ \A a \in Addr : r[n][j + 1].topups[a] <= r[Len(chain) + 1][0].topups[a]
<1>1. Len(chain) \in Nat /\ n \in 1 .. Len(chain) + 1 /\ n # Len(chain) + 1
  BY LenProperties
<1>2. Passed(chain, Len(chain) + 1, 0, n) = Len(chain[n].txs)
  BY <1>1 DEF Passed
<1>3. j + 1 \in Nat /\ j + 1 <= Len(chain[n].txs)
  <2>1. Len(chain[n].txs) \in Nat
    <3>1. chain[n] \in Block
      BY ElementOfSeq
    <3> QED BY <3>1, LenProperties DEF Block
  <2> QED BY <2>1
<1>4. r[n][j + 1] = TxPass(r[n][j], chain[n].txs[j + 1])
  BY <1>1, <1>2 DEF Whole, Trace
<1>5. \A a \in Addr : r[n][j + 1].topups[a] <= r[Len(chain) + 1][0].topups[a]
  BY <1>1, <1>2, <1>3 DEF Whole, Rising
<1> QED BY <1>4, <1>5

\* The replay is never short of anything.
LEMMA ReplayPays ==
  ASSUME BalanceInv, AtPlace, work # << >>, NEW r, Whole(r), Follows(r)
  PROVE  Debit(Head(work)) <= ants[Head(work).from]
<1> DEFINE tx == Head(work)
           s == r[next][Applied]
           t == r[next][Applied + 1]
           e == r[Len(chain) + 1][0]
<1>1. chain \in Seq(Block) /\ ants \in [Addr -> Nat]
  BY DEF BalanceInv, TypeOK, DurableOK, AccountsOK
<1>2. /\ Applied \in Nat /\ next \in 1 .. Len(chain) /\ Applied < Len(chain[next].txs)
      /\ tx \in Transaction /\ tx = chain[next].txs[Applied + 1]
  <2> DEFINE rest == Tail(work)
  <2>1. /\ work \in Seq(Transaction) /\ block.txs \in Seq(Transaction)
    BY DEF BalanceInv, TypeOK, SealOK, Block
  <2>2. /\ Len(work) \in Nat /\ Len(work) > 0 /\ tx = work[1] /\ tx \in Transaction
        /\ Len(block.txs) \in Nat /\ Len(chain) \in Nat /\ DOMAIN chain = 1 .. Len(chain)
    BY <1>1, <2>1, LenProperties, HeadTailProperties
  <2>3. Applied \in Nat /\ Applied < Len(block.txs) /\ 1 \in 1 .. Len(work)
    BY <2>2 DEF Applied, AtPlace
  <2>4. next \in 1 .. Len(chain)
    <3>1. SUFFICES ASSUME next \notin 1 .. Len(chain) PROVE FALSE
      OBVIOUS
    <3>2. block = NoBlock
      BY <2>2, <3>1 DEF AtPlace, BlockAt
    <3>3. Len(block.txs) = 0
      BY <3>2 DEF NoBlock
    <3> QED BY <2>3, <3>3
  <2>5. block = chain[next]
    BY <2>2, <2>4 DEF AtPlace, BlockAt
  <2> QED BY <2>2, <2>3, <2>4, <2>5 DEF AtPlace
<1>3. next \in 1 .. Len(chain) + 1
  BY DEF AtPlace
<1>4. t = TxPass(s, tx) /\ \A a \in Addr : t.topups[a] <= e.topups[a]
  BY <1>1, <1>2, WholeTx
<1>5. s \in Pass /\ s.sim \in [Addr -> Nat] /\ s.topups \in [Addr -> Nat]
      /\ e.topups \in [Addr -> Nat]
  BY <1>1, <1>2, <1>3, WholeTypes
<1>6. t.topups \in [Addr -> Nat] /\ tx.from \in Addr
  <2>1. TxPass(s, tx) \in Pass
    BY <1>2, <1>5, TxPassType
  <2> QED BY <1>2, <1>4, <2>1, DebitType DEF Pass
<1>7. Debit(tx) <= s.sim[tx.from] + t.topups[tx.from] - s.topups[tx.from]
  BY <1>2, <1>4, <1>5, TxPassType
<1>8. ants[tx.from] = s.sim[tx.from] + (e.topups[tx.from] - s.topups[tx.from])
  BY <1>6 DEF Follows
<1>9. Debit(tx) \in Nat
  BY <1>2, DebitType
<1>10. /\ s.sim[tx.from] \in Nat /\ s.topups[tx.from] \in Nat /\ e.topups[tx.from] \in Nat
       /\ t.topups[tx.from] \in Nat /\ t.topups[tx.from] <= e.topups[tx.from]
  BY <1>4, <1>5, <1>6
<1> HIDE DEF tx, s, t, e
<1> QED BY <1>7, <1>8, <1>9, <1>10 DEF tx

\* The replay goes on.
LEMMA ReplayGoesOn ==
  ASSUME BalanceInv, RestartInv, pc = "replay", ApplyTx \/ ReplayBlock
  PROVE  RestartInv'
<1>1. /\ pc' = pc /\ UNCHANGED <<chain, snapshot, topups>>
      /\ AtPlace /\ chain \in Seq(Block) /\ topups = Zero
  BY DEF ApplyTx, ReplayBlock, RestartInv, durableVars, replayVars, BalanceInv, TypeOK,
         DurableOK
<1>2. PICK r : Whole(r) /\ Follows(r)
  BY DEF RestartInv
<1>3. Whole(r)'
  BY <1>1, <1>2 DEF Whole
<1> DEFINE s == r[next][Applied]
           e == r[Len(chain) + 1][0]
<1>4. /\ next \in 1 .. Len(chain) + 1 /\ Applied \in Nat
  BY <1>1 DEF AtPlace
<1>5. /\ s \in Pass /\ s.sim \in [Addr -> Nat] /\ s.topups \in [Addr -> Nat]
      /\ e.topups \in [Addr -> Nat]
  BY <1>1, <1>2, <1>4, WholeTypes
<1>6. fees = s.fees /\ \A a \in Addr : ants[a] = s.sim[a] + (e.topups[a] - s.topups[a])
  BY <1>2 DEF Follows
<1>7. CASE ApplyTx
  <2> DEFINE tx == Head(work)
             t == r[next][Applied + 1]
  <2>1. /\ work # << >> /\ work' = Tail(work) /\ UNCHANGED <<block, next>>
        /\ ants' = Transferred(ants, tx) /\ fees' = fees + tx.fee
    BY <1>7 DEF ApplyTx, replayVars
  <2>2. /\ AtPlace' /\ Applied' = Applied + 1 /\ Applied \in Nat
        /\ next \in 1 .. Len(chain) /\ Applied < Len(chain[next].txs)
        /\ tx \in Transaction /\ tx = chain[next].txs[Applied + 1]
    BY <1>1, <2>1, PlaceMoves
  <2>3. t = TxPass(s, tx)
    BY <1>1, <1>2, <2>2, WholeTx
  <2>4. /\ TxPass(s, tx) \in Pass /\ t.fees = s.fees + tx.fee
        /\ \A a \in Addr : t.sim[a] - t.topups[a]
             = s.sim[a] - s.topups[a] - (IF a = tx.from THEN Debit(tx) ELSE 0)
                                      + (IF a = tx.to THEN tx.amount ELSE 0)
    BY <1>5, <2>2, <2>3, TxPassType
  <2>5. t.sim \in [Addr -> Nat] /\ t.topups \in [Addr -> Nat]
    BY <2>3, <2>4 DEF Pass
  <2>6. Debit(tx) \in Nat /\ tx.amount \in Nat
    BY <2>2, DebitType
  <2> HIDE DEF s, t, e, tx
  <2>7. ASSUME NEW a \in Addr PROVE ants'[a] = t.sim[a] + (e.topups[a] - t.topups[a])
    <3> DEFINE out == IF a = tx.from THEN Debit(tx) ELSE 0
               in == IF a = tx.to THEN tx.amount ELSE 0
    <3>1. ants'[a] = ants[a] - out + in
      BY <2>1 DEF Transferred
    <3>2. ants[a] = s.sim[a] + (e.topups[a] - s.topups[a])
      BY <1>6
    <3>3. t.sim[a] - t.topups[a] = s.sim[a] - s.topups[a] - out + in
      BY <2>4
    <3>4. /\ out \in Nat /\ in \in Nat /\ s.sim[a] \in Nat /\ s.topups[a] \in Nat
          /\ t.sim[a] \in Nat /\ t.topups[a] \in Nat /\ e.topups[a] \in Nat
      BY <1>5, <2>5, <2>6
    <3> HIDE DEF out, in
    <3> QED BY <3>1, <3>2, <3>3, <3>4
  <2>8. fees' = t.fees
    BY <1>6, <2>1, <2>4
  <2>9. Follows(r)'
    BY <1>1, <2>1, <2>2, <2>7, <2>8 DEF Follows, t, e
  <2> QED BY <1>1, <1>3, <2>2, <2>9 DEF RestartInv
<1>8. CASE ReplayBlock
  <2> DEFINE t == r[next + 1][0]
  <2>1. /\ work = << >> /\ next <= Len(chain) /\ TakeBlock(next + 1) /\ fees' = 0
        /\ ants' = WithFees(ants, block.miners, fees)
    BY <1>8 DEF ReplayBlock, TakeBlock
  <2>2. /\ next \in 1 .. Len(chain) /\ block = chain[next] /\ block \in Block
        /\ Applied = Len(chain[next].txs) /\ next + 1 \in 1 .. Len(chain) + 1
    BY <1>1, <2>1, PlacePassed
  <2>3. AtPlace' /\ Applied' = 0 /\ next' = next + 1
    BY <1>1, <2>1, <2>2, PlaceTaken
  <2>4. t = BlockPass(s, block)
    <3>1. next \in 1 .. (Len(chain) + 1) - 1
      BY <2>2, LenProperties
    <3> QED BY <1>2, <2>2, <3>1 DEF Whole, Trace
  <2> HIDE DEF s, t, e
  <2>5. t.topups = s.topups /\ t.fees = 0 /\ t.sim = WithFees(s.sim, block.miners, s.fees)
    BY <1>5, <2>2, <2>4, BlockPassType
  <2>6. Share(block.miners, fees) \in Nat /\ Rest(block.miners, fees) \in Nat
    BY <2>2, ShareType DEF BalanceInv, TypeOK, SealOK, Block
  <2>7. ASSUME NEW a \in Addr PROVE ants'[a] = t.sim[a] + (e.topups[a] - t.topups[a])
    <3> DEFINE share == IF a \in block.miners THEN Share(block.miners, fees) ELSE 0
               rest == IF a = Reserve THEN Rest(block.miners, fees) ELSE 0
    <3>1. ants'[a] = ants[a] + share + rest
      BY <2>1 DEF WithFees
    <3>2. t.sim[a] = s.sim[a] + share + rest
      BY <1>6, <2>5 DEF WithFees
    <3>3. ants[a] = s.sim[a] + (e.topups[a] - s.topups[a]) /\ t.topups[a] = s.topups[a]
      BY <1>6, <2>5
    <3>4. /\ share \in Nat /\ rest \in Nat /\ s.sim[a] \in Nat /\ s.topups[a] \in Nat
          /\ e.topups[a] \in Nat
      BY <1>5, <2>6
    <3> HIDE DEF share, rest
    <3> QED BY <3>1, <3>2, <3>3, <3>4
  <2>8. Follows(r)'
    BY <1>1, <2>1, <2>3, <2>5, <2>7 DEF Follows, t, e
  <2> QED BY <1>1, <1>3, <2>3, <2>8 DEF RestartInv
<1> QED BY <1>7, <1>8

\* A request is served between blocks, and leaves what is stored alone.
LEMMA RequestsKeep ==
  ASSUME Requests
  PROVE  pc = "up" /\ pc' = pc /\ UNCHANGED <<readable, topups, loop>>
<1>1. CASE SubmitSome
  BY <1>1 DEF SubmitSome, Submit, durableVars, replayVars
<1>2. ASSUME NEW to \in Wallets, NEW hash \in Hashes, NEW amount \in Amounts,
             BridgeCredit(to, amount, hash)
      PROVE  pc = "up" /\ pc' = pc /\ UNCHANGED <<readable, topups, loop>>
  BY <1>2 DEF BridgeCredit, durableVars, replayVars
<1>3. ASSUME NEW from \in Wallets, NEW to \in Wallets, PiSettlement(from, to)
      PROVE  pc = "up" /\ pc' = pc /\ UNCHANGED <<readable, topups, loop>>
  BY <1>3 DEF PiSettlement, durableVars, replayVars
<1>4. ASSUME NEW from \in Wallets, NEW amount \in Amounts, BridgeBurn(from, amount)
      PROVE  pc = "up" /\ pc' = pc /\ UNCHANGED <<readable, topups, loop>>
  BY <1>4 DEF BridgeBurn, durableVars, replayVars
<1>5. ASSUME NEW to \in Wallets, NEW amount \in Amounts, AdminMint(to, amount)
      PROVE  pc = "up" /\ pc' = pc /\ UNCHANGED <<readable, topups, loop>>
  BY <1>5 DEF AdminMint, durableVars, replayVars
<1>6. ASSUME NEW legacy \in Wallets, NEW secp \in Wallets, MigrateLegacy(legacy, secp)
      PROVE  pc = "up" /\ pc' = pc /\ UNCHANGED <<readable, topups, loop>>
  BY <1>6 DEF MigrateLegacy, durableVars, replayVars
<1> QED BY <1>1, <1>2, <1>3, <1>4, <1>5, <1>6 DEF Requests

\* RestartInv is inductive.
LEMMA RestartInductive ==
  /\ Init => RestartInv
  /\ BalanceInv /\ RestartInv /\ [Next]_vars => RestartInv'
<1>1. Init => RestartInv
  BY DEF Init, RestartInv
<1>2. ASSUME BalanceInv, RestartInv, [Next]_vars PROVE RestartInv'
  <2>1. ASSUME UNCHANGED topups, pc # "reconcile", pc' \notin {"reconcile", "replay"}
        PROVE  RestartInv'
    BY <1>2, <2>1 DEF RestartInv
  <2>2. ASSUME UNCHANGED vars PROVE RestartInv'
    BY <1>2, <2>2 DEF RestartInv, vars, AtPlace, BlockAt, Applied, Reconciling, Whole,
                      Follows
  <2>3. CASE Requests \/ Syncing
    <3>1. UNCHANGED topups /\ pc # "reconcile" /\ pc' \notin {"reconcile", "replay"}
      BY <2>3, RequestsKeep DEF Syncing, Sync, Truncate, WriteSnapshot, replayVars
    <3> QED BY <2>1, <3>1
  <2>4. CASE (ApplyTx /\ pc = "replay") \/ ReplayBlock
    BY <1>2, <2>4, ReplayGoesOn DEF ReplayBlock
  <2>5. CASE Sealing /\ ~ (ApplyTx /\ pc = "replay")
    BY <2>1, <2>5 DEF Sealing, BeginBlock, ApplyTx, FinishBlock, Store, replayVars
  <2>6. CASE Failing
    <3>1. CASE Crash
      BY <3>1 DEF Crash, RestartInv
    <3> QED BY <2>1, <2>6, <3>1 DEF Failing, WriteFails, ApplyFails, StoreFails, replayVars
  <2>7. CASE Restart
    BY <1>2, <2>7, RestartReconciles
  <2>8. CASE ReconcileTx \/ ReconcileBlock
    BY <1>2, <2>8, ReconcilingGoesOn
  <2>9. CASE StartReplay
    BY <1>2, <2>9, ReplayStarts
  <2>10. CASE RestartFails \/ ReplayFails \/ Recover
    BY <2>1, <2>10 DEF RestartFails, ReplayFails, Recover, replayVars
  <2> QED BY <1>2, <2>2, <2>3, <2>4, <2>5, <2>6, <2>7, <2>8, <2>9, <2>10
          DEF Next, StartUp
<1> QED BY <1>1, <1>2

LEMMA AlwaysRestarting == Spec => []RestartInv
BY RestartInductive, AlwaysBalanced, PTL DEF Spec

\* A restart is refused only for a genesis.json that was left truncated, whatever
\* crashed and whatever was lost, as long as only wallets sign for wallets and
\* their timestamps follow their nonces: the first pass over the chain tops up
\* every sender that the second pass would find short.
THEOREM RefusedOnlyIfTorn ==
  ASSUME WalletsSign
  PROVE  Spec /\ []TimesFollow => []OnlyTornFileRefuses
<1>1. Init => OnlyTornFileRefuses
  BY DEF Init, OnlyTornFileRefuses
<1>2. ASSUME BalanceInv, RestartInv, HistoryRebuilds, OnlyTornFileRefuses, [Next]_vars
      PROVE  OnlyTornFileRefuses'
  <2>1. ~ ReplayFails
    <3>1. SUFFICES ASSUME ReplayFails PROVE FALSE
      OBVIOUS
    <3>2. /\ pc = "replay" /\ work # << >> /\ ants[Head(work).from] < Debit(Head(work))
      BY <1>2, <3>1 DEF ReplayFails, HistoryRebuilds
    <3>3. AtPlace /\ \E r : Whole(r) /\ Follows(r)
      BY <1>2, <3>2 DEF RestartInv
    <3>4. Debit(Head(work)) <= ants[Head(work).from]
      BY <1>2, <3>2, <3>3, ReplayPays
    <3>5. Head(work) \in Transaction
      BY <1>2, <3>2, WorkType DEF BalanceInv, TypeOK, SealOK
    <3>6. Debit(Head(work)) \in Nat /\ ants[Head(work).from] \in Nat
      BY <1>2, <3>5, DebitType DEF BalanceInv, TypeOK, AccountsOK
    <3> QED BY <3>2, <3>4, <3>6
  <2>2. CASE Requests
    BY <1>2, <2>2, RequestsKeep DEF OnlyTornFileRefuses
  <2>3. CASE Syncing \/ WriteFails
    BY <1>2, <2>3
       DEF Syncing, Sync, Truncate, WriteSnapshot, WriteFails, OnlyTornFileRefuses
  <2>4. CASE Sealing \/ ApplyFails \/ StoreFails \/ Crash
    BY <1>2, <2>4
       DEF Sealing, BeginBlock, ApplyTx, FinishBlock, Store, ApplyFails, StoreFails, LoopEnds, Crash,
           OnlyTornFileRefuses, durableVars
  <2>5. CASE StartUp
    BY <1>2, <2>1, <2>5
       DEF StartUp, Restart, RestartFails, ReconcileTx, ReconcileBlock, StartReplay,
           ReplayBlock, Recover, OnlyTornFileRefuses, durableVars
  <2>6. CASE UNCHANGED vars
    BY <1>2, <2>6 DEF OnlyTornFileRefuses, vars
  <2> QED BY <1>2, <2>2, <2>3, <2>4, <2>5, <2>6 DEF Next, Failing
<1> QED BY <1>1, <1>2, HistoryStaysReplayable, AlwaysBalanced, AlwaysRestarting, PTL
        DEF Spec

------------------------------------------------------------------------------
(***************************************************************************)
(* A restart restores the balances there were.  Whatever trace the first   *)
(* pass leaves, it ends in the balances of the last block that was stored: *)
(* the node made the same steps when it sealed the chain, with the treasury *)
(* funded in advance where the pass tops it up.                            *)
(***************************************************************************)

\* A trace is a trace to every place before its last.
LEMMA TraceBack ==
  ASSUME NEW c, NEW balance, NEW r, NEW b \in Nat \ {0}, NEW i \in Nat,
         Trace(c, balance, r, b, i + 1)
  PROVE  /\ Trace(c, balance, r, b, i)
         /\ r[b][i] \in Pass /\ r[b][i + 1] = TxPass(r[b][i], c[b].txs[i + 1])
<1>1. b \in 1 .. b /\ i < Passed(c, b, i + 1, b)
  BY DEF Passed
<1>2. ASSUME NEW n \in 1 .. b, NEW j \in Nat, j < Passed(c, b, i, n)
      PROVE  r[n][j + 1] = TxPass(r[n][j], c[n].txs[j + 1])
  <2>1. j < Passed(c, b, i + 1, n)
    BY <1>2 DEF Passed
  <2> QED BY <2>1 DEF Trace
<1>3. Trace(c, balance, r, b, i)
  BY <1>2 DEF Trace
<1> QED BY <1>1, <1>3 DEF Trace

LEMMA TraceBackBlock ==
  ASSUME NEW c, NEW balance, NEW r, NEW b \in Nat \ {0}, NEW m \in Nat,
         m = Len(c[b].txs), Trace(c, balance, r, b + 1, 0)
  PROVE  /\ Trace(c, balance, r, b, m)
         /\ r[b][m] \in Pass /\ r[b + 1][0] = BlockPass(r[b][m], c[b])
<1>1. ASSUME NEW n \in 1 .. b, NEW j \in Nat, j < Passed(c, b, m, n)
      PROVE  r[n][j + 1] = TxPass(r[n][j], c[n].txs[j + 1])
  <2>1. Passed(c, b + 1, 0, n) = Passed(c, b, m, n)
    BY DEF Passed
  <2>2. n \in 1 .. b + 1
    OBVIOUS
  <2> QED BY <1>1, <2>1, <2>2 DEF Trace
<1>2. \A n \in 1 .. b : n \in 1 .. (b + 1) - 1
  OBVIOUS
<1>3. \A n \in 1 .. b - 1 : n \in 1 .. b
  OBVIOUS
<1>4. \A n \in 1 .. b : r[n + 1][0] = BlockPass(r[n][Len(c[n].txs)], c[n])
  BY <1>2 DEF Trace
<1>5. Trace(c, balance, r, b, m)
  BY <1>1, <1>3, <1>4 DEF Trace
<1>6. b \in 1 .. b
  OBVIOUS
<1> QED BY <1>4, <1>5, <1>6 DEF Trace

\* At the beginning of a block nothing has been collected.
LEMMA TraceFees ==
  ASSUME NEW c, NEW balance, NEW r, NEW b \in Nat \ {0}, Trace(c, balance, r, b, 0)
  PROVE  r[b][0] \in Pass /\ r[b][0].fees = 0
<1>1. r[b][0] \in Pass
  BY DEF Trace
<1>2. CASE b = 1
  BY <1>2 DEF Trace, FirstPass
<1>3. CASE b # 1
  <2>1. b - 1 \in 1 .. b - 1 /\ (b - 1) + 1 = b
    BY <1>3
  <2>2. r[(b - 1) + 1][0] = BlockPass(r[b - 1][Len(c[b - 1].txs)], c[b - 1])
    BY <2>1 DEF Trace
  <2>3. BlockPass(r[b - 1][Len(c[b - 1].txs)], c[b - 1]).fees = 0
    BY DEF BlockPass
  <2> QED BY <1>1, <2>1, <2>2, <2>3
<1> QED BY <1>1, <1>2, <1>3

\* Up to the end of a chain a trace does not depend on what follows.
LEMMA TraceShrinks ==
  ASSUME NEW c \in Seq(Block), NEW blk \in Block, NEW balance, NEW r,
         Trace(Append(c, blk), balance, r, Len(c) + 1, 0)
  PROVE  Trace(c, balance, r, Len(c) + 1, 0)
<1> DEFINE d == Append(c, blk)
           b == Len(c) + 1
<1>1. Len(c) \in Nat /\ \A n \in 1 .. Len(c) : d[n] = c[n]
  BY LenProperties, AppendProperties
<1>2. \A n \in 1 .. b - 1 : n \in 1 .. Len(c) /\ n # b
  BY <1>1
<1>3. ASSUME NEW n \in 1 .. b, NEW j \in Nat, j < Passed(c, b, 0, n)
      PROVE  r[n][j + 1] = TxPass(r[n][j], c[n].txs[j + 1])
  <2>1. n # b
    BY <1>1, <1>3 DEF Passed
  <2>2. n \in 1 .. Len(c)
    BY <1>1, <2>1
  <2>3. Passed(d, b, 0, n) = Passed(c, b, 0, n) /\ d[n] = c[n]
    BY <1>1, <2>2 DEF Passed
  <2>4. r[n][j + 1] = TxPass(r[n][j], d[n].txs[j + 1])
    BY <1>3, <2>3 DEF Trace
  <2> QED BY <2>3, <2>4
<1>4. ASSUME NEW n \in 1 .. b - 1
      PROVE  r[n + 1][0] = BlockPass(r[n][Len(c[n].txs)], c[n])
  <2>1. d[n] = c[n]
    BY <1>1, <1>2
  <2>2. r[n + 1][0] = BlockPass(r[n][Len(d[n].txs)], d[n])
    BY DEF Trace
  <2> QED BY <2>1, <2>2
<1> QED BY <1>3, <1>4 DEF Trace

\* What a pass does to the balances.
LEMMA TxPassMoves ==
  ASSUME NEW s \in Pass, NEW tx \in Transaction, NEW a \in Addr
  PROVE  TxPass(s, tx).sim[a]
           = s.sim[a] + (IF a = tx.from THEN Lacking(s, tx) ELSE 0)
                      - (IF a = tx.from THEN Debit(tx) ELSE 0)
                      + (IF a = tx.to THEN tx.amount ELSE 0)
<1> DEFINE filled == [s.sim EXCEPT ![tx.from] = @ + Lacking(s, tx)]
<1>1. s.sim \in [Addr -> Nat] /\ tx.from \in Addr /\ Debit(tx) \in Nat
  BY DebitType DEF Pass
<1>2. Lacking(s, tx) \in Nat
  BY <1>1, MinusType DEF Lacking
<1>3. filled[a] = s.sim[a] + (IF a = tx.from THEN Lacking(s, tx) ELSE 0)
  BY <1>1, <1>2
<1> HIDE DEF filled
<1>4. TxPass(s, tx).sim = Transferred(filled, tx)
  BY DEF TxPass, filled
<1>5. Transferred(filled, tx)[a] = filled[a] - (IF a = tx.from THEN Debit(tx) ELSE 0)
                                              + (IF a = tx.to THEN tx.amount ELSE 0)
  BY DEF Transferred
<1>6. TxPass(s, tx).sim[a] = filled[a] - (IF a = tx.from THEN Debit(tx) ELSE 0)
                                        + (IF a = tx.to THEN tx.amount ELSE 0)
  BY <1>4, <1>5
<1> DEFINE got == TxPass(s, tx).sim[a]
           lack == Lacking(s, tx)
           debit == Debit(tx)
<1>7. lack \in Nat /\ debit \in Nat /\ s.sim[a] \in Nat /\ tx.amount \in Nat
  BY <1>1, <1>2, DebitType
<1>8. /\ got = filled[a] - (IF a = tx.from THEN debit ELSE 0)
                         + (IF a = tx.to THEN tx.amount ELSE 0)
      /\ filled[a] = s.sim[a] + (IF a = tx.from THEN lack ELSE 0)
  BY <1>3, <1>6
<1> HIDE DEF got, lack, debit
<1>9. got = s.sim[a] + (IF a = tx.from THEN lack ELSE 0)
                     - (IF a = tx.from THEN debit ELSE 0)
                     + (IF a = tx.to THEN tx.amount ELSE 0)
  BY <1>7, <1>8
<1> QED BY <1>9 DEF got, lack, debit

\* Nothing goes to the treasury.
Outgoing(q) == \A i \in DOMAIN q : q[i].to # Treasury

\* Every trace of chain c from these first balances to the start of block b has
\* this balance there.
EndsIn(c, first, b, balance) ==
  \A r : Trace(c, first, r, b, 0) => r[b][0].sim = balance

\* Pass s has collected these fees and has this balance, but for what the treasury
\* holds in advance.
Mirrors(s, collected, balance) ==
  /\ s.fees = collected /\ s.sim[Treasury] = 0
  /\ \A a \in Addr \ {Treasury} : s.sim[a] = balance[a]

\* So has every trace at transaction k of block b.
Mirrored(c, first, b, k, collected, balance) ==
  \A r : Trace(c, first, r, b, k) => Mirrors(r[b][k], collected, balance)

\* The treasury has no balance of its own, no sessions and no share in fees.
TreasuryEmpty ==
  /\ snapshot.ants[Treasury] = 0 /\ snapshot.sessions[Treasury] = 0
  /\ sealed[Treasury] = 0 /\ Treasury \notin miners /\ Outgoing(mempool)
  /\ pc \in {"apply", "store"} => Treasury \notin block.miners /\ Outgoing(block.txs)
  /\ pc \notin {"persist", "write"}

\* Between blocks: the balances of the last block, and the treasury's advance.
Settled ==
  /\ ants[Treasury] = PendingDebit(Treasury)
  /\ \A a \in Addr \ {Treasury} : ants[a] = sealed[a]

\* In a block: the work is the rest of it, and the treasury has what it owes of it.
InPlace ==
  /\ Applied \in Nat
  /\ \A k \in 1 .. Len(work) : work[k] = block.txs[Applied + k]

AtWork == InPlace /\ ants[Treasury] = Owing(work, Treasury)

\* And a pass that gets this far has the same balances.
InBlock ==
  /\ AtWork
  /\ Mirrored(Append(chain, block), snapshot.ants, Len(chain) + 1, Applied, fees, ants)

FaithInv ==
  /\ TreasuryEmpty
  /\ EndsIn(chain, snapshot.ants, Len(chain) + 1, sealed)
  /\ pc = "up" /\ loop = "running" => Settled
  /\ pc = "apply" => InBlock
  /\ pc = "store" =>
       /\ EndsIn(Append(chain, block), snapshot.ants, Len(chain) + 2, ants)
       /\ ants[Treasury] = 0

\* The first block is begun where the chain ends.
LEMMA BeginMirrored ==
  ASSUME NEW c \in Seq(Block), NEW blk \in Block, NEW first, NEW end, NEW balance,
         EndsIn(c, first, Len(c) + 1, end), end[Treasury] = 0,
         \A a \in Addr \ {Treasury} : balance[a] = end[a]
  PROVE  Mirrored(Append(c, blk), first, Len(c) + 1, 0, 0, balance)
<1>1. ASSUME NEW r, Trace(Append(c, blk), first, r, Len(c) + 1, 0)
      PROVE  Mirrors(r[Len(c) + 1][0], 0, balance)
  <2>1. Trace(c, first, r, Len(c) + 1, 0)
    BY <1>1, TraceShrinks
  <2>2. Len(c) + 1 \in Nat \ {0}
    BY LenProperties
  <2>3. r[Len(c) + 1][0].fees = 0
    BY <2>1, <2>2, TraceFees
  <2>4. r[Len(c) + 1][0].sim = end
    BY <2>1 DEF EndsIn
  <2> QED BY <2>3, <2>4 DEF Mirrors
<1> QED BY <1>1 DEF Mirrored

\* A transaction: the pass tops the treasury up by its debit, and nobody else.
LEMMA TxMirrored ==
  ASSUME NEW c, NEW first, NEW b \in Nat \ {0}, NEW k \in Nat, NEW collected,
         NEW balance \in [Addr -> Nat], NEW tx \in Transaction,
         tx = c[b].txs[k + 1], tx.to # Treasury, Debit(tx) <= balance[tx.from],
         Mirrored(c, first, b, k, collected, balance)
  PROVE  Mirrored(c, first, b, k + 1, collected + tx.fee, Transferred(balance, tx))
<1> DEFINE debit == Debit(tx)
           after == Transferred(balance, tx)
<1>1. /\ debit \in Nat /\ tx.from \in Addr /\ tx.to \in Addr /\ tx.amount \in Nat
      /\ Treasury \in Addr /\ debit <= balance[tx.from]
  BY DebitType, ConstantTypes
<1>2. \A a \in Addr : after[a] = balance[a] - (IF a = tx.from THEN debit ELSE 0)
                                            + (IF a = tx.to THEN tx.amount ELSE 0)
  BY DEF Transferred
<1> HIDE DEF debit, after
<1>3. ASSUME NEW r, Trace(c, first, r, b, k + 1)
      PROVE  Mirrors(r[b][k + 1], collected + tx.fee, after)
  <2> DEFINE s == r[b][k]
             t == r[b][k + 1]
             lack == Lacking(s, tx)
  <2>1. Trace(c, first, r, b, k) /\ s \in Pass /\ t = TxPass(s, tx)
    BY <1>3, TraceBack
  <2>2. /\ s.fees = collected /\ s.sim[Treasury] = 0
        /\ \A a \in Addr \ {Treasury} : s.sim[a] = balance[a]
    BY <2>1 DEF Mirrored, Mirrors
  <2> HIDE DEF s, t
  <2>3. s.sim \in [Addr -> Nat]
    BY <2>1 DEF Pass
  <2>4. t.fees = s.fees + tx.fee
    BY <2>1 DEF TxPass
  <2>5. lack = IF tx.from = Treasury THEN debit ELSE 0
    <3>1. CASE tx.from = Treasury
      BY <1>1, <2>2, <3>1 DEF Lacking, Minus, debit
    <3>2. CASE tx.from # Treasury
      <4>1. s.sim[tx.from] = balance[tx.from]
        BY <1>1, <2>2, <3>2
      <4>2. lack = Minus(debit, balance[tx.from])
        BY <4>1 DEF Lacking, debit
      <4>3. debit \in Nat /\ balance[tx.from] \in Nat
        BY <1>1
      <4> QED BY <1>1, <3>2, <4>2, <4>3 DEF Minus
    <3> QED BY <3>1, <3>2
  <2>6. \A a \in Addr : t.sim[a] = s.sim[a] + (IF a = tx.from THEN lack ELSE 0)
                                            - (IF a = tx.from THEN debit ELSE 0)
                                            + (IF a = tx.to THEN tx.amount ELSE 0)
    BY <2>1, TxPassMoves DEF debit
  <2> HIDE DEF lack
  <2>7. t.sim[Treasury] = 0
    <3>1. t.sim[Treasury] = s.sim[Treasury] + (IF Treasury = tx.from THEN lack ELSE 0)
                              - (IF Treasury = tx.from THEN debit ELSE 0) + 0
      BY <1>1, <2>6
    <3> QED BY <1>1, <2>2, <2>5, <3>1
  <2>8. ASSUME NEW a \in Addr \ {Treasury} PROVE t.sim[a] = after[a]
    <3>1. s.sim[a] = balance[a] /\ balance[a] \in Nat
      BY <2>2
    <3>2. t.sim[a] = s.sim[a] + 0 - (IF a = tx.from THEN debit ELSE 0)
                              + (IF a = tx.to THEN tx.amount ELSE 0)
      <4>1. (IF a = tx.from THEN lack ELSE 0) = 0
        BY <2>5, <2>8
      <4> QED BY <2>6, <4>1
    <3>3. after[a] = balance[a] - (IF a = tx.from THEN debit ELSE 0)
                                + (IF a = tx.to THEN tx.amount ELSE 0)
      BY <1>2
    <3> QED BY <1>1, <3>1, <3>2, <3>3
  <2>9. t.fees = collected + tx.fee
    BY <2>2, <2>4
  <2> QED BY <2>7, <2>8, <2>9 DEF Mirrors, t
<1> QED BY <1>3 DEF Mirrored, after

\* The end of a block, of which the treasury owes nothing any more.
LEMMA BlockMirrored ==
  ASSUME NEW c, NEW first, NEW b \in Nat \ {0}, NEW m \in Nat, NEW collected,
         NEW balance \in [Addr -> Nat], m = Len(c[b].txs), balance[Treasury] = 0,
         Mirrored(c, first, b, m, collected, balance)
  PROVE  EndsIn(c, first, b + 1, WithFees(balance, c[b].miners, collected))
<1>1. ASSUME NEW r, Trace(c, first, r, b + 1, 0)
      PROVE  r[b + 1][0].sim = WithFees(balance, c[b].miners, collected)
  <2> DEFINE s == r[b][m]
  <2>1. Trace(c, first, r, b, m) /\ s \in Pass /\ r[b + 1][0] = BlockPass(s, c[b])
    BY <1>1, TraceBackBlock
  <2>2. /\ s.fees = collected /\ s.sim[Treasury] = 0
        /\ \A a \in Addr \ {Treasury} : s.sim[a] = balance[a]
    BY <2>1 DEF Mirrored, Mirrors
  <2> HIDE DEF s
  <2>3. s.sim \in [Addr -> Nat]
    BY <2>1 DEF Pass
  <2>4. \A a \in Addr : s.sim[a] = balance[a]
    BY <2>2
  <2>5. s.sim = balance
    BY <2>3, <2>4
  <2> QED BY <2>1, <2>2, <2>5 DEF BlockPass
<1> QED BY <1>1 DEF EndsIn

\* The start: the chain is empty.
LEMMA InitFaith == Init => FaithInv
<1> SUFFICES ASSUME Init PROVE FaithInv
  OBVIOUS
<1>1. /\ chain = << >> /\ sealed = snapshot.ants /\ miners = {} /\ mempool = << >>
      /\ pc = "down"
      /\ snapshot.ants = GenesisOf(GenesisAnts)
      /\ snapshot.sessions = GenesisOf(GenesisSessions)
  BY DEF Init, GenesisSnapshot
<1>2. snapshot.ants[Treasury] = 0 /\ snapshot.sessions[Treasury] = 0
  BY <1>1, NodeLedgerAssumption, ConstantTypes DEF GenesisOf
<1>3. Outgoing(mempool)
  BY <1>1 DEF Outgoing
<1>4. TreasuryEmpty
  BY <1>1, <1>2, <1>3 DEF TreasuryEmpty
<1>5. EndsIn(chain, snapshot.ants, Len(chain) + 1, sealed)
  <2>1. Len(chain) + 1 = 1
    BY <1>1
  <2>2. ASSUME NEW r, Trace(chain, snapshot.ants, r, 1, 0) PROVE r[1][0].sim = sealed
    BY <1>1, <2>2 DEF Trace, FirstPass
  <2> QED BY <2>1, <2>2 DEF EndsIn
<1> QED BY <1>1, <1>4, <1>5 DEF FaithInv

\* A transaction from a wallet, or one of the treasury's with its advance.
LEMMA SettledQueue ==
  ASSUME BalanceInv, Settled, NEW tx \in Transaction,
         mempool' = Append(mempool, tx), UNCHANGED sealed,
         ants'[Treasury] = ants[Treasury] + (IF tx.from = Treasury THEN Debit(tx) ELSE 0),
         \A a \in Addr \ {Treasury} : ants'[a] = ants[a]
  PROVE  Settled'
<1>1. PendingDebit(Treasury)' = PendingDebit(Treasury)
        + (IF tx.from = Treasury THEN Debit(tx) ELSE 0)
  BY OwingGrows DEF BalanceInv, TypeOK, PoolOK, PendingDebit
<1>2. ants'[Treasury] = PendingDebit(Treasury)'
  BY <1>1 DEF Settled
<1> QED BY <1>2 DEF Settled

LEMMA OutgoingGrows ==
  ASSUME mempool \in Seq(Transaction), Outgoing(mempool), NEW tx \in Transaction,
         tx.to # Treasury, mempool' = Append(mempool, tx)
  PROVE  Outgoing(mempool)'
<1>1. /\ DOMAIN mempool = 1 .. Len(mempool) /\ Len(mempool) \in Nat
      /\ mempool' \in Seq(Transaction) /\ Len(mempool') = Len(mempool) + 1
      /\ DOMAIN mempool' = 1 .. Len(mempool')
      /\ \A i \in 1 .. Len(mempool) : mempool'[i] = mempool[i]
      /\ mempool'[Len(mempool) + 1] = tx
  BY LenProperties, AppendProperties
<1>2. \A i \in DOMAIN mempool' : mempool'[i] = tx \/ (i \in DOMAIN mempool /\ mempool'[i] = mempool[i])
  BY <1>1
<1> QED BY <1>2 DEF Outgoing

\* Requests.
LEMMA RequestsFaith ==
  ASSUME OnlyTransfers, BalanceInv, FaithInv, Requests
  PROVE  FaithInv'
<1>1. mempool \in Seq(Transaction) /\ ants \in [Addr -> Nat]
  BY DEF BalanceInv, TypeOK, AccountsOK, PoolOK
<1>2. ASSUME NEW tx \in Transaction, tx.to \in Wallets, pc = "up",
             mempool' = Append(mempool, tx),
             UNCHANGED <<sealed, chain, snapshot, pc, loop, miners>>,
             ants'[Treasury] = ants[Treasury] + (IF tx.from = Treasury THEN Debit(tx) ELSE 0),
             \A a \in Addr \ {Treasury} : ants'[a] = ants[a]
      PROVE  FaithInv'
  <2>1. Outgoing(mempool)'
    <3>1. tx.to # Treasury
      BY <1>2, NodeLedgerAssumption
    <3> QED BY <1>1, <1>2, <3>1, OutgoingGrows DEF FaithInv, TreasuryEmpty
  <2>2. TreasuryEmpty'
    BY <1>2, <2>1 DEF FaithInv, TreasuryEmpty
  <2>3. EndsIn(chain, snapshot.ants, Len(chain) + 1, sealed)'
    BY <1>2 DEF FaithInv, EndsIn
  <2>4. loop = "running" => Settled'
    BY <1>2, SettledQueue DEF FaithInv
  <2> QED BY <1>2, <2>2, <2>3, <2>4 DEF FaithInv
<1>3. CASE SubmitSome
  <2>1. PICK tx \in Transaction : Submit(tx) /\ tx.from \in Wallets /\ tx.to \in Wallets
    BY <1>3, SubmitIsTyped
  <2>2. /\ pc = "up" /\ mempool' = Append(mempool, tx) /\ ants' = ants
        /\ UNCHANGED <<sealed, chain, snapshot, pc, loop, miners>>
    BY <2>1 DEF Submit, accountVars, durableVars
  <2>3. tx.from # Treasury
    BY <2>1, NodeLedgerAssumption
  <2>4. ants'[Treasury] = ants[Treasury] + (IF tx.from = Treasury THEN Debit(tx) ELSE 0)
    BY <1>1, <2>2, <2>3, ConstantTypes
  <2> QED BY <1>2, <2>1, <2>2, <2>4
<1>4. ASSUME NEW to \in Wallets, NEW hash \in Hashes, NEW amount \in Amounts,
             BridgeCredit(to, amount, hash)
      PROVE  FaithInv'
  <2> DEFINE tx == [from |-> Treasury, to |-> to, amount |-> amount, fee |-> MinFee,
                    nonce |-> 0, time |-> Now, hash |-> Trimmed[hash]]
  <2>1. tx \in Transaction /\ tx.from = Treasury /\ tx.to \in Wallets
    BY ConstantTypes DEF Transaction
  <2>2. /\ pc = "up" /\ mempool' = Append(mempool, tx) /\ ants' = PreFunded(tx)
        /\ UNCHANGED <<sealed, chain, snapshot, pc, loop, miners>>
    BY <1>4 DEF BridgeCredit, durableVars
  <2> HIDE DEF tx
  <2>3. Debit(tx) \in Nat /\ Treasury \in Addr
    BY <2>1, DebitType, ConstantTypes
  <2>4. /\ ants'[Treasury] = ants[Treasury] + Debit(tx)
        /\ \A a \in Addr \ {Treasury} : ants'[a] = ants[a]
    BY <1>1, <2>2, <2>3 DEF PreFunded
  <2> QED BY <1>2, <2>1, <2>2, <2>4
<1> QED BY <1>3, <1>4
        DEF Requests, PiSettlement, BridgeBurn, AdminMint, MigrateLegacy, OnlyTransfers

\* A block is begun: it owes what was pending.
LEMMA WorkBegins ==
  ASSUME BalanceInv, BeginBlock, ants[Treasury] = PendingDebit(Treasury)
  PROVE  /\ AtWork' /\ Applied' = 0
         /\ block' \in Block /\ block'.miners = miners /\ work' = block'.txs
         /\ \A i \in DOMAIN block'.txs : \E n \in DOMAIN mempool : block'.txs[i] = mempool[n]
<1>1. PICK p \in BlockOrders(mempool) :
        LET txs == [i \in DOMAIN mempool |-> mempool[p[i]]]
        IN  block' = [txs |-> txs, miners |-> miners] /\ work' = txs
  BY DEF BeginBlock
<1> DEFINE txs == [i \in DOMAIN mempool |-> mempool[p[i]]]
<1>2. /\ mempool \in Seq(Transaction) /\ miners \subseteq Addr
      /\ DOMAIN mempool = 1 .. Len(mempool) /\ Len(mempool) \in Nat
  BY LenProperties DEF BalanceInv, TypeOK, PoolOK
<1>3. block' = [txs |-> txs, miners |-> miners] /\ work' = txs /\ ants' = ants
  BY <1>1 DEF BeginBlock, accountVars
<1>4. Owing(txs, Treasury) = PendingDebit(Treasury)
  BY <1>2, OwingSorted DEF PendingDebit
<1>5. /\ \A i \in DOMAIN txs : p[i] \in DOMAIN mempool /\ txs[i] = mempool[p[i]]
      /\ DOMAIN txs = 1 .. Len(mempool)
  BY <1>2, OrderPermutes
<1>6. txs \in Seq(Transaction)
  <2>1. \A i \in 1 .. Len(mempool) : mempool[p[i]] \in Transaction
    BY <1>2, <1>5, ElementOfSeq
  <2> QED BY <1>2, <2>1, SeqDef
<1> HIDE DEF txs
<1>7. Len(txs) \in Nat /\ block' \in Block /\ block'.txs = txs /\ block'.miners = miners
  BY <1>2, <1>3, <1>6, LenProperties DEF Block
<1>8. Applied' = 0
  BY <1>3, <1>7 DEF Applied
<1>9. AtWork'
  <2>1. ants'[Treasury] = Owing(work', Treasury)
    BY <1>3, <1>4
  <2>2. \A k \in 1 .. Len(work') : work'[k] = block'.txs[0 + k]
    BY <1>3, <1>7
  <2> QED BY <1>8, <2>1, <2>2 DEF AtWork, InPlace
<1>10. \A i \in DOMAIN block'.txs : \E n \in DOMAIN mempool : block'.txs[i] = mempool[n]
  BY <1>5, <1>7
<1> QED BY <1>3, <1>7, <1>8, <1>9, <1>10

\* A transaction is applied: it is the next of the block.
LEMMA WorkPlace ==
  ASSUME BalanceInv, InPlace, work # << >>
  PROVE  LET tx == Head(work)
         IN  /\ Applied \in Nat /\ tx \in Transaction
             /\ tx = block.txs[Applied + 1] /\ Applied + 1 \in DOMAIN block.txs
             /\ work' = Tail(work) /\ block' = block => InPlace' /\ Applied' = Applied + 1
<1> DEFINE tx == Head(work)
           k == Applied
<1>1. work \in Seq(Transaction) /\ block.txs \in Seq(Transaction)
  BY DEF BalanceInv, TypeOK, SealOK, Block
<1>2. /\ Len(work) \in Nat /\ Len(work) > 0 /\ tx = work[1] /\ tx \in Transaction
      /\ Len(Tail(work)) = Len(work) - 1
      /\ \A i \in 1 .. Len(Tail(work)) : Tail(work)[i] = work[i + 1]
      /\ Len(block.txs) \in Nat
  BY <1>1, LenProperties, HeadTailProperties
<1>3. /\ k \in Nat /\ k < Len(block.txs) /\ k + 1 \in DOMAIN block.txs
      /\ k = Len(block.txs) - Len(work) /\ tx = block.txs[k + 1]
  <2>1. k \in Nat /\ k = Len(block.txs) - Len(work)
    BY DEF InPlace, Applied
  <2>2. tx = block.txs[k + 1]
    BY <1>2 DEF InPlace
  <2> QED BY <1>1, <1>2, <2>1, <2>2, LenProperties
<1>4. ASSUME work' = Tail(work), block' = block PROVE InPlace' /\ Applied' = k + 1
  <2>1. Applied' = Len(block.txs) - (Len(work) - 1)
    BY <1>2, <1>4 DEF Applied
  <2>2. Applied' = k + 1
    BY <1>2, <1>3, <2>1
  <2>3. ASSUME NEW i \in 1 .. Len(work') PROVE work'[i] = block.txs[(k + 1) + i]
    <3>0. Len(work') = Len(work) - 1
      BY <1>2, <1>4
    <3>1. i + 1 \in 1 .. Len(work) /\ i \in 1 .. Len(Tail(work)) /\ i \in Int
      BY <1>2, <1>4, <3>0
    <3>2. work[i + 1] = block.txs[k + (i + 1)]
      BY <3>1 DEF InPlace
    <3>3. k + (i + 1) = (k + 1) + i
      <4>1. k \in Int /\ i \in Int
        BY <1>3, <3>1
      <4> HIDE DEF k
      <4> QED BY <4>1
    <3>4. work'[i] = work[i + 1]
      BY <1>2, <1>4, <3>1
    <3> QED BY <3>2, <3>3, <3>4
  <2>4. k + 1 \in Nat
    BY <1>3
  <2>5. \A i \in 1 .. Len(work') : work'[i] = block'.txs[(k + 1) + i]
    BY <1>4, <2>3
  <2> HIDE DEF k
  <2> QED BY <2>2, <2>4, <2>5 DEF InPlace
<1> QED BY <1>2, <1>3, <1>4 DEF tx

\* The treasury, if it is the sender, pays with what it owes.
LEMMA WorkMoves ==
  ASSUME BalanceInv, AtWork, Outgoing(block.txs), work # << >>
  PROVE  LET tx == Head(work)
         IN  /\ Applied \in Nat /\ tx \in Transaction /\ tx.to # Treasury
             /\ tx = block.txs[Applied + 1]
             /\ ApplyTx => AtWork' /\ Applied' = Applied + 1
<1> DEFINE tx == Head(work)
           debit == Debit(tx)
           owed == Owing(work, Treasury)
           rest == Owing(Tail(work), Treasury)
<1>1. /\ Applied \in Nat /\ tx \in Transaction
      /\ tx = block.txs[Applied + 1] /\ Applied + 1 \in DOMAIN block.txs
      /\ work' = Tail(work) /\ block' = block => InPlace' /\ Applied' = Applied + 1
  BY WorkPlace DEF AtWork
<1>2. tx.to # Treasury /\ debit \in Nat /\ Treasury \in Addr
  BY <1>1, DebitType, ConstantTypes DEF Outgoing
<1>3. rest \in Nat /\ owed = (IF tx.from = Treasury THEN debit ELSE 0) + rest
  BY OwingFalls DEF BalanceInv, TypeOK, SealOK
<1>4. ASSUME ApplyTx PROVE AtWork' /\ Applied' = Applied + 1
  <2>1. work' = Tail(work) /\ ants' = Transferred(ants, tx) /\ block' = block
    BY <1>4 DEF ApplyTx
  <2> HIDE DEF tx
  <2>2. ants'[Treasury] = ants[Treasury] - (IF Treasury = tx.from THEN debit ELSE 0) + 0
    BY <1>2, <2>1 DEF Transferred
  <2>3. ants[Treasury] = owed
    BY DEF AtWork
  <2> HIDE DEF debit, owed, rest
  <2>4. ants'[Treasury] = rest
    BY <1>2, <1>3, <2>2, <2>3
  <2> QED BY <1>1, <2>1, <2>4 DEF AtWork, rest
<1> QED BY <1>1, <1>2, <1>4

\* A block is finished: nothing is owed of it.
LEMMA WorkEnds ==
  ASSUME BalanceInv, AtWork, work = << >>
  PROVE  Applied = Len(block.txs) /\ ants[Treasury] = 0
<1>1. block.txs \in Seq(Transaction) /\ Len(block.txs) \in Nat /\ Len(work) = 0
  BY LenProperties DEF BalanceInv, TypeOK, SealOK, Block
<1>2. Applied = Len(block.txs)
  BY <1>1 DEF Applied
<1>3. ants[Treasury] = 0
  BY OwingEmpty DEF AtWork
<1> QED BY <1>2, <1>3

LEMMA BeginFaith ==
  ASSUME BalanceInv, FaithInv, BeginBlock
  PROVE  FaithInv'
<1>1. /\ mempool' = << >> /\ fees' = 0 /\ pc = "up" /\ loop = "running" /\ pc' = "apply"
      /\ UNCHANGED <<ants, miners, chain, snapshot, sealed>>
  BY DEF BeginBlock, accountVars, durableVars
<1>2. chain \in Seq(Block)
  BY DEF BalanceInv, TypeOK, DurableOK
<1>3. /\ TreasuryEmpty /\ Settled /\ sealed[Treasury] = 0
      /\ EndsIn(chain, snapshot.ants, Len(chain) + 1, sealed)
  BY <1>1 DEF FaithInv, TreasuryEmpty
<1>4. /\ AtWork' /\ Applied' = 0
      /\ block' \in Block /\ block'.miners = miners
      /\ \A i \in DOMAIN block'.txs : \E n \in DOMAIN mempool : block'.txs[i] = mempool[n]
  BY <1>3, WorkBegins DEF Settled
<1>5. Outgoing(block'.txs) /\ Outgoing(mempool)'
  BY <1>1, <1>3, <1>4 DEF TreasuryEmpty, Outgoing
<1>6. TreasuryEmpty'
  BY <1>1, <1>3, <1>4, <1>5 DEF TreasuryEmpty, Outgoing
<1>7. EndsIn(chain, snapshot.ants, Len(chain) + 1, sealed)'
  BY <1>1, <1>3
<1>8. Mirrored(Append(chain, block'), snapshot.ants, Len(chain) + 1, 0, 0, ants)
  <2>1. \A a \in Addr \ {Treasury} : ants[a] = sealed[a]
    BY <1>3 DEF Settled
  <2> QED BY <1>2, <1>3, <1>4, <2>1, BeginMirrored
<1>9. InBlock'
  <2>1. Mirrored(Append(chain', block'), snapshot'.ants, Len(chain') + 1, 0, fees', ants')
    BY <1>1, <1>8
  <2> QED BY <1>4, <2>1 DEF InBlock
<1> QED BY <1>1, <1>6, <1>7, <1>9 DEF FaithInv

LEMMA ApplyFaith ==
  ASSUME BalanceInv, FaithInv, ApplyTx, pc = "apply"
  PROVE  FaithInv'
<1> DEFINE tx == Head(work)
           k == Applied
           d == Append(chain, block)
           b == Len(chain) + 1
<1>1. /\ work # << >> /\ Debit(tx) <= ants[tx.from]
      /\ ants' = Transferred(ants, tx) /\ fees' = fees + tx.fee /\ pc' = "apply"
      /\ UNCHANGED <<block, chain, snapshot, sealed, miners, mempool>>
  BY DEF ApplyTx, poolVars, durableVars
<1>2. /\ chain \in Seq(Block) /\ block \in Block /\ Len(chain) \in Nat
      /\ ants \in [Addr -> Nat]
  BY LenProperties DEF BalanceInv, TypeOK, AccountsOK, DurableOK, SealOK
<1>3. /\ InBlock /\ TreasuryEmpty /\ EndsIn(chain, snapshot.ants, Len(chain) + 1, sealed)
      /\ Outgoing(block.txs)
  BY DEF FaithInv, TreasuryEmpty
<1>4. /\ k \in Nat /\ tx \in Transaction /\ tx.to # Treasury /\ tx = block.txs[k + 1]
      /\ AtWork' /\ Applied' = k + 1
  BY <1>1, <1>3, WorkMoves DEF InBlock
<1>5. d[b] = block /\ b \in Nat \ {0}
  BY <1>2, AppendProperties
<1>6. Mirrored(d, snapshot.ants, b, k, fees, ants)
  BY <1>3 DEF InBlock
<1>7. tx = d[b].txs[k + 1]
  BY <1>4, <1>5
<1> HIDE DEF d, b, k, tx
<1>8. Mirrored(d, snapshot.ants, b, k + 1, fees + tx.fee, Transferred(ants, tx))
  BY <1>1, <1>2, <1>4, <1>5, <1>6, <1>7, TxMirrored
<1>9. Mirrored(Append(chain', block'), snapshot'.ants, Len(chain') + 1, k + 1, fees', ants')
  BY <1>1, <1>8 DEF d, b
<1>10. InBlock'
  BY <1>4, <1>9 DEF InBlock
<1>11. TreasuryEmpty' /\ EndsIn(chain, snapshot.ants, Len(chain) + 1, sealed)'
  BY <1>1, <1>3 DEF TreasuryEmpty, Outgoing
<1> QED BY <1>1, <1>10, <1>11 DEF FaithInv

\* The treasury has no share of the fees.
LEMMA FinishFaith ==
  ASSUME BalanceInv, FaithInv, FinishBlock
  PROVE  FaithInv'
<1> DEFINE d == Append(chain, block)
           b == Len(chain) + 1
           m == Len(block.txs)
<1>1. /\ work = << >> /\ pc = "apply" /\ pc' = "store"
      /\ ants' = WithFees(ants, block.miners, fees)
      /\ UNCHANGED <<block, chain, snapshot, sealed, miners, mempool>>
  BY DEF FinishBlock, durableVars
<1>2. /\ chain \in Seq(Block) /\ block \in Block /\ Len(chain) \in Nat
      /\ ants \in [Addr -> Nat] /\ m \in Nat /\ Treasury \in Addr /\ Treasury # Reserve
  BY LenProperties, ConstantTypes
     DEF BalanceInv, TypeOK, AccountsOK, DurableOK, SealOK, Block
<1>3. InBlock /\ TreasuryEmpty /\ EndsIn(chain, snapshot.ants, Len(chain) + 1, sealed)
  BY <1>1 DEF FaithInv
<1>4. Applied = m /\ ants[Treasury] = 0
  BY <1>1, <1>3, WorkEnds DEF InBlock
<1>5. ants'[Treasury] = 0
  <2>1. Treasury \notin block.miners
    BY <1>1, <1>3 DEF TreasuryEmpty
  <2> QED BY <1>1, <1>2, <1>4, <2>1 DEF WithFees
<1>6. EndsIn(d, snapshot.ants, Len(chain) + 2, ants')
  <2>1. d[b] = block /\ b \in Nat \ {0} /\ b + 1 = Len(chain) + 2
    BY <1>2, AppendProperties
  <2>2. Mirrored(d, snapshot.ants, b, m, fees, ants)
    BY <1>3, <1>4 DEF InBlock
  <2>3. m = Len(d[b].txs)
    BY <2>1
  <2> HIDE DEF d, b, m
  <2>4. EndsIn(d, snapshot.ants, b + 1, WithFees(ants, d[b].miners, fees))
    BY <1>2, <1>4, <2>1, <2>2, <2>3, BlockMirrored
  <2> QED BY <1>1, <2>1, <2>4
<1>7. EndsIn(Append(chain', block'), snapshot'.ants, Len(chain') + 2, ants')
  BY <1>1, <1>6
<1>8. TreasuryEmpty' /\ EndsIn(chain, snapshot.ants, Len(chain) + 1, sealed)'
  BY <1>1, <1>3 DEF TreasuryEmpty, Outgoing
<1> QED BY <1>1, <1>5, <1>7, <1>8 DEF FaithInv

\* Nothing is pending in a mempool that is emptied.
LEMMA NothingOwed ==
  ASSUME mempool' = << >>
  PROVE  PendingDebit(Treasury)' = 0
BY OwingEmpty DEF PendingDebit

\* A block is stored, or is lost with the loop.
LEMMA StoreFaith ==
  ASSUME BalanceInv, PoolEmpty, FaithInv, Store \/ StoreFails
  PROVE  FaithInv'
<1>1. /\ pc = "store" /\ pc' = "up"
      /\ \/ UNCHANGED <<chain, sealed>> /\ loop' = "exited"
         \/ chain' = Append(chain, block) /\ sealed' = ants
      /\ UNCHANGED <<ants, mempool, miners, snapshot>>
  BY DEF Store, StoreFails, LoopEnds, accountVars, poolVars
<1>2. /\ chain \in Seq(Block) /\ block \in Block /\ Len(chain) \in Nat
  BY LenProperties DEF BalanceInv, TypeOK, DurableOK, SealOK
<1>3. /\ TreasuryEmpty /\ EndsIn(chain, snapshot.ants, Len(chain) + 1, sealed)
      /\ EndsIn(Append(chain, block), snapshot.ants, Len(chain) + 2, ants)
      /\ ants[Treasury] = 0
  BY <1>1 DEF FaithInv
<1>4. TreasuryEmpty'
  BY <1>1, <1>3 DEF TreasuryEmpty, Outgoing
<1>5. CASE UNCHANGED <<chain, sealed>> /\ loop' = "exited"
  BY <1>1, <1>3, <1>4, <1>5 DEF FaithInv
<1>6. CASE chain' = Append(chain, block) /\ sealed' = ants
  <2>1. Len(chain') + 1 = Len(chain) + 2
    BY <1>2, <1>6, AppendProperties
  <2>2. EndsIn(chain, snapshot.ants, Len(chain) + 1, sealed)'
    BY <1>1, <1>3, <1>6, <2>1
  <2>3. Settled'
    <3>1. mempool' = << >>
      BY <1>1 DEF PoolEmpty
    <3>2. PendingDebit(Treasury)' = 0
      BY <3>1, NothingOwed
    <3> QED BY <1>1, <1>3, <1>6, <3>2 DEF Settled
  <2> QED BY <1>1, <1>4, <2>2, <2>3 DEF FaithInv
<1> QED BY <1>1, <1>5, <1>6

\* The replay ends in the balances a first pass ends in.
LEMMA RecoverEnds ==
  ASSUME BalanceInv, RestartInv, Recover
  PROVE  \E r : Trace(chain, snapshot.ants, r, Len(chain) + 1, 0) /\ r[Len(chain) + 1][0].sim = ants
<1>1. pc = "replay" /\ next > Len(chain)
  BY DEF Recover
<1>2. /\ chain \in Seq(Block) /\ Len(chain) \in Nat /\ work \in Seq(Transaction)
      /\ Len(work) \in Nat /\ ants \in [Addr -> Nat]
  BY LenProperties DEF BalanceInv, TypeOK, AccountsOK, DurableOK, SealOK
<1>3. AtPlace /\ \E r : Whole(r) /\ Follows(r)
  BY <1>1 DEF RestartInv
<1>4. PICK r : Whole(r) /\ Follows(r)
  BY <1>3
<1>5. next = Len(chain) + 1
  BY <1>1, <1>2, <1>3 DEF AtPlace
<1>6. Applied = 0
  <2>1. block = NoBlock
    <3>1. next \notin DOMAIN chain
      BY <1>1, <1>2, <1>5, LenProperties
    <3> QED BY <1>3, <3>1 DEF AtPlace, BlockAt
  <2>2. Len(block.txs) = 0
    BY <2>1 DEF NoBlock
  <2> QED BY <1>2, <1>3, <2>2 DEF Applied, AtPlace
<1> DEFINE e == r[Len(chain) + 1][0]
<1>7. e.sim \in [Addr -> Nat] /\ e.topups \in [Addr -> Nat]
  <2>1. Len(chain) + 1 \in 1 .. Len(chain) + 1 /\ 0 \in Nat
    BY <1>2
  <2> QED BY <1>2, <1>4, <2>1, WholeTypes
<1>8. \A a \in Addr : ants[a] = e.sim[a] + (e.topups[a] - e.topups[a])
  BY <1>4, <1>5, <1>6 DEF Follows
<1>9. e.sim = ants
  <2> HIDE DEF e
  <2>1. \A a \in Addr : ants[a] = e.sim[a]
    BY <1>7, <1>8
  <2> QED BY <1>2, <1>7, <2>1
<1> QED BY <1>4, <1>9 DEF Whole

LEMMA RecoverFaith ==
  ASSUME BalanceInv, RestartInv, PoolEmpty, FaithInv, Recover
  PROVE  ants = sealed /\ FaithInv'
<1>1. /\ pc = "replay" /\ pc' = "up"
      /\ UNCHANGED <<ants, mempool, miners, chain, snapshot, sealed>>
  BY DEF Recover, accountVars, durableVars
<1>2. ants = sealed
  BY RecoverEnds DEF FaithInv, EndsIn
<1>3. Settled'
  <2>1. mempool' = << >>
    BY <1>1 DEF PoolEmpty
  <2> QED BY <1>1, <1>2, <2>1, NothingOwed DEF Settled, FaithInv, TreasuryEmpty
<1>4. FaithInv'
  BY <1>1, <1>3 DEF FaithInv, TreasuryEmpty, Outgoing
<1> QED BY <1>2, <1>4

\* FaithInv is inductive.
LEMMA FaithInductive ==
  ASSUME OnlyTransfers
  PROVE  /\ Init => FaithInv
         /\ BalanceInv /\ RestartInv /\ PoolEmpty /\ FaithInv /\ [Next]_vars => FaithInv'
<1>1. ASSUME BalanceInv, RestartInv, PoolEmpty, FaithInv, [Next]_vars PROVE FaithInv'
  <2>1. ASSUME UNCHANGED <<chain, snapshot, sealed>>, Treasury \notin miners',
               mempool' \in {mempool, << >>},
               pc' \in {"down", "reconcile", "replay", "refused"}
        PROVE  FaithInv'
    <3>1. Outgoing(mempool)'
      BY <1>1, <2>1 DEF FaithInv, TreasuryEmpty, Outgoing
    <3> QED BY <1>1, <2>1, <3>1 DEF FaithInv, TreasuryEmpty
  <2>2. CASE Requests
    BY <1>1, <2>2, RequestsFaith
  <2>3. CASE Syncing
    BY <1>1, <2>3
       DEF Syncing, Sync, Truncate, WriteSnapshot, OnlyTransfers, FaithInv, TreasuryEmpty
  <2>4. CASE BeginBlock \/ FinishBlock
    BY <1>1, <2>4, BeginFaith, FinishFaith
  <2>5. CASE ApplyTx
    <3>1. CASE pc = "apply"
      BY <1>1, <2>5, <3>1, ApplyFaith
    <3>2. CASE pc = "replay"
      <4>1. UNCHANGED <<chain, snapshot, sealed, miners, mempool>> /\ pc' = pc
        BY <2>5 DEF ApplyTx, poolVars, durableVars
      <4> QED BY <1>1, <2>1, <3>2, <4>1 DEF FaithInv, TreasuryEmpty
    <3> QED BY <2>5, <3>1, <3>2 DEF ApplyTx
  <2>6. CASE Store \/ StoreFails
    BY <1>1, <2>6, StoreFaith
  <2>7. CASE WriteFails
    BY <1>1, <2>7 DEF WriteFails, FaithInv, TreasuryEmpty
  <2>8. CASE ApplyFails
    <3>1. /\ UNCHANGED <<chain, snapshot, sealed, miners, mempool>>
          /\ pc' = "up" /\ loop' = "exited"
      BY <2>8 DEF ApplyFails, LoopEnds, poolVars, durableVars
    <3> QED BY <1>1, <3>1 DEF FaithInv, TreasuryEmpty, Outgoing
  <2>9. CASE Crash
    <3>1. /\ UNCHANGED <<chain, snapshot, sealed>> /\ miners' = {} /\ mempool' = << >>
          /\ pc' = "down"
      BY <2>9 DEF Crash, durableVars
    <3> QED BY <2>1, <3>1
  <2>10. CASE Restart
    <3>1. /\ UNCHANGED <<chain, snapshot, sealed, mempool>> /\ pc' = "reconcile"
          /\ miners' = Eligible(snapshot.sessions)
      BY <2>10 DEF Restart, durableVars
    <3>2. Treasury \notin miners'
      BY <1>1, <3>1, NodeLedgerAssumption DEF Eligible, FaithInv, TreasuryEmpty
    <3> QED BY <2>1, <3>1, <3>2
  <2>11. CASE RestartFails \/ ReconcileTx \/ ReconcileBlock \/ StartReplay \/ ReplayBlock
              \/ ReplayFails
    <3>1. /\ UNCHANGED <<chain, snapshot, sealed, miners, mempool>>
          /\ pc' \in {"down", "reconcile", "replay", "refused"}
      BY <2>11 DEF RestartFails, ReconcileTx, ReconcileBlock, StartReplay, ReplayBlock,
                   ReplayFails, poolVars, durableVars
    <3> QED BY <1>1, <2>1, <3>1 DEF FaithInv, TreasuryEmpty
  <2>12. CASE Recover
    BY <1>1, <2>12, RecoverFaith
  <2>13. CASE UNCHANGED vars
    BY <1>1, <2>13
       DEF vars, FaithInv, TreasuryEmpty, Outgoing, Settled, InBlock, AtWork, Applied,
           InPlace, PendingDebit
  <2> QED BY <1>1, <2>2, <2>3, <2>4, <2>5, <2>6, <2>7, <2>8, <2>9, <2>10, <2>11, <2>12, <2>13
          DEF Next, Sealing, Failing, StartUp
<1> QED BY <1>1, InitFaith

\* A restart restores every balance there was when the last block was stored, as
\* long as balances move in transactions only: whatever was lost with the process,
\* in whatever step it stopped, the node replays the chain into the balances that
\* the chain was sealed from.
THEOREM RestartsRestoreBalances ==
  ASSUME OnlyTransfers
  PROVE  Spec => ReplayFaithful /\ ReplayExact
<1>1. CreditInv => PoolEmpty
  BY DEF CreditInv
<1>2. Spec => []FaithInv
  BY <1>1, FaithInductive, AlwaysBalanced, AlwaysCredited, AlwaysRestarting, PTL DEF Spec
<1>3. BalanceInv /\ RestartInv /\ PoolEmpty /\ FaithInv => (Recover => ants = sealed)
  BY RecoverFaith
<1>4. BalanceInv /\ RestartInv /\ PoolEmpty /\ FaithInv /\ [Next]_vars
        => [Recover => ants = sealed]_vars
  BY <1>3
<1>5. [Recover => ants = sealed]_vars
        => [Recover => \A a \in Addr :
                         a \notin spent \/ snapshot = GenesisSnapshot => ants[a] = sealed[a]]_vars
  OBVIOUS
<1>6. Spec => [][Recover => ants = sealed]_vars
  BY <1>1, <1>2, <1>4, AlwaysBalanced, AlwaysCredited, AlwaysRestarting, PTL DEF Spec
<1>7. Spec => [][Recover => \A a \in Addr :
                         a \notin spent \/ snapshot = GenesisSnapshot => ants[a] = sealed[a]]_vars
  BY <1>5, <1>6, PTL
<1> QED BY <1>6, <1>7 DEF ReplayFaithful, ReplayExact
------------------------------------------------------------------------------
(***************************************************************************)
(* A restart gives nobody more than there was, whatever syncs rewrote      *)
(* genesis.json in between.  The new file holds what is left of each       *)
(* activation, and the chain is replayed over it from its beginning.  From *)
(* any first balances, a pass stays below those plus what an account has   *)
(* above its activation: a debit it cannot pay is topped up to nothing     *)
(* left, and so is the activation.  And it comes out exactly there for an  *)
(* account that has sent nothing.                                          *)
(***************************************************************************)

\* What a pass starts from; the treasury has no activation.
Starts == {first \in [Addr -> Nat] : first[Treasury] = 0}

\* Pass s has collected these fees and is bounded by these balances; those that
\* are still have exactly them.
Fits(s, collected, bound, still) ==
  /\ s.fees = collected /\ s.sim[Treasury] = 0
  /\ \A a \in Addr \ {Treasury} :
       s.sim[a] <= bound[a] /\ (a \in still => s.sim[a] = bound[a])

\* So has every trace at transaction k of block b.
Fitting(c, first, b, k, collected, bound, still) ==
  \A r : Trace(c, first, r, b, k) => Fits(r[b][k], collected, bound, still)

\* A bound that is no smaller does as well.
Looser(bound, wider, still, fewer) ==
  /\ fewer \subseteq still
  /\ \A a \in Addr \ {Treasury} :
       /\ bound[a] \in Int /\ wider[a] \in Int /\ bound[a] <= wider[a]
       /\ a \in fewer => bound[a] = wider[a]

\* A balance moves by a transaction, or falls to what it gains.
Gained(a, tx) == IF a = tx.to THEN tx.amount ELSE 0
Paid(a, tx) == IF a = tx.from THEN Debit(tx) ELSE 0
Carries(bound, after, tx, still) ==
  /\ tx.from \notin still
  /\ \A a \in Addr \ {Treasury} :
       /\ bound[a] \in Int /\ after[a] \in Int
       /\ Gained(a, tx) <= after[a] /\ bound[a] - Paid(a, tx) + Gained(a, tx) <= after[a]
       /\ a \in still => after[a] = bound[a] + Gained(a, tx)

LEMMA FitLooser ==
  ASSUME NEW c, NEW first, NEW b \in Nat \ {0}, NEW k \in Nat, NEW collected, NEW bound,
         NEW wider, NEW still, NEW fewer, Looser(bound, wider, still, fewer),
         Fitting(c, first, b, k, collected, bound, still)
  PROVE  Fitting(c, first, b, k, collected, wider, fewer)
<1>1. ASSUME NEW r, Trace(c, first, r, b, k) PROVE Fits(r[b][k], collected, wider, fewer)
  <2> DEFINE s == r[b][k]
  <2>1. s \in Pass
    BY <1>1 DEF Trace
  <2>2. Fits(s, collected, bound, still)
    BY <1>1 DEF Fitting
  <2> HIDE DEF s
  <2>3. s.sim \in [Addr -> Nat]
    BY <2>1 DEF Pass
  <2>4. ASSUME NEW a \in Addr \ {Treasury}
        PROVE  s.sim[a] <= wider[a] /\ (a \in fewer => s.sim[a] = wider[a])
    <3>1. s.sim[a] \in Nat /\ bound[a] \in Int /\ wider[a] \in Int /\ bound[a] <= wider[a]
          /\ s.sim[a] <= bound[a]
      BY <2>2, <2>3 DEF Looser, Fits
    <3>2. a \in fewer => s.sim[a] = bound[a] /\ bound[a] = wider[a]
      BY <2>2 DEF Looser, Fits
    <3> QED BY <3>1, <3>2
  <2> QED BY <2>2, <2>4 DEF Fits, s
<1> QED BY <1>1 DEF Fitting

\* The first pass bounds itself.
LEMMA FitFirst ==
  ASSUME NEW c, NEW first \in Starts, NEW bound, NEW still,
         \A a \in Addr \ {Treasury} : first[a] <= bound[a] /\ (a \in still => first[a] = bound[a])
  PROVE  Fitting(c, first, 1, 0, 0, bound, still)
<1>1. ASSUME NEW r, Trace(c, first, r, 1, 0) PROVE Fits(r[1][0], 0, bound, still)
  <2>1. r[1][0].sim = first /\ r[1][0].fees = 0
    BY <1>1 DEF Trace, FirstPass
  <2> QED BY <2>1 DEF Fits, Starts
<1> QED BY <1>1 DEF Fitting

\* Where a chain ends its next block begins.
LEMMA FitBegins ==
  ASSUME NEW c \in Seq(Block), NEW blk \in Block, NEW first, NEW bound, NEW still,
         Fitting(c, first, Len(c) + 1, 0, 0, bound, still)
  PROVE  Fitting(Append(c, blk), first, Len(c) + 1, 0, 0, bound, still)
<1>1. ASSUME NEW r, Trace(Append(c, blk), first, r, Len(c) + 1, 0)
      PROVE  Fits(r[Len(c) + 1][0], 0, bound, still)
  BY <1>1, TraceShrinks DEF Fitting
<1> QED BY <1>1 DEF Fitting

\* At the beginning of a block nothing has been collected.
LEMMA FitFees ==
  ASSUME NEW c, NEW first, NEW b \in Nat \ {0}, NEW collected, NEW bound, NEW still,
         Fitting(c, first, b, 0, collected, bound, still)
  PROVE  Fitting(c, first, b, 0, 0, bound, still)
<1>1. ASSUME NEW r, Trace(c, first, r, b, 0) PROVE Fits(r[b][0], 0, bound, still)
  <2>1. Fits(r[b][0], collected, bound, still) /\ r[b][0].fees = 0
    BY <1>1, TraceFees DEF Fitting
  <2> QED BY <2>1 DEF Fits
<1> QED BY <1>1 DEF Fitting

\* A transaction: a sender that lacks the debit is topped up to it.
LEMMA FitTx ==
  ASSUME NEW c, NEW first, NEW b \in Nat \ {0}, NEW k \in Nat, NEW collected, NEW bound,
         NEW after, NEW still, NEW tx \in Transaction,
         tx = c[b].txs[k + 1], tx.to # Treasury, Carries(bound, after, tx, still),
         Fitting(c, first, b, k, collected, bound, still)
  PROVE  Fitting(c, first, b, k + 1, collected + tx.fee, after, still)
<1>1. /\ Debit(tx) \in Nat /\ tx.from \in Addr /\ tx.to \in Addr /\ tx.amount \in Nat
      /\ Treasury \in Addr
  BY DebitType, ConstantTypes
<1>2. ASSUME NEW r, Trace(c, first, r, b, k + 1)
      PROVE  Fits(r[b][k + 1], collected + tx.fee, after, still)
  <2> DEFINE s == r[b][k]
             t == r[b][k + 1]
             lack == Lacking(s, tx)
             debit == Debit(tx)
  <2>1. Trace(c, first, r, b, k) /\ s \in Pass /\ t = TxPass(s, tx)
    BY <1>2, TraceBack
  <2>2. Fits(s, collected, bound, still)
    BY <2>1 DEF Fitting
  <2> HIDE DEF s, t
  <2>3. s.sim \in [Addr -> Nat] /\ t.fees = s.fees + tx.fee
    BY <2>1 DEF Pass, TxPass
  <2>4. lack = Minus(debit, s.sim[tx.from]) /\ lack \in Nat /\ debit \in Nat
    BY <1>1, <2>3, MinusType DEF Lacking
  <2>5. \A a \in Addr : t.sim[a] = s.sim[a] + (IF a = tx.from THEN lack ELSE 0)
                                            - (IF a = tx.from THEN debit ELSE 0)
                                            + (IF a = tx.to THEN tx.amount ELSE 0)
    BY <2>1, TxPassMoves
  <2>6. \A a \in Addr : Paid(a, tx) = IF a = tx.from THEN debit ELSE 0
    BY DEF Paid
  <2> HIDE DEF lack, debit
  <2>7. t.sim[Treasury] = 0
    <3>1. s.sim[Treasury] = 0
      BY <2>2 DEF Fits
    <3>2. t.sim[Treasury] = 0 + (IF Treasury = tx.from THEN lack ELSE 0)
                              - (IF Treasury = tx.from THEN debit ELSE 0) + 0
      BY <1>1, <2>5, <3>1
    <3>3. Treasury = tx.from => lack = debit
      BY <2>4, <3>1 DEF Minus
    <3> QED BY <2>4, <3>2, <3>3
  <2>8. ASSUME NEW a \in Addr \ {Treasury}
        PROVE  t.sim[a] <= after[a] /\ (a \in still => t.sim[a] = after[a])
    <3> DEFINE x == s.sim[a]
               gain == Gained(a, tx)
               paid == Paid(a, tx)
    <3>1. /\ x \in Nat /\ gain \in Nat /\ bound[a] \in Int /\ after[a] \in Int
          /\ x <= bound[a] /\ gain <= after[a] /\ bound[a] - paid + gain <= after[a]
          /\ a \in still => x = bound[a] /\ after[a] = bound[a] + gain
      BY <1>1, <2>2, <2>3 DEF Fits, Carries, Gained
    <3>2. t.sim[a] = x + (IF a = tx.from THEN lack ELSE 0)
                       - (IF a = tx.from THEN debit ELSE 0) + gain
      BY <2>5 DEF Gained
    <3>3. paid = IF a = tx.from THEN debit ELSE 0
      BY <2>6
    <3>4. a \in still => a # tx.from
      BY DEF Carries
    <3> HIDE DEF gain, paid
    <3>5. CASE a = tx.from
      <4>1. lack = Minus(debit, x) /\ paid = debit /\ t.sim[a] = x + lack - debit + gain
        BY <2>4, <3>2, <3>3, <3>5
      <4> HIDE DEF x
      <4>2. CASE debit < x \/ debit = x
        <5>1. lack = 0
          BY <2>4, <3>1, <4>1, <4>2 DEF Minus
        <5> QED BY <2>4, <3>1, <3>4, <3>5, <4>1, <5>1
      <4>3. CASE x < debit
        <5>1. x \in Nat /\ debit \in Nat /\ lack = Minus(debit, x)
          BY <2>4, <3>1, <4>1
        <5>3. lack = debit - x
          BY <4>3, <5>1 DEF Minus
        <5>2. t.sim[a] = gain
          BY <3>1, <4>1, <5>1, <5>3
        <5> QED BY <3>1, <3>4, <3>5, <5>2
      <4> QED BY <2>4, <3>1, <4>2, <4>3
    <3>6. CASE a # tx.from
      <4>1. t.sim[a] = x + gain /\ paid = 0
        <5>1. t.sim[a] = x + 0 - 0 + gain
          BY <3>2, <3>6
        <5> HIDE DEF x
        <5> QED BY <3>1, <3>3, <3>6, <5>1
      <4> HIDE DEF x
      <4> QED BY <3>1, <4>1
    <3> QED BY <3>5, <3>6
  <2>9. t.fees = collected + tx.fee
    BY <2>2, <2>3 DEF Fits
  <2> QED BY <2>7, <2>8, <2>9 DEF Fits, t
<1> QED BY <1>2 DEF Fitting

\* The end of a block: pass and bound get the same fees.
LEMMA FitBlock ==
  ASSUME NEW c, NEW first, NEW b \in Nat \ {0}, NEW m \in Nat, NEW collected \in Nat,
         NEW bound, NEW still, m = Len(c[b].txs), c[b].miners \in SUBSET Addr,
         Treasury \notin c[b].miners, \A a \in Addr \ {Treasury} : bound[a] \in Int,
         Fitting(c, first, b, m, collected, bound, still)
  PROVE  Fitting(c, first, b + 1, 0, 0, WithFees(bound, c[b].miners, collected), still)
<1> DEFINE given(a) == (IF a \in c[b].miners THEN Share(c[b].miners, collected) ELSE 0)
                         + (IF a = Reserve THEN Rest(c[b].miners, collected) ELSE 0)
           after == WithFees(bound, c[b].miners, collected)
<1>0. Share(c[b].miners, collected) \in Nat /\ Rest(c[b].miners, collected) \in Nat
  BY ShareType
<1>1. \A a \in Addr : given(a) \in Nat
  BY <1>0
<1>2. given(Treasury) = 0
  BY <1>0, ConstantTypes
<1>3. ASSUME NEW f, NEW a \in Addr, f[a] \in Int
      PROVE  WithFees(f, c[b].miners, collected)[a] = f[a] + given(a)
  BY <1>0, <1>3 DEF WithFees
<1> HIDE DEF given
<1>4. ASSUME NEW r, Trace(c, first, r, b + 1, 0) PROVE Fits(r[b + 1][0], 0, after, still)
  <2> DEFINE s == r[b][m]
             t == r[b + 1][0]
  <2>1. Trace(c, first, r, b, m) /\ s \in Pass /\ t = BlockPass(s, c[b])
    BY <1>4, TraceBackBlock
  <2>2. Fits(s, collected, bound, still)
    BY <2>1 DEF Fitting
  <2> HIDE DEF s, t
  <2>3. s.sim \in [Addr -> Nat]
    BY <2>1 DEF Pass
  <2>4. t.fees = 0 /\ t.sim = WithFees(s.sim, c[b].miners, collected)
    BY <2>1, <2>2 DEF BlockPass, Fits
  <2>5. ASSUME NEW a \in Addr PROVE s.sim[a] \in Nat /\ t.sim[a] = s.sim[a] + given(a)
    <3>1. s.sim[a] \in Nat /\ s.sim[a] \in Int
      BY <2>3
    <3>2. WithFees(s.sim, c[b].miners, collected)[a] = s.sim[a] + given(a)
      BY <1>3, <3>1
    <3> QED BY <2>4, <3>1, <3>2
  <2>6. t.sim[Treasury] = 0
    <3>1. s.sim[Treasury] = 0 /\ t.sim[Treasury] = s.sim[Treasury] + given(Treasury)
      BY <2>2, <2>5, ConstantTypes DEF Fits
    <3> QED BY <1>2, <3>1
  <2>7. ASSUME NEW a \in Addr \ {Treasury}
        PROVE  t.sim[a] <= after[a] /\ (a \in still => t.sim[a] = after[a])
    <3>1. /\ after[a] = bound[a] + given(a) /\ bound[a] \in Int /\ given(a) \in Nat
          /\ s.sim[a] \in Nat /\ t.sim[a] = s.sim[a] + given(a)
          /\ s.sim[a] <= bound[a] /\ (a \in still => s.sim[a] = bound[a])
      BY <1>1, <1>3, <2>2, <2>5 DEF Fits
    <3> HIDE DEF after
    <3> QED BY <3>1
  <2> QED BY <2>4, <2>6, <2>7 DEF Fits, t
<1> QED BY <1>4 DEF Fitting

\* From any first balances, a pass is bounded by those and by what the accounts
\* have above their activation, what is not stored not counted.
Room(first, balance, act, lost) ==
  [a \in Addr |-> first[a] + (balance[a] - act[a]) - lost[a]]

FromAny(c, b, k, collected, balance, act, lost, still) ==
  \A first \in Starts :
    Fitting(c, first, b, k, collected, Room(first, balance, act, lost), still)

Integral(balance, act, lost) ==
  balance \in [Addr -> Int] /\ act \in [Addr -> Int] /\ lost \in [Addr -> Int]

Over(balance, act, lost, a) == (balance[a] - act[a]) - lost[a]

LEMMA AnyLooser ==
  ASSUME NEW c, NEW b \in Nat \ {0}, NEW k \in Nat, NEW collected,
         NEW bal, NEW act, NEW lost, NEW still, Integral(bal, act, lost),
         NEW newBal, NEW newAct, NEW newLost, NEW fewer, Integral(newBal, newAct, newLost),
         fewer \subseteq still,
         \A a \in Addr \ {Treasury} :
           /\ Over(bal, act, lost, a) <= Over(newBal, newAct, newLost, a)
           /\ a \in fewer => Over(bal, act, lost, a) = Over(newBal, newAct, newLost, a),
         FromAny(c, b, k, collected, bal, act, lost, still)
  PROVE  FromAny(c, b, k, collected, newBal, newAct, newLost, fewer)
<1>1. ASSUME NEW first \in Starts
      PROVE  Fitting(c, first, b, k, collected, Room(first, newBal, newAct, newLost), fewer)
  <2> DEFINE bound == Room(first, bal, act, lost)
             wider == Room(first, newBal, newAct, newLost)
  <2>1. ASSUME NEW a \in Addr \ {Treasury}
        PROVE  /\ bound[a] \in Int /\ wider[a] \in Int /\ bound[a] <= wider[a]
               /\ a \in fewer => bound[a] = wider[a]
    <3> DEFINE f == first[a]
               o == Over(bal, act, lost, a)
               n == Over(newBal, newAct, newLost, a)
    <3>1. f \in Nat
      BY DEF Starts
    <3>2. o \in Int /\ n \in Int
      BY DEF Integral, Over
    <3>3. o <= n /\ (a \in fewer => o = n)
      OBVIOUS
    <3>4. bound[a] = f + o
      BY <3>1 DEF Room, Over, Integral
    <3>5. wider[a] = f + n
      BY <3>1 DEF Room, Over, Integral
    <3> HIDE DEF f, o, n, bound, wider
    <3> QED BY <3>1, <3>2, <3>3, <3>4, <3>5
  <2> HIDE DEF bound, wider
  <2>2. Looser(bound, wider, still, fewer)
    BY <2>1 DEF Looser
  <2>3. Fitting(c, first, b, k, collected, bound, still)
    BY DEF FromAny, bound
  <2>4. Fitting(c, first, b, k, collected, wider, fewer)
    BY <2>2, <2>3, FitLooser
  <2> QED BY <2>4 DEF wider
<1> QED BY <1>1 DEF FromAny

\* A block in the making: the same, and from genesis.json, by the balances.
Tracks(c, base, b, k, collected, balance, act, still) ==
  /\ FromAny(c, b, k, collected, balance, act, Zero, still)
  /\ Fitting(c, base, b, k, collected, balance, still)

\* A transaction that its sender can pay for carries both bounds on.
LEMMA CarriesBoth ==
  ASSUME BalanceInv, NEW first \in Starts, NEW tx \in Transaction, NEW still,
         Debit(tx) <= ants[tx.from], tx.from \notin still,
         NEW newAct, newAct = [activated EXCEPT ![tx.from] = Minus(@, Debit(tx))]
  PROVE  /\ Carries(ants, Transferred(ants, tx), tx, still)
         /\ Carries(Room(first, ants, activated, Zero),
                    Room(first, Transferred(ants, tx), newAct, Zero), tx, still)
<1> DEFINE debit == Debit(tx)
           after == Transferred(ants, tx)
           bound == Room(first, ants, activated, Zero)
           wider == Room(first, after, newAct, Zero)
<1>1. /\ debit \in Nat /\ tx.from \in Addr /\ tx.to \in Addr /\ tx.amount \in Nat
      /\ ants \in [Addr -> Nat] /\ activated \in [Addr -> Nat] /\ first \in [Addr -> Nat]
      /\ debit <= ants[tx.from]
  BY DebitType DEF BalanceInv, TypeOK, AccountsOK, Starts
<1>2. \A a \in Addr : activated[a] <= ants[a]
  BY DEF BalanceInv, ActivatedBounded
<1>3. ASSUME NEW a \in Addr
      PROVE  /\ Gained(a, tx) \in Nat /\ Paid(a, tx) \in Nat
             /\ Paid(a, tx) <= ants[a] /\ ants[a] \in Nat
             /\ after[a] = ants[a] - Paid(a, tx) + Gained(a, tx)
             /\ a # tx.from => Paid(a, tx) = 0
  BY <1>1 DEF Gained, Paid, Transferred
<1>4. Carries(ants, after, tx, still)
  <2>1. ASSUME NEW a \in Addr \ {Treasury}
        PROVE  /\ ants[a] \in Int /\ after[a] \in Int
               /\ Gained(a, tx) <= after[a]
               /\ ants[a] - Paid(a, tx) + Gained(a, tx) <= after[a]
               /\ a \in still => after[a] = ants[a] + Gained(a, tx)
    <3> DEFINE g == Gained(a, tx)
               p == Paid(a, tx)
    <3>1. g \in Nat /\ p \in Nat /\ p <= ants[a] /\ ants[a] \in Nat
          /\ after[a] = ants[a] - p + g /\ (a # tx.from => p = 0)
      BY <1>3
    <3> HIDE DEF g, p, after
    <3>2. a \in still => p = 0
      BY <3>1
    <3>3. /\ ants[a] \in Int /\ after[a] \in Int /\ g <= after[a] /\ ants[a] - p + g <= after[a]
          /\ a \in still => after[a] = ants[a] + g
      BY <3>1, <3>2
    <3> QED BY <3>3 DEF g, p
  <2> HIDE DEF after
  <2> QED BY <2>1 DEF Carries
<1>5. ASSUME NEW a \in Addr
      PROVE  newAct[a] = Minus(activated[a], Paid(a, tx))
  <2>1. CASE a = tx.from
    BY <1>1, <2>1 DEF Paid
  <2>2. CASE a # tx.from
    BY <1>1, <2>2 DEF Paid, Minus
  <2> QED BY <2>1, <2>2
<1>6. ASSUME NEW a \in Addr \ {Treasury}
      PROVE  /\ bound[a] \in Int /\ wider[a] \in Int
             /\ Gained(a, tx) <= wider[a]
             /\ bound[a] - Paid(a, tx) + Gained(a, tx) <= wider[a]
             /\ a \in still => wider[a] = bound[a] + Gained(a, tx)
  <2> DEFINE g == Gained(a, tx)
             p == Paid(a, tx)
             f == first[a]
             x == ants[a]
             y == activated[a]
             z == newAct[a]
  <2>1. /\ g \in Nat /\ p \in Nat /\ f \in Nat /\ x \in Nat /\ y \in Nat
        /\ p <= x /\ y <= x /\ z = Minus(y, p)
        /\ after[a] = x - p + g /\ (a \in still => p = 0)
    BY <1>1, <1>2, <1>3, <1>5
  <2>2. bound[a] = f + (x - y) - 0 /\ wider[a] = f + (after[a] - z) - 0
    BY DEF Room, Zero
  <2> HIDE DEF g, p, f, x, y, z, bound, wider, after
  <2>3. z = IF y < p THEN 0 ELSE y - p
    BY <2>1 DEF Minus
  <2>4. bound[a] = f + (x - y) /\ bound[a] \in Int
    BY <2>1, <2>2
  <2>5. CASE y < p
    <3>1. wider[a] = f + (x - p + g)
      BY <2>1, <2>2, <2>3, <2>5
    <3>2. ~ (a \in still)
      BY <2>1, <2>5
    <3>3. g <= wider[a] /\ bound[a] - p + g <= wider[a] /\ wider[a] \in Int
      BY <2>1, <2>4, <3>1
    <3> QED BY <2>4, <3>2, <3>3 DEF g, p
  <2>6. CASE ~ (y < p)
    <3>1. wider[a] = f + (x - y) + g
      BY <2>1, <2>2, <2>3, <2>6
    <3>2. /\ g <= wider[a] /\ bound[a] - p + g <= wider[a] /\ wider[a] \in Int
          /\ wider[a] = bound[a] + g
      BY <2>1, <2>4, <3>1
    <3> QED BY <2>4, <3>2 DEF g, p
  <2> QED BY <2>5, <2>6
<1>7. Carries(bound, wider, tx, still)
  <2> HIDE DEF bound, wider
  <2> QED BY <1>6 DEF Carries
<1> QED BY <1>4, <1>7

LEMMA TracksTx ==
  ASSUME BalanceInv, NEW c, NEW base, NEW b \in Nat \ {0}, NEW k \in Nat, NEW still,
         NEW fewer, fewer \subseteq still, NEW tx \in Transaction,
         tx = c[b].txs[k + 1], tx.to # Treasury, tx.from \notin fewer,
         Debit(tx) <= ants[tx.from], base \in Starts,
         NEW newAct, newAct = [activated EXCEPT ![tx.from] = Minus(@, Debit(tx))],
         Tracks(c, base, b, k, fees, ants, activated, still)
  PROVE  Tracks(c, base, b, k + 1, fees + tx.fee, Transferred(ants, tx), newAct, fewer)
<1>1. /\ ants \in [Addr -> Int] /\ activated \in [Addr -> Int] /\ Zero \in [Addr -> Int]
  BY DEF BalanceInv, TypeOK, AccountsOK, Zero
<1>2. Fitting(c, base, b, k, fees, ants, fewer)
  <2>1. Looser(ants, ants, still, fewer)
    BY <1>1 DEF Looser
  <2> QED BY <2>1, FitLooser DEF Tracks
<1>3. FromAny(c, b, k, fees, ants, activated, Zero, fewer)
  <2>1. Integral(ants, activated, Zero)
    BY <1>1 DEF Integral
  <2>2. \A a \in Addr \ {Treasury} :
          /\ Over(ants, activated, Zero, a) <= Over(ants, activated, Zero, a)
          /\ a \in fewer => Over(ants, activated, Zero, a) = Over(ants, activated, Zero, a)
    BY <1>1 DEF Over
  <2> QED BY <2>1, <2>2, AnyLooser DEF Tracks
<1>4. Fitting(c, base, b, k + 1, fees + tx.fee, Transferred(ants, tx), fewer)
  <2>1. Carries(ants, Transferred(ants, tx), tx, fewer)
    BY CarriesBoth
  <2> QED BY <1>2, <2>1, FitTx
<1>5. ASSUME NEW first \in Starts
      PROVE  Fitting(c, first, b, k + 1, fees + tx.fee,
                     Room(first, Transferred(ants, tx), newAct, Zero), fewer)
  <2>1. Carries(Room(first, ants, activated, Zero),
                Room(first, Transferred(ants, tx), newAct, Zero), tx, fewer)
    BY CarriesBoth
  <2>2. Fitting(c, first, b, k, fees, Room(first, ants, activated, Zero), fewer)
    BY <1>3 DEF FromAny
  <2> QED BY <2>1, <2>2, FitTx
<1> QED BY <1>4, <1>5 DEF Tracks, FromAny

LEMMA TracksBlock ==
  ASSUME BalanceInv, NEW c, NEW base, NEW b \in Nat \ {0}, NEW m \in Nat, NEW still,
         m = Len(c[b].txs), c[b].miners \in SUBSET Addr, Treasury \notin c[b].miners,
         Tracks(c, base, b, m, fees, ants, activated, still)
  PROVE  Tracks(c, base, b + 1, 0, 0, WithFees(ants, c[b].miners, fees), activated, still)
<1> DEFINE ms == c[b].miners
           after == WithFees(ants, ms, fees)
<1>1. /\ ants \in [Addr -> Nat] /\ activated \in [Addr -> Nat] /\ fees \in Nat
      /\ Share(ms, fees) \in Nat /\ Rest(ms, fees) \in Nat /\ ms \in SUBSET Addr
  BY ShareType DEF BalanceInv, TypeOK, AccountsOK, SealOK
<1>2. Fitting(c, base, b + 1, 0, 0, after, still)
  <2>1. \A a \in Addr \ {Treasury} : ants[a] \in Int
    BY <1>1
  <2> QED BY <1>1, <2>1, FitBlock DEF Tracks
<1>3. ASSUME NEW first \in Starts
      PROVE  Fitting(c, first, b + 1, 0, 0, Room(first, after, activated, Zero), still)
  <2> DEFINE bound == Room(first, ants, activated, Zero)
             mid == WithFees(bound, ms, fees)
             wider == Room(first, after, activated, Zero)
  <2>1. first \in [Addr -> Nat]
    BY DEF Starts
  <2>2. ASSUME NEW a \in Addr
        PROVE  bound[a] \in Int /\ mid[a] \in Int /\ mid[a] = wider[a]
    <3> DEFINE g == IF a \in ms THEN Share(ms, fees) ELSE 0
               h == IF a = Reserve THEN Rest(ms, fees) ELSE 0
               f == first[a]
               x == ants[a]
               y == activated[a]
    <3>1. g \in Nat /\ h \in Nat /\ f \in Nat /\ x \in Nat /\ y \in Nat
      BY <1>1, <2>1
    <3>2. bound[a] = f + (x - y) - 0
      BY DEF Room, Zero
    <3>3. mid[a] = bound[a] + g + h /\ after[a] = x + g + h
      BY DEF WithFees
    <3>4. wider[a] = f + (after[a] - y) - 0
      BY DEF Room, Zero
    <3> HIDE DEF g, h, f, x, y, bound, mid, wider, after
    <3> QED BY <3>1, <3>2, <3>3, <3>4
  <2>3. Fitting(c, first, b, m, fees, bound, still)
    BY DEF Tracks, FromAny
  <2> HIDE DEF bound, wider
  <2>4. \A a \in Addr \ {Treasury} : bound[a] \in Int
    BY <2>2
  <2>5. Fitting(c, first, b + 1, 0, 0, mid, still)
    BY <1>1, <2>3, <2>4, FitBlock
  <2> HIDE DEF mid
  <2>6. Looser(mid, wider, still, still)
    BY <2>2 DEF Looser
  <2>7. b + 1 \in Nat \ {0} /\ 0 \in Nat
    OBVIOUS
  <2>8. Fitting(c, first, b + 1, 0, 0, wider, still)
    BY <2>5, <2>6, <2>7, FitLooser
  <2> QED BY <2>8 DEF wider
<1> QED BY <1>2, <1>3 DEF Tracks, FromAny

\* Who has sent nothing; an administrator's mint is in no block, so with it
\* nobody counts.
Still == IF "mint" \in Ops THEN {} ELSE Addr \ spent

\* A block that pays the treasury nothing, sent by these.
Plain(blk) == Treasury \notin blk.miners /\ Outgoing(blk.txs)
Known(blk, who) == Plain(blk) /\ \A i \in DOMAIN blk.txs : blk.txs[i].from \in who

\* The treasury has no balance, sessions or activation of its own.
Bare ==
  /\ snapshot.ants[Treasury] = 0 /\ snapshot.sessions[Treasury] = 0
  /\ sealed[Treasury] = 0 /\ sessions[Treasury] = 0
  /\ Treasury \notin miners /\ Outgoing(mempool)
  /\ pc \in Serving => activated[Treasury] = 0

\* What it holds is the advance for its credits.
Advanced ==
  /\ pc \in {"up", "persist", "write"} /\ loop = "running" =>
       ants[Treasury] = PendingDebit(Treasury)
  /\ pc = "apply" => AtWork
  /\ pc = "store" => ants[Treasury] = 0

\* The senders of the chain, and of what is applied of the block.
Senders ==
  /\ \A n \in DOMAIN chain : Known(chain[n], spent)
  /\ pc = "apply" => Plain(block) /\ \A i \in 1 .. Applied : block.txs[i].from \in spent
  /\ pc = "store" => Known(block, spent)

\* Nothing is unstored between blocks, until the loop has ended.
Stored ==
  /\ pc \in {"up", "persist", "write"} /\ loop = "running" => unstored = Zero
  /\ pc \in {"down", "reconcile", "replay"} => unstored = Zero

\* The start of a node.
Starting ==
  /\ \A a \in Addr \ spent : topups[a] = 0
  /\ pc = "reconcile" => activated = snapshot.ants

\* An activation belongs to an account.
Belongs == \A a \in Addr : activated[a] > 0 => a \in exists

BareInv == Bare /\ Advanced /\ Senders /\ Stored /\ Starting /\ Belongs

\* A sender more changes nothing of that.
LEMMA KnownGrows ==
  ASSUME NEW blk, NEW who, NEW more, who \subseteq more, Known(blk, who)
  PROVE  Known(blk, more)
BY DEF Known

LEMMA InitBare == Init => BareInv
<1> SUFFICES ASSUME Init PROVE BareInv
  OBVIOUS
<1>1. /\ chain = << >> /\ miners = {} /\ mempool = << >> /\ pc = "down" /\ spent = {}
      /\ sealed = GenesisOf(GenesisAnts) /\ sessions = Zero /\ activated = Zero
      /\ topups = Zero /\ unstored = Zero
      /\ snapshot.ants = GenesisOf(GenesisAnts)
      /\ snapshot.sessions = GenesisOf(GenesisSessions)
  BY DEF Init, GenesisSnapshot
<1>2. /\ GenesisOf(GenesisAnts)[Treasury] = 0 /\ GenesisOf(GenesisSessions)[Treasury] = 0
      /\ \A a \in Addr : Zero[a] = 0
  BY NodeLedgerAssumption, ConstantTypes DEF GenesisOf, Zero
<1>3. Bare
  BY <1>1, <1>2, ConstantTypes DEF Bare, Outgoing, Serving
<1>4. Advanced /\ Senders /\ Stored /\ Starting
  BY <1>1, <1>2 DEF Advanced, Senders, Stored, Starting
<1>5. Belongs
  BY <1>1, <1>2 DEF Belongs
<1> QED BY <1>3, <1>4, <1>5 DEF BareInv

\* What a request that is allowed here does to the balances.
Queues(tx) ==
  /\ mempool' = Append(mempool, tx) /\ tx.to # Treasury
  /\ ants'[Treasury] = ants[Treasury] + (IF tx.from = Treasury THEN Debit(tx) ELSE 0)
  /\ \A a \in Addr \ {Treasury} : ants'[a] = ants[a]
Mints ==
  /\ "mint" \in Ops /\ UNCHANGED mempool /\ ants'[Treasury] = ants[Treasury]
  /\ \A a \in Addr : ants[a] <= ants'[a]

LEMMA RequestsAdd ==
  ASSUME TakenOnChain, BalanceInv, Requests
  PROVE  /\ pc = "up" /\ exists \subseteq exists'
         /\ UNCHANGED <<pc, loop, activated, sessions, miners, topups, chain, snapshot,
                        sealed, unstored, spent, work, block, fees>>
         /\ Mints \/ \E tx \in Transaction : Queues(tx)
<1>1. mempool \in Seq(Transaction) /\ ants \in [Addr -> Nat]
  BY DEF BalanceInv, TypeOK, AccountsOK, PoolOK
<1> DEFINE kept == UNCHANGED <<pc, loop, activated, sessions, miners, topups, chain,
                               snapshot, sealed, unstored, spent, work, block, fees>>
<1>2. CASE SubmitSome
  <2>1. PICK tx \in Transaction : Submit(tx) /\ tx.from \in Wallets /\ tx.to \in Wallets
    BY <1>2, BalanceInv, SubmitIsTyped
  <2>2. /\ pc = "up" /\ mempool' = Append(mempool, tx) /\ ants' = ants
        /\ exists' = exists /\ kept
    BY <2>1 DEF Submit, accountVars, durableVars, replayVars, sealVars
  <2>3. tx.from # Treasury /\ tx.to # Treasury
    BY <2>1, NodeLedgerAssumption
  <2>4. ants'[Treasury] = ants[Treasury] + (IF tx.from = Treasury THEN Debit(tx) ELSE 0)
    BY <1>1, <2>2, <2>3, ConstantTypes
  <2> QED BY <2>2, <2>3, <2>4 DEF Queues
<1>3. ASSUME NEW to \in Wallets, NEW hash \in Hashes, NEW amount \in Amounts,
             BridgeCredit(to, amount, hash)
      PROVE  pc = "up" /\ exists \subseteq exists' /\ kept /\ \E tx \in Transaction : Queues(tx)
  <2> DEFINE tx == [from |-> Treasury, to |-> to, amount |-> amount, fee |-> MinFee,
                    nonce |-> 0, time |-> Now, hash |-> Trimmed[hash]]
  <2>1. tx \in Transaction /\ tx.from = Treasury /\ tx.to # Treasury
    BY ConstantTypes, NodeLedgerAssumption DEF Transaction
  <2>2. /\ pc = "up" /\ mempool' = Append(mempool, tx) /\ ants' = PreFunded(tx)
        /\ exists \subseteq exists' /\ kept
    BY <1>3 DEF BridgeCredit, durableVars, replayVars, sealVars
  <2> HIDE DEF tx
  <2>3. Debit(tx) \in Nat /\ Treasury \in Addr
    BY <2>1, DebitType, ConstantTypes
  <2>4. /\ ants'[Treasury] = ants[Treasury] + Debit(tx)
        /\ \A a \in Addr \ {Treasury} : ants'[a] = ants[a]
    BY <1>1, <2>2, <2>3 DEF PreFunded
  <2> QED BY <2>1, <2>2, <2>4 DEF Queues
<1>4. ASSUME NEW to \in Wallets, NEW amount \in Amounts, AdminMint(to, amount)
      PROVE  pc = "up" /\ exists \subseteq exists' /\ kept /\ Mints
  <2>1. /\ pc = "up" /\ exists \subseteq exists' /\ kept /\ UNCHANGED mempool
        /\ "mint" \in Ops /\ ants' = [ants EXCEPT ![to] = @ + amount]
    BY <1>4 DEF AdminMint, durableVars, replayVars, sealVars
  <2>2. to # Treasury /\ amount \in Nat
    BY NodeLedgerAssumption, ConstantTypes
  <2>3. ants'[Treasury] = ants[Treasury] /\ \A a \in Addr : ants[a] <= ants'[a]
    BY <1>1, <2>1, <2>2
  <2> QED BY <2>1, <2>3 DEF Mints
<1>5. /\ \A from, to \in Wallets : ~ PiSettlement(from, to)
      /\ \A from \in Wallets, amount \in Amounts : ~ BridgeBurn(from, amount)
      /\ \A legacy, secp \in Wallets : ~ MigrateLegacy(legacy, secp)
  BY DEF PiSettlement, BridgeBurn, MigrateLegacy, TakenOnChain
<1> DEFINE allowed == /\ pc = "up" /\ exists \subseteq exists' /\ kept
                      /\ Mints \/ \E tx \in Transaction : Queues(tx)
<1>6. SubmitSome => allowed
  BY <1>2
<1>7. \A to \in Wallets, hash \in Hashes, amount \in Amounts :
        BridgeCredit(to, amount, hash) => allowed
  BY <1>3
<1>8. \A to \in Wallets, amount \in Amounts : AdminMint(to, amount) => allowed
  BY <1>4
<1> HIDE DEF allowed
<1>9. allowed
  BY <1>5, <1>6, <1>7, <1>8 DEF Requests
<1> QED BY <1>9 DEF allowed

LEMMA RequestsBare ==
  ASSUME TakenOnChain, BalanceInv, BareInv, Requests
  PROVE  BareInv'
<1>1. /\ pc = "up" /\ exists \subseteq exists'
      /\ UNCHANGED <<pc, loop, activated, sessions, miners, topups, chain, snapshot,
                     sealed, unstored, spent, work, block, fees>>
      /\ Mints \/ \E tx \in Transaction : Queues(tx)
  BY RequestsAdd
<1>2. Outgoing(mempool)'
      /\ (loop = "running" => ants'[Treasury] = PendingDebit(Treasury)')
  <2>1. CASE Mints
    BY <1>1, <2>1 DEF Mints, BareInv, Bare, Advanced, Outgoing, PendingDebit
  <2>2. ASSUME NEW tx \in Transaction, Queues(tx)
        PROVE  /\ Outgoing(mempool)'
               /\ loop = "running" => ants'[Treasury] = PendingDebit(Treasury)'
    <3>1. mempool \in Seq(Transaction)
      BY DEF BalanceInv, TypeOK, PoolOK
    <3>2. Outgoing(mempool)'
      BY <2>2, <3>1, OutgoingGrows DEF BareInv, Bare, Queues
    <3>3. PendingDebit(Treasury)' = PendingDebit(Treasury)
            + (IF tx.from = Treasury THEN Debit(tx) ELSE 0)
      BY <2>2, <3>1, OwingGrows DEF PendingDebit, Queues
    <3>4. loop = "running" => ants[Treasury] = PendingDebit(Treasury)
      BY <1>1 DEF BareInv, Advanced
    <3> QED BY <2>2, <3>2, <3>3, <3>4 DEF Queues
  <2> QED BY <1>1, <2>1, <2>2
<1>3. Bare' /\ Advanced'
  BY <1>1, <1>2 DEF BareInv, Bare, Advanced, Serving
<1>4. Senders' /\ Stored' /\ Starting' /\ Belongs'
  BY <1>1 DEF BareInv, Senders, Stored, Starting, Belongs
<1> QED BY <1>3, <1>4 DEF BareInv

\* A sync takes from no account that is not below the threshold with an
\* activation left, and so not from the treasury.
LEMMA SyncBare ==
  ASSUME BalanceInv, BareInv, NEW rows \in Web2Ledgers, Sync(rows)
  PROVE  /\ BareInv'
         /\ pc = "up" /\ UNCHANGED <<chain, snapshot, sealed, unstored, spent, loop>>
         /\ pc' \in {"up", "persist"}
         /\ pc' = "up" => UNCHANGED <<ants, activated>>
         /\ \A a \in Addr : ants'[a] - activated'[a] = ants[a] - activated[a]
<1>1. /\ pc = "up" /\ exists' = exists \cup DOMAIN rows
      /\ sessions' = SyncedSessions(rows)
      /\ ants' = [a \in Addr |-> IF a \in ClawedBack(rows) THEN ants[a] - activated[a]
                                                           ELSE ants[a] + Gain(rows, a)]
      /\ activated' = [a \in Addr |-> IF a \in ClawedBack(rows) THEN 0
                                      ELSE activated[a] + Gain(rows, a)]
      /\ total' = [a \in Addr |-> IF a \in ClawedBack(rows) THEN 0
                                  ELSE total[a] + Gain(rows, a)]
      /\ UNCHANGED <<mempool, chain, snapshot, loop, topups, sealed, unstored, spent>>
      /\ \/ pc' = "persist" /\ UNCHANGED miners
         \/ pc' = "up" /\ miners' = Eligible(sessions') /\ activated' = activated
  BY DEF Sync, durableVars, replayVars
<1>2. /\ ants \in [Addr -> Nat] /\ activated \in [Addr -> Nat] /\ total \in [Addr -> Nat]
      /\ Treasury \in Addr /\ Treasury \notin DOMAIN rows
      /\ \A a \in DOMAIN rows : rows[a].ants \in Nat
  BY ConstantTypes, NodeLedgerAssumption DEF BalanceInv, TypeOK, AccountsOK, Web2Row
<1>3. \A a \in Addr : Gain(rows, a) \in Nat /\ (a \notin DOMAIN rows => Gain(rows, a) = 0)
  BY <1>2, MinusType DEF Gain
<1>4. activated[Treasury] = 0 /\ Treasury \notin ClawedBack(rows)
  BY <1>1, <1>2 DEF BareInv, Bare, Serving, ClawedBack
<1>5. ants'[Treasury] = ants[Treasury] /\ activated'[Treasury] = 0
  BY <1>1, <1>2, <1>3, <1>4
<1>6. sessions'[Treasury] = 0
  BY <1>1, <1>2 DEF SyncedSessions, BareInv, Bare
<1>7. Treasury \notin miners'
  BY <1>1, <1>6, NodeLedgerAssumption DEF Eligible, BareInv, Bare
<1>8. Bare'
  BY <1>1, <1>5, <1>6, <1>7 DEF BareInv, Bare, Outgoing
<1>9. Advanced'
  BY <1>1, <1>5 DEF BareInv, Advanced, PendingDebit
<1>10. Senders' /\ Stored' /\ Starting'
  BY <1>1 DEF BareInv, Senders, Stored, Starting
<1>11. Belongs'
  <2>1. ASSUME NEW a \in Addr, activated'[a] > 0 PROVE a \in exists'
    <3>1. a \in DOMAIN rows \/ activated'[a] = 0 \/ activated'[a] = activated[a]
      BY <1>1, <1>2, <1>3
    <3> QED BY <1>1, <2>1, <3>1 DEF BareInv, Belongs
  <2> QED BY <2>1 DEF Belongs
<1>12. ASSUME NEW a \in Addr
       PROVE  /\ ants'[a] - activated'[a] = ants[a] - activated[a]
              /\ activated'[a] = activated[a] => ants'[a] = ants[a]
  <2>1. CASE a \in ClawedBack(rows)
    <3>1. /\ ants'[a] = ants[a] - activated[a] /\ activated'[a] = 0
          /\ activated[a] > 0 /\ ants[a] \in Nat /\ activated[a] \in Nat
      BY <1>1, <1>2, <2>1 DEF ClawedBack
    <3> QED BY <3>1
  <2>2. CASE a \notin ClawedBack(rows)
    <3>1. /\ ants'[a] = ants[a] + Gain(rows, a) /\ activated'[a] = activated[a] + Gain(rows, a)
          /\ Gain(rows, a) \in Nat /\ ants[a] \in Nat /\ activated[a] \in Nat
      BY <1>1, <1>2, <1>3, <2>2
    <3> QED BY <3>1
  <2> QED BY <2>1, <2>2
<1>13. activated' = activated => ants' = ants
  <2>1. activated' = activated => \A a \in Addr : ants'[a] = ants[a]
    BY <1>12
  <2>2. ants' = [a \in Addr |-> ants'[a]] /\ ants = [a \in Addr |-> ants[a]]
    BY <1>1, <1>2
  <2> QED BY <2>1, <2>2
<1> QED BY <1>1, <1>8, <1>9, <1>10, <1>11, <1>12, <1>13 DEF BareInv

\* The new genesis.json has the activations.
LEMMA WriteBare ==
  ASSUME BalanceInv, BareInv, WriteSnapshot
  PROVE  /\ BareInv'
         /\ pc = "write" /\ pc' = "up"
         /\ UNCHANGED <<ants, activated, chain, unstored, spent, loop>>
         /\ snapshot'.ants = activated /\ activated \in Starts
         /\ \A a \in Addr \ {Treasury} : sealed'[a] = ants[a] - unstored[a]
<1>1. /\ pc = "write" /\ snapshot' = SnapshotOfAccounts /\ miners' = Eligible(sessions)
      /\ pc' = "up"
      /\ sealed' = [a \in Addr |-> IF a = Treasury THEN 0 ELSE ants[a] - unstored[a]]
      /\ UNCHANGED <<exists, ants, activated, sessions, mempool, chain, loop, topups,
                     unstored, spent>>
  BY DEF WriteSnapshot, accountVars, replayVars
<1>2. activated \in [Addr -> Nat] /\ sessions \in [Addr -> Nat] /\ Treasury \in Addr
  BY ConstantTypes DEF BalanceInv, TypeOK, AccountsOK
<1> DEFINE kept == {a \in exists : activated[a] > 0 \/ sessions[a] > 0}
           only(f) == [a \in Addr |-> IF a \in kept THEN f[a] ELSE 0]
<1>3. snapshot'.ants = only(activated) /\ snapshot'.sessions = only(sessions)
  BY <1>1 DEF SnapshotOfAccounts
<1>4. ASSUME NEW a \in Addr PROVE only(activated)[a] = activated[a]
  <2>1. activated[a] \in Nat /\ (activated[a] > 0 => a \in exists)
    BY <1>2 DEF BareInv, Belongs
  <2> QED BY <2>1
<1>5. only(activated) = activated
  <2>1. only(activated) = [a \in Addr |-> only(activated)[a]]
    OBVIOUS
  <2> HIDE DEF only
  <2> QED BY <1>2, <1>4, <2>1
<1>6. /\ activated[Treasury] = 0 /\ sessions[Treasury] = 0
      /\ only(sessions)[Treasury] = 0
  BY <1>1, <1>2 DEF BareInv, Bare, Serving
<1>7. Treasury \notin Eligible(sessions)
  BY <1>6, NodeLedgerAssumption DEF Eligible
<1> HIDE DEF only
<1>8. Bare'
  BY <1>1, <1>2, <1>3, <1>5, <1>6, <1>7 DEF BareInv, Bare, Outgoing
<1>9. Advanced' /\ Senders' /\ Stored' /\ Starting' /\ Belongs'
  BY <1>1 DEF BareInv, Advanced, Senders, Stored, Starting, Belongs, PendingDebit
<1>10. activated \in Starts
  BY <1>2, <1>6 DEF Starts
<1> QED BY <1>1, <1>2, <1>3, <1>5, <1>8, <1>9, <1>10 DEF BareInv

LEMMA BeginBare ==
  ASSUME BalanceInv, BareInv, BeginBlock
  PROVE  /\ BareInv' /\ Applied' = 0 /\ fees' = 0 /\ block' \in Block
         /\ pc = "up" /\ loop = "running" /\ pc' = "apply" /\ unstored = Zero
         /\ UNCHANGED <<ants, activated, chain, snapshot, sealed, unstored, spent, loop>>
<1>1. /\ mempool' = << >> /\ fees' = 0 /\ pc = "up" /\ loop = "running" /\ pc' = "apply"
      /\ UNCHANGED <<exists, ants, activated, sessions, miners, chain, snapshot, topups,
                     sealed, unstored, spent, loop>>
  BY DEF BeginBlock, accountVars, durableVars, replayVars
<1>2. /\ ants[Treasury] = PendingDebit(Treasury) /\ unstored = Zero
      /\ Treasury \notin miners /\ Outgoing(mempool)
  BY <1>1 DEF BareInv, Advanced, Stored, Bare
<1>3. /\ AtWork' /\ Applied' = 0
      /\ block' \in Block /\ block'.miners = miners
      /\ \A i \in DOMAIN block'.txs : \E n \in DOMAIN mempool : block'.txs[i] = mempool[n]
  BY <1>2, WorkBegins
<1>4. Plain(block') /\ Outgoing(mempool)'
  BY <1>1, <1>2, <1>3 DEF Plain, Outgoing
<1>5. Bare'
  BY <1>1, <1>4 DEF BareInv, Bare, Serving
<1>6. Advanced' /\ Stored' /\ Starting' /\ Belongs'
  BY <1>1, <1>3 DEF BareInv, Advanced, Stored, Starting, Belongs
<1>7. Senders'
  <2>1. 1 .. Applied' = {}
    BY <1>3
  <2> QED BY <1>1, <1>4, <2>1 DEF BareInv, Senders
<1> QED BY <1>1, <1>2, <1>3, <1>5, <1>6, <1>7 DEF BareInv

\* A transaction that is applied.
LEMMA ApplyMoves ==
  ASSUME BalanceInv, ApplyTx, NEW tx, tx = Head(work)
  PROVE  /\ work # << >> /\ work' = Tail(work) /\ tx \in Transaction
         /\ Debit(tx) <= ants[tx.from] /\ tx.from \in Addr
         /\ ants' = Transferred(ants, tx) /\ fees' = fees + tx.fee
         /\ activated' = [activated EXCEPT ![tx.from] = Minus(@, Debit(tx))]
         /\ pc \in {"apply", "replay"} /\ pc' = pc
         /\ pc = "apply" =>
              unstored' = Transferred(unstored, tx) /\ spent' = spent \cup {tx.from}
         /\ pc = "replay" => UNCHANGED <<unstored, spent>>
         /\ exists' = exists \cup {tx.to}
         /\ UNCHANGED <<block, chain, snapshot, sessions, miners, mempool, loop, next, topups,
                        sealed>>
         /\ \A a \in Addr : activated'[a] \in Nat /\ activated'[a] <= activated[a]
<1>1. /\ work # << >> /\ work' = Tail(work)
      /\ Debit(tx) <= ants[tx.from]
      /\ ants' = Transferred(ants, tx) /\ fees' = fees + tx.fee
      /\ activated' = [activated EXCEPT ![tx.from] = Minus(@, Debit(tx))]
      /\ pc \in {"apply", "replay"} /\ pc' = pc
      /\ pc = "apply" =>
           unstored' = Transferred(unstored, tx) /\ spent' = spent \cup {tx.from}
      /\ pc = "replay" => UNCHANGED <<unstored, spent>>
      /\ exists' = exists \cup {tx.to}
      /\ UNCHANGED <<block, chain, snapshot, sessions, miners, mempool, loop, next, topups,
                     sealed>>
  BY DEF ApplyTx, poolVars, durableVars, replayVars
<1>2. tx \in Transaction
  BY <1>1, WorkType DEF BalanceInv, TypeOK, SealOK
<1>3. Debit(tx) \in Nat /\ tx.from \in Addr
  BY <1>2, DebitType
<1>4. activated \in [Addr -> Nat]
  BY DEF BalanceInv, TypeOK, AccountsOK
<1>5. ASSUME NEW a \in Addr PROVE activated'[a] \in Nat /\ activated'[a] <= activated[a]
  <2>1. activated'[a] = IF a = tx.from THEN Minus(activated[a], Debit(tx)) ELSE activated[a]
    BY <1>1, <1>3, <1>4
  <2>2. activated[a] \in Nat
    BY <1>4
  <2>3. Minus(activated[a], Debit(tx)) \in Nat /\ Minus(activated[a], Debit(tx)) <= activated[a]
    BY <1>3, <2>2, MinusType
  <2> QED BY <2>1, <2>2, <2>3
<1> QED BY <1>1, <1>2, <1>3, <1>5

LEMMA ApplyBare ==
  ASSUME BalanceInv, BareInv, ApplyTx, pc = "apply", NEW tx, tx = Head(work)
  PROVE  /\ BareInv' /\ Applied \in Nat /\ Applied' = Applied + 1
         /\ tx = block.txs[Applied + 1] /\ tx.to # Treasury
<1>1. /\ work # << >> /\ work' = Tail(work) /\ pc' = pc
      /\ spent' = spent \cup {tx.from} /\ exists' = exists \cup {tx.to}
      /\ UNCHANGED <<block, chain, snapshot, sessions, miners, mempool, loop, topups, sealed>>
      /\ \A a \in Addr : activated'[a] \in Nat /\ activated'[a] <= activated[a]
  BY ApplyMoves
<1>2. AtWork /\ Plain(block) /\ Outgoing(block.txs) /\ Treasury \notin block.miners
  BY DEF BareInv, Advanced, Senders, Plain
<1>3. /\ Applied \in Nat /\ tx \in Transaction /\ tx.to # Treasury
      /\ tx = block.txs[Applied + 1] /\ AtWork' /\ Applied' = Applied + 1
  BY <1>1, <1>2, WorkMoves
<1>4. activated \in [Addr -> Nat] /\ Treasury \in Addr
  BY ConstantTypes DEF BalanceInv, TypeOK, AccountsOK
<1>5. activated'[Treasury] = 0
  <2>1. activated[Treasury] = 0
    BY DEF BareInv, Bare, Serving
  <2> QED BY <1>1, <1>4, <2>1
<1>6. Bare'
  BY <1>1, <1>5 DEF BareInv, Bare, Outgoing
<1>7. Advanced' /\ Stored' /\ Starting'
  BY <1>1, <1>3 DEF BareInv, Advanced, Stored, Starting
<1>8. Belongs'
  <2>1. ASSUME NEW a \in Addr, activated'[a] > 0 PROVE a \in exists'
    <3>1. activated[a] > 0
      BY <1>1, <1>4, <2>1
    <3> QED BY <1>1, <3>1 DEF BareInv, Belongs
  <2> QED BY <2>1 DEF Belongs
<1>9. Senders'
  <2>1. ASSUME NEW n \in DOMAIN chain PROVE Known(chain[n], spent')
    BY <1>1, KnownGrows DEF BareInv, Senders
  <2>2. ASSUME NEW i \in 1 .. Applied + 1 PROVE block.txs[i].from \in spent'
    <3>1. i \in 1 .. Applied \/ i = Applied + 1
      BY <1>3
    <3>2. CASE i \in 1 .. Applied
      BY <1>1, <3>2 DEF BareInv, Senders
    <3> QED BY <1>1, <1>3, <3>1, <3>2
  <2>3. Plain(block)'
    BY <1>1, <1>2 DEF Plain, Outgoing
  <2> QED BY <1>1, <1>3, <2>1, <2>2, <2>3 DEF Senders
<1> QED BY <1>3, <1>6, <1>7, <1>8, <1>9 DEF BareInv

LEMMA FinishBare ==
  ASSUME BalanceInv, BareInv, FinishBlock
  PROVE  /\ BareInv' /\ pc = "apply" /\ pc' = "store" /\ Plain(block)
         /\ Applied = Len(block.txs) /\ block \in Block
         /\ ants' = WithFees(ants, block.miners, fees)
         /\ unstored' = WithFees(unstored, block.miners, fees)
         /\ UNCHANGED <<activated, block, chain, snapshot, sealed, spent, loop>>
<1>1. /\ work = << >> /\ pc = "apply" /\ pc' = "store"
      /\ ants' = WithFees(ants, block.miners, fees)
      /\ unstored' = WithFees(unstored, block.miners, fees)
      /\ exists \subseteq exists'
      /\ UNCHANGED <<activated, sessions, mempool, miners, chain, snapshot, loop, block,
                     topups, sealed, spent>>
  BY DEF FinishBlock, durableVars, replayVars
<1>2. /\ AtWork /\ Plain(block) /\ Treasury \notin block.miners
      /\ \A i \in 1 .. Applied : block.txs[i].from \in spent
  BY <1>1 DEF BareInv, Advanced, Senders, Plain
<1>3. Applied = Len(block.txs) /\ ants[Treasury] = 0
  BY <1>1, <1>2, WorkEnds
<1>4. block \in Block /\ DOMAIN block.txs = 1 .. Len(block.txs)
  BY LenProperties DEF BalanceInv, TypeOK, SealOK, Block
<1>5. ants'[Treasury] = 0
  BY <1>1, <1>2, <1>3, ConstantTypes DEF WithFees
<1>6. Known(block, spent)'
  BY <1>1, <1>2, <1>3, <1>4 DEF Known, Plain, Outgoing
<1>7. Bare' /\ Advanced'
  BY <1>1, <1>5 DEF BareInv, Bare, Advanced, Outgoing, Serving
<1>8. Senders' /\ Stored' /\ Starting' /\ Belongs'
  BY <1>1, <1>6 DEF BareInv, Senders, Stored, Starting, Belongs
<1> QED BY <1>1, <1>2, <1>3, <1>4, <1>7, <1>8 DEF BareInv

\* A block that is stored, or may not have been.
Keeps == chain' = Append(chain, block) /\ sealed' = ants /\ unstored' = Zero
Drops == UNCHANGED <<chain, sealed, unstored>> /\ loop' = "exited"

LEMMA StoreBare ==
  ASSUME BalanceInv, PoolEmpty, BareInv, Store \/ StoreFails
  PROVE  /\ BareInv'
         /\ Keeps \/ Drops
         /\ pc = "store" /\ pc' = "up" /\ UNCHANGED <<ants, activated, snapshot, spent>>
<1>1. /\ pc = "store" /\ pc' = "up"
      /\ Keeps \/ Drops
      /\ UNCHANGED <<exists, ants, activated, sessions, mempool, miners, snapshot, spent,
                     topups>>
  BY DEF Store, StoreFails, LoopEnds, accountVars, poolVars, replayVars, Keeps, Drops
<1>2. ants[Treasury] = 0 /\ Known(block, spent) /\ mempool = << >>
  BY <1>1 DEF BareInv, Advanced, Senders, PoolEmpty
<1>3. PendingDebit(Treasury)' = 0
  BY <1>1, <1>2, NothingOwed
<1>4. sealed'[Treasury] = 0
  BY <1>1, <1>2 DEF Keeps, Drops, BareInv, Bare
<1>5. Bare'
  BY <1>1, <1>4 DEF BareInv, Bare, Outgoing, Serving
<1>6. Advanced'
  BY <1>1, <1>2, <1>3 DEF Advanced
<1>7. Stored' /\ Starting' /\ Belongs'
  BY <1>1 DEF BareInv, Stored, Starting, Belongs, Keeps, Drops
<1>8. Senders'
  <2>1. CASE Drops
    BY <1>1, <2>1 DEF Drops, BareInv, Senders
  <2>2. CASE Keeps
    <3>1. chain \in Seq(Block) /\ block \in Block
      BY DEF BalanceInv, TypeOK, DurableOK, SealOK
    <3>2. /\ DOMAIN chain = 1 .. Len(chain) /\ Len(chain) \in Nat
          /\ chain' \in Seq(Block) /\ DOMAIN chain' = 1 .. Len(chain) + 1
          /\ \A n \in 1 .. Len(chain) : chain'[n] = chain[n]
          /\ chain'[Len(chain) + 1] = block
      BY <2>2, <3>1, LenProperties, AppendProperties DEF Keeps
    <3>3. ASSUME NEW n \in DOMAIN chain' PROVE Known(chain'[n], spent)
      <4>1. n \in DOMAIN chain \/ n = Len(chain) + 1
        BY <3>2
      <4>2. n \in DOMAIN chain => Known(chain[n], spent) /\ chain'[n] = chain[n]
        BY <3>2 DEF BareInv, Senders
      <4> QED BY <1>2, <3>2, <4>1, <4>2
    <3> QED BY <1>1, <3>3 DEF Senders
  <2> QED BY <1>1, <2>1, <2>2
<1> QED BY <1>1, <1>5, <1>6, <1>7, <1>8 DEF BareInv

\* The process stops, or start-up goes on.
LEMMA CrashBare ==
  ASSUME BareInv, Crash
  PROVE  BareInv'
<1>1. /\ pc' = "down" /\ exists' = {} /\ activated' = Zero /\ sessions' = Zero
      /\ mempool' = << >> /\ miners' = {} /\ topups' = Zero /\ unstored' = Zero
      /\ UNCHANGED <<chain, snapshot, sealed, spent>>
  BY DEF Crash, durableVars
<1>2. \A a \in Addr : Zero[a] = 0
  BY DEF Zero
<1>3. Bare'
  BY <1>1, <1>2, ConstantTypes DEF BareInv, Bare, Outgoing, Serving
<1>4. Advanced' /\ Senders' /\ Stored' /\ Starting'
  BY <1>1, <1>2 DEF BareInv, Advanced, Senders, Stored, Starting
<1>5. Belongs'
  BY <1>1, <1>2 DEF Belongs
<1> QED BY <1>3, <1>4, <1>5 DEF BareInv

LEMMA StartBare ==
  ASSUME BalanceInv, RestartInv, BareInv, Restart \/ StartReplay
  PROVE  BareInv'
<1>1. CASE Restart
  <2>1. /\ pc = "down" /\ pc' = "reconcile"
        /\ exists' = {a \in Addr : snapshot.ants[a] > 0 \/ snapshot.sessions[a] > 0}
        /\ activated' = snapshot.ants /\ sessions' = snapshot.sessions
        /\ miners' = Eligible(snapshot.sessions)
        /\ UNCHANGED <<mempool, chain, snapshot, topups, sealed, unstored, spent>>
    BY <1>1 DEF Restart, durableVars
  <2>2. Treasury \notin miners'
    BY <2>1, NodeLedgerAssumption DEF Eligible, BareInv, Bare
  <2>3. Bare'
    BY <2>1, <2>2 DEF BareInv, Bare, Outgoing, Serving
  <2>4. Advanced' /\ Senders' /\ Stored' /\ Starting'
    BY <2>1 DEF BareInv, Advanced, Senders, Stored, Starting
  <2>5. Belongs'
    BY <2>1 DEF Belongs
  <2> QED BY <2>3, <2>4, <2>5 DEF BareInv
<1>2. CASE StartReplay
  <2>1. /\ pc = "reconcile" /\ pc' = "replay"
        /\ activated' = [a \in Addr |-> activated[a] + topups[a]]
        /\ exists' = exists \cup {a \in Addr : topups[a] > 0}
        /\ topups' = Zero
        /\ UNCHANGED <<sessions, miners, mempool, chain, snapshot,
                       sealed, unstored, spent>>
    BY <1>2 DEF StartReplay, poolVars, durableVars
  <2>2. activated \in [Addr -> Nat] /\ topups \in [Addr -> Nat]
    BY DEF BalanceInv, TypeOK, AccountsOK, ReplayOK
  <2>3. Belongs'
    <3>1. ASSUME NEW a \in Addr, activated'[a] > 0 PROVE a \in exists'
      <4>1. activated[a] > 0 \/ topups[a] > 0
        BY <2>1, <2>2, <3>1
      <4> QED BY <2>1, <4>1 DEF BareInv, Belongs
    <3> QED BY <3>1 DEF Belongs
  <2>4. Starting'
    BY <2>1 DEF Starting, Zero
  <2>5. Bare' /\ Advanced' /\ Senders' /\ Stored'
    BY <2>1 DEF BareInv, Bare, Advanced, Senders, Stored, Outgoing, Serving
  <2> QED BY <2>3, <2>4, <2>5 DEF BareInv
<1> QED BY <1>1, <1>2

\* A transaction at a place of the chain: its sender has spent.
LEMMA PlaceSent ==
  ASSUME BalanceInv, BareInv, AtPlace, work # << >>, work' = Tail(work),
         UNCHANGED <<block, next, chain>>, NEW tx, tx = Head(work)
  PROVE  tx.from \in spent /\ tx.to # Treasury /\ tx.from \in Addr
<1>1. /\ Applied \in Nat /\ next \in 1 .. Len(chain) /\ Applied < Len(chain[next].txs)
      /\ tx \in Transaction /\ tx = chain[next].txs[Applied + 1]
  BY PlaceMoves
<1>2. /\ chain \in Seq(Block) /\ DOMAIN chain = 1 .. Len(chain)
  BY LenProperties DEF BalanceInv, TypeOK, DurableOK
<1>3. chain[next] \in Block
  BY <1>1, <1>2, ElementOfSeq
<1>4. /\ DOMAIN chain[next].txs = 1 .. Len(chain[next].txs) /\ Len(chain[next].txs) \in Nat
  BY <1>3, LenProperties DEF Block
<1>5. Applied + 1 \in DOMAIN chain[next].txs
  BY <1>1, <1>4
<1>6. Known(chain[next], spent)
  BY <1>1, <1>2 DEF BareInv, Senders
<1> QED BY <1>1, <1>5, <1>6, DebitType DEF Known, Plain, Outgoing

LEMMA ReplayBare ==
  ASSUME BalanceInv, RestartInv, BareInv,
         ReconcileTx \/ ReconcileBlock \/ ReplayBlock \/ (ApplyTx /\ pc = "replay")
  PROVE  BareInv'
<1>1. ASSUME pc \in {"reconcile", "replay"}, pc' = pc, exists \subseteq exists',
             UNCHANGED <<sessions, miners, mempool, chain, snapshot, sealed, unstored, spent>>,
             \A a \in Addr \ spent : topups'[a] = 0,
             pc = "reconcile" => activated' = activated,
             \A a \in Addr : activated'[a] > 0 => activated[a] > 0
      PROVE  BareInv'
  <2>1. Bare' /\ Advanced' /\ Senders' /\ Stored' /\ Starting' /\ Belongs'
    BY <1>1 DEF BareInv, Bare, Advanced, Senders, Stored, Starting, Belongs, Outgoing, Serving
  <2> QED BY <2>1 DEF BareInv
<1>2. CASE ReconcileTx
  <2> DEFINE tx == Head(work)
  <2>1. /\ pc = "reconcile" /\ pc' = pc /\ work # << >> /\ work' = Tail(work)
        /\ topups' = [topups EXCEPT ![tx.from] = @ + Lack(tx)]
        /\ UNCHANGED <<exists, activated, sessions, miners, mempool, chain, snapshot, sealed,
                       unstored, spent, block, next>>
    BY <1>2 DEF ReconcileTx, accountVars, poolVars, durableVars
  <2>2. AtPlace
    BY <2>1 DEF RestartInv
  <2>3. tx.from \in spent
    BY <2>1, <2>2, PlaceSent
  <2> HIDE DEF tx
  <2>4. \A a \in Addr \ spent : topups'[a] = 0
    <3>1. topups \in [Addr -> Nat] /\ \A a \in Addr \ spent : topups[a] = 0
      BY DEF BareInv, Starting, BalanceInv, TypeOK, ReplayOK
    <3> QED BY <2>1, <2>3, <3>1
  <2> QED BY <1>1, <2>1, <2>4
<1>3. CASE ReconcileBlock
  BY <1>1, <1>3 DEF ReconcileBlock, accountVars, poolVars, durableVars, BareInv, Starting
<1>4. CASE ReplayBlock
  BY <1>1, <1>4 DEF ReplayBlock, poolVars, durableVars, BareInv, Starting
<1>5. CASE ApplyTx /\ pc = "replay"
  <2>1. /\ exists \subseteq exists' /\ pc' = pc
        /\ UNCHANGED <<sessions, miners, mempool, chain, snapshot, sealed, unstored, spent,
                       topups>>
        /\ \A a \in Addr : activated'[a] \in Nat /\ activated'[a] <= activated[a]
    BY <1>5, ApplyMoves
  <2>2. activated \in [Addr -> Nat]
    BY DEF BalanceInv, TypeOK, AccountsOK
  <2>3. \A a \in Addr : activated'[a] > 0 => activated[a] > 0
    BY <2>1, <2>2
  <2> QED BY <1>1, <1>5, <2>1, <2>3 DEF BareInv, Starting
<1> QED BY <1>2, <1>3, <1>4, <1>5

\* After the replay the treasury has nothing, and so no activation.
LEMMA RecoverBare ==
  ASSUME BalanceInv, RestartInv, PoolEmpty, BareInv, Recover, ants[Treasury] = 0
  PROVE  BareInv'
<1>1. /\ pc = "replay" /\ pc' = "up"
      /\ UNCHANGED <<exists, ants, activated, sessions, mempool, miners, chain, snapshot,
                     topups, sealed, unstored, spent>>
  BY DEF Recover, accountVars, durableVars
<1>2. activated[Treasury] = 0
  BY ConstantTypes DEF BalanceInv, ActivatedBounded, TypeOK, AccountsOK
<1>3. PendingDebit(Treasury)' = 0
  <2>1. mempool' = << >>
    BY <1>1 DEF PoolEmpty
  <2> QED BY <2>1, NothingOwed
<1>4. Bare' /\ Advanced'
  BY <1>1, <1>2, <1>3 DEF BareInv, Bare, Advanced, Outgoing
<1>5. Senders' /\ Stored' /\ Starting' /\ Belongs'
  BY <1>1 DEF BareInv, Senders, Stored, Starting, Belongs
<1> QED BY <1>4, <1>5 DEF BareInv

\* The rest changes nothing but where the node is.
LEMMA RestBare ==
  ASSUME BareInv, pc' \in {"write", "up", "refused"},
         pc' = "write" => pc = "persist" /\ UNCHANGED loop,
         pc' = "up" => pc = "apply" /\ loop' = "exited",
         UNCHANGED <<exists, ants, activated, sessions, mempool, miners, chain, snapshot,
                     topups, sealed, unstored, spent>>
  PROVE  BareInv'
<1>1. Bare' /\ Advanced' /\ Senders' /\ Stored' /\ Starting' /\ Belongs'
  BY DEF BareInv, Bare, Advanced, Senders, Stored, Starting, Belongs, Outgoing, Serving,
         PendingDebit
<1> QED BY <1>1 DEF BareInv

\* What a restart would give, from genesis.json as it is and as a sync would
\* write it, is bounded by what was stored and by what the node has.
StoredFits == Fitting(chain, snapshot.ants, Len(chain) + 1, 0, 0, sealed, Still)

ServingFits == FromAny(chain, Len(chain) + 1, 0, 0, ants, activated, unstored, Still)

RunningFits == Fitting(chain, snapshot.ants, Len(chain) + 1, 0, 0, ants, Still)

\* The same at the place in the block being sealed, and in the one replayed.
SealingFits(b, k) ==
  Tracks(Append(chain, block), snapshot.ants, b, k, fees, ants, activated, Still)

ReplayFits == Tracks(chain, snapshot.ants, next, Applied, fees, ants, activated, Still)

GainInv ==
  /\ StoredFits
  /\ pc \in Serving => ServingFits
  /\ pc = "up" /\ loop = "running" => RunningFits
  /\ pc = "apply" => SealingFits(Len(chain) + 1, Applied)
  /\ pc = "store" => fees = 0 /\ SealingFits(Len(chain) + 2, 0)
  /\ pc = "replay" => ReplayFits

LEMMA GainTypes ==
  ASSUME BalanceInv
  PROVE  /\ chain \in Seq(Block) /\ Len(chain) \in Nat /\ Len(chain) + 1 \in Nat \ {0}
         /\ ants \in [Addr -> Nat] /\ activated \in [Addr -> Nat] /\ fees \in Nat
         /\ sealed \in [Addr -> Int] /\ unstored \in [Addr -> Int] /\ spent \subseteq Addr
         /\ Integral(ants, activated, unstored)
         /\ snapshot.ants \in [Addr -> Nat]
  BY LenProperties
     DEF BalanceInv, TypeOK, AccountsOK, DurableOK, SealOK, HistoryOK, Integral, Snapshot

\* Nobody joins those that have sent nothing.
LEMMA StillFalls ==
  ASSUME spent \subseteq spent'
  PROVE  Still' \subseteq Still
BY DEF Still

\* A bound may rise, but for those that are still.
LEMMA StoredStay ==
  ASSUME BalanceInv, StoredFits, Still' \subseteq Still, UNCHANGED <<chain, snapshot, sealed>>
  PROVE  StoredFits'
<1>1. Looser(sealed, sealed, Still, Still')
  <2>1. \A a \in Addr \ {Treasury} : sealed[a] \in Int /\ sealed[a] <= sealed[a]
    BY GainTypes
  <2> QED BY <2>1 DEF Looser
<1>2. Fitting(chain, snapshot.ants, Len(chain) + 1, 0, 0, sealed, Still')
  BY <1>1, GainTypes, FitLooser DEF StoredFits
<1> QED BY <1>2 DEF StoredFits

Rises(a) ==
  /\ Over(ants, activated, unstored, a) <= Over(ants, activated, unstored, a)'
  /\ a \in Still' => Over(ants, activated, unstored, a) = Over(ants, activated, unstored, a)'

LEMMA ServingStay ==
  ASSUME BalanceInv, BalanceInv', ServingFits, Still' \subseteq Still, UNCHANGED chain,
         \A a \in Addr \ {Treasury} : Rises(a)
  PROVE  ServingFits'
<1> DEFINE b == Len(chain) + 1
<1>1. /\ b \in Nat \ {0} /\ 0 \in Nat
      /\ Integral(ants, activated, unstored) /\ Integral(ants', activated', unstored')
  BY GainTypes DEF BalanceInv, TypeOK, AccountsOK, HistoryOK, Integral
<1>2. \A a \in Addr \ {Treasury} :
        /\ Over(ants, activated, unstored, a) <= Over(ants', activated', unstored', a)
        /\ a \in Still' => Over(ants, activated, unstored, a)
                             = Over(ants', activated', unstored', a)
  BY DEF Rises, Over
<1>3. FromAny(chain, b, 0, 0, ants, activated, unstored, Still)
  BY DEF ServingFits
<1> HIDE DEF b
<1>4. FromAny(chain, b, 0, 0, ants', activated', unstored', Still')
  BY <1>1, <1>2, <1>3, AnyLooser
<1> QED BY <1>4 DEF ServingFits, b

LEMMA RunningStay ==
  ASSUME BalanceInv, BalanceInv', RunningFits, Still' \subseteq Still,
         UNCHANGED <<chain, snapshot>>,
         \A a \in Addr \ {Treasury} : ants[a] <= ants'[a] /\ (a \in Still' => ants[a] = ants'[a])
  PROVE  RunningFits'
<1>1. Looser(ants, ants', Still, Still')
  <2>1. \A a \in Addr \ {Treasury} : ants[a] \in Int /\ ants'[a] \in Int
    BY DEF BalanceInv, TypeOK, AccountsOK
  <2> QED BY <2>1 DEF Looser
<1>2. Fitting(chain, snapshot.ants, Len(chain) + 1, 0, 0, ants', Still')
  BY <1>1, GainTypes, FitLooser DEF RunningFits
<1> QED BY <1>2 DEF RunningFits

\* Requests.
LEMMA RequestsGain ==
  ASSUME TakenOnChain, BalanceInv, BalanceInv', GainInv, Requests
  PROVE  GainInv'
<1>1. /\ pc = "up"
      /\ UNCHANGED <<pc, loop, activated, chain, snapshot, sealed, unstored, spent>>
      /\ Mints \/ \E tx \in Transaction : Queues(tx)
  BY RequestsAdd
<1>2. /\ ants \in [Addr -> Nat] /\ ants' \in [Addr -> Nat] /\ activated \in [Addr -> Nat]
      /\ unstored \in [Addr -> Int]
  BY DEF BalanceInv, TypeOK, AccountsOK, HistoryOK
<1>3. Still' = Still
  BY <1>1 DEF Still
<1>4. \A a \in Addr \ {Treasury} : ants[a] <= ants'[a] /\ (a \in Still' => ants[a] = ants'[a])
  <2>1. CASE Mints
    <3>1. Still' = {}
      BY <1>3, <2>1 DEF Mints, Still
    <3> QED BY <2>1, <3>1 DEF Mints
  <2>2. CASE \E tx \in Transaction : Queues(tx)
    <3>1. \A a \in Addr \ {Treasury} : ants'[a] = ants[a] /\ ants[a] \in Nat
      BY <1>2, <2>2 DEF Queues
    <3> QED BY <3>1
  <2> QED BY <1>1, <2>1, <2>2
<1>5. ASSUME NEW a \in Addr \ {Treasury} PROVE Rises(a)
  <2> DEFINE x == ants[a]
             z == ants'[a]
             y == activated[a]
             u == unstored[a]
  <2>1. x \in Int /\ z \in Int /\ y \in Int /\ u \in Int
    BY <1>2
  <2>2. x <= z /\ (a \in Still' => x = z)
    BY <1>4
  <2>3. Over(ants, activated, unstored, a) = (x - y) - u
        /\ Over(ants, activated, unstored, a)' = (z - y) - u
    BY <1>1 DEF Over
  <2> HIDE DEF x, y, z, u
  <2>4. (x - y) - u <= (z - y) - u /\ (a \in Still' => (x - y) - u = (z - y) - u)
    BY <2>1, <2>2
  <2> QED BY <2>3, <2>4 DEF Rises
<1>6. StoredFits' /\ ServingFits'
  BY <1>1, <1>3, <1>5, StoredStay, ServingStay DEF GainInv, Serving
<1>7. loop = "running" => RunningFits'
  BY <1>1, <1>3, <1>4, RunningStay DEF GainInv
<1> QED BY <1>1, <1>6, <1>7 DEF GainInv

\* A sync: what is above the activation stays.
LEMMA SyncGain ==
  ASSUME BalanceInv, BalanceInv', BareInv, GainInv, NEW rows \in Web2Ledgers, Sync(rows)
  PROVE  GainInv'
<1>1. /\ pc = "up" /\ UNCHANGED <<chain, snapshot, sealed, unstored, spent, loop>>
      /\ pc' \in {"up", "persist"}
      /\ pc' = "up" => UNCHANGED <<ants, activated>>
      /\ \A a \in Addr : ants'[a] - activated'[a] = ants[a] - activated[a]
  BY SyncBare
<1>2. Still' = Still
  BY <1>1 DEF Still
<1>3. ASSUME NEW a \in Addr \ {Treasury} PROVE Rises(a)
  <2>1. Over(ants, activated, unstored, a) = Over(ants, activated, unstored, a)'
    BY <1>1 DEF Over
  <2>2. Over(ants, activated, unstored, a) \in Int
    BY DEF Over, BalanceInv, TypeOK, AccountsOK, HistoryOK
  <2> QED BY <2>1, <2>2 DEF Rises
<1>4. StoredFits' /\ ServingFits'
  BY <1>1, <1>2, <1>3, StoredStay, ServingStay DEF GainInv, Serving
<1>5. pc' = "up" /\ loop' = "running" => RunningFits'
  BY <1>1, <1>2 DEF GainInv, RunningFits
<1> QED BY <1>1, <1>4, <1>5 DEF GainInv

\* The new genesis.json: any first balances were bounded, and so are these.
LEMMA WriteGain ==
  ASSUME BalanceInv, BalanceInv', BareInv, GainInv, WriteSnapshot
  PROVE  GainInv'
<1>1. /\ pc = "write" /\ pc' = "up"
      /\ UNCHANGED <<ants, activated, chain, unstored, spent, loop>>
      /\ snapshot'.ants = activated /\ activated \in Starts
      /\ \A a \in Addr \ {Treasury} : sealed'[a] = ants[a] - unstored[a]
  BY WriteBare
<1>2. Still' = Still
  BY <1>1 DEF Still
<1> DEFINE room == Room(activated, ants, activated, unstored)
<1>3. Fitting(chain, activated, Len(chain) + 1, 0, 0, room, Still)
  BY <1>1 DEF GainInv, Serving, ServingFits, FromAny
<1>4. ASSUME NEW a \in Addr \ {Treasury}
      PROVE  room[a] = sealed'[a] /\ room[a] \in Int
  <2>1. /\ ants[a] \in Int /\ activated[a] \in Int /\ unstored[a] \in Int
    BY GainTypes
  <2>2. room[a] = activated[a] + (ants[a] - activated[a]) - unstored[a]
    BY DEF Room
  <2> HIDE DEF room
  <2> QED BY <1>1, <2>1, <2>2
<1> HIDE DEF room
<1>5. StoredFits'
  <2>1. Looser(room, sealed', Still, Still)
    BY <1>4 DEF Looser
  <2>2. Fitting(chain, activated, Len(chain) + 1, 0, 0, sealed', Still)
    BY <1>3, <2>1, GainTypes, FitLooser
  <2> QED BY <1>1, <1>2, <2>2 DEF StoredFits
<1>6. ServingFits'
  BY <1>1, <1>2 DEF GainInv, Serving, ServingFits
<1>7. loop' = "running" => RunningFits'
  <2>1. SUFFICES ASSUME loop' = "running" PROVE RunningFits'
    OBVIOUS
  <2>2. unstored = Zero
    BY <1>1, <2>1 DEF BareInv, Stored
  <2>3. \A a \in Addr \ {Treasury} : room[a] = ants[a] /\ room[a] \in Int
    <3>1. \A a \in Addr \ {Treasury} : sealed'[a] = ants[a] - 0 /\ ants[a] \in Int
      BY <1>1, <2>2, GainTypes DEF Zero
    <3> QED BY <1>4, <3>1
  <2>4. Looser(room, ants, Still, Still)
    BY <2>3 DEF Looser
  <2>5. Fitting(chain, activated, Len(chain) + 1, 0, 0, ants, Still)
    BY <1>3, <2>4, GainTypes, FitLooser
  <2> QED BY <1>1, <1>2, <2>5 DEF RunningFits
<1> QED BY <1>1, <1>5, <1>6, <1>7 DEF GainInv

\* A block is begun where the chain ends.
LEMMA BeginGain ==
  ASSUME BalanceInv, BareInv, GainInv, BeginBlock
  PROVE  GainInv'
<1>1. /\ Applied' = 0 /\ fees' = 0 /\ block' \in Block
      /\ pc = "up" /\ loop = "running" /\ pc' = "apply" /\ unstored = Zero
      /\ UNCHANGED <<ants, activated, chain, snapshot, sealed, unstored, spent, loop>>
  BY BeginBare
<1>2. chain \in Seq(Block)
  BY GainTypes
<1>3. StoredFits /\ ServingFits /\ RunningFits
  BY <1>1 DEF GainInv, Serving
<1>4. Still' = Still
  BY <1>1 DEF Still
<1>5. StoredFits' /\ ServingFits'
  BY <1>1, <1>3, <1>4 DEF StoredFits, ServingFits
<1>6. FromAny(Append(chain, block'), Len(chain) + 1, 0, 0, ants, activated, Zero, Still)
  <2>1. ASSUME NEW first \in Starts
        PROVE  Fitting(Append(chain, block'), first, Len(chain) + 1, 0, 0,
                       Room(first, ants, activated, Zero), Still)
    <3>1. Fitting(chain, first, Len(chain) + 1, 0, 0, Room(first, ants, activated, Zero), Still)
      BY <1>1, <1>3 DEF ServingFits, FromAny
    <3> QED BY <1>1, <1>2, <3>1, FitBegins
  <2> QED BY <2>1 DEF FromAny
<1>7. Fitting(Append(chain, block'), snapshot.ants, Len(chain) + 1, 0, 0, ants, Still)
  BY <1>1, <1>2, <1>3, FitBegins DEF RunningFits
<1>8. SealingFits(Len(chain) + 1, Applied)'
  BY <1>1, <1>4, <1>6, <1>7 DEF SealingFits, Tracks
<1> QED BY <1>1, <1>5, <1>8 DEF GainInv

\* The balances of genesis.json are such as a pass may start from.
LEMMA SnapshotStarts ==
  ASSUME BalanceInv, BareInv
  PROVE  snapshot.ants \in Starts
BY GainTypes DEF BareInv, Bare, Starts

\* A transaction is applied in a block.
LEMMA ApplyGain ==
  ASSUME BalanceInv, BalanceInv', BareInv, GainInv, ApplyTx, pc = "apply"
  PROVE  GainInv'
<1> DEFINE tx == Head(work)
           c == Append(chain, block)
           b == Len(chain) + 1
           k == Applied
           act == [activated EXCEPT ![tx.from] = Minus(@, Debit(tx))]
<1>1. /\ tx \in Transaction /\ Debit(tx) <= ants[tx.from] /\ tx.from \in Addr
      /\ ants' = Transferred(ants, tx) /\ fees' = fees + tx.fee /\ activated' = act
      /\ pc' = pc /\ unstored' = Transferred(unstored, tx) /\ spent' = spent \cup {tx.from}
      /\ UNCHANGED <<block, chain, snapshot, sealed, loop>>
      /\ \A a \in Addr : activated'[a] \in Nat /\ activated'[a] <= activated[a]
  BY ApplyMoves
<1>2. k \in Nat /\ Applied' = k + 1 /\ tx = block.txs[k + 1] /\ tx.to # Treasury
  BY ApplyBare
<1>3. /\ chain \in Seq(Block) /\ block \in Block /\ b \in Nat \ {0} /\ c[b] = block
  BY GainTypes, AppendProperties DEF BalanceInv, TypeOK, SealOK
<1>4. Still' \subseteq Still /\ tx.from \notin Still'
  BY <1>1, StillFalls DEF Still
<1>5. snapshot.ants \in Starts
  BY SnapshotStarts
<1>6. SealingFits(Len(chain) + 1, Applied)'
  <2>1. Tracks(c, snapshot.ants, b, k, fees, ants, activated, Still)
    BY DEF GainInv, SealingFits
  <2>2. tx = c[b].txs[k + 1]
    BY <1>2, <1>3
  <2> HIDE DEF tx, c, b, k, act
  <2>3. act = [activated EXCEPT ![tx.from] = Minus(@, Debit(tx))]
    BY DEF act
  <2>4. Tracks(c, snapshot.ants, b, k + 1, fees + tx.fee, Transferred(ants, tx), act, Still')
    BY <1>1, <1>2, <1>3, <1>4, <1>5, <2>1, <2>2, <2>3, TracksTx
  <2>5. Tracks(Append(chain', block'), snapshot'.ants, Len(chain') + 1, Applied', fees', ants',
               activated', Still')
    BY <1>1, <1>2, <2>4 DEF c, b
  <2> QED BY <2>5 DEF SealingFits
<1>7. ASSUME NEW a \in Addr \ {Treasury} PROVE Rises(a)
  <2> DEFINE out == IF a = tx.from THEN Debit(tx) ELSE 0
             in == IF a = tx.to THEN tx.amount ELSE 0
             x == ants[a]
             y == activated[a]
             u == unstored[a]
             z == activated'[a]
  <2>1. /\ out \in Nat /\ in \in Nat /\ x \in Int /\ y \in Int /\ u \in Int /\ z \in Int
    BY <1>1, DebitType, GainTypes
  <2>2. /\ ants'[a] = x - out + in /\ unstored'[a] = u - out + in /\ z <= y
    BY <1>1 DEF Transferred
  <2>3. a \in Still' => z = y
    <3>1. a \in Still' => a # tx.from
      BY <1>4
    <3> QED BY <1>1, <3>1, GainTypes
  <2>4. /\ Over(ants, activated, unstored, a) = (x - y) - u
        /\ Over(ants, activated, unstored, a)' = (ants'[a] - z) - unstored'[a]
    BY DEF Over
  <2> HIDE DEF out, in, x, y, u, z
  <2>5. Over(ants, activated, unstored, a)' = (x - z) - u
    BY <2>1, <2>2, <2>4
  <2>6. (x - y) - u <= (x - z) - u
    BY <2>1, <2>2
  <2> QED BY <2>3, <2>4, <2>5, <2>6 DEF Rises
<1>8. StoredFits' /\ ServingFits'
  BY <1>1, <1>4, <1>7, StoredStay, ServingStay DEF GainInv, Serving
<1> QED BY <1>1, <1>6, <1>8 DEF GainInv

\* A block's fees are paid out.
LEMMA FinishGain ==
  ASSUME BalanceInv, BalanceInv', BareInv, GainInv, FinishBlock
  PROVE  GainInv'
<1> DEFINE c == Append(chain, block)
           b == Len(chain) + 1
           m == Applied
           ms == block.miners
<1>1. /\ pc = "apply" /\ pc' = "store" /\ Plain(block)
      /\ Applied = Len(block.txs) /\ block \in Block
      /\ ants' = WithFees(ants, ms, fees) /\ unstored' = WithFees(unstored, ms, fees)
      /\ UNCHANGED <<activated, block, chain, snapshot, sealed, spent, loop>>
      /\ fees' = 0
  BY FinishBare DEF FinishBlock
<1>2. /\ chain \in Seq(Block) /\ b \in Nat \ {0} /\ c[b] = block /\ Len(chain) \in Nat
      /\ ms \in SUBSET Addr /\ m \in Nat
  BY <1>1, GainTypes, AppendProperties, LenProperties DEF Block
<1>3. Still' = Still
  BY <1>1 DEF Still
<1>4. SealingFits(Len(chain) + 2, 0)'
  <2>1. Tracks(c, snapshot.ants, b, m, fees, ants, activated, Still)
    BY <1>1 DEF GainInv, SealingFits
  <2>2. /\ m = Len(c[b].txs) /\ c[b].miners = ms /\ Treasury \notin c[b].miners
    BY <1>1, <1>2 DEF Plain
  <2> HIDE DEF c, b, m, ms
  <2>3. Tracks(c, snapshot.ants, b + 1, 0, 0, WithFees(ants, ms, fees), activated, Still)
    BY <1>2, <2>1, <2>2, TracksBlock
  <2>4. b + 1 = Len(chain) + 2
    BY <1>2 DEF b
  <2>5. Tracks(Append(chain', block'), snapshot'.ants, Len(chain') + 2, 0, fees', ants',
               activated', Still')
    BY <1>1, <1>3, <2>3, <2>4 DEF c
  <2> QED BY <2>5 DEF SealingFits
<1>5. ASSUME NEW a \in Addr \ {Treasury} PROVE Rises(a)
  <2> DEFINE g == IF a \in ms THEN Share(ms, fees) ELSE 0
             h == IF a = Reserve THEN Rest(ms, fees) ELSE 0
             x == ants[a]
             y == activated[a]
             u == unstored[a]
  <2>1. /\ g \in Int /\ h \in Int /\ x \in Int /\ y \in Int /\ u \in Int
    BY <1>2, ShareType, GainTypes
  <2>2. /\ ants'[a] = x + g + h /\ unstored'[a] = u + g + h /\ activated'[a] = y
    BY <1>1 DEF WithFees
  <2>3. /\ Over(ants, activated, unstored, a) = (x - y) - u
        /\ Over(ants, activated, unstored, a)' = (ants'[a] - activated'[a]) - unstored'[a]
    BY DEF Over
  <2> HIDE DEF g, h, x, y, u
  <2>4. Over(ants, activated, unstored, a)' = (x - y) - u
    BY <2>1, <2>2, <2>3
  <2> QED BY <2>1, <2>3, <2>4 DEF Rises
<1>6. StoredFits' /\ ServingFits'
  BY <1>1, <1>3, <1>5, StoredStay, ServingStay DEF GainInv, Serving
<1> QED BY <1>1, <1>4, <1>6 DEF GainInv

\* A block is stored, or is lost with the loop.
LEMMA StoreGain ==
  ASSUME BalanceInv, PoolEmpty, BareInv, GainInv, Store \/ StoreFails
  PROVE  GainInv'
<1>1. /\ Keeps \/ Drops
      /\ pc = "store" /\ pc' = "up" /\ UNCHANGED <<ants, activated, snapshot, spent>>
  BY StoreBare
<1>2. Still' = Still
  BY <1>1 DEF Still
<1>3. CASE Drops
  <2>1. StoredFits' /\ ServingFits'
    BY <1>1, <1>2, <1>3 DEF Drops, GainInv, Serving, StoredFits, ServingFits
  <2> QED BY <1>1, <1>3, <2>1 DEF Drops, GainInv
<1>4. CASE Keeps
  <2>1. Len(chain') + 1 = Len(chain) + 2
    <3>1. Len(chain') = Len(chain) + 1 /\ Len(chain) \in Nat
      BY <1>4, GainTypes, AppendProperties DEF Keeps, BalanceInv, TypeOK, SealOK
    <3> QED BY <3>1
  <2>2. Tracks(chain', snapshot.ants, Len(chain) + 2, 0, 0, ants, activated, Still)
    BY <1>1, <1>4 DEF Keeps, GainInv, SealingFits
  <2>3. StoredFits' /\ ServingFits' /\ RunningFits'
    BY <1>1, <1>2, <1>4, <2>1, <2>2
       DEF Keeps, Tracks, StoredFits, ServingFits, RunningFits
  <2> QED BY <1>1, <2>3 DEF GainInv
<1> QED BY <1>1, <1>3, <1>4

\* The replay begins with the top-ups in the balances and the activations alike.
LEMMA StartGain ==
  ASSUME BalanceInv, RestartInv, BareInv, GainInv, StartReplay
  PROVE  GainInv'
<1>1. /\ pc = "reconcile" /\ pc' = "replay" /\ TakeBlock(1) /\ fees' = 0
      /\ ants' = [a \in Addr |-> ants[a] + topups[a]]
      /\ activated' = [a \in Addr |-> activated[a] + topups[a]]
      /\ UNCHANGED <<chain, snapshot, sealed, unstored, spent>>
  BY DEF StartReplay, TakeBlock, durableVars
<1>2. /\ ants = snapshot.ants /\ activated = snapshot.ants
      /\ \A a \in Addr \ spent : topups[a] = 0
      /\ topups \in [Addr -> Nat] /\ snapshot.ants \in [Addr -> Nat]
      /\ snapshot.ants \in Starts
  BY <1>1, GainTypes, SnapshotStarts
     DEF RestartInv, BareInv, Starting, BalanceInv, TypeOK, ReplayOK
<1>3. next' = 1 /\ Applied' = 0
  <2>1. 1 \in 1 .. Len(chain) + 1
    BY GainTypes
  <2> QED BY <1>1, <2>1, PlaceTaken
<1>4. Still' = Still /\ Still \subseteq Addr \ spent
  BY <1>1 DEF Still
<1>5. StoredFits'
  BY <1>1, <1>4 DEF GainInv, StoredFits
<1>6. Fitting(chain, snapshot.ants, 1, 0, 0, ants', Still)
  <2>1. ASSUME NEW a \in Addr \ {Treasury}
        PROVE  snapshot.ants[a] <= ants'[a] /\ (a \in Still => snapshot.ants[a] = ants'[a])
    <3>1. /\ ants'[a] = snapshot.ants[a] + topups[a]
          /\ snapshot.ants[a] \in Nat /\ topups[a] \in Nat
          /\ a \in Still => topups[a] = 0
      BY <1>1, <1>2, <1>4
    <3> QED BY <3>1
  <2> QED BY <1>2, <2>1, FitFirst
<1>7. FromAny(chain, 1, 0, 0, ants', activated', Zero, Still)
  <2>1. ASSUME NEW first \in Starts
        PROVE  Fitting(chain, first, 1, 0, 0, Room(first, ants', activated', Zero), Still)
    <3>1. ASSUME NEW a \in Addr
          PROVE  Room(first, ants', activated', Zero)[a] = first[a] /\ first[a] \in Nat
      <4>1. /\ ants'[a] = activated'[a] /\ activated'[a] \in Nat /\ first[a] \in Nat
        BY <1>1, <1>2 DEF Starts
      <4>2. Room(first, ants', activated', Zero)[a] = first[a] + (ants'[a] - activated'[a]) - 0
        BY DEF Room, Zero
      <4> QED BY <4>1, <4>2
    <3> QED BY <3>1, FitFirst
  <2> QED BY <2>1 DEF FromAny
<1>8. ReplayFits'
  BY <1>1, <1>3, <1>4, <1>6, <1>7 DEF ReplayFits, Tracks
<1> QED BY <1>1, <1>5, <1>8 DEF GainInv, Serving

\* The replay goes on.
LEMMA ReplayGain ==
  ASSUME BalanceInv, RestartInv, BareInv, GainInv, pc = "replay", ApplyTx \/ ReplayBlock
  PROVE  GainInv'
<1>1. AtPlace /\ ReplayFits /\ StoredFits /\ snapshot.ants \in Starts
  BY SnapshotStarts DEF RestartInv, GainInv
<1>2. chain \in Seq(Block) /\ Len(chain) \in Nat /\ DOMAIN chain = 1 .. Len(chain)
  BY GainTypes, LenProperties
<1>3. CASE ApplyTx
  <2> DEFINE tx == Head(work)
             k == Applied
             act == [activated EXCEPT ![tx.from] = Minus(@, Debit(tx))]
  <2>1. /\ work # << >> /\ work' = Tail(work)
        /\ tx \in Transaction /\ Debit(tx) <= ants[tx.from]
        /\ ants' = Transferred(ants, tx) /\ fees' = fees + tx.fee /\ activated' = act
        /\ pc' = pc
        /\ UNCHANGED <<unstored, spent, block, chain, snapshot, sealed, next>>
    BY <1>3, ApplyMoves
  <2>2. /\ k \in Nat /\ Applied' = k + 1 /\ next \in 1 .. Len(chain)
        /\ tx = chain[next].txs[k + 1]
    BY <1>1, <2>1, PlaceMoves
  <2>3. tx.from \in spent /\ tx.to # Treasury
    BY <1>1, <2>1, PlaceSent
  <2>4. Still' = Still /\ tx.from \notin Still /\ next \in Nat \ {0}
    BY <1>2, <2>1, <2>2, <2>3 DEF Still
  <2>5. Tracks(chain, snapshot.ants, next, k, fees, ants, activated, Still)
    BY <1>1 DEF ReplayFits
  <2> HIDE DEF tx, k, act
  <2>6. act = [activated EXCEPT ![tx.from] = Minus(@, Debit(tx))]
    BY DEF act
  <2>7. Tracks(chain, snapshot.ants, next, k + 1, fees + tx.fee, Transferred(ants, tx), act, Still)
    BY <1>1, <2>1, <2>2, <2>3, <2>4, <2>5, <2>6, TracksTx
  <2>8. ReplayFits' /\ StoredFits'
    BY <1>1, <2>1, <2>2, <2>4, <2>7 DEF ReplayFits, StoredFits
  <2> QED BY <2>1, <2>8 DEF GainInv, Serving
<1>4. CASE ReplayBlock
  <2> DEFINE m == Applied
             ms == block.miners
  <2>1. /\ work = << >> /\ next <= Len(chain) /\ TakeBlock(next + 1) /\ fees' = 0
        /\ ants' = WithFees(ants, ms, fees) /\ pc' = pc
        /\ UNCHANGED <<activated, unstored, spent, chain, snapshot, sealed>>
    BY <1>4 DEF ReplayBlock, TakeBlock, durableVars
  <2>2. /\ next \in 1 .. Len(chain) /\ block = chain[next] /\ block \in Block
        /\ m = Len(chain[next].txs) /\ next + 1 \in 1 .. Len(chain) + 1
    BY <1>1, <2>1, PlacePassed
  <2>3. Applied' = 0 /\ next' = next + 1
    BY <2>1, <2>2, PlaceTaken
  <2>4. Still' = Still /\ next \in Nat \ {0} /\ m \in Nat
    BY <1>1, <1>2, <2>1, <2>2 DEF Still, AtPlace
  <2>5. /\ Treasury \notin chain[next].miners /\ chain[next].miners \in SUBSET Addr
        /\ chain[next].miners = ms
    BY <1>2, <2>2 DEF BareInv, Senders, Known, Plain, Block
  <2>6. Tracks(chain, snapshot.ants, next, m, fees, ants, activated, Still)
    BY <1>1 DEF ReplayFits
  <2> HIDE DEF m, ms
  <2>7. Tracks(chain, snapshot.ants, next + 1, 0, 0, WithFees(ants, ms, fees), activated, Still)
    BY <2>2, <2>4, <2>5, <2>6, TracksBlock
  <2>8. ReplayFits' /\ StoredFits'
    BY <1>1, <2>1, <2>3, <2>4, <2>7 DEF ReplayFits, StoredFits
  <2> QED BY <2>1, <2>8 DEF GainInv, Serving
<1> QED BY <1>3, <1>4

\* A node has recovered: nobody has more than was stored, and those that have
\* sent nothing have that.
Recovers ==
  /\ \A a \in Addr : ants[a] <= sealed[a]
  /\ \A a \in Still : ants[a] = sealed[a]

LEMMA RecoverGain ==
  ASSUME BalanceInv, RestartInv, BareInv, GainInv, Recover
  PROVE  Recovers /\ ants[Treasury] = 0 /\ GainInv'
<1>1. /\ pc = "replay" /\ pc' = "up" /\ loop' = "running" /\ next > Len(chain)
      /\ UNCHANGED <<ants, activated, chain, snapshot, sealed, unstored, spent>>
  BY DEF Recover, accountVars, durableVars
<1>2. /\ Len(chain) \in Nat /\ Len(chain) + 1 \in Nat \ {0} /\ chain \in Seq(Block)
      /\ ants \in [Addr -> Nat] /\ sealed \in [Addr -> Int] /\ sealed[Treasury] = 0
  BY GainTypes DEF BareInv, Bare
<1>3. Still' = Still /\ Still \subseteq Addr
  BY <1>1 DEF Still
<1>4. PICK r : Trace(chain, snapshot.ants, r, Len(chain) + 1, 0)
               /\ r[Len(chain) + 1][0].sim = ants
  BY RecoverEnds
<1>5. /\ ants[Treasury] = 0
      /\ \A a \in Addr \ {Treasury} : ants[a] <= sealed[a] /\ (a \in Still => ants[a] = sealed[a])
  <2>1. Fits(r[Len(chain) + 1][0], 0, sealed, Still)
    BY <1>4 DEF GainInv, StoredFits, Fitting
  <2> QED BY <1>4, <2>1 DEF Fits
<1>6. Recovers
  <2>1. ASSUME NEW a \in Addr PROVE ants[a] <= sealed[a] /\ (a \in Still => ants[a] = sealed[a])
    BY <1>2, <1>5
  <2> QED BY <1>3, <2>1 DEF Recovers
<1>7. next = Len(chain) + 1 /\ Applied = 0
  <2>1. AtPlace
    BY <1>1 DEF RestartInv
  <2>2. next = Len(chain) + 1
    BY <1>1, <1>2, <2>1 DEF AtPlace
  <2>3. block = NoBlock
    <3>1. next \notin DOMAIN chain
      BY <1>2, <2>2, LenProperties
    <3> QED BY <2>1, <3>1 DEF AtPlace, BlockAt
  <2>4. Len(block.txs) = 0
    BY <2>3 DEF NoBlock
  <2>5. Len(work) \in Nat /\ Applied \in Nat
    BY <2>1, LenProperties DEF BalanceInv, TypeOK, SealOK, AtPlace
  <2> QED BY <2>2, <2>4, <2>5 DEF Applied
<1>8. Tracks(chain, snapshot.ants, Len(chain) + 1, 0, fees, ants, activated, Still)
  BY <1>1, <1>7 DEF GainInv, ReplayFits
<1>9. RunningFits'
  <2>1. Fitting(chain, snapshot.ants, Len(chain) + 1, 0, 0, ants, Still)
    BY <1>2, <1>8, FitFees DEF Tracks
  <2> QED BY <1>1, <1>3, <2>1 DEF RunningFits
<1>10. ServingFits'
  <2>1. unstored = Zero
    BY <1>1 DEF BareInv, Stored
  <2>2. ASSUME NEW first \in Starts
        PROVE  Fitting(chain, first, Len(chain) + 1, 0, 0, Room(first, ants, activated, Zero),
                       Still)
    BY <1>2, <1>8, FitFees DEF Tracks, FromAny
  <2> QED BY <1>1, <1>3, <2>1, <2>2 DEF ServingFits, FromAny
<1>11. StoredFits'
  BY <1>1, <1>3 DEF GainInv, StoredFits
<1> QED BY <1>1, <1>5, <1>6, <1>9, <1>10, <1>11 DEF GainInv

LEMMA InitGain == Init => GainInv
<1> SUFFICES ASSUME Init PROVE GainInv
  OBVIOUS
<1>1. /\ chain = << >> /\ pc = "down" /\ sealed = snapshot.ants
  BY DEF Init, GenesisSnapshot
<1>2. snapshot.ants \in Starts
  BY InitBalances, InitBare, SnapshotStarts
<1>3. \A a \in Addr \ {Treasury} : snapshot.ants[a] <= sealed[a] /\ snapshot.ants[a] = sealed[a]
  BY <1>1, <1>2 DEF Starts
<1>4. Fitting(chain, snapshot.ants, 1, 0, 0, sealed, Still)
  BY <1>2, <1>3, FitFirst
<1>5. Len(chain) + 1 = 1
  BY <1>1
<1>6. StoredFits
  BY <1>4, <1>5 DEF StoredFits
<1> QED BY <1>1, <1>6 DEF GainInv, Serving

\* The rest.
LEMMA RestGain ==
  ASSUME GainInv, UNCHANGED <<chain, snapshot, sealed, spent>>,
         \/ pc' \in {"down", "reconcile", "refused"}
         \/ pc \in {"persist", "apply"} /\ pc' \in {"write", "up"}
            /\ UNCHANGED <<ants, activated, unstored>>
            /\ (pc' = "up" => loop' = "exited")
  PROVE  GainInv'
<1>1. Still' = Still
  BY DEF Still
<1>2. StoredFits' /\ (pc' \in Serving => ServingFits')
  BY <1>1 DEF GainInv, StoredFits, ServingFits, Serving
<1> QED BY <1>2 DEF GainInv

\* The two invariants are inductive together.
LEMMA GainInductive ==
  ASSUME TakenOnChain
  PROVE  /\ Init => BareInv /\ GainInv
         /\ BalanceInv /\ BalanceInv' /\ RestartInv /\ PoolEmpty /\ BareInv /\ GainInv
              /\ [Next]_vars => BareInv' /\ GainInv'
<1>1. ASSUME BalanceInv, BalanceInv', RestartInv, PoolEmpty, BareInv, GainInv, [Next]_vars
      PROVE  BareInv' /\ GainInv'
  <2>1. CASE Requests
    BY <1>1, <2>1, RequestsBare, RequestsGain
  <2>2. CASE Syncing
    <3>1. CASE \E rows \in Web2Ledgers : Sync(rows)
      BY <1>1, <3>1, SyncBare, SyncGain
    <3>2. CASE Truncate
      <4>1. /\ pc = "persist" /\ pc' = "write"
            /\ UNCHANGED <<exists, ants, activated, sessions, mempool, miners, chain, snapshot,
                           loop, topups, sealed, unstored, spent>>
        BY <3>2 DEF Truncate, accountVars, poolVars, replayVars
      <4> QED BY <1>1, <4>1, RestBare, RestGain
    <3>3. CASE WriteSnapshot
      BY <1>1, <3>3, WriteBare, WriteGain
    <3> QED BY <2>2, <3>1, <3>2, <3>3 DEF Syncing
  <2>3. CASE BeginBlock \/ FinishBlock
    BY <1>1, <2>3, BeginBare, BeginGain, FinishBare, FinishGain
  <2>4. CASE ApplyTx
    <3>1. CASE pc = "apply"
      BY <1>1, <2>4, <3>1, ApplyBare, ApplyGain
    <3>2. CASE pc = "replay"
      BY <1>1, <2>4, <3>2, ReplayBare, ReplayGain
    <3> QED BY <2>4, <3>1, <3>2 DEF ApplyTx
  <2>5. CASE Store \/ StoreFails
    BY <1>1, <2>5, StoreBare, StoreGain
  <2>6. CASE ApplyFails
    <3>1. /\ pc = "apply" /\ pc' = "up" /\ loop' = "exited"
          /\ UNCHANGED <<exists, ants, activated, sessions, mempool, miners, chain, snapshot,
                         topups, sealed, unstored, spent>>
      BY <2>6 DEF ApplyFails, LoopEnds, accountVars, poolVars, durableVars, replayVars
    <3> QED BY <1>1, <3>1, RestBare, RestGain
  <2>7. CASE Crash
    <3>1. pc' = "down" /\ UNCHANGED <<chain, snapshot, sealed, spent>>
      BY <2>7 DEF Crash, durableVars
    <3> QED BY <1>1, <2>7, <3>1, CrashBare, RestGain
  <2>8. CASE Restart
    <3>1. pc' = "reconcile" /\ UNCHANGED <<chain, snapshot, sealed, spent>>
      BY <2>8 DEF Restart, durableVars
    <3> QED BY <1>1, <2>8, <3>1, StartBare, RestGain
  <2>9. CASE ReconcileTx \/ ReconcileBlock
    <3>1. pc' = "reconcile" /\ UNCHANGED <<chain, snapshot, sealed, spent>>
      BY <2>9 DEF ReconcileTx, ReconcileBlock, durableVars
    <3> QED BY <1>1, <2>9, <3>1, ReplayBare, RestGain
  <2>10. CASE StartReplay
    BY <1>1, <2>10, StartBare, StartGain
  <2>11. CASE ReplayBlock
    BY <1>1, <2>11, ReplayBare, ReplayGain DEF ReplayBlock
  <2>12. CASE Recover
    BY <1>1, <2>12, RecoverBare, RecoverGain
  <2>13. CASE RestartFails \/ ReplayFails
    <3>1. /\ pc' = "refused"
          /\ UNCHANGED <<exists, ants, activated, sessions, mempool, miners, chain, snapshot,
                         topups, sealed, unstored, spent>>
      BY <2>13 DEF RestartFails, ReplayFails, accountVars, poolVars, durableVars, replayVars
    <3> QED BY <1>1, <3>1, RestBare, RestGain
  <2>14. CASE UNCHANGED vars
    <3>1. BareInv'
      BY <1>1, <2>14
         DEF vars, BareInv, Bare, Advanced, Senders, Stored, Starting, Belongs, Outgoing,
             Plain, Known, PendingDebit, AtWork, InPlace, Applied
    <3>2. GainInv'
      BY <1>1, <2>14
         DEF vars, GainInv, StoredFits, ServingFits, RunningFits, SealingFits, ReplayFits,
             Still, Applied
    <3> QED BY <3>1, <3>2
  <2>15. ~ WriteFails
    BY DEF WriteFails, TakenOnChain
  <2> QED BY <1>1, <2>1, <2>2, <2>3, <2>4, <2>5, <2>6, <2>7, <2>8, <2>9, <2>10, <2>11, <2>12,
             <2>13, <2>14, <2>15
          DEF Next, Sealing, Failing, StartUp
<1>2. Init => BareInv /\ GainInv
  BY InitBare, InitGain
<1> QED BY <1>1, <1>2

LEMMA AlwaysRecovers ==
  ASSUME TakenOnChain
  PROVE  Spec => [][Recover => Recovers]_vars
<1>1. CreditInv => PoolEmpty
  BY DEF CreditInv
<1>2. Spec => [](BareInv /\ GainInv)
  BY <1>1, GainInductive, AlwaysBalanced, AlwaysCredited, AlwaysRestarting, PTL DEF Spec
<1>3. BalanceInv /\ RestartInv /\ BareInv /\ GainInv => (Recover => Recovers)
  BY RecoverGain
<1>4. BalanceInv /\ RestartInv /\ BareInv /\ GainInv /\ [Next]_vars
        => [Recover => Recovers]_vars
  BY <1>3
<1> QED BY <1>2, <1>4, AlwaysBalanced, AlwaysRestarting, PTL DEF Spec

\* A restart gives nobody more than it had when the last block or snapshot was
\* stored: whatever was spent before a sync wrote the snapshot, whatever part of a
\* block was applied and lost, and whatever an administrator minted.
THEOREM RestartsGiveNothing ==
  ASSUME TakenOnChain
  PROVE  Spec => ReplayNeverGives
<1>1. [Recover => Recovers]_vars => [Recover => \A a \in Addr : ants[a] <= sealed[a]]_vars
  BY DEF Recovers
<1> QED BY <1>1, AlwaysRecovers, PTL DEF ReplayNeverGives

\* And it takes nothing from those that have sent nothing, whatever a sync wrote,
\* as long as nothing is minted, which is in no block.
THEOREM RestartsKeepTheIdle ==
  ASSUME TakenOnChain, "mint" \notin Ops
  PROVE  Spec => [][Recover => \A a \in Addr \ spent : ants[a] = sealed[a]]_vars
<1>1. [Recover => Recovers]_vars
        => [Recover => \A a \in Addr \ spent : ants[a] = sealed[a]]_vars
  BY DEF Recovers, Still
<1> QED BY <1>1, AlwaysRecovers, PTL
==============================================================================
