--------------------------- MODULE ChainStoreProofs ---------------------------
(***************************************************************************)
(* Proofs about ChainStore, for every set of transactions, every set of    *)
(* epoch lengths, any genesis and start time, and any combination of       *)
(* faults.                                                                 *)
(***************************************************************************)
EXTENDS ChainStore, SequenceTheorems, TLAPS

(***************************************************************************)
(* The inductive invariant: what each control state of the node knows      *)
(* about the tables and about the block it is storing.                     *)
(***************************************************************************)
Starting ==
  pc \in {"down", "genesisInsert", "genesisTip", "load", "refused"}
    => blocks = << >> /\ loop = "exited"

StoringGenesis ==
  pc \in {"genesisInsert", "genesisTip"}
    => tip = << >> /\ draft = <<GenesisBlock>>

StoringBlock ==
  pc \in {"insert", "tip"}
    => /\ loop = "running"
       /\ \E b \in Body : draft = Append(tip, b) /\ b.height = Len(tip)

Loading == pc = "load" => tip # << >>

RowStored == pc \in {"tip", "genesisTip"} => draft \in rows

\* Memory is the durable chain, or lacks its last block after a lost answer.
MemoryBehind ==
  pc \in {"up", "insert", "tip"} =>
    /\ blocks # << >>
    /\ \/ blocks = tip
       \/ /\ loop = "exited"
          /\ \E b \in Body : tip = Append(blocks, b)

LoopKnowsTip == loop = "running" => blocks = tip

StoreInv ==
  /\ TypeOK
  /\ TipResolvable
  /\ HeightsMatchPositions
  /\ Starting
  /\ StoringGenesis
  /\ StoringBlock
  /\ Loading
  /\ RowStored
  /\ MemoryBehind
  /\ LoopKnowsTip

------------------------------------------------------------------------------
(***************************************************************************)
(* Appending a block that has a row to a chain that resolves gives a chain *)
(* that resolves.                                                          *)
(***************************************************************************)
LEMMA ResolvableAppend ==
  ASSUME NEW chain \in Seq(Body), NEW b \in Body,
         Resolvable(chain), Append(chain, b) \in rows
  PROVE  Resolvable(Append(chain, b))
<1> SUFFICES ASSUME NEW n \in 1 .. Len(Append(chain, b))
             PROVE  SubSeq(Append(chain, b), 1, n) \in rows
  BY DEF Resolvable
<1>1. Append(chain, b) \in Seq(Body) /\ Len(Append(chain, b)) = Len(chain) + 1
  OBVIOUS
<1>2. CASE n <= Len(chain)
  <2>1. SubSeq(Append(chain, b), 1, n) = SubSeq(chain, 1, n)
    BY <1>1, <1>2
  <2>2. SubSeq(chain, 1, n) \in rows
    BY <1>2 DEF Resolvable
  <2> QED BY <2>1, <2>2
<1>3. CASE n = Len(chain) + 1
  BY <1>1, <1>3, SubSeqFull
<1> QED BY <1>1, <1>2, <1>3

\* More rows never make a chain unresolvable.
LEMMA ResolvableMonotone ==
  ASSUME Resolvable(tip), rows \subseteq rows', tip' = tip
  PROVE  Resolvable(tip)'
BY DEF Resolvable

\* A block labelled with the length of the chain continues its labels.
LEMMA HeightsAppend ==
  ASSUME NEW chain \in Seq(Body), NEW b \in Body,
         \A n \in 1 .. Len(chain) : chain[n].height = n - 1,
         b.height = Len(chain)
  PROVE  \A n \in 1 .. Len(Append(chain, b)) :
            Append(chain, b)[n].height = n - 1
OBVIOUS

\* A process that starts has an epoch length above zero.
LEMMA LengthsPositive == ValidLengths \subseteq Nat \ {0}
BY ChainStoreAssumption DEF ValidLengths

\* The genesis block is a block, at height 0.
LEMMA GenesisBlockType == GenesisBlock \in Body /\ GenesisBlock.height = 0
BY ChainStoreAssumption DEF GenesisBlock, Body

\* The block the loop builds is labelled with the next position.
LEMMA NextBodyType ==
  ASSUME TypeOK, HeightsMatchPositions, blocks = tip, blocks # << >>
  PROVE  NextBody \in Body /\ NextBody.height = Len(tip)
<1>1. LastBlock \in Body /\ LastBlock.height = Len(tip) - 1 /\ Len(tip) \in Nat \ {0}
  BY DEF TypeOK, HeightsMatchPositions, LastBlock
<1>2. epoch \in Nat \ {0} /\ clock \in Nat
  BY ChainStoreAssumption DEF TypeOK
<1>3. EpochStart(clock, epoch) \in Int
  BY <1>2 DEF EpochStart
<1> QED BY <1>1, <1>2, <1>3 DEF NextBody, Body, TypeOK

------------------------------------------------------------------------------
\* Initially both tables are empty.
LEMMA InitStoreInv == Init => StoreInv
BY ChainStoreAssumption, LengthsPositive
   DEF Init, StoreInv, TypeOK, TipResolvable, Resolvable, HeightsMatchPositions,
       Starting, StoringGenesis, StoringBlock, Loading, RowStored, MemoryBehind, LoopKnowsTip

\* Every step, successful or not, preserves the invariant of the store.
LEMMA NextStoreInv == StoreInv /\ [Next]_vars => StoreInv'
<1> SUFFICES ASSUME StoreInv, [Next]_vars PROVE StoreInv'
  OBVIOUS
<1> USE DEF StoreInv, TypeOK, Starting, StoringGenesis, StoringBlock, Loading,
            RowStored, MemoryBehind, LoopKnowsTip
<1>a. ASSUME UNCHANGED dbVars PROVE (TipResolvable /\ HeightsMatchPositions)'
  BY <1>a DEF dbVars, TipResolvable, Resolvable, HeightsMatchPositions
<1>b. ASSUME NEW hash, rows' = rows \cup {hash}, tip' = tip
      PROVE  (TipResolvable /\ HeightsMatchPositions)'
  BY <1>b DEF TipResolvable, Resolvable, HeightsMatchPositions
<1>c. ASSUME pc \in {"tip", "genesisTip"}, tip' = draft, rows' = rows
      PROVE  (TipResolvable /\ HeightsMatchPositions)'
  <2>1. PICK b \in Body : draft = Append(tip, b) /\ b.height = Len(tip)
    <3>1. CASE pc = "tip"
      BY <3>1
    <3>2. CASE pc = "genesisTip"
      BY <3>2, GenesisBlockType
    <3> QED BY <1>c, <3>1, <3>2
  <2>2. Resolvable(draft)
    BY <1>c, <2>1, ResolvableAppend DEF TipResolvable
  <2>3. TipResolvable'
    BY <1>c, <2>2 DEF TipResolvable, Resolvable
  <2>4. HeightsMatchPositions'
    BY <1>c, <2>1, HeightsAppend DEF HeightsMatchPositions
  <2> QED BY <2>3, <2>4
<1>1. CASE Boot
  <2>1. (TipResolvable /\ HeightsMatchPositions)'
    BY <1>1, <1>a DEF Boot, dbVars
  <2>2. CASE tip = << >>
    <3>1. <<GenesisBlock>> \in Seq(Body)
      BY GenesisBlockType
    <3>2. pc' = "genesisInsert" /\ draft' = <<GenesisBlock>>
      BY <1>1, <2>2 DEF Boot
    <3>3. GenesisBlock' = GenesisBlock
      BY DEF GenesisBlock
    <3> QED BY <1>1, <2>1, <2>2, <3>1, <3>2, <3>3, LengthsPositive DEF Boot
  <2>3. CASE tip # << >>
    BY <1>1, <2>1, <2>3, LengthsPositive DEF Boot
  <2> QED BY <2>2, <2>3
<1>2. CASE Load
  BY <1>2, <1>a DEF Load, dbVars
<1>3. ASSUME NEW t \in Tx, Submit(t) PROVE StoreInv'
  BY <1>3, <1>a DEF Submit, dbVars
<1>4. CASE Tick
  BY <1>4, <1>a DEF Tick, dbVars, nodeVars
<1>5. CASE BeginBlock
  <2>1. NextBody \in Body /\ NextBody.height = Len(tip)
    BY <1>5, NextBodyType DEF BeginBlock
  <2> QED BY <1>5, <1>a, <2>1 DEF BeginBlock, Chained, dbVars
<1>6. CASE ReadTipFails
  BY <1>6, <1>a DEF ReadTipFails, LoopExits, dbVars
<1>7. CASE ApplyFails
  BY <1>7, <1>a DEF ApplyFails, LoopExits, dbVars
<1>8. CASE InsertBlock
  BY <1>8, <1>b DEF InsertBlock, RowOf
<1>9. CASE InsertDuplicate
  <2>1. (TipResolvable /\ HeightsMatchPositions)'
    BY <1>9, <1>a DEF InsertDuplicate, dbVars
  <2>2. CASE pc = "insert"
    BY <1>9, <2>1, <2>2 DEF InsertDuplicate, LoopExits
  <2>3. CASE pc = "genesisInsert"
    BY <1>9, <2>1, <2>3 DEF InsertDuplicate, LoopExits
  <2>4. pc = "insert" \/ pc = "genesisInsert"
    BY <1>9 DEF InsertDuplicate
  <2> HIDE DEF StoreInv
  <2> QED BY <2>2, <2>3, <2>4
<1>10. CASE InsertFails
  <2>1. (TipResolvable /\ HeightsMatchPositions)'
    BY <1>10, <1>a, <1>b DEF InsertFails, dbVars
  <2>2. rows' \subseteq Seq(Body)
    BY <1>10 DEF InsertFails
  <2> QED BY <1>10, <2>1, <2>2 DEF InsertFails, LoopExits
<1>11. CASE UpdateTip
  <2>1. (TipResolvable /\ HeightsMatchPositions)'
    BY <1>11, <1>c DEF UpdateTip
  <2>2. CASE pc = "tip"
    <3>1. PICK b \in Body : draft = Append(tip, b)
      BY <2>2
    <3>2. draft[Len(draft)] = b /\ draft # << >>
      BY <3>1
    <3>3. tip' = draft /\ blocks' = draft /\ pc' = "up"
      BY <1>11, <2>2, <3>1, <3>2 DEF UpdateTip
    <3> QED BY <1>11, <2>1, <2>2, <3>2, <3>3 DEF UpdateTip
  <2>3. CASE pc = "genesisTip"
    BY <1>11, <2>1, <2>3 DEF UpdateTip
  <2> QED BY <1>11, <2>2, <2>3 DEF UpdateTip
<1>12. CASE UpdateTipFails
  <2>1. (TipResolvable /\ HeightsMatchPositions)'
    BY <1>12, <1>a, <1>c DEF UpdateTipFails, dbVars
  <2>2. blocks = tip /\ \E b \in Body : draft = Append(tip, b)
    BY <1>12 DEF UpdateTipFails
  <2>3. blocks' = blocks /\ blocks # << >> /\ rows' = rows /\ pc' = "up"
        /\ loop' = "exited" /\ draft' = << >>
    BY <1>12 DEF UpdateTipFails, LoopExits
  <2>4. CASE tip' = tip
    BY <1>12, <2>1, <2>2, <2>3, <2>4 DEF UpdateTipFails
  <2>5. CASE tip' = draft
    <3>1. MemoryBehind'
      BY <2>2, <2>3, <2>5
    <3> QED BY <1>12, <2>1, <2>3, <2>5, <3>1 DEF UpdateTipFails
  <2> QED BY <1>12, <2>4, <2>5 DEF UpdateTipFails
<1>13. CASE Crash
  <2>1. (TipResolvable /\ HeightsMatchPositions)'
    BY <1>13, <1>a, <1>b, <1>c DEF Crash, dbVars
  <2>2. tip' \in Seq(Body) /\ rows' \subseteq Seq(Body)
    BY <1>13 DEF Crash, dbVars
  <2> QED BY <1>13, <2>1, <2>2 DEF Crash
<1>14. CASE UNCHANGED vars
  BY <1>14, <1>a DEF vars, dbVars
<1> QED
  BY <1>1, <1>2, <1>3, <1>4, <1>5, <1>6, <1>7, <1>8, <1>9, <1>10, <1>11,
     <1>12, <1>13, <1>14
  DEF Next

\* StoreInv is an invariant of the store.
LEMMA SpecStoreInv == Spec => []StoreInv
<1>1. Init => StoreInv
  BY InitStoreInv
<1>2. StoreInv /\ [Next]_vars => StoreInv'
  BY NextStoreInv
<1> QED BY <1>1, <1>2, PTL DEF Spec

(***************************************************************************)
(* In every reachable state LAST_HASH can be walked down to the genesis    *)
(* block, with every fault at every await of create_block and of start-up: *)
(* load_chain_blocks cannot fail on a missing hash.                        *)
(***************************************************************************)
THEOREM TipAlwaysResolves == Spec => [](TypeOK /\ TipResolvable)
<1>1. StoreInv => TypeOK /\ TipResolvable
  BY DEF StoreInv
<1> QED BY <1>1, SpecStoreInv, PTL

(***************************************************************************)
(* create_block takes the height from memory and previous_hash from the    *)
(* database; the two never disagree, and memory is never ahead of the      *)
(* database nor more than one block behind it.                             *)
(***************************************************************************)
THEOREM MemoryNeverAhead == Spec => [](MemoryMatchesStore /\ HeightsMatchPositions)
<1>1. StoreInv => MemoryMatchesStore /\ HeightsMatchPositions
  <2> SUFFICES ASSUME StoreInv PROVE MemoryMatchesStore
    BY DEF StoreInv
  <2> USE DEF StoreInv
  <2>1. tip \in Seq(Body) /\ blocks \in Seq(Body)
    BY DEF TypeOK
  <2>2. CASE blocks = tip
    BY <2>1, <2>2 DEF MemoryMatchesStore, IsPrefix
  <2>3. CASE pc \in {"down", "genesisInsert", "genesisTip", "load", "refused"}
    <3>1. blocks = << >> /\ loop = "exited" /\ pc # "up"
      BY <2>3 DEF Starting
    <3>2. SubSeq(blocks, 1, 0) = << >> /\ SubSeq(tip, 1, 0) = << >>
      BY SubSeqEmpty
    <3> QED BY <2>1, <3>1, <3>2 DEF MemoryMatchesStore, IsPrefix
  <2>4. CASE pc \in {"up", "insert", "tip"} /\ blocks # tip
    <3>1. PICK b \in Body : tip = Append(blocks, b)
      BY <2>4 DEF MemoryBehind
    <3>2. loop = "exited"
      BY <2>4 DEF MemoryBehind
    <3>3. IsPrefix(blocks, tip) /\ Len(tip) - Len(blocks) = 1
      BY <2>1, <3>1 DEF IsPrefix
    <3> QED BY <3>2, <3>3 DEF MemoryMatchesStore
  <2> QED BY <2>2, <2>3, <2>4 DEF TypeOK
<1> QED BY <1>1, SpecStoreInv, PTL

------------------------------------------------------------------------------
(***************************************************************************)
(* The durable chain implements the append-only log: of all the steps,     *)
(* only the second statement of store_block_and_update_tip changes it, and *)
(* it adds one block with the next label.                                  *)
(***************************************************************************)
THEOREM StoreImplementsLog == Spec => LogGrows
<1>1. Init => Log!Init
  BY DEF Init, Log!Init
<1>2. StoreInv /\ StoreInv' /\ [Next]_vars => [Log!Next]_tip
  <2> SUFFICES ASSUME StoreInv, StoreInv', [Next]_vars, tip' # tip
               PROVE  Log!Next
    OBVIOUS
  <2> USE DEF StoreInv
  <2>1. tip' = draft /\ pc \in {"tip", "genesisTip"}
    BY DEF Next, Boot, Load, Submit, Tick, BeginBlock, ReadTipFails, ApplyFails,
           InsertBlock, InsertDuplicate, InsertFails, UpdateTip, UpdateTipFails,
           Crash, vars, dbVars
  <2>2. PICK b \in Body : draft = Append(tip, b) /\ b.height = Len(tip)
    <3>1. CASE pc = "tip"
      BY <3>1 DEF StoringBlock
    <3>2. CASE pc = "genesisTip"
      BY <3>2, GenesisBlockType DEF StoringGenesis
    <3> QED BY <2>1, <3>1, <3>2
  <2>3. tip \in Seq(Body)
    BY DEF TypeOK
  <2> QED BY <2>1, <2>2, <2>3 DEF Log!Next, Log!Extend, Log!Labelled
<1> QED BY <1>1, <1>2, SpecStoreInv, PTL DEF Spec, LogGrows, Log!Spec

------------------------------------------------------------------------------
(***************************************************************************)
(* No transaction is sealed twice.  While the loop runs, what is pending   *)
(* or being stored is not yet in the durable chain; once the loop has      *)
(* ended nothing is stored before the next start, which forgets both.      *)
(***************************************************************************)
FreshWork ==
  /\ pc \in {"down", "genesisInsert", "genesisTip", "load", "refused"} => pending = {}
  /\ loop = "running" => pending \cap SealedTxs(tip) = {}
  /\ pc \in {"insert", "tip"} =>
       \E b \in Body : /\ draft = Append(tip, b)
                       /\ b.txs \cap SealedTxs(tip) = {}
                       /\ b.txs \cap pending = {}

OnceInv == SealedOnce /\ FreshWork

\* What a chain and one more block have sealed.
LEMMA SealedAppend ==
  ASSUME NEW chain \in Seq(Body), NEW b \in Body
  PROVE  SealedTxs(Append(chain, b)) = SealedTxs(chain) \cup b.txs
<1>1. Len(Append(chain, b)) = Len(chain) + 1 /\ Len(chain) \in Nat
      /\ Append(chain, b)[Len(chain) + 1] = b
      /\ \A n \in 1 .. Len(chain) : Append(chain, b)[n] = chain[n]
  OBVIOUS
<1>2. ASSUME NEW t, t \in SealedTxs(Append(chain, b))
      PROVE  t \in SealedTxs(chain) \cup b.txs
  <2>1. PICK n \in 1 .. Len(chain) + 1 : t \in Append(chain, b)[n].txs
    BY <1>1, <1>2 DEF SealedTxs
  <2> QED BY <1>1, <2>1 DEF SealedTxs
<1>3. ASSUME NEW t, t \in SealedTxs(chain)
      PROVE  t \in SealedTxs(Append(chain, b))
  <2>1. PICK n \in 1 .. Len(chain) : t \in chain[n].txs
    BY <1>3 DEF SealedTxs
  <2>2. n \in 1 .. Len(Append(chain, b)) /\ t \in Append(chain, b)[n].txs
    BY <1>1, <2>1
  <2> QED BY <2>2 DEF SealedTxs
<1>4. ASSUME NEW t, t \in b.txs
      PROVE  t \in SealedTxs(Append(chain, b))
  <2>1. Len(chain) + 1 \in 1 .. Len(Append(chain, b))
    BY <1>1
  <2> QED BY <1>1, <1>4, <2>1 DEF SealedTxs
<1> QED BY <1>2, <1>3, <1>4

\* A block of fresh transactions leaves every transaction sealed once.
LEMMA OnceAppend ==
  ASSUME NEW chain \in Seq(Body), NEW b \in Body,
         \A m, n \in 1 .. Len(chain) : m # n => chain[m].txs \cap chain[n].txs = {},
         b.txs \cap SealedTxs(chain) = {}
  PROVE  \A m, n \in 1 .. Len(Append(chain, b)) :
            m # n => Append(chain, b)[m].txs \cap Append(chain, b)[n].txs = {}
<1>1. Len(Append(chain, b)) = Len(chain) + 1 /\ Len(chain) \in Nat
      /\ Append(chain, b)[Len(chain) + 1] = b
      /\ \A n \in 1 .. Len(chain) : Append(chain, b)[n] = chain[n]
  OBVIOUS
<1>2. \A n \in 1 .. Len(chain) : chain[n].txs \cap b.txs = {}
  BY DEF SealedTxs
<1> QED BY <1>1, <1>2

\* Initially nothing is sealed or pending.
LEMMA InitOnce == Init => OnceInv
BY DEF Init, OnceInv, SealedOnce, FreshWork, SealedTxs

\* Every step keeps pending work fresh and sealed work single.
LEMMA NextOnce == StoreInv /\ OnceInv /\ [Next]_vars => OnceInv'
<1> SUFFICES ASSUME StoreInv, OnceInv, [Next]_vars PROVE OnceInv'
  OBVIOUS
<1> USE DEF OnceInv
<1>t. tip \in Seq(Body)
  BY DEF StoreInv, TypeOK
<1>a. ASSUME tip' = tip PROVE SealedOnce' /\ SealedTxs(tip)' = SealedTxs(tip)
  BY <1>a DEF SealedOnce, SealedTxs
<1>b. ASSUME pc = "tip", tip' = draft
      PROVE  /\ SealedOnce'
             /\ pending \cap SealedTxs(tip)' = {}
  <2>1. PICK b \in Body : /\ draft = Append(tip, b)
                          /\ b.txs \cap SealedTxs(tip) = {}
                          /\ b.txs \cap pending = {}
    BY <1>b DEF FreshWork
  <2>2. pending \cap SealedTxs(tip) = {}
    BY <1>b DEF FreshWork, StoreInv, StoringBlock
  <2>3. SealedTxs(tip)' = SealedTxs(tip) \cup b.txs
    BY <1>b, <1>t, <2>1, SealedAppend DEF SealedTxs
  <2>4. SealedOnce'
    BY <1>b, <1>t, <2>1, OnceAppend DEF SealedOnce
  <2> QED BY <2>1, <2>2, <2>3, <2>4
<1>c. ASSUME pc = "genesisTip", tip' = draft PROVE SealedOnce'
  <2>1. draft = <<GenesisBlock>>
    BY <1>c DEF StoreInv, StoringGenesis
  <2>2. Len(tip') = 1
    BY <1>c, <2>1
  <2> QED BY <2>2 DEF SealedOnce
<1> USE DEF FreshWork
<1>1. CASE Boot
  <2>1. pending' = {} /\ loop' = "exited" /\ tip' = tip
        /\ pc' \in {"genesisInsert", "load", "refused"}
    BY <1>1 DEF Boot, StoreInv, Starting
  <2> QED BY <1>a, <2>1
<1>2. CASE Load
  BY <1>2, <1>a DEF Load
<1>3. ASSUME NEW t \in Tx, Submit(t) PROVE OnceInv'
  <2>1. pc = "up" /\ tip' = tip /\ pc' = pc /\ loop' = loop /\ blocks' = blocks
        /\ pending' = pending \cup {t} /\ t \notin SealedTxs(blocks)
    BY <1>3 DEF Submit
  <2>2. loop = "running" => t \notin SealedTxs(tip)
    BY <2>1 DEF StoreInv, LoopKnowsTip
  <2> QED BY <1>a, <2>1, <2>2
<1>4. CASE Tick
  BY <1>4, <1>a DEF Tick, nodeVars
<1>5. CASE BeginBlock
  <2>1. NextBody \in Body
    BY <1>5, NextBodyType DEF BeginBlock, StoreInv, LoopKnowsTip, MemoryBehind
  <2>2. NextBody.txs = pending
    BY DEF NextBody
  <2>3. pc' = "insert" /\ tip' = tip /\ pending' = {} /\ loop' = loop
        /\ draft' = Append(tip, NextBody) /\ pending \cap SealedTxs(tip) = {}
    BY <1>5 DEF BeginBlock, Chained
  <2>4. NextBody.txs \cap SealedTxs(tip)' = {} /\ NextBody.txs \cap pending' = {}
    BY <1>a, <2>2, <2>3
  <2>5. \E b \in Body : /\ draft' = Append(tip', b)
                        /\ b.txs \cap SealedTxs(tip)' = {}
                        /\ b.txs \cap pending' = {}
    BY <2>1, <2>3, <2>4
  <2>6. SealedTxs(tip)' = SealedTxs(tip') /\ SealedOnce'
    BY <1>a, <2>3 DEF SealedTxs
  <2> QED BY <2>3, <2>5, <2>6
<1>6. CASE ReadTipFails
  BY <1>6, <1>a DEF ReadTipFails, LoopExits
<1>7. CASE ApplyFails
  BY <1>7, <1>a DEF ApplyFails, LoopExits
<1>8. CASE InsertBlock
  BY <1>8, <1>a DEF InsertBlock
<1>9. CASE InsertDuplicate
  <2>1. CASE pc = "insert"
    BY <1>9, <1>a, <2>1 DEF InsertDuplicate, LoopExits
  <2>2. CASE pc = "genesisInsert"
    BY <1>9, <1>a, <2>2 DEF InsertDuplicate, StoreInv, Starting
  <2> QED BY <1>9, <2>1, <2>2 DEF InsertDuplicate
<1>10. CASE InsertFails
  BY <1>10, <1>a DEF InsertFails, LoopExits
<1>11. CASE UpdateTip
  <2>1. CASE pc = "tip"
    BY <1>11, <1>b, <2>1 DEF UpdateTip
  <2>2. CASE pc = "genesisTip"
    BY <1>11, <1>c, <2>2 DEF UpdateTip, StoreInv, Starting
  <2> QED BY <1>11, <2>1, <2>2 DEF UpdateTip
<1>12. CASE UpdateTipFails
  BY <1>12, <1>a, <1>b DEF UpdateTipFails, LoopExits
<1>13. CASE Crash
  BY <1>13, <1>a, <1>b, <1>c DEF Crash, dbVars
<1>14. CASE UNCHANGED vars
  BY <1>14, <1>a DEF vars
<1> QED
  BY <1>1, <1>2, <1>3, <1>4, <1>5, <1>6, <1>7, <1>8, <1>9, <1>10, <1>11,
     <1>12, <1>13, <1>14
  DEF Next

(***************************************************************************)
(* A transaction is in at most one durable block, although the node that   *)
(* stored a block may never have learnt that it did, and although clients  *)
(* submit again what a crash or a failed block has dropped.                *)
(***************************************************************************)
THEOREM NothingSealedTwice == Spec => []SealedOnce
<1>1. Init => OnceInv
  BY InitOnce
<1>2. StoreInv /\ OnceInv /\ [Next]_vars => OnceInv'
  BY NextOnce
<1>3. OnceInv => SealedOnce
  BY DEF OnceInv
<1> QED BY <1>1, <1>2, <1>3, SpecStoreInv, PTL DEF Spec

------------------------------------------------------------------------------
(***************************************************************************)
(* A start finds a chain it accepts.  create_block does not compare the    *)
(* windows of the block it builds with the last block's, except for        *)
(* equality of their starts; that they do not overlap follows when all the *)
(* epochs are cut by one length L and none begins inside the genesis       *)
(* block's.                                                                *)
(***************************************************************************)
\* A block whose epoch is over, or is the one the clock is in.
Current(b, L) ==
  \/ b.end <= EpochStart(clock, L)
  \/ b.start = EpochStart(clock, L) /\ b.end = EpochStart(clock, L) + L

\* A block that begins where the chain ends, or later.
Follows(chain, b) ==
  b.start < b.end /\ (chain # << >> => chain[Len(chain)].end <= b.start)

ChainCurrent(L) ==
  EpochsOrdered(tip) /\ (tip # << >> => Current(tip[Len(tip)], L))

DraftCurrent(L) ==
  pc \in {"insert", "tip"} =>
    \E b \in Body : draft = Append(tip, b) /\ Follows(tip, b) /\ Current(b, L)

TimeInv(L) == epoch = L /\ GenesisTime + GenesisSpan <= EpochStart(clock, L)

OnlyGenesisRow == tip = << >> => rows \subseteq {<<GenesisBlock>>}

StartInv(L) ==
  /\ TimeInv(L)
  /\ ChainCurrent(L)
  /\ DraftCurrent(L)
  /\ OnlyGenesisRow
  /\ RefusedOnlyByGenesis

\* The start of an epoch is a multiple of its length.
LEMMA EpochIsMultiple ==
  ASSUME NEW n \in Nat, NEW L \in Nat \ {0}
  PROVE  /\ n \div L \in Int
         /\ EpochStart(n, L) = L * (n \div L)
         /\ EpochStart(n, L) <= n /\ n < EpochStart(n, L) + L
<1>1. n \div L \in Int /\ n % L \in 0 .. L - 1 /\ n = L * (n \div L) + (n % L)
  BY SMT
<1> QED BY <1>1 DEF EpochStart

\* From one second to the next the epoch stays, or gives way to a later one.
LEMMA EpochAdvances ==
  ASSUME NEW n \in Nat, NEW L \in Nat \ {0}
  PROVE  /\ EpochStart(n, L) \in Int /\ EpochStart(n + 1, L) \in Int
         /\ \/ EpochStart(n + 1, L) = EpochStart(n, L)
            \/ EpochStart(n + 1, L) >= EpochStart(n, L) + L
<1> DEFINE p == n \div L
           q == (n + 1) \div L
<1>1. /\ p \in Int /\ EpochStart(n, L) = L * p
      /\ EpochStart(n, L) <= n /\ n < EpochStart(n, L) + L
  BY EpochIsMultiple
<1>2. /\ q \in Int /\ EpochStart(n + 1, L) = L * q
      /\ EpochStart(n + 1, L) <= n + 1 /\ n + 1 < EpochStart(n + 1, L) + L
  <2>1. n + 1 \in Nat
    OBVIOUS
  <2> QED BY <2>1, EpochIsMultiple
<1> HIDE DEF p, q
<1>3. \A a, b \in Int : a < b => L * a + L <= L * b
  <2> TAKE a, b \in Int
  <2>1. CASE a < b
    <3>1. b - a - 1 \in Nat
      BY <2>1
    <3>2. L * (b - a - 1) \in Nat
      BY <3>1
    <3>3. L * (b - a - 1) = L * b - L * a - L
      OBVIOUS
    <3> QED BY <3>2, <3>3
  <2> QED BY <2>1
<1>4. L * p \in Int /\ L * q \in Int
  BY <1>1, <1>2
<1>5. CASE p < q
  BY <1>1, <1>2, <1>3, <1>4, <1>5
<1>6. CASE q < p
  <2>1. L * q + L <= L * p
    BY <1>1, <1>2, <1>3, <1>6
  <2> QED BY <1>1, <1>2, <1>4, <2>1
<1>7. CASE p = q
  BY <1>1, <1>2, <1>4, <1>7
<1> QED BY <1>1, <1>2, <1>5, <1>6, <1>7

\* What is over, or current, stays so when time passes.
LEMMA CurrentLater ==
  ASSUME NEW L \in Nat \ {0}, NEW b \in Body, clock \in Nat,
         clock' \in {clock, clock + 1}, Current(b, L)
  PROVE  Current(b, L)'
<1>1. b.start \in Int /\ b.end \in Int
  BY DEF Body
<1> QED BY <1>1, EpochAdvances DEF Current

\* A block that follows an ordered chain extends it to an ordered chain.
LEMMA OrderedAppend ==
  ASSUME NEW chain \in Seq(Body), NEW b \in Body,
         EpochsOrdered(chain), Follows(chain, b)
  PROVE  EpochsOrdered(Append(chain, b))
<1>1. Len(Append(chain, b)) = Len(chain) + 1 /\ Len(chain) \in Nat
      /\ Append(chain, b)[Len(chain) + 1] = b
      /\ \A n \in 1 .. Len(chain) : Append(chain, b)[n] = chain[n]
  OBVIOUS
<1>2. \A n \in 1 .. Len(chain) : chain # << >> /\ Len(chain) \in 1 .. Len(chain)
  OBVIOUS
<1> QED BY <1>1, <1>2 DEF EpochsOrdered, Follows

\* Before there is a tip, nothing but start-up has run.
LEMMA NoTip ==
  ASSUME StoreInv, tip = << >>
  PROVE  pc \in {"down", "genesisInsert", "genesisTip", "refused"}
<1>1. tip \in Seq(Body) /\ blocks \in Seq(Body)
  BY DEF StoreInv, TypeOK
<1>2. \A b \in Body : Append(blocks, b) # << >>
  BY <1>1, AppendProperties
<1> QED BY <1>1, <1>2 DEF StoreInv, TypeOK, MemoryBehind, Loading

\* A block that is being stored is there.
LEMMA DraftNotEmpty ==
  ASSUME StoreInv, pc \in {"tip", "genesisTip"}
  PROVE  draft # << >>
<1>1. CASE pc = "tip"
  <2>1. PICK b \in Body : draft = Append(tip, b)
    BY <1>1 DEF StoreInv, StoringBlock
  <2> QED BY <2>1 DEF StoreInv, TypeOK
<1>2. CASE pc = "genesisTip"
  BY <1>2 DEF StoreInv, StoringGenesis
<1> QED BY <1>1, <1>2

LEMMA InitStartInv ==
  ASSUME NEW L \in Nat \ {0}, ValidLengths \subseteq {L},
         GenesisTime + GenesisSpan <= EpochStart(StartTime, L), Init
  PROVE  StartInv(L)
BY DEF Init, StartInv, TimeInv, ChainCurrent, EpochsOrdered, DraftCurrent,
       OnlyGenesisRow, RefusedOnlyByGenesis

\* The clock goes on by seconds, and the epochs have one length.
LEMMA NextTimeInv ==
  ASSUME NEW L \in Nat \ {0}, ValidLengths \subseteq {L},
         StoreInv, TimeInv(L), [Next]_vars
  PROVE  TimeInv(L)' /\ clock' \in {clock, clock + 1}
<1>1. clock \in Nat
  BY DEF StoreInv, TypeOK
<1>2. epoch' = L
  BY DEF TimeInv, Next, Boot, Load, Submit, Tick, BeginBlock, ReadTipFails, ApplyFails,
         InsertBlock, InsertDuplicate, InsertFails, UpdateTip, UpdateTipFails,
         Crash, vars, nodeVars
<1>3. clock' \in {clock, clock + 1}
  BY DEF Next, Boot, Load, Submit, Tick, BeginBlock, ReadTipFails, ApplyFails,
         InsertBlock, InsertDuplicate, InsertFails, UpdateTip, UpdateTipFails,
         Crash, vars
<1>4. GenesisTime \in Int /\ GenesisSpan \in Int
  BY ChainStoreAssumption
<1>5. /\ EpochStart(clock, L) \in Int /\ EpochStart(clock + 1, L) \in Int
      /\ EpochStart(clock, L) <= EpochStart(clock + 1, L)
  <2>1. /\ EpochStart(clock, L) \in Int /\ EpochStart(clock + 1, L) \in Int
        /\ \/ EpochStart(clock + 1, L) = EpochStart(clock, L)
           \/ EpochStart(clock + 1, L) >= EpochStart(clock, L) + L
    BY <1>1, EpochAdvances
  <2> QED BY <2>1
<1>6. GenesisTime + GenesisSpan <= EpochStart(clock, L)
  BY DEF TimeInv
<1>7. GenesisTime + GenesisSpan <= EpochStart(clock + 1, L)
  BY <1>4, <1>5, <1>6
<1>8. CASE clock' = clock + 1
  BY <1>2, <1>7, <1>8 DEF TimeInv
<1>9. CASE clock' = clock
  BY <1>2, <1>6, <1>9 DEF TimeInv
<1> QED BY <1>3, <1>8, <1>9

\* Only the second statement of a store changes the chain, by the draft.
LEMMA NextChainCurrent ==
  ASSUME NEW L \in Nat \ {0}, ValidLengths \subseteq {L},
         StoreInv, StartInv(L), [Next]_vars
  PROVE  ChainCurrent(L)'
<1>1. clock \in Nat /\ tip \in Seq(Body) /\ clock' \in {clock, clock + 1}
  BY NextTimeInv DEF StoreInv, TypeOK, StartInv
<1>2. CASE tip' = tip
  <2>1. tip # << >> => tip[Len(tip)] \in Body
    BY <1>1
  <2> QED BY <1>1, <1>2, <2>1, CurrentLater
          DEF StartInv, ChainCurrent, Current, EpochsOrdered
<1>3. ASSUME tip' # tip
      PROVE  tip' = draft /\ pc \in {"tip", "genesisTip"}
  BY <1>3 DEF Next, Boot, Load, Submit, Tick, BeginBlock, ReadTipFails, ApplyFails,
         InsertBlock, InsertDuplicate, InsertFails, UpdateTip, UpdateTipFails,
         Crash, vars, dbVars
<1>4. CASE tip' = draft /\ pc \in {"tip", "genesisTip"}
  <2>1. PICK b \in Body : draft = Append(tip, b) /\ Follows(tip, b) /\ Current(b, L)
    <3>1. CASE pc = "tip"
      BY <3>1 DEF StartInv, DraftCurrent
    <3>2. CASE pc = "genesisTip"
      <4>1. tip = << >> /\ draft = Append(tip, GenesisBlock)
        BY <3>2 DEF StoreInv, StoringGenesis
      <4>2. Follows(tip, GenesisBlock) /\ Current(GenesisBlock, L)
        BY <4>1, ChainStoreAssumption
           DEF StartInv, TimeInv, Follows, Current, GenesisBlock
      <4> QED BY <4>1, <4>2, GenesisBlockType
    <3> QED BY <1>4, <3>1, <3>2
  <2>2. EpochsOrdered(draft)
    BY <1>1, <2>1, OrderedAppend DEF StartInv, ChainCurrent
  <2>3. draft[Len(draft)] = b
    BY <1>1, <2>1
  <2>4. Current(b, L)'
    BY <1>1, <2>1, CurrentLater
  <2> QED BY <1>4, <2>2, <2>3, <2>4 DEF ChainCurrent, Current, EpochsOrdered
<1> QED BY <1>2, <1>3, <1>4

\* The block the loop builds begins after the last one: its epoch has none.
LEMMA NextDraftCurrent ==
  ASSUME NEW L \in Nat \ {0}, ValidLengths \subseteq {L},
         StoreInv, StartInv(L), [Next]_vars
  PROVE  DraftCurrent(L)'
<1>1. clock \in Nat /\ clock' \in {clock, clock + 1}
  BY NextTimeInv DEF StoreInv, TypeOK, StartInv
<1>2. CASE BeginBlock
  <2>1. blocks = tip /\ tip # << >> /\ epoch = L /\ clock' = clock /\ tip' = tip
    BY <1>2 DEF BeginBlock, StoreInv, LoopKnowsTip, MemoryBehind, StartInv, TimeInv
  <2>2. NextBody \in Body
    BY <1>2, <2>1, NextBodyType DEF StoreInv
  <2>3. tip[Len(tip)] \in Body /\ EpochStart(clock, L) \in Int
    <3>1. tip \in Seq(Body)
      BY DEF StoreInv, TypeOK
    <3>2. tip[Len(tip)] \in Body
      BY <2>1, <3>1
    <3>3. EpochStart(clock, L) \in Int
      BY <1>1, EpochAdvances
    <3> QED BY <3>2, <3>3
  <2>4. tip[Len(tip)].end <= EpochStart(clock, L)
    BY <1>2, <2>1 DEF BeginBlock, HasBlockInEpoch, LastBlock, StartInv, ChainCurrent, Current
  <2>5. NextBody.start = EpochStart(clock, L) /\ NextBody.end = EpochStart(clock, L) + L
    BY <2>1 DEF NextBody
  <2>6. Follows(tip, NextBody) /\ Current(NextBody, L)
    BY <2>3, <2>4, <2>5 DEF Follows, Current
  <2>7. \E b \in Body : draft' = Append(tip', b) /\ Follows(tip', b) /\ Current(b, L)'
    <3>1. draft' = Append(tip, NextBody)
      BY <1>2 DEF BeginBlock, Chained
    <3>2. Current(NextBody, L) => \E b \in Body : b = NextBody /\ Current(b, L)'
      BY <2>1, <2>2 DEF Current
    <3> QED BY <2>1, <2>6, <3>1, <3>2
  <2> QED BY <2>7 DEF DraftCurrent, Follows
<1>3. CASE pc' \in {"insert", "tip"} /\ ~BeginBlock
  <2>1. pc \in {"insert", "tip"} /\ draft' = draft /\ tip' = tip
    BY <1>3 DEF Next, Boot, Load, Submit, Tick, ReadTipFails, ApplyFails,
         InsertBlock, InsertDuplicate, InsertFails, UpdateTip, UpdateTipFails,
         Crash, LoopExits, vars, nodeVars, dbVars
  <2>2. PICK b \in Body : draft = Append(tip, b) /\ Follows(tip, b) /\ Current(b, L)
    BY <2>1 DEF StartInv, DraftCurrent
  <2>3. Current(b, L)'
    BY <1>1, <2>2, CurrentLater
  <2> QED BY <2>1, <2>2, <2>3 DEF DraftCurrent, Follows, Current
<1> QED BY <1>2, <1>3 DEF DraftCurrent

\* A start is refused only by the row of the genesis block.
LEMMA NextRefusal ==
  ASSUME NEW L, StoreInv, StartInv(L), [Next]_vars
  PROVE  (OnlyGenesisRow /\ RefusedOnlyByGenesis)'
<1> USE DEF OnlyGenesisRow, RefusedOnlyByGenesis
<1>g. GenesisBlock' = GenesisBlock
  BY DEF GenesisBlock
<1>i. OnlyGenesisRow /\ RefusedOnlyByGenesis
  BY DEF StartInv
<1>1. CASE Boot
  <2>1. tip # << >> => tip \in rows
    <3>1. SUFFICES ASSUME tip # << >> PROVE tip \in rows
      OBVIOUS
    <3>2. tip \in Seq(Body) /\ Len(tip) \in 1 .. Len(tip) /\ Resolvable(tip)
      BY <3>1 DEF StoreInv, TypeOK, TipResolvable
    <3>3. SubSeq(tip, 1, Len(tip)) = tip
      BY <3>2, SubSeqFull
    <3> QED BY <3>2, <3>3 DEF Resolvable
  <2> QED BY <1>1, <1>g, <1>i, <2>1 DEF Boot
<1>2. CASE Load
  <2>1. pc' = "up"
    BY <1>2 DEF Load, StoreInv, TipResolvable, StartInv, ChainCurrent
  <2> QED BY <1>2, <1>g, <1>i, <2>1 DEF Load
<1>3. CASE InsertBlock \/ InsertFails
  <2>1. pc \in {"insert", "genesisInsert"} /\ tip' = tip /\ rows' \subseteq rows \cup {draft}
        /\ pc' # "refused"
    BY <1>3 DEF InsertBlock, InsertFails, RowOf, LoopExits
  <2>2. tip = << >> => draft = <<GenesisBlock>>
    BY <2>1, NoTip DEF StoreInv, StoringGenesis
  <2> QED BY <1>g, <1>i, <2>1, <2>2
<1>4. CASE InsertDuplicate
  <2>1. CASE pc = "insert"
    BY <1>4, <1>g, <1>i, <2>1 DEF InsertDuplicate, LoopExits
  <2>2. CASE pc = "genesisInsert"
    <3>1. tip = << >> /\ draft = <<GenesisBlock>> /\ draft \in rows
      BY <1>4, <2>2 DEF InsertDuplicate, StoreInv, StoringGenesis
    <3> QED BY <1>4, <1>g, <1>i, <3>1 DEF InsertDuplicate
  <2> QED BY <1>4, <2>1, <2>2 DEF InsertDuplicate
<1>5. CASE UpdateTip \/ UpdateTipFails
  <2>1. rows' = rows /\ pc' # "refused" /\ pc \in {"tip", "genesisTip"} /\ tip' \in {tip, draft}
    BY <1>5 DEF UpdateTip, UpdateTipFails, LoopExits
  <2>2. draft # << >>
    BY <2>1, DraftNotEmpty
  <2> QED BY <1>g, <1>i, <2>1, <2>2
<1>6. CASE Crash
  <2>1. pc' = "down"
    BY <1>6 DEF Crash
  <2>2. CASE UNCHANGED dbVars
    BY <1>g, <1>i, <2>1, <2>2 DEF dbVars
  <2>3. CASE pc \in {"insert", "genesisInsert"} /\ rows' = rows \cup {draft} /\ tip' = tip
    <3>1. tip = << >> => draft = <<GenesisBlock>>
      BY <2>3, NoTip DEF StoreInv, StoringGenesis
    <3> QED BY <1>g, <1>i, <2>1, <2>3, <3>1
  <2>4. CASE pc \in {"tip", "genesisTip"} /\ tip' = draft /\ rows' = rows
    <3>1. draft # << >>
      BY <2>4, DraftNotEmpty
    <3> QED BY <2>1, <2>4, <3>1
  <2> QED BY <1>6, <2>2, <2>3, <2>4 DEF Crash
<1>7. ASSUME tip' = tip, rows' = rows, pc' = pc \/ pc' # "refused"
      PROVE  (OnlyGenesisRow /\ RefusedOnlyByGenesis)'
  BY <1>7, <1>g, <1>i
<1>8. CASE BeginBlock \/ ReadTipFails \/ ApplyFails \/ Tick \/ UNCHANGED vars
           \/ \E t \in Tx : Submit(t)
  BY <1>7, <1>8 DEF BeginBlock, ReadTipFails, ApplyFails, LoopExits, Tick, Submit, vars, nodeVars
<1> QED
  BY <1>1, <1>2, <1>3, <1>4, <1>5, <1>6, <1>8 DEF Next

(***************************************************************************)
(* If every start uses the same epoch length, and none falls into the      *)
(* epoch of the genesis block, a node that has come up once can be started *)
(* again whatever failed in between: only the row of a genesis block whose *)
(* LAST_HASH was never written is in the way of a start.                   *)
(***************************************************************************)
THEOREM StartsSucceed ==
  ASSUME NEW L \in Nat \ {0}, ValidLengths \subseteq {L},
         GenesisTime + GenesisSpan <= EpochStart(StartTime, L)
  PROVE  Spec => []RefusedOnlyByGenesis
<1>1. Init => StartInv(L)
  BY InitStartInv
<1>2. StoreInv /\ StartInv(L) /\ [Next]_vars => StartInv(L)'
  <2> SUFFICES ASSUME StoreInv, StartInv(L), [Next]_vars
               PROVE  StartInv(L)'
    OBVIOUS
  <2>1. TimeInv(L)'
    BY NextTimeInv DEF StartInv
  <2>2. ChainCurrent(L)'
    BY NextChainCurrent
  <2>3. DraftCurrent(L)'
    BY NextDraftCurrent
  <2>4. (OnlyGenesisRow /\ RefusedOnlyByGenesis)'
    BY NextRefusal
  <2> QED BY <2>1, <2>2, <2>3, <2>4 DEF StartInv
<1>3. StartInv(L) => RefusedOnlyByGenesis
  BY DEF StartInv
<1> QED BY <1>1, <1>2, <1>3, SpecStoreInv, PTL DEF Spec
==============================================================================
