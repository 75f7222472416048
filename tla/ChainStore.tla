------------------------------ MODULE ChainStore ------------------------------
(***************************************************************************)
(* The durable chain of an A-Network node and the consensus loop that      *)
(* grows it: the PostgreSQL tables `blocks` and `meta` (src/src/db.rs),    *)
(* NodeState::create_block (src/src/state.rs), run_consensus               *)
(* (src/src/consensus.rs) and the start-up path of main.rs/from_genesis.   *)
(*                                                                         *)
(* Every await of create_block is a step of its own, because the process   *)
(* may crash, and the database may fail, at each of them.  The node's      *)
(* write lock is held from the first of these steps to the last, so no     *)
(* request handler runs while pc is between "up" and "up".                 *)
(*                                                                         *)
(* A block's hash commits to its content and to previous_hash, hence to    *)
(* the whole history below it.  The model takes hashes to be collision     *)
(* free and writes the hash of a block as that history: the sequence of    *)
(* block bodies from the genesis block to the block itself.  The hash of   *)
(* the block's predecessor is the same sequence without its last element,  *)
(* and << >> stands for "GENESIS" (and for a meta table with no LAST_HASH).*)
(***************************************************************************)
EXTENDS Integers, Sequences, SequencesExt

CONSTANTS
  Tx,           \* client transactions, the pending work of the node
  EpochLengths, \* the ANET_EPOCH_SECONDS values an operator may set
  GenesisTime,  \* genesis_time of genesis.json
  GenesisSpan,  \* width of the genesis block's epoch (one second)
  StartTime,    \* the time at which the node is started first
  MaxTime,      \* bound on the clock
  Faults        \* what may go wrong: a subset of {"db", "apply", "crash"}

ASSUME ChainStoreAssumption ==
  /\ EpochLengths \subseteq Nat
  /\ GenesisTime \in Nat
  /\ GenesisSpan \in Nat \ {0}
  /\ StartTime \in Nat
  /\ MaxTime \in Nat
  /\ Faults \subseteq {"db", "apply", "crash"}

VARIABLES
  clock,    \* wall-clock time, in ticks
  rows,     \* table `blocks`: the hashes (histories) that have a row
  tip,      \* table `meta`: the value of LAST_HASH
  pc,       \* where the node is
  epoch,    \* epoch_seconds of the running process
  blocks,   \* NodeState.blocks
  pending,  \* NodeState.mempool, as the set of queued transactions
  draft,    \* the hash of the block being stored, << >> if there is none
  loop      \* "running", or "exited" once run_consensus has returned

dbVars == <<rows, tip>>
nodeVars == <<pc, epoch, blocks, pending, draft, loop>>
vars == <<clock, rows, tip, pc, epoch, blocks, pending, draft, loop>>

Body == [height : Nat, start : Int, end : Int, txs : SUBSET Tx]

\* validate_epoch_seconds; without a valid value the process does not start.
ValidLengths == EpochLengths \ {0}

\* current_epoch_window: the epoch a time belongs to starts here.
EpochStart(now, length) == now - (now % length)

GenesisBlock == [height |-> 0, start |-> GenesisTime,
                 end |-> GenesisTime + GenesisSpan, txs |-> {}]

LastBlock == blocks[Len(blocks)]

\* Mutant of HasBlockInEpoch: any block ends every epoch.
AnyBlockCounts == blocks # << >>

HasBlockInEpoch ==
  blocks # << >> /\ LastBlock.start = EpochStart(clock, epoch)

(***************************************************************************)
(* load_chain_blocks walks from LAST_HASH to "GENESIS", one SELECT per     *)
(* block, and fails on the first hash that has no row.                     *)
(***************************************************************************)
Resolvable(hash) ==
  \A n \in 1 .. Len(hash) : SubSeq(hash, 1, n) \in rows

(***************************************************************************)
(* validate_block_sequence: windows are not empty and do not overlap.      *)
(* Hash linkage holds by the encoding of hashes; height labels are only    *)
(* logged.                                                                 *)
(***************************************************************************)
EpochsOrdered(chain) ==
  /\ \A n \in 1 .. Len(chain) : chain[n].start < chain[n].end
  /\ \A n \in 1 .. Len(chain) - 1 : chain[n].end <= chain[n + 1].start

SealedTxs(chain) == UNION {chain[n].txs : n \in 1 .. Len(chain)}

Init ==
  /\ clock = StartTime
  /\ rows = {}
  /\ tip = << >>
  /\ pc = "down"
  /\ epoch \in ValidLengths
  /\ blocks = << >>
  /\ pending = {}
  /\ draft = << >>
  /\ loop = "exited"

------------------------------------------------------------------------------
(***************************************************************************)
(* Start-up: ensure_chain_initialized, then load_chain_blocks and          *)
(* validate_block_sequence.                                                *)
(***************************************************************************)

\* The process starts with the epoch length of its environment.  Without a
\* LAST_HASH it builds the genesis block; with one whose row is missing it
\* gives up.
Boot ==
  /\ pc = "down"
  /\ \E e \in ValidLengths : epoch' = e
  /\ IF tip = << >>
     THEN pc' = "genesisInsert" /\ draft' = <<GenesisBlock>>
     ELSE pc' = (IF tip \in rows THEN "load" ELSE "refused") /\ draft' = << >>
  /\ UNCHANGED <<clock, rows, tip, blocks, pending, loop>>

\* Loading happens in one step: nothing else writes the two tables.
Load ==
  /\ pc = "load"
  /\ IF Resolvable(tip) /\ EpochsOrdered(tip)
     THEN /\ pc' = "up"
          /\ blocks' = tip
          /\ loop' = "running"
     ELSE /\ pc' = "refused"
          /\ UNCHANGED <<blocks, loop>>
  /\ UNCHANGED <<clock, rows, tip, epoch, pending, draft>>

------------------------------------------------------------------------------
(***************************************************************************)
(* Requests and time.                                                      *)
(***************************************************************************)

\* A transaction is queued; the nonce checks of queue_transaction refuse one
\* that is pending or already in a block the node knows.
Submit(t) ==
  /\ pc = "up"
  /\ t \notin pending
  /\ t \notin SealedTxs(blocks)
  /\ pending' = pending \cup {t}
  /\ UNCHANGED <<clock, rows, tip, pc, epoch, blocks, draft, loop>>

Tick ==
  /\ clock < MaxTime
  /\ clock' = clock + 1
  /\ UNCHANGED <<rows, tip, nodeVars>>

------------------------------------------------------------------------------
(***************************************************************************)
(* run_consensus and create_block.                                         *)
(***************************************************************************)

\* Mutant of LoopExits: the error is logged and the loop goes on.
LoopLogsError ==
  /\ pc' = "up"
  /\ loop' = loop
  /\ draft' = << >>

\* run_consensus propagates the error of create_block with `?`: the loop
\* returns and is never restarted.  The process keeps serving requests.
LoopExits ==
  /\ pc' = "up"
  /\ loop' = "exited"
  /\ draft' = << >>

\* Mutant of Chained: previous_hash is left at its default, "GENESIS".
Unchained(previousHash, body) == <<body>>

\* Block::new: the hash of a block commits to its predecessor's.
Chained(previousHash, body) == Append(previousHash, body)

NextBody ==
  [height |-> IF blocks = << >> THEN 0 ELSE LastBlock.height + 1,
   start  |-> EpochStart(clock, epoch),
   end    |-> EpochStart(clock, epoch) + epoch,
   txs    |-> pending]

\* The loop finds work and an epoch without a block, reads LAST_HASH, takes
\* the mempool and builds the block.
BeginBlock ==
  /\ pc = "up"
  /\ loop = "running"
  /\ pending # {}
  /\ ~HasBlockInEpoch
  /\ draft' = Chained(tip, NextBody)
  /\ pending' = {}
  /\ pc' = "insert"
  /\ UNCHANGED <<clock, rows, tip, epoch, blocks, loop>>

\* Reading LAST_HASH fails: the mempool has not been taken yet.
ReadTipFails ==
  /\ "db" \in Faults
  /\ pc = "up"
  /\ loop = "running"
  /\ pending # {}
  /\ ~HasBlockInEpoch
  /\ LoopExits
  /\ UNCHANGED <<clock, rows, tip, epoch, blocks, pending>>

\* apply_block returns an error (NodeLedger says when): the block is dropped
\* and with it the transactions taken from the mempool.
ApplyFails ==
  /\ "apply" \in Faults
  /\ pc = "insert"
  /\ LoopExits
  /\ UNCHANGED <<clock, rows, tip, epoch, blocks, pending>>

\* Mutant of RowOf: the row is not written.
NoRow(hash) == {}

\* The row INSERT INTO blocks adds.
RowOf(hash) == {hash}

\* First statement of store_block_and_update_tip.  `hash` is the primary key
\* of the table, so a second row for the same block is an error.
InsertBlock ==
  /\ pc \in {"insert", "genesisInsert"}
  /\ draft \notin rows
  /\ rows' = rows \cup RowOf(draft)
  /\ pc' = IF pc = "insert" THEN "tip" ELSE "genesisTip"
  /\ UNCHANGED <<clock, tip, epoch, blocks, pending, draft, loop>>

\* The row exists: a block with this very content was stored before.
InsertDuplicate ==
  /\ draft \in rows
  /\ \/ /\ pc = "insert"
        /\ LoopExits
     \/ /\ pc = "genesisInsert"
        /\ pc' = "refused"
        /\ UNCHANGED <<draft, loop>>
  /\ UNCHANGED <<clock, rows, tip, epoch, blocks, pending>>

\* The statement fails, or takes effect but its answer is lost.
InsertFails ==
  /\ "db" \in Faults
  /\ pc = "insert"
  /\ \/ rows' = rows
     \/ rows' = rows \cup {draft}
  /\ LoopExits
  /\ UNCHANGED <<clock, tip, epoch, blocks, pending>>

\* Second statement, and the end of create_block: the block is pushed onto
\* NodeState.blocks.  During start-up the chain is loaded next.
UpdateTip ==
  /\ pc \in {"tip", "genesisTip"}
  /\ tip' = draft
  /\ IF pc = "tip"
     THEN pc' = "up" /\ blocks' = Append(blocks, draft[Len(draft)])
     ELSE pc' = "load" /\ blocks' = blocks
  /\ draft' = << >>
  /\ UNCHANGED <<clock, rows, epoch, pending, loop>>

\* As InsertFails, for the second statement.
UpdateTipFails ==
  /\ "db" \in Faults
  /\ pc = "tip"
  /\ \/ tip' = tip
     \/ tip' = draft
  /\ LoopExits
  /\ UNCHANGED <<clock, rows, epoch, blocks, pending>>

------------------------------------------------------------------------------
(***************************************************************************)
(* The process dies.  A statement that was on its way may still have taken *)
(* effect.                                                                 *)
(***************************************************************************)
Crash ==
  /\ "crash" \in Faults
  /\ pc \notin {"down", "refused"}
  /\ \/ UNCHANGED dbVars
     \/ pc \in {"insert", "genesisInsert"} /\ rows' = rows \cup {draft} /\ UNCHANGED tip
     \/ pc \in {"tip", "genesisTip"} /\ tip' = draft /\ UNCHANGED rows
  /\ pc' = "down"
  /\ blocks' = << >>
  /\ pending' = {}
  /\ draft' = << >>
  /\ loop' = "exited"
  /\ UNCHANGED <<clock, epoch>>

Next ==
  \/ Boot
  \/ Load
  \/ \E t \in Tx : Submit(t)
  \/ Tick
  \/ BeginBlock
  \/ ReadTipFails
  \/ ApplyFails
  \/ InsertBlock
  \/ InsertDuplicate
  \/ InsertFails
  \/ UpdateTip
  \/ UpdateTipFails
  \/ Crash

Spec == Init /\ [][Next]_vars

\* The loop polls for ever and the database answers; clients, operators and
\* faults owe nothing.  Time passes.
Fairness ==
  /\ WF_vars(Boot)
  /\ WF_vars(Load)
  /\ WF_vars(Tick)
  /\ WF_vars(BeginBlock)
  /\ WF_vars(InsertBlock \/ InsertDuplicate)
  /\ WF_vars(UpdateTip)

FairSpec == Spec /\ Fairness

------------------------------------------------------------------------------
(***************************************************************************)
(* Properties.                                                             *)
(***************************************************************************)

\* Every variable holds a value of its type.
TypeOK ==
  /\ clock \in Nat
  /\ rows \subseteq Seq(Body)
  /\ tip \in Seq(Body)
  /\ pc \in {"down", "genesisInsert", "genesisTip", "load", "up", "insert",
             "tip", "refused"}
  /\ epoch \in Nat \ {0}
  /\ blocks \in Seq(Body)
  /\ pending \subseteq Tx
  /\ draft \in Seq(Body)
  /\ loop \in {"running", "exited"}

\* Whatever fails, and wherever the process dies, LAST_HASH can be walked
\* down to GENESIS: load_chain_blocks never meets a hash without a row.
TipResolvable == Resolvable(tip)

\* The blocks a node holds in memory are durable, they are all of the durable
\* blocks while the loop runs, and all but the last once a lost answer has
\* ended it: memory is never ahead of the database.
MemoryMatchesStore ==
  /\ IsPrefix(blocks, tip)
  /\ loop = "running" => blocks = tip
  /\ pc = "up" => Len(tip) - Len(blocks) \in {0, 1}

\* The height label, taken from memory, and previous_hash, taken from the
\* database, agree: the label of a durable block is its position.  (The
\* comment in validate_block_sequence reports labels that did not.)
HeightsMatchPositions ==
  \A n \in 1 .. Len(tip) : tip[n].height = n - 1

\* No transaction is sealed twice, although a block may be durable without
\* the node that stored it knowing.
SealedOnce ==
  \A m, n \in 1 .. Len(tip) : m # n => tip[m].txs \cap tip[n].txs = {}

\* A node that has come up once can be started again, whatever failed since.
\* The one thing that stands in the way of a start is the row of a genesis
\* block whose LAST_HASH was never written.
RefusedOnlyByGenesis ==
  pc = "refused" => tip = << >> /\ rows = {<<GenesisBlock>>}

\* The durable chain is a log that only grows, block by block.
Log == INSTANCE AppendOnlyLog WITH log <- tip
LogGrows == Log!Spec

\* Work that is pending before the last epoch of the model's time is sealed,
\* unless the process stops or the loop has ended.
Stopped == pc \in {"down", "refused"} \/ loop = "exited"
PendingIsSealed ==
  \A t \in Tx :
    t \in pending /\ clock < EpochStart(MaxTime, epoch)
      ~> t \in SealedTxs(tip) \/ Stopped
==============================================================================
