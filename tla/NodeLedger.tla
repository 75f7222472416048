------------------------------ MODULE NodeLedger ------------------------------
(***************************************************************************)
(* The ledger of an A-Network node (NodeState in src/src/state.rs): the    *)
(* accounts, the mempool, the nonces and the sealed blocks, the requests   *)
(* that change them, the sealing of a block, and the replay that rebuilds  *)
(* them when the process starts.                                           *)
(*                                                                         *)
(* All of it sits behind one RwLock.  A request handler runs under the     *)
(* write lock, so it is one step, taken while pc = "up".  create_block     *)
(* holds the lock from its first statement to its last: pc = "apply" and   *)
(* pc = "store" are inside it.  A block is applied one transaction per     *)
(* step, because apply_block returns at the first transaction it cannot    *)
(* apply and leaves the earlier ones applied; the replay of from_genesis   *)
(* uses the same steps.                                                    *)
(*                                                                         *)
(* Amounts are natural numbers: the u64 arithmetic of the code is checked, *)
(* and the 2^64 ANTS at which it would report an overflow are out of reach *)
(* of a supply of 21 million ANET.  ChainStore models what NodeLedger      *)
(* leaves out of storing a block: the two statements, the epochs, loading. *)
(***************************************************************************)
EXTENDS Integers, Sequences, FiniteSets, FiniteSetsExt, Functions

CONSTANTS
  Wallets,         \* addresses of users and validators
  Treasury,        \* BRIDGE_TREASURY_ADDRESS
  Reserve,         \* SYSTEM_FEE_RESERVE_ADDRESS
  Rank,            \* the order of addresses as strings
  Hashes,          \* hashes of EVM transactions, as requests write them
  Trimmed,         \* each hash without the white space around it
  NoHash,          \* stands for a memo that is not a bridge credit's
  MinFee,          \* MIN_FEE_ANTS
  MinSessions,     \* MIN_SESSIONS_FOR_ANET
  MaxMempool,      \* MAX_MEMPOOL_TRANSACTIONS
  Amounts,         \* amounts of requests
  Fees,            \* fees of signed transactions
  Times,           \* timestamps clients write into their transactions
  Now,             \* the timestamp the node writes into its own
  GenesisAnts,     \* ants_balance of the accounts of genesis.json
  GenesisSessions, \* their sessions
  Web2Ledgers,     \* what load_genesis_accounts may return
  Ops,             \* the operations this instance enables
  MaxBlocks,       \* bound on the number of blocks
  MaxQueue,        \* bound on the transactions the node itself queues
  MaxMint          \* bound on the balance administrators may mint to

Addr == Wallets \cup {Treasury, Reserve}

AllOps == {"submit", "credit", "settle", "burn", "mint", "migrate", "sync",
           "writeFails", "storeFails", "crash"}

\* A row of the Web2 ledger: db::MiningAccountRow.
Web2Row == [ants : Nat, sessions : Nat]

ASSUME NodeLedgerAssumption ==
  /\ Treasury \notin Wallets
  /\ Reserve \notin Wallets \cup {Treasury}
  /\ IsFiniteSet(Wallets)
  /\ Rank \in [Addr -> Nat]
  /\ NoHash \notin Hashes
  /\ Trimmed \in [Hashes -> Hashes]
  /\ MinFee \in Nat \ {0}
  /\ MinSessions \in Nat \ {0}
  /\ MaxMempool \in Nat
  /\ Amounts \subseteq Nat \ {0}
  /\ Fees \subseteq Nat /\ \A f \in Fees : f >= MinFee
  /\ Times \subseteq Nat
  /\ Now \in Nat
  /\ GenesisAnts \in [Wallets -> Nat]
  /\ GenesisSessions \in [Wallets -> Nat]
  /\ \A rows \in Web2Ledgers : \A w \in DOMAIN rows :
        w \in Wallets /\ rows[w] \in Web2Row /\ rows[w].sessions >= MinSessions
  /\ Ops \subseteq AllOps
  /\ MaxBlocks \in Nat
  /\ MaxQueue \in Nat
  /\ MaxMint \in Nat

VARIABLES
  \* accounts: AccountState, one function per field
  exists,     \* the addresses in the map
  ants,       \* ants_balance
  activated,  \* activated_ants
  total,      \* total_activated_ants
  sessions,   \* sessions
  \* the rest of NodeState
  mempool,    \* mempool
  nonces,     \* account_nonces, 0 where the map has no entry
  miners,     \* eligible_miners
  dirty,      \* pending_state_commit, or pending_activated_supply_ants > 0
  seen,       \* processed_evm_bridge_hashes
  funded,     \* bridge_funded_accounts
  \* durable state
  chain,      \* the sealed blocks after the genesis block
  snapshot,   \* the accounts of genesis.json
  readable,   \* whether genesis.json can be parsed
  \* control
  pc,         \* what holds the write lock, or where start-up is
  loop,       \* "running", or "exited" once run_consensus has returned
  block,      \* the block being sealed or replayed
  work,       \* its transactions that are still to be applied
  fees,       \* the fees of those that have been
  next,       \* during start-up, the index in chain of the block
  sim,        \* simulation_accounts of reconcile_replay_sender_balances
  topups,     \* its sender_topups
  \* history
  sealed,     \* the balances when the last block or snapshot was stored
  unstored,   \* what the block being sealed, or lost, has added to balances
  spent       \* the senders of all transactions ever applied in sealing

accountVars == <<exists, ants, activated, total, sessions>>
poolVars == <<mempool, nonces, miners, dirty, seen, funded>>
durableVars == <<chain, snapshot, readable>>
sealVars == <<block, work, fees>>
replayVars == <<next, sim, topups>>
vars == <<exists, ants, activated, total, sessions,
          mempool, nonces, miners, dirty, seen, funded,
          chain, snapshot, readable,
          pc, loop, block, work, fees, next, sim, topups,
          sealed, unstored, spent>>

(***************************************************************************)
(* Transactions and blocks.  The nonce of a transaction the node builds    *)
(* itself is 0; its hash field is the EVM hash in the memo of a bridge     *)
(* credit.  Nobody has a key for the fee reserve, so it never sends.       *)
(***************************************************************************)
Transaction ==
  [from : Addr \ {Reserve}, to : Addr, amount : Nat \ {0}, fee : Nat, nonce : Nat,
   time : Nat, hash : Hashes \cup {NoHash}]

Block == [txs : Seq(Transaction), miners : SUBSET Addr]

Debit(tx) == tx.amount + tx.fee

NoBlock == [txs |-> << >>, miners |-> {}]

Zero == [a \in Addr |-> 0]

Snapshot == [ants : [Addr -> Nat], total : [Addr -> Nat], sessions : [Addr -> Nat]]

\* Mutant of Minus: the subtraction wraps instead of saturating.
Wrapping(m, n) == m - n

\* saturating_sub
Minus(m, n) == IF m < n THEN 0 ELSE m - n

Larger(m, n) == IF m < n THEN n ELSE m

------------------------------------------------------------------------------
(***************************************************************************)
(* Operators shared by the actions.                                        *)
(***************************************************************************)

\* compute_validators_from_accounts, below its cap of 2,100 seats.
Eligible(sess) == {a \in Addr : sess[a] >= MinSessions}

\* The two balances a transaction moves.
Transferred(balance, tx) ==
  [a \in Addr |-> balance[a] - (IF a = tx.from THEN Debit(tx) ELSE 0)
                             + (IF a = tx.to THEN tx.amount ELSE 0)]

\* Mutant of Rest: with validators, nothing is left for the reserve.
RestDropped(ms, f) == IF ms = {} THEN f ELSE 0

\* The share of each validator, and what is left for the reserve.
Share(ms, f) == IF ms = {} THEN 0 ELSE f \div Cardinality(ms)
Rest(ms, f) == IF ms = {} THEN f ELSE f % Cardinality(ms)

\* distribute_fees, on the balances and on the set of accounts.
WithFees(balance, ms, f) ==
  [a \in Addr |-> balance[a] + (IF a \in ms THEN Share(ms, f) ELSE 0)
                             + (IF a = Reserve THEN Rest(ms, f) ELSE 0)]
FeeAccounts(ms, f) ==
  IF f = 0 THEN {} ELSE ms \cup (IF Rest(ms, f) > 0 THEN {Reserve} ELSE {})

\* sort_transactions_for_block: by timestamp, sender, nonce; the sort is
\* stable, and of two signed transactions one comes first.
Before(t, u) ==
  \/ t.time < u.time
  \/ t.time = u.time /\ Rank[t.from] < Rank[u.from]
  \/ t.time = u.time /\ t.from = u.from /\ t.nonce < u.nonce

\* The ways to permute queue q into block order.
BlockOrders(q) ==
  {p \in [DOMAIN q -> DOMAIN q] :
     \A i, j \in DOMAIN q : i < j =>
       /\ p[i] # p[j]
       /\ ~ Before(q[p[j]], q[p[i]])
       /\ Before(q[p[i]], q[p[j]]) \/ p[i] < p[j]}

PendingNonces(a) ==
  {mempool[i].nonce : i \in {j \in DOMAIN mempool : mempool[j].from = a}}

\* What address a has to pay for its transactions in queue q.
Owing(q, a) ==
  SumFunctionOnSet([i \in DOMAIN q |-> Debit(q[i])], {i \in DOMAIN q : q[i].from = a})

PendingDebit(a) == Owing(mempool, a)

\* The places of the transactions of the chain.
Places == UNION {{b} \X DOMAIN chain[b].txs : b \in DOMAIN chain}
TxAt(p) == chain[p[1]].txs[p[2]]
Earlier(p, q) == p[1] < q[1] \/ (p[1] = q[1] /\ p[2] < q[2])

\* Mutants of the next two: nothing is collected.
NoHashes == {}
NoWallets == {}

CreditHashes == {TxAt(p).hash : p \in Places} \ {NoHash}
CreditedWallets == {TxAt(p).to : p \in {q \in Places : TxAt(q).hash # NoHash}}

\* The places of the nonces of address a.
Signed(a) == {p \in Places : TxAt(p).from = a /\ TxAt(p).nonce # 0}

\* rebuild_account_nonces finds the nonces 1, 2, 3, ... of every sender.
NoncesRebuild ==
  \A a \in Addr : \A p \in Signed(a) :
    TxAt(p).nonce = 1 + Cardinality({q \in Signed(a) : Earlier(q, p)})

BlockAt(index) == IF index \in DOMAIN chain THEN chain[index] ELSE NoBlock

------------------------------------------------------------------------------
(***************************************************************************)
(* Initially the process has not been started; genesis.json holds the      *)
(* accounts of the Genesis Activation.                                     *)
(***************************************************************************)
GenesisOf(f) == [a \in Addr |-> IF a \in Wallets THEN f[a] ELSE 0]

GenesisSnapshot ==
  [ants |-> GenesisOf(GenesisAnts), total |-> GenesisOf(GenesisAnts),
   sessions |-> GenesisOf(GenesisSessions)]

Init ==
  /\ exists = {} /\ ants = Zero /\ activated = Zero /\ total = Zero /\ sessions = Zero
  /\ mempool = << >> /\ nonces = Zero /\ miners = {} /\ dirty = FALSE
  /\ seen = {} /\ funded = {}
  /\ chain = << >>
  /\ snapshot = GenesisSnapshot
  /\ readable = TRUE
  /\ pc = "down" /\ loop = "exited"
  /\ block = NoBlock /\ work = << >> /\ fees = 0
  /\ next = 0 /\ sim = Zero /\ topups = Zero
  /\ sealed = GenesisOf(GenesisAnts) /\ unstored = Zero /\ spent = {}

------------------------------------------------------------------------------
(***************************************************************************)
(* Requests.                                                               *)
(***************************************************************************)

\* The gate on senders and recipients of transfers: enough sessions, or ANET
\* that came over the bridge.
Admitted(a) == a \in exists /\ (a \in funded \/ sessions[a] >= MinSessions)

\* Mutant of NextNonce: gaps are accepted.
NonceAbove(tx) ==
  tx.nonce > nonces[tx.from] /\ tx.nonce \notin PendingNonces(tx.from)

\* The next nonce of the sender: above the committed one, and no pending one
\* and no gap below it.
NextNonce(tx) ==
  /\ tx.nonce > nonces[tx.from]
  /\ tx.nonce \notin PendingNonces(tx.from)
  /\ (nonces[tx.from] + 1) .. (tx.nonce - 1) \subseteq PendingNonces(tx.from)

\* Mutant of Covered: pending transactions are not counted.
CoveredAlone(tx) == Debit(tx) <= ants[tx.from]

Covered(tx) == Debit(tx) + PendingDebit(tx.from) <= ants[tx.from]

\* queue_transaction, for a transaction with a valid signature.
Submit(tx) ==
  /\ "submit" \in Ops
  /\ pc = "up"
  /\ tx.from # tx.to
  /\ Len(mempool) < MaxMempool
  /\ Admitted(tx.from)
  /\ Admitted(tx.to)
  /\ NextNonce(tx)
  /\ Covered(tx)
  /\ mempool' = Append(mempool, tx)
  /\ UNCHANGED <<accountVars, nonces, miners, dirty, seen, funded, durableVars,
                 pc, loop, sealVars, replayVars, sealed, unstored, spent>>

SubmitSome ==
  \E from, to \in Wallets, amount \in Amounts, fee \in Fees, time \in Times :
    \E nonce \in 1 .. nonces[from] + Len(mempool) + 2 :
      Submit([from |-> from, to |-> to, amount |-> amount, fee |-> fee,
              nonce |-> nonce, time |-> time, hash |-> NoHash])

\* The treasury is given what the transaction will debit.
PreFunded(tx) == [ants EXCEPT ![Treasury] = @ + Debit(tx)]

\* post_admin_bridge_evm_credit and queue_bridge_credit.  A hash seen before
\* is answered with success and changes nothing.  The handler compares and
\* remembers the hash as it was written; the memo gets it trimmed.
BridgeCredit(to, amount, hash) ==
  /\ "credit" \in Ops
  /\ pc = "up"
  /\ Len(mempool) < MaxQueue
  /\ hash \notin seen
  /\ LET tx == [from |-> Treasury, to |-> to, amount |-> amount, fee |-> MinFee,
                nonce |-> 0, time |-> Now, hash |-> Trimmed[hash]]
     IN  /\ mempool' = Append(mempool, tx)
         /\ ants' = PreFunded(tx)
  /\ exists' = exists \cup {Treasury}
  /\ funded' = funded \cup {to}
  /\ seen' = seen \cup {hash}
  /\ dirty' = TRUE
  /\ UNCHANGED <<activated, total, sessions, nonces, miners, durableVars, pc,
                 loop, sealVars, replayVars, sealed, unstored, spent>>

\* record_pi_settlement: a transaction of 1 ANTS that nobody signed.  The fee
\* reserve makes up what the sender's balance lacks, pending transactions not
\* counted; a transaction to the sender itself is refused after that.
PiSettlement(from, to) ==
  /\ "settle" \in Ops
  /\ pc = "up"
  /\ Len(mempool) < MaxQueue
  /\ from \in exists
  /\ LET tx == [from |-> from, to |-> to, amount |-> 1, fee |-> MinFee,
                nonce |-> 0, time |-> Now, hash |-> NoHash]
         deficit == Minus(Debit(tx), ants[from])
     IN  /\ deficit > 0 => Reserve \in exists /\ ants[Reserve] >= deficit
         /\ ants' = [a \in Addr |-> ants[a] - (IF a = Reserve THEN deficit ELSE 0)
                                       + (IF a = from THEN deficit ELSE 0)]
         /\ activated' = [activated EXCEPT ![from] = @ + deficit]
         /\ total' = [total EXCEPT ![from] = @ + deficit]
         /\ IF from = to
            THEN deficit > 0 /\ UNCHANGED <<mempool, dirty>>
            ELSE mempool' = Append(mempool, tx) /\ dirty' = TRUE
  /\ UNCHANGED <<exists, sessions, nonces, miners, seen, funded, durableVars,
                 pc, loop, sealVars, replayVars, sealed, unstored, spent>>

\* Mutant of DebitAnet: the activation is left as it was.
DebitBalance(from, amount) == ants[from] >= amount /\ UNCHANGED activated

\* debit_anet
DebitAnet(from, amount) ==
  /\ ants[from] >= amount
  /\ activated' = [activated EXCEPT ![from] = Minus(@, amount)]

\* bridge_burn_anet: no transaction; the fee is paid out at once.  The reserve
\* is only credited if its account exists.
BridgeBurn(from, amount) ==
  /\ "burn" \in Ops
  /\ pc = "up"
  /\ from \in exists
  /\ DebitAnet(from, amount + MinFee)
  /\ LET toReserve == IF Reserve \in exists THEN Rest(miners, MinFee) ELSE 0
         share(a) == IF a \in miners THEN Share(miners, MinFee) ELSE 0
     IN  ants' = [a \in Addr |->
                    ants[a] - (IF a = from THEN amount + MinFee ELSE 0)
                            + share(a) + (IF a = Reserve THEN toReserve ELSE 0)]
  /\ exists' = exists \cup (IF Share(miners, MinFee) > 0 THEN miners ELSE {})
  /\ dirty' = TRUE
  /\ UNCHANGED <<total, sessions, mempool, nonces, miners, seen, funded,
                 durableVars, pc, loop, sealVars, replayVars, sealed, unstored,
                 spent>>

\* admin_credit_anet_test
AdminMint(to, amount) ==
  /\ "mint" \in Ops
  /\ pc = "up"
  /\ ants[to] + amount <= MaxMint
  /\ exists' = exists \cup {to}
  /\ ants' = [ants EXCEPT ![to] = @ + amount]
  /\ dirty' = TRUE
  /\ UNCHANGED <<activated, total, sessions, mempool, nonces, miners, seen,
                 funded, durableVars, pc, loop, sealVars, replayVars, sealed,
                 unstored, spent>>

\* migrate_legacy_to_secp: everything moves, except that the legacy account
\* keeps its total_activated_ants.  The validators are not computed again.
Moved(f, legacy, secp) ==
  [a \in Addr |-> IF a = legacy THEN 0
                  ELSE IF a = secp THEN f[a] + f[legacy] ELSE f[a]]

MigrateLegacy(legacy, secp) ==
  /\ "migrate" \in Ops
  /\ pc = "up"
  /\ legacy # secp
  /\ legacy \in exists
  /\ total[secp] + total[legacy] <= MaxMint  \* a bound of the model
  /\ exists' = exists \cup {secp}
  /\ ants' = Moved(ants, legacy, secp)
  /\ activated' = Moved(activated, legacy, secp)
  /\ sessions' = Moved(sessions, legacy, secp)
  /\ total' = [total EXCEPT ![secp] = @ + total[legacy]]
  /\ dirty' = TRUE
  /\ UNCHANGED <<mempool, nonces, miners, seen, funded, durableVars, pc, loop,
                 sealVars, replayVars, sealed, unstored, spent>>

------------------------------------------------------------------------------
(***************************************************************************)
(* The Web2 sync: sync_activated_accounts.  The validator list that comes  *)
(* with it (replace_validators) names wallets of the same rows and changes *)
(* nothing more.                                                           *)
(***************************************************************************)
Gain(rows, a) == IF a \in DOMAIN rows THEN Minus(rows[a].ants, total[a]) ELSE 0

SyncedSessions(rows) ==
  [a \in Addr |-> IF a \in DOMAIN rows THEN Larger(sessions[a], rows[a].sessions)
                                       ELSE sessions[a]]

\* Accounts below the threshold lose what is left of their activation.
ClawedBack(rows) ==
  {a \in Addr \ DOMAIN rows : sessions[a] < MinSessions /\ activated[a] > 0}

Sync(rows) ==
  /\ "sync" \in Ops
  /\ pc = "up"
  /\ exists' = exists \cup DOMAIN rows
  /\ sessions' = SyncedSessions(rows)
  /\ ants' = [a \in Addr |-> IF a \in ClawedBack(rows) THEN ants[a] - activated[a]
                                                       ELSE ants[a] + Gain(rows, a)]
  /\ activated' = [a \in Addr |-> IF a \in ClawedBack(rows) THEN 0
                                  ELSE activated[a] + Gain(rows, a)]
  /\ total' = [a \in Addr |-> IF a \in ClawedBack(rows) THEN 0
                              ELSE total[a] + Gain(rows, a)]
  /\ dirty' = (dirty \/ \E a \in Addr : Gain(rows, a) > 0)
  /\ IF sessions' # sessions \/ total' # total \/ activated' # activated
     THEN pc' = "persist" /\ UNCHANGED miners
     ELSE pc' = "up" /\ miners' = Eligible(sessions')
  /\ UNCHANGED <<mempool, nonces, seen, funded, durableVars, loop, sealVars,
                 replayVars, sealed, unstored, spent>>

\* persist_genesis_snapshot, write_genesis: fs::write empties the file first.
Truncate ==
  /\ pc = "persist"
  /\ readable' = FALSE
  /\ pc' = "write"
  /\ UNCHANGED <<accountVars, poolVars, chain, snapshot, loop, sealVars,
                 replayVars, sealed, unstored, spent>>

\* Mutant of SnapshotOfAccounts: whole balances are written.
SnapshotOfBalances == [ants |-> ants, total |-> total, sessions |-> sessions]

\* The accounts of the new file: what is left of each activation.
SnapshotOfAccounts ==
  LET kept == {a \in exists : activated[a] > 0 \/ sessions[a] > 0}
      only(f) == [a \in Addr |-> IF a \in kept THEN f[a] ELSE 0]
  IN  [ants |-> only(activated), total |-> only(total), sessions |-> only(sessions)]

\* In the history, the treasury's funding of credits that wait does not count,
\* nor does what a lost block has done.
WriteSnapshot ==
  /\ pc = "write"
  /\ snapshot' = SnapshotOfAccounts
  /\ readable' = TRUE
  /\ miners' = Eligible(sessions)
  /\ pc' = "up"
  /\ sealed' = [a \in Addr |-> IF a = Treasury THEN 0 ELSE ants[a] - unstored[a]]
  /\ UNCHANGED <<accountVars, mempool, nonces, dirty, seen, funded, chain,
                 loop, sealVars, replayVars, unstored, spent>>

\* The error is logged; accounts stay changed, validators as they were.
WriteFails ==
  /\ "writeFails" \in Ops
  /\ pc \in {"persist", "write"}
  /\ pc' = "up"
  /\ UNCHANGED <<accountVars, poolVars, durableVars, loop, sealVars,
                 replayVars, sealed, unstored, spent>>

------------------------------------------------------------------------------
(***************************************************************************)
(* Sealing a block: create_block, under run_consensus.                     *)
(***************************************************************************)
BeginBlock ==
  /\ pc = "up"
  /\ loop = "running"
  /\ mempool # << >> \/ dirty
  /\ Len(chain) < MaxBlocks
  /\ \E p \in BlockOrders(mempool) :
       LET txs == [i \in DOMAIN mempool |-> mempool[p[i]]]
       IN  block' = [txs |-> txs, miners |-> miners] /\ work' = txs
  /\ mempool' = << >>
  /\ fees' = 0
  /\ pc' = "apply"
  /\ UNCHANGED <<accountVars, nonces, miners, dirty, seen, funded, durableVars,
                 loop, replayVars, sealed, unstored, spent>>

\* One turn of the loop of apply_block.
ApplyTx ==
  /\ pc \in {"apply", "replay"}
  /\ work # << >>
  /\ LET tx == Head(work) IN
       /\ Debit(tx) <= ants[tx.from]
       /\ ants' = Transferred(ants, tx)
       /\ activated' = [activated EXCEPT ![tx.from] = Minus(@, Debit(tx))]
       /\ exists' = exists \cup {tx.to}
       /\ fees' = fees + tx.fee
       /\ IF pc = "apply"
          THEN /\ unstored' = Transferred(unstored, tx)
               /\ spent' = spent \cup {tx.from}
          ELSE UNCHANGED <<unstored, spent>>
  /\ work' = Tail(work)
  /\ UNCHANGED <<total, sessions, poolVars, durableVars, pc, loop, block,
                 replayVars, sealed>>

\* Mutant of LoopEnds: the error is logged and the loop goes on.
LoopGoesOn == loop' = loop

\* An error of create_block ends run_consensus, and with it the task.
LoopEnds == loop' = "exited"

\* The sender cannot pay: the block is gone, with the transactions that were
\* in it, and so is the consensus loop.  What was applied stays applied.
ApplyFails ==
  /\ pc = "apply"
  /\ work # << >>
  /\ ants[Head(work).from] < Debit(Head(work))
  /\ pc' = "up"
  /\ LoopEnds
  /\ block' = NoBlock /\ work' = << >> /\ fees' = 0
  /\ UNCHANGED <<accountVars, poolVars, durableVars, replayVars, sealed,
                 unstored, spent>>

\* The nonces of a block's senders are overwritten in block order.
LastNonces(txs) ==
  [a \in Addr |->
     LET own == {i \in DOMAIN txs : txs[i].from = a}
     IN  IF own = {} THEN nonces[a] ELSE txs[Max(own)].nonce]

\* distribute_fees, then the nonces.
FinishBlock ==
  /\ pc = "apply"
  /\ work = << >>
  /\ ants' = WithFees(ants, block.miners, fees)
  /\ exists' = exists \cup FeeAccounts(block.miners, fees)
  /\ nonces' = LastNonces(block.txs)
  /\ fees' = 0
  /\ unstored' = WithFees(unstored, block.miners, fees)
  /\ pc' = "store"
  /\ UNCHANGED <<activated, total, sessions, mempool, miners, dirty, seen,
                 funded, durableVars, loop, block, work, replayVars, sealed,
                 spent>>

Store ==
  /\ pc = "store"
  /\ chain' = Append(chain, block)
  /\ dirty' = FALSE
  /\ sealed' = ants /\ unstored' = Zero
  /\ block' = NoBlock
  /\ pc' = "up"
  /\ UNCHANGED <<accountVars, mempool, nonces, miners, seen, funded, snapshot,
                 readable, loop, work, fees, replayVars, spent>>

\* The database fails, before or after the tip was moved.
StoreFails ==
  /\ "storeFails" \in Ops
  /\ pc = "store"
  /\ \/ UNCHANGED <<chain, sealed, unstored>>
     \/ chain' = Append(chain, block) /\ sealed' = ants /\ unstored' = Zero
  /\ block' = NoBlock
  /\ pc' = "up"
  /\ LoopEnds
  /\ UNCHANGED <<accountVars, poolVars, snapshot, readable, work, fees,
                 replayVars, spent>>

------------------------------------------------------------------------------
(***************************************************************************)
(* Crash and restart: load_genesis and from_genesis.                       *)
(***************************************************************************)
Crash ==
  /\ "crash" \in Ops
  /\ pc \notin {"down", "refused"}
  /\ pc' = "down" /\ loop' = "exited"
  /\ exists' = {} /\ ants' = Zero /\ activated' = Zero /\ total' = Zero
  /\ sessions' = Zero
  /\ mempool' = << >> /\ nonces' = Zero /\ miners' = {} /\ dirty' = FALSE
  /\ seen' = {} /\ funded' = {}
  /\ block' = NoBlock /\ work' = << >> /\ fees' = 0
  /\ next' = 0 /\ sim' = Zero /\ topups' = Zero
  /\ unstored' = Zero
  /\ UNCHANGED <<durableVars, sealed, spent>>

TakeBlock(index) ==
  /\ next' = index
  /\ block' = BlockAt(index)
  /\ work' = block'.txs
  /\ fees' = 0

\* genesis.json is read, and a first pass over the chain is started on a copy
\* of the accounts.
Restart ==
  /\ pc = "down"
  /\ readable
  /\ exists' = {a \in Addr : snapshot.ants[a] > 0 \/ snapshot.sessions[a] > 0}
  /\ ants' = snapshot.ants
  /\ activated' = snapshot.ants
  /\ total' = [a \in Addr |-> Larger(snapshot.total[a], snapshot.ants[a])]
  /\ sessions' = snapshot.sessions
  /\ miners' = Eligible(snapshot.sessions)
  /\ sim' = snapshot.ants
  /\ TakeBlock(1)
  /\ pc' = "reconcile"
  /\ UNCHANGED <<mempool, nonces, dirty, seen, funded, durableVars, loop,
                 topups, sealed, unstored, spent>>

RestartFails ==
  /\ pc = "down"
  /\ ~readable
  /\ pc' = "refused"
  /\ UNCHANGED <<accountVars, poolVars, durableVars, loop, sealVars,
                 replayVars, sealed, unstored, spent>>

\* Mutant of Lack: no sender is topped up.
NoLack(tx) == 0

\* Another: a sender is topped up by all it sends.
LackAll(tx) == Debit(tx)

Lack(tx) == Minus(Debit(tx), sim[tx.from])

\* reconcile_replay_sender_balances: what a sender lacks is noted as a top-up.
ReconcileTx ==
  /\ pc = "reconcile"
  /\ work # << >>
  /\ LET tx == Head(work)
     IN  /\ topups' = [topups EXCEPT ![tx.from] = @ + Lack(tx)]
         /\ sim' = Transferred([sim EXCEPT ![tx.from] = @ + Lack(tx)], tx)
         /\ fees' = fees + tx.fee
  /\ work' = Tail(work)
  /\ UNCHANGED <<accountVars, poolVars, durableVars, pc, loop, block, next,
                 sealed, unstored, spent>>

ReconcileBlock ==
  /\ pc = "reconcile"
  /\ work = << >>
  /\ next <= Len(chain)
  /\ sim' = WithFees(sim, block.miners, fees)
  /\ TakeBlock(next + 1)
  /\ UNCHANGED <<accountVars, poolVars, durableVars, pc, loop, topups, sealed,
                 unstored, spent>>

\* The top-ups are credited, all of them before the first block is applied.
StartReplay ==
  /\ pc = "reconcile"
  /\ next > Len(chain)
  /\ ants' = [a \in Addr |-> ants[a] + topups[a]]
  /\ activated' = [a \in Addr |-> activated[a] + topups[a]]
  /\ total' = [a \in Addr |-> total[a] + topups[a]]
  /\ exists' = exists \cup {a \in Addr : topups[a] > 0}
  /\ topups' = Zero
  /\ sim' = Zero
  /\ TakeBlock(1)
  /\ pc' = "replay"
  /\ UNCHANGED <<sessions, poolVars, durableVars, loop, sealed, unstored,
                 spent>>

ReplayBlock ==
  /\ pc = "replay"
  /\ work = << >>
  /\ next <= Len(chain)
  /\ ants' = WithFees(ants, block.miners, fees)
  /\ exists' = exists \cup FeeAccounts(block.miners, fees)
  /\ TakeBlock(next + 1)
  /\ UNCHANGED <<activated, total, sessions, poolVars, durableVars, pc, loop,
                 sim, topups, sealed, unstored, spent>>

ReplayFails ==
  /\ pc = "replay"
  /\ \/ work # << >> /\ ants[Head(work).from] < Debit(Head(work))
     \/ next > Len(chain) /\ ~NoncesRebuild
  /\ pc' = "refused"
  /\ UNCHANGED <<accountVars, poolVars, durableVars, loop, sealVars,
                 replayVars, sealed, unstored, spent>>

\* What the chain says of nonces, bridge hashes and bridged wallets is taken
\* over; the consensus loop starts.
Recover ==
  /\ pc = "replay"
  /\ next > Len(chain)
  /\ NoncesRebuild
  /\ nonces' = [a \in Addr |-> Cardinality(Signed(a))]
  /\ seen' = CreditHashes
  /\ funded' = CreditedWallets
  /\ next' = 0
  /\ pc' = "up" /\ loop' = "running"
  /\ UNCHANGED <<accountVars, mempool, miners, dirty, durableVars, sealVars,
                 sim, topups, sealed, unstored, spent>>

------------------------------------------------------------------------------
Requests ==
  \/ SubmitSome
  \/ \E to \in Wallets, hash \in Hashes, amount \in Amounts :
       BridgeCredit(to, amount, hash)
  \/ \E from, to \in Wallets : PiSettlement(from, to)
  \/ \E from \in Wallets, amount \in Amounts : BridgeBurn(from, amount)
  \/ \E to \in Wallets, amount \in Amounts : AdminMint(to, amount)
  \/ \E legacy, secp \in Wallets : MigrateLegacy(legacy, secp)

Syncing == (\E rows \in Web2Ledgers : Sync(rows)) \/ Truncate \/ WriteSnapshot

Sealing == BeginBlock \/ ApplyTx \/ FinishBlock \/ Store

Failing == WriteFails \/ ApplyFails \/ StoreFails \/ Crash

StartUp ==
  \/ Restart \/ RestartFails \/ ReconcileTx \/ ReconcileBlock
  \/ StartReplay \/ ReplayBlock \/ ReplayFails \/ Recover

Next == Requests \/ Syncing \/ Sealing \/ Failing \/ StartUp

Spec == Init /\ [][Next]_vars

\* The consensus task polls, the sync task and start-up go on; nothing makes a
\* client send a request, and nothing has to go wrong.
FairSpec ==
  /\ Spec
  /\ WF_vars(Sealing \/ ApplyFails)
  /\ WF_vars(Truncate \/ WriteSnapshot)
  /\ WF_vars(StartUp)

------------------------------------------------------------------------------
(***************************************************************************)
(* Properties.                                                             *)
(***************************************************************************)

AccountsOK ==
  /\ exists \subseteq Addr
  /\ ants \in [Addr -> Nat]
  /\ activated \in [Addr -> Nat]
  /\ total \in [Addr -> Nat]
  /\ sessions \in [Addr -> Nat]

PoolOK ==
  /\ mempool \in Seq(Transaction)
  /\ nonces \in [Addr -> Nat]
  /\ miners \subseteq Addr
  /\ dirty \in BOOLEAN
  /\ seen \subseteq Hashes
  /\ funded \subseteq Addr

DurableOK == chain \in Seq(Block) /\ snapshot \in Snapshot /\ readable \in BOOLEAN

SealOK == block \in Block /\ work \in Seq(Transaction) /\ fees \in Nat

ReplayOK == next \in Nat /\ sim \in [Addr -> Nat] /\ topups \in [Addr -> Nat]

HistoryOK ==
  /\ sealed \in [Addr -> Int]
  /\ unstored \in [Addr -> Int]
  /\ spent \subseteq Addr

\* The state is well-formed: in particular no balance ever goes below zero,
\* though sealing, the clawback and the replay all subtract.
TypeOK ==
  /\ AccountsOK /\ PoolOK /\ DurableOK /\ SealOK /\ ReplayOK
  /\ pc \in {"down", "reconcile", "replay", "refused", "up", "persist", "write",
             "apply", "store"}
  /\ loop \in {"running", "exited"}
  /\ HistoryOK

\* What is left of an account's activation never exceeds its balance, so the
\* clawback of sync_activated_accounts, which subtracts the one from the other,
\* never fails half-way through the accounts.  It has to hold after every mix
\* of debits, top-ups, migrations and restarts.
ActivatedBounded == \A a \in Addr : activated[a] <= ants[a]

\* The transactions that wait for a block, or for the one being sealed; while
\* one is, the mempool is empty.
Waiting == IF pc \in {"apply", "store"} THEN block.txs ELSE mempool

SameCredit(t, u) == t.hash = u.hash /\ t.hash # NoHash

\* The condition under which NodeLedgerProofs proves the next property.
Unpadded == \A h \in Hashes : Trimmed[h] = h

\* An EVM transaction is credited at most once, counting what is sealed, being
\* sealed and waiting, across restarts (queue_bridge_credit and
\* collect_processed_bridge_hashes).
BridgeCreditOnce ==
  /\ \A p, q \in Places : SameCredit(TxAt(p), TxAt(q)) => p = q
  /\ \A i, j \in DOMAIN Waiting : SameCredit(Waiting[i], Waiting[j]) => i = j
  /\ \A p \in Places, i \in DOMAIN Waiting : ~ SameCredit(TxAt(p), Waiting[i])

\* A wallet that a sealed credit went to keeps its exemption from the session
\* gate as long as the node serves requests (collect_bridge_funded_accounts).
ExemptionSurvives ==
  pc = "up" => \A p \in Places : TxAt(p).hash # NoHash => TxAt(p).to \in funded

\* An address owes more for what waits in the mempool, and for what is still to
\* be applied of the block being sealed, than it has.
Due(a) == PendingDebit(a) + (IF pc = "apply" THEN Owing(work, a) ELSE 0)
Short(a) == ants[a] < Due(a)

\* What is waiting in the mempool can be paid for, sender by sender.  The code
\* does not keep this: two settlements of one sender are covered one by one.
MempoolSolvent == pc = "up" => \A a \in Addr : ~Short(a)

\* The steps that take from a's balance without counting what it has pending.
TakesUncounted(a) ==
  \/ \E to \in Wallets : PiSettlement(a, to)
  \/ \E amount \in Amounts : BridgeBurn(a, amount)
  \/ \E secp \in Wallets : MigrateLegacy(a, secp)
  \/ \E rows \in Web2Ledgers : Sync(rows) /\ a \in ClawedBack(rows)

\* apply_block fails, and the consensus loop ends, only on a sender that is
\* short, and nobody becomes short but by a settlement, a burn, a migration or a
\* clawback of its own: not by transfers and credits in whatever order the block
\* puts them, not by what others do, and not by a block, failure or restart.
OnlyTakersLeaveShort ==
  [][/\ \A a \in Addr : Short(a)' => Short(a) \/ TakesUncounted(a)
     /\ ApplyFails => Short(Head(work).from)]_vars

\* The chain can always be replayed: rebuild_account_nonces will find every
\* sender's nonces in order.
HistoryRebuilds == NoncesRebuild

\* The conditions under which NodeLedgerProofs proves it: no transaction of a
\* wallet that the wallet did not sign, and a wallet's timestamps in the order of
\* its nonces.
WalletsSign == "settle" \notin Ops
TimesFollow ==
  \A i, j \in DOMAIN mempool :
    mempool[i].from = mempool[j].from /\ mempool[i].nonce < mempool[j].nonce =>
      mempool[i].time <= mempool[j].time

\* Only a genesis.json that was left truncated keeps a restart from loading the
\* ledger: every transaction of the chain can be applied again to whatever
\* accounts the file has, and the nonces are in order.
OnlyTornFileRefuses == pc = "refused" => ~readable

Supply == SumFunctionOnSet(ants, Addr)

\* Sealing a block moves ANTS and makes none: from the first transaction to
\* the last share of the fees, balances and undistributed fees add up to the
\* same sum.
SealConserves ==
  [][pc = "apply" /\ pc' \in {"apply", "store"} => Supply' + fees' = Supply + fees]_vars

\* A restart restores the balance there was when the last block, or the last
\* snapshot, was stored: of every account as long as genesis.json is that of the
\* Genesis Activation, and after a sync has rewritten it of those that have spent
\* nothing.  What a block that was not stored did is undone.
ReplayFaithful ==
  [][Recover => \A a \in Addr :
       a \notin spent \/ snapshot = GenesisSnapshot => ants[a] = sealed[a]]_vars

\* The same of all accounts, as the update of the whitepaper has it.  The code does
\* not keep this: a spend before a sync writes the snapshot is made again.
ReplayExact == [][Recover => ants = sealed]_vars

\* The condition under which NodeLedgerProofs proves both: every balance is changed
\* by the transactions of blocks and their fees, and nothing else.
OnlyTransfers == Ops \cap {"settle", "burn", "mint", "migrate", "sync"} = {}

\* A restart gives nobody more than it had then, whatever was spent before a sync
\* wrote the snapshot.
ReplayNeverGives == [][Recover => \A a \in Addr : ants[a] <= sealed[a]]_vars

\* The condition under which NodeLedgerProofs proves it: no request that takes
\* from a balance outside the chain, and no snapshot that is not written.
TakenOnChain == Ops \cap {"settle", "burn", "migrate", "writeFails"} = {}

\* A bridge credit that was acknowledged is in a block sooner or later, unless
\* the consensus loop ends or the process stops.
CreditIsSealed ==
  \A h \in Hashes :
    h \in seen ~> \/ Trimmed[h] \in CreditHashes
                  \/ loop = "exited"
                  \/ Len(chain) = MaxBlocks  \* a bound of the model

\* A bridge credit that was acknowledged is never lost.
Acknowledged == CreditHashes \cup ({Waiting[i].hash : i \in DOMAIN Waiting} \ {NoHash})
CreditSurvives == [][Acknowledged \subseteq Acknowledged']_vars
==============================================================================
