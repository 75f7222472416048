# A-Network node: TLA+ models, checks and proofs

The A-Network node (`src/src`, Rust) keeps a ledger of ANTS in memory, seals
blocks into PostgreSQL, rebuilds the ledger from them when it starts, and serves
the requests of wallets, administrators, a bridge relayer and a Web2 mining
ledger over HTTP.  One process seals the blocks; there is no consensus between
nodes.  What makes it hard is therefore not agreement but

- *two kinds of state*: accounts, mempool, nonces and pools in memory behind one
  `RwLock`; blocks, burns, signatures, migrations in PostgreSQL; a snapshot of
  accounts in `genesis.json`.  A step of the program rarely changes two of them
  at once;
- *awaits*: a request handler changes memory, lets the lock go, awaits a
  statement, and goes on with what it read before; it is dropped at an await
  when its client disconnects;
- *replay*: what a restart makes of the durable state should be what the node
  had in memory.

Tests in the repository exercise single functions; none restarts a node, fails a
statement or interleaves two requests.

## Inventory

| Component | State | Operations | Interacts with | What makes it correct | Modelled |
|---|---|---|---|---|---|
| Block store and consensus loop (`consensus.rs`, `db.rs` 1494-1633, `state.rs` create_block, `main.rs`) | tables `blocks`, `meta.LAST_HASH`; `NodeState.blocks`; the loop's task | bootstrap of the genesis block, load and validate, seal a block per epoch in two statements | takes the mempool of the ledger; is the source of the replay | the durable chain always loads and only grows; memory never ahead; nothing sealed twice; pending work sealed | `ChainStore` |
| Ledger (`state.rs`, `activation.rs`) | accounts (balance, activation, sessions), mempool, nonces, bridge hashes, exemptions, validators; `genesis.json` | transfers, bridge credits, Pi settlements, burns, mints, migrations, Web2 sync and clawback, apply a block, distribute fees, replay | requests under the write lock; the block store; the Web2 ledger | balances never negative and conserved; the mempool can be paid for; credits once; nonces in order; restart = what was sealed | `NodeLedger` |
| Bridge burns and vault signatures (`rpc.rs` 2061-2610, `db.rs` 1072-1318, `bridge_vault.rs`) | tables `bridge_burns`, `bridge_burn_signatures`; accounts | burn (debit, then INSERT), sign, mark released or failed | ledger accounts; relayer and vault on BSC | nothing released that was not burned; one outcome for each burn | `BridgeBurns` |
| Wallet migration (`rpc.rs` 2612-3016, `db.rs` 1320-1442) | table `wallet_migrations`; accounts | commit, reveal (check, move, record), cancel | ledger accounts; administrators | a reveal is final; nothing is left behind | `WalletMigration` |
| Validator set, bootstrap seats (`state.rs` 50-160, 404-480, 633-734, `main.rs`) | `eligible_miners`, `bootstrap_validators`, the accounts' sessions | choose after a sync, replace, seed, migrate, admit | ledger sessions; Web2 sync; fee shares of blocks | never empty while seats are configured, capped, organic validators first, bootstrap seats end for good | `ValidatorSeats` |
| DEX (`dex.rs`, `state.rs` 953-1830, `rpc.rs`) | pools with reserves and shares, asset balances, `pending_state_commit` | wrap, unwrap, create, deposit, swap, top up, bootstrap | ledger accounts; pools are in every block and come back from the last | rounding never favours the trader; shares add up; nothing made or lost; every change reaches a block | `NativeDex` |
| ANRC-20 tokens (`token.rs`, `state.rs` 1916-2158) | token registry, asset balances | create, mint, transfer | DEX, ledger | supply = sum of what wallets hold | `NativeDex` |
| Mining proofs, heartbeats (`state.rs` 481-632, `rpc.rs` 939-1099, `db.rs` 1442-1492) | pending proofs; nonce tables (durable) | take the nonce, record, list in blocks, expire | decides whether a block is due | a nonce counts once and in turn; a proof is listed, and not for ever | `Submissions` |
| Transaction validation (`transaction.rs`) | none | canonical bytes, signatures, addresses | admission | a function; what admission distinguishes is in `NodeLedger` | partly |
| Block hashing (`block.rs`) | none | hash, validate, older formats | block store | a hash fixes the history below it | assumed |
| Web2 loading (`db.rs` 143-400, `activation.rs`) | none | SQL for accounts and validators | input of the sync | - | input only |
| RPC pages and caches (`rpc.rs`) | caches | read | - | - | not modelled |
| Payout automation (`scripts/payout-automation`) | `queue.json`, `state.json`; the executor's `executor-state.json` | a cycle per interval: ingest, judge, call, record, save; execute a call | BSC; Web2 ledger | a swap is paid once, reported after that and for good, within the hourly cap | `Settlement`, `Payouts` |
| Chain events and statistics (`events.rs`), deployment, documents | - | - | - | - | not modelled |

## Modules

| Module | What it is |
|---|---|
| `AppendOnlyLog` | what a chain promises: it is extended block by block, and a block's label is its position |
| `ChainStore` | the store and the loop, one action per await; implements `AppendOnlyLog` |
| `NodeLedger` | the ledger with its requests, sealing, snapshot, crash and replay |
| `BridgeBurns`, `WalletMigration` | two services over the accounts and a table of their own |
| `NodeServices` | the two in one process, with its crash |
| `NativeDex` | the exchange and the tokens, with the arithmetic of `dex.rs` |
| `ValidatorSeats` | who validates: selection, sync, seeding, migrations, restarts |
| `Submissions` | signed proofs and heartbeats, their nonces, and the blocks made for them |
| `Settlement` | what the payout contract promises for each swap |
| `Payouts` | the worker's cycles, the executor's calls and the files of both; implements `Settlement` |
| `ChainStoreProofs`, `NodeLedgerProofs`, `NodeServicesProofs`, `NativeDexProofs`, `ValidatorSeatsProofs`, `SubmissionsProofs`, `PayoutsProofs` | theorems and proofs |
| `SumTheorems` | the laws of sums over finite sets that the proofs about balances, shares and supplies use |
| `MC...` | constants for TLC, one module for each of the six systems above |

`BridgeBurns` and `WalletMigration` are composed by `NodeServices`, because both
move the balances of the same accounts and are stopped by the same crash.  The
others meet at narrow places, and each says in its header what it takes from the
others: `NativeDex!Restart` takes the accounts a restart gives from `NodeLedger`,
`ValidatorSeats` the snapshot, `Submissions` a flag for other block work.

### ChainStore

`pc` says where the process is: `down`, at an await of start-up (`genesisInsert`,
`genesisTip`, `load`), serving (`up`), at an await of `create_block` (`insert`,
`tip`), or `refused` when start-up ended in an error.  `rows` and `tip` are the two
tables; `blocks`, `pending`, `draft` and `loop` are memory.  A hash *is* the
history it commits to, so equal hashes are equal histories (collision freedom),
and `Resolvable` is what `load_chain_blocks` walks.  `InsertBlock` and `UpdateTip`
are the two statements of `store_block_and_update_tip`; their failing variants
include the one in which the statement is executed and its answer lost.
`Crash` may strike at every await.  The pending transactions are a set: their
order and effects are the ledger's.

### NodeLedger

All of `NodeState` is behind one `RwLock`.  Handlers run under the write lock and
are single actions (`Submit`, `BridgeCredit`, `PiSettlement`, `BridgeBurn`,
`AdminMint`, `MigrateLegacy`, `Sync`).  `create_block` keeps the lock from its
first to its last statement, so `pc = "apply"` and `"store"` exclude requests; a
block is applied one transaction per step because `apply_block` returns at the
first transaction it cannot apply and leaves the earlier ones applied.  A
restart is modelled as the code does it: read `genesis.json`, walk the chain once
on a copy to find what senders lack (`ReconcileTx`), credit all of it at once
(`StartReplay`), apply the chain (`ApplyTx`, `ReplayBlock`), rebuild nonces,
bridge hashes and exemptions (`Recover`).  `write_genesis` truncates before it
writes (`Truncate`, `WriteSnapshot`).  Three variables are history.  `sealed` has the
balances when the last block or snapshot was stored, which is what a restart is
compared with; `unstored` what a block that is being sealed, or was lost, has added to
the live balances since; `spent` who has sent a transaction that a block applied.

### BridgeBurns, WalletMigration, NodeServices

`burning`, `signing` and `revealing` hold the requests between two of their
steps.  A burn: `Burn` debits under the lock; then `RecordBurn` (the INSERT),
`RecordFails` (an error, after which the amount without the fee is credited;
with `lostAnswer` the row may be there all the same) or `AbandonBurn` (the client
disconnected).  A migration: `Reveal` reads and checks the row, `Move` changes the
accounts, `RecordMove` updates the row *by address alone*.  `Release` is external:
the vault pays once per burn, with enough signatures, until the deadline.
`NodeServices!Crash` keeps the tables and resets the accounts to what the replay
of the chain gives, which contains neither burns nor migrations.  Legacy
addresses cannot sign (`Senders`), because signatures are recovered to the
address of the key.

### NativeDex

A method runs under the write lock, so a request is one step; it stops at its
first error and undoes nothing, so a refusal that has already debited or credited
an account is a step that ends in `Refuse` where an accepted one ends in `Accept`.  The arithmetic is
that of `dex.rs`: floor division of natural numbers, fees in basis points, Newton's
square root.  Balances are `u64` with checked additions, bounded by `MaxUnits`;
reserves and shares are `u128` and never get near their bound.  `last` and `signer`
are history, for the action properties, and are hidden from TLC by a `VIEW`.
`Restart` brings pools and tokens back from the last block, and accounts from
elsewhere.

### ValidatorSeats

`web2` is the mining ledger, `rows` what the sync task has read from it and not yet
applied, `sessions` the accounts', `file` the snapshot.  `Top` is the sorted and
truncated list of the code, as a set; `ActiveSet` is `compute_active_validator_set`.
`SyncApply` raises sessions, writes the snapshot, chooses and seeds;
`SyncApplyFails` stops after the first, `SyncLoadFails` seeds alone.  `Start` chooses
*before* it seeds, as `main.rs` does, and `StartAlone` is a start without the
database.

### Submissions

A request is in `flight` from its arrival until it ends; its nonce is taken by one
upsert (`TakeNonce`), and it is recorded later, under the lock (`Record`).  Either may
fail, the client may go away in between, and `Crash` forgets everything but the
nonces.  Proofs have an age in epochs; `Kept` is the cutoff of 300 s, which falls
somewhere in an epoch and therefore leaves a choice for the age `MaxAge`.

### Payouts

A cycle of the worker loads both files, asks for candidates (`Feed`), and walks its
list: items that need no wait are judged together (`Judged`), and at the others the
cycle waits for the eligibility answer, the executor and the activity report.  It
saves at the end, the queue first (`Save`, `SaveFails`).  The executor looks the
request up and reads its state (`Accept`), transfers (`Transfer`), and writes that
state back with the record (`Record`).  A call outlives its caller: `AnswerLost` and
`WorkerRestarts` leave it with `Nobody`.  `Overlap` lets a call reach the executor
while it is busy; `Unconfirmed` lets it fail between transfer and record.  Both are
FALSE in the run that holds, and each alone breaks `SentOnce`.

## Checks

| Run | Expected | Question, bounds |
|---|---|---|
| `store` | holds | 2 transactions, epochs of 2 s, genesis at 0, started at 2, until 8 (four epochs), every fault anywhere: `MemoryMatchesStore`, `SealedOnce`, `RefusedOnlyByGenesis`, `LogGrows` (refinement of `AppendOnlyLog`), and under fairness `PendingIsSealed` |
| `ledger_pool` | holds | transfers and bridge credits of 2 wallets, 2 EVM hashes, 2 blocks, Web2 syncs that rewrite `genesis.json`, crashes and failing stores anywhere: `BridgeCreditOnce`, `ExemptionSurvives`, `HistoryRebuilds`, `OnlyTornFileRefuses`, `SealConserves`, `ReplayFaithful`, `ReplayNeverGives` |
| `ledger_funds` | holds | every operation that moves funds but the mint, two client clocks, with syncs, clawbacks, torn snapshots, failing stores and crashes; 1 block, mempool of 2: `TypeOK` (no negative balance), `ActivatedBounded`, `OnlyTakersLeaveShort` |
| `ledger_live` | holds | every operation but the migration, with failing stores and writes, crashes and blocks that cannot be applied; 2 blocks, mempool of 2, fairness: `CreditIsSealed` |
| `services` | holds | 3 addresses (a legacy one, its key's, a stranger's), 2 requests at a time, 2 burns, failures, disconnects, crashes: `PaidIsBurnedSinceStart`, `OutcomeIsFinal`, `RevealedIsFinal` |
| `dex` | holds | 2 wallets, one token, balances below 7, amounts 1 and 3, a fee that is and one that is not allowed, 4 requests, 1 block, restarts: `QuoteIsBest`, `ProductGrows`, `ShareKept`, `SharesAreRoot`, `BooksAddUp`, `AcceptedConserves`, `PoolsCommitted`, `ActivatedBounded` |
| `seats` | holds | 2 bootstrap seats, 2 miners of whom one migrates, a cap and a quorum of 2, a failure or restart: `NeverVacant`, `OrganicFirst`, `RetiredBySync`, and under fairness `SunsetHolds`, `SeatsCatchUp` |
| `submissions` | holds | 3 proofs and a heartbeat of one wallet, two of them with the same nonce, a wallet off the allowlist, any two in flight, a failure: `RecordedInTurn`, `RepeatsBounded`, `DroppedOnlyIfListed`, and under fairness `ProofsRunOut` |
| `payouts` | holds | 5 requests (an invalid one, a second one for the same swap, one of a wallet that is not eligible), one cycle and one call at a time, 2 failures, hours passing: `HourCapKept`, `StatusFinal`, `KeepsContract` (refinement of `Settlement`), and under fairness `PendingEnds` |
| `ledger_credit_lost` | violated | a crash before the next block loses a bridge credit that was acknowledged |
| `services_stranded` | violated | a restart undoes a migration's move and keeps its record |
| `payouts_twice` | violated | two cycles overlap and pay one request twice |

The bounds are chosen so that the interesting case happens: two transactions are
the least that can be sealed in the wrong order, or be covered alone and not
together, and a settlement or burn is enough to leave them short; two blocks put a
credit before, in and after a crash, and a spend before and after a snapshot; a fee of 3
with two validators leaves a remainder; a clock of eight seconds gives a block before,
during and after a lost answer; four requests create a pool, deposit, swap and
fail; a Web2 ledger that leaves a wallet out claws it
back, and two of them alternate; two requests are all that can share one row.
In `seats` the quorum and the cap are both reached by
the miners the ledger has, so the seats are taken, shared and given up; in
`submissions` a cutoff of two epochs lets a proof be listed several times and
expire; in `payouts` an hourly cap of one request makes the others wait for an hour,
and two retries are exhausted.  Every action fires in a run that passes.  `MaxBlocks`, `MaxQueue`, `MaxMint`,
`MaxTime`, `MaxBurns`, `MaxRequests`, `MaxSessions` and `MaxTrouble` bound what grows;
the program has no such limits.
`CHECK_DEADLOCK FALSE` is set because these bounds stop a behaviour, and because a
refused start is final; in `payouts` because a torn file stops the worker for good.

**Fairness.**  `ChainStore!FairSpec`: the loop polls for ever, start-up goes on, the
database answers and time passes (weak fairness of each); clients, operators and
faults owe nothing.  Weak fairness is enough: a step the loop can take stays
possible until it takes it.  `PendingIsSealed` speaks of work that is pending
before the last epoch of the bounded clock, and allows that the process has
stopped or the loop has ended.  `NodeLedger!FairSpec`: the consensus task, the sync
task and start-up go on.  `CreditIsSealed` allows that the loop has exited, which is what
every error of `create_block` does and what a crash does, and that the bound on blocks
is used up; nothing else may keep a credit waiting: not a full mempool, a clawback of
its recipient or a settlement, nor a block that fails without ending the loop.
`ValidatorSeats!FairSpec`: the sync task ticks and the process is started again;
miners, requests and faults owe nothing, and faults are bounded by `MaxTrouble`, so
that they end.  `Submissions!FairSpec`: epochs begin and the consensus task is
scheduled; a submission may stay in flight for ever.  `Payouts!FairSpec`:
`setInterval` goes on starting cycles, hours pass, and whatever a cycle or a call
awaits is answered or refused some time; a `fetch` that neither answers nor fails
would hold a cycle for ever, and the next cycle would overlap it.

## Proofs

TLAPS checks the following for all values of the constants that the named
assumptions (`ChainStoreAssumption`, `NodeLedgerAssumption`,
`NodeServicesAssumption`) allow: any number of wallets, transactions, hashes,
signers, blocks, requests, any faults.  Where the code keeps a property only under a
condition, the condition is a definition of its own beside the property (`Unpadded`,
`FailuresAreReal`, `WalletsSign`, `TimesFollow`, `OnlyTransfers`, `TakenOnChain`), it is a
hypothesis of the theorem, and the section on findings shows what happens without it.

Sums are `SumFunctionOnSet` of the community module Functions, which takes an element
of the set that `CHOOSE` picks.  `SumTheorems` proves that any order gives the same
sum (`SumsAgree`) and from that the laws the proofs cite: removing and inserting an
element, changing one value, renaming, bounds, adding functions.  Its inductions are
over a *set* of naturals (`Induction`) or of subsets (`SetInduction`), because the
library's induction theorems take an operator, which the provers cannot instantiate;
the same form serves for Newton's square root.

- **ChainStore.** `StoreInv` strengthens `TipResolvable` by what each `pc` knows: a
  block being stored extends the tip by one block with the right label
  (`StoringBlock`), its row exists before the tip is moved (`RowStored`), memory is
  the durable chain or lacks its last block after a lost answer (`MemoryBehind`).
  Without `RowStored` the step `UpdateTip` could not keep `TipResolvable`; without
  `MemoryBehind` the label, computed from memory, need not fit the hash, read from
  the database.  Theorems: `TipAlwaysResolves`, `MemoryNeverAhead`,
  `StoreImplementsLog` (refinement of `AppendOnlyLog`), `NothingSealedTwice` (by
  `FreshWork`: what is pending or in the draft is in no durable block).
  `StartsSucceed`: if every start reads the same epoch length and none falls in the
  genesis block's epoch, no chain the node has stored is refused later.  Its
  invariant `StartInv` orders the epochs of the durable chain, of what memory has
  and of the draft, all below the clock (`TimeInv`), and says that as long as
  there is no LAST_HASH the only row is the genesis block's (`OnlyGenesisRow`).
- **NodeLedger.** `BalanceInv == TypeOK /\ ActivatedBounded /\ ReserveIdle` is
  inductive, action by action: `BalancesStayNatural`, `ClawbackNeverUnderflows`.
  The types need `ActivatedBounded` (the clawback subtracts an activation from a
  balance), which needs `ReserveIdle`: the fee reserve gives ANTS away without
  touching its own activation, so it must never have any.  `CreditInv` (hashes of
  waiting and sealed credits are in `seen`; before a request can come, `seen` has
  been rebuilt) gives `NoDoubleCredit`, under `Unpadded`, and
  `BridgedWalletsStayExempt`.
  `SealingConserves`: a transfer moves a debit, of which the fee is kept apart, and
  the shares and the rest are exactly the fees.
  `OnlyTakersEndTheLoop` has no condition: what a sender owes (`Due`) is a sum over the
  mempool and over what is left of the block being sealed; admission extends it by one
  debit it has compared with the balance, a block takes the same debit from both sides in
  whatever order it comes to it, and all that is left is the four requests that look at the
  balance alone.  They do leave senders short, which is among the findings.
  `HistoryStaysReplayable`: while the loop runs, the pending nonces of a wallet are an
  interval above the number of its transactions in the chain (`NonceInv`); the sort of
  a block puts them in order if the wallet's timestamps follow its nonces
  (`TimesFollow`), and a block that is lost ends the loop, so that none is built on the
  nonces it left behind.
  `RefusedOnlyIfTorn`: a *trace* is what `reconcile_replay_sender_balances` has at every
  place of the chain.  `RestartInv` says that the first pass leaves one, and that the replay
  follows it with the top-ups that are still to come in its balances; as no top-up is taken
  back (`Rising`), no sender is ever short, whatever the snapshot holds.  The nonces are
  those of the theorem before.
  `RestartsRestoreBalances`: every trace of the chain ends in the balances of the last
  block (`BareInv`), because sealing makes the steps of a trace: the treasury has in
  advance what the pass tops it up by, no wallet is topped up, and the senders of the chain
  are in `spent`.  Under `OnlyTransfers`, that is with the `genesis.json` of the Genesis
  Activation.
  `RestartsGiveNothing` and `RestartsKeepTheIdle` are about the case that breaks
  `ReplayExact`: transfers that spend, and syncs that rewrite the snapshot between them, so
  that the replay begins with other balances than the chain did.  `GainInv` says that the
  chain, passed from *any* first balances that cover the activations, gives an account no
  more than it has above them, and exactly that if it has spent nothing; a spend takes from
  the activation and is on the chain as well, so it can only be taken twice, never given
  back.  Under `TakenOnChain`: a burn, a settlement's deficit or a migration is not on the
  chain, and a restart before the next snapshot gives it back; nor may a snapshot that was
  due be left unwritten.
- **NodeServices.** `ServicesTypeCorrect`, `BurnOutcomesAreFinal`,
  `RevealsAreFinal`.  `ReleasesWereDebited`: `DebitsInv` adds to what circulates, to the
  fees and to the rows since the start what the burns in flight have debited and may
  still be given back; each step moves an amount from one of the four to another, and
  a release takes a row's.  Under `FailuresAreReal`: a lost answer pays twice.
- **NativeDex.** `IInv` bounds balances and activations and says that every pool,
  live or stored, has positive reserves and a fee below the whole.  It gives
  `ReservesStayPositive` and `ActivationsStayBounded`; `ProductNeverShrinks` and
  `QuotesAreBest` follow from it with the arithmetic of floor division, for every
  amount, fee and reserve.  They need positive reserves, because a pool with an
  empty side pays everything or divides by zero.  `PoolsAreCommitted` adds what each
  request tells the consensus loop (`Told`): the product check of `dex_swap`, after
  the pool has changed and before the loop is told, never fails.  `BooksInv` gives
  `BooksAlwaysAddUp`, for the stored books as for the live ones, and with it
  `OpeningSharesAreRoot` (Newton's iteration falls until it stops, at the root) and
  `DepositsKeepShares` (what the check of the ratio and two floor divisions leave).
  `BalancesInv` keeps every balance within u64 (`TypeCorrect`); `OnlySignersPay`, and
  `AcceptedRequestsConserve`, which follows each accepted request through balances,
  assets and reserves, start from it.
- **ValidatorSeats.** The lemmas on `Top` say what the sorted and truncated list is:
  not empty if there is a candidate and a place, not larger than the places, and all
  candidates if they fit; they count with the cardinalities of finite sets.  `IInv`
  adds to the types that a running node knows all its configured seats
  (`SeatsKnown`), without which the next sync would take a seat for an organic
  validator.  Theorems: `TypeCorrect`, `SeatsNeverVacant`, `SeatsWithinCap`,
  `SunsetBySync`, `OrganicGoFirst`.
- **Submissions.** `NoncesInv`: a request that has been recorded, or has taken its
  nonce, has a nonce not above the table's, and no two have the same one; this
  gives `SubmissionsCountOnce`.  `TurnsInv` compares with what had been recorded on
  arrival (`SubmissionsInTurn`), `ListingsInv` relates a proof's age, the blocks that
  list it and whether the present epoch has one (`ProofsRepeatBounded`), `FreshInv`
  says that a proof not yet listed is younger than the cutoff
  (`ListedBeforeDropped`).
- **Payouts.** `TypeInv` keeps every list a cycle holds within the retries an item
  may have, `CallsInv` says that a waiting cycle has one call and it is for the item
  the cycle is at.  `PaidMeansSent` needs no more: `TracedInv` says that all that any call
  has read of the executor's records, and what it confirms, has been sent, so that two
  calls that overwrite each other's records write nothing false; `PaidInv` and
  `CountedInv` follow an answer into the lists and totals of the cycles and their files.
  With a busy executor of one call, `OnceInv` says that what has been sent is recorded or
  being confirmed, and that a call past its lookup knows all records: `PaidOnce`, for any
  number of cycles.  With one cycle (`Single`), `FileInv` says that its list extends the
  file: `ReportsStay`.  Together they give `PayoutsKeepContract`, the refinement of
  `Settlement`.  `CapInv` says what the total of a cycle may lack: nothing before a call
  and after its answer is counted, one payout that fits under the cap in between.  It
  gives `CapHolds` for one cycle; with two, each would make room in a total of its own.

The type invariants of the other modules, `TipResolvable`, `HeightsMatchPositions`,
`ReservesPositive`, `WithinCap`, `CountedOnce`, `OnlySignerPays`, `PaidWasSent` and, where
nothing overlaps, `SentOnce` are proved and not repeated by a run.

Only model-checked: liveness under fairness (`PendingIsSealed`, `CreditIsSealed`,
`SunsetHolds`, `SeatsCatchUp`, `ProofsRunOut`, `PendingEnds`), which needs ENABLED and is
out of the prover's reach.  Every other property of a passing run is stated by a theorem;
`ReplayFaithful` with syncs in two halves, of which `RestartsKeepTheIdle` is the one.

## Simplifications

- Amounts are unbounded naturals: arithmetic in the code is checked, and the
  supply of 21 million ANET is far below 2^64 ANTS.
- Signatures, addresses and digests are taken as given; a signed transaction is one
  by its sender, and an EIP-712 digest identifies a burn.
- Asset balances, events, vote records and descriptive fields of blocks are left
  out of the ledger; mining proofs do not make a block due in it.
- The sync at start-up is the first periodic one: from_genesis is followed by any
  requests before it.  A snapshot that cannot be written at start-up ends the
  process, which is a `Crash`.
- The statements that write CHAIN_ID and GENESIS_TIME after the genesis block are
  not modelled; they only describe it.
- In `NodeLedger` the history `sealed`, when a snapshot is written, leaves out the
  treasury's pre-funding for credits that wait and what a lost block has done to
  balances (`unstored`): a restart forgets both with what they were for.
- Of an account `WalletMigration` keeps the balance, and of its callers the
  requests that reach a state change.  A SELECT followed without an await by the
  step that uses it is one step with it.

## Findings and observations

The runs `ledger_credit_lost`, `services_stranded` and `payouts_twice` are
disagreements of the code with its own documents; `PROJECT.json` quotes the sentences.
Nine more can be had from a configuration that holds by changing the constants named
here and checking one property:

| Configuration, with | Property | What happens |
|---|---|---|
| `ChainStore.cfg`, `EpochLengths <- TwoLengths`, `StartTime = 3` | `RefusedOnlyByGenesis` | A restart with another `ANET_EPOCH_SECONDS` (README.md:470 offers it) seals a block that overlaps an earlier epoch, and the next start refuses the chain. |
| `LedgerFunds.cfg`, `Ops = {"settle"}` | `MempoolSolvent` | Two Pi settlements of one sender, each covered alone (`state.rs` 1873), underflow together in `apply_block` and end the consensus loop. |
| `LedgerPool.cfg`, `Times <- TwoTimes` | `HistoryRebuilds` | Blocks are sorted by the client's timestamp before the nonce (`state.rs` 2417); a wallet whose clock went back has its transactions sealed in reverse, and the next start refuses the chain. README.md:290 wants nonces strictly increasing. |
| `LedgerPool.cfg`, `Ops = {"submit", "settle", "sync"}`, `MaxBlocks = 3` | `HistoryRebuilds` | A Pi settlement has nonce 0 and, sealed after a transfer of its sender, resets the sender's committed nonce (`state.rs` 2269-2273): the next transfer repeats a nonce, and the next start refuses the chain. |
| `LedgerPool.cfg` | `ReplayExact` | A snapshot after a spend holds what the spend left, and the replay spends again (`state.rs` 2291), against WHITEPAPER_v3.1_UPDATE_2026-06-05.md:122-124. |
| `Services.cfg`, `Faults <- LostAnswers` | `PaidIsBurned` | The INSERT of a burn is executed and its answer lost: the sender is credited (`rpc.rs` 2162) and the row is released as well, against `db.rs` 1007-1009. |
| `NativeDex.cfg` | `RefusedSwapIsHarmless` | `dex_swap` debits and credits before it compares with `min_amount_out` (`state.rs` 1738), and undoes neither: README.md:292 offers it as protection. |
| `ValidatorSeats.cfg`, `Ops <- MoveOnly` | `SessionsNotDuplicated` | After a migration the next sync raises the legacy account again: one owner, two seats, against the comment at `state.rs` 1257. |
| `Submissions.cfg` | `ClearedWhenListed` | A proof is kept for 300 s and listed by every block of that time; VALIDATOR_DEPLOYMENT_GUIDE.md:81 says it is cleared from the buffer after a block. |

`Payouts.cfg` shows two more: with `Unconfirmed = TRUE` a `tx.wait` that throws, or
an executor that stops before its record, has a transfer repeated (`SentOnce`); with
`Cycles = {c1, c2}` the later save of an older list takes a report back
(`StatusFinal`).  Met while modelling, and without a property of their own:

- Blocks and LAST_HASH are two statements outside a transaction, though
  README.md:471 speaks of atomic writes.  For later blocks this does no harm
  (`TipAlwaysResolves`, `MemoryMatchesStore`); for the genesis block it does: after a
  crash between the two every start fails on the primary key
  (`RefusedOnlyByGenesis` says that nothing else does).
- A node first started inside the epoch of `genesis_time` seals a block that
  overlaps the genesis block's epoch.
- `bridge_burn_anet` leaves no transaction in the chain: a restart brings the
  burned ANTS back.  `PaidIsBurnedSinceStart` is stated for this reason.
- Without validators the fee of a burn vanishes unless the reserve has an account
  (`state.rs` 1175).
- A crash inside `write_genesis` leaves a `genesis.json` that cannot be parsed.
- A bridge hash with white space around it is remembered as written and rebuilt
  trimmed; `NoDoubleCredit` is proved under `Unpadded`.
- A signature can be stored after a burn's outcome, and nothing keeps the vault
  from releasing a burn that was marked failed.
- A reveal that overlaps a cancellation and a new commit completes the new row
  with the old amount; the second of two reveals overwrites the recorded amount.
- DEX: `dex_create_pool` refuses a fee above the limit after both debits; the two
  administrators' routes leave what they have minted when the pool refuses it;
  `anrc20_mint` changes the registry without making a block due when the account
  refuses; `anrc20_transfer` moves assets before it looks at the registry; the symbol
  WANET can be registered as a token.  After a restart asset balances are gone and
  DEX debits are forgotten, while the pools are as the last block has them.  The
  nonces of signed DEX actions are not recorded.
- Validators: from a restart to the first periodic sync the persisted accounts of
  bootstrap seats are chosen as organic ones, though `state.rs` 442 says that a
  quorum retires every bootstrap seat at once.  `main.rs` 138 speaks of 2,100 organic validators where the
  quorum is 21.  Sessions never fall, so a wallet that is banned, flagged or deleted
  keeps its seat.
- Submissions: a crash or disconnect between upsert and record uses the nonce and
  loses the proof.  A lower nonce that was never used is refused, where the guide
  asks for one not used before.  Of two heartbeats in flight the older can be
  recorded last.  Proofs past the cutoff still count as work: they make one block
  that lists none of them.
- Payouts: when answers are lost until the last retry, the item ends as `failed`
  although it was paid.  A crash between the two files forgets what the hour and the
  day have paid, and the caps are exceeded.  A torn file stops the worker until
  somebody repairs it.  `executor-state.json` lies beside the program and is lost
  with an ephemeral file system.  `ALLOW_DRY_RUN` defaults to true, and the worker
  then reports hashes of transfers that were never made.

## Not modelled

- RPC pages, explorer, caches, chain events and TPoW statistics: read-only views and
  descriptive data without influence on what the node does.
- Cryptography (signatures, proof-of-work, address formats, EIP-712), the older block
  hash formats and the SQL of the Web2 ledger: functions, whose results the models
  distinguish where the control depends on them.
- Of payouts: the daily cap of a user, reserve ratio and eligibility are one condition,
  because they only hold an item back; dry runs and the operations report are left
  out, and so is the loss of the executor's file.
- Build, deployment and release documents.

What could still be added: a composition of `ChainStore` with `NodeLedger`, in which the
ledger's `Store` is the two statements of the store.
