# TLA+ specifications of SorachanCoin-qt

SorachanCoin is a Bitcoin/PPCoin/Novacoin descendant: a full node with a hybrid
proof-of-work and proof-of-stake block chain, centrally signed *synchronized
checkpoints*, a wallet and a Qt interface. This directory holds the
specifications of its core, the TLC models that check them, and TLAPS proofs of
the most important results.

## 1. Inventory

Paths are relative to the repository's `src/` directory.

| Component | State | Operations | Talks to |
|---|---|---|---|
| Block index and best chain (`block/block.cpp`, `block/block_check.cpp`, `block/block_info.cpp`) | `mapBlockIndex`, `pnext` links, `pindexBest`/`hashBestChain`/`nBestChainTrust`; on disk block index records with `hashNext`, `hashBestChain`, the transaction index | `AcceptBlock`, `AddToBlockIndex`, `SetBestChain`, `SetBestChainInner`, `Reorganize`, `ConnectBlock`, `DisconnectBlock` | database batches, checkpoints, script queue, pool, wallets |
| Synchronized checkpoints (`checkpoints.cpp`) | `hashSyncCheckpoint` (memory and disk), `hashPendingCheckpoint`, `mapCheckpoints` | `CheckHardened`, `CheckSync`, `ValidateSyncCheckpoint`, `ProcessSyncCheckpoint`, `AcceptPendingSyncCheckpoint`, `WriteSyncCheckpoint`, `ResetSyncCheckpoint` | calls `SetBestChain`; is called at the end of `AcceptBlock` |
| Block database (`txdb-leveldb.cpp`, `db.cpp`, `main.cpp`) | LevelDB, one active batch per handle | `TxnBegin`, `TxnCommit`, `TxnAbort`, `LoadBlockIndex` | everything persistent but the wallet |
| Script check queue (`checkqueue.h`) | `queue`, `nIdle`, `nTotal`, `nTodo`, `fAllOk`, `fQuit`, three condition variables | `Thread`, `Wait`, `Add`, `Quit`, the control object | the thread in `ConnectBlock`, worker threads, `StopNode` |
| Orphan blocks (`block/block_process.cpp`) | `mapOrphanBlocks`, `mapOrphanBlocksByPrev`, `setStakeSeen`, `setStakeSeenOrphan` | `ProcessBlock`, `WantedByOrphan`, `GetOrphanRoot` | `AcceptBlock`, checkpoints, peers |
| Shutdown (`init.cpp`, `net.cpp`) | `fShutdown` | `boot::Shutdown`, `StopNode` | every thread |
| Transaction pool and orphans (`block/transaction.cpp`, `block/block_process.cpp`) | `mapTx`, `mapNextTx`, `mapOrphanTransactions`, `...ByPrev` | `accept`, `remove`, `AddOrphanTx`, `EraseOrphanTx`, `LimitOrphanTxSize` | `Reorganize`, the `tx` message |
| Download (`net.cpp`, `net.h`, `block/block_locator.cpp`) | `mapAskFor`, `mapAlreadyAskedFor`, `hashContinue`, inventories | `inv`, `getblocks`, `getdata`, `AskFor`, locators | orphan blocks, chain |
| Address manager (`addrman.cpp`, `db_addr.cpp`) | `mapInfo`, `vRandom`, `vvNew`, `vvTried`, `nNew`, `nTried`; `peers.dat` | `Add_`, `Good_`, `MakeTried`, `ShrinkNew`, `SwapRandom`, `DumpAddresses` | connections |
| Wallet (`wallet.cpp`, `walletdb.cpp`) | `mapWallet` with spent flags, `setKeyPool` | key pool reserve/keep/return, `AddToWallet`, `WalletUpdateSpent` | chain, miner, RPC |
| Proof of stake, difficulty, miner (`kernel.cpp`, `miner/diff.cpp`, `miner.cpp`) | none of its own but the stake modifier of each block | `ComputeNextStakeModifier`, retargets, `CreateNewBlock`, `CheckWork`, `CheckStake` | chain, key pool |
| Alerts (`alert.cpp`) | `mapAlerts` | `ProcessAlert` | warnings |
| Scripts, keys, RPC, Qt, vendored LevelDB, JSON, univalue | | | not modelled |

What is hard in this code:

* **Crashes between batches.** `SetBestChain` commits a reorganisation in one
  batch and each postponed block in another; the checkpoint is written in one
  more. Memory is changed only after each commit.
* **Failures in the middle.** A block of the new branch may fail to connect
  inside the big batch, or after it.
* **Order of arrival.** Blocks come children first, branches race, a
  checkpoint comes before or after its block, stakes are duplicated.
* **Threads.** Workers, master and the shutdown thread share seven fields and
  three condition variables; `fShutdown` is read outside the mutex.
* **Locks held while waiting.** `ConnectBlock` waits for scripts, and `StopNode`
  for the workers, both under `cs_main`.
* **Transactions over a switch of branches.** They leave the index and come back
  to the pool without their inputs being looked at, inside one uncommitted batch
  that later reads must see; orphans wait for parents that come in any order.
* **A download driven by hints.** Requests are filtered as duplicates, delayed
  for two minutes after somebody else was asked, or answered with a block that
  cannot be checked yet; no request is acknowledged.
* **Full tables.** Address buckets, orphan transactions and batches at their
  limits, where an insertion evicts something that other containers still name.

`PROJECT.json` lists these hazards at their lines, with the properties that
cover them or the reason why none does.

## 2. Modules

| Module | Models |
|---|---|
| `Ledger` | Abstract: known blocks, the applied chain and the checkpoint; three atomic steps. No code of its own. |
| `BlockChain` | Block index, best chain, checkpoints, database and crashes of one node. |
| `MCBlockChain` | Two block trees for TLC. |
| `BlockChain_proofs` | The proofs about `BlockChain`, including that it implements `Ledger`. |
| `CheckQueue`, `MCCheckQueue`, `CheckQueue_proofs` | The script check queue, its control object and shutdown. |
| `OrphanBlocks`, `MCOrphanBlocks`, `OrphanBlocks_proofs` | `ProcessBlock` and the holding area. |
| `FoldFacts` | Lemmas on counting and on folds over sequences, for the loops of the other modules. No code of its own. |
| `TxIndex`, `TxIndex_proofs` | Connecting and disconnecting transactions in the transaction index, through a LevelDB batch. Operators only. |
| `TxPool`, `MCTxPool`, `TxPool_proofs` | Composes `TxIndex` with the memory pool, orphan transactions, their users and the block assembler. |
| `AddrMan`, `MCAddrMan`, `AddrMan_proofs` | The address manager and `peers.dat`. |
| `BlockSync`, `MCBlockSync`, `BlockSync_proofs` | A node and a peer: `getblocks`, `inv`, `getdata`, `block` and the retries. |

`BlockChain` says which branch is connected and when, and treats a block as a
whole; `TxIndex` and `TxPool` say what connecting does to single transactions,
and leave the choice of the branch open. `OrphanBlocks` has trees of blocks and
one message at a time; `BlockSync` has one line of blocks and the conversation
that brings them.

Definitions named "Mutant of ..." in comments are plausible bugs of the
definition below them; no specification uses them. Each property was seen to
fail when its mutant is put in.

### BlockChain

Memory and disk are separate variables: `mapBlockIndex`, `pnext`, `pindexBest`,
`hashSyncCheckpoint`, `hashPendingCheckpoint` against `dbIndex`, `dbHashNext`,
`dbHashBestChain`, `dbSyncCheckpoint`, `dbTxIndex`. All handlers run under
`cs_main`, so that one control state (`pc`, `pindexNew`, `caller`,
`vpindexSecondary`) is enough; what can come between two steps of a handler is
only `Crash`. One committed batch is one step, together with the memory changes
the code makes right after it: they are lost in a crash anyway.

| Action | Code |
|---|---|
| `AcceptBlock` (`AddToBlockIndex`) | checks against checkpoints, index in memory and on disk, the comparison of trust |
| `ExtendBestChain` | `SetBestChain` for a child of the best block, `SetBestChainInner` |
| `SwitchBranch` | `SetBestChain` for another branch: which blocks are postponed, `Reorganize` in one batch, abort on failure |
| `ConnectFurther` | the loop over the postponed blocks |
| `NewBest` | the assignments at the end of `SetBestChain`, return to the caller |
| `AcceptPendingSyncCheckpoint`, `ProcessSyncCheckpoint`, `WriteSyncCheckpoint` | the functions of that name |
| `Crash`, `LoadBlockIndex` | end of the process at any point; the index is read back |

Abstractions: a block hash commits to its history, so height, trust and
ancestors are constants of the block. Whether `ConnectBlock` succeeds on the
index of the parent's chain is a constant of the block too (`Valid`); on any
other index, which only the failure of section 4 produces, both outcomes are
possible. `dbTxIndex` is the set of blocks applied to the transaction index.
Trust is assumed to grow by at least one per block, as `GetBlockTrust` does.

### CheckQueue

A critical section of the queue's mutex is one step, up to the next wait; a
batch is run in one step without it. Each thread is `new`, `wait` (asleep),
`woken`, `work`, `relock` (batch run, not counted), `gone`, and for the master
`out` (not in `ConnectBlock`), `adding`, `aborted` (the assertion failed).
`notify_one` wakes any sleeper, and any sleeper may wake up by itself. The
vector of checks is a set and a batch any subset of the size the code computes:
this includes the LIFO order of the code.

### OrphanBlocks

A step is one block through `ProcessBlock` up to the work queue, then one orphan
per step (`ProcessOrphan`) and the end of one round (`NextInQueue`). These steps
cannot interleave with another message (`cs_main`), and the properties speak of
the states between messages. `AcceptBlock` has three outcomes here: refused,
indexed but failed, accepted. `BlockChain` says when which one happens.

### TxIndex and TxPool

`txindex` maps a transaction to its block and, per output, to its spender. A
batch is a record of what it puts and deletes; `HasTxIndex` and `ReadTxIndex`
look into it first, as `ReadNormal` does with `ScanBatch`. `ConnectTx` follows
`FetchInputs` and `ConnectInputs` over `mapQueuedChanges`, `Switch` is the batch
of `Reorganize`. Values, fees and signatures are properties of a transaction
(`LowFee`, `BadScript`, `NonStandard`), a position on disk is block and
transaction. The loops of the code are folds: over the transactions of a block
(`QueuedChanges`, `DisconnectBlock`, `DeleteBlock`, `ResurrectBlock`) and over
the blocks of a branch (`DisconnectAll`, `ConnectAll`, `vResurrect`, `vDelete`).
`NoCircleAssumption` says what hashes make sure of: links to parents lead back
to the genesis block. `CoinBaseAssumption` is the rule of `AcceptBlock` that a
coinbase begins with the height of its block; blocks of two branches may have the
same one. `SetBestChain` makes the genesis block the best one without
connecting it, so the index begins empty and the genesis coinbase is in no
record.

The reference definitions know neither batches nor an order of work. A place is
a block and a position in it; a chain is valid when the transaction at each
place `Fits` after those before it (`ValidChain`), and `IndexOf` a set of places
says for each transaction there where it is and who spends it.

| Action | Code |
|---|---|
| `ReceiveTx`, `VisitOrphan`, `NextWork`, `EraseOrphans` | the `tx` message: the transaction, each orphan, the next element of the work queue, the end |
| `SendTx` | `sendrawtransaction`, `CommitTransaction` |
| `DialogCheck`, `DialogInsert` | the multisig dialog, which calls `accept` without `cs_main` |
| `SetBestChainInner`, `Reorganize` | a block or a branch is connected, with its effect on the pool |
| `Restart` | memory is lost, `ReacceptWalletTransactions` |

`CreateNewBlock` has no step of its own: it changes nothing, and
`AssembledBlockConnects` evaluates it in every state. The `tx` handler takes
several steps only because the dialog may come in between; a block that fails is
no step, since its batch is aborted.

### AddrMan

`addrman` is one record with the members of `CAddrMan`; everything runs under
its lock, so an operation is one step. Buckets are sets, and the hash functions
that choose a bucket are constants. Times are left out: which entry of a full
bucket goes is any of them. `Save` and `Load` are the two halves of the
serialization, with the numbering of entries they do.

`peers` is the file `peers.dat`, written as a whole every ten minutes and at a
shutdown (`DumpAddresses`, which may fail), and `fOld` says that there is a
`peers.dat.v1.old`: whoever makes a `CAddrDB`, to read or to write, renames the
first `peers.dat` away. `Restart` may come at any time and loads the file it
finds, which after a crash is older than the manager was; `RestartRecreating`
finds it unreadable.

### BlockSync

The peer has blocks `1..top`; the node has `1..pindexBest` and orphans above. A
connection delivers in order. Time enters as `retry` (to be asked for two
minutes later), `fLastUpdate` (less than ten seconds since the last new block,
for `IsInitialBlockDownload`) and `CheckProofOfStake`: a stake can be checked
only if the coin it spends, `nStakeMinAge` blocks down, is in the node's chain.
`IsInitialBlockDownload` is the set of what the function may return: true below
the last hardened checkpoint (`GetTotalBlocksEstimate`), above it false, or true
while `fLastUpdate` if the best block is more than a day old. `SendMessages`
calls it in every pass, so that its static variables follow `pindexBest`.
`MuteInv` is another peer that is asked first and never answers.

## 3. Runs

Deadlock is not checked in any run: the trees are finite and each block is
indexed once, and the queue stops after a shutdown.

| Run | Bounds | Shows |
|---|---|---|
| `ChainCrash` | 8 blocks, 3 branches, hardened checkpoint pending from the start, 2 checkpoint messages, 2 crashes, all blocks connect; 20623 states | consistency of memory, index, links and checkpoint; only more trust or a checkpoint displaces the best chain; `Ledger` is implemented |
| `ChainInvalid` | 9 blocks of equal trust, 3 branches, 2 blocks that do not connect, no checkpoint or crash; 185 states | an aborted batch leaves memory and database in agreement; the best chain is a most trusted one that connects |
| `ChainPostponed` | the first tree with one bad block and one message | **violation**, see section 4 |
| `QueueWorkers` | 2 workers, 4 checks (1 bad), batches of up to 2, 2 blocks, shutdown only between blocks; 89424 states | counters, verdicts, the assertion, and that `Wait` and `Quit` return |
| `QueueShutdown` | 2 checks, shutdown at any time | **violation** |
| `OrphanOrder` | 8 blocks, 2 with one stake on different branches, 1 that may be refused, 1 with any outcome, any checkpoint pending; 11147 states | the holding area and its stakes stay consistent, order of arrival does not matter, requests are for missing blocks and their answers are let in |
| `OrphanStuck` | the same tree | **violation** |
| `PoolReorg` | 21 transactions, 10 blocks, 4 branches of which 1 block is invalid, 2 orphans at most, 2 transactions in the wallet, 1 in the dialog, blocks assembled from up to 2 transactions (`MaxOrder`); 23181 states | see below |
| `PoolConnects` | the same without wallet and dialog | **violation** |
| `AddrTables` | 4 routable services (2 with one IP, 2 symmetric) and 1 that is not, 2 sources, 2 new buckets and 1 tried bucket of 1, at most 3 entries created (`MaxId`), dumps of 1 or 2 entries (`DumpAt`); 463400 states | `Check_` finds no fault, before and after restarts with a file of any age; sizes; `peers.dat` gives back what was written; what may be forgotten |
| `SyncCatchUp` | 5 blocks at first and 4 more, batches of 3, stake age 2, checkpoint at 3, 2 announcements that are not answered; 29892 states | nothing announced is forgotten; the node catches up |
| `SyncStalls` | 5 blocks, only the first a proof of work, no new blocks | **violation** |

`PoolReorg` checks that after any sequence of blocks and switches the index is
that of the best chain (`IndexIsChain`, against the reference definition
`IndexOf`), that a switch succeeds exactly for the valid branches wherever the
node is (`SwitchDependsOnBranchOnly`, against `ValidChain`), that `mapNextTx` has
no dangling pointer, that the pool has no double spend and nothing of the chain,
that a switch loses no payment, that the two orphan maps agree within their
limit, that orphans follow their parents over generations, and that whatever is
assembled from the pool connects. The multisig dialog is excused from some of
them by name: it really can insert what was spent or mined in between.

Why the bounds are enough: the first tree has a branch whose first block
outweighs three of the other, so that a switch postpones blocks, checkpoints
force a switch to less trust, and a fork inside the branch makes links move
twice; two crashes reach a crash after a recovery. Two blocks are needed for a
result to leak from one into the next, two workers for them to race, at least four checks
for a batch of two. In the orphan tree there is a chain of
two orphans above a missing block, a fork and a duplicate stake on both sides.
In `AddrTables` a file of one or two entries is older than the tables, or equal
to them, and three addresses overflow all buckets before and after a restart;
that larger tables could be written and read back is evaluated in every state
(`ReloadFaithful`).
The transactions have conflicts on different branches, one transaction on two
branches, children and a grandchild with two parents, a coinbase that only one
branch has, and outputs created and spent one block apart; three orphans compete
for two places. Every address bucket overflows, and an evicted entry meets both
a full and a free new bucket. The download has three batches, a stake announced
too early, and orphans above a gap.

Fairness of `BlockSync`: both nodes handle their messages and run
`SendMessages`, time passes, and the network finds blocks (weak fairness of each
action); the mute peer does nothing for the node. New blocks after the first
arrive when the connection is quiet, since blocks are minutes apart. `CatchesUp`
holds when the last two blocks are proofs of work. It does not hold if they are
stakes: a stake announced while the node is far behind is refused and forgotten
once more, and the node waits for yet another block. That is a limit of the
protocol, and of what the run can say with finitely many blocks.

`CatchesUp` excepts one more case: another peer has announced a block and not
answered, and the node never reaches the last hardened checkpoint. There
`ProcessBlock` does not ask for the block that orphans wait for
(`block/block_process.cpp:1022`). A block that both
peers announced is asked for from this one only two minutes later, and those
above it have come by then. A stake
of them that could not be checked was refused, the peer does not announce it
again, and its successors are held for good. This takes batches of more blocks
than the age of a stake has, as in the program: 500 against 8 hours of blocks 3
to 6 minutes apart. So the instance has batches of 3 and an age of 2. With every
announcement answered the node catches up from the genesis block on, and above
the checkpoint it does in any case; without the exception TLC finds the stall.

Fairness of `CheckQueue`: every thread is scheduled, gets the mutex it waits
for and returns from a wait it was notified of (weak fairness per thread), and
`ConnectBlock` reaches `Wait` since a block has finitely many transactions.
Nothing is assumed about new blocks, about a shutdown, or about spurious
wake-ups: a notification that is lost is not repaired by luck.

## 4. Disagreements between code and comments

1. **Memory ahead of disk** (`ChainPostponed`, `block/block.cpp:406`). If a
   postponed block fails, the loop ends ("errors now are not fatal") and the
   block `SetBestChain` was called for still becomes `pindexBest`, while the
   database stays at the parent of the failed block. In the trace a checkpoint
   for an ancestor has made a branch the best one that was never connected
   further up.
2. **Shutdown waits for ever** (`QueueShutdown`, `checkqueue.h:159`). A thread
   sent out of `Loop` by `fShutdown` keeps its share of `nTotal` and `nTodo`.
   `Quit` then never sees zero, or the master never gets its notification; both
   hold `cs_main`.
3. **Orphans of a failed block** (`OrphanStuck`, `block/block_process.cpp:1029`).
   A block that is indexed and then fails releases nobody, and cannot come again.
4. **A pool that connects to nothing** (`PoolConnects`, `block/block_check.cpp:131`).
   A switch of branches resurrects transactions without their inputs, and keeps
   pool transactions whose parents conflict with the new branch or were
   coinbases of the old one. The block assembler says that this "should never
   happen", asserts it under `-debug`, and otherwise leaves a pointer to a
   destroyed `COrphan` in `mapDependers` (`miner.cpp:234`).
5. **A download that stops** (`SyncStalls`, `block/block_process.cpp:291`). The
   announcement that is to trigger the next `getblocks` names the last
   proof-of-work block. If the node has it, each batch triggers the same
   request, and `PushGetBlocks` drops the second one as a duplicate.

Seen while modelling, without a run of their own:

* The node that is stopped below the checkpoint by a peer that does not answer
  (section 3).
* `setStakeSeenOrphan` has one entry for all held blocks with the same stake and
  loses it with the first of them that is processed
  (`block/block_process.cpp:1044`). If that one is refused, a further block with
  the stake is held without an orphan child, against "Duplicate stake allowed
  only when there is orphan child block" (`block/block_process.cpp:1003`).
  `StakesFollowOrphans` excepts the stakes of refused blocks for this.
* An accepted orphan transaction is shown to the wallets as its parent:
  `SyncWithWallets(tx, ...)` instead of `orphanTx` (`block/block_process.cpp:423`).
* Orphan transactions are released by a `tx` message only, not by a block, the
  wallet or RPC; transactions of the pool that conflict with a connected block
  stay in the pool.
* `CreateNewBlock` does not enter the coinstake into `mapTestPool`, so that a
  pool transaction that spends the stake makes a block that does not connect;
  it reads `pindexBest` for `nBits` before it takes `cs_main`.
* `SelectTried` returns a position it has just swapped away, so that the entry
  evicted is not the one it has chosen (`addrman.cpp:143`).
* The constructor of `CAddrDB` renames `peers.dat` (`db_addr.cpp:15`): a crash
  between the first and the second dump loses the addresses at the next start.
* `ExistsNormal` does not see deletions of the active batch (`db.h:1124`); no
  caller runs it with one.
* The key pool: the key of an assembled coinbase returns to the pool at once,
  and `NewKeyPool` reuses the index of a key that is still reserved.

`NoOrphanLeftBehind` and `AsksForMissing` are stated for the blocks that cannot
fail this way, and `CountersAreExact` for executions without disagreement 2.

## 5. Proofs

All theorems hold for every value of the constants that the named assumptions of
the module allow, and TLC evaluates those assumptions in the runs. Each proof
finds an inductive invariant, shows that `Init` implies it and that every action
keeps it, one lemma per action, and reads the properties off it.

| Theorem | Of | States |
|---|---|---|
| `BlockChain_proofs` `TypeCorrect` | every behaviour | `TypeOK` |
| ... `MemoryIsDisk`, `DatabaseIsOneChain`, `LinksAreOneChain`, `MainChainFlag`, `CheckpointBinds` | `NoPostponedFailure` | `MemoryFollowsDisk`, `TxIndexIsBestChain`, `HashNextIsBestChain`, `MainChainFlagIsExact`, `CheckpointOnBestChain` |
| ... `BlockChainImplementsLedger` | `NoPostponedFailure` | `ImplementsLedger` |
| ... `TrustGrows` | every behaviour | `TrustLostOnlyToCheckpoint` |
| ... `MostTrustedChainWins` | `NoPostponedFailure`, `NoCheckpointOrCrash` | `BestIsMostTrusted` |
| `CheckQueue_proofs` `TypeCorrect`, `CountersExact`, `VerdictExact` | every behaviour | `TypeOK`, `CountersAreExact`, `VerdictIsExact` |
| ... `ControlAssertion` | `~ShutdownWhileConnecting` | `ControlFindsQueueIdle` |
| `OrphanBlocks_proofs` `TypeCorrect`, `HoldingAreaAgreement`, `StakesOfOrphans`, `QueueIsComplete`, `OrderIrrelevant`, `AsksOnlyForMissing`, `WantedBlocksGetIn` | every behaviour | `TypeOK`, `HoldingAreaAgrees`, `StakesFollowOrphans`, `NoOrphanLeftBehind`, `OrderDoesNotMatter`, `AsksForMissing`, `WantedIsLetIn` |
| `TxIndex_proofs` `SwitchMovesBranch` | every index and branch | which transactions a successful `Switch` leaves in the index |
| ... `SwitchIsExact` | the index of every valid chain, every branch | `Switch` succeeds exactly for valid branches and leaves `IndexOf` the new chain |
| `TxPool_proofs` `TypeCorrect`, `InPointsAreLive`, `NoDoubleSpend`, `PoolAndChainDisjoint`, `OrphanMapsAgreement`, `NoPaymentLost`, `OrphansAreReleased` | every behaviour | `TypeOK`, `NoDanglingInPoint`, `NoDoubleSpendInPool`, `NotInPoolAndChain`, `OrphanMapsAgree`, `SwitchLosesNothing`, `OrphansFollowParents` |
| ... `IndexIsExact`, `SwitchIsDecidedByBranch`, `AssembledBlocksConnect` | every behaviour | `IndexIsChain`, `SwitchDependsOnBranchOnly`, `AssembledBlockConnects` |
| ... `AnyAssembledBlockConnects` | every behaviour | `BlockConnects` for transactions of the pool in any number and order |
| `AddrMan_proofs` `CheckFindsNoFault`, `BucketsStayInBounds`, `ReloadIsFaithful`, `ForgetsOnlyForRoom` | every behaviour | `Consistent`, `BucketLimits`, `ReloadFaithful`, `ForgetsOnlyToMakeRoom` |
| `BlockSync_proofs` `TypeCorrect`, `AnnouncedIsNotForgotten` | every behaviour | `TypeOK`, `NothingForgotten` |

### BlockChain

`NoPostponedFailure` says that the step of disagreement 1 is not taken. It is a
premise on the behaviour and not on the constants, so that blocks may fail
everywhere else. The assumptions are `TreeAssumption` (parents, heights,
ancestors), `AncestryAssumption` (ancestors form a finite line with growing
trust) and `ParameterAssumption`.

There are two inductive invariants. `Structure` holds of all behaviours: the
index is closed under parents, best block and checkpoint are indexed, memory has
the index and checkpoint of the database, and while blocks are postponed they
are exactly those between the best block on disk and `pindexNew`. From it
`TypeCorrect` follows, since `NextSecondary` and `Intermediate` choose blocks
only if there are some. `Consistent` adds that the transaction index and the
links are those of the chain on disk, that the chain is valid, at which control
states memory agrees, and that the chain under construction keeps the
checkpoint. The invariants of the runs are not inductive without it: in
`ConnectFurther` memory and disk disagree about the best block, and what makes
them agree again is the relation of the postponed blocks to the one on disk. Its
core lemmas are `RelinkLinks` (disconnecting one chain to the fork and connecting
another turns the links of one into those of the other), `LinksAreMembers` (one
link decides membership) and `IntermediateOnChain` (the loop over trusts stops
at an ancestor, with the postponed blocks above it).

The two theorems about trust need a third and a fourth. `Trusted` compares the
trust of the disk, of memory and of the block at work at each control state; it
needs `Structure` but not `Consistent`, so that `TrustGrows` also covers the
failure of postponed blocks: memory is then ahead of the disk, never behind.
Every switch without a checkpoint is to a chain with more trust, not only with
as much.
`MostTrusted` says that no indexed chain that connects, but for the one at work,
has more trust than the best one. It is false with checkpoints, which force a
branch, and after a crash between the batch that indexes a block and the one
that connects it; `NoCheckpointOrCrash` excludes exactly these.

### CheckQueue

For any finite set of threads and any checks. `IndInv` has four parts besides
the type and `VerdictIsExact`. `Batches`: no check is in two places. `Counters`:
`nIdle` is exact, `nTotal` and `nTodo` are at least what they count, and exact as
long as no thread was sent away by `fShutdown`; the inequalities are what keeps
the counters from going below zero after that. `Resting`: between blocks nothing is left
of the last one. `Results`: a false result has a bad check of this block as its
cause, and a bad check is waiting, being run or about to be reported as long as
`fAllOk` is true. `CountBatch` (a batch takes from `nTodo` what it took from the
queue) carries the counting.

### OrphanBlocks

`IndInv` says which pointers may dangle while the orphans of the first block of
the queue are processed (`Pointers`), that an orphan whose parent was accepted
is within reach of the work queue (`Reached`), and that a block once taken that
cannot be refused is indexed or held (`NotLost`). A held block was taken and is
not indexed (`Held`): so a stake that leaves `setStakeSeenOrphan` is that of a
block that is indexed now, or of one that was refused, and
`StakesFollowOrphans` is inductive. `OrderIrrelevant` follows by a
minimal counterexample: among the blocks of a line that are not indexed there is
one whose parent is (`NoCircleAssumption`); it is held, so its parent is in
the queue, which is empty between messages. `RootDefined` shows that the walk of
`GetOrphanRoot`, a recursive function, ends at one root for every tree. Its
parent is what the chain waits for, and since the root is in both maps the
parent has an orphan child: `WantedBlocksGetIn`.

### TxIndex and TxPool

The loops over the transactions of a block and over the blocks of a branch are
folds. The provers have no induction over data, but they have enough arithmetic
for `CountUp` (a set of numbers that has 0 and with each number the next one has
them all) by a least counterexample, and the lemma `FoldSteps` turns a fold into a series
of accumulators that `CountUp` applies to. `FoldFacts` has the operator as a
CONSTANT and is instantiated once per loop. `TxIndex_proofs` goes up from one
transaction over `QueuedChangesFacts`, `DisconnectBlockFacts` and
`ConnectAllFacts` to `SwitchMovesBranch`; `ChainIsPath` and `ForkOnBoth` give
`Chain`, a recursive function, and the fork their meaning by
`NoCircleAssumption`.

`IInv` of `TxPool_proofs`: the pool is `Linked` and `Exclusive` (each pool transaction
is what `mapNextTx` says of all it spends, unless the dialog spends it too);
pool and chain are disjoint; the orphan maps agree within the limit; and every
orphan that spends something the handler has accepted is `Settled`: to be
erased, lacking another input, or still to be visited. The last one is what
makes the work queue right over generations, and no run could state it for more
than the few orphans it has. `NoPaymentLost` is an action property: for each transaction
that a switch disconnects, the resurrection either takes it or finds a
conflicting one in the pool, and the deletion removes only what the chain has.

That the index is exact goes over sets of places. `Proper` sets are those where
each transaction and each spender of an output is unique and what is spent is
there; `ValidIsProper` shows that the places of a valid chain are proper. On the
index of a proper set a transaction connects exactly when it fits
(`ConnectsIffFits`), connecting it gives the index of the set with its place
(`SpendIndex`), and disconnecting it leads back (`UnspendIndex`). The BIP30 check
is not needed for this: a transaction that comes a second time finds its inputs
spent, and a coinbase names the height of its block (`CoinBaseIsNew`). The
views (`ViewRead`, `ViewUpdate`, `ViewErase`) say that a reader of a batch sees
what its commit would leave, which is what `ReadNormal` makes of deletions; with
them the two facts hold of blocks in a batch (`ConnectBlockView`,
`DisconnectBlockView`) and, from the best block to the fork and up again, of the
whole switch (`SwitchIsExact`). The invariant `ChainInv` adds to `IndexIsChain`
that the best chain is valid, without which a switch could fail on the way down.

For the block assembler, `Assembled` relates its map of records to the one
`ConnectBlock` would have behind the same transactions, one block higher and
with the coinstake in front: they `Agree` except on what the coinstake spends.
So what `CreateNewBlock` takes connects there as well. A transaction of the
dialog that was mined in the meantime is not taken, because the index has its
inputs as spent (`NotTwice`).

### BlockSync

`IInv` strengthens `TypeOK` in that all messages and queues name blocks the peer
has, which the later steps calculate with; `NothingForgotten` is inductive
together with it. `ConnectedFacts` and `OrphanRootFacts` show that the ends of a
run of orphans exist, `AnnounceAllFacts` that what is announced is exactly what
is new in `setInventoryKnown`. Fairness is not used.

### AddrMan

For any finite set of addresses and any number and size of buckets. What
`Check_` looks for (`Consistent`) is not inductive: it lets an address of
`mapAddr` lead to the entry of another one, a number stand twice in `vRandom`,
and a tried entry sit in a bucket its hash does not choose, and from each of
these an operation goes on to a fault. The inductive invariant `Ok` says that
`mapAddr` and `vRandom` are exact inverses of `mapInfo`, that the reference count
of an entry is the number of new buckets it is in, that a tried entry is in the
bucket of its address and in no other, and that `nNew` and `nTried` count. Two
parameters describe the states inside an operation: the entry that has one
reference more than places, and the entry that may have none. There is one lemma
per operation: `ShrinkNewOk`, `EvictOk`, `AddOk`, `GoodOk` and `GetAddrOk`, the
last by `FoldFacts` over the swaps of the shuffle.

`Save` renumbers the entries and `Load` puts them back. `RankFacts` shows that
counting the numbers below an entry is a bijection to `0..n-1`, `KeptAll` that
nothing is left out, and `ReloadedOk` and `ReloadedTable` that the reloaded
manager satisfies `Ok` and has the entries of the saved one in the same buckets.
The invariant `IInv` says of the file that loading it gives a manager in order
with the addresses that are written in it (`FileOk`); `SavedFileOk` shows it of
what a dump writes, and nothing that happens to the manager afterwards matters to
it. So `ForgetsOnlyForRoom` covers restarts with a file of any age: what the node
learned since is lost, and nothing else.

### Only model-checked

* Liveness, which is out of the provers' reach: `WaitReturns` and `QuitReturns`
  of `CheckQueue`, `CatchesUp` and `NextBatchFollows` of `BlockSync`.

All other properties of the passing runs are stated by theorems.

## 6. Not modelled

* In the modelled parts: wallet notification, money supply, the warnings
  (`nBestInvalidTrust`, `hashInvalidCheckpoint`), block files and read errors,
  the verification of old blocks at start-up, a write that LevelDB reports as
  failed, a power loss that drops unsynced batches, the first start being
  interrupted before the genesis block is complete, and the reset of the
  checkpoint when the master key of an old data directory changes.
* At a restart, `Reaccept` leaves out the supporting transactions that a wallet
  transaction carries (`vtxPrev`), which `AcceptWalletTransaction` offers to the
  pool before it.
* In the pool, the address manager and the download: amounts, fees and priorities, the limiter of free
  transactions, times and attempts of addresses, locators over forks,
  `getheaders`, `addr`, misbehaviour scores, and the limit of 1000 blocks a peer
  remembers as announced.
* The wallet but for its use of the pool, the stake kernel, the retarget of the
  difficulty, and the mining loops. They are sequential computations over
  amounts, hashes and the whole history.
* Cryptography, scripts, serialization, sockets, RPC, Qt and vendored code:
  sequential computation or input and output, with no state this kind of model
  would say something about.

The repository has 142000 lines, of which most are vendored (LevelDB, the hash
functions, `univalue`, JSON), script and key arithmetic, RPC and Qt. The mapped
lines are the stateful core.

## 7. Plan

1. `KeyPool`: reserve, keep and return with a crash, a drained pool and
   `NewKeyPool`; no key is given out twice.
2. Spent flags of the wallet over a switch of branches.
3. Locators over forks: the request finds the fork exactly.
