----------------------------- MODULE BlockChain -----------------------------
(***************************************************************************)
(* The block index, the choice of the best chain and the synchronized      *)
(* checkpoint of one node: CBlock::AcceptBlock, AddToBlockIndex,           *)
(* SetBestChain, SetBestChainInner, ConnectBlock, DisconnectBlock,         *)
(* block_check::manage::Reorganize, the sync-checkpoint code that calls    *)
(* SetBestChain, and CTxDB::LoadBlockIndex after a crash.                  *)
(*                                                                         *)
(* Every handler runs under cs_main, so two handlers never interleave.     *)
(* What does happen between two steps of one handler is the end of the     *)
(* process: each LevelDB batch that is committed is one step, and Crash    *)
(* may come between any two of them.                                       *)
(*                                                                         *)
(* A block hash commits to the block's whole history, so its height, its   *)
(* chain trust and its ancestors are functions of the block.  dbTxIndex    *)
(* stands for the transaction index as the set of blocks whose             *)
(* transactions are applied to it.                                         *)
(***************************************************************************)
EXTENDS Naturals

CONSTANTS
    Block,            \* every block that may arrive
    Genesis,          \* block_params::hashGenesisBlock
    NoBlock,          \* the zero hash, a null CBlockIndex pointer
    Parent,           \* hashPrevBlock / pprev
    Anc,              \* a block and all its ancestors
    nHeight,          \* CBlockIndex::nHeight
    nChainTrust,      \* CBlockIndex::nChainTrust
    Valid,            \* blocks for which ConnectBlock succeeds on their parent's chain
    Hardened,         \* the blocks of Checkpoints::manage::mapCheckpoints
    CheckpointsMode,  \* -cppolicy
    MaxCrashes,       \* bound on crashes of the process
    MaxMessages       \* bound on signed checkpoint messages

(***************************************************************************)
(* The block tree: what hash links, heights and GetBlockTrust (at least 1  *)
(* for every target in range) give.                                        *)
(***************************************************************************)
ASSUME TreeAssumption ==
    /\ Genesis \in Block
    /\ NoBlock \notin Block
    /\ Parent \in [Block \ {Genesis} -> Block]
    /\ nHeight \in [Block -> Nat]
    /\ nChainTrust \in [Block -> Nat]
    /\ Anc \in [Block -> SUBSET Block]
    /\ Anc[Genesis] = {Genesis}
    /\ \A b \in Block \ {Genesis} :
          /\ Anc[b] = Anc[Parent[b]] \cup {b}
          /\ b \notin Anc[Parent[b]]
          /\ nHeight[b] = nHeight[Parent[b]] + 1

\* A block has finitely many ancestors, in a line: every set of them has a
\* first and a last one.
ASSUME AncestryAssumption ==
    \A b \in Block :
        /\ \A a \in Anc[b] :
              /\ Anc[a] \subseteq Anc[b]
              /\ a # b => nChainTrust[a] < nChainTrust[b] /\ nHeight[a] < nHeight[b]
        /\ \A S \in SUBSET Anc[b] : S # {} =>
              /\ \E first \in S : \A s \in S : first \in Anc[s]
              /\ \E last \in S : S \subseteq Anc[last]

ASSUME ParameterAssumption ==
    /\ Valid \subseteq Block
    /\ Genesis \in Valid
    /\ Hardened \subseteq Block
    /\ Genesis \in Hardened
    /\ \E c \in Hardened : \A d \in Hardened : nHeight[d] <= nHeight[c]
    /\ CheckpointsMode \in {"STRICT", "ADVISORY", "PERMISSIVE"}
    /\ MaxCrashes \in Nat
    /\ MaxMessages \in Nat

VARIABLES
    mapBlockIndex,          \* memory: the blocks in block_info::mapBlockIndex
    pnext,                  \* memory: CBlockIndex::pnext
    pindexBest,             \* memory: pindexBest, hashBestChain, nBestChainTrust
    hashSyncCheckpoint,     \* memory: the accepted synchronized checkpoint
    hashPendingCheckpoint,  \* memory: the checkpoint whose block is awaited
    dbIndex,                \* disk: the "blockindex" records
    dbHashNext,             \* disk: hashNext of those records
    dbHashBestChain,        \* disk: "hashBestChain"
    dbSyncCheckpoint,       \* disk: "hashSyncCheckpoint"
    dbTxIndex,              \* disk: the blocks applied to the "tx" records
    pc,                     \* the next step of the handler that holds cs_main
    pindexNew,              \* its block: SetBestChain's and WriteSyncCheckpoint's argument
    caller,                 \* who called SetBestChain
    vpindexSecondary,       \* SetBestChain's postponed blocks
    nCrashes,               \* crashes so far
    nMessages               \* checkpoint messages so far

memory  == <<mapBlockIndex, pnext, pindexBest, hashSyncCheckpoint, hashPendingCheckpoint>>
disk    == <<dbIndex, dbHashNext, dbHashBestChain, dbSyncCheckpoint, dbTxIndex>>
control == <<pc, pindexNew, caller, vpindexSecondary>>
bounds  == <<nCrashes, nMessages>>
vars    == <<memory, disk, control, bounds>>

MaybeBlock == Block \cup {NoBlock}

\* mapCheckpoints.rbegin(): the highest hardened checkpoint.
LastHardened == CHOOSE c \in Hardened : \A d \in Hardened : nHeight[d] <= nHeight[c]

PC == {"idle", "SetBestChain", "ConnectFurther", "NewBest",
       "AcceptPending", "WriteSyncCheckpoint", "down"}

TypeOK ==
    /\ mapBlockIndex \subseteq Block
    /\ pnext \in [Block -> MaybeBlock]
    /\ pindexBest \in MaybeBlock
    /\ hashSyncCheckpoint \in MaybeBlock
    /\ hashPendingCheckpoint \in MaybeBlock
    /\ dbIndex \subseteq Block
    /\ dbHashNext \in [Block -> MaybeBlock]
    /\ dbHashBestChain \in Block
    /\ dbSyncCheckpoint \in Block
    /\ dbTxIndex \subseteq Block
    /\ pc \in PC
    /\ pindexNew \in MaybeBlock
    /\ caller \in {"none", "AddToBlockIndex", "SyncCheckpoint"}
    /\ vpindexSecondary \subseteq Block
    /\ nCrashes \in 0 .. MaxCrashes
    /\ nMessages \in 0 .. MaxMessages

(***************************************************************************)
(* A new data directory: the genesis block is written, indexed, made the   *)
(* best chain and the first synchronized checkpoint.  SetBestChain writes  *)
(* only hashBestChain for it; dbTxIndex counts it as applied because       *)
(* nothing of it can be spent.  The checkpoint master key is new to the    *)
(* database, so ResetSyncCheckpoint waits for the last hardened checkpoint.*)
(***************************************************************************)
Init ==
    /\ mapBlockIndex = {Genesis}
    /\ pnext = [b \in Block |-> NoBlock]
    /\ pindexBest = Genesis
    /\ hashSyncCheckpoint = Genesis
    /\ hashPendingCheckpoint = IF LastHardened = Genesis THEN NoBlock ELSE LastHardened
    /\ dbIndex = {Genesis}
    /\ dbHashNext = [b \in Block |-> NoBlock]
    /\ dbHashBestChain = Genesis
    /\ dbSyncCheckpoint = Genesis
    /\ dbTxIndex = {Genesis}
    /\ pc = "idle"
    /\ pindexNew = NoBlock
    /\ caller = "none"
    /\ vpindexSecondary = {}
    /\ nCrashes = 0
    /\ nMessages = 0

-----------------------------------------------------------------------------
(***************************************************************************)
(* Reading the index.                                                      *)
(***************************************************************************)
IsInMainChain(b) == pnext[b] # NoBlock \/ b = pindexBest

\* At the height of a hardened checkpoint only that block passes.
CheckHardened(b) == \A c \in Hardened : nHeight[c] = nHeight[b] => c = b

\* Mutant of CheckSync: the height alone decides.
CheckSyncByHeight(b) == nHeight[b] > nHeight[hashSyncCheckpoint]

\* Only descendants of the checkpoint pass, or blocks below it already indexed.
CheckSync(b) ==
    LET sync == nHeight[hashSyncCheckpoint]
    IN  /\ nHeight[b] > sync => hashSyncCheckpoint \in Anc[Parent[b]]
        /\ nHeight[b] = sync => b = hashSyncCheckpoint
        /\ nHeight[b] < sync => b \in mapBlockIndex

\* Mutant of ValidateSyncCheckpoint: the branch is not compared.
ValidateByHeight(h) ==
    /\ {hashSyncCheckpoint, h} \subseteq mapBlockIndex
    /\ nHeight[h] > nHeight[hashSyncCheckpoint]

\* Only a descendant of the present checkpoint, higher than it, replaces it.
ValidateSyncCheckpoint(h) ==
    /\ {hashSyncCheckpoint, h} \subseteq mapBlockIndex
    /\ nHeight[h] > nHeight[hashSyncCheckpoint]
    /\ hashSyncCheckpoint \in Anc[h]

(***************************************************************************)
(* Connecting and disconnecting.  Against the transaction index of its own *)
(* parent's chain the outcome of ConnectBlock is a property of the block;  *)
(* against any other index it depends on which outputs happen to be there, *)
(* so both outcomes are possible.                                          *)
(***************************************************************************)
ConnectBlock(b) ==
    IF dbTxIndex = Anc[Parent[b]] THEN {b \in Valid} ELSE BOOLEAN

\* What Reorganize disconnects and connects, below and above the fork.
Disconnect(b) == Anc[pindexBest] \ Anc[b]
Connect(b)    == Anc[b] \ Anc[pindexBest]

Reorganize(b) ==
    IF dbTxIndex = Anc[pindexBest] THEN {Connect(b) \subseteq Valid} ELSE BOOLEAN

\* The child a set of blocks gives to b, NoBlock if none.
ChildIn(S, b) ==
    IF \E c \in S \ {Genesis} : Parent[c] = b
    THEN CHOOSE c \in S \ {Genesis} : Parent[c] = b
    ELSE NoBlock

\* Mutant of Relink: the links of disconnected blocks stay.
RelinkKeepsOld(next, D, C) ==
    [b \in Block |-> IF ChildIn(C, b) # NoBlock THEN ChildIn(C, b) ELSE next[b]]

\* pnext after the blocks of D are disconnected and those of C connected.
Relink(next, D, C) ==
    [b \in Block |->
        IF ChildIn(C, b) # NoBlock THEN ChildIn(C, b)
        ELSE IF ChildIn(D, b) # NoBlock THEN NoBlock
        ELSE next[b]]

\* Mutant of RelinkDb: DisconnectBlock does not clear hashNext.
RelinkDbKeepsOld(D, C) == RelinkKeepsOld(dbHashNext, D, C)

\* hashNext after the same batch: DisconnectBlock clears the parent's, then
\* ConnectBlock writes the block's own record (with pnext) and its parent's.
RelinkDb(D, C) ==
    Relink([b \in Block |-> IF b \in C THEN pnext[b] ELSE dbHashNext[b]], D, C)

\* Mutants of Commit: pnext is not updated after the commit; the transactions
\* of disconnected blocks stay applied.
CommitForgetsLinks(b, D, C) ==
    /\ dbTxIndex' = (dbTxIndex \ D) \cup C
    /\ dbHashNext' = RelinkDb(D, C)
    /\ dbHashBestChain' = b
    /\ UNCHANGED <<pnext, dbIndex, dbSyncCheckpoint>>

CommitKeepsDisconnected(b, D, C) ==
    /\ dbTxIndex' = dbTxIndex \cup C
    /\ dbHashNext' = RelinkDb(D, C)
    /\ dbHashBestChain' = b
    /\ pnext' = Relink(pnext, D, C)
    /\ UNCHANGED <<dbIndex, dbSyncCheckpoint>>

\* The batch of one committed (dis)connection that makes b the best block on disk.
Commit(b, D, C) ==
    /\ dbTxIndex' = (dbTxIndex \ D) \cup C
    /\ dbHashNext' = RelinkDb(D, C)
    /\ dbHashBestChain' = b
    /\ pnext' = Relink(pnext, D, C)
    /\ UNCHANGED <<dbIndex, dbSyncCheckpoint>>

(***************************************************************************)
(* The blocks SetBestChain postpones: those whose parent already has more  *)
(* trust than the best block; the last block that is left is reorganised   *)
(* to, in a single batch.                                                  *)
(***************************************************************************)
Secondary(b) ==
    {x \in Anc[b] \ {Genesis} : nChainTrust[Parent[x]] > nChainTrust[pindexBest]}

Intermediate(b) ==
    CHOOSE x \in Anc[b] \ Secondary(b) : Anc[b] \ Secondary(b) = Anc[x]

\* Mutant of Return: the checkpoint's block is forgotten.
ReturnForgetsBlock(ok) ==
    /\ pc' = CASE ~ok -> "idle"
               [] ok /\ caller = "AddToBlockIndex" -> "AcceptPending"
               [] OTHER -> "WriteSyncCheckpoint"
    /\ caller' = "none"
    /\ pindexNew' = NoBlock
    /\ vpindexSecondary' = {}

\* SetBestChain is left: AddToBlockIndex goes on to AcceptPendingSyncCheckpoint
\* or fails the block; the checkpoint code writes the checkpoint or gives up.
Return(ok) ==
    /\ pc' = CASE ~ok -> "idle"
               [] ok /\ caller = "AddToBlockIndex" -> "AcceptPending"
               [] OTHER -> "WriteSyncCheckpoint"
    /\ caller' = "none"
    /\ pindexNew' = IF ok /\ caller = "SyncCheckpoint" THEN pindexNew ELSE NoBlock
    /\ vpindexSecondary' = {}

-----------------------------------------------------------------------------
\* Mutants of IsNewBest: off by one, either way.
IsClearlyBest(b) == nChainTrust[b] > nChainTrust[pindexBest] + 1

IsAsGood(b) == nChainTrust[b] >= nChainTrust[pindexBest]

\* AddToBlockIndex: the first block seen wins a tie.
IsNewBest(b) == nChainTrust[b] > nChainTrust[pindexBest]

\* AddToBlockIndex: the block is indexed in memory and, in a batch of its own,
\* on disk; then it may become the best chain.
AddToBlockIndex(b) ==
    /\ b \notin mapBlockIndex
    /\ mapBlockIndex' = mapBlockIndex \cup {b}
    /\ dbIndex' = dbIndex \cup {b}
    /\ IF IsNewBest(b)
       THEN pc' = "SetBestChain" /\ pindexNew' = b /\ caller' = "AddToBlockIndex"
       ELSE pc' = "AcceptPending" /\ UNCHANGED <<pindexNew, caller>>
    /\ UNCHANGED <<pnext, pindexBest, dbHashNext, dbHashBestChain, dbTxIndex>>

\* AcceptBlock, up to the call of SetBestChain or to its last part.
AcceptBlock(b) ==
    /\ pc = "idle"
    /\ Parent[b] \in mapBlockIndex
    /\ CheckHardened(b)
    /\ CheckpointsMode = "STRICT" => CheckSync(b)
    /\ AddToBlockIndex(b)
    /\ UNCHANGED <<hashSyncCheckpoint, hashPendingCheckpoint, dbSyncCheckpoint,
                   vpindexSecondary, bounds>>

\* SetBestChain, the block extends the best chain: SetBestChainInner.
ExtendBestChain ==
    /\ pc = "SetBestChain"
    /\ Parent[pindexNew] = pindexBest
    /\ \E ok \in ConnectBlock(pindexNew) :
          IF ok
          THEN /\ Commit(pindexNew, {}, {pindexNew})
               /\ pc' = "NewBest"
               /\ UNCHANGED <<pindexNew, caller, vpindexSecondary>>
          ELSE /\ Return(FALSE)
               /\ UNCHANGED <<disk, pnext>>
    /\ UNCHANGED <<mapBlockIndex, pindexBest, hashSyncCheckpoint,
                   hashPendingCheckpoint, bounds>>

\* SetBestChain, the block is on another branch: Reorganize to the first block
\* with more trust than the best one, in one batch; on failure the batch is
\* aborted and nothing has changed.
SwitchBranch ==
    /\ pc = "SetBestChain"
    /\ Parent[pindexNew] # pindexBest
    /\ LET b == Intermediate(pindexNew) IN
       \E ok \in Reorganize(b) :
          IF ok
          THEN /\ Commit(b, Disconnect(b), Connect(b))
               /\ pc' = IF Secondary(pindexNew) = {} THEN "NewBest" ELSE "ConnectFurther"
               /\ vpindexSecondary' = Secondary(pindexNew)
               /\ UNCHANGED <<pindexNew, caller>>
          ELSE /\ Return(FALSE)
               /\ UNCHANGED <<disk, pnext>>
    /\ UNCHANGED <<mapBlockIndex, pindexBest, hashSyncCheckpoint,
                   hashPendingCheckpoint, bounds>>

\* The lowest postponed block.
NextSecondary ==
    CHOOSE x \in vpindexSecondary : Parent[x] \notin vpindexSecondary

\* SetBestChain's loop over the postponed blocks, each in a batch of its own:
\* "errors now are not fatal", a failure only ends the loop.
ConnectFurther ==
    /\ pc = "ConnectFurther"
    /\ LET x == NextSecondary IN
       \E ok \in ConnectBlock(x) :
          IF ok
          THEN /\ Commit(x, {}, {x})
               /\ vpindexSecondary' = vpindexSecondary \ {x}
               /\ pc' = IF vpindexSecondary = {x} THEN "NewBest" ELSE pc
          ELSE /\ pc' = "NewBest"
               /\ vpindexSecondary' = {}
               /\ UNCHANGED <<disk, pnext>>
    /\ UNCHANGED <<mapBlockIndex, pindexBest, hashSyncCheckpoint,
                   hashPendingCheckpoint, pindexNew, caller, bounds>>

\* SetBestChain's last part: the block it was called for is the best block.
NewBest ==
    /\ pc = "NewBest"
    /\ pindexBest' = pindexNew
    /\ Return(TRUE)
    /\ UNCHANGED <<mapBlockIndex, pnext, hashSyncCheckpoint,
                   hashPendingCheckpoint, disk, bounds>>

(***************************************************************************)
(* The checkpoint h is valid: make its block part of the best chain if it  *)
(* is not, then write it.                                                  *)
(***************************************************************************)
Enforce(h) ==
    /\ pindexNew' = h
    /\ IF IsInMainChain(h)
       THEN pc' = "WriteSyncCheckpoint" /\ caller' = "none"
       ELSE pc' = "SetBestChain" /\ caller' = "SyncCheckpoint"

\* AcceptPendingSyncCheckpoint, at the end of every accepted block.
AcceptPendingSyncCheckpoint ==
    /\ pc = "AcceptPending"
    /\ IF hashPendingCheckpoint \in mapBlockIndex
       THEN IF ValidateSyncCheckpoint(hashPendingCheckpoint)
            THEN /\ Enforce(hashPendingCheckpoint)
                 /\ UNCHANGED hashPendingCheckpoint
            ELSE /\ pc' = "idle"
                 /\ hashPendingCheckpoint' = NoBlock
                 /\ UNCHANGED <<pindexNew, caller>>
       ELSE /\ pc' = "idle"
            /\ UNCHANGED <<hashPendingCheckpoint, pindexNew, caller>>
    /\ UNCHANGED <<mapBlockIndex, pnext, pindexBest, hashSyncCheckpoint, disk,
                   vpindexSecondary, bounds>>

\* ProcessSyncCheckpoint on a message with the master's signature.
ProcessSyncCheckpoint(h) ==
    /\ pc = "idle"
    /\ nMessages < MaxMessages
    /\ nMessages' = nMessages + 1
    /\ \/ /\ h \notin mapBlockIndex
          /\ hashPendingCheckpoint' = h
          /\ UNCHANGED <<pc, pindexNew, caller>>
       \/ /\ ValidateSyncCheckpoint(h)
          /\ Enforce(h)
          /\ UNCHANGED hashPendingCheckpoint
    /\ UNCHANGED <<mapBlockIndex, pnext, pindexBest, hashSyncCheckpoint, disk,
                   vpindexSecondary, nCrashes>>

\* WriteSyncCheckpoint and the end of its callers.
WriteSyncCheckpoint ==
    /\ pc = "WriteSyncCheckpoint"
    /\ dbSyncCheckpoint' = pindexNew
    /\ hashSyncCheckpoint' = pindexNew
    /\ hashPendingCheckpoint' = NoBlock
    /\ pc' = "idle"
    /\ pindexNew' = NoBlock
    /\ UNCHANGED <<mapBlockIndex, pnext, pindexBest, dbIndex, dbHashNext,
                   dbHashBestChain, dbTxIndex, caller, vpindexSecondary, bounds>>

(***************************************************************************)
(* The process ends, between any two commits; memory and the handler are   *)
(* gone.  LoadBlockIndex builds memory from what is on disk.               *)
(***************************************************************************)
Crash ==
    /\ pc # "down"
    /\ nCrashes < MaxCrashes
    /\ nCrashes' = nCrashes + 1
    /\ pc' = "down"
    /\ mapBlockIndex' = {}
    /\ pnext' = [b \in Block |-> NoBlock]
    /\ pindexBest' = NoBlock
    /\ hashSyncCheckpoint' = NoBlock
    /\ hashPendingCheckpoint' = NoBlock
    /\ pindexNew' = NoBlock
    /\ caller' = "none"
    /\ vpindexSecondary' = {}
    /\ UNCHANGED <<disk, nMessages>>

LoadBlockIndex ==
    /\ pc = "down"
    /\ pc' = "idle"
    /\ mapBlockIndex' = dbIndex
    /\ pnext' = dbHashNext
    /\ pindexBest' = dbHashBestChain
    /\ hashSyncCheckpoint' = dbSyncCheckpoint
    /\ UNCHANGED <<hashPendingCheckpoint, disk, pindexNew, caller,
                   vpindexSecondary, bounds>>

Next ==
    \/ \E b \in Block \ {Genesis} : AcceptBlock(b)
    \/ ExtendBestChain
    \/ SwitchBranch
    \/ ConnectFurther
    \/ NewBest
    \/ AcceptPendingSyncCheckpoint
    \/ \E h \in Block : ProcessSyncCheckpoint(h)
    \/ WriteSyncCheckpoint
    \/ Crash
    \/ LoadBlockIndex

Spec == Init /\ [][Next]_vars

\* SetBestChain reaches its last part only when its last postponed block is
\* committed: the one step that can part memory from disk does not happen.
NoPostponedFailure ==
    [][pc = "ConnectFurther" /\ pc' = "NewBest" => dbHashBestChain' = pindexNew]_vars

-----------------------------------------------------------------------------
(***************************************************************************)
(* Properties.                                                             *)
(***************************************************************************)

\* Whenever SetBestChain is not at work, what the node believes in memory
\* (index, best block, main-chain links, checkpoint) is what the database
\* says.  Reorganize: "Make sure it's successfully written to disk before
\* changing memory structure".
MemoryFollowsDisk ==
    pc \in {"idle", "AcceptPending", "WriteSyncCheckpoint"} =>
        /\ mapBlockIndex = dbIndex
        /\ pindexBest = dbHashBestChain
        /\ pnext = dbHashNext
        /\ hashSyncCheckpoint = dbSyncCheckpoint

\* At every instant, also between two batches and while the process is down,
\* the transaction index holds exactly the transactions of the chain that
\* hashBestChain names: no block is half applied, none is left behind by a
\* reorganisation and none is missing.
TxIndexIsBestChain == dbTxIndex = Anc[dbHashBestChain]

\* The hashNext links on disk are exactly the links of that chain, so that
\* LoadBlockIndex, GetBlockIndex of a locator and getblocks follow one path.
HashNextIsBestChain ==
    \A b \in Block : dbHashNext[b] = ChildIn(Anc[dbHashBestChain], b)

\* IsInMainChain, which reads pnext and pindexBest only, tells the blocks of
\* the best chain from all others: wallet depths and locators rely on it.
MainChainFlagIsExact ==
    pc = "idle" =>
        \A b \in mapBlockIndex : IsInMainChain(b) <=> b \in Anc[pindexBest]

\* With -cppolicy=strict the best chain, in memory and on disk, never leaves
\* the synchronized checkpoint, whatever blocks were indexed before the
\* checkpoint arrived and wherever the process was stopped.
CheckpointOnBestChain ==
    CheckpointsMode = "STRICT" =>
        /\ dbSyncCheckpoint \in Anc[dbHashBestChain]
        /\ pc # "down" => hashSyncCheckpoint \in Anc[pindexBest]

\* Without crashes and checkpoints: no indexed chain whose every block connects
\* has more trust than the best chain, although blocks that fail to connect
\* stay in the index and their descendants keep arriving.
BestIsMostTrusted ==
    pc = "idle" =>
        \A b \in mapBlockIndex :
            Anc[b] \subseteq Valid => nChainTrust[b] <= nChainTrust[pindexBest]

\* Unless a checkpoint forces another branch, the chain on disk changes only to
\* one with more trust: a block with as much as the best chain does not displace
\* it, and the intermediate block of a reorganisation has more than the chain
\* that is left, so that a crash before the postponed blocks are connected
\* costs nothing.
TrustLostOnlyToCheckpoint ==
    [][\/ dbHashBestChain' = dbHashBestChain
       \/ nChainTrust[dbHashBestChain'] > nChainTrust[dbHashBestChain]
       \/ caller = "SyncCheckpoint"]_vars

\* The database as a Ledger.
L == INSTANCE Ledger WITH known  <- dbIndex,
                          tip    <- dbHashBestChain,
                          final  <- dbSyncCheckpoint,
                          Strict <- CheckpointsMode = "STRICT"

\* The database implements Ledger: blocks are learnt parents first, the applied
\* chain jumps atomically from one fully valid, fully known chain to another
\* that keeps the checkpoint, and the checkpoint only moves forward along it.
ImplementsLedger == L!Spec
=============================================================================
