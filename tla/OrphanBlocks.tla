---------------------------- MODULE OrphanBlocks ----------------------------
(***************************************************************************)
(* block_process::manage::ProcessBlock: blocks come in any order, any      *)
(* number of times.  A block whose parent is not indexed is held in        *)
(* mapOrphanBlocks; when a block is accepted, a work queue takes what      *)
(* depends on it out of there.  A proof-of-stake block is refused when its *)
(* stake was seen before, unless a held block or a pending checkpoint      *)
(* waits for it.                                                           *)
(*                                                                         *)
(* AcceptBlock is BlockChain's; here it has one of three outcomes: the     *)
(* block is refused, or is indexed and fails (SetBestChain or the          *)
(* autocheckpoint returns false), or is accepted.  A block that fails      *)
(* CheckBlock, CheckProofOfStake or the minimum-work test changes nothing: *)
(* such a message is no step.                                              *)
(***************************************************************************)
EXTENDS Sequences, FiniteSets

CONSTANTS
    Block,      \* every block a peer may send, and the genesis block
    Genesis,
    NoBlock,    \* the zero hash
    Parent,     \* hashPrevBlock
    Stake,      \* GetProofOfStake of a proof-of-stake block
    NoStake,    \* a proof-of-work block has none
    Outcome     \* what AcceptBlock may make of a block

ASSUME OrphanAssumption ==
    /\ Genesis \in Block /\ NoBlock \notin Block
    /\ Parent \in [Block \ {Genesis} -> Block]
    /\ DOMAIN Stake = Block
    /\ Outcome \in [Block -> SUBSET {"refused", "indexed", "accepted"}]
    /\ \A b \in Block : Outcome[b] # {}

\* A block names its parent by its hash: there is no circle of blocks.
ASSUME NoCircleAssumption ==
    \A S \in SUBSET (Block \ {Genesis}) : S # {} => \E b \in S : Parent[b] \notin S

VARIABLES
    mapBlockIndex,          \* indexed blocks
    mapOrphanBlocks,        \* held blocks
    mapOrphanBlocksByPrev,  \* the same by parent: the blocks its pointers name
    setStakeSeen,           \* stakes of indexed blocks
    setStakeSeenOrphan,     \* stakes of held blocks
    hashPendingCheckpoint,  \* the checkpoint whose block is awaited
    vWorkQueue,             \* accepted blocks whose orphans are not processed yet
    asked,                  \* the blocks the last step asked a peer for directly
    taken                   \* blocks for which ProcessBlock has returned true

maps == <<mapBlockIndex, mapOrphanBlocks, mapOrphanBlocksByPrev,
          setStakeSeen, setStakeSeenOrphan>>
vars == <<maps, hashPendingCheckpoint, vWorkQueue, asked, taken>>

Stakes(B) == {Stake[b] : b \in B} \ {NoStake}

TypeOK ==
    /\ mapBlockIndex \subseteq Block
    /\ mapOrphanBlocks \subseteq Block \ {Genesis}
    /\ mapOrphanBlocksByPrev \subseteq Block \ {Genesis}
    /\ setStakeSeen \subseteq Stakes(Block)
    /\ setStakeSeenOrphan \subseteq Stakes(Block)
    /\ hashPendingCheckpoint \in Block \cup {NoBlock}
    /\ vWorkQueue \in Seq(Block)
    /\ asked \subseteq Block
    /\ taken \subseteq Block

Init ==
    /\ mapBlockIndex = {Genesis}
    /\ mapOrphanBlocks = {} /\ mapOrphanBlocksByPrev = {}
    /\ setStakeSeen = {} /\ setStakeSeenOrphan = {}
    /\ hashPendingCheckpoint = NoBlock
    /\ vWorkQueue = << >>
    /\ asked = {}
    /\ taken = {Genesis}

-----------------------------------------------------------------------------
HasOrphanChild(b) == \E o \in mapOrphanBlocksByPrev : Parent[o] = b

\* Work back to the first block in the orphan chain.
GetOrphanRoot[b \in Block \ {Genesis}] ==
    IF Parent[b] \in mapOrphanBlocks THEN GetOrphanRoot[Parent[b]] ELSE b

\* Mutant of WantedByOrphan: the first orphan itself.
WantsRoot(b) == GetOrphanRoot[b]

WantedByOrphan(b) == Parent[GetOrphanRoot[b]]

WantedByPendingSyncCheckpoint(b) ==
    /\ hashPendingCheckpoint # NoBlock
    /\ \/ b = hashPendingCheckpoint
       \/ /\ hashPendingCheckpoint \in mapOrphanBlocks
          /\ b = WantedByOrphan(hashPendingCheckpoint)

\* Mutant of StakeIsAllowed: a duplicate is refused, child or not.
StakeIsNew(b, seen) == Stake[b] \notin seen

\* "Duplicate stake allowed only when there is orphan child block"
StakeIsAllowed(b, seen) ==
    \/ Stake[b] \notin seen
    \/ HasOrphanChild(b)
    \/ WantedByPendingSyncCheckpoint(b)

\* Mutant of SeeStake: a proof-of-work block counts as well.
SeeAnyStake(b) == setStakeSeen \cup {Stake[b]}

\* Mutant of SeeStake: the stake of an indexed block is not remembered.
SeeNothing(b) == setStakeSeen

SeeStake(b) == setStakeSeen \cup Stakes({b})

\* AcceptBlock: the index, and AcceptPendingSyncCheckpoint at its end, which
\* is done with the pending checkpoint unless its SetBestChain fails.
AcceptBlock(b, outcome) ==
    IF outcome = "refused"
    THEN UNCHANGED <<mapBlockIndex, setStakeSeen, hashPendingCheckpoint>>
    ELSE /\ mapBlockIndex' = mapBlockIndex \cup {b}
         /\ setStakeSeen' = SeeStake(b)
         /\ \/ UNCHANGED hashPendingCheckpoint
            \/ /\ hashPendingCheckpoint \in mapBlockIndex'
               /\ hashPendingCheckpoint' = NoBlock

\* AskForPendingSyncCheckpoint: its block, if it is neither indexed nor held.
PendingWanted ==
    {hashPendingCheckpoint} \ (mapBlockIndex \cup mapOrphanBlocks \cup {NoBlock})

\* ProcessBlock is entered, under cs_main, with a block it does not know.
NewBlock(b) ==
    /\ vWorkQueue = << >>
    /\ b \notin mapBlockIndex \cup mapOrphanBlocks
    /\ StakeIsAllowed(b, setStakeSeen)

\* ProcessBlock, the parent is not indexed: "shunt it off to holding area until
\* we get it", and, outside the initial download, ask for what it waits for.
HoldOrphan(b) ==
    /\ NewBlock(b)
    /\ Parent[b] \notin mapBlockIndex
    /\ StakeIsAllowed(b, setStakeSeenOrphan)
    /\ setStakeSeenOrphan' = setStakeSeenOrphan \cup Stakes({b})
    /\ mapOrphanBlocks' = mapOrphanBlocks \cup {b}
    /\ mapOrphanBlocksByPrev' = mapOrphanBlocksByPrev \cup {b}
    /\ asked' \in {{}, PendingWanted \cup {WantedByOrphan(b)}}
    /\ taken' = taken \cup {b}
    /\ UNCHANGED <<mapBlockIndex, setStakeSeen, hashPendingCheckpoint, vWorkQueue>>

\* ProcessBlock, the parent is indexed.
ProcessBlock(b) ==
    /\ NewBlock(b)
    /\ Parent[b] \in mapBlockIndex
    /\ \E outcome \in Outcome[b] :
          /\ AcceptBlock(b, outcome)
          /\ IF outcome = "accepted"
             THEN vWorkQueue' = <<b>> /\ taken' = taken \cup {b}
             ELSE UNCHANGED <<vWorkQueue, taken>>
    /\ asked' \in {{}, PendingWanted}
    /\ UNCHANGED <<mapOrphanBlocks, mapOrphanBlocksByPrev, setStakeSeenOrphan>>

ForgetStake(o) == setStakeSeenOrphan \ Stakes({o})

\* Mutant of Enqueue: only the received block's own orphans are processed.
EnqueueNothing(o, outcome) == vWorkQueue

Enqueue(o, outcome) ==
    IF outcome = "accepted" THEN Append(vWorkQueue, o) ELSE vWorkQueue

\* "Recursively process any orphan blocks that depended on this one": one
\* orphan, accepted or not, leaves the holding area.
ProcessOrphan(o) ==
    /\ vWorkQueue # << >>
    /\ o \in mapOrphanBlocks /\ Parent[o] = Head(vWorkQueue)
    /\ \E outcome \in Outcome[o] :
          /\ AcceptBlock(o, outcome)
          /\ vWorkQueue' = Enqueue(o, outcome)
    /\ mapOrphanBlocks' = mapOrphanBlocks \ {o}
    /\ setStakeSeenOrphan' = ForgetStake(o)
    /\ asked' = {}
    /\ UNCHANGED <<mapOrphanBlocksByPrev, taken>>

\* Mutant of NextInQueue: the pointers to deleted blocks stay.
NextKeepsPointers ==
    /\ vWorkQueue # << >>
    /\ \A o \in mapOrphanBlocks : Parent[o] # Head(vWorkQueue)
    /\ vWorkQueue' = Tail(vWorkQueue)
    /\ asked' = {}
    /\ UNCHANGED <<maps, hashPendingCheckpoint, taken>>

\* mapOrphanBlocksByPrev.erase(hashPrev) at the end of each round.
NextInQueue ==
    /\ vWorkQueue # << >>
    /\ \A o \in mapOrphanBlocks : Parent[o] # Head(vWorkQueue)
    /\ mapOrphanBlocksByPrev' = {o \in mapOrphanBlocksByPrev : Parent[o] # Head(vWorkQueue)}
    /\ vWorkQueue' = Tail(vWorkQueue)
    /\ asked' = {}
    /\ UNCHANGED <<mapBlockIndex, mapOrphanBlocks, setStakeSeen, setStakeSeenOrphan,
                   hashPendingCheckpoint, taken>>

\* ProcessSyncCheckpoint for a block that is not indexed: ask for it, or for
\* what it waits for if it is held.
AwaitCheckpoint(h) ==
    /\ vWorkQueue = << >>
    /\ h \notin mapBlockIndex
    /\ hashPendingCheckpoint' = h
    /\ asked' = {IF h \in mapOrphanBlocks THEN WantedByOrphan(h) ELSE h}
    /\ UNCHANGED <<maps, vWorkQueue, taken>>

Next ==
    \/ \E b \in Block \ {Genesis} : HoldOrphan(b) \/ ProcessBlock(b) \/ ProcessOrphan(b)
    \/ NextInQueue
    \/ \E h \in Block : AwaitCheckpoint(h)

Spec == Init /\ [][Next]_vars

-----------------------------------------------------------------------------
(***************************************************************************)
(* Properties.                                                             *)
(***************************************************************************)
Idle == vWorkQueue = << >>

\* Between two messages both maps of the holding area name the same blocks:
\* no pointer to a deleted block is left, although blocks are deleted while
\* the loop over mapOrphanBlocksByPrev is under way.
HoldingAreaAgrees == Idle => mapOrphanBlocks = mapOrphanBlocksByPrev

\* Blocks that were held and then refused by AcceptBlock.
Refused == taken \ (mapBlockIndex \cup mapOrphanBlocks)

\* The set of stakes is right although several held blocks may share an entry,
\* which goes with the first of them.  A stake is refused to further orphans
\* only while an orphan with it is held; and while one is, the stake is seen,
\* here or as that of an indexed block, so that a duplicate needs an orphan
\* child - unless the block that took the entry along was refused.
StakesFollowOrphans ==
    /\ setStakeSeenOrphan \subseteq Stakes(mapOrphanBlocks)
    /\ Stakes(mapOrphanBlocks) \subseteq setStakeSeenOrphan \cup setStakeSeen \cup Stakes(Refused)

\* An orphan waits for a block that is missing: "until we get it".
OrphansWaitForMissing == Idle => \A o \in mapOrphanBlocks : Parent[o] \notin mapBlockIndex

\* Blocks that AcceptBlock may index and yet fail.
MayFail == {b \in Block : "indexed" \in Outcome[b]}

\* The work queue leaves no orphan behind whose parent it accepted, however
\* deep the chain of orphans is.
NoOrphanLeftBehind ==
    Idle => \A o \in mapOrphanBlocks : Parent[o] \notin mapBlockIndex \ MayFail

\* b was taken and so were all blocks below it, with nothing wrong with them.
AcceptedInFull(b) ==
    \E A \in SUBSET taken :
        /\ b \in A
        /\ \A x \in A \ {Genesis} : Outcome[x] = {"accepted"} /\ Parent[x] \in A

\* The order of arrival does not matter: a block that was taken, with all its
\* ancestors taken and nothing wrong with them, is indexed, whichever of them
\* came first, whatever was held, refused or repeated in between.
OrderDoesNotMatter == Idle => \A b \in taken : AcceptedInFull(b) => b \in mapBlockIndex

\* What the node asks a peer for, on behalf of an orphan or of a pending
\* checkpoint, is a block it neither has accepted nor holds: the request can
\* be answered with something new.
AsksForMissing ==
    [][asked' \cap ((mapBlockIndex \ MayFail) \cup mapOrphanBlocks) = {}]_vars

\* The answer is let in: a block that a held chain waits for is not refused,
\* neither as known nor for its stake, although it may be one that was
\* "rejected earlier by duplicate-stake check".
WantedIsLetIn ==
    Idle => \A o \in mapOrphanBlocks :
                LET w == WantedByOrphan(o)
                IN  w \notin mapBlockIndex =>
                        NewBlock(w) /\ StakeIsAllowed(w, setStakeSeenOrphan)
=============================================================================
