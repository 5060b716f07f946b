------------------------------ MODULE BlockSync ------------------------------
(***************************************************************************)
(* A node that is behind downloads blocks from a peer: "getblocks", "inv", *)
(* "getdata" and "block" over a connection that delivers in order.         *)
(*                                                                         *)
(* The peer has the blocks 1 .. top on top of the genesis block 0, and     *)
(* finds new ones.  The node has a prefix of that chain and, of what is    *)
(* above, some orphans, so that a block is its height here; OrphanBlocks   *)
(* has the trees.  Time is counted in blocks.  The elements of one "inv"   *)
(* are handled one by one.  Another peer, which answers nothing, may       *)
(* announce the same blocks.                                               *)
(***************************************************************************)
EXTENDS Integers, Sequences, SequencesExt

CONSTANTS
    StartHeight,    \* the peer's best block when the node connects
    MaxHeight,      \* bound: its best block at the end
    ProofOfWork,    \* the heights of the proof-of-work blocks
    nLimit,         \* the most blocks announced for one getblocks
    nStakeMinAge,   \* how far below a stake is the coin it spends
    GetTotalBlocksEstimate,     \* the height of the last hardened checkpoint
    MaxMute         \* bound: announcements of the peer that does not answer

ASSUME SyncAssumption ==
    /\ StartHeight \in Nat /\ MaxHeight \in Nat /\ StartHeight <= MaxHeight
    /\ ProofOfWork \subseteq 0..MaxHeight /\ 0 \in ProofOfWork
    /\ nLimit \in Nat \ {0} /\ nStakeMinAge \in Nat /\ MaxMute \in Nat
    /\ GetTotalBlocksEstimate \in Nat

VARIABLES
    pindexBest,                 \* the node: its best block
    mapOrphanBlocks,            \* ... the blocks it holds above
    fLastUpdate,                \* ... pindexBest changed less than 10 s ago
    lastGetBlocks,              \* ... the last request, <<begin, end>>
    mapAlreadyAskedFor,         \* ... blocks it has asked somebody for
    mapAskFor,                  \* ... blocks to ask this peer for, now
    retry,                      \* ... and 2 minutes after the last time
    top,                        \* the peer: its best block
    setInventoryKnown,          \* ... blocks it has announced
    vInventoryToSend,           \* ... blocks it will announce
    hashContinue,               \* ... the block that ends a batch, or 0
    toPeer, toNode,             \* messages on their way
    nMute                       \* announcements of the other peer

node  == <<pindexBest, mapOrphanBlocks, fLastUpdate>>
ask   == <<mapAlreadyAskedFor, mapAskFor, retry>>
peer  == <<top, setInventoryKnown, vInventoryToSend, hashContinue>>
vars  == <<node, lastGetBlocks, ask, peer, toPeer, toNode, nMute>>

Height  == 0..MaxHeight
Message == [type : {"getblocks"}, begin : Height, end : Height]
             \cup [type : {"getdata", "block"}, h : Height]
             \cup [type : {"inv"}, h : Height, last : BOOLEAN]

TypeOK ==
    /\ pindexBest \in 0..top /\ mapOrphanBlocks \subseteq (pindexBest + 2)..top
    /\ fLastUpdate \in BOOLEAN
    /\ lastGetBlocks \in Height \X Height
    /\ mapAlreadyAskedFor \subseteq 1..top /\ retry \subseteq 1..top
    /\ mapAskFor \in Seq(1..top)
    /\ top \in Height /\ setInventoryKnown \subseteq 1..top
    /\ vInventoryToSend \in Seq(1..top) /\ hashContinue \in 0..top
    /\ toPeer \in Seq(Message) /\ toNode \in Seq(Message)
    /\ nMute \in 0..MaxMute

(* The handshake has sent the first request; the first call of             *)
(* IsInitialBlockDownload takes the best block for a new one.              *)
Init ==
    /\ pindexBest = 0 /\ mapOrphanBlocks = {} /\ fLastUpdate = TRUE
    /\ lastGetBlocks = <<0, 0>>
    /\ mapAlreadyAskedFor = {} /\ mapAskFor = <<>> /\ retry = {}
    /\ top = StartHeight /\ setInventoryKnown = {}
    /\ vInventoryToSend = <<>> /\ hashContinue = 0
    /\ toPeer = <<[type |-> "getblocks", begin |-> 0, end |-> 0]>> /\ toNode = <<>>
    /\ nMute = 0
-----------------------------------------------------------------------------
(***************************************************************************)
(* What the peer sends.                                                    *)
(***************************************************************************)
Receive(channel, type) == channel # <<>> /\ Head(channel).type = type

PushInventory(v, h) == IF h \in setInventoryKnown THEN v ELSE Append(v, h)
PushAll(v, hs)      == FoldLeft(PushInventory, v, hs)

(* The blocks announced for a getblocks: it stops at end, at the limit or  *)
(* at the best block.                                                      *)
StopsAt(begin, end) == end \in (begin + 1)..top /\ end <= begin + nLimit

AnswerGetBlocks(begin, end) ==
    LET last == IF StopsAt(begin, end) THEN end - 1
                ELSE IF begin + nLimit < top THEN begin + nLimit ELSE top
        tell == IF StopsAt(begin, end) /\ end # top /\ end + nStakeMinAge > top
                THEN <<top>> ELSE <<>>
        full == ~StopsAt(begin, end) /\ begin + nLimit <= top
    IN  /\ vInventoryToSend' =
              PushAll(vInventoryToSend, [n \in 1..(last - begin) |-> begin + n] \o tell)
        /\ hashContinue' = IF full THEN begin + nLimit ELSE hashContinue

PeerGetBlocks ==
    /\ Receive(toPeer, "getblocks")
    /\ AnswerGetBlocks(Head(toPeer).begin, Head(toPeer).end)
    /\ toPeer' = Tail(toPeer)
    /\ UNCHANGED <<node, lastGetBlocks, ask, top, setInventoryKnown, toNode, nMute>>

(* SendMessages announces what it has not announced: vInv and              *)
(* setInventoryKnown, with h.                                              *)
Announce(r, h) ==
    IF h \in r[2] THEN r ELSE <<Append(r[1], h), r[2] \cup {h}>>

AnnounceAll(known, hs) == FoldLeft(Announce, <<<<>>, known>>, hs)

PeerSendInv ==
    /\ vInventoryToSend # <<>>
    /\ LET r == AnnounceAll(setInventoryKnown, vInventoryToSend)
       IN  /\ toNode' = toNode \o [n \in 1..Len(r[1]) |->
                            [type |-> "inv", h |-> r[1][n], last |-> n = Len(r[1])]]
           /\ setInventoryKnown' = r[2]
    /\ vInventoryToSend' = <<>>
    /\ UNCHANGED <<node, lastGetBlocks, ask, top, hashContinue, toPeer, nMute>>

LastProofOfWork == CHOOSE h \in ProofOfWork \cap 0..top :
                        \A k \in ProofOfWork \cap 0..top : k <= h

(* The block that ends a batch is followed by an announcement that is to   *)
(* trigger the next getblocks.                                             *)
PeerGetData ==
    /\ Receive(toPeer, "getdata")
    /\ LET h == Head(toPeer).h
       IN  /\ toNode' = Append(toNode, [type |-> "block", h |-> h]) \o
                 (IF h # hashContinue THEN <<>>
                  ELSE <<[type |-> "inv", h |-> LastProofOfWork, last |-> TRUE]>>)
           /\ hashContinue' = IF h = hashContinue THEN 0 ELSE hashContinue
    /\ toPeer' = Tail(toPeer)
    /\ UNCHANGED <<node, lastGetBlocks, ask, top, setInventoryKnown, vInventoryToSend, nMute>>

(* Nothing is under way, for 10 seconds.                                   *)
Quiet == /\ toPeer = <<>> /\ toNode = <<>> /\ vInventoryToSend = <<>>
         /\ mapAskFor = <<>> /\ retry = {} /\ ~fLastUpdate

(* A new block is announced at once.  Blocks are minutes apart: all but    *)
(* the first one find the connection quiet.                                *)
PeerNewBlock ==
    /\ top < MaxHeight
    /\ top > StartHeight => Quiet
    /\ top' = top + 1
    /\ vInventoryToSend' = Append(vInventoryToSend, top + 1)
    /\ UNCHANGED <<node, lastGetBlocks, ask, setInventoryKnown, hashContinue, toPeer, toNode, nMute>>
-----------------------------------------------------------------------------
(***************************************************************************)
(* What the node asks for.                                                 *)
(***************************************************************************)
AlreadyHave(h) == h <= pindexBest \/ h \in mapOrphanBlocks

PushGetBlocks(begin, end) ==
    /\ lastGetBlocks' = <<begin, end>>
    /\ toPeer' = IF lastGetBlocks = <<begin, end>> THEN toPeer
                 ELSE Append(toPeer, [type |-> "getblocks", begin |-> begin, end |-> end])

(* Mutant of AskFor: what was asked for is not asked for again.            *)
AskForOnce(h) ==
    IF h \in mapAlreadyAskedFor THEN ask
    ELSE <<mapAlreadyAskedFor \cup {h}, Append(mapAskFor, h), retry>>

(* "Each retry is 2 minutes after the last."                               *)
AskFor(h) ==
    IF h \in mapAlreadyAskedFor
    THEN <<mapAlreadyAskedFor, mapAskFor, retry \cup {h}>>
    ELSE <<mapAlreadyAskedFor \cup {h}, Append(mapAskFor, h), retry>>

SetAsk(A) == mapAlreadyAskedFor' = A[1] /\ mapAskFor' = A[2] /\ retry' = A[3]

(* GetOrphanRoot: the lowest orphan of the run of orphans up to h.         *)
OrphanRoot(O, h) == CHOOSE r \in O : /\ r <= h /\ r..h \subseteq O
                                     /\ r - 1 \notin O

Inv ==
    /\ Receive(toNode, "inv")
    /\ LET h == Head(toNode).h
       IN  \/ /\ ~AlreadyHave(h)
              /\ SetAsk(AskFor(h))
              /\ UNCHANGED <<lastGetBlocks, toPeer>>
           \/ /\ h \in mapOrphanBlocks
              /\ PushGetBlocks(pindexBest, OrphanRoot(mapOrphanBlocks, h))
              /\ UNCHANGED ask
           \/ /\ h <= pindexBest
              /\ IF Head(toNode).last THEN PushGetBlocks(h, 0)
                                      ELSE UNCHANGED <<lastGetBlocks, toPeer>>
              /\ UNCHANGED ask
    /\ toNode' = Tail(toNode)
    /\ UNCHANGED <<node, peer, nMute>>

(* SendMessages asks for what is due and still missing.                    *)
SendGetData ==
    /\ mapAskFor # <<>>
    /\ LET h == Head(mapAskFor)
       IN  IF AlreadyHave(h) THEN UNCHANGED <<toPeer, mapAlreadyAskedFor>>
           ELSE /\ toPeer' = Append(toPeer, [type |-> "getdata", h |-> h])
                /\ mapAlreadyAskedFor' = mapAlreadyAskedFor \cup {h}
    /\ mapAskFor' = Tail(mapAskFor)
    /\ UNCHANGED <<node, lastGetBlocks, retry, peer, toNode, nMute>>

Due(h) ==
    /\ h \in retry
    /\ retry' = retry \ {h} /\ mapAskFor' = Append(mapAskFor, h)
    /\ UNCHANGED <<node, lastGetBlocks, mapAlreadyAskedFor, peer, toPeer, toNode, nMute>>

(* The other peer announces h, is asked for it and does not answer.        *)
MuteInv(h) ==
    /\ nMute < MaxMute /\ h \in 1..top /\ ~AlreadyHave(h)
    /\ mapAlreadyAskedFor' = mapAlreadyAskedFor \cup {h}
    /\ nMute' = nMute + 1
    /\ UNCHANGED <<node, lastGetBlocks, mapAskFor, retry, peer, toPeer, toNode>>
-----------------------------------------------------------------------------
(***************************************************************************)
(* ProcessBlock.                                                           *)
(***************************************************************************)
(* A stake can be checked if the coin it spends is in the node's chain.    *)
CheckProofOfStake(h) == h \in ProofOfWork \/ h - nStakeMinAge <= pindexBest

(* What IsInitialBlockDownload may return: true below the last hardened    *)
(* checkpoint; above it false when nothing changes for 10 s or the best    *)
(* block is less than a day old.                                           *)
IsInitialBlockDownload ==
    IF pindexBest < GetTotalBlocksEstimate THEN {TRUE} ELSE {FALSE, fLastUpdate}

(* The blocks that follow h without a gap, h included.                     *)
Connected(h) == CHOOSE k \in h..top : /\ (h + 1)..k \subseteq mapOrphanBlocks
                                      /\ k + 1 \notin mapOrphanBlocks

RefuseBlock(h) ==
    /\ AlreadyHave(h) \/ ~CheckProofOfStake(h)
    /\ UNCHANGED <<node, lastGetBlocks, ask, toPeer>>

(* Mutant of HoldBlock: the missing block is not asked for directly.       *)
HoldBlockOnly(h) ==
    LET O == mapOrphanBlocks \cup {h}
    IN  /\ ~AlreadyHave(h) /\ CheckProofOfStake(h) /\ h > pindexBest + 1
        /\ mapOrphanBlocks' = O
        /\ PushGetBlocks(pindexBest, OrphanRoot(O, h))
        /\ SetAsk(<<mapAlreadyAskedFor \ {h}, mapAskFor, retry>>)
        /\ UNCHANGED <<pindexBest, fLastUpdate>>

HoldBlock(h) ==
    LET O == mapOrphanBlocks \cup {h}
        r == OrphanRoot(O, h)
    IN  /\ ~AlreadyHave(h) /\ CheckProofOfStake(h) /\ h > pindexBest + 1
        /\ mapOrphanBlocks' = O
        /\ PushGetBlocks(pindexBest, r)
        /\ \E ibd \in IsInitialBlockDownload :
              LET A == IF ibd THEN ask ELSE AskFor(r - 1)
              IN  SetAsk(<<A[1] \ {h}, A[2], A[3]>>)
        /\ UNCHANGED <<pindexBest, fLastUpdate>>

(* Mutant of AcceptBlock: the orphans that follow are not connected.       *)
AcceptOne(h) ==
    /\ CheckProofOfStake(h) /\ h = pindexBest + 1
    /\ pindexBest' = h
    /\ mapOrphanBlocks' = mapOrphanBlocks \ {h}
    /\ fLastUpdate' = TRUE
    /\ mapAlreadyAskedFor' = mapAlreadyAskedFor \ {h}
    /\ UNCHANGED <<lastGetBlocks, mapAskFor, retry, toPeer>>

AcceptBlock(h) ==
    /\ CheckProofOfStake(h) /\ h = pindexBest + 1
    /\ pindexBest' = Connected(h)
    /\ mapOrphanBlocks' = mapOrphanBlocks \ (h..Connected(h))
    /\ fLastUpdate' = TRUE
    /\ mapAlreadyAskedFor' = mapAlreadyAskedFor \ {h}
    /\ UNCHANGED <<lastGetBlocks, mapAskFor, retry, toPeer>>

ProcessBlock ==
    /\ Receive(toNode, "block")
    /\ LET h == Head(toNode).h
       IN  RefuseBlock(h) \/ HoldBlock(h) \/ AcceptBlock(h)
    /\ toNode' = Tail(toNode)
    /\ UNCHANGED <<peer, nMute>>

(* 10 seconds without a new best block.                                    *)
Settle ==
    /\ fLastUpdate
    /\ fLastUpdate' = FALSE
    /\ UNCHANGED <<pindexBest, mapOrphanBlocks, lastGetBlocks, ask, peer, toPeer, toNode, nMute>>
-----------------------------------------------------------------------------
Next ==
    \/ PeerGetBlocks \/ PeerSendInv \/ PeerGetData \/ PeerNewBlock
    \/ Inv \/ SendGetData \/ ProcessBlock \/ Settle
    \/ \E h \in Height : Due(h) \/ MuteInv(h)

(***************************************************************************)
(* Both message handler threads keep running, time passes, and the network *)
(* finds blocks.  The other peer does not have to announce anything.       *)
(***************************************************************************)
Fairness ==
    /\ WF_vars(PeerGetBlocks) /\ WF_vars(PeerSendInv) /\ WF_vars(PeerGetData)
    /\ WF_vars(PeerNewBlock)
    /\ WF_vars(Inv) /\ WF_vars(SendGetData) /\ WF_vars(ProcessBlock) /\ WF_vars(Settle)
    /\ \A h \in Height : WF_vars(Due(h))

Spec == Init /\ [][Next]_vars /\ Fairness
-----------------------------------------------------------------------------
(***************************************************************************)
(* Properties.                                                             *)
(***************************************************************************)
InFlight(channel, type, h) ==
    \E n \in 1..Len(channel) : channel[n].type = type /\ channel[n].h = h

(* Nothing the peer has announced is forgotten, although requests are      *)
(* dropped, delayed and not repeated: the node has it, or will ask for it, *)
(* now or later, or the answer is on its way.  (A stake that could not be  *)
(* checked when it came is forgotten, and left out here.)                  *)
NothingForgotten ==
    \A h \in setInventoryKnown \cap (ProofOfWork \cup 1..nStakeMinAge) :
        \/ AlreadyHave(h)
        \/ h \in retry \/ \E n \in 1..Len(mapAskFor) : mapAskFor[n] = h
        \/ InFlight(toNode, "inv", h) \/ InFlight(toNode, "block", h)
        \/ InFlight(toPeer, "getdata", h)

(* The node gets all blocks of the peer if no other peer delays it, and    *)
(* also if one does, once it has come as far as the last hardened          *)
(* checkpoint: whatever stops a download (a batch that triggers no         *)
(* getblocks, a stake that could not be checked, a peer that does not      *)
(* answer), more proof-of-work blocks set it going again.  Below the       *)
(* checkpoint a refused stake is not asked for directly (ProcessBlock),    *)
(* and one announcement that is not answered may stop the download there.  *)
CatchesUp ==
    \/ <>(nMute > 0) /\ [](pindexBest < GetTotalBlocksEstimate)
    \/ <>[](pindexBest = MaxHeight)

(* "When this block is requested, we'll send an inv that'll make them      *)
(* getblocks the next batch of inventory": a batch that is full is         *)
(* followed by the next one.                                               *)
NextBatchFollows == \A h \in 1..(MaxHeight - 1) : (hashContinue = h) ~> (pindexBest > h)
=============================================================================
