------------------------ MODULE OrphanBlocks_proofs ------------------------
(***************************************************************************)
(* Proofs about OrphanBlocks, for every tree of blocks, every assignment   *)
(* of stakes and whatever AcceptBlock makes of a block.                    *)
(***************************************************************************)
EXTENDS OrphanBlocks, SequenceTheorems, TLAPS

Loose == Block \ {Genesis}

-----------------------------------------------------------------------------
(***************************************************************************)
(* GetOrphanRoot.  The recursion ends, because the parents of blocks run   *)
(* in no circle.  What it computes is found without recursion: the blocks  *)
(* it visits are the smallest set with b and the held parents of its       *)
(* members, and the root is the one of them whose parent is not held.      *)
(***************************************************************************)
Closed(S) == \A x \in S : Parent[x] \in mapOrphanBlocks => Parent[x] \in S

Visited(b) == {x \in Loose : \A S \in SUBSET Loose : b \in S /\ Closed(S) => x \in S}

Roots(b) == {r \in Visited(b) : Parent[r] \notin mapOrphanBlocks}

Some(S) == CHOOSE r : r \in S

\* The walk from b goes on with the walk from its parent.
LEMMA VisitedStep ==
    ASSUME mapOrphanBlocks \subseteq Loose, NEW b \in Loose
    PROVE  /\ Parent[b] \notin mapOrphanBlocks => Visited(b) = {b}
           /\ Parent[b] \in mapOrphanBlocks => Visited(b) = Visited(Parent[b]) \cup {b}
<1>1. ASSUME Parent[b] \notin mapOrphanBlocks
      PROVE  Visited(b) = {b}
  <2>1. {b} \in SUBSET Loose /\ Closed({b})
    BY <1>1 DEF Closed
  <2> QED BY <2>1 DEF Visited
<1>2. ASSUME Parent[b] \in mapOrphanBlocks
      PROVE  Visited(b) = Visited(Parent[b]) \cup {b}
  <2> DEFINE p == Parent[b]
  <2>1. p \in Loose
    BY <1>2
  <2>2. ASSUME NEW x \in Visited(p)
        PROVE  x \in Visited(b)
    <3>1. ASSUME NEW S \in SUBSET Loose, b \in S, Closed(S)
          PROVE  p \in S
      BY <1>2, <3>1 DEF Closed
    <3> QED BY <2>2, <3>1 DEF Visited
  <2>3. b \in Visited(b)
    BY DEF Visited
  <2>4. ASSUME NEW x \in Visited(b), x # b
        PROVE  x \in Visited(p)
    <3> SUFFICES ASSUME NEW S \in SUBSET Loose, p \in S, Closed(S)
                 PROVE  x \in S
      BY <2>4 DEF Visited
    <3>1. S \cup {b} \in SUBSET Loose /\ b \in S \cup {b} /\ Closed(S \cup {b})
      BY DEF Closed
    <3> QED BY <2>4, <3>1 DEF Visited
  <2> QED BY <2>2, <2>3, <2>4
<1> QED BY <1>1, <1>2

\* The recursive definition has a solution.
LEMMA RootDefined ==
    ASSUME mapOrphanBlocks \subseteq Loose
    PROVE  GetOrphanRoot = [b \in Loose |-> IF Parent[b] \in mapOrphanBlocks
                                            THEN GetOrphanRoot[Parent[b]] ELSE b]
<1> DEFINE f == [b \in Loose |-> Some(Roots(b))]
<1>1. ASSUME NEW b \in Loose
      PROVE  f[b] = IF Parent[b] \in mapOrphanBlocks THEN f[Parent[b]] ELSE b
  <2>1. CASE Parent[b] \in mapOrphanBlocks
    <3>1. Roots(b) = Roots(Parent[b])
      BY <2>1, VisitedStep DEF Roots
    <3> QED BY <2>1, <3>1
  <2>2. CASE Parent[b] \notin mapOrphanBlocks
    <3>1. Roots(b) = {b}
      BY <2>2, VisitedStep DEF Roots
    <3>2. Some({b}) = b
      BY DEF Some
    <3> QED BY <2>2, <3>1, <3>2
  <2> QED BY <2>1, <2>2
<1>2. f = [b \in Loose |-> IF Parent[b] \in mapOrphanBlocks THEN f[Parent[b]] ELSE b]
  BY <1>1
<1> HIDE DEF f
<1>3. \E g : g = [b \in Loose |-> IF Parent[b] \in mapOrphanBlocks THEN g[Parent[b]] ELSE b]
  BY <1>2
<1> QED BY <1>3 DEF GetOrphanRoot, Loose

\* The root of a chain of orphans is its start or a held block, and the block
\* it waits for is not held.
LEMMA RootIsFirst ==
    ASSUME mapOrphanBlocks \subseteq Loose, NEW b \in Loose
    PROVE  /\ GetOrphanRoot[b] \in Loose
           /\ GetOrphanRoot[b] \in mapOrphanBlocks \cup {b}
           /\ Parent[GetOrphanRoot[b]] \notin mapOrphanBlocks
<1> DEFINE Good(x) == /\ GetOrphanRoot[x] \in Loose
                      /\ GetOrphanRoot[x] \in mapOrphanBlocks \cup {x}
                      /\ Parent[GetOrphanRoot[x]] \notin mapOrphanBlocks
           Wrong == {x \in Loose : ~Good(x)}
<1>1. ASSUME Wrong # {}
      PROVE  FALSE
  <2>1. PICK x \in Wrong : Parent[x] \notin Wrong
    BY <1>1, NoCircleAssumption DEF Loose
  <2>2. GetOrphanRoot[x] = IF Parent[x] \in mapOrphanBlocks THEN GetOrphanRoot[Parent[x]] ELSE x
    BY RootDefined, x \in Loose
  <2>3. CASE Parent[x] \in mapOrphanBlocks
    <3>1. Good(Parent[x])
      BY <2>1, <2>3
    <3> QED BY <2>2, <2>3, <3>1
  <2>4. CASE Parent[x] \notin mapOrphanBlocks
    BY <2>2, <2>4
  <2> QED BY <2>3, <2>4
<1> QED BY <1>1

-----------------------------------------------------------------------------
(***************************************************************************)
(* The inductive invariant.                                                *)
(***************************************************************************)
InQueue(b) == \E n \in 1..Len(vWorkQueue) : vWorkQueue[n] = b

\* While the orphans of the first block in the queue are processed, pointers
\* to those already deleted remain; there are no others.
Pointers ==
    /\ mapOrphanBlocks \subseteq mapOrphanBlocksByPrev
    /\ \A o \in mapOrphanBlocksByPrev \ mapOrphanBlocks :
          vWorkQueue # << >> /\ Parent[o] = Head(vWorkQueue)

\* What still waits for a block that was accepted is in reach of the queue.
Reached ==
    /\ Genesis \in mapBlockIndex
    /\ \A o \in mapOrphanBlocks :
          /\ Parent[o] # Genesis
          /\ Parent[o] \in mapBlockIndex \ MayFail => InQueue(Parent[o])

\* A block that was taken, and cannot be refused, is indexed or held.
NotLost ==
    \A b \in taken : b = Genesis \/ Outcome[b] = {"accepted"} =>
        b \in mapBlockIndex \cup mapOrphanBlocks

\* A held block was taken and is not indexed.
Held == mapOrphanBlocks \subseteq taken \ mapBlockIndex

IndInv == TypeOK /\ Pointers /\ Reached /\ NotLost /\ Held /\ StakesFollowOrphans

\* WantedByOrphan names a block.
LEMMA WantedType ==
    ASSUME TypeOK, NEW b \in Loose
    PROVE  WantedByOrphan(b) \in Block
<1>1. mapOrphanBlocks \subseteq Loose
  BY DEF TypeOK, Loose
<1>2. GetOrphanRoot[b] \in Loose
  BY <1>1, RootIsFirst
<1> QED BY <1>2, OrphanAssumption DEF WantedByOrphan, Loose

\* Between two messages, what an orphan waits for is neither held nor accepted.
LEMMA WantedIsMissing ==
    ASSUME IndInv, Idle, NEW b \in Loose,
           b \in mapOrphanBlocks \/ Parent[b] \notin mapBlockIndex
    PROVE  WantedByOrphan(b) \notin (mapBlockIndex \ MayFail) \cup mapOrphanBlocks
<1>1. mapOrphanBlocks \subseteq Loose
  BY DEF IndInv, TypeOK, Loose
<1> DEFINE r == GetOrphanRoot[b]
<1>2. r \in mapOrphanBlocks \cup {b} /\ Parent[r] \notin mapOrphanBlocks
  BY <1>1, RootIsFirst
<1>3. \A o \in mapOrphanBlocks : Parent[o] \notin mapBlockIndex \ MayFail
  BY DEF IndInv, Reached, Idle, InQueue
<1> HIDE DEF r
<1>4. Parent[r] \notin mapBlockIndex \ MayFail
  BY <1>2, <1>3
<1> QED BY <1>2, <1>4 DEF WantedByOrphan, r

\* The invariant holds of an empty holding area.
LEMMA InitInv == Init => IndInv
BY OrphanAssumption DEF Init, IndInv, TypeOK, Pointers, Reached, NotLost, Held,
   StakesFollowOrphans, Refused, Stakes

\* An orphan is held with its pointer and its stake.
LEMMA HoldOrphanStep ==
    ASSUME IndInv, NEW b \in Loose, HoldOrphan(b)
    PROVE  IndInv'
<1> USE DEF IndInv
<1>1. /\ vWorkQueue = << >> /\ Parent[b] \notin mapBlockIndex
      /\ b \notin mapBlockIndex \cup mapOrphanBlocks
      /\ setStakeSeenOrphan' = setStakeSeenOrphan \cup Stakes({b})
      /\ mapOrphanBlocks' = mapOrphanBlocks \cup {b}
      /\ mapOrphanBlocksByPrev' = mapOrphanBlocksByPrev \cup {b}
      /\ asked' \in {{}, PendingWanted \cup {WantedByOrphan(b)}}
      /\ taken' = taken \cup {b}
      /\ UNCHANGED <<mapBlockIndex, setStakeSeen, hashPendingCheckpoint, vWorkQueue>>
  BY DEF HoldOrphan, NewBlock
<1>2. TypeOK'
  <2>1. asked' \subseteq Block
    BY <1>1, WantedType DEF PendingWanted, TypeOK
  <2>2. setStakeSeenOrphan' \subseteq Stakes(Block)
    BY <1>1 DEF TypeOK, Stakes, Loose
  <2> QED BY <1>1, <2>1, <2>2 DEF TypeOK, Loose
<1>3. Pointers'
  BY <1>1 DEF Pointers
<1>4. Reached'
  BY <1>1 DEF Reached, InQueue
<1>5. NotLost'
  BY <1>1 DEF NotLost
<1>6. Held'
  BY <1>1 DEF Held
<1>7. StakesFollowOrphans'
  BY <1>1 DEF StakesFollowOrphans, Refused, Stakes
<1> QED BY <1>2, <1>3, <1>4, <1>5, <1>6, <1>7

\* What AcceptBlock does to the index.
LEMMA AcceptBlockIndex ==
    ASSUME TypeOK, NEW b \in Loose, NEW outcome \in Outcome[b], AcceptBlock(b, outcome)
    PROVE  /\ mapBlockIndex' \subseteq Block
           /\ setStakeSeen' \subseteq Stakes(Block)
           /\ hashPendingCheckpoint' \in Block \cup {NoBlock}
           /\ mapBlockIndex \subseteq mapBlockIndex'
           /\ outcome = "refused" =>
                 mapBlockIndex' = mapBlockIndex /\ setStakeSeen' = setStakeSeen
           /\ outcome # "refused" =>
                 mapBlockIndex' = mapBlockIndex \cup {b} /\ setStakeSeen' = setStakeSeen \cup Stakes({b})
           /\ outcome = "indexed" => b \in MayFail
           /\ outcome \in {"refused", "indexed", "accepted"}
<1>1. outcome \in {"refused", "indexed", "accepted"} /\ b \in Block
  BY OrphanAssumption DEF Loose
<1>2. outcome = "indexed" => b \in MayFail
  BY <1>1 DEF MayFail
<1>3. CASE outcome = "refused"
  BY <1>1, <1>2, <1>3 DEF AcceptBlock, TypeOK
<1>4. CASE outcome # "refused"
  <2>1. setStakeSeen' \subseteq Stakes(Block)
    BY <1>1, <1>4 DEF AcceptBlock, TypeOK, SeeStake, Stakes
  <2> QED BY <1>1, <1>2, <1>4, <2>1 DEF AcceptBlock, SeeStake, TypeOK
<1> QED BY <1>3, <1>4

\* A block that is accepted enters the work queue.
LEMMA ProcessBlockStep ==
    ASSUME IndInv, NEW b \in Loose, ProcessBlock(b)
    PROVE  IndInv'
<1> USE DEF IndInv
<1>1. PICK outcome \in Outcome[b] :
          /\ AcceptBlock(b, outcome)
          /\ IF outcome = "accepted"
             THEN vWorkQueue' = <<b>> /\ taken' = taken \cup {b}
             ELSE UNCHANGED <<vWorkQueue, taken>>
  BY DEF ProcessBlock
<1>2. /\ vWorkQueue = << >>
      /\ asked' \in {{}, PendingWanted}
      /\ UNCHANGED <<mapOrphanBlocks, mapOrphanBlocksByPrev, setStakeSeenOrphan>>
  BY DEF ProcessBlock, NewBlock
<1>3. /\ mapBlockIndex' \subseteq Block
      /\ setStakeSeen' \subseteq Stakes(Block)
      /\ hashPendingCheckpoint' \in Block \cup {NoBlock}
      /\ mapBlockIndex \subseteq mapBlockIndex'
      /\ outcome = "refused" =>
            mapBlockIndex' = mapBlockIndex /\ setStakeSeen' = setStakeSeen
      /\ outcome # "refused" =>
            mapBlockIndex' = mapBlockIndex \cup {b} /\ setStakeSeen' = setStakeSeen \cup Stakes({b})
      /\ outcome = "indexed" => b \in MayFail
      /\ outcome \in {"refused", "indexed", "accepted"}
  BY <1>1, AcceptBlockIndex
<1>4. TypeOK'
  <2>1. vWorkQueue' \in Seq(Block) /\ taken' \subseteq Block
    <3>1. b \in Block /\ vWorkQueue \in Seq(Block) /\ taken \subseteq Block
      BY DEF TypeOK, Loose
    <3>2. <<b>> \in Seq(Block)
      BY <3>1
    <3>3. CASE outcome = "accepted"
      BY <1>1, <3>1, <3>2, <3>3
    <3>4. CASE outcome # "accepted"
      BY <1>1, <3>1, <3>4
    <3> QED BY <3>3, <3>4
  <2>2. asked' \subseteq Block
    BY <1>2 DEF PendingWanted, TypeOK
  <2> QED BY <1>2, <1>3, <2>1, <2>2 DEF TypeOK
<1>5. Pointers'
  BY <1>2 DEF Pointers
<1>6. Reached'
  <2>1. \A o \in mapOrphanBlocks : Parent[o] \notin mapBlockIndex \ MayFail
    BY <1>2 DEF Reached, InQueue
  <2>2. ASSUME NEW o \in mapOrphanBlocks, Parent[o] \in mapBlockIndex' \ MayFail
        PROVE  outcome = "accepted" /\ Parent[o] = b
    BY <1>3, <2>1, <2>2
  <2>3. outcome = "accepted" => Len(vWorkQueue') = 1 /\ vWorkQueue'[1] = b
    BY <1>1
  <2>4. outcome = "accepted" => InQueue(b)'
    BY <2>3 DEF InQueue
  <2> QED BY <1>2, <1>3, <2>2, <2>4 DEF Reached
<1>7. NotLost'
  BY <1>1, <1>2, <1>3 DEF NotLost
<1>8. Held'
  BY <1>1, <1>2, <1>3 DEF Held, ProcessBlock, NewBlock
<1>9. StakesFollowOrphans'
  <2>1. ASSUME NEW x \in Refused, x \notin Refused'
        PROVE  outcome # "refused" /\ x = b
    BY <1>1, <1>2, <1>3, <2>1 DEF Refused
  <2>2. Stakes(Refused) \cup setStakeSeen \subseteq Stakes(Refused') \cup setStakeSeen'
    BY <1>3, <2>1 DEF Stakes
  <2> QED BY <1>2, <2>2 DEF StakesFollowOrphans, Stakes
<1> QED BY <1>4, <1>5, <1>6, <1>7, <1>8, <1>9

\* An orphan leaves the holding area; if it is accepted it joins the queue.
LEMMA ProcessOrphanStep ==
    ASSUME IndInv, NEW o \in Loose, ProcessOrphan(o)
    PROVE  IndInv'
<1> USE DEF IndInv
<1>1. PICK outcome \in Outcome[o] :
          AcceptBlock(o, outcome) /\ vWorkQueue' = Enqueue(o, outcome)
  BY DEF ProcessOrphan
<1>2. /\ vWorkQueue # << >>
      /\ o \in mapOrphanBlocks /\ Parent[o] = Head(vWorkQueue)
      /\ mapOrphanBlocks' = mapOrphanBlocks \ {o}
      /\ setStakeSeenOrphan' = setStakeSeenOrphan \ Stakes({o})
      /\ asked' = {}
      /\ UNCHANGED <<mapOrphanBlocksByPrev, taken>>
  BY DEF ProcessOrphan, ForgetStake
<1>3. /\ mapBlockIndex' \subseteq Block
      /\ setStakeSeen' \subseteq Stakes(Block)
      /\ hashPendingCheckpoint' \in Block \cup {NoBlock}
      /\ mapBlockIndex \subseteq mapBlockIndex'
      /\ outcome = "refused" =>
            mapBlockIndex' = mapBlockIndex /\ setStakeSeen' = setStakeSeen
      /\ outcome # "refused" =>
            mapBlockIndex' = mapBlockIndex \cup {o} /\ setStakeSeen' = setStakeSeen \cup Stakes({o})
      /\ outcome = "indexed" => o \in MayFail
      /\ outcome \in {"refused", "indexed", "accepted"}
  BY <1>1, AcceptBlockIndex
<1>4. vWorkQueue \in Seq(Block) /\ o \in Block
  BY DEF TypeOK, Loose
<1>5. /\ vWorkQueue' \in Seq(Block) /\ vWorkQueue' # << >>
      /\ Head(vWorkQueue') = Head(vWorkQueue)
      /\ Len(vWorkQueue) <= Len(vWorkQueue')
      /\ \A n \in 1..Len(vWorkQueue) : vWorkQueue'[n] = vWorkQueue[n]
      /\ outcome = "accepted" => \E n \in 1..Len(vWorkQueue') : vWorkQueue'[n] = o
  <2>1. CASE outcome = "accepted"
    <3>1. vWorkQueue' = Append(vWorkQueue, o)
      BY <1>1, <2>1 DEF Enqueue
    <3>2. /\ vWorkQueue' \in Seq(Block) /\ vWorkQueue' # << >>
          /\ Len(vWorkQueue') = Len(vWorkQueue) + 1
          /\ \A n \in 1..Len(vWorkQueue) : vWorkQueue'[n] = vWorkQueue[n]
          /\ vWorkQueue'[Len(vWorkQueue) + 1] = o
      BY <1>4, <3>1, AppendProperties
    <3>3. Len(vWorkQueue) \in Nat
      BY <1>4, LenProperties
    <3>4. Head(vWorkQueue') = Head(vWorkQueue)
      BY <1>2, <1>4, <3>1, HeadTailAppend
    <3>5. Len(vWorkQueue) + 1 \in 1..Len(vWorkQueue') /\ Len(vWorkQueue) <= Len(vWorkQueue')
      BY <3>2, <3>3
    <3> QED BY <3>2, <3>4, <3>5
  <2>2. CASE outcome # "accepted"
    <3>1. vWorkQueue' = vWorkQueue
      BY <1>1, <2>2 DEF Enqueue
    <3>2. Len(vWorkQueue) \in Nat
      BY <1>4, LenProperties
    <3> QED BY <1>2, <1>4, <2>2, <3>1, <3>2
  <2> QED BY <2>1, <2>2
<1>6. TypeOK'
  BY <1>2, <1>3, <1>5 DEF TypeOK
<1>7. Pointers'
  BY <1>2, <1>5 DEF Pointers
<1>8. \A b : InQueue(b) => InQueue(b)'
  <2>1. Len(vWorkQueue) \in Nat /\ Len(vWorkQueue') \in Nat
    BY <1>4, <1>5, LenProperties
  <2> QED BY <1>5, <2>1 DEF InQueue
<1>9. Reached'
  <2>1. outcome = "accepted" => InQueue(o)'
    BY <1>5 DEF InQueue
  <2> QED BY <1>2, <1>3, <1>8, <2>1 DEF Reached
<1>10. NotLost'
  <2>1. Outcome[o] = {"accepted"} => o \in mapBlockIndex'
    BY <1>1, <1>3
  <2>2. o # Genesis
    BY DEF Loose
  <2> QED BY <1>2, <1>3, <2>1, <2>2 DEF NotLost
<1>11. Held'
  BY <1>2, <1>3 DEF Held
<1>12. setStakeSeenOrphan' \subseteq Stakes(mapOrphanBlocks')
  <2>1. ASSUME NEW k \in setStakeSeenOrphan'
        PROVE  k \in Stakes(mapOrphanBlocks')
    <3>1. PICK h \in mapOrphanBlocks : k = Stake[h] /\ k # NoStake
      BY <1>2, <2>1 DEF StakesFollowOrphans, Stakes
    <3>2. h # o
      BY <1>2, <2>1, <3>1 DEF Stakes
    <3> QED BY <1>2, <3>1, <3>2 DEF Stakes
  <2> QED BY <2>1
\* The stake that is forgotten is that of an indexed block, or of a refused one.
<1>13. Stakes(mapOrphanBlocks') \subseteq
          setStakeSeenOrphan' \cup setStakeSeen' \cup Stakes(Refused')
  <2>1. Stakes({o}) \subseteq setStakeSeen' \cup Stakes(Refused')
    <3>1. CASE outcome = "refused"
      <4>1. o \in Refused'
        BY <1>2, <1>3, <3>1 DEF Refused, Held
      <4> QED BY <4>1 DEF Stakes
    <3>2. CASE outcome # "refused"
      BY <1>3, <3>2
    <3> QED BY <3>1, <3>2
  <2>2. ASSUME NEW x \in Refused
        PROVE  x = o \/ x \in Refused'
    BY <1>2, <1>3 DEF Refused
  <2>3. setStakeSeen \cup Stakes(Refused) \subseteq setStakeSeen' \cup Stakes(Refused')
    BY <1>3, <2>1, <2>2 DEF Stakes
  <2>4. Stakes(mapOrphanBlocks') \subseteq Stakes(mapOrphanBlocks)
    BY <1>2 DEF Stakes
  <2>5. setStakeSeenOrphan \subseteq setStakeSeenOrphan' \cup Stakes({o})
    BY <1>2
  <2> QED BY <2>1, <2>3, <2>4, <2>5 DEF StakesFollowOrphans
<1>14. StakesFollowOrphans'
  BY <1>12, <1>13 DEF StakesFollowOrphans, Stakes, Refused
<1> QED BY <1>6, <1>7, <1>9, <1>10, <1>11, <1>14

\* The pointers of the block at the head go when all its orphans were processed.
LEMMA NextInQueueStep ==
    ASSUME IndInv, NextInQueue
    PROVE  IndInv'
<1> USE DEF IndInv
<1>1. /\ vWorkQueue # << >>
      /\ \A o \in mapOrphanBlocks : Parent[o] # Head(vWorkQueue)
      /\ mapOrphanBlocksByPrev' = {o \in mapOrphanBlocksByPrev : Parent[o] # Head(vWorkQueue)}
      /\ vWorkQueue' = Tail(vWorkQueue)
      /\ asked' = {}
      /\ UNCHANGED <<mapBlockIndex, mapOrphanBlocks, setStakeSeen, setStakeSeenOrphan,
                     hashPendingCheckpoint, taken>>
  BY DEF NextInQueue
<1>2. vWorkQueue \in Seq(Block)
  BY DEF TypeOK
<1>3. /\ vWorkQueue' \in Seq(Block)
      /\ Len(vWorkQueue) \in Nat
      /\ Len(vWorkQueue') = Len(vWorkQueue) - 1
      /\ \A n \in 1..Len(vWorkQueue') : vWorkQueue'[n] = vWorkQueue[n + 1]
      /\ Head(vWorkQueue) = vWorkQueue[1]
  <2>1. Len(vWorkQueue) \in Nat
    BY <1>2, LenProperties
  <2>2. /\ Tail(vWorkQueue) \in Seq(Block)
        /\ Len(Tail(vWorkQueue)) = Len(vWorkQueue) - 1
        /\ \A n \in 1..Len(Tail(vWorkQueue)) : Tail(vWorkQueue)[n] = vWorkQueue[n + 1]
    BY <1>1, <1>2, HeadTailProperties
  <2>3. Head(vWorkQueue) = vWorkQueue[1]
    BY <1>1, <1>2
  <2> QED BY <1>1, <2>1, <2>2, <2>3
<1>4. TypeOK'
  BY <1>1, <1>3 DEF TypeOK
<1>5. Pointers'
  BY <1>1 DEF Pointers
<1>6. ASSUME NEW b, InQueue(b), b # Head(vWorkQueue)
      PROVE  InQueue(b)'
  <2>1. PICK n \in 1..Len(vWorkQueue) : vWorkQueue[n] = b
    BY <1>6 DEF InQueue
  <2>2. n # 1
    BY <1>3, <1>6, <2>1
  <2>3. n - 1 \in 1..Len(vWorkQueue') /\ vWorkQueue'[n - 1] = b
    BY <1>3, <2>1, <2>2
  <2> QED BY <2>3 DEF InQueue
<1>7. Reached'
  BY <1>1, <1>6 DEF Reached
<1>8. NotLost'
  BY <1>1 DEF NotLost
<1>9. Held' /\ StakesFollowOrphans'
  BY <1>1 DEF Held, StakesFollowOrphans, Refused, Stakes
<1> QED BY <1>4, <1>5, <1>7, <1>8, <1>9

\* A checkpoint that becomes pending changes no map.
LEMMA AwaitCheckpointStep ==
    ASSUME IndInv, NEW h \in Block, AwaitCheckpoint(h)
    PROVE  IndInv'
<1> USE DEF IndInv
<1>1. /\ hashPendingCheckpoint' = h
      /\ asked' = {IF h \in mapOrphanBlocks THEN WantedByOrphan(h) ELSE h}
      /\ UNCHANGED <<maps, vWorkQueue, taken>>
  BY DEF AwaitCheckpoint
<1>2. asked' \subseteq Block
  BY <1>1, WantedType DEF TypeOK, Loose
<1>3. TypeOK'
  BY <1>1, <1>2 DEF TypeOK, maps
<1> QED BY <1>1, <1>3 DEF Pointers, Reached, InQueue, NotLost, Held, StakesFollowOrphans,
                          Refused, Stakes, maps

-----------------------------------------------------------------------------
(***************************************************************************)
(* The theorems.                                                           *)
(***************************************************************************)

\* The invariant holds for blocks in any order, with any outcome.
THEOREM Invariance == Spec => []IndInv
<1>1. IndInv /\ [Next]_vars => IndInv'
  <2> SUFFICES ASSUME IndInv, [Next]_vars PROVE IndInv'
    OBVIOUS
  <2>1. ASSUME NEW b \in Block \ {Genesis}, HoldOrphan(b) \/ ProcessBlock(b) \/ ProcessOrphan(b)
        PROVE  IndInv'
    BY <2>1, HoldOrphanStep, ProcessBlockStep, ProcessOrphanStep DEF Loose
  <2>2. CASE NextInQueue
    BY <2>2, NextInQueueStep
  <2>3. ASSUME NEW h \in Block, AwaitCheckpoint(h)
        PROVE  IndInv'
    BY <2>3, AwaitCheckpointStep
  <2>4. CASE UNCHANGED vars
    BY <2>4 DEF vars, maps, IndInv, TypeOK, Pointers, Reached, InQueue, NotLost, Held,
                StakesFollowOrphans, Refused, Stakes
  <2> QED BY <2>1, <2>2, <2>3, <2>4 DEF Next
<1> QED BY InitInv, <1>1, PTL DEF Spec

\* What ProcessBlock keeps and asks for are blocks and stakes.
THEOREM TypeCorrect == Spec => []TypeOK
<1>1. IndInv => TypeOK
  BY DEF IndInv
<1> QED BY <1>1, Invariance, PTL

\* No pointer to a deleted block survives the processing of a message.
THEOREM HoldingAreaAgreement == Spec => []HoldingAreaAgrees
<1>1. IndInv => HoldingAreaAgrees
  BY DEF IndInv, Pointers, HoldingAreaAgrees, Idle
<1> QED BY <1>1, Invariance, PTL

\* setStakeSeenOrphan refuses nothing on behalf of a block that is gone, and
\* the stake of a block that is held stays seen unless its twin was refused.
THEOREM StakesOfOrphans == Spec => []StakesFollowOrphans
<1>1. IndInv => StakesFollowOrphans
  BY DEF IndInv
<1> QED BY <1>1, Invariance, PTL

\* The work queue of ProcessBlock reaches every orphan it can process.
THEOREM QueueIsComplete == Spec => []NoOrphanLeftBehind
<1>1. IndInv => NoOrphanLeftBehind
  BY DEF IndInv, Reached, InQueue, NoOrphanLeftBehind, Idle
<1> QED BY <1>1, Invariance, PTL

\* Blocks may come in any order.
THEOREM OrderIrrelevant == Spec => []OrderDoesNotMatter
<1>1. IndInv => OrderDoesNotMatter
  <2> SUFFICES ASSUME IndInv, Idle, NEW b \in taken, AcceptedInFull(b), b \notin mapBlockIndex
               PROVE  FALSE
    BY DEF OrderDoesNotMatter
  <2>1. PICK A \in SUBSET taken :
            /\ b \in A
            /\ \A x \in A \ {Genesis} : Outcome[x] = {"accepted"} /\ Parent[x] \in A
    BY DEF AcceptedInFull
  <2> DEFINE S == {x \in A : x \notin mapBlockIndex}
  <2>2. S \subseteq Block \ {Genesis} /\ S # {}
    BY <2>1 DEF IndInv, TypeOK, Reached
  <2>3. PICK x \in S : Parent[x] \notin S
    BY <2>2, NoCircleAssumption
  <2>4. /\ x \in mapOrphanBlocks
        /\ Parent[x] \in A /\ Parent[x] \in mapBlockIndex
    BY <2>1, <2>2, <2>3 DEF IndInv, NotLost
  <2>5. Parent[x] # Genesis
    BY <2>4 DEF IndInv, Reached
  <2>6. Parent[x] \notin MayFail
    BY <2>1, <2>4, <2>5 DEF MayFail
  <2> QED BY <2>4, <2>6 DEF IndInv, Reached, InQueue, Idle
<1> QED BY <1>1, Invariance, PTL

\* A peer is asked only for blocks that are news.
THEOREM AsksOnlyForMissing == Spec => AsksForMissing
<1> DEFINE Fresh == asked' \cap ((mapBlockIndex \ MayFail) \cup mapOrphanBlocks) = {}
<1>1. IndInv /\ [Next]_vars => [Fresh]_vars
  <2> SUFFICES ASSUME IndInv, Next PROVE Fresh
    OBVIOUS
  <2>1. PendingWanted \cap (mapBlockIndex \cup mapOrphanBlocks) = {}
    BY DEF PendingWanted
  <2>2. ASSUME NEW b \in Block \ {Genesis}, HoldOrphan(b)
        PROVE  Fresh
    <3>1. Idle /\ Parent[b] \notin mapBlockIndex
      BY <2>2 DEF HoldOrphan, NewBlock, Idle
    <3>2. WantedByOrphan(b) \notin (mapBlockIndex \ MayFail) \cup mapOrphanBlocks
      BY <3>1, WantedIsMissing DEF Loose
    <3> QED BY <2>1, <2>2, <3>2 DEF HoldOrphan
  <2>3. ASSUME NEW b \in Block \ {Genesis}, ProcessBlock(b)
        PROVE  Fresh
    BY <2>1, <2>3 DEF ProcessBlock
  <2>4. ASSUME NEW b \in Block \ {Genesis}, ProcessOrphan(b)
        PROVE  Fresh
    BY <2>4 DEF ProcessOrphan
  <2>5. CASE NextInQueue
    BY <2>5 DEF NextInQueue
  <2>6. ASSUME NEW h \in Block, AwaitCheckpoint(h)
        PROVE  Fresh
    <3>1. Idle /\ h \notin mapBlockIndex
      BY <2>6 DEF AwaitCheckpoint, Idle
    <3>2. CASE h \in mapOrphanBlocks
      <4>1. h \in Loose
        BY <3>2 DEF IndInv, TypeOK, Loose
      <4>2. WantedByOrphan(h) \notin (mapBlockIndex \ MayFail) \cup mapOrphanBlocks
        BY <3>1, <3>2, <4>1, WantedIsMissing
      <4> QED BY <2>6, <3>2, <4>2 DEF AwaitCheckpoint
    <3>3. CASE h \notin mapOrphanBlocks
      BY <2>6, <3>1, <3>3 DEF AwaitCheckpoint
    <3> QED BY <3>2, <3>3
  <2> QED BY <2>2, <2>3, <2>4, <2>5, <2>6 DEF Next
<1> QED BY <1>1, Invariance, PTL DEF Spec, AsksForMissing

\* The duplicate-stake checks of ProcessBlock refuse nothing that a held
\* block waits for: the first block of its chain is an orphan child.
THEOREM WantedBlocksGetIn == Spec => []WantedIsLetIn
<1>1. IndInv => WantedIsLetIn
  <2> SUFFICES ASSUME IndInv, Idle, NEW o \in mapOrphanBlocks,
                      WantedByOrphan(o) \notin mapBlockIndex
               PROVE  /\ NewBlock(WantedByOrphan(o))
                      /\ StakeIsAllowed(WantedByOrphan(o), setStakeSeenOrphan)
    BY DEF WantedIsLetIn
  <2>1. mapOrphanBlocks \subseteq Loose
    BY DEF IndInv, TypeOK, Loose
  <2>2. /\ GetOrphanRoot[o] \in mapOrphanBlocks
        /\ Parent[GetOrphanRoot[o]] \notin mapOrphanBlocks
    BY <2>1, RootIsFirst
  <2>3. HasOrphanChild(WantedByOrphan(o))
    BY <2>2 DEF HasOrphanChild, WantedByOrphan, IndInv, Pointers
  <2>4. WantedByOrphan(o) \notin mapOrphanBlocks
    BY <2>2 DEF WantedByOrphan
  <2> QED BY <2>3, <2>4 DEF NewBlock, StakeIsAllowed, Idle
<1> QED BY <1>1, Invariance, PTL
=============================================================================
