-------------------------- MODULE BlockSync_proofs --------------------------
(***************************************************************************)
(* Proofs about BlockSync: its types, and that nothing the peer announces  *)
(* is forgotten, for any number of blocks, any batch size and any pattern  *)
(* of proof-of-work blocks and stakes.  Fairness is not used.              *)
(***************************************************************************)
EXTENDS BlockSync, SequenceTheorems, TLAPS

(***************************************************************************)
(* The two loops over inventories, round by round.                         *)
(***************************************************************************)
PushBody(p, v, h)     == PushInventory(v, h)
AnnounceBody(p, r, h) == Announce(r, h)

PushLoop     == INSTANCE FoldFacts WITH op <- PushBody
AnnounceLoop == INSTANCE FoldFacts WITH op <- AnnounceBody

\* What PushInventory keeps is kept by the loop over a getblocks.
LEMMA PushAllFacts ==
    ASSUME NEW S, NEW v \in Seq(S), NEW hs \in Seq(S)
    PROVE  PushAll(v, hs) \in Seq(S)
<1>1. PushAll(v, hs) = PushLoop!Fold(0, v, hs)
  BY DEF PushAll, FoldLeft, MapThenFoldSet, Max, PushLoop!Fold, PushLoop!Largest, PushBody
<1>2. PICK acc : PushLoop!Accumulates(acc, 0, v, hs) /\ PushLoop!Fold(0, v, hs) = acc[Len(hs)]
  BY PushLoop!FoldSteps
<1> DEFINE T == {n \in 0 .. Len(hs) : acc[n] \in Seq(S)}
<1>3. Len(hs) \in Nat /\ \A n \in 0 .. Len(hs) - 1 : hs[n + 1] \in S
  OBVIOUS
<1>4. 0 \in T
  BY <1>2, <1>3 DEF PushLoop!Accumulates
<1>5. ASSUME NEW n \in 0 .. Len(hs) - 1, n \in T PROVE n + 1 \in T
  <2>1. acc[n + 1] = PushInventory(acc[n], hs[n + 1])
    BY <1>2 DEF PushLoop!Accumulates, PushBody
  <2>2. acc[n] \in Seq(S) /\ hs[n + 1] \in S /\ n + 1 \in 0 .. Len(hs)
    BY <1>3, <1>5
  <2>3. Append(acc[n], hs[n + 1]) \in Seq(S)
    BY <2>2
  <2> QED BY <2>1, <2>2, <2>3 DEF PushInventory
<1> HIDE DEF T
<1>6. Len(hs) \in T
  BY <1>3, <1>4, <1>5, PushLoop!CountUp
<1> QED BY <1>1, <1>2, <1>6 DEF T

\* vInv has what is announced for the first time, and nothing else.
LEMMA AnnounceAllFacts ==
    ASSUME NEW S, NEW known \in SUBSET S, NEW hs \in Seq(S)
    PROVE  LET r == AnnounceAll(known, hs) IN
           /\ r[1] \in Seq(S) /\ r[2] \in SUBSET S
           /\ r[2] = known \cup {r[1][k] : k \in 1 .. Len(r[1])}
<1>1. AnnounceAll(known, hs) = AnnounceLoop!Fold(0, <<<<>>, known>>, hs)
  BY DEF AnnounceAll, FoldLeft, MapThenFoldSet, Max, AnnounceLoop!Fold, AnnounceLoop!Largest,
         AnnounceBody
<1>2. PICK acc : /\ AnnounceLoop!Accumulates(acc, 0, <<<<>>, known>>, hs)
                 /\ AnnounceLoop!Fold(0, <<<<>>, known>>, hs) = acc[Len(hs)]
  BY AnnounceLoop!FoldSteps
<1> DEFINE Ok(r) == /\ r[1] \in Seq(S) /\ r[2] \in SUBSET S
                    /\ r[2] = known \cup {r[1][k] : k \in 1 .. Len(r[1])}
           T == {n \in 0 .. Len(hs) : Ok(acc[n])}
<1>3. Len(hs) \in Nat /\ \A n \in 0 .. Len(hs) - 1 : hs[n + 1] \in S
  OBVIOUS
<1>4. 0 \in T
  <2>1. acc[0] = <<<<>>, known>>
    BY <1>2 DEF AnnounceLoop!Accumulates
  <2>2. 1 .. 0 = {}
    OBVIOUS
  <2>3. Ok(acc[0])
    BY <2>1, <2>2
  <2> QED BY <1>3, <2>3
<1>5. ASSUME NEW n \in 0 .. Len(hs) - 1, n \in T PROVE n + 1 \in T
  <2> DEFINE r == acc[n]
             h == hs[n + 1]
             u == acc[n + 1]
  <2>1. u = Announce(r, h)
    BY <1>2 DEF AnnounceLoop!Accumulates, AnnounceBody
  <2>2. Ok(r) /\ h \in S /\ n + 1 \in 0 .. Len(hs)
    BY <1>3, <1>5
  <2> HIDE DEF r, h, u
  <2>3. CASE h \in r[2]
    BY <2>1, <2>2, <2>3 DEF Announce, u
  <2>4. CASE h \notin r[2]
    <3>1. u[1] = Append(r[1], h) /\ u[2] = r[2] \cup {h}
      BY <2>1, <2>4 DEF Announce
    <3>2. /\ u[1] \in Seq(S) /\ Len(r[1]) \in Nat /\ Len(u[1]) = Len(r[1]) + 1
          /\ u[1][Len(r[1]) + 1] = h /\ \A k \in 1 .. Len(r[1]) : u[1][k] = r[1][k]
      BY <2>2, <3>1
    <3>3. 1 .. Len(r[1]) + 1 = (1 .. Len(r[1])) \cup {Len(r[1]) + 1}
      BY <3>2
    <3>4. {u[1][k] : k \in 1 .. Len(u[1])} = {r[1][k] : k \in 1 .. Len(r[1])} \cup {h}
      <4>1. {u[1][k] : k \in 1 .. Len(u[1])} = {u[1][k] : k \in 1 .. Len(r[1])} \cup {h}
        BY <3>2, <3>3
      <4>2. {u[1][k] : k \in 1 .. Len(r[1])} = {r[1][k] : k \in 1 .. Len(r[1])}
        BY <3>2
      <4> QED BY <4>1, <4>2
    <3>5. Ok(u)
      BY <2>2, <3>1, <3>2, <3>4
    <3> QED BY <2>2, <3>5 DEF u
  <2> QED BY <2>3, <2>4
<1> HIDE DEF T, Ok
<1>6. Len(hs) \in T
  BY <1>3, <1>4, <1>5, AnnounceLoop!CountUp
<1> QED BY <1>1, <1>2, <1>6 DEF T, Ok

-----------------------------------------------------------------------------
(***************************************************************************)
(* The choices of the model have something to choose.                      *)
(***************************************************************************)
\* The peer has a last proof-of-work block, the genesis block at least.
LEMMA LastProofOfWorkFacts ==
    ASSUME top \in Height
    PROVE  LastProofOfWork \in 0..top
<1> DEFINE F == ProofOfWork \cap 0..top
<1>1. top \in Nat /\ 0 \in F /\ F \subseteq 0..top
  BY SyncAssumption DEF Height
<1>2. \E m \in F : \A n \in F : m >= n
  <2> HIDE DEF F
  <2> QED BY <1>1, PushLoop!GreatestExists
<1>3. \A m, n \in F : m >= n <=> n <= m
  BY <1>1
<1>4. \E m \in F : \A n \in F : n <= m
  BY <1>2, <1>3
<1> QED BY <1>1, <1>4 DEF LastProofOfWork

\* A run of orphans has a lowest one.
LEMMA OrphanRootFacts ==
    ASSUME NEW O \in SUBSET Nat, NEW h \in O
    PROVE  OrphanRoot(O, h) \in O
<1> DEFINE F == {r \in O : r <= h /\ r..h \subseteq O}
<1>1. F \subseteq Nat /\ h \in F
  <2>1. h \in Nat /\ h <= h /\ h..h = {h}
    OBVIOUS
  <2> QED BY <2>1
<1>2. PICK r \in F : \A n \in F : r <= n
  <2> HIDE DEF F
  <2> QED BY <1>1, PushLoop!LeastExists
<1>3. r - 1 \notin O
  <2> SUFFICES ASSUME r - 1 \in O PROVE FALSE
    OBVIOUS
  <2>1. r \in Nat /\ h \in Nat /\ r - 1 \in Nat /\ r <= h
    BY <1>2
  <2>2. (r - 1)..h = {r - 1} \cup r..h
    BY <2>1
  <2>3. r - 1 \in F
    BY <2>1, <2>2
  <2>4. r <= r - 1
    BY <1>2, <2>3
  <2> QED BY ONLY <2>1, <2>4
<1>4. r \in O /\ r <= h /\ r..h \subseteq O
  OBVIOUS
<1> QED BY <1>3, <1>4 DEF OrphanRoot

\* What follows a block without a gap has an end.
LEMMA ConnectedFacts ==
    ASSUME top \in Nat, mapOrphanBlocks \in SUBSET (0..top), NEW h \in 0..top
    PROVE  /\ Connected(h) \in h..top
           /\ (h + 1)..Connected(h) \subseteq mapOrphanBlocks
           /\ Connected(h) + 1 \notin mapOrphanBlocks
<1> DEFINE F == {k \in h..top : (h + 1)..k \subseteq mapOrphanBlocks}
<1>1. h \in Nat /\ F \subseteq 0..top /\ h \in F
  OBVIOUS
<1>2. PICK k \in F : \A n \in F : k >= n
  <2> HIDE DEF F
  <2> QED BY <1>1, PushLoop!GreatestExists
<1>3. k + 1 \notin mapOrphanBlocks
  <2> SUFFICES ASSUME k + 1 \in mapOrphanBlocks PROVE FALSE
    OBVIOUS
  <2>1. k \in Nat /\ h <= k /\ k + 1 <= top /\ k + 1 \in h..top
    BY <1>1
  <2>2. (h + 1)..(k + 1) = (h + 1)..k \cup {k + 1}
    BY <1>1, <2>1
  <2>3. k + 1 \in F
    BY <2>1, <2>2
  <2>4. k >= k + 1
    BY <1>2, <2>3
  <2> QED BY ONLY <2>1, <2>4
<1>4. k \in h..top /\ (h + 1)..k \subseteq mapOrphanBlocks
  OBVIOUS
<1> QED BY <1>3, <1>4 DEF Connected

-----------------------------------------------------------------------------
(***************************************************************************)
(* Messages under way, and blocks to be asked for: what a receipt and a    *)
(* send do to them.                                                        *)
(***************************************************************************)
Queued(s, h) == \E n \in 1..Len(s) : s[n] = h

\* A receipt takes away the first message and no other.
LEMMA ReceiptFacts ==
    ASSUME NEW S, NEW c \in Seq(S), c # <<>>
    PROVE  /\ Head(c) \in S /\ Tail(c) \in Seq(S)
           /\ \A t, h : InFlight(c, t, h) => \/ Head(c).type = t /\ Head(c).h = h
                                             \/ InFlight(Tail(c), t, h)
           /\ \A h : Queued(c, h) => Head(c) = h \/ Queued(Tail(c), h)
<1> DEFINE d == Tail(c)
<1>1. /\ Len(c) \in Nat \ {0} /\ d \in Seq(S) /\ Len(d) = Len(c) - 1
      /\ Head(c) = c[1] /\ Head(c) \in S /\ \A n \in 1..Len(d) : d[n] = c[n + 1]
  OBVIOUS
<1> HIDE DEF d
<1>2. \A n \in 1..Len(c) : n = 1 \/ (n - 1 \in 1..Len(d) /\ d[n - 1] = c[n])
  BY <1>1
<1>3. ASSUME NEW t, NEW h, InFlight(c, t, h)
      PROVE  (Head(c).type = t /\ Head(c).h = h) \/ InFlight(d, t, h)
  BY <1>1, <1>2, <1>3 DEF InFlight
<1>4. ASSUME NEW h, Queued(c, h) PROVE Head(c) = h \/ Queued(d, h)
  BY <1>1, <1>2, <1>4 DEF Queued
<1> QED BY <1>1, <1>3, <1>4 DEF d

\* What is sent is under way, behind what already was.
LEMMA SendFacts ==
    ASSUME NEW S, NEW c \in Seq(S), NEW m \in S
    PROVE  /\ Append(c, m) \in Seq(S)
           /\ \A t, h : InFlight(c, t, h) => InFlight(Append(c, m), t, h)
           /\ InFlight(Append(c, m), m.type, m.h)
           /\ \A h : Queued(c, h) => Queued(Append(c, m), h)
           /\ Queued(Append(c, m), m)
<1> DEFINE d == Append(c, m)
<1>1. /\ Len(c) \in Nat /\ d \in Seq(S) /\ Len(d) = Len(c) + 1
      /\ d[Len(c) + 1] = m /\ \A n \in 1..Len(c) : d[n] = c[n]
  OBVIOUS
<1> HIDE DEF d
<1>2. Len(c) + 1 \in 1..Len(d) /\ \A n \in 1..Len(c) : n \in 1..Len(d)
  BY <1>1
<1> QED BY <1>1, <1>2 DEF d, InFlight, Queued

\* The same of several messages.
LEMMA SendAllFacts ==
    ASSUME NEW S, NEW c \in Seq(S), NEW e \in Seq(S)
    PROVE  /\ c \o e \in Seq(S)
           /\ \A t, h : InFlight(c, t, h) \/ InFlight(e, t, h) => InFlight(c \o e, t, h)
<1> DEFINE d == c \o e
<1>1. /\ Len(c) \in Nat /\ Len(e) \in Nat /\ d \in Seq(S) /\ Len(d) = Len(c) + Len(e)
      /\ \A n \in 1..Len(c) : d[n] = c[n]
      /\ \A n \in 1..Len(e) : d[Len(c) + n] = e[n]
  OBVIOUS
<1> HIDE DEF d
<1>2. /\ \A n \in 1..Len(c) : n \in 1..Len(d)
      /\ \A n \in 1..Len(e) : Len(c) + n \in 1..Len(d)
  BY <1>1
<1>3. ASSUME NEW t, NEW h, InFlight(c, t, h) PROVE InFlight(d, t, h)
  BY <1>1, <1>2, <1>3 DEF InFlight
<1>4. ASSUME NEW t, NEW h, InFlight(e, t, h) PROVE InFlight(d, t, h)
  BY <1>1, <1>2, <1>4 DEF InFlight
<1> QED BY <1>1, <1>3, <1>4 DEF d

\* A sequence of some elements is one of more elements.
LEMMA SeqOfMore ==
    ASSUME NEW S, NEW T, S \subseteq T, NEW s \in Seq(S)
    PROVE  s \in Seq(T)
OBVIOUS


-----------------------------------------------------------------------------
(***************************************************************************)
(* The invariant.  TypeOK bounds a message by the largest height there may *)
(* be; the induction needs that it is about a block the peer has, and      *)
(* which messages go in which direction.                                   *)
(***************************************************************************)
Request == [type : {"getblocks"}, begin : 0..top, end : Height]
             \cup [type : {"getdata"}, h : 1..top]
Answer  == [type : {"block"}, h : 1..top] \cup [type : {"inv"}, h : 0..top, last : BOOLEAN]

PeerOk ==
    /\ top \in Height /\ setInventoryKnown \in SUBSET (1..top)
    /\ vInventoryToSend \in Seq(1..top) /\ hashContinue \in 0..top
    /\ nMute \in 0..MaxMute

ChainOk == pindexBest \in 0..top /\ mapOrphanBlocks \in SUBSET ((pindexBest + 2)..top)

AskOk ==
    /\ lastGetBlocks \in Height \X Height
    /\ mapAlreadyAskedFor \in SUBSET (1..top) /\ retry \in SUBSET (1..top)
    /\ mapAskFor \in Seq(1..top)

WireOk == toPeer \in Seq(Request) /\ toNode \in Seq(Answer)

(* What NothingForgotten says of one block.                                *)
Kept(h) ==
    \/ AlreadyHave(h)
    \/ h \in retry \/ Queued(mapAskFor, h)
    \/ InFlight(toNode, "inv", h) \/ InFlight(toNode, "block", h)
    \/ InFlight(toPeer, "getdata", h)

Checkable == ProofOfWork \cup 1..nStakeMinAge

AllKept == \A h \in setInventoryKnown \cap Checkable : Kept(h)

IInv == /\ PeerOk /\ ChainOk /\ fLastUpdate \in BOOLEAN /\ AskOk /\ WireOk
        /\ AllKept

\* The invariant holds when the node has connected.
LEMMA InitInvariant == Init => IInv
<1> SUFFICES ASSUME Init PROVE IInv
  OBVIOUS
<1>1. top \in Height /\ 0 \in Height /\ MaxMute \in Nat /\ top \in Nat
  BY SyncAssumption DEF Init, Height
<1>2. 0 \in 0..top /\ 0 \in 0..MaxMute
  BY <1>1
<1>3. [type |-> "getblocks", begin |-> 0, end |-> 0] \in Request
  BY <1>1, <1>2 DEF Request
<1>4. WireOk
  BY <1>3 DEF Init, WireOk
<1>5. PeerOk
  BY <1>1, <1>2 DEF Init, PeerOk
<1>6. ChainOk /\ fLastUpdate \in BOOLEAN /\ AskOk
  <2>1. <<0, 0>> \in Height \X Height /\ 0 \in 0..top
    BY <1>1, <1>2
  <2>2. lastGetBlocks = <<0, 0>> /\ pindexBest = 0 /\ mapOrphanBlocks = {}
    BY DEF Init
  <2>3. fLastUpdate \in BOOLEAN
    BY DEF Init
  <2>4. ChainOk
    BY <2>1, <2>2 DEF ChainOk
  <2>5. AskOk
    BY <2>1 DEF Init, AskOk
  <2> QED BY <2>3, <2>4, <2>5
<1>7. AllKept
  BY DEF Init, AllKept
<1> QED BY <1>4, <1>5, <1>6, <1>7 DEF IInv

\* The numbers the steps below calculate with.
LEMMA Numbers ==
    ASSUME IInv
    PROVE  /\ MaxHeight \in Nat /\ nLimit \in Nat \ {0} /\ nStakeMinAge \in Nat
           /\ top \in Nat /\ top <= MaxHeight /\ pindexBest \in Nat /\ pindexBest <= top
           /\ 0..top \subseteq Height /\ 1..top \subseteq 0..top
           /\ mapOrphanBlocks \in SUBSET Nat
<1>1. MaxHeight \in Nat /\ nLimit \in Nat \ {0} /\ nStakeMinAge \in Nat
  BY SyncAssumption
<1>2. top \in Nat /\ top <= MaxHeight /\ pindexBest \in Nat /\ pindexBest <= top
  BY <1>1 DEF IInv, PeerOk, ChainOk, Height
<1>3. 0..top \subseteq Height /\ 1..top \subseteq 0..top
  BY <1>1, <1>2 DEF Height
<1>4. (pindexBest + 2)..top \subseteq Nat
  BY <1>2
<1> QED BY <1>1, <1>2, <1>3, <1>4 DEF IInv, ChainOk

\* A block that is kept stays kept while nothing is taken out of what
\* keeps it.
LEMMA KeptStep ==
    ASSUME AllKept, setInventoryKnown' = setInventoryKnown,
           \A h \in setInventoryKnown \cap Checkable : Kept(h) => Kept(h)'
    PROVE  AllKept'
BY DEF AllKept, Checkable


-----------------------------------------------------------------------------
(***************************************************************************)
(* The peer.                                                               *)
(***************************************************************************)
\* The peer announces blocks it has, and ends a batch at one it has.
LEMMA AnswerFacts ==
    ASSUME IInv, NEW begin \in 0..top, NEW end \in Height, AnswerGetBlocks(begin, end)
    PROVE  vInventoryToSend' \in Seq(1..top) /\ hashContinue' \in 0..top
<1> DEFINE last == IF StopsAt(begin, end) THEN end - 1
                   ELSE IF begin + nLimit < top THEN begin + nLimit ELSE top
           tell == IF StopsAt(begin, end) /\ end # top /\ end + nStakeMinAge > top
                   THEN <<top>> ELSE <<>>
           told == [n \in 1..(last - begin) |-> begin + n]
<1>1. /\ top \in Nat /\ begin \in Nat /\ end \in Nat /\ nLimit \in Nat /\ begin <= top
      /\ StopsAt(begin, end) => begin + 1 <= end /\ end <= top
  BY Numbers DEF Height, StopsAt
<1>2. last \in Nat /\ last <= top /\ begin <= last
  BY <1>1
<1>3. tell \in Seq(1..top)
  <2>1. StopsAt(begin, end) => top \in 1..top
    BY <1>1
  <2>2. ASSUME top \in 1..top PROVE <<top>> \in Seq(1..top)
    BY <2>2
  <2>3. <<>> \in Seq(1..top)
    OBVIOUS
  <2> QED BY <2>1, <2>2, <2>3
<1>4. /\ vInventoryToSend' = PushAll(vInventoryToSend, told \o tell)
      /\ hashContinue' = IF ~StopsAt(begin, end) /\ begin + nLimit <= top
                         THEN begin + nLimit ELSE hashContinue
  BY DEF AnswerGetBlocks
<1>5. hashContinue' \in 0..top
  BY <1>1, <1>4 DEF IInv, PeerOk
<1> HIDE DEF last, tell
<1>6. told \in Seq(1..top)
  <2>1. last - begin \in Nat /\ \A n \in 1..(last - begin) : begin + n \in 1..top
    BY <1>1, <1>2
  <2>2. \A n \in 1..(last - begin) : told[n] \in 1..top
    BY <2>1
  <2>3. told = [n \in 1..(last - begin) |-> told[n]]
    OBVIOUS
  <2> DEFINE N == last - begin
             B == 1..top
  <2>4. N \in Nat /\ told = [n \in 1..N |-> told[n]] /\ \A n \in 1..N : told[n] \in B
    BY <2>1, <2>2, <2>3
  <2> HIDE DEF told, N, B
  <2>5. told \in Seq(B)
    BY <2>4
  <2> QED BY <2>5 DEF B
<1> HIDE DEF told
<1>7. told \o tell \in Seq(1..top)
  BY <1>3, <1>6
<1> QED BY <1>4, <1>5, <1>7, PushAllFacts DEF IInv, PeerOk

\* The peer answers a getblocks.
LEMMA GetBlocksStep == IInv /\ PeerGetBlocks => IInv'
<1> SUFFICES ASSUME IInv, PeerGetBlocks PROVE IInv'
  OBVIOUS
<1> DEFINE m == Head(toPeer)
<1>1. /\ toPeer \in Seq(Request) /\ toPeer # <<>> /\ m.type = "getblocks"
      /\ AnswerGetBlocks(m.begin, m.end) /\ toPeer' = Tail(toPeer)
      /\ UNCHANGED <<node, lastGetBlocks, ask, top, setInventoryKnown, toNode, nMute>>
  BY DEF IInv, WireOk, PeerGetBlocks, Receive
<1>2. m \in Request /\ Tail(toPeer) \in Seq(Request)
  BY <1>1
<1>3. m.begin \in 0..top /\ m.end \in Height
  BY <1>1, <1>2 DEF Request
<1> HIDE DEF m
<1>4. vInventoryToSend' \in Seq(1..top) /\ hashContinue' \in 0..top
  BY <1>1, <1>3, AnswerFacts
<1>5. PeerOk'
  BY <1>1, <1>4 DEF IInv, PeerOk, Height
<1>6. ChainOk' /\ (fLastUpdate \in BOOLEAN)' /\ AskOk'
  BY <1>1 DEF IInv, ChainOk, AskOk, node, ask, Height
<1>7. WireOk'
  <2>1. Request' = Request /\ Answer' = Answer
    BY <1>1 DEF Request, Answer, Height
  <2> QED BY <1>1, <1>2, <2>1 DEF IInv, WireOk
<1>8. AllKept'
  <2>1. \A h : InFlight(toPeer, "getdata", h) => InFlight(toPeer', "getdata", h)
    BY <1>1, ReceiptFacts DEF m
  <2>2. \A h : Kept(h) => Kept(h)'
    BY <1>1, <2>1 DEF Kept, AlreadyHave, node, ask
  <2> QED BY <1>1, <2>2, KeptStep DEF IInv
<1> QED BY <1>5, <1>6, <1>7, <1>8 DEF IInv

\* What the peer announces is kept, in the announcement.
LEMMA SendInvStep == IInv /\ PeerSendInv => IInv'
<1> SUFFICES ASSUME IInv, PeerSendInv PROVE IInv'
  OBVIOUS
<1> DEFINE r == AnnounceAll(setInventoryKnown, vInventoryToSend)
           e == [n \in 1..Len(r[1]) |->
                    [type |-> "inv", h |-> r[1][n], last |-> n = Len(r[1])]]
<1>1. /\ toNode' = toNode \o e /\ setInventoryKnown' = r[2] /\ vInventoryToSend' = <<>>
      /\ UNCHANGED <<node, lastGetBlocks, ask, top, hashContinue, toPeer, nMute>>
  BY DEF PeerSendInv
<1>2. /\ r[1] \in Seq(1..top) /\ r[2] \in SUBSET (1..top)
      /\ r[2] = setInventoryKnown \cup {r[1][k] : k \in 1 .. Len(r[1])}
  <2>1. setInventoryKnown \in SUBSET (1..top) /\ vInventoryToSend \in Seq(1..top)
    BY DEF IInv, PeerOk
  <2> HIDE DEF r
  <2> QED BY <2>1, AnnounceAllFacts DEF r
<1> HIDE DEF r
<1>3. Request' = Request /\ Answer' = Answer
  BY <1>1 DEF Request, Answer, Height
<1>4. e \in Seq(Answer) /\ Len(e) = Len(r[1])
  <2>1. Len(r[1]) \in Nat /\ \A n \in 1..Len(r[1]) : r[1][n] \in 0..top
    BY <1>2, Numbers
  <2>2. ASSUME NEW n \in 1..Len(r[1]) PROVE e[n] \in Answer
    <3>1. (n = Len(r[1])) \in BOOLEAN /\ r[1][n] \in 0..top
      BY <2>1
    <3>2. \A x \in 0..top : \A b \in BOOLEAN :
             [type |-> "inv", h |-> x, last |-> b] \in Answer
      BY DEF Answer
    <3> QED BY <3>1, <3>2
  <2>3. DOMAIN e = 1..Len(r[1])
    OBVIOUS
  <2>4. e = [n \in 1..Len(r[1]) |-> e[n]]
    OBVIOUS
  <2> HIDE DEF e
  <2> QED BY <2>1, <2>2, <2>3, <2>4
<1>5. \A k \in 1..Len(r[1]) : InFlight(e, "inv", r[1][k])
  BY <1>4 DEF InFlight
<1> HIDE DEF e
<1>6. /\ toNode' \in Seq(Answer)
      /\ \A t, h : InFlight(toNode, t, h) \/ InFlight(e, t, h) => InFlight(toNode', t, h)
  BY <1>1, <1>4, SendAllFacts DEF IInv, WireOk
<1>7. WireOk'
  BY <1>1, <1>3, <1>6 DEF IInv, WireOk
<1>8. PeerOk'
  BY <1>1, <1>2 DEF IInv, PeerOk, Height
<1>9. ChainOk' /\ (fLastUpdate \in BOOLEAN)' /\ AskOk'
  BY <1>1 DEF IInv, ChainOk, AskOk, node, ask, Height
<1>10. AllKept'
  <2>1. \A h : Kept(h) => Kept(h)'
    BY <1>1, <1>6 DEF Kept, AlreadyHave, node, ask
  <2> DEFINE new == {r[1][k] : k \in 1 .. Len(r[1])}
  <2>2. \A x \in new : InFlight(toNode', "inv", x)
    BY <1>5, <1>6
  <2>3. setInventoryKnown' = setInventoryKnown \cup new
    BY <1>1, <1>2
  <2> HIDE DEF new
  <2>4. ASSUME NEW x \in setInventoryKnown' \cap Checkable PROVE Kept(x)'
    <3>1. CASE x \in setInventoryKnown
      BY <2>1, <2>4, <3>1 DEF IInv, AllKept
    <3>2. CASE x \in new
      BY <2>2, <3>2 DEF Kept
    <3> QED BY <2>3, <3>1, <3>2
  <2> QED BY <2>4 DEF AllKept, Checkable
<1> QED BY <1>7, <1>8, <1>9, <1>10 DEF IInv

\* A request that is answered is followed by its answer.
LEMMA GetDataStep == IInv /\ PeerGetData => IInv'
<1> SUFFICES ASSUME IInv, PeerGetData PROVE IInv'
  OBVIOUS
<1> DEFINE h == Head(toPeer).h
           b == [type |-> "block", h |-> h]
           e == IF h # hashContinue THEN <<>>
                ELSE <<[type |-> "inv", h |-> LastProofOfWork, last |-> TRUE]>>
<1>1. /\ toPeer \in Seq(Request) /\ toPeer # <<>> /\ Head(toPeer).type = "getdata"
      /\ toNode' = Append(toNode, b) \o e
      /\ hashContinue' = IF h = hashContinue THEN 0 ELSE hashContinue
      /\ toPeer' = Tail(toPeer)
      /\ UNCHANGED <<node, lastGetBlocks, ask, top, setInventoryKnown,
                     vInventoryToSend, nMute>>
  BY DEF IInv, WireOk, PeerGetData, Receive
<1>2. Head(toPeer) \in Request /\ Tail(toPeer) \in Seq(Request)
  BY <1>1
<1>3. h \in 1..top
  BY <1>1, <1>2 DEF Request
<1>4. Request' = Request /\ Answer' = Answer
  BY <1>1 DEF Request, Answer, Height
<1>5. b \in Answer
  BY <1>3 DEF Answer
<1>6. e \in Seq(Answer)
  <2>1. LastProofOfWork \in 0..top
    BY LastProofOfWorkFacts DEF IInv, PeerOk
  <2>2. \A x \in 0..top : [type |-> "inv", h |-> x, last |-> TRUE] \in Answer
    BY DEF Answer
  <2>3. [type |-> "inv", h |-> LastProofOfWork, last |-> TRUE] \in Answer
    BY <2>1, <2>2
  <2> DEFINE i == [type |-> "inv", h |-> LastProofOfWork, last |-> TRUE]
  <2> HIDE DEF i
  <2>4. <<i>> \in Seq(Answer) /\ <<>> \in Seq(Answer)
    BY <2>3 DEF i
  <2> QED BY <2>4 DEF i
<1>7. b.type = "block" /\ b.h = h
  OBVIOUS
<1>8. \A x : InFlight(toPeer, "getdata", x) => x = h \/ InFlight(toPeer', "getdata", x)
  BY <1>1, ReceiptFacts
<1> HIDE DEF h, b, e
<1> DEFINE c == Append(toNode, b)
<1>9. /\ c \in Seq(Answer) /\ InFlight(c, "block", h)
      /\ \A t, x : InFlight(toNode, t, x) => InFlight(c, t, x)
  BY <1>5, <1>7, SendFacts DEF IInv, WireOk
<1> HIDE DEF c
<1>10. /\ toNode' \in Seq(Answer) /\ InFlight(toNode', "block", h)
       /\ \A t, x : InFlight(toNode, t, x) => InFlight(toNode', t, x)
  BY <1>1, <1>6, <1>9, SendAllFacts DEF c
<1>11. WireOk'
  BY <1>1, <1>2, <1>4, <1>10 DEF WireOk
<1>12. PeerOk'
  <2>1. 0 \in 0..top
    BY Numbers
  <2> QED BY <1>1, <2>1 DEF IInv, PeerOk, Height
<1>13. ChainOk' /\ (fLastUpdate \in BOOLEAN)' /\ AskOk'
  BY <1>1 DEF IInv, ChainOk, AskOk, node, ask, Height
<1>14. AllKept'
  <2>1. \A x : Kept(x) => Kept(x)'
    BY <1>1, <1>8, <1>10 DEF Kept, AlreadyHave, node, ask
  <2> QED BY <1>1, <2>1, KeptStep DEF IInv
<1> QED BY <1>11, <1>12, <1>13, <1>14 DEF IInv

\* A new block changes nothing but the peer's chain.
LEMMA NewBlockStep == IInv /\ PeerNewBlock => IInv'
<1> SUFFICES ASSUME IInv, PeerNewBlock PROVE IInv'
  OBVIOUS
<1>1. /\ top < MaxHeight /\ top' = top + 1
      /\ vInventoryToSend' = Append(vInventoryToSend, top + 1)
      /\ UNCHANGED <<node, lastGetBlocks, ask, setInventoryKnown, hashContinue,
                     toPeer, toNode, nMute>>
  BY DEF PeerNewBlock
<1>2. /\ top' \in Height /\ 1..top \subseteq 1..top' /\ 0..top \subseteq 0..top'
      /\ (pindexBest + 2)..top \subseteq (pindexBest + 2)..top' /\ top + 1 \in 1..top'
  <2>1. MaxHeight \in Nat /\ top \in Nat /\ pindexBest \in Nat
    BY Numbers
  <2>2. top' \in Height
    BY <1>1, <2>1 DEF Height
  <2>3. \A n \in Nat : n..top \subseteq n..(top + 1)
    BY <2>1
  <2>4. top + 1 \in 1..(top + 1)
    BY <2>1
  <2>5. pindexBest + 2 \in Nat
    BY <2>1
  <2> QED BY <1>1, <2>2, <2>3, <2>4, <2>5
<1>3. Request \subseteq Request' /\ Answer \subseteq Answer'
  BY <1>2 DEF Request, Answer, Height
<1>4. toPeer \in Seq(Request') /\ toNode \in Seq(Answer')
  BY <1>3, SeqOfMore DEF IInv, WireOk
<1>5. /\ vInventoryToSend \in Seq(1..top') /\ mapAskFor \in Seq(1..top')
  BY <1>2, SeqOfMore DEF IInv, PeerOk, AskOk
<1>6. PeerOk'
  BY <1>1, <1>2, <1>5 DEF IInv, PeerOk
<1>7. ChainOk' /\ (fLastUpdate \in BOOLEAN)'
  BY <1>1, <1>2 DEF IInv, ChainOk, node
<1>8. AskOk'
  BY <1>1, <1>2, <1>5 DEF IInv, AskOk, ask, Height
<1>9. WireOk'
  BY <1>1, <1>4 DEF WireOk
<1>10. AllKept'
  <2>1. \A x : Kept(x) => Kept(x)'
    BY <1>1 DEF Kept, AlreadyHave, node, ask
  <2> QED BY <1>1, <2>1, KeptStep DEF IInv
<1> QED BY <1>6, <1>7, <1>8, <1>9, <1>10 DEF IInv


-----------------------------------------------------------------------------
(***************************************************************************)
(* The node.                                                               *)
(***************************************************************************)
\* A request for blocks is about blocks the peer has.
LEMMA PushGetBlocksFacts ==
    ASSUME IInv, NEW begin \in 0..top, NEW end \in Height, PushGetBlocks(begin, end)
    PROVE  /\ lastGetBlocks' \in Height \X Height
           /\ toPeer' \in Seq(Request)
           /\ \A h : InFlight(toPeer, "getdata", h) => InFlight(toPeer', "getdata", h)
<1> DEFINE m == [type |-> "getblocks", begin |-> begin, end |-> end]
<1>1. /\ lastGetBlocks' = <<begin, end>>
      /\ toPeer' = toPeer \/ toPeer' = Append(toPeer, m)
  BY DEF PushGetBlocks
<1>2. m \in Request /\ toPeer \in Seq(Request)
  BY DEF Request, IInv, WireOk
<1>3. begin \in Height
  BY Numbers
<1> HIDE DEF m
<1>4. lastGetBlocks' \in Height \X Height
  BY <1>1, <1>3
<1>5. /\ Append(toPeer, m) \in Seq(Request)
      /\ \A t, h : InFlight(toPeer, t, h) => InFlight(Append(toPeer, m), t, h)
  BY <1>2, SendFacts
<1> QED BY <1>1, <1>2, <1>4, <1>5

\* AskFor forgets nothing, and puts the block in one of the queues.
LEMMA AskForFacts ==
    ASSUME IInv, NEW h \in 1..top
    PROVE  LET A == AskFor(h) IN
           /\ A[1] \in SUBSET (1..top) /\ A[3] \in SUBSET (1..top) /\ A[2] \in Seq(1..top)
           /\ \A x : Queued(mapAskFor, x) => Queued(A[2], x)
           /\ retry \subseteq A[3]
           /\ Queued(A[2], h) \/ h \in A[3]
<1>1. /\ mapAlreadyAskedFor \in SUBSET (1..top) /\ retry \in SUBSET (1..top)
      /\ mapAskFor \in Seq(1..top)
  BY DEF IInv, AskOk
<1>2. /\ Append(mapAskFor, h) \in Seq(1..top) /\ Queued(Append(mapAskFor, h), h)
      /\ \A x : Queued(mapAskFor, x) => Queued(Append(mapAskFor, h), x)
  BY <1>1, SendFacts
<1>3. CASE h \in mapAlreadyAskedFor
  BY <1>1, <1>3 DEF AskFor
<1>4. CASE h \notin mapAlreadyAskedFor
  <2>1. /\ AskFor(h)[1] = mapAlreadyAskedFor \cup {h}
        /\ AskFor(h)[2] = Append(mapAskFor, h) /\ AskFor(h)[3] = retry
    BY <1>4 DEF AskFor
  <2> QED BY <1>1, <1>2, <2>1
<1> QED BY <1>3, <1>4

\* An announcement is turned into something that keeps the block.
LEMMA InvStep == IInv /\ Inv => IInv'
<1> SUFFICES ASSUME IInv, Inv PROVE IInv'
  OBVIOUS
<1> DEFINE h == Head(toNode).h
<1>1. /\ toNode \in Seq(Answer) /\ toNode # <<>> /\ Head(toNode).type = "inv"
      /\ toNode' = Tail(toNode) /\ UNCHANGED <<node, peer, nMute>>
  BY DEF IInv, WireOk, Inv, Receive
<1>2. /\ Head(toNode) \in Answer /\ Tail(toNode) \in Seq(Answer)
      /\ \A t, x : InFlight(toNode, t, x) =>
            (t = "inv" /\ x = h) \/ InFlight(toNode', t, x)
  BY <1>1, ReceiptFacts
<1>3. h \in 0..top
  BY <1>1, <1>2 DEF Answer
<1>4. Request' = Request /\ Answer' = Answer /\ top' = top
  BY <1>1 DEF Request, Answer, Height, peer
<1>5. PeerOk' /\ ChainOk' /\ (fLastUpdate \in BOOLEAN)'
  BY <1>1 DEF IInv, PeerOk, ChainOk, node, peer, Height
<1>6. CASE /\ ~AlreadyHave(h) /\ SetAsk(AskFor(h))
           /\ UNCHANGED <<lastGetBlocks, toPeer>>
  <2>1. h \in 1..top
    BY <1>3, <1>6, Numbers DEF AlreadyHave
  <2> HIDE DEF h
  <2>2. AskOk' /\ (h \in retry' \/ Queued(mapAskFor', h))
    BY <1>4, <1>6, <2>1, AskForFacts DEF IInv, AskOk, SetAsk, Height
  <2>3. retry \subseteq retry' /\ \A x : Queued(mapAskFor, x) => Queued(mapAskFor', x)
    BY <1>6, <2>1, AskForFacts DEF SetAsk
  <2>4. WireOk'
    BY <1>1, <1>2, <1>4, <1>6 DEF IInv, WireOk
  <2>5. \A x : Kept(x) => Kept(x)'
    BY <1>1, <1>2, <1>6, <2>2, <2>3 DEF Kept, AlreadyHave, node
  <2>6. AllKept'
    BY <1>1, <2>5, KeptStep DEF IInv, peer
  <2> QED BY <1>5, <2>2, <2>4, <2>6 DEF IInv
<1>7. ASSUME NEW begin \in 0..top, NEW end \in Height, AlreadyHave(h), UNCHANGED ask,
             PushGetBlocks(begin, end) \/ UNCHANGED <<lastGetBlocks, toPeer>>
      PROVE  IInv'
  <2> HIDE DEF h
  <2>1. /\ lastGetBlocks' \in Height \X Height
        /\ toPeer' \in Seq(Request)
        /\ \A x : InFlight(toPeer, "getdata", x) => InFlight(toPeer', "getdata", x)
    BY <1>7, PushGetBlocksFacts DEF IInv, AskOk, WireOk
  <2>2. AskOk'
    BY <1>4, <1>7, <2>1 DEF IInv, AskOk, ask, Height
  <2>3. WireOk'
    BY <1>1, <1>2, <1>4, <2>1 DEF WireOk
  <2>4. \A x : Kept(x) => Kept(x)'
    BY <1>1, <1>2, <1>7, <2>1 DEF Kept, AlreadyHave, node, ask
  <2>5. AllKept'
    BY <1>1, <2>4, KeptStep DEF IInv, peer
  <2> QED BY <1>5, <2>2, <2>3, <2>5 DEF IInv
<1>8. CASE /\ h \in mapOrphanBlocks
           /\ PushGetBlocks(pindexBest, OrphanRoot(mapOrphanBlocks, h))
           /\ UNCHANGED ask
  <2>1. pindexBest \in 0..top /\ OrphanRoot(mapOrphanBlocks, h) \in Height
    <3>1. OrphanRoot(mapOrphanBlocks, h) \in mapOrphanBlocks
      BY <1>8, Numbers, OrphanRootFacts
    <3>2. mapOrphanBlocks \subseteq Height
      BY Numbers DEF IInv, ChainOk, Height
    <3> QED BY <3>1, <3>2 DEF IInv, ChainOk
  <2>2. AlreadyHave(h)
    BY <1>8 DEF AlreadyHave
  <2> QED BY <1>7, <1>8, <2>1, <2>2
<1>9. CASE /\ h <= pindexBest
           /\ IF Head(toNode).last THEN PushGetBlocks(h, 0)
                                   ELSE UNCHANGED <<lastGetBlocks, toPeer>>
           /\ UNCHANGED ask
  <2>1. 0 \in Height /\ AlreadyHave(h)
    BY <1>9, Numbers DEF AlreadyHave, Height
  <2> QED BY <1>3, <1>7, <1>9, <2>1
<1> QED BY <1>6, <1>8, <1>9 DEF Inv

\* A block that is due is asked for, unless the node has it.
LEMMA SendGetDataStep == IInv /\ SendGetData => IInv'
<1> SUFFICES ASSUME IInv, SendGetData PROVE IInv'
  OBVIOUS
<1> DEFINE h == Head(mapAskFor)
           m == [type |-> "getdata", h |-> h]
<1>1. /\ mapAskFor \in Seq(1..top) /\ mapAskFor # <<>> /\ mapAskFor' = Tail(mapAskFor)
      /\ UNCHANGED <<node, lastGetBlocks, retry, peer, toNode, nMute>>
  BY DEF IInv, AskOk, SendGetData
<1>2. /\ h \in 1..top /\ mapAskFor' \in Seq(1..top)
      /\ \A x : Queued(mapAskFor, x) => x = h \/ Queued(mapAskFor', x)
  BY <1>1, ReceiptFacts
<1>3. m \in Request /\ m.type = "getdata" /\ m.h = h
  BY <1>2 DEF Request
<1>4. Request' = Request /\ Answer' = Answer /\ top' = top
  BY <1>1 DEF Request, Answer, Height, peer
<1>5. PeerOk' /\ ChainOk' /\ (fLastUpdate \in BOOLEAN)'
  BY <1>1 DEF IInv, PeerOk, ChainOk, node, peer, Height
<1>6. \/ AlreadyHave(h) /\ UNCHANGED <<toPeer, mapAlreadyAskedFor>>
      \/ toPeer' = Append(toPeer, m) /\ mapAlreadyAskedFor' = mapAlreadyAskedFor \cup {h}
  BY DEF SendGetData
<1> HIDE DEF h, m
<1>7. /\ toPeer' \in Seq(Request)
      /\ AlreadyHave(h) \/ InFlight(toPeer', "getdata", h)
      /\ \A x : InFlight(toPeer, "getdata", x) => InFlight(toPeer', "getdata", x)
  <2>1. toPeer \in Seq(Request)
    BY DEF IInv, WireOk
  <2>2. /\ Append(toPeer, m) \in Seq(Request)
        /\ \A t, x : InFlight(toPeer, t, x) => InFlight(Append(toPeer, m), t, x)
        /\ InFlight(Append(toPeer, m), m.type, m.h)
    BY <1>3, <2>1, SendFacts
  <2> QED BY <1>3, <1>6, <2>1, <2>2
<1>8. WireOk'
  BY <1>1, <1>4, <1>7 DEF IInv, WireOk
<1>9. AskOk'
  BY <1>1, <1>2, <1>4, <1>6 DEF IInv, AskOk, Height
<1>10. AllKept'
  <2>1. \A x : Kept(x) => Kept(x)'
    BY <1>1, <1>2, <1>7 DEF Kept, AlreadyHave, node
  <2> QED BY <1>1, <2>1, KeptStep DEF IInv, peer
<1> QED BY <1>5, <1>8, <1>9, <1>10 DEF IInv


\* A block that cannot be held is one the node has, or a stake whose coin
\* it does not have yet.
LEMMA RefuseFacts ==
    ASSUME IInv, NEW h \in (1..top) \cap Checkable, RefuseBlock(h)
    PROVE  AlreadyHave(h)
<1> SUFFICES ASSUME ~CheckProofOfStake(h) PROVE FALSE
  BY DEF RefuseBlock
<1>1. h \in 1..nStakeMinAge
  BY DEF CheckProofOfStake, Checkable
<1>2. h - nStakeMinAge <= 0 /\ h \in Nat
  BY <1>1, Numbers
<1>3. h - nStakeMinAge <= pindexBest
  BY <1>2, Numbers
<1> QED BY <1>3 DEF CheckProofOfStake

\* A block that is held is with the orphans; the node asks for the block
\* below the lowest one.
LEMMA HoldFacts ==
    ASSUME IInv, NEW h \in 1..top, HoldBlock(h), UNCHANGED <<peer, nMute>>
    PROVE  /\ ChainOk' /\ AskOk' /\ toPeer' \in Seq(Request)
           /\ UNCHANGED <<pindexBest, fLastUpdate>>
           /\ mapOrphanBlocks' = mapOrphanBlocks \cup {h}
           /\ retry \subseteq retry' /\ \A x : Queued(mapAskFor, x) => Queued(mapAskFor', x)
           /\ \A x : InFlight(toPeer, "getdata", x) => InFlight(toPeer', "getdata", x)
<1> DEFINE O == mapOrphanBlocks \cup {h}
           r == OrphanRoot(O, h)
<1>1. /\ h > pindexBest + 1 /\ mapOrphanBlocks' = O
      /\ PushGetBlocks(pindexBest, r) /\ UNCHANGED <<pindexBest, fLastUpdate>>
      /\ top' = top
  BY DEF HoldBlock, peer
<1>2. PICK A \in {ask, AskFor(r - 1)} : SetAsk(<<A[1] \ {h}, A[2], A[3]>>)
  BY DEF HoldBlock
<1>3. O \in SUBSET ((pindexBest + 2)..top) /\ h \in O
  BY <1>1, Numbers DEF IInv, ChainOk
<1> HIDE DEF O
<1>4. O \in SUBSET Nat
  <2>1. (pindexBest + 2)..top \subseteq Nat
    BY Numbers
  <2> QED BY <1>3, <2>1
<1>5. r \in O
  BY <1>3, <1>4, OrphanRootFacts
<1>6. r \in (pindexBest + 2)..top
  BY <1>3, <1>5
<1> HIDE DEF r
<1>7. r \in Height /\ r - 1 \in 1..top /\ pindexBest \in 0..top
  BY <1>6, Numbers DEF Height
<1>8. /\ lastGetBlocks' \in Height \X Height /\ toPeer' \in Seq(Request)
      /\ \A x : InFlight(toPeer, "getdata", x) => InFlight(toPeer', "getdata", x)
  BY <1>1, <1>7, PushGetBlocksFacts
<1>9. /\ A[1] \in SUBSET (1..top) /\ A[3] \in SUBSET (1..top) /\ A[2] \in Seq(1..top)
      /\ \A x : Queued(mapAskFor, x) => Queued(A[2], x)
      /\ retry \subseteq A[3]
  <2>1. CASE A = ask
    BY <2>1 DEF IInv, AskOk, ask
  <2>2. CASE A = AskFor(r - 1)
    BY <1>7, <2>2, AskForFacts
  <2> QED BY <1>2, <2>1, <2>2
<1>10. mapAlreadyAskedFor' = A[1] \ {h} /\ mapAskFor' = A[2] /\ retry' = A[3]
  BY <1>2 DEF SetAsk
<1>11. AskOk'
  BY <1>1, <1>8, <1>9, <1>10 DEF AskOk, Height
<1>12. ChainOk'
  BY <1>1, <1>3, <1>7 DEF ChainOk
<1> QED BY <1>1, <1>8, <1>9, <1>10, <1>11, <1>12 DEF O

\* A block that is accepted brings the orphans that follow it into the
\* chain, and leaves a gap above.
LEMMA AcceptFacts ==
    ASSUME IInv, NEW h \in 1..top, AcceptBlock(h), UNCHANGED <<peer, nMute>>
    PROVE  /\ ChainOk' /\ AskOk' /\ toPeer' = toPeer
           /\ (fLastUpdate \in BOOLEAN)' /\ UNCHANGED <<mapAskFor, retry>>
           /\ h <= pindexBest'
           /\ \A x \in 1..top : AlreadyHave(x) => AlreadyHave(x)'
<1> DEFINE k == Connected(h)
<1>1. /\ h = pindexBest + 1 /\ pindexBest' = k
      /\ mapOrphanBlocks' = mapOrphanBlocks \ (h..k) /\ fLastUpdate' = TRUE
      /\ mapAlreadyAskedFor' = mapAlreadyAskedFor \ {h}
      /\ UNCHANGED <<lastGetBlocks, mapAskFor, retry, toPeer>> /\ top' = top
  BY DEF AcceptBlock, peer
<1>2. /\ k \in h..top /\ (h + 1)..k \subseteq mapOrphanBlocks
      /\ k + 1 \notin mapOrphanBlocks
  <2>1. top \in Nat /\ mapOrphanBlocks \in SUBSET (0..top) /\ h \in 0..top
    BY Numbers DEF IInv, ChainOk
  <2> HIDE DEF k
  <2> QED BY <2>1, ConnectedFacts DEF k
<1> HIDE DEF k
<1>3. h \in Nat /\ k \in Nat /\ h <= k /\ k <= top /\ top \in Nat /\ pindexBest \in Nat
  BY <1>2, Numbers
<1>4. ASSUME NEW x \in mapOrphanBlocks \ (h..k) PROVE x \in (k + 2)..top
  <2>1. x \in Nat /\ pindexBest + 2 <= x /\ x <= top /\ x # k + 1
    BY <1>2, <1>3 DEF IInv, ChainOk
  <2>2. ~(h <= x /\ x <= k)
    BY <1>3, <2>1
  <2> QED BY <1>1, <1>3, <2>1, <2>2
<1>5. ChainOk'
  <2>1. k \in 0..top
    BY <1>3
  <2> QED BY <1>1, <1>4, <2>1 DEF ChainOk
<1>6. AskOk'
  BY <1>1 DEF IInv, AskOk, Height
<1>7. ASSUME NEW x \in 1..top, AlreadyHave(x) PROVE AlreadyHave(x)'
  <2>1. CASE x <= pindexBest
    <3>1. x <= k
      BY <1>1, <1>3, <2>1
    <3> QED BY <1>1, <3>1 DEF AlreadyHave
  <2>2. CASE x \in mapOrphanBlocks /\ x \in h..k
    <3>1. x <= k
      BY <1>3, <2>2
    <3> QED BY <1>1, <3>1 DEF AlreadyHave
  <2>3. CASE x \in mapOrphanBlocks /\ x \notin h..k
    BY <1>1, <2>3 DEF AlreadyHave
  <2> QED BY <1>7, <2>1, <2>2, <2>3 DEF AlreadyHave
<1> QED BY <1>1, <1>3, <1>5, <1>6, <1>7

\* A block that has come is kept if it can be checked.
LEMMA ProcessBlockStep == IInv /\ ProcessBlock => IInv'
<1> SUFFICES ASSUME IInv, ProcessBlock PROVE IInv'
  OBVIOUS
<1> DEFINE h == Head(toNode).h
<1>1. /\ toNode \in Seq(Answer) /\ toNode # <<>> /\ Head(toNode).type = "block"
      /\ toNode' = Tail(toNode) /\ UNCHANGED <<peer, nMute>>
      /\ RefuseBlock(h) \/ HoldBlock(h) \/ AcceptBlock(h)
  BY DEF IInv, WireOk, ProcessBlock, Receive
<1>2. /\ Head(toNode) \in Answer /\ Tail(toNode) \in Seq(Answer)
      /\ \A t, x : InFlight(toNode, t, x) =>
            (t = "block" /\ x = h) \/ InFlight(toNode', t, x)
  BY <1>1, ReceiptFacts
<1>3. h \in 1..top
  BY <1>1, <1>2 DEF Answer
<1>4. Request' = Request /\ Answer' = Answer /\ top' = top
  BY <1>1 DEF Request, Answer, Height, peer
<1>5. PeerOk'
  BY <1>1 DEF IInv, PeerOk, peer, Height
<1> HIDE DEF h
<1>6. SUFFICES /\ ChainOk' /\ (fLastUpdate \in BOOLEAN)' /\ AskOk' /\ toPeer' \in Seq(Request)
               /\ \A x \in (1..top) \cap Checkable : Kept(x) => Kept(x)'
  <2>1. WireOk'
    BY <1>1, <1>2, <1>4, <1>6 DEF WireOk
  <2>2. AllKept'
    <3>1. setInventoryKnown' = setInventoryKnown /\ setInventoryKnown \subseteq 1..top
      BY <1>1 DEF peer, IInv, PeerOk
    <3> QED BY <1>6, <3>1, KeptStep DEF IInv
  <2> QED BY <1>5, <1>6, <2>1, <2>2 DEF IInv
<1>7. CASE RefuseBlock(h)
  <2>1. UNCHANGED <<node, lastGetBlocks, ask, toPeer>>
    BY <1>7 DEF RefuseBlock
  <2>2. ChainOk' /\ (fLastUpdate \in BOOLEAN)' /\ AskOk' /\ toPeer' \in Seq(Request)
    BY <1>4, <2>1 DEF IInv, ChainOk, AskOk, WireOk, node, ask, Height
  <2>3. h \in Checkable => AlreadyHave(h)
    BY <1>3, <1>7, RefuseFacts
  <2>4. \A x \in (1..top) \cap Checkable : Kept(x) => Kept(x)'
    BY <1>2, <2>1, <2>3 DEF Kept, AlreadyHave, node, ask
  <2> QED BY <2>2, <2>4
<1>8. CASE HoldBlock(h)
  <2>1. /\ ChainOk' /\ AskOk' /\ toPeer' \in Seq(Request)
        /\ UNCHANGED <<pindexBest, fLastUpdate>>
        /\ mapOrphanBlocks' = mapOrphanBlocks \cup {h}
        /\ retry \subseteq retry' /\ \A x : Queued(mapAskFor, x) => Queued(mapAskFor', x)
        /\ \A x : InFlight(toPeer, "getdata", x) => InFlight(toPeer', "getdata", x)
    BY <1>1, <1>3, <1>8, HoldFacts
  <2>2. (fLastUpdate \in BOOLEAN)'
    BY <2>1 DEF IInv
  <2>3. \A x : Kept(x) => Kept(x)'
    BY <1>2, <2>1 DEF Kept, AlreadyHave
  <2> QED BY <2>1, <2>2, <2>3
<1>9. CASE AcceptBlock(h)
  <2>1. /\ ChainOk' /\ AskOk' /\ toPeer' = toPeer
        /\ (fLastUpdate \in BOOLEAN)' /\ UNCHANGED <<mapAskFor, retry>>
        /\ h <= pindexBest'
        /\ \A x \in 1..top : AlreadyHave(x) => AlreadyHave(x)'
    BY <1>1, <1>3, <1>9, AcceptFacts
  <2>2. \A x : x = h => AlreadyHave(x)'
    BY <2>1 DEF AlreadyHave
  <2>3. toPeer' \in Seq(Request)
    BY <2>1 DEF IInv, WireOk
  <2>4. \A x \in (1..top) \cap Checkable : Kept(x) => Kept(x)'
    BY <1>2, <2>1, <2>2 DEF Kept
  <2> QED BY <2>1, <2>3, <2>4
<1> QED BY <1>1, <1>7, <1>8, <1>9


-----------------------------------------------------------------------------
(***************************************************************************)
(* The remaining steps, and the theorems.                                  *)
(***************************************************************************)
\* The retry of a block moves it to the queue of what is asked for now.
LEMMA DueStep == ASSUME IInv, NEW h \in Height, Due(h) PROVE IInv'
<1>1. /\ h \in retry /\ retry' = retry \ {h} /\ mapAskFor' = Append(mapAskFor, h)
      /\ UNCHANGED <<node, lastGetBlocks, mapAlreadyAskedFor, peer, toPeer, toNode, nMute>>
  BY DEF Due
<1>2. mapAskFor \in Seq(1..top) /\ h \in 1..top
  BY <1>1 DEF IInv, AskOk
<1>3. /\ mapAskFor' \in Seq(1..top) /\ Queued(mapAskFor', h)
      /\ \A x : Queued(mapAskFor, x) => Queued(mapAskFor', x)
  BY <1>1, <1>2, SendFacts
<1>4. Request' = Request /\ Answer' = Answer /\ top' = top
  BY <1>1 DEF Request, Answer, Height, peer
<1>5. PeerOk' /\ ChainOk' /\ (fLastUpdate \in BOOLEAN)' /\ WireOk'
  BY <1>1, <1>4 DEF IInv, PeerOk, ChainOk, WireOk, node, peer, Height
<1>6. AskOk'
  BY <1>1, <1>3, <1>4 DEF IInv, AskOk, Height
<1>7. \A x : Kept(x) => Kept(x)'
  BY <1>1, <1>3 DEF Kept, AlreadyHave, node
<1>8. AllKept'
  BY <1>1, <1>7, KeptStep DEF IInv, peer
<1> QED BY <1>5, <1>6, <1>8 DEF IInv

\* A peer that does not answer, the passing of time, and nothing at all.
LEMMA OtherSteps ==
    ASSUME IInv, Settle \/ (\E h \in Height : MuteInv(h)) \/ UNCHANGED vars
    PROVE  IInv'
<1>1. /\ UNCHANGED <<pindexBest, mapOrphanBlocks, lastGetBlocks, mapAskFor, retry, peer,
                     toPeer, toNode>>
      /\ mapAlreadyAskedFor' \in SUBSET (1..top) /\ nMute' \in 0..MaxMute
      /\ (fLastUpdate \in BOOLEAN)'
  <2>1. CASE Settle
    BY <2>1 DEF Settle, IInv, AskOk, PeerOk, ask, peer
  <2>2. CASE \E h \in Height : MuteInv(h)
    <3>1. PICK h \in Height : MuteInv(h)
      BY <2>2
    <3>2. nMute' \in 0..MaxMute
      BY <3>1, SyncAssumption DEF MuteInv, IInv, PeerOk
    <3> QED BY <3>1, <3>2 DEF MuteInv, IInv, AskOk, node, peer
  <2>3. CASE UNCHANGED vars
    BY <2>3 DEF vars, IInv, AskOk, PeerOk, node, ask, peer
  <2> QED BY <2>1, <2>2, <2>3
<1>2. Request' = Request /\ Answer' = Answer /\ top' = top
  BY <1>1 DEF Request, Answer, Height, peer
<1>3. PeerOk' /\ ChainOk' /\ WireOk' /\ AskOk'
  BY <1>1, <1>2 DEF IInv, PeerOk, ChainOk, WireOk, AskOk, peer, Height
<1>4. \A x : Kept(x) => Kept(x)'
  BY <1>1 DEF Kept, AlreadyHave
<1>5. AllKept'
  BY <1>1, <1>4, KeptStep DEF IInv, peer
<1> QED BY <1>1, <1>3, <1>5 DEF IInv

\* Every step of the two parties and of the other peer keeps the invariant.
THEOREM Invariance == Spec => []IInv
<1>1. IInv /\ [Next]_vars => IInv'
  <2> SUFFICES ASSUME IInv, [Next]_vars PROVE IInv'
    OBVIOUS
  <2>1. ASSUME NEW h \in Height, Due(h) PROVE IInv'
    BY <2>1, DueStep
  <2> QED BY <2>1, GetBlocksStep, SendInvStep, GetDataStep, NewBlockStep, InvStep,
             SendGetDataStep, ProcessBlockStep, OtherSteps DEF Next
<1> QED BY <1>1, InitInvariant, PTL DEF Spec

\* The node's chain, its orphans, its queues and the messages are about
\* blocks the peer has.
THEOREM TypeCorrect == Spec => []TypeOK
<1>1. IInv => TypeOK
  <2> SUFFICES ASSUME IInv PROVE TypeOK
    OBVIOUS
  <2>1. Request \subseteq Message /\ Answer \subseteq Message
    <3>1. 0..top \subseteq Height /\ 1..top \subseteq Height
      BY Numbers
    <3> QED BY <3>1 DEF Request, Answer, Message
  <2>2. toPeer \in Seq(Message) /\ toNode \in Seq(Message)
    BY <2>1, SeqOfMore DEF IInv, WireOk
  <2> QED BY <2>2 DEF IInv, PeerOk, ChainOk, AskOk, TypeOK
<1> QED BY <1>1, Invariance, PTL

\* Nothing the peer has announced is forgotten, whatever requests
\* mapAlreadyAskedFor delays and lastGetBlocks drops.
THEOREM AnnouncedIsNotForgotten == Spec => []NothingForgotten
<1>1. IInv => NothingForgotten
  BY DEF IInv, AllKept, Kept, Checkable, Queued, NothingForgotten
<1> QED BY <1>1, Invariance, PTL
=============================================================================
