--------------------------- MODULE TxIndex_proofs ---------------------------
(***************************************************************************)
(* What connecting and disconnecting do to a batch over the transaction    *)
(* index: which transactions it has afterwards and that every record is    *)
(* one.  TxPool_proofs builds on these facts.                              *)
(***************************************************************************)
EXTENDS TxIndex, SequenceTheorems, TLAPS

(***************************************************************************)
(* The loops of ConnectBlock, DisconnectBlock and Reorganize, round by     *)
(* round.                                                                  *)
(***************************************************************************)
ConnectTxBody(p, r, t)        == ConnectTx(p[1], p[2], p[3], r, t)
DisconnectInputsBody(p, s, t) == DisconnectInputs(s, t)
ConnectBlockBody(p, s, b)     == ConnectBlock(s, b)
DisconnectBlockBody(p, s, b)  == DisconnectBlock(s, b)

TxLoop         == INSTANCE FoldFacts WITH op <- ConnectTxBody
InputsLoop     == INSTANCE FoldFacts WITH op <- DisconnectInputsBody
ConnectLoop    == INSTANCE FoldFacts WITH op <- ConnectBlockBody
DisconnectLoop == INSTANCE FoldFacts WITH op <- DisconnectBlockBody

\* What holds before the first round and after every round that follows one
\* where it held, holds at the end.
LEMMA CountUp ==
    \A N, S : /\ N \in Nat /\ 0 \in S
              /\ \A n \in 0 .. N - 1 : n \in S => n + 1 \in S
              => N \in S
BY TxLoop!CountUp

\* The loop over the transactions of a block.
QueuedSteps(acc, s, b, h, vtx) ==
    /\ acc[0] = <<TRUE, <<>>>>
    /\ \A n \in 0 .. Len(vtx) - 1 : acc[n + 1] = ConnectTx(s, b, h, acc[n], vtx[n + 1])
    /\ QueuedChanges(s, b, h, vtx) = acc[Len(vtx)]

\* The loop over the transactions of a block that is connected.
LEMMA QueuedChangesSteps ==
    ASSUME NEW s, NEW b, NEW h, NEW vtx \in Seq(Tx)
    PROVE  \E acc : QueuedSteps(acc, s, b, h, vtx)
<1> DEFINE p == <<s, b, h>>
<1>1. p[1] = s /\ p[2] = b /\ p[3] = h
  OBVIOUS
<1> HIDE DEF p
<1>2. QueuedChanges(p[1], p[2], p[3], vtx) = TxLoop!Fold(p, <<TRUE, <<>>>>, vtx)
  BY DEF QueuedChanges, FoldLeft, MapThenFoldSet, Max, TxLoop!Fold, TxLoop!Largest, ConnectTxBody
<1>3. PICK acc : /\ TxLoop!Accumulates(acc, p, <<TRUE, <<>>>>, vtx)
                 /\ TxLoop!Fold(p, <<TRUE, <<>>>>, vtx) = acc[Len(vtx)]
  BY TxLoop!FoldSteps
<1>4. /\ acc[0] = <<TRUE, <<>>>>
      /\ \A n \in 0 .. Len(vtx) - 1 : acc[n + 1] = ConnectTx(s, b, h, acc[n], vtx[n + 1])
  BY <1>1, <1>3 DEF TxLoop!Accumulates, ConnectTxBody
<1> QED BY <1>1, <1>2, <1>3, <1>4 DEF QueuedSteps

\* The loop over the same transactions, last first, when it is disconnected.
InputsSteps(acc, s, vtx) ==
    /\ acc[0] = s
    /\ \A n \in 0 .. Len(vtx) - 1 : acc[n + 1] = DisconnectInputs(acc[n], vtx[n + 1])

\* The loop over the transactions of a block that is disconnected.
LEMMA DisconnectBlockSteps ==
    ASSUME NEW s, NEW b, Reverse(Vtx[b]) \in Seq(Tx)
    PROVE  \E acc : /\ InputsSteps(acc, s, Reverse(Vtx[b]))
                    /\ DisconnectBlock(s, b) = acc[Len(Reverse(Vtx[b]))]
<1>1. DisconnectBlock(s, b) = InputsLoop!Fold(0, s, Reverse(Vtx[b]))
  BY DEF DisconnectBlock, FoldLeft, MapThenFoldSet, Max, InputsLoop!Fold, InputsLoop!Largest,
         DisconnectInputsBody
<1> QED BY <1>1, InputsLoop!FoldSteps DEF InputsSteps, InputsLoop!Accumulates, DisconnectInputsBody

\* Reorganize's loop over vDisconnect ...
DisconnectSteps(acc, s, bs) ==
    /\ acc[0] = s
    /\ \A n \in 0 .. Len(bs) - 1 : acc[n + 1] = DisconnectBlock(acc[n], bs[n + 1])

\* The loop over vDisconnect.
LEMMA DisconnectAllSteps ==
    ASSUME NEW s, NEW bs \in Seq(Block)
    PROVE  \E acc : DisconnectSteps(acc, s, bs) /\ DisconnectAll(s, bs) = acc[Len(bs)]
<1>1. DisconnectAll(s, bs) = DisconnectLoop!Fold(0, s, bs)
  BY DEF DisconnectAll, FoldLeft, MapThenFoldSet, Max, DisconnectLoop!Fold,
         DisconnectLoop!Largest, DisconnectBlockBody
<1> QED BY <1>1, DisconnectLoop!FoldSteps
        DEF DisconnectSteps, DisconnectLoop!Accumulates, DisconnectBlockBody

\* ... and its loop over vConnect.
ConnectSteps(acc, s, bs) ==
    /\ acc[0] = s
    /\ \A n \in 0 .. Len(bs) - 1 : acc[n + 1] = ConnectBlock(acc[n], bs[n + 1])

\* The loop over vConnect.
LEMMA ConnectAllSteps ==
    ASSUME NEW s, NEW bs \in Seq(Block)
    PROVE  \E acc : ConnectSteps(acc, s, bs) /\ ConnectAll(s, bs) = acc[Len(bs)]
<1>1. ConnectAll(s, bs) = ConnectLoop!Fold(0, s, bs)
  BY DEF ConnectAll, FoldLeft, MapThenFoldSet, Max, ConnectLoop!Fold, ConnectLoop!Largest,
         ConnectBlockBody
<1> QED BY <1>1, ConnectLoop!FoldSteps
        DEF ConnectSteps, ConnectLoop!Accumulates, ConnectBlockBody

-----------------------------------------------------------------------------
(***************************************************************************)
(* Chains.  The recursion that follows hashPrevBlock back to the genesis   *)
(* block has one result for every block.                                   *)
(***************************************************************************)
IsPath(s, b) ==
    /\ s \in Seq(Block) /\ s # <<>> /\ s[1] = Genesis /\ s[Len(s)] = b
    /\ \A k \in 1 .. Len(s) - 1 : s[k + 1] # Genesis /\ Parent[s[k + 1]] = s[k]

\* A path is extended by a child of its last block.
LEMMA PathExtends ==
    ASSUME NEW b \in Block \ {Genesis}, NEW s, IsPath(s, Parent[b])
    PROVE  IsPath(Append(s, b), b)
<1> DEFINE u == Append(s, b)
<1>1. /\ s \in Seq(Block) /\ Len(s) \in Nat /\ Len(s) >= 1
      /\ \A k \in 1 .. Len(s) - 1 : s[k + 1] # Genesis /\ Parent[s[k + 1]] = s[k]
      /\ s[1] = Genesis /\ s[Len(s)] = Parent[b]
  BY DEF IsPath
<1>2. /\ u \in Seq(Block) /\ Len(u) = Len(s) + 1 /\ u[Len(s) + 1] = b
      /\ \A k \in 1 .. Len(s) : u[k] = s[k]
  BY <1>1
<1>3. ASSUME NEW k \in 1 .. Len(u) - 1
      PROVE  u[k + 1] # Genesis /\ Parent[u[k + 1]] = u[k]
  <2>1. CASE k = Len(s)
    BY <1>1, <1>2, <2>1
  <2>2. CASE k # Len(s)
    <3>1. k \in 1 .. Len(s) - 1 /\ k + 1 \in 1 .. Len(s) /\ k \in 1 .. Len(s)
      BY <1>1, <1>2, <2>2
    <3> QED BY <1>1, <1>2, <3>1
  <2> QED BY <2>1, <2>2
<1>4. u # <<>> /\ u[1] = Genesis /\ u[Len(u)] = b
  BY <1>1, <1>2
<1> HIDE DEF u
<1>5. IsPath(u, b)
  BY <1>2, <1>3, <1>4 DEF IsPath
<1> QED BY <1>5 DEF u

\* The genesis block has only the path of itself, and any other path ends with
\* an edge.
LEMMA PathEnds ==
    ASSUME NEW b \in Block, NEW s, IsPath(s, b)
    PROVE  /\ b = Genesis => s = <<Genesis>>
           /\ b # Genesis => \E u : IsPath(u, Parent[b]) /\ s = Append(u, b)
<1>1. /\ s \in Seq(Block) /\ Len(s) \in Nat /\ Len(s) >= 1
      /\ \A k \in 1 .. Len(s) - 1 : s[k + 1] # Genesis /\ Parent[s[k + 1]] = s[k]
      /\ s[1] = Genesis /\ s[Len(s)] = b
  BY DEF IsPath
<1>2. CASE b = Genesis
  <2>1. Len(s) = 1
    <3>0. Len(s) = 1 \/ Len(s) - 1 >= 1
      <4>1. Len(s) \in Nat /\ Len(s) >= 1
        BY <1>1
      <4>2. \A n \in Nat : n >= 1 => n = 1 \/ n - 1 >= 1
        OBVIOUS
      <4> QED BY ONLY <4>1, <4>2
    <3> SUFFICES ASSUME Len(s) - 1 >= 1 PROVE FALSE
      BY <3>0
    <3>1. Len(s) - 1 \in 1 .. Len(s) - 1 /\ Len(s) - 1 + 1 = Len(s)
      BY <1>1
    <3>2. s[Len(s)] # Genesis
      BY <1>1, <3>1
    <3> QED BY <1>1, <1>2, <3>2
  <2> QED BY <1>1, <1>2, <2>1
<1>3. CASE b # Genesis
  <2> DEFINE u == SubSeq(s, 1, Len(s) - 1)
  <2>1. Len(s) > 1
    BY <1>1, <1>3
  <2>2. /\ u \in Seq(Block) /\ Len(u) = Len(s) - 1
        /\ \A k \in 1 .. Len(s) - 1 : u[k] = s[k]
    BY <1>1, <2>1, SubSeqProperties
  <2>3. s = Append(u, b)
    <3>1. Append(u, b) \in Seq(Block) /\ Len(Append(u, b)) = Len(s)
      BY <1>1, <2>1, <2>2
    <3>2. ASSUME NEW k \in 1 .. Len(s) PROVE s[k] = Append(u, b)[k]
      BY <1>1, <2>1, <2>2
    <3> HIDE DEF u
    <3> QED BY <1>1, <3>1, <3>2, SeqEqual
  <2>4. u # <<>> /\ u[1] = Genesis /\ u[Len(u)] = Parent[b]
    <3>1. Len(s) - 1 \in 1 .. Len(s) - 1 /\ Len(s) - 1 + 1 = Len(s)
      BY <1>1, <2>1
    <3>2. Parent[s[Len(s)]] = s[Len(s) - 1]
      BY <1>1, <3>1
    <3>3. u[Len(s) - 1] = s[Len(s) - 1] /\ u[1] = s[1]
      BY <1>1, <2>1, <2>2, <3>1
    <3> HIDE DEF u
    <3>4. u # <<>>
      BY <1>1, <2>1, <2>2
    <3> QED BY <1>1, <2>2, <3>2, <3>3, <3>4
  <2>5. ASSUME NEW k \in 1 .. Len(u) - 1
        PROVE  u[k + 1] # Genesis /\ Parent[u[k + 1]] = u[k]
    <3>1. k \in 1 .. Len(s) - 1 /\ k + 1 \in 1 .. Len(s) - 1
      BY <1>1, <2>2
    <3> QED BY <1>1, <2>2, <3>1
  <2> HIDE DEF u
  <2>6. IsPath(u, Parent[b])
    BY <2>2, <2>4, <2>5 DEF IsPath
  <2> QED BY <1>3, <2>3, <2>6
<1> QED BY <1>2, <1>3

\* The genesis block alone is its path.
LEMMA PathOfGenesis == IsPath(<<Genesis>>, Genesis)
BY BlockAssumption DEF IsPath

\* Every block has a path.
LEMMA PathExists ==
    ASSUME NEW b \in Block
    PROVE  \E s : IsPath(s, b)
<1> DEFINE T == {x \in Block \ {Genesis} : ~ \E s : IsPath(s, x)}
<1> SUFFICES ASSUME T # {} PROVE FALSE
  BY PathOfGenesis
<1>1. PICK x \in T : Parent[x] \notin T
  BY NoCircleAssumption
<1>2. x \in Block \ {Genesis} /\ Parent[x] \in Block
  BY BlockAssumption
<1>3. \E s : IsPath(s, Parent[x])
  BY <1>1, <1>2, PathOfGenesis
<1> QED BY <1>2, <1>3, PathExtends

\* It has only one.
LEMMA PathUnique ==
    ASSUME NEW b \in Block, NEW s, NEW u, IsPath(s, b), IsPath(u, b)
    PROVE  s = u
<1> DEFINE T == {x \in Block \ {Genesis} : \E v, w : IsPath(v, x) /\ IsPath(w, x) /\ v # w}
<1>1. T = {}
  <2> SUFFICES ASSUME T # {} PROVE FALSE
    OBVIOUS
  <2>1. PICK x \in T : Parent[x] \notin T
    BY NoCircleAssumption
  <2>2. x \in Block /\ x # Genesis /\ Parent[x] \in Block
    BY BlockAssumption
  <2>3. PICK v, w : IsPath(v, x) /\ IsPath(w, x) /\ v # w
    OBVIOUS
  <2>4. PICK v1 : IsPath(v1, Parent[x]) /\ v = Append(v1, x)
    BY <2>2, <2>3, PathEnds
  <2>5. PICK w1 : IsPath(w1, Parent[x]) /\ w = Append(w1, x)
    BY <2>2, <2>3, PathEnds
  <2>6. v1 = w1
    <3>1. CASE Parent[x] = Genesis
      BY <2>2, <2>4, <2>5, <3>1, PathEnds
    <3>2. CASE Parent[x] # Genesis
      BY <2>1, <2>2, <2>4, <2>5, <3>2
    <3> QED BY <3>1, <3>2
  <2> QED BY <2>3, <2>4, <2>5, <2>6
<1>2. CASE b = Genesis
  BY <1>2, PathEnds
<1>3. CASE b # Genesis
  BY <1>1, <1>3
<1> QED BY <1>2, <1>3

\* The equation by which Chain is defined holds.
LEMMA ChainEquation ==
    \A b \in Block : Chain[b] = IF b = Genesis THEN <<b>> ELSE Append(Chain[Parent[b]], b)
<1> DEFINE Eq(f) == f = [b \in Block |-> IF b = Genesis THEN <<b>> ELSE Append(f[Parent[b]], b)]
           C == [b \in Block |-> CHOOSE s : IsPath(s, b)]
<1>1. \A b \in Block : IsPath(C[b], b)
  BY PathExists
<1>2. ASSUME NEW b \in Block
      PROVE  C[b] = IF b = Genesis THEN <<b>> ELSE Append(C[Parent[b]], b)
  <2>1. CASE b = Genesis
    BY <1>1, <2>1, PathEnds
  <2>2. CASE b # Genesis
    <3>1. Parent[b] \in Block
      BY <2>2, BlockAssumption
    <3> HIDE DEF C
    <3>2. IsPath(Append(C[Parent[b]], b), b)
      BY <1>1, <2>2, <3>1, PathExtends
    <3> QED BY <1>1, <2>2, <3>2, PathUnique
  <2> QED BY <2>1, <2>2
<1>3. C = [b \in Block |-> C[b]]
  OBVIOUS
<1> HIDE DEF C
<1>4. Eq(C)
  BY <1>2, <1>3
<1>5. Chain = CHOOSE f : Eq(f)
  BY DEF Chain
<1> HIDE DEF Eq
<1>6. Eq(Chain)
  BY <1>4, <1>5
<1> QED BY <1>6 DEF Eq

\* Chain[b] is the path from the genesis block to b.
LEMMA ChainIsPath ==
    ASSUME NEW b \in Block
    PROVE  IsPath(Chain[b], b)
<1> DEFINE T == {x \in Block \ {Genesis} : ~IsPath(Chain[x], x)}
<1>1. IsPath(Chain[Genesis], Genesis)
  BY ChainEquation, PathOfGenesis, BlockAssumption
<1> SUFFICES ASSUME T # {} PROVE FALSE
  BY <1>1
<1>2. PICK x \in T : Parent[x] \notin T
  BY NoCircleAssumption
<1>3. x \in Block \ {Genesis} /\ Parent[x] \in Block
  BY BlockAssumption
<1>4. IsPath(Chain[Parent[x]], Parent[x])
  BY <1>1, <1>2, <1>3
<1> QED BY <1>3, <1>4, ChainEquation, PathExtends

\* A set of numbers with a bound has a greatest one.
LEMMA MaxExists ==
    ASSUME NEW F \in SUBSET Nat, NEW N \in Nat, \A n \in F : n <= N, F # {}
    PROVE  Max(F) \in F /\ \A n \in F : Max(F) >= n
<1>1. F \subseteq 0..N
  OBVIOUS
<1>2. \E m \in F : \A n \in F : m >= n
  BY <1>1, TxLoop!GreatestExists
<1> QED BY <1>2 DEF Max

\* The fork is on both chains.
LEMMA ForkOnBoth ==
    ASSUME NEW a \in Block, NEW b \in Block
    PROVE  /\ Fork(a, b) \in Nat
           /\ Fork(a, b) \in 1 .. Len(Chain[a]) /\ Fork(a, b) \in 1 .. Len(Chain[b])
           /\ Chain[a][Fork(a, b)] = Chain[b][Fork(a, b)]
           /\ \A n \in 1 .. Len(Chain[a]) : n \in 1 .. Len(Chain[b]) /\ Chain[a][n] = Chain[b][n]
                 => n <= Fork(a, b)
<1> DEFINE F == {n \in DOMAIN Chain[a] \cap DOMAIN Chain[b] : Chain[a][n] = Chain[b][n]}
<1>1. /\ Chain[a] \in Seq(Block) /\ Len(Chain[a]) >= 1 /\ Chain[a][1] = Genesis
      /\ Chain[b] \in Seq(Block) /\ Len(Chain[b]) >= 1 /\ Chain[b][1] = Genesis
  BY ChainIsPath DEF IsPath
<1>2. /\ DOMAIN Chain[a] = 1 .. Len(Chain[a]) /\ Len(Chain[a]) \in Nat
      /\ DOMAIN Chain[b] = 1 .. Len(Chain[b]) /\ Len(Chain[b]) \in Nat
  BY <1>1
<1>3. 1 \in F
  BY <1>1, <1>2
<1>4. F \in SUBSET Nat /\ \A n \in F : n <= Len(Chain[a])
  BY <1>2
<1>5. Fork(a, b) = Max(F)
  BY DEF Fork
<1>6. Max(F) \in F /\ \A n \in F : Max(F) >= n
  <2> HIDE DEF F
  <2> QED BY <1>2, <1>3, <1>4, MaxExists
<1> QED BY <1>2, <1>4, <1>5, <1>6

\* What Reorganize disconnects and connects are blocks.
LEMMA BranchTypes ==
    ASSUME NEW a \in Block, NEW b \in Block
    PROVE  vDisconnect(a, b) \in Seq(Block) /\ vConnect(a, b) \in Seq(Block)
<1>1. /\ Chain[a] \in Seq(Block) /\ Chain[b] \in Seq(Block)
      /\ Len(Chain[a]) \in Nat /\ Len(Chain[b]) \in Nat
  BY ChainIsPath DEF IsPath
<1>2. Fork(a, b) + 1 \in 1 .. Len(Chain[a]) + 1 /\ Fork(a, b) + 1 \in 1 .. Len(Chain[b]) + 1
  <2>1. \A n, m \in Nat : n \in 1 .. m => n + 1 \in 1 .. m + 1
    OBVIOUS
  <2>2. /\ Fork(a, b) \in Nat
        /\ Fork(a, b) \in 1 .. Len(Chain[a]) /\ Fork(a, b) \in 1 .. Len(Chain[b])
    BY ForkOnBoth
  <2> QED BY ONLY <1>1, <2>1, <2>2
<1>3. /\ SubSeq(Chain[a], Fork(a, b) + 1, Len(Chain[a])) \in Seq(Block)
      /\ SubSeq(Chain[b], Fork(a, b) + 1, Len(Chain[b])) \in Seq(Block)
  BY <1>1, <1>2, SubSeqProperties
<1>4. ASSUME NEW s \in Seq(Block) PROVE Reverse(s) \in Seq(Block)
  <2>1. Len(s) \in Nat /\ \A k \in 1 .. Len(s) : s[(Len(s) - k) + 1] \in Block
    OBVIOUS
  <2> QED BY <2>1 DEF Reverse
<1> QED BY <1>3, <1>4 DEF vDisconnect, vConnect

\* What a transaction spends are outputs of other transactions.
LEMMA InputsFacts ==
    ASSUME NEW t \in Tx
    PROVE  /\ Inputs(t) \subseteq Tx /\ t \notin Inputs(t)
           /\ \A o \in Vin[t] : o = <<o[1], o[2]>> /\ o[1] \in Inputs(t) /\ o[2] \in Nat
           /\ \A p, n : <<p, n>> \in Vin[t] => p \in Inputs(t)
<1>1. \A o \in Vin[t] : o = <<o[1], o[2]>> /\ o[1] \in Tx \ {t} /\ o[2] \in Nat
  BY TxAssumption
<1>2. \A p, n : <<p, n>> \in Vin[t] => <<p, n>>[1] \in Inputs(t)
  BY DEF Inputs
<1> QED BY <1>1, <1>2 DEF Inputs

-----------------------------------------------------------------------------
(***************************************************************************)
(* Batches.                                                                *)
(***************************************************************************)
IndexType(f) == DOMAIN f \subseteq Tx /\ \A t \in DOMAIN f : f[t] \in TxIndexRecord(t)

BatchType(s) ==
    /\ DOMAIN s = {"db", "put", "deleted", "ok"}
    /\ IndexType(s.db) /\ IndexType(s.put) /\ s.ok \in BOOLEAN

\* The transactions that a reader of the batch finds.
Found(s) == DOMAIN s.put \cup (DOMAIN s.db \ s.deleted)

\* Two well-formed indexes, one over the other, are a well-formed index.
LEMMA OverType ==
    ASSUME NEW f, NEW g, IndexType(f), IndexType(g)
    PROVE  IndexType(Over(f, g)) /\ DOMAIN Over(f, g) = DOMAIN f \cup DOMAIN g
BY DEF IndexType, Over

\* A part of a well-formed index is one.
LEMMA RestrictType ==
    ASSUME NEW f, IndexType(f), NEW S, S \subseteq DOMAIN f
    PROVE  IndexType(Restrict(f, S)) /\ DOMAIN Restrict(f, S) = S
BY DEF IndexType, Restrict

\* A batch begins with the database as it is.
LEMMA TxnBeginFacts ==
    ASSUME NEW db, IndexType(db)
    PROVE  BatchType(TxnBegin(db)) /\ Found(TxnBegin(db)) = DOMAIN db /\ TxnBegin(db).ok
BY DEF TxnBegin, BatchType, Found, IndexType

\* What it has is what the database has after the commit.
LEMMA TxnCommitFacts ==
    ASSUME NEW s, BatchType(s)
    PROVE  IndexType(TxnCommit(s)) /\ DOMAIN TxnCommit(s) = Found(s)
<1> DEFINE r == Restrict(s.db, DOMAIN s.db \ s.deleted)
<1>1. IndexType(r) /\ DOMAIN r = DOMAIN s.db \ s.deleted
  BY RestrictType DEF BatchType
<1> HIDE DEF r
<1>2. IndexType(Over(s.put, r)) /\ DOMAIN Over(s.put, r) = DOMAIN s.put \cup DOMAIN r
  BY <1>1, OverType DEF BatchType
<1> QED BY <1>1, <1>2 DEF TxnCommit, Found, r

\* What is read is a record.
LEMMA ReadFacts ==
    ASSUME NEW s, BatchType(s), NEW t
    PROVE  /\ HasTxIndex(s, t) <=> t \in Found(s)
           /\ t \in Found(s) => t \in Tx /\ ReadTxIndex(s, t) \in TxIndexRecord(t)
BY DEF BatchType, IndexType, HasTxIndex, ReadTxIndex, Found

\* An update finds what it puts and what was found before.
LEMMA UpdateFacts ==
    ASSUME NEW s, BatchType(s), NEW q, IndexType(q)
    PROVE  /\ BatchType(UpdateTxIndex(s, q))
           /\ Found(UpdateTxIndex(s, q)) = Found(s) \cup DOMAIN q
           /\ UpdateTxIndex(s, q).ok = s.ok
<1> DEFINE u == UpdateTxIndex(s, q)
<1>1. /\ DOMAIN u = {"db", "put", "deleted", "ok"}
      /\ u.db = s.db /\ u.put = Over(q, s.put) /\ u.deleted = s.deleted \ DOMAIN q /\ u.ok = s.ok
  BY DEF UpdateTxIndex, BatchType
<1>2. IndexType(Over(q, s.put)) /\ DOMAIN Over(q, s.put) = DOMAIN q \cup DOMAIN s.put
  BY OverType DEF BatchType
<1> HIDE DEF u
<1>3. BatchType(u)
  BY <1>1, <1>2 DEF BatchType
<1>4. Found(u) = Found(s) \cup DOMAIN q
  BY <1>1, <1>2 DEF Found
<1> QED BY <1>1, <1>3, <1>4 DEF u

\* An erased transaction is not found; all others are as before.
LEMMA EraseFacts ==
    ASSUME NEW s, BatchType(s), NEW t
    PROVE  /\ BatchType(EraseTxIndex(s, t))
           /\ Found(EraseTxIndex(s, t)) = Found(s) \ {t}
           /\ EraseTxIndex(s, t).ok = s.ok
<1> DEFINE u == EraseTxIndex(s, t)
<1>1. /\ DOMAIN u = {"db", "put", "deleted", "ok"}
      /\ u.db = s.db /\ u.put = Restrict(s.put, DOMAIN s.put \ {t})
      /\ u.deleted = s.deleted \cup {t} /\ u.ok = s.ok
  BY DEF EraseTxIndex, BatchType
<1>2. IndexType(u.put) /\ DOMAIN u.put = DOMAIN s.put \ {t}
  BY <1>1, RestrictType DEF BatchType
<1> HIDE DEF u
<1>3. BatchType(u)
  BY <1>1, <1>2 DEF BatchType
<1>4. Found(u) = Found(s) \ {t}
  BY <1>1, <1>2 DEF Found
<1> QED BY <1>1, <1>3, <1>4 DEF u

\* A failed batch is a batch.
LEMMA FailFacts ==
    ASSUME NEW s, BatchType(s)
    PROVE  BatchType([s EXCEPT !.ok = FALSE]) /\ ~[s EXCEPT !.ok = FALSE].ok
BY DEF BatchType

\* A record whose outputs are marked is still a record.
LEMMA MarkSpentType ==
    ASSUME NEW p, NEW r \in TxIndexRecord(p), NEW t, NEW pos \in Pos
    PROVE  MarkSpent(r, p, t, pos) \in TxIndexRecord(p)
BY DEF MarkSpent, TxIndexRecord

\* The record of a new transaction is well-formed.
LEMMA NewRecType ==
    ASSUME NEW t \in Tx, NEW b \in Block
    PROVE  IndexType(NewRec(t, b)) /\ DOMAIN NewRec(t, b) = {t}
BY DEF NewRec, IndexType, TxIndexRecord, Unspent, Pos

-----------------------------------------------------------------------------
(***************************************************************************)
(* Connecting and disconnecting.                                           *)
(***************************************************************************)
QueuedType(r) == r = <<r[1], r[2]>> /\ r[1] \in BOOLEAN /\ IndexType(r[2])

\* A transaction that connects adds its own record and changes those of its
\* inputs, which the batch or the block has; one that does not adds nothing.
LEMMA ConnectTxFacts ==
    ASSUME NEW s, BatchType(s), NEW b \in Block, NEW h, NEW r, QueuedType(r), NEW t \in Tx
    PROVE  LET u == ConnectTx(s, b, h, r, t) IN
           /\ QueuedType(u)
           /\ u[1] => r[1] /\ t \in DOMAIN u[2]
           /\ DOMAIN r[2] \subseteq DOMAIN u[2]
           /\ DOMAIN u[2] \subseteq DOMAIN r[2] \cup {t} \cup Found(s)
<1> DEFINE queued == r[2]
           rec == [p \in Inputs(t) |->
                     IF p \in DOMAIN queued THEN queued[p] ELSE ReadTxIndex(s, p)]
           ok  == /\ r[1]
                  /\ NoOverwrite(s, t)
                  /\ \A p \in Inputs(t) : p \in DOMAIN queued \/ HasTxIndex(s, p)
                  /\ InRange(rec, t)
                  /\ ConnectInputs(rec, t, h)
           new == [p \in Inputs(t) |-> MarkSpent(rec[p], p, t, <<b, t>>)]
           u == ConnectTx(s, b, h, r, t)
           q == Over(NewRec(t, b), Over(new, queued))
<1>1. u = IF ok THEN <<TRUE, q>> ELSE <<FALSE, queued>>
  BY DEF ConnectTx
<1>2. CASE ~ok
  <2>1. u = <<FALSE, queued>>
    BY <1>1, <1>2
  <2> HIDE DEF u
  <2> QED BY <2>1 DEF QueuedType, u
<1>3. CASE ok
  <2>1. \A p \in Inputs(t) : p \in DOMAIN queued \/ p \in Found(s)
    BY <1>3, ReadFacts
  <2>2. \A p \in Inputs(t) : rec[p] \in TxIndexRecord(p)
    BY <2>1, ReadFacts DEF QueuedType, IndexType
  <2>3. Inputs(t) \subseteq Tx /\ <<b, t>> \in Pos
    BY InputsFacts DEF Pos
  <2>4. r[1]
    BY <1>3
  <2> HIDE DEF rec, ok
  <2>5. IndexType(new) /\ DOMAIN new = Inputs(t)
    BY <2>2, <2>3, MarkSpentType DEF IndexType
  <2> HIDE DEF new
  <2>6. IndexType(Over(new, queued)) /\ DOMAIN Over(new, queued) = Inputs(t) \cup DOMAIN queued
    BY <2>5, OverType DEF QueuedType
  <2>7. IndexType(q) /\ DOMAIN q = {t} \cup DOMAIN Over(new, queued)
    <3>1. IndexType(NewRec(t, b)) /\ DOMAIN NewRec(t, b) = {t}
      BY NewRecType
    <3> QED BY <2>6, <3>1, OverType
  <2> HIDE DEF q
  <2>8. u = <<TRUE, q>>
    BY <1>1, <1>3
  <2> HIDE DEF u
  <2>9. QueuedType(u) /\ u[2] = q
    BY <2>7, <2>8 DEF QueuedType
  <2> QED BY <2>1, <2>4, <2>6, <2>7, <2>9 DEF u
<1> QED BY <1>2, <1>3

\* A loop over the transactions of a sequence meets each of them.
LEMMA RangeSteps ==
    ASSUME NEW S, NEW vtx \in Seq(S)
    PROVE  /\ Range(vtx) = {vtx[k] : k \in 1 .. Len(vtx)}
           /\ Len(vtx) \in Nat
           /\ \A n \in 0 .. Len(vtx) - 1 :
                 /\ vtx[n + 1] \in S
                 /\ {vtx[k] : k \in 1 .. n + 1} = {vtx[k] : k \in 1 .. n} \cup {vtx[n + 1]}
           /\ {vtx[k] : k \in 1 .. 0} = {}
<1>1. Len(vtx) \in Nat /\ DOMAIN vtx = 1 .. Len(vtx)
  OBVIOUS
<1>2. Range(vtx) = {vtx[k] : k \in 1 .. Len(vtx)}
  BY <1>1 DEF Range
<1>3. ASSUME NEW n \in 0 .. Len(vtx) - 1
      PROVE  /\ vtx[n + 1] \in S
             /\ {vtx[k] : k \in 1 .. n + 1} = {vtx[k] : k \in 1 .. n} \cup {vtx[n + 1]}
  <2>1. n + 1 \in 1 .. Len(vtx)
    BY <1>1
  <2>2. 1 .. n + 1 = (1 .. n) \cup {n + 1}
    OBVIOUS
  <2> QED BY <2>1, <2>2
<1>4. {vtx[k] : k \in 1 .. 0} = {}
  OBVIOUS
<1> QED BY <1>1, <1>2, <1>3, <1>4

\* What a block queues are records of its own transactions and of what they
\* spend.
LEMMA QueuedChangesFacts ==
    ASSUME NEW s, BatchType(s), NEW b \in Block, NEW h, NEW vtx \in Seq(Tx)
    PROVE  LET r == QueuedChanges(s, b, h, vtx) IN
           /\ QueuedType(r)
           /\ DOMAIN r[2] \subseteq Range(vtx) \cup Found(s)
           /\ r[1] => Range(vtx) \subseteq DOMAIN r[2]
<1>1. PICK acc : QueuedSteps(acc, s, b, h, vtx)
  BY QueuedChangesSteps
<1> DEFINE Met(n) == {vtx[k] : k \in 1 .. n}
           P(n) == /\ QueuedType(acc[n])
                   /\ DOMAIN acc[n][2] \subseteq Met(n) \cup Found(s)
                   /\ acc[n][1] => Met(n) \subseteq DOMAIN acc[n][2]
           S == {n \in 0 .. Len(vtx) : P(n)}
<1>2. /\ Range(vtx) = Met(Len(vtx)) /\ Len(vtx) \in Nat
      /\ \A n \in 0 .. Len(vtx) - 1 : vtx[n + 1] \in Tx /\ Met(n + 1) = Met(n) \cup {vtx[n + 1]}
      /\ Met(0) = {}
  BY RangeSteps
<1> HIDE DEF Met
<1>3. P(0)
  BY <1>1, <1>2 DEF QueuedSteps, QueuedType, IndexType
<1>4. ASSUME NEW n \in 0 .. Len(vtx) - 1, P(n)
      PROVE  P(n + 1)
  <2> DEFINE t == vtx[n + 1]
             r == acc[n]
             u == acc[n + 1]
  <2>1. /\ QueuedType(r) /\ t \in Tx
        /\ DOMAIN r[2] \subseteq Met(n) \cup Found(s)
        /\ r[1] => Met(n) \subseteq DOMAIN r[2]
        /\ Met(n + 1) = Met(n) \cup {t}
    BY <1>2, <1>4
  <2>2. u = ConnectTx(s, b, h, r, t)
    BY <1>1 DEF QueuedSteps
  <2> HIDE DEF t, r, u
  <2>3. /\ QueuedType(u) /\ (u[1] => r[1] /\ t \in DOMAIN u[2])
        /\ DOMAIN r[2] \subseteq DOMAIN u[2]
        /\ DOMAIN u[2] \subseteq DOMAIN r[2] \cup {t} \cup Found(s)
    BY <2>1, <2>2, ConnectTxFacts
  <2>4. /\ QueuedType(u) /\ DOMAIN u[2] \subseteq Met(n + 1) \cup Found(s)
        /\ u[1] => Met(n + 1) \subseteq DOMAIN u[2]
    BY <2>1, <2>3
  <2> QED BY <2>4 DEF u
<1> HIDE DEF P
<1>5. Len(vtx) \in S
  <2>1. 0 \in S /\ \A n \in 0 .. Len(vtx) - 1 : n \in S => n + 1 \in S
    BY <1>2, <1>3, <1>4
  <2> HIDE DEF S
  <2> QED BY <1>2, <2>1, CountUp
<1>6. P(Len(vtx))
  BY <1>5
<1> QED BY <1>1, <1>2, <1>6 DEF P, QueuedSteps

\* A block that connects adds its transactions.
LEMMA ConnectBlockFacts ==
    ASSUME NEW s, BatchType(s), NEW b \in Block
    PROVE  LET u == ConnectBlock(s, b) IN
           /\ BatchType(u)
           /\ u.ok => s.ok /\ Found(u) = Found(s) \cup Range(Vtx[b])
<1> DEFINE r == QueuedChanges(s, b, Height(b), Vtx[b])
           u == ConnectBlock(s, b)
<1>1. u = IF s.ok /\ r[1] THEN UpdateTxIndex(s, r[2]) ELSE [s EXCEPT !.ok = FALSE]
  BY DEF ConnectBlock
<1>2. Vtx[b] \in Seq(Tx)
  BY BlockAssumption
<1>3. /\ IndexType(r[2])
      /\ DOMAIN r[2] \subseteq Range(Vtx[b]) \cup Found(s)
      /\ r[1] => Range(Vtx[b]) \subseteq DOMAIN r[2]
  BY <1>2, QueuedChangesFacts DEF QueuedType
<1> HIDE DEF r, u
<1>4. CASE s.ok /\ r[1]
  <2>1. BatchType(u) /\ Found(u) = Found(s) \cup DOMAIN r[2] /\ u.ok = s.ok
    BY <1>1, <1>3, <1>4, UpdateFacts
  <2> QED BY <1>3, <1>4, <2>1 DEF u
<1>5. CASE ~(s.ok /\ r[1])
  BY <1>1, <1>5, FailFacts DEF u
<1> QED BY <1>4, <1>5

\* A transaction that is disconnected is erased; nothing else appears or goes.
LEMMA DisconnectInputsFacts ==
    ASSUME NEW s, BatchType(s), NEW t \in Tx
    PROVE  LET u == DisconnectInputs(s, t) IN
           /\ BatchType(u)
           /\ u.ok => s.ok /\ Found(u) = Found(s) \ {t}
<1> DEFINE ok  == /\ \A p \in Inputs(t) : HasTxIndex(s, p)
                  /\ InRange([p \in Inputs(t) |-> ReadTxIndex(s, p)], t)
           new == [p \in Inputs(t) |-> MarkSpent(ReadTxIndex(s, p), p, t, NoPos)]
           v == UpdateTxIndex(s, new)
           u == DisconnectInputs(s, t)
<1>1. u = IF s.ok /\ ok THEN EraseTxIndex(v, t) ELSE [s EXCEPT !.ok = FALSE]
  BY DEF DisconnectInputs
<1>2. CASE s.ok /\ ok
  <2>1. u = EraseTxIndex(v, t)
    BY <1>1, <1>2
  <2>2. Inputs(t) \subseteq Found(s)
    BY <1>2, ReadFacts
  <2>3. \A p \in Inputs(t) : ReadTxIndex(s, p) \in TxIndexRecord(p)
    BY <2>2, ReadFacts
  <2>4. Inputs(t) \subseteq Tx /\ NoPos \in Pos
    BY InputsFacts DEF Pos
  <2>5. IndexType(new) /\ DOMAIN new = Inputs(t)
    BY <2>3, <2>4, MarkSpentType DEF IndexType
  <2> HIDE DEF new, ok, u
  <2>6. BatchType(v) /\ Found(v) = Found(s) \cup Inputs(t) /\ v.ok = s.ok
    BY <2>5, UpdateFacts
  <2> HIDE DEF v
  <2>7. BatchType(u) /\ Found(u) = Found(v) \ {t} /\ u.ok = v.ok
    BY <2>1, <2>6, EraseFacts
  <2> QED BY <1>2, <2>2, <2>6, <2>7 DEF u
<1>3. CASE ~(s.ok /\ ok)
  <2> HIDE DEF ok, v, u
  <2> QED BY <1>1, <1>3, FailFacts DEF u
<1> QED BY <1>2, <1>3

\* The loop that goes through a sequence backwards meets the same elements.
LEMMA ReverseFacts ==
    ASSUME NEW S, NEW v \in Seq(S)
    PROVE  /\ Reverse(v) \in Seq(S) /\ Len(Reverse(v)) = Len(v)
           /\ Range(Reverse(v)) = Range(v)
<1> DEFINE w == Reverse(v)
           N == Len(v)
<1>1. N \in Nat /\ DOMAIN v = 1 .. N /\ \A k \in 1 .. N : v[k] \in S
  OBVIOUS
<1>2. w = [k \in 1 .. N |-> v[(N - k) + 1]]
  BY DEF Reverse
<1>3. \A k \in 1 .. N : (N - k) + 1 \in 1 .. N /\ (N - ((N - k) + 1)) + 1 = k
  <2>1. N \in Nat
    BY <1>1
  <2> HIDE DEF N
  <2> QED BY <2>1
<1> HIDE DEF w, N
<1>4. w \in Seq(S) /\ DOMAIN w = 1 .. N /\ Len(w) = N
  <2>1. \A k \in 1 .. N : v[(N - k) + 1] \in S
    BY <1>1, <1>3
  <2>2. w \in [1 .. N -> S]
    BY <1>2, <2>1
  <2> QED BY <1>1, <2>2
<1>5. \A k \in 1 .. N : w[k] = v[(N - k) + 1] /\ v[k] = w[(N - k) + 1]
  BY <1>2, <1>3
<1>6. Range(w) = {w[k] : k \in 1 .. N} /\ Range(v) = {v[k] : k \in 1 .. N}
  BY <1>1, <1>4 DEF Range
<1>7. Range(w) \subseteq Range(v)
  <2> SUFFICES ASSUME NEW k \in 1 .. N PROVE w[k] \in {v[m] : m \in 1 .. N}
    BY <1>6
  <2>1. w[k] = v[(N - k) + 1] /\ (N - k) + 1 \in 1 .. N
    BY <1>3, <1>5
  <2> QED BY <2>1
<1>8. Range(v) \subseteq Range(w)
  <2> SUFFICES ASSUME NEW k \in 1 .. N PROVE v[k] \in {w[m] : m \in 1 .. N}
    BY <1>6
  <2>1. v[k] = w[(N - k) + 1] /\ (N - k) + 1 \in 1 .. N
    BY <1>3, <1>5
  <2> QED BY <2>1
<1> QED BY <1>4, <1>7, <1>8 DEF w, N

\* A block that is disconnected takes its transactions with it.
LEMMA DisconnectBlockFacts ==
    ASSUME NEW s, BatchType(s), NEW b \in Block
    PROVE  LET u == DisconnectBlock(s, b) IN
           /\ BatchType(u)
           /\ u.ok => s.ok /\ Found(u) = Found(s) \ Range(Vtx[b])
<1> DEFINE vtx == Reverse(Vtx[b])
           Met(n) == {vtx[k] : k \in 1 .. n}
<1>0. vtx \in Seq(Tx) /\ Range(vtx) = Range(Vtx[b])
  BY BlockAssumption, ReverseFacts
<1>1. PICK acc : InputsSteps(acc, s, vtx) /\ DisconnectBlock(s, b) = acc[Len(vtx)]
  BY <1>0, DisconnectBlockSteps
<1> HIDE DEF vtx
<1>2. /\ Range(vtx) = Met(Len(vtx)) /\ Len(vtx) \in Nat
      /\ \A n \in 0 .. Len(vtx) - 1 : vtx[n + 1] \in Tx /\ Met(n + 1) = Met(n) \cup {vtx[n + 1]}
      /\ Met(0) = {}
  BY <1>0, RangeSteps
<1> DEFINE P(n) == /\ BatchType(acc[n])
                   /\ acc[n].ok => s.ok /\ Found(acc[n]) = Found(s) \ Met(n)
           S == {n \in 0 .. Len(vtx) : P(n)}
<1> HIDE DEF Met
<1>3. P(0)
  BY <1>1, <1>2 DEF InputsSteps
<1>4. ASSUME NEW n \in 0 .. Len(vtx) - 1, P(n)
      PROVE  P(n + 1)
  <2> DEFINE t == vtx[n + 1]
             r == acc[n]
             u == acc[n + 1]
  <2>1. /\ BatchType(r) /\ t \in Tx
        /\ r.ok => s.ok /\ Found(r) = Found(s) \ Met(n)
        /\ Met(n + 1) = Met(n) \cup {t}
    BY <1>2, <1>4
  <2>2. u = DisconnectInputs(r, t)
    BY <1>1 DEF InputsSteps
  <2> HIDE DEF t, r, u
  <2>3. BatchType(u) /\ (u.ok => r.ok /\ Found(u) = Found(r) \ {t})
    BY <2>1, <2>2, DisconnectInputsFacts
  <2>4. BatchType(u) /\ (u.ok => s.ok /\ Found(u) = Found(s) \ Met(n + 1))
    BY <2>1, <2>3
  <2> QED BY <2>4 DEF u
<1> HIDE DEF P
<1>5. Len(vtx) \in S
  <2>1. 0 \in S /\ \A n \in 0 .. Len(vtx) - 1 : n \in S => n + 1 \in S
    BY <1>2, <1>3, <1>4
  <2> HIDE DEF S
  <2> QED BY <1>2, <2>1, CountUp
<1>6. P(Len(vtx))
  BY <1>5
<1> QED BY <1>0, <1>1, <1>2, <1>6 DEF P

-----------------------------------------------------------------------------
(***************************************************************************)
(* A switch of branches.                                                   *)
(***************************************************************************)
TxsOf(bs) == UNION {Range(Vtx[c]) : c \in Range(bs)}

\* The transactions of the blocks a loop has met.
LEMMA TxsOfSteps ==
    ASSUME NEW bs \in Seq(Block)
    PROVE  LET MetTx(n) == UNION {Range(Vtx[c]) : c \in {bs[k] : k \in 1 .. n}} IN
           /\ TxsOf(bs) = MetTx(Len(bs)) /\ Len(bs) \in Nat
           /\ \A n \in 0 .. Len(bs) - 1 :
                 bs[n + 1] \in Block /\ MetTx(n + 1) = MetTx(n) \cup Range(Vtx[bs[n + 1]])
           /\ MetTx(0) = {}
<1> DEFINE Met(n) == {bs[k] : k \in 1 .. n}
           MetTx(n) == UNION {Range(Vtx[c]) : c \in Met(n)}
<1>1. /\ Range(bs) = Met(Len(bs)) /\ Len(bs) \in Nat
      /\ \A n \in 0 .. Len(bs) - 1 : bs[n + 1] \in Block /\ Met(n + 1) = Met(n) \cup {bs[n + 1]}
      /\ Met(0) = {}
  BY RangeSteps
<1> HIDE DEF Met
<1>2. /\ TxsOf(bs) = MetTx(Len(bs)) /\ Len(bs) \in Nat
      /\ \A n \in 0 .. Len(bs) - 1 :
            bs[n + 1] \in Block /\ MetTx(n + 1) = MetTx(n) \cup Range(Vtx[bs[n + 1]])
      /\ MetTx(0) = {}
  BY <1>1 DEF TxsOf
<1> QED BY <1>2 DEF Met

\* What vDisconnect takes away ...
LEMMA DisconnectAllFacts ==
    ASSUME NEW s, BatchType(s), NEW bs \in Seq(Block)
    PROVE  LET u == DisconnectAll(s, bs) IN
           /\ BatchType(u)
           /\ u.ok => s.ok /\ Found(u) = Found(s) \ TxsOf(bs)
<1> DEFINE MetTx(n) == UNION {Range(Vtx[c]) : c \in {bs[k] : k \in 1 .. n}}
<1>1. PICK acc : DisconnectSteps(acc, s, bs) /\ DisconnectAll(s, bs) = acc[Len(bs)]
  BY DisconnectAllSteps
<1>2. /\ TxsOf(bs) = MetTx(Len(bs)) /\ Len(bs) \in Nat
      /\ \A n \in 0 .. Len(bs) - 1 :
            bs[n + 1] \in Block /\ MetTx(n + 1) = MetTx(n) \cup Range(Vtx[bs[n + 1]])
      /\ MetTx(0) = {}
  BY TxsOfSteps
<1> DEFINE P(n) == /\ BatchType(acc[n])
                   /\ acc[n].ok => s.ok /\ Found(acc[n]) = Found(s) \ MetTx(n)
           S == {n \in 0 .. Len(bs) : P(n)}
<1> HIDE DEF MetTx
<1>3. P(0)
  BY <1>1, <1>2 DEF DisconnectSteps
<1>4. ASSUME NEW n \in 0 .. Len(bs) - 1, P(n)
      PROVE  P(n + 1)
  <2> DEFINE b == bs[n + 1]
             r == acc[n]
             u == acc[n + 1]
  <2>1. /\ BatchType(r) /\ b \in Block
        /\ r.ok => s.ok /\ Found(r) = Found(s) \ MetTx(n)
        /\ MetTx(n + 1) = MetTx(n) \cup Range(Vtx[b])
    BY <1>2, <1>4
  <2>2. u = DisconnectBlock(r, b)
    BY <1>1 DEF DisconnectSteps
  <2> HIDE DEF b, r, u
  <2>3. BatchType(u) /\ (u.ok => r.ok /\ Found(u) = Found(r) \ Range(Vtx[b]))
    BY <2>1, <2>2, DisconnectBlockFacts
  <2>4. BatchType(u) /\ (u.ok => s.ok /\ Found(u) = Found(s) \ MetTx(n + 1))
    BY <2>1, <2>3
  <2> QED BY <2>4 DEF u
<1> HIDE DEF P
<1>5. Len(bs) \in S
  <2>1. 0 \in S /\ \A n \in 0 .. Len(bs) - 1 : n \in S => n + 1 \in S
    BY <1>2, <1>3, <1>4
  <2> HIDE DEF S
  <2> QED BY <1>2, <2>1, CountUp
<1>6. P(Len(bs))
  BY <1>5
<1> QED BY <1>1, <1>2, <1>6 DEF P

\* ... and what vConnect adds.
LEMMA ConnectAllFacts ==
    ASSUME NEW s, BatchType(s), NEW bs \in Seq(Block)
    PROVE  LET u == ConnectAll(s, bs) IN
           /\ BatchType(u)
           /\ u.ok => s.ok /\ Found(u) = Found(s) \cup TxsOf(bs)
<1> DEFINE MetTx(n) == UNION {Range(Vtx[c]) : c \in {bs[k] : k \in 1 .. n}}
<1>1. PICK acc : ConnectSteps(acc, s, bs) /\ ConnectAll(s, bs) = acc[Len(bs)]
  BY ConnectAllSteps
<1>2. /\ TxsOf(bs) = MetTx(Len(bs)) /\ Len(bs) \in Nat
      /\ \A n \in 0 .. Len(bs) - 1 :
            bs[n + 1] \in Block /\ MetTx(n + 1) = MetTx(n) \cup Range(Vtx[bs[n + 1]])
      /\ MetTx(0) = {}
  BY TxsOfSteps
<1> DEFINE P(n) == /\ BatchType(acc[n])
                   /\ acc[n].ok => s.ok /\ Found(acc[n]) = Found(s) \cup MetTx(n)
           S == {n \in 0 .. Len(bs) : P(n)}
<1> HIDE DEF MetTx
<1>3. P(0)
  BY <1>1, <1>2 DEF ConnectSteps
<1>4. ASSUME NEW n \in 0 .. Len(bs) - 1, P(n)
      PROVE  P(n + 1)
  <2> DEFINE b == bs[n + 1]
             r == acc[n]
             u == acc[n + 1]
  <2>1. /\ BatchType(r) /\ b \in Block
        /\ r.ok => s.ok /\ Found(r) = Found(s) \cup MetTx(n)
        /\ MetTx(n + 1) = MetTx(n) \cup Range(Vtx[b])
    BY <1>2, <1>4
  <2>2. u = ConnectBlock(r, b)
    BY <1>1 DEF ConnectSteps
  <2> HIDE DEF b, r, u
  <2>3. BatchType(u) /\ (u.ok => r.ok /\ Found(u) = Found(r) \cup Range(Vtx[b]))
    BY <2>1, <2>2, ConnectBlockFacts
  <2>4. BatchType(u) /\ (u.ok => s.ok /\ Found(u) = Found(s) \cup MetTx(n + 1))
    BY <2>1, <2>3
  <2> QED BY <2>4 DEF u
<1> HIDE DEF P
<1>5. Len(bs) \in S
  <2>1. 0 \in S /\ \A n \in 0 .. Len(bs) - 1 : n \in S => n + 1 \in S
    BY <1>2, <1>3, <1>4
  <2> HIDE DEF S
  <2> QED BY <1>2, <2>1, CountUp
<1>6. P(Len(bs))
  BY <1>5
<1> QED BY <1>1, <1>2, <1>6 DEF P

\* The index after a switch has the transactions it had, without those of the
\* disconnected blocks, and those of the connected blocks: a transaction that
\* is in both stays.
THEOREM SwitchMovesBranch ==
    ASSUME NEW db, IndexType(db), NEW best \in Block, NEW b \in Block,
           Switch(db, best, b).ok
    PROVE  LET new == TxnCommit(Switch(db, best, b)) IN
           /\ IndexType(new)
           /\ DOMAIN new = (DOMAIN db \ TxsOf(vDisconnect(best, b))) \cup TxsOf(vConnect(best, b))
<1> DEFINE s0 == TxnBegin(db)
           s1 == DisconnectAll(s0, vDisconnect(best, b))
           s2 == ConnectAll(s1, vConnect(best, b))
<1>1. vDisconnect(best, b) \in Seq(Block) /\ vConnect(best, b) \in Seq(Block)
  BY BranchTypes
<1>2. BatchType(s0) /\ Found(s0) = DOMAIN db
  BY TxnBeginFacts
<1>3. Switch(db, best, b) = s2
  BY DEF Switch
<1> HIDE DEF s0
<1>4. BatchType(s1) /\ (s1.ok => Found(s1) = Found(s0) \ TxsOf(vDisconnect(best, b)))
  BY <1>1, <1>2, DisconnectAllFacts
<1> HIDE DEF s1
<1>5. BatchType(s2) /\ (s2.ok => s1.ok /\ Found(s2) = Found(s1) \cup TxsOf(vConnect(best, b)))
  BY <1>1, <1>4, ConnectAllFacts
<1> HIDE DEF s2
<1>6. IndexType(TxnCommit(s2)) /\ DOMAIN TxnCommit(s2) = Found(s2)
  BY <1>5, TxnCommitFacts
<1> QED BY <1>2, <1>3, <1>4, <1>5, <1>6


-----------------------------------------------------------------------------
(***************************************************************************)
(* Heights and places.                                                     *)
(***************************************************************************)

\* A block is one higher than its parent, and on the chain it ends.
LEMMA HeightFacts ==
    ASSUME NEW b \in Block
    PROVE  /\ Height(b) \in Nat
           /\ b = Genesis => Range(Chain[b]) = {Genesis}
           /\ b # Genesis => /\ Parent[b] \in Block
                             /\ Height(b) = Height(Parent[b]) + 1
                             /\ Range(Chain[b]) = Range(Chain[Parent[b]]) \cup {b}
<1>1. Chain[b] \in Seq(Block)
  BY ChainIsPath DEF IsPath
<1>2. ASSUME b = Genesis PROVE Range(Chain[b]) = {Genesis}
  <2>1. Chain[b] = <<Genesis>>
    BY <1>2, ChainEquation
  <2> HIDE DEF Chain
  <2>2. DOMAIN Chain[b] = {1} /\ Chain[b][1] = Genesis
    BY <2>1
  <2> QED BY <2>2 DEF Range
<1>3. ASSUME b # Genesis
      PROVE  /\ Parent[b] \in Block
             /\ Height(b) = Height(Parent[b]) + 1
             /\ Range(Chain[b]) = Range(Chain[Parent[b]]) \cup {b}
  <2>1. Parent[b] \in Block
    BY <1>3, BlockAssumption
  <2> DEFINE s == Chain[Parent[b]]
  <2>2. s \in Seq(Block)
    BY <2>1, ChainIsPath DEF IsPath
  <2>3. Chain[b] = Append(s, b)
    BY <1>3, ChainEquation
  <2> HIDE DEF s
  <2>4. Range(Append(s, b)) = Range(s) \cup {b}
    <3> DEFINE w == Append(s, b)
    <3>1. /\ DOMAIN s = 1 .. Len(s) /\ DOMAIN w = 1 .. Len(s) + 1 /\ Len(s) \in Nat
          /\ w[Len(s) + 1] = b /\ \A n \in 1 .. Len(s) : w[n] = s[n]
      BY <2>2
    <3> HIDE DEF w
    <3>2. DOMAIN w = DOMAIN s \cup {Len(s) + 1}
      BY <3>1
    <3>3. Range(w) = Range(s) \cup {b}
      BY <3>1, <3>2 DEF Range
    <3> QED BY <3>3 DEF w
  <2>5. Len(Append(s, b)) = Len(s) + 1
    BY <2>2
  <2> QED BY <2>1, <2>3, <2>4, <2>5 DEF Height, s
<1> QED BY <1>1, <1>2, <1>3 DEF Height

\* No block of a chain is higher than its last one.
LEMMA HeightOnChain ==
    ASSUME NEW b \in Block, NEW c \in Range(Chain[b])
    PROVE  c \in Block /\ Height(c) <= Height(b)
<1> DEFINE Low(x) == \A d \in Range(Chain[x]) : d \in Block /\ Height(d) <= Height(x)
           T == {x \in Block \ {Genesis} : ~Low(x)}
<1>1. Low(Genesis)
  <2>1. Genesis \in Block
    BY BlockAssumption
  <2>2. Range(Chain[Genesis]) = {Genesis} /\ Height(Genesis) \in Nat
    BY <2>1, HeightFacts
  <2> QED BY <2>1, <2>2
<1> HIDE DEF Low
<1>2. T = {}
  <2> SUFFICES ASSUME T # {} PROVE FALSE
    OBVIOUS
  <2>1. PICK x \in T : Parent[x] \notin T
    BY NoCircleAssumption
  <2>2. x \in Block \ {Genesis} /\ Parent[x] \in Block /\ ~Low(x)
    BY BlockAssumption
  <2>3. Low(Parent[x])
    BY <1>1, <2>1, <2>2
  <2> DEFINE h == Height(x)
             g == Height(Parent[x])
  <2>4. /\ h \in Nat /\ g \in Nat /\ h = g + 1
        /\ Range(Chain[x]) = Range(Chain[Parent[x]]) \cup {x}
    BY <2>2, HeightFacts
  <2>5. ASSUME NEW d \in Range(Chain[x]) PROVE d \in Block /\ Height(d) <= h
    <3>1. CASE d = x
      BY <2>2, <2>4, <3>1
    <3>2. CASE d \in Range(Chain[Parent[x]])
      <4>1. d \in Block /\ Height(d) <= g
        BY <2>3, <3>2 DEF Low
      <4>2. Height(d) \in Nat
        BY <4>1, HeightFacts
      <4> HIDE DEF h, g
      <4> QED BY <2>4, <4>1, <4>2
    <3> QED BY <2>4, <3>1, <3>2
  <2>6. Low(x)
    BY <2>5 DEF Low
  <2> QED BY <2>2, <2>6
<1>3. Low(b)
  BY <1>1, <1>2
<1> QED BY <1>3 DEF Low

\* The places of the parent's chain and the first n transactions of b.
Upto(b, n) == Places(Parent[b]) \cup ({b} \X (1..n))

IsPlace(p) ==
    /\ p = <<p[1], p[2]>> /\ p[1] \in Block \ {Genesis}
    /\ p[2] \in Nat /\ p[2] \in DOMAIN Vtx[p[1]]

\* There is a transaction at every place, and none is higher than the chain.
LEMMA PlaceFacts ==
    ASSUME NEW b \in Block, NEW p \in Places(b)
    PROVE  IsPlace(p) /\ TxAt(p) \in Tx /\ p[1] \in Range(Chain[b]) /\ Height(p[1]) <= Height(b)
<1>1. PICK c \in Range(Chain[b]) \ {Genesis} : p \in {c} \X DOMAIN Vtx[c]
  BY DEF Places
<1>2. c \in Block /\ Height(c) <= Height(b)
  BY <1>1, HeightOnChain
<1>3. Vtx[c] \in Seq(Tx)
  BY <1>2, BlockAssumption
<1>4. p = <<p[1], p[2]>> /\ p[1] = c /\ p[2] \in DOMAIN Vtx[c] /\ p[2] \in Nat
  BY <1>1, <1>3
<1>5. TxAt(p) \in Tx
  BY <1>3, <1>4 DEF TxAt
<1> QED BY <1>1, <1>2, <1>4, <1>5 DEF IsPlace

\* The genesis block has no places.  Those of another block are those of its
\* parent, all of them lower, and its own.
LEMMA PlacesStep ==
    ASSUME NEW b \in Block
    PROVE  /\ b = Genesis => Places(b) = {}
           /\ b # Genesis => /\ Places(b) = Upto(b, Len(Vtx[b]))
                             /\ Upto(b, 0) = Places(Parent[b])
                             /\ \A p \in Places(Parent[b]) : p[1] # b /\ Height(p[1]) < Height(b)
<1>1. b = Genesis => Places(b) = {}
  BY HeightFacts DEF Places
<1>2. ASSUME b # Genesis
      PROVE  /\ Places(b) = Upto(b, Len(Vtx[b]))
             /\ Upto(b, 0) = Places(Parent[b])
             /\ \A p \in Places(Parent[b]) : p[1] # b /\ Height(p[1]) < Height(b)
  <2>1. /\ Parent[b] \in Block /\ Height(b) = Height(Parent[b]) + 1
        /\ Range(Chain[b]) = Range(Chain[Parent[b]]) \cup {b}
        /\ Height(b) \in Nat
    BY <1>2, HeightFacts
  <2>2. Height(Parent[b]) \in Nat
    BY <2>1, HeightFacts
  <2>3. DOMAIN Vtx[b] = 1 .. Len(Vtx[b])
    BY BlockAssumption
  <2>4. Places(b) = Places(Parent[b]) \cup ({b} \X DOMAIN Vtx[b])
    BY <1>2, <2>1 DEF Places
  <2>5. {b} \X (1..0) = {}
    OBVIOUS
  <2>6. ASSUME NEW p \in Places(Parent[b]) PROVE p[1] # b /\ Height(p[1]) < Height(b)
    <3>1. Height(p[1]) <= Height(Parent[b]) /\ p[1] \in Block
      BY <2>1, PlaceFacts DEF IsPlace
    <3>2. Height(p[1]) \in Nat
      BY <3>1, HeightFacts
    <3>3. Height(p[1]) < Height(b)
      BY <2>1, <2>2, <3>1, <3>2
    <3> QED BY <2>1, <3>3
  <2> QED BY <2>3, <2>4, <2>5, <2>6 DEF Upto
<1> QED BY <1>1, <1>2


\* What comes before a place: the transactions of its block that come first,
\* and those of the blocks below.
LEMMA BeforeFacts ==
    ASSUME NEW b \in Block, b # Genesis
    PROVE  /\ \A n \in 1 .. Len(Vtx[b]) :
                 {q \in Places(b) : Before(q, <<b, n>>)} = Upto(b, n - 1)
           /\ \A p \in Places(Parent[b]) :
                 {q \in Places(b) : Before(q, p)} = {q \in Places(Parent[b]) : Before(q, p)}
<1>1. /\ Places(b) = Places(Parent[b]) \cup ({b} \X (1 .. Len(Vtx[b])))
      /\ \A p \in Places(Parent[b]) : p[1] # b /\ Height(p[1]) < Height(b)
  BY PlacesStep DEF Upto
<1>2. Len(Vtx[b]) \in Nat /\ Height(b) \in Nat
  BY BlockAssumption, HeightFacts
<1>3. ASSUME NEW n \in 1 .. Len(Vtx[b])
      PROVE  {q \in Places(b) : Before(q, <<b, n>>)} = Upto(b, n - 1)
  <2>1. \A q \in Places(Parent[b]) : Before(q, <<b, n>>)
    BY <1>1 DEF Before
  <2>2. ASSUME NEW q \in {b} \X (1 .. Len(Vtx[b]))
        PROVE  Before(q, <<b, n>>) <=> q \in {b} \X (1 .. n - 1)
    <3>1. q = <<b, q[2]>> /\ q[1] = b /\ q[2] \in 1 .. Len(Vtx[b])
      OBVIOUS
    <3>2. Before(q, <<b, n>>) <=> q[2] < n
      BY <1>2, <3>1 DEF Before
    <3>3. q[2] < n <=> q[2] \in 1 .. n - 1
      BY <1>2, <3>1
    <3> QED BY <3>1, <3>2, <3>3
  <2>3. {b} \X (1 .. n - 1) \subseteq {b} \X (1 .. Len(Vtx[b]))
    <3>1. 1 .. n - 1 \subseteq 1 .. Len(Vtx[b])
      BY <1>2
    <3> QED BY <3>1
  <2> QED BY <1>1, <2>1, <2>2, <2>3 DEF Upto
<1>4. ASSUME NEW p \in Places(Parent[b]), NEW q \in {b} \X (1 .. Len(Vtx[b]))
      PROVE  ~Before(q, p)
  <2>1. q[1] = b
    OBVIOUS
  <2>2. p[1] # b /\ Height(p[1]) < Height(b)
    BY <1>1
  <2>3. p[1] \in Block
    <3>1. Parent[b] \in Block
      BY HeightFacts
    <3> QED BY <3>1, PlaceFacts DEF IsPlace
  <2>4. Height(p[1]) \in Nat
    BY <2>3, HeightFacts
  <2>5. ~(Height(b) < Height(p[1]))
    BY <1>2, <2>2, <2>4
  <2> QED BY <2>1, <2>2, <2>5 DEF Before
<1>5. ASSUME NEW p \in Places(Parent[b])
      PROVE  {q \in Places(b) : Before(q, p)} = {q \in Places(Parent[b]) : Before(q, p)}
  BY <1>1, <1>4
<1> QED BY <1>3, <1>5

\* A chain is valid when the chain of the parent is and each transaction of
\* the last block fits.
LEMMA ValidStep ==
    ASSUME NEW b \in Block
    PROVE  /\ b = Genesis => ValidChain(b)
           /\ b # Genesis =>
                (ValidChain(b) <=> /\ ValidChain(Parent[b])
                                   /\ \A n \in 1 .. Len(Vtx[b]) : Fits(Upto(b, n - 1), <<b, n>>))
<1>1. b = Genesis => ValidChain(b)
  BY PlacesStep DEF ValidChain
<1>2. ASSUME b # Genesis
      PROVE  ValidChain(b) <=> /\ ValidChain(Parent[b])
                               /\ \A n \in 1 .. Len(Vtx[b]) : Fits(Upto(b, n - 1), <<b, n>>)
  <2>1. Places(b) = Places(Parent[b]) \cup ({b} \X (1 .. Len(Vtx[b])))
    BY <1>2, PlacesStep DEF Upto
  <2> DEFINE Ok(p) == Fits({q \in Places(b) : Before(q, p)}, p)
  <2>2. \A p \in Places(Parent[b]) :
           Ok(p) <=> Fits({q \in Places(Parent[b]) : Before(q, p)}, p)
    BY <1>2, BeforeFacts
  <2>3. \A n \in 1 .. Len(Vtx[b]) : Ok(<<b, n>>) <=> Fits(Upto(b, n - 1), <<b, n>>)
    BY <1>2, BeforeFacts
  <2>4. ValidChain(b) <=> \A p \in Places(b) : Ok(p)
    BY DEF ValidChain
  <2> HIDE DEF Ok
  <2>5. ValidChain(Parent[b]) <=> \A p \in Places(Parent[b]) : Ok(p)
    BY <2>2 DEF ValidChain
  <2>6. (\A p \in {b} \X (1 .. Len(Vtx[b])) : Ok(p)) <=> \A n \in 1 .. Len(Vtx[b]) : Ok(<<b, n>>)
    <3>1. \A p \in {b} \X (1 .. Len(Vtx[b])) : p = <<b, p[2]>> /\ p[2] \in 1 .. Len(Vtx[b])
      OBVIOUS
    <3>2. \A n \in 1 .. Len(Vtx[b]) : <<b, n>> \in {b} \X (1 .. Len(Vtx[b]))
      OBVIOUS
    <3> QED BY <3>1, <3>2
  <2> QED BY <2>1, <2>3, <2>4, <2>5, <2>6
<1> QED BY <1>1, <1>2

-----------------------------------------------------------------------------
(***************************************************************************)
(* Sets of places that go together: no transaction twice, no output spent  *)
(* twice, none spent that is not there.                                    *)
(***************************************************************************)
Proper(S) ==
    /\ \A p \in S : IsPlace(p) /\ TxAt(p) \in Tx
    /\ \A p, q \in S : TxAt(p) = TxAt(q) => p = q
    /\ \A p, q \in S : Vin[TxAt(p)] \cap Vin[TxAt(q)] # {} => p = q
    /\ \A p \in S : \A o \in Vin[TxAt(p)] : \E q \in S : TxAt(q) = o[1]

\* A transaction that fits goes with the others.
LEMMA ProperStep ==
    ASSUME NEW S, Proper(S), NEW p, IsPlace(p), TxAt(p) \in Tx, Fits(S, p)
    PROVE  Proper(S \cup {p}) /\ p \notin S
<1> DEFINE t == TxAt(p)
<1>1. /\ \A q \in S : TxAt(q) # t /\ Vin[TxAt(q)] \cap Vin[t] = {}
      /\ \A o \in Vin[t] : \E q \in S : TxAt(q) = o[1]
  BY DEF Fits
<1>2. p \notin S
  BY <1>1
<1> HIDE DEF t
<1>3. \A q \in S \cup {p} : IsPlace(q) /\ TxAt(q) \in Tx
  BY DEF Proper
<1>4. \A q, r \in S \cup {p} : TxAt(q) = TxAt(r) => q = r
  BY <1>1 DEF Proper, t
<1>5. \A q, r \in S \cup {p} : Vin[TxAt(q)] \cap Vin[TxAt(r)] # {} => q = r
  <2>1. \A q \in S : Vin[t] \cap Vin[TxAt(q)] = {}
    BY <1>1
  <2> QED BY <1>1, <2>1 DEF Proper, t
<1>6. \A q \in S \cup {p} : \A o \in Vin[TxAt(q)] : \E r \in S \cup {p} : TxAt(r) = o[1]
  <2>1. \A q \in S : \A o \in Vin[TxAt(q)] : \E r \in S : TxAt(r) = o[1]
    BY DEF Proper
  <2>2. \A o \in Vin[TxAt(p)] : \E r \in S : TxAt(r) = o[1]
    BY <1>1 DEF t
  <2> QED BY <2>1, <2>2
<1> QED BY <1>2, <1>3, <1>4, <1>5, <1>6 DEF Proper

\* The places of b one after the other.
LEMMA UptoStep ==
    ASSUME NEW b \in Block, b # Genesis, NEW n \in 1 .. Len(Vtx[b])
    PROVE  /\ Upto(b, n) = Upto(b, n - 1) \cup {<<b, n>>}
           /\ <<b, n>> \notin Upto(b, n - 1)
           /\ IsPlace(<<b, n>>) /\ TxAt(<<b, n>>) = Vtx[b][n] /\ Vtx[b][n] \in Tx
<1>1. Vtx[b] \in Seq(Tx)
  BY BlockAssumption
<1>2. n \in Nat /\ n \in DOMAIN Vtx[b] /\ Vtx[b][n] \in Tx
  BY <1>1
<1>3. 1..n = (1 .. n - 1) \cup {n} /\ n \notin 1 .. n - 1
  BY <1>2
<1>4. {b} \X (1..n) = ({b} \X (1 .. n - 1)) \cup {<<b, n>>}
  <2>1. ASSUME NEW p \in {b} \X (1..n) PROVE p \in ({b} \X (1 .. n - 1)) \cup {<<b, n>>}
    <3>1. p = <<b, p[2]>> /\ p[2] \in 1..n
      OBVIOUS
    <3> QED BY <1>3, <3>1
  <2>2. <<b, n>> \in {b} \X (1..n)
    BY <1>3
  <2>3. {b} \X (1 .. n - 1) \subseteq {b} \X (1..n)
    BY <1>3
  <2> QED BY <2>1, <2>2, <2>3
<1>5. <<b, n>> \notin {b} \X (1 .. n - 1)
  BY <1>3
<1>6. <<b, n>> \notin Places(Parent[b])
  <2>1. <<b, n>>[1] = b
    OBVIOUS
  <2> QED BY <2>1, PlacesStep
<1>7. IsPlace(<<b, n>>) /\ TxAt(<<b, n>>) = Vtx[b][n]
  BY <1>2 DEF IsPlace, TxAt
<1> QED BY <1>2, <1>4, <1>5, <1>6, <1>7 DEF Upto


\* Block by block, and in each block transaction by transaction, the places of
\* a valid chain go together.
LEMMA ProperUpto ==
    ASSUME NEW b \in Block, b # Genesis, ValidChain(b), Proper(Places(Parent[b])),
           NEW k \in 0 .. Len(Vtx[b])
    PROVE  Proper(Upto(b, k))
<1> DEFINE N == Len(Vtx[b])
           S == {n \in 0..N : Proper(Upto(b, n))}
<1>1. N \in Nat
  BY BlockAssumption
<1>2. 0 \in S
  BY <1>1, PlacesStep
<1>3. ASSUME NEW n \in 0 .. N - 1, n \in S PROVE n + 1 \in S
  <2>1. n + 1 \in 1..N /\ (n + 1) - 1 = n /\ n + 1 \in 0..N
    BY <1>1
  <2>2. Proper(Upto(b, n))
    BY <1>3
  <2>3. Fits(Upto(b, n), <<b, n + 1>>)
    BY <2>1, ValidStep
  <2>4. /\ Upto(b, n + 1) = Upto(b, n) \cup {<<b, n + 1>>}
        /\ IsPlace(<<b, n + 1>>) /\ TxAt(<<b, n + 1>>) \in Tx
    BY <2>1, UptoStep
  <2>5. Proper(Upto(b, n + 1))
    BY <2>2, <2>3, <2>4, ProperStep
  <2> QED BY <2>1, <2>5
<1>4. k \in Nat /\ 0 .. k - 1 \subseteq 0 .. N - 1
  BY <1>1
<1> HIDE DEF S, N
<1>5. k \in S
  BY <1>2, <1>3, <1>4, CountUp
<1> QED BY <1>5 DEF S

\* All places of a valid chain go together.
LEMMA ValidIsProper ==
    ASSUME NEW b \in Block, ValidChain(b)
    PROVE  Proper(Places(b))
<1> DEFINE Good(x) == ValidChain(x) => Proper(Places(x))
           T == {x \in Block \ {Genesis} : ~Good(x)}
<1>1. Good(Genesis)
  BY PlacesStep, BlockAssumption DEF Proper
<1> HIDE DEF Good
<1>2. T = {}
  <2> SUFFICES ASSUME T # {} PROVE FALSE
    OBVIOUS
  <2>1. PICK x \in T : Parent[x] \notin T
    BY NoCircleAssumption
  <2>2. x \in Block \ {Genesis} /\ Parent[x] \in Block /\ ~Good(x)
    BY BlockAssumption
  <2>3. Good(Parent[x])
    BY <1>1, <2>1, <2>2
  <2>4. ValidChain(x) /\ ~Proper(Places(x))
    BY <2>2 DEF Good
  <2>5. Proper(Places(Parent[x]))
    BY <2>2, <2>3, <2>4, ValidStep DEF Good
  <2>6. Len(Vtx[x]) \in 0 .. Len(Vtx[x])
    BY <2>2, BlockAssumption
  <2>7. Proper(Upto(x, Len(Vtx[x])))
    BY <2>2, <2>4, <2>5, <2>6, ProperUpto
  <2> QED BY <2>2, <2>4, <2>7, PlacesStep
<1>3. Good(b)
  BY <1>1, <1>2
<1> QED BY <1>3 DEF Good

-----------------------------------------------------------------------------
(***************************************************************************)
(* The index of a set of places.                                           *)
(***************************************************************************)

\* An output is spent by the one transaction that spends it.
LEMMA SpentByFacts ==
    ASSUME NEW S, Proper(S), NEW t, NEW n
    PROVE  /\ \A q \in S : <<t, n>> \in Vin[TxAt(q)] => SpentBy(S, t, n) = <<q[1], TxAt(q)>>
           /\ (\A q \in S : <<t, n>> \notin Vin[TxAt(q)]) => SpentBy(S, t, n) = NoPos
           /\ SpentBy(S, t, n) = NoPos => \A q \in S : <<t, n>> \notin Vin[TxAt(q)]
<1> DEFINE spenders == {q \in S : <<t, n>> \in Vin[TxAt(q)]}
           r == CHOOSE q \in spenders : TRUE
<1>1. SpentBy(S, t, n) = IF spenders = {} THEN NoPos ELSE <<r[1], TxAt(r)>>
  BY DEF SpentBy
<1>2. ASSUME NEW q \in S, <<t, n>> \in Vin[TxAt(q)]
      PROVE  SpentBy(S, t, n) = <<q[1], TxAt(q)>>
  <2>1. q \in spenders /\ spenders # {}
    BY <1>2
  <2>2. r \in spenders
    BY <2>1
  <2>3. r \in S /\ <<t, n>> \in Vin[TxAt(r)]
    BY <2>2
  <2> HIDE DEF r, spenders
  <2>4. r = q
    BY <1>2, <2>3 DEF Proper
  <2> QED BY <1>1, <2>1, <2>4
<1>3. (\A q \in S : <<t, n>> \notin Vin[TxAt(q)]) => SpentBy(S, t, n) = NoPos
  BY <1>1
<1>4. \A q : <<q[1], TxAt(q)>> # NoPos
  BY DEF NoPos
<1> QED BY <1>2, <1>3, <1>4

\* The record that the transaction at p has in the index of S.
Rec(S, p) == [pos |-> p[1], vSpent |-> [n \in 1 .. Vout[TxAt(p)] |-> SpentBy(S, TxAt(p), n)]]

LEMMA IndexOfFacts ==
    ASSUME NEW S, Proper(S)
    PROVE  /\ DOMAIN IndexOf(S) = {TxAt(p) : p \in S}
           /\ \A p \in S : IndexOf(S)[TxAt(p)] = Rec(S, p)
<1>1. DOMAIN IndexOf(S) = {TxAt(p) : p \in S}
  BY DEF IndexOf
<1>2. ASSUME NEW p \in S PROVE IndexOf(S)[TxAt(p)] = Rec(S, p)
  <2> DEFINE t == TxAt(p)
             c == CHOOSE q \in S : TxAt(q) = t
  <2>1. t \in {TxAt(q) : q \in S}
    OBVIOUS
  <2>2. IndexOf(S)[t] = [pos |-> c[1], vSpent |-> [n \in 1 .. Vout[t] |-> SpentBy(S, t, n)]]
    BY <2>1 DEF IndexOf
  <2>3. c \in S /\ TxAt(c) = TxAt(p)
    OBVIOUS
  <2> HIDE DEF c
  <2>4. c = p
    BY <2>3 DEF Proper
  <2> QED BY <2>2, <2>4 DEF Rec
<1> QED BY <1>1, <1>2

\* A map with these records is the index.
LEMMA IndexOfUnique ==
    ASSUME NEW S, Proper(S), NEW f, f = [t \in DOMAIN f |-> f[t]],
           DOMAIN f = {TxAt(p) : p \in S},
           \A p \in S : f[TxAt(p)] = Rec(S, p)
    PROVE  f = IndexOf(S)
<1>1. /\ DOMAIN IndexOf(S) = {TxAt(p) : p \in S}
      /\ \A p \in S : IndexOf(S)[TxAt(p)] = Rec(S, p)
  BY IndexOfFacts
<1>2. IndexOf(S) = [t \in DOMAIN IndexOf(S) |-> IndexOf(S)[t]]
  BY DEF IndexOf
<1> HIDE DEF IndexOf
<1>3. \A t \in DOMAIN f : f[t] = IndexOf(S)[t]
  BY <1>1
<1> QED BY <1>1, <1>2, <1>3


-----------------------------------------------------------------------------
(***************************************************************************)
(* One transaction, on the map E of all records a reader sees: whether it  *)
(* connects, and what connecting and disconnecting it make of E.           *)
(***************************************************************************)
OkOn(E, t, h) == Inputs(t) \subseteq DOMAIN E /\ InRange(E, t) /\ ConnectInputs(E, t, h)

Marked(E, t, pos) == [p \in Inputs(t) |-> MarkSpent(E[p], p, t, pos)]

Spend(E, t, b) == Over(NewRec(t, b), Over(Marked(E, t, <<b, t>>), E))

Unspend(E, t) ==
    LET F == Over(Marked(E, t, NoPos), E) IN Restrict(F, DOMAIN F \ {t})

\* The fields of a record of the index.
LEMMA RecFacts ==
    ASSUME NEW S, NEW p
    PROVE  /\ Rec(S, p).pos = p[1]
           /\ DOMAIN Rec(S, p).vSpent = 1 .. Vout[TxAt(p)]
           /\ \A n \in 1 .. Vout[TxAt(p)] : Rec(S, p).vSpent[n] = SpentBy(S, TxAt(p), n)
BY DEF Rec

\* What the record of an input says of an output t spends.
LEMMA InputRecord ==
    ASSUME NEW S, Proper(S), NEW t \in Tx, NEW o \in Vin[t], NEW q \in S, TxAt(q) = o[1]
    PROVE  LET r == IndexOf(S)[o[1]] IN
           /\ o[1] \in DOMAIN IndexOf(S)
           /\ r.pos = q[1] /\ DOMAIN r.vSpent = 1 .. Vout[o[1]]
           /\ o[2] \in 1 .. Vout[o[1]] =>
                (r.vSpent[o[2]] = NoPos <=> \A x \in S : o \notin Vin[TxAt(x)])
<1>1. IndexOf(S)[o[1]] = Rec(S, q) /\ o[1] \in DOMAIN IndexOf(S)
  BY IndexOfFacts
<1>2. o = <<o[1], o[2]>>
  BY InputsFacts
<1>3. SpentBy(S, o[1], o[2]) = NoPos <=> \A x \in S : o \notin Vin[TxAt(x)]
  BY <1>2, SpentByFacts
<1>4. /\ Rec(S, q).pos = q[1] /\ DOMAIN Rec(S, q).vSpent = 1 .. Vout[o[1]]
      /\ \A n \in 1 .. Vout[o[1]] : Rec(S, q).vSpent[n] = SpentBy(S, o[1], n)
  BY RecFacts
<1> HIDE DEF IndexOf, Rec
<1> QED BY <1>1, <1>3, <1>4

\* On the index of S, a transaction connects exactly when it fits.  (A coinbase
\* has no inputs that could tell that it comes a second time.)
LEMMA ConnectsIffFits ==
    ASSUME NEW S, Proper(S), NEW p, IsPlace(p), TxAt(p) \in Tx,
           TxAt(p) \in CoinBase => \A q \in S : TxAt(q) # TxAt(p)
    PROVE  OkOn(IndexOf(S), TxAt(p), Height(p[1])) <=> Fits(S, p)
<1> DEFINE E == IndexOf(S)
           t == TxAt(p)
           h == Height(p[1])
<1>1. DOMAIN E = {TxAt(q) : q \in S}
  BY IndexOfFacts
<1>2. ASSUME NEW o \in Vin[t], NEW q \in S, TxAt(q) = o[1]
      PROVE  /\ o[1] \in DOMAIN E
             /\ E[o[1]].pos = q[1] /\ DOMAIN E[o[1]].vSpent = 1 .. Vout[o[1]]
             /\ o[2] \in 1 .. Vout[o[1]] =>
                  (E[o[1]].vSpent[o[2]] = NoPos <=> \A x \in S : o \notin Vin[TxAt(x)])
  BY <1>2, InputRecord
<1> HIDE DEF E
<1>3. ASSUME OkOn(E, t, h) PROVE Fits(S, p)
  <2>1. \A o \in Vin[t] : o[1] \in DOMAIN E
    BY <1>3 DEF OkOn, Inputs
  <2>2. t \notin BadScript
    BY <1>3 DEF OkOn, ConnectInputs
  <2>3. ASSUME NEW o \in Vin[t]
        PROVE  /\ \A x \in S : o \notin Vin[TxAt(x)]
               /\ \E q \in S : /\ TxAt(q) = o[1] /\ o[2] \in 1 .. Vout[o[1]]
                               /\ o[1] \in CoinBase \cup CoinStake =>
                                    h - Height(q[1]) >= nCoinbaseMaturity
    <3>1. PICK q \in S : TxAt(q) = o[1]
      BY <1>1, <2>1
    <3>2. o[2] \in DOMAIN E[o[1]].vSpent /\ Mature(E[o[1]], o[1], h)
          /\ E[o[1]].vSpent[o[2]] = NoPos
      BY <1>3 DEF OkOn, InRange, ConnectInputs
    <3>3. /\ E[o[1]].pos = q[1] /\ o[2] \in 1 .. Vout[o[1]]
          /\ \A x \in S : o \notin Vin[TxAt(x)]
      BY <1>2, <3>1, <3>2
    <3> QED BY <3>1, <3>2, <3>3 DEF Mature
  <2>4. \A q \in S : Vin[TxAt(q)] \cap Vin[t] = {}
    BY <2>3
  <2>5. ASSUME NEW q \in S PROVE TxAt(q) # t
    <3>1. CASE t \in CoinBase
      BY <3>1
    <3>2. CASE t \notin CoinBase
      <4>1. Vin[t] # {}
        BY <3>2, TxAssumption
      <4> QED BY <2>4, <4>1
    <3> QED BY <3>1, <3>2
  <2> HIDE DEF h
  <2> QED BY <2>2, <2>3, <2>4, <2>5 DEF Fits, h
<1>4. ASSUME Fits(S, p) PROVE OkOn(E, t, h)
  <2>1. /\ t \notin BadScript
        /\ \A q \in S : Vin[TxAt(q)] \cap Vin[t] = {}
        /\ \A o \in Vin[t] : \E q \in S :
              /\ TxAt(q) = o[1] /\ o[2] \in 1 .. Vout[o[1]]
              /\ o[1] \in CoinBase \cup CoinStake => h - Height(q[1]) >= nCoinbaseMaturity
    BY <1>4 DEF Fits
  <2> HIDE DEF t, h
  <2>2. ASSUME NEW o \in Vin[t]
        PROVE  /\ o[1] \in DOMAIN E /\ o[2] \in DOMAIN E[o[1]].vSpent
               /\ Mature(E[o[1]], o[1], h) /\ E[o[1]].vSpent[o[2]] = NoPos
    <3>1. PICK q \in S :
              /\ TxAt(q) = o[1] /\ o[2] \in 1 .. Vout[o[1]]
              /\ o[1] \in CoinBase \cup CoinStake => h - Height(q[1]) >= nCoinbaseMaturity
      BY <2>1
    <3>2. \A x \in S : o \notin Vin[TxAt(x)]
      BY <2>1
    <3> QED BY <1>2, <3>1, <3>2 DEF Mature
  <2> QED BY <2>1, <2>2 DEF OkOn, InRange, ConnectInputs, Inputs
<1> QED BY <1>3, <1>4 DEF E


\* Marking outputs changes vSpent and nothing else.
LEMMA MarkSpentFacts ==
    ASSUME NEW a, NEW v, NEW p, NEW t, NEW pos
    PROVE  MarkSpent([pos |-> a, vSpent |-> v], p, t, pos) =
             [pos |-> a, vSpent |-> [n \in DOMAIN v |-> IF <<p, n>> \in Vin[t] THEN pos ELSE v[n]]]
<1> DEFINE r == [pos |-> a, vSpent |-> v]
           w == [n \in DOMAIN r.vSpent |-> IF <<p, n>> \in Vin[t] THEN pos ELSE r.vSpent[n]]
<1>1. MarkSpent(r, p, t, pos) = [r EXCEPT !.vSpent = w]
  BY DEF MarkSpent
<1>2. r.vSpent = v
  OBVIOUS
<1>3. w = [n \in DOMAIN v |-> IF <<p, n>> \in Vin[t] THEN pos ELSE v[n]]
  BY <1>2
<1> HIDE DEF w
<1>4. [r EXCEPT !.vSpent = w] = [pos |-> a, vSpent |-> w]
  OBVIOUS
<1> QED BY <1>1, <1>3, <1>4

\* Who spends an output when the transaction at p is added.
LEMMA SpentByMore ==
    ASSUME NEW S, Proper(S), NEW p, Proper(S \cup {p}), Fits(S, p), NEW u, NEW n
    PROVE  /\ <<u, n>> \in Vin[TxAt(p)] => /\ SpentBy(S \cup {p}, u, n) = <<p[1], TxAt(p)>>
                                           /\ SpentBy(S, u, n) = NoPos
           /\ <<u, n>> \notin Vin[TxAt(p)] => SpentBy(S \cup {p}, u, n) = SpentBy(S, u, n)
<1>1. ASSUME <<u, n>> \in Vin[TxAt(p)]
      PROVE  SpentBy(S \cup {p}, u, n) = <<p[1], TxAt(p)>> /\ SpentBy(S, u, n) = NoPos
  <2>1. \A q \in S : <<u, n>> \notin Vin[TxAt(q)]
    BY <1>1 DEF Fits
  <2> QED BY <1>1, <2>1, SpentByFacts
<1>2. ASSUME <<u, n>> \notin Vin[TxAt(p)]
      PROVE  SpentBy(S \cup {p}, u, n) = SpentBy(S, u, n)
  <2>1. CASE \A q \in S : <<u, n>> \notin Vin[TxAt(q)]
    <3>1. \A q \in S \cup {p} : <<u, n>> \notin Vin[TxAt(q)]
      BY <1>2, <2>1
    <3> QED BY <2>1, <3>1, SpentByFacts
  <2>2. ASSUME NEW q \in S, <<u, n>> \in Vin[TxAt(q)]
        PROVE  SpentBy(S \cup {p}, u, n) = SpentBy(S, u, n)
    <3>1. q \in S \cup {p}
      OBVIOUS
    <3> QED BY <2>2, <3>1, SpentByFacts
  <2> QED BY <2>1, <2>2
<1> QED BY <1>1, <1>2

\* The record of q, which is there already, when the transaction at p is added,
\* and the way back.
LEMMA RecMore ==
    ASSUME NEW S, Proper(S), NEW p, Proper(S \cup {p}), TxAt(p) \in Tx, Fits(S, p), NEW q
    PROVE  LET u == TxAt(q)
               t == TxAt(p)
           IN  /\ MarkSpent(Rec(S, q), u, t, <<p[1], t>>) = Rec(S \cup {p}, q)
               /\ MarkSpent(Rec(S \cup {p}, q), u, t, NoPos) = Rec(S, q)
<1> DEFINE u == TxAt(q)
           t == TxAt(p)
           T == S \cup {p}
           N == 1 .. Vout[u]
           v == [n \in N |-> SpentBy(S, u, n)]
           w == [n \in N |-> SpentBy(T, u, n)]
<1>1. Rec(S, q) = [pos |-> q[1], vSpent |-> v] /\ Rec(T, q) = [pos |-> q[1], vSpent |-> w]
  BY DEF Rec
<1>2. ASSUME NEW n
      PROVE  /\ <<u, n>> \in Vin[t] => SpentBy(T, u, n) = <<p[1], t>> /\ SpentBy(S, u, n) = NoPos
             /\ <<u, n>> \notin Vin[t] => SpentBy(T, u, n) = SpentBy(S, u, n)
  BY SpentByMore
<1>3. DOMAIN v = N /\ DOMAIN w = N
  OBVIOUS
<1> HIDE DEF T, u, t
<1>4. [n \in N |-> IF <<u, n>> \in Vin[t] THEN <<p[1], t>> ELSE v[n]] = w
  BY <1>2
<1>5. [n \in N |-> IF <<u, n>> \in Vin[t] THEN NoPos ELSE w[n]] = v
  BY <1>2
<1> HIDE DEF v, w
<1>7. MarkSpent(Rec(S, q), u, t, <<p[1], t>>) = Rec(T, q)
  <2>1. [n \in DOMAIN v |-> IF <<u, n>> \in Vin[t] THEN <<p[1], t>> ELSE v[n]] = w
    BY <1>3, <1>4
  <2> QED BY <1>1, <2>1, MarkSpentFacts
<1>8. MarkSpent(Rec(T, q), u, t, NoPos) = Rec(S, q)
  <2>1. [n \in DOMAIN w |-> IF <<u, n>> \in Vin[t] THEN NoPos ELSE w[n]] = v
    BY <1>3, <1>5
  <2> QED BY <1>1, <2>1, MarkSpentFacts
<1> QED BY <1>1, <1>7, <1>8 DEF T, u, t

\* The record of a transaction that the one at p does not spend stays.
LEMMA RecSame ==
    ASSUME NEW S, Proper(S), NEW p, Proper(S \cup {p}), TxAt(p) \in Tx, Fits(S, p),
           NEW q, TxAt(q) \notin Inputs(TxAt(p))
    PROVE  Rec(S, q) = Rec(S \cup {p}, q)
<1> DEFINE u == TxAt(q)
<1>1. \A n : <<u, n>> \notin Vin[TxAt(p)]
  BY InputsFacts
<1>2. ASSUME NEW n PROVE SpentBy(S \cup {p}, u, n) = SpentBy(S, u, n)
  <2>1. <<u, n>> \notin Vin[TxAt(p)] => SpentBy(S \cup {p}, u, n) = SpentBy(S, u, n)
    BY SpentByMore
  <2> QED BY <1>1, <2>1
<1> QED BY <1>2 DEF Rec

\* Nobody spends an output of a transaction that has just been added.
LEMMA RecNew ==
    ASSUME NEW S, Proper(S), NEW p, Proper(S \cup {p}), TxAt(p) \in Tx, Fits(S, p)
    PROVE  Rec(S \cup {p}, p) = [pos |-> p[1], vSpent |-> Unspent(TxAt(p))]
<1> DEFINE t == TxAt(p)
<1>1. ASSUME NEW n PROVE SpentBy(S \cup {p}, t, n) = NoPos
  <2>1. ASSUME NEW x \in S PROVE <<t, n>> \notin Vin[TxAt(x)]
    <3> SUFFICES ASSUME <<t, n>> \in Vin[TxAt(x)] PROVE FALSE
      OBVIOUS
    <3>1. PICK y \in S : TxAt(y) = <<t, n>>[1]
      BY DEF Proper
    <3> QED BY <3>1 DEF Fits
  <2>2. <<t, n>> \notin Vin[t]
    BY InputsFacts
  <2>3. \A x \in S \cup {p} : <<t, n>> \notin Vin[TxAt(x)]
    BY <2>1, <2>2
  <2> QED BY <2>3, SpentByFacts
<1>2. [n \in 1 .. Vout[t] |-> SpentBy(S \cup {p}, t, n)] = Unspent(t)
  BY <1>1 DEF Unspent
<1> QED BY <1>2 DEF Rec

\* Where the records of one map lie over those of another.
LEMMA OverFacts ==
    ASSUME NEW f, NEW g
    PROVE  /\ DOMAIN Over(f, g) = DOMAIN f \cup DOMAIN g
           /\ \A x \in DOMAIN f : Over(f, g)[x] = f[x]
           /\ \A x \in DOMAIN g \ DOMAIN f : Over(f, g)[x] = g[x]
BY DEF Over

\* A part of a map.
LEMMA RestrictFacts ==
    ASSUME NEW f, NEW S
    PROVE  DOMAIN Restrict(f, S) = S /\ \A x \in S : Restrict(f, S)[x] = f[x]
BY DEF Restrict

\* Connecting a transaction makes the index of S that of S and p ...
LEMMA SpendIndex ==
    ASSUME NEW S, Proper(S), NEW p, IsPlace(p), TxAt(p) \in Tx, Fits(S, p)
    PROVE  Spend(IndexOf(S), TxAt(p), p[1]) = IndexOf(S \cup {p})
<1> DEFINE E == IndexOf(S)
           t == TxAt(p)
           b == p[1]
           T == S \cup {p}
           M == Marked(E, t, <<b, t>>)
           F == Over(M, E)
           G == Over(NewRec(t, b), F)
<1>1. Proper(T) /\ \A q \in S : TxAt(q) # t
  BY ProperStep DEF Fits
<1>2. DOMAIN E = {TxAt(q) : q \in S} /\ \A q \in S : E[TxAt(q)] = Rec(S, q)
  BY IndexOfFacts
<1>3. Inputs(t) \subseteq DOMAIN E
  BY <1>2 DEF Inputs, Fits
<1>4. /\ DOMAIN M = Inputs(t) /\ \A u \in Inputs(t) : M[u] = MarkSpent(E[u], u, t, <<b, t>>)
  BY DEF Marked
<1>5. /\ DOMAIN NewRec(t, b) = {t}
      /\ NewRec(t, b)[t] = [pos |-> b, vSpent |-> Unspent(t)]
  BY DEF NewRec
<1> HIDE DEF E, M
<1>6. /\ DOMAIN F = DOMAIN E
      /\ \A u \in Inputs(t) : F[u] = M[u]
      /\ \A u \in DOMAIN E \ Inputs(t) : F[u] = E[u]
  <2>1. /\ DOMAIN F = DOMAIN M \cup DOMAIN E
        /\ \A u \in DOMAIN M : F[u] = M[u]
        /\ \A u \in DOMAIN E \ DOMAIN M : F[u] = E[u]
    BY OverFacts
  <2> HIDE DEF F
  <2> QED BY <1>3, <1>4, <2>1
<1> HIDE DEF F
<1>7. /\ DOMAIN G = DOMAIN E \cup {t} /\ G = [x \in DOMAIN G |-> G[x]]
      /\ G[t] = [pos |-> b, vSpent |-> Unspent(t)]
      /\ \A u \in DOMAIN E \ {t} : G[u] = F[u]
  <2> DEFINE R == NewRec(t, b)
  <2>1. DOMAIN R = {t} /\ R[t] = [pos |-> b, vSpent |-> Unspent(t)]
    BY <1>5
  <2>2. /\ DOMAIN G = DOMAIN R \cup DOMAIN F
        /\ \A u \in DOMAIN R : G[u] = R[u]
        /\ \A u \in DOMAIN F \ DOMAIN R : G[u] = F[u]
    BY OverFacts
  <2>3. G = [x \in DOMAIN G |-> G[x]]
    BY DEF Over
  <2> HIDE DEF G, R
  <2> QED BY <1>6, <2>1, <2>2, <2>3
<1>8. Spend(E, t, b) = G
  BY DEF Spend, F, M
<1> HIDE DEF G
<1>9. DOMAIN G = {TxAt(q) : q \in T}
  BY <1>2, <1>7
<1>10. ASSUME NEW q \in T PROVE G[TxAt(q)] = Rec(T, q)
  <2>1. CASE q = p
    BY <1>1, <1>7, <2>1, RecNew
  <2>2. CASE q \in S
    <3> DEFINE u == TxAt(q)
    <3>1. u \in DOMAIN E /\ u # t /\ E[u] = Rec(S, q) /\ G[u] = F[u]
      BY <1>1, <1>2, <1>7, <2>2
    <3>2. CASE u \in Inputs(t)
      <4>1. G[u] = MarkSpent(Rec(S, q), u, t, <<b, t>>)
        BY <1>4, <1>6, <3>1, <3>2
      <4>2. MarkSpent(Rec(S, q), u, t, <<b, t>>) = Rec(T, q)
        BY <1>1, RecMore
      <4> QED BY <4>1, <4>2
    <3>3. CASE u \notin Inputs(t)
      <4>1. Rec(T, q) = Rec(S, q)
        BY <1>1, <3>3, RecSame
      <4> QED BY <1>6, <3>1, <3>3, <4>1
    <3> QED BY <3>2, <3>3
  <2> QED BY <2>1, <2>2
<1> HIDE DEF T
<1>11. G = IndexOf(T)
  BY <1>1, <1>7, <1>9, <1>10, IndexOfUnique
<1> QED BY <1>8, <1>11 DEF E, T

\* ... and disconnecting it gives back the index of S.
LEMMA UnspendIndex ==
    ASSUME NEW S, Proper(S), NEW p, IsPlace(p), TxAt(p) \in Tx, Fits(S, p)
    PROVE  /\ Unspend(IndexOf(S \cup {p}), TxAt(p)) = IndexOf(S)
           /\ Inputs(TxAt(p)) \subseteq DOMAIN IndexOf(S \cup {p})
           /\ InRange(IndexOf(S \cup {p}), TxAt(p))
<1> DEFINE T == S \cup {p}
           E == IndexOf(T)
           t == TxAt(p)
           M == Marked(E, t, NoPos)
           F == Over(M, E)
           G == Restrict(F, DOMAIN F \ {t})
<1>1. Proper(T) /\ \A q \in S : TxAt(q) # t
  BY ProperStep DEF Fits
<1>2. DOMAIN E = {TxAt(q) : q \in T} /\ \A q \in T : E[TxAt(q)] = Rec(T, q)
  BY <1>1, IndexOfFacts
<1>3. Inputs(t) \subseteq DOMAIN E /\ t \notin Inputs(t)
  BY <1>2, InputsFacts DEF Inputs, Fits
<1>4. ASSUME NEW o \in Vin[t] PROVE o[2] \in DOMAIN E[o[1]].vSpent
  <2>1. PICK q \in S : TxAt(q) = o[1] /\ o[2] \in 1 .. Vout[o[1]]
    BY DEF Fits
  <2>2. E[o[1]] = Rec(T, q)
    BY <1>2, <2>1
  <2>3. DOMAIN Rec(T, q).vSpent = 1 .. Vout[TxAt(q)]
    BY RecFacts
  <2> HIDE DEF E, T
  <2> QED BY <2>1, <2>2, <2>3
<1>5. /\ DOMAIN M = Inputs(t) /\ \A u \in Inputs(t) : M[u] = MarkSpent(E[u], u, t, NoPos)
  BY DEF Marked
<1> HIDE DEF E, M
<1>6. /\ DOMAIN F = DOMAIN E
      /\ \A u \in Inputs(t) : F[u] = M[u]
      /\ \A u \in DOMAIN E \ Inputs(t) : F[u] = E[u]
  <2>1. /\ DOMAIN F = DOMAIN M \cup DOMAIN E
        /\ \A u \in DOMAIN M : F[u] = M[u]
        /\ \A u \in DOMAIN E \ DOMAIN M : F[u] = E[u]
    BY OverFacts
  <2> HIDE DEF F
  <2> QED BY <1>3, <1>5, <2>1
<1> HIDE DEF F
<1>7. /\ DOMAIN G = DOMAIN E \ {t} /\ G = [x \in DOMAIN G |-> G[x]]
      /\ \A u \in DOMAIN E \ {t} : G[u] = F[u]
  <2>1. DOMAIN G = DOMAIN F \ {t} /\ \A u \in DOMAIN F \ {t} : G[u] = F[u]
    BY RestrictFacts
  <2>2. G = [x \in DOMAIN G |-> G[x]]
    BY DEF Restrict
  <2> HIDE DEF G
  <2> QED BY <1>6, <2>1, <2>2
<1>8. Unspend(E, t) = G
  BY DEF Unspend, F, M
<1> HIDE DEF G
<1>9. DOMAIN G = {TxAt(q) : q \in S}
  BY <1>1, <1>2, <1>7
<1>10. ASSUME NEW q \in S PROVE G[TxAt(q)] = Rec(S, q)
  <2> DEFINE u == TxAt(q)
  <2>1. u \in DOMAIN E /\ u # t /\ E[u] = Rec(T, q) /\ G[u] = F[u]
    BY <1>1, <1>2, <1>7
  <2>2. CASE u \in Inputs(t)
    <3>1. G[u] = MarkSpent(Rec(T, q), u, t, NoPos)
      BY <1>5, <1>6, <2>1, <2>2
    <3>2. MarkSpent(Rec(T, q), u, t, NoPos) = Rec(S, q)
      BY <1>1, RecMore
    <3> QED BY <3>1, <3>2
  <2>3. CASE u \notin Inputs(t)
    <3>1. Rec(T, q) = Rec(S, q)
      BY <1>1, <2>3, RecSame
    <3> QED BY <1>6, <2>1, <2>3, <3>1
  <2> QED BY <2>2, <2>3
<1>11. G = IndexOf(S)
  BY <1>7, <1>9, <1>10, IndexOfUnique
<1>12. InRange(E, t)
  BY <1>4 DEF InRange
<1> QED BY <1>3, <1>8, <1>11, <1>12 DEF E, T


-----------------------------------------------------------------------------
(***************************************************************************)
(* What a reader of a batch sees is what the database has once the batch   *)
(* is committed.                                                           *)
(***************************************************************************)
LEMMA ViewRead ==
    ASSUME NEW s, BatchType(s), NEW t
    PROVE  /\ HasTxIndex(s, t) <=> t \in DOMAIN TxnCommit(s)
           /\ t \in DOMAIN TxnCommit(s) => ReadTxIndex(s, t) = TxnCommit(s)[t]
<1> DEFINE r == Restrict(s.db, DOMAIN s.db \ s.deleted)
<1>1. DOMAIN r = DOMAIN s.db \ s.deleted /\ \A x \in DOMAIN s.db \ s.deleted : r[x] = s.db[x]
  BY RestrictFacts
<1>2. TxnCommit(s) = Over(s.put, r)
  BY DEF TxnCommit
<1> HIDE DEF r
<1>3. /\ DOMAIN Over(s.put, r) = DOMAIN s.put \cup DOMAIN r
      /\ \A x \in DOMAIN s.put : Over(s.put, r)[x] = s.put[x]
      /\ \A x \in DOMAIN r \ DOMAIN s.put : Over(s.put, r)[x] = r[x]
  BY OverFacts
<1> QED BY <1>1, <1>2, <1>3 DEF HasTxIndex, ReadTxIndex

\* Two maps with the same entries are equal.
LEMMA SameMap ==
    ASSUME NEW f, NEW g, f = [x \in DOMAIN f |-> f[x]], g = [x \in DOMAIN g |-> g[x]],
           DOMAIN f = DOMAIN g, \A x \in DOMAIN f : f[x] = g[x]
    PROVE  f = g
OBVIOUS

\* A new batch shows the database.
LEMMA ViewBegin ==
    ASSUME NEW db, db = [x \in DOMAIN db |-> db[x]]
    PROVE  TxnCommit(TxnBegin(db)) = db
<1>1. TxnBegin(db).put = <<>> /\ TxnBegin(db).db = db /\ TxnBegin(db).deleted = {}
  BY DEF TxnBegin
<1> DEFINE r == Restrict(db, DOMAIN db \ {})
           v == Over(<<>>, r)
<1>2. TxnCommit(TxnBegin(db)) = v
  BY <1>1 DEF TxnCommit
<1>3. DOMAIN r = DOMAIN db /\ \A x \in DOMAIN db : r[x] = db[x]
  BY RestrictFacts
<1>4. DOMAIN <<>> = {}
  OBVIOUS
<1> HIDE DEF r
<1>5. v = [x \in DOMAIN v |-> v[x]]
  BY DEF Over
<1>6. DOMAIN v = DOMAIN db /\ \A x \in DOMAIN db : v[x] = db[x]
  <2>1. /\ DOMAIN v = DOMAIN <<>> \cup DOMAIN r
        /\ \A x \in DOMAIN r \ DOMAIN <<>> : v[x] = r[x]
    BY OverFacts
  <2> HIDE DEF v
  <2> QED BY <1>3, <1>4, <2>1
<1> HIDE DEF v
<1>7. v = db
  BY <1>5, <1>6, SameMap
<1> QED BY <1>2, <1>7

\* An update lies over what was seen before.
LEMMA ViewUpdate ==
    ASSUME NEW s, BatchType(s), NEW q
    PROVE  TxnCommit(UpdateTxIndex(s, q)) = Over(q, TxnCommit(s))
<1> DEFINE u == UpdateTxIndex(s, q)
           r1 == Restrict(s.db, DOMAIN s.db \ s.deleted)
           r2 == Restrict(s.db, DOMAIN s.db \ (s.deleted \ DOMAIN q))
           p2 == Over(q, s.put)
           v1 == Over(s.put, r1)
           v2 == Over(p2, r2)
           w == Over(q, v1)
<1>1. u.db = s.db /\ u.put = p2 /\ u.deleted = s.deleted \ DOMAIN q
  BY DEF UpdateTxIndex, BatchType
<1>2. TxnCommit(u) = v2 /\ TxnCommit(s) = v1
  BY <1>1 DEF TxnCommit
<1>3. v2 = [x \in DOMAIN v2 |-> v2[x]] /\ w = [x \in DOMAIN w |-> w[x]]
  BY DEF Over
<1>4. /\ DOMAIN r1 = DOMAIN s.db \ s.deleted
      /\ DOMAIN r2 = DOMAIN s.db \ (s.deleted \ DOMAIN q)
      /\ \A x \in DOMAIN r1 : r1[x] = s.db[x]
      /\ \A x \in DOMAIN r2 : r2[x] = s.db[x]
  BY RestrictFacts
<1> HIDE DEF u, r1, r2
<1>5. /\ DOMAIN p2 = DOMAIN q \cup DOMAIN s.put
      /\ \A x \in DOMAIN q : p2[x] = q[x]
      /\ \A x \in DOMAIN s.put \ DOMAIN q : p2[x] = s.put[x]
  BY OverFacts
<1>6. /\ DOMAIN v1 = DOMAIN s.put \cup DOMAIN r1
      /\ \A x \in DOMAIN s.put : v1[x] = s.put[x]
      /\ \A x \in DOMAIN r1 \ DOMAIN s.put : v1[x] = r1[x]
  BY OverFacts
<1> HIDE DEF p2, v1
<1>7. /\ DOMAIN v2 = DOMAIN p2 \cup DOMAIN r2
      /\ \A x \in DOMAIN p2 : v2[x] = p2[x]
      /\ \A x \in DOMAIN r2 \ DOMAIN p2 : v2[x] = r2[x]
  BY OverFacts
<1>8. /\ DOMAIN w = DOMAIN q \cup DOMAIN v1
      /\ \A x \in DOMAIN q : w[x] = q[x]
      /\ \A x \in DOMAIN v1 \ DOMAIN q : w[x] = v1[x]
  BY OverFacts
<1> HIDE DEF v2, w
<1>9. DOMAIN v2 = DOMAIN w
  BY <1>4, <1>5, <1>6, <1>7, <1>8
<1>10. ASSUME NEW x \in DOMAIN v2 PROVE v2[x] = w[x]
  BY <1>4, <1>5, <1>6, <1>7, <1>8
<1>11. v2 = w
  BY <1>3, <1>9, <1>10, SameMap
<1> QED BY <1>2, <1>11 DEF u, w

\* An erased transaction is not seen, the others are as before.
LEMMA ViewErase ==
    ASSUME NEW s, BatchType(s), NEW t
    PROVE  TxnCommit(EraseTxIndex(s, t)) = Restrict(TxnCommit(s), DOMAIN TxnCommit(s) \ {t})
<1> DEFINE u == EraseTxIndex(s, t)
           r1 == Restrict(s.db, DOMAIN s.db \ s.deleted)
           r2 == Restrict(s.db, DOMAIN s.db \ (s.deleted \cup {t}))
           p2 == Restrict(s.put, DOMAIN s.put \ {t})
           v1 == Over(s.put, r1)
           v2 == Over(p2, r2)
           w == Restrict(v1, DOMAIN v1 \ {t})
<1>1. u.db = s.db /\ u.put = p2 /\ u.deleted = s.deleted \cup {t}
  BY DEF EraseTxIndex, BatchType
<1>2. TxnCommit(u) = v2 /\ TxnCommit(s) = v1
  BY <1>1 DEF TxnCommit
<1>3. v2 = [x \in DOMAIN v2 |-> v2[x]] /\ w = [x \in DOMAIN w |-> w[x]]
  BY DEF Over, Restrict
<1>4. /\ DOMAIN r1 = DOMAIN s.db \ s.deleted
      /\ DOMAIN r2 = DOMAIN s.db \ (s.deleted \cup {t})
      /\ DOMAIN p2 = DOMAIN s.put \ {t}
      /\ \A x \in DOMAIN r1 : r1[x] = s.db[x]
      /\ \A x \in DOMAIN r2 : r2[x] = s.db[x]
      /\ \A x \in DOMAIN p2 : p2[x] = s.put[x]
  BY RestrictFacts
<1> HIDE DEF u, r1, r2, p2
<1>5. /\ DOMAIN v1 = DOMAIN s.put \cup DOMAIN r1
      /\ \A x \in DOMAIN s.put : v1[x] = s.put[x]
      /\ \A x \in DOMAIN r1 \ DOMAIN s.put : v1[x] = r1[x]
  BY OverFacts
<1>6. /\ DOMAIN v2 = DOMAIN p2 \cup DOMAIN r2
      /\ \A x \in DOMAIN p2 : v2[x] = p2[x]
      /\ \A x \in DOMAIN r2 \ DOMAIN p2 : v2[x] = r2[x]
  BY OverFacts
<1> HIDE DEF v1, v2
<1>7. DOMAIN w = DOMAIN v1 \ {t} /\ \A x \in DOMAIN w : w[x] = v1[x]
  BY RestrictFacts
<1> HIDE DEF w
<1>8. DOMAIN v2 = DOMAIN w
  BY <1>4, <1>5, <1>6, <1>7
<1>9. ASSUME NEW x \in DOMAIN v2 PROVE v2[x] = w[x]
  BY <1>4, <1>5, <1>6, <1>7
<1>10. v2 = w
  BY <1>3, <1>8, <1>9, SameMap
<1> QED BY <1>2, <1>10 DEF u, w


\* Maps that lie over each other.
LEMMA OverAssociates ==
    ASSUME NEW f, NEW g, NEW h
    PROVE  Over(Over(f, g), h) = Over(f, Over(g, h))
<1> DEFINE a == Over(f, g)
           b == Over(g, h)
           v == Over(a, h)
           w == Over(f, b)
<1>1. v = [x \in DOMAIN v |-> v[x]] /\ w = [x \in DOMAIN w |-> w[x]]
  BY DEF Over
<1>2. /\ DOMAIN a = DOMAIN f \cup DOMAIN g
      /\ \A x \in DOMAIN f : a[x] = f[x]
      /\ \A x \in DOMAIN g \ DOMAIN f : a[x] = g[x]
  BY OverFacts
<1>3. /\ DOMAIN b = DOMAIN g \cup DOMAIN h
      /\ \A x \in DOMAIN g : b[x] = g[x]
      /\ \A x \in DOMAIN h \ DOMAIN g : b[x] = h[x]
  BY OverFacts
<1> HIDE DEF a, b
<1>4. /\ DOMAIN v = DOMAIN a \cup DOMAIN h
      /\ \A x \in DOMAIN a : v[x] = a[x]
      /\ \A x \in DOMAIN h \ DOMAIN a : v[x] = h[x]
  BY OverFacts
<1>5. /\ DOMAIN w = DOMAIN f \cup DOMAIN b
      /\ \A x \in DOMAIN f : w[x] = f[x]
      /\ \A x \in DOMAIN b \ DOMAIN f : w[x] = b[x]
  BY OverFacts
<1> HIDE DEF v, w
<1>6. DOMAIN v = DOMAIN w
  BY <1>2, <1>3, <1>4, <1>5
<1>7. ASSUME NEW x \in DOMAIN v PROVE v[x] = w[x]
  BY <1>2, <1>3, <1>4, <1>5
<1>8. v = w
  BY <1>1, <1>6, <1>7, SameMap
<1> QED BY <1>8 DEF v, w, a, b

\* Conditions on the records of the inputs read nothing else.
LEMMA SameInputs ==
    ASSUME NEW t \in Tx, NEW f, NEW g, \A p \in Inputs(t) : f[p] = g[p], NEW h, NEW pos
    PROVE  /\ InRange(f, t) <=> InRange(g, t)
           /\ ConnectInputs(f, t, h) <=> ConnectInputs(g, t, h)
           /\ Marked(f, t, pos) = Marked(g, t, pos)
<1>1. \A o \in Vin[t] : f[o[1]] = g[o[1]]
  BY DEF Inputs
<1> QED BY <1>1 DEF InRange, ConnectInputs, Marked

\* Connecting one transaction, in terms of what its reader sees: the queued
\* changes over the batch.
ConnectedView(u, s, b, h, r, t) ==
    LET E == Over(r[2], TxnCommit(s))
    IN  /\ u[1] <=> r[1] /\ NoOverwrite(s, t) /\ OkOn(E, t, h)
        /\ u[1] => /\ u[2] = Over(NewRec(t, b), Over(Marked(E, t, <<b, t>>), r[2]))
                   /\ Over(u[2], TxnCommit(s)) = Spend(E, t, b)

LEMMA ConnectTxView ==
    ASSUME NEW s, BatchType(s), NEW b \in Block, NEW h, NEW r, QueuedType(r), NEW t \in Tx
    PROVE  ConnectedView(ConnectTx(s, b, h, r, t), s, b, h, r, t)
<1> DEFINE queued == r[2]
           V == TxnCommit(s)
           E == Over(queued, V)
           rec == [p \in Inputs(t) |->
                     IF p \in DOMAIN queued THEN queued[p] ELSE ReadTxIndex(s, p)]
           found == \A p \in Inputs(t) : p \in DOMAIN queued \/ HasTxIndex(s, p)
           ok  == /\ r[1]
                  /\ NoOverwrite(s, t)
                  /\ found
                  /\ InRange(rec, t)
                  /\ ConnectInputs(rec, t, h)
           new == [p \in Inputs(t) |-> MarkSpent(rec[p], p, t, <<b, t>>)]
           u == ConnectTx(s, b, h, r, t)
           q == Over(NewRec(t, b), Over(new, queued))
<1>1. u = IF ok THEN <<TRUE, q>> ELSE <<FALSE, queued>>
  BY DEF ConnectTx
<1>2. new = Marked(rec, t, <<b, t>>)
  BY DEF Marked
<1>3. \A p : HasTxIndex(s, p) <=> p \in DOMAIN V
  BY ViewRead
<1>4. \A p \in DOMAIN V : ReadTxIndex(s, p) = V[p]
  BY ViewRead
<1>5. /\ DOMAIN E = DOMAIN queued \cup DOMAIN V
      /\ \A p \in DOMAIN queued : E[p] = queued[p]
      /\ \A p \in DOMAIN V \ DOMAIN queued : E[p] = V[p]
  BY OverFacts
<1>6. found <=> Inputs(t) \subseteq DOMAIN E
  BY <1>3, <1>5
<1> HIDE DEF E, V, found
<1>7. ASSUME found PROVE \A p \in Inputs(t) : rec[p] = E[p]
  BY <1>4, <1>5, <1>6, <1>7
<1> HIDE DEF rec, new
<1>8. ASSUME found
      PROVE  /\ InRange(rec, t) <=> InRange(E, t)
             /\ ConnectInputs(rec, t, h) <=> ConnectInputs(E, t, h)
             /\ new = Marked(E, t, <<b, t>>)
  BY <1>2, <1>7, <1>8, SameInputs
<1>9. ok <=> r[1] /\ NoOverwrite(s, t) /\ OkOn(E, t, h)
  BY <1>6, <1>8 DEF OkOn
<1>10. ok => found
  OBVIOUS
<1> HIDE DEF ok, q
<1>11. (u[1] <=> ok) /\ (ok => u[2] = q)
  BY <1>1
<1>12. ASSUME ok PROVE Over(q, V) = Spend(E, t, b)
  <2>1. Over(q, V) = Over(NewRec(t, b), Over(Over(new, queued), V))
    BY OverAssociates DEF q
  <2>2. Over(Over(new, queued), V) = Over(new, Over(queued, V))
    BY OverAssociates
  <2> QED BY <1>8, <1>10, <1>12, <2>1, <2>2 DEF Spend, E
<1>13. ASSUME ok PROVE q = Over(NewRec(t, b), Over(Marked(E, t, <<b, t>>), queued))
  BY <1>8, <1>10, <1>13 DEF q
<1> HIDE DEF u
<1> QED BY <1>9, <1>11, <1>12, <1>13 DEF u, E, V, ConnectedView

\* Disconnecting one transaction.
LEMMA DisconnectInputsView ==
    ASSUME NEW s, BatchType(s), s.ok, NEW t \in Tx,
           Inputs(t) \subseteq DOMAIN TxnCommit(s), InRange(TxnCommit(s), t)
    PROVE  LET u == DisconnectInputs(s, t) IN
           BatchType(u) /\ u.ok /\ TxnCommit(u) = Unspend(TxnCommit(s), t)
<1> DEFINE V == TxnCommit(s)
           rec == [p \in Inputs(t) |-> ReadTxIndex(s, p)]
           ok  == /\ \A p \in Inputs(t) : HasTxIndex(s, p)
                  /\ InRange(rec, t)
           new == [p \in Inputs(t) |-> MarkSpent(ReadTxIndex(s, p), p, t, NoPos)]
           v == UpdateTxIndex(s, new)
           u == DisconnectInputs(s, t)
<1>1. u = IF s.ok /\ ok THEN EraseTxIndex(v, t) ELSE [s EXCEPT !.ok = FALSE]
  BY DEF DisconnectInputs
<1>2. \A p \in Inputs(t) : HasTxIndex(s, p)
  BY ViewRead
<1>3. \A p \in Inputs(t) : rec[p] = V[p]
  BY ViewRead
<1>4. new = Marked(rec, t, NoPos)
  BY DEF Marked
<1>5. \A p \in Inputs(t) : rec[p] \in TxIndexRecord(p) /\ p \in Tx
  BY <1>2, ReadFacts
<1>6. IndexType(new)
  <2>1. \A p \in Inputs(t) : new[p] = MarkSpent(rec[p], p, t, NoPos)
    OBVIOUS
  <2>2. DOMAIN new = Inputs(t)
    OBVIOUS
  <2> HIDE DEF new, rec
  <2>3. NoPos \in Pos
    BY DEF Pos
  <2> QED BY <1>5, <2>1, <2>2, <2>3, MarkSpentType DEF IndexType
<1> HIDE DEF rec, new
<1>7. (InRange(rec, t) <=> InRange(V, t)) /\ Marked(rec, t, NoPos) = Marked(V, t, NoPos)
  BY <1>3, SameInputs
<1>8. ok
  BY <1>2, <1>7
<1>9. u = EraseTxIndex(v, t)
  BY <1>1, <1>8
<1>10. BatchType(v) /\ v.ok = s.ok
  BY <1>6, UpdateFacts
<1>11. TxnCommit(v) = Over(Marked(V, t, NoPos), V)
  BY <1>4, <1>7, ViewUpdate
<1> HIDE DEF v, u, ok
<1>12. BatchType(u) /\ u.ok = v.ok
  BY <1>9, <1>10, EraseFacts
<1>13. TxnCommit(u) = Restrict(TxnCommit(v), DOMAIN TxnCommit(v) \ {t})
  BY <1>9, <1>10, ViewErase
<1>14. TxnCommit(u) = Unspend(V, t)
  BY <1>11, <1>13 DEF Unspend
<1> QED BY <1>10, <1>12, <1>14 DEF u


-----------------------------------------------------------------------------
(***************************************************************************)
(* A block.                                                                *)
(***************************************************************************)

\* A coinbase is on no other place of the chain.
LEMMA CoinBaseIsNew ==
    ASSUME NEW b \in Block, b # Genesis, NEW n \in 1 .. Len(Vtx[b]), Vtx[b][n] \in CoinBase,
           NEW q \in Upto(b, n - 1)
    PROVE  TxAt(q) # Vtx[b][n]
<1>1. Vtx[b] \in Seq(Tx) /\ \A k \in DOMAIN Vtx[b] : Vtx[b][k] \in CoinBase <=> k = 1
  BY BlockAssumption
<1>2. n = 1
  <2>1. n \in DOMAIN Vtx[b]
    BY <1>1
  <2> QED BY <1>1, <2>1
<1>3. q \in Places(Parent[b]) /\ Parent[b] \in Block
  BY <1>2, PlacesStep, HeightFacts
<1>4. /\ q[1] \in Block \ {Genesis} /\ q[2] \in DOMAIN Vtx[q[1]]
      /\ Height(q[1]) < Height(b)
  BY <1>3, PlacesStep, PlaceFacts DEF IsPlace
<1> SUFFICES ASSUME TxAt(q) = Vtx[b][n] PROVE FALSE
  OBVIOUS
<1>5. q[2] = 1
  BY <1>4, BlockAssumption DEF TxAt
<1>6. Vtx[q[1]][1] = Vtx[b][1]
  BY <1>2, <1>5 DEF TxAt
<1>7. Height(q[1]) = Height(b)
  BY <1>4, <1>6, CoinBaseAssumption
<1>8. Height(b) \in Nat
  BY HeightFacts
<1> HIDE DEF Height
<1> QED BY <1>4, <1>7, <1>8

\* The transactions of b up to the n-th fit.
FitsUpto(b, n) == \A m \in 1..n : Fits(Upto(b, m - 1), <<b, m>>)

\* On top of the chain of its parent, transaction by transaction, b connects as
\* long as its transactions fit, and what is seen is the index so far.
LEMMA QueuedView ==
    ASSUME NEW b \in Block, b # Genesis, ValidChain(Parent[b]),
           NEW s, BatchType(s), TxnCommit(s) = IndexOf(Places(Parent[b]))
    PROVE  LET r == QueuedChanges(s, b, Height(b), Vtx[b]) IN
           /\ IndexType(r[2])
           /\ r[1] <=> FitsUpto(b, Len(Vtx[b]))
           /\ r[1] => Over(r[2], TxnCommit(s)) = IndexOf(Places(b))
<1> DEFINE vtx == Vtx[b]
           N == Len(vtx)
           V == TxnCommit(s)
           h == Height(b)
<1>1. vtx \in Seq(Tx) /\ N \in Nat
  BY BlockAssumption
<1>2. PICK acc : QueuedSteps(acc, s, b, h, vtx)
  BY <1>1, QueuedChangesSteps
<1>3. Parent[b] \in Block /\ Upto(b, 0) = Places(Parent[b]) /\ Places(b) = Upto(b, N)
  BY HeightFacts, PlacesStep
<1>4. Proper(Upto(b, 0)) /\ V = IndexOf(Upto(b, 0)) /\ V = [x \in DOMAIN V |-> V[x]]
  <2>1. Proper(Upto(b, 0)) /\ V = IndexOf(Upto(b, 0))
    BY <1>3, ValidIsProper
  <2>2. \A O : IndexOf(O) = [x \in DOMAIN IndexOf(O) |-> IndexOf(O)[x]]
    BY DEF IndexOf
  <2> QED BY <2>1, <2>2
<1> HIDE DEF V
<1> DEFINE P(n) == /\ QueuedType(acc[n])
                   /\ acc[n][1] <=> FitsUpto(b, n)
                   /\ acc[n][1] => /\ Proper(Upto(b, n))
                                   /\ Over(acc[n][2], V) = IndexOf(Upto(b, n))
           S == {n \in 0..N : P(n)}
<1>5. P(0)
  <2>1. acc[0] = <<TRUE, <<>>>>
    BY <1>2 DEF QueuedSteps
  <2>2. acc[0][1] = TRUE /\ acc[0][2] = <<>> /\ QueuedType(acc[0])
    BY <2>1 DEF QueuedType, IndexType
  <2>3. FitsUpto(b, 0)
    BY DEF FitsUpto
  <2>4. Over(<<>>, V) = V
    <3> DEFINE w == Over(<<>>, V)
    <3>1. w = [x \in DOMAIN w |-> w[x]]
      BY DEF Over
    <3>2. DOMAIN w = DOMAIN <<>> \cup DOMAIN V /\ \A x \in DOMAIN V \ DOMAIN <<>> : w[x] = V[x]
      BY OverFacts
    <3>3. DOMAIN <<>> = {}
      OBVIOUS
    <3> HIDE DEF w
    <3>4. w = V
      BY <1>4, <3>1, <3>2, <3>3, SameMap
    <3> QED BY <3>4 DEF w
  <2> QED BY <1>4, <2>2, <2>3, <2>4
<1>6. ASSUME NEW n \in 0 .. N - 1, P(n)
      PROVE  P(n + 1)
  <2> DEFINE t == vtx[n + 1]
             r == acc[n]
             u == acc[n + 1]
             O == Upto(b, n)
             p == <<b, n + 1>>
  <2>1. n + 1 \in 1..N /\ (n + 1) - 1 = n
    BY <1>1
  <2>2. u = ConnectTx(s, b, h, r, t)
    BY <1>2 DEF QueuedSteps
  <2>3. /\ Upto(b, n + 1) = O \cup {p} /\ IsPlace(p) /\ TxAt(p) = t /\ t \in Tx
    BY <2>1, UptoStep
  <2>4. t \in CoinBase => \A q \in O : TxAt(q) # t
    BY <2>1, CoinBaseIsNew
  <2>5. FitsUpto(b, n + 1) <=> FitsUpto(b, n) /\ Fits(O, p)
    <3>1. 1 .. n + 1 = (1..n) \cup {n + 1}
      BY <2>1
    <3> QED BY <2>1, <3>1 DEF FitsUpto
  <2>6. p[1] = b
    OBVIOUS
  <2>7. /\ QueuedType(r) /\ (r[1] <=> FitsUpto(b, n))
        /\ r[1] => Proper(O) /\ Over(r[2], V) = IndexOf(O)
    BY <1>6
  <2> HIDE DEF t, r, u, O, p, P, h
  <2>8. QueuedType(u)
    BY <2>2, <2>3, <2>7, ConnectTxFacts
  <2>9. /\ u[1] <=> r[1] /\ NoOverwrite(s, t) /\ OkOn(Over(r[2], V), t, h)
        /\ u[1] => Over(u[2], V) = Spend(Over(r[2], V), t, b)
    <3>1. ConnectedView(ConnectTx(s, b, h, r, t), s, b, h, r, t)
      BY <2>3, <2>7, ConnectTxView
    <3>2. ConnectedView(u, s, b, h, r, t)
      BY <2>2, <3>1
    <3> QED BY <3>2 DEF ConnectedView, V
  <2>10. ASSUME r[1] PROVE OkOn(Over(r[2], V), t, h) <=> Fits(O, p)
    BY <2>3, <2>4, <2>6, <2>7, <2>10, ConnectsIffFits DEF h
  <2>11. ASSUME Fits(O, p) PROVE NoOverwrite(s, t)
    <3>1. \A q \in O : TxAt(q) # t
      BY <2>3, <2>11 DEF Fits
    <3>2. Upto(b, 0) \subseteq O
      BY <1>3 DEF O, Upto
    <3>3. DOMAIN V = {TxAt(q) : q \in Upto(b, 0)}
      BY <1>4, IndexOfFacts
    <3>4. t \notin DOMAIN V
      BY <3>1, <3>2, <3>3
    <3>5. ~HasTxIndex(s, t)
      BY <3>4, ViewRead DEF V
    <3> QED BY <3>5 DEF NoOverwrite
  <2>12. u[1] <=> FitsUpto(b, n + 1)
    BY <2>5, <2>7, <2>9, <2>10, <2>11
  <2>13. ASSUME u[1]
         PROVE  Proper(Upto(b, n + 1)) /\ Over(u[2], V) = IndexOf(Upto(b, n + 1))
    <3>1. Fits(O, p) /\ Proper(O) /\ Over(r[2], V) = IndexOf(O)
      BY <2>7, <2>9, <2>10, <2>13
    <3>2. Proper(O \cup {p})
      BY <2>3, <3>1, ProperStep
    <3>3. Spend(IndexOf(O), t, b) = IndexOf(O \cup {p})
      BY <2>3, <2>6, <3>1, SpendIndex
    <3> QED BY <2>3, <2>9, <2>13, <3>1, <3>2, <3>3
  <2> QED BY <2>8, <2>12, <2>13 DEF u, P
<1> HIDE DEF P
<1>7. N \in S
  <2>1. 0 \in S /\ \A n \in 0 .. N - 1 : n \in S => n + 1 \in S
    BY <1>1, <1>5, <1>6
  <2> HIDE DEF S, N
  <2> QED BY <1>1, <2>1, CountUp
<1>8. P(N)
  BY <1>7
<1> QED BY <1>2, <1>3, <1>8 DEF P, QueuedSteps, QueuedType, V

\* On top of the chain of its parent, b connects exactly when its own chain is
\* valid, and gives the index of that chain.
LEMMA ConnectBlockView ==
    ASSUME NEW b \in Block, b # Genesis, ValidChain(Parent[b]),
           NEW s, BatchType(s), s.ok, TxnCommit(s) = IndexOf(Places(Parent[b]))
    PROVE  LET u == ConnectBlock(s, b) IN
           /\ BatchType(u)
           /\ u.ok <=> ValidChain(b)
           /\ u.ok => TxnCommit(u) = IndexOf(Places(b))
<1> DEFINE r == QueuedChanges(s, b, Height(b), Vtx[b])
           u == ConnectBlock(s, b)
<1>1. u = IF s.ok /\ r[1] THEN UpdateTxIndex(s, r[2]) ELSE [s EXCEPT !.ok = FALSE]
  BY DEF ConnectBlock
<1>2. /\ IndexType(r[2])
      /\ r[1] <=> FitsUpto(b, Len(Vtx[b]))
      /\ r[1] => Over(r[2], TxnCommit(s)) = IndexOf(Places(b))
  BY QueuedView
<1>3. ValidChain(b) <=> FitsUpto(b, Len(Vtx[b]))
  BY ValidStep DEF FitsUpto
<1> HIDE DEF r, u
<1>4. CASE r[1]
  <2>1. u = UpdateTxIndex(s, r[2])
    BY <1>1, <1>4
  <2>2. BatchType(u) /\ u.ok = s.ok
    BY <1>2, <2>1, UpdateFacts
  <2>3. TxnCommit(u) = Over(r[2], TxnCommit(s))
    BY <2>1, ViewUpdate
  <2> QED BY <1>2, <1>3, <1>4, <2>2, <2>3 DEF u
<1>5. CASE ~r[1]
  <2>1. u = [s EXCEPT !.ok = FALSE]
    BY <1>1, <1>5
  <2>2. BatchType(u) /\ ~u.ok
    BY <2>1, FailFacts
  <2> QED BY <1>2, <1>3, <1>5, <2>2 DEF u
<1> QED BY <1>4, <1>5

\* Disconnecting the last block of a valid chain never fails and gives back the
\* index of the parent's chain.
LEMMA DisconnectBlockView ==
    ASSUME NEW b \in Block, b # Genesis, ValidChain(b),
           NEW s, BatchType(s), s.ok, TxnCommit(s) = IndexOf(Places(b))
    PROVE  LET u == DisconnectBlock(s, b) IN
           BatchType(u) /\ u.ok /\ TxnCommit(u) = IndexOf(Places(Parent[b]))
<1> DEFINE vtx == Vtx[b]
           rev == Reverse(vtx)
           N == Len(vtx)
<1>1. vtx \in Seq(Tx) /\ N \in Nat /\ DOMAIN vtx = 1..N
  BY BlockAssumption
<1>2. rev \in Seq(Tx) /\ Len(rev) = N
  BY <1>1, ReverseFacts
<1>3. \A n \in 1..N : rev[n] = vtx[(N - n) + 1]
  BY <1>1 DEF Reverse
<1>4. PICK acc : InputsSteps(acc, s, rev) /\ DisconnectBlock(s, b) = acc[Len(rev)]
  BY <1>2, DisconnectBlockSteps
<1>5. Upto(b, 0) = Places(Parent[b]) /\ Places(b) = Upto(b, N)
  BY PlacesStep
<1>6. Proper(Places(Parent[b]))
  <2>1. Parent[b] \in Block /\ ValidChain(Parent[b])
    BY HeightFacts, ValidStep
  <2> QED BY <2>1, ValidIsProper
<1>7. \A n \in 0..N : Proper(Upto(b, n))
  BY <1>6, ProperUpto
<1> HIDE DEF rev
<1> DEFINE P(n) == /\ BatchType(acc[n]) /\ acc[n].ok
                   /\ TxnCommit(acc[n]) = IndexOf(Upto(b, N - n))
           S == {n \in 0..N : P(n)}
<1>8. P(0)
  <2>1. N - 0 = N
    BY <1>1
  <2> QED BY <1>4, <1>5, <2>1 DEF InputsSteps
<1>9. ASSUME NEW n \in 0 .. N - 1, P(n)
      PROVE  P(n + 1)
  <2> DEFINE k == N - n
             t == vtx[k]
             r == acc[n]
             u == acc[n + 1]
             O == Upto(b, k - 1)
             p == <<b, k>>
  <2>1. /\ k \in 1..N /\ n + 1 \in 1..N /\ (N - (n + 1)) + 1 = k
        /\ N - (n + 1) = k - 1 /\ k - 1 \in 0..N
    BY <1>1
  <2>2. rev[n + 1] = t
    BY <1>3, <2>1
  <2>3. u = DisconnectInputs(r, t)
    BY <1>2, <1>4, <2>2 DEF InputsSteps
  <2>4. Upto(b, k) = O \cup {p} /\ IsPlace(p) /\ TxAt(p) = t /\ t \in Tx
    BY <2>1, UptoStep
  <2>5. Fits(O, p) /\ Proper(O)
    BY <1>7, <2>1, ValidStep
  <2>6. BatchType(r) /\ r.ok /\ TxnCommit(r) = IndexOf(O \cup {p})
    BY <1>9, <2>4
  <2>7. IndexOf(Upto(b, N - (n + 1))) = IndexOf(O)
    BY <2>1
  <2> HIDE DEF k, t, r, u, O, p, P
  <2>8. /\ Unspend(IndexOf(O \cup {p}), t) = IndexOf(O)
        /\ Inputs(t) \subseteq DOMAIN IndexOf(O \cup {p}) /\ InRange(IndexOf(O \cup {p}), t)
    BY <2>4, <2>5, UnspendIndex
  <2>9. BatchType(u) /\ u.ok /\ TxnCommit(u) = Unspend(TxnCommit(r), t)
    BY <2>3, <2>4, <2>6, <2>8, DisconnectInputsView
  <2> QED BY <2>6, <2>7, <2>8, <2>9 DEF u, P
<1> HIDE DEF P
<1>10. N \in S
  <2>1. 0 \in S /\ \A n \in 0 .. N - 1 : n \in S => n + 1 \in S
    BY <1>1, <1>8, <1>9
  <2> HIDE DEF S, N
  <2> QED BY <1>1, <2>1, CountUp
<1>11. P(N) /\ N - N = 0
  BY <1>1, <1>10
<1> QED BY <1>2, <1>4, <1>5, <1>11 DEF P


-----------------------------------------------------------------------------
(***************************************************************************)
(* A switch of branches, record by record.                                 *)
(***************************************************************************)

\* Each block of a chain but the first is a child of the one before it.
LEMMA ChainLinks ==
    ASSUME NEW a \in Block
    PROVE  /\ Len(Chain[a]) \in Nat /\ Len(Chain[a]) >= 1 /\ Chain[a] \in Seq(Block)
           /\ Chain[a][Len(Chain[a])] = a
           /\ \A k \in 1 .. Len(Chain[a]) : Chain[a][k] \in Block
           /\ \A k \in 1 .. Len(Chain[a]) - 1 :
                 Chain[a][k + 1] # Genesis /\ Parent[Chain[a][k + 1]] = Chain[a][k]
<1>1. IsPath(Chain[a], a)
  BY ChainIsPath
<1> DEFINE s == Chain[a]
<1> HIDE DEF s
<1>2. IsPath(s, a)
  BY <1>1 DEF s
<1>3. Len(s) \in Nat /\ Len(s) >= 1 /\ \A k \in 1 .. Len(s) : s[k] \in Block
  BY <1>2 DEF IsPath
<1> QED BY <1>2, <1>3 DEF IsPath, s

\* What is left of a sequence after its first F elements.
LEMMA SuffixFacts ==
    ASSUME NEW S, NEW c \in Seq(S), NEW F \in Nat, F \in 1 .. Len(c)
    PROVE  LET u == SubSeq(c, F + 1, Len(c)) IN
           /\ u \in Seq(S) /\ Len(u) = Len(c) - F /\ DOMAIN u = 1 .. Len(c) - F
           /\ \A k \in 1 .. Len(c) - F : u[k] = c[F + k]
<1> DEFINE u == SubSeq(c, F + 1, Len(c))
           N == Len(c)
           M == N - F
<1>1. N \in Nat /\ N \in Int /\ F + 1 \in Int /\ M \in Nat /\ N - (F + 1) + 1 = M
  OBVIOUS
<1>2. \A k \in F + 1 .. N : c[k] \in S
  OBVIOUS
<1>3. /\ u \in Seq(S)
      /\ Len(u) = IF F + 1 <= N THEN N - (F + 1) + 1 ELSE 0
      /\ \A k \in 1 .. N - (F + 1) + 1 : u[k] = c[(F + 1) + k - 1]
  <2> HIDE DEF N
  <2> QED BY <1>1, <1>2, SubSeqProperties DEF N
<1> HIDE DEF u, N, M
<1>4. Len(u) = M
  <2>1. CASE F + 1 <= N
    BY <1>1, <1>3, <2>1
  <2>2. CASE ~(F + 1 <= N)
    BY <1>1, <1>3, <2>2 DEF M
  <2> QED BY <2>1, <2>2
<1>5. DOMAIN u = 1..M
  BY <1>3, <1>4
<1>6. ASSUME NEW k \in 1..M
      PROVE  u[k] = c[F + k]
  <2>1. (F + 1) + k - 1 = F + k
    BY <1>1
  <2> QED BY <1>1, <1>3, <2>1
<1> QED BY <1>3, <1>4, <1>5, <1>6 DEF u, N, M

\* Disconnecting down to the fork never fails.
LEMMA DisconnectAllView ==
    ASSUME NEW a \in Block, ValidChain(a), NEW b \in Block,
           NEW s, BatchType(s), s.ok, TxnCommit(s) = IndexOf(Places(a))
    PROVE  LET u == DisconnectAll(s, vDisconnect(a, b))
               f == Chain[a][Fork(a, b)]
           IN  BatchType(u) /\ u.ok /\ ValidChain(f) /\ TxnCommit(u) = IndexOf(Places(f))
<1> DEFINE c == Chain[a]
           N == Len(c)
           F == Fork(a, b)
           sub == SubSeq(c, F + 1, N)
           bs == vDisconnect(a, b)
           M == N - F
<1>1. /\ N \in Nat /\ N >= 1 /\ c \in Seq(Block) /\ c[N] = a
      /\ \A k \in 1..N : c[k] \in Block
      /\ \A k \in 1 .. N - 1 : c[k + 1] # Genesis /\ Parent[c[k + 1]] = c[k]
  BY ChainLinks
<1>2. F \in Nat /\ F \in 1..N
  BY ForkOnBoth
<1>3. bs = Reverse(sub)
  BY DEF vDisconnect
<1>4. bs \in Seq(Block)
  BY BranchTypes
<1> HIDE DEF c, N, F, bs
<1>5. M \in Nat /\ sub = [k \in 1..M |-> c[F + k]] /\ Len(sub) = M
  <2>1. M \in Nat
    BY <1>1, <1>2
  <2>2. /\ sub \in Seq(Block) /\ Len(sub) = M /\ DOMAIN sub = 1..M
        /\ \A k \in 1..M : sub[k] = c[F + k]
    BY <1>1, <1>2, SuffixFacts DEF N
  <2> HIDE DEF sub, M
  <2> QED BY <2>1, <2>2
<1> HIDE DEF sub
<1>6. Len(bs) = M /\ \A n \in 1..M : bs[n] = c[N - n + 1]
  <2>1. bs = [n \in 1..M |-> sub[(M - n) + 1]]
    BY <1>3, <1>5 DEF Reverse
  <2>2. Len(bs) = M
    BY <1>4, <1>5, <2>1
  <2>3. \A n \in 1..M : (M - n) + 1 \in 1..M /\ F + ((M - n) + 1) = N - n + 1
    BY <1>1, <1>2
  <2> QED BY <1>5, <2>1, <2>2, <2>3
<1> HIDE DEF M
<1>7. M \in Nat /\ N - M = F
  BY <1>1, <1>2, <1>5 DEF M
<1>8. PICK acc : DisconnectSteps(acc, s, bs) /\ DisconnectAll(s, bs) = acc[Len(bs)]
  BY <1>4, DisconnectAllSteps
<1> DEFINE P(n) == /\ BatchType(acc[n]) /\ acc[n].ok /\ ValidChain(c[N - n])
                   /\ TxnCommit(acc[n]) = IndexOf(Places(c[N - n]))
           S == {n \in 0..M : P(n)}
<1>9. P(0)
  <2>1. N - 0 = N
    BY <1>1
  <2> QED BY <1>1, <1>8, <2>1 DEF DisconnectSteps
<1>10. ASSUME NEW n \in 0 .. M - 1, P(n)
       PROVE  P(n + 1)
  <2> DEFINE x == c[N - n]
             y == c[N - (n + 1)]
             r == acc[n]
             u == acc[n + 1]
  <2>1. /\ n + 1 \in 1..M /\ N - (n + 1) + 1 = N - n /\ N - n \in 1..N
        /\ N - (n + 1) \in 1 .. N - 1
    BY <1>1, <1>2, <1>7
  <2>2. bs[n + 1] = x
    BY <1>6, <2>1
  <2>3. u = DisconnectBlock(r, x)
    BY <1>6, <1>8, <2>2 DEF DisconnectSteps
  <2>4. x \in Block /\ x # Genesis /\ Parent[x] = y
    BY <1>1, <2>1
  <2>5. BatchType(r) /\ r.ok /\ ValidChain(x) /\ TxnCommit(r) = IndexOf(Places(x))
    BY <1>10
  <2> HIDE DEF x, y, r, u, P
  <2>6. ValidChain(y)
    BY <2>4, <2>5, ValidStep
  <2>7. BatchType(u) /\ u.ok /\ TxnCommit(u) = IndexOf(Places(y))
    BY <2>3, <2>4, <2>5, DisconnectBlockView
  <2> QED BY <2>6, <2>7 DEF u, y, P
<1> HIDE DEF P
<1>11. M \in S
  <2>1. 0 \in S /\ \A n \in 0 .. M - 1 : n \in S => n + 1 \in S
    BY <1>7, <1>9, <1>10
  <2> HIDE DEF S
  <2> QED BY <1>7, <2>1, CountUp
<1>12. P(M)
  BY <1>11
<1> QED BY <1>6, <1>7, <1>8, <1>12 DEF P, c, F, bs

\* Connecting upwards from the fork goes as far as the branch is valid.
LEMMA ConnectAllView ==
    ASSUME NEW a \in Block, NEW b \in Block,
           NEW s, BatchType(s), s.ok, ValidChain(Chain[b][Fork(a, b)]),
           TxnCommit(s) = IndexOf(Places(Chain[b][Fork(a, b)]))
    PROVE  LET u == ConnectAll(s, vConnect(a, b)) IN
           /\ BatchType(u)
           /\ u.ok <=> ValidChain(b)
           /\ u.ok => TxnCommit(u) = IndexOf(Places(b))
<1> DEFINE c == Chain[b]
           N == Len(c)
           F == Fork(a, b)
           bs == vConnect(a, b)
           M == N - F
<1>1. /\ N \in Nat /\ N >= 1 /\ c \in Seq(Block) /\ c[N] = b
      /\ \A k \in 1..N : c[k] \in Block
      /\ \A k \in 1 .. N - 1 : c[k + 1] # Genesis /\ Parent[c[k + 1]] = c[k]
  BY ChainLinks
<1>2. F \in Nat /\ F \in 1..N
  BY ForkOnBoth
<1>3. bs = SubSeq(c, F + 1, N)
  BY DEF vConnect
<1>4. bs \in Seq(Block)
  BY BranchTypes
<1>5. ValidChain(c[F]) /\ TxnCommit(s) = IndexOf(Places(c[F]))
  OBVIOUS
<1> HIDE DEF c, N, F, bs
<1>6. M \in Nat /\ Len(bs) = M /\ \A n \in 1..M : bs[n] = c[F + n]
  <2>1. M \in Nat
    BY <1>1, <1>2
  <2> QED BY <1>1, <1>2, <1>3, <2>1, SuffixFacts DEF N
<1> HIDE DEF M
<1>7. F + M = N
  BY <1>1, <1>2, <1>6 DEF M
<1>8. PICK acc : ConnectSteps(acc, s, bs) /\ ConnectAll(s, bs) = acc[Len(bs)]
  BY <1>4, ConnectAllSteps
<1> DEFINE P(n) == /\ BatchType(acc[n])
                   /\ acc[n].ok <=> ValidChain(c[F + n])
                   /\ acc[n].ok => TxnCommit(acc[n]) = IndexOf(Places(c[F + n]))
           S == {n \in 0..M : P(n)}
<1>9. P(0)
  <2>1. F + 0 = F
    BY <1>2
  <2> QED BY <1>5, <1>8, <2>1 DEF ConnectSteps
<1>10. ASSUME NEW n \in 0 .. M - 1, P(n)
       PROVE  P(n + 1)
  <2> DEFINE x == c[F + n]
             y == c[F + (n + 1)]
             r == acc[n]
             u == acc[n + 1]
  <2>1. n + 1 \in 1..M /\ F + (n + 1) = (F + n) + 1 /\ F + n \in 1 .. N - 1 /\ F + (n + 1) \in 1..N
    BY <1>1, <1>2, <1>6, <1>7
  <2>2. bs[n + 1] = y
    BY <1>6, <2>1
  <2>3. u = ConnectBlock(r, y)
    BY <1>6, <1>8, <2>2 DEF ConnectSteps
  <2>4. y \in Block /\ y # Genesis /\ Parent[y] = x
    BY <1>1, <2>1
  <2>5. /\ BatchType(r) /\ (r.ok <=> ValidChain(x))
        /\ r.ok => TxnCommit(r) = IndexOf(Places(x))
    BY <1>10
  <2> HIDE DEF x, y, r, u, P
  <2>6. CASE r.ok
    <3>1. ValidChain(x) /\ TxnCommit(r) = IndexOf(Places(x))
      BY <2>5, <2>6
    <3>2. /\ BatchType(u) /\ (u.ok <=> ValidChain(y))
          /\ u.ok => TxnCommit(u) = IndexOf(Places(y))
      BY <2>3, <2>4, <2>5, <2>6, <3>1, ConnectBlockView
    <3> QED BY <3>2 DEF u, y, P
  <2>7. CASE ~r.ok
    <3>1. BatchType(u) /\ ~u.ok
      BY <2>3, <2>4, <2>5, <2>7, ConnectBlockFacts
    <3>2. ~ValidChain(y)
      BY <2>4, <2>5, <2>7, ValidStep
    <3> QED BY <3>1, <3>2 DEF u, y, P
  <2> QED BY <2>6, <2>7
<1> HIDE DEF P
<1>11. M \in S
  <2>1. 0 \in S /\ \A n \in 0 .. M - 1 : n \in S => n + 1 \in S
    BY <1>6, <1>9, <1>10
  <2> HIDE DEF S
  <2> QED BY <1>6, <2>1, CountUp
<1>12. P(M)
  BY <1>11
<1> QED BY <1>1, <1>6, <1>7, <1>8, <1>12 DEF P, bs

\* Reorganize succeeds for the valid branches and for no other, wherever the
\* fork is, and leaves the index of the new chain to the last record: what it
\* disconnects is undone completely, and its reads see that.
THEOREM SwitchIsExact ==
    ASSUME NEW best \in Block, ValidChain(best), NEW b \in Block,
           NEW db, IndexType(db), db = IndexOf(Places(best))
    PROVE  LET s == Switch(db, best, b) IN
           /\ s.ok <=> ValidChain(b)
           /\ s.ok => TxnCommit(s) = IndexOf(Places(b))
<1> DEFINE s0 == TxnBegin(db)
           s1 == DisconnectAll(s0, vDisconnect(best, b))
           s2 == ConnectAll(s1, vConnect(best, b))
           f == Chain[best][Fork(best, b)]
<1>1. Switch(db, best, b) = s2
  BY DEF Switch
<1>2. db = [x \in DOMAIN db |-> db[x]]
  BY DEF IndexOf
<1>3. BatchType(s0) /\ s0.ok
  BY TxnBeginFacts
<1>4. TxnCommit(s0) = db
  BY <1>2, ViewBegin
<1> HIDE DEF s0
<1>5. BatchType(s1) /\ s1.ok /\ ValidChain(f) /\ TxnCommit(s1) = IndexOf(Places(f))
  BY <1>3, <1>4, DisconnectAllView
<1>6. f = Chain[b][Fork(best, b)]
  BY ForkOnBoth
<1> HIDE DEF s1, f
<1>7. /\ s2.ok <=> ValidChain(b)
      /\ s2.ok => TxnCommit(s2) = IndexOf(Places(b))
  BY <1>5, <1>6, ConnectAllView
<1> QED BY <1>1, <1>7
=============================================================================
