--------------------------- MODULE TxPool_proofs ---------------------------
(***************************************************************************)
(* Proofs about TxPool: the memory pool, its index by spent output, and    *)
(* the orphan transactions, for any transactions, blocks and limits.       *)
(***************************************************************************)
EXTENDS TxPool, TxIndex_proofs, FiniteSetTheorems

(***************************************************************************)
(* The loops over transactions and blocks, round by round.                 *)
(***************************************************************************)
RemoveBody(p, P, t)         == remove(P, t)
DeleteBlockBody(p, P, b)    == DeleteBlock(P, b)
ResurrectBody(p, P, t)      == Resurrect(P, t)
ResurrectBlockBody(p, P, b) == ResurrectBlock(P, b)
ReacceptBody(p, P, t)       == Reaccept(P, t)

RemoveLoop         == INSTANCE FoldFacts WITH op <- RemoveBody
DeleteLoop         == INSTANCE FoldFacts WITH op <- DeleteBlockBody
ResurrectLoop      == INSTANCE FoldFacts WITH op <- ResurrectBody
ResurrectBlockLoop == INSTANCE FoldFacts WITH op <- ResurrectBlockBody
ReacceptLoop       == INSTANCE FoldFacts WITH op <- ReacceptBody

\* The pool loses the transactions of a connected block one by one.
RemoveSteps(acc, P, vtx) ==
    /\ acc[0] = P
    /\ \A n \in 0 .. Len(vtx) - 1 : acc[n + 1] = remove(acc[n], vtx[n + 1])

\* The loop that removes the transactions of one block.
LEMMA DeleteBlockSteps ==
    ASSUME NEW P, NEW b, Vtx[b] \in Seq(Tx)
    PROVE  \E acc : RemoveSteps(acc, P, Vtx[b]) /\ DeleteBlock(P, b) = acc[Len(Vtx[b])]
<1>1. DeleteBlock(P, b) = RemoveLoop!Fold(0, P, Vtx[b])
  BY DEF DeleteBlock, FoldLeft, MapThenFoldSet, Max, RemoveLoop!Fold, RemoveLoop!Largest,
         RemoveBody
<1> QED BY <1>1, RemoveLoop!FoldSteps DEF RemoveSteps, RemoveLoop!Accumulates, RemoveBody

\* The same for all connected blocks.
DeleteSteps(acc, P, bs) ==
    /\ acc[0] = P
    /\ \A n \in 0 .. Len(bs) - 1 : acc[n + 1] = DeleteBlock(acc[n], bs[n + 1])

\* The loop over the connected blocks.
LEMMA vDeleteSteps ==
    ASSUME NEW P, NEW bs \in Seq(Block)
    PROVE  \E acc : DeleteSteps(acc, P, bs) /\ vDelete(P, bs) = acc[Len(bs)]
<1>1. vDelete(P, bs) = DeleteLoop!Fold(0, P, bs)
  BY DEF vDelete, FoldLeft, MapThenFoldSet, Max, DeleteLoop!Fold, DeleteLoop!Largest,
         DeleteBlockBody
<1> QED BY <1>1, DeleteLoop!FoldSteps DEF DeleteSteps, DeleteLoop!Accumulates, DeleteBlockBody

\* The transactions of a disconnected block come back one by one.
ResurrectSteps(acc, P, vtx) ==
    /\ acc[0] = P
    /\ \A n \in 0 .. Len(vtx) - 1 : acc[n + 1] = Resurrect(acc[n], vtx[n + 1])

\* The loop that resurrects the transactions of one block.
LEMMA ResurrectBlockSteps ==
    ASSUME NEW P, NEW b, Vtx[b] \in Seq(Tx)
    PROVE  \E acc : ResurrectSteps(acc, P, Vtx[b]) /\ ResurrectBlock(P, b) = acc[Len(Vtx[b])]
<1>1. ResurrectBlock(P, b) = ResurrectLoop!Fold(0, P, Vtx[b])
  BY DEF ResurrectBlock, FoldLeft, MapThenFoldSet, Max, ResurrectLoop!Fold,
         ResurrectLoop!Largest, ResurrectBody
<1> QED BY <1>1, ResurrectLoop!FoldSteps
        DEF ResurrectSteps, ResurrectLoop!Accumulates, ResurrectBody

\* The same for all disconnected blocks.
ResurrectAllSteps(acc, P, bs) ==
    /\ acc[0] = P
    /\ \A n \in 0 .. Len(bs) - 1 : acc[n + 1] = ResurrectBlock(acc[n], bs[n + 1])

\* The loop over the disconnected blocks.
LEMMA vResurrectSteps ==
    ASSUME NEW P, NEW bs \in Seq(Block)
    PROVE  \E acc : ResurrectAllSteps(acc, P, bs) /\ vResurrect(P, bs) = acc[Len(bs)]
<1>1. vResurrect(P, bs) = ResurrectBlockLoop!Fold(0, P, bs)
  BY DEF vResurrect, FoldLeft, MapThenFoldSet, Max, ResurrectBlockLoop!Fold,
         ResurrectBlockLoop!Largest, ResurrectBlockBody
<1> QED BY <1>1, ResurrectBlockLoop!FoldSteps
        DEF ResurrectAllSteps, ResurrectBlockLoop!Accumulates, ResurrectBlockBody

\* The wallet puts its transactions back one by one.
ReacceptSteps(acc, w) ==
    /\ acc[0] = <<{}, <<>>>>
    /\ \A n \in 0 .. Len(w) - 1 : acc[n + 1] = Reaccept(acc[n], w[n + 1])

\* The loop over the transactions of the wallet.
LEMMA ReacceptWalletSteps ==
    ASSUME NEW w, w \in Seq(Tx)
    PROVE  \E acc : ReacceptSteps(acc, w) /\ ReacceptWalletTransactions(w) = acc[Len(w)]
<1>1. ReacceptWalletTransactions(w) = ReacceptLoop!Fold(0, <<{}, <<>>>>, w)
  BY DEF ReacceptWalletTransactions, FoldLeft, MapThenFoldSet, Max, ReacceptLoop!Fold,
         ReacceptLoop!Largest, ReacceptBody
<1> QED BY <1>1, ReacceptLoop!FoldSteps DEF ReacceptSteps, ReacceptLoop!Accumulates, ReacceptBody

-----------------------------------------------------------------------------
(***************************************************************************)
(* The pool P as a pair: what insertion and removal keep, one transaction  *)
(* at a time.                                                              *)
(***************************************************************************)
Loose == Tx \ (CoinBase \cup CoinStake)

\* mapNextTx leads to transactions of the pool that spend the output ...
Linked(P) == \A o \in DOMAIN P[2] : P[2][o] \in P[1] /\ o \in Vin[P[2][o]]

DialogSpends(o) == \E u \in DialogTx : o \in Vin[u]

\* ... and each of them is found there by all it spends, unless a transaction
\* of the dialog spends it.
Exclusive(P) ==
    \A t \in P[1] : \A o \in Vin[t] : (o \in DOMAIN P[2] /\ P[2][o] = t) \/ DialogSpends(o)

PoolOk(P) == P = <<P[1], P[2]>> /\ P[1] \subseteq Loose /\ Linked(P) /\ Exclusive(P)

\* addUnchecked of a transaction that conflicts with none of the pool, or that
\* the dialog inserts.
LEMMA AddFacts ==
    ASSUME NEW P, PoolOk(P), NEW t \in Loose, ~Conflicts(P, t) \/ t \in DialogTx
    PROVE  PoolOk(addUnchecked(P, t)) /\ addUnchecked(P, t)[1] = P[1] \cup {t}
<1> DEFINE f == [o \in Vin[t] |-> t]
           g == Over(f, P[2])
           Q == addUnchecked(P, t)
<1>1. Q = <<P[1] \cup {t}, g>>
  BY DEF addUnchecked
<1>2. /\ DOMAIN g = Vin[t] \cup DOMAIN P[2]
      /\ \A o \in DOMAIN g : g[o] = IF o \in Vin[t] THEN t ELSE P[2][o]
  BY DEF Over
<1> HIDE DEF g, Q
<1>3. Q[1] = P[1] \cup {t} /\ Q[2] = g /\ Q = <<Q[1], Q[2]>>
  BY <1>1
<1>4. Linked(Q)
  BY <1>2, <1>3 DEF PoolOk, Linked
<1>5. ASSUME NEW u \in Q[1], NEW o \in Vin[u]
      PROVE  (o \in DOMAIN Q[2] /\ Q[2][o] = u) \/ DialogSpends(o)
  <2>1. CASE u = t
    BY <1>2, <1>3, <2>1
  <2>2. CASE u # t /\ o \in Vin[t]
    <3>1. u \in P[1]
      BY <1>3, <2>2
    <3>2. CASE t \in DialogTx
      BY <2>2, <3>2 DEF DialogSpends
    <3>3. CASE ~Conflicts(P, t)
      BY <2>2, <3>1, <3>3 DEF Conflicts, PoolOk, Exclusive
    <3> QED BY <3>2, <3>3
  <2>3. CASE u # t /\ o \notin Vin[t]
    BY <1>2, <1>3, <2>3 DEF PoolOk, Exclusive
  <2> QED BY <2>1, <2>2, <2>3
<1>6. PoolOk(Q)
  BY <1>3, <1>4, <1>5 DEF PoolOk, Exclusive
<1> QED BY <1>3, <1>6 DEF Q

\* remove takes the transaction and exactly its own entries.
LEMMA RemoveFacts ==
    ASSUME NEW P, PoolOk(P), NEW t
    PROVE  PoolOk(remove(P, t)) /\ remove(P, t)[1] = P[1] \ {t}
<1>1. CASE t \notin P[1]
  BY <1>1 DEF remove
<1>2. CASE t \in P[1]
  <2> DEFINE g == Restrict(P[2], DOMAIN P[2] \ Vin[t])
             Q == remove(P, t)
  <2>1. Q = <<P[1] \ {t}, g>>
    BY <1>2 DEF remove
  <2>2. DOMAIN g = DOMAIN P[2] \ Vin[t] /\ \A o \in DOMAIN g : g[o] = P[2][o]
    BY DEF Restrict
  <2> HIDE DEF g, Q
  <2>3. Q[1] = P[1] \ {t} /\ Q[2] = g /\ Q = <<Q[1], Q[2]>>
    BY <2>1
  <2>4. Linked(Q)
    BY <2>2, <2>3 DEF PoolOk, Linked
  <2>5. ASSUME NEW u \in Q[1], NEW o \in Vin[u]
        PROVE  (o \in DOMAIN Q[2] /\ Q[2][o] = u) \/ DialogSpends(o)
    <3>1. u \in P[1] /\ u # t
      BY <2>3
    <3>2. (o \in DOMAIN P[2] /\ P[2][o] = u) \/ DialogSpends(o)
      BY <3>1 DEF PoolOk, Exclusive
    <3>3. o \in Vin[t] => (o \in DOMAIN P[2] /\ P[2][o] = t) \/ DialogSpends(o)
      BY <1>2 DEF PoolOk, Exclusive
    <3> QED BY <2>2, <2>3, <3>1, <3>2, <3>3
  <2>6. PoolOk(Q)
    BY <2>3, <2>4, <2>5 DEF PoolOk, Exclusive
  <2> QED BY <2>3, <2>6 DEF Q
<1> QED BY <1>1, <1>2

\* What accept lets into the pool is loose and conflicts with nothing there.
\* With inputs checked, the chain does not have it.
LEMMA AcceptFacts ==
    ASSUME NEW P, NEW t \in Tx, NEW fCheckInputs, accept(P, t, fCheckInputs) = "accepted"
    PROVE  /\ t \in Loose /\ ~Conflicts(P, t)
           /\ fCheckInputs => t \notin DOMAIN txindex
BY DEF accept, LooseOk, Loose

\* Something in S spends one of the outputs t spends.
Covered(S, t) == \E u \in S : Vin[u] \cap Vin[t] # {}

\* What conflicts with a set conflicts with a larger one.
LEMMA CoveredMonotone ==
    ASSUME NEW S, NEW T, S \subseteq T, NEW t, Covered(S, t)
    PROVE  Covered(T, t)
BY DEF Covered

\* AcceptToMemoryPool keeps the pool in order; without the check of inputs,
\* a standard transaction is then in the pool, or one it conflicts with is.
LEMMA AddIfFacts ==
    ASSUME NEW P, PoolOk(P), NEW t \in Tx
    PROVE  LET Q == AddIf(P, t, FALSE) IN
           /\ PoolOk(Q)
           /\ P[1] \subseteq Q[1] /\ Q[1] \subseteq P[1] \cup {t}
           /\ t \notin CoinBase \cup CoinStake \cup NonStandard => Covered(Q[1], t)
<1> DEFINE Q == AddIf(P, t, FALSE)
<1>1. CASE accept(P, t, FALSE) = "accepted"
  <2>1. Q = addUnchecked(P, t)
    BY <1>1 DEF AddIf
  <2>2. PoolOk(Q) /\ Q[1] = P[1] \cup {t}
    <3>1. t \in Loose /\ ~Conflicts(P, t)
      BY <1>1, AcceptFacts
    <3> QED BY <2>1, <3>1, AddFacts
  <2>3. t \notin CoinBase => Vin[t] \cap Vin[t] # {}
    BY TxAssumption
  <2> HIDE DEF Q
  <2>4. t \notin CoinBase => Covered(Q[1], t)
    BY <2>2, <2>3 DEF Covered
  <2> QED BY <2>2, <2>4 DEF Q
<1>2. CASE accept(P, t, FALSE) # "accepted"
  <2>1. Q = P
    BY <1>2 DEF AddIf
  <2> HIDE DEF Q
  <2>2. ~LooseOk(t) \/ t \in P[1] \/ Conflicts(P, t)
    BY <1>2 DEF accept
  <2>3. ASSUME t \notin CoinBase \cup CoinStake \cup NonStandard
        PROVE  Covered(P[1], t)
    <3>1. CASE t \in P[1]
      <4>1. Vin[t] \cap Vin[t] # {}
        BY <2>3, TxAssumption
      <4> QED BY <3>1, <4>1 DEF Covered
    <3>2. CASE Conflicts(P, t)
      <4>1. PICK o \in Vin[t] : o \in DOMAIN P[2]
        BY <3>2 DEF Conflicts
      <4>2. P[2][o] \in P[1] /\ o \in Vin[P[2][o]]
        BY <4>1 DEF PoolOk, Linked
      <4> QED BY <4>1, <4>2 DEF Covered
    <3> QED BY <2>2, <2>3, <3>1, <3>2 DEF LooseOk
  <2> QED BY <2>1, <2>3 DEF Q
<1> QED BY <1>1, <1>2

-----------------------------------------------------------------------------
(***************************************************************************)
(* The same for the loops.                                                 *)
(***************************************************************************)

\* A connected block takes its transactions out of the pool.
LEMMA DeleteBlockFacts ==
    ASSUME NEW P, PoolOk(P), NEW b \in Block
    PROVE  PoolOk(DeleteBlock(P, b)) /\ DeleteBlock(P, b)[1] = P[1] \ Range(Vtx[b])
<1> DEFINE vtx == Vtx[b]
           Met(n) == {vtx[k] : k \in 1 .. n}
<1>0. vtx \in Seq(Tx)
  BY BlockAssumption
<1>1. PICK acc : RemoveSteps(acc, P, vtx) /\ DeleteBlock(P, b) = acc[Len(vtx)]
  BY <1>0, DeleteBlockSteps
<1> HIDE DEF vtx
<1>2. /\ Range(vtx) = Met(Len(vtx)) /\ Len(vtx) \in Nat
      /\ \A n \in 0 .. Len(vtx) - 1 : vtx[n + 1] \in Tx /\ Met(n + 1) = Met(n) \cup {vtx[n + 1]}
      /\ Met(0) = {}
  BY <1>0, RangeSteps
<1> DEFINE I(n) == PoolOk(acc[n]) /\ acc[n][1] = P[1] \ Met(n)
           S == {n \in 0 .. Len(vtx) : I(n)}
<1> HIDE DEF Met
<1>3. I(0)
  BY <1>1, <1>2 DEF RemoveSteps
<1>4. ASSUME NEW n \in 0 .. Len(vtx) - 1, I(n)
      PROVE  I(n + 1)
  <2> DEFINE t == vtx[n + 1]
             Q == acc[n]
             R == acc[n + 1]
  <2>1. PoolOk(Q) /\ Q[1] = P[1] \ Met(n) /\ Met(n + 1) = Met(n) \cup {t}
    BY <1>2, <1>4
  <2>2. R = remove(Q, t)
    BY <1>1 DEF RemoveSteps
  <2> HIDE DEF t, Q, R
  <2>3. PoolOk(R) /\ R[1] = Q[1] \ {t}
    BY <2>1, <2>2, RemoveFacts
  <2>4. PoolOk(R) /\ R[1] = P[1] \ Met(n + 1)
    BY <2>1, <2>3
  <2> QED BY <2>4 DEF R
<1> HIDE DEF I
<1>5. Len(vtx) \in S
  <2>1. 0 \in S /\ \A n \in 0 .. Len(vtx) - 1 : n \in S => n + 1 \in S
    BY <1>2, <1>3, <1>4
  <2> HIDE DEF S
  <2> QED BY <1>2, <2>1, CountUp
<1>6. I(Len(vtx))
  BY <1>5
<1> QED BY <1>1, <1>2, <1>6 DEF I, vtx

\* All connected blocks do.
LEMMA vDeleteFacts ==
    ASSUME NEW P, PoolOk(P), NEW bs \in Seq(Block)
    PROVE  PoolOk(vDelete(P, bs)) /\ vDelete(P, bs)[1] = P[1] \ TxsOf(bs)
<1> DEFINE MetTx(n) == UNION {Range(Vtx[c]) : c \in {bs[k] : k \in 1 .. n}}
<1>1. PICK acc : DeleteSteps(acc, P, bs) /\ vDelete(P, bs) = acc[Len(bs)]
  BY vDeleteSteps
<1>2. /\ TxsOf(bs) = MetTx(Len(bs)) /\ Len(bs) \in Nat
      /\ \A n \in 0 .. Len(bs) - 1 :
            bs[n + 1] \in Block /\ MetTx(n + 1) = MetTx(n) \cup Range(Vtx[bs[n + 1]])
      /\ MetTx(0) = {}
  BY TxsOfSteps
<1> DEFINE I(n) == PoolOk(acc[n]) /\ acc[n][1] = P[1] \ MetTx(n)
           S == {n \in 0 .. Len(bs) : I(n)}
<1> HIDE DEF MetTx
<1>3. I(0)
  BY <1>1, <1>2 DEF DeleteSteps
<1>4. ASSUME NEW n \in 0 .. Len(bs) - 1, I(n)
      PROVE  I(n + 1)
  <2> DEFINE b == bs[n + 1]
             Q == acc[n]
             R == acc[n + 1]
  <2>1. /\ PoolOk(Q) /\ Q[1] = P[1] \ MetTx(n)
        /\ b \in Block /\ MetTx(n + 1) = MetTx(n) \cup Range(Vtx[b])
    BY <1>2, <1>4
  <2>2. R = DeleteBlock(Q, b)
    BY <1>1 DEF DeleteSteps
  <2> HIDE DEF b, Q, R
  <2>3. PoolOk(R) /\ R[1] = Q[1] \ Range(Vtx[b])
    BY <2>1, <2>2, DeleteBlockFacts
  <2>4. PoolOk(R) /\ R[1] = P[1] \ MetTx(n + 1)
    BY <2>1, <2>3
  <2> QED BY <2>4 DEF R
<1> HIDE DEF I
<1>5. Len(bs) \in S
  <2>1. 0 \in S /\ \A n \in 0 .. Len(bs) - 1 : n \in S => n + 1 \in S
    BY <1>2, <1>3, <1>4
  <2> HIDE DEF S
  <2> QED BY <1>2, <2>1, CountUp
<1>6. I(Len(bs))
  BY <1>5
<1> QED BY <1>1, <1>2, <1>6 DEF I

\* R is what has become of the pool P by resurrecting the transactions T:
\* nothing is lost and nothing else comes in, and what could be taken back is
\* there or something that spends the same output is.
Resurrected(P, R, T) ==
    /\ PoolOk(R)
    /\ P[1] \subseteq R[1] /\ R[1] \subseteq P[1] \cup T
    /\ \A t \in T \ (CoinBase \cup CoinStake \cup NonStandard) : Covered(R[1], t)

\* Before the loop nothing is resurrected.
LEMMA ResurrectedNothing ==
    ASSUME NEW P, PoolOk(P)
    PROVE  Resurrected(P, P, {})
BY DEF Resurrected

\* Resurrections add up.
LEMMA ResurrectedMore ==
    ASSUME NEW P, NEW Q, NEW R, NEW T, NEW U, Resurrected(P, Q, T), Resurrected(Q, R, U)
    PROVE  Resurrected(P, R, T \cup U)
<1>1. ASSUME NEW t \in (T \cup U) \ (CoinBase \cup CoinStake \cup NonStandard)
      PROVE  Covered(R[1], t)
  <2>1. CASE t \in U
    BY <2>1 DEF Resurrected
  <2>2. CASE t \in T
    BY <2>2, CoveredMonotone DEF Resurrected
  <2> QED BY <2>1, <2>2
<1> QED BY <1>1 DEF Resurrected

\* One transaction is resurrected, or what it conflicts with is there.
LEMMA ResurrectFacts ==
    ASSUME NEW P, PoolOk(P), NEW t \in Tx
    PROVE  Resurrected(P, Resurrect(P, t), {t})
<1>1. CASE t \in CoinBase \cup CoinStake
  BY <1>1 DEF Resurrect, Resurrected
<1>2. CASE t \notin CoinBase \cup CoinStake
  <2> DEFINE R == AddIf(P, t, FALSE)
  <2>1. Resurrect(P, t) = R
    BY <1>2 DEF Resurrect
  <2>2. /\ PoolOk(R) /\ P[1] \subseteq R[1] /\ R[1] \subseteq P[1] \cup {t}
        /\ t \notin CoinBase \cup CoinStake \cup NonStandard => Covered(R[1], t)
    BY AddIfFacts
  <2> HIDE DEF R
  <2> QED BY <2>1, <2>2 DEF Resurrected
<1> QED BY <1>1, <1>2

\* A disconnected block ...
LEMMA ResurrectBlockFacts ==
    ASSUME NEW P, PoolOk(P), NEW b \in Block
    PROVE  Resurrected(P, ResurrectBlock(P, b), Range(Vtx[b]))
<1> DEFINE vtx == Vtx[b]
           Met(n) == {vtx[k] : k \in 1 .. n}
<1>0. vtx \in Seq(Tx)
  BY BlockAssumption
<1>1. PICK acc : ResurrectSteps(acc, P, vtx) /\ ResurrectBlock(P, b) = acc[Len(vtx)]
  BY <1>0, ResurrectBlockSteps
<1> HIDE DEF vtx
<1>2. /\ Range(vtx) = Met(Len(vtx)) /\ Len(vtx) \in Nat
      /\ \A n \in 0 .. Len(vtx) - 1 : vtx[n + 1] \in Tx /\ Met(n + 1) = Met(n) \cup {vtx[n + 1]}
      /\ Met(0) = {}
  BY <1>0, RangeSteps
<1> DEFINE I(n) == Resurrected(P, acc[n], Met(n))
           S == {n \in 0 .. Len(vtx) : I(n)}
<1> HIDE DEF Met
<1>3. I(0)
  BY <1>1, <1>2, ResurrectedNothing DEF ResurrectSteps
<1>4. ASSUME NEW n \in 0 .. Len(vtx) - 1, I(n)
      PROVE  I(n + 1)
  <2>1. PoolOk(acc[n]) /\ vtx[n + 1] \in Tx
    BY <1>2, <1>4 DEF Resurrected
  <2>2. acc[n + 1] = Resurrect(acc[n], vtx[n + 1])
    BY <1>1 DEF ResurrectSteps
  <2>3. Resurrected(acc[n], acc[n + 1], {vtx[n + 1]})
    BY <2>1, <2>2, ResurrectFacts
  <2> QED BY <1>2, <1>4, <2>3, ResurrectedMore
<1> HIDE DEF I
<1>5. Len(vtx) \in S
  <2>1. 0 \in S /\ \A n \in 0 .. Len(vtx) - 1 : n \in S => n + 1 \in S
    BY <1>2, <1>3, <1>4
  <2> HIDE DEF S
  <2> QED BY <1>2, <2>1, CountUp
<1>6. I(Len(vtx))
  BY <1>5
<1> QED BY <1>1, <1>2, <1>6 DEF I, vtx

\* ... and all of them.
LEMMA vResurrectFacts ==
    ASSUME NEW P, PoolOk(P), NEW bs \in Seq(Block)
    PROVE  Resurrected(P, vResurrect(P, bs), TxsOf(bs))
<1> DEFINE MetTx(n) == UNION {Range(Vtx[c]) : c \in {bs[k] : k \in 1 .. n}}
<1>1. PICK acc : ResurrectAllSteps(acc, P, bs) /\ vResurrect(P, bs) = acc[Len(bs)]
  BY vResurrectSteps
<1>2. /\ TxsOf(bs) = MetTx(Len(bs)) /\ Len(bs) \in Nat
      /\ \A n \in 0 .. Len(bs) - 1 :
            bs[n + 1] \in Block /\ MetTx(n + 1) = MetTx(n) \cup Range(Vtx[bs[n + 1]])
      /\ MetTx(0) = {}
  BY TxsOfSteps
<1> DEFINE I(n) == Resurrected(P, acc[n], MetTx(n))
           S == {n \in 0 .. Len(bs) : I(n)}
<1> HIDE DEF MetTx
<1>3. I(0)
  BY <1>1, <1>2, ResurrectedNothing DEF ResurrectAllSteps
<1>4. ASSUME NEW n \in 0 .. Len(bs) - 1, I(n)
      PROVE  I(n + 1)
  <2>1. PoolOk(acc[n]) /\ bs[n + 1] \in Block
    BY <1>2, <1>4 DEF Resurrected
  <2>2. acc[n + 1] = ResurrectBlock(acc[n], bs[n + 1])
    BY <1>1 DEF ResurrectAllSteps
  <2>3. Resurrected(acc[n], acc[n + 1], Range(Vtx[bs[n + 1]]))
    BY <2>1, <2>2, ResurrectBlockFacts
  <2> QED BY <1>2, <1>4, <2>3, ResurrectedMore
<1> HIDE DEF I
<1>5. Len(bs) \in S
  <2>1. 0 \in S /\ \A n \in 0 .. Len(bs) - 1 : n \in S => n + 1 \in S
    BY <1>2, <1>3, <1>4
  <2> HIDE DEF S
  <2> QED BY <1>2, <2>1, CountUp
<1>6. I(Len(bs))
  BY <1>5
<1> QED BY <1>1, <1>2, <1>6 DEF I

\* What the wallet puts back is in no block.
LEMMA ReacceptWalletFacts ==
    ASSUME NEW w, w \in Seq(Tx)
    PROVE  LET R == ReacceptWalletTransactions(w) IN PoolOk(R) /\ R[1] \cap DOMAIN txindex = {}
<1>1. PICK acc : ReacceptSteps(acc, w) /\ ReacceptWalletTransactions(w) = acc[Len(w)]
  BY ReacceptWalletSteps
<1> DEFINE I(n) == PoolOk(acc[n]) /\ acc[n][1] \cap DOMAIN txindex = {}
           S == {n \in 0 .. Len(w) : I(n)}
<1>2. Len(w) \in Nat /\ \A n \in 0 .. Len(w) - 1 : w[n + 1] \in Tx
  BY RangeSteps
<1>3. I(0)
  <2>1. acc[0] = <<{}, <<>>>>
    BY <1>1 DEF ReacceptSteps
  <2> QED BY <2>1 DEF PoolOk, Linked, Exclusive
<1>4. ASSUME NEW n \in 0 .. Len(w) - 1, I(n)
      PROVE  I(n + 1)
  <2> DEFINE t == w[n + 1]
             Q == acc[n]
             R == acc[n + 1]
  <2>1. PoolOk(Q) /\ Q[1] \cap DOMAIN txindex = {} /\ t \in Tx
    BY <1>2, <1>4
  <2>2. R = Reaccept(Q, t)
    BY <1>1 DEF ReacceptSteps
  <2> HIDE DEF t, Q, R
  <2>3. PoolOk(R) /\ R[1] \cap DOMAIN txindex = {}
    <3>1. CASE t \in DOMAIN txindex
      BY <2>1, <2>2, <3>1 DEF Reaccept
    <3>2. CASE t \notin DOMAIN txindex
      <4>1. R = AddIf(Q, t, FALSE)
        BY <2>2, <3>2 DEF Reaccept
      <4>2. PoolOk(R) /\ R[1] \subseteq Q[1] \cup {t}
        BY <2>1, <4>1, AddIfFacts
      <4> QED BY <2>1, <3>2, <4>2
    <3> QED BY <3>1, <3>2
  <2> QED BY <2>3 DEF R
<1> HIDE DEF I
<1>5. Len(w) \in S
  <2>1. 0 \in S /\ \A n \in 0 .. Len(w) - 1 : n \in S => n + 1 \in S
    BY <1>2, <1>3, <1>4
  <2> HIDE DEF S
  <2> QED BY <1>2, <2>1, CountUp
<1>6. I(Len(w))
  BY <1>5
<1> QED BY <1>1, <1>6 DEF I

-----------------------------------------------------------------------------
(***************************************************************************)
(* The two maps of orphan transactions as a pair O.                        *)
(***************************************************************************)
OrphansOk(O) ==
    /\ O[1] \subseteq Tx /\ IsFiniteSet(O[1]) /\ O[2] \in [Tx -> SUBSET Tx]
    /\ \A p \in Tx : O[2][p] = {t \in O[1] : p \in Inputs(t)}

\* An orphan is entered under all it spends.
LEMMA AddOrphanFacts ==
    ASSUME NEW O, OrphansOk(O), NEW t \in Tx
    PROVE  OrphansOk(AddOrphanTx(O, t)) /\ AddOrphanTx(O, t)[1] = O[1] \cup {t}
<1> DEFINE Q == AddOrphanTx(O, t)
<1>1. /\ Q[1] = O[1] \cup {t}
      /\ Q[2] = [p \in Tx |-> IF p \in Inputs(t) THEN O[2][p] \cup {t} ELSE O[2][p]]
  BY DEF AddOrphanTx
<1> HIDE DEF Q
<1>2. IsFiniteSet(Q[1])
  BY <1>1, FS_AddElement DEF OrphansOk
<1>3. Q[1] \subseteq Tx /\ Q[2] \in [Tx -> SUBSET Tx]
  BY <1>1 DEF OrphansOk
<1>4. \A p \in Tx : Q[2][p] = {u \in Q[1] : p \in Inputs(u)}
  BY <1>1 DEF OrphansOk
<1> QED BY <1>1, <1>2, <1>3, <1>4 DEF OrphansOk, Q

\* An orphan is erased under all it spends.
LEMMA EraseOrphanFacts ==
    ASSUME NEW O, OrphansOk(O), NEW E
    PROVE  OrphansOk(EraseOrphanTx(O, E)) /\ EraseOrphanTx(O, E)[1] = O[1] \ E
<1> DEFINE Q == EraseOrphanTx(O, E)
<1>1. /\ Q[1] = O[1] \ E
      /\ Q[2] = [p \in Tx |-> O[2][p] \ {t \in E \cap O[1] : p \in Inputs(t)}]
  BY DEF EraseOrphanTx
<1> HIDE DEF Q
<1>2. IsFiniteSet(Q[1])
  BY <1>1, FS_Subset DEF OrphansOk
<1>3. Q[1] \subseteq Tx /\ Q[2] \in [Tx -> SUBSET Tx]
  BY <1>1 DEF OrphansOk
<1>4. \A p \in Tx : Q[2][p] = {u \in Q[1] : p \in Inputs(u)}
  BY <1>1 DEF OrphansOk
<1> QED BY <1>1, <1>2, <1>3, <1>4 DEF OrphansOk, Q

\* One more orphan and, if that is one too many, one eviction.
LEMMA LimitFacts ==
    ASSUME OrphansOk(orphans), Cardinality(mapOrphanTransactions) <= MAX_ORPHAN_TRANSACTIONS,
           NEW t \in Tx \ mapOrphanTransactions,
           LimitOrphanTxSize(AddOrphanTx(orphans, t))
    PROVE  /\ OrphansOk(orphans')
           /\ Cardinality(mapOrphanTransactions') <= MAX_ORPHAN_TRANSACTIONS
<1> DEFINE O == AddOrphanTx(orphans, t)
<1>1. OrphansOk(O) /\ O[1] = mapOrphanTransactions \cup {t}
  BY AddOrphanFacts DEF orphans
<1>2. /\ IsFiniteSet(mapOrphanTransactions) /\ IsFiniteSet(O[1])
      /\ Cardinality(O[1]) = Cardinality(mapOrphanTransactions) + 1
  BY <1>1, FS_AddElement DEF OrphansOk, orphans
<1>3. Cardinality(mapOrphanTransactions) \in Nat /\ Cardinality(O[1]) \in Nat
  BY <1>2, FS_CardinalityType
<1> HIDE DEF O
<1>4. CASE Cardinality(O[1]) <= MAX_ORPHAN_TRANSACTIONS /\ SetOrphans(O)
  BY <1>1, <1>4 DEF SetOrphans, OrphansOk, orphans
<1>5. ASSUME NEW u \in O[1], SetOrphans(EraseOrphanTx(O, {u}))
      PROVE  /\ OrphansOk(orphans')
             /\ Cardinality(mapOrphanTransactions') <= MAX_ORPHAN_TRANSACTIONS
  <2> DEFINE Q == EraseOrphanTx(O, {u})
  <2>1. OrphansOk(Q) /\ Q[1] = O[1] \ {u}
    BY <1>1, EraseOrphanFacts
  <2> HIDE DEF Q
  <2>2. mapOrphanTransactions' = Q[1] /\ mapOrphanTransactionsByPrev' = Q[2]
    BY <1>5 DEF SetOrphans, Q
  <2>3. Cardinality(Q[1]) = Cardinality(O[1]) - 1
    BY <1>2, <2>1, FS_RemoveElement
  <2>4. Cardinality(Q[1]) = Cardinality(mapOrphanTransactions)
    BY <1>2, <1>3, <2>3
  <2> QED BY <2>1, <2>2, <2>4 DEF OrphansOk, orphans
<1>6. \/ Cardinality(O[1]) <= MAX_ORPHAN_TRANSACTIONS /\ SetOrphans(O)
      \/ \E u \in O[1] : SetOrphans(EraseOrphanTx(O, {u}))
  BY DEF LimitOrphanTxSize, O
<1> QED BY <1>4, <1>5, <1>6

-----------------------------------------------------------------------------
(***************************************************************************)
(* The inductive invariant.                                                *)
(***************************************************************************)
Lacks(t) == \E p \in Inputs(t) : p \notin DOMAIN txindex \cup mapTx

\* An orphan that spends a transaction the handler has accepted so far: it is
\* to be erased, it lacks another input, the dialog is involved, or the handler
\* still comes to it, now or with a later entry of the work queue.
Settled(t) ==
    \/ t \in vEraseQueue
    \/ Lacks(t)
    \/ Inputs(t) \cap DialogTx # {}
    \/ t \in mi
    \/ \E k \in DOMAIN vWorkQueue : k > i /\ vWorkQueue[k] \in Inputs(t)

HandlerOk ==
    /\ vWorkQueue \in Seq(Tx) /\ mi \subseteq Tx /\ vEraseQueue \subseteq Tx
    /\ i \in Nat /\ i <= Len(vWorkQueue)
    /\ \A t \in mapOrphanTransactions :
          (\E k \in DOMAIN vWorkQueue : vWorkQueue[k] \in Inputs(t)) => Settled(t)

PoolInv ==
    /\ pindexBest \in Block /\ IndexType(txindex)
    /\ PoolOk(pool)
    /\ NotInPoolAndChain
    /\ dialogTx \in (DialogTx \cap Loose) \cup {NoTx}

OrphanInv ==
    /\ OrphansOk(orphans)
    /\ Cardinality(mapOrphanTransactions) <= MAX_ORPHAN_TRANSACTIONS

IInv == PoolInv /\ OrphanInv /\ HandlerOk

\* The pool takes in a transaction whose inputs were checked.
LEMMA AcceptedStep ==
    ASSUME PoolInv, NEW t \in Tx, accept(pool, t, TRUE) = "accepted",
           SetPool(addUnchecked(pool, t)), UNCHANGED <<chain, dialogTx>>
    PROVE  PoolInv' /\ mapTx' = mapTx \cup {t}
<1> DEFINE P == addUnchecked(pool, t)
<1>1. t \in Loose /\ ~Conflicts(pool, t) /\ t \notin DOMAIN txindex
  BY AcceptFacts
<1>2. PoolOk(P) /\ P[1] = mapTx \cup {t}
  BY <1>1, AddFacts DEF PoolInv, pool
<1> HIDE DEF P
<1>3. mapTx' = P[1] /\ mapNextTx' = P[2]
  BY DEF SetPool, P
<1>4. pool' = P
  BY <1>2, <1>3 DEF pool, PoolOk
<1>5. PoolOk(pool')
  BY <1>2, <1>4
<1>6. txindex' = txindex /\ pindexBest' = pindexBest /\ dialogTx' = dialogTx
  BY DEF chain
<1>7. NotInPoolAndChain'
  BY <1>1, <1>2, <1>3, <1>6 DEF PoolInv, NotInPoolAndChain
<1> QED BY <1>2, <1>3, <1>5, <1>6, <1>7 DEF PoolInv

\* A step that leaves the pool alone.
LEMMA PoolSame ==
    ASSUME PoolInv, UNCHANGED <<chain, pool>>,
           dialogTx' \in (DialogTx \cap Loose) \cup {NoTx}
    PROVE  PoolInv' /\ mapTx' = mapTx /\ txindex' = txindex
<1>1. /\ txindex' = txindex /\ pindexBest' = pindexBest
      /\ mapTx' = mapTx /\ mapNextTx' = mapNextTx /\ pool' = pool
  BY DEF chain, pool
<1>2. PoolOk(pool')
  BY <1>1 DEF PoolInv
<1>3. NotInPoolAndChain'
  BY <1>1 DEF PoolInv, NotInPoolAndChain
<1> QED BY <1>1, <1>2, <1>3 DEF PoolInv

\* A transaction of the chain that is not a coinbase covers itself.
LEMMA SelfCovered ==
    ASSUME NEW t \in Tx \ CoinBase, NEW S, t \in S
    PROVE  Covered(S, t)
<1>1. Vin[t] \cap Vin[t] # {}
  BY TxAssumption
<1> QED BY <1>1 DEF Covered

Kept == \A t \in DOMAIN txindex \ (CoinBase \cup CoinStake \cup NonStandard) :
           Covered(DOMAIN txindex' \cup mapTx', t)

\* Where the index loses nothing, no payment is lost.
LEMMA KeptByIndex ==
    ASSUME PoolInv, DOMAIN txindex \subseteq DOMAIN txindex'
    PROVE  Kept
BY SelfCovered DEF PoolInv, IndexType, Kept

\* The best chain grows by a block.
LEMMA SetBestChainInnerStep ==
    ASSUME PoolInv, NEW b \in Block, SetBestChainInner(b)
    PROVE  PoolInv' /\ Kept
<1> DEFINE s == ConnectBlock(TxnBegin(txindex), b)
           P == DeleteBlock(pool, b)
<1>1. /\ s.ok /\ txindex' = TxnCommit(s) /\ pindexBest' = b
      /\ mapTx' = P[1] /\ mapNextTx' = P[2] /\ dialogTx' = dialogTx
  BY DEF SetBestChainInner, SetPool
<1>2. /\ BatchType(TxnBegin(txindex)) /\ Found(TxnBegin(txindex)) = DOMAIN txindex
  BY TxnBeginFacts DEF PoolInv
<1>3. BatchType(s) /\ (s.ok => Found(s) = DOMAIN txindex \cup Range(Vtx[b]))
  BY <1>2, ConnectBlockFacts
<1>4. PoolOk(P) /\ P[1] = mapTx \ Range(Vtx[b])
  BY DeleteBlockFacts DEF PoolInv, pool
<1> HIDE DEF s, P
<1>5. IndexType(txindex') /\ DOMAIN txindex' = DOMAIN txindex \cup Range(Vtx[b])
  BY <1>1, <1>3, TxnCommitFacts
<1>6. pool' = P
  BY <1>1, <1>4 DEF pool, PoolOk
<1>7. PoolOk(pool')
  BY <1>4, <1>6
<1>8. NotInPoolAndChain'
  BY <1>1, <1>4, <1>5 DEF PoolInv, NotInPoolAndChain
<1>9. PoolInv'
  BY <1>1, <1>5, <1>7, <1>8 DEF PoolInv
<1> QED BY <1>5, <1>9, KeptByIndex

\* A branch is switched.
LEMMA ReorganizeStep ==
    ASSUME PoolInv, NEW b \in Block, Reorganize(b)
    PROVE  PoolInv' /\ Kept
<1> DEFINE s == Switch(txindex, pindexBest, b)
           disc == vDisconnect(pindexBest, b)
           conn == vConnect(pindexBest, b)
           R == vResurrect(pool, disc)
           P == vDelete(R, conn)
<1>1. /\ s.ok /\ txindex' = TxnCommit(s) /\ pindexBest' = b
      /\ mapTx' = P[1] /\ mapNextTx' = P[2] /\ dialogTx' = dialogTx
  BY DEF Reorganize, SetPool, PoolAfterSwitch
<1>2. disc \in Seq(Block) /\ conn \in Seq(Block)
  BY BranchTypes DEF PoolInv
<1>3. /\ IndexType(txindex')
      /\ DOMAIN txindex' = (DOMAIN txindex \ TxsOf(disc)) \cup TxsOf(conn)
  BY <1>1, SwitchMovesBranch DEF PoolInv
<1> HIDE DEF s, disc, conn
<1>4. Resurrected(pool, R, TxsOf(disc))
  BY <1>2, vResurrectFacts DEF PoolInv
<1> HIDE DEF R
<1>5. /\ PoolOk(R) /\ R[1] \subseteq mapTx \cup TxsOf(disc)
      /\ \A t \in TxsOf(disc) \ (CoinBase \cup CoinStake \cup NonStandard) : Covered(R[1], t)
  BY <1>4 DEF Resurrected, pool
<1>6. PoolOk(P) /\ P[1] = R[1] \ TxsOf(conn)
  BY <1>2, <1>5, vDeleteFacts
<1> HIDE DEF P
<1>7. pool' = P
  BY <1>1, <1>6 DEF pool, PoolOk
<1>8. PoolOk(pool')
  BY <1>6, <1>7
<1>9. NotInPoolAndChain'
  BY <1>1, <1>3, <1>5, <1>6 DEF PoolInv, NotInPoolAndChain
<1>10. PoolInv'
  BY <1>1, <1>3, <1>8, <1>9 DEF PoolInv
<1>11. ASSUME NEW t \in DOMAIN txindex \ (CoinBase \cup CoinStake \cup NonStandard)
       PROVE  Covered(DOMAIN txindex' \cup mapTx', t)
  <2>1. CASE t \in TxsOf(disc)
    <3>1. R[1] \subseteq DOMAIN txindex' \cup mapTx'
      BY <1>1, <1>3, <1>6
    <3>2. Covered(R[1], t)
      BY <1>5, <2>1
    <3> QED BY <3>1, <3>2, CoveredMonotone
  <2>2. CASE t \notin TxsOf(disc)
    <3>1. t \in DOMAIN txindex' \cup mapTx' /\ t \in Tx \ CoinBase
      BY <1>3, <2>2 DEF PoolInv, IndexType
    <3> QED BY <3>1, SelfCovered
  <2> QED BY <2>1, <2>2
<1> QED BY <1>10, <1>11 DEF Kept

\* The process starts again.
LEMMA RestartStep ==
    ASSUME PoolInv, NEW w \in SetToSeqs(WalletTx) \cup {<<>>}, Restart(w)
    PROVE  PoolInv' /\ Kept
<1> DEFINE P == ReacceptWalletTransactions(w)
<1>1. w \in Seq(Tx)
  <2>1. CASE w = <<>>
    BY <2>1
  <2>2. CASE w \in SetToSeqs(WalletTx)
    <3>1. Cardinality(WalletTx) \in Nat
      BY PoolAssumption, FS_CardinalityType
    <3>2. w \in [1 .. Cardinality(WalletTx) -> WalletTx]
      BY <2>2 DEF SetToSeqs
    <3> QED BY <3>1, <3>2, PoolAssumption
  <2> QED BY <2>1, <2>2
<1>2. PoolOk(P) /\ P[1] \cap DOMAIN txindex = {}
  BY <1>1, ReacceptWalletFacts
<1> HIDE DEF P
<1>3. /\ mapTx' = P[1] /\ mapNextTx' = P[2] /\ dialogTx' = NoTx
      /\ txindex' = txindex /\ pindexBest' = pindexBest
  BY DEF Restart, SetPool, chain, P
<1>4. pool' = P
  BY <1>2, <1>3 DEF pool, PoolOk
<1>5. PoolOk(pool')
  BY <1>2, <1>4
<1>6. NotInPoolAndChain'
  BY <1>2, <1>3 DEF NotInPoolAndChain
<1>7. PoolInv'
  BY <1>3, <1>5, <1>6 DEF PoolInv
<1> QED BY <1>3, <1>7, KeptByIndex

\* The dialog inserts what it has checked some time ago.
LEMMA DialogInsertStep ==
    ASSUME PoolInv, DialogInsert
    PROVE  PoolInv' /\ mapTx' = mapTx \cup {dialogTx} /\ txindex' = txindex
<1> DEFINE P == addUnchecked(pool, dialogTx)
<1>1. dialogTx \in DialogTx /\ dialogTx \in Loose
  BY DEF PoolInv, DialogInsert
<1>2. PoolOk(P) /\ P[1] = mapTx \cup {dialogTx}
  BY <1>1, AddFacts DEF PoolInv, pool
<1> HIDE DEF P
<1>3. /\ mapTx' = P[1] /\ mapNextTx' = P[2] /\ dialogTx' = NoTx
      /\ txindex' = txindex /\ pindexBest' = pindexBest
  BY DEF DialogInsert, SetPool, chain, P
<1>4. pool' = P
  BY <1>2, <1>3 DEF pool, PoolOk
<1>5. PoolOk(pool')
  BY <1>2, <1>4
<1>6. NotInPoolAndChain'
  BY <1>1, <1>2, <1>3 DEF PoolInv, NotInPoolAndChain
<1> QED BY <1>2, <1>3, <1>5, <1>6 DEF PoolInv

\* Every step keeps the pool and the chain apart and loses no payment.
LEMMA PoolStep ==
    ASSUME IInv, [Next]_vars
    PROVE  PoolInv' /\ Kept
<1>0. PoolInv /\ mi \subseteq Tx /\ dialogTx \in (DialogTx \cap Loose) \cup {NoTx}
  BY DEF IInv, PoolInv, HandlerOk
<1>a. ASSUME UNCHANGED <<chain, pool>>, dialogTx' \in (DialogTx \cap Loose) \cup {NoTx}
      PROVE  PoolInv' /\ Kept
  BY <1>0, <1>a, PoolSame, KeptByIndex
<1>b. ASSUME NEW t \in Tx, accept(pool, t, TRUE) = "accepted",
             SetPool(addUnchecked(pool, t)), UNCHANGED <<chain, dialogTx>>
      PROVE  PoolInv' /\ Kept
  <2>1. PoolInv'
    BY <1>0, <1>b, AcceptedStep
  <2>2. txindex' = txindex
    BY <1>b DEF chain
  <2> QED BY <1>0, <2>1, <2>2, KeptByIndex
<1>1. ASSUME NEW t \in Tx, ReceiveTx(t) PROVE PoolInv' /\ Kept
  BY <1>0, <1>1, <1>a, <1>b DEF ReceiveTx
<1>2. ASSUME NEW t \in mi, VisitOrphan(t) PROVE PoolInv' /\ Kept
  BY <1>0, <1>2, <1>a, <1>b DEF VisitOrphan
<1>3. CASE NextWork
  BY <1>0, <1>3, <1>a DEF NextWork
<1>4. CASE EraseOrphans
  BY <1>0, <1>4, <1>a DEF EraseOrphans
<1>5. ASSUME NEW t \in Tx, SendTx(t) PROVE PoolInv' /\ Kept
  BY <1>0, <1>5, <1>b DEF SendTx
<1>6. ASSUME NEW t \in DialogTx, DialogCheck(t) PROVE PoolInv' /\ Kept
  <2>1. t \in Loose
    BY <1>6, PoolAssumption, AcceptFacts DEF DialogCheck
  <2> QED BY <1>0, <1>6, <1>a, <2>1 DEF DialogCheck
<1>7. CASE DialogInsert
  BY <1>0, <1>7, DialogInsertStep, KeptByIndex
<1>8. ASSUME NEW b \in Block, SetBestChainInner(b) PROVE PoolInv' /\ Kept
  BY <1>0, <1>8, SetBestChainInnerStep
<1>9. ASSUME NEW b \in Block, Reorganize(b) PROVE PoolInv' /\ Kept
  BY <1>0, <1>9, ReorganizeStep
<1>10. ASSUME NEW w \in SetToSeqs(WalletTx) \cup {<<>>}, Restart(w) PROVE PoolInv' /\ Kept
  BY <1>0, <1>10, RestartStep
<1>11. CASE UNCHANGED vars
  BY <1>0, <1>11, <1>a DEF vars
<1> QED BY <1>1, <1>2, <1>3, <1>4, <1>5, <1>6, <1>7, <1>8, <1>9, <1>10, <1>11 DEF Next

\* Every step keeps the two maps of orphans in agreement and within the limit.
LEMMA OrphanStep ==
    ASSUME IInv, [Next]_vars
    PROVE  OrphanInv'
<1>0. OrphansOk(orphans) /\ Cardinality(mapOrphanTransactions) <= MAX_ORPHAN_TRANSACTIONS
  BY DEF IInv, OrphanInv
<1>a. ASSUME UNCHANGED orphans PROVE OrphanInv'
  <2>1. orphans' = orphans /\ mapOrphanTransactions' = mapOrphanTransactions
    BY <1>a DEF orphans
  <2>2. OrphansOk(orphans')
    BY <1>0, <2>1
  <2> QED BY <1>0, <2>1, <2>2 DEF OrphanInv
<1>1. ASSUME NEW t \in Tx, ReceiveTx(t) PROVE OrphanInv'
  <2>1. CASE UNCHANGED orphans
    BY <2>1, <1>a
  <2>2. CASE /\ t \notin mapOrphanTransactions \cup Large
             /\ LimitOrphanTxSize(AddOrphanTx(orphans, t))
    <3>1. /\ OrphansOk(orphans')
          /\ Cardinality(mapOrphanTransactions') <= MAX_ORPHAN_TRANSACTIONS
      BY <1>0, <2>2, LimitFacts
    <3> QED BY <3>1 DEF OrphanInv
  <2> QED BY <1>1, <2>1, <2>2 DEF ReceiveTx
<1>2. ASSUME NEW t \in mi, VisitOrphan(t) PROVE OrphanInv'
  BY <1>2, <1>a DEF VisitOrphan
<1>3. CASE NextWork
  BY <1>3, <1>a DEF NextWork
<1>4. CASE EraseOrphans
  <2> DEFINE O == EraseOrphanTx(orphans, vEraseQueue)
  <2>1. OrphansOk(O) /\ O[1] = mapOrphanTransactions \ vEraseQueue
    BY <1>0, EraseOrphanFacts DEF orphans
  <2> HIDE DEF O
  <2>2. mapOrphanTransactions' = O[1] /\ mapOrphanTransactionsByPrev' = O[2]
    BY <1>4 DEF EraseOrphans, SetOrphans, O
  <2>3. OrphansOk(orphans')
    BY <2>1, <2>2 DEF OrphansOk, orphans
  <2>4. IsFiniteSet(mapOrphanTransactions)
    BY <1>0 DEF OrphansOk, orphans
  <2>5. Cardinality(O[1]) <= Cardinality(mapOrphanTransactions)
    BY <2>1, <2>4, FS_Subset
  <2>6. /\ Cardinality(O[1]) \in Nat /\ Cardinality(mapOrphanTransactions) \in Nat
        /\ MAX_ORPHAN_TRANSACTIONS \in Nat
    BY <2>1, <2>4, FS_CardinalityType, PoolAssumption DEF OrphansOk
  <2>7. Cardinality(O[1]) <= MAX_ORPHAN_TRANSACTIONS
    BY <1>0, <2>5, <2>6
  <2> QED BY <2>2, <2>3, <2>7 DEF OrphanInv
<1>5. ASSUME NEW t \in Tx, SendTx(t) PROVE OrphanInv'
  BY <1>5, <1>a DEF SendTx
<1>6. ASSUME NEW t \in DialogTx, DialogCheck(t) PROVE OrphanInv'
  BY <1>6, <1>a DEF DialogCheck
<1>7. CASE DialogInsert
  BY <1>7, <1>a DEF DialogInsert
<1>8. ASSUME NEW b \in Block, SetBestChainInner(b) PROVE OrphanInv'
  BY <1>8, <1>a DEF SetBestChainInner
<1>9. ASSUME NEW b \in Block, Reorganize(b) PROVE OrphanInv'
  BY <1>9, <1>a DEF Reorganize
<1>10. ASSUME NEW w \in SetToSeqs(WalletTx) \cup {<<>>}, Restart(w) PROVE OrphanInv'
  <2>1. mapOrphanTransactions' = {} /\ mapOrphanTransactionsByPrev' = [p \in Tx |-> {}]
    BY <1>10 DEF Restart, SetOrphans
  <2>2. IsFiniteSet({}) /\ Cardinality({}) = 0
    BY FS_EmptySet
  <2>3. Cardinality(mapOrphanTransactions') <= MAX_ORPHAN_TRANSACTIONS
    BY <2>1, <2>2, PoolAssumption
  <2>4. OrphansOk(orphans')
    BY <2>1, <2>2 DEF OrphansOk, orphans
  <2> QED BY <2>3, <2>4 DEF OrphanInv
<1>11. CASE UNCHANGED vars
  BY <1>11, <1>a DEF vars
<1> QED BY <1>1, <1>2, <1>3, <1>4, <1>5, <1>6, <1>7, <1>8, <1>9, <1>10, <1>11 DEF Next

\* A handler that has returned, or has not begun, owes no orphan anything.
LEMMA HandlerIdle ==
    ASSUME vWorkQueue' = <<>>, i' = 0, mi' \subseteq Tx, vEraseQueue' \subseteq Tx
    PROVE  HandlerOk'
BY DEF HandlerOk

\* Every step keeps account of the orphans of what the handler has accepted.
LEMMA HandlerStep ==
    ASSUME IInv, [Next]_vars
    PROVE  HandlerOk'
<1>0. /\ vWorkQueue \in Seq(Tx) /\ mi \subseteq Tx /\ vEraseQueue \subseteq Tx
      /\ i \in Nat /\ i <= Len(vWorkQueue)
      /\ \A t \in mapOrphanTransactions :
            (\E k \in DOMAIN vWorkQueue : vWorkQueue[k] \in Inputs(t)) => Settled(t)
      /\ PoolInv
  BY DEF IInv, HandlerOk
<1>1. /\ mapOrphanTransactions \subseteq Tx
      /\ \A p \in Tx : /\ mapOrphanTransactionsByPrev[p] \subseteq Tx
                       /\ mapOrphanTransactionsByPrev[p]
                             = {t \in mapOrphanTransactions : p \in Inputs(t)}
  BY DEF IInv, OrphanInv, OrphansOk, orphans
<1>a. ASSUME cs_main, UNCHANGED handler PROVE HandlerOk'
  BY <1>0, <1>a, HandlerIdle DEF cs_main, handler
\* The pool may grow by p while the handler is at work.
<1>b. ASSUME NEW p, UNCHANGED <<orphans, handler>>, txindex' = txindex,
             mapTx' \subseteq mapTx \cup {p}, p \in DialogTx \/ p \in mapTx
      PROVE  HandlerOk'
  <2>1. /\ vWorkQueue' = vWorkQueue /\ i' = i /\ mi' = mi /\ vEraseQueue' = vEraseQueue
        /\ mapOrphanTransactions' = mapOrphanTransactions
    BY <1>b DEF orphans, handler
  <2>2. ASSUME NEW t, Lacks(t) PROVE Lacks(t)' \/ Inputs(t) \cap DialogTx # {}
    BY <1>b, <2>2 DEF Lacks
  <2>3. ASSUME NEW t, Settled(t) PROVE Settled(t)'
    BY <2>1, <2>2, <2>3 DEF Settled
  <2> QED BY <1>0, <2>1, <2>3 DEF HandlerOk
<1>2. ASSUME NEW t \in Tx, ReceiveTx(t) PROVE HandlerOk'
  <2>1. CASE UNCHANGED handler
    BY <1>2, <2>1, <1>a DEF ReceiveTx
  <2>2. CASE /\ vWorkQueue' = <<t>> /\ i' = 1 /\ mi' = mapOrphanTransactionsByPrev[t]
             /\ vEraseQueue' = {t} /\ UNCHANGED orphans
    <3>1. /\ mapOrphanTransactions' = mapOrphanTransactions /\ vWorkQueue' \in Seq(Tx)
          /\ DOMAIN vWorkQueue' = {1} /\ vWorkQueue'[1] = t /\ Len(vWorkQueue') = 1
      BY <2>2 DEF orphans
    <3>2. ASSUME NEW x \in mapOrphanTransactions', NEW k \in DOMAIN vWorkQueue',
                 vWorkQueue'[k] \in Inputs(x)
          PROVE  Settled(x)'
      BY <1>1, <2>2, <3>1, <3>2 DEF Settled
    <3> QED BY <1>1, <2>2, <3>1, <3>2 DEF HandlerOk
  <2> QED BY <1>2, <2>1, <2>2 DEF ReceiveTx
<1>3. ASSUME NEW t \in mi, VisitOrphan(t) PROVE HandlerOk'
  <2>1. /\ t \in Tx /\ mi' = mi \ {t} /\ i' = i /\ txindex' = txindex
        /\ mapOrphanTransactions' = mapOrphanTransactions
    BY <1>0, <1>3 DEF VisitOrphan, chain, orphans
  <2>2. CASE /\ accept(pool, t, TRUE) = "accepted"
             /\ SetPool(addUnchecked(pool, t))
             /\ vWorkQueue' = Append(vWorkQueue, t)
             /\ vEraseQueue' = vEraseQueue \cup {t}
    <3>1. mapTx' = mapTx \cup {t}
      BY <2>2 DEF SetPool, addUnchecked, pool
    <3>2. /\ vWorkQueue' \in Seq(Tx) /\ Len(vWorkQueue) \in Nat
          /\ DOMAIN vWorkQueue = 1 .. Len(vWorkQueue)
          /\ DOMAIN vWorkQueue' = 1 .. Len(vWorkQueue) + 1
          /\ vWorkQueue'[Len(vWorkQueue) + 1] = t
          /\ \A k \in DOMAIN vWorkQueue : vWorkQueue'[k] = vWorkQueue[k]
      BY <1>0, <2>1, <2>2
    <3>3. ASSUME NEW x \in mapOrphanTransactions', NEW k \in DOMAIN vWorkQueue',
                 vWorkQueue'[k] \in Inputs(x)
          PROVE  Settled(x)'
      <4>1. CASE t \in Inputs(x)
        <5>1. Len(vWorkQueue) + 1 \in DOMAIN vWorkQueue' /\ Len(vWorkQueue) + 1 > i'
          BY <1>0, <2>1, <3>2
        <5> QED BY <3>2, <4>1, <5>1 DEF Settled
      <4>2. CASE t \notin Inputs(x)
        <5>1. k \in DOMAIN vWorkQueue /\ vWorkQueue[k] \in Inputs(x)
          BY <3>2, <3>3, <4>2
        <5>2. Settled(x)
          BY <1>0, <2>1, <5>1
        <5>3. Lacks(x) => Lacks(x)'
          BY <2>1, <3>1, <4>2 DEF Lacks
        <5>4. ASSUME NEW l \in DOMAIN vWorkQueue, l > i, vWorkQueue[l] \in Inputs(x)
              PROVE  Settled(x)'
          <6>1. l \in DOMAIN vWorkQueue' /\ l > i' /\ vWorkQueue'[l] \in Inputs(x)
            BY <2>1, <3>2, <5>4
          <6> QED BY <6>1 DEF Settled
        <5>5. x \in vEraseQueue \/ x \in mi => Settled(x)'
          BY <2>1, <2>2 DEF Settled
        <5>6. Lacks(x)' \/ Inputs(x) \cap DialogTx # {} => Settled(x)'
          BY DEF Settled
        <5> QED BY <5>2, <5>3, <5>4, <5>5, <5>6 DEF Settled
      <4> QED BY <4>1, <4>2
    <3>4. vEraseQueue' \subseteq Tx /\ mi' \subseteq Tx /\ i' \in Nat /\ i' <= Len(vWorkQueue')
      BY <1>0, <2>1, <2>2, <3>2
    <3> QED BY <3>2, <3>3, <3>4 DEF HandlerOk
  <2>3. CASE /\ UNCHANGED <<pool, vWorkQueue>>
             /\ \/ accept(pool, t, TRUE) = "missing" /\ UNCHANGED vEraseQueue
                \/ vEraseQueue' = vEraseQueue \cup {t}
    <3>1. vWorkQueue' = vWorkQueue /\ mapTx' = mapTx /\ vEraseQueue \subseteq vEraseQueue'
      BY <2>3 DEF pool
    <3>2. \A x : Lacks(x)' = Lacks(x)
      BY <2>1, <3>1 DEF Lacks
    <3>3. t \in vEraseQueue' \/ Lacks(t)
      BY <2>3 DEF accept, Missing, Known, Lacks, pool
    <3>4. ASSUME NEW x, Settled(x) PROVE Settled(x)'
      BY <2>1, <3>1, <3>2, <3>3, <3>4 DEF Settled
    <3>5. vEraseQueue' \subseteq Tx /\ mi' \subseteq Tx
      BY <1>0, <2>1, <2>3
    <3> QED BY <1>0, <2>1, <3>1, <3>4, <3>5 DEF HandlerOk
  <2> QED BY <1>3, <2>2, <2>3 DEF VisitOrphan
<1>4. CASE NextWork
  <2>1. /\ mi = {} /\ i < Len(vWorkQueue) /\ i' = i + 1
        /\ mi' = mapOrphanTransactionsByPrev[vWorkQueue[i + 1]]
        /\ txindex' = txindex /\ mapTx' = mapTx /\ vWorkQueue' = vWorkQueue
        /\ mapOrphanTransactions' = mapOrphanTransactions /\ vEraseQueue' = vEraseQueue
    BY <1>4 DEF NextWork, chain, pool, orphans
  <2>2. i + 1 \in 1 .. Len(vWorkQueue) /\ i + 1 \in Nat /\ i + 1 <= Len(vWorkQueue)
    BY <1>0, <2>1
  <2>3. vWorkQueue[i + 1] \in Tx
    BY <1>0, <2>2
  <2>4. \A x : Lacks(x)' = Lacks(x)
    BY <2>1 DEF Lacks
  <2>5. ASSUME NEW x \in mapOrphanTransactions, Settled(x) PROVE Settled(x)'
    <3>1. ASSUME NEW k \in DOMAIN vWorkQueue, k > i, vWorkQueue[k] \in Inputs(x)
          PROVE  Settled(x)'
      <4>1. CASE k = i + 1
        BY <1>1, <2>1, <2>3, <3>1, <4>1 DEF Settled
      <4>2. CASE k # i + 1
        <5>1. k > i'
          BY <1>0, <2>1, <3>1, <4>2
        <5> QED BY <2>1, <3>1, <5>1 DEF Settled
      <4> QED BY <4>1, <4>2
    <3> QED BY <2>1, <2>4, <2>5, <3>1 DEF Settled
  <2>6. mi' \subseteq Tx
    BY <1>1, <2>1, <2>3
  <2> QED BY <1>0, <2>1, <2>2, <2>5, <2>6 DEF HandlerOk
<1>5. CASE EraseOrphans
  BY <1>0, <1>5, HandlerIdle DEF EraseOrphans
<1>6. ASSUME NEW t \in Tx, SendTx(t) PROVE HandlerOk'
  BY <1>6, <1>a DEF SendTx
<1>7. ASSUME NEW t \in DialogTx, DialogCheck(t) PROVE HandlerOk'
  <2>1. UNCHANGED <<orphans, handler>> /\ txindex' = txindex /\ mapTx' = mapTx
    BY <1>7 DEF DialogCheck, chain, pool
  <2> QED BY <1>7, <2>1, <1>b
<1>8. CASE DialogInsert
  <2>1. mapTx' = mapTx \cup {dialogTx} /\ txindex' = txindex
    BY <1>0, <1>8, DialogInsertStep
  <2>2. dialogTx \in DialogTx /\ UNCHANGED <<orphans, handler>>
    BY <1>0, <1>8 DEF DialogInsert, PoolInv
  <2> QED BY <2>1, <2>2, <1>b
<1>9. ASSUME NEW b \in Block, SetBestChainInner(b) PROVE HandlerOk'
  BY <1>9, <1>a DEF SetBestChainInner
<1>10. ASSUME NEW b \in Block, Reorganize(b) PROVE HandlerOk'
  BY <1>10, <1>a DEF Reorganize
<1>11. ASSUME NEW w \in SetToSeqs(WalletTx) \cup {<<>>}, Restart(w) PROVE HandlerOk'
  BY <1>11, HandlerIdle DEF Restart
<1>12. CASE UNCHANGED vars
  <2>1. /\ vWorkQueue' = vWorkQueue /\ i' = i /\ mi' = mi /\ vEraseQueue' = vEraseQueue
        /\ mapOrphanTransactions' = mapOrphanTransactions
        /\ txindex' = txindex /\ mapTx' = mapTx
    BY <1>12 DEF vars, chain, pool, orphans, handler
  <2>2. \A x : Lacks(x)' = Lacks(x)
    BY <2>1 DEF Lacks
  <2>3. \A x : Settled(x)' = Settled(x)
    BY <2>1, <2>2 DEF Settled
  <2> QED BY <1>0, <2>1, <2>3 DEF HandlerOk
<1> QED BY <1>2, <1>3, <1>4, <1>5, <1>6, <1>7, <1>8, <1>9, <1>10, <1>11, <1>12 DEF Next

-----------------------------------------------------------------------------
(***************************************************************************)
(* The theorems.                                                           *)
(***************************************************************************)
LEMMA InitIInv ==
    ASSUME Init
    PROVE  IInv
<1>2. Genesis \in Block
  BY BlockAssumption
<1>5. IndexType(txindex)
  BY DEF Init, IndexType
<1>6. PoolOk(pool) /\ NotInPoolAndChain
  BY DEF Init, pool, PoolOk, Linked, Exclusive, NotInPoolAndChain
<1>7. PoolInv
  BY <1>2, <1>5, <1>6 DEF Init, PoolInv
<1>8. IsFiniteSet({}) /\ Cardinality({}) = 0
  BY FS_EmptySet
<1>9. OrphanInv
  BY <1>8, PoolAssumption DEF Init, OrphanInv, OrphansOk, orphans
<1>10. HandlerOk
  BY DEF Init, HandlerOk
<1> QED BY <1>7, <1>9, <1>10 DEF IInv

\* The invariant holds of every reachable state.
THEOREM Invariance == Spec => []IInv
<1>1. Init => IInv
  BY InitIInv
<1>2. IInv /\ [Next]_vars => IInv'
  BY PoolStep, OrphanStep, HandlerStep DEF IInv
<1> QED BY <1>1, <1>2, PTL DEF Spec

\* Every variable has its type; in particular a coinbase or coinstake is never
\* in the pool, however it is asked for.
THEOREM TypeCorrect == Spec => []TypeOK
<1>1. IInv => TypeOK
  <2> SUFFICES ASSUME IInv PROVE TypeOK
    OBVIOUS
  <2>1. /\ pindexBest \in Block /\ DOMAIN txindex \subseteq Tx
        /\ \A t \in DOMAIN txindex : txindex[t] \in TxIndexRecord(t)
        /\ dialogTx \in DialogTx \cup {NoTx}
    BY DEF IInv, PoolInv, IndexType
  <2>2. mapTx \subseteq Tx \ (CoinBase \cup CoinStake)
    BY DEF IInv, PoolInv, PoolOk, pool, Loose
  <2>3. \A o \in DOMAIN mapNextTx : mapNextTx[o] \in mapTx /\ o \in Vin[mapNextTx[o]]
    BY DEF IInv, PoolInv, PoolOk, pool, Linked
  <2>4. /\ DOMAIN mapNextTx \subseteq UNION {Vin[t] : t \in Tx}
        /\ \A o \in DOMAIN mapNextTx : mapNextTx[o] \in Tx
    BY <2>2, <2>3
  <2>5. /\ mapOrphanTransactions \subseteq Tx
        /\ mapOrphanTransactionsByPrev \in [Tx -> SUBSET Tx]
    BY DEF IInv, OrphanInv, OrphansOk, orphans
  <2>6. vWorkQueue \in Seq(Tx) /\ i \in Nat /\ mi \subseteq Tx /\ vEraseQueue \subseteq Tx
    BY DEF IInv, HandlerOk
  <2> QED BY <2>1, <2>2, <2>4, <2>5, <2>6 DEF TypeOK
<1> QED BY <1>1, Invariance, PTL

\* mapNextTx never points to a transaction that has left the pool: not after
\* blocks, switches of branches and insertions by the dialog in any order.
THEOREM InPointsAreLive == Spec => []NoDanglingInPoint
<1>1. IInv => NoDanglingInPoint
  BY DEF IInv, PoolInv, PoolOk, pool, Linked, NoDanglingInPoint
<1> QED BY <1>1, Invariance, PTL

\* No two transactions of the pool spend the same output, the dialog aside.
THEOREM NoDoubleSpend == Spec => []NoDoubleSpendInPool
<1>1. IInv => NoDoubleSpendInPool
  BY DEF IInv, PoolInv, PoolOk, pool, Exclusive, DialogSpends, NoDoubleSpendInPool
<1> QED BY <1>1, Invariance, PTL

\* No transaction is in the pool and in the chain, the dialog aside.
THEOREM PoolAndChainDisjoint == Spec => []NotInPoolAndChain
<1>1. IInv => NotInPoolAndChain
  BY DEF IInv, PoolInv
<1> QED BY <1>1, Invariance, PTL

\* The two maps of orphan transactions agree and stay within the limit.
THEOREM OrphanMapsAgreement == Spec => []OrphanMapsAgree
<1>1. IInv => OrphanMapsAgree
  BY DEF IInv, OrphanInv, OrphansOk, orphans, OrphanMapsAgree
<1> QED BY <1>1, Invariance, PTL

\* No step, a switch of branches least of all, loses a payment.
THEOREM NoPaymentLost == Spec => SwitchLosesNothing
<1> DEFINE A == \A t \in DOMAIN txindex \ (CoinBase \cup CoinStake \cup NonStandard) :
                   \E u \in DOMAIN txindex' \cup mapTx' : Vin[u] \cap Vin[t] # {}
<1>1. IInv /\ [Next]_vars => A
  BY PoolStep DEF Kept, Covered
<1> HIDE DEF A
<1>2. Spec => [][A]_vars
  BY <1>1, Invariance, PTL DEF Spec
<1> QED BY <1>2 DEF SwitchLosesNothing, A

\* When the "tx" handler returns, no orphan that spends what it accepted has all
\* its inputs, over any number of generations.
THEOREM OrphansAreReleased == Spec => OrphansFollowParents
<1> DEFINE A == ~cs_main /\ cs_main' =>
                   \A t \in mapOrphanTransactions' :
                      Inputs(t) \cap Range(vWorkQueue) # {} =>
                         \/ \E p \in Inputs(t) : p \notin DOMAIN txindex' \cup mapTx'
                         \/ Inputs(t) \cap DialogTx # {}
<1>1. IInv /\ [Next]_vars => A
  <2> SUFFICES ASSUME IInv, [Next]_vars, ~cs_main, cs_main',
                      NEW t \in mapOrphanTransactions',
                      Inputs(t) \cap Range(vWorkQueue) # {}
               PROVE  \/ \E p \in Inputs(t) : p \notin DOMAIN txindex' \cup mapTx'
                      \/ Inputs(t) \cap DialogTx # {}
    OBVIOUS
  <2>0. vWorkQueue # <<>> /\ vWorkQueue' = <<>> /\ vWorkQueue \in Seq(Tx) /\ i \in Nat
    BY DEF cs_main, IInv, HandlerOk
  <2>1. CASE EraseOrphans
    <3>1. /\ mi = {} /\ i = Len(vWorkQueue) /\ txindex' = txindex /\ mapTx' = mapTx
          /\ mapOrphanTransactions' = mapOrphanTransactions \ vEraseQueue
      BY <2>1 DEF EraseOrphans, SetOrphans, EraseOrphanTx, orphans, chain, pool
    <3>2. \E k \in DOMAIN vWorkQueue : vWorkQueue[k] \in Inputs(t)
      BY DEF Range
    <3>3. Settled(t)
      BY <3>1, <3>2 DEF IInv, HandlerOk
    <3>4. ~ \E k \in DOMAIN vWorkQueue : k > i
      BY <2>0, <3>1
    <3>5. Lacks(t) \/ Inputs(t) \cap DialogTx # {}
      BY <3>1, <3>3, <3>4 DEF Settled
    <3> QED BY <3>1, <3>5 DEF Lacks
  <2>2. ASSUME NEW w \in SetToSeqs(WalletTx) \cup {<<>>}, Restart(w) PROVE FALSE
    BY <2>2 DEF Restart, SetOrphans
  <2>3. ASSUME NEW x \in mi, VisitOrphan(x) PROVE FALSE
    <3>1. vWorkQueue' = vWorkQueue \/ vWorkQueue' = Append(vWorkQueue, x)
      BY <2>3 DEF VisitOrphan
    <3>2. Append(vWorkQueue, x) # <<>>
      <4>1. x \in Tx
        BY DEF IInv, HandlerOk
      <4> QED BY <2>0, <4>1
    <3> QED BY <2>0, <3>1, <3>2
  <2>4. CASE NextWork
    BY <2>0, <2>4 DEF NextWork
  <2>5. CASE handler' = handler
    BY <2>0, <2>5 DEF handler
  <2>6. \A b \in Block : ~SetBestChainInner(b) /\ ~Reorganize(b)
    BY DEF SetBestChainInner, Reorganize
  <2>7. \A x \in Tx : ~ReceiveTx(x) /\ ~SendTx(x)
    BY DEF ReceiveTx, SendTx
  <2>8. ASSUME NEW x \in DialogTx, DialogCheck(x) PROVE handler' = handler
    BY <2>8 DEF DialogCheck
  <2>9. DialogInsert => handler' = handler
    BY DEF DialogInsert
  <2>10. UNCHANGED vars => handler' = handler
    BY DEF vars
  <2> QED BY <2>1, <2>2, <2>3, <2>4, <2>5, <2>6, <2>7, <2>8, <2>9, <2>10 DEF Next
<1> HIDE DEF A
<1>2. Spec => [][A]_vars
  BY <1>1, Invariance, PTL DEF Spec
<1> QED BY <1>2 DEF OrphansFollowParents, A

-----------------------------------------------------------------------------
(***************************************************************************)
(* The index is exact.  What a switch does with it depends on the best     *)
(* chain being valid, so the two go together.                              *)
(***************************************************************************)
ChainInv == ValidChain(pindexBest) /\ IndexIsChain

\* At the start no block is connected and the index is empty.
LEMMA InitChain ==
    ASSUME Init
    PROVE  ChainInv
<1>1. Genesis \in Block /\ pindexBest = Genesis /\ txindex = <<>>
  BY BlockAssumption DEF Init
<1>2. ValidChain(pindexBest) /\ Places(pindexBest) = {}
  BY <1>1, ValidStep, PlacesStep
<1>3. IndexOf({}) = [t \in {} |-> t]
  BY DEF IndexOf
<1>4. <<>> = [t \in {} |-> t]
  OBVIOUS
<1> QED BY <1>1, <1>2, <1>3, <1>4 DEF ChainInv, IndexIsChain

\* A block that connects makes a valid chain longer, and the index with it.
LEMMA ConnectedChain ==
    ASSUME PoolInv, ChainInv, NEW b \in Block, SetBestChainInner(b)
    PROVE  ChainInv'
<1> DEFINE s0 == TxnBegin(txindex)
           s  == ConnectBlock(s0, b)
<1>1. /\ b # Genesis /\ Parent[b] = pindexBest
      /\ s.ok /\ txindex' = TxnCommit(s) /\ pindexBest' = b
  BY DEF SetBestChainInner
<1>2. BatchType(s0) /\ s0.ok
  BY TxnBeginFacts DEF PoolInv
<1>3. txindex = [x \in DOMAIN txindex |-> txindex[x]]
  BY DEF ChainInv, IndexIsChain, IndexOf
<1>4. TxnCommit(s0) = IndexOf(Places(Parent[b]))
  <2>1. TxnCommit(s0) = txindex
    BY <1>3, ViewBegin
  <2> QED BY <1>1, <2>1 DEF ChainInv, IndexIsChain
<1> HIDE DEF s0
<1>5. ValidChain(Parent[b])
  BY <1>1 DEF ChainInv
<1>6. (s.ok <=> ValidChain(b)) /\ (s.ok => TxnCommit(s) = IndexOf(Places(b)))
  BY <1>1, <1>2, <1>4, <1>5, ConnectBlockView
<1> HIDE DEF s
<1>7. ValidChain(pindexBest') /\ txindex' = IndexOf(Places(pindexBest'))
  BY <1>1, <1>6
<1> QED BY <1>7 DEF ChainInv, IndexIsChain

\* A switch of branches leads from one valid chain to another.
LEMMA SwitchedChain ==
    ASSUME PoolInv, ChainInv, NEW b \in Block, Reorganize(b)
    PROVE  ChainInv'
<1> DEFINE s == Switch(txindex, pindexBest, b)
<1>1. s.ok /\ txindex' = TxnCommit(s) /\ pindexBest' = b
  BY DEF Reorganize
<1>2. /\ pindexBest \in Block /\ ValidChain(pindexBest)
      /\ IndexType(txindex) /\ txindex = IndexOf(Places(pindexBest))
  BY DEF PoolInv, ChainInv, IndexIsChain
<1>3. (s.ok <=> ValidChain(b)) /\ (s.ok => TxnCommit(s) = IndexOf(Places(b)))
  BY <1>2, SwitchIsExact
<1> HIDE DEF s
<1>4. ValidChain(pindexBest') /\ txindex' = IndexOf(Places(pindexBest'))
  BY <1>1, <1>3
<1> QED BY <1>4 DEF ChainInv, IndexIsChain

\* Nothing else touches the best block or the index.
LEMMA ChainStep ==
    ASSUME IInv, ChainInv, [Next]_vars
    PROVE  ChainInv'
<1>0. PoolInv
  BY DEF IInv
<1>a. ASSUME UNCHANGED chain PROVE ChainInv'
  <2>1. pindexBest' = pindexBest /\ txindex' = txindex
    BY <1>a DEF chain
  <2> QED BY <2>1 DEF ChainInv, IndexIsChain
<1>1. ASSUME NEW t \in Tx, ReceiveTx(t) PROVE ChainInv'
  BY <1>1, <1>a DEF ReceiveTx
<1>2. ASSUME NEW t \in mi, VisitOrphan(t) PROVE ChainInv'
  BY <1>2, <1>a DEF VisitOrphan
<1>3. CASE NextWork
  BY <1>3, <1>a DEF NextWork
<1>4. CASE EraseOrphans
  BY <1>4, <1>a DEF EraseOrphans
<1>5. ASSUME NEW t \in Tx, SendTx(t) PROVE ChainInv'
  BY <1>5, <1>a DEF SendTx
<1>6. ASSUME NEW t \in DialogTx, DialogCheck(t) PROVE ChainInv'
  BY <1>6, <1>a DEF DialogCheck
<1>7. CASE DialogInsert
  BY <1>7, <1>a DEF DialogInsert
<1>8. ASSUME NEW b \in Block, SetBestChainInner(b) PROVE ChainInv'
  BY <1>0, <1>8, ConnectedChain
<1>9. ASSUME NEW b \in Block, Reorganize(b) PROVE ChainInv'
  BY <1>0, <1>9, SwitchedChain
<1>10. ASSUME NEW w \in SetToSeqs(WalletTx) \cup {<<>>}, Restart(w) PROVE ChainInv'
  BY <1>10, <1>a DEF Restart
<1>11. CASE UNCHANGED vars
  BY <1>11, <1>a DEF vars
<1> QED BY <1>1, <1>2, <1>3, <1>4, <1>5, <1>6, <1>7, <1>8, <1>9, <1>10, <1>11 DEF Next

\* The best chain is valid and the index is that of the best chain.
LEMMA ChainInvariance == Spec => [](IInv /\ ChainInv)
<1>1. Init => IInv /\ ChainInv
  BY InitIInv, InitChain
<1>2. IInv /\ ChainInv /\ [Next]_vars => ChainInv'
  BY ChainStep
<1>3. IInv /\ [Next]_vars => IInv'
  BY PoolStep, OrphanStep, HandlerStep DEF IInv
<1> QED BY <1>1, <1>2, <1>3, PTL DEF Spec

\* After any sequence of blocks, switches and restarts the index is, to the
\* last position and spender, the one of the best chain.
THEOREM IndexIsExact == Spec => []IndexIsChain
<1>1. IInv /\ ChainInv => IndexIsChain
  BY DEF ChainInv
<1> QED BY <1>1, ChainInvariance, PTL

\* Reorganize succeeds for a branch whose transactions are all right, and for
\* no other, from every state the node reaches.
THEOREM SwitchIsDecidedByBranch == Spec => []SwitchDependsOnBranchOnly
<1>1. IInv /\ ChainInv => SwitchDependsOnBranchOnly
  <2> SUFFICES ASSUME IInv, ChainInv, NEW b \in Block
               PROVE  Switch(txindex, pindexBest, b).ok <=> ValidChain(b)
    BY DEF SwitchDependsOnBranchOnly
  <2>1. /\ pindexBest \in Block /\ ValidChain(pindexBest)
        /\ IndexType(txindex) /\ txindex = IndexOf(Places(pindexBest))
    BY DEF IInv, PoolInv, ChainInv, IndexIsChain
  <2> QED BY <2>1, SwitchIsExact
<1> QED BY <1>1, ChainInvariance, PTL

-----------------------------------------------------------------------------
(***************************************************************************)
(* A block assembled from the pool.  CreateNewBlock and ConnectBlock walk  *)
(* over the same transactions with different maps: the first with the      *)
(* records of what it has taken over the index, at the height of the best  *)
(* block; the second with the queue of a batch, one height further, and    *)
(* with the coinstake in front.  The two maps agree but for what the       *)
(* coinstake spends.                                                       *)
(***************************************************************************)

\* Nothing lies over a map.
LEMMA OverNothing ==
    ASSUME NEW V, V = [x \in DOMAIN V |-> V[x]]
    PROVE  Over(<<>>, V) = V
<1> DEFINE w == Over(<<>>, V)
<1>1. w = [x \in DOMAIN w |-> w[x]]
  BY DEF Over
<1>2. DOMAIN w = DOMAIN <<>> \cup DOMAIN V /\ \A x \in DOMAIN V \ DOMAIN <<>> : w[x] = V[x]
  BY ONLY OverFacts
<1>3. DOMAIN <<>> = {}
  OBVIOUS
<1> HIDE DEF w
<1>4. w = V
  BY <1>1, <1>2, <1>3, SameMap
<1> QED BY <1>4 DEF w

\* The fields of a record with outputs marked.
LEMMA MarkedFields ==
    ASSUME NEW x, NEW r \in TxIndexRecord(x), NEW t, NEW pos
    PROVE  LET m == MarkSpent(r, x, t, pos) IN
           /\ m.pos = r.pos /\ DOMAIN m.vSpent = DOMAIN r.vSpent
           /\ \A n \in DOMAIN r.vSpent : /\ <<x, n>> \in Vin[t] => m.vSpent[n] = pos
                                         /\ <<x, n>> \notin Vin[t] => m.vSpent[n] = r.vSpent[n]
<1> DEFINE a == r.pos
           v == r.vSpent
           w == [n \in DOMAIN v |-> IF <<x, n>> \in Vin[t] THEN pos ELSE v[n]]
<1>1. r = [pos |-> a, vSpent |-> v]
  BY DEF TxIndexRecord
<1> HIDE DEF a, v
<1>2. MarkSpent([pos |-> a, vSpent |-> v], x, t, pos) = [pos |-> a, vSpent |-> w]
  BY ONLY MarkSpentFacts
<1>3. /\ DOMAIN w = DOMAIN v
      /\ \A n \in DOMAIN v : /\ <<x, n>> \in Vin[t] => w[n] = pos
                             /\ <<x, n>> \notin Vin[t] => w[n] = v[n]
  OBVIOUS
<1> HIDE DEF w
<1>4. MarkSpent(r, x, t, pos) = [pos |-> a, vSpent |-> w]
  BY <1>1, <1>2
<1> QED BY <1>3, <1>4 DEF a, v

\* The records after a transaction is connected.
LEMMA SpendFacts ==
    ASSUME NEW E, IndexType(E), NEW t \in Tx, NEW b \in Block, Inputs(t) \subseteq DOMAIN E
    PROVE  LET G == Spend(E, t, b) IN
           /\ IndexType(G) /\ DOMAIN G = DOMAIN E \cup {t}
           /\ G[t] = NewRec(t, b)[t]
           /\ \A x \in DOMAIN E \ {t} :
                 /\ x \in Inputs(t) => G[x] = MarkSpent(E[x], x, t, <<b, t>>)
                 /\ x \notin Inputs(t) => G[x] = E[x]
<1> DEFINE M == Marked(E, t, <<b, t>>)
           F == Over(M, E)
           N == NewRec(t, b)
           G == Over(N, F)
<1>1. DOMAIN M = Inputs(t) /\ \A x \in Inputs(t) : M[x] = MarkSpent(E[x], x, t, <<b, t>>)
  BY DEF Marked
<1>2. IndexType(M)
  <2>1. <<b, t>> \in Pos
    BY DEF Pos
  <2>2. \A x \in Inputs(t) : E[x] \in TxIndexRecord(x) /\ x \in Tx
    BY DEF IndexType
  <2> HIDE DEF M
  <2> QED BY <1>1, <2>1, <2>2, MarkSpentType DEF IndexType
<1> HIDE DEF M
<1>3. /\ DOMAIN F = DOMAIN M \cup DOMAIN E /\ IndexType(F)
      /\ \A x \in DOMAIN M : F[x] = M[x]
      /\ \A x \in DOMAIN E \ DOMAIN M : F[x] = E[x]
  <2>1. /\ DOMAIN F = DOMAIN M \cup DOMAIN E
        /\ \A x \in DOMAIN M : F[x] = M[x]
        /\ \A x \in DOMAIN E \ DOMAIN M : F[x] = E[x]
    BY ONLY OverFacts
  <2>2. IndexType(F)
    BY <1>2, OverType
  <2> QED BY <2>1, <2>2
<1>4. IndexType(N) /\ DOMAIN N = {t}
  BY NewRecType
<1> HIDE DEF F, N
<1>5. /\ DOMAIN G = DOMAIN N \cup DOMAIN F /\ IndexType(G)
      /\ \A x \in DOMAIN N : G[x] = N[x]
      /\ \A x \in DOMAIN F \ DOMAIN N : G[x] = F[x]
  <2>1. /\ DOMAIN G = DOMAIN N \cup DOMAIN F
        /\ \A x \in DOMAIN N : G[x] = N[x]
        /\ \A x \in DOMAIN F \ DOMAIN N : G[x] = F[x]
    BY ONLY OverFacts
  <2>2. IndexType(G)
    BY <1>3, <1>4, OverType
  <2> QED BY <2>1, <2>2
<1>6. Spend(E, t, b) = G
  BY DEF Spend, G, F, M, N
<1> HIDE DEF G
<1>7. /\ IndexType(G) /\ DOMAIN G = DOMAIN E \cup {t} /\ G[t] = N[t]
      /\ \A x \in DOMAIN E \ {t} :
            /\ x \in Inputs(t) => G[x] = MarkSpent(E[x], x, t, <<b, t>>)
            /\ x \notin Inputs(t) => G[x] = E[x]
  BY <1>1, <1>3, <1>4, <1>5
<1> QED BY <1>6, <1>7 DEF N

\* F says what E says, but for the outputs in K.
Agree(E, F, K) ==
    /\ DOMAIN E \subseteq DOMAIN F
    /\ \A x \in DOMAIN E :
          /\ F[x].pos = E[x].pos /\ DOMAIN F[x].vSpent = DOMAIN E[x].vSpent
          /\ \A n \in DOMAIN E[x].vSpent :
                <<x, n>> \notin K => F[x].vSpent[n] = E[x].vSpent[n]

\* What connects on E connects on F one height further, unless it spends one of K.
LEMMA AgreeOk ==
    ASSUME NEW E, NEW F, IndexType(E), IndexType(F), NEW K, Agree(E, F, K),
           NEW t \in Tx, Vin[t] \cap K = {}, NEW h \in Nat, OkOn(E, t, h)
    PROVE  OkOn(F, t, h + 1)
<1>1. ASSUME NEW o \in Vin[t]
      PROVE  /\ o[1] \in DOMAIN F /\ o[2] \in DOMAIN F[o[1]].vSpent
             /\ Mature(F[o[1]], o[1], h + 1) /\ F[o[1]].vSpent[o[2]] = NoPos
  <2> DEFINE x == o[1]
             n == o[2]
  <2>1. o = <<x, n>> /\ x \in Inputs(t)
    BY InputsFacts
  <2>2. /\ x \in DOMAIN E /\ n \in DOMAIN E[x].vSpent
        /\ Mature(E[x], x, h) /\ E[x].vSpent[n] = NoPos
    BY <2>1 DEF OkOn, InRange, ConnectInputs
  <2>3. E[x].pos \in Block
    BY <2>2 DEF IndexType, TxIndexRecord
  <2>4. Height(E[x].pos) \in Nat /\ nCoinbaseMaturity \in Nat
    BY <2>3, HeightFacts, TxAssumption
  <2> HIDE DEF x, n
  <2>5. <<x, n>> \notin K
    BY <2>1
  <2>6. /\ x \in DOMAIN F /\ n \in DOMAIN F[x].vSpent /\ F[x].pos = E[x].pos
        /\ F[x].vSpent[n] = NoPos
    BY <2>2, <2>5 DEF Agree
  <2>7. h - Height(E[x].pos) >= nCoinbaseMaturity
          => (h + 1) - Height(E[x].pos) >= nCoinbaseMaturity
    BY <2>4
  <2>8. Mature(F[x], x, h + 1)
    <3>1. x \in CoinBase \cup CoinStake => (h + 1) - Height(E[x].pos) >= nCoinbaseMaturity
      BY <2>2, <2>7 DEF Mature
    <3>2. Height(F[x].pos) = Height(E[x].pos)
      BY <2>6
    <3>3. x \in CoinBase \cup CoinStake => (h + 1) - Height(F[x].pos) >= nCoinbaseMaturity
      BY <2>4, <3>1, <3>2
    <3> QED BY <3>3 DEF Mature
  <2> QED BY <2>6, <2>8 DEF x, n
<1>2. t \notin BadScript
  BY DEF OkOn, ConnectInputs
<1> QED BY <1>1, <1>2 DEF OkOn, InRange, ConnectInputs, Inputs

\* Connecting a transaction on both keeps them so.
LEMMA AgreeStep ==
    ASSUME NEW E, NEW F, IndexType(E), IndexType(F), NEW K, Agree(E, F, K),
           NEW t \in Tx, NEW b \in Block, Inputs(t) \subseteq DOMAIN E
    PROVE  Agree(Spend(E, t, b), Spend(F, t, b), K)
<1> DEFINE G == Spend(E, t, b)
           H == Spend(F, t, b)
           pos == <<b, t>>
<1>0. Inputs(t) \subseteq DOMAIN F
  BY DEF Agree
<1>1. /\ DOMAIN G = DOMAIN E \cup {t} /\ G[t] = NewRec(t, b)[t]
      /\ \A x \in DOMAIN E \ {t} :
            /\ x \in Inputs(t) => G[x] = MarkSpent(E[x], x, t, pos)
            /\ x \notin Inputs(t) => G[x] = E[x]
  BY SpendFacts
<1>2. /\ DOMAIN H = DOMAIN F \cup {t} /\ H[t] = NewRec(t, b)[t]
      /\ \A x \in DOMAIN F \ {t} :
            /\ x \in Inputs(t) => H[x] = MarkSpent(F[x], x, t, pos)
            /\ x \notin Inputs(t) => H[x] = F[x]
  BY <1>0, SpendFacts
<1> HIDE DEF G, H, pos
<1>3. ASSUME NEW x \in DOMAIN G
      PROVE  /\ H[x].pos = G[x].pos /\ DOMAIN H[x].vSpent = DOMAIN G[x].vSpent
             /\ \A n \in DOMAIN G[x].vSpent :
                   <<x, n>> \notin K => H[x].vSpent[n] = G[x].vSpent[n]
  <2>1. CASE x = t
    BY <1>1, <1>2, <2>1
  <2>2. CASE x # t
    <3>1. /\ x \in DOMAIN E /\ x \in DOMAIN F
          /\ F[x].pos = E[x].pos /\ DOMAIN F[x].vSpent = DOMAIN E[x].vSpent
          /\ \A n \in DOMAIN E[x].vSpent :
                <<x, n>> \notin K => F[x].vSpent[n] = E[x].vSpent[n]
      BY <1>1, <2>2 DEF Agree
    <3>2. CASE x \notin Inputs(t)
      BY <1>1, <1>2, <2>2, <3>1, <3>2
    <3>3. CASE x \in Inputs(t)
      <4> DEFINE e == E[x]
                 f == F[x]
                 m == MarkSpent(e, x, t, pos)
                 k == MarkSpent(f, x, t, pos)
      <4>1. G[x] = m /\ H[x] = k
        BY <1>1, <1>2, <2>2, <3>1, <3>3
      <4>2. e \in TxIndexRecord(x) /\ f \in TxIndexRecord(x)
        BY <3>1 DEF IndexType
      <4>3. /\ f.pos = e.pos /\ DOMAIN f.vSpent = DOMAIN e.vSpent
            /\ \A n \in DOMAIN e.vSpent : <<x, n>> \notin K => f.vSpent[n] = e.vSpent[n]
        BY <3>1
      <4> HIDE DEF e, f
      <4>4. /\ m.pos = e.pos /\ DOMAIN m.vSpent = DOMAIN e.vSpent
            /\ \A n \in DOMAIN e.vSpent :
                  /\ <<x, n>> \in Vin[t] => m.vSpent[n] = pos
                  /\ <<x, n>> \notin Vin[t] => m.vSpent[n] = e.vSpent[n]
        BY <4>2, MarkedFields
      <4>5. /\ k.pos = f.pos /\ DOMAIN k.vSpent = DOMAIN f.vSpent
            /\ \A n \in DOMAIN f.vSpent :
                  /\ <<x, n>> \in Vin[t] => k.vSpent[n] = pos
                  /\ <<x, n>> \notin Vin[t] => k.vSpent[n] = f.vSpent[n]
        BY <4>2, MarkedFields
      <4> HIDE DEF m, k
      <4> QED BY <4>1, <4>3, <4>4, <4>5
    <3> QED BY <3>2, <3>3
  <2> QED BY <2>1, <2>2
<1>4. DOMAIN G \subseteq DOMAIN H
  BY <1>1, <1>2 DEF Agree
<1> QED BY <1>3, <1>4 DEF Agree, G, H

\* What V has spent is spent in E.
StillSpent(V, E) ==
    \A x \in DOMAIN V :
        /\ x \in DOMAIN E
        /\ \A n \in DOMAIN E[x].vSpent : E[x].vSpent[n] = NoPos => V[x].vSpent[n] = NoPos

\* It stays spent when a transaction is connected that V does not have.
LEMMA StillSpentStep ==
    ASSUME NEW V, NEW E, IndexType(E), StillSpent(V, E),
           NEW t \in Tx \ DOMAIN V, NEW b \in Block, Inputs(t) \subseteq DOMAIN E
    PROVE  StillSpent(V, Spend(E, t, b))
<1> DEFINE G == Spend(E, t, b)
           pos == <<b, t>>
<1>1. /\ DOMAIN G = DOMAIN E \cup {t}
      /\ \A x \in DOMAIN E \ {t} :
            /\ x \in Inputs(t) => G[x] = MarkSpent(E[x], x, t, pos)
            /\ x \notin Inputs(t) => G[x] = E[x]
  BY SpendFacts
<1>2. pos # NoPos
  BY DEF NoPos
<1> HIDE DEF G, pos
<1>3. ASSUME NEW x \in DOMAIN V
      PROVE  /\ x \in DOMAIN G
             /\ \A n \in DOMAIN G[x].vSpent : G[x].vSpent[n] = NoPos => V[x].vSpent[n] = NoPos
  <2>1. /\ x \in DOMAIN E /\ x # t
        /\ \A n \in DOMAIN E[x].vSpent : E[x].vSpent[n] = NoPos => V[x].vSpent[n] = NoPos
    BY DEF StillSpent
  <2>2. CASE x \notin Inputs(t)
    BY <1>1, <2>1, <2>2
  <2>3. CASE x \in Inputs(t)
    <3> DEFINE e == E[x]
               m == MarkSpent(e, x, t, pos)
    <3>1. G[x] = m
      BY <1>1, <2>1, <2>3
    <3>2. /\ e \in TxIndexRecord(x)
          /\ \A n \in DOMAIN e.vSpent : e.vSpent[n] = NoPos => V[x].vSpent[n] = NoPos
      BY <2>1 DEF IndexType
    <3> HIDE DEF e
    <3>3. /\ DOMAIN m.vSpent = DOMAIN e.vSpent
          /\ \A n \in DOMAIN e.vSpent : /\ <<x, n>> \in Vin[t] => m.vSpent[n] = pos
                                        /\ <<x, n>> \notin Vin[t] => m.vSpent[n] = e.vSpent[n]
      BY <3>2, MarkedFields
    <3> HIDE DEF m
    <3>4. \A n \in DOMAIN m.vSpent : m.vSpent[n] = NoPos => V[x].vSpent[n] = NoPos
      BY <1>2, <3>2, <3>3
    <3> QED BY <1>1, <2>1, <3>1, <3>4
  <2> QED BY <2>2, <2>3
<1> QED BY <1>3 DEF StillSpent, G

\* A transaction of the chain does not connect again: what it spends is spent.
LEMMA NotTwice ==
    ASSUME PoolInv, ChainInv, NEW E, IndexType(E), StillSpent(txindex, E),
           NEW t \in Tx \ CoinBase, NEW h, OkOn(E, t, h)
    PROVE  t \notin DOMAIN txindex
<1> DEFINE S == Places(pindexBest)
<1>1. Proper(S)
  BY ValidIsProper DEF PoolInv, ChainInv
<1>2. txindex = IndexOf(S)
  BY DEF ChainInv, IndexIsChain
<1> HIDE DEF S
<1> SUFFICES ASSUME t \in DOMAIN txindex PROVE FALSE
  OBVIOUS
<1>3. PICK p \in S : TxAt(p) = t
  <2>1. DOMAIN IndexOf(S) = {TxAt(p) : p \in S}
    BY <1>1, IndexOfFacts
  <2> QED BY <1>2, <2>1
<1>4. PICK o \in Vin[t] : TRUE
  BY TxAssumption
<1>5. PICK q \in S : TxAt(q) = o[1]
  BY <1>1, <1>3 DEF Proper
<1> DEFINE x == o[1]
           n == o[2]
<1>6. x \in DOMAIN E /\ n \in DOMAIN E[x].vSpent /\ E[x].vSpent[n] = NoPos
  BY InputsFacts DEF OkOn, InRange, ConnectInputs
<1>7. n \in 1 .. Vout[x]
  BY <1>6 DEF IndexType, TxIndexRecord
<1>8. /\ x \in DOMAIN txindex
      /\ n \in 1 .. Vout[x] =>
           (txindex[x].vSpent[n] = NoPos <=> \A y \in S : o \notin Vin[TxAt(y)])
  BY <1>1, <1>2, <1>5, InputRecord
<1> HIDE DEF x, n
<1>9. txindex[x].vSpent[n] = NoPos
  BY <1>6, <1>8 DEF StillSpent
<1> QED BY <1>3, <1>7, <1>8, <1>9

-----------------------------------------------------------------------------
\* The loop of CreateNewBlock.
AddBody(p, r, t) == AddToBlock(r, t)
AddLoop == INSTANCE FoldFacts WITH op <- AddBody

AddSteps(acc, order) ==
    /\ acc[0] = <<<<>>, <<>>>>
    /\ \A n \in 0 .. Len(order) - 1 : acc[n + 1] = AddToBlock(acc[n], order[n + 1])

\* The loop over the transactions of the pool.
LEMMA CreateSteps ==
    ASSUME NEW order, order \in Seq(Tx)
    PROVE  \E acc : AddSteps(acc, order) /\ CreateNewBlock(order) = acc[Len(order)][1]
<1>1. CreateNewBlock(order) = AddLoop!Fold(0, <<<<>>, <<>>>>, order)[1]
  BY DEF CreateNewBlock, FoldLeft, MapThenFoldSet, Max, AddLoop!Fold, AddLoop!Largest, AddBody
<1> QED BY <1>1, AddLoop!FoldSteps DEF AddSteps, AddLoop!Accumulates, AddBody

\* One transaction is taken when it connects on the records so far, and enters
\* them as it would enter the queue of a block.
AddedView(u, r, t) ==
    LET E == Over(r[2], txindex)
        taken == t \notin LowFee /\ OkOn(E, t, Height(pindexBest))
    IN  /\ ~taken => u = r
        /\ taken => /\ u[1] = Append(r[1], t) /\ IndexType(u[2])
                    /\ Over(u[2], txindex) = Spend(E, t, pindexBest)

LEMMA AddToBlockView ==
    ASSUME PoolInv, NEW r, IndexType(r[2]), NEW t \in Tx
    PROVE  AddedView(AddToBlock(r, t), r, t)
<1> DEFINE q == r[2]
           b == pindexBest
           E == Over(q, txindex)
           rec == [p \in Inputs(t) |-> IF p \in DOMAIN q THEN q[p] ELSE txindex[p]]
           found == \A p \in Inputs(t) : p \in DOMAIN txindex \cup DOMAIN q
           ok  == /\ found
                  /\ t \notin LowFee /\ InRange(rec, t)
                  /\ ConnectInputs(rec, t, Height(b))
           new == [p \in Inputs(t) |-> MarkSpent(rec[p], p, t, <<b, t>>)]
           g == Over(NewRec(t, b), Over(new, q))
           u == AddToBlock(r, t)
<1>1. u = IF ok THEN <<Append(r[1], t), g>> ELSE r
  BY DEF AddToBlock
<1>2. new = Marked(rec, t, <<b, t>>)
  BY DEF Marked
<1>3. /\ DOMAIN E = DOMAIN q \cup DOMAIN txindex
      /\ \A p \in DOMAIN q : E[p] = q[p]
      /\ \A p \in DOMAIN txindex \ DOMAIN q : E[p] = txindex[p]
  BY ONLY OverFacts
<1>4. IndexType(E) /\ b \in Block
  BY OverType DEF PoolInv
<1> HIDE DEF E, b
<1>5. found <=> Inputs(t) \subseteq DOMAIN E
  BY <1>3
<1>6. ASSUME found PROVE \A p \in Inputs(t) : rec[p] = E[p]
  BY <1>3, <1>6
<1> HIDE DEF rec, new, found
<1>7. ASSUME found
      PROVE  /\ InRange(rec, t) <=> InRange(E, t)
             /\ ConnectInputs(rec, t, Height(b)) <=> ConnectInputs(E, t, Height(b))
             /\ new = Marked(E, t, <<b, t>>)
  BY <1>2, <1>6, <1>7, SameInputs
<1>8. (ok <=> t \notin LowFee /\ OkOn(E, t, Height(b))) /\ (ok => found)
  BY <1>5, <1>7 DEF OkOn
<1> HIDE DEF ok
<1>9. ASSUME ok PROVE IndexType(g)
  <2>1. \A p \in Inputs(t) : E[p] \in TxIndexRecord(p) /\ p \in Tx
    BY <1>4, <1>5, <1>8, <1>9 DEF IndexType
  <2>2. <<b, t>> \in Pos
    BY <1>4 DEF Pos
  <2>3. IndexType(Marked(E, t, <<b, t>>))
    BY <2>1, <2>2, MarkSpentType DEF IndexType, Marked
  <2>4. IndexType(new)
    BY <1>7, <1>8, <1>9, <2>3
  <2>5. IndexType(Over(new, q))
    BY <2>4, OverType
  <2>6. IndexType(NewRec(t, b))
    BY <1>4, NewRecType
  <2> QED BY <2>5, <2>6, OverType
<1>10. ASSUME ok PROVE Over(g, txindex) = Spend(E, t, b)
  <2>1. Over(g, txindex) = Over(NewRec(t, b), Over(Over(new, q), txindex))
    BY ONLY OverAssociates
  <2>2. Over(Over(new, q), txindex) = Over(new, Over(q, txindex))
    BY ONLY OverAssociates
  <2> HIDE DEF g
  <2> QED BY <1>7, <1>8, <1>10, <2>1, <2>2 DEF Spend, E
<1> HIDE DEF g
<1>11. (~ok => u = r) /\ (ok => u[1] = Append(r[1], t) /\ u[2] = g)
  BY <1>1
<1> HIDE DEF u
<1> QED BY <1>8, <1>9, <1>10, <1>11 DEF u, E, b, AddedView

\* The queue of a block begins empty ...
LEMMA QueuedNothing ==
    ASSUME NEW s, NEW b, NEW h
    PROVE  QueuedChanges(s, b, h, <<>>) = <<TRUE, <<>>>>
<1>1. <<>> \in Seq(Tx) /\ Len(<<>>) = 0
  OBVIOUS
<1>2. PICK f : QueuedSteps(f, s, b, h, <<>>)
  BY <1>1, QueuedChangesSteps
<1>3. QueuedChanges(s, b, h, <<>>) = f[Len(<<>>)] /\ f[0] = <<TRUE, <<>>>>
  BY <1>2, Zenon DEF QueuedSteps
<1> QED BY <1>1, <1>3

\* ... and each transaction extends it.
LEMMA QueuedMore ==
    ASSUME NEW s, NEW b, NEW h, NEW v \in Seq(Tx), NEW t \in Tx
    PROVE  QueuedChanges(s, b, h, Append(v, t)) = ConnectTx(s, b, h, QueuedChanges(s, b, h, v), t)
<1> DEFINE N == Len(v)
           w == Append(v, t)
<1>2. /\ N \in Nat /\ w \in Seq(Tx) /\ Len(w) = N + 1 /\ w[N + 1] = t
      /\ \A k \in 1..N : w[k] = v[k]
  OBVIOUS
<1>3. PICK f : QueuedSteps(f, s, b, h, v)
  BY QueuedChangesSteps
<1>4. PICK g : QueuedSteps(g, s, b, h, w)
  BY <1>2, QueuedChangesSteps
<1> HIDE DEF N, w
<1> DEFINE S == {n \in 0..N : f[n] = g[n]}
<1>5. 0 \in S
  <2>1. f[0] = <<TRUE, <<>>>> /\ g[0] = <<TRUE, <<>>>>
    BY <1>3, <1>4, Zenon DEF QueuedSteps
  <2>2. 0 \in 0..N
    BY <1>2
  <2> QED BY <2>1, <2>2
<1>6. ASSUME NEW n \in 0 .. N - 1, n \in S PROVE n + 1 \in S
  <2>1. n + 1 \in 0..N /\ n + 1 \in 1..N /\ n \in 0 .. (N + 1) - 1
    BY <1>2
  <2>2. f[n + 1] = ConnectTx(s, b, h, f[n], v[n + 1])
    BY <1>3 DEF QueuedSteps, N
  <2>3. g[n + 1] = ConnectTx(s, b, h, g[n], w[n + 1])
    BY <1>2, <1>4, <2>1 DEF QueuedSteps
  <2>4. f[n] = g[n] /\ w[n + 1] = v[n + 1]
    BY <1>2, <1>6, <2>1
  <2> QED BY <2>1, <2>2, <2>3, <2>4
<1> HIDE DEF S
<1>7. N \in S
  BY <1>2, <1>5, <1>6, CountUp
<1>8. f[N] = g[N]
  BY <1>7 DEF S
<1>9. QueuedChanges(s, b, h, v) = f[N]
  BY <1>3 DEF QueuedSteps, N
<1>10. QueuedChanges(s, b, h, w) = ConnectTx(s, b, h, g[N], w[N + 1])
  <2>1. N \in 0 .. (N + 1) - 1
    BY <1>2
  <2> QED BY <1>2, <1>4, <2>1 DEF QueuedSteps
<1> QED BY <1>2, <1>8, <1>9, <1>10 DEF w

\* The block so far connects behind w, if it spends nothing of K, and the two
\* maps agree.
Ahead(r, w, K) ==
    LET c == QueuedChanges(TxnBegin(txindex), pindexBest, Height(pindexBest) + 1, w \o r[1])
    IN  (\A j \in DOMAIN r[1] : Vin[r[1][j]] \cap K = {}) =>
            /\ QueuedType(c) /\ c[1]
            /\ Agree(Over(r[2], txindex), Over(c[2], txindex), K)

Assembled(r, w, K) ==
    /\ r[1] \in Seq(Tx) /\ IndexType(r[2])
    /\ StillSpent(txindex, Over(r[2], txindex))
    /\ Ahead(r, w, K)

\* The next transaction keeps it so, whether it is taken or not.
LEMMA AssembledStep ==
    ASSUME PoolInv, ChainInv, NEW w \in Seq(Tx), NEW K, NEW r, Assembled(r, w, K),
           NEW t \in Tx \ CoinBase
    PROVE  Assembled(AddToBlock(r, t), w, K)
<1> DEFINE u == AddToBlock(r, t)
           s == TxnBegin(txindex)
           b == pindexBest
           h == Height(b)
           E == Over(r[2], txindex)
           v == w \o r[1]
           c == QueuedChanges(s, b, h + 1, v)
           d == QueuedChanges(s, b, h + 1, w \o u[1])
           G == Over(u[2], txindex)
           F == Over(c[2], txindex)
           H == Over(d[2], txindex)
           Free(x) == \A j \in DOMAIN x : Vin[x[j]] \cap K = {}
<1>1. b \in Block /\ IndexType(txindex) /\ h \in Nat
  BY HeightFacts DEF PoolInv
<1>2. /\ r[1] \in Seq(Tx) /\ IndexType(r[2]) /\ StillSpent(txindex, E) /\ v \in Seq(Tx)
      /\ Free(r[1]) => QueuedType(c) /\ c[1] /\ Agree(E, F, K)
  BY DEF Assembled, Ahead
<1>3. IndexType(E)
  BY <1>1, <1>2, OverType
<1>4. AddedView(u, r, t)
  BY <1>2, AddToBlockView
<1> HIDE DEF u
<1>5. CASE ~(t \notin LowFee /\ OkOn(E, t, h))
  <2>1. u = r
    BY <1>4, <1>5 DEF AddedView
  <2> QED BY <2>1 DEF u
<1>6. CASE t \notin LowFee /\ OkOn(E, t, h)
  <2>1. u[1] = Append(r[1], t) /\ IndexType(u[2]) /\ G = Spend(E, t, b)
    BY <1>4, <1>6 DEF AddedView
  <2>2. Inputs(t) \subseteq DOMAIN E
    BY <1>6 DEF OkOn
  <2>3. BatchType(s)
    BY <1>1, TxnBeginFacts
  <2>4. TxnCommit(s) = txindex
    <3>1. txindex = [x \in DOMAIN txindex |-> txindex[x]]
      BY DEF ChainInv, IndexIsChain, IndexOf
    <3> QED BY <3>1, ViewBegin
  <2>5. d = ConnectTx(s, b, h + 1, c, t)
    <3>1. w \o u[1] = Append(v, t)
      <4> DEFINE a == r[1]
                 l == <<t>>
      <4>1. Append(a, t) = a \o l /\ Append(v, t) = v \o l
        BY <1>2, AppendIsConcat
      <4>2. a \in Seq(Tx) /\ l \in Seq(Tx)
        BY <1>2
      <4> HIDE DEF a, l
      <4>3. (w \o a) \o l = w \o (a \o l)
        BY <4>2, ConcatAssociative
      <4> QED BY <2>1, <4>1, <4>3 DEF a
    <3> HIDE DEF s, v
    <3>2. QueuedChanges(s, b, h + 1, Append(v, t)) = ConnectTx(s, b, h + 1, c, t)
      BY <1>2, QueuedMore
    <3> QED BY <3>1, <3>2
  <2>6. t \notin DOMAIN txindex
    BY <1>2, <1>3, <1>6, NotTwice
  <2> HIDE DEF s, b, h, E, v, c, d, G, F, H
  <2>7. StillSpent(txindex, G)
    BY <1>1, <1>2, <1>3, <2>1, <2>2, <2>6, StillSpentStep
  <2>8. u[1] \in Seq(Tx)
    BY <1>2, <2>1
  <2>9. ASSUME Free(u[1])
        PROVE  QueuedType(d) /\ d[1] /\ Agree(G, H, K)
    <3>1. Free(r[1]) /\ Vin[t] \cap K = {}
      <4>1. /\ Len(r[1]) \in Nat /\ DOMAIN r[1] = 1 .. Len(r[1])
            /\ DOMAIN u[1] = 1 .. Len(r[1]) + 1 /\ u[1][Len(r[1]) + 1] = t
            /\ \A j \in DOMAIN r[1] : u[1][j] = r[1][j]
        BY <1>2, <2>1
      <4>2. DOMAIN r[1] \subseteq DOMAIN u[1] /\ Len(r[1]) + 1 \in DOMAIN u[1]
        BY <4>1
      <4> QED BY <2>9, <4>1, <4>2
    <3>2. QueuedType(c) /\ c[1] /\ Agree(E, F, K)
      BY <1>2, <3>1
    <3>3. IndexType(F)
      <4>1. IndexType(c[2])
        BY <3>2 DEF QueuedType
      <4> QED BY <1>1, <4>1, OverType DEF F
    <3>4. QueuedType(d)
      BY <1>1, <2>3, <2>5, <3>2, ConnectTxFacts
    <3>5. ConnectedView(d, s, b, h + 1, c, t)
      <4>1. ConnectedView(ConnectTx(s, b, h + 1, c, t), s, b, h + 1, c, t)
        BY <1>1, <2>3, <3>2, ConnectTxView
      <4> QED BY <2>5, <4>1
    <3>6. /\ d[1] <=> c[1] /\ NoOverwrite(s, t) /\ OkOn(F, t, h + 1)
          /\ d[1] => H = Spend(F, t, b)
      BY <2>4, <3>5 DEF ConnectedView, F, H
    <3>7. NoOverwrite(s, t)
      <4>1. ~HasTxIndex(s, t)
        BY <2>3, <2>4, <2>6, ViewRead
      <4> QED BY <4>1 DEF NoOverwrite
    <3>8. OkOn(F, t, h + 1)
      BY <1>1, <1>3, <1>6, <3>1, <3>2, <3>3, AgreeOk
    <3>9. d[1] /\ H = Spend(F, t, b)
      BY <3>2, <3>6, <3>7, <3>8
    <3>10. Agree(Spend(E, t, b), Spend(F, t, b), K)
      BY <1>1, <1>3, <2>2, <3>2, <3>3, AgreeStep
    <3> QED BY <2>1, <3>4, <3>9, <3>10
  <2> QED BY <2>1, <2>7, <2>8, <2>9 DEF Assembled, Ahead, d, G, H, s, b, h, u
<1> QED BY <1>5, <1>6

\* After any number of transactions of the pool, in any order.
LEMMA AssembledAll ==
    ASSUME PoolInv, ChainInv, NEW w \in Seq(Tx), NEW K, Assembled(<<<<>>, <<>>>>, w, K),
           NEW order \in Seq(mapTx), NEW acc, AddSteps(acc, order)
    PROVE  Assembled(acc[Len(order)], w, K)
<1> DEFINE S == {n \in 0 .. Len(order) : Assembled(acc[n], w, K)}
<1>1. Len(order) \in Nat /\ \A n \in 0 .. Len(order) - 1 : order[n + 1] \in Tx \ CoinBase
  <2>1. mapTx \subseteq Tx \ CoinBase
    BY DEF PoolInv, PoolOk, pool, Loose
  <2> QED BY <2>1
<1>2. 0 \in S
  <2>1. acc[0] = <<<<>>, <<>>>>
    BY Zenon DEF AddSteps
  <2>2. Assembled(acc[0], w, K)
    BY <2>1, Zenon
  <2> QED BY <1>1, <2>2
<1>3. ASSUME NEW n \in 0 .. Len(order) - 1, n \in S PROVE n + 1 \in S
  <2>1. Assembled(acc[n], w, K)
    BY <1>3
  <2>2. acc[n + 1] = AddToBlock(acc[n], order[n + 1])
    BY DEF AddSteps
  <2>3. Assembled(AddToBlock(acc[n], order[n + 1]), w, K)
    BY <1>1, <2>1, AssembledStep
  <2> QED BY <1>1, <2>2, <2>3
<1> HIDE DEF S
<1>4. Len(order) \in S
  BY <1>1, <1>2, <1>3, CountUp
<1> QED BY <1>4 DEF S

\* Nothing is taken yet: behind nothing, the two maps are the index ...
LEMMA AssembledEmpty ==
    ASSUME PoolInv, ChainInv
    PROVE  Assembled(<<<<>>, <<>>>>, <<>>, {})
<1> DEFINE r == <<<<>>, <<>>>>
           c == QueuedChanges(TxnBegin(txindex), pindexBest, Height(pindexBest) + 1, <<>>)
<1>1. r[1] = <<>> /\ r[2] = <<>> /\ IndexType(<<>>) /\ <<>> \in Seq(Tx) /\ <<>> \o <<>> = <<>>
  BY DEF IndexType
<1>2. txindex = [x \in DOMAIN txindex |-> txindex[x]]
  BY DEF ChainInv, IndexIsChain, IndexOf
<1>3. Over(<<>>, txindex) = txindex
  BY <1>2, OverNothing
<1>4. c = <<TRUE, <<>>>>
  BY QueuedNothing
<1> HIDE DEF r, c
<1>5. QueuedType(c) /\ c[1] = TRUE /\ c[2] = <<>>
  BY <1>1, <1>4 DEF QueuedType
<1>6. StillSpent(txindex, txindex) /\ Agree(txindex, txindex, {})
  BY DEF StillSpent, Agree
<1>7. Ahead(r, <<>>, {})
  BY <1>1, <1>3, <1>5, <1>6 DEF Ahead, c
<1> QED BY <1>1, <1>3, <1>6, <1>7 DEF Assembled, r

\* ... and behind a coinstake that connects they differ by what it spends.
LEMMA AssembledStake ==
    ASSUME PoolInv, ChainInv, NEW k \in CoinStake, Connects(<<k>>)
    PROVE  Assembled(<<<<>>, <<>>>>, <<k>>, Vin[k])
<1> DEFINE r == <<<<>>, <<>>>>
           s == TxnBegin(txindex)
           b == pindexBest
           h == Height(b)
           z == <<TRUE, <<>>>>
           c == QueuedChanges(s, b, h + 1, <<k>>)
           H == Over(c[2], txindex)
           pos == <<b, k>>
<1>1. /\ r[1] = <<>> /\ r[2] = <<>> /\ IndexType(<<>>) /\ <<>> \in Seq(Tx)
      /\ z[1] = TRUE /\ z[2] = <<>> /\ z = <<z[1], z[2]>>
  BY DEF IndexType
<1>2. k \in Tx \ CoinBase /\ <<k>> \o <<>> = <<k>> /\ Append(<<>>, k) = <<k>>
  BY TxAssumption
<1>3. txindex = [x \in DOMAIN txindex |-> txindex[x]]
  BY DEF ChainInv, IndexIsChain, IndexOf
<1>4. Over(<<>>, txindex) = txindex
  BY <1>3, OverNothing
<1>5. b \in Block /\ IndexType(txindex) /\ BatchType(s)
  BY TxnBeginFacts DEF PoolInv
<1>6. TxnCommit(s) = txindex
  BY <1>3, ViewBegin
<1>7. c[1]
  BY DEF Connects
<1> HIDE DEF r, s, b, h
<1>8. c = ConnectTx(s, b, h + 1, z, k)
  <2> DEFINE e == <<>>
             g == h + 1
  <2>1. QueuedChanges(s, b, g, e) = z /\ e \in Seq(Tx) /\ k \in Tx
    BY <1>1, <1>2, QueuedNothing
  <2>2. Append(e, k) = <<k>>
    BY <1>2
  <2> HIDE DEF z, e, g
  <2>3. QueuedChanges(s, b, g, Append(e, k)) = ConnectTx(s, b, g, QueuedChanges(s, b, g, e), k)
    BY <2>1, QueuedMore
  <2> QED BY <2>1, <2>2, <2>3 DEF g
<1> HIDE DEF c, z
<1>9. QueuedType(z)
  BY <1>1 DEF QueuedType
<1>10. QueuedType(c)
  BY <1>2, <1>5, <1>8, <1>9, ConnectTxFacts
<1>11. ConnectedView(c, s, b, h + 1, z, k)
  <2>1. ConnectedView(ConnectTx(s, b, h + 1, z, k), s, b, h + 1, z, k)
    BY <1>2, <1>5, <1>9, ConnectTxView
  <2> QED BY <1>8, <2>1
<1>12. OkOn(txindex, k, h + 1) /\ H = Spend(txindex, k, b)
  BY <1>1, <1>4, <1>6, <1>7, <1>11 DEF ConnectedView
<1>13. StillSpent(txindex, txindex)
  BY DEF StillSpent
<1>14. k \notin DOMAIN txindex
  BY <1>2, <1>5, <1>12, <1>13, NotTwice
<1> HIDE DEF H
<1>15. /\ DOMAIN H = DOMAIN txindex \cup {k}
       /\ \A x \in DOMAIN txindex \ {k} :
             /\ x \in Inputs(k) => H[x] = MarkSpent(txindex[x], x, k, pos)
             /\ x \notin Inputs(k) => H[x] = txindex[x]
  <2>1. Inputs(k) \subseteq DOMAIN txindex /\ k \in Tx
    BY <1>2, <1>12 DEF OkOn
  <2> DEFINE G == Spend(txindex, k, b)
  <2>2. /\ DOMAIN G = DOMAIN txindex \cup {k}
        /\ \A x \in DOMAIN txindex \ {k} :
              /\ x \in Inputs(k) => G[x] = MarkSpent(txindex[x], x, k, pos)
              /\ x \notin Inputs(k) => G[x] = txindex[x]
    BY <1>5, <2>1, SpendFacts
  <2> HIDE DEF G
  <2>3. H = G
    BY <1>12 DEF G
  <2> QED BY <2>2, <2>3
<1>16. ASSUME NEW x \in DOMAIN txindex
       PROVE  /\ H[x].pos = txindex[x].pos /\ DOMAIN H[x].vSpent = DOMAIN txindex[x].vSpent
              /\ \A n \in DOMAIN txindex[x].vSpent :
                    <<x, n>> \notin Vin[k] => H[x].vSpent[n] = txindex[x].vSpent[n]
  <2>1. CASE x \notin Inputs(k)
    BY <1>14, <1>15, <2>1
  <2>2. CASE x \in Inputs(k)
    <3> DEFINE e == txindex[x]
    <3>1. H[x] = MarkSpent(e, x, k, pos)
      BY <1>14, <1>15, <2>2
    <3>2. e \in TxIndexRecord(x)
      BY <1>5 DEF IndexType
    <3> HIDE DEF e, pos
    <3> QED BY <3>1, <3>2, MarkedFields DEF e
  <2> QED BY <2>1, <2>2
<1>17. Agree(txindex, H, Vin[k])
  BY <1>15, <1>16 DEF Agree
<1>18. Ahead(r, <<k>>, Vin[k])
  BY <1>1, <1>2, <1>4, <1>7, <1>10, <1>17 DEF Ahead, c, s, b, h, H
<1> QED BY <1>1, <1>4, <1>13, <1>18 DEF Assembled, r

\* Whatever has become of the pool, the block CreateNewBlock assembles from any
\* transactions of it, in any order, connects; behind a coinstake it does when
\* it spends nothing the coinstake spends.
THEOREM AnyAssembledBlockConnects == Spec => [](\A order \in Seq(mapTx) : BlockConnects(order))
<1>1. IInv /\ ChainInv => \A order \in Seq(mapTx) : BlockConnects(order)
  <2> SUFFICES ASSUME IInv, ChainInv, NEW order \in Seq(mapTx)
               PROVE  LET vtx == CreateNewBlock(order) IN
                      /\ Connects(vtx)
                      /\ \A k \in CoinStake :
                           Connects(<<k>>) /\ (\A j \in DOMAIN vtx : Vin[vtx[j]] \cap Vin[k] = {})
                           => Connects(<<k>> \o vtx)
    BY DEF BlockConnects
  <2> DEFINE vtx == CreateNewBlock(order)
  <2>1. PoolInv /\ mapTx \subseteq Tx
    BY DEF IInv, PoolInv, PoolOk, pool, Loose
  <2>2. order \in Seq(mapTx) /\ order \in Seq(Tx)
    BY <2>1
  <2>3. PICK acc : AddSteps(acc, order) /\ vtx = acc[Len(order)][1]
    BY <2>2, CreateSteps
  <2> DEFINE r == acc[Len(order)]
  <2> HIDE DEF vtx
  <2>4. Connects(vtx)
    <3>1. Assembled(r, <<>>, {})
      <4>1. Assembled(<<<<>>, <<>>>>, <<>>, {}) /\ <<>> \in Seq(Tx)
        BY <2>1, AssembledEmpty
      <4> QED BY <2>1, <2>2, <2>3, <4>1, AssembledAll
    <3> HIDE DEF r
    <3>2. vtx = r[1] /\ r[1] \in Seq(Tx)
      BY <2>3, <3>1 DEF Assembled, r
    <3>3. <<>> \o r[1] = vtx
      BY <3>2, ConcatEmptySeq
    <3> QED BY <3>1, <3>2, <3>3 DEF Assembled, Ahead, Connects
  <2>5. ASSUME NEW k \in CoinStake, Connects(<<k>>),
               \A j \in DOMAIN vtx : Vin[vtx[j]] \cap Vin[k] = {}
        PROVE  Connects(<<k>> \o vtx)
    <3>1. Assembled(r, <<k>>, Vin[k])
      <4>1. Assembled(<<<<>>, <<>>>>, <<k>>, Vin[k])
        BY <2>1, <2>5, AssembledStake
      <4>2. <<k>> \in Seq(Tx)
        BY TxAssumption
      <4> QED BY <2>1, <2>2, <2>3, <4>1, <4>2, AssembledAll
    <3> HIDE DEF r
    <3>2. vtx = r[1]
      BY <2>3 DEF r
    <3> QED BY <2>5, <3>1, <3>2 DEF Assembled, Ahead, Connects
  <2> QED BY <2>4, <2>5 DEF vtx
<1> QED BY <1>1, ChainInvariance, PTL

\* The short blocks the run assembles are among them.
THEOREM AssembledBlocksConnect == Spec => []AssembledBlockConnects
<1>1. (\A order \in Seq(mapTx) : BlockConnects(order)) => AssembledBlockConnects
  <2>1. \A n \in 0..MaxOrder : [1..n -> mapTx] \subseteq Seq(mapTx)
    BY DEF MaxOrder
  <2> QED BY <2>1 DEF AssembledBlockConnects
<1> QED BY <1>1, AnyAssembledBlockConnects, PTL
=============================================================================
