------------------------------ MODULE TxIndex ------------------------------
(***************************************************************************)
(* The transaction index: for every transaction of the best chain the      *)
(* block it is in and, for each output, who spends it.  ConnectBlock and   *)
(* DisconnectBlock read and write it through the active batch of a LevelDB *)
(* handle.  This module has no state; TxPool keeps the index.              *)
(*                                                                         *)
(* BlockChain abstracts all of this to the set of blocks applied.  Values, *)
(* fees and signature checks are properties of a transaction here, and a   *)
(* position on disk (CDiskTxPos) is the pair of block and transaction.     *)
(***************************************************************************)
EXTENDS Integers, FiniteSets, Sequences, SequencesExt

CONSTANTS
    Tx,                 \* every transaction there is
    Vin,                \* the outputs it spends: a set of <<transaction, n>>
    Vout,               \* how many outputs it has
    CoinBase,           \* transactions that are only valid in a block ...
    CoinStake,
    BadScript,          \* transactions one of whose signatures is wrong
    Block,
    Genesis,
    Parent,
    Vtx,                \* the transactions of a block, in order
    nCoinbaseMaturity   \* depth a coinbase or coinstake needs to be spent

Inputs(t) == {o[1] : o \in Vin[t]}

ASSUME TxAssumption ==
    /\ CoinBase \subseteq Tx /\ CoinStake \subseteq Tx \ CoinBase /\ BadScript \subseteq Tx
    /\ Vout \in [Tx -> Nat \ {0}]
    /\ DOMAIN Vin = Tx
    /\ \A t \in Tx : /\ Vin[t] \subseteq (Tx \ {t}) \X Nat
                     /\ Vin[t] = {} <=> t \in CoinBase
    /\ nCoinbaseMaturity \in Nat

(* What CheckBlock makes sure of: one coinbase, which comes first.         *)
ASSUME BlockAssumption ==
    /\ Genesis \in Block /\ Parent \in [Block \ {Genesis} -> Block]
    /\ Vtx \in [Block -> Seq(Tx)]
    /\ \A b \in Block : /\ Vtx[b] # <<>> /\ IsInjective(Vtx[b])
                        /\ \A i \in DOMAIN Vtx[b] : Vtx[b][i] \in CoinBase <=> i = 1

(* Hash links never form a circle and always lead back to the genesis      *)
(* block.                                                                  *)
ASSUME NoCircleAssumption ==
    \A S \in SUBSET (Block \ {Genesis}) : S # {} => \E b \in S : Parent[b] \notin S

(* The blocks from the genesis block to b.                                 *)
Chain[b \in Block] == IF b = Genesis THEN <<b>> ELSE Append(Chain[Parent[b]], b)
Height(b) == Len(Chain[b])
OnChain(a, b) == a \in Range(Chain[b])

(* What AcceptBlock makes sure of: a coinbase begins with the height of    *)
(* its block.  Blocks of two branches may share one.                       *)
ASSUME CoinBaseAssumption ==
    \A a, b \in Block \ {Genesis} : Vtx[a][1] = Vtx[b][1] => Height(a) = Height(b)
-----------------------------------------------------------------------------
(* The map f, and g where f has no entry.                                  *)
Over(f, g) == [x \in DOMAIN f \cup DOMAIN g |-> IF x \in DOMAIN f THEN f[x] ELSE g[x]]

(***************************************************************************)
(* A batch over the database db: what it puts and what it deletes.  A read *)
(* sees the batch first, a deletion in it included.                        *)
(***************************************************************************)
TxnBegin(db) == [db |-> db, put |-> <<>>, deleted |-> {}, ok |-> TRUE]

(* Mutant of HasTxIndex: a read that takes a key deleted in the batch for  *)
(* one the batch says nothing of, as ExistsNormal does.                    *)
HasIgnoringDeletions(s, t) == t \in DOMAIN s.put \cup DOMAIN s.db

HasTxIndex(s, t) == t \in DOMAIN s.put \/ t \in DOMAIN s.db \ s.deleted

ReadTxIndex(s, t) == IF t \in DOMAIN s.put THEN s.put[t] ELSE s.db[t]

UpdateTxIndex(s, q) ==
    [s EXCEPT !.put = Over(q, @), !.deleted = @ \ DOMAIN q]

EraseTxIndex(s, t) ==
    [s EXCEPT !.put = Restrict(@, DOMAIN @ \ {t}), !.deleted = @ \cup {t}]

TxnCommit(s) == Over(s.put, Restrict(s.db, DOMAIN s.db \ s.deleted))
-----------------------------------------------------------------------------
(***************************************************************************)
(* One transaction and the records of what it spends.                      *)
(***************************************************************************)
NoPos == <<>>
Pos   == {NoPos} \cup (Block \X Tx)

(* A CTxIndex for t.                                                       *)
TxIndexRecord(t) == [pos : Block, vSpent : [1..Vout[t] -> Pos]]

Unspent(t) == [n \in 1..Vout[t] |-> NoPos]

(* A record of its own for t, which is in block b.                         *)
NewRec(t, b) == [p \in {t} |-> [pos |-> b, vSpent |-> Unspent(t)]]

(* The record r of p with the outputs t spends marked with pos.            *)
MarkSpent(r, p, t, pos) ==
    [r EXCEPT !.vSpent = [n \in DOMAIN @ |-> IF <<p, n>> \in Vin[t] THEN pos ELSE @[n]]]

(* The second part of FetchInputs: prevout.n is in range.                  *)
InRange(rec, t) == \A o \in Vin[t] : o[2] \in DOMAIN rec[o[1]].vSpent

(* A coinbase is not spent in the nCoinbaseMaturity blocks down from       *)
(* height h.                                                               *)
Mature(r, p, h) ==
    p \in CoinBase \cup CoinStake => h - Height(r.pos) >= nCoinbaseMaturity

(* Whether ConnectInputs succeeds for t at height h, given the records rec *)
(* of what t spends.                                                       *)
ConnectInputs(rec, t, h) ==
    /\ t \notin BadScript
    /\ \A o \in Vin[t] : /\ Mature(rec[o[1]], o[1], h)
                         /\ rec[o[1]].vSpent[o[2]] = NoPos
-----------------------------------------------------------------------------
(***************************************************************************)
(* Connecting and disconnecting a block in a batch s.                      *)
(***************************************************************************)

(* A transaction the index has already may come again only when all its    *)
(* outputs are spent (BIP30).                                              *)
NoOverwrite(s, t) ==
    HasTxIndex(s, t) => \A n \in DOMAIN ReadTxIndex(s, t).vSpent :
                          ReadTxIndex(s, t).vSpent[n] # NoPos

(* mapQueuedChanges of block b at height h so far, with those of t; r[1]   *)
(* is false from the first transaction on that does not connect.           *)
ConnectTx(s, b, h, r, t) ==
    LET queued == r[2]
        rec == [p \in Inputs(t) |-> IF p \in DOMAIN queued THEN queued[p] ELSE ReadTxIndex(s, p)]
        ok  == /\ r[1]
               /\ NoOverwrite(s, t)
               /\ \A p \in Inputs(t) : p \in DOMAIN queued \/ HasTxIndex(s, p)
               /\ InRange(rec, t)
               /\ ConnectInputs(rec, t, h)
        new == [p \in Inputs(t) |-> MarkSpent(rec[p], p, t, <<b, t>>)]
    IN  IF ok THEN <<TRUE, Over(NewRec(t, b), Over(new, queued))>>
              ELSE <<FALSE, queued>>

QueuedChanges(s, b, h, vtx) ==
    FoldLeft(LAMBDA r, t : ConnectTx(s, b, h, r, t), <<TRUE, <<>>>>, vtx)

ConnectBlock(s, b) ==
    LET r == QueuedChanges(s, b, Height(b), Vtx[b])
    IN  IF s.ok /\ r[1] THEN UpdateTxIndex(s, r[2]) ELSE [s EXCEPT !.ok = FALSE]

(* Mutant of DisconnectInputs: the outputs are not given back.             *)
DisconnectWithoutInputs(s, t) == EraseTxIndex(s, t)

DisconnectInputs(s, t) ==
    LET ok  == /\ \A p \in Inputs(t) : HasTxIndex(s, p)
               /\ InRange([p \in Inputs(t) |-> ReadTxIndex(s, p)], t)
        new == [p \in Inputs(t) |-> MarkSpent(ReadTxIndex(s, p), p, t, NoPos)]
    IN  IF s.ok /\ ok THEN EraseTxIndex(UpdateTxIndex(s, new), t)
                      ELSE [s EXCEPT !.ok = FALSE]

(* From the last transaction to the first.                                 *)
DisconnectBlock(s, b) == FoldLeft(DisconnectInputs, s, Reverse(Vtx[b]))

(* Reorganize: the height of pfork, the last block the two chains share,   *)
(* and what is above it on either side.                                    *)
Fork(best, b) ==
    Max({n \in DOMAIN Chain[best] \cap DOMAIN Chain[b] : Chain[best][n] = Chain[b][n]})

vDisconnect(best, b) == Reverse(SubSeq(Chain[best], Fork(best, b) + 1, Len(Chain[best])))
vConnect(best, b)    == SubSeq(Chain[b], Fork(best, b) + 1, Len(Chain[b]))

DisconnectAll(s, bs) == FoldLeft(DisconnectBlock, s, bs)
ConnectAll(s, bs)    == FoldLeft(ConnectBlock, s, bs)

(* Down to the fork and up to b, in one batch.                             *)
Switch(db, best, b) ==
    ConnectAll(DisconnectAll(TxnBegin(db), vDisconnect(best, b)), vConnect(best, b))
-----------------------------------------------------------------------------
(***************************************************************************)
(* Reference definitions, without batches and order of work.               *)
(***************************************************************************)

(* A place in the chain of b is a block and a position in it.  The genesis *)
(* block is never connected, so its transaction has none.                  *)
Places(b) == UNION {{c} \X DOMAIN Vtx[c] : c \in Range(Chain[b]) \ {Genesis}}
TxAt(p)   == Vtx[p[1]][p[2]]
Before(q, p) == Height(q[1]) < Height(p[1]) \/ (q[1] = p[1] /\ q[2] < p[2])

(* The transaction at p is new after those at the places S, it is signed,  *)
(* and it spends outputs that they create and none of them spends,         *)
(* coinbases late enough.                                                  *)
Fits(S, p) ==
    LET t == TxAt(p)
    IN  /\ \A q \in S : TxAt(q) # t /\ Vin[TxAt(q)] \cap Vin[t] = {}
        /\ t \notin BadScript
        /\ \A o \in Vin[t] : \E q \in S :
              /\ TxAt(q) = o[1] /\ o[2] \in 1..Vout[o[1]]
              /\ o[1] \in CoinBase \cup CoinStake =>
                    Height(p[1]) - Height(q[1]) >= nCoinbaseMaturity

ValidChain(b) == \A p \in Places(b) : Fits({q \in Places(b) : Before(q, p)}, p)

(* The index of the transactions at the places S.                          *)
SpentBy(S, t, n) ==
    LET spenders == {q \in S : <<t, n>> \in Vin[TxAt(q)]}
        q == CHOOSE q \in spenders : TRUE
    IN  IF spenders = {} THEN NoPos ELSE <<q[1], TxAt(q)>>

IndexOf(S) ==
    [t \in {TxAt(p) : p \in S} |->
        [pos    |-> (CHOOSE p \in S : TxAt(p) = t)[1],
         vSpent |-> [n \in 1..Vout[t] |-> SpentBy(S, t, n)]]]
=============================================================================
