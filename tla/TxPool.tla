------------------------------- MODULE TxPool -------------------------------
(***************************************************************************)
(* The memory pool, the orphan transactions and the transaction index of   *)
(* one node, and what the block assembler makes of them.                   *)
(*                                                                         *)
(* Transactions come from peers, from RPC and the wallet, and from the     *)
(* multisig dialog; blocks are connected, and branches are switched        *)
(* (BlockChain says when); the node restarts.  All of it runs under        *)
(* cs_main but the multisig dialog, whose check and whose insertion are    *)
(* two steps.  The handler of the "tx" message takes several steps, so     *)
(* that the dialog can come in between.                                    *)
(*                                                                         *)
(* mapOrphanTransactionsByPrev is total here: no code tells an absent key  *)
(* from an empty set.  The limits on free transactions and timestamps are  *)
(* not modelled: a transaction they refuse is a message that is no step.   *)
(***************************************************************************)
EXTENDS TxIndex

CONSTANTS
    NonStandard,            \* never accepted to the pool, valid in a block
    LowFee,                 \* not enough fee to be relayed or mined here
    Large,                  \* too large to be held as an orphan
    WalletTx,               \* transactions the wallet may hold at a restart
    DialogTx,               \* transactions sent from the multisig dialog
    MAX_ORPHAN_TRANSACTIONS,
    NoTx

ASSUME PoolAssumption ==
    /\ NonStandard \subseteq Tx /\ LowFee \subseteq Tx /\ Large \subseteq Tx
    /\ WalletTx \subseteq Tx /\ IsFiniteSet(WalletTx) /\ DialogTx \subseteq Tx
    /\ MAX_ORPHAN_TRANSACTIONS \in Nat
    /\ NoTx \notin Tx

VARIABLES
    pindexBest,                     \* best block
    txindex,                        \* the index on disk
    mapTx,                          \* transactions in the pool
    mapNextTx,                      \* outputs they spend -> who spends them
    mapOrphanTransactions,          \* held transactions
    mapOrphanTransactionsByPrev,    \* the same by what they spend
    vWorkQueue,                     \* "tx" handler: accepted, in order ...
    i,                              \* ... the one whose orphans are visited
    mi,                             \* ... those of its orphans still to visit
    vEraseQueue,                    \* ... orphans to erase at the end
    dialogTx                        \* checked in the dialog, not yet inserted

chain   == <<pindexBest, txindex>>
pool    == <<mapTx, mapNextTx>>
orphans == <<mapOrphanTransactions, mapOrphanTransactionsByPrev>>
handler == <<vWorkQueue, i, mi, vEraseQueue>>
vars    == <<chain, pool, orphans, handler, dialogTx>>

TypeOK ==
    /\ pindexBest \in Block
    /\ DOMAIN txindex \subseteq Tx
    /\ \A t \in DOMAIN txindex : txindex[t] \in TxIndexRecord(t)
    /\ mapTx \subseteq Tx \ (CoinBase \cup CoinStake)
    /\ DOMAIN mapNextTx \subseteq UNION {Vin[t] : t \in Tx}
    /\ \A o \in DOMAIN mapNextTx : mapNextTx[o] \in Tx
    /\ mapOrphanTransactions \subseteq Tx
    /\ mapOrphanTransactionsByPrev \in [Tx -> SUBSET Tx]
    /\ vWorkQueue \in Seq(Tx) /\ i \in Nat /\ mi \subseteq Tx /\ vEraseQueue \subseteq Tx
    /\ dialogTx \in DialogTx \cup {NoTx}
-----------------------------------------------------------------------------
(***************************************************************************)
(* CTxMemPool::accept.  P is the pool as <<mapTx, mapNextTx>>.             *)
(***************************************************************************)
(* Mutant of LooseOk: a coinstake passes for a loose transaction.          *)
LooseCoinStakeOk(t) == t \notin CoinBase \cup NonStandard

LooseOk(t) == t \notin CoinBase \cup CoinStake \cup NonStandard

Conflicts(P, t) == Vin[t] \cap DOMAIN P[2] # {}

(* What FetchInputs finds of p for a loose transaction.                    *)
Known(P, p) == p \in DOMAIN txindex \cup P[1]
PoolRec(p)  == IF p \in DOMAIN txindex THEN txindex[p]
               ELSE [pos |-> pindexBest, vSpent |-> Unspent(p)]

Missing(P, t) == \E p \in Inputs(t) : ~Known(P, p)

InputsOk(t) ==
    LET rec == [p \in Inputs(t) |-> PoolRec(p)]
    IN  /\ InRange(rec, t) /\ t \notin LowFee
        /\ ConnectInputs(rec, t, Height(pindexBest))

(* Mutant of accept: inputs already spent in the pool are not looked at.   *)
acceptConflicting(P, t, fCheckInputs) ==
    IF ~LooseOk(t) \/ t \in P[1] THEN "refused"
    ELSE IF ~fCheckInputs THEN "accepted"
    ELSE IF t \in DOMAIN txindex THEN "refused"
    ELSE IF Missing(P, t) THEN "missing"
    ELSE IF InputsOk(t) THEN "accepted" ELSE "refused"

accept(P, t, fCheckInputs) ==
    IF ~LooseOk(t) \/ t \in P[1] \/ Conflicts(P, t) THEN "refused"
    ELSE IF ~fCheckInputs THEN "accepted"
    ELSE IF t \in DOMAIN txindex THEN "refused"
    ELSE IF Missing(P, t) THEN "missing"
    ELSE IF InputsOk(t) THEN "accepted" ELSE "refused"

addUnchecked(P, t) == <<P[1] \cup {t}, Over([o \in Vin[t] |-> t], P[2])>>

(* AcceptToMemoryPool of t, in a sequence of them.                         *)
AddIf(P, t, fCheckInputs) ==
    IF accept(P, t, fCheckInputs) = "accepted" THEN addUnchecked(P, t) ELSE P

(* Mutant of remove: mapNextTx keeps its entries.                          *)
removeTxOnly(P, t) == <<P[1] \ {t}, P[2]>>

remove(P, t) ==
    IF t \in P[1] THEN <<P[1] \ {t}, Restrict(P[2], DOMAIN P[2] \ Vin[t])>> ELSE P
-----------------------------------------------------------------------------
(***************************************************************************)
(* Orphan transactions.  O is <<mapOrphanTransactions, ...ByPrev>>.        *)
(***************************************************************************)
AddOrphanTx(O, t) ==
    <<O[1] \cup {t}, [p \in Tx |-> IF p \in Inputs(t) THEN O[2][p] \cup {t} ELSE O[2][p]]>>

EraseOrphanTx(O, E) ==
    <<O[1] \ E, [p \in Tx |-> O[2][p] \ {t \in E \cap O[1] : p \in Inputs(t)}]>>

SetOrphans(O) == mapOrphanTransactions' = O[1] /\ mapOrphanTransactionsByPrev' = O[2]
SetPool(P)    == mapTx' = P[1] /\ mapNextTx' = P[2]

(* Mutant of LimitOrphanTxSize: one more than the limit is let through.    *)
LimitOneTooMany(O) ==
    \/ Cardinality(O[1]) <= MAX_ORPHAN_TRANSACTIONS + 1 /\ SetOrphans(O)
    \/ /\ Cardinality(O[1]) > MAX_ORPHAN_TRANSACTIONS + 1
       /\ \E t \in O[1] : SetOrphans(EraseOrphanTx(O, {t}))

(* The new orphan is at most one too many; any orphan may be evicted.      *)
LimitOrphanTxSize(O) ==
    \/ Cardinality(O[1]) <= MAX_ORPHAN_TRANSACTIONS /\ SetOrphans(O)
    \/ /\ Cardinality(O[1]) > MAX_ORPHAN_TRANSACTIONS
       /\ \E t \in O[1] : SetOrphans(EraseOrphanTx(O, {t}))
-----------------------------------------------------------------------------
(* SetBestChain does not connect the genesis block: the index is empty.    *)
Init ==
    /\ pindexBest = Genesis
    /\ txindex = <<>>
    /\ mapTx = {} /\ mapNextTx = <<>>
    /\ mapOrphanTransactions = {} /\ mapOrphanTransactionsByPrev = [p \in Tx |-> {}]
    /\ vWorkQueue = <<>> /\ i = 0 /\ mi = {} /\ vEraseQueue = {}
    /\ dialogTx = NoTx

cs_main == vWorkQueue = <<>>    \* free

(***************************************************************************)
(* The "tx" message.  A transaction that is accepted starts the work queue *)
(* of the orphans that depend on it; one with missing inputs is held.      *)
(***************************************************************************)
ReceiveTx(t) ==
    /\ cs_main
    /\ \/ /\ accept(pool, t, TRUE) = "accepted"
          /\ SetPool(addUnchecked(pool, t))
          /\ vWorkQueue' = <<t>> /\ i' = 1 /\ mi' = mapOrphanTransactionsByPrev[t]
          /\ vEraseQueue' = {t}
          /\ UNCHANGED orphans
       \/ /\ accept(pool, t, TRUE) = "missing"
          /\ t \notin mapOrphanTransactions \cup Large
          /\ LimitOrphanTxSize(AddOrphanTx(orphans, t))
          /\ UNCHANGED <<pool, handler>>
    /\ UNCHANGED <<chain, dialogTx>>

(* Mutant of VisitOrphan: an accepted orphan does not release others.      *)
VisitOrphanOnce(t) ==
    /\ t \in mi /\ mi' = mi \ {t}
    /\ \/ /\ accept(pool, t, TRUE) = "accepted"
          /\ SetPool(addUnchecked(pool, t))
          /\ vEraseQueue' = vEraseQueue \cup {t}
       \/ /\ accept(pool, t, TRUE) = "missing"
          /\ UNCHANGED <<pool, vEraseQueue>>
       \/ /\ accept(pool, t, TRUE) = "refused"
          /\ vEraseQueue' = vEraseQueue \cup {t}
          /\ UNCHANGED pool
    /\ UNCHANGED <<chain, orphans, i, vWorkQueue, dialogTx>>

(* The loop over the orphans of vWorkQueue[i].                             *)
VisitOrphan(t) ==
    /\ t \in mi /\ mi' = mi \ {t}
    /\ \/ /\ accept(pool, t, TRUE) = "accepted"
          /\ SetPool(addUnchecked(pool, t))
          /\ vWorkQueue' = Append(vWorkQueue, t)
          /\ vEraseQueue' = vEraseQueue \cup {t}
       \/ /\ accept(pool, t, TRUE) = "missing"
          /\ UNCHANGED <<pool, vWorkQueue, vEraseQueue>>
       \/ /\ accept(pool, t, TRUE) = "refused"
          /\ vEraseQueue' = vEraseQueue \cup {t}
          /\ UNCHANGED <<pool, vWorkQueue>>
    /\ UNCHANGED <<chain, orphans, i, dialogTx>>

NextWork ==
    /\ ~cs_main /\ mi = {} /\ i < Len(vWorkQueue)
    /\ i' = i + 1 /\ mi' = mapOrphanTransactionsByPrev[vWorkQueue[i + 1]]
    /\ UNCHANGED <<chain, pool, orphans, vWorkQueue, vEraseQueue, dialogTx>>

EraseOrphans ==
    /\ ~cs_main /\ mi = {} /\ i = Len(vWorkQueue)
    /\ SetOrphans(EraseOrphanTx(orphans, vEraseQueue))
    /\ vWorkQueue' = <<>> /\ i' = 0 /\ vEraseQueue' = {}
    /\ UNCHANGED <<chain, pool, mi, dialogTx>>

(* sendrawtransaction and CommitTransaction: no orphan is looked at.       *)
SendTx(t) ==
    /\ cs_main /\ accept(pool, t, TRUE) = "accepted"
    /\ SetPool(addUnchecked(pool, t))
    /\ UNCHANGED <<chain, orphans, handler, dialogTx>>

(***************************************************************************)
(* The multisig dialog, without cs_main: it looks at the index, the pool   *)
(* and mapNextTx, and then inserts.  Inputs are not checked.               *)
(***************************************************************************)
DialogCheck(t) ==
    /\ t \in DialogTx /\ dialogTx = NoTx
    /\ t \notin DOMAIN txindex /\ accept(pool, t, FALSE) = "accepted"
    /\ dialogTx' = t
    /\ UNCHANGED <<chain, pool, orphans, handler>>

DialogInsert ==
    /\ dialogTx # NoTx
    /\ SetPool(addUnchecked(pool, dialogTx)) /\ dialogTx' = NoTx
    /\ UNCHANGED <<chain, orphans, handler>>

(***************************************************************************)
(* The chain grows by a block, or a branch is switched.  A batch that      *)
(* fails is aborted and changes nothing: it is no step.                    *)
(***************************************************************************)
DeleteBlock(P, b) == FoldLeft(remove, P, Vtx[b])

SetBestChainInner(b) ==
    /\ cs_main /\ b \in Block \ {Genesis} /\ Parent[b] = pindexBest
    /\ LET s == ConnectBlock(TxnBegin(txindex), b)
       IN  s.ok /\ txindex' = TxnCommit(s)
    /\ pindexBest' = b
    /\ SetPool(DeleteBlock(pool, b))
    /\ UNCHANGED <<orphans, handler, dialogTx>>

(* What Reorganize queues and then does, block by block: the transactions  *)
(* of the disconnected blocks in vResurrect, those of the connected ones   *)
(* in vDelete.                                                             *)
Resurrect(P, t) == IF t \in CoinBase \cup CoinStake THEN P ELSE AddIf(P, t, FALSE)

ResurrectBlock(P, b) == FoldLeft(Resurrect, P, Vtx[b])
vResurrect(P, bs)    == FoldLeft(ResurrectBlock, P, bs)
vDelete(P, bs)       == FoldLeft(DeleteBlock, P, bs)

(* Mutant of PoolAfterSwitch: deleted before resurrected.                  *)
DeleteFirst(b) ==
    vResurrect(vDelete(pool, vConnect(pindexBest, b)), vDisconnect(pindexBest, b))

(* Mutant of PoolAfterSwitch: nothing is resurrected.                      *)
DeleteOnly(b) == vDelete(pool, vConnect(pindexBest, b))

PoolAfterSwitch(b) ==
    vDelete(vResurrect(pool, vDisconnect(pindexBest, b)), vConnect(pindexBest, b))

Reorganize(b) ==
    /\ cs_main /\ ~OnChain(b, pindexBest) /\ ~OnChain(pindexBest, b)
    /\ LET s == Switch(txindex, pindexBest, b)
       IN  s.ok /\ txindex' = TxnCommit(s)
    /\ pindexBest' = b
    /\ SetPool(PoolAfterSwitch(b))
    /\ UNCHANGED <<orphans, handler, dialogTx>>

(***************************************************************************)
(* The process ends, between two messages or in one, and starts again:     *)
(* memory is lost, and the wallet puts its transactions that are in no     *)
(* block back into the pool, in any order, without checking inputs         *)
(* (ReacceptWalletTransactions).                                           *)
(***************************************************************************)
Reaccept(P, t) == IF t \in DOMAIN txindex THEN P ELSE AddIf(P, t, FALSE)

ReacceptWalletTransactions(w) == FoldLeft(Reaccept, <<{}, <<>>>>, w)

Restart(w) ==
    /\ w \in SetToSeqs(WalletTx) \cup {<<>>}
    /\ SetPool(ReacceptWalletTransactions(w))
    /\ SetOrphans(<<{}, [p \in Tx |-> {}]>>)
    /\ vWorkQueue' = <<>> /\ i' = 0 /\ mi' = {} /\ vEraseQueue' = {}
    /\ dialogTx' = NoTx
    /\ UNCHANGED chain

Next ==
    \/ \E t \in Tx : ReceiveTx(t)
    \/ \E t \in mi : VisitOrphan(t)
    \/ NextWork
    \/ EraseOrphans
    \/ \E t \in Tx : SendTx(t)
    \/ \E t \in DialogTx : DialogCheck(t)
    \/ DialogInsert
    \/ \E b \in Block : SetBestChainInner(b)
    \/ \E b \in Block : Reorganize(b)
    \/ \E w \in SetToSeqs(WalletTx) \cup {<<>>} : Restart(w)

Spec == Init /\ [][Next]_vars
-----------------------------------------------------------------------------
(***************************************************************************)
(* CreateNewBlock: transactions are tried in the order of their priority,  *)
(* those that depend on the pool after what they depend on, as many as fit *)
(* into the block.  r is the block so far and mapTestPool.  A transaction  *)
(* one of whose inputs is nowhere is left out.  If another of its inputs   *)
(* is in the pool, mapDependers keeps a pointer to its destroyed entry;    *)
(* what is read through it can at most try the transaction again, which    *)
(* then fails in FetchInputs.                                              *)
(***************************************************************************)
AddToBlock(r, t) ==
    LET q   == r[2]
        rec == [p \in Inputs(t) |-> IF p \in DOMAIN q THEN q[p] ELSE txindex[p]]
        ok  == /\ \A p \in Inputs(t) : p \in DOMAIN txindex \cup DOMAIN q
               /\ t \notin LowFee /\ InRange(rec, t)
               /\ ConnectInputs(rec, t, Height(pindexBest))
        new == [p \in Inputs(t) |-> MarkSpent(rec[p], p, t, <<pindexBest, t>>)]
    IN  IF ok THEN <<Append(r[1], t), Over(NewRec(t, pindexBest), Over(new, q))>>
              ELSE r

(* Mutant of CreateNewBlock: the pool is taken as it is.                   *)
CreateUnchecked(order) == order

CreateNewBlock(order) == FoldLeft(AddToBlock, <<<<>>, <<>>>>, order)[1]

(* Whether a block of vtx would connect on top of the best one.            *)
Connects(vtx) ==
    QueuedChanges(TxnBegin(txindex), pindexBest, Height(pindexBest) + 1, vtx)[1]
-----------------------------------------------------------------------------
(***************************************************************************)
(* Properties of the index.                                                *)
(***************************************************************************)

(* After any sequence of blocks and switches the index is the one that     *)
(* connecting the best chain once would give, positions and spenders       *)
(* included: DisconnectBlock undoes ConnectBlock exactly.                  *)
IndexIsChain == txindex = IndexOf(Places(pindexBest))

(* From wherever the node is, Reorganize succeeds for a branch whose       *)
(* transactions are all right, and for no other: reading through the batch *)
(* sees what the same batch has disconnected.                              *)
SwitchDependsOnBranchOnly ==
    \A b \in Block : Switch(txindex, pindexBest, b).ok <=> ValidChain(b)

(***************************************************************************)
(* Properties of the pool.                                                 *)
(***************************************************************************)

(* mapNextTx holds pointers into mapTx; none survives what it points to.   *)
(* This is so even when the dialog overwrites an entry.                    *)
NoDanglingInPoint ==
    \A o \in DOMAIN mapNextTx : mapNextTx[o] \in mapTx /\ o \in Vin[mapNextTx[o]]

(* Two transactions of the pool never spend the same output, and each has  *)
(* its entries in mapNextTx, unless the dialog got in between a check and  *)
(* an insertion.                                                           *)
NoDoubleSpendInPool ==
    \A t \in mapTx, o \in UNION {Vin[u] : u \in mapTx} : o \in Vin[t] =>
        \/ o \in DOMAIN mapNextTx /\ mapNextTx[o] = t
        \/ \E u \in DialogTx : o \in Vin[u]

(* A transaction of the best chain is not in the pool at the same time:    *)
(* what Reorganize resurrects from one branch and connects with the other  *)
(* is deleted last.                                                        *)
NotInPoolAndChain == mapTx \cap DOMAIN txindex \subseteq DialogTx

(* No switch of branches loses a payment: a transaction that leaves the    *)
(* chain is in the pool, or one that spends the same output is in the pool *)
(* or the chain.  Nonstandard ones are not taken back.                     *)
SwitchLosesNothing ==
    [][\A t \in DOMAIN txindex \ (CoinBase \cup CoinStake \cup NonStandard) :
          \E u \in DOMAIN txindex' \cup mapTx' : Vin[u] \cap Vin[t] # {}]_vars

(* The block assembled from order connects, and behind a coinstake it does *)
(* unless it spends the stake as well: CreateNewBlock does not enter the   *)
(* coinstake into mapTestPool.                                             *)
BlockConnects(order) ==
    LET vtx == CreateNewBlock(order)
    IN  /\ Connects(vtx)
        /\ \A k \in CoinStake :
              Connects(<<k>>) /\ (\A j \in DOMAIN vtx : Vin[vtx[j]] \cap Vin[k] = {})
              => Connects(<<k>> \o vtx)

(* Whatever has become of the pool, a block assembled from any MaxOrder of *)
(* its transactions, in any order, connects.                               *)
MaxOrder == 2
AssembledBlockConnects ==
    \A n \in 0..MaxOrder : \A order \in [1..n -> mapTx] : BlockConnects(order)

(***************************************************************************)
(* Properties of the orphan transactions.                                  *)
(***************************************************************************)

(* The two maps name the same transactions, with evictions and with        *)
(* orphans erased for several reasons, and stay within the limit.          *)
OrphanMapsAgree ==
    /\ \A p \in Tx : mapOrphanTransactionsByPrev[p] = {t \in mapOrphanTransactions : p \in Inputs(t)}
    /\ Cardinality(mapOrphanTransactions) <= MAX_ORPHAN_TRANSACTIONS

(* When the "tx" handler returns, no held transaction that spends one of   *)
(* those it accepted has all its inputs: it was accepted or dropped, over  *)
(* any number of generations.  (One the dialog completed in between may.)  *)
OrphansFollowParents ==
    [][~cs_main /\ cs_main' =>
          \A t \in mapOrphanTransactions' :
              Inputs(t) \cap Range(vWorkQueue) # {} =>
                  \/ \E p \in Inputs(t) : p \notin DOMAIN txindex' \cup mapTx'
                  \/ Inputs(t) \cap DialogTx # {}]_vars

(* "This should never happen; all transactions in the memory pool should   *)
(* connect to either transactions in the chain or other transactions in    *)
(* the memory pool."                                                       *)
PoolConnects == \A t \in mapTx : ~Missing(pool, t)
=============================================================================
