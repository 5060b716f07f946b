-------------------------- MODULE BlockChain_proofs --------------------------
(***************************************************************************)
(* Proofs about BlockChain, for every block tree and every bound.          *)
(***************************************************************************)
EXTENDS BlockChain, TLAPS

-----------------------------------------------------------------------------
(***************************************************************************)
(* The block tree.                                                         *)
(***************************************************************************)

\* A block is one of its own ancestors, and so is its parent.
LEMMA AncReflexive ==
    ASSUME NEW b \in Block
    PROVE  /\ b \in Anc[b]
           /\ Anc[b] \subseteq Block
           /\ b # Genesis => Parent[b] \in Block /\ Parent[b] \in Anc[b]
<1>0. \A x \in Block : x \in Anc[x] /\ Anc[x] \subseteq Block
  BY TreeAssumption
<1>1. b \in Anc[b] /\ Anc[b] \subseteq Block
  BY <1>0
<1>2. ASSUME b # Genesis
      PROVE  Parent[b] \in Block /\ Parent[b] \in Anc[b]
  <2>1. Parent[b] \in Block
    BY <1>2, TreeAssumption
  <2>2. Parent[b] \in Anc[Parent[b]]
    BY <1>0, <2>1
  <2> QED BY <1>2, <2>1, <2>2, TreeAssumption
<1> QED BY <1>1, <1>2

\* Ancestors of ancestors are ancestors, with less trust.
LEMMA AncTransitive ==
    ASSUME NEW b \in Block, NEW a \in Anc[b]
    PROVE  /\ a \in Block
           /\ Anc[a] \subseteq Anc[b]
           /\ nChainTrust[a] \in Nat /\ nChainTrust[b] \in Nat
           /\ nChainTrust[a] <= nChainTrust[b]
           /\ a # b => nChainTrust[a] < nChainTrust[b]
<1>1. a \in Block
  BY AncReflexive
<1>2. nChainTrust[a] \in Nat /\ nChainTrust[b] \in Nat
  BY <1>1, TreeAssumption
<1>3. Anc[a] \subseteq Anc[b] /\ (a # b => nChainTrust[a] < nChainTrust[b])
  BY AncestryAssumption
<1> QED BY <1>1, <1>2, <1>3

\* A set of ancestors has a first and a last element.
LEMMA AncEnds ==
    ASSUME NEW b \in Block, NEW S, S \subseteq Anc[b], S # {}
    PROVE  /\ \E first \in S : \A s \in S : first \in Anc[s]
           /\ \E last \in S : S \subseteq Anc[last]
<1>1. S \in SUBSET Anc[b]
  OBVIOUS
<1>2. \A T \in SUBSET Anc[b] : T # {} =>
          /\ \E first \in T : \A s \in T : first \in Anc[s]
          /\ \E last \in T : T \subseteq Anc[last]
  BY AncestryAssumption
<1> QED BY ONLY <1>1, <1>2, S # {}

\* Of two ancestors of a block, one is an ancestor of the other.
LEMMA AncLinear ==
    ASSUME NEW b \in Block, NEW a \in Anc[b], NEW c \in Anc[b]
    PROVE  a \in Anc[c] \/ c \in Anc[a]
<1>1. {a, c} \subseteq Anc[b] /\ {a, c} # {}
  OBVIOUS
<1>2. PICK last \in {a, c} : {a, c} \subseteq Anc[last]
  BY <1>1, AncEnds
<1> QED BY <1>2

\* A proper ancestor is an ancestor of the parent.
LEMMA AncParent ==
    ASSUME NEW b \in Block, NEW a \in Anc[b], a # b
    PROVE  b # Genesis /\ a \in Anc[Parent[b]]
BY TreeAssumption

\* Two blocks of one chain with the same parent are the same block.
LEMMA ChildUnique ==
    ASSUME NEW b \in Block, NEW c \in Anc[b], NEW d \in Anc[b],
           c # Genesis, d # Genesis, Parent[c] = Parent[d]
    PROVE  c = d
<1>1. c \in Block /\ d \in Block
  BY AncTransitive
<1>2. c \notin Anc[Parent[c]] /\ d \notin Anc[Parent[d]]
  BY <1>1, TreeAssumption
<1>3. CASE c \in Anc[d]
  BY <1>1, <1>2, <1>3, AncParent
<1>4. CASE d \in Anc[c]
  BY <1>1, <1>2, <1>4, AncParent
<1> QED BY <1>3, <1>4, AncLinear

\* The chain from a proper ancestor to a block starts with a child of it.
LEMMA ChildOnPath ==
    ASSUME NEW b \in Block, NEW a \in Anc[b], a # b
    PROVE  \E c \in Anc[b] \ Anc[a] : c # Genesis /\ Parent[c] = a
<1> DEFINE S == Anc[b] \ Anc[a]
<1>0. a \in Block /\ Anc[a] \subseteq Anc[b] /\ Anc[b] \subseteq Block
  BY AncTransitive, AncReflexive
<1>1. b \in S
  <2>1. SUFFICES ASSUME b \in Anc[a] PROVE FALSE
    BY AncReflexive
  <2>2. nChainTrust[b] < nChainTrust[a]
    BY <1>0, <2>1, AncTransitive
  <2>3. nChainTrust[a] < nChainTrust[b]
    BY AncTransitive
  <2>4. nChainTrust[a] \in Nat /\ nChainTrust[b] \in Nat
    BY <1>0, TreeAssumption
  <2> QED BY <2>2, <2>3, <2>4
<1>2. PICK c \in S : \A s \in S : c \in Anc[s]
  <2>1. S \subseteq Anc[b] /\ S # {}
    BY <1>1
  <2> HIDE DEF S
  <2> QED BY <2>1, AncEnds
<1>3. c \in Block /\ c \in Anc[b] /\ c \notin Anc[a]
  BY <1>0, <1>2
<1>4. a \in Anc[c]
  BY <1>3, AncLinear
<1>5. a # c
  BY <1>0, <1>3, AncReflexive
<1>6. c # Genesis /\ a \in Anc[Parent[c]] /\ Parent[c] \in Block
  BY <1>3, <1>4, <1>5, AncParent, AncReflexive
<1>7. Parent[c] \in Anc[a]
  <2>1. Parent[c] \in Anc[b]
    BY <1>3, <1>6, AncReflexive, AncTransitive
  <2>2. SUFFICES ASSUME Parent[c] \in S PROVE FALSE
    BY <2>1
  <2>3. c \in Anc[Parent[c]]
    BY <1>2, <2>2
  <2> QED BY <1>3, <1>6, <2>3, TreeAssumption
<1>8. Parent[c] = a
  <2>1. SUFFICES ASSUME Parent[c] # a PROVE FALSE
    OBVIOUS
  <2>2. nChainTrust[Parent[c]] < nChainTrust[a]
    BY <1>0, <1>7, <2>1, AncTransitive
  <2>3. nChainTrust[a] < nChainTrust[Parent[c]]
    BY <1>6, <2>1, AncTransitive
  <2>4. nChainTrust[a] \in Nat /\ nChainTrust[Parent[c]] \in Nat
    BY <1>0, <1>6, TreeAssumption
  <2> QED BY <2>2, <2>3, <2>4
<1> QED BY <1>2, <1>6, <1>8

-----------------------------------------------------------------------------
(***************************************************************************)
(* The links of a chain.                                                   *)
(***************************************************************************)

\* ChildIn finds the one child that a set of blocks of a chain holds.
LEMMA ChildInUnique ==
    ASSUME NEW b \in Block, NEW S, S \subseteq Anc[b], NEW c \in S, c # Genesis
    PROVE  ChildIn(S, Parent[c]) = c
<1> DEFINE x == Parent[c]
<1>1. \E d \in S \ {Genesis} : Parent[d] = x
  OBVIOUS
<1>2. \A d \in S \ {Genesis} : Parent[d] = x => d = c
  <2> TAKE d \in S \ {Genesis}
  <2> HAVE Parent[d] = x
  <2>1. c \in Anc[b] /\ d \in Anc[b] /\ d # Genesis
    OBVIOUS
  <2> QED BY <2>1, ChildUnique
<1>3. ChildIn(S, x) = CHOOSE d \in S \ {Genesis} : Parent[d] = x
  BY <1>1 DEF ChildIn
<1> QED BY <1>1, <1>2, <1>3

\* ChildIn finds a child whenever there is one.
LEMMA ChildInExists ==
    ASSUME NEW S, S \subseteq Block, NEW x
    PROVE  \/ /\ ChildIn(S, x) = NoBlock
              /\ \A c \in S \ {Genesis} : Parent[c] # x
           \/ /\ ChildIn(S, x) \in S \ {Genesis}
              /\ ChildIn(S, x) # NoBlock
              /\ Parent[ChildIn(S, x)] = x
<1>1. CASE \E c \in S \ {Genesis} : Parent[c] = x
  <2>1. ChildIn(S, x) = CHOOSE d \in S \ {Genesis} : Parent[d] = x
    BY <1>1 DEF ChildIn
  <2>2. ChildIn(S, x) \in S \ {Genesis} /\ Parent[ChildIn(S, x)] = x
    BY <1>1, <2>1
  <2> QED BY <2>2, TreeAssumption
<1>2. CASE ~ \E c \in S \ {Genesis} : Parent[c] = x
  BY <1>2 DEF ChildIn
<1> QED BY <1>1, <1>2

\* The links of a chain, as LoadBlockIndex and IsInMainChain need them.
Links(b) == [x \in Block |-> ChildIn(Anc[b], x)]

\* Disconnecting the blocks of one chain above a fork and connecting those of
\* another turns the links of the first into the links of the second.
LEMMA RelinkLinks ==
    ASSUME NEW p \in Block, NEW b \in Block
    PROVE  Relink(Links(p), Anc[p] \ Anc[b], Anc[b] \ Anc[p]) = Links(b)
<1> DEFINE D == Anc[p] \ Anc[b]
           C == Anc[b] \ Anc[p]
           R == Relink(Links(p), D, C)
<1>0. Anc[p] \subseteq Block /\ Anc[b] \subseteq Block /\ C \subseteq Block /\ D \subseteq Block
  BY AncReflexive
<1>1. SUFFICES ASSUME NEW x \in Block
               PROVE  R[x] = ChildIn(Anc[b], x)
  BY DEF Relink, Links
<1>2. R[x] = IF ChildIn(C, x) # NoBlock THEN ChildIn(C, x)
             ELSE IF ChildIn(D, x) # NoBlock THEN NoBlock
             ELSE ChildIn(Anc[p], x)
  BY DEF Relink, Links
<1>3. CASE ChildIn(C, x) # NoBlock
  <2>1. ChildIn(C, x) \in C \ {Genesis} /\ Parent[ChildIn(C, x)] = x
    BY <1>0, <1>3, ChildInExists
  <2>2. ChildIn(Anc[b], Parent[ChildIn(C, x)]) = ChildIn(C, x)
    BY <2>1, ChildInUnique
  <2> QED BY <1>2, <1>3, <2>1, <2>2
<1>4. CASE ChildIn(C, x) = NoBlock /\ ChildIn(D, x) # NoBlock
  <2>1. PICK d \in D \ {Genesis} : Parent[d] = x
    BY <1>0, <1>4, ChildInExists
  <2>2. \A c \in C \ {Genesis} : Parent[c] # x
    BY <1>0, <1>4, ChildInExists
  <2>3. \A c \in Anc[b] \ {Genesis} : Parent[c] # x
    <3> SUFFICES ASSUME NEW c \in Anc[b], c # Genesis, Parent[c] = x
                 PROVE  FALSE
      OBVIOUS
    <3>1. c \in Anc[p]
      BY <2>2
    <3>2. d \in Anc[p] /\ d \notin Anc[b] /\ d # Genesis
      BY <2>1
    <3>3. c = d
      BY <2>1, <3>1, <3>2, ChildUnique
    <3> QED BY <3>2, <3>3
  <2>4. ChildIn(Anc[b], x) = NoBlock
    BY <2>3 DEF ChildIn
  <2> QED BY <1>2, <1>4, <2>4
<1>5. CASE ChildIn(C, x) = NoBlock /\ ChildIn(D, x) = NoBlock
  <2>1. \A c \in Anc[b] \ {Genesis} : Parent[c] = x => c \in Anc[p]
    BY <1>0, <1>5, ChildInExists
  <2>2. \A c \in Anc[p] \ {Genesis} : Parent[c] = x => c \in Anc[b]
    BY <1>0, <1>5, ChildInExists
  <2>3. CASE ChildIn(Anc[p], x) = NoBlock
    <3>1. \A c \in Anc[p] \ {Genesis} : Parent[c] # x
      BY <1>0, <2>3, ChildInExists
    <3>2. \A c \in Anc[b] \ {Genesis} : Parent[c] # x
      BY <2>1, <3>1
    <3>3. ChildIn(Anc[b], x) = NoBlock
      BY <3>2 DEF ChildIn
    <3> QED BY <1>2, <1>5, <2>3, <3>3
  <2>4. CASE ChildIn(Anc[p], x) # NoBlock
    <3> DEFINE c == ChildIn(Anc[p], x)
    <3>1. c \in Anc[p] \ {Genesis} /\ Parent[c] = x
      BY <1>0, <2>4, ChildInExists
    <3> HIDE DEF c
    <3>2. c \in Anc[b]
      BY <2>2, <3>1
    <3>3. ChildIn(Anc[b], Parent[c]) = c
      BY <3>1, <3>2, ChildInUnique
    <3> QED BY <1>2, <1>5, <3>1, <3>3 DEF c
  <2> QED BY <2>3, <2>4
<1> QED BY <1>3, <1>4, <1>5

\* A chain's links single out its blocks: every one but the last has a next.
LEMMA LinksAreMembers ==
    ASSUME NEW b \in Block, NEW x \in Block
    PROVE  (Links(b)[x] # NoBlock \/ x = b) <=> x \in Anc[b]
<1>0. Anc[b] \subseteq Block /\ Links(b)[x] = ChildIn(Anc[b], x)
  BY AncReflexive DEF Links
<1>1. ASSUME ChildIn(Anc[b], x) # NoBlock PROVE x \in Anc[b]
  <2>1. PICK c \in Anc[b] \ {Genesis} : Parent[c] = x
    BY <1>0, <1>1, ChildInExists
  <2>2. c \in Block /\ x \in Anc[c]
    BY <1>0, <2>1, AncReflexive
  <2> QED BY <2>1, <2>2, AncTransitive
<1>2. ASSUME x \in Anc[b], x # b PROVE ChildIn(Anc[b], x) # NoBlock
  <2>1. PICK c \in Anc[b] \ Anc[x] : c # Genesis /\ Parent[c] = x
    BY <1>2, ChildOnPath
  <2> QED BY <1>0, <2>1, ChildInExists
<1>3. b \in Anc[b]
  BY AncReflexive
<1> QED BY <1>0, <1>1, <1>2, <1>3

\* Every chain starts with the genesis block.
LEMMA GenesisFirst ==
    ASSUME NEW b \in Block
    PROVE  Genesis \in Anc[b]
<1>1. Anc[b] \subseteq Anc[b] /\ Anc[b] # {} /\ Anc[b] \subseteq Block
  BY AncReflexive
<1>2. PICK first \in Anc[b] : \A s \in Anc[b] : first \in Anc[s]
  BY <1>1, AncEnds
<1>3. SUFFICES ASSUME first # Genesis PROVE FALSE
  BY <1>2
<1>4. first \in Block /\ Parent[first] \in Anc[first] /\ Parent[first] \in Anc[b]
  BY <1>1, <1>2, <1>3, AncReflexive, AncTransitive
<1>5. first \in Anc[Parent[first]]
  BY <1>2, <1>4
<1> QED BY <1>3, <1>4, <1>5, TreeAssumption

-----------------------------------------------------------------------------
(***************************************************************************)
(* The block SetBestChain reorganises to.                                  *)
(***************************************************************************)

\* It is on the new chain, and what is left above it is what is postponed.
LEMMA IntermediateOnChain ==
    ASSUME NEW n \in Block, pindexBest \in Block
    PROVE  /\ Intermediate(n) \in Anc[n]
           /\ Intermediate(n) \in Block
           /\ Anc[Intermediate(n)] = Anc[n] \ Secondary(n)
<1> DEFINE S == Anc[n] \ Secondary(n)
<1>0. Anc[n] \subseteq Block /\ Secondary(n) \subseteq Anc[n]
  BY AncReflexive DEF Secondary
<1>1. Genesis \in S
  BY GenesisFirst DEF Secondary
<1>2. PICK m \in S : S \subseteq Anc[m]
  <2>1. S \subseteq Anc[n] /\ S # {}
    BY <1>1
  <2> HIDE DEF S
  <2> QED BY <2>1, AncEnds
<1>3. m \in Block /\ m \in Anc[n] /\ Anc[m] \subseteq Anc[n]
  BY <1>0, <1>2, AncTransitive
<1>4. Anc[m] \subseteq S
  <2> SUFFICES ASSUME NEW y \in Anc[m], y \in Secondary(n)
               PROVE  FALSE
    BY <1>3
  <2>1. y # m /\ y # Genesis /\ y \in Block /\ Parent[y] \in Block
    BY <1>2, <1>3, AncReflexive, AncTransitive DEF Secondary
  <2>2. m # Genesis /\ y \in Anc[Parent[m]] /\ Parent[m] \in Block
    BY <1>3, <2>1, AncParent, AncReflexive
  <2>3. nChainTrust[Parent[y]] > nChainTrust[pindexBest]
    BY DEF Secondary
  <2>4. nChainTrust[Parent[y]] <= nChainTrust[y]
    BY <2>1, AncReflexive, AncTransitive
  <2>5. nChainTrust[y] <= nChainTrust[Parent[m]]
    BY <2>2, AncTransitive
  <2>6. /\ nChainTrust[Parent[y]] \in Nat /\ nChainTrust[y] \in Nat
        /\ nChainTrust[Parent[m]] \in Nat /\ nChainTrust[pindexBest] \in Nat
    BY <2>1, <2>2, TreeAssumption
  <2>7. nChainTrust[Parent[m]] > nChainTrust[pindexBest]
    BY <2>3, <2>4, <2>5, <2>6
  <2>8. m \in Secondary(n)
    BY <1>3, <2>2, <2>7 DEF Secondary
  <2> QED BY <1>2, <2>8
<1>5. S = Anc[m]
  BY <1>2, <1>4
<1>6. Intermediate(n) = CHOOSE x \in S : S = Anc[x]
  BY DEF Intermediate
<1>7. Intermediate(n) \in S /\ S = Anc[Intermediate(n)]
  <2> HIDE DEF S
  <2> QED BY <1>2, <1>5, <1>6
<1> QED BY <1>0, <1>7

\* If the new chain is not part of the best one, neither is that block.
LEMMA IntermediateIsNew ==
    ASSUME NEW n \in Block, pindexBest \in Block, n \notin Anc[pindexBest]
    PROVE  Intermediate(n) \notin Anc[pindexBest]
<1> DEFINE i == Intermediate(n)
<1>1. i \in Anc[n] /\ i \in Block /\ Anc[i] = Anc[n] \ Secondary(n)
  BY IntermediateOnChain
<1> HIDE DEF i
<1> SUFFICES ASSUME i \in Anc[pindexBest] PROVE FALSE
  BY DEF i
<1>2. i # n
  OBVIOUS
<1>3. PICK c \in Anc[n] \ Anc[i] : c # Genesis /\ Parent[c] = i
  BY <1>1, <1>2, ChildOnPath
<1>4. c \in Secondary(n)
  BY <1>1, <1>3
<1>5. nChainTrust[i] > nChainTrust[pindexBest]
  BY <1>3, <1>4 DEF Secondary
<1>6. nChainTrust[i] <= nChainTrust[pindexBest]
  BY AncTransitive
<1>7. nChainTrust[i] \in Nat /\ nChainTrust[pindexBest] \in Nat
  BY <1>1, TreeAssumption
<1> QED BY <1>5, <1>6, <1>7

\* A common ancestor of both chains is never postponed.
LEMMA SharedIsKept ==
    ASSUME NEW n \in Block, pindexBest \in Block,
           NEW s \in Anc[n], s \in Anc[pindexBest]
    PROVE  s \in Anc[Intermediate(n)]
<1>1. s \in Block
  BY AncTransitive
<1>2. CASE s = Genesis
  BY <1>2, IntermediateOnChain, GenesisFirst
<1>3. CASE s # Genesis
  <2>1. Parent[s] \in Anc[pindexBest]
    BY <1>1, <1>3, AncReflexive, AncTransitive
  <2>2. nChainTrust[Parent[s]] <= nChainTrust[pindexBest] /\ nChainTrust[Parent[s]] \in Nat
        /\ nChainTrust[pindexBest] \in Nat
    BY <2>1, AncTransitive
  <2>3. s \notin Secondary(n)
    BY <2>2 DEF Secondary
  <2> QED BY <2>3, IntermediateOnChain
<1> QED BY <1>2, <1>3

-----------------------------------------------------------------------------
(***************************************************************************)
(* The inductive invariants.  Structure holds of every behaviour; it says  *)
(* what is in the index and what the steps of SetBestChain may rely on.    *)
(***************************************************************************)
AtWork == {"SetBestChain", "ConnectFurther", "NewBest"}

Structure ==
    /\ TypeOK
    /\ Genesis \in dbIndex
    /\ \A b \in dbIndex : Anc[b] \subseteq dbIndex
    /\ {dbHashBestChain, dbSyncCheckpoint} \subseteq dbIndex
    /\ pc # "down" => /\ mapBlockIndex = dbIndex
                      /\ hashSyncCheckpoint = dbSyncCheckpoint
                      /\ pindexBest \in dbIndex
    /\ pc \in AtWork \cup {"WriteSyncCheckpoint"} => pindexNew \in dbIndex
    /\ pc \in AtWork => caller # "none"
    /\ pc = "ConnectFurther" =>
          /\ dbHashBestChain \in Anc[pindexNew]
          /\ vpindexSecondary = Anc[pindexNew] \ Anc[dbHashBestChain]
          /\ vpindexSecondary # {}

\* What holds besides as long as no postponed block fails: the database is
\* one chain, memory agrees with it outside SetBestChain, and the chain under
\* construction keeps the checkpoint.
Consistent ==
    /\ dbTxIndex = Anc[dbHashBestChain]
    /\ Anc[dbHashBestChain] \subseteq Valid
    /\ dbHashNext = Links(dbHashBestChain)
    /\ pc # "down" => pnext = dbHashNext
    /\ pc \notin {"down", "ConnectFurther", "NewBest"} => pindexBest = dbHashBestChain
    /\ pc = "NewBest" => dbHashBestChain = pindexNew
    /\ pc = "SetBestChain" => pindexNew \notin Anc[pindexBest]
    /\ pc = "WriteSyncCheckpoint" => /\ pindexNew \in Anc[dbHashBestChain]
                                     /\ dbSyncCheckpoint \in Anc[pindexNew]
    /\ pc \in AtWork /\ (CheckpointsMode = "STRICT" \/ caller = "SyncCheckpoint")
          => dbSyncCheckpoint \in Anc[pindexNew]
    /\ CheckpointsMode = "STRICT" =>
          /\ dbSyncCheckpoint \in Anc[dbHashBestChain]
          /\ pc # "down" => dbSyncCheckpoint \in Anc[pindexBest]

-----------------------------------------------------------------------------
(***************************************************************************)
(* Structure is inductive.                                                 *)
(***************************************************************************)

\* Relinking blocks gives links.
LEMMA RelinkType ==
    ASSUME NEW next \in [Block -> MaybeBlock],
           NEW D, D \subseteq Block, NEW C, C \subseteq Block
    PROVE  Relink(next, D, C) \in [Block -> MaybeBlock]
<1>1. \A x \in Block : ChildIn(C, x) \in MaybeBlock
  BY ChildInExists DEF MaybeBlock
<1> QED BY <1>1 DEF Relink, MaybeBlock

\* A committed batch keeps the types of what it writes.
LEMMA CommitType ==
    ASSUME TypeOK, NEW b \in Block,
           NEW D, D \subseteq Block, NEW C, C \subseteq Block,
           Commit(b, D, C)
    PROVE  /\ dbTxIndex' \subseteq Block
           /\ dbHashNext' \in [Block -> MaybeBlock]
           /\ pnext' \in [Block -> MaybeBlock]
           /\ dbHashBestChain' = b
           /\ dbIndex' = dbIndex /\ dbSyncCheckpoint' = dbSyncCheckpoint
<1>1. pnext \in [Block -> MaybeBlock] /\ dbHashNext \in [Block -> MaybeBlock]
      /\ dbTxIndex \subseteq Block
  BY DEF TypeOK
<1>2. pnext' = Relink(pnext, D, C)
  BY DEF Commit
<1> DEFINE old == [x \in Block |-> IF x \in C THEN pnext[x] ELSE dbHashNext[x]]
<1>3. old \in [Block -> MaybeBlock]
  BY <1>1
<1>4. dbHashNext' = Relink(old, D, C)
  BY DEF Commit, RelinkDb
<1>5. pnext' \in [Block -> MaybeBlock]
  BY <1>1, <1>2, RelinkType
<1>6. dbHashNext' \in [Block -> MaybeBlock]
  <2> HIDE DEF old
  <2> QED BY <1>3, <1>4, RelinkType
<1> QED BY <1>1, <1>5, <1>6 DEF Commit

\* The lowest postponed block is the child of the best block on disk.
LEMMA NextSecondaryIsChild ==
    ASSUME NEW n \in Block, NEW t \in Anc[n],
           vpindexSecondary = Anc[n] \ Anc[t], vpindexSecondary # {}
    PROVE  /\ NextSecondary \in vpindexSecondary
           /\ NextSecondary \in Block \ {Genesis}
           /\ Parent[NextSecondary] = t
           /\ Anc[NextSecondary] = Anc[t] \cup {NextSecondary}
<1>0. t \in Block /\ Anc[n] \subseteq Block /\ t \in Anc[t] /\ t # n
  BY AncReflexive, AncTransitive
<1>1. PICK c \in vpindexSecondary : c # Genesis /\ Parent[c] = t
  BY <1>0, ChildOnPath
<1>2. Parent[c] \notin vpindexSecondary
  BY <1>0, <1>1
<1>3. NextSecondary \in vpindexSecondary /\ Parent[NextSecondary] \notin vpindexSecondary
  BY <1>1, <1>2 DEF NextSecondary
<1> DEFINE x == NextSecondary
<1> HIDE DEF x
<1>4. x \in vpindexSecondary /\ Parent[x] \notin vpindexSecondary /\ x \in Block
      /\ x \in Anc[n] /\ x \notin Anc[t]
  BY <1>0, <1>3 DEF x
<1>5. x # Genesis
  BY <1>0, <1>4, GenesisFirst
<1>6. Parent[x] \in Anc[t] /\ Parent[x] \in Block
  BY <1>4, <1>5, AncReflexive, AncTransitive
<1>7. t \in Anc[Parent[x]]
  BY <1>0, <1>4, AncLinear, AncParent
<1>8. Parent[x] = t
  <2>1. SUFFICES ASSUME Parent[x] # t PROVE FALSE
    OBVIOUS
  <2>2. nChainTrust[Parent[x]] < nChainTrust[t]
    BY <1>0, <1>6, <2>1, AncTransitive
  <2>3. nChainTrust[t] < nChainTrust[Parent[x]]
    BY <1>6, <1>7, <2>1, AncTransitive
  <2>4. nChainTrust[t] \in Nat /\ nChainTrust[Parent[x]] \in Nat
    BY <1>0, <1>6, TreeAssumption
  <2> QED BY <2>2, <2>3, <2>4
<1>9. Anc[x] = Anc[t] \cup {x}
  BY <1>4, <1>5, <1>8, TreeAssumption
<1> QED BY <1>4, <1>5, <1>8, <1>9 DEF x

\* The last hardened checkpoint exists.
LEMMA LastHardenedType == LastHardened \in Block
<1>1. PICK c \in Hardened : \A d \in Hardened : nHeight[d] <= nHeight[c]
  BY ParameterAssumption
<1>2. LastHardened \in Hardened
  BY <1>1 DEF LastHardened
<1> QED BY <1>2, ParameterAssumption

\* A new data directory satisfies Structure.
LEMMA StructureInit ==
    ASSUME Init
    PROVE  Structure
<1>1. TypeOK
  BY TreeAssumption, ParameterAssumption, LastHardenedType DEF Init, TypeOK, MaybeBlock, PC
<1> QED BY <1>1, TreeAssumption DEF Init, Structure, AtWork

\* Every step preserves Structure.
LEMMA StructureStep ==
    ASSUME Structure, [Next]_vars
    PROVE  Structure'
<1> USE TreeAssumption DEF AtWork
<1>0. TypeOK
  BY DEF Structure
<1>1. ASSUME NEW b \in Block \ {Genesis}, AcceptBlock(b)
      PROVE  Structure'
  <2>1. TypeOK'
    BY <1>0, <1>1 DEF AcceptBlock, AddToBlockIndex, TypeOK, MaybeBlock, PC, bounds
  <2>2. \A x \in dbIndex' : Anc[x] \subseteq dbIndex'
    <3>1. Anc[b] \subseteq dbIndex'
      BY <1>1 DEF AcceptBlock, AddToBlockIndex, Structure
    <3> QED BY <1>1, <3>1 DEF AcceptBlock, AddToBlockIndex, Structure
  <2>3. (pc \in AtWork \cup {"WriteSyncCheckpoint"} => pindexNew \in dbIndex)'
    BY <1>1 DEF AcceptBlock, AddToBlockIndex, Structure
  <2>4. pc' # "ConnectFurther" /\ (pc' \in AtWork => caller' # "none")
    BY <1>1 DEF AcceptBlock, AddToBlockIndex, Structure
  <2> QED BY <1>1, <2>1, <2>2, <2>3, <2>4 DEF AcceptBlock, AddToBlockIndex, Structure
<1>2. ASSUME ExtendBestChain
      PROVE  Structure'
  <2>0. pindexNew \in dbIndex /\ pindexNew \in Block /\ caller # "none" /\ pc = "SetBestChain"
    BY <1>0, <1>2 DEF ExtendBestChain, Structure, TypeOK
  <2>1. CASE Commit(pindexNew, {}, {pindexNew}) /\ pc' = "NewBest"
             /\ UNCHANGED <<pindexNew, caller, vpindexSecondary>>
    <3>1. /\ dbTxIndex' \subseteq Block
          /\ dbHashNext' \in [Block -> MaybeBlock]
          /\ pnext' \in [Block -> MaybeBlock]
          /\ dbHashBestChain' = pindexNew
          /\ dbIndex' = dbIndex /\ dbSyncCheckpoint' = dbSyncCheckpoint
      BY <1>0, <2>0, <2>1, CommitType
    <3>2. TypeOK'
      BY <1>0, <1>2, <2>0, <2>1, <3>1 DEF ExtendBestChain, TypeOK, PC, bounds
    <3> QED BY <1>2, <2>0, <2>1, <3>1, <3>2 DEF ExtendBestChain, Structure
  <2>2. CASE Return(FALSE) /\ UNCHANGED <<disk, pnext>>
    <3>1. TypeOK'
      BY <1>0, <1>2, <2>2 DEF ExtendBestChain, Return, TypeOK, MaybeBlock, PC, disk, bounds
    <3> QED BY <1>2, <2>0, <2>2, <3>1 DEF ExtendBestChain, Return, Structure, disk
  <2> QED BY <1>2, <2>1, <2>2 DEF ExtendBestChain
<1>3. ASSUME SwitchBranch
      PROVE  Structure'
  <2> DEFINE i == Intermediate(pindexNew)
             S == Secondary(pindexNew)
  <2>0. /\ pindexNew \in dbIndex /\ pindexNew \in Block /\ caller # "none"
        /\ pindexBest \in Block /\ pc = "SetBestChain"
    BY <1>0, <1>3 DEF SwitchBranch, Structure, TypeOK
  <2>1. /\ i \in Anc[pindexNew] /\ i \in Block
        /\ Anc[i] = Anc[pindexNew] \ S
    BY <2>0, IntermediateOnChain
  <2>2. S \subseteq Anc[pindexNew]
    BY DEF Secondary
  <2>3. CASE /\ Commit(i, Disconnect(i), Connect(i))
             /\ pc' = IF S = {} THEN "NewBest" ELSE "ConnectFurther"
             /\ vpindexSecondary' = S
             /\ UNCHANGED <<pindexNew, caller>>
    <3> HIDE DEF i, S
    <3>1. Disconnect(i) \subseteq Block /\ Connect(i) \subseteq Block
      BY <2>0, <2>1 DEF Disconnect, Connect
    <3>2. /\ dbTxIndex' \subseteq Block
          /\ dbHashNext' \in [Block -> MaybeBlock]
          /\ pnext' \in [Block -> MaybeBlock]
          /\ dbHashBestChain' = i
          /\ dbIndex' = dbIndex /\ dbSyncCheckpoint' = dbSyncCheckpoint
      BY <1>0, <2>1, <2>3, <3>1, CommitType
    <3>3. S \subseteq Block
      BY <2>0, <2>2, AncReflexive
    <3>4. TypeOK'
      BY <1>0, <1>3, <2>0, <2>1, <2>3, <3>2, <3>3 DEF SwitchBranch, TypeOK, PC, bounds
    <3>5. i \in dbIndex
      BY <2>0, <2>1 DEF Structure
    <3>6. S = Anc[pindexNew] \ Anc[i]
      BY <2>1, <2>2
    <3> QED BY <1>3, <2>0, <2>1, <2>3, <3>2, <3>4, <3>5, <3>6 DEF SwitchBranch, Structure
  <2>4. CASE Return(FALSE) /\ UNCHANGED <<disk, pnext>>
    <3>1. TypeOK'
      BY <1>0, <1>3, <2>4 DEF SwitchBranch, Return, TypeOK, MaybeBlock, PC, disk, bounds
    <3> QED BY <1>3, <2>0, <2>4, <3>1 DEF SwitchBranch, Return, Structure, disk
  <2> QED BY <1>3, <2>3, <2>4 DEF SwitchBranch
<1>4. ASSUME ConnectFurther
      PROVE  Structure'
  <2> DEFINE x == NextSecondary
  <2>0. /\ pindexNew \in dbIndex /\ pindexNew \in Block /\ caller # "none" /\ pc = "ConnectFurther"
        /\ dbHashBestChain \in Anc[pindexNew]
        /\ vpindexSecondary = Anc[pindexNew] \ Anc[dbHashBestChain]
        /\ vpindexSecondary # {}
    BY <1>0, <1>4 DEF ConnectFurther, Structure, TypeOK
  <2>1. /\ x \in vpindexSecondary /\ x \in Block
        /\ Anc[x] = Anc[dbHashBestChain] \cup {x}
    BY <2>0, NextSecondaryIsChild
  <2>2. CASE /\ Commit(x, {}, {x})
             /\ vpindexSecondary' = vpindexSecondary \ {x}
             /\ pc' = IF vpindexSecondary = {x} THEN "NewBest" ELSE pc
    <3> HIDE DEF x
    <3>1. /\ dbTxIndex' \subseteq Block
          /\ dbHashNext' \in [Block -> MaybeBlock]
          /\ pnext' \in [Block -> MaybeBlock]
          /\ dbHashBestChain' = x
          /\ dbIndex' = dbIndex /\ dbSyncCheckpoint' = dbSyncCheckpoint
      BY <1>0, <2>1, <2>2, CommitType
    <3>2. TypeOK'
      BY <1>0, <1>4, <2>0, <2>1, <2>2, <3>1 DEF ConnectFurther, TypeOK, PC, bounds
    <3>3. x \in Anc[pindexNew] /\ x \in dbIndex
      BY <2>0, <2>1 DEF Structure
    <3>4. /\ pindexNew' = pindexNew /\ caller' = caller /\ mapBlockIndex' = mapBlockIndex
          /\ pindexBest' = pindexBest /\ hashSyncCheckpoint' = hashSyncCheckpoint
      BY <1>4 DEF ConnectFurther
    <3>5. vpindexSecondary' = Anc[pindexNew] \ Anc[x]
      BY <2>0, <2>1, <2>2
    <3>6. pc' = "ConnectFurther" => vpindexSecondary' # {}
      BY <2>0, <2>1, <2>2
    <3> QED BY <2>0, <2>2, <3>1, <3>2, <3>3, <3>4, <3>5, <3>6 DEF Structure
  <2>3. CASE pc' = "NewBest" /\ vpindexSecondary' = {} /\ UNCHANGED <<disk, pnext>>
    <3>1. TypeOK'
      BY <1>0, <1>4, <2>3 DEF ConnectFurther, TypeOK, PC, disk, bounds
    <3> QED BY <1>4, <2>0, <2>3, <3>1 DEF ConnectFurther, Structure, disk
  <2> QED BY <1>4, <2>2, <2>3 DEF ConnectFurther
<1>5. ASSUME NewBest
      PROVE  Structure'
  <2>0. pindexNew \in dbIndex /\ pindexNew \in Block /\ caller # "none" /\ pc = "NewBest"
    BY <1>0, <1>5 DEF NewBest, Structure, TypeOK
  <2>1. TypeOK'
    BY <1>0, <1>5, <2>0 DEF NewBest, Return, TypeOK, MaybeBlock, PC, disk, bounds
  <2> QED BY <1>0, <1>5, <2>0, <2>1 DEF NewBest, Return, Structure, disk, TypeOK
<1>6. ASSUME AcceptPendingSyncCheckpoint
      PROVE  Structure'
  <2>1. TypeOK'
    BY <1>0, <1>6 DEF AcceptPendingSyncCheckpoint, Enforce, TypeOK, MaybeBlock, PC, disk, bounds
  <2> QED BY <1>6, <2>1 DEF AcceptPendingSyncCheckpoint, Enforce, ValidateSyncCheckpoint,
                            Structure, disk
<1>7. ASSUME NEW h \in Block, ProcessSyncCheckpoint(h)
      PROVE  Structure'
  <2>1. TypeOK'
    BY <1>0, <1>7, ParameterAssumption
       DEF ProcessSyncCheckpoint, Enforce, TypeOK, MaybeBlock, PC, disk
  <2> QED BY <1>7, <2>1 DEF ProcessSyncCheckpoint, Enforce, ValidateSyncCheckpoint,
                            Structure, disk
<1>8. ASSUME WriteSyncCheckpoint
      PROVE  Structure'
  <2>1. TypeOK'
    BY <1>0, <1>8 DEF WriteSyncCheckpoint, Structure, TypeOK, MaybeBlock, PC, bounds
  <2> QED BY <1>8, <2>1 DEF WriteSyncCheckpoint, Structure
<1>9. ASSUME Crash
      PROVE  Structure'
  <2>1. TypeOK'
    BY <1>0, <1>9, ParameterAssumption DEF Crash, TypeOK, MaybeBlock, PC, disk
  <2> QED BY <1>9, <2>1 DEF Crash, Structure, disk
<1>10. ASSUME LoadBlockIndex
       PROVE  Structure'
  <2>1. TypeOK'
    BY <1>0, <1>10 DEF LoadBlockIndex, TypeOK, MaybeBlock, PC, disk, bounds
  <2> QED BY <1>10, <2>1 DEF LoadBlockIndex, Structure, disk
<1>11. ASSUME UNCHANGED vars
       PROVE  Structure'
  BY <1>11 DEF Structure, TypeOK, vars, memory, disk, control, bounds
<1> QED BY <1>1, <1>2, <1>3, <1>4, <1>5, <1>6, <1>7, <1>8, <1>9, <1>10, <1>11 DEF Next

\* Structure always holds.
LEMMA StructureAlways == Spec => []Structure
<1>1. Init => Structure
  BY StructureInit
<1>2. Structure /\ [Next]_vars => Structure'
  BY StructureStep
<1> QED BY <1>1, <1>2, PTL DEF Spec

\* In every behaviour of AcceptBlock, SetBestChain, the checkpoint code and
\* LoadBlockIndex, crashes and failing blocks included, every variable keeps
\* its type; in particular the handler is never left holding a null block
\* where SetBestChain or WriteSyncCheckpoint will use it.
THEOREM TypeCorrect == Spec => []TypeOK
<1>1. Structure => TypeOK
  BY DEF Structure
<1> QED BY <1>1, StructureAlways, PTL

-----------------------------------------------------------------------------
(***************************************************************************)
(* Consistent is inductive as long as no postponed block fails.            *)
(***************************************************************************)
PostponedConnects ==
    pc = "ConnectFurther" /\ pc' = "NewBest" => dbHashBestChain' = pindexNew

\* A batch that disconnects one chain down to the fork and connects another
\* leaves the transaction index and the links of the other chain.
LEMMA CommitSwitchesChain ==
    ASSUME NEW p \in Block, NEW b \in Block,
           dbTxIndex = Anc[p], dbHashNext = Links(p), pnext = dbHashNext,
           Commit(b, Anc[p] \ Anc[b], Anc[b] \ Anc[p])
    PROVE  /\ dbTxIndex' = Anc[b]
           /\ dbHashNext' = Links(b)
           /\ pnext' = Links(b)
           /\ dbHashBestChain' = b
           /\ dbIndex' = dbIndex /\ dbSyncCheckpoint' = dbSyncCheckpoint
<1> DEFINE D == Anc[p] \ Anc[b]
           C == Anc[b] \ Anc[p]
           old == [x \in Block |-> IF x \in C THEN pnext[x] ELSE dbHashNext[x]]
<1>1. dbTxIndex' = Anc[b]
  BY DEF Commit
<1>2. old = Links(p)
  BY DEF Links
<1>3. dbHashNext' = Relink(old, D, C) /\ pnext' = Relink(Links(p), D, C)
  BY DEF Commit, RelinkDb
<1>4. Relink(Links(p), D, C) = Links(b)
  BY RelinkLinks
<1>5. dbHashNext' = Links(b) /\ pnext' = Links(b)
  <2> HIDE DEF old, D, C
  <2> QED BY <1>2, <1>3, <1>4
<1> QED BY <1>1, <1>5 DEF Commit

\* The same when a single child is connected.
LEMMA CommitExtendsChain ==
    ASSUME NEW p \in Block, NEW b \in Block, b # Genesis, Parent[b] = p,
           dbTxIndex = Anc[p], dbHashNext = Links(p), pnext = dbHashNext,
           Commit(b, {}, {b})
    PROVE  /\ dbTxIndex' = Anc[b]
           /\ dbHashNext' = Links(b)
           /\ pnext' = Links(b)
           /\ dbHashBestChain' = b
           /\ dbIndex' = dbIndex /\ dbSyncCheckpoint' = dbSyncCheckpoint
           /\ Anc[b] = Anc[p] \cup {b}
<1>1. Anc[b] = Anc[p] \cup {b} /\ b \notin Anc[p]
  BY TreeAssumption
<1>2. {} = Anc[p] \ Anc[b] /\ {b} = Anc[b] \ Anc[p]
  BY <1>1
<1>3. Commit(b, Anc[p] \ Anc[b], Anc[b] \ Anc[p])
  BY <1>2
<1> HIDE DEF Commit
<1> QED BY <1>1, <1>3, CommitSwitchesChain

\* A block that passes the checkpoint rules on top of an indexed parent is a
\* descendant of the synchronized checkpoint.
LEMMA CheckSyncKeepsCheckpoint ==
    ASSUME NEW b \in Block \ {Genesis}, CheckSync(b),
           b \notin mapBlockIndex, hashSyncCheckpoint \in mapBlockIndex,
           mapBlockIndex \subseteq Block
    PROVE  hashSyncCheckpoint \in Anc[b]
<1>1. nHeight[b] \in Nat /\ nHeight[hashSyncCheckpoint] \in Nat
  BY TreeAssumption
<1>2. nHeight[b] > nHeight[hashSyncCheckpoint]
  BY <1>1 DEF CheckSync
<1>3. hashSyncCheckpoint \in Anc[Parent[b]]
  BY <1>2 DEF CheckSync
<1> QED BY <1>3, TreeAssumption

\* A valid checkpoint that is on the best chain may be written, one that is
\* not may be switched to.
LEMMA EnforceKeepsConsistent ==
    ASSUME Structure, Consistent, pc \in {"idle", "AcceptPending"},
           NEW h \in Block, ValidateSyncCheckpoint(h), Enforce(h),
           UNCHANGED <<disk, pnext, pindexBest>>
    PROVE  Consistent'
<1>1. /\ pindexBest = dbHashBestChain /\ pindexBest \in Block
      /\ pnext = Links(pindexBest) /\ hashSyncCheckpoint = dbSyncCheckpoint
  BY DEF Structure, Consistent, TypeOK
<1>2. IsInMainChain(h) <=> h \in Anc[pindexBest]
  BY <1>1, LinksAreMembers DEF IsInMainChain
<1>3. dbSyncCheckpoint \in Anc[h]
  BY <1>1 DEF ValidateSyncCheckpoint
<1>4. dbTxIndex' = Anc[dbHashBestChain'] /\ Anc[dbHashBestChain'] \subseteq Valid
      /\ dbHashNext' = Links(dbHashBestChain')
  BY DEF Consistent, disk, Links
<1>5. CASE IsInMainChain(h)
  BY <1>1, <1>2, <1>3, <1>4, <1>5 DEF Consistent, Enforce, disk, AtWork
<1>6. CASE ~IsInMainChain(h)
  BY <1>1, <1>2, <1>3, <1>4, <1>6 DEF Consistent, Enforce, disk, AtWork
<1> QED BY <1>5, <1>6

\* A new data directory satisfies Consistent.
LEMMA ConsistentInit ==
    ASSUME Init
    PROVE  Consistent
<1>1. Links(Genesis) = [b \in Block |-> NoBlock]
  <2>1. Anc[Genesis] = {Genesis}
    BY TreeAssumption
  <2>2. \A x \in Block : ChildIn({Genesis}, x) = NoBlock
    BY DEF ChildIn
  <2> QED BY <2>1, <2>2 DEF Links
<1> QED BY <1>1, TreeAssumption, ParameterAssumption DEF Init, Consistent, AtWork

\* Every step but the failure of a postponed block preserves Consistent.
LEMMA ConsistentStep ==
    ASSUME Structure, Consistent, [Next]_vars, [PostponedConnects]_vars
    PROVE  Consistent'
<1> USE DEF AtWork
<1>0. /\ TypeOK /\ dbHashBestChain \in Block /\ dbHashBestChain \in dbIndex
      /\ dbTxIndex = Anc[dbHashBestChain] /\ Anc[dbHashBestChain] \subseteq Valid
      /\ dbHashNext = Links(dbHashBestChain)
  BY DEF Structure, TypeOK, Consistent
<1>d. ASSUME UNCHANGED disk
      PROVE  /\ dbTxIndex' = Anc[dbHashBestChain'] /\ Anc[dbHashBestChain'] \subseteq Valid
             /\ dbHashNext' = Links(dbHashBestChain')
  BY <1>0, <1>d DEF disk, Links
<1>1. ASSUME NEW b \in Block \ {Genesis}, AcceptBlock(b)
      PROVE  Consistent'
  <2>1. /\ pindexBest = dbHashBestChain /\ mapBlockIndex = dbIndex /\ pc = "idle"
        /\ hashSyncCheckpoint = dbSyncCheckpoint /\ dbSyncCheckpoint \in dbIndex
        /\ dbIndex \subseteq Block
    BY <1>1 DEF AcceptBlock, AddToBlockIndex, Structure, Consistent, TypeOK
  <2>2. b \notin Anc[pindexBest]
    BY <1>0, <1>1, <2>1 DEF AcceptBlock, AddToBlockIndex, Structure
  <2>3. CheckpointsMode = "STRICT" => dbSyncCheckpoint \in Anc[b]
    BY <1>1, <2>1, CheckSyncKeepsCheckpoint DEF AcceptBlock, AddToBlockIndex
  <2>4. /\ dbTxIndex' = Anc[dbHashBestChain'] /\ Anc[dbHashBestChain'] \subseteq Valid
        /\ dbHashNext' = Links(dbHashBestChain')
    BY <1>0, <1>1 DEF AcceptBlock, AddToBlockIndex, Links
  <2>5. CASE IsNewBest(b)
    BY <1>1, <2>1, <2>2, <2>3, <2>4, <2>5 DEF AcceptBlock, AddToBlockIndex, Consistent
  <2>6. CASE ~IsNewBest(b)
    BY <1>1, <2>1, <2>4, <2>6 DEF AcceptBlock, AddToBlockIndex, Consistent
  <2> QED BY <2>5, <2>6
<1>2. ASSUME ExtendBestChain
      PROVE  Consistent'
  <2>0. /\ pc = "SetBestChain" /\ pindexNew \in Block /\ pindexBest = dbHashBestChain
        /\ pindexNew \notin Anc[pindexBest] /\ pnext = dbHashNext
        /\ Parent[pindexNew] = dbHashBestChain
    BY <1>2 DEF ExtendBestChain, Structure, TypeOK, Consistent
  <2>1. pindexNew # Genesis
    BY <1>0, <2>0, GenesisFirst
  <2>2. CASE /\ pindexNew \in Valid
             /\ Commit(pindexNew, {}, {pindexNew}) /\ pc' = "NewBest"
             /\ UNCHANGED <<pindexNew, caller, vpindexSecondary>>
    <3>1. /\ dbTxIndex' = Anc[pindexNew] /\ dbHashNext' = Links(pindexNew)
          /\ pnext' = Links(pindexNew) /\ dbHashBestChain' = pindexNew
          /\ dbSyncCheckpoint' = dbSyncCheckpoint
          /\ Anc[pindexNew] = Anc[dbHashBestChain] \cup {pindexNew}
      BY <1>0, <2>0, <2>1, <2>2, CommitExtendsChain
    <3>2. Links(pindexNew)' = Links(pindexNew)
      BY <2>2 DEF Links
    <3>3. Links(dbHashBestChain)' = Links(pindexNew)
      BY <3>1 DEF Links
    <3> QED BY <1>0, <1>2, <2>0, <2>2, <3>1, <3>3 DEF ExtendBestChain, Consistent
  <2>3. CASE Return(FALSE) /\ UNCHANGED <<disk, pnext>>
    <3>1. pc' = "idle"
      BY <2>3 DEF Return
    <3> QED BY <1>2, <1>d, <2>0, <2>3, <3>1 DEF ExtendBestChain, Consistent, disk
  <2>4. ConnectBlock(pindexNew) = {pindexNew \in Valid}
    BY <1>0, <2>0 DEF ConnectBlock
  <2>5. CASE pindexNew \in Valid
    BY <1>2, <2>2, <2>4, <2>5 DEF ExtendBestChain
  <2>6. CASE pindexNew \notin Valid
    BY <1>2, <2>3, <2>4, <2>6 DEF ExtendBestChain
  <2> QED BY <2>5, <2>6
<1>3. ASSUME SwitchBranch
      PROVE  Consistent'
  <2> DEFINE i == Intermediate(pindexNew)
             S == Secondary(pindexNew)
  <2>0. /\ pc = "SetBestChain" /\ pindexNew \in Block /\ pindexBest = dbHashBestChain
        /\ pindexNew \notin Anc[pindexBest] /\ pnext = dbHashNext
    BY <1>3 DEF SwitchBranch, Structure, TypeOK, Consistent
  <2>1. /\ i \in Anc[pindexNew] /\ i \in Block
        /\ Anc[i] = Anc[pindexNew] \ S
    BY <1>0, <2>0, IntermediateOnChain
  <2>2. CheckpointsMode = "STRICT" => dbSyncCheckpoint \in Anc[i]
    <3>1. SUFFICES ASSUME CheckpointsMode = "STRICT"
                   PROVE  dbSyncCheckpoint \in Anc[i]
      OBVIOUS
    <3>2. dbSyncCheckpoint \in Anc[pindexNew] /\ dbSyncCheckpoint \in Anc[pindexBest]
      BY <2>0, <3>1 DEF Consistent
    <3> QED BY <1>0, <2>0, <3>2, SharedIsKept
  <2>3. S = {} => i = pindexNew
    <3>1. SUFFICES ASSUME S = {}, i # pindexNew PROVE FALSE
      OBVIOUS
    <3>2. \E c \in Anc[pindexNew] \ Anc[i] : c # Genesis /\ Parent[c] = i
      BY <2>0, <2>1, <3>1, ChildOnPath
    <3> QED BY <2>1, <3>1, <3>2
  <2> HIDE DEF i, S
  <2>4. CASE /\ Connect(i) \subseteq Valid
             /\ Commit(i, Disconnect(i), Connect(i))
             /\ pc' = IF S = {} THEN "NewBest" ELSE "ConnectFurther"
             /\ UNCHANGED <<pindexNew, caller>>
    <3>1. Commit(i, Anc[dbHashBestChain] \ Anc[i], Anc[i] \ Anc[dbHashBestChain])
      BY <2>0, <2>4 DEF Disconnect, Connect
    <3>2. /\ dbTxIndex' = Anc[i] /\ dbHashNext' = Links(i)
          /\ pnext' = Links(i) /\ dbHashBestChain' = i
          /\ dbSyncCheckpoint' = dbSyncCheckpoint
      BY <1>0, <2>0, <2>1, <3>1, CommitSwitchesChain
    <3>3. Links(dbHashBestChain)' = Links(i)
      BY <3>2 DEF Links
    <3>4. Anc[i] \subseteq Valid
      BY <1>0, <2>0, <2>4 DEF Connect
    <3> QED BY <1>3, <2>0, <2>2, <2>3, <2>4, <3>2, <3>3, <3>4 DEF SwitchBranch, Consistent
  <2>5. CASE Return(FALSE) /\ UNCHANGED <<disk, pnext>>
    <3>1. pc' = "idle"
      BY <2>5 DEF Return
    <3> QED BY <1>3, <1>d, <2>0, <2>5, <3>1 DEF SwitchBranch, Consistent, disk
  <2>6. Reorganize(i) = {Connect(i) \subseteq Valid}
    BY <1>0, <2>0 DEF Reorganize
  <2>7. CASE Connect(i) \subseteq Valid
    BY <1>3, <2>4, <2>6, <2>7 DEF SwitchBranch, i, S
  <2>8. CASE ~(Connect(i) \subseteq Valid)
    BY <1>3, <2>5, <2>6, <2>8 DEF SwitchBranch, i, S
  <2> QED BY <2>7, <2>8
<1>4. ASSUME ConnectFurther
      PROVE  Consistent'
  <2> DEFINE x == NextSecondary
  <2>0. /\ pindexNew \in Block /\ pc = "ConnectFurther" /\ pnext = dbHashNext
        /\ dbHashBestChain \in Anc[pindexNew]
        /\ vpindexSecondary = Anc[pindexNew] \ Anc[dbHashBestChain]
        /\ vpindexSecondary # {}
    BY <1>0, <1>4 DEF ConnectFurther, Structure, Consistent, TypeOK
  <2>1. /\ x \in vpindexSecondary /\ x \in Block \ {Genesis}
        /\ Parent[x] = dbHashBestChain
        /\ Anc[x] = Anc[dbHashBestChain] \cup {x}
    BY <2>0, NextSecondaryIsChild
  <2>2. ConnectBlock(x) = {x \in Valid}
    BY <1>0, <2>1 DEF ConnectBlock
  <2>3. PostponedConnects
    BY <1>4, <2>0 DEF ConnectFurther, Commit, PostponedConnects, vars, control, disk
  <2> HIDE DEF x
  <2>4. CASE /\ x \in Valid
             /\ Commit(x, {}, {x})
             /\ pc' = IF vpindexSecondary = {x} THEN "NewBest" ELSE pc
    <3>1. /\ dbTxIndex' = Anc[x] /\ dbHashNext' = Links(x)
          /\ pnext' = Links(x) /\ dbHashBestChain' = x
          /\ dbSyncCheckpoint' = dbSyncCheckpoint
      BY <1>0, <2>0, <2>1, <2>4, CommitExtendsChain
    <3>2. Links(dbHashBestChain)' = Links(x)
      BY <3>1 DEF Links
    <3>3. /\ pindexNew' = pindexNew /\ caller' = caller /\ pindexBest' = pindexBest
      BY <1>4 DEF ConnectFurther
    <3>4. pc' = "NewBest" => dbHashBestChain' = pindexNew'
      BY <2>0, <2>3, <3>3 DEF PostponedConnects
    <3> QED BY <1>0, <2>0, <2>1, <2>4, <3>1, <3>2, <3>3, <3>4 DEF Consistent
  <2>5. CASE pc' = "NewBest" /\ UNCHANGED <<disk, pnext>>
    <3>1. dbHashBestChain = pindexNew
      BY <2>0, <2>3, <2>5 DEF PostponedConnects, disk
    <3> QED BY <2>0, <3>1
  <2>6. CASE x \in Valid
    BY <1>4, <2>2, <2>4, <2>6 DEF ConnectFurther, x
  <2>7. CASE x \notin Valid
    BY <1>4, <2>2, <2>5, <2>7 DEF ConnectFurther, x
  <2> QED BY <2>6, <2>7
<1>5. ASSUME NewBest
      PROVE  Consistent'
  <2>0. /\ pc = "NewBest" /\ dbHashBestChain = pindexNew /\ caller # "none"
        /\ caller \in {"none", "AddToBlockIndex", "SyncCheckpoint"}
        /\ pnext = dbHashNext /\ pindexNew \in Anc[pindexNew]
    BY <1>0, <1>5, AncReflexive DEF NewBest, Structure, Consistent, TypeOK
  <2>1. /\ dbTxIndex' = Anc[dbHashBestChain'] /\ Anc[dbHashBestChain'] \subseteq Valid
        /\ dbHashNext' = Links(dbHashBestChain')
    BY <1>5, <1>d DEF NewBest
  <2>2. CASE caller = "AddToBlockIndex"
    <3>1. pc' = "AcceptPending" /\ pindexBest' = pindexNew
      BY <1>5, <2>2 DEF NewBest, Return
    <3> QED BY <1>5, <2>0, <2>1, <3>1 DEF NewBest, Consistent, disk
  <2>3. CASE caller = "SyncCheckpoint"
    <3>1. pc' = "WriteSyncCheckpoint" /\ pindexBest' = pindexNew /\ pindexNew' = pindexNew
      BY <1>5, <2>3 DEF NewBest, Return
    <3>2. dbSyncCheckpoint \in Anc[pindexNew]
      BY <2>0, <2>3 DEF Consistent
    <3> QED BY <1>5, <2>0, <2>1, <3>1, <3>2 DEF NewBest, Consistent, disk
  <2> QED BY <2>0, <2>2, <2>3
<1>6. ASSUME AcceptPendingSyncCheckpoint
      PROVE  Consistent'
  <2>0. pc = "AcceptPending" /\ UNCHANGED <<disk, pnext, pindexBest>>
        /\ mapBlockIndex \subseteq Block
    BY <1>0, <1>6 DEF AcceptPendingSyncCheckpoint, TypeOK
  <2>1. CASE /\ hashPendingCheckpoint \in mapBlockIndex
             /\ ValidateSyncCheckpoint(hashPendingCheckpoint)
             /\ Enforce(hashPendingCheckpoint)
    BY <2>0, <2>1, EnforceKeepsConsistent
  <2>2. CASE pc' = "idle"
    BY <1>d, <2>0, <2>2 DEF Consistent, disk
  <2> QED BY <1>6, <2>1, <2>2 DEF AcceptPendingSyncCheckpoint
<1>7. ASSUME NEW h \in Block, ProcessSyncCheckpoint(h)
      PROVE  Consistent'
  <2>0. pc = "idle" /\ UNCHANGED <<disk, pnext, pindexBest>>
    BY <1>7 DEF ProcessSyncCheckpoint
  <2>1. CASE ValidateSyncCheckpoint(h) /\ Enforce(h)
    BY <2>0, <2>1, EnforceKeepsConsistent
  <2>2. CASE pc' = "idle"
    BY <1>d, <2>0, <2>2 DEF Consistent, disk
  <2> QED BY <1>7, <2>0, <2>1, <2>2 DEF ProcessSyncCheckpoint
<1>8. ASSUME WriteSyncCheckpoint
      PROVE  Consistent'
  <2>1. /\ pindexNew \in Anc[dbHashBestChain] /\ pindexBest = dbHashBestChain
        /\ pc' = "idle" /\ dbSyncCheckpoint' = pindexNew
    BY <1>8 DEF WriteSyncCheckpoint, Consistent
  <2>2. /\ dbTxIndex' = Anc[dbHashBestChain'] /\ Anc[dbHashBestChain'] \subseteq Valid
        /\ dbHashNext' = Links(dbHashBestChain')
    BY <1>0, <1>8 DEF WriteSyncCheckpoint, Links
  <2> QED BY <1>8, <2>1, <2>2 DEF WriteSyncCheckpoint, Consistent
<1>9. ASSUME Crash
      PROVE  Consistent'
  BY <1>9, <1>d DEF Crash, Consistent, disk
<1>10. ASSUME LoadBlockIndex
       PROVE  Consistent'
  BY <1>10, <1>d DEF LoadBlockIndex, Consistent, disk
<1>11. ASSUME UNCHANGED vars
       PROVE  Consistent'
  BY <1>11, <1>d DEF Consistent, vars, memory, disk, control
<1> QED BY <1>1, <1>2, <1>3, <1>4, <1>5, <1>6, <1>7, <1>8, <1>9, <1>10, <1>11 DEF Next

\* Consistent always holds, as long as no postponed block fails to connect.
LEMMA ConsistentAlways == Spec /\ NoPostponedFailure => []Consistent
<1>1. Init => Consistent
  BY ConsistentInit
<1>2. Structure /\ Consistent /\ [Next]_vars /\ [PostponedConnects]_vars => Consistent'
  BY ConsistentStep
<1>3. NoPostponedFailure => [][PostponedConnects]_vars
  BY PTL DEF NoPostponedFailure, PostponedConnects
<1> QED BY <1>1, <1>2, <1>3, StructureAlways, PTL DEF Spec

-----------------------------------------------------------------------------
(***************************************************************************)
(* The theorems.                                                           *)
(***************************************************************************)

\* What the invariants of the runs need from the inductive ones.
LEMMA ConsistentSuffices ==
    ASSUME Structure, Consistent
    PROVE  /\ MemoryFollowsDisk
           /\ TxIndexIsBestChain
           /\ HashNextIsBestChain
           /\ MainChainFlagIsExact
           /\ CheckpointOnBestChain
<1>1. MemoryFollowsDisk
  BY DEF Structure, Consistent, MemoryFollowsDisk
<1>2. TxIndexIsBestChain
  BY DEF Consistent, TxIndexIsBestChain
<1>3. HashNextIsBestChain
  BY DEF Consistent, HashNextIsBestChain, Links
<1>4. MainChainFlagIsExact
  <2> SUFFICES ASSUME pc = "idle", NEW b \in mapBlockIndex
               PROVE  IsInMainChain(b) <=> b \in Anc[pindexBest]
    BY DEF MainChainFlagIsExact
  <2>1. pnext = Links(pindexBest) /\ pindexBest \in Block /\ b \in Block
    BY DEF Structure, Consistent, TypeOK
  <2> QED BY <2>1, LinksAreMembers DEF IsInMainChain
<1>5. CheckpointOnBestChain
  BY DEF Structure, Consistent, CheckpointOnBestChain
<1> QED BY <1>1, <1>2, <1>3, <1>4, <1>5

\* As long as no postponed block of SetBestChain fails to connect, outside
\* SetBestChain memory agrees with the database: index, best block, links and
\* synchronized checkpoint, in every interleaving of blocks, checkpoint
\* messages, failing blocks and crashes, for every block tree.
THEOREM MemoryIsDisk == Spec /\ NoPostponedFailure => []MemoryFollowsDisk
<1>1. Structure /\ Consistent => MemoryFollowsDisk
  BY ConsistentSuffices
<1> QED BY <1>1, StructureAlways, ConsistentAlways, PTL

\* Under the same premise, at every commit and after every crash the
\* transaction index on disk is exactly that of the chain hashBestChain names.
THEOREM DatabaseIsOneChain == Spec /\ NoPostponedFailure => []TxIndexIsBestChain
<1>1. Structure /\ Consistent => TxIndexIsBestChain
  BY ConsistentSuffices
<1> QED BY <1>1, StructureAlways, ConsistentAlways, PTL

\* Under the same premise, so are the hashNext links on disk, from which
\* LoadBlockIndex rebuilds the main chain.
THEOREM LinksAreOneChain == Spec /\ NoPostponedFailure => []HashNextIsBestChain
<1>1. Structure /\ Consistent => HashNextIsBestChain
  BY ConsistentSuffices
<1> QED BY <1>1, StructureAlways, ConsistentAlways, PTL

\* Under the same premise, between handlers CBlockIndex::IsInMainChain, which
\* looks at one link only, is exact.
THEOREM MainChainFlag == Spec /\ NoPostponedFailure => []MainChainFlagIsExact
<1>1. Structure /\ Consistent => MainChainFlagIsExact
  BY ConsistentSuffices
<1> QED BY <1>1, StructureAlways, ConsistentAlways, PTL

\* Under the same premise, with -cppolicy=strict neither the chain in memory
\* nor the chain on disk ever leaves the synchronized checkpoint.
THEOREM CheckpointBinds == Spec /\ NoPostponedFailure => []CheckpointOnBestChain
<1>1. Structure /\ Consistent => CheckpointOnBestChain
  BY ConsistentSuffices
<1> QED BY <1>1, StructureAlways, ConsistentAlways, PTL

-----------------------------------------------------------------------------
(***************************************************************************)
(* The trust of the chain on disk.  This holds of every behaviour, whether *)
(* postponed blocks fail or not: then memory is ahead of the disk, never   *)
(* behind it.                                                              *)
(***************************************************************************)
Trusted ==
    /\ pc \in {"idle", "AcceptPending", "WriteSyncCheckpoint", "SetBestChain"}
          => nChainTrust[dbHashBestChain] <= nChainTrust[pindexBest]
    /\ pc \in AtWork /\ caller = "AddToBlockIndex"
          => nChainTrust[pindexNew] > nChainTrust[pindexBest]
    /\ pc = "NewBest" => nChainTrust[dbHashBestChain] <= nChainTrust[pindexNew]

\* The block SetBestChain reorganises to has more trust than the best one, if
\* the block it was called for has.
LEMMA IntermediateTrust ==
    ASSUME NEW n \in Block, pindexBest \in Block,
           nChainTrust[n] > nChainTrust[pindexBest]
    PROVE  nChainTrust[Intermediate(n)] > nChainTrust[pindexBest]
<1> DEFINE i == Intermediate(n)
<1>1. i \in Anc[n] /\ i \in Block /\ Anc[i] = Anc[n] \ Secondary(n)
  BY IntermediateOnChain
<1> HIDE DEF i
<1> SUFFICES ASSUME i # n PROVE nChainTrust[i] > nChainTrust[pindexBest]
  BY DEF i
<1>2. PICK c \in Anc[n] \ Anc[i] : c # Genesis /\ Parent[c] = i
  BY <1>1, ChildOnPath
<1>3. c \in Secondary(n)
  BY <1>1, <1>2
<1> QED BY <1>2, <1>3 DEF Secondary

\* Every step preserves Trusted, and lowers the trust of the chain on disk
\* only for a checkpoint.
LEMMA TrustedStep ==
    ASSUME Structure, Structure', Trusted, [Next]_vars
    PROVE  /\ Trusted'
           /\ \/ dbHashBestChain' = dbHashBestChain
              \/ nChainTrust[dbHashBestChain'] > nChainTrust[dbHashBestChain]
              \/ caller = "SyncCheckpoint"
<1> USE DEF AtWork
<1> DEFINE Goal == /\ Trusted'
                   /\ \/ dbHashBestChain' = dbHashBestChain
                      \/ nChainTrust[dbHashBestChain'] > nChainTrust[dbHashBestChain]
                      \/ caller = "SyncCheckpoint"
<1>0. /\ dbHashBestChain \in Block /\ dbHashBestChain' \in Block
      /\ pc # "down" => pindexBest \in Block
      /\ pc \in AtWork => pindexNew \in Block
      /\ caller \in {"none", "AddToBlockIndex", "SyncCheckpoint"}
      /\ pc \in AtWork => caller # "none"
  BY DEF Structure, TypeOK
<1>n. \A b \in Block : nChainTrust[b] \in Nat
  BY TreeAssumption
<1>1. ASSUME NEW b \in Block \ {Genesis}, AcceptBlock(b)
      PROVE  Goal
  <2>1. dbHashBestChain' = dbHashBestChain /\ pindexBest' = pindexBest /\ pc = "idle"
    BY <1>1 DEF AcceptBlock, AddToBlockIndex
  <2>2. CASE IsNewBest(b)
    <3>1. pc' = "SetBestChain" /\ pindexNew' = b
      BY <1>1, <2>2 DEF AcceptBlock, AddToBlockIndex
    <3> QED BY <1>0, <1>n, <2>1, <2>2, <3>1 DEF IsNewBest, Trusted
  <2>3. CASE ~IsNewBest(b)
    <3>1. pc' = "AcceptPending"
      BY <1>1, <2>3 DEF AcceptBlock, AddToBlockIndex
    <3> QED BY <1>0, <1>n, <2>1, <3>1 DEF Trusted
  <2> QED BY <2>2, <2>3
<1>2. ASSUME ExtendBestChain
      PROVE  Goal
  <2>0. pc = "SetBestChain" /\ pindexBest' = pindexBest
    BY <1>2 DEF ExtendBestChain
  <2>1. CASE Commit(pindexNew, {}, {pindexNew}) /\ pc' = "NewBest"
             /\ UNCHANGED <<pindexNew, caller, vpindexSecondary>>
    <3>1. dbHashBestChain' = pindexNew
      BY <2>1 DEF Commit
    <3> QED BY <1>0, <1>n, <2>0, <2>1, <3>1 DEF Trusted
  <2>2. CASE Return(FALSE) /\ UNCHANGED <<disk, pnext>>
    <3>1. pc' = "idle" /\ dbHashBestChain' = dbHashBestChain
      BY <2>2 DEF Return, disk
    <3> QED BY <1>0, <1>n, <2>0, <3>1 DEF Trusted
  <2> QED BY <1>2, <2>1, <2>2 DEF ExtendBestChain
<1>3. ASSUME SwitchBranch
      PROVE  Goal
  <2> DEFINE i == Intermediate(pindexNew)
             S == Secondary(pindexNew)
  <2>0. pc = "SetBestChain" /\ pindexBest' = pindexBest
    BY <1>3 DEF SwitchBranch
  <2>1. /\ i \in Anc[pindexNew] /\ i \in Block
    BY <1>0, <2>0, IntermediateOnChain
  <2>2. caller = "AddToBlockIndex" => nChainTrust[i] > nChainTrust[pindexBest]
    BY <1>0, <2>0, IntermediateTrust DEF Trusted
  <2>3. nChainTrust[i] <= nChainTrust[pindexNew]
    BY <1>0, <2>0, <2>1, AncTransitive
  <2> HIDE DEF i, S
  <2>4. CASE /\ Commit(i, Disconnect(i), Connect(i))
             /\ pc' = IF S = {} THEN "NewBest" ELSE "ConnectFurther"
             /\ UNCHANGED <<pindexNew, caller>>
    <3>1. dbHashBestChain' = i
      BY <2>4 DEF Commit
    <3> QED BY <1>0, <1>n, <2>0, <2>1, <2>2, <2>3, <2>4, <3>1 DEF Trusted
  <2>5. CASE Return(FALSE) /\ UNCHANGED <<disk, pnext>>
    <3>1. pc' = "idle" /\ dbHashBestChain' = dbHashBestChain
      BY <2>5 DEF Return, disk
    <3> QED BY <1>0, <1>n, <2>0, <3>1 DEF Trusted
  <2> QED BY <1>3, <2>4, <2>5 DEF SwitchBranch, i, S
<1>4. ASSUME ConnectFurther
      PROVE  Goal
  <2> DEFINE x == NextSecondary
  <2>0. /\ pc = "ConnectFurther" /\ pindexBest' = pindexBest
        /\ pindexNew' = pindexNew /\ caller' = caller
    BY <1>4 DEF ConnectFurther
  <2>1. /\ dbHashBestChain \in Anc[pindexNew]
        /\ vpindexSecondary = Anc[pindexNew] \ Anc[dbHashBestChain]
        /\ vpindexSecondary # {}
    BY <2>0 DEF Structure
  <2>2. /\ x \in Anc[pindexNew] \ Anc[dbHashBestChain] /\ x \in Block
        /\ Anc[x] = Anc[dbHashBestChain] \cup {x}
    BY <1>0, <2>0, <2>1, NextSecondaryIsChild
  <2>3. nChainTrust[dbHashBestChain] < nChainTrust[x]
    BY <1>0, <2>2, AncReflexive, AncTransitive
  <2>4. /\ nChainTrust[dbHashBestChain] <= nChainTrust[pindexNew]
        /\ nChainTrust[x] <= nChainTrust[pindexNew]
    BY <1>0, <2>0, <2>1, <2>2, AncTransitive
  <2> HIDE DEF x
  <2>5. CASE /\ Commit(x, {}, {x})
             /\ pc' = IF vpindexSecondary = {x} THEN "NewBest" ELSE pc
    <3>1. dbHashBestChain' = x
      BY <2>5 DEF Commit
    <3> QED BY <1>0, <1>n, <2>0, <2>2, <2>3, <2>4, <2>5, <3>1 DEF Trusted
  <2>6. CASE pc' = "NewBest" /\ UNCHANGED disk
    <3>1. dbHashBestChain' = dbHashBestChain
      BY <2>6 DEF disk
    <3> QED BY <1>0, <1>n, <2>0, <2>4, <2>6, <3>1 DEF Trusted
  <2> QED BY <1>4, <2>5, <2>6 DEF ConnectFurther, x
<1>5. ASSUME NewBest
      PROVE  Goal
  <2>1. /\ pc = "NewBest" /\ dbHashBestChain' = dbHashBestChain /\ pindexBest' = pindexNew
        /\ pc' \in {"AcceptPending", "WriteSyncCheckpoint"}
    BY <1>5 DEF NewBest, Return, disk
  <2> QED BY <1>0, <1>n, <2>1 DEF Trusted
<1>6. ASSUME NEW h, Enforce(h), pc \in {"idle", "AcceptPending"},
             UNCHANGED <<dbHashBestChain, pindexBest>>
      PROVE  Goal
  <2>1. pc' = "WriteSyncCheckpoint" \/ (pc' = "SetBestChain" /\ caller' = "SyncCheckpoint")
    BY <1>6 DEF Enforce
  <2> QED BY <1>0, <1>6, <1>n, <2>1 DEF Trusted
<1>7. ASSUME pc \in {"idle", "AcceptPending", "WriteSyncCheckpoint"},
             pc' \in {"idle", "AcceptPending"},
             UNCHANGED <<dbHashBestChain, pindexBest>>
      PROVE  Goal
  BY <1>0, <1>7, <1>n DEF Trusted
<1>8. ASSUME AcceptPendingSyncCheckpoint
      PROVE  Goal
  <2>1. pc = "AcceptPending" /\ UNCHANGED <<dbHashBestChain, pindexBest>>
    BY <1>8 DEF AcceptPendingSyncCheckpoint, disk
  <2>2. CASE Enforce(hashPendingCheckpoint)
    BY <1>6, <2>1, <2>2
  <2>3. CASE pc' = "idle"
    BY <1>7, <2>1, <2>3
  <2> QED BY <1>8, <2>2, <2>3 DEF AcceptPendingSyncCheckpoint
<1>9. ASSUME NEW h \in Block, ProcessSyncCheckpoint(h)
      PROVE  Goal
  <2>1. pc = "idle" /\ UNCHANGED <<dbHashBestChain, pindexBest>>
    BY <1>9 DEF ProcessSyncCheckpoint, disk
  <2>2. CASE Enforce(h)
    BY <1>6, <2>1, <2>2
  <2>3. CASE pc' = pc
    BY <1>7, <2>1, <2>3
  <2> QED BY <1>9, <2>2, <2>3 DEF ProcessSyncCheckpoint
<1>10. ASSUME WriteSyncCheckpoint
       PROVE  Goal
  <2>1. pc = "WriteSyncCheckpoint" /\ pc' = "idle" /\ UNCHANGED <<dbHashBestChain, pindexBest>>
    BY <1>10 DEF WriteSyncCheckpoint
  <2> QED BY <1>7, <2>1
<1>11. ASSUME Crash
       PROVE  Goal
  <2>1. pc' = "down" /\ dbHashBestChain' = dbHashBestChain
    BY <1>11 DEF Crash, disk
  <2> QED BY <1>0, <1>n, <2>1 DEF Trusted
<1>12. ASSUME LoadBlockIndex
       PROVE  Goal
  <2>1. pc' = "idle" /\ dbHashBestChain' = dbHashBestChain /\ pindexBest' = dbHashBestChain
    BY <1>12 DEF LoadBlockIndex, disk
  <2> QED BY <1>0, <1>n, <2>1 DEF Trusted
<1>13. ASSUME UNCHANGED vars
       PROVE  Goal
  <2>1. UNCHANGED <<pc, caller, pindexNew, pindexBest, dbHashBestChain>>
    BY <1>13 DEF vars, memory, disk, control
  <2> QED BY <1>0, <1>n, <2>1 DEF Trusted
<1> QED BY <1>1, <1>2, <1>3, <1>4, <1>5, <1>8, <1>9, <1>10, <1>11, <1>12, <1>13 DEF Next

\* Whatever blocks arrive, fail or are cut short by a crash, the chain on disk
\* changes to one with no more trust in no step but one that SetBestChain takes
\* for a checkpoint: in particular the first batch of a reorganisation, after
\* which the process may end, already has more trust than what it replaces.
THEOREM TrustGrows == Spec => TrustLostOnlyToCheckpoint
<1>1. Init => Trusted
  BY TreeAssumption DEF Init, Trusted, AtWork
<1>2. Structure /\ Structure' /\ Trusted /\ [Next]_vars
        => /\ Trusted'
           /\ [\/ dbHashBestChain' = dbHashBestChain
               \/ nChainTrust[dbHashBestChain'] > nChainTrust[dbHashBestChain]
               \/ caller = "SyncCheckpoint"]_vars
  BY TrustedStep
<1> QED BY <1>1, <1>2, StructureAlways, PTL DEF Spec, TrustLostOnlyToCheckpoint

-----------------------------------------------------------------------------
(***************************************************************************)
(* The best chain is the most trusted one.  A crash between the batch that *)
(* indexes a block and the one that connects it, and a checkpoint that     *)
(* forces a branch, both break this for good reason, so the theorem is     *)
(* about a node without either.                                            *)
(***************************************************************************)
NoCheckpointOrCrash == MaxCrashes = 0 /\ MaxMessages = 0 /\ LastHardened = Genesis

\* Whether b is one of the blocks that cannot be the best: its chain is not
\* all valid, or it has no more trust than c.
NoBetter(b, c) == Anc[b] \subseteq Valid => nChainTrust[b] <= nChainTrust[c]

MostTrusted ==
    /\ pc \in {"idle", "AcceptPending", "SetBestChain", "ConnectFurther", "NewBest"}
    /\ hashPendingCheckpoint = NoBlock
    /\ pc \in AtWork => caller = "AddToBlockIndex"
    /\ \A b \in mapBlockIndex : ~(pc \in AtWork /\ b = pindexNew) => NoBetter(b, pindexBest)

\* Every step of such a node but the failure of a postponed block preserves
\* MostTrusted: the block at work is either connected, and then it is the best
\* one, or its chain is not valid.
LEMMA MostTrustedStep ==
    ASSUME NoCheckpointOrCrash, Structure, Structure', Consistent, Trusted, MostTrusted,
           [Next]_vars
    PROVE  MostTrusted'
<1> USE DEF AtWork
<1>0. /\ pc # "down" /\ pindexBest \in Block /\ mapBlockIndex \subseteq Block
      /\ pc \in AtWork => pindexNew \in Block
      /\ dbHashBestChain \in Block /\ dbTxIndex = Anc[dbHashBestChain]
      /\ nCrashes \in 0 .. MaxCrashes /\ nMessages \in 0 .. MaxMessages
  BY DEF Structure, TypeOK, Consistent, MostTrusted
<1>n. \A b \in Block : nChainTrust[b] \in Nat
  BY TreeAssumption
<1>k. ASSUME UNCHANGED <<mapBlockIndex, pindexBest, hashPendingCheckpoint>>,
             pc \in {"idle", "AcceptPending"}, pc' \in {"idle", "AcceptPending"}
      PROVE  MostTrusted'
  BY <1>k DEF MostTrusted, NoBetter
<1>f. ASSUME UNCHANGED <<mapBlockIndex, pindexBest, hashPendingCheckpoint>>,
             pc \in AtWork, pc' = "idle", ~(Anc[pindexNew] \subseteq Valid)
      PROVE  MostTrusted'
  BY <1>f DEF MostTrusted, NoBetter
<1>w. ASSUME UNCHANGED <<mapBlockIndex, pindexBest, hashPendingCheckpoint, pindexNew, caller>>,
             pc \in AtWork, pc' \in AtWork
      PROVE  MostTrusted'
  BY <1>w DEF MostTrusted, NoBetter
<1>1. ASSUME NEW b \in Block \ {Genesis}, AcceptBlock(b)
      PROVE  MostTrusted'
  <2>1. /\ pc = "idle" /\ mapBlockIndex' = mapBlockIndex \cup {b}
        /\ pindexBest' = pindexBest /\ hashPendingCheckpoint' = hashPendingCheckpoint
    BY <1>1 DEF AcceptBlock, AddToBlockIndex
  <2>2. CASE IsNewBest(b)
    <3>1. pc' = "SetBestChain" /\ pindexNew' = b /\ caller' = "AddToBlockIndex"
      BY <1>1, <2>2 DEF AcceptBlock, AddToBlockIndex
    <3> QED BY <2>1, <3>1 DEF MostTrusted, NoBetter
  <2>3. CASE ~IsNewBest(b)
    <3>1. pc' = "AcceptPending"
      BY <1>1, <2>3 DEF AcceptBlock, AddToBlockIndex
    <3>2. nChainTrust[b] <= nChainTrust[pindexBest]
      BY <1>0, <1>n, <2>3 DEF IsNewBest
    <3> QED BY <2>1, <3>1, <3>2 DEF MostTrusted, NoBetter
  <2> QED BY <2>2, <2>3
<1>2. ASSUME ExtendBestChain
      PROVE  MostTrusted'
  <2>0. /\ pc = "SetBestChain" /\ UNCHANGED <<mapBlockIndex, pindexBest, hashPendingCheckpoint>>
        /\ Parent[pindexNew] = dbHashBestChain
        /\ pindexNew \in Anc[pindexNew]
    BY <1>0, <1>2, AncReflexive DEF ExtendBestChain, Consistent
  <2>1. ConnectBlock(pindexNew) = {pindexNew \in Valid}
    BY <1>0, <2>0 DEF ConnectBlock
  <2>2. CASE pindexNew \in Valid
    <3>1. pc' = "NewBest" /\ UNCHANGED <<pindexNew, caller>>
      BY <1>2, <2>1, <2>2 DEF ExtendBestChain
    <3> QED BY <1>w, <2>0, <3>1
  <2>3. CASE pindexNew \notin Valid
    <3>1. pc' = "idle"
      BY <1>2, <2>1, <2>3 DEF ExtendBestChain, Return
    <3> QED BY <1>f, <2>0, <2>3, <3>1
  <2> QED BY <2>2, <2>3
<1>3. ASSUME SwitchBranch
      PROVE  MostTrusted'
  <2> DEFINE i == Intermediate(pindexNew)
  <2>0. /\ pc = "SetBestChain" /\ UNCHANGED <<mapBlockIndex, pindexBest, hashPendingCheckpoint>>
        /\ pindexBest = dbHashBestChain
    BY <1>3 DEF SwitchBranch, Consistent
  <2>1. Anc[i] \subseteq Anc[pindexNew]
    BY <1>0, <2>0, IntermediateOnChain
  <2>2. Reorganize(i) = {Connect(i) \subseteq Valid}
    BY <1>0, <2>0 DEF Reorganize
  <2> HIDE DEF i
  <2>3. CASE Connect(i) \subseteq Valid
    <3>1. pc' \in {"NewBest", "ConnectFurther"} /\ UNCHANGED <<pindexNew, caller>>
      BY <1>3, <2>2, <2>3 DEF SwitchBranch, i
    <3> QED BY <1>w, <2>0, <3>1
  <2>4. CASE ~(Connect(i) \subseteq Valid)
    <3>1. pc' = "idle"
      BY <1>3, <2>2, <2>4 DEF SwitchBranch, Return, i
    <3>2. ~(Anc[pindexNew] \subseteq Valid)
      BY <2>1, <2>4 DEF Connect
    <3> QED BY <1>f, <2>0, <3>1, <3>2
  <2> QED BY <2>3, <2>4
<1>4. ASSUME ConnectFurther
      PROVE  MostTrusted'
  <2>1. /\ pc = "ConnectFurther" /\ pc' \in {"ConnectFurther", "NewBest"}
        /\ UNCHANGED <<mapBlockIndex, pindexBest, hashPendingCheckpoint, pindexNew, caller>>
    BY <1>4 DEF ConnectFurther
  <2> QED BY <1>w, <2>1
<1>5. ASSUME NewBest
      PROVE  MostTrusted'
  <2>1. /\ pc = "NewBest" /\ pindexBest' = pindexNew
        /\ UNCHANGED <<mapBlockIndex, hashPendingCheckpoint>>
    BY <1>5 DEF NewBest
  <2>2. caller = "AddToBlockIndex" /\ nChainTrust[pindexNew] > nChainTrust[pindexBest]
    BY <2>1 DEF MostTrusted, Trusted
  <2>3. pc' = "AcceptPending"
    BY <1>5, <2>2 DEF NewBest, Return
  <2>4. \A b \in mapBlockIndex : NoBetter(b, pindexNew)
    <3> SUFFICES ASSUME NEW b \in mapBlockIndex, Anc[b] \subseteq Valid
                 PROVE  nChainTrust[b] <= nChainTrust[pindexNew]
      BY DEF NoBetter
    <3>1. CASE b = pindexNew
      BY <1>0, <1>n, <2>1, <3>1
    <3>2. CASE b # pindexNew
      <4>1. nChainTrust[b] <= nChainTrust[pindexBest]
        BY <3>2 DEF MostTrusted, NoBetter
      <4> QED BY <1>0, <1>n, <2>1, <2>2, <4>1
    <3> QED BY <3>1, <3>2
  <2> QED BY <2>1, <2>3, <2>4 DEF MostTrusted, NoBetter
<1>6. ASSUME AcceptPendingSyncCheckpoint
      PROVE  MostTrusted'
  <2>1. /\ hashPendingCheckpoint \notin mapBlockIndex
    BY <1>0, TreeAssumption DEF MostTrusted
  <2>2. /\ pc = "AcceptPending" /\ pc' = "idle"
        /\ UNCHANGED <<mapBlockIndex, pindexBest, hashPendingCheckpoint>>
    BY <1>6, <2>1 DEF AcceptPendingSyncCheckpoint
  <2> QED BY <1>k, <2>2
<1>7. ASSUME NEW h \in Block, ProcessSyncCheckpoint(h)
      PROVE  MostTrusted'
  BY <1>0, <1>7 DEF ProcessSyncCheckpoint, NoCheckpointOrCrash
<1>8. ASSUME WriteSyncCheckpoint
      PROVE  MostTrusted'
  BY <1>8 DEF WriteSyncCheckpoint, MostTrusted
<1>9. ASSUME Crash
      PROVE  MostTrusted'
  BY <1>0, <1>9 DEF Crash, NoCheckpointOrCrash
<1>10. ASSUME LoadBlockIndex
       PROVE  MostTrusted'
  BY <1>0, <1>10 DEF LoadBlockIndex
<1>11. ASSUME UNCHANGED vars
       PROVE  MostTrusted'
  BY <1>11 DEF MostTrusted, NoBetter, vars, memory, control
<1> QED BY <1>1, <1>2, <1>3, <1>4, <1>5, <1>6, <1>7, <1>8, <1>9, <1>10, <1>11 DEF Next

\* For a node that meets no checkpoint, no crash and no failing postponed
\* block: between handlers, no chain in the index that connects as a whole has
\* more trust than the best chain, however many blocks that do not connect
\* (and stay in the index) and descendants of them arrive in between.
THEOREM MostTrustedChainWins ==
    ASSUME NoCheckpointOrCrash
    PROVE  Spec /\ NoPostponedFailure => []BestIsMostTrusted
<1>1. Init => Trusted
  BY TreeAssumption DEF Init, Trusted, AtWork
<1>2. Structure /\ Structure' /\ Trusted /\ [Next]_vars => Trusted'
  BY TrustedStep
<1>3. Init => MostTrusted
  BY TreeAssumption DEF Init, MostTrusted, NoBetter, NoCheckpointOrCrash, AtWork
<1>4. Structure /\ Structure' /\ Consistent /\ Trusted /\ MostTrusted /\ [Next]_vars
        => MostTrusted'
  BY MostTrustedStep
<1>5. MostTrusted => BestIsMostTrusted
  BY DEF MostTrusted, BestIsMostTrusted, NoBetter, AtWork
<1> QED BY <1>1, <1>2, <1>3, <1>4, <1>5, StructureAlways, ConsistentAlways, PTL DEF Spec

-----------------------------------------------------------------------------
(***************************************************************************)
(* Refinement.                                                             *)
(***************************************************************************)
ledger == <<dbIndex, dbHashBestChain, dbSyncCheckpoint>>

\* A batch that commits a new best block is the step Adopt of the Ledger.
LEMMA CommitAdopts ==
    ASSUME Structure, Consistent, Consistent',
           dbIndex' = dbIndex, dbSyncCheckpoint' = dbSyncCheckpoint,
           NEW t \in dbIndex, dbHashBestChain' = t, t \notin Anc[dbHashBestChain]
    PROVE  L!Next
<1>1. t \in Block /\ Anc[t] \subseteq dbIndex
  BY DEF Structure, TypeOK
<1>2. Anc[t] \subseteq Valid
  BY DEF Consistent
<1>3. CheckpointsMode = "STRICT" => dbSyncCheckpoint \in Anc[t]
  BY DEF Consistent
<1>4. L!Adopt(t)
  BY <1>1, <1>2, <1>3 DEF L!Adopt
<1> QED BY <1>1, <1>4 DEF L!Next

\* Every step of the node is a step of the Ledger, or leaves it unchanged.
LEMMA StepRefines ==
    ASSUME Structure, Consistent, Consistent', [Next]_vars
    PROVE  L!Next \/ UNCHANGED ledger
<1>0. TypeOK /\ dbHashBestChain \in Block
  BY DEF Structure, TypeOK
<1>d. ASSUME UNCHANGED disk PROVE UNCHANGED ledger
  BY <1>d DEF disk, ledger
<1>1. ASSUME NEW b \in Block \ {Genesis}, AcceptBlock(b)
      PROVE  L!Next
  <2>1. L!Learn(b)
    BY <1>1 DEF AcceptBlock, AddToBlockIndex, L!Learn, Structure
  <2> QED BY <2>1 DEF L!Next
<1>2. ASSUME ExtendBestChain
      PROVE  L!Next \/ UNCHANGED ledger
  <2>0. pindexNew \in dbIndex /\ pindexNew \notin Anc[dbHashBestChain]
    BY <1>2 DEF ExtendBestChain, Structure, Consistent, AtWork
  <2>1. CASE Commit(pindexNew, {}, {pindexNew})
    BY <2>0, <2>1, CommitAdopts DEF Commit
  <2>2. CASE UNCHANGED disk
    BY <1>d, <2>2
  <2> QED BY <1>2, <2>1, <2>2 DEF ExtendBestChain
<1>3. ASSUME SwitchBranch
      PROVE  L!Next \/ UNCHANGED ledger
  <2> DEFINE i == Intermediate(pindexNew)
  <2>0. /\ pindexNew \in dbIndex /\ pindexNew \in Block /\ pindexBest = dbHashBestChain
        /\ pindexNew \notin Anc[pindexBest]
    BY <1>0, <1>3 DEF SwitchBranch, Structure, Consistent, AtWork, TypeOK
  <2>1. i \in Anc[pindexNew] /\ i \notin Anc[dbHashBestChain]
    BY <1>0, <2>0, IntermediateOnChain, IntermediateIsNew
  <2>2. i \in dbIndex
    BY <2>0, <2>1 DEF Structure
  <2> HIDE DEF i
  <2>3. CASE Commit(i, Disconnect(i), Connect(i))
    BY <2>1, <2>2, <2>3, CommitAdopts DEF Commit
  <2>4. CASE UNCHANGED disk
    BY <1>d, <2>4
  <2> QED BY <1>3, <2>3, <2>4 DEF SwitchBranch, i
<1>4. ASSUME ConnectFurther
      PROVE  L!Next \/ UNCHANGED ledger
  <2> DEFINE x == NextSecondary
  <2>0. /\ pindexNew \in dbIndex /\ pindexNew \in Block
        /\ dbHashBestChain \in Anc[pindexNew]
        /\ vpindexSecondary = Anc[pindexNew] \ Anc[dbHashBestChain]
        /\ vpindexSecondary # {}
    BY <1>0, <1>4 DEF ConnectFurther, Structure, AtWork, TypeOK
  <2>1. x \in vpindexSecondary
    BY <2>0, NextSecondaryIsChild
  <2>2. x \in dbIndex /\ x \notin Anc[dbHashBestChain]
    BY <2>0, <2>1 DEF Structure
  <2> HIDE DEF x
  <2>3. CASE Commit(x, {}, {x})
    BY <2>2, <2>3, CommitAdopts DEF Commit
  <2>4. CASE UNCHANGED disk
    BY <1>d, <2>4
  <2> QED BY <1>4, <2>3, <2>4 DEF ConnectFurther, x
<1>5. ASSUME WriteSyncCheckpoint
      PROVE  L!Next
  <2>1. /\ pindexNew \in Anc[dbHashBestChain] /\ dbSyncCheckpoint \in Anc[pindexNew]
        /\ pindexNew \in Block
    BY <1>0, <1>5, AncReflexive DEF WriteSyncCheckpoint, Consistent
  <2>2. L!Finalize(pindexNew)
    BY <1>5, <2>1 DEF WriteSyncCheckpoint, L!Finalize
  <2> QED BY <2>1, <2>2 DEF L!Next
<1>6. ASSUME \/ NewBest \/ AcceptPendingSyncCheckpoint
             \/ (\E h \in Block : ProcessSyncCheckpoint(h))
             \/ Crash \/ LoadBlockIndex \/ UNCHANGED vars
      PROVE  UNCHANGED ledger
  BY <1>d, <1>6 DEF NewBest, AcceptPendingSyncCheckpoint, ProcessSyncCheckpoint,
                    Crash, LoadBlockIndex, vars
<1> QED BY <1>1, <1>2, <1>3, <1>4, <1>5, <1>6 DEF Next

\* As long as no postponed block fails, the database implements the Ledger:
\* whatever is committed, and wherever a crash comes between two commits, the
\* applied chain goes in one step from one complete, valid and known chain to
\* another that keeps the checkpoint, and the checkpoint only moves forward.
THEOREM BlockChainImplementsLedger ==
    Spec /\ NoPostponedFailure => ImplementsLedger
<1>1. Init => L!Init
  BY DEF Init, L!Init
<1>2. Structure /\ Consistent /\ Consistent' /\ [Next]_vars => [L!Next]_(L!vars)
  BY StepRefines DEF L!vars, ledger
<1> QED BY <1>1, <1>2, StructureAlways, ConsistentAlways, PTL DEF Spec, ImplementsLedger, L!Spec
=============================================================================
