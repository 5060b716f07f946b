---------------------------- MODULE MCBlockChain ----------------------------
(***************************************************************************)
(* Block trees for TLC.  A tree is given by its links and by the trust of  *)
(* each block; heights, chain trust and ancestors are computed from them.  *)
(***************************************************************************)
EXTENDS BlockChain

AncestorsIn(B, P) ==
    LET f[b \in B] == IF b \in DOMAIN P THEN f[P[b]] \cup {b} ELSE {b} IN f

HeightsIn(B, P) ==
    LET f[b \in B] == IF b \in DOMAIN P THEN f[P[b]] + 1 ELSE 0 IN f

ChainTrustIn(B, P, trust) ==
    LET f[b \in B] == trust[b] + (IF b \in DOMAIN P THEN f[P[b]] ELSE 0) IN f

MCNoBlock == "none"
MCGenesis == "g"
OnlyGenesis == {"g"}

(***************************************************************************)
(* A small tree: two branches from the genesis block, the second with a    *)
(* fork before its end.  The first branch starts with a block that         *)
(* outweighs three of the second, so that only a checkpoint, a crash or    *)
(* the last block of the second branch makes it the best one.              *)
(***************************************************************************)
TreeBlock  == {"g", "a1", "a2", "b1", "b2", "b3", "b4", "c3"}
TreeParent == [a1 |-> "g", a2 |-> "a1",
               b1 |-> "g", b2 |-> "b1", b3 |-> "b2", b4 |-> "b3", c3 |-> "b2"]
TreeAnc    == AncestorsIn(TreeBlock, TreeParent)
TreeHeight == HeightsIn(TreeBlock, TreeParent)
TreeTrust  == ChainTrustIn(TreeBlock, TreeParent,
                           [b \in TreeBlock |-> IF b = "a1" THEN 3 ELSE 1])
TipInvalid == TreeBlock \ {"b3"}
TreeHardened == {"g", "b4"}

(***************************************************************************)
(* A wider tree of equal blocks: ties, races between three branches and    *)
(* blocks that do not connect inside a branch and at the end of another.   *)
(***************************************************************************)
WideBlock  == {"g", "a1", "a2", "a3", "b1", "b2", "b3", "c2", "c3"}
WideParent == [a1 |-> "g", a2 |-> "a1", a3 |-> "a2",
               b1 |-> "g", b2 |-> "b1", b3 |-> "b2",
               c2 |-> "b1", c3 |-> "c2"]
WideAnc    == AncestorsIn(WideBlock, WideParent)
WideHeight == HeightsIn(WideBlock, WideParent)
WideTrust  == ChainTrustIn(WideBlock, WideParent, [b \in WideBlock |-> 1])
WideValid  == WideBlock \ {"b2", "a3"}
=============================================================================
