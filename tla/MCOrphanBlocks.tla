--------------------------- MODULE MCOrphanBlocks ---------------------------
(***************************************************************************)
(* Block trees for TLC.                                                    *)
(***************************************************************************)
EXTENDS OrphanBlocks

MCGenesis == "g"
MCNoBlock == "none"
MCNoStake == "pow"

(***************************************************************************)
(* Two branches, on which the second blocks have the same stake.  One of   *)
(* these has a child.  The other may be refused; it has two descendants,   *)
(* of which the first may be refused, fail or be accepted.                 *)
(***************************************************************************)
TreeBlock  == {"g", "p", "a", "x", "x1", "q", "b", "b1"}
TreeParent == [p |-> "g", a |-> "p", x |-> "a", x1 |-> "x", q |-> "g", b |-> "q", b1 |-> "b"]
TreeStake  == [k \in TreeBlock |-> IF k \in {"a", "b"} THEN "s" ELSE "pow"]
AnyOutcome == [k \in TreeBlock |-> CASE k = "x" -> {"refused", "indexed", "accepted"}
                                     [] k = "a" -> {"refused", "accepted"}
                                     [] OTHER   -> {"accepted"}]
=============================================================================
