------------------------------- MODULE Ledger -------------------------------
(***************************************************************************)
(* What a node's block database promises to everything that reads it, with *)
(* no memory, no transactions and no crashes in sight: there is a set of   *)
(* known blocks, one of them is the tip of the chain whose transactions    *)
(* are applied, and one is the synchronized checkpoint.  Every change is a *)
(* single step between two complete chains.  BlockChain implements this.   *)
(***************************************************************************)
CONSTANTS
    Block,      \* every block a peer may ever send
    Genesis,    \* the block every chain starts with
    Parent,     \* hashPrevBlock
    Anc,        \* the blocks of the chain that ends in a block
    Valid,      \* the blocks that connect on top of their parent's chain
    Strict      \* -cppolicy=strict: checkpoints bind the chain

VARIABLES
    known,      \* the blocks in the index
    tip,        \* the chain whose transactions are applied ends here
    final       \* the synchronized checkpoint

vars == <<known, tip, final>>

Init ==
    /\ known = {Genesis}
    /\ tip   = Genesis
    /\ final = Genesis

\* A block is known only after its parent.
Learn(b) ==
    /\ b \notin known
    /\ Parent[b] \in known
    /\ known' = known \cup {b}
    /\ UNCHANGED <<tip, final>>

\* The node switches to another chain: one it knows completely, whose every
\* block connects, that is no shortening of the present one and, if checkpoints
\* bind, runs through the checkpoint.
Adopt(t) ==
    /\ t \in known \ Anc[tip]
    /\ Anc[t] \subseteq known \cap Valid
    /\ Strict => final \in Anc[t]
    /\ tip' = t
    /\ UNCHANGED <<known, final>>

\* The checkpoint only moves forward, to a block of the applied chain.
Finalize(c) ==
    /\ c \in Anc[tip]
    /\ final \in Anc[c]
    /\ final' = c
    /\ UNCHANGED <<known, tip>>

Next ==
    \/ \E b \in Block \ {Genesis} : Learn(b)
    \/ \E t \in Block : Adopt(t)
    \/ \E c \in Block : Finalize(c)

Spec == Init /\ [][Next]_vars
=============================================================================
