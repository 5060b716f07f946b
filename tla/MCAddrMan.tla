----------------------------- MODULE MCAddrMan -----------------------------
(***************************************************************************)
(* Two interchangeable addresses and one with two ports, announced by two  *)
(* sources; two new buckets, one for each source, and one tried bucket, of *)
(* one entry each.  u is not routable.  The file is written when one or    *)
(* two addresses are known, and read back at any later time.               *)
(***************************************************************************)
EXTENDS AddrMan

CONSTANTS p, q

MCRoutable  == {p, q, "s", "s2"}
MCService   == MCRoutable \cup {"u"}
MCSource    == {"f", "g"}
MCNetAddr   == {p, q, "s", "u"} \cup MCSource
MCIpOf      == [a \in Service |-> IF a = "s2" THEN "s" ELSE a]

MCNewBucket   == [x \in MCNetAddr \X MCSource |-> IF x[2] = "f" THEN 0 ELSE 1]
MCTriedBucket == [a \in Service |-> 0]

MCDumpAt == 1..2

Interchangeable == Permutations({p, q})
=============================================================================
