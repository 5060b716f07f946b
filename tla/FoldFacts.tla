----------------------------- MODULE FoldFacts -----------------------------
(***************************************************************************)
(* What folding a sequence does, step by step.  The code walks vectors of  *)
(* blocks and transactions in many loops, and the modules of this project  *)
(* write those loops with FoldLeft.  The provers cannot apply a lemma to   *)
(* an operator that is passed to it, so the lemma is stated here for an    *)
(* operator of the module, and a proof instantiates the module once for    *)
(* each loop body.                                                         *)
(*                                                                         *)
(* p stands for whatever the loop body reads besides its two arguments.    *)
(***************************************************************************)
EXTENDS Integers, Sequences, WellFoundedInduction, TLAPS

CONSTANT op(_, _, _)

Largest(S) == CHOOSE x \in S : \A y \in S : x >= y

\* FoldLeft of SequencesExt, with its definition expanded.
Fold(p, base, seq) ==
    (CHOOSE f : f = [s \in SUBSET DOMAIN seq |->
                        IF s = {} THEN base
                        ELSE op(p, f[s \ {Largest(s)}], seq[Largest(s)])])[DOMAIN seq]

\* acc is what the loop has computed after each of its rounds.
Accumulates(acc, p, base, seq) ==
    /\ acc[0] = base
    /\ \A n \in 0 .. Len(seq) - 1 : acc[n + 1] = op(p, acc[n], seq[n + 1])

-----------------------------------------------------------------------------
\* What holds of 0 and, with every number, of the next holds of N.
LEMMA CountUp ==
    \A N, S : /\ N \in Nat /\ 0 \in S
              /\ \A n \in 0 .. N - 1 : n \in S => n + 1 \in S
              => N \in S
<1> SUFFICES ASSUME NEW N \in Nat, NEW S, 0 \in S,
                    \A n \in 0 .. N - 1 : n \in S => n + 1 \in S,
                    N \notin S
             PROVE  FALSE
  OBVIOUS
<1> DEFINE T == {n \in Nat : n <= N /\ n \notin S}
<1>1. T \subseteq Nat /\ N \in T
  OBVIOUS
<1>2. PICK m \in T : \A k \in T : ~(<<k, m>> \in OpToRel(<, Nat))
  <2> HIDE DEF T
  <2> QED BY <1>1, NatLessThanWellFounded, WFMin
<1>3. m \in Nat /\ m # 0 /\ m <= N /\ m \notin S
  OBVIOUS
<1>4. <<m - 1, m>> \in OpToRel(<, Nat)
  <2>1. m - 1 \in Nat /\ m - 1 < m
    BY <1>3
  <2> QED BY <1>3, <2>1 DEF OpToRel
<1>5. m - 1 \notin T
  BY <1>2, <1>4
<1> QED BY <1>3, <1>5

\* A set of numbers has a least one ...
LEMMA LeastExists ==
    \A F : F \subseteq Nat /\ F # {} => \E m \in F : \A n \in F : m <= n
<1> SUFFICES ASSUME NEW F, F \subseteq Nat, F # {}
             PROVE  \E m \in F : \A n \in F : m <= n
  OBVIOUS
<1>1. PICK m \in F : \A k \in F : ~(<<k, m>> \in OpToRel(<, Nat))
  BY NatLessThanWellFounded, WFMin
<1>2. ASSUME NEW n \in F PROVE m <= n
  <2>1. n \in Nat /\ m \in Nat
    OBVIOUS
  <2> SUFFICES ASSUME n < m PROVE FALSE
    BY <2>1
  <2>2. <<n, m>> \in OpToRel(<, Nat)
    BY <2>1 DEF OpToRel
  <2> QED BY <1>1, <2>2
<1> QED BY <1>2

\* ... and, with a bound, a greatest one.
LEMMA GreatestExists ==
    \A N, F : N \in Nat /\ F \subseteq 0..N /\ F # {} => \E m \in F : \A n \in F : m >= n
<1> SUFFICES ASSUME NEW N \in Nat, NEW F, F \subseteq 0..N, F # {}
             PROVE  \E m \in F : \A n \in F : m >= n
  OBVIOUS
<1> DEFINE G == {N - n : n \in F}
<1>1. G \subseteq Nat /\ G # {}
  <2>1. \A n \in F : n \in 0..N
    OBVIOUS
  <2>2. \A n \in 0..N : N - n \in Nat
    OBVIOUS
  <2> QED BY <2>1, <2>2
<1>2. PICK g \in G : \A k \in G : g <= k
  <2> HIDE DEF G
  <2> QED BY <1>1, LeastExists
<1>3. PICK m \in F : g = N - m
  OBVIOUS
<1>4. ASSUME NEW n \in F PROVE m >= n
  <2>1. N - m <= N - n /\ n \in Nat /\ m \in Nat
    BY <1>2, <1>3
  <2> QED BY ONLY <2>1, N \in Nat
<1> QED BY <1>4

\* f solves the equation of Fold on the sets of the first n positions.
Solves(f, p, base, seq, n) ==
    f = [s \in SUBSET (1..n) |->
            IF s = {} THEN base ELSE op(p, f[s \ {Largest(s)}], seq[Largest(s)])]

\* The recursion that defines Fold has a solution.
LEMMA SolutionExists ==
    \A p, base, seq, n : n \in Nat => \E f : Solves(f, p, base, seq, n)
<1> SUFFICES ASSUME NEW p, NEW base, NEW seq, NEW N \in Nat
             PROVE  \E f : Solves(f, p, base, seq, N)
  OBVIOUS
<1> DEFINE S == {n \in Nat : \E f : Solves(f, p, base, seq, n)}
<1>1. 0 \in S
  <2>1. 1..0 = {}
    OBVIOUS
  <2>2. Solves([s \in {{}} |-> base], p, base, seq, 0)
    BY <2>1 DEF Solves
  <2> QED BY <2>2
<1>2. ASSUME NEW n \in 0 .. N - 1, n \in S PROVE n + 1 \in S
  <2>1. PICK f : Solves(f, p, base, seq, n)
    BY <1>2
  <2> DEFINE g == [s \in SUBSET (1 .. n + 1) |->
                      IF n + 1 \in s THEN op(p, f[s \ {n + 1}], seq[n + 1]) ELSE f[s]]
  <2>2. ASSUME NEW s \in SUBSET (1 .. n + 1)
        PROVE  g[s] = IF s = {} THEN base ELSE op(p, g[s \ {Largest(s)}], seq[Largest(s)])
    <3>1. CASE n + 1 \in s
      <4>1. \A y \in s : y \in Int /\ n + 1 >= y
        OBVIOUS
      <4>2. Largest(s) \in s /\ \A y \in s : Largest(s) >= y
        BY <3>1, <4>1 DEF Largest
      <4>3. /\ Largest(s) \in Int /\ n + 1 \in Int
            /\ n + 1 >= Largest(s) /\ Largest(s) >= n + 1
        BY <3>1, <4>1, <4>2
      <4>4. Largest(s) = n + 1
        <5> HIDE DEF S, g
        <5> QED BY <4>3
      <4>5. s \ {n + 1} \in SUBSET (1 .. n + 1) /\ n + 1 \notin s \ {n + 1}
        OBVIOUS
      <4>6. g[s \ {n + 1}] = f[s \ {n + 1}]
        BY <4>5
      <4>7. g[s] = op(p, f[s \ {n + 1}], seq[n + 1])
        BY <3>1
      <4> QED BY <3>1, <4>4, <4>6, <4>7
    <3>2. CASE n + 1 \notin s
      <4>1. s \in SUBSET (1 .. n) /\ g[s] = f[s]
        BY <3>2
      <4>2. g[s \ {Largest(s)}] = f[s \ {Largest(s)}]
        BY <3>2
      <4>3. f[s] = IF s = {} THEN base ELSE op(p, f[s \ {Largest(s)}], seq[Largest(s)])
        BY <2>1, <4>1 DEF Solves
      <4> QED BY <4>1, <4>2, <4>3
    <3> QED BY <3>1, <3>2
  <2>3. g = [s \in SUBSET (1 .. n + 1) |-> g[s]]
    OBVIOUS
  <2> HIDE DEF g
  <2>4. Solves(g, p, base, seq, n + 1)
    BY <2>2, <2>3 DEF Solves
  <2> QED BY <2>4
<1> HIDE DEF S
<1>3. N \in S
  BY <1>1, <1>2, CountUp
<1> QED BY <1>3 DEF S

\* A fold is what a loop over the sequence has accumulated at its end.
LEMMA FoldSteps ==
    \A p, base, S, seq : seq \in Seq(S) =>
        \E acc : Accumulates(acc, p, base, seq) /\ Fold(p, base, seq) = acc[Len(seq)]
<1> SUFFICES ASSUME NEW p, NEW base, NEW S, NEW seq \in Seq(S)
             PROVE  \E acc : Accumulates(acc, p, base, seq)
                             /\ Fold(p, base, seq) = acc[Len(seq)]
  OBVIOUS
<1> DEFINE N == Len(seq)
           iter == CHOOSE f : Solves(f, p, base, seq, N)
<1>1. N \in Nat /\ DOMAIN seq = 1..N
  OBVIOUS
<1>2. Fold(p, base, seq) = iter[1..N]
  BY <1>1 DEF Fold, Solves
<1>3. Solves(iter, p, base, seq, N)
  BY <1>1, SolutionExists
<1> HIDE DEF iter, N
<1> DEFINE acc == [k \in 0..N |-> iter[1..k]]
<1>4. acc[0] = base
  <2>1. 1..0 = {} /\ {} \in SUBSET (1..N)
    OBVIOUS
  <2> QED BY <1>1, <1>3, <2>1 DEF Solves
<1>5. ASSUME NEW n \in 0 .. N - 1
      PROVE  acc[n + 1] = op(p, acc[n], seq[n + 1])
  <2>1. (1 .. n + 1) \in SUBSET (1..N) /\ (1 .. n + 1) # {}
    BY <1>1
  <2>2. Largest(1 .. n + 1) = n + 1
    BY DEF Largest
  <2>3. (1 .. n + 1) \ {n + 1} = 1..n
    BY <1>1
  <2>4. iter[1 .. n + 1] = op(p, iter[1..n], seq[n + 1])
    BY <1>3, <2>1, <2>2, <2>3 DEF Solves
  <2> QED BY <1>1, <2>4
<1>6. Fold(p, base, seq) = acc[N]
  BY <1>1, <1>2
<1> HIDE DEF acc
<1> QED BY <1>4, <1>5, <1>6 DEF N, Accumulates
=============================================================================
