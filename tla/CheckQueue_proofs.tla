-------------------------- MODULE CheckQueue_proofs --------------------------
(***************************************************************************)
(* Proofs about CheckQueue, for every number of workers, of checks and of  *)
(* blocks, and every size of a batch.                                      *)
(***************************************************************************)
EXTENDS CheckQueue, FiniteSetTheorems, TLAPS

(***************************************************************************)
(* The inductive invariant.  Once fShutdown is seen around a ConnectBlock, *)
(* threads leave Loop without signing off: then the counters are only      *)
(* bounds, and nTodo never gets down to zero again.                        *)
(***************************************************************************)
SentAway == fShutdown /\ ShutdownWhileConnecting

WorkerState == {"new", "wait", "woken", "work", "relock", "gone"}
MasterState == {"out", "adding", "aborted", "wait", "woken", "work", "relock"}

\* The checks that nobody has finished, but for those of the threads not in T.
Unfinished(T) == queue \cup UNION {vChecks[t] : t \in T}

\* The bad check c is still to be run, or found but not reported yet.
Pending(c, T) ==
    \/ c \in queue
    \/ \E t \in T : c \in vChecks[t] /\ (state[t] = "work" \/ (state[t] = "relock" /\ ~fOk[t]))

\* A thread has a batch exactly while it works on it; no check is in two
\* places, and all are of this block.
Batches ==
    /\ \A t \in Worker : state[t] \in WorkerState
    /\ state[Master] \in MasterState
    /\ \A t \in Thread : vChecks[t] # {} <=> state[t] \in {"work", "relock"}
    /\ \A t \in Thread : queue \cap vChecks[t] = {}
    /\ \A t, u \in Thread : t # u => vChecks[t] \cap vChecks[u] = {}
    /\ state[Master] # "aborted" => Unfinished(Thread) \subseteq added

Counters ==
    /\ nIdle = Cardinality(Asleep)
    /\ nTotal >= Cardinality(Inside)
    /\ nTodo >= Cardinality(Unfinished(Thread))
    /\ ~SentAway => /\ nTotal = Cardinality(Inside)
                    /\ nTodo = Cardinality(Unfinished(Thread))

\* Between two blocks nothing is left of the last one.
Resting ==
    ~SentAway => /\ state[Master] # "aborted"
                 /\ state[Master] = "out" => nTodo = 0 /\ fAllOk
                 /\ fShutdown => state[Master] = "out"

\* A false result, reported or not, comes from a bad check of this block, and
\* a bad check is not lost before it is reported.
Results ==
    state[Master] # "aborted" =>
        /\ ~fAllOk => added \cap Bad # {}
        /\ \A t \in Thread :
              state[t] \in {"work", "relock"} /\ ~fOk[t] => added \cap Bad # {}
        /\ state[Master] # "out" /\ fAllOk /\ nTodo = Cardinality(Unfinished(Thread)) =>
              \A c \in added \cap Bad : Pending(c, Thread)

IndInv == TypeOK /\ Batches /\ Counters /\ Resting /\ Results /\ VerdictIsExact

-----------------------------------------------------------------------------
(***************************************************************************)
(* The sets the counters count.                                            *)
(***************************************************************************)

LEMMA Finite ==
    ASSUME TypeOK
    PROVE  /\ IsFiniteSet(Thread) /\ IsFiniteSet(Asleep) /\ IsFiniteSet(Inside)
           /\ \A S \in SUBSET Thread : IsFiniteSet(S) /\ Cardinality(S) \in Nat
           /\ \A S \in SUBSET Check : IsFiniteSet(S) /\ Cardinality(S) \in Nat
           /\ \A T \in SUBSET Thread : Unfinished(T) \in SUBSET Check
<1>1. IsFiniteSet(Thread)
  BY QueueAssumption, FS_AddElement DEF Thread
<1>2. \A S \in SUBSET Thread : IsFiniteSet(S) /\ Cardinality(S) \in Nat
  BY <1>1, FS_Subset, FS_CardinalityType
<1>3. \A S \in SUBSET Check : IsFiniteSet(S) /\ Cardinality(S) \in Nat
  BY QueueAssumption, FS_Subset, FS_CardinalityType
<1>4. Asleep \in SUBSET Thread /\ Inside \in SUBSET Thread
  BY DEF Asleep, Inside
<1>5. \A T \in SUBSET Thread : Unfinished(T) \in SUBSET Check
  BY DEF TypeOK, Unfinished
<1> QED BY <1>1, <1>2, <1>3, <1>4, <1>5

\* One batch more or less in a count of checks.
LEMMA CountBatch ==
    ASSUME TypeOK, Batches, NEW t \in Thread
    PROVE  /\ Cardinality(vChecks[t]) \in Nat
           /\ Cardinality(Unfinished(Thread)) =
                Cardinality(Unfinished(Thread \ {t})) + Cardinality(vChecks[t])
           /\ Unfinished(Thread) = Unfinished(Thread \ {t}) \cup vChecks[t]
           /\ Unfinished(Thread \ {t}) \cap vChecks[t] = {}
<1> DEFINE U == Unfinished(Thread \ {t})
<1>1. U \in SUBSET Check /\ vChecks[t] \in SUBSET Check
  BY Finite DEF TypeOK
<1>2. IsFiniteSet(U) /\ IsFiniteSet(vChecks[t])
  BY <1>1, Finite
<1>3. Unfinished(Thread) = U \cup vChecks[t]
  BY DEF Unfinished
<1>4. U \cap vChecks[t] = {}
  BY DEF Unfinished, Batches
<1>5. Cardinality(U) \in Nat /\ Cardinality(vChecks[t]) \in Nat
  BY <1>1, Finite
<1>6. Cardinality(U \cup vChecks[t]) =
        Cardinality(U) + Cardinality(vChecks[t]) - Cardinality(U \cap vChecks[t])
  BY <1>2, FS_Union
<1>7. Cardinality(U \cap vChecks[t]) = 0
  BY <1>4, FS_EmptySet
<1>8. Cardinality(Unfinished(Thread)) = Cardinality(U) + Cardinality(vChecks[t])
  <2> HIDE DEF U
  <2> QED BY <1>3, <1>5, <1>6, <1>7
<1> QED BY <1>3, <1>4, <1>5, <1>8

\* Nobody works when nothing is left to do.
LEMMA NothingLeft ==
    ASSUME TypeOK, Batches, Counters, nTodo = 0
    PROVE  /\ Unfinished(Thread) = {}
           /\ queue = {}
           /\ \A t \in Thread : vChecks[t] = {} /\ state[t] \notin {"work", "relock"}
<1>1. Unfinished(Thread) \in SUBSET Check
  BY Finite
<1>2. IsFiniteSet(Unfinished(Thread)) /\ Cardinality(Unfinished(Thread)) \in Nat
  BY <1>1, Finite
<1>3. Cardinality(Unfinished(Thread)) = 0
  BY <1>2 DEF Counters
<1>4. Unfinished(Thread) = {}
  BY <1>2, <1>3, FS_EmptySet
<1> QED BY <1>4 DEF Unfinished, Batches

-----------------------------------------------------------------------------
(***************************************************************************)
(* The critical section of Loop.                                           *)
(***************************************************************************)

\* s is state with some of the threads that wait notified.
Notified(s) ==
    /\ DOMAIN s = Thread /\ s = [u \in Thread |-> s[u]]
    /\ \A u \in Thread : s[u] = state[u] \/ (state[u] = "wait" /\ s[u] = "woken")

\* notify_one only turns sleepers into threads that are about to wake.
LEMMA NotifyOneNotifies ==
    ASSUME TypeOK, NEW W \in SUBSET Thread, NEW s \in NotifyOne(state, W)
    PROVE  Notified(s)
BY DEF TypeOK, NotifyOne, Notified

\* So does notify_all.
LEMMA NotifyAllNotifies ==
    ASSUME TypeOK, NEW W \in SUBSET Thread
    PROVE  Notified(NotifyAll(state, W))
BY DEF TypeOK, NotifyAll, Notified

\* Notifications change no count.
LEMMA NotifiedSets ==
    ASSUME TypeOK, Notified(state')
    PROVE  Asleep' = Asleep /\ Inside' = Inside
BY DEF TypeOK, Notified, Asleep, Inside

\* What the code before the critical section has made of the counters: t is
\* inside, awake and without a batch.
Ready(t, total, idle, todo, ok) ==
    /\ total \in Nat /\ idle \in Nat /\ todo \in Nat /\ ok \in BOOLEAN
    /\ state[Master] # "aborted"
    /\ state[t] \in {"new", "adding", "wait", "woken", "relock"}
    /\ idle = Cardinality(Asleep \ {t})
    /\ total >= Cardinality(Inside \cup {t})
    /\ todo >= Cardinality(Unfinished(Thread \ {t}))
    /\ ~SentAway => /\ total = Cardinality(Inside \cup {t})
                    /\ todo = Cardinality(Unfinished(Thread \ {t}))
                    /\ state[Master] = "out" => todo = 0 /\ ok
    /\ ~ok => added \cap Bad # {}
    /\ state[Master] # "out" /\ ok /\ todo = Cardinality(Unfinished(Thread \ {t})) =>
          \A c \in added \cap Bad : Pending(c, Thread \ {t})

\* A thread that leaves Loop signs off exactly once.
LEMMA LeaveLoopStep ==
    ASSUME IndInv, NEW t \in Thread, NEW s, NEW total, NEW idle, NEW todo, NEW ok,
           Notified(s), Ready(t, total, idle, todo, ok), UNCHANGED early,
           nTodo' = todo, queue = {}, MayLeave(t, todo), LeaveLoop(t, s, total, ok),
           nIdle' = idle, UNCHANGED <<queue, fOk, fQuit, fShutdown, added, nBlocks>>
    PROVE  IndInv'
<1> USE DEF IndInv
<1>1. /\ state' = [u \in Thread |-> IF u = t THEN IF t = Master THEN "out" ELSE "gone"
                                   ELSE s[u]]
      /\ vChecks' = [u \in Thread |-> IF u = t THEN {} ELSE vChecks[u]]
      /\ nTotal' = total - 1
  BY DEF LeaveLoop, Notified, TypeOK
<1>2. /\ Asleep' = Asleep \ {t}
      /\ Inside' = (Inside \cup {t}) \ {t}
      /\ Unfinished(Thread)' = Unfinished(Thread \ {t})
  <2>1. Asleep' = Asleep \ {t}
    BY <1>1 DEF Asleep, Notified
  <2>2. Inside' = (Inside \cup {t}) \ {t}
    BY <1>1 DEF Inside, Notified
  <2>3. Unfinished(Thread)' = Unfinished(Thread \ {t})
    BY <1>1 DEF Unfinished
  <2> QED BY <2>1, <2>2, <2>3
<1>3. Cardinality(Inside') = Cardinality(Inside \cup {t}) - 1 /\ Cardinality(Inside \cup {t}) \in Nat
  <2>1. IsFiniteSet(Inside \cup {t}) /\ Cardinality(Inside \cup {t}) \in Nat
    BY Finite DEF Inside
  <2> QED BY <2>1, <1>2, FS_RemoveElement
<1>4. Cardinality(Inside') \in Nat /\ Cardinality(Inside \cup {t}) >= 1
  <2>1. Inside' \in SUBSET Thread
    BY <1>2 DEF Inside
  <2>2. Cardinality(Inside') \in Nat
    BY <2>1, Finite
  <2> QED BY <1>3, <2>2
<1>5. TypeOK'
  <2>1. nTotal' \in Nat
    BY <1>1, <1>3, <1>4 DEF Ready
  <2>2. state' \in [Thread -> {"new", "wait", "woken", "work", "relock", "gone",
                               "out", "adding", "aborted"}]
    BY <1>1 DEF TypeOK, Notified
  <2>3. vChecks' \in [Thread -> SUBSET Check]
    BY <1>1 DEF TypeOK
  <2>4. quitter' \in {"running", "stopping", "wait", "woken", "done"}
    BY DEF TypeOK, LeaveLoop, NotifyQuit
  <2>5. fAllOk' \in BOOLEAN /\ verdict' \in BOOLEAN
    BY DEF TypeOK, LeaveLoop, ResetResult, Ready
  <2> QED BY <2>1, <2>2, <2>3, <2>4, <2>5 DEF TypeOK, Ready
<1>6. Batches'
  <2>1. \A u \in Worker : state'[u] \in WorkerState
    BY <1>1, QueueAssumption DEF Batches, WorkerState, Notified, Thread
  <2>2. state'[Master] \in MasterState /\ (state'[Master] = "aborted" => state[Master] = "aborted")
    BY <1>1 DEF Batches, MasterState, Notified, Thread
  <2>3. \A u \in Thread : vChecks'[u] # {} <=> state'[u] \in {"work", "relock"}
    BY <1>1 DEF Batches, Notified
  <2>4. \A u \in Thread : queue' \cap vChecks'[u] = {}
    BY <1>1 DEF Batches
  <2>5. \A u, v \in Thread : u # v => vChecks'[u] \cap vChecks'[v] = {}
    BY <1>1 DEF Batches
  <2>6. Unfinished(Thread)' \subseteq added'
    <3>1. Unfinished(Thread \ {t}) \subseteq Unfinished(Thread)
      BY DEF Unfinished
    <3> QED BY <3>1, <1>2 DEF Batches, Ready
  <2> QED BY <2>1, <2>2, <2>3, <2>4, <2>5, <2>6 DEF Batches
<1>7. Counters'
  BY <1>1, <1>2, <1>3, <1>4 DEF Counters, Ready, SentAway
<1>8. state'[Master] # "aborted"
  BY <1>1 DEF Notified, Thread, Ready
<1>9. t = Master => state'[Master] = "out" /\ fAllOk' = TRUE
  BY <1>1 DEF LeaveLoop, ResetResult, Ready
<1>10. t # Master => /\ fAllOk' = ok
                     /\ verdict' = verdict
                     /\ state'[Master] = "out" <=> state[Master] = "out"
  BY <1>1 DEF LeaveLoop, ResetResult, Ready, Notified, Thread
<1>11. Resting'
  <2>1. ~SentAway' <=> ~SentAway
    BY DEF SentAway
  <2>2. ~SentAway /\ state'[Master] = "out" => nTodo' = 0 /\ fAllOk'
    BY <1>9, <1>10 DEF MayLeave, Ready
  <2>3. ~SentAway /\ fShutdown' => state'[Master] = "out"
    BY <1>9, <1>10 DEF Resting
  <2> QED BY <1>8, <2>1, <2>2, <2>3 DEF Resting
<1>12. Results'
  <2>1. ~fAllOk' => added' \cap Bad # {}
    BY <1>9, <1>10 DEF Ready
  <2>2. \A u \in Thread : state'[u] \in {"work", "relock"} /\ ~fOk'[u] => added' \cap Bad # {}
    BY <1>1 DEF Notified, Results, Ready
  <2>3. ASSUME state'[Master] # "out", fAllOk', nTodo' = Cardinality(Unfinished(Thread)'),
               NEW c \in added' \cap Bad
        PROVE  Pending(c, Thread)'
    <3>1. t # Master /\ state[Master] # "out" /\ ok
      BY <1>9, <1>10, <2>3
    <3>2. Pending(c, Thread \ {t})
      BY <3>1, <2>3, <1>2 DEF Ready
    <3> QED BY <3>2, <1>1 DEF Pending, Notified
  <2> QED BY <2>1, <2>2, <2>3 DEF Results
<1>13. VerdictIsExact'
  <2>1. CASE t # Master
    BY <2>1, <1>10 DEF VerdictIsExact
  <2>2. CASE t = Master
    <3>1. state[Master] # "out" /\ todo = 0
      BY <2>2 DEF Ready, MayLeave
    <3>2. ASSUME ok, NEW c \in added \cap Bad
          PROVE  FALSE
      <4>1. Unfinished(Thread \ {t}) \in SUBSET Check
        BY Finite
      <4>2. /\ IsFiniteSet(Unfinished(Thread \ {t}))
            /\ Cardinality(Unfinished(Thread \ {t})) \in Nat
        BY <4>1, Finite
      <4>3. Cardinality(Unfinished(Thread \ {t})) = 0
        BY <3>1, <4>2 DEF Ready
      <4>4. Unfinished(Thread \ {t}) = {}
        BY <4>2, <4>3, FS_EmptySet
      <4>5. Pending(c, Thread \ {t})
        BY <3>1, <3>2, <4>3 DEF Ready
      <4> QED BY <4>4, <4>5 DEF Pending, Unfinished
    <3>3. verdict' = (ok /\ ~early)
      BY <2>2 DEF LeaveLoop
    <3>4. ~ok => added \cap Bad # {}
      BY DEF Ready
    <3>5. ok => added \cap Bad = {}
      BY <3>2
    <3>6. early \in BOOLEAN /\ ok \in BOOLEAN
      BY DEF TypeOK, Ready
    <3> QED BY <3>3, <3>4, <3>5, <3>6 DEF VerdictIsExact
  <2> QED BY <2>1, <2>2
<1> QED BY <1>5, <1>6, <1>7, <1>11, <1>12, <1>13

\* A thread that goes to sleep is counted as idle and as nothing else.
LEMMA WaitForWorkStep ==
    ASSUME IndInv, NEW t \in Thread, NEW s, NEW total, NEW idle, NEW todo, NEW ok,
           Notified(s), Ready(t, total, idle, todo, ok), UNCHANGED early,
           nTodo' = todo, queue = {}, ~MayLeave(t, todo), WaitForWork(t, s),
           nIdle' = idle + 1, nTotal' = total, fAllOk' = ok,
           UNCHANGED <<queue, fOk, quitter, verdict, fQuit, fShutdown, added, nBlocks>>
    PROVE  IndInv'
<1> USE DEF IndInv
<1>1. /\ state' = [u \in Thread |-> IF u = t THEN "wait" ELSE s[u]]
      /\ vChecks' = [u \in Thread |-> IF u = t THEN {} ELSE vChecks[u]]
  BY DEF WaitForWork, Notified, TypeOK
<1>2. /\ Asleep' = (Asleep \ {t}) \cup {t}
      /\ Inside' = Inside \cup {t}
      /\ Unfinished(Thread)' = Unfinished(Thread \ {t})
  <2>1. Asleep' = (Asleep \ {t}) \cup {t}
    BY <1>1 DEF Asleep, Notified
  <2>2. Inside' = Inside \cup {t}
    BY <1>1 DEF Inside, Notified
  <2>3. Unfinished(Thread)' = Unfinished(Thread \ {t})
    BY <1>1 DEF Unfinished
  <2> QED BY <2>1, <2>2, <2>3
<1>3. Cardinality(Asleep') = Cardinality(Asleep \ {t}) + 1
  <2>1. IsFiniteSet(Asleep \ {t})
    BY Finite DEF Asleep
  <2> QED BY <2>1, <1>2, FS_AddElement
<1>4. state'[Master] # "aborted" /\ (state'[Master] = "out" => state[Master] = "out" /\ t # Master)
  BY <1>1 DEF Ready, Notified, Thread
<1>5. t = Master => state[Master] # "out"
  BY DEF Ready
<1>6. TypeOK'
  BY <1>1 DEF TypeOK, Ready, Notified
<1>7. Batches'
  <2>1. \A u \in Worker : state'[u] \in WorkerState
    BY <1>1, QueueAssumption DEF Batches, WorkerState, Notified, Thread
  <2>2. state'[Master] \in MasterState
    BY <1>1 DEF Batches, MasterState, Notified, Thread
  <2>3. \A u \in Thread : vChecks'[u] # {} <=> state'[u] \in {"work", "relock"}
    BY <1>1 DEF Batches, Notified
  <2>4. /\ \A u \in Thread : queue' \cap vChecks'[u] = {}
        /\ \A u, v \in Thread : u # v => vChecks'[u] \cap vChecks'[v] = {}
    BY <1>1 DEF Batches
  <2>5. Unfinished(Thread)' \subseteq added'
    <3>1. Unfinished(Thread \ {t}) \subseteq Unfinished(Thread)
      BY DEF Unfinished
    <3> QED BY <3>1, <1>2 DEF Batches, Ready
  <2> QED BY <2>1, <2>2, <2>3, <2>4, <2>5 DEF Batches
<1>8. Counters'
  BY <1>2, <1>3 DEF Counters, Ready, SentAway
<1>9. Resting'
  <2>1. ~SentAway' <=> ~SentAway
    BY DEF SentAway
  <2>2. ~SentAway /\ state'[Master] = "out" => nTodo' = 0 /\ fAllOk'
    BY <1>4 DEF Ready
  <2>3. ~SentAway /\ fShutdown' => state'[Master] = "out"
    <3>1. ~SentAway /\ fShutdown' => state[Master] = "out" /\ t # Master
      BY <1>5 DEF Resting
    <3> QED BY <3>1, <1>1 DEF Notified, Thread
  <2> QED BY <1>4, <2>1, <2>2, <2>3 DEF Resting
<1>10. Results'
  <2>1. ~fAllOk' => added' \cap Bad # {}
    BY DEF Ready
  <2>2. \A u \in Thread : state'[u] \in {"work", "relock"} /\ ~fOk'[u] => added' \cap Bad # {}
    BY <1>1 DEF Notified, Results, Ready
  <2>3. ASSUME state'[Master] # "out", fAllOk', nTodo' = Cardinality(Unfinished(Thread)'),
               NEW c \in added' \cap Bad
        PROVE  Pending(c, Thread)'
    <3>1. state[Master] # "out" /\ ok
      BY <1>1, <1>5, <2>3 DEF Notified, Thread
    <3>2. Pending(c, Thread \ {t})
      BY <3>1, <2>3, <1>2 DEF Ready
    <3> QED BY <3>2, <1>1 DEF Pending, Notified
  <2> QED BY <2>1, <2>2, <2>3 DEF Results
<1>11. VerdictIsExact'
  BY <1>4 DEF VerdictIsExact
<1> QED BY <1>6, <1>7, <1>8, <1>9, <1>10, <1>11

\* A batch moves from the queue to its thread, and stays uncounted.
LEMMA TakeBatchStep ==
    ASSUME IndInv, NEW t \in Thread, NEW s, NEW total, NEW idle, NEW todo, NEW ok,
           Notified(s), Ready(t, total, idle, todo, ok), UNCHANGED early,
           nTodo' = todo, queue # {}, TakeBatch(t, s, BatchSize(total, idle), ok),
           nIdle' = idle, nTotal' = total, fAllOk' = ok,
           UNCHANGED <<quitter, verdict, fQuit, fShutdown, added, nBlocks>>
    PROVE  IndInv'
<1> USE DEF IndInv
<1>0. PICK B \in SUBSET queue :
          /\ Cardinality(B) = BatchSize(total, idle)
          /\ queue' = queue \ B
          /\ vChecks' = [vChecks EXCEPT ![t] = B]
          /\ fOk' = [fOk EXCEPT ![t] = ok]
          /\ state' = [s EXCEPT ![t] = "work"]
  BY DEF TakeBatch
<1>1. /\ B \in SUBSET queue
      /\ queue' = queue \ B
      /\ vChecks' = [u \in Thread |-> IF u = t THEN B ELSE vChecks[u]]
      /\ fOk' = [u \in Thread |-> IF u = t THEN ok ELSE fOk[u]]
      /\ state' = [u \in Thread |-> IF u = t THEN "work" ELSE s[u]]
  BY <1>0 DEF Notified, TypeOK
<1>2. B # {}
  <2>1. Cardinality({}) = 0
    BY FS_EmptySet
  <2>2. BatchSize(total, idle) # 0
    BY DEF BatchSize
  <2> QED BY <1>0, <2>1, <2>2
<1>3. /\ Asleep' = Asleep \ {t}
      /\ Inside' = Inside \cup {t}
      /\ Unfinished(Thread)' = Unfinished(Thread \ {t})
  <2>1. Asleep' = Asleep \ {t}
    BY <1>1 DEF Asleep, Notified
  <2>2. Inside' = Inside \cup {t}
    BY <1>1 DEF Inside, Notified
  <2>3. Unfinished(Thread)' = Unfinished(Thread \ {t})
    BY <1>1 DEF Unfinished
  <2> QED BY <2>1, <2>2, <2>3
<1>4. state'[Master] # "aborted" /\ (state'[Master] = "out" => state[Master] = "out" /\ t # Master)
  BY <1>1 DEF Ready, Notified, Thread
<1>5. t = Master => state[Master] # "out"
  BY DEF Ready
<1>6. TypeOK'
  BY <1>1 DEF TypeOK, Ready, Notified
<1>7. Batches'
  <2>1. \A u \in Worker : state'[u] \in WorkerState
    BY <1>1, QueueAssumption DEF Batches, WorkerState, Notified, Thread
  <2>2. state'[Master] \in MasterState
    BY <1>1 DEF Batches, MasterState, Notified, Thread
  <2>3. \A u \in Thread : vChecks'[u] # {} <=> state'[u] \in {"work", "relock"}
    BY <1>1, <1>2 DEF Batches, Notified
  <2>4. /\ \A u \in Thread : queue' \cap vChecks'[u] = {}
        /\ \A u, v \in Thread : u # v => vChecks'[u] \cap vChecks'[v] = {}
    BY <1>1 DEF Batches
  <2>5. Unfinished(Thread)' \subseteq added'
    <3>1. Unfinished(Thread \ {t}) \subseteq Unfinished(Thread)
      BY DEF Unfinished
    <3> QED BY <3>1, <1>3 DEF Batches, Ready
  <2> QED BY <2>1, <2>2, <2>3, <2>4, <2>5 DEF Batches
<1>8. Counters'
  BY <1>3 DEF Counters, Ready, SentAway
<1>9. Resting'
  <2>1. ~SentAway' <=> ~SentAway
    BY DEF SentAway
  <2>2. ~SentAway /\ state'[Master] = "out" => nTodo' = 0 /\ fAllOk'
    BY <1>4 DEF Ready
  <2>3. ~SentAway /\ fShutdown' => state'[Master] = "out"
    <3>1. ~SentAway /\ fShutdown' => state[Master] = "out" /\ t # Master
      BY <1>5 DEF Resting
    <3> QED BY <3>1, <1>1 DEF Notified, Thread
  <2> QED BY <1>4, <2>1, <2>2, <2>3 DEF Resting
<1>10. Results'
  <2>1. ~fAllOk' => added' \cap Bad # {}
    BY DEF Ready
  <2>2. \A u \in Thread : state'[u] \in {"work", "relock"} /\ ~fOk'[u] => added' \cap Bad # {}
    BY <1>1 DEF Notified, Results, Ready
  <2>3. ASSUME state'[Master] # "out", fAllOk', nTodo' = Cardinality(Unfinished(Thread)'),
               NEW c \in added' \cap Bad
        PROVE  Pending(c, Thread)'
    <3>1. state[Master] # "out" /\ ok
      BY <1>1, <1>5, <2>3 DEF Notified, Thread
    <3>2. Pending(c, Thread \ {t})
      BY <3>1, <2>3, <1>3 DEF Ready
    <3> QED BY <3>2, <1>1 DEF Pending, Notified
  <2> QED BY <2>1, <2>2, <2>3 DEF Results
<1>11. VerdictIsExact'
  BY <1>4 DEF VerdictIsExact
<1> QED BY <1>6, <1>7, <1>8, <1>9, <1>10, <1>11

\* One turn of Loop, whichever way it ends.
LEMMA LoopBodyStep ==
    ASSUME IndInv, NEW t \in Thread, NEW s, NEW total, NEW idle, NEW todo, NEW ok,
           Notified(s), Ready(t, total, idle, todo, ok), UNCHANGED early,
           LoopBody(t, s, total, idle, todo, ok)
    PROVE  IndInv'
BY LeaveLoopStep, WaitForWorkStep, TakeBatchStep DEF LoopBody

-----------------------------------------------------------------------------
(***************************************************************************)
(* The steps of Loop.                                                      *)
(***************************************************************************)

\* Without a batch a thread adds nothing to what is unfinished.
LEMMA EmptyHanded ==
    ASSUME TypeOK, Batches, NEW t \in Thread, state[t] \notin {"work", "relock"}
    PROVE  /\ Unfinished(Thread \ {t}) = Unfinished(Thread)
           /\ \A c : Pending(c, Thread) => Pending(c, Thread \ {t})
<1>1. vChecks[t] = {}
  BY DEF Batches
<1> QED BY <1>1 DEF Unfinished, Pending

\* A worker enters Loop, or the master enters Wait.
LEMMA EnterStep ==
    ASSUME IndInv, state[Master] # "aborted", NEW t \in Thread, Enter(t)
    PROVE  IndInv'
<1> USE DEF IndInv
<1>1. state[t] \in {"new", "adding"}
  BY DEF Enter
<1>2. Asleep \ {t} = Asleep /\ t \notin Inside
  BY <1>1 DEF Asleep, Inside
<1>3. Cardinality(Inside \cup {t}) = Cardinality(Inside) + 1 /\ Cardinality(Inside) \in Nat
  BY <1>2, Finite, FS_AddElement, FS_CardinalityType
<1>4. Unfinished(Thread \ {t}) = Unfinished(Thread)
  BY <1>1, EmptyHanded
<1>5. Ready(t, nTotal + 1, nIdle, nTodo, fAllOk)
  <2>1. /\ nTotal + 1 \in Nat /\ nIdle \in Nat /\ nTodo \in Nat /\ fAllOk \in BOOLEAN
        /\ nIdle = Cardinality(Asleep \ {t})
        /\ nTotal + 1 >= Cardinality(Inside \cup {t})
        /\ nTodo >= Cardinality(Unfinished(Thread \ {t}))
        /\ ~SentAway => /\ nTotal + 1 = Cardinality(Inside \cup {t})
                        /\ nTodo = Cardinality(Unfinished(Thread \ {t}))
    BY <1>2, <1>3, <1>4 DEF Counters, TypeOK
  <2>2. ~SentAway /\ state[Master] = "out" => nTodo = 0 /\ fAllOk
    BY DEF Resting
  <2>3. ~fAllOk => added \cap Bad # {}
    BY DEF Results
  <2>4. state[Master] # "out" /\ fAllOk /\ nTodo = Cardinality(Unfinished(Thread \ {t})) =>
          \A c \in added \cap Bad : Pending(c, Thread \ {t})
    BY <1>1, <1>4, EmptyHanded DEF Results
  <2> QED BY <1>1, <2>1, <2>2, <2>3, <2>4 DEF Ready
<1>6. Notified(state)
  BY DEF Notified, TypeOK
<1> QED BY <1>5, <1>6, LoopBodyStep DEF Enter

\* Waking up, notified or not.
LEMMA AwakeStep ==
    ASSUME IndInv, state[Master] # "aborted", NEW t \in Thread, WakeUp(t) \/ Spurious(t)
    PROVE  IndInv'
<1> USE DEF IndInv
<1>1. state[t] \in {"wait", "woken"}
  BY DEF WakeUp, Spurious
<1>2. t \in Asleep /\ Inside \cup {t} = Inside
  BY <1>1 DEF Asleep, Inside
<1>3. Cardinality(Asleep \ {t}) = Cardinality(Asleep) - 1 /\ Cardinality(Asleep \ {t}) \in Nat
  <2>1. Asleep \ {t} \in SUBSET Thread
    BY DEF Asleep
  <2> QED BY <1>2, <2>1, Finite, FS_RemoveElement
<1>4. Unfinished(Thread \ {t}) = Unfinished(Thread)
  BY <1>1, EmptyHanded
<1>5. Ready(t, nTotal, nIdle - 1, nTodo, fAllOk)
  <2>1. /\ nTotal \in Nat /\ nIdle - 1 \in Nat /\ nTodo \in Nat /\ fAllOk \in BOOLEAN
        /\ nIdle - 1 = Cardinality(Asleep \ {t})
        /\ nTotal >= Cardinality(Inside \cup {t})
        /\ nTodo >= Cardinality(Unfinished(Thread \ {t}))
        /\ ~SentAway => /\ nTotal = Cardinality(Inside \cup {t})
                        /\ nTodo = Cardinality(Unfinished(Thread \ {t}))
    BY <1>2, <1>3, <1>4 DEF Counters, TypeOK
  <2>2. ~SentAway /\ state[Master] = "out" => nTodo = 0 /\ fAllOk
    BY DEF Resting
  <2>3. ~fAllOk => added \cap Bad # {}
    BY DEF Results
  <2>4. state[Master] # "out" /\ fAllOk /\ nTodo = Cardinality(Unfinished(Thread \ {t})) =>
          \A c \in added \cap Bad : Pending(c, Thread \ {t})
    BY <1>1, <1>4, EmptyHanded DEF Results
  <2> QED BY <1>1, <2>1, <2>2, <2>3, <2>4 DEF Ready
<1>6. Notified(state)
  BY DEF Notified, TypeOK
<1> QED BY <1>5, <1>6, LoopBodyStep DEF WakeUp, Spurious

\* What a batch takes from nTodo is what it took from the queue.
LEMMA FinishBatchStep ==
    ASSUME IndInv, state[Master] # "aborted", NEW t \in Thread, FinishBatch(t)
    PROVE  IndInv'
<1> USE DEF IndInv
<1> DEFINE n  == Cardinality(vChecks[t])
           ok == fAllOk /\ fOk[t]
<1>1. state[t] = "relock"
  BY DEF FinishBatch, CleanUp
<1>2. Asleep \ {t} = Asleep /\ Inside \cup {t} = Inside
  BY <1>1 DEF Asleep, Inside
<1>3. /\ n \in Nat
      /\ Cardinality(Unfinished(Thread)) = Cardinality(Unfinished(Thread \ {t})) + n
      /\ Cardinality(Unfinished(Thread \ {t})) \in Nat
  BY CountBatch, Finite
<1>4. Ready(t, nTotal, nIdle, nTodo - n, ok)
  <2>1. /\ nTotal \in Nat /\ nIdle \in Nat /\ nTodo - n \in Nat
        /\ nIdle = Cardinality(Asleep \ {t})
        /\ nTotal >= Cardinality(Inside \cup {t})
        /\ nTodo - n >= Cardinality(Unfinished(Thread \ {t}))
        /\ ~SentAway => /\ nTotal = Cardinality(Inside \cup {t})
                        /\ nTodo - n = Cardinality(Unfinished(Thread \ {t}))
    <3> HIDE DEF n
    <3>1. nTotal \in Nat /\ nIdle \in Nat /\ nTodo \in Nat
      BY DEF TypeOK
    <3>2. /\ nTodo >= Cardinality(Unfinished(Thread \ {t})) + n
          /\ ~SentAway => nTodo = Cardinality(Unfinished(Thread \ {t})) + n
      BY <1>3 DEF Counters
    <3>3. /\ nTodo - n \in Nat /\ nTodo - n >= Cardinality(Unfinished(Thread \ {t}))
          /\ ~SentAway => nTodo - n = Cardinality(Unfinished(Thread \ {t}))
      BY ONLY <1>3, <3>1, <3>2
    <3> QED BY <1>2, <3>1, <3>3 DEF Counters
  <2>2. ok \in BOOLEAN
    BY DEF TypeOK
  <2>3. ~(~SentAway /\ state[Master] = "out")
    BY <1>1, NothingLeft DEF Resting
  <2>4. ~ok => added \cap Bad # {}
    BY <1>1 DEF Results
  <2>5. ASSUME state[Master] # "out", ok, nTodo - n = Cardinality(Unfinished(Thread \ {t})),
               NEW c \in added \cap Bad
        PROVE  Pending(c, Thread \ {t})
    <3>1. nTodo = Cardinality(Unfinished(Thread))
      <4> HIDE DEF n
      <4> QED BY <1>3, <2>5 DEF TypeOK
    <3>2. Pending(c, Thread)
      BY <3>1, <2>5 DEF Results
    <3> QED BY <3>2, <2>5, <1>1 DEF Pending
  <2> QED BY <1>1, <2>1, <2>2, <2>3, <2>4, <2>5 DEF Ready
<1>5. PICK s \in NotifyMaster(t, nTodo - n) :
          LoopBody(t, s, nTotal, nIdle, nTodo - n, ok)
  BY DEF FinishBatch, CleanUp
<1>6. Notified(s)
  <2>1. {Master} \in SUBSET Thread
    BY DEF Thread
  <2>2. CASE s \in NotifyOne(state, {Master})
    BY <2>1, <2>2, NotifyOneNotifies
  <2>3. CASE s = state
    BY <2>3 DEF Notified, TypeOK
  <2> QED BY <1>5, <2>2, <2>3 DEF NotifyMaster
<1>7. UNCHANGED early
  BY DEF FinishBatch, CleanUp
<1> HIDE DEF n, ok
<1> QED BY <1>4, <1>5, <1>6, <1>7, LoopBodyStep

\* Running a batch changes nothing that is shared, unless the thread is sent away.
LEMMA RunBatchStep ==
    ASSUME IndInv, state[Master] # "aborted", NEW t \in Thread, RunBatch(t)
    PROVE  IndInv'
<1> USE DEF IndInv
<1>1. /\ state[t] = "work"
      /\ fOk' = [u \in Thread |-> IF u = t THEN RunsOk(t) ELSE fOk[u]]
      /\ UNCHANGED <<shared, fShutdown, quitter, added, early, nBlocks>>
  BY DEF RunBatch, TypeOK
<1>2. ~SentAway => state[Master] # "out"
  BY <1>1, NothingLeft DEF Resting
<1>3. ~RunsOk(t) => added \cap Bad # {}
  <2>1. vChecks[t] \subseteq added
    BY DEF Batches, Unfinished
  <2> QED BY <1>1, <2>1 DEF RunsOk, Results
<1>4. RunsOk(t) \in BOOLEAN
  BY DEF TypeOK, RunsOk
<1>5. CASE ~fShutdown
  <2>1. /\ state' = [u \in Thread |-> IF u = t THEN "relock" ELSE state[u]]
        /\ UNCHANGED <<verdict, vChecks>>
    BY <1>5 DEF RunBatch, TypeOK
  <2>2. Asleep' = Asleep /\ Inside' = Inside /\ Unfinished(Thread)' = Unfinished(Thread)
    <3>1. Asleep' = Asleep
      BY <1>1, <2>1 DEF Asleep
    <3>2. Inside' = Inside
      BY <1>1, <2>1 DEF Inside
    <3>3. Unfinished(Thread)' = Unfinished(Thread)
      BY <1>1, <2>1 DEF Unfinished, shared
    <3> QED BY <3>1, <3>2, <3>3
  <2>3. TypeOK'
    BY <1>1, <1>4, <2>1 DEF TypeOK, shared
  <2>4. Batches'
    <3>1. \A u \in Worker : state'[u] \in WorkerState
      BY <2>1 DEF Batches, WorkerState, Thread
    <3>2. state'[Master] \in MasterState /\ state'[Master] # "aborted"
      BY <2>1 DEF Batches, MasterState, Thread
    <3>3. \A u \in Thread : vChecks'[u] # {} <=> state'[u] \in {"work", "relock"}
      BY <1>1, <2>1 DEF Batches
    <3> QED BY <1>1, <2>1, <2>2, <3>1, <3>2, <3>3 DEF Batches, shared
  <2>5. Counters'
    BY <1>1, <2>2 DEF Counters, SentAway, shared
  <2>6. (state'[Master] = "out" <=> state[Master] = "out") /\ state'[Master] # "aborted"
    BY <1>1, <2>1 DEF Thread
  <2>7. Resting'
    BY <1>1, <2>6 DEF Resting, SentAway, shared
  <2>8. Results'
    <3>1. ~fAllOk' => added' \cap Bad # {}
      BY <1>1 DEF Results, shared
    <3>2. \A u \in Thread : state'[u] \in {"work", "relock"} /\ ~fOk'[u] => added' \cap Bad # {}
      BY <1>1, <1>3, <2>1 DEF Results
    <3>3. ASSUME state'[Master] # "out", fAllOk', nTodo' = Cardinality(Unfinished(Thread)'),
                 NEW c \in added' \cap Bad
          PROVE  Pending(c, Thread)'
      <4>1. Pending(c, Thread)
        BY <1>1, <2>2, <2>6, <3>3 DEF Results, shared
      <4>2. c \in vChecks[t] => ~RunsOk(t)
        BY <3>3 DEF RunsOk
      <4> QED BY <1>1, <2>1, <4>1, <4>2 DEF Pending, shared
    <3> QED BY <3>1, <3>2, <3>3 DEF Results
  <2>9. VerdictIsExact'
    BY <1>1, <2>1, <2>6 DEF VerdictIsExact
  <2> QED BY <2>3, <2>4, <2>5, <2>7, <2>8, <2>9
<1>6. CASE fShutdown
  <2>0. SentAway /\ SentAway'
    BY <1>1, <1>6, <1>2 DEF Resting, SentAway
  <2>1. /\ state' = [u \in Thread |-> IF u = t THEN IF t = Master THEN "out" ELSE "gone"
                                     ELSE state[u]]
        /\ vChecks' = [u \in Thread |-> IF u = t THEN {} ELSE vChecks[u]]
        /\ verdict' = IF t = Master THEN FALSE ELSE verdict
    BY <1>6 DEF RunBatch, TypeOK
  <2>2. /\ Asleep' = Asleep
        /\ Inside' = Inside \ {t}
        /\ Unfinished(Thread)' = Unfinished(Thread \ {t})
    <3>1. Asleep' = Asleep
      BY <1>1, <2>1 DEF Asleep
    <3>2. Inside' = Inside \ {t}
      BY <1>1, <2>1 DEF Inside
    <3>3. Unfinished(Thread)' = Unfinished(Thread \ {t})
      BY <1>1, <2>1 DEF Unfinished, shared
    <3> QED BY <3>1, <3>2, <3>3
  <2>3. nTodo' > Cardinality(Unfinished(Thread)')
    <3>1. vChecks[t] # {} /\ IsFiniteSet(vChecks[t])
      BY <1>1, Finite DEF Batches, TypeOK
    <3>2. Cardinality(vChecks[t]) # 0
      BY <3>1, FS_EmptySet
    <3>3. Cardinality(Unfinished(Thread \ {t})) \in Nat
      BY Finite
    <3>4. /\ Cardinality(vChecks[t]) \in Nat /\ nTodo \in Nat
          /\ nTodo >= Cardinality(Unfinished(Thread \ {t})) + Cardinality(vChecks[t])
      BY CountBatch DEF Counters, TypeOK
    <3>5. nTodo > Cardinality(Unfinished(Thread \ {t}))
      BY ONLY <3>2, <3>3, <3>4
    <3> QED BY <1>1, <2>2, <3>5 DEF shared
  <2>4. nTotal' >= Cardinality(Inside')
    <3>1. Cardinality(Inside') <= Cardinality(Inside) /\ Cardinality(Inside') \in Nat
      <4>1. Inside' \in SUBSET Inside /\ Inside \in SUBSET Thread /\ Inside' \in SUBSET Thread
        BY <2>2 DEF Inside
      <4> QED BY <4>1, Finite, FS_Subset
    <3>2. Cardinality(Inside) \in Nat
      BY Finite, FS_CardinalityType
    <3> QED BY <1>1, <3>1, <3>2 DEF Counters, TypeOK, shared
  <2>5. TypeOK'
    BY <1>1, <1>4, <2>1 DEF TypeOK, shared
  <2>6. Batches'
    <3>1. \A u \in Worker : state'[u] \in WorkerState
      BY <2>1, QueueAssumption DEF Batches, WorkerState, Thread
    <3>2. state'[Master] \in MasterState /\ state'[Master] # "aborted"
      BY <2>1 DEF Batches, MasterState, Thread
    <3>3. \A u \in Thread : vChecks'[u] # {} <=> state'[u] \in {"work", "relock"}
      BY <1>1, <2>1 DEF Batches
    <3>4. /\ \A u \in Thread : queue' \cap vChecks'[u] = {}
          /\ \A u, v \in Thread : u # v => vChecks'[u] \cap vChecks'[v] = {}
      BY <1>1, <2>1 DEF Batches, shared
    <3>5. Unfinished(Thread)' \subseteq added'
      <4>1. Unfinished(Thread \ {t}) \subseteq Unfinished(Thread)
        BY DEF Unfinished
      <4> QED BY <4>1, <1>1, <2>2 DEF Batches
    <3> QED BY <3>1, <3>2, <3>3, <3>4, <3>5 DEF Batches
  <2>7. Counters'
    <3>1. Cardinality(Unfinished(Thread)') \in Nat
      BY <2>2, Finite
    <3> QED BY <1>1, <2>0, <2>2, <2>3, <2>4, <2>5, <3>1 DEF Counters, TypeOK, shared
  <2>8. Resting'
    BY <2>0 DEF Resting
  <2>9. Results'
    <3>1. ~fAllOk' => added' \cap Bad # {}
      BY <1>1 DEF Results, shared
    <3>2. \A u \in Thread : state'[u] \in {"work", "relock"} /\ ~fOk'[u] => added' \cap Bad # {}
      BY <1>1, <2>1 DEF Results
    <3>3. nTodo' # Cardinality(Unfinished(Thread)')
      <4>1. Cardinality(Unfinished(Thread)') \in Nat
        BY <2>2, Finite
      <4> QED BY <2>3, <2>5, <4>1 DEF TypeOK
    <3> QED BY <3>1, <3>2, <3>3 DEF Results
  <2>10. VerdictIsExact'
    BY <1>1, <1>6, <2>1 DEF VerdictIsExact, Thread
  <2> QED BY <2>5, <2>6, <2>7, <2>8, <2>9, <2>10
<1>7. fShutdown \in BOOLEAN
  BY DEF TypeOK
<1> QED BY <1>5, <1>6, <1>7

-----------------------------------------------------------------------------
(***************************************************************************)
(* The steps of ConnectBlock and of the shutdown.                          *)
(***************************************************************************)

\* A new block starts from an idle queue, or not at all.
LEMMA BeginBlockStep ==
    ASSUME IndInv, BeginBlock
    PROVE  IndInv'
<1> USE DEF IndInv
<1>1. /\ state[Master] = "out"
      /\ state' = [u \in Thread |->
                      IF u = Master THEN IF IsIdle THEN "adding" ELSE "aborted" ELSE state[u]]
      /\ added' = {} /\ early' = FALSE /\ nBlocks < MaxBlocks /\ nBlocks' = nBlocks + 1
      /\ fShutdown => ShutdownWhileConnecting
      /\ UNCHANGED <<shared, fShutdown, quitter, vChecks, fOk, verdict>>
  BY DEF BeginBlock, CsMainIsFree, TypeOK
<1>2. Asleep' = Asleep /\ Inside' = Inside /\ Unfinished(Thread)' = Unfinished(Thread)
  <2>1. Asleep' = Asleep
    BY <1>1 DEF Asleep
  <2>2. Inside' = Inside
    BY <1>1 DEF Inside
  <2>3. Unfinished(Thread)' = Unfinished(Thread)
    BY <1>1 DEF Unfinished, shared
  <2> QED BY <2>1, <2>2, <2>3
<1>3. ~SentAway => IsIdle
  <2> SUFFICES ASSUME ~SentAway PROVE IsIdle
    OBVIOUS
  <2>1. nTodo = 0 /\ fAllOk
    BY <1>1 DEF Resting
  <2>2. \A u \in Thread : state[u] \notin {"work", "relock"}
    BY <2>1, NothingLeft
  <2>3. Inside = Asleep
    BY <2>2 DEF Inside, Asleep
  <2> QED BY <2>1, <2>3 DEF IsIdle, Counters
<1>4. IsIdle => /\ Unfinished(Thread) = {}
                /\ \A u \in Thread : state[u] \notin {"work", "relock"}
  BY NothingLeft DEF IsIdle
<1>5. state'[Master] = (IF IsIdle THEN "adding" ELSE "aborted")
  BY <1>1 DEF Thread
<1>6. TypeOK'
  <2>1. nBlocks' \in 0 .. MaxBlocks
    BY <1>1, QueueAssumption DEF TypeOK
  <2>2. state' \in [Thread -> {"new", "wait", "woken", "work", "relock", "gone",
                               "out", "adding", "aborted"}]
    BY <1>1 DEF TypeOK
  <2> QED BY <1>1, <2>1, <2>2 DEF TypeOK, shared
<1>7. Batches'
  <2>1. \A u \in Worker : state'[u] \in WorkerState
    BY <1>1, QueueAssumption DEF Batches, WorkerState, Thread
  <2>2. state'[Master] \in MasterState
    BY <1>5 DEF MasterState
  <2>3. \A u \in Thread : vChecks'[u] # {} <=> state'[u] \in {"work", "relock"}
    BY <1>1 DEF Batches
  <2>4. state'[Master] # "aborted" => Unfinished(Thread)' \subseteq added'
    BY <1>2, <1>4, <1>5
  <2> QED BY <1>1, <2>1, <2>2, <2>3, <2>4 DEF Batches, shared
<1>8. Counters'
  BY <1>1, <1>2 DEF Counters, SentAway, shared
<1>9. Resting'
  BY <1>1, <1>3, <1>5 DEF Resting, SentAway
<1>10. Results'
  <2>1. state'[Master] # "aborted" => fAllOk'
    BY <1>1, <1>5 DEF IsIdle, shared
  <2>2. state'[Master] # "aborted" => \A u \in Thread : state'[u] \notin {"work", "relock"}
    BY <1>1, <1>4, <1>5
  <2> QED BY <1>1, <2>1, <2>2 DEF Results
<1>11. VerdictIsExact'
  BY <1>5 DEF VerdictIsExact
<1> QED BY <1>6, <1>7, <1>8, <1>9, <1>10, <1>11

\* Checks are added to the queue and to nTodo together.
LEMMA AddStep ==
    ASSUME IndInv, NEW S \in SUBSET Check, Add(S)
    PROVE  IndInv'
<1> USE DEF IndInv
<1>1. /\ state[Master] = "adding"
      /\ S \cap added = {}
      /\ queue' = queue \cup S
      /\ nTodo' = nTodo + Cardinality(S)
      /\ added' = added \cup S
      /\ UNCHANGED <<nIdle, nTotal, fAllOk, fQuit, fShutdown, quitter, vChecks,
                     fOk, early, verdict, nBlocks>>
  BY DEF Add, Push
<1>2. Notified(state')
  <2>1. Worker \in SUBSET Thread
    BY DEF Thread
  <2>2. CASE state' \in NotifyOne(state, Worker)
    BY <2>1, <2>2, NotifyOneNotifies
  <2>3. CASE state' = NotifyAll(state, Worker)
    BY <2>1, <2>3, NotifyAllNotifies
  <2> QED BY <2>2, <2>3 DEF Add, Push
<1>3. state'[Master] = "adding"
  BY <1>1, <1>2 DEF Notified, Thread
<1>4. /\ Asleep' = Asleep /\ Inside' = Inside
      /\ Unfinished(Thread)' = Unfinished(Thread) \cup S
  <2>1. Unfinished(Thread)' = Unfinished(Thread) \cup S
    BY <1>1 DEF Unfinished
  <2> QED BY <1>2, <2>1, NotifiedSets
<1>5. Unfinished(Thread) \subseteq added
  BY <1>1 DEF Batches
<1>6. /\ Cardinality(S) \in Nat /\ Cardinality(Unfinished(Thread)) \in Nat
      /\ Cardinality(Unfinished(Thread)') = Cardinality(Unfinished(Thread)) + Cardinality(S)
  <2> DEFINE U == Unfinished(Thread)
  <2>1. U \in SUBSET Check
    BY Finite
  <2>2. IsFiniteSet(U) /\ IsFiniteSet(S) /\ Cardinality(U) \in Nat /\ Cardinality(S) \in Nat
    BY <2>1, Finite
  <2>3. U \cap S = {}
    BY <1>1, <1>5
  <2>4. Cardinality(U \cap S) = 0
    BY <2>3, FS_EmptySet
  <2>5. Cardinality(U \cup S) = Cardinality(U) + Cardinality(S) - Cardinality(U \cap S)
    BY <2>2, FS_Union
  <2>6. Cardinality(U \cup S) = Cardinality(U) + Cardinality(S)
    BY ONLY <2>2, <2>4, <2>5
  <2> QED BY <1>4, <2>2, <2>6
<1>7. TypeOK'
  <2>1. state' \in [Thread -> {"new", "wait", "woken", "work", "relock", "gone",
                               "out", "adding", "aborted"}]
    BY <1>2 DEF Notified, TypeOK
  <2>2. nTodo' \in Nat
    BY <1>1, <1>6 DEF TypeOK
  <2> QED BY <1>1, <2>1, <2>2 DEF TypeOK
<1>8. Batches'
  <2>1. \A u \in Worker : state'[u] \in WorkerState
    BY <1>2 DEF Batches, WorkerState, Thread, Notified
  <2>2. state'[Master] \in MasterState
    BY <1>3 DEF MasterState
  <2>3. \A u \in Thread : vChecks'[u] # {} <=> state'[u] \in {"work", "relock"}
    BY <1>1, <1>2 DEF Batches, Notified
  <2>4. \A u \in Thread : queue' \cap vChecks'[u] = {}
    BY <1>1, <1>5 DEF Batches, Unfinished
  <2>5. Unfinished(Thread)' \subseteq added'
    BY <1>1, <1>4, <1>5
  <2> QED BY <1>1, <2>1, <2>2, <2>3, <2>4, <2>5 DEF Batches
<1>9. Counters'
  <2>1. nTodo \in Nat
    BY DEF TypeOK
  <2>2. /\ nTodo' >= Cardinality(Unfinished(Thread)')
        /\ ~SentAway => nTodo' = Cardinality(Unfinished(Thread)')
    BY <1>1, <1>6, <2>1 DEF Counters
  <2> QED BY <1>1, <1>4, <2>2 DEF Counters, SentAway
<1>10. Resting'
  BY <1>1, <1>3 DEF Resting, SentAway
<1>11. Results'
  <2>1. ~fAllOk' => added' \cap Bad # {}
    BY <1>1 DEF Results
  <2>2. \A u \in Thread : state'[u] \in {"work", "relock"} /\ ~fOk'[u] => added' \cap Bad # {}
    BY <1>1, <1>2 DEF Results, Notified
  <2>3. ASSUME fAllOk', nTodo' = Cardinality(Unfinished(Thread)'), NEW c \in added' \cap Bad
        PROVE  Pending(c, Thread)'
    <3>1. CASE c \in S
      BY <1>1, <3>1 DEF Pending
    <3>2. CASE c \in added
      <4>1. nTodo = Cardinality(Unfinished(Thread))
        BY <1>1, <1>6, <2>3 DEF TypeOK
      <4>2. Pending(c, Thread)
        BY <1>1, <2>3, <3>2, <4>1 DEF Results
      <4> QED BY <1>1, <1>2, <4>2 DEF Pending, Notified
    <3> QED BY <1>1, <3>1, <3>2
  <2> QED BY <2>1, <2>2, <2>3 DEF Results
<1>12. VerdictIsExact'
  BY <1>3 DEF VerdictIsExact
<1> QED BY <1>7, <1>8, <1>9, <1>10, <1>11, <1>12

\* Steps that leave the counters, the batches and the block as they are.
LEMMA QuietStep ==
    ASSUME IndInv, TypeOK', Notified(state'), state[Master] # "aborted",
           state'[Master] = state[Master],
           UNCHANGED <<queue, nIdle, nTotal, fAllOk, nTodo, vChecks, fOk, added, verdict>>,
           early => early', state[Master] = "out" => UNCHANGED early,
           fShutdown => fShutdown',
           ~SentAway' /\ fShutdown' => state[Master] = "out"
    PROVE  IndInv'
<1> USE DEF IndInv
<1>1. /\ Asleep' = Asleep /\ Inside' = Inside
      /\ Unfinished(Thread)' = Unfinished(Thread)
  <2>1. Unfinished(Thread)' = Unfinished(Thread)
    BY DEF Unfinished
  <2> QED BY <2>1, NotifiedSets
<1>2. ~SentAway' => ~SentAway
  BY DEF SentAway
<1>3. Batches'
  <2>1. \A u \in Worker : state'[u] \in WorkerState
    BY DEF Batches, WorkerState, Thread, Notified
  <2>2. \A u \in Thread : vChecks'[u] # {} <=> state'[u] \in {"work", "relock"}
    BY DEF Batches, Notified
  <2> QED BY <1>1, <2>1, <2>2 DEF Batches
<1>4. Counters'
  BY <1>1, <1>2 DEF Counters
<1>5. Resting'
  BY <1>2 DEF Resting
<1>6. Results'
  <2>1. \A u \in Thread : state'[u] \in {"work", "relock"} => state'[u] = state[u]
    BY DEF Notified
  <2>2. \A c : Pending(c, Thread) => Pending(c, Thread)'
    BY DEF Notified, Pending
  <2> QED BY <1>1, <2>1, <2>2 DEF Results
<1>7. VerdictIsExact'
  BY DEF VerdictIsExact
<1> QED BY <1>3, <1>4, <1>5, <1>6, <1>7

\* ConnectBlock returns early: the destructor waits all the same.
LEMMA FailEarlyStep ==
    ASSUME IndInv, FailEarly
    PROVE  IndInv'
<1>1. TypeOK' /\ Notified(state')
  BY DEF IndInv, TypeOK, FailEarly, Notified, shared, local
<1> QED BY <1>1, QuietStep DEF FailEarly, shared, local, IndInv, Resting, SentAway

\* fShutdown is raised.
LEMMA ShutdownStep ==
    ASSUME IndInv, state[Master] # "aborted", Shutdown
    PROVE  IndInv'
<1>1. TypeOK' /\ Notified(state')
  BY DEF IndInv, TypeOK, Shutdown, Notified, shared, local, block
<1> QED BY <1>1, QuietStep DEF Shutdown, shared, local, block, SentAway

\* Quit wakes everybody, waits and returns.
LEMMA QuitStep ==
    ASSUME IndInv, Quit \/ QuitWakesUp, state[Master] # "aborted"
    PROVE  IndInv'
<1>1. CASE Quit
  <2>1. Worker \in SUBSET Thread
    BY DEF Thread
  <2>2. Notified(state')
    BY <1>1, <2>1, NotifyAllNotifies DEF Quit, IndInv
  <2>3. TypeOK'
    BY <1>1, <2>2 DEF Quit, Notified, IndInv, TypeOK, block
  <2>4. state'[Master] = state[Master]
    BY <1>1, <2>2 DEF Quit, Notified, Thread
  <2> QED BY <1>1, <2>2, <2>3, <2>4, QuietStep DEF Quit, block, IndInv, Resting, SentAway
<1>2. CASE QuitWakesUp
  <2>1. TypeOK' /\ Notified(state')
    BY <1>2 DEF IndInv, TypeOK, QuitWakesUp, Notified, shared, local, block
  <2> QED BY <1>2, <2>1, QuietStep DEF QuitWakesUp, shared, local, block, IndInv, Resting, SentAway
<1> QED BY <1>1, <1>2

-----------------------------------------------------------------------------
(***************************************************************************)
(* The theorems.                                                           *)
(***************************************************************************)

\* Every state of the queue, reached by whatever interleaving of the workers,
\* the master and the shutdown, satisfies the inductive invariant.
THEOREM Invariance == Spec => []IndInv
<1>1. Init => IndInv
  <2> SUFFICES ASSUME Init PROVE IndInv
    OBVIOUS
  <2>1. TypeOK
    <3>1. nBlocks \in 0 .. MaxBlocks
      BY QueueAssumption DEF Init
    <3>2. /\ state \in [Thread -> {"new", "wait", "woken", "work", "relock", "gone",
                                   "out", "adding", "aborted"}]
          /\ vChecks \in [Thread -> SUBSET Check]
          /\ fOk \in [Thread -> BOOLEAN]
      BY DEF Init
    <3> QED BY <3>1, <3>2 DEF Init, TypeOK
  <2>2. Asleep = {} /\ Inside = {} /\ Unfinished(Thread) = {}
    BY DEF Init, Asleep, Inside, Unfinished
  <2>3. Batches
    BY <2>2, QueueAssumption DEF Init, Batches, WorkerState, MasterState, Thread
  <2>4. Counters
    BY <2>2, FS_EmptySet DEF Init, Counters
  <2>5. state[Master] = "out"
    BY DEF Init, Thread
  <2>6. Resting
    BY <2>5 DEF Init, Resting
  <2>7. Results
    BY <2>5, QueueAssumption DEF Init, Results, Thread
  <2>8. VerdictIsExact
    BY DEF Init, VerdictIsExact
  <2> QED BY <2>1, <2>3, <2>4, <2>6, <2>7, <2>8 DEF IndInv
<1>2. IndInv /\ [Next]_vars => IndInv'
  <2> SUFFICES ASSUME IndInv, [Next]_vars PROVE IndInv'
    OBVIOUS
  <2>1. CASE Next
    <3>1. state[Master] # "aborted"
      BY <2>1 DEF Next
    <3>2. ASSUME NEW t \in Thread,
                 Enter(t) \/ WakeUp(t) \/ Spurious(t) \/ RunBatch(t) \/ FinishBatch(t)
          PROVE  IndInv'
      BY <3>1, <3>2, EnterStep, AwakeStep, RunBatchStep, FinishBatchStep
    <3>3. ASSUME NEW S \in SUBSET Check, Add(S)
          PROVE  IndInv'
      BY <3>3, AddStep
    <3>4. CASE BeginBlock
      BY <3>4, BeginBlockStep
    <3>5. CASE FailEarly
      BY <3>5, FailEarlyStep
    <3>6. CASE Shutdown
      BY <3>1, <3>6, ShutdownStep
    <3>7. CASE Quit \/ QuitWakesUp
      BY <3>1, <3>7, QuitStep
    <3> QED BY <2>1, <3>2, <3>3, <3>4, <3>5, <3>6, <3>7 DEF Next
  <2>2. CASE UNCHANGED vars
    BY <2>2 DEF vars, shared, local, block, IndInv, TypeOK, Batches, Counters, Resting,
                Results, VerdictIsExact, Asleep, Inside, Unfinished, Pending, SentAway
  <2> QED BY <2>1, <2>2
<1> QED BY <1>1, <1>2, PTL DEF Spec

\* The counters of the queue never go below zero, with any number of threads
\* and even when fShutdown sends threads away.
THEOREM TypeCorrect == Spec => []TypeOK
<1>1. IndInv => TypeOK
  BY DEF IndInv
<1> QED BY <1>1, Invariance, PTL

\* nTotal, nIdle and nTodo count what the threads are really doing.
THEOREM CountersExact == Spec => []CountersAreExact
<1>1. IndInv => CountersAreExact
  BY DEF IndInv, Counters, CountersAreExact, SentAway, Unfinished
<1> QED BY <1>1, Invariance, PTL

\* ConnectBlock gets the conjunction of all the checks of its block, of no
\* other block, and of nothing else.
THEOREM VerdictExact == Spec => []VerdictIsExact
<1>1. IndInv => VerdictIsExact
  BY DEF IndInv
<1> QED BY <1>1, Invariance, PTL

\* As long as fShutdown is not raised around a ConnectBlock, the assertion of
\* CCheckQueueControl holds whenever a block is connected.
THEOREM ControlAssertion ==
    ASSUME ~ShutdownWhileConnecting
    PROVE  Spec => []ControlFindsQueueIdle
<1>1. IndInv => ControlFindsQueueIdle
  BY DEF IndInv, Resting, SentAway, ControlFindsQueueIdle
<1> QED BY <1>1, Invariance, PTL
=============================================================================
