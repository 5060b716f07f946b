----------------------------- MODULE CheckQueue -----------------------------
(***************************************************************************)
(* CCheckQueue and CCheckQueueControl: the script checks of one block are  *)
(* pushed by the master, the thread that runs ConnectBlock under cs_main,  *)
(* and run by it and by the workers of ThreadScriptCheck; StopNode ends    *)
(* the workers with Quit, also under cs_main.                              *)
(*                                                                         *)
(* One critical section of the queue's mutex is one step, up to the next   *)
(* wait on a condition variable, and running a batch outside the mutex is  *)
(* one step.  A thread that waits may wake up without a notification.      *)
(* "The order of booleans doesn't matter": the vector is a set, a batch    *)
(* any subset of the right size.                                           *)
(***************************************************************************)
EXTENDS Integers, FiniteSets

CONSTANTS
    Worker,         \* the threads of ThreadScriptCheck
    Master,         \* whoever holds cs_main in ConnectBlock
    Check,          \* the script checks of a block
    Bad,            \* those that return false
    nBatchSize,     \* the most checks of one batch
    MaxBlocks,      \* bound on blocks connected
    ShutdownWhileConnecting  \* fShutdown may be raised around a ConnectBlock

Thread == Worker \cup {Master}

ASSUME QueueAssumption ==
    /\ Master \notin Worker
    /\ IsFiniteSet(Worker) /\ IsFiniteSet(Check)
    /\ Bad \subseteq Check
    /\ nBatchSize \in Nat \ {0}
    /\ MaxBlocks \in Nat
    /\ ShutdownWhileConnecting \in BOOLEAN

VARIABLES
    queue,      \* checks nobody has taken
    nIdle,      \* threads waiting for work
    nTotal,     \* threads inside Loop
    fAllOk,     \* the result so far
    nTodo,      \* checks not finished
    fQuit,      \* Quit has been called
    fShutdown,  \* args_bool::fShutdown
    state,      \* where each thread is
    vChecks,    \* the batch of each thread
    fOk,        \* its local result
    quitter,    \* where the thread of boot::Shutdown is
    added,      \* the checks of the block being connected
    early,      \* ConnectBlock has failed before it called Wait
    verdict,    \* what ConnectBlock made of the last block's scripts
    nBlocks     \* blocks so far

shared == <<queue, nIdle, nTotal, fAllOk, nTodo, fQuit>>
local  == <<state, vChecks, fOk>>
block  == <<added, early, verdict, nBlocks>>
vars   == <<shared, local, block, fShutdown, quitter>>

Asleep  == {t \in Thread : state[t] \in {"wait", "woken"}}

\* Threads inside Loop.
Inside == {t \in Thread : state[t] \in {"wait", "woken", "work", "relock"}}

TypeOK ==
    /\ queue \subseteq Check
    /\ nIdle \in Nat /\ nTotal \in Nat /\ nTodo \in Nat
    /\ fAllOk \in BOOLEAN /\ fQuit \in BOOLEAN /\ fShutdown \in BOOLEAN
    /\ state \in [Thread -> {"new", "wait", "woken", "work", "relock", "gone",
                             "out", "adding", "aborted"}]
    /\ vChecks \in [Thread -> SUBSET Check]
    /\ fOk \in [Thread -> BOOLEAN]
    /\ quitter \in {"running", "stopping", "wait", "woken", "done"}
    /\ added \subseteq Check
    /\ early \in BOOLEAN /\ verdict \in BOOLEAN
    /\ nBlocks \in 0 .. MaxBlocks

Init ==
    /\ queue = {} /\ nIdle = 0 /\ nTotal = 0 /\ nTodo = 0
    /\ fAllOk = TRUE /\ fQuit = FALSE /\ fShutdown = FALSE
    /\ state = [t \in Thread |-> IF t = Master THEN "out" ELSE "new"]
    /\ vChecks = [t \in Thread |-> {}]
    /\ fOk = [t \in Thread |-> TRUE]
    /\ quitter = "running"
    /\ added = {} /\ early = FALSE /\ verdict = TRUE /\ nBlocks = 0

-----------------------------------------------------------------------------
IsIdle == nTotal = nIdle /\ nTodo = 0 /\ fAllOk

\* Decide how many checks to process now.
BatchSize(total, idle) ==
    LET share == Cardinality(queue) \div (total + idle + 1)
        most  == IF share < nBatchSize THEN share ELSE nBatchSize
    IN  IF most < 1 THEN 1 ELSE most

\* s after notify_one and notify_all of the threads of W that wait.
NotifyOne(s, W) ==
    LET asleep == {t \in W : s[t] = "wait"}
    IN  IF asleep = {} THEN {s} ELSE {[s EXCEPT ![t] = "woken"] : t \in asleep}

NotifyAll(s, W) ==
    [t \in Thread |-> IF t \in W /\ s[t] = "wait" THEN "woken" ELSE s[t]]

(***************************************************************************)
(* The critical section of Loop from "logically, the do loop starts here", *)
(* with the counters, and the other threads' states s, as the code before  *)
(* it has left them.                                                       *)
(***************************************************************************)
\* Nothing is left to do: leave, the master with the result.
MayLeave(t, todo) == (t = Master \/ fQuit) /\ todo = 0

\* Mutant of ResetResult: the result is not reset for the next block.
KeepResult(t, ok) == fAllOk' = ok

\* The master resets the status for new work later.
ResetResult(t, ok) == fAllOk' = (ok \/ t = Master)

\* Mutant of NotifyQuit: condQuit is not notified.
NotifyNobody(total) == UNCHANGED quitter

\* The last thread notifies condQuit.
NotifyQuit(total) ==
    quitter' = IF total = 1 /\ quitter = "wait" THEN "woken" ELSE quitter

LeaveLoop(t, s, total, ok) ==
    /\ nTotal' = total - 1
    /\ NotifyQuit(total)
    /\ ResetResult(t, ok)
    /\ verdict' = IF t = Master THEN ok /\ ~early ELSE verdict
    /\ state' = [s EXCEPT ![t] = IF t = Master THEN "out" ELSE "gone"]
    /\ vChecks' = [vChecks EXCEPT ![t] = {}]

WaitForWork(t, s) ==
    /\ state' = [s EXCEPT ![t] = "wait"]
    /\ vChecks' = [vChecks EXCEPT ![t] = {}]

TakeBatch(t, s, size, ok) ==
    \E B \in SUBSET queue :
        /\ Cardinality(B) = size
        /\ queue' = queue \ B
        /\ vChecks' = [vChecks EXCEPT ![t] = B]
        /\ fOk' = [fOk EXCEPT ![t] = ok]
        /\ state' = [s EXCEPT ![t] = "work"]

LoopBody(t, s, total, idle, todo, ok) ==
    /\ nTodo' = todo
    /\ \/ /\ queue = {} /\ MayLeave(t, todo)
          /\ LeaveLoop(t, s, total, ok)
          /\ nIdle' = idle
          /\ UNCHANGED <<queue, fOk>>
       \/ /\ queue = {} /\ ~MayLeave(t, todo)
          /\ WaitForWork(t, s)
          /\ nIdle' = idle + 1
          /\ nTotal' = total /\ fAllOk' = ok
          /\ UNCHANGED <<queue, fOk, quitter, verdict>>
       \/ /\ queue # {}
          /\ TakeBatch(t, s, BatchSize(total, idle), ok)
          /\ nIdle' = idle
          /\ nTotal' = total /\ fAllOk' = ok
          /\ UNCHANGED <<quitter, verdict>>
    /\ UNCHANGED <<fQuit, fShutdown, added, nBlocks>>

-----------------------------------------------------------------------------
(***************************************************************************)
(* Loop, for a worker and for the master.                                  *)
(***************************************************************************)

\* Thread(), Wait() and, when ConnectBlock has failed already, the Wait() of
\* ~CCheckQueueControl: the first iteration.
Enter(t) ==
    /\ state[t] \in {"new", "adding"}
    /\ LoopBody(t, state, nTotal + 1, nIdle, nTodo, fAllOk)
    /\ UNCHANGED early

\* cond.wait returns: notified, or not.
WakeUp(t) ==
    /\ state[t] = "woken"
    /\ LoopBody(t, state, nTotal, nIdle - 1, nTodo, fAllOk)
    /\ UNCHANGED early

Spurious(t) ==
    /\ state[t] = "wait"
    /\ LoopBody(t, state, nTotal, nIdle - 1, nTodo, fAllOk)
    /\ UNCHANGED early

\* The checks of a batch are run up to the first that fails.
RunsOk(t) == fOk[t] /\ vChecks[t] \cap Bad = {}

\* The batch is run without the mutex; then fShutdown is read, which may send
\* the thread out of Loop at once, with the result false: "HACK: force queue
\* to shut down".
RunBatch(t) ==
    /\ state[t] = "work"
    /\ fOk' = [fOk EXCEPT ![t] = RunsOk(t)]
    /\ IF fShutdown
       THEN /\ state' = [state EXCEPT ![t] = IF t = Master THEN "out" ELSE "gone"]
            /\ verdict' = IF t = Master THEN FALSE ELSE verdict
            /\ vChecks' = [vChecks EXCEPT ![t] = {}]
       ELSE /\ state' = [state EXCEPT ![t] = "relock"]
            /\ UNCHANGED <<verdict, vChecks>>
    /\ UNCHANGED <<shared, fShutdown, quitter, added, early, nBlocks>>

\* Mutant of NotifyMaster: the worker forgets it.
NotifyNoMaster(t, todo) == {state}

\* The worker that finishes the last check notifies the master.
NotifyMaster(t, todo) ==
    IF todo = 0 /\ t # Master THEN NotifyOne(state, {Master}) ELSE {state}

\* The clean-up of a batch of n checks, and the rest of the critical section.
CleanUp(t, n, ok) ==
    /\ state[t] = "relock"
    /\ \E s \in NotifyMaster(t, nTodo - n) :
          LoopBody(t, s, nTotal, nIdle, nTodo - n, ok)
    /\ UNCHANGED early

\* Mutants of FinishBatch: a batch counts as one check; the result is
\* assigned, not combined.
FinishOne(t)        == CleanUp(t, 1, fAllOk /\ fOk[t])
FinishOverwrites(t) == CleanUp(t, Cardinality(vChecks[t]), fOk[t])

\* "The clean-up of the previous loop run", in the next critical section.
FinishBatch(t) == CleanUp(t, Cardinality(vChecks[t]), fAllOk /\ fOk[t])

-----------------------------------------------------------------------------
(***************************************************************************)
(* ConnectBlock, under cs_main.                                            *)
(***************************************************************************)
CsMainIsFree == state[Master] = "out" /\ quitter \notin {"wait", "woken"}

\* CCheckQueueControl(&scriptcheckqueue): assert(isIdle)
BeginBlock ==
    /\ CsMainIsFree
    /\ nBlocks < MaxBlocks
    /\ fShutdown => ShutdownWhileConnecting
    /\ nBlocks' = nBlocks + 1
    /\ state' = [state EXCEPT ![Master] = IF IsIdle THEN "adding" ELSE "aborted"]
    /\ added' = {} /\ early' = FALSE
    /\ UNCHANGED <<shared, fShutdown, quitter, vChecks, fOk, verdict>>

\* The checks S are pushed, n is added to the counter, workers are notified.
Push(S, n) ==
    /\ state[Master] = "adding" /\ ~early
    /\ S # {} /\ S \cap added = {}
    /\ queue' = queue \cup S
    /\ nTodo' = nTodo + n
    /\ state' \in IF Cardinality(S) = 1 THEN NotifyOne(state, Worker)
                                        ELSE {NotifyAll(state, Worker)}
    /\ added' = added \cup S
    /\ UNCHANGED <<nIdle, nTotal, fAllOk, fQuit, fShutdown, quitter, vChecks,
                   fOk, early, verdict, nBlocks>>

\* Mutant of Add: a vector counts as one check.
AddCountsOnce(S) == Push(S, 1)

\* Add: the checks of one transaction (an empty vector changes nothing).
Add(S) == Push(S, Cardinality(S))

\* ConnectBlock returns false for another reason; its control is destroyed.
FailEarly ==
    /\ state[Master] = "adding" /\ ~early
    /\ early' = TRUE
    /\ UNCHANGED <<shared, local, fShutdown, quitter, added, verdict, nBlocks>>

(***************************************************************************)
(* boot::Shutdown and StopNode.                                            *)
(***************************************************************************)
Shutdown ==
    /\ quitter = "running"
    /\ ~ShutdownWhileConnecting => state[Master] = "out"
    /\ fShutdown' = TRUE
    /\ quitter' = "stopping"
    /\ UNCHANGED <<shared, local, block>>

\* Quit, once StopNode has cs_main.
Quit ==
    /\ quitter = "stopping"
    /\ state[Master] = "out"
    /\ fQuit' = TRUE
    /\ state' = NotifyAll(state, Worker)
    /\ quitter' = IF nTotal > 0 THEN "wait" ELSE "done"
    /\ UNCHANGED <<queue, nIdle, nTotal, fAllOk, nTodo, vChecks, fOk, block, fShutdown>>

\* condQuit.wait returns, notified or not.
QuitWakesUp ==
    /\ quitter = "woken" \/ (quitter = "wait" /\ nTotal = 0)
    /\ quitter' = IF nTotal > 0 THEN "wait" ELSE "done"
    /\ UNCHANGED <<shared, local, block, fShutdown>>

Next ==
    /\ state[Master] # "aborted"
    /\ \/ \E t \in Thread : Enter(t) \/ WakeUp(t) \/ Spurious(t) \/ RunBatch(t) \/ FinishBatch(t)
       \/ BeginBlock
       \/ \E S \in SUBSET Check : Add(S)
       \/ FailEarly
       \/ Shutdown
       \/ Quit
       \/ QuitWakesUp

(***************************************************************************)
(* Every thread is scheduled, gets the mutex when it waits for it and      *)
(* returns from a wait it was notified of; ConnectBlock calls Wait after   *)
(* its finitely many transactions.  Nobody has to start a block, to shut   *)
(* down or to wake up spuriously.                                          *)
(***************************************************************************)
Fairness ==
    /\ \A t \in Thread : WF_vars(Enter(t) \/ WakeUp(t) \/ RunBatch(t) \/ FinishBatch(t))
    /\ WF_vars(Quit \/ (quitter = "woken" /\ QuitWakesUp))

Spec == Init /\ [][Next]_vars /\ Fairness

-----------------------------------------------------------------------------
(***************************************************************************)
(* Properties.                                                             *)
(***************************************************************************)

\* The counters that decide who sleeps, who leaves and when the block is done
\* agree with what the threads are really doing, whatever the order in which
\* they come and go: as long as no thread was sent away by fShutdown.
CountersAreExact ==
    ~(fShutdown /\ ShutdownWhileConnecting) =>
        /\ nTotal = Cardinality(Inside)
        /\ nIdle  = Cardinality(Asleep)
        /\ nTodo  = Cardinality(queue \cup UNION {vChecks[t] : t \in Thread})

\* ConnectBlock accepts the scripts of a block only if every check that was
\* added returned true, and refuses them only if one did not, or if it failed
\* itself, or if the node is shutting down; no result leaks into the next block.
VerdictIsExact ==
    state[Master] = "out" =>
        /\ verdict => added \cap Bad = {}
        /\ ~verdict => early \/ fShutdown \/ added \cap Bad # {}

\* The assertion of CCheckQueueControl never fails: "passed queue is supposed
\* to be unused", also right after a block whose workers are still on their
\* way back to sleep.
ControlFindsQueueIdle == state[Master] # "aborted"

\* "Wait until execution finishes": Wait returns.
WaitReturns == (state[Master] = "adding") ~> (state[Master] = "out")

\* "Quit method blocks on this until all workers are gone": they go, and it
\* returns.
QuitReturns == (quitter = "stopping") ~> (quitter = "done")
=============================================================================
