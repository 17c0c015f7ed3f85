---------------------------- MODULE BackendRun ----------------------------
(***************************************************************************)
(* The run loop of the back end of one RP process: the test of the number  *)
(* of workers under a condition variable, one try for a cluster document   *)
(* and one for a subscription document per round, the goroutines that work *)
(* on them, and the goroutine that waits for the stop channel.             *)
(*                                                                         *)
(* Nobody but the loop takes the mutex, so Signal may come at any time.    *)
(* sync.Cond's Wait first enters the list of waiters and then sleeps; a    *)
(* Signal wakes a waiter on the list and is lost if there is none.         *)
(*                                                                         *)
(* What a try finds in the store is left open.                             *)
(***************************************************************************)
EXTENDS Integers, FiniteSets

CONSTANTS
  MaxWorkers,   \* maxWorkers, pkg/backend/backend.go
  Goroutines    \* names for worker goroutines: bounds those alive at once

ASSUME MaxWorkersAssumption == MaxWorkers \in Nat \ {0}

VARIABLES
  loop,       \* control point of Run
  didWork,    \* ocbDidWork, while the loop is in sb.try
  workers,    \* the atomic counter
  g,          \* control point of each worker goroutine
  stopper,    \* control point of the goroutine that waits for stop
  stopping,   \* the atomic flag
  lost,       \* history: a Signal came between the loop's test and its wait
  late        \* history: calls of try since stopping was set

vars == <<loop, didWork, workers, g, stopper, stopping, lost, late>>

TypeOK ==
  /\ loop \in {"test", "testStopping", "enter", "wait", "top",
               "ocb", "sb", "sleep", "done"}
  /\ didWork \in BOOLEAN
  /\ workers \in Nat
  /\ g \in [Goroutines -> {"none", "handle", "signal"}]
  /\ stopper \in {"blocked", "store", "signal", "done"}
  /\ stopping \in BOOLEAN
  /\ lost \in BOOLEAN
  /\ late \in Nat

Init ==
  /\ loop = "test"
  /\ didWork = FALSE
  /\ workers = 0
  /\ g = [k \in Goroutines |-> "none"]
  /\ stopper = "blocked"
  /\ stopping = FALSE
  /\ lost = FALSE
  /\ late = 0

---------------------------------------------------------------------------
(***************************************************************************)
(* The loop.                                                               *)
(***************************************************************************)
\* Mutant: one worker too many.
TestWorkers_OffByOne ==
  /\ loop = "test"
  /\ loop' = IF workers > MaxWorkers THEN "testStopping" ELSE "top"
  /\ lost' = FALSE
  /\ UNCHANGED <<didWork, workers, g, stopper, stopping, late>>

TestWorkers ==
  /\ loop = "test"
  /\ loop' = IF workers >= MaxWorkers THEN "testStopping" ELSE "top"
  /\ lost' = FALSE
  /\ UNCHANGED <<didWork, workers, g, stopper, stopping, late>>

TestStopping ==
  /\ loop = "testStopping"
  /\ loop' = IF stopping THEN "top" ELSE "enter"
  /\ UNCHANGED <<didWork, workers, g, stopper, stopping, lost, late>>

\* cond.Wait enters the list of waiters.
EnterWait ==
  /\ loop = "enter"
  /\ loop' = "wait"
  /\ UNCHANGED <<didWork, workers, g, stopper, stopping, lost, late>>

\* Mutant: stopping is only looked at while waiting for a free worker.
Top_NoBreak ==
  /\ loop = "top"
  /\ loop' = "ocb"
  /\ UNCHANGED <<didWork, workers, g, stopper, stopping, lost, late>>

Top ==
  /\ loop = "top"
  /\ loop' = IF stopping THEN "done" ELSE "ocb"
  /\ UNCHANGED <<didWork, workers, g, stopper, stopping, lost, late>>

\* try dequeued a document and starts a goroutine on it.
StartWorker ==
  /\ \E k \in Goroutines : g[k] = "none" /\ g' = [g EXCEPT ![k] = "handle"]
  /\ workers' = workers + 1

\* What a call of try may do: find nothing or fail; end the lease of a
\* document that was dequeued too often; start a worker.
Try(found) ==
  /\ \/ ~found /\ UNCHANGED <<g, workers>>
     \/ found /\ UNCHANGED <<g, workers>>
     \/ found /\ StartWorker
  /\ late' = IF stopping THEN late + 1 ELSE late

TryCluster ==
  /\ loop = "ocb"
  /\ \E found \in BOOLEAN : Try(found) /\ didWork' = found
  /\ loop' = "sb"
  /\ UNCHANGED <<stopper, stopping, lost>>

TrySubscription ==
  /\ loop = "sb"
  /\ \E found \in BOOLEAN :
       /\ Try(found)
       /\ loop' = IF didWork \/ found THEN "test" ELSE "sleep"
  /\ didWork' = FALSE
  /\ UNCHANGED <<stopper, stopping, lost>>

Tick ==
  /\ loop = "sleep"
  /\ loop' = "test"
  /\ UNCHANGED <<didWork, workers, g, stopper, stopping, lost, late>>

---------------------------------------------------------------------------
(***************************************************************************)
(* The goroutines.                                                         *)
(***************************************************************************)
\* cond.Signal; a woken loop tests its condition again.
Signal ==
  /\ loop' = IF loop = "wait" THEN "test" ELSE loop
  /\ lost' = (lost \/ loop \in {"testStopping", "enter"})

\* handle returned or panicked: the deferred function runs in either case.
WorkerDone(k) ==
  /\ g[k] = "handle"
  /\ workers' = workers - 1
  /\ g' = [g EXCEPT ![k] = "signal"]
  /\ UNCHANGED <<loop, didWork, stopper, stopping, lost, late>>

\* Mutant: a worker that is done wakes nobody.
WorkerSignal_None(k) ==
  /\ g[k] = "signal"
  /\ g' = [g EXCEPT ![k] = "none"]
  /\ UNCHANGED <<loop, didWork, workers, stopper, stopping, lost, late>>

WorkerSignal(k) ==
  /\ g[k] = "signal"
  /\ Signal
  /\ g' = [g EXCEPT ![k] = "none"]
  /\ UNCHANGED <<didWork, workers, stopper, stopping, late>>

\* SIGTERM: rp() closes the stop channel.
CloseStop ==
  /\ stopper = "blocked"
  /\ stopper' = "store"
  /\ UNCHANGED <<loop, didWork, workers, g, stopping, lost, late>>

StoreStopping ==
  /\ stopper = "store"
  /\ stopping' = TRUE
  /\ stopper' = "signal"
  /\ UNCHANGED <<loop, didWork, workers, g, lost, late>>

\* Mutant: the stop goroutine wakes nobody.
StopSignal_None ==
  /\ stopper = "signal"
  /\ stopper' = "done"
  /\ UNCHANGED <<loop, didWork, workers, g, stopping, lost, late>>

StopSignal ==
  /\ stopper = "signal"
  /\ Signal
  /\ stopper' = "done"
  /\ UNCHANGED <<didWork, workers, g, stopping, late>>

---------------------------------------------------------------------------
Loop == \/ TestWorkers \/ TestStopping \/ EnterWait \/ Top
        \/ TryCluster \/ TrySubscription \/ Tick

Next ==
  \/ Loop
  \/ \E k \in Goroutines : WorkerDone(k) \/ WorkerSignal(k)
  \/ CloseStop \/ StoreStopping \/ StopSignal

Spec == Init /\ [][Next]_vars

\* Goroutines are scheduled.  SIGTERM need not come, handle need not return.
Scheduled ==
  /\ WF_vars(Loop)
  /\ \A k \in Goroutines : WF_vars(WorkerSignal(k))
  /\ WF_vars(StoreStopping \/ StopSignal)

FairSpec == Spec /\ Scheduled

\* Every handle returns: the waits of the managers have timeouts.
HandlesReturn == \A k \in Goroutines : WF_vars(WorkerDone(k))

---------------------------------------------------------------------------
Working == {k \in Goroutines : g[k] = "handle"}

\* The number of workers is tested once for the two tries of a round, so the
\* goroutines at work are at most maxWorkers + 1, and only after the try for
\* a subscription that many.
WorkersBounded ==
  /\ Cardinality(Working) <= MaxWorkers + 1
  /\ loop = "sb" => Cardinality(Working) <= MaxWorkers
  /\ loop = "ocb" => Cardinality(Working) < MaxWorkers

\* Once stopping is set the loop finishes its round and takes no more work.
StopsTakingWork == late <= 2

\* If every handle returns, the loop does not wait for ever for a free
\* worker, unless a Signal came between its test and this very wait.
WakesUp == HandlesReturn => (loop = "wait" ~> loop # "wait" \/ lost)

\* After SIGTERM the loop ends, without waiting for any worker to finish,
\* with the same exception.
Stops == stopping ~> loop = "done" \/ (loop = "wait" /\ lost)
===========================================================================
