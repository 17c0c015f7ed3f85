------------------------- MODULE BackendRunProofs -------------------------
(***************************************************************************)
(* The bound on the worker goroutines and the end of the run loop, for any *)
(* maxWorkers.                                                             *)
(***************************************************************************)
EXTENDS BackendRun, FiniteSetTheorems, TLAPS

\* The counter counts the goroutines at work.
Counted == IsFiniteSet(Working) /\ workers = Cardinality(Working)

\* What the loop's tests leave behind: other steps only lower the counter.
Bounded ==
  /\ workers <= MaxWorkers + 1
  /\ loop = "sb" => workers <= MaxWorkers
  /\ loop = "ocb" => workers < MaxWorkers
  /\ loop = "top" /\ ~stopping => workers < MaxWorkers

\* No round is begun after stopping was set.
LateBounded ==
  /\ late <= 2
  /\ ~stopping => late = 0
  /\ loop = "ocb" => late = 0
  /\ loop = "sb" => late <= 1

IInv == TypeOK /\ Counted /\ Bounded /\ LateBounded

\* A new goroutine at work adds one to their number.
LEMMA StartLemma ==
  ASSUME IInv, NEW k \in Goroutines, g[k] = "none",
         g' = [g EXCEPT ![k] = "handle"]
  PROVE  IsFiniteSet(Working') /\ Cardinality(Working') = workers + 1
<1>1. Working' = Working \cup {k} /\ k \notin Working
  BY DEF IInv, TypeOK, Working
<1> QED BY <1>1, FS_AddElement DEF IInv, Counted

\* A goroutine that is done takes one from their number.
LEMMA DoneLemma ==
  ASSUME IInv, NEW k \in Goroutines, WorkerDone(k)
  PROVE  /\ IsFiniteSet(Working')
         /\ Cardinality(Working') = workers - 1
         /\ workers - 1 \in Nat
<1>1. Working' = Working \ {k} /\ k \in Working
  BY DEF IInv, TypeOK, Working, WorkerDone
<1>2. IsFiniteSet(Working') /\ Cardinality(Working') = workers - 1
  BY <1>1, FS_RemoveElement DEF IInv, Counted
<1> QED BY <1>2, FS_CardinalityType

\* try leaves the counter right, and one higher at most.
LEMMA TryLemma ==
  ASSUME IInv, NEW found \in BOOLEAN, Try(found)
  PROVE  /\ g' \in [Goroutines -> {"none", "handle", "signal"}]
         /\ workers' \in {workers, workers + 1}
         /\ Counted'
         /\ late' \in {late, late + 1}
         /\ ~stopping => late' = late
<1>1. CASE UNCHANGED <<g, workers>>
  BY <1>1 DEF Try, IInv, TypeOK, Counted, Working
<1>2. CASE StartWorker
  <2>1. PICK k \in Goroutines : g[k] = "none" /\ g' = [g EXCEPT ![k] = "handle"]
    BY <1>2 DEF StartWorker
  <2>2. Counted'
    BY <1>2, <2>1, StartLemma DEF StartWorker, Counted
  <2> QED BY <1>2, <2>1, <2>2 DEF Try, StartWorker, IInv, TypeOK
<1> QED BY <1>1, <1>2 DEF Try

LEMMA InitIInv == Init => IInv
<1> SUFFICES ASSUME Init PROVE IInv OBVIOUS
<1>1. Working = {} BY DEF Init, Working
<1>2. Counted BY <1>1, FS_EmptySet DEF Init, Counted
<1>3. TypeOK BY DEF Init, TypeOK
<1>4. Bounded BY MaxWorkersAssumption DEF Init, Bounded
<1>5. LateBounded BY DEF Init, LateBounded
<1> QED BY <1>2, <1>3, <1>4, <1>5 DEF IInv

LEMMA LoopIInv == IInv /\ Loop => IInv'
<1> SUFFICES ASSUME IInv, Loop PROVE IInv' OBVIOUS
<1> USE MaxWorkersAssumption
<1>1. ASSUME UNCHANGED <<workers, g>> PROVE Counted'
  BY <1>1 DEF IInv, Counted, Working
<1>2. CASE TestWorkers
  <2>1. TypeOK' BY <1>2 DEF TestWorkers, IInv, TypeOK
  <2>2. Bounded' BY <1>2 DEF TestWorkers, IInv, TypeOK, Bounded
  <2>3. LateBounded' BY <1>2 DEF TestWorkers, IInv, LateBounded
  <2> QED BY <1>1, <1>2, <2>1, <2>2, <2>3 DEF TestWorkers, IInv
<1>3. CASE TestStopping \/ EnterWait \/ Tick
  BY <1>1, <1>3
  DEF TestStopping, EnterWait, Tick, IInv, TypeOK, Bounded, LateBounded
<1>4. CASE Top
  BY <1>1, <1>4 DEF Top, IInv, TypeOK, Bounded, LateBounded
<1>5. CASE TryCluster
  <2>1. PICK found \in BOOLEAN : Try(found) /\ didWork' = found
    BY <1>5 DEF TryCluster
  <2>2. TypeOK' BY <1>5, <2>1, TryLemma DEF TryCluster, IInv, TypeOK
  <2>3. Bounded' BY <1>5, <2>1, TryLemma DEF TryCluster, IInv, TypeOK, Bounded
  <2>4. LateBounded'
    BY <1>5, <2>1, TryLemma DEF TryCluster, IInv, TypeOK, LateBounded
  <2> QED BY <2>1, <2>2, <2>3, <2>4, TryLemma DEF IInv
<1>6. CASE TrySubscription
  <2>1. PICK found \in BOOLEAN :
               Try(found) /\ loop' = IF didWork \/ found THEN "test" ELSE "sleep"
    BY <1>6 DEF TrySubscription
  <2>2. TypeOK'
    <3>1. loop' \in {"test", "sleep"} BY <2>1
    <3>2. late' \in Nat /\ workers' \in Nat
      BY <2>1, TryLemma DEF IInv, TypeOK
    <3> QED BY <1>6, <2>1, <3>1, <3>2, TryLemma DEF TrySubscription, IInv, TypeOK
  <2>3. Bounded'
    BY <1>6, <2>1, TryLemma DEF TrySubscription, IInv, TypeOK, Bounded
  <2>4. LateBounded'
    BY <1>6, <2>1, TryLemma DEF TrySubscription, IInv, TypeOK, LateBounded
  <2> QED BY <2>1, <2>2, <2>3, <2>4, TryLemma DEF IInv
<1> QED BY <1>2, <1>3, <1>4, <1>5, <1>6 DEF Loop

LEMMA GoroutinesIInv ==
  ASSUME IInv,
         \/ \E k \in Goroutines : WorkerDone(k) \/ WorkerSignal(k)
         \/ CloseStop \/ StoreStopping \/ StopSignal
  PROVE  IInv'
<1> USE MaxWorkersAssumption
<1>1. ASSUME NEW k \in Goroutines, WorkerDone(k) PROVE IInv'
  <2>1. TypeOK' BY <1>1, DoneLemma DEF WorkerDone, IInv, TypeOK
  <2>2. Counted' BY <1>1, DoneLemma DEF WorkerDone, Counted
  <2>3. Bounded' BY <1>1 DEF WorkerDone, IInv, TypeOK, Bounded
  <2>4. LateBounded' BY <1>1 DEF WorkerDone, IInv, LateBounded
  <2> QED BY <2>1, <2>2, <2>3, <2>4 DEF IInv
<1>2. ASSUME NEW k \in Goroutines, WorkerSignal(k) PROVE IInv'
  <2>1. Working' = Working
    BY <1>2 DEF WorkerSignal, IInv, TypeOK, Working
  <2>2. TypeOK' BY <1>2 DEF WorkerSignal, Signal, IInv, TypeOK
  <2>3. Counted' BY <1>2, <2>1 DEF WorkerSignal, IInv, Counted
  <2>4. Bounded' BY <1>2 DEF WorkerSignal, Signal, IInv, Bounded
  <2>5. LateBounded' BY <1>2 DEF WorkerSignal, Signal, IInv, LateBounded
  <2> QED BY <2>2, <2>3, <2>4, <2>5 DEF IInv
<1>3. CASE CloseStop \/ StoreStopping \/ StopSignal
  <2>1. Working' = Working
    BY <1>3 DEF CloseStop, StoreStopping, StopSignal, Working
  <2> USE DEF CloseStop, StoreStopping, StopSignal, Signal
  <2>2. TypeOK' BY <1>3 DEF IInv, TypeOK
  <2>3. Counted' BY <1>3, <2>1 DEF IInv, Counted
  <2>4. Bounded' BY <1>3 DEF IInv, Bounded
  <2>5. LateBounded' BY <1>3 DEF IInv, LateBounded
  <2> QED BY <2>2, <2>3, <2>4, <2>5 DEF IInv
<1> QED BY <1>1, <1>2, <1>3

LEMMA Inductive == Spec => []IInv
<1>1. ASSUME IInv, UNCHANGED vars PROVE IInv'
  BY <1>1 DEF vars, IInv, TypeOK, Counted, Working, Bounded, LateBounded
<1>2. IInv /\ [Next]_vars => IInv'
  BY <1>1, LoopIInv, GoroutinesIInv DEF Next
<1> QED BY <1>2, InitIInv, PTL DEF Spec

\* At most maxWorkers + 1 goroutines work on documents at once.
THEOREM WorkersBoundedCorrect == Spec => []WorkersBounded
<1>1. IInv => WorkersBounded
  BY DEF IInv, Counted, Bounded, WorkersBounded
<1> QED BY <1>1, Inductive, PTL

\* A loop that is to stop calls try at most twice more.
THEOREM StopsTakingWorkCorrect == Spec => []StopsTakingWork
<1>1. IInv => StopsTakingWork
  BY DEF IInv, LateBounded, StopsTakingWork
<1> QED BY <1>1, Inductive, PTL
===========================================================================
