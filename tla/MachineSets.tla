----------------------------- MODULE MachineSets -----------------------------
(***************************************************************************)
(* Manager.Update: spreading the number of workers asked for over the      *)
(* cluster's machine sets, writing their replicas and waiting for the      *)
(* machines, while the machine controller and others work on them.         *)
(***************************************************************************)
EXTENDS Naturals, FiniteSetsExt

CONSTANTS
  NSets,       \* the worker machine sets are 1 .. NSets
  Counts,      \* worker counts, of documents and of machine sets
  Steps,       \* attempts of RetryOnConflict: 5
  MaxEdits,    \* bound: changes of a machine set by others
  Nil          \* Spec.Replicas is not set

VARIABLES
  count,      \* WorkerProfiles[0].Count
  replicas,   \* of each machine set in the cluster: Spec.Replicas...
  available,  \* ...and whether the status shows it
  version,    \* ...and whether it is as the Update has read it
  items,      \* machinesets.Items: replicas wanted
  listed,     \* history: items as they were listed
  msPc,       \* "idle", "list", "scale", "get", "update", "poll", or its end
  item,       \* the item of the loop
  attempt,    \* of RetryOnConflict
  edits       \* changes by others

msVars == <<count, replicas, available, version, items, listed, msPc, item, attempt, edits>>

Sets == 1 .. NSets
Have(n) == IF n = Nil THEN 1 ELSE n     \* the default of the replicas
Total(f) == MapThenSumSet(LAMBDA s : Have(f[s]), Sets)

MsInit ==
  /\ count = 0 /\ replicas = [s \in Sets |-> 0]
  /\ available = [s \in Sets |-> TRUE] /\ version = [s \in Sets |-> TRUE]
  /\ items = [s \in Sets |-> 0] /\ listed = items
  /\ msPc = "idle" /\ item = 1 /\ attempt = 0 /\ edits = 0

\* A cluster with any machine sets is to have any number of workers.
Update ==
  /\ msPc = "idle" /\ msPc' = "list"
  /\ count' \in Counts /\ replicas' \in [Sets -> Counts \cup {Nil}]
  /\ UNCHANGED <<available, version, items, listed, item, attempt, edits>>

ListMachineSets ==
  /\ msPc = "list" /\ msPc' = "scale"
  /\ items' = replicas /\ listed' = replicas
  /\ UNCHANGED <<count, replicas, available, version, item, attempt, edits>>

\* The loop that sets the default works on copies of the items, so an item
\* without replicas is dereferenced later, by the first of the following
\* loops that is entered.
NilItems ==
  \/ msPc = "scale" /\ Total(items) # count /\ \E s \in Sets : items[s] = Nil
  \/ msPc = "get" /\ items[item] = Nil
NilReplicas ==
  /\ NilItems
  /\ msPc' = "panic"
  /\ UNCHANGED <<count, replicas, available, version, items, listed, item, attempt, edits>>

\* The first of the best; better is the relation that the code passes as f.
find(better) ==
  CHOOSE i \in Sets : /\ \A j \in Sets : <<j, i>> \notin better
                      /\ \A j \in 1 .. i - 1 : <<i, j>> \in better
Larger == {<<i, j>> \in Sets \X Sets : items[i] > items[j]}
Smaller == {<<i, j>> \in Sets \X Sets : items[i] < items[j]}

\* Mutant: the first machine set takes it all.
Scale_First ==
  /\ msPc = "scale" /\ ~NilItems
  /\ \/ Total(items) > count /\ items' = [items EXCEPT ![1] = @ - 1] /\ UNCHANGED msPc
     \/ Total(items) < count /\ items' = [items EXCEPT ![1] = @ + 1] /\ UNCHANGED msPc
     \/ Total(items) = count /\ msPc' = "get" /\ UNCHANGED items
  /\ UNCHANGED <<count, replicas, available, version, listed, item, attempt, edits>>

Scale ==
  /\ msPc = "scale" /\ ~NilItems
  /\ \/ /\ Total(items) > count
        /\ items' = [items EXCEPT ![find(Larger)] = @ - 1]
        /\ UNCHANGED msPc
     \/ /\ Total(items) < count
        /\ items' = [items EXCEPT ![find(Smaller)] = @ + 1]
        /\ UNCHANGED msPc
     \/ /\ Total(items) = count
        /\ msPc' = "get" /\ UNCHANGED items
  /\ UNCHANGED <<count, replicas, available, version, listed, item, attempt, edits>>

\* On with the next item, or with the next loop.
NextItem(loop, after) ==
  /\ attempt' = 0
  /\ IF item < NSets THEN item' = item + 1 /\ msPc' = loop ELSE item' = 1 /\ msPc' = after

GetMachineSet ==
  /\ msPc = "get" /\ ~NilItems
  /\ IF Have(replicas[item]) = items[item]
     THEN NextItem("get", "poll") /\ UNCHANGED version
     ELSE msPc' = "update" /\ version' = [version EXCEPT ![item] = TRUE] /\ UNCHANGED <<item, attempt>>
  /\ UNCHANGED <<count, replicas, available, items, listed, edits>>

\* Mutant: a conflict is taken for success.
UpdateMachineSet_NoRetry ==
  /\ msPc = "update"
  /\ IF version[item]
     THEN /\ replicas' = [replicas EXCEPT ![item] = items[item]]
          /\ available' = [available EXCEPT ![item] = FALSE]
     ELSE UNCHANGED <<replicas, available>>
  /\ NextItem("get", "poll")
  /\ UNCHANGED <<count, version, items, listed, edits>>

UpdateMachineSet ==
  /\ msPc = "update"
  /\ IF version[item]
     THEN /\ replicas' = [replicas EXCEPT ![item] = items[item]]
          /\ available' = [available EXCEPT ![item] = FALSE]
          /\ NextItem("get", "poll")
     ELSE /\ attempt' = attempt + 1
          /\ msPc' = IF attempt + 1 = Steps THEN "error" ELSE "get"
          /\ UNCHANGED <<replicas, available, item>>
  /\ UNCHANGED <<count, version, items, listed, edits>>

\* Mutant: the machines are not waited for.
Poll_Once ==
  /\ msPc = "poll"
  /\ NextItem("poll", "nil")
  /\ UNCHANGED <<count, replicas, available, version, items, listed, edits>>

\* ObservedGeneration = Generation and AvailableReplicas = want.
Poll ==
  /\ msPc = "poll" /\ available[item] /\ Have(replicas[item]) = items[item]
  /\ NextItem("poll", "nil")
  /\ UNCHANGED <<count, replicas, available, version, items, listed, edits>>

\* 30 minutes are over, or a call failed.
UpdateFails ==
  /\ msPc \in {"list", "get", "update", "poll"}
  /\ msPc' = "error"
  /\ UNCHANGED <<count, replicas, available, version, items, listed, item, attempt, edits>>

\* The machine controller, and anybody else.
Reconcile ==
  /\ \E s \in Sets : ~available[s] /\ available' = [available EXCEPT ![s] = TRUE]
  /\ UNCHANGED <<count, replicas, version, items, listed, msPc, item, attempt, edits>>
Edit ==
  /\ msPc # "idle" /\ edits < MaxEdits /\ edits' = edits + 1
  /\ \E s \in Sets, n \in Counts :
       /\ replicas' = [replicas EXCEPT ![s] = n]
       /\ available' = [available EXCEPT ![s] = FALSE]
       /\ version' = [version EXCEPT ![s] = FALSE]
  /\ UNCHANGED <<count, items, listed, msPc, item, attempt>>

UpdateStep ==
  ListMachineSets \/ NilReplicas \/ Scale \/ GetMachineSet \/ UpdateMachineSet \/ Poll \/ UpdateFails
MsNext == Update \/ UpdateStep \/ Reconcile \/ Edit

---------------------------------------------------------------------------
\* The replicas wanted add up to the count asked for, only change in the
\* direction of it, and no machine set is taken below (or above) another
\* that could have given (or got) the machine instead: the greedy loops
\* agree with the level that they fill up to.
Balanced ==
  msPc \in {"get", "update", "poll", "nil"} =>
    /\ Total(items) = count
    /\ Total(listed) = count => items = listed
    /\ Total(listed) > count => \A s, t \in Sets :
         items[s] <= listed[s] /\ (items[s] < listed[s] => items[t] <= items[s] + 1)
    /\ Total(listed) < count => \A s, t \in Sets :
         items[s] >= listed[s] /\ (items[s] > listed[s] => items[t] + 1 >= items[s])

\* When Update returns without an error, every machine set has had the
\* replicas wanted and all its machines; as long as nobody else changes one,
\* the cluster has the workers asked for.
UpdatedWhenDone ==
  msPc = "nil" /\ edits = 0 => Total(replicas) = count /\ \A s \in Sets : available[s]

\* Update goes on from a machine set it had to write only when the write took
\* effect: a change by another client between its read and its write makes it
\* try again or fail, and is never taken for success.
ConflictsRetried ==
  [][msPc = "update" /\ msPc' # "error" /\ item' # item => replicas'[item] = items[item]]_msVars

===========================================================================
