-------------------------- MODULE MCSubscriptions --------------------------
(***************************************************************************)
(* Small instances of Subscriptions for TLC.                               *)
(***************************************************************************)
EXTENDS Subscriptions, TLC

CONSTANTS i1, i2, w1, w2

\* Two worker slots in one RP process, one in each of two, and a single one.
OneProcess   == (w1 :> i1) @@ (w2 :> i1)
TwoProcesses == (w1 :> i1) @@ (w2 :> i2)
OneWorker    == (w1 :> i1)

\* PUTs, clusters and the worker slots of one process are interchangeable.
Symmetry == Permutations(Puts) \cup Permutations(Clusters)
SymmetryOne == Symmetry \cup Permutations(Workers)

\* So are two processes, each with its worker slot.
SymmetryTwo ==
  Symmetry \cup {(i1 :> i2) @@ (i2 :> i1) @@ (w1 :> w2) @@ (w2 :> w1)}

\* A later start: the subscription has been registered.
Registered == sub = NewDocument("Registered") /\ AtRest

SpecRegistered == (Init \/ Registered) /\ [][Next]_vars
===========================================================================
