-------------------------- MODULE MCInstallation --------------------------
(***************************************************************************)
(* Installation with two workers: both on one cluster, of two processes or *)
(* of one, or each on a cluster of its own.                                *)
(***************************************************************************)
EXTENDS Installation

CONSTANTS c1, c2, w1, w2

MCSubnets == <<"master">>

MCInit ==
  /\ Init
  /\ works[w1] = c1
  /\ \/ works[w2] = c1 /\ proc[w1] = w1
     \/ works[w2] = c2 /\ \A w \in Workers : proc[w] = w

MCSpec == MCInit /\ [][Next]_vars
===========================================================================
