----------------------------- MODULE MCIMMemory -----------------------------
(***************************************************************************)
(* Instance of IMMemory for TLC.  The scenes: two replicas with one fault; *)
(* failures up to a dead letter; a summary that is full; associations and  *)
(* lookups.                                                                *)
(***************************************************************************)
EXTENDS IMMemory

CONSTANTS w1, w2

BoundChoices ==
    {[replicas |-> {w1, w2}, versions |-> 2, faults |-> 1, sweeps |-> FALSE, requests |-> 0],
     [replicas |-> {w1, w2}, versions |-> 1, faults |-> 2, sweeps |-> FALSE, requests |-> 0],
     [replicas |-> {w1}, versions |-> 3, faults |-> 0, sweeps |-> TRUE, requests |-> 0],
     [replicas |-> {w1}, versions |-> 1, faults |-> 0, sweeps |-> FALSE, requests |-> 1]}
=============================================================================
