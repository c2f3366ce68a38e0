-------------------------- MODULE MCMonitorThreads --------------------------
(***************************************************************************)
(* MonitorThreads on small instances: the main thread and two others, with *)
(* as many slots as threads or one fewer, so that slots and thread ids are *)
(* reused and the table can be full.                                       *)
(***************************************************************************)
EXTENDS MonitorThreads, TLC

CONSTANTS t1, t2

Symmetry == Permutations({t1, t2}) \cup Permutations(Groups)
=============================================================================
