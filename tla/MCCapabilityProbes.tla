-------------------------- MODULE MCCapabilityProbes --------------------------
(* A process k1 for TLC, whose first thread is its main thread.                *)
EXTENDS CapabilityProbes

CONSTANTS k1, k2, t1

MCTasks == {k1, k2}
MCTidOf == [t \in Threads |-> IF t = t1 THEN k1 ELSE k2]
===============================================================================
