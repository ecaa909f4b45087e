--------------------------- MODULE MCTaskStatsReader ---------------------------
(* Two processes for TLC: main, with a second thread in it, and another.       *)
EXTENDS TaskStatsReader

CONSTANTS main, worker, other

MCTasks == {main, worker, other}
MCTgid == [k \in MCTasks |-> IF k = worker THEN main ELSE k]
===============================================================================
