------------------------------ MODULE MCAttrWalk ------------------------------
(* Replies for TLC: up to two attributes, of the kinds the code knows and of  *)
(* one it does not, with contents that do and do not fill a word.             *)
EXTENDS AttrWalk

CONSTANT MaxNested   \* attributes in an aggregate

MCLeaves == {Leaf(1, 0), Leaf(7, 5), Leaf(TASKSTATS_TYPE_NULL, 8)}
NestedLeaves == {Leaf(TASKSTATS_TYPE_PID, 4), Leaf(TASKSTATS_TYPE_NULL, 0),
                 Leaf(7, 5), Leaf(TASKSTATS_TYPE_STATS, 12)}
MCMessages ==
  BoundedSeq(MCLeaves \cup {Aggregate(type, nested) : type \in Aggregates,
                            nested \in BoundedSeq(NestedLeaves, MaxNested)}, 2)

\* What a kernel that aligns the statistics to 8 bytes sends: the id, padding
\* of no contents, and the statistics.
PaddedMessages ==
  {<<Aggregate(TASKSTATS_TYPE_AGGR_PID,
       <<Leaf(TASKSTATS_TYPE_PID, 4), Leaf(TASKSTATS_TYPE_NULL, 0),
         Leaf(TASKSTATS_TYPE_STATS, size)>>)>> : size \in {328, 344, 352}}
===============================================================================
