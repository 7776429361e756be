---------------------------- MODULE MCScheduleBound ----------------------------
EXTENDS ScheduleBound, TaskStructures

\* The three-block chain of task 0 alone, and task 0 with two or three
\* blocks and one spawned task (spawn/join diamonds whose join is or is not
\* the exit).
BoundInputs ==
    AcceptedGraphs(<<3>>) \cup AcceptedGraphs(<<2, 1>>) \cup AcceptedGraphs(<<3, 1>>)
=============================================================================
