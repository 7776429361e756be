---------------------------- MODULE MCReachability ----------------------------
(***************************************************************************)
(* The reachability engine on every task structure parse_dag accepts with *)
(* three blocks in task 0 and one block in each of tasks 1 and 2.        *)
(***************************************************************************)
EXTENDS Reachability, TaskStructures

GeneralInputs == AcceptedGraphs(<<3, 1, 1>>)
=============================================================================
