---------------------------- MODULE ScheduleBound ----------------------------
(***************************************************************************)
(* compute_WCRTs of src/omptr/analyzer/analyzer.cc: the critical path,    *)
(* the volume and Graham's bound of a weighted task graph.  The code runs  *)
(* the same computation once per cost configuration; the configurations   *)
(* are independent, so one weight map stands for any of them.            *)
(*                                                                         *)
(* ComputeWCRTs is the whole function, one step: the longest-path pass in *)
(* reverse topological order, the assert on its first entry, the volume   *)
(* sums and the truncated bound.                                           *)
(***************************************************************************)
EXTENDS Integers, SequencesExt, TaskGraph

CONSTANTS Inputs,        \* graph records (TaskGraph!Graph) of accepted inputs
          Weights,       \* the values a vertex weight may take
          Cores          \* the core counts the analyzer is run with

VARIABLES g, w, num_cores, critical_path, volume, wcrt, pc

vars == <<g, w, num_cores, critical_path, volume, wcrt, pc>>

Init ==
    /\ g \in Inputs
    /\ w \in [g.vertices -> Weights]
    /\ num_cores \in Cores
    /\ critical_path = 0 /\ volume = 0 /\ wcrt = 0
    /\ pc = "ready"

\* Mutant: the successors' longest paths are added up instead of maximised.
RECURSIVE LongestPathSum(_, _, _)
LongestPathSum(gr, wt, v) ==
    IF gr.out[v] = << >> THEN 0
    ELSE wt[v] + FoldFunction(+, 0, [i \in DOMAIN gr.out[v] |-> LongestPathSum(gr, wt, gr.out[v][i])])

\* longest_path[v] after the pass over sorted_vertices: topological_sort
\* lists a vertex after all its descendants, so every longest_path[target]
\* read is final.  A vertex without out-edges keeps its initial 0.
RECURSIVE LongestPath(_, _, _)
LongestPath(gr, wt, v) ==
    IF gr.out[v] = << >> THEN 0
    ELSE Max({wt[v] + LongestPath(gr, wt, gr.out[v][i]) : i \in DOMAIN gr.out[v]})

\* volumes[i]: the sum of the weights of all vertices.
Volume(gr, wt) == FoldFunction(+, 0, wt)

\* Mutant: the share of the other work is subtracted.
GrahamBoundSubtract(cp, vol, m) == cp - (vol - cp) \div m

\* (size_t)(cp + (double)(vol - cp) / num_cores): the quotient of two
\* non-negative values truncated toward zero.
GrahamBound(cp, vol, m) == cp + (vol - cp) \div m

ComputeWCRTs ==
    /\ pc = "ready"
    /\ LET cp  == LongestPath(g, w, 0)      \* longest_path.front()
           vol == Volume(g, w)
       IN  IF cp = 0
             THEN /\ pc' = "failed"        \* assert(longest_path.front() != 0)
                  /\ UNCHANGED <<critical_path, volume, wcrt>>
             ELSE /\ critical_path' = cp
                  /\ volume' = vol
                  /\ wcrt' = GrahamBound(cp, vol, num_cores)
                  /\ pc' = "done"
    /\ UNCHANGED <<g, w, num_cores>>

Next == ComputeWCRTs

Spec == Init /\ [][Next]_vars

-----------------------------------------------------------------------------

\* The heaviest root-to-sink path counting every vertex on it: the critical
\* path of the glossary and of Graham's bound (reference definition).
RECURSIVE PathWeight(_, _, _)
PathWeight(gr, wt, v) ==
    IF gr.out[v] = << >> THEN wt[v]
    ELSE wt[v] + Max({PathWeight(gr, wt, gr.out[v][i]) : i \in DOMAIN gr.out[v]})

TypeOK ==
    /\ pc \in {"ready", "done", "failed"}
    /\ {critical_path, volume, wcrt} \subseteq Nat

\* The reported bound lies between the critical path and the volume (the
\* time one core needs): the unsigned subtraction volume - critical path in
\* compute_WCRTs never wraps around.
BoundWithinVolume ==
    pc = "done" => critical_path <= wcrt /\ wcrt <= volume

\* Graham's bound is an upper bound on the response time of the graph: it
\* is never below the time the heaviest dependency chain needs on its own,
\* whatever the number of cores.
WcrtCoversCriticalPath ==
    pc = "done" => wcrt >= PathWeight(g, w, g.root)
=============================================================================
