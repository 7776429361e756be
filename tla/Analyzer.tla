------------------------------- MODULE Analyzer -------------------------------
(***************************************************************************)
(* The back half of the analyzer's main (src/omptr/analyzer/analyzer.cc):  *)
(* analyze_shared_access, then populate_vertex_weight, then compute_WCRTs, *)
(* one step each, on the graph parse_dag built and the MemStats read.      *)
(*                                                                         *)
(* The classifier is SharingClassifier; the weights are CostModel's; the  *)
(* longest path, the volume and Graham's bound are ScheduleBound's, taken *)
(* once per configuration as compute_WCRTs loops over them.  The hit      *)
(* counts of a record depend on its line only (Hits); the execution       *)
(* cycles of the blocks and the core count are chosen where they are     *)
(* first read (both are parsed before the classification, which does not  *)
(* read them).                                                             *)
(***************************************************************************)
EXTENDS Integers, CostModel

CONSTANTS
    Inputs,    \* graph records handed on by parse_dag (with out, reach, root, exit)
    Lines,     \* line addresses
    Threads,   \* thread ids
    Cores,     \* the num_cores arguments
    Hits       \* Hits[l]: the hit counts of a record of line l

VARIABLES
    g, kind, tid, shared, u,      \* the classifier's (SharingClassifier)
    num_cores,                    \* the num_cores argument
    exec_cycles_map,              \* exec_cycles_map[bb]: cycles of block bb
    weight_map,                   \* weight_map[bb][c]
    critical_path, volume, wcrt,  \* per configuration
    stage                         \* the function main is in

SC == INSTANCE SharingClassifier
SB == INSTANCE ScheduleBound WITH Weights <- {}, w <- exec_cycles_map, pc <- stage

classifierVars == <<g, kind, tid, shared, u>>
backendVars == <<num_cores, exec_cycles_map, weight_map, critical_path, volume, wcrt>>
vars == <<classifierVars, backendVars, stage>>

Zero == [c \in Configs |-> 0]

Init ==
    /\ SC!Init
    /\ num_cores = 0
    /\ exec_cycles_map = [v \in g.vertices |-> 0]
    /\ weight_map = [v \in g.vertices |-> Zero]
    /\ critical_path = Zero /\ volume = Zero /\ wcrt = Zero
    /\ stage = "classify"

\* The execution cycles parse_mem_stats may read for the blocks of gr:
\* every block one cycle, or only the exit block (so that the weights of
\* all other blocks can be zero).
ExecInputs(gr) ==
    {[v \in gr.vertices |-> 1], [v \in gr.vertices |-> IF v = gr.exit THEN 1 ELSE 0]}

\* mem_stats after the classification: for every block, a record per line
\* it accessed, with the is_shared flag set.
MemStats ==
    [v \in g.vertices |->
        [l \in SC!LinesOf(v) |->
            [local |-> Hits[l].local, remote |-> Hits[l].remote,
             l2 |-> Hits[l].l2, mem |-> Hits[l].mem,
             is_ifetch |-> kind[v][l] = "ifetch", is_shared |-> l \in shared[v]]]]

AnalyzeSharedAccess ==
    /\ stage = "classify"
    /\ SC!AnalyzeSharedAccess
    /\ stage' = "weigh"
    /\ UNCHANGED backendVars

PopulateVertexWeightStep ==
    /\ stage = "weigh"
    /\ \E m \in Cores, ex \in ExecInputs(g) :
         /\ num_cores' = m
         /\ exec_cycles_map' = ex
         /\ weight_map' = PopulateVertexWeight(MemStats, ex, m)
    /\ stage' = "bound"
    /\ UNCHANGED <<classifierVars, critical_path, volume, wcrt>>

\* The weights of configuration c.
WeightsOf(c) == [v \in g.vertices |-> weight_map[v][c]]

\* compute_WCRTs: the longest path of every configuration with the assert
\* on its first entry, then the volumes, then the truncated bounds.
ComputeWCRTs ==
    /\ stage = "bound"
    /\ LET cp  == [c \in Configs |-> SB!LongestPath(g, WeightsOf(c), 0)]
           vol == [c \in Configs |-> SB!Volume(g, WeightsOf(c))]
       IN  IF \E c \in Configs : cp[c] = 0
             THEN /\ stage' = "failed"
                  /\ UNCHANGED <<critical_path, volume, wcrt>>
             ELSE /\ critical_path' = cp
                  /\ volume' = vol
                  /\ wcrt' = [c \in Configs |-> SB!GrahamBound(cp[c], vol[c], num_cores)]
                  /\ stage' = "done"
    /\ UNCHANGED <<classifierVars, num_cores, exec_cycles_map, weight_map>>

Next ==
    \/ AnalyzeSharedAccess
    \/ PopulateVertexWeightStep
    \/ ComputeWCRTs

Spec == Init /\ [][Next]_vars

-----------------------------------------------------------------------------

AnalyzerTypeOK ==
    /\ SC!TypeOK
    /\ stage \in {"classify", "weigh", "bound", "done", "failed"}
    /\ weight_map \in [g.vertices -> [Configs -> Nat]]
    /\ {critical_path, volume, wcrt} \subseteq [Configs -> Nat]

\* The classifier's soundness and completeness (SharingClassifier).
ClassificationSound == SC!ClassificationSound
ClassificationComplete == SC!ClassificationComplete

\* For every configuration the reported bound lies between the critical
\* path and the volume: the unsigned subtraction volume - critical path in
\* compute_WCRTs never wraps around.
BoundWithinVolume ==
    stage = "done" =>
        \A c \in Configs : critical_path[c] <= wcrt[c] /\ wcrt[c] <= volume[c]

\* The comparison the analyzer reports is ordered whatever the program:
\* the proposed partitioning never gets a larger WCRT than set coloring
\* with private instructions, which never gets a larger one than set
\* coloring, which never gets a larger one than plain sharing, through
\* the per-record latencies, the longest paths and the truncated bounds.
WcrtsOrdered ==
    stage = "done" =>
        /\ wcrt["PAR"] <= wcrt["COLOR_PRIVATE_INST"]
        /\ wcrt["COLOR_PRIVATE_INST"] <= wcrt["COLOR"]
        /\ wcrt["COLOR"] <= wcrt["SHARE"]
====
