------------------------------ MODULE TaskGraph ------------------------------
(***************************************************************************)
(* The task-structure parser of the analyzer (parse_dag in                 *)
(* src/omptr/analyzer/analyzer.cc) as pure operators.                      *)
(*                                                                         *)
(* Its input is the set of BasicBlock records read from the task-structure *)
(* JSON: [ID, taskID, nodeID, taskCreated, waitFor].  Its output is a      *)
(* graph record holding what the later stages read: the out-edge lists in *)
(* the order boost::add_edge inserted them (an adjacency_list<vecS,...>    *)
(* keeps out-edges in insertion order and keeps parallel edges), the      *)
(* vertex set 0..num_vertices-1, the root and exit ids and the task       *)
(* count.  The order of out-edges matters: the reachability DFS pushes    *)
(* successors in that order.                                               *)
(***************************************************************************)
EXTENDS Integers, SequencesExt

\* The taskCreated value of a block that spawns no task.
NoTask == -1

TaskIds(bbs) == {b.taskID : b \in bbs}

NumTasks(bbs) == Cardinality(TaskIds(bbs))

\* std::sort by (taskID, nodeID), regrouped per task: basic_blocks_2d[t].
\* A block's position in its task is the number of blocks of the task with a
\* smaller nodeID (nodeIDs within a task are distinct in the inputs modelled).
TaskBlocks(bbs, t) ==
    LET S == {b \in bbs : b.taskID = t}
    IN  [i \in 1 .. Cardinality(S) |->
           CHOOSE b \in S : Cardinality({c \in S : c.nodeID < b.nodeID}) = i - 1]

Blocks2d(bbs) == [t \in 0 .. NumTasks(bbs) - 1 |-> TaskBlocks(bbs, t)]

\* The asserts of the regrouping loop: a non-empty input whose first
\* (sorted) record is in task 0 and whose task ids are contiguous.
GroupOk(bbs) ==
    /\ bbs # {}
    /\ TaskIds(bbs) = 0 .. NumTasks(bbs) - 1

\* The indexing of basic_blocks_2d is unchecked in the code: an input whose
\* taskCreated, waitFor or nodeID points outside the table is undefined
\* behaviour, so only inputs for which every index is in range are parsed.
WellIndexed(bbs) ==
    LET B == Blocks2d(bbs) IN
    \A b \in bbs :
        /\ b.nodeID \in 0 .. Len(B[b.taskID]) - 1
        /\ b.taskCreated # NoTask => b.taskCreated \in DOMAIN B
        /\ ToSet(b.waitFor) \subseteq DOMAIN B

\* Mutant: the join edge of the last awaited task is not added.
BlockEdgesDropLastJoin(B, b) ==
    (IF b.nodeID >= 1 THEN << <<B[b.taskID][b.nodeID].ID, b.ID>> >> ELSE << >>)
    \o (IF b.taskCreated # NoTask
          THEN << <<b.ID, B[b.taskCreated][1].ID>> >> ELSE << >>)
    \o [i \in 1 .. Len(b.waitFor) - 1 |-> << Last(B[b.waitFor[i]]).ID, b.ID >>]

\* The edges added for one block, in the order of the three add_edge calls:
\* control-flow edge from the previous block of the task, task-create edge
\* to the first block of the created task, one synchronization edge from
\* the last block of every awaited task.
BlockEdges(B, b) ==
    (IF b.nodeID >= 1 THEN << <<B[b.taskID][b.nodeID].ID, b.ID>> >> ELSE << >>)
    \o (IF b.taskCreated # NoTask
          THEN << <<b.ID, B[b.taskCreated][1].ID>> >> ELSE << >>)
    \o [i \in 1 .. Len(b.waitFor) |-> << Last(B[b.waitFor[i]]).ID, b.ID >>]

\* Every edge, in insertion order: tasks in order, blocks in node order.
EdgeList(bbs) ==
    LET B == Blocks2d(bbs)
        PerTask(t) == FlattenSeq([i \in 1 .. Len(B[t]) |-> BlockEdges(B, B[t][i])])
    IN  FlattenSeq([k \in 1 .. NumTasks(bbs) |-> PerTask(k - 1)])

\* boost::num_vertices of a vecS graph built only by add_edge: one more than
\* the largest vertex id named by an edge (0 when there is no edge).
NumVertices(E) ==
    IF E = << >> THEN 0 ELSE Max({E[i][1] : i \in DOMAIN E} \cup {E[i][2] : i \in DOMAIN E}) + 1

\* The out-edge targets of v, in insertion order.
OutList(E, v) ==
    LET mine == SelectSeq(E, LAMBDA e : e[1] = v)
    IN  [i \in 1 .. Len(mine) |-> mine[i][2]]

\* Descendants of every vertex: the reference against which the analyzer's
\* components map is checked.  The descendants of u are the least set that
\* holds the successors of u and is closed under taking successors: the
\* successors of u, grown by the successors of its members until nothing
\* is added.
RECURSIVE CloseUnder(_, _)
CloseUnder(succ, S) ==
    LET S2 == S \cup UNION {succ[s] : s \in S}
    IN  IF S2 = S THEN S ELSE CloseUnder(succ, S2)

ReachOf(V, out) ==
    LET succ == [u \in V |-> ToSet(out[u])]
    IN  [u \in V |-> CloseUnder(succ, succ[u])]

\* The graph record handed to the later stages.
Graph(bbs) ==
    LET E == EdgeList(bbs)
        V == 0 .. NumVertices(E) - 1
        B == Blocks2d(bbs)
        out == [v \in V |-> OutList(E, v)]
    IN  [vertices |-> V,
         out      |-> out,
         reach    |-> ReachOf(V, out),
         root     |-> B[0][1].ID,
         exit     |-> Last(B[0]).ID,
         numTasks |-> NumTasks(bbs)]

\* The value of the graph before one is built.
NoGraph == [vertices |-> {}, out |-> << >>, reach |-> << >>, root |-> -1,
            exit |-> -1, numTasks |-> 0]

Acyclic(g) == \A v \in g.vertices : v \notin g.reach[v]

\* boost::topological_sort runs a DFS from vertex 0, 1, ... in index order
\* and lists vertices by finish time.  In a DAG the first vertex to finish
\* is the end of the chain of first out-edges from vertex 0; the last to
\* finish is the last DFS root, the largest vertex that no smaller vertex
\* reaches.
RECURSIVE FirstEdgeChainEnd(_, _)
FirstEdgeChainEnd(g, v) ==
    IF g.out[v] = << >> THEN v ELSE FirstEdgeChainEnd(g, g.out[v][1])

TopoFront(g) == FirstEdgeChainEnd(g, 0)

TopoBack(g) ==
    Max({v \in g.vertices : \A u \in 0 .. v - 1 : v \notin g.reach[u]})

\* parse_dag returns (rather than asserting or exiting) exactly for these
\* inputs, and analyze_shared_access goes on to the components map only if
\* the graph has one vertex per basic block (its num_vertices == num_bbs
\* assert, the trace holding one entry per block).  An input without any
\* edge is excluded: its topological order is empty and parse_dag reads
\* container.back() of an empty vector.
Accepted(bbs) ==
    /\ GroupOk(bbs)
    /\ WellIndexed(bbs)
    /\ EdgeList(bbs) # << >>
    /\ LET g == Graph(bbs) IN
       /\ Acyclic(g)
       /\ TopoBack(g) = g.root
       /\ TopoFront(g) = g.exit
       /\ Cardinality(g.vertices) = Cardinality(bbs)

\* The shape the analyzer's post-check demands: the root reaches every
\* other vertex and every other vertex reaches the exit.
SingleRootSingleSink(g) ==
    /\ \A u \in g.vertices \ {g.root} : u \in g.reach[g.root]
    /\ \A u \in g.vertices \ {g.exit} : g.exit \in g.reach[u]
=============================================================================
