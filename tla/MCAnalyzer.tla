----------------------------- MODULE MCAnalyzer -----------------------------
EXTENDS Analyzer, TaskStructures, TLC

CONSTANTS t1, t2

MCThreads == {t1, t2}

\* Thread ids are only compared for equality.
ThreadSymmetry == Permutations(MCThreads)

\* The graphs parse_dag accepts for task 0 with three blocks and one or two
\* spawned tasks, that pass the single-root/single-sink asserts: a vertex
\* parallel to one or to two others, so that the guess and the scan both
\* take part.  Graphs with the same reachability are classified alike; one
\* edge list of each is kept for the longest-path pass.
AnalyzerInputs ==
    LET A == {x \in AcceptedGraphs(<<3, 1>>) \cup AcceptedGraphs(<<3, 1, 1>>) :
                SingleRootSingleSink(x)}
        Key(x) == [vertices |-> x.vertices, reach |-> x.reach, root |-> x.root, exit |-> x.exit]
    IN  {LET x == CHOOSE y \in A : Key(y) = k
         IN  [vertices |-> x.vertices, out |-> x.out, reach |-> x.reach,
              root |-> x.root, exit |-> x.exit] :
           k \in {Key(y) : y \in A}}

\* Line 1 hits at every level; line 2 hits in the L2 or goes to memory.
MCHits ==
    [l \in {1, 2} |->
        IF l = 1 THEN [local |-> 1, remote |-> 1, l2 |-> 0, mem |-> 1]
                 ELSE [local |-> 0, remote |-> 0, l2 |-> 1, mem |-> 1]]
====
