----------------------------- MODULE Reachability -----------------------------
(***************************************************************************)
(* The reachability engine of the analyzer: connected_components in       *)
(* src/omptr/analyzer/analyzer.cc, the explicit-stack DFS from the root   *)
(* that fills the components map bottom-up, followed by the post-check    *)
(* analyze_shared_access makes on the map before classifying accesses.    *)
(*                                                                         *)
(* One Iterate step is one iteration of the while loop: push every        *)
(* undiscovered successor of the top vertex, and if all successors are   *)
(* done, OR their rows (and themselves) into the top vertex's row, mark   *)
(* it done and pop it.  The graph is chosen once from Inputs and never    *)
(* changes.                                                                *)
(***************************************************************************)
EXTENDS Integers, SequencesExt, TaskGraph

CONSTANT Inputs          \* graph records (TaskGraph!Graph) of accepted inputs

VARIABLES g,             \* the graph of this run
          dfs_stack,     \* std::stack<Vertex>, top = last element
          discovered,    \* the vertices with discovered[v] = true
          done,          \* the vertices with done[v] = true
          c_map,         \* c_map[u]: the v with (*c_map)[u][v] = true
          pc             \* "dfs", then "checked" or "failed" (an assert fired)

vars == <<g, dfs_stack, discovered, done, c_map, pc>>

\* Mutant: the root is pushed without being marked discovered.
StartOnNoDiscover(gr) ==
    /\ g' = gr
    /\ dfs_stack' = << gr.root >>
    /\ discovered' = {}
    /\ done' = {}
    /\ c_map' = [v \in gr.vertices |-> {}]
    /\ pc' = "dfs"

\* The state connected_components starts in on graph gr: the components
\* map allocated all-false, the root pushed and discovered.
StartOn(gr) ==
    /\ g' = gr
    /\ dfs_stack' = << gr.root >>
    /\ discovered' = {gr.root}
    /\ done' = {}
    /\ c_map' = [v \in gr.vertices |-> {}]
    /\ pc' = "dfs"

Init ==
    /\ g \in Inputs
    /\ dfs_stack = << g.root >>
    /\ discovered = {g.root}
    /\ done = {}
    /\ c_map = [v \in g.vertices |-> {}]
    /\ pc = "dfs"

\* The targets the first out-edge loop pushes, in push order: each target
\* not yet discovered, once (discovered is set as it is pushed).
RECURSIVE PushedTargets(_, _)
PushedTargets(outs, disc) ==
    IF outs = << >> THEN << >>
    ELSE IF Head(outs) \in disc THEN PushedTargets(Tail(outs), disc)
    ELSE << Head(outs) >> \o PushedTargets(Tail(outs), disc \cup {Head(outs)})

\* The second loop: the top vertex is done when all its successors are.
AllTargetsDone(outs, dn) == \A i \in DOMAIN outs : outs[i] \in dn

\* Mutant: only the successors themselves are ORed in, not their rows.
MergedRowDirectOnly(cur, outs, cm) ==
    cm[cur] \cup {outs[i] : i \in DOMAIN outs}

\* The third loop: OR each successor and its row into the current row.
MergedRow(cur, outs, cm) ==
    cm[cur] \cup UNION {{outs[i]} \cup cm[outs[i]] : i \in DOMAIN outs}

\* Mutant: a finished vertex is marked done but not popped.
IterateNoPop ==
    /\ pc = "dfs"
    /\ dfs_stack # << >>
    /\ LET cur    == Last(dfs_stack)
           outs   == g.out[cur]
           pushed == dfs_stack \o PushedTargets(outs, discovered)
       IN  /\ discovered' = discovered \cup ToSet(outs)
           /\ IF AllTargetsDone(outs, done)
                THEN /\ c_map' = [c_map EXCEPT ![cur] = MergedRow(cur, outs, c_map)]
                     /\ done' = done \cup {cur}
                     /\ dfs_stack' = pushed
                ELSE /\ dfs_stack' = pushed
                     /\ UNCHANGED <<c_map, done>>
    /\ UNCHANGED <<g, pc>>

\* One iteration of the while (!dfs_stack.empty()) loop.
Iterate ==
    /\ pc = "dfs"
    /\ dfs_stack # << >>
    /\ LET cur    == Last(dfs_stack)
           outs   == g.out[cur]
           pushed == dfs_stack \o PushedTargets(outs, discovered)
       IN  /\ discovered' = discovered \cup ToSet(outs)
           /\ IF AllTargetsDone(outs, done)
                THEN /\ c_map' = [c_map EXCEPT ![cur] = MergedRow(cur, outs, c_map)]
                     /\ done' = done \cup {cur}
                     /\ dfs_stack' = Front(pushed)
                ELSE /\ dfs_stack' = pushed
                     /\ UNCHANGED <<c_map, done>>
    /\ UNCHANGED <<g, pc>>

\* Mutant: only the root's row is checked.
CheckConnectionRootOnly ==
    /\ pc = "dfs"
    /\ dfs_stack = << >>
    /\ pc' = IF \A u \in g.vertices \ {g.root} : u \in c_map[g.root]
             THEN "checked" ELSE "failed"
    /\ UNCHANGED <<g, dfs_stack, discovered, done, c_map>>

\* The asserts after connected_components returns: the root reaches every
\* other vertex and every other vertex reaches the exit.
CheckConnection ==
    /\ pc = "dfs"
    /\ dfs_stack = << >>
    /\ pc' = IF /\ \A u \in g.vertices \ {g.root} : u \in c_map[g.root]
                /\ \A u \in g.vertices \ {g.exit} : g.exit \in c_map[u]
             THEN "checked" ELSE "failed"
    /\ UNCHANGED <<g, dfs_stack, discovered, done, c_map>>

Next == Iterate \/ CheckConnection

\* The analyzer is one sequential thread that keeps executing its loop.
Spec == Init /\ [][Next]_vars /\ WF_vars(Next)

-----------------------------------------------------------------------------

TypeOK ==
    /\ dfs_stack \in Seq(g.vertices)
    /\ discovered \subseteq g.vertices
    /\ done \subseteq discovered
    /\ c_map \in [g.vertices -> SUBSET g.vertices]
    /\ pc \in {"dfs", "checked", "failed"}

\* connected_components returns on every accepted input: the while loop
\* empties the stack and the post-check runs.
Termination == <>(pc # "dfs")

\* The post-check fails exactly when the graph really is not a single-root,
\* single-sink DAG: it never rejects a good input nor accepts a bad one,
\* which needs the map to be complete and exact when the loop ends.
PostCheckMatchesShape ==
    pc \in {"checked", "failed"} => (pc = "checked" <=> SingleRootSingleSink(g))

\* The DFS implements the abstract components-map specification with its
\* done flags as the set of final rows.
Abstract == INSTANCE ReachabilitySpec WITH fin <- done
AbstractSpec == Abstract!Spec
=============================================================================
