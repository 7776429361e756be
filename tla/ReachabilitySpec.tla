--------------------------- MODULE ReachabilitySpec ---------------------------
(***************************************************************************)
(* What the components map of the analyzer promises (spec section 4.3):   *)
(* starting from an all-false map, the row of a vertex is written once,   *)
(* completely, and only after the rows of all its successors are final    *)
(* ("no vertex processed until all its descendants are final"); only      *)
(* vertices reachable from the root are ever finalized, and eventually   *)
(* all of them are.  Before a graph is loaded g is NoGraph; Load is the   *)
(* allocation of the all-false map for the graph handed to the engine.   *)
(***************************************************************************)
EXTENDS FiniteSets, TaskGraph

VARIABLES g,             \* the graph of this run
          fin,           \* the vertices whose row is final
          c_map          \* c_map[u]: the vertices marked reachable from u

avars == <<g, fin, c_map>>

FromRoot(gr) == {gr.root} \cup gr.reach[gr.root]

Init ==
    /\ fin = {}
    /\ c_map = [v \in g.vertices |-> {}]

Load ==
    /\ g = NoGraph
    /\ g' # NoGraph
    /\ fin' = {}
    /\ c_map' = [v \in g'.vertices |-> {}]

\* Row u is filled with exactly the descendants of u, once the rows of all
\* its direct successors are final.
Finalize(u) ==
    /\ u \notin fin
    /\ \A i \in DOMAIN g.out[u] : g.out[u][i] \in fin
    /\ fin' = fin \cup {u}
    /\ c_map' = [c_map EXCEPT ![u] = g.reach[u]]
    /\ UNCHANGED g

FinalizeSome == g # NoGraph /\ \E u \in FromRoot(g) : Finalize(u)

Next == Load \/ FinalizeSome

Spec == Init /\ [][Next]_avars /\ WF_avars(FinalizeSome)
=============================================================================
