-------------------------- MODULE SharingClassifier --------------------------
(***************************************************************************)
(* analyze_shared_access (analyzer.cc), the loop that sets the is_shared  *)
(* flag of every line record, as one step (AnalyzeSharedAccess).  The     *)
(* outer loop (ClassifyFrom) visits the vertices u = 0, 1, ...; its body  *)
(* (ClassifyVertex) collects the parallel vertices of u, then visits u's  *)
(* records in ascending line order (std::map), first against the rolling *)
(* guess vertex, then against the parallel vertices in order.  A graph is *)
(* a TaskGraph record; the components map c_map is its reachability      *)
(* (what connected_components computes when it returns, and what the     *)
(* asserts before the loop check).                                        *)
(* The records of a vertex all come from one thread (the asserts in the   *)
(* loop): kind[v][l] says whether v accessed line l, as data or as an     *)
(* instruction fetch, and tid[v] is v's thread.                           *)
(***************************************************************************)
EXTENDS Integers, SequencesExt, TaskGraph

CONSTANTS
    Inputs,     \* graph records (TaskGraph!Graph) the classifier may be given
    Lines,      \* line addresses (a set of integers)
    Threads     \* thread ids

Kinds == {"none", "data", "ifetch"}

\* The vertices that may carry records: the root and the exit are parallel
\* to no vertex, so their records never take part in the classification.
Active(gr) == gr.vertices \ {gr.root, gr.exit}

\* The MemStats inputs for graph gr: records on the active vertices only.
MemStatsInputs(gr) ==
    {[v \in gr.vertices |-> IF v \in Active(gr) THEN k[v] ELSE [l \in Lines |-> "none"]] :
        k \in [Active(gr) -> [Lines -> Kinds]]}

\* The thread ids of the vertices (an inactive vertex has no record, so
\* its thread is never read and is taken to be the first active one's).
ThreadInputs(gr) ==
    {[v \in gr.vertices |-> IF v \in Active(gr) THEN t[v] ELSE t[Min(Active(gr))]] :
        t \in [Active(gr) -> Threads]}

VARIABLES
    g,        \* the graph
    kind,     \* kind[v][l]: v's record for line l ("none": no record)
    tid,      \* tid[v]: the thread_id of v's records
    shared,   \* shared[v]: the lines whose record of v has is_shared set
    u         \* the vertex the outer loop is at

vars == <<g, kind, tid, shared, u>>

Init ==
    /\ g \in Inputs
    /\ kind \in MemStatsInputs(g)
    /\ tid \in ThreadInputs(g)
    /\ shared = [v \in g.vertices |-> {}]
    /\ u = 0

\* The lines v has a record for, in map order.
LinesOf(v) == {l \in Lines : kind[v][l] # "none"}

\* Mutant of Find: the find() result is not compared with end().
FindNoCheck(p, l) == TRUE

\* mem_stats[p].find(line_address) != mem_stats[p].end()
Find(p, l) == kind[p][l] # "none"

\* Mutant of Parallel: only c_map[u][v] is tested.
ParallelOneWay(x, v) == x # v /\ v \notin g.reach[x]

\* The test that collects parallel_vertices.
Parallel(x, v) == x # v /\ v \notin g.reach[x] /\ x \notin g.reach[v]

\* parallel_vertices, in ascending order.
ParallelVertices(x) == SetToSortSeq({v \in g.vertices : Parallel(x, v)}, <)

\* The check of u's record for line l against vertex p: p has records,
\* the access is an instruction fetch or p runs on another thread, and p
\* has a record for l.
Hit(x, l, p) ==
    /\ LinesOf(p) # {}
    /\ ~(kind[x][l] = "data" /\ tid[x] = tid[p])
    /\ Find(p, l)

\* Mutant of FirstHit: a same-thread data candidate ends the scan (break
\* instead of continue).
FirstHitBreak(x, l, P) ==
    LET stop == {i \in DOMAIN P : LinesOf(P[i]) # {} /\ kind[x][l] = "data" /\ tid[x] = tid[P[i]]}
        hits == {i \in DOMAIN P : Hit(x, l, P[i])}
        first(S) == CHOOSE i \in S : \A j \in S : i <= j
    IN  IF hits = {} THEN -1
        ELSE IF stop # {} /\ first(stop) < first(hits) THEN -1
        ELSE P[first(hits)]

\* The scan of the parallel vertices: the first one that hits, or -1.
FirstHit(x, l, P) ==
    LET hits == {i \in DOMAIN P : Hit(x, l, P[i])}
    IN  IF hits = {} THEN -1
        ELSE P[CHOOSE i \in hits : \A j \in hits : i <= j]

\* The inner loop over u's records ls (ascending), with flags sh and the
\* guess vertex gv.  A record already shared is skipped.  A hit on the
\* guess marks u's record only; a hit in the scan marks both records and
\* makes the matched vertex the guess.
RECURSIVE ClassifyRecords(_, _, _, _, _)
ClassifyRecords(x, P, ls, sh, gv) ==
    IF ls = << >> THEN sh
    ELSE LET l == Head(ls)
             p == FirstHit(x, l, P)
         IN  IF l \in sh[x] THEN ClassifyRecords(x, P, Tail(ls), sh, gv)
             ELSE IF Hit(x, l, gv)
               THEN ClassifyRecords(x, P, Tail(ls), [sh EXCEPT ![x] = @ \cup {l}], gv)
             ELSE IF p # -1
               THEN ClassifyRecords(x, P, Tail(ls),
                                    [sh EXCEPT ![x] = @ \cup {l}, ![p] = @ \cup {l}], p)
             ELSE ClassifyRecords(x, P, Tail(ls), sh, gv)

\* One iteration of the outer loop for vertex x: a vertex with parallel
\* vertices has its records classified, starting with the first parallel
\* vertex as the guess.
ClassifyVertex(x, sh) ==
    LET P == ParallelVertices(x)
    IN  IF P = << >> THEN sh
        ELSE ClassifyRecords(x, P, SetToSortSeq(LinesOf(x), <), sh, P[1])

\* The outer loop from vertex x to the last vertex.
RECURSIVE ClassifyFrom(_, _)
ClassifyFrom(x, sh) ==
    IF x = Cardinality(g.vertices) THEN sh
    ELSE ClassifyFrom(x + 1, ClassifyVertex(x, sh))

\* analyze_shared_access after the components map: the whole loop over
\* u = 0, 1, ... in one step.
AnalyzeSharedAccess ==
    /\ u = 0
    /\ shared' = ClassifyFrom(0, shared)
    /\ u' = Cardinality(g.vertices)
    /\ UNCHANGED <<g, kind, tid>>

Next == AnalyzeSharedAccess

Spec == Init /\ [][Next]_vars

\* The loop has visited every vertex.
Finished == u = Cardinality(g.vertices)

TypeOK ==
    /\ kind \in [g.vertices -> [Lines -> Kinds]]
    /\ tid \in [g.vertices -> Threads]
    /\ shared \in [g.vertices -> SUBSET Lines]
    /\ \A v \in g.vertices : shared[v] \subseteq LinesOf(v)
    /\ u \in 0 .. Cardinality(g.vertices)

\* The glossary's parallelism: neither vertex reaches the other.
Concurrent(v, w) == v # w /\ w \notin g.reach[v] /\ v \notin g.reach[w]

\* The classification rule of the spec for v's record of line l against w:
\* both access l, w is parallel to v, and v's access is an instruction
\* fetch or w runs on another thread.
RuleHolds(v, l, w) ==
    /\ Concurrent(v, w)
    /\ kind[v][l] # "none"
    /\ kind[w][l] # "none"
    /\ (kind[v][l] = "ifetch" \/ tid[v] # tid[w])

\* Soundness: when the loop is done, a record is shared only if the rule
\* holds for it against some vertex, or the rule of some vertex's record
\* for the same line holds against it (the matched record the scan
\* marks).  In particular no ancestor or descendant (Scenario C) and no
\* same-thread data access makes a record shared.
ClassificationSound ==
    Finished =>
      \A v \in g.vertices : \A l \in shared[v] :
         \E w \in g.vertices : RuleHolds(v, l, w) \/ RuleHolds(w, l, v)

\* Completeness: when the loop is done, every record the rule holds for
\* against some vertex is shared, whatever path (guess, scan, or the skip
\* of records already marked) the loop took.
ClassificationComplete ==
    Finished =>
      \A v \in g.vertices : \A l \in LinesOf(v) :
         (\E w \in g.vertices : RuleHolds(v, l, w)) => l \in shared[v]
====
