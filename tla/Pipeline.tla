------------------------------- MODULE Pipeline -------------------------------
(***************************************************************************)
(* The tracer and the analyzer composed: an instrumented program runs     *)
(* under omptr.h and prints its task structure; the analyzer (main of     *)
(* src/omptr/analyzer/analyzer.cc) parses that structure with parse_dag   *)
(* and runs the reachability DFS and its post-check on it.  This is the   *)
(* path the repository's tool chain takes, so the DFS here only ever sees *)
(* graphs the tracer can produce.                                          *)
(*                                                                         *)
(* The memory probe of the simulator runs beside the program: every       *)
(* "[OMPTR] BB n starts/ends" the macros print becomes a start_bb_scope / *)
(* end_bb_scope call on the printing thread, and every memory access a    *)
(* recordMemTrace call.  At exit its stats file is written, and the       *)
(* analyzer reads it with parse_mem_stats before parse_dag.  A task runs  *)
(* on one thread, and the model names the thread after the task: a thread *)
(* that runs several tasks goes through the same "no block, block, no     *)
(* block" sequence for each, since every task scheduling point of an      *)
(* instrumented program lies between an "ends" and a "starts".            *)
(***************************************************************************)
EXTENDS Integers, Sequences, FiniteSets, TaskGraph, MemProbe, TraceIngest

CONSTANTS MAX_NUM_BB, MAX_NUM_TASK, MAX_TASK_CHILDREN,
          PROBE_ACCESS   \* <<block, line>>: the lines each block accesses
                         \* (line 0 excluded, see README)

VARIABLES BBs, children, Task_Counter, BB_Counter, omptr_bb_id, parent,
          tstate, status, oob, opc, ntid, ntbb,
          g, dfs_stack, discovered, done, c_map,
          probe,         \* the memory probe (MemProbe)
          ingest,        \* what parse_mem_stats read (TraceIngest)
          pc             \* "trace" until the analyzer has read the trace, then
                         \* "rejected" (parse_dag failed) or Reachability's pc

O == INSTANCE Omptr
R == INSTANCE Reachability WITH Inputs <- {}

ovars == <<BBs, children, Task_Counter, BB_Counter, omptr_bb_id, parent,
           tstate, status, oob, opc, ntid, ntbb>>
rvars == <<g, dfs_stack, discovered, done, c_map, pc>>
pvars == <<probe, ingest>>
vars == <<ovars, rvars, pvars>>

\* The execution cycles end_bb_scope measures for a block: a stand-in
\* that tells the blocks apart.
BlockCycles(bb) == bb + 1

Init ==
    /\ O!Init
    /\ g = NoGraph
    /\ dfs_stack = << >>
    /\ discovered = {}
    /\ done = {}
    /\ c_map = [v \in {} |-> {}]
    /\ pc = "trace"
    /\ probe = StartBBScope(EmptyProbe, 0, 0)
    /\ ingest = EmptyIngest

\* The lines block bb accesses.
BlockLines(bb) == {l \in {a[2] : a \in PROBE_ACCESS} : <<bb, l>> \in PROBE_ACCESS}

\* The probe calls of a step of task t: the recordMemTrace calls of the
\* accesses of its block, then "ends" of the block; after
\* omptr_task returns, "starts" of the child's block (OMPTR_TASK_START
\* with the firstprivate copy) and of t's new block (OMPTR_AFTER_TASK).
\* exit(-1) in omptr_task ends the program before either.
\* Accesses change only the accessing thread's entries, so recording them
\* all just before the thread's "ends" loses no interleaving.
ProbeAccesses(t) ==
    FoldSet(LAMBDA l, p : RecordMemTrace(p, t, l), probe, BlockLines(omptr_bb_id[t]))

ProbeEnd(t) == EndBBScope(ProbeAccesses(t), t, BlockCycles(omptr_bb_id[t]))

ProbeOnTask(t) ==
    IF status' = "aborted" THEN probe
    ELSE StartBBScope(StartBBScope(probe, omptr_bb_id'[ntid[t]], ntid[t]),
                      omptr_bb_id'[t], t)

\* A step of the traced program, before the analyzer runs, with the probe
\* calls its prints make.
Trace ==
    /\ \/ \E t \in O!TaskIdx :
            \/ O!OmptrTaskCreate(t) /\ probe' = ProbeEnd(t)
            \/ O!OmptrTaskChildBB(t) /\ UNCHANGED probe
            \/ O!OmptrTaskOwnBB(t) /\ probe' = ProbeOnTask(t)
            \/ O!OmptrTaskWait(t) /\ probe' = ProbeEnd(t)
            \/ O!TaskwaitReturn(t) /\ probe' = StartBBScope(probe, omptr_bb_id[t], t)
            \/ O!TaskEnd(t) /\ probe' = ProbeEnd(t)
       \/ O!OmptrPrint /\ UNCHANGED probe
    /\ UNCHANGED <<rvars, ingest>>

\* main of the analyzer on the probe's stats file and the printed file:
\* parse_mem_stats, then parse_dag either builds the graph and (the block
\* counts of both files agreeing) connected_components starts on it, or an
\* assert / exit(1) stops the analyzer.
Analyze ==
    /\ status = "printed"
    /\ pc = "trace"
    /\ ingest' = ParseMemStats(CloseStreams(probe))
    /\ \E bbs \in {O!Printed} :
       IF ingest'.ok /\ Accepted(bbs)
          /\ Cardinality(Graph(bbs).vertices) = Len(ingest'.mem_stats)
         THEN \E gr \in {Graph(bbs)} : R!StartOn(gr)
         ELSE /\ pc' = "rejected"
              /\ UNCHANGED <<g, dfs_stack, discovered, done, c_map>>
    /\ UNCHANGED <<ovars, probe>>

Next ==
    \/ Trace
    \/ Analyze
    \/ R!Iterate /\ UNCHANGED <<ovars, pvars>>
    \/ R!CheckConnection /\ UNCHANGED <<ovars, pvars>>

\* Only the analyzer, once started, is assumed to make progress: it is one
\* sequential thread.  The traced program may stop anywhere (it may also
\* exit(-1)) and nothing obliges anyone to run the analyzer on its output.
Spec ==
    /\ Init /\ [][Next]_vars
    /\ WF_vars(R!Iterate /\ UNCHANGED <<ovars, pvars>>)
    /\ WF_vars(R!CheckConnection /\ UNCHANGED <<ovars, pvars>>)

-----------------------------------------------------------------------------

TypeOK ==
    /\ status \in {"tracing", "printed", "aborted"}
    /\ BB_Counter \in Nat /\ Task_Counter \in Nat
    /\ pc \in {"trace", "rejected", "dfs", "checked", "failed"}
    /\ pc \in {"dfs", "checked", "failed"} => R!TypeOK
    /\ pc \in {"trace", "rejected"} => g = NoGraph /\ dfs_stack = << >> /\ done = {}
    /\ probe.ok \in BOOLEAN /\ ingest.ok \in BOOLEAN

\* end_bb_scope's asserts never fail on an instrumented program: whenever
\* a thread prints "ends", the probe has it in a block that has not ended,
\* whatever the interleaving of the tasks' prints.
ProbeAssertsHold == probe.ok

\* Once the analyzer has read a complete trace, parse_mem_stats has not
\* asserted and its result lines up with the tracer's blocks: one entry
\* per printed block, entry i holding the cycles of block i and a record
\* of exactly the lines block i accessed, made by the thread of block i's
\* task.  The probe keys on its per-thread block id and the analyzer on
\* the stats file's order, so this is what lets weights be charged to the
\* right vertex.
IngestMatchesTrace ==
    pc # "trace" =>
        /\ ingest.ok
        /\ Len(ingest.exec) = BB_Counter + 1
        /\ Len(ingest.mem_stats) = BB_Counter + 1
        /\ \A i \in 0 .. BB_Counter :
              /\ ingest.exec[i + 1] = BlockCycles(i)
              /\ DOMAIN ingest.mem_stats[i + 1] = BlockLines(i)
              /\ \A l \in DOMAIN ingest.mem_stats[i + 1] :
                    ingest.mem_stats[i + 1][l].thread_id = BBs[i].taskID

\* Once the analyzer has started the DFS on a trace, the DFS returns and
\* the post-check runs (connected_components has no cut-off, so a spinning
\* loop would hang the tool).
AnalysisTerminates == pc = "dfs" ~> pc \in {"checked", "failed"}

PostCheckMatchesShape == R!PostCheckMatchesShape

\* The tasks some printed block creates that no printed block waits for.
Unawaited(bbs) ==
    {b.taskCreated : b \in {c \in bbs : c.taskCreated # NoTask}}
      \ UNION {ToSet(b.waitFor) : b \in bbs}

\* The analyzer turns a complete trace down (parse_dag asserts or exits,
\* or the post-check asserts) exactly when some task was never waited for
\* by a taskwait, whose last block is then a second sink; or when the
\* program never reached a task or taskwait (one block, no edge, an empty
\* topological order).  Which of the two checks catches a second sink
\* depends on the out-edge order the DFS of topological_sort follows.
RefusesExactlyUnawaited ==
    pc \in {"rejected", "checked", "failed"} =>
        (pc # "checked" <=> Unawaited(O!Printed) # {} \/ BB_Counter = 0)

\* omptr_task never writes past the end of BBs or of the creating task's
\* children array, whatever the program does before it runs out of room.
NoOutOfBoundsWrite == ~oob

\* The DFS over traced graphs implements the components-map specification.
Abstract == INSTANCE ReachabilitySpec WITH fin <- done
AbstractSpec == Abstract!Spec
=============================================================================
