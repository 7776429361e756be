------------------------------ MODULE Examples ------------------------------
(***************************************************************************)
(* An example program of src/omptr/examples run through the pipeline.     *)
(* Where Pipeline lets every task do any instrumented operation, here a   *)
(* task does the operations of the code it executes, in program order:    *)
(* PROGRAM maps the name of a task body to its sequence of operations,    *)
(* and a task created by an operation Task(b) runs body b.  The OpenMP    *)
(* runtime still interleaves the tasks freely, and the tracer, the probe  *)
(* and the analyzer are Pipeline's.                                       *)
(*                                                                         *)
(* Operations, by the macro the program uses:                             *)
(*   Task(b)  OMPTR_BEFORE_TASK, #pragma omp task, OMPTR_AFTER_TASK        *)
(*   "wait"   OMPTR_BEFORE_TASKWAIT, #pragma omp taskwait                  *)
(*   "start"  OMPTR_TASK_START (AFTER_TASKWAIT is the runtime's return)    *)
(*   "end"    OMPTR_TASK_END, and the task body returns                    *)
(*   "leave"  the body returns without OMPTR_TASK_END                     *)
(***************************************************************************)
EXTENDS Pipeline

CONSTANT PROGRAM

VARIABLES body,   \* body[t]: the code task t runs ("none" until created)
          step    \* step[t]: how many of its operations task t has done

evars == <<vars, body, step>>

Task(b) == [op |-> "task", body |-> b]
Op(o) == [op |-> o, body |-> "none"]

\* simple_v1_omptr.c: the single region creates three tasks, each
\* running main_task between OMPTR_TASK_START and OMPTR_TASK_END, waits
\* for them, and then ends with OMPTR_TASK_START (line 56).
SimpleV1 ==
    ("main" :> << Task("sub"), Task("sub"), Task("sub"), Op("wait"),
                  Op("start"), Op("leave") >>)
    @@ ("sub" :> << Op("end") >>)

\* Task t's next operation is o.
NextIs(t, o) ==
    /\ body[t] # "none"
    /\ step[t] < Len(PROGRAM[body[t]])
    /\ PROGRAM[body[t]][step[t] + 1].op = o

Advance(t) == step' = [step EXCEPT ![t] = @ + 1]

ExInit ==
    /\ Init
    /\ body = [t \in O!TaskIdx |-> IF t = 0 THEN "main" ELSE "none"]
    /\ step = [t \in O!TaskIdx |-> 0]

\* OMPTR_BEFORE_TASK: "ends", then omptr_task's three captures; the
\* child runs the body the operation names.  AFTER_TASK's "starts" and
\* the child's TASK_START come with the last capture (ProbeOnTask).
ExTaskCreate(t) ==
    /\ NextIs(t, "task")
    /\ O!OmptrTaskCreate(t) /\ probe' = ProbeEnd(t)
    /\ UNCHANGED <<rvars, ingest, body, step>>

ExTaskChildBB(t) ==
    /\ O!OmptrTaskChildBB(t)
    /\ UNCHANGED <<probe, rvars, ingest, body, step>>

ExTaskOwnBB(t) ==
    /\ O!OmptrTaskOwnBB(t) /\ probe' = ProbeOnTask(t)
    /\ body' = [body EXCEPT ![ntid[t]] = PROGRAM[body[t]][step[t] + 1].body]
    /\ Advance(t)
    /\ UNCHANGED <<rvars, ingest>>

ExTaskWait(t) ==
    /\ NextIs(t, "wait")
    /\ O!OmptrTaskWait(t) /\ probe' = ProbeEnd(t)
    /\ Advance(t)
    /\ UNCHANGED <<rvars, ingest, body>>

\* The taskwait returns and OMPTR_AFTER_TASKWAIT prints "starts".
ExTaskwaitReturn(t) ==
    /\ O!TaskwaitReturn(t) /\ probe' = StartBBScope(probe, omptr_bb_id[t], t)
    /\ UNCHANGED <<rvars, ingest, body, step>>

\* OMPTR_TASK_START: "starts" of the task's current block.
ExTaskStart(t) ==
    /\ NextIs(t, "start")
    /\ status = "tracing" /\ tstate[t] = "running"
    /\ probe' = StartBBScope(probe, omptr_bb_id[t], t)
    /\ Advance(t)
    /\ UNCHANGED <<ovars, rvars, ingest, body>>

ExTaskEnd(t) ==
    /\ NextIs(t, "end")
    /\ O!TaskEnd(t) /\ probe' = ProbeEnd(t)
    /\ Advance(t)
    /\ UNCHANGED <<rvars, ingest, body>>

\* The body returns without "ends": its block's accesses are recorded,
\* and the thread stays in the block.
ExTaskLeave(t) ==
    /\ NextIs(t, "leave")
    /\ O!TaskEnd(t) /\ probe' = ProbeAccesses(t)
    /\ Advance(t)
    /\ UNCHANGED <<rvars, ingest, body>>

\* OMPTR_PRINT and the analyzer, as in Pipeline.
Rest ==
    \/ O!OmptrPrint /\ UNCHANGED <<probe, rvars, ingest>>
    \/ Analyze
    \/ R!Iterate /\ UNCHANGED <<ovars, pvars>>
    \/ R!CheckConnection /\ UNCHANGED <<ovars, pvars>>

ExNext ==
    \/ \E t \in O!TaskIdx :
          \/ ExTaskCreate(t) \/ ExTaskChildBB(t) \/ ExTaskOwnBB(t)
          \/ ExTaskWait(t) \/ ExTaskwaitReturn(t) \/ ExTaskStart(t)
          \/ ExTaskEnd(t) \/ ExTaskLeave(t)
    \/ Rest /\ UNCHANGED <<body, step>>

ExSpec == ExInit /\ [][ExNext]_evars
====
