-------------------------------- MODULE Omptr --------------------------------
(***************************************************************************)
(* The task-structure tracer src/omptr/omptr.h run by an instrumented      *)
(* OpenMP program.  Every task runs its own instrumented code on some     *)
(* thread; the global counters are bumped with atomic capture and every   *)
(* other shared structure (a task's children list, a basic block record)  *)
(* is written by the one task that owns it before it is published by a    *)
(* task creation.  One action is one atomic capture of the library with   *)
(* the plain code after it, so the captures of concurrent omptr_task and  *)
(* omptr_task_wait calls interleave.  An instrumented task may at any    *)
(* point create a task (OMPTR_BEFORE_TASK/AFTER_TASK), wait for its       *)
(* children (OMPTR_BEFORE_TASKWAIT, #pragma omp taskwait,                 *)
(* OMPTR_AFTER_TASKWAIT) or end.  When every task has ended (the implicit barrier of the parallel  *)
(* region) the basic blocks 0..BB_Counter are printed.                    *)
(*                                                                         *)
(* The capacities are the code's own limits; the model uses small values *)
(* for them, which also bounds the programs explored.                     *)
(***************************************************************************)
EXTENDS Integers, Sequences, FiniteSets

CONSTANTS MAX_NUM_BB,          \* capacity of BBs
          MAX_NUM_TASK,        \* capacity of Tasks
          MAX_TASK_CHILDREN    \* capacity of a task's children array

VARIABLES BBs,           \* BBs[i]: [taskID, nodeID, taskCreated, waitFor]
          children,      \* children[t]: Tasks[t].children[0..numChildren-1]
          Task_Counter,
          BB_Counter,
          omptr_bb_id,   \* omptr_bb_id[t]: the block task t is executing
          parent,        \* parent[t]: the task that created t (OpenMP)
          tstate,        \* "unborn" | "running" | "waiting" | "ended"
          status,        \* "tracing" | "printed" | "aborted" (exit(-1))
          oob,           \* an array write past its capacity happened
          opc,           \* opc[t]: where task t is inside omptr_task
          ntid, ntbb     \* omptr_task's locals new_task_id, new_task_bb_id

ovars == <<BBs, children, Task_Counter, BB_Counter, omptr_bb_id, parent,
           tstate, status, oob, opc, ntid, ntbb>>

BBIdx == 0 .. MAX_NUM_BB - 1
TaskIdx == 0 .. MAX_NUM_TASK - 1

\* omptr_init, then the main task starts in basic block 0.
Init ==
    /\ BBs = [i \in BBIdx |-> [taskID |-> 0, nodeID |-> 0, taskCreated |-> -1,
                               waitFor |-> << >>]]
    /\ children = [t \in TaskIdx |-> << >>]
    /\ Task_Counter = 0
    /\ BB_Counter = 0
    /\ omptr_bb_id = [t \in TaskIdx |-> 0]
    /\ parent = [t \in TaskIdx |-> -1]
    /\ tstate = [t \in TaskIdx |-> IF t = 0 THEN "running" ELSE "unborn"]
    /\ status = "tracing"
    /\ oob = FALSE
    /\ opc = [t \in TaskIdx |-> "none"]
    /\ ntid = [t \in TaskIdx |-> 0]
    /\ ntbb = [t \in TaskIdx |-> 0]

Abort == /\ status' = "aborted"

\* omptr_task is three steps, one per atomic capture: the other tasks'
\* captures may fall between them.  opc[t] is where task t is inside the
\* call ("none" outside it); ntid[t] and ntbb[t] are its locals
\* new_task_id and new_task_bb_id.  The plain writes between two captures
\* touch only blocks this call owns, so each is part of the step before it.

\* OMPTR_BEFORE_TASK: the capture of the new task id, and the task limit.
OmptrTaskCreate(t) ==
    /\ status = "tracing"
    /\ tstate[t] = "running"
    /\ opc[t] = "none"
    /\ Task_Counter' = Task_Counter + 1
    /\ IF Task_Counter' >= MAX_NUM_TASK
         THEN Abort /\ UNCHANGED <<opc, ntid>>
         ELSE /\ opc' = [opc EXCEPT ![t] = "childbb"]
              /\ ntid' = [ntid EXCEPT ![t] = Task_Counter']
              /\ UNCHANGED status
    /\ UNCHANGED <<BBs, children, BB_Counter, omptr_bb_id, parent, tstate, oob, ntbb>>

\* The capture of the child's first block, and the write of its taskID,
\* which comes before any check of the block id.
OmptrTaskChildBB(t) ==
    /\ status = "tracing"
    /\ opc[t] = "childbb"
    /\ BB_Counter' = BB_Counter + 1
    /\ oob' = (oob \/ BB_Counter' >= MAX_NUM_BB)
    /\ BBs' = IF BB_Counter' < MAX_NUM_BB
                THEN [BBs EXCEPT ![BB_Counter'].taskID = ntid[t]]
                ELSE BBs
    /\ opc' = [opc EXCEPT ![t] = "ownbb"]
    /\ ntbb' = [ntbb EXCEPT ![t] = BB_Counter']
    /\ UNCHANGED <<children, Task_Counter, omptr_bb_id, parent, tstate, status, ntid>>

\* Mutant of OmptrTaskOwnBB: the second increment of BB_Counter is not
\* atomic and the counter stays in a register from the first, so the
\* write-back loses the other tasks' increments in between.
OmptrTaskOwnBBRacy(t) ==
    /\ status = "tracing"
    /\ opc[t] = "ownbb"
    /\ LET bb          == omptr_bb_id[t]
           new_task_id == ntid[t]
           new_bb      == ntbb[t] + 1
           n           == Len(children[t])
       IN  /\ BB_Counter' = new_bb
           /\ opc' = [opc EXCEPT ![t] = "none"]
           /\ IF new_bb >= MAX_NUM_BB
                THEN /\ Abort
                     /\ UNCHANGED <<BBs, children, omptr_bb_id, parent, tstate, oob>>
                ELSE
                  /\ BBs' = [BBs EXCEPT ![new_bb].taskID = BBs[bb].taskID,
                                        ![new_bb].nodeID = BBs[bb].nodeID + 1,
                                        ![bb].taskCreated = new_task_id]
                  /\ children' = [children EXCEPT ![t] = Append(@, new_task_id)]
                  /\ oob' = (oob \/ n >= MAX_TASK_CHILDREN)
                  /\ IF n + 1 > MAX_TASK_CHILDREN
                       THEN /\ Abort
                            /\ UNCHANGED <<omptr_bb_id, parent, tstate>>
                       ELSE /\ omptr_bb_id' = [omptr_bb_id EXCEPT ![t] = new_bb,
                                                                  ![new_task_id] = ntbb[t]]
                            /\ parent' = [parent EXCEPT ![new_task_id] = t]
                            /\ tstate' = [tstate EXCEPT ![new_task_id] = "running"]
                            /\ UNCHANGED status
    /\ UNCHANGED <<Task_Counter, ntid, ntbb>>

\* The capture of t's next block, the block limit, the records of the
\* creation, children[numChildren++] (written before its capacity check),
\* and the return: the child starts in its block (firstprivate
\* omptr_bb_id) and OMPTR_AFTER_TASK moves t to its new block.
OmptrTaskOwnBB(t) ==
    /\ status = "tracing"
    /\ opc[t] = "ownbb"
    /\ LET bb          == omptr_bb_id[t]
           new_task_id == ntid[t]
           new_bb      == BB_Counter + 1
           n           == Len(children[t])
       IN  /\ BB_Counter' = new_bb
           /\ opc' = [opc EXCEPT ![t] = "none"]
           /\ IF new_bb >= MAX_NUM_BB
                THEN /\ Abort
                     /\ UNCHANGED <<BBs, children, omptr_bb_id, parent, tstate, oob>>
                ELSE
                  /\ BBs' = [BBs EXCEPT ![new_bb].taskID = BBs[bb].taskID,
                                        ![new_bb].nodeID = BBs[bb].nodeID + 1,
                                        ![bb].taskCreated = new_task_id]
                  /\ children' = [children EXCEPT ![t] = Append(@, new_task_id)]
                  /\ oob' = (oob \/ n >= MAX_TASK_CHILDREN)
                  /\ IF n + 1 > MAX_TASK_CHILDREN
                       THEN /\ Abort
                            /\ UNCHANGED <<omptr_bb_id, parent, tstate>>
                       ELSE /\ omptr_bb_id' = [omptr_bb_id EXCEPT ![t] = new_bb,
                                                                  ![new_task_id] = ntbb[t]]
                            /\ parent' = [parent EXCEPT ![new_task_id] = t]
                            /\ tstate' = [tstate EXCEPT ![new_task_id] = "running"]
                            /\ UNCHANGED status
    /\ UNCHANGED <<Task_Counter, ntid, ntbb>>

\* omptr_task_wait called by task t (OMPTR_BEFORE_TASKWAIT): a new block of
\* t waiting for the children created since the last taskwait; then t
\* blocks in #pragma omp taskwait.
OmptrTaskWait(t) ==
    /\ status = "tracing"
    /\ tstate[t] = "running"
    /\ opc[t] = "none"
    /\ LET bb     == omptr_bb_id[t]
           new_bb == BB_Counter + 1
       IN  /\ BB_Counter' = new_bb
           /\ IF new_bb >= MAX_NUM_BB
                THEN /\ Abort
                     /\ UNCHANGED <<BBs, children, omptr_bb_id, tstate>>
                ELSE /\ BBs' = [BBs EXCEPT ![new_bb].taskID = BBs[bb].taskID,
                                           ![new_bb].nodeID = BBs[bb].nodeID + 1,
                                           ![new_bb].waitFor = children[t]]
                     /\ children' = [children EXCEPT ![t] = << >>]
                     /\ omptr_bb_id' = [omptr_bb_id EXCEPT ![t] = new_bb]
                     /\ tstate' = [tstate EXCEPT ![t] = "waiting"]
                     /\ UNCHANGED status
    /\ UNCHANGED <<Task_Counter, parent, oob, opc, ntid, ntbb>>

\* #pragma omp taskwait returns once every child task of t has completed.
TaskwaitReturn(t) ==
    /\ status = "tracing"
    /\ tstate[t] = "waiting"
    /\ \A c \in TaskIdx : parent[c] = t => tstate[c] = "ended"
    /\ tstate' = [tstate EXCEPT ![t] = "running"]
    /\ UNCHANGED <<BBs, children, Task_Counter, BB_Counter, omptr_bb_id, parent,
                   status, oob, opc, ntid, ntbb>>

\* The task body finishes (OMPTR_TASK_END).  A task does not wait for its
\* children when it ends.
TaskEnd(t) ==
    /\ status = "tracing"
    /\ tstate[t] = "running"
    /\ opc[t] = "none"
    /\ tstate' = [tstate EXCEPT ![t] = "ended"]
    /\ UNCHANGED <<BBs, children, Task_Counter, BB_Counter, omptr_bb_id, parent,
                   status, oob, opc, ntid, ntbb>>

\* After the parallel region (all tasks complete) OMPTR_PRINT writes blocks
\* 0..BB_Counter.
OmptrPrint ==
    /\ status = "tracing"
    /\ \A t \in TaskIdx : tstate[t] \in {"unborn", "ended"}
    /\ status' = "printed"
    /\ UNCHANGED <<BBs, children, Task_Counter, BB_Counter, omptr_bb_id, parent,
                   tstate, oob, opc, ntid, ntbb>>

ONext ==
    \/ \E t \in TaskIdx : OmptrTaskCreate(t) \/ OmptrTaskChildBB(t) \/ OmptrTaskOwnBB(t)
                          \/ OmptrTaskWait(t)
                          \/ TaskwaitReturn(t) \/ TaskEnd(t)
    \/ OmptrPrint

\* The JSON array omptr_print writes, as the analyzer reads it.
Printed ==
    {[ID |-> i, taskID |-> BBs[i].taskID, nodeID |-> BBs[i].nodeID,
      taskCreated |-> BBs[i].taskCreated, waitFor |-> BBs[i].waitFor] :
     i \in 0 .. BB_Counter}
=============================================================================
