---------------------------- MODULE TaskStructures ----------------------------
(***************************************************************************)
(* Every task-structure input of the JSON schema with a given number of   *)
(* blocks per task: shape[t+1] blocks for task t.  Block ids are assigned *)
(* in (task, node) order.  Each block may create any other non-initial     *)
(* task or none, and wait for any set of other non-initial tasks (listed   *)
(* in ascending order).  Used to give the analyzer's stages every input   *)
(* parse_dag accepts, not only those the tracer can print.               *)
(***************************************************************************)
EXTENDS TaskGraph

LOCAL LastTask(shape) == Len(shape) - 1

LOCAL Slots(shape) ==
    UNION {{<<t, i>> : i \in 0 .. shape[t + 1] - 1} : t \in 0 .. LastTask(shape)}

LOCAL SlotId(shape, s) == s[2] + SumFunction(SubSeq(shape, 1, s[1]))

\* The (taskCreated, waitFor) choices of a block of task t.
LOCAL BlockChoices(shape, t) ==
    LET others == (1 .. LastTask(shape)) \ {t}
    IN  ({NoTask} \cup others)
          \X {SortSeq(SetToSeq(S), <) : S \in SUBSET others}

LOCAL SlotsOf(shape, t) == {s \in Slots(shape) : s[1] = t}

\* Every assignment of choices to the blocks of tasks 0..k.
RECURSIVE Assignments(_, _)
Assignments(shape, k) ==
    IF k = 0 THEN [SlotsOf(shape, 0) -> BlockChoices(shape, 0)]
    ELSE {f @@ h : f \in Assignments(shape, k - 1),
                   h \in [SlotsOf(shape, k) -> BlockChoices(shape, k)]}

Structures(shape) ==
    { {[ID |-> SlotId(shape, s), taskID |-> s[1], nodeID |-> s[2],
        taskCreated |-> f[s][1], waitFor |-> f[s][2]] : s \in Slots(shape)} :
      f \in Assignments(shape, LastTask(shape)) }

\* The graphs parse_dag builds from the inputs of this shape it accepts.
AcceptedGraphs(shape) ==
    {Graph(bbs) : bbs \in {b \in Structures(shape) : Accepted(b)}}
=============================================================================
