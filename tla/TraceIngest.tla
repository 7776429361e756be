----------------------------- MODULE TraceIngest -----------------------------
(***************************************************************************)
(* parse_mem_stats of src/omptr/analyzer/analyzer.cc: the messages of the *)
(* stats file, read in order, into mem_stats (one map line -> record per  *)
(* block, in block order) and exec_cycles_map.  A failed assert sets ok   *)
(* to FALSE and the rest of the file is not read.                          *)
(***************************************************************************)
EXTENDS Integers, SequencesExt

EmptyIngest == [counter |-> -1, mem_stats |-> << >>, exec |-> << >>, ok |-> TRUE]

\* Mutant of ReadMsg: the metadata message does not `continue` and is also
\* stored as the record of line 0.
ReadMsgNoContinue(st, m) ==
    LET s1 == IF m.bb_id = st.counter + 1
                THEN [st EXCEPT !.counter = @ + 1,
                                !.mem_stats = Append(@, [l \in {} |-> 0])]
                ELSE st
        i  == m.bb_id + 1
        s2 == IF m.is_metadata THEN [s1 EXCEPT !.exec = Append(@, m.exec_cycles)] ELSE s1
    IN  CASE ~st.ok -> st
          [] m.bb_id # s1.counter -> [s1 EXCEPT !.ok = FALSE]
          [] m.line_address \in DOMAIN s2.mem_stats[i] -> [s2 EXCEPT !.ok = FALSE]
          [] OTHER -> [s2 EXCEPT !.mem_stats[i] =
                          (m.line_address :> [thread_id |-> m.thread_id, is_shared |-> FALSE]) @@ @]

\* One iteration of the read loop: a message with the next block id opens
\* that block's map; the message must belong to the current block; the
\* metadata message appends the block's cycles, any other adds its line's
\* record (a second record of a line is assert(false)).
ReadMsg(st, m) ==
    LET s1 == IF m.bb_id = st.counter + 1
                THEN [st EXCEPT !.counter = @ + 1,
                                !.mem_stats = Append(@, [l \in {} |-> 0])]
                ELSE st
        i  == m.bb_id + 1
    IN  CASE ~st.ok -> st
          [] m.bb_id # s1.counter -> [s1 EXCEPT !.ok = FALSE]
          [] m.is_metadata -> [s1 EXCEPT !.exec = Append(@, m.exec_cycles)]
          [] m.line_address \in DOMAIN s1.mem_stats[i] -> [s1 EXCEPT !.ok = FALSE]
          [] OTHER -> [s1 EXCEPT !.mem_stats[i] =
                          (m.line_address :> [thread_id |-> m.thread_id, is_shared |-> FALSE]) @@ @]

\* The whole file, then assert(mem_stats.size() == exec_cycles_map.size()).
ParseMemStats(msgs) ==
    LET st == FoldLeft(ReadMsg, EmptyIngest, msgs)
    IN  IF st.ok /\ Len(st.mem_stats) # Len(st.exec) THEN [st EXCEPT !.ok = FALSE] ELSE st
====
