------------------------------ MODULE MemProbe ------------------------------
(***************************************************************************)
(* CustomMemProbe (src/src/mem/ruby/system/CustomMemProbe.cc) in program  *)
(* mode, as operators on its state p:                                     *)
(*   bbMap   m_bb_id_map: thread -> the block it is in, or NoBB (-1)       *)
(*   doneBB  m_done_bb: the blocks that have ended                        *)
(*   stats   m_addr_stats: key <<bb_id, address>> -> entry                 *)
(*   ok      FALSE once one of its asserts has failed                      *)
(* The simulator calls start_bb_scope / end_bb_scope when the program     *)
(* prints "[OMPTR] BB n starts/ends" and recordMemTrace on every memory   *)
(* access; the simulation exit calls closeStreams.                         *)
(*                                                                         *)
(* An entry keeps its thread, whether it is the metadata entry and its    *)
(* exec_cycles.  The four hit counters and is_ifetch only pass through:  *)
(* record() on an existing entry changes nothing the model keeps.         *)
(***************************************************************************)
EXTENDS Integers, SequencesExt

NoBB == -1

EmptyProbe ==
    [bbMap |-> [th \in {} |-> NoBB], doneBB |-> {}, stats |-> [k \in {} |-> 0], ok |-> TRUE]

Fail(p) == [p EXCEPT !.ok = FALSE]

\* start_bb_scope: the thread's entry is set to bb, inserted if missing.
StartBBScope(p, bb, th) == [p EXCEPT !.bbMap = (th :> bb) @@ @]

\* recordExecCycles: the metadata entry of bb is the entry with address 0;
\* an existing entry with that key is turned into the metadata entry.
RecordExecCycles(p, bb, th, cyc) ==
    LET k == <<bb, 0>>
    IN  IF k \in DOMAIN p.stats
          THEN [p EXCEPT !.stats[k].is_metadata = TRUE, !.stats[k].exec_cycles = cyc]
          ELSE [p EXCEPT !.stats = (k :> [thread |-> th, is_metadata |-> TRUE,
                                          exec_cycles |-> cyc]) @@ @]

\* end_bb_scope: the thread must be in a block that has not ended; the
\* block ends, the thread's entry is reset, and the block's execution
\* cycles are recorded.
EndBBScope(p, th, cyc) ==
    IF \/ th \notin DOMAIN p.bbMap
       \/ p.bbMap[th] = NoBB
       \/ p.bbMap[th] \in p.doneBB
      THEN Fail(p)
      ELSE LET bb == p.bbMap[th]
           IN  RecordExecCycles([p EXCEPT !.doneBB = @ \cup {bb}, !.bbMap[th] = NoBB],
                                bb, th, cyc)

\* The block a thread's access is charged to (-1 outside every block).
CurrentBB(p, th) == IF th \in DOMAIN p.bbMap THEN p.bbMap[th] ELSE NoBB

\* recordMemTrace (raw trace disabled): an access outside every block is
\* dropped; the first access of a block to a line creates its entry.
RecordMemTrace(p, th, line) ==
    LET bb == CurrentBB(p, th)
        k  == <<bb, line>>
    IN  IF bb = NoBB \/ k \in DOMAIN p.stats THEN p
        ELSE [p EXCEPT !.stats = (k :> [thread |-> th, is_metadata |-> FALSE,
                                        exec_cycles |-> 0]) @@ @]

\* AddrAccessKey::operator<: by bb_id, then by address.
KeyLess(a, b) == a[1] < b[1] \/ (a[1] = b[1] /\ a[2] < b[2])

\* The keys of a std::map in iteration order: the i-th key is the one with
\* i - 1 smaller keys.
SortedKeys(S) ==
    [i \in 1 .. Cardinality(S) |-> CHOOSE k \in S : Cardinality({j \in S : KeyLess(j, k)}) = i - 1]

\* closeStreams: one AddrAccessStats message per entry, in key order.
CloseStreams(p) ==
    LET keys == SortedKeys(DOMAIN p.stats)
    IN  [i \in DOMAIN keys |->
            [bb_id |-> keys[i][1], line_address |-> keys[i][2],
             thread_id |-> p.stats[keys[i]].thread,
             is_metadata |-> p.stats[keys[i]].is_metadata,
             exec_cycles |-> p.stats[keys[i]].exec_cycles]]
====
