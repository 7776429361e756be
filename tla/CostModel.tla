------------------------------ MODULE CostModel ------------------------------
(***************************************************************************)
(* populate_vertex_weight of src/omptr/analyzer/analyzer.cc as operators: *)
(* the weight of every basic block under the four cache configurations   *)
(* the analyzer compares.                                                  *)
(*                                                                         *)
(* A record of a block is the AddrAccessStats of one line: its hit counts *)
(* (local L1, remote L1, L2, memory), is_ifetch and the is_shared flag     *)
(* analyze_shared_access set.  A block's records are a function from its  *)
(* lines to records (the std::map of the block).                           *)
(***************************************************************************)
EXTENDS Integers, FiniteSets, Functions

\* The Configs enum: plain sharing of the LLC, set coloring, the proposed
\* partitioning, and set coloring with every instruction treated private.
Configs == {"SHARE", "COLOR", "PAR", "COLOR_PRIVATE_INST"}

\* Mutant of Wcl: the LLC and memory latencies of the 4-core system are
\* swapped.
WclSwapped4(num_cores) ==
    CASE num_cores = 2 -> [l1 |-> 1, llc |-> 87, mem |-> 568]
      [] num_cores = 4 -> [l1 |-> 1, llc |-> 1063, mem |-> 175]
      [] OTHER         -> [l1 |-> 1, llc |-> 431, mem |-> 2065]

\* The worst-case latencies of an L1 hit, an LLC hit and a memory access
\* for the core count (every count other than 2 and 4 takes the last row).
Wcl(num_cores) ==
    CASE num_cores = 2 -> [l1 |-> 1, llc |-> 87, mem |-> 568]
      [] num_cores = 4 -> [l1 |-> 1, llc |-> 175, mem |-> 1063]
      [] OTHER         -> [l1 |-> 1, llc |-> 431, mem |-> 2065]

\* The latency of one record under each configuration.  Every access
\* costs a memory access when sharing the LLC, and when set coloring a
\* shared line; a shared data line under partitioning costs an LLC access
\* for every L1 or LLC hit; everything else costs the level it hit.
RecordWcl(r, wcl) ==
    LET l1      == r.local
        llc     == r.remote + r.l2
        mem     == r.mem
        allMem  == (l1 + llc + mem) * wcl.mem
        byLevel == l1 * wcl.l1 + llc * wcl.llc + mem * wcl.mem
        parData == (l1 + llc) * wcl.llc + mem * wcl.mem
    IN  CASE r.is_shared /\ r.is_ifetch ->
               [SHARE |-> allMem, COLOR |-> allMem, PAR |-> byLevel, COLOR_PRIVATE_INST |-> byLevel]
          [] r.is_shared ->
               [SHARE |-> allMem, COLOR |-> allMem, PAR |-> parData, COLOR_PRIVATE_INST |-> allMem]
          [] OTHER ->
               [SHARE |-> allMem, COLOR |-> byLevel, PAR |-> byLevel, COLOR_PRIVATE_INST |-> byLevel]

\* The weights of one block: its execution cycles plus the latencies of
\* its records, per configuration.
BlockWeights(recs, exec_cycles, wcl) ==
    [c \in Configs |->
        exec_cycles + FoldFunction(+, 0, [l \in DOMAIN recs |-> RecordWcl(recs[l], wcl)[c]])]

\* Mutant of PopulateVertexWeight: the loop over the blocks stops one
\* short (bb_id < mem_stats.size() - 1).
PopulateVertexWeightSkipLast(mem_stats, exec_cycles_map, num_cores) ==
    [bb \in {b \in DOMAIN mem_stats : b < Cardinality(DOMAIN mem_stats) - 1} |->
        BlockWeights(mem_stats[bb], exec_cycles_map[bb], Wcl(num_cores))]

\* weight_map: for every block id of mem_stats, its weights.
PopulateVertexWeight(mem_stats, exec_cycles_map, num_cores) ==
    [bb \in DOMAIN mem_stats |->
        BlockWeights(mem_stats[bb], exec_cycles_map[bb], Wcl(num_cores))]
====
