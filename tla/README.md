# TLA+ models of parrp (omptr tracer, task-graph analyzer, gem5 extensions)

This directory holds TLA+ models of the repository's task-graph tool chain and the
TLC configurations that check them. Everything here is derived from the sources
under `src/`. Line references are to those files.

## 1. The system

### Parts and the state each keeps

| Part | Source | State |
|---|---|---|
| Trace instrumentation (omptr) | `src/omptr/omptr.h` | Global `BBs[MAX_NUM_BB]` (taskID, nodeID, taskCreated, waitFor) and `Tasks[MAX_NUM_TASK]` (children list). Atomic `Task_Counter` and `BB_Counter`. Each task's private `omptr_bb_id`. |
| Task-structure parser | `analyzer.cc` `parse_dag` | The sorted records, `basic_blocks_2d` per task, a boost `adjacency_list<vecS,vecS>` graph with out-edges in insertion order, root, exit, task count. |
| Trace ingestor | `analyzer.cc` `parse_mem_stats` | `MemStats`: per-vertex map line → record. `exec_cycles_map`. |
| Reachability engine | `analyzer.cc` `connected_components` | `dfs_stack`, `discovered[]`, `done[]`, the components map `c_map[u][v]`. |
| Sharing classifier | `analyzer.cc` `analyze_shared_access` 247-330 | The `is_shared` flag of every record, and a rolling guess vertex. |
| Cost model | `populate_vertex_weight` | Four weights per vertex, from hit counts and latency constants that depend on the core count. |
| Schedule bound | `compute_WCRTs` | `longest_path[]` per configuration, critical path, volume, Graham's bound. |
| Reporter | `collect_statistics` | None; sums and CSV output. |
| Isolation checker | `checker.cc` | Accumulated per-line records, shared/private split by core, verdict exit code. |
| Partitioned replacement policy | `par_rp.cc/.hh` | Per cache set: a partition table (entries per partition) and an owner table (way → partition). |
| Set sequencer | `SetSequencer.hh` | Per address, the ordered set of pending request ids. |
| Perfect switch | `PerfectSwitch.cc` | TDM slot owner, the OA (oldest-first) response bus, a wakeup counter for priority inversion. |
| Memory probe | `CustomMemProbe.cc` | Per-thread current block, per (block, line) aggregates, metadata records. |
| Example programs | `omptr/examples/*_omptr.c` | The instrumented macros each task executes, in program order. |
| Traffic generator | `CustomTrafficGen.cc` | One outstanding request, a retry packet, tick / noRequest / noResponse events. |

### How the parts interact

An OpenMP program is instrumented with the omptr macros. Each `#pragma omp task` is
bracketed by `OMPTR_BEFORE_TASK`/`OMPTR_AFTER_TASK`, which call `omptr_task`. Each
`taskwait` is bracketed by the TASKWAIT macros, which call `omptr_task_wait`. The
program runs on gem5. The memory probe turns each `[OMPTR] BB n starts/ends`
print into a block scope on the printing thread, and aggregates the accesses of
each block per line. At exit it writes one record per (block, line), plus a
metadata record per block, sorted by block. `omptr_print` writes the task
structure as JSON.

The analyzer then runs these stages in order:

1. it reads the statistics and the JSON;
2. it builds the graph;
3. it computes reachability and checks that the graph has one root and one sink;
4. it classifies accesses as shared or private;
5. it weights the vertices;
6. it computes Graham's bound.

The gem5 parts (ParRP, sequencer, switch) determine the latencies that the cost
model assumes.

### Hard behaviours

- **Concurrent tasks call omptr at the same time.** Ids come from atomic counters. A task may end without waiting for its children.
- **The reachability DFS can spin.** It has no bound, and it never re-pushes a vertex.
- **boost's out-edge order matters.** It decides the DFS order and which of parse_dag's topological-order asserts fires.
- **omptr checks capacity after writing.** Both of its capacity checks come after the write they guard.
- **Numeric edges in the bound.** Unsigned subtraction, a zero critical path, and double truncation.
- **The classifier's guess vertex and asymmetric marking.**
- **gem5 parts:** arbitration between requesters, buffers that are full, and retry events.

### What makes each part correct

- **Parser.** It accepts exactly the well-formed single-root/single-sink DAGs, and builds the edges in code order.
- **Reachability.** It terminates, and its map is exactly the descendant relation: no vertex is finalized before its descendants.
- **Post-check.** It fails exactly when the graph is not single-root, single-sink.
- **Tracer.** No out-of-bounds writes, and every trace of a program that awaits all its tasks is analyzable.
- **Bound.** Graham's bound is at least the heaviest chain and at most the volume.
- **Classifier.** A record is shared exactly when a parallel vertex accesses its line under the data/instruction rule. The guess is a shortcut that must not change the result.
- **ParRP.** The owner table agrees with the partition table, and each partition holds at most its quota.
- **Switch.** One grant per TDM slot with bounded waiting, oldest-first responses, multicast all-or-nothing, and every message eventually forwarded.

## 2. Modules

| Module | Models | Kind |
|---|---|---|
| `TaskGraph` | `parse_dag` and the `num_vertices == num_bbs` assert, as operators. It maps a set of records to a graph record: out-edge lists in insertion order, vertices, reference descendants (`reach`), root, exit, task count. `Accepted` is the conjunction of the code's asserts and exits. | operators |
| `TaskStructures` | Every JSON input of a given shape (blocks per task), for any spawn and wait choices. | operators (input generator) |
| `ReachabilitySpec` | The abstract promise of §4.3: a row is written once, completely, after all successor rows are final. `Load` hands over a graph. | abstract spec |
| `Reachability` | `connected_components`. `Iterate` is one iteration of the while loop: the push loop, the done test, the OR loop, and the pop. `CheckConnection` is the post-check. `Abstract` is an INSTANCE of `ReachabilitySpec` with `fin <- done`. | state machine, refinement |
| `Omptr` | The tracer. `omptr_task` is three steps, one per atomic capture: `OmptrTaskCreate` (the task id and the task limit), `OmptrTaskChildBB` (the child's block and its `taskID` write), and `OmptrTaskOwnBB` (the caller's next block, the limits, the records, the return, and the child starting). `opc`, `ntid` and `ntbb` are the per-task position and locals, so other tasks' captures fall between them. `OmptrTaskWait` is `omptr_task_wait` plus entering the taskwait. `TaskwaitReturn` is the taskwait returning once all children have ended. `TaskEnd` ends the task. `OmptrPrint` runs after all tasks end. Capacities are constants. | state machine |
| `MemProbe` | `CustomMemProbe` in program mode, as operators on a probe record: `StartBBScope`, `EndBBScope` (its three asserts set `ok` to FALSE), `RecordMemTrace`, `RecordExecCycles` (the metadata entry under address 0), and `CloseStreams`, which dumps the entries in `AddrAccessKey` order. | operators |
| `TraceIngest` | `parse_mem_stats` as `FoldLeft` of `ReadMsg` over the stats file: a block opens at `counter + 1`, then the order assert, the metadata `continue`, the duplicate-line assert, and the final size assert. | operators |
| `Pipeline` | Omptr composed with the memory probe and the analyzer. Each step of the traced program makes the probe calls its prints trigger (`ProbeEnd`, `ProbeOnTask`, a start on `TaskwaitReturn`). `Analyze` runs parse_mem_stats on the probe's dump, then parse_dag on `Printed`, and either starts the DFS (when the block counts agree) or refuses. Then the DFS and the post-check run. Threads are named after tasks. A block's accesses (`PROBE_ACCESS`, a fixed pattern) are recorded in the step that ends it: they touch only that thread's entries. | composition |
| `Examples` | An example program run through `Pipeline`. `PROGRAM` maps a task body to its list of instrumented operations (`Task(b)`, `"wait"`, `"start"`, `"end"`, `"leave"`). `body` and `step` say which body a task runs and how far it has got. Each `ExTask*` action is the Pipeline step of one macro, taken only when it is the task's next operation. `SimpleV1` is `simple_v1_omptr.c`. | composition |
| `ScheduleBound` | `compute_WCRTs` for one cost configuration, as one step. `LongestPath` is the code's dynamic programme. `PathWeight` is the glossary's reference critical path. | state machine + operators |
| `ParRP` | `par_rp.cc` for one cache set. `InstantiateEntry` creates the set's entries and, at way 0, its two tables. One action per public method: `Invalidate`, `InvalidatePar`, `Touch`, `Reset`, `GetVictim`, `GetVictimPar`. `DestroyEntry` is an entry's destruction. The caller (the cache controller) is not in the repository, so any method may be called with any way and partition. A failed `assert` sets `pc` to `"assert"`. | state machine |
| `TDMBus` | The TDM request bus: `operateTDMRequestBus` with `operateMessageBufferOnce` (`SendOnce`). `Issue` is a request arriving (`storeEventInfo`), `Drain` the receiver, `Tick` a cycle. Time is kept as the phase within the slot plus whether `m_req_bus_next_free_cycle` lies ahead. | state machine |
| `OARespBus` | The oldest-age response bus: `operateOARespBus`. The search for the lowest request id (`LowestId`, `FoundPort`), the `delayHead` rotation (`Rotate`, recursive), and the send. Each input heap is a sequence of responses ordered by ready time. | state machine |
| `SharingClassifier` | `analyze_shared_access`, as one step (`AnalyzeSharedAccess`): `ClassifyFrom` (recursive) is the outer loop over u, `ClassifyVertex` one iteration of it. `ClassifyRecords` (recursive) is the inner loop over the vertex's records in line order: skip shared records, check the guess, scan, mark both on a scan hit, move the guess. `c_map` is the graph's reachability. | state machine + operators |
| `CostModel` | `populate_vertex_weight` as operators. `Wcl` is the latency table per core count. `RecordWcl` is one record's cost under the four configurations (`Configs`) by its ifetch/shared kind. `BlockWeights` adds a block's records to its execution cycles. | operators |
| `Analyzer` | The back half of `main`, composing the parts: `AnalyzeSharedAccess` (the classifier, via `INSTANCE SharingClassifier`), `PopulateVertexWeightStep` (the cost model on the classified `MemStats`, with the core count and the execution cycles), `ComputeWCRTs` (the longest path, volume and bound of `ScheduleBound`, per configuration, with the assert). `stage` is where main is. | composition |
| `TrafficGen` | `CustomTrafficGen` and its port, in cycles. Its events (`tickEv`, `noReqEv`, `noRespEv`) are countdowns, or `NoEv` when not scheduled. `tick` is split by its early returns into `TickIdle` (isolation), `TickWait` (a request outstanding: `waitResponse`) and `TickIssue` (the asserts, the new outstanding address, then a functional or atomic access through `CompleteRequest`, or `sendPkt`'s timing request, accepted or refused, then `TickTail`). `RecvTimingResp`, `RecvRetry`, `NoRequest`, `NoResponse` are the callbacks and watchdogs. `schedule`/`reschedule`/`deschedule` keep the event queue's asserts. The peer answers within `MaxLat` cycles or refuses and retries within `MaxRetry` cycles, at most `MaxRefusals` times, and may lose one response (`LoseResponse`). `AdvanceCycle` lets time pass once nothing is due. | state machine, fault model |
| `SwitchVnet` | A plain vnet: `operateVnet` (`StartInPort`, `VisitPorts`) and `operateMessageBuffer`, recursive over the input port. It covers the resource check on every route link (`Enough`) and the clone with its destination rewrite (`Enqueue`). `Wakeup` is one wakeup of the switch. Routes are any nonempty set of links. | state machine |

The MC modules (`MCPipeline`, `MCExamples`, `MCReachability`, `MCScheduleBound`, `MCParRP`,
`MCTDMBus`, `MCOARespBus`, `MCSwitchVnet`, `MCAnalyzer`, `MCTrafficGen`) give the constants their values.
`MCAnalyzer` builds the analyzer's inputs from `TaskStructures` (a composition with the parser).

The three switch modules are the three arbitration paths of `PerfectSwitch::wakeup`:

- vnet 0 of switch 0 runs the TDM bus;
- vnet 2 of switch 0 runs the OA bus;
- every other vnet runs `operateVnet`.

They share no buffer, so they are checked separately.

## 3. Runs

| Run | Config | Expect | What it shows |
|---|---|---|---|
| pipeline | `MCPipeline.cfg` | pass | See below. |
| example_simple_v1 | `MCExamples_simple_v1.cfg` | violation | The shipped `simple_v1` example is traced under every interleaving of its tasks and then analyzed, and parse_mem_stats refuses it every time. Line 56 calls `OMPTR_TASK_START` where `OMPTR_TASK_END` belongs. The last block (7) then gets accesses but no metadata entry: 8 block maps against 7 cycle counts (finding, simple_v1_omptr.c:56). The same program with `OMPTR_TASK_END` there passes every Pipeline invariant. |
| dfs_general | `MCReachability_general.cfg` | violation | On a structure parse_dag accepts (task 1 created by both blocks 0 and 1 of task 0), connected_components spins forever with stack ⟨0,3,1⟩ (finding, analyzer.cc:50). |
| wcrt_critical_path | `MCScheduleBound_wcrt.cfg` | violation | The reported WCRT can be below the weight of the root-to-exit chain, because the exit's weight is never counted. With chain [5,5,5] it reports 12; spec Scenario A expects 25 for [10,5,10] (finding, analyzer.cc:427). |

| parrp | `MCParRP.cfg` | pass | For 3 ways in partitions of quota 1 and 2, under every sequence of policy calls, the owner table agrees with the partition table, and an unowned victim exists whenever a partition has a free entry. |
| parrp_victim_shared | `MCParRP_victim.cfg` | violation | `getVictim(candidates, par_id)` can return a way that another partition also owns, because `touch` never looks at other partitions' ownership. The comment says "solely owned" (finding, par_rp.cc:271). |
| parrp_tables_freed | `MCParRP_free.cfg` | violation | Each entry wraps the set's raw table pointers in shared_ptrs of its own. Destroying two entries deletes the tables twice (finding, par_rp.cc:380). |
| tdm_bus | `MCTDMBus.cfg` | pass | 3 requesters and 2-cycle slots, with the output buffer large enough (gem5's default `buffer_size = 0` means unbounded). At most one grant per slot, however often the switch wakes. No requester waits past N-1 grants to others. Every request is granted. |
| oa_resp_bus | `MCOARespBus.cfg` | pass | 3 ports, duplicate request ids, latencies 0 and 1. The rotation always brings the chosen response to the front and sends it. Every response is sent. |
| analyzer | `MCAnalyzer.cfg` | pass | See below. |
| traffic_gen | `MCTrafficGen.cfg` | pass | One tester, id 0 or 1, isolated or not, atomic or timing, against a peer that answers late, refuses and retries, or loses a response. No assert fails, neither the tester's nor the event queue's. A running tester always has a tick scheduled, a retry owed to it, or a response in flight that it waits for. A watchdog panics only after a lost response. |
| switch_vnet | `MCSwitchVnet.cfg` | pass | 2 ports and 2 one-slot links, unicast and multicast. No output buffer overflows. Every message is forwarded. |

The pipeline run covers every program of up to 4 tasks and 9 blocks traced by omptr, under every interleaving of `omptr_task`'s captures, with the memory probe beside it (about 153 000 states, about 15 s). It shows:

- `end_bb_scope`'s asserts never fail, whatever the interleaving of the tasks' prints (`ProbeAssertsHold`);
- parse_mem_stats never asserts on a complete trace, and what it reads lines up with the tracer's blocks: one entry per printed block, with that block's cycles, exactly its lines, and its task's thread (`IngestMatchesTrace`);

- the DFS terminates on every trace the analyzer accepts;
- the DFS implements `ReachabilitySpec`;
- the post-check is exact;
- a trace is refused exactly when some created task is never in any `waitFor`, or when the program made no task or taskwait.

So the hang of `dfs_general` needs a structure that omptr never prints: a task that is created twice or awaited twice.

The analyzer run takes every graph parse_dag accepts for shapes ⟨3,1⟩ and ⟨3,1,1⟩ that passes the root/sink asserts (one per distinct out-edge order), every MemStats of two lines (none, data or fetch per block), two threads, 2, 4 or 8 cores, and two cycle profiles. It runs the classifier, the cost model and the bound in order (about 580 000 states, under a minute). It shows:

- every record the sharing rule holds for ends shared, whichever path (guess, scan, skip) found it, and a record ends shared only through the rule for it or for a parallel record of the same line;
- for every configuration, the bound lies between the critical path and the volume;
- the reported WCRTs are ordered PAR ≤ COLOR_PRIVATE_INST ≤ COLOR ≤ SHARE for every program, as the comparison the analyzer prints assumes.

### Bounds

- **pipeline.** `MAX_NUM_BB = 9`, `MAX_NUM_TASK = 4` and `MAX_TASK_CHILDREN = 2` are the library's own capacities, set small. They allow:
  - nested tasks (a child creating a grandchild);
  - a taskwait on two children;
  - tasks left unawaited;
  - all three abort paths: too many tasks, too many blocks, too many children.
  `PROBE_ACCESS` gives blocks one, two or no lines, and two blocks share a line. A mutant that charges any record to the wrong block, drops a block's metadata, or stores it as a line, is therefore seen.
- **dfs_general.** The shape ⟨3,1,1⟩ is the smallest shape whose inputs include a task reached from two blocks.
- **wcrt_critical_path.** Shapes ⟨3⟩, ⟨2,1⟩ and ⟨3,1⟩ contain Scenario A (the chain) and spawn/join diamonds whose join is or is not the exit.
- **Analyzer.** The classifier's inputs below, plus: core counts 2, 4 and 8 take all three rows of the latency table; hit counts [1,1,0,1] and [0,0,1,1] give every level a non-zero count on some line, so each term of `RecordWcl` matters; the cycle profile where only the exit block has a cycle makes the assert reachable.
- **TrafficGen.** `interval_cua` 1 and `interval` 2 make tester 0 and the others differ. `max_loads` 2 ends the run of tester 0 after two reads. Answers within 3 cycles and retries within 2 cycles, at most twice per packet, let a retry race a tick and responses arrive before or after the next tick. `progress_check` 10 is the smallest that never gives a false alarm under these peer bounds: with 9, TLC finds a working tester whose noRequest deadline passes during a chain of refusals.

- **ParRP.** 3 ways with quotas 1 and 2. That is the smallest set with two partitions where one partition can hold a way another owns, and a full partition exists next to a free one.
- **TDMBus.** N = 3 with slot width 2: there is a cycle within a slot that is not its start, and the owner wraps around. MaxReq = 2 makes a requester wait behind the others.
- **OARespBus.** N = 3 with ids {1, 2}. Equal ids in several ports exercise the strict comparison. Latency 1 puts not-ready responses behind the ready ones. It takes about 1.5 minutes.
- **SharingClassifier (in the analyzer run).** Shape ⟨3,1,1⟩ gives a block parallel to two others, so the guess can miss and the scan can hit (and update the guess). Two lines let the guess carry over from one address to the next. Two threads give same-thread and cross-thread pairs. Thread ids are model values under symmetry, because the code only compares them. The root and the exit have no records, because they are parallel to nothing. The analyzer run keeps one graph per out-edge order and class of reach relation, since the classifier reads only the reach relation.
- **SwitchVnet.** One-slot links make the resource check fail while a multicast is partly blocked.

### Fairness

The analyzer is one sequential thread. Once it has started, its loop keeps
running, so the analyzer's actions have weak fairness (`WF` on `Iterate` and on
`CheckConnection`). Nothing obliges the traced program to finish, or anyone to run
the analyzer, so Trace and Analyze steps have no fairness. A spin of the DFS is a
step that leaves the state unchanged. Under `WF`, that is why the hang shows up as
a violation of `Termination`. `ReachabilitySpec` asks fairness only of finalizing
rows, not of `Load`.

The switch models give weak fairness to the switch's actions (`OperateTDMRequestBus`,
`OperateOARespBus`, `Wakeup`), to the receiver (`Drain`) and to the clock (`Tick`).
This is justified as follows:

- an arrival wakes the switch (`storeEventInfo` is called from the buffer's enqueue);
- a blocked or reserved bus schedules its own wakeup with `scheduleEvent`;
- the receiving side is a consumer that gem5 keeps running.

`Tick` is enabled only when the bus is reserved or has nothing ready. A cycle in
which a free bus has a ready message therefore always operates the bus first,
because the event queue does wake the switch in that cycle. Requesters have no
fairness.

The traffic generator run checks only invariants and needs no fairness: what it claims is about each state the tester can reach, however the peer behaves.

`CHECK_DEADLOCK FALSE` appears in every configuration except `MCTDMBus.cfg`,
whose clock never stops. Each run ends in final
states where the program has stopped: the analyzer has returned or exited, or the
traced program has called `exit(-1)`, or the tester has exited at `max_loads` or panicked.

## 4. What is not modelled, and why

- **Abstractions in the modelled parts.**
  - JSON decoding and text formatting are abstracted to records.
  - `connected_components_slow` is unused by main.
  - The plain writes of an omptr call between two captures belong to the step before them. They touch only blocks the call owns, so no other task can tell the difference.
- **PerfectSwitch.** These parts are not modelled:
  - The wakeup's vnet-priority inversion (every 128 wakeups). The vnets share no buffer, so the order in which they are visited cannot change any buffer's state.
  - The constructor wiring (`addInPort`, `addOutPort`, `updatePriorityGroups`). One priority group is assumed, as the bus asserts require.
  - Message latencies beyond 0/1 cycles, and `PerfectSwitch.hh` (not in the repository; the initial bus owner is taken to be 0).
- **ParRP.** The inner replacement policy is a nondeterministic choice.
- **PerfectSwitch output buffers.** The runs give the buses room for every outstanding message, as the unbounded default does. With a finite `buffer_size`, neither bus checks for room before it grants. `operateMessageBufferOnce` then fails `assert(msg_sent)` (hazard at PerfectSwitch.cc:521). Under the runs' bounds the assert cannot fail, so no property is stated about it. The clone-per-link of a multicast (hazard at PerfectSwitch.cc:273) is not checked either: the model's copies are values, so nothing can alias.
- **Sharing classifier asymmetry.** A hit on the guess vertex marks only the current record. A hit in the scan marks the matched record too. The hazard at analyzer.cc:286 describes the case where this leaves a record private that the spec's rule would mark shared. No run checks it.
- **Set sequencer.** `SetSequencer.hh` has no caller in the repository, so its behaviour depends on a controller that is not here. Its hazards (duplicate request ids collapse in the `std::set`) are listed in `PROJECT.json`.
- **Isolation checker (`checker.cc`).** Not modelled. It compares the hit counts of a shared-LLC run with those of a partitioned run. Those counts come from gem5's cache hierarchy and coherence controllers, which are not in the repository. The specification leaves the checker out of scope. Its only control is a sanity check and a comparison per line. A model would need the counts as free inputs, and then restate its comparisons. Its hazard (the `remote_l1 == 0` assert, checker.cc:89) is listed without a property.
- **Example programs (partly).** `simple_v1` is modelled (`Examples`). `simple_v2` (3 tasks, with `NEW_CONTEXT`/`END_CONTEXT` only around the caller's own code) and mergesort of 2 elements (2 tasks) are programs the free pipeline run already covers. Larger mergesort inputs need more tasks than TLC can interleave freely.
- **Out-of-bounds writes in `omptr_task`.** `Omptr` records them in `oob`, and `Pipeline.NoOutOfBoundsWrite` states the requirement. With `MAX_TASK_CHILDREN = 2`, a pipeline run with `INVARIANT NoOutOfBoundsWrite` finds the write to `children[2]` in 363 states. The write comes just before `exit(-1)`, so no run of the project keeps it.
- **Memory probe (partly).** These parts are not modelled:
  - traffic-gen mode, where the block id is the thread id;
  - the raw-trace stream;
  - `getDataRegion`, the hit counters and `is_ifetch`, which only pass through to the analyzer;
  - the cycle measurement, replaced by a distinct value per block.

  The callers of `start_bb_scope`/`end_bb_scope` (the simulator hook that parses the `[OMPTR]` prints) are outside the repository. The pipeline assumes each print becomes one call on the printing thread. Accesses to line 0 are left out of `PROBE_ACCESS`: such an access merges with the block's metadata record (hazard at CustomMemProbe.cc:202). Ruby's addresses are physical, so a traced program can reach line 0. With `<<0, 0>>` in the pattern, TLC finds `IngestMatchesTrace` violated: the access becomes the metadata record and is lost. The run leaves it out so that its other properties can be checked.
- **Traffic generator.** The addresses and the reference-data check of reads are abstracted. The do-while loop makes every outstanding address distinct, so `outstandingAddrs` is kept as its size. Whether a read returns the value last written is a property of the memory system under test, not of the tester. That a lost response is eventually reported is not stated as a property. Either watchdog reports it, so no single change of the code can break it.
- **Trace ingestor.** Protobuf decoding is abstracted to records. The pipeline run models `parse_mem_stats`. The analyzer run starts from its result, the `MemStats` records and the execution cycles, with the hit counts those records carry.
- **Left out for good.** The reporter is pure output.

## 5. Plan (in order of importance)

1. **Done:** Pipeline (Omptr → parse_dag → DFS → post-check), the abstract reachability spec and its refinement, and ScheduleBound.
2. **Done:** SharingClassifier (soundness and completeness of the rule).
3. **Done (no hazard):** the root of every omptr trace is vertex 0, even under interleaved captures, so `longest_path.front()` reads the root's entry.
4. **Done:** Omptr with split atomic captures. A lost update of `BB_Counter` (the mutant `OmptrTaskOwnBBRacy`) puts two tasks in one block, and the probe's asserts catch it.
5. **Done:** ParRP, and PerfectSwitch (TDM, OA, plain vnets).
6. **Done:** the cost model, composed with the classifier and the bound (`Analyzer`), and the traffic generator.
7. **Done:** the memory probe and the trace ingestor, composed into the pipeline.
8. **Done:** the example program `simple_v1`, through the whole pipeline (a finding).
9. **Not planned:** checker.cc (see section 4).
