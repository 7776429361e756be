------------------------------ MODULE OARespBus ------------------------------
(***************************************************************************)
(* The response bus of the snooping-bus build of PerfectSwitch (switch 0, *)
(* vnet 2): operateOARespBus with operateMessageBufferOnce.               *)
(*                                                                         *)
(* Each input buffer is a MessageBuffer whose m_prio_heap is ordered by   *)
(* ready time: a port is a sequence of responses [id |-> m_reqID, ready   *)
(* |-> whether its time has come], the ready ones first.  Responses     *)
(* arrive with a latency of 0 or 1 cycle; delayHead moves the head behind *)
(* everything, ready only in the next cycle.  The bus is reserved for RespSlotWidth cycles after a  *)
(* grant (m_resp_bus_next_free_cycle); resp_wait counts the cycles left.  *)
(***************************************************************************)
EXTENDS Integers, Sequences, FiniteSets

CONSTANTS
    N,              \* number of input ports of the group
    Ids,            \* request ids (Cycles) responses can carry
    RespSlotWidth,  \* m_resp_bus_slot_width
    OutCap,         \* capacity of the vnet's output buffer
    MaxResp         \* responses arriving at each port (bound of the model)

Ports == 0 .. N - 1

Msg == [id : Ids, ready : BOOLEAN]

VARIABLES
    in,         \* in[p]: m_prio_heap of input buffer p, in heap order
    out_len,    \* responses in the output buffer
    arrived,    \* responses that arrived at each port
    sent,       \* responses each port has sent (history)
    resp_wait,  \* m_resp_bus_next_free_cycle - current cycle, or 0 when free
    pc          \* "ok", or "assert" once an assert has failed

vars == <<in, out_len, arrived, sent, resp_wait, pc>>

Init ==
    /\ in = [p \in Ports |-> << >>]
    /\ out_len = 0
    /\ arrived = [p \in Ports |-> 0]
    /\ sent = [p \in Ports |-> 0]
    /\ resp_wait = 0
    /\ pc = "ok"

NumReady(q) == Cardinality({i \in DOMAIN q : q[i].ready})

(* A response for request id is enqueued on port p (MessageBuffer::     *)
(* enqueue) with a latency of 0 or 1 cycle.  Ready now, it is ordered    *)
(* after the ready responses; ready next cycle, after everything.        *)
Arrive(p, id, lat) ==
    /\ pc = "ok"
    /\ arrived[p] < MaxResp
    /\ LET k == NumReady(in[p])
       IN  in' = [in EXCEPT ![p] =
                    IF lat = 0
                      THEN SubSeq(@, 1, k) \o << [id |-> id, ready |-> TRUE] >>
                           \o SubSeq(@, k + 1, Len(@))
                      ELSE Append(@, [id |-> id, ready |-> FALSE])]
    /\ arrived' = [arrived EXCEPT ![p] = @ + 1]
    /\ UNCHANGED <<out_len, sent, resp_wait, pc>>

(* Mutant of Candidate: the scan ignores getLastEnqueueTime. *)
CandidateAny(m) == TRUE

(* A response the search considers: getLastEnqueueTime() <= current time. *)
Candidate(m) == m.ready

(* The ports the search loop visits. *)
SearchedPorts == 0 .. N - 1

(* The request ids of the candidates of the searched ports. *)
CandidateIds ==
    UNION {{in[p][i].id : i \in {j \in DOMAIN in[p] : Candidate(in[p][j])}} : p \in SearchedPorts}

(* lowest_ID: the smallest request id among the candidates. *)
LowestId == CHOOSE x \in CandidateIds : \A y \in CandidateIds : x <= y

(* found_port: the first port holding a candidate with lowest_ID (the     *)
(* comparison is strict, so later ports with the same id do not win).    *)
FoundPort(id) ==
    CHOOSE p \in SearchedPorts :
       /\ \E i \in DOMAIN in[p] : Candidate(in[p][i]) /\ in[p][i].id = id
       /\ \A p2 \in SearchedPorts :
             (p2 < p) => ~\E i \in DOMAIN in[p2] : Candidate(in[p2][i]) /\ in[p2][i].id = id

(* delayHead(current_time, 1): the head goes behind every response, with *)
(* a ready time in the next cycle.                                       *)
DelayHead(q) == Tail(q) \o << [Head(q) EXCEPT !.ready = FALSE] >>

(* The rotation loop: at most size + 1 looks at the front; delay the head *)
(* until its id is lowest_ID.  A head delayed must be ready (the assert   *)
(* before delayHead).  Returns the heap and whether it was found; both   *)
(* asserts failing end in found = FALSE.                                  *)
RECURSIVE Rotate(_, _, _)
Rotate(q, id, budget) ==
    IF budget < 0 THEN [heap |-> q, found |-> FALSE]
    ELSE IF Head(q).id = id THEN [heap |-> q, found |-> TRUE]
    ELSE IF ~Head(q).ready THEN [heap |-> q, found |-> FALSE]
    ELSE Rotate(DelayHead(q), id, budget - 1)

(* operateOARespBus, one wakeup: grant the bus to the oldest request's   *)
(* response.  The early returns (bus busy, no candidate) change nothing. *)
(* operateMessageBufferOnce then sends the head if it is ready and the   *)
(* output has room; otherwise assert(msg_sent) fails.                     *)
OperateOARespBus ==
    /\ pc = "ok"
    /\ resp_wait = 0
    /\ CandidateIds # {}
    /\ LET id == LowestId
           p  == FoundPort(id)
           r  == Rotate(in[p], id, Len(in[p]))
       IN  IF ~r.found \/ ~Head(r.heap).ready \/ out_len >= OutCap
             THEN pc' = "assert" /\ UNCHANGED <<in, out_len, sent, resp_wait>>
             ELSE /\ in' = [in EXCEPT ![p] = Tail(r.heap)]
                  /\ out_len' = out_len + 1
                  /\ sent' = [sent EXCEPT ![p] = @ + 1]
                  /\ resp_wait' = RespSlotWidth
                  /\ UNCHANGED pc
    /\ UNCHANGED arrived

(* The receiver consumes the head of the output buffer. *)
Drain ==
    /\ pc = "ok"
    /\ out_len > 0
    /\ out_len' = out_len - 1
    /\ UNCHANGED <<in, arrived, sent, resp_wait, pc>>

(* Mutant of Tick: the reservation of the response bus never runs down. *)
TickNoCountdown ==
    /\ pc = "ok"
    /\ resp_wait > 0 \/ CandidateIds = {}
    /\ in' = [p \in Ports |-> [i \in DOMAIN in[p] |-> [in[p][i] EXCEPT !.ready = TRUE]]]
    /\ UNCHANGED <<out_len, arrived, sent, resp_wait, pc>>

(* Mutant of Tick: the count-down has no floor at zero. *)
TickNoFloor ==
    /\ pc = "ok"
    /\ resp_wait > 0 \/ CandidateIds = {}
    /\ in' = [p \in Ports |-> [i \in DOMAIN in[p] |-> [in[p][i] EXCEPT !.ready = TRUE]]]
    /\ resp_wait' = resp_wait - 1
    /\ UNCHANGED <<out_len, arrived, sent, pc>>

(* A cycle passes.  A free bus with a candidate is always operated in    *)
(* the current cycle first (an arrival or the scheduled event wakes the  *)
(* switch).  Delayed responses become ready; the reservation runs down.  *)
Tick ==
    /\ pc = "ok"
    /\ resp_wait > 0 \/ CandidateIds = {}
    /\ in' = [p \in Ports |-> [i \in DOMAIN in[p] |-> [in[p][i] EXCEPT !.ready = TRUE]]]
    /\ resp_wait' = IF resp_wait > 0 THEN resp_wait - 1 ELSE 0
    /\ UNCHANGED <<out_len, arrived, sent, pc>>

Next ==
    \/ \E p \in Ports, id \in Ids, lat \in {0, 1} : Arrive(p, id, lat)
    \/ OperateOARespBus
    \/ Drain
    \/ Tick

(* The switch and the receiver keep running; responses need not arrive. *)
Spec == Init /\ [][Next]_vars /\ WF_vars(OperateOARespBus) /\ WF_vars(Drain) /\ WF_vars(Tick)

TypeOK ==
    /\ in \in [Ports -> Seq(Msg)]
    /\ \A p \in Ports : Len(in[p]) <= MaxResp
    /\ out_len \in 0 .. OutCap
    /\ arrived \in [Ports -> 0 .. MaxResp]
    /\ sent \in [Ports -> 0 .. MaxResp]
    /\ resp_wait \in 0 .. RespSlotWidth
    /\ pc \in {"ok", "assert"}

(* The rotation always brings the chosen response to the head of its     *)
(* heap and it is sent: assert(found) and assert(msg_sent) never fail.   *)
OARotationSends == pc = "ok"

(* Every response that arrives is eventually granted the bus. *)
EveryResponseSent ==
    \A p \in Ports, k \in 1 .. MaxResp : arrived[p] >= k ~> sent[p] >= k
====
