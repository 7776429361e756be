------------------------------- MODULE TDMBus -------------------------------
(***************************************************************************)
(* The request bus of the snooping-bus build of PerfectSwitch (switch 0,  *)
(* vnet 0): operateTDMRequestBus with operateMessageBufferOnce.           *)
(*                                                                         *)
(* N requesters each enqueue requests into their own input buffer of the *)
(* vnet; all buffers form one priority group.  Time is one cycle within a *)
(* TDM slot of SlotWidth cycles (phase), plus whether the bus is reserved *)
(* until the next slot start (m_req_bus_next_free_cycle > current cycle): *)
(* the code only ever sets next_free to the start of the next slot, so    *)
(* that flag is all the code reads of it.  The output buffer of the vnet *)
(* holds OutCap messages and is drained by the receiver at its own pace.  *)
(* Message latency is abstracted: an enqueued request is ready.           *)
(***************************************************************************)
EXTENDS Integers, Sequences

CONSTANTS
    N,           \* number of input ports of the group (in.size())
    SlotWidth,   \* m_tdm_slot_width
    OutCap,      \* capacity of the vnet's output buffer
    MaxReq       \* requests each requester issues (bound of the model)

Ports == 0 .. N - 1

VARIABLES
    in,          \* in[p]: the requests waiting in input buffer p (their requestor)
    out,         \* the output buffer
    issued,      \* requests issued by each requester
    owner,       \* m_request_bus_owner
    phase,       \* current cycle mod m_tdm_slot_width
    reserved,    \* m_req_bus_next_free_cycle > current cycle
    pending,     \* m_pending_message_count[0]
    waited,      \* waited[p]: grants to other ports while p was waiting (history)
    slot_sends,  \* grants in the current slot (history)
    pc           \* "ok", or "assert" once an assert has failed

vars == <<in, out, issued, owner, phase, reserved, pending, waited, slot_sends, pc>>

Init ==
    /\ in = [p \in Ports |-> << >>]
    /\ out = << >>
    /\ issued = [p \in Ports |-> 0]
    /\ owner = 0
    /\ phase = 0
    /\ reserved = FALSE
    /\ pending = 0
    /\ waited = [p \in Ports |-> 0]
    /\ slot_sends = 0
    /\ pc = "ok"

(* A requester enqueues a request; MessageBuffer::enqueue reports it to   *)
(* the switch through storeEventInfo, which counts it pending.            *)
Issue(p) ==
    /\ pc = "ok"
    /\ issued[p] < MaxReq
    /\ in' = [in EXCEPT ![p] = Append(@, p)]
    /\ issued' = [issued EXCEPT ![p] = @ + 1]
    /\ pending' = pending + 1
    /\ UNCHANGED <<out, owner, phase, reserved, waited, slot_sends, pc>>

Ready(p) == in[p] # << >>

(* The search loop: the first port with a ready message, going round     *)
(* from the slot owner.                                                   *)
FirstReady(j) ==
    LET k == CHOOSE k \in 0 .. N - 1 : /\ Ready((j + k) % N)
                                       /\ \A i \in 0 .. k - 1 : ~Ready((j + i) % N)
    IN  (j + k) % N

(* isStartOfSlot *)
IsStartOfSlot == phase = 0

(* operateMessageBufferOnce(in[p]) when the output buffer has room: the  *)
(* head is dequeued and enqueued on the output buffer with its           *)
(* destination rewritten to its requestor.  Without room nothing is sent *)
(* and assert(msg_sent) fails.                                           *)
SendOnce(p) ==
    IF Len(out) < OutCap
      THEN /\ out' = Append(out, Head(in[p]))
           /\ in' = [in EXCEPT ![p] = Tail(@)]
           /\ pending' = pending - 1
           /\ waited' = [q \in Ports |-> IF q = p THEN 0
                                          ELSE IF Ready(q) THEN waited[q] + 1
                                          ELSE waited[q]]
           /\ slot_sends' = slot_sends + 1
           /\ UNCHANGED pc
      ELSE /\ pc' = "assert"
           /\ UNCHANGED <<out, in, pending, waited, slot_sends>>

(* Mutant of the owner update: the slot stays with the port just served. *)
OwnerAfterKeep(j) == j

(* Mutant of the owner update: the increment is not taken mod in.size(). *)
OwnerAfterNoWrap(j) == j + 1

(* The next slot owner after port j was served. *)
OwnerAfter(j) == (j + 1) % N

(* Mutant of ReservedAfterOperate: m_req_bus_next_free_cycle is set to  *)
(* the current cycle, so the bus is not reserved.                        *)
ReservedNotAfterNow == FALSE

(* m_req_bus_next_free_cycle = getNextSlotStartCycle(), which the assert *)
(* at line 418 checks is after the current cycle.                        *)
ReservedAfterOperate == TRUE

(* operateTDMRequestBus, one wakeup of the switch.  The early returns    *)
(* (bus reserved, no message ready) change nothing and are left out.     *)
(* At a slot start the first ready port from the owner sends one message *)
(* and the slot passes to the port after it; in every case the bus is    *)
(* reserved until the next slot start, where an event is scheduled.      *)
OperateTDMRequestBus ==
    /\ pc = "ok"
    /\ ~reserved
    /\ \E p \in Ports : Ready(p)
    /\ LET j == FirstReady(owner) IN
       IF IsStartOfSlot
         THEN /\ SendOnce(j)
              /\ owner' = IF pc' = "ok" THEN OwnerAfter(j) ELSE owner
         ELSE UNCHANGED <<in, out, pending, waited, slot_sends, owner, pc>>
    /\ reserved' = ReservedAfterOperate
    /\ UNCHANGED <<issued, phase>>

(* The receiver consumes the head of the output buffer. *)
Drain ==
    /\ pc = "ok"
    /\ out # << >>
    /\ out' = Tail(out)
    /\ UNCHANGED <<in, issued, owner, phase, reserved, pending, waited, slot_sends, pc>>

(* Mutant of Tick: reaching the next slot start does not free the bus. *)
TickNoRelease ==
    /\ pc = "ok"
    /\ reserved \/ ~\E p \in Ports : Ready(p)
    /\ phase' = (phase + 1) % SlotWidth
    /\ slot_sends' = IF phase' = 0 THEN 0 ELSE slot_sends
    /\ UNCHANGED <<in, out, issued, owner, reserved, pending, waited, pc>>

(* A cycle passes.  A free bus with a ready message is always operated in *)
(* the current cycle first: the message's arrival or the event scheduled *)
(* for the slot start wakes the switch.  At the next slot start the     *)
(* cycle reaches m_req_bus_next_free_cycle and the bus is free.          *)
Tick ==
    /\ pc = "ok"
    /\ reserved \/ ~\E p \in Ports : Ready(p)
    /\ phase' = (phase + 1) % SlotWidth
    /\ reserved' = (reserved /\ phase' # 0)
    /\ slot_sends' = IF phase' = 0 THEN 0 ELSE slot_sends
    /\ UNCHANGED <<in, out, issued, owner, pending, waited, pc>>

Next ==
    \/ \E p \in Ports : Issue(p)
    \/ OperateTDMRequestBus
    \/ Drain
    \/ Tick

(* The switch and the receiver keep running; requesters need not issue. *)
Spec == Init /\ [][Next]_vars /\ WF_vars(OperateTDMRequestBus) /\ WF_vars(Drain) /\ WF_vars(Tick)

Granted(p) == issued[p] - Len(in[p])

TypeOK ==
    /\ in \in [Ports -> Seq(Ports)]
    /\ out \in Seq(Ports)
    /\ Len(out) <= OutCap
    /\ issued \in [Ports -> 0 .. MaxReq]
    /\ owner \in Ports
    /\ phase \in 0 .. SlotWidth - 1
    /\ reserved \in BOOLEAN
    /\ pending \in 0 .. N * MaxReq
    /\ waited \in [Ports -> Nat]
    /\ slot_sends \in Nat
    /\ pc \in {"ok", "assert"}

(* TDM arbitration grants the request bus to at most one requester per  *)
(* slot, however many wakeups the switch gets within the slot.           *)
OneGrantPerSlot == slot_sends <= 1

(* Round-robin bounded waiting: while a requester has a request waiting, *)
(* each other requester is granted the bus at most once before it.        *)
BoundedWaiting == \A p \in Ports : waited[p] <= N - 1

(* Every request issued is eventually granted the bus. *)
EveryRequestGranted ==
    \A p \in Ports, k \in 1 .. MaxReq : issued[p] >= k ~> Granted(p) >= k
====
