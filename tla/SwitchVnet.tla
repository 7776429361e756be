----------------------------- MODULE SwitchVnet -----------------------------
(***************************************************************************)
(* One virtual network of a PerfectSwitch outside the snooping buses:     *)
(* wakeup -> operateVnet -> operateMessageBuffer for every input port.    *)
(*                                                                         *)
(* Input ports hold messages [src, seq, t, route]: t orders arrivals      *)
(* (the ready time), route is the set of output links the routing unit    *)
(* returns for it (more than one for a multicast).  Output link buffers   *)
(* hold Cap messages and are drained by their receivers.  All input       *)
(* buffers have the same routing priority, so they form one group.       *)
(***************************************************************************)
EXTENDS Integers, Sequences, FiniteSets, TLC

CONSTANTS
    N,        \* input ports
    Links,    \* output links
    Cap,      \* capacity of every output buffer of the vnet
    MaxMsg    \* messages each input port receives (bound of the model)

Ports == 0 .. N - 1

Routes == SUBSET Links \ {{}}

MsgId == [src : Ports, seq : 1 .. MaxMsg]

VARIABLES
    in,         \* in[p]: the messages waiting in input buffer p
    out,        \* out[l]: the message copies in output buffer l
    pending,    \* m_pending_message_count[vnet]
    clock,      \* arrival counter giving ready times
    received,   \* messages received by each input port
    delivered,  \* delivered[l]: ids ever enqueued on link l (history)
    route_of    \* the route of every message received so far (history)

vars == <<in, out, pending, clock, received, delivered, route_of>>

Init ==
    /\ in = [p \in Ports |-> << >>]
    /\ out = [l \in Links |-> << >>]
    /\ pending = 0
    /\ clock = 0
    /\ received = [p \in Ports |-> 0]
    /\ delivered = [l \in Links |-> {}]
    /\ route_of = [id \in {} |-> {}]

(* Mutant of StoreEventInfo: the arrival is counted twice. *)
StoreEventInfoTwice(c) == c + 2

(* Mutant of StoreEventInfo: the arrival is not counted. *)
StoreEventInfoNoCount(c) == c

(* storeEventInfo: the count of pending messages of the vnet. *)
StoreEventInfo(c) == c + 1

(* A message arrives on input port p; the buffer reports it to the       *)
(* switch (storeEventInfo) and schedules its wakeup.                     *)
Receive(p, route) ==
    /\ received[p] < MaxMsg
    /\ in' = [in EXCEPT ![p] = Append(@, [src |-> p, seq |-> received[p] + 1,
                                            t |-> clock, route |-> route])]
    /\ received' = [received EXCEPT ![p] = @ + 1]
    /\ clock' = clock + 1
    /\ pending' = StoreEventInfo(pending)
    /\ route_of' = route_of @@ ([src |-> p, seq |-> received[p] + 1] :> route)
    /\ UNCHANGED <<out, delivered>>

(* Mutant of Enough: only the first output link is checked. *)
EnoughFirstOnly(o, m) == Len(o[CHOOSE l \in m.route : \A k \in m.route : l <= k]) < Cap

(* The resource check: every output link of the route has a free slot. *)
Enough(o, m) == \A l \in m.route : Len(o[l]) < Cap

First(route) == CHOOSE l \in route : \A k \in route : l <= k

(* A copy of message m as enqueued on link l: its internal destination  *)
(* is set to the destinations that link is responsible for (here, l).   *)
Copy(m, l) == [src |-> m.src, seq |-> m.seq, dest |-> l]

(* The enqueue loop: a private copy of the message on every link of its  *)
(* route, each with its own destination.                                 *)
Enqueue(o, m) ==
    [l \in Links |-> IF l \in m.route THEN Append(o[l], Copy(m, l)) ELSE o[l]]

(* operateMessageBuffer(in[p]): while the head is ready, move it to all   *)
(* links of its route; when one of them is full, stop with this port     *)
(* (a wakeup is scheduled for the next cycle).                           *)
RECURSIVE OperateMessageBuffer(_, _)
OperateMessageBuffer(st, p) ==
    IF st.in[p] = << >> THEN st
    ELSE LET m == Head(st.in[p]) IN
         IF ~Enough(st.out, m) THEN st
         ELSE LET o == Enqueue(st.out, m) IN
              OperateMessageBuffer(
                [st EXCEPT !.in[p] = Tail(@),
                           !.pending = @ - 1,
                           !.out = o,
                           !.delivered = [l \in Links |-> IF Len(o[l]) > Len(st.out[l])
                                              THEN @[l] \cup {[src |-> m.src, seq |-> m.seq]}
                                              ELSE @[l]]],
                p)

(* readyTime of a buffer: its head's time, MaxTick when empty. *)
ReadyTime(p) == IF in[p] = << >> THEN clock ELSE Head(in[p]).t

(* The port with the oldest message (the first one on ties). *)
StartInPort ==
    CHOOSE s \in Ports : \A i \in Ports : ReadyTime(s) < ReadyTime(i) \/ (ReadyTime(s) = ReadyTime(i) /\ s <= i)

RECURSIVE VisitPorts(_, _, _)
VisitPorts(st, start, i) ==
    IF i = N THEN st ELSE VisitPorts(OperateMessageBuffer(st, (i + start) % N), start, i + 1)

(* wakeup with operateVnet for this vnet: nothing when no message is     *)
(* pending; otherwise every port, from the one with the oldest message.  *)
Wakeup ==
    /\ pending > 0
    /\ LET st == VisitPorts([in |-> in, out |-> out, pending |-> pending, delivered |-> delivered],
                            StartInPort, 0)
       IN  /\ in' = st.in
           /\ out' = st.out
           /\ pending' = st.pending
           /\ delivered' = st.delivered
    /\ UNCHANGED <<clock, received, route_of>>

(* The receiver of link l consumes its head. *)
Drain(l) ==
    /\ out[l] # << >>
    /\ out' = [out EXCEPT ![l] = Tail(@)]
    /\ UNCHANGED <<in, pending, clock, received, delivered, route_of>>

Next ==
    \/ \E p \in Ports, r \in Routes : Receive(p, r)
    \/ Wakeup
    \/ \E l \in Links : Drain(l)

(* A blocked switch schedules itself one cycle later and an arrival     *)
(* wakes it, so wakeups keep coming; receivers keep consuming.           *)
Spec == Init /\ [][Next]_vars /\ WF_vars(Wakeup) /\ \A l \in Links : WF_vars(Drain(l))

Received == DOMAIN route_of

TypeOK ==
    /\ \A p \in Ports : \A i \in DOMAIN in[p] : in[p][i].route \in Routes
    /\ out \in [Links -> Seq([src : Ports, seq : 1 .. MaxMsg, dest : Links])]
    /\ pending \in 0 .. N * MaxMsg
    /\ received \in [Ports -> 0 .. MaxMsg]
    /\ \A l \in Links : delivered[l] \subseteq MsgId
    /\ Received \subseteq MsgId

(* An output buffer of the vnet never holds more than it can: the        *)
(* resource check covers every link a multicast is routed to.            *)
OutputWithinCapacity == \A l \in Links : Len(out[l]) <= Cap

Forwarded(id) == id \in Received /\ \A l \in route_of[id] : id \in delivered[l]

(* Every message received is eventually enqueued on all its links. *)
EveryMessageForwarded ==
    \A id \in MsgId : id \in Received ~> Forwarded(id)
====
