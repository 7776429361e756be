------------------------------ MODULE TrafficGen ------------------------------
(***************************************************************************)
(* CustomTrafficGen (src/cpu/testers/CustomTrafficGen/CustomTrafficGen.cc) *)
(* one tester and the port it drives, in cycles.                          *)
(*                                                                         *)
(* The tester is driven by three events of the gem5 event queue: tick,   *)
(* noRequest and noResponse, and by two callbacks of its port: a timing  *)
(* response (recvTimingResp) and a retry (recvReqRetry).  An event is    *)
(* kept as the cycles left until it fires, or NoEv when it is not         *)
(* scheduled.  Events due in the current cycle fire in any order, then   *)
(* time advances (AdvanceCycle).  The event queue's own asserts are part *)
(* of the model: schedule() of a scheduled event, reschedule() without   *)
(* always of an unscheduled one and deschedule() of an unscheduled one   *)
(* abort the simulation, as the tester's own asserts do.                 *)
(*                                                                         *)
(* The peer of the port (the cache the tester is attached to) accepts a  *)
(* timing request and answers it within 1..MaxLat cycles, or refuses it  *)
(* and sends a retry within 1..MaxRetry cycles, at most MaxRefusals times*)
(* for one packet.  As a fault, it may lose one accepted request (its  *)
(* response never comes), which is what the watchdogs are there to      *)
(* catch.  Addresses and data are abstracted: the do-while loop *)
(* makes every outstanding address distinct, so outstandingAddrs is kept *)
(* as its size, and the read check against referenceData is left to the *)
(* memory system under test.                                              *)
(***************************************************************************)
EXTENDS Integers, SequencesExt

CONSTANTS
    Interval,      \* interval (cycles between ticks)
    IntervalCua,   \* interval_cua, the interval of tester 0
    ProgressCheck, \* progress_check (cycles of the two watchdog events)
    MaxLoads,      \* max_loads (0: no limit)
    MaxLat,        \* the peer answers an accepted request within MaxLat cycles
    MaxRetry,      \* the peer sends a retry within MaxRetry cycles of a refusal
    MaxRefusals    \* the peer refuses one packet at most MaxRefusals times

NoEv == -1

VARIABLES
    conf,      \* [id, isolation, atomic]: constructor parameters, fixed
    gen,       \* the tester's state (a record, see GenState)
    inflight,  \* the accepted requests: cycles until the response, and is_read
    retryIn,   \* cycles until the peer's retry, or NoEv
    refusals,  \* refusals of the packet waiting for a retry
    lost       \* the peer has lost a response (fault history)

vars == <<conf, gen, inflight, retryIn, refusals, lost>>

Max2(a, b) == IF a >= b THEN a ELSE b

Statuses == {"running", "exited", "panic", "assert"}
Cmds == {"read", "write"}

\* tickEv, noReqEv, noRespEv: the three events; outstanding: the size of
\* outstandingAddrs; retryPkt: "none" or the command of the packet
\* waiting for a retry; numReads: kept up to MaxLoads, the only value it
\* is compared with (it is otherwise only printed).
GenState ==
    [tickEv : {NoEv} \cup 0 .. Max2(Interval, IntervalCua),
     noReqEv : {NoEv} \cup 0 .. ProgressCheck,
     noRespEv : {NoEv} \cup 0 .. ProgressCheck,
     outstanding : Nat,
     retryPkt : {"none"} \cup Cmds,
     waitResponse : BOOLEAN,
     numReads : 0 .. MaxLoads,
     status : Statuses]

\* The constructor: tester 0 (the core under analysis) takes interval_cua;
\* tick is scheduled now and noRequest progressCheck cycles ahead.
Init ==
    /\ conf \in [id : {0, 1}, isolation : BOOLEAN, atomic : BOOLEAN]
    /\ gen = [tickEv |-> 0, noReqEv |-> ProgressCheck, noRespEv |-> NoEv,
              outstanding |-> 0, retryPkt |-> "none", waitResponse |-> FALSE,
              numReads |-> 0, status |-> "running"]
    /\ inflight = << >>
    /\ retryIn = NoEv
    /\ refusals = 0
    /\ lost = FALSE

TickInterval == IF conf.id = 0 THEN IntervalCua ELSE Interval

Idle == conf.isolation /\ conf.id # 0

Abort(s) == [s EXCEPT !.status = IF @ = "running" THEN "assert" ELSE @]

\* EventQueue::schedule, reschedule and deschedule on event field ev of s.
Schedule(s, ev, d) == IF s[ev] # NoEv THEN Abort(s) ELSE [s EXCEPT ![ev] = d]
Reschedule(s, ev, d, always) ==
    IF ~always /\ s[ev] = NoEv THEN Abort(s) ELSE [s EXCEPT ![ev] = d]
Deschedule(s, ev) == IF s[ev] = NoEv THEN Abort(s) ELSE [s EXCEPT ![ev] = NoEv]

\* Mutant of CompleteRequest: the tick is scheduled whether or not tick
\* held it back (the waitResponse test dropped).
CompleteRequestAlwaysTick(s, cmd) ==
    LET s1 == [s EXCEPT !.outstanding = @ - 1]
        s2 == IF s1.outstanding = 0 /\ s1.noRespEv # NoEv THEN Deschedule(s1, "noRespEv") ELSE s1
    IN  Schedule([s2 EXCEPT !.waitResponse = FALSE], "tickEv", TickInterval)

\* Mutant of CompleteRequest: waitResponse is cleared without scheduling
\* the tick it held back.
CompleteRequestNoTick(s, cmd) ==
    LET s1 == [s EXCEPT !.outstanding = @ - 1]
        s2 == IF s1.outstanding = 0 /\ s1.noRespEv # NoEv THEN Deschedule(s1, "noRespEv") ELSE s1
    IN  [s2 EXCEPT !.waitResponse = FALSE]

\* completeRequest on s for a packet with command cmd: the address must be
\* outstanding and is erased; a read counts (and ends the simulation at
\* max_loads on tester 0); the response timeout is shifted or descheduled;
\* a tick held back by waitResponse is scheduled.
CompleteRequest(s, cmd) ==
    LET s1 == IF s.outstanding = 0 THEN Abort(s)
              ELSE [s EXCEPT !.outstanding = @ - 1]
        n  == IF cmd = "read" /\ s1.numReads < MaxLoads THEN s1.numReads + 1
              ELSE s1.numReads
        s2 == [s1 EXCEPT !.numReads = n,
                         !.status = IF @ = "running" /\ cmd = "read" /\ conf.id = 0
                                       /\ MaxLoads # 0 /\ n >= MaxLoads
                                    THEN "exited" ELSE @]
        s3 == IF s2.outstanding # 0 THEN Reschedule(s2, "noRespEv", ProgressCheck, FALSE)
              ELSE IF s2.noRespEv # NoEv THEN Deschedule(s2, "noRespEv")
              ELSE s2
    IN  IF s3.waitResponse
          THEN Schedule([s3 EXCEPT !.waitResponse = FALSE], "tickEv", TickInterval)
          ELSE s3

\* Mutant of TickTail: the request timeout is shifted from its own
\* deadline (noRequestEvent.when() + progressCheck), not from now.
TickTailFromDeadline(s, keepTicking) ==
    LET s1 == IF keepTicking
                THEN Reschedule(Schedule(s, "tickEv", TickInterval), "noReqEv",
                                s.noReqEv + ProgressCheck, TRUE)
                ELSE s
    IN  IF s1.noRespEv = NoEv /\ s1.outstanding # 0
          THEN Schedule(s1, "noRespEv", ProgressCheck) ELSE s1

\* The tail of tick: with keep_ticking the next tick is scheduled and the
\* request timeout shifted forward; the response timeout is scheduled
\* when a request is outstanding and it is not scheduled yet.
TickTail(s, keepTicking) ==
    LET s1 == IF keepTicking
                THEN Reschedule(Schedule(s, "tickEv", TickInterval), "noReqEv", ProgressCheck, TRUE)
                ELSE s
    IN  IF s1.noRespEv = NoEv /\ s1.outstanding # 0
          THEN Schedule(s1, "noRespEv", ProgressCheck) ELSE s1

\* The peer accepts a timing request (sendTimingReq returns true).
Accept(cmd) ==
    \E lat \in 1 .. MaxLat : inflight' = Append(inflight, [due |-> lat, cmd |-> cmd])

\* The peer refuses it (sendTimingReq returns false) and owes a retry.
Refuse ==
    /\ refusals < MaxRefusals
    /\ \E d \in 1 .. MaxRetry : retryIn' = d
    /\ refusals' = refusals + 1

\* tick on an isolated tester other than 0: nothing, not even a new tick.
TickIdle ==
    /\ gen.status = "running" /\ gen.tickEv = 0
    /\ Idle
    /\ gen' = [gen EXCEPT !.tickEv = NoEv]
    /\ UNCHANGED <<conf, inflight, retryIn, refusals, lost>>

\* tick with a request outstanding: the tick is held back until the
\* response (waitResponse).
TickWait ==
    /\ gen.status = "running" /\ gen.tickEv = 0
    /\ ~Idle
    /\ gen.outstanding >= 1
    /\ gen' = [gen EXCEPT !.tickEv = NoEv, !.waitResponse = TRUE]
    /\ UNCHANGED <<conf, inflight, retryIn, refusals, lost>>

\* tick issuing a request: the asserts on retryPkt and waitResponse, the
\* address made outstanding, then a functional access or sendPkt: in
\* atomic mode the access completes at once, in timing mode the peer
\* accepts it or refuses it (the packet is kept for the retry and no tick
\* is scheduled); then TickTail.
TickIssue ==
    /\ gen.status = "running" /\ gen.tickEv = 0
    /\ ~Idle
    /\ gen.outstanding = 0
    /\ \E cmd \in Cmds, functional \in BOOLEAN :
         LET s0 == [gen EXCEPT !.tickEv = NoEv]
             s1 == IF gen.retryPkt # "none" \/ gen.waitResponse THEN Abort(s0) ELSE s0
             s2 == [s1 EXCEPT !.outstanding = @ + 1]
         IN  \/ /\ functional \/ conf.atomic
                /\ gen' = TickTail(CompleteRequest(s2, cmd), TRUE)
                /\ UNCHANGED <<inflight, retryIn, refusals>>
             \/ /\ ~functional /\ ~conf.atomic
                /\ Accept(cmd)
                /\ gen' = TickTail(s2, TRUE)
                /\ UNCHANGED <<retryIn, refusals>>
             \/ /\ ~functional /\ ~conf.atomic
                /\ Refuse
                /\ gen' = TickTail([s2 EXCEPT !.retryPkt = cmd], FALSE)
                /\ UNCHANGED inflight
    /\ UNCHANGED <<conf, lost>>

\* recvTimingResp: a response that is due completes its request.
RecvTimingResp ==
    /\ gen.status = "running"
    /\ \E i \in DOMAIN inflight :
         /\ inflight[i].due = 0
         /\ gen' = CompleteRequest(gen, inflight[i].cmd)
         /\ inflight' = RemoveAt(inflight, i)
    /\ UNCHANGED <<conf, retryIn, refusals, lost>>

\* Mutant of RecvRetry: a successful retry does not shift the request
\* timeout forward.
RecvRetryNoShift ==
    /\ gen.status = "running" /\ retryIn = 0
    /\ \/ /\ Accept(gen.retryPkt)
          /\ gen' = Schedule([gen EXCEPT !.retryPkt = "none"], "tickEv", TickInterval)
          /\ retryIn' = NoEv
          /\ refusals' = 0
       \/ /\ Refuse
          /\ UNCHANGED <<gen, inflight>>
    /\ UNCHANGED <<conf, lost>>

\* recvReqRetry / recvRetry: the kept packet is sent again; when the peer
\* takes it, ticking resumes and the request timeout is shifted forward.
RecvRetry ==
    /\ gen.status = "running" /\ retryIn = 0
    /\ LET s0 == IF gen.retryPkt = "none" THEN Abort(gen) ELSE gen
       IN  \/ /\ Accept(gen.retryPkt)
              /\ gen' = Reschedule(Schedule([s0 EXCEPT !.retryPkt = "none"], "tickEv", TickInterval),
                                   "noReqEv", ProgressCheck, TRUE)
              /\ retryIn' = NoEv
              /\ refusals' = 0
           \/ /\ Refuse
              /\ gen' = s0
              /\ UNCHANGED inflight
    /\ UNCHANGED <<conf, lost>>

\* noRequest: a panic, except on an isolated tester other than 0.
NoRequest ==
    /\ gen.status = "running" /\ gen.noReqEv = 0
    /\ gen' = [gen EXCEPT !.noReqEv = NoEv, !.status = IF Idle THEN @ ELSE "panic"]
    /\ UNCHANGED <<conf, inflight, retryIn, refusals, lost>>

\* noResponse: a panic.
NoResponse ==
    /\ gen.status = "running" /\ gen.noRespEv = 0
    /\ gen' = [gen EXCEPT !.noRespEv = NoEv, !.status = "panic"]
    /\ UNCHANGED <<conf, inflight, retryIn, refusals, lost>>

Dec(x) == IF x = NoEv THEN NoEv ELSE x - 1

\* A cycle passes once nothing is due in the current one.
AdvanceCycle ==
    /\ gen.status = "running"
    /\ {gen.tickEv, gen.noReqEv, gen.noRespEv, retryIn} \cap {0} = {}
    /\ \A i \in DOMAIN inflight : inflight[i].due # 0
    /\ gen' = [gen EXCEPT !.tickEv = Dec(@), !.noReqEv = Dec(@), !.noRespEv = Dec(@)]
    /\ inflight' = [i \in DOMAIN inflight |-> [inflight[i] EXCEPT !.due = @ - 1]]
    /\ retryIn' = Dec(retryIn)
    /\ UNCHANGED <<conf, refusals, lost>>

\* The fault: the peer loses an accepted request; no response will come.
LoseResponse ==
    /\ gen.status = "running" /\ ~lost
    /\ \E i \in DOMAIN inflight : inflight' = RemoveAt(inflight, i)
    /\ lost' = TRUE
    /\ UNCHANGED <<conf, gen, retryIn, refusals>>

Next ==
    \/ TickIdle \/ TickWait \/ TickIssue
    \/ RecvTimingResp \/ RecvRetry
    \/ NoRequest \/ NoResponse
    \/ AdvanceCycle
    \/ LoseResponse

Spec == Init /\ [][Next]_vars

-----------------------------------------------------------------------------

TypeOK ==
    /\ conf \in [id : {0, 1}, isolation : BOOLEAN, atomic : BOOLEAN]
    /\ gen \in GenState
    /\ inflight \in Seq([due : 0 .. MaxLat, cmd : Cmds])
    /\ retryIn \in {NoEv} \cup 0 .. MaxRetry
    /\ refusals \in 0 .. MaxRefusals
    /\ lost \in BOOLEAN

\* None of the asserts fails: neither the tester's (tick's !retryPkt and
\* !waitResponse, completeRequest's outstanding address, recvRetry's
\* retryPkt) nor the event queue's on the schedule, reschedule and
\* deschedule calls of tick, completeRequest and recvRetry, however the
\* response, the retry and the next tick interleave.
NoAssertFails == gen.status # "assert"

\* The tester never stalls: while it runs (and is not an isolated tester
\* other than 0) its tick is scheduled, or its refused packet waits for a
\* retry the peer owes, or the tick is held back for a response that is
\* in flight; the waitResponse hand-off of tick and completeRequest never
\* leaves it waiting on nothing, as long as the peer loses nothing.
NeverStalls ==
    gen.status = "running" /\ ~Idle /\ ~lost =>
        \/ gen.tickEv # NoEv
        \/ gen.retryPkt # "none" /\ retryIn # NoEv
        \/ gen.waitResponse /\ inflight # << >>

\* No false alarm: a watchdog ("did not send a request", "did not see a
\* response") fires only after the peer lost a response, as long as the
\* peer otherwise answers within MaxLat cycles and retries within
\* MaxRetry cycles at most MaxRefusals times, for the progress_check of
\* the configuration: retries and held-back ticks never push a working
\* tester past a deadline.
NoFalseAlarm == gen.status = "panic" => lost
====
