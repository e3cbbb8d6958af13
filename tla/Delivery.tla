------------------------------ MODULE Delivery ------------------------------
(***************************************************************************)
(* Acknowledged delivery of the events of one run, end to end: the agent's *)
(* delivery log, queue and write loop (agent_delivery.go, agent_client.go),*)
(* the WebSocket connections between agent and coordinator, and the        *)
(* coordinator's DeliveryTracker with the persistence it waits for         *)
(* (delivery.ts, WebSocketHandler.ts).                                     *)
(*                                                                         *)
(* Runs do not share delivery state, so one run is modelled; it may be     *)
(* executed several times, each execution under an exec id of its own.     *)
(***************************************************************************)
EXTENDS Integers, Sequences, FiniteSets

CONSTANTS
  MaxSeq,      \* bound: events stamped in one execution
  MaxExecs,    \* bound: job dispatches of the run
  MaxConns,    \* bound: connections the agent sets up
  MaxFaults,   \* bound: faults drawn from Faults
  Faults,      \* the faults that may happen, a subset of FaultKinds
  Kinds,       \* the event kinds the agent emits, a subset of AllKinds
  AckEvery,    \* ACK_EVERY
  MaxUnacked,  \* maxUnackedPerRun
  LateWriter   \* whether a failing write may outlast the reconnect backoff

FaultKinds == {"coordRestart", "putFails", "persistFails", "agentRestart", "refuseClaim",
               "tooLarge"}
AllKinds == {"data", "log", "end"}

ASSUME DeliveryAssumption ==
  /\ MaxSeq \in Nat \ {0} /\ MaxExecs \in Nat \ {0} /\ MaxConns \in Nat \ {0}
  /\ MaxFaults \in Nat /\ Faults \subseteq FaultKinds
  /\ Kinds \subseteq AllKinds
  /\ AckEvery \in Nat \ {0} /\ MaxUnacked \in Nat \ {0}
  /\ LateWriter \in BOOLEAN

Execs == 1..MaxExecs
Conns == 1..MaxConns
Event == [exec: Execs, seq: 1..MaxSeq, kind: AllKinds]
NoEvent == [exec |-> 0, seq |-> 0, kind |-> "log"]
Mark == [exec: 0..MaxExecs, seq: 0..MaxSeq]
NoMark == [exec |-> 0, seq |-> 0]
MarkOf(e) == [exec |-> e.exec, seq |-> e.seq]
AckRequest_Next(mark) == [exec |-> mark.exec, seq |-> mark.seq + 1, kind |-> "ask"]
AckRequest(mark) == [exec |-> mark.exec, seq |-> mark.seq, kind |-> "ask"]

VARIABLES
  \* The agent.
  running,   \* the run is in activeRunners
  log,       \* the run's runLog; exec = 0 when the log has no entry
  queue,     \* outbox and outChan: stamped events not yet taken by a write loop
  carry,     \* messages of failed writes, for the next connection
  failing,   \* messages held by the write loops of connections that are gone
  conn,      \* number of the latest connection
  open,      \* the agent has not given up on it
  writer,    \* its write loop
  \* The connections.
  link,      \* [Conns -> BOOLEAN]: bytes still get through
  up, down,  \* [Conns -> Seq]: what the other side has still to read
  \* The coordinator: volatile state.
  jobs,      \* [Conns -> ...]: where the socket's attachment lists the run
  marks,     \* DeliveryTracker.marks
  sinceAck,  \* DeliveryTracker.sinceAck
  dupAcked,  \* connections in duplicateAcked
  persisting,\* accepted events whose persistence has not settled
  acks,      \* acknowledge() calls waiting for persisting
  \* Durable state.
  stored,    \* delivered_seq
  durable,   \* events handed to the findings queue or written to D1
  finished,  \* finished_runs lists the run
  \* Counters and history.
  execs,      \* executions started; the next exec id is execs + 1
  dispatches, faults,
  emitted,   \* every event stamped
  excused,   \* events the design gives up on: too large, trimmed, failed on both paths,
             \* or sent after the run's terminal event
  refused,   \* events dropped because the connection does not own the run
  processed, \* events accepted as new
  again      \* events accepted as new a second time

agentVars == <<running, log, queue, carry, failing, conn, open, writer>>
wireVars == <<link, up, down>>
memoryVars == <<jobs, marks, sinceAck, dupAcked, persisting, acks>>
durableVars == <<stored, durable, finished>>
historyVars == <<emitted, excused, refused, processed, again>>
counters == <<execs, dispatches, faults>>
vars == <<agentVars, wireVars, memoryVars, durableVars, counters, historyVars>>

NoLog == [exec |-> 0, next |-> 0, written |-> 0, acked |-> 0, unacked |-> {}]
IdleWriter == [todo |-> {}, cur |-> NoEvent, sent |-> NoMark, quiet |-> FALSE]

Max2(a, b) == IF a >= b THEN a ELSE b
Min2(a, b) == IF a <= b THEN a ELSE b

----------------------------------------------------------------------------
(* The agent's delivery log.                                               *)

\* Beyond MaxUnacked only the newest half is kept.
Trim(u) ==
  IF Cardinality(u) > MaxUnacked
  THEN {e \in u : Cardinality({f \in u : f.seq >= e.seq}) <= MaxUnacked \div 2}
  ELSE u

\* written: e left the queue, sent or given up on. Once sent it is kept until it is acknowledged.
written(l, e, sent) ==
  IF l.exec # e.exec THEN l
  ELSE [l EXCEPT !.written = Max2(@, e.seq),
                 !.unacked = IF sent /\ e.seq > l.acked THEN Trim(@ \cup {e}) ELSE @]

\* The events that keeping e pushes out of the log.
Trimmed(l, e) ==
  IF l.exec # e.exec \/ e.seq <= l.acked THEN {}
  ELSE (l.unacked \cup {e}) \ Trim(l.unacked \cup {e})

kept_SameExec(l, e) == l.exec = e.exec

kept(l, e) == l.exec = e.exec /\ (e.seq <= l.acked \/ e \in l.unacked)

ack_AnyExec(l, m) ==
  [l EXCEPT !.acked = Max2(@, m.seq), !.unacked = {e \in @ : e.seq > m.seq}]

ack_Latest(l, m) ==
  IF l.exec # m.exec THEN l
  ELSE [l EXCEPT !.acked = m.seq, !.unacked = {e \in @ : e.seq > m.seq}]

ack(l, m) ==
  IF l.exec # m.exec THEN l
  ELSE [l EXCEPT !.acked = Max2(@, m.seq), !.unacked = {e \in @ : e.seq > m.seq}]

\* The run is named in ?resume= when the next connection is dialled.
Claimed == running \/ log.unacked # {} \/ log.written < log.next

----------------------------------------------------------------------------
Init ==
  /\ running = FALSE /\ log = NoLog /\ queue = <<>> /\ carry = <<>> /\ failing = {}
  /\ conn = 0 /\ open = FALSE /\ writer = IdleWriter
  /\ link = [c \in Conns |-> FALSE]
  /\ up = [c \in Conns |-> <<>>] /\ down = [c \in Conns |-> <<>>]
  /\ jobs = [c \in Conns |-> "closed"]
  /\ marks = NoMark /\ sinceAck = 0 /\ dupAcked = {} /\ persisting = {} /\ acks = {}
  /\ stored = NoMark /\ durable = {} /\ finished = FALSE
  /\ execs = 0 /\ dispatches = 0 /\ faults = 0
  /\ emitted = {} /\ excused = {} /\ refused = {} /\ processed = {} /\ again = {}

Fault(kind) ==
  /\ kind \in Faults
  /\ faults < MaxFaults
  /\ faults' = faults + 1

----------------------------------------------------------------------------
(* The agent.                                                              *)

\* queueEvent: number the event and queue it, in one step (sendMu). Events of an execution go on
\* being forwarded after its runner has left activeRunners.
Emit(kind) ==
  LET e == [exec |-> log.exec, seq |-> log.next + 1, kind |-> kind]
  IN /\ log.exec # 0
     /\ log.next < MaxSeq
     /\ log' = [log EXCEPT !.next = @ + 1]
     /\ queue' = Append(queue, e)
     /\ emitted' = emitted \cup {e}
     /\ UNCHANGED <<running, carry, failing, conn, open, writer, wireVars, memoryVars, durableVars,
                    counters, excused, refused, processed, again>>

\* The run's goroutine ends: it no longer executes here.
RunnerExits ==
  /\ running
  /\ running' = FALSE
  /\ UNCHANGED <<log, queue, carry, failing, conn, open, writer, wireVars, memoryVars, durableVars,
                 counters, historyVars>>

\* What the next connection sends first.
replay_Empty == {}
replay == log.unacked

\* The upgrade request, and what the coordinator does with the claim in it (resumeRuns): a finished
\* run is accepted for its late log lines, any other run moves here from its previous socket, unless
\* the claim is refused (D1 cannot tell its status, or the connection is full).
Connect ==
  LET c == conn + 1
      handOver == IF ~Claimed THEN "none" ELSE IF finished THEN "recent" ELSE "active"
  IN /\ ~open /\ conn < MaxConns
     /\ LateWriter \/ failing = {}
     /\ conn' = c /\ open' = TRUE
     /\ link' = [link EXCEPT ![c] = TRUE]
     /\ writer' = [IdleWriter EXCEPT !.todo = replay]
     /\ \/ /\ jobs' = [d \in Conns |-> IF d = c THEN handOver
                                       ELSE IF handOver = "active" /\ jobs[d] = "active" THEN "none"
                                       ELSE jobs[d]]
           /\ UNCHANGED faults
        \/ /\ handOver = "active"
           /\ Fault("refuseClaim")
           /\ jobs' = [jobs EXCEPT ![c] = "none"]
     /\ UNCHANGED <<running, log, queue, carry, failing, up, down, marks, sinceAck, dupAcked,
                    persisting, acks, durableVars, execs, dispatches, historyVars>>

\* The message the write loop takes next: the replay first, then the messages carried over from a
\* failed connection, then the queue.
NextOut(e) ==
  \/ /\ e \in writer.todo
     /\ \A f \in writer.todo : e.seq <= f.seq
     /\ writer' = [writer EXCEPT !.todo = @ \ {e}, !.cur = e]
     /\ UNCHANGED <<carry, queue>>
  \/ /\ writer.todo = {} /\ carry # <<>>
     /\ e = Head(carry)
     /\ carry' = Tail(carry)
     /\ writer' = [writer EXCEPT !.cur = e]
     /\ UNCHANGED queue
  \/ /\ writer.todo = {} /\ carry = <<>> /\ queue # <<>>
     /\ e = Head(queue)
     /\ queue' = Tail(queue)
     /\ writer' = [writer EXCEPT !.cur = e]
     /\ UNCHANGED carry

OutCandidates ==
  writer.todo \cup (IF carry # <<>> THEN {Head(carry)} ELSE {})
              \cup (IF queue # <<>> THEN {Head(queue)} ELSE {})

\* A write that succeeds: the bytes reached the kernel, and the coordinator only if the connection
\* is not half-open.
Write ==
  /\ open /\ writer.cur = NoEvent
  /\ \E e \in OutCandidates :
       /\ NextOut(e)
       /\ up' = IF link[conn] THEN [up EXCEPT ![conn] = Append(@, e)] ELSE up
  /\ UNCHANGED <<running, log, failing, conn, open, link, down, memoryVars, durableVars,
                 counters, historyVars>>

\* send() after the write: the event enters the log only now.
RecordWritten ==
  /\ writer.cur # NoEvent
  /\ LET e == writer.cur
         mark == IF writer.sent.exec = e.exec /\ e.seq <= writer.sent.seq THEN writer.sent
                 ELSE MarkOf(e)
     IN /\ log' = written(log, e, TRUE)
        /\ excused' = excused \cup Trimmed(log, e)
        /\ writer' = [writer EXCEPT !.cur = NoEvent, !.sent = mark, !.quiet = TRUE]
  /\ UNCHANGED <<running, queue, carry, failing, conn, open, wireVars, memoryVars, durableVars,
                 counters, emitted, refused, processed, again>>

\* A message over 1 MB is given up on; only a message never sent before can turn out too large.
GiveUp ==
  /\ open /\ writer.cur = NoEvent /\ writer.todo = {} /\ carry = <<>> /\ queue # <<>>
  /\ Fault("tooLarge")
  /\ log' = written(log, Head(queue), FALSE)
  /\ excused' = excused \cup {Head(queue)}
  /\ queue' = Tail(queue)
  /\ UNCHANGED <<running, carry, failing, conn, open, writer, wireVars, memoryVars, durableVars,
                 execs, dispatches, emitted, refused, processed, again>>

\* requestAcks: the run has been quiet for ackRequestDelay.
RequestAck ==
  /\ open /\ writer.cur = NoEvent /\ writer.todo = {} /\ writer.quiet
  /\ writer' = [writer EXCEPT !.quiet = FALSE]
  /\ up' = IF link[conn] /\ log.exec = writer.sent.exec
              /\ \E e \in log.unacked : e.seq <= writer.sent.seq
           THEN [up EXCEPT ![conn] = Append(@, AckRequest(writer.sent))]
           ELSE up
  /\ UNCHANGED <<running, log, queue, carry, failing, conn, open, link, down, memoryVars,
                 durableVars, counters, historyVars>>

\* The agent notices that the connection is gone (a read or write error, or no pong): the message
\* its write loop was on, if any, stays with that loop until its write returns.
AgentCloses ==
  /\ open /\ ~link[conn]
  /\ open' = FALSE
  /\ down' = [down EXCEPT ![conn] = <<>>]
  /\ \/ /\ failing' = IF writer.cur = NoEvent THEN failing
                      ELSE failing \cup {[msg |-> writer.cur, sent |-> TRUE]}
        /\ writer' = IdleWriter
        /\ UNCHANGED <<carry, queue>>
     \/ /\ writer.cur = NoEvent
        /\ \E e \in OutCandidates :
             /\ \/ /\ e \in writer.todo
                   /\ \A f \in writer.todo : e.seq <= f.seq
                   /\ UNCHANGED <<carry, queue>>
                \/ /\ writer.todo = {} /\ carry # <<>> /\ e = Head(carry)
                   /\ carry' = Tail(carry) /\ UNCHANGED queue
                \/ /\ writer.todo = {} /\ carry = <<>> /\ queue # <<>> /\ e = Head(queue)
                   /\ queue' = Tail(queue) /\ UNCHANGED carry
             /\ failing' = failing \cup {[msg |-> e, sent |-> FALSE]}
        /\ writer' = IdleWriter
  /\ UNCHANGED <<running, log, conn, link, up, memoryVars, durableVars, counters,
                 historyVars>>

\* The write of a closed connection's loop returns: recorded if it had succeeded, otherwise carried
\* over unless the log replays it anyway.
OldWriteReturns ==
  \E f \in failing :
    /\ failing' = failing \ {f}
    /\ IF f.sent
       THEN /\ log' = written(log, f.msg, TRUE)
            /\ excused' = excused \cup Trimmed(log, f.msg)
            /\ UNCHANGED carry
       ELSE /\ carry' = IF kept(log, f.msg) THEN carry ELSE Append(carry, f.msg)
            /\ UNCHANGED <<log, excused>>
    /\ UNCHANGED <<running, queue, conn, open, writer, wireVars, memoryVars, durableVars,
                   counters, emitted, refused, processed, again>>

\* The read loop: an ack, or a job dispatch, ignored while the run still executes here and otherwise
\* a new execution, numbered from 1 (reset).
AgentReceives ==
  /\ open /\ down[conn] # <<>>
  /\ down' = [down EXCEPT ![conn] = Tail(@)]
  /\ LET m == Head(down[conn])
     IN \/ /\ m.type = "ack"
           /\ log' = ack(log, m)
           /\ UNCHANGED <<running, execs>>
        \/ /\ m.type = "dispatch"
           /\ running' = TRUE
           /\ IF running THEN UNCHANGED <<log, execs>>
              ELSE /\ execs < MaxExecs
                   /\ log' = [NoLog EXCEPT !.exec = execs + 1] /\ execs' = execs + 1
  /\ UNCHANGED <<queue, carry, failing, conn, open, writer, link, up, memoryVars, durableVars,
                 dispatches, faults, historyVars>>

\* Nothing is on its way any more, so the log of a finished execution only ages (idleRunLogTTL).
Quiescent ==
  /\ open /\ link[conn] /\ writer = [IdleWriter EXCEPT !.sent = writer.sent]
  /\ queue = <<>> /\ carry = <<>> /\ failing = {} /\ up[conn] = <<>> /\ down[conn] = <<>>
  /\ persisting = {} /\ acks = {}

gc ==
  /\ log.exec # 0 /\ ~running /\ log.written >= log.next
  /\ Quiescent
  /\ log' = NoLog
  /\ UNCHANGED <<running, queue, carry, failing, conn, open, writer, wireVars, memoryVars,
                 durableVars, counters, historyVars>>

\* The agent process is replaced: everything it held is gone.
AgentRestarts ==
  /\ conn \in 1..(MaxConns - 1)
  /\ Fault("agentRestart")
  /\ running' = FALSE /\ log' = NoLog /\ queue' = <<>> /\ carry' = <<>> /\ failing' = {}
  /\ open' = FALSE /\ writer' = IdleWriter
  /\ link' = [link EXCEPT ![conn] = FALSE]
  /\ down' = [down EXCEPT ![conn] = <<>>]
  /\ UNCHANGED <<conn, up, memoryVars, durableVars, execs, dispatches, historyVars>>

----------------------------------------------------------------------------
(* The connections.                                                        *)

\* The connection dies without either side noticing. What was written before still arrives.
Break ==
  /\ conn \in 1..(MaxConns - 1) /\ link[conn]
  /\ link' = [link EXCEPT ![conn] = FALSE]
  /\ UNCHANGED <<agentVars, up, down, memoryVars, durableVars, counters, historyVars>>

\* The coordinator notices (a close event, or pruneDeadRunners).
CoordinatorCloses(c) ==
  /\ jobs[c] # "closed" /\ ~link[c]
  /\ jobs' = [jobs EXCEPT ![c] = "closed"]
  /\ up' = [up EXCEPT ![c] = <<>>]
  /\ UNCHANGED <<agentVars, link, down, marks, sinceAck, dupAcked, persisting, acks, durableVars,
                 counters, historyVars>>

----------------------------------------------------------------------------
(* The coordinator.                                                        *)

Sent(c, m) == [down EXCEPT ![c] = IF link[c] THEN Append(@, m) ELSE @]

\* dispatchPass: a run no socket holds, and that has not finished, is dispatched.
Dispatch(c) ==
  /\ ~finished /\ dispatches < MaxExecs
  /\ jobs[c] # "closed"
  /\ \A d \in Conns : jobs[d] # "active"
  /\ dispatches' = dispatches + 1
  /\ jobs' = [jobs EXCEPT ![c] = "active"]
  /\ down' = Sent(c, [type |-> "dispatch", exec |-> 0, seq |-> 0])
  /\ UNCHANGED <<agentVars, link, up, marks, sinceAck, dupAcked, persisting, acks, durableVars,
                 execs, faults, historyVars>>

\* The run's latest processed event, from memory or from storage.
last_MemoryOnly == marks
last == IF marks # NoMark THEN marks ELSE stored

\* acknowledge(): the ack goes out once everything processed so far is persisted. covers is what is
\* still being persisted at the call, newest the latest mark at the call.
Acknowledgement(c, m, covers, newest) ==
  [conn |-> c, mark |-> m, covers |-> covers, newest |-> newest]

Arriving(c) == IF up[c] = <<>> \/ jobs[c] = "closed" THEN {} ELSE {Head(up[c])}
Consume(c) == up' = [up EXCEPT ![c] = Tail(@)]

IsEvent(m) == m.kind # "ask"

\* An event of a run this connection does not own, or of a run that ended (its log lines excepted),
\* is dropped before it is classified.
Refuse(c) ==
  \E m \in Arriving(c) :
    /\ Consume(c) /\ IsEvent(m)
    /\ \/ /\ jobs[c] = "none"
          /\ refused' = refused \cup {m}
          /\ UNCHANGED excused
       \/ /\ jobs[c] = "recent" /\ m.kind # "log"
          /\ excused' = excused \cup {m}
          /\ UNCHANGED refused
    /\ UNCHANGED <<agentVars, link, down, memoryVars, durableVars, counters, emitted,
                   processed, again>>

Owned(c, m) == jobs[c] = "active" \/ (jobs[c] = "recent" /\ m.kind = "log")

\* accept: a seq of the same execution the coordinator is already past.
IsDuplicate(m) == last.exec = m.exec /\ m.seq <= last.seq

\* duplicate(): acknowledged once per connection.
DropDuplicate(c) ==
  \E m \in Arriving(c) :
    /\ Consume(c) /\ IsEvent(m) /\ Owned(c, m) /\ IsDuplicate(m)
    /\ IF c \in dupAcked THEN UNCHANGED <<dupAcked, sinceAck, acks>>
       ELSE /\ dupAcked' = dupAcked \cup {c}
            /\ sinceAck' = 0
            /\ acks' = acks \cup {Acknowledgement(c, last, persisting, marks)}
    /\ UNCHANGED <<agentVars, link, down, jobs, marks, persisting, durableVars, counters,
                   historyVars>>

\* A new event: marked, its persistence started, counted towards the next ack, and, if it is
\* terminal, the run leaves activeJobs for recentJobs and enters finished_runs.
Accept(c) ==
  \E m \in Arriving(c) :
    /\ Consume(c) /\ IsEvent(m) /\ Owned(c, m) /\ ~IsDuplicate(m)
    /\ marks' = MarkOf(m)
    /\ persisting' = persisting \cup {m}
    /\ IF sinceAck + 1 < AckEvery /\ m.kind # "end"
       THEN sinceAck' = sinceAck + 1 /\ UNCHANGED acks
       ELSE /\ sinceAck' = 0
            /\ acks' = acks \cup {Acknowledgement(c, MarkOf(m), persisting', marks')}
    /\ IF m.kind = "end"
       THEN jobs' = [jobs EXCEPT ![c] = "recent"] /\ finished' = TRUE
       ELSE UNCHANGED <<jobs, finished>>
    /\ processed' = processed \cup {m}
    /\ again' = IF m \in processed THEN again \cup {m} ELSE again
    /\ UNCHANGED <<agentVars, link, down, dupAcked, stored, durable, counters, emitted,
                   excused, refused>>

\* The socket may ask about a run it executes, or executed.
MayAsk_ActiveOnly(c) == jobs[c] = "active"
MayAsk(c) == jobs[c] \in {"active", "recent"}

\* requested(): only what was processed is acknowledged, and only to a connection that owns the run.
HandleAckRequest(c) ==
  \E m \in Arriving(c) :
    /\ Consume(c) /\ ~IsEvent(m)
    /\ IF MayAsk(c) /\ last # NoMark /\ last.exec = m.exec
       THEN /\ sinceAck' = 0
            /\ acks' = acks \cup {Acknowledgement(c, [last EXCEPT !.seq = Min2(@, m.seq)],
                                                  persisting, marks)}
       ELSE UNCHANGED <<sinceAck, acks>>
    /\ UNCHANGED <<agentVars, link, down, jobs, marks, dupAcked, persisting, durableVars,
                   counters, historyVars>>

\* The persistence of one event settles: handed to the findings queue, or written to D1 when the
\* queue fails, or lost when both fail.
Persist ==
  \E e \in persisting :
    /\ persisting' = persisting \ {e}
    /\ \/ durable' = durable \cup {e} /\ UNCHANGED <<excused, faults>>
       \/ /\ Fault("persistFails")
          /\ excused' = excused \cup {e}
          /\ UNCHANGED durable
    /\ UNCHANGED <<agentVars, wireVars, jobs, marks, sinceAck, dupAcked, acks, stored, finished,
                   execs, dispatches, emitted, refused, processed, again>>

\* Promise.allSettled([previous, done]): every event processed so far has settled.
AllSettled_NewestOnly == \A e \in persisting : MarkOf(e) # marks
AllSettled == persisting = {}

\* The newest link of persisted(): everything processed has settled, so the mark is stored (the put
\* may fail) and leaves memory.
StoreMark ==
  /\ marks # NoMark /\ AllSettled
  /\ marks' = NoMark
  /\ \/ stored' = marks /\ UNCHANGED faults
     \/ Fault("putFails") /\ UNCHANGED stored
  /\ UNCHANGED <<agentVars, wireVars, jobs, sinceAck, dupAcked, persisting, acks, durable, finished,
                 execs, dispatches, historyVars>>

\* The link of persisted() that acknowledge() awaits has settled: so has every event it covers, and
\* its mark was stored unless a newer event took that over.
MayAcknowledge(a) ==
  /\ a.covers \cap persisting = {}
  /\ a.newest = NoMark \/ marks # a.newest

\* acknowledge() resumes.
SendAck ==
  \E a \in acks :
    /\ MayAcknowledge(a)
    /\ acks' = acks \ {a}
    /\ down' = IF jobs[a.conn] = "closed" THEN down
               ELSE Sent(a.conn, [type |-> "ack", exec |-> a.mark.exec, seq |-> a.mark.seq])
    /\ UNCHANGED <<agentVars, link, up, jobs, marks, sinceAck, dupAcked, persisting, durableVars,
                   counters, historyVars>>

\* The Durable Object leaves memory while nothing is pending; its sockets and their attachments stay.
Hibernate ==
  /\ persisting = {} /\ acks = {} /\ marks = NoMark
  /\ sinceAck # 0 \/ dupAcked # {}
  /\ sinceAck' = 0 /\ dupAcked' = {}
  /\ UNCHANGED <<agentVars, wireVars, jobs, marks, persisting, acks, durableVars, counters, historyVars>>

\* A deploy or crash: memory, pending work and every connection are gone.
CoordinatorRestarts ==
  /\ conn \in 1..(MaxConns - 1)
  /\ Fault("coordRestart")
  /\ jobs' = [c \in Conns |-> "closed"]
  /\ marks' = NoMark /\ sinceAck' = 0 /\ dupAcked' = {} /\ persisting' = {} /\ acks' = {}
  /\ link' = [c \in Conns |-> FALSE]
  /\ up' = [c \in Conns |-> <<>>]
  /\ UNCHANGED <<agentVars, down, durableVars, execs, dispatches, historyVars>>

----------------------------------------------------------------------------
AgentStep ==
  \/ Connect \/ Write \/ RecordWritten \/ RequestAck \/ AgentCloses \/ OldWriteReturns
  \/ AgentReceives

CoordinatorStep ==
  \/ \E c \in Conns : \/ CoordinatorCloses(c) \/ Refuse(c) \/ DropDuplicate(c) \/ Accept(c)
                      \/ HandleAckRequest(c)
  \/ Persist \/ StoreMark \/ SendAck

Next ==
  \/ \E kind \in Kinds : Emit(kind)
  \/ RunnerExits \/ GiveUp \/ gc \/ AgentRestarts \/ Break
  \/ AgentStep \/ CoordinatorStep
  \/ \E c \in Conns : Dispatch(c)
  \/ Hibernate \/ CoordinatorRestarts

Spec == Init /\ [][Next]_vars

\* The agent's loops and the coordinator's handlers keep running; faults, new events, dispatches and
\* the end of the run are the environment's.
FairSpec == Spec /\ WF_vars(AgentStep) /\ WF_vars(CoordinatorStep)

----------------------------------------------------------------------------
(* Properties.                                                             *)

WireMessage == Event \cup [exec: 0..MaxExecs, seq: 0..MaxSeq, kind: {"ask"}]
Reply == [type: {"ack", "dispatch"}, exec: 0..MaxExecs, seq: 0..MaxSeq]

AgentTypes ==
  /\ running \in BOOLEAN
  /\ log \in [exec: 0..MaxExecs, next: 0..MaxSeq, written: 0..MaxSeq, acked: 0..MaxSeq,
              unacked: SUBSET Event]
  /\ queue \in Seq(Event) /\ carry \in Seq(Event)
  /\ failing \in SUBSET [msg: Event, sent: BOOLEAN]
  /\ conn \in 0..MaxConns /\ open \in BOOLEAN /\ (open => conn # 0)
  /\ writer \in [todo: SUBSET Event, cur: Event \cup {NoEvent}, sent: Mark, quiet: BOOLEAN]

WireTypes ==
  /\ link \in [Conns -> BOOLEAN]
  /\ up \in [Conns -> Seq(WireMessage)] /\ down \in [Conns -> Seq(Reply)]

CoordinatorTypes ==
  /\ jobs \in [Conns -> {"closed", "none", "active", "recent"}]
  /\ marks \in Mark /\ stored \in Mark /\ sinceAck \in Nat
  /\ dupAcked \in SUBSET Conns /\ persisting \in SUBSET Event
  /\ acks \in SUBSET [conn: Conns, mark: Mark, covers: SUBSET Event, newest: Mark]

HistoryTypes ==
  /\ durable \in SUBSET Event /\ finished \in BOOLEAN
  /\ execs \in 0..MaxExecs /\ dispatches \in 0..MaxExecs /\ faults \in 0..MaxFaults
  /\ emitted \in SUBSET Event /\ excused \in SUBSET Event /\ refused \in SUBSET Event
  /\ processed \in SUBSET Event /\ again \in SUBSET Event

\* Every variable has its type; every index into the connections is one of a connection set up.
TypeOK == AgentTypes /\ WireTypes /\ CoordinatorTypes /\ HistoryTypes

UpTo(m) == {e \in emitted : e.exec = m.exec /\ e.seq <= m.seq}
Settled == durable \cup excused
Elements(s) == {s[i] : i \in DOMAIN s}

\* A refused event counts as given up on once the coordinator has dispatched the run anew: the connection
\* that takes the run over may then be one whose earlier events were refused.
GivenUp == IF dispatches <= 1 THEN {} ELSE refused

\* No event up to m is missing.
Lossless(m) == UpTo(m) \subseteq Settled \cup GivenUp

\* What the agent lets go of on an acknowledgement is safe: each event the acknowledgement covers was
\* handed to the findings queue or written to D1 (or is one the design gives up on).
AckedArePersisted == Lossless([exec |-> log.exec, seq |-> log.acked])

\* The stored mark never covers an event that could still be lost, so a coordinator that starts from
\* it after a crash drops no replayed event it does not have. An execution the agent has replaced
\* by a newer one is not replayed.
MarkCoversPersisted == stored.exec = log.exec => Lossless(stored)

\* Where an event can be on the agent: queued, in a write, carried over, or kept for replay.
Held ==
  Elements(queue) \cup Elements(carry) \cup {f.msg : f \in failing} \cup {writer.cur}
    \cup log.unacked \cup excused

\* The agent holds every unacknowledged event of the current execution somewhere. Nothing falls
\* between the queue, the write loops of old and new connections, and the log.
NothingForgotten ==
  \A e \in emitted : e.exec = log.exec /\ e.seq > log.acked => e \in Held

\* Events of runs a connection does not own are not acknowledged: while the run executes, nothing that
\* was refused is among what the agent lets go of.
RefusedStayUnacked == running => UpTo([exec |-> log.exec, seq |-> log.acked]) \subseteq Settled

\* While no memory is lost other than by hibernation, an event is accepted as new once, however often
\* it is replayed: the stored mark takes over exactly where the one in memory left off. Only the events of
\* another execution of the run, accepted in between, make the tracker forget.
NeverProcessedTwice == again # {} => \E e, f \in processed : e.exec # f.exec

\* Every event ends up persisted, unless the connection it was sent on did not own the run. (At most
\* MaxSeq events are emitted per execution, so in the end all of them are.)
EveryEventSettles == <>[](emitted \subseteq Settled \cup refused)

\* Every event kept for replay is acknowledged in the end: the coordinator's own acks and the
\* agent's requests together leave no tail behind.
AcksArrive == <>[](log.unacked \subseteq excused \cup refused)

\* The abstract log this implements: events are sent, made safe, and confirmed to the agent only once safe.
Ledger == INSTANCE EventLedger WITH
  Event <- Event,
  sent <- emitted,
  safe <- Settled \cup GivenUp,
  confirmed <- UpTo([exec |-> log.exec, seq |-> log.acked])

\* Every step of the agent, the connections and the coordinator is a step of the abstract log.
ImplementsLedger == Ledger!Spec

=============================================================================
