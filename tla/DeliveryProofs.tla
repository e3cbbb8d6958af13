-------------------------- MODULE DeliveryProofs --------------------------
(***************************************************************************)
(* Theorems about Delivery, for every value of its constants: its type     *)
(* correctness; the agent holds every unacknowledged event of the          *)
(* execution in progress; an event is accepted as new once; what the agent *)
(* lets go of, and what the stored mark covers, is safe; and every step    *)
(* implements the abstract ledger. The last three need the invariant of    *)
(* the ledger, LedgerInv: events leave the agent and travel in sequence,   *)
(* so that whatever the coordinator accepts finds its predecessors taken   *)
(* care of.                                                                *)
(***************************************************************************)
EXTENDS Delivery, FiniteSetTheorems, WellFoundedInduction, TLAPS

LogType == [exec: 0..MaxExecs, next: 0..MaxSeq, written: 0..MaxSeq, acked: 0..MaxSeq,
            unacked: SUBSET Event]

----------------------------------------------------------------------------
(* Lemmas about the operators of the model.                                *)

\* Every event has an execution and a sequence number; NoEvent, which stands for an idle write loop, is none.
LEMMA NoEventIsNone == NoEvent \notin Event
BY DEF NoEvent, Event, Execs

\* What a sequence holds is what its head and its tail hold.
LEMMA ElementsOfTail ==
  ASSUME NEW S, NEW s \in Seq(S), s # <<>>
  PROVE  Elements(s) = {Head(s)} \cup Elements(Tail(s)) /\ Head(s) \in S /\ Tail(s) \in Seq(S)
<1>1. Head(s) = s[1] /\ Head(s) \in S /\ Tail(s) \in Seq(S) /\ Len(s) \in Nat \ {0}
  OBVIOUS
<1>2. Elements(s) = {s[i] : i \in 1..Len(s)}
  BY DEF Elements
<1>3. Len(Tail(s)) = Len(s) - 1 /\ \A i \in 1..(Len(s) - 1) : Tail(s)[i] = s[i + 1]
  BY <1>1
<1>5. DOMAIN Tail(s) = 1..(Len(s) - 1)
  BY <1>1, <1>3
<1>6. Elements(Tail(s)) = {Tail(s)[i] : i \in 1..(Len(s) - 1)}
  BY <1>5 DEF Elements
<1>4. ASSUME NEW i \in 1..Len(s) PROVE i = 1 \/ (i - 1 \in 1..(Len(s) - 1) /\ s[i] = s[(i - 1) + 1])
  BY <1>1
<1> QED
  <2>1. ASSUME NEW x \in Elements(s) PROVE x = Head(s) \/ x \in Elements(Tail(s))
    <3>1. PICK i \in 1..Len(s) : x = s[i]
      BY <1>2, <2>1
    <3>2. CASE i # 1
      BY <1>1, <1>3, <1>4, <1>6, <3>1, <3>2
    <3> QED
      BY <1>1, <3>1, <3>2
  <2>2. ASSUME NEW x \in Elements(Tail(s)) PROVE x \in Elements(s)
    <3>1. PICK i \in 1..(Len(s) - 1) : x = s[i + 1]
      BY <1>3, <1>6, <2>2
    <3>2. i + 1 \in 1..Len(s)
      BY <1>1
    <3> QED
      BY <1>2, <3>1, <3>2
  <2>3. Head(s) \in Elements(s)
    BY <1>1, <1>2
  <2> QED
    BY <1>1, <2>1, <2>2, <2>3

\* Appending adds exactly one element.
LEMMA ElementsOfAppend ==
  ASSUME NEW S, NEW s \in Seq(S), NEW e \in S
  PROVE  Elements(Append(s, e)) = Elements(s) \cup {e} /\ Append(s, e) \in Seq(S)
<1>1. Len(s) \in Nat /\ Append(s, e) \in Seq(S) /\ Len(Append(s, e)) = Len(s) + 1
  OBVIOUS
<1>2. Elements(s) = {s[i] : i \in 1..Len(s)}
  BY DEF Elements
<1>3. Elements(Append(s, e)) = {Append(s, e)[i] : i \in 1..(Len(s) + 1)}
  BY <1>1 DEF Elements
<1>4. Append(s, e)[Len(s) + 1] = e /\ \A i \in 1..Len(s) : Append(s, e)[i] = s[i]
  BY <1>1
<1> QED
  BY <1>1, <1>2, <1>3, <1>4

\* Trimming the log (maxUnackedPerRun) only removes events from it.
LEMMA TrimShrinks == ASSUME NEW u PROVE Trim(u) \subseteq u
BY DEF Trim

\* What written() makes of the log of the event's own execution.
LEMMA WrittenFields ==
  ASSUME NEW l \in LogType, NEW e \in Event, NEW sent \in BOOLEAN, l.exec = e.exec
  PROVE  written(l, e, sent) =
           [exec |-> l.exec, next |-> l.next, written |-> Max2(l.written, e.seq), acked |-> l.acked,
            unacked |-> IF sent /\ e.seq > l.acked THEN Trim(l.unacked \cup {e}) ELSE l.unacked]
BY DEF written, LogType

\* written() keeps the log well formed, and never changes its execution or what is acknowledged.
LEMMA WrittenType ==
  ASSUME NEW l \in LogType, NEW e \in Event, NEW sent \in BOOLEAN
  PROVE  /\ written(l, e, sent) \in LogType
         /\ written(l, e, sent).exec = l.exec /\ written(l, e, sent).acked = l.acked
         /\ Trimmed(l, e) \in SUBSET Event
<1>1. e.seq \in 0..MaxSeq
  BY DeliveryAssumption DEF Event
<1>2. Max2(l.written, e.seq) \in 0..MaxSeq
  BY <1>1 DEF Max2, LogType
<1>3. Trim(l.unacked \cup {e}) \in SUBSET Event
  BY TrimShrinks, Trim(l.unacked \cup {e}) \subseteq l.unacked \cup {e} DEF LogType
<1>4. CASE l.exec # e.exec
  BY <1>4 DEF written, Trimmed
<1>5. CASE l.exec = e.exec
  <2>1. Trimmed(l, e) \in SUBSET Event
    BY <1>5 DEF Trimmed, LogType
  <2> QED
    BY <2>1, <1>2, <1>3, <1>5, WrittenFields DEF LogType
<1> QED
  BY <1>4, <1>5

\* A written event that is still unacknowledged is kept for replay, and what it pushes out of the log is
\* accounted for.
LEMMA WrittenKeeps ==
  ASSUME NEW l \in LogType, NEW e \in Event
  PROVE  /\ l.unacked \subseteq written(l, e, TRUE).unacked \cup Trimmed(l, e)
         /\ e.exec = l.exec /\ e.seq > l.acked => e \in written(l, e, TRUE).unacked \cup Trimmed(l, e)
<1>1. CASE l.exec # e.exec
  BY <1>1 DEF written
<1>2. CASE l.exec = e.exec
  <2>1. written(l, e, TRUE).unacked = IF e.seq > l.acked THEN Trim(l.unacked \cup {e}) ELSE l.unacked
    BY <1>2 DEF written, LogType
  <2>2. CASE e.seq > l.acked
    <3>1. ~(e.seq <= l.acked)
      BY <2>2, DeliveryAssumption DEF Event, LogType
    <3>2. Trimmed(l, e) = (l.unacked \cup {e}) \ Trim(l.unacked \cup {e})
      BY <1>2, <3>1 DEF Trimmed
    <3> QED
      BY <2>1, <2>2, <3>2
  <2>3. CASE ~(e.seq > l.acked)
    BY <2>1, <2>3
  <2> QED
    BY <2>2, <2>3
<1> QED
  BY <1>1, <1>2

\* written() of an event that was given up on keeps every other one.
LEMMA GivenUpKeeps ==
  ASSUME NEW l \in LogType, NEW e \in Event
  PROVE  written(l, e, FALSE).unacked = l.unacked
<1>1. CASE l.exec # e.exec
  BY <1>1 DEF written
<1>2. CASE l.exec = e.exec
  BY <1>2 DEF written, LogType
<1> QED
  BY <1>1, <1>2

\* ack() keeps the log well formed, and lets go only of events it acknowledges.
LEMMA AckType ==
  ASSUME NEW l \in LogType, NEW m \in Reply
  PROVE  /\ ack(l, m) \in LogType
         /\ ack(l, m).exec = l.exec /\ ack(l, m).acked >= l.acked
         /\ \A e \in l.unacked : e.seq > ack(l, m).acked => e \in ack(l, m).unacked
<1>1. CASE l.exec # m.exec
  BY <1>1, DeliveryAssumption DEF ack, LogType
<1>2. CASE l.exec = m.exec
  <2>1. ack(l, m) = [exec |-> l.exec, next |-> l.next, written |-> l.written,
                     acked |-> Max2(l.acked, m.seq), unacked |-> {e \in l.unacked : e.seq > m.seq}]
    BY <1>2 DEF ack, LogType
  <2>2. Max2(l.acked, m.seq) \in 0..MaxSeq /\ Max2(l.acked, m.seq) >= l.acked
        /\ Max2(l.acked, m.seq) >= m.seq
    BY DeliveryAssumption DEF Max2, LogType, Reply
  <2>3. \A e \in l.unacked : e.seq \in 1..MaxSeq
    BY DEF LogType, Event
  <2>4. ack(l, m) \in LogType
    BY <2>1, <2>2 DEF LogType
  <2>5. m.seq \in 0..MaxSeq
    BY DEF Reply
  <2> QED
    BY <2>1, <2>2, <2>3, <2>4, <2>5, DeliveryAssumption
<1> QED
  BY <1>1, <1>2

----------------------------------------------------------------------------
(* Type correctness.                                                       *)

\* Updating a function at one argument keeps its type.
LEMMA Update ==
  ASSUME NEW S, NEW T, NEW f \in [S -> T], NEW x, NEW v \in T
  PROVE  [f EXCEPT ![x] = v] \in [S -> T]
OBVIOUS

\* The values an agent that holds nothing starts from are well typed.
LEMMA IdleTypes ==
  /\ NoLog \in LogType /\ NoMark \in Mark
  /\ IdleWriter \in [todo: SUBSET Event, cur: Event \cup {NoEvent}, sent: Mark, quiet: BOOLEAN]
BY DeliveryAssumption DEF NoLog, LogType, NoMark, Mark, IdleWriter

\* The initial state is well typed.
LEMMA InitTypes == Init => TypeOK
<1> SUFFICES ASSUME Init PROVE TypeOK
  OBVIOUS
<1> USE DeliveryAssumption
<1>1. AgentTypes
  <2>1. log \in LogType
    BY IdleTypes DEF Init
  <2>2. writer \in [todo: SUBSET Event, cur: Event \cup {NoEvent}, sent: Mark, quiet: BOOLEAN]
    BY IdleTypes DEF Init
  <2>3. conn \in 0..MaxConns
    BY DEF Init
  <2>4. running \in BOOLEAN /\ open \in BOOLEAN /\ ~open
    BY Zenon DEF Init
  <2>5. queue \in Seq(Event) /\ carry \in Seq(Event)
    BY DEF Init
  <2>6. failing \in SUBSET [msg: Event, sent: BOOLEAN]
    BY DEF Init
  <2> QED
    BY <2>1, <2>2, <2>3, <2>4, <2>5, <2>6 DEF AgentTypes, LogType
<1>2. WireTypes
  BY DEF Init, WireTypes
<1>3. CoordinatorTypes
  BY DEF Init, CoordinatorTypes, NoMark, Mark
<1>4. HistoryTypes
  <2>1. execs \in 0..MaxExecs /\ dispatches \in 0..MaxExecs /\ faults \in 0..MaxFaults
    BY DEF Init
  <2>2. finished \in BOOLEAN
    BY Zenon DEF Init
  <2> QED
    BY <2>1, <2>2, Zenon DEF Init, HistoryTypes
<1> QED
  BY <1>1, <1>2, <1>3, <1>4 DEF TypeOK

\* A part of the state an action leaves alone keeps its types.
LEMMA Unchanged ==
  /\ AgentTypes /\ UNCHANGED agentVars => AgentTypes'
  /\ WireTypes /\ UNCHANGED wireVars => WireTypes'
  /\ CoordinatorTypes /\ UNCHANGED memoryVars /\ UNCHANGED stored => CoordinatorTypes'
  /\ HistoryTypes /\ UNCHANGED <<durable, finished, counters, historyVars>> => HistoryTypes'
BY DEF AgentTypes, WireTypes, CoordinatorTypes, HistoryTypes, agentVars, wireVars, memoryVars,
       counters, historyVars

\* Counting a fault keeps the fault counter within its bound.
LEMMA FaultType ==
  ASSUME NEW kind, HistoryTypes, Fault(kind) PROVE faults' \in 0..MaxFaults
BY DeliveryAssumption DEF Fault, HistoryTypes

\* The steps of the agent keep it well typed.
LEMMA AgentStepTypes ==
  ASSUME TypeOK,
         \/ \E kind \in Kinds : Emit(kind)
         \/ RunnerExits \/ GiveUp \/ gc \/ AgentRestarts \/ AgentStep
  PROVE  TypeOK'
<1> USE DeliveryAssumption DEF TypeOK
<1> DEFINE KeepsCoordinator == UNCHANGED <<memoryVars, stored>>
<1>0. /\ open => conn \in Conns
      /\ \A c \in Conns : up[c] \in Seq(WireMessage) /\ down[c] \in Seq(Reply)
      /\ Event \subseteq WireMessage
  BY SMTT(30) DEF AgentTypes, WireTypes, Conns, WireMessage
<1>1. ASSUME NEW kind \in Kinds, Emit(kind) PROVE TypeOK'
  <2> DEFINE e == [exec |-> log.exec, seq |-> log.next + 1, kind |-> kind]
  <2>1. e \in Event
    BY <1>1, SMTT(30) DEF Emit, AgentTypes, Event, Execs
  <2>2. log' \in LogType
    <3>1. log' = [exec |-> log.exec, next |-> log.next + 1, written |-> log.written,
                  acked |-> log.acked, unacked |-> log.unacked]
      BY <1>1 DEF Emit, AgentTypes
    <3>2. log.next + 1 \in 0..MaxSeq
      BY <1>1, SMTT(30) DEF Emit, AgentTypes
    <3> QED
      BY <3>1, <3>2 DEF AgentTypes, LogType
  <2>4. queue' \in Seq(Event)
    BY <1>1, <2>1 DEF Emit, AgentTypes
  <2>5. AgentTypes'
    BY <1>1, <2>2, <2>4 DEF Emit, AgentTypes, LogType
  <2>3. HistoryTypes'
    BY <1>1, <2>1 DEF Emit, HistoryTypes, counters, durableVars
  <2> QED
    BY <1>1, <2>3, <2>5, Unchanged DEF Emit, durableVars
<1>2. CASE RunnerExits
  <2>1. AgentTypes'
    BY <1>2 DEF RunnerExits, AgentTypes
  <2> QED
    BY <1>2, <2>1, Unchanged DEF RunnerExits, durableVars
<1>3. CASE GiveUp
  <2>1. Head(queue) \in Event /\ Tail(queue) \in Seq(Event)
    BY <1>3, ElementsOfTail DEF GiveUp, AgentTypes
  <2>2. log' \in LogType
    BY <1>3, <2>1, WrittenType DEF GiveUp, AgentTypes, LogType
  <2>3. AgentTypes'
    BY <1>3, <2>1, <2>2 DEF GiveUp, AgentTypes, LogType
  <2>4. HistoryTypes'
    BY <1>3, <2>1, FaultType DEF GiveUp, HistoryTypes, durableVars
  <2> QED
    BY <1>3, <2>3, <2>4, Unchanged DEF GiveUp, durableVars
<1>4. CASE gc
  <2>1. AgentTypes'
    BY <1>4 DEF gc, AgentTypes, NoLog
  <2> QED
    BY <1>4, <2>1, Unchanged DEF gc, durableVars
<1>5. CASE AgentRestarts
  <2>1. running' \in BOOLEAN /\ open' \in BOOLEAN /\ ~open'
    BY <1>5, Zenon DEF AgentRestarts
  <2>4. AgentTypes'
    BY <1>5, <2>1, IdleTypes DEF AgentRestarts, AgentTypes, LogType
  <2>2. WireTypes'
    <3>1. link' \in [Conns -> BOOLEAN]
      BY <1>5 DEF AgentRestarts, WireTypes
    <3>2. down' \in [Conns -> Seq(Reply)]
      BY <1>5, Update, <<>> \in Seq(Reply) DEF AgentRestarts, WireTypes
    <3> QED
      BY <1>5, <3>1, <3>2 DEF AgentRestarts, WireTypes
  <2>3. HistoryTypes'
    BY <1>5, FaultType DEF AgentRestarts, HistoryTypes, durableVars, historyVars
  <2> QED
    BY <1>5, <2>2, <2>3, <2>4, Unchanged DEF AgentRestarts, durableVars
<1>6. CASE Connect
  <2>1. conn + 1 \in Conns
    BY <1>6 DEF Connect, Conns, AgentTypes
  <2>2. writer' \in [todo: SUBSET Event, cur: Event \cup {NoEvent}, sent: Mark, quiet: BOOLEAN]
    BY <1>6, IdleTypes DEF Connect, AgentTypes, replay
  <2>3. conn' \in 0..MaxConns /\ conn' # 0
    BY <1>6, <2>1 DEF Connect, Conns
  <2>4. AgentTypes'
    BY <1>6, <2>2, <2>3 DEF Connect, AgentTypes
  <2>5. WireTypes'
    BY <1>6 DEF Connect, WireTypes
  <2>6. jobs' \in [Conns -> {"closed", "none", "active", "recent"}]
    BY <1>6 DEF Connect, CoordinatorTypes
  <2>7. CoordinatorTypes'
    BY <1>6, <2>6 DEF Connect, CoordinatorTypes, durableVars
  <2>8. HistoryTypes'
    BY <1>6, FaultType DEF Connect, HistoryTypes, durableVars, historyVars
  <2> QED
    BY <2>4, <2>5, <2>7, <2>8
<1>7. CASE Write
  <2>1. PICK e \in OutCandidates :
          /\ NextOut(e)
          /\ up' = IF link[conn] THEN [up EXCEPT ![conn] = Append(@, e)] ELSE up
    BY <1>7 DEF Write
  <2>2. /\ writer.todo \subseteq Event
        /\ carry # <<>> => Head(carry) \in Event /\ Tail(carry) \in Seq(Event)
        /\ queue # <<>> => Head(queue) \in Event /\ Tail(queue) \in Seq(Event)
    BY ElementsOfTail DEF AgentTypes
  <2>3. e \in Event /\ carry' \in Seq(Event) /\ queue' \in Seq(Event)
    BY <2>1, <2>2 DEF NextOut, AgentTypes
  <2>4. \/ writer' = [writer EXCEPT !.todo = @ \ {e}, !.cur = e]
        \/ writer' = [writer EXCEPT !.cur = e]
    BY <2>1 DEF NextOut
  <2>5. writer' \in [todo: SUBSET Event, cur: Event \cup {NoEvent}, sent: Mark, quiet: BOOLEAN]
    <3>1. CASE writer' = [writer EXCEPT !.cur = e]
      BY <2>3, <3>1 DEF AgentTypes
    <3>2. CASE writer' = [writer EXCEPT !.todo = @ \ {e}, !.cur = e]
      <4>1. writer' = [todo |-> writer.todo \ {e}, cur |-> e, sent |-> writer.sent,
                       quiet |-> writer.quiet]
        BY <3>2 DEF AgentTypes
      <4> QED
        BY <2>2, <2>3, <4>1 DEF AgentTypes
    <3> QED
      BY <2>4, <3>1, <3>2
  <2>6. AgentTypes'
    BY <1>7, <2>3, <2>5 DEF Write, AgentTypes
  <2>7. up' \in [Conns -> Seq(WireMessage)]
    <3>1. Append(up[conn], e) \in Seq(WireMessage)
      BY <1>0, <1>7, <2>3, ElementsOfAppend DEF Write
    <3> QED
      BY <2>1, <3>1, Update DEF WireTypes
  <2>8. WireTypes'
    BY <1>7, <2>7 DEF Write, WireTypes
  <2> QED
    BY <1>7, <2>6, <2>8, Unchanged DEF Write, durableVars
<1>8. CASE RecordWritten
  <2>1. writer.cur \in Event
    BY <1>8 DEF RecordWritten, AgentTypes
  <2>2. log' \in LogType /\ excused' \in SUBSET Event
    BY <1>8, <2>1, WrittenType, TRUE \in BOOLEAN
       DEF RecordWritten, AgentTypes, HistoryTypes, LogType
  <2>3. MarkOf(writer.cur) \in Mark
    BY <2>1 DEF MarkOf, Mark, Event, Execs
  <2>4. PICK mark \in Mark :
          writer' = [writer EXCEPT !.cur = NoEvent, !.sent = mark, !.quiet = TRUE]
    BY <1>8, <2>3 DEF RecordWritten, AgentTypes
  <2>5. writer' = [todo |-> writer.todo, cur |-> NoEvent, sent |-> mark, quiet |-> TRUE]
    BY <2>4 DEF AgentTypes
  <2>8. writer' \in [todo: SUBSET Event, cur: Event \cup {NoEvent}, sent: Mark, quiet: BOOLEAN]
    BY <2>5, TRUE \in BOOLEAN DEF AgentTypes
  <2>6. AgentTypes'
    BY <1>8, <2>2, <2>8 DEF RecordWritten, AgentTypes, LogType
  <2>7. HistoryTypes'
    BY <1>8, <2>2 DEF RecordWritten, HistoryTypes, counters, durableVars
  <2> QED
    BY <1>8, <2>6, <2>7, Unchanged DEF RecordWritten, durableVars
<1>9. CASE RequestAck
  <2>1. AgentTypes'
    BY <1>9 DEF RequestAck, AgentTypes
  <2>2. AckRequest(writer.sent) \in WireMessage
    BY DEF AgentTypes, Mark, AckRequest, WireMessage
  <2>3. Append(up[conn], AckRequest(writer.sent)) \in Seq(WireMessage)
    BY <1>0, <1>9, <2>2, ElementsOfAppend DEF RequestAck
  <2>4. up' \in [Conns -> Seq(WireMessage)]
    BY <1>9, <2>3, Update DEF RequestAck, WireTypes
  <2>5. WireTypes'
    BY <1>9, <2>4 DEF RequestAck, WireTypes
  <2> QED
    BY <1>9, <2>1, <2>5, Unchanged DEF RequestAck, durableVars
<1>10. CASE AgentCloses
  <2>1. /\ writer.todo \subseteq Event
        /\ carry # <<>> => Head(carry) \in Event /\ Tail(carry) \in Seq(Event)
        /\ queue # <<>> => Head(queue) \in Event /\ Tail(queue) \in Seq(Event)
    BY ElementsOfTail DEF AgentTypes
  <2>2. carry' \in Seq(Event) /\ queue' \in Seq(Event)
    BY <1>10, <2>1 DEF AgentCloses, AgentTypes
  <2>3. failing' \in SUBSET [msg: Event, sent: BOOLEAN]
    <3>1. CASE /\ failing' = IF writer.cur = NoEvent THEN failing
                             ELSE failing \cup {[msg |-> writer.cur, sent |-> TRUE]}
      <4>1. [msg |-> writer.cur, sent |-> TRUE] \in [msg: Event, sent: BOOLEAN]
            \/ writer.cur = NoEvent
        BY TRUE \in BOOLEAN DEF AgentTypes
      <4> QED
        BY <3>1, <4>1 DEF AgentTypes
    <3>2. CASE \E e \in Event : failing' = failing \cup {[msg |-> e, sent |-> FALSE]}
      <4>1. \A e \in Event : [msg |-> e, sent |-> FALSE] \in [msg: Event, sent: BOOLEAN]
        BY FALSE \in BOOLEAN
      <4> QED
        BY <3>2, <4>1 DEF AgentTypes
    <3>3. \A e \in OutCandidates : e \in Event
      BY <2>1 DEF OutCandidates
    <3> QED
      BY <1>10, <3>1, <3>2, <3>3 DEF AgentCloses
  <2>4. open' \in BOOLEAN /\ ~open'
    BY <1>10, Zenon DEF AgentCloses
  <2>5. writer' = IdleWriter
    BY <1>10 DEF AgentCloses
  <2>6. AgentTypes'
    BY <1>10, <2>2, <2>3, <2>4, <2>5, IdleTypes DEF AgentCloses, AgentTypes
  <2>7. WireTypes'
    <3>1. down' \in [Conns -> Seq(Reply)]
      BY <1>10, Update, <<>> \in Seq(Reply) DEF AgentCloses, WireTypes
    <3> QED
      BY <1>10, <3>1 DEF AgentCloses, WireTypes
  <2> QED
    BY <1>10, <2>6, <2>7, Unchanged DEF AgentCloses, durableVars
<1>11. CASE OldWriteReturns
  <2>1. PICK f \in failing :
          /\ failing' = failing \ {f}
          /\ IF f.sent
             THEN /\ log' = written(log, f.msg, TRUE)
                  /\ excused' = excused \cup Trimmed(log, f.msg)
                  /\ UNCHANGED carry
             ELSE /\ carry' = IF kept(log, f.msg) THEN carry ELSE Append(carry, f.msg)
                  /\ UNCHANGED <<log, excused>>
          /\ UNCHANGED <<running, queue, conn, open, writer, wireVars, memoryVars, durableVars,
                         counters, emitted, refused, processed, again>>
    BY <1>11 DEF OldWriteReturns
  <2>2. f.msg \in Event
    BY DEF AgentTypes
  <2>3. log' \in LogType /\ excused' \in SUBSET Event
    <3>1. CASE UNCHANGED <<log, excused>>
      BY <3>1 DEF AgentTypes, HistoryTypes, LogType
    <3>2. CASE log' = written(log, f.msg, TRUE) /\ excused' = excused \cup Trimmed(log, f.msg)
      BY <2>2, <3>2, WrittenType, TRUE \in BOOLEAN DEF AgentTypes, HistoryTypes, LogType
    <3> QED
      BY <2>1, <3>1, <3>2
  <2>4. carry' \in Seq(Event)
    <3>1. carry \in Seq(Event) /\ Append(carry, f.msg) \in Seq(Event)
      BY <2>2, ElementsOfAppend DEF AgentTypes
    <3>2. carry' = carry \/ carry' = Append(carry, f.msg)
      BY <2>1
    <3> QED
      BY <3>1, <3>2
  <2>5. failing' \in SUBSET [msg: Event, sent: BOOLEAN]
    BY <2>1 DEF AgentTypes
  <2>6. AgentTypes'
    BY <2>1, <2>3, <2>4, <2>5 DEF AgentTypes, LogType
  <2>7. HistoryTypes'
    BY <2>1, <2>3 DEF HistoryTypes, counters, durableVars
  <2> QED
    BY <2>1, <2>6, <2>7, Unchanged DEF durableVars
<1>12. CASE AgentReceives
  <2> DEFINE m == Head(down[conn])
  <2>1. conn \in Conns /\ m \in Reply /\ Tail(down[conn]) \in Seq(Reply)
    BY <1>0, <1>12, ElementsOfTail DEF AgentReceives
  <2>2. execs' \in 0..MaxExecs /\ (execs' = execs \/ execs' = execs + 1)
    BY <1>12 DEF AgentReceives, HistoryTypes
  <2>3. log' \in LogType
    <3>1. CASE log' = ack(log, m)
      BY <2>1, <3>1, AckType DEF AgentTypes, LogType
    <3>2. CASE /\ log' = [NoLog EXCEPT !.exec = execs + 1] /\ execs' = execs + 1
      <4>1. log' = [exec |-> execs + 1, next |-> 0, written |-> 0, acked |-> 0, unacked |-> {}]
        BY <3>2 DEF NoLog
      <4>2. execs + 1 \in 0..MaxExecs
        BY <2>2, <3>2
      <4>3. {} \in SUBSET Event /\ 0 \in 0..MaxSeq
        OBVIOUS
      <4> QED
        BY <4>1, <4>2, <4>3 DEF LogType
    <3>3. CASE UNCHANGED log
      BY <3>3 DEF AgentTypes, LogType
    <3> QED
      BY <1>12, <3>1, <3>2, <3>3 DEF AgentReceives
  <2>4. running' \in BOOLEAN
    BY <1>12, Zenon DEF AgentReceives, AgentTypes
  <2>5. AgentTypes'
    BY <1>12, <2>3, <2>4 DEF AgentReceives, AgentTypes, LogType
  <2>6. WireTypes'
    <3>1. down' \in [Conns -> Seq(Reply)]
      BY <1>12, <2>1, Update DEF AgentReceives, WireTypes
    <3> QED
      BY <1>12, <3>1 DEF AgentReceives, WireTypes
  <2>7. HistoryTypes'
    BY <1>12, <2>2 DEF AgentReceives, HistoryTypes, durableVars, historyVars
  <2> QED
    BY <1>12, <2>5, <2>6, <2>7, Unchanged DEF AgentReceives, durableVars
<1> QED
  BY <1>1, <1>2, <1>3, <1>4, <1>5, <1>6, <1>7, <1>8, <1>9, <1>10, <1>11, <1>12 DEF AgentStep

\* What arrives on a connection is an event or an ack request; the rest of its queue stays well typed.
LEMMA ArrivingTypes ==
  ASSUME WireTypes, NEW c \in Conns, NEW m \in Arriving(c)
  PROVE  /\ m \in WireMessage /\ (IsEvent(m) => m \in Event)
         /\ [up EXCEPT ![c] = Tail(@)] \in [Conns -> Seq(WireMessage)]
<1>1. up[c] \in Seq(WireMessage) /\ up[c] # <<>> /\ m = Head(up[c])
  BY DEF Arriving, WireTypes
<1>2. m \in WireMessage /\ Tail(up[c]) \in Seq(WireMessage)
  BY <1>1, ElementsOfTail
<1>3. IsEvent(m) => m \in Event
  BY <1>2 DEF IsEvent, WireMessage
<1> QED
  BY <1>2, <1>3, Update DEF WireTypes

\* An acknowledgement to be sent is well typed.
LEMMA AcknowledgementType ==
  ASSUME NEW c \in Conns, NEW m \in Mark, NEW covers \in SUBSET Event, NEW newest \in Mark
  PROVE  Acknowledgement(c, m, covers, newest) \in
           [conn: Conns, mark: Mark, covers: SUBSET Event, newest: Mark]
BY DEF Acknowledgement

\* The steps of the coordinator and of the connections keep it well typed.
LEMMA CoordinatorStepTypes ==
  ASSUME TypeOK,
         \/ CoordinatorStep \/ Break \/ Hibernate \/ CoordinatorRestarts
         \/ \E c \in Conns : Dispatch(c)
  PROVE  TypeOK'
<1> USE DeliveryAssumption DEF TypeOK
<1> DEFINE Acks == [conn: Conns, mark: Mark, covers: SUBSET Event, newest: Mark]
<1>0. last \in Mark /\ \A e \in Event : MarkOf(e) \in Mark
  BY DEF last, CoordinatorTypes, MarkOf, Mark, Event, Execs
<1>1. CASE Break
  BY <1>1, Unchanged DEF Break, WireTypes, durableVars
<1>2. ASSUME NEW c \in Conns, CoordinatorCloses(c) PROVE TypeOK'
  <2>1. WireTypes'
    BY <1>2, Update, <<>> \in Seq(WireMessage) DEF CoordinatorCloses, WireTypes
  <2>2. CoordinatorTypes'
    BY <1>2 DEF CoordinatorCloses, CoordinatorTypes, durableVars
  <2> QED
    BY <1>2, <2>1, <2>2, Unchanged DEF CoordinatorCloses, durableVars
<1>3. ASSUME NEW c \in Conns, Dispatch(c) PROVE TypeOK'
  <2> DEFINE m == [type |-> "dispatch", exec |-> 0, seq |-> 0]
  <2>1. m \in Reply
    BY DEF Reply
  <2>2. down[c] \in Seq(Reply) /\ Append(down[c], m) \in Seq(Reply)
    BY <2>1, ElementsOfAppend DEF WireTypes
  <2>3. WireTypes'
    BY <1>3, <2>2, Update DEF Dispatch, Sent, WireTypes
  <2>4. CoordinatorTypes'
    BY <1>3 DEF Dispatch, CoordinatorTypes, durableVars
  <2>5. HistoryTypes'
    BY <1>3 DEF Dispatch, HistoryTypes, durableVars, historyVars
  <2> QED
    BY <1>3, <2>3, <2>4, <2>5, Unchanged DEF Dispatch
<1>4. ASSUME NEW c \in Conns, Refuse(c) PROVE TypeOK'
  <2>1. PICK m \in Arriving(c) :
          /\ Consume(c) /\ IsEvent(m)
          /\ \/ refused' = refused \cup {m} /\ UNCHANGED excused
             \/ excused' = excused \cup {m} /\ UNCHANGED refused
    BY <1>4 DEF Refuse
  <2>2. m \in Event /\ WireTypes'
    BY <1>4, <2>1, ArrivingTypes DEF Refuse, Consume, WireTypes
  <2>3. HistoryTypes'
    BY <1>4, <2>1, <2>2 DEF Refuse, HistoryTypes, durableVars, counters
  <2> QED
    BY <1>4, <2>2, <2>3, Unchanged DEF Refuse, durableVars
<1>5. ASSUME NEW c \in Conns, DropDuplicate(c) PROVE TypeOK'
  <2>1. PICK m \in Arriving(c) : Consume(c)
    BY <1>5 DEF DropDuplicate
  <2>2. WireTypes'
    BY <1>5, <2>1, ArrivingTypes DEF DropDuplicate, Consume, WireTypes
  <2>3. Acknowledgement(c, last, persisting, marks) \in Acks
    BY <1>0, AcknowledgementType DEF CoordinatorTypes
  <2>4. dupAcked' \in SUBSET Conns /\ sinceAck' \in Nat /\ acks' \in SUBSET Acks
    BY <1>5, <2>3 DEF DropDuplicate, CoordinatorTypes
  <2>5. CoordinatorTypes'
    BY <1>5, <2>4 DEF DropDuplicate, CoordinatorTypes, durableVars
  <2> QED
    BY <1>5, <2>2, <2>5, Unchanged DEF DropDuplicate, durableVars
<1>6. ASSUME NEW c \in Conns, Accept(c) PROVE TypeOK'
  <2>1. PICK m \in Arriving(c) :
          /\ Consume(c) /\ IsEvent(m)
          /\ marks' = MarkOf(m)
          /\ persisting' = persisting \cup {m}
          /\ IF sinceAck + 1 < AckEvery /\ m.kind # "end"
             THEN sinceAck' = sinceAck + 1 /\ UNCHANGED acks
             ELSE /\ sinceAck' = 0
                  /\ acks' = acks \cup {Acknowledgement(c, MarkOf(m), persisting', marks')}
          /\ IF m.kind = "end"
             THEN jobs' = [jobs EXCEPT ![c] = "recent"] /\ finished' = TRUE
             ELSE UNCHANGED <<jobs, finished>>
          /\ processed' = processed \cup {m}
          /\ again' = IF m \in processed THEN again \cup {m} ELSE again
    BY <1>6 DEF Accept
  <2>2. m \in Event /\ WireTypes'
    BY <1>6, <2>1, ArrivingTypes DEF Accept, Consume, WireTypes
  <2>3. marks' \in Mark /\ persisting' \in SUBSET Event
    BY <1>0, <2>1, <2>2 DEF CoordinatorTypes
  <2>4. Acknowledgement(c, MarkOf(m), persisting', marks') \in Acks
    BY <1>0, <2>2, <2>3, AcknowledgementType
  <2>5. sinceAck' \in Nat /\ acks' \in SUBSET Acks
    <3>1. sinceAck' = sinceAck + 1 \/ sinceAck' = 0
      BY <2>1
    <3>2. acks' = acks \/ acks' = acks \cup {Acknowledgement(c, MarkOf(m), persisting', marks')}
      BY <2>1
    <3> QED
      BY <2>4, <3>1, <3>2 DEF CoordinatorTypes
  <2>6. jobs' \in [Conns -> {"closed", "none", "active", "recent"}]
    BY <2>1 DEF CoordinatorTypes
  <2>7. CoordinatorTypes'
    BY <1>6, <2>3, <2>5, <2>6 DEF Accept, CoordinatorTypes
  <2>8. finished' \in BOOLEAN
    BY <2>1, Zenon DEF HistoryTypes
  <2>9. HistoryTypes'
    BY <1>6, <2>1, <2>2, <2>8 DEF Accept, HistoryTypes, counters
  <2> QED
    BY <1>6, <2>2, <2>7, <2>9, Unchanged DEF Accept
<1>7. ASSUME NEW c \in Conns, HandleAckRequest(c) PROVE TypeOK'
  <2>1. PICK m \in Arriving(c) :
          /\ Consume(c) /\ ~IsEvent(m)
          /\ \/ /\ sinceAck' = 0
                /\ acks' = acks \cup {Acknowledgement(c, [last EXCEPT !.seq = Min2(@, m.seq)],
                                                      persisting, marks)}
             \/ UNCHANGED <<sinceAck, acks>>
    BY <1>7 DEF HandleAckRequest
  <2>2. m \in WireMessage /\ WireTypes'
    BY <1>7, <2>1, ArrivingTypes DEF HandleAckRequest, Consume, WireTypes
  <2>3. m.seq \in 0..MaxSeq
    BY <2>2 DEF WireMessage, Event
  <2>4. [last EXCEPT !.seq = Min2(@, m.seq)] \in Mark
    BY <1>0, <2>3 DEF Mark, Min2
  <2>5. Acknowledgement(c, [last EXCEPT !.seq = Min2(@, m.seq)], persisting, marks) \in Acks
    BY <2>4, AcknowledgementType DEF CoordinatorTypes
  <2>6. sinceAck' \in Nat /\ acks' \in SUBSET Acks
    BY <2>1, <2>5 DEF CoordinatorTypes
  <2>7. CoordinatorTypes'
    BY <1>7, <2>6 DEF HandleAckRequest, CoordinatorTypes, durableVars
  <2> QED
    BY <1>7, <2>2, <2>7, Unchanged DEF HandleAckRequest, durableVars
<1>8. CASE Persist
  <2>1. CoordinatorTypes'
    BY <1>8 DEF Persist, CoordinatorTypes
  <2>2. faults' \in 0..MaxFaults
    BY <1>8, FaultType DEF Persist, HistoryTypes
  <2>3. durable' \in SUBSET Event /\ excused' \in SUBSET Event
    BY <1>8 DEF Persist, CoordinatorTypes, HistoryTypes
  <2>4. HistoryTypes'
    BY <1>8, <2>2, <2>3 DEF Persist, HistoryTypes
  <2> QED
    BY <1>8, <2>1, <2>4, Unchanged DEF Persist
<1>9. CASE StoreMark
  <2>1. CoordinatorTypes'
    BY <1>9, IdleTypes DEF StoreMark, CoordinatorTypes
  <2>2. HistoryTypes'
    BY <1>9, FaultType DEF StoreMark, HistoryTypes, historyVars
  <2> QED
    BY <1>9, <2>1, <2>2, Unchanged DEF StoreMark
<1>10. CASE SendAck
  <2>1. PICK a \in acks :
          /\ acks' = acks \ {a}
          /\ down' = IF jobs[a.conn] = "closed" THEN down
                     ELSE Sent(a.conn, [type |-> "ack", exec |-> a.mark.exec, seq |-> a.mark.seq])
    BY <1>10 DEF SendAck
  <2> DEFINE m == [type |-> "ack", exec |-> a.mark.exec, seq |-> a.mark.seq]
  <2>2. a.conn \in Conns /\ m \in Reply
    BY DEF CoordinatorTypes, Reply, Mark
  <2>3. down[a.conn] \in Seq(Reply) /\ Append(down[a.conn], m) \in Seq(Reply)
    BY <2>2, ElementsOfAppend DEF WireTypes
  <2>4. Sent(a.conn, m) \in [Conns -> Seq(Reply)]
    BY <2>3, Update DEF Sent, WireTypes
  <2>5. WireTypes'
    BY <1>10, <2>1, <2>4 DEF SendAck, WireTypes
  <2>6. CoordinatorTypes'
    BY <1>10, <2>1 DEF SendAck, CoordinatorTypes, durableVars
  <2> QED
    BY <1>10, <2>5, <2>6, Unchanged DEF SendAck, durableVars
<1>11. CASE Hibernate
  <2>1. CoordinatorTypes'
    BY <1>11 DEF Hibernate, CoordinatorTypes, durableVars
  <2> QED
    BY <1>11, <2>1, Unchanged DEF Hibernate, durableVars
<1>12. CASE CoordinatorRestarts
  <2>1. WireTypes'
    BY <1>12, <<>> \in Seq(WireMessage) DEF CoordinatorRestarts, WireTypes
  <2>2. CoordinatorTypes'
    BY <1>12, IdleTypes DEF CoordinatorRestarts, CoordinatorTypes, durableVars
  <2>3. HistoryTypes'
    BY <1>12, FaultType DEF CoordinatorRestarts, HistoryTypes, durableVars, historyVars
  <2> QED
    BY <1>12, <2>1, <2>2, <2>3, Unchanged DEF CoordinatorRestarts
<1> QED
  BY <1>1, <1>2, <1>3, <1>4, <1>5, <1>6, <1>7, <1>8, <1>9, <1>10, <1>11, <1>12 DEF CoordinatorStep

\* Every reachable state is well typed: every mark, sequence number and connection stays within its
\* range, and only events are queued, carried, kept and persisted.
THEOREM TypeCorrect == Spec => []TypeOK
<1>1. TypeOK /\ [Next]_vars => TypeOK'
  <2> SUFFICES ASSUME TypeOK, [Next]_vars PROVE TypeOK'
    OBVIOUS
  <2>1. CASE Next
    BY <2>1, AgentStepTypes, CoordinatorStepTypes DEF Next
  <2>2. CASE UNCHANGED vars
    BY <2>2, Unchanged DEF vars, TypeOK, durableVars
  <2> QED
    BY <2>1, <2>2
<1> QED
  BY InitTypes, <1>1, PTL DEF Spec

----------------------------------------------------------------------------
(* Nothing is forgotten. A new execution starts a log of its own, so the   *)
(* invariant needs to know that none of its events exist yet.              *)

\* No event, and no log, is of an execution still to come.
ExecsBounded == log.exec <= execs /\ \A e \in emitted : e.exec <= execs

\* A write loop does not outlive its connection: what it was on has moved to failing.
WriterClosed == open \/ writer.cur = NoEvent

Inv == TypeOK /\ ExecsBounded /\ WriterClosed /\ NothingForgotten

\* The initial state satisfies the invariant.
LEMMA InitInv == Init => Inv
<1> SUFFICES ASSUME Init PROVE Inv
  OBVIOUS
<1>1. ExecsBounded /\ NothingForgotten
  BY DEF Init, NoLog, ExecsBounded, NothingForgotten
<1>2. WriterClosed
  BY DEF Init, IdleWriter, WriterClosed
<1> QED
  BY <1>1, <1>2, InitTypes DEF Inv

\* What the invariant says about the pieces the steps handle.
LEMMA InvFacts ==
  ASSUME Inv
  PROVE  /\ TypeOK /\ ExecsBounded /\ WriterClosed /\ NothingForgotten /\ log \in LogType
         /\ queue \in Seq(Event) /\ carry \in Seq(Event) /\ writer.todo \subseteq Event
         /\ writer.cur \in Event \cup {NoEvent} /\ execs \in Nat
         /\ \A f \in failing : f.msg \in Event
         /\ \A e \in emitted : e \in Event /\ e.exec \in Nat /\ e.exec >= 1 /\ e.seq \in Nat
<1>1. AgentTypes /\ HistoryTypes
  BY DEF Inv, TypeOK
<1>2. log \in LogType /\ queue \in Seq(Event) /\ carry \in Seq(Event)
  BY <1>1 DEF AgentTypes, LogType
<1>3. /\ writer.todo \subseteq Event /\ writer.cur \in Event \cup {NoEvent}
      /\ \A f \in failing : f.msg \in Event
  BY <1>1 DEF AgentTypes
<1>4. execs \in Nat /\ emitted \subseteq Event
  BY <1>1, DeliveryAssumption DEF HistoryTypes
<1>5. \A e \in Event : e.exec \in Nat /\ e.exec >= 1 /\ e.seq \in Nat
  BY DeliveryAssumption DEF Event, Execs
<1> QED
  BY <1>2, <1>3, <1>4, <1>5 DEF Inv

\* A step preserves the invariant when it starts no execution, emits nothing, acknowledges nothing
\* that is not let go of, and whatever leaves one place the agent holds it in is in another.
LEMMA HeldSuffices ==
  ASSUME Inv, TypeOK', execs' = execs, emitted' = emitted,
         log'.exec = log.exec, log'.acked >= log.acked,
         \A e \in Held \cap Event : e.exec = log.exec /\ e.seq > log'.acked => e \in Held'
  PROVE  ExecsBounded' /\ NothingForgotten'
<1>1. ExecsBounded'
  BY InvFacts DEF ExecsBounded
<1>2. ASSUME NEW e \in emitted, e.exec = log.exec, e.seq > log'.acked PROVE e \in Held'
  <2>1. e \in Event /\ e.seq \in Int /\ log.acked \in Int
    BY InvFacts, DeliveryAssumption DEF LogType
  <2>2. log'.acked \in Int
    BY DeliveryAssumption DEF TypeOK, AgentTypes
  <2>3. e \in Held
    BY <1>2, <2>1, <2>2, InvFacts DEF NothingForgotten
  <2> QED
    BY <1>2, <2>1, <2>3
<1> QED
  BY <1>1, <1>2 DEF NothingForgotten

\* Steps that touch nothing the agent holds, and at most give up on more events.
LEMMA NotTouched ==
  ASSUME Inv, excused \subseteq excused', execs' = execs,
         UNCHANGED <<log, queue, carry, failing, writer, emitted>>
  PROVE  ExecsBounded' /\ NothingForgotten'
<1>1. Held \subseteq Held'
  BY DEF Held, Elements
<1> QED
  BY <1>1 DEF Inv, ExecsBounded, NothingForgotten

\* Taking the head of the queue or of the carried messages out of it leaves the rest there.
LEMMA TakeNext ==
  ASSUME Inv, NEW e,
         \/ e \in writer.todo /\ UNCHANGED <<carry, queue>>
         \/ carry # <<>> /\ e = Head(carry) /\ carry' = Tail(carry) /\ UNCHANGED queue
         \/ queue # <<>> /\ e = Head(queue) /\ queue' = Tail(queue) /\ UNCHANGED carry
  PROVE  /\ e \in Event
         /\ Elements(queue) \cup Elements(carry) \subseteq
              Elements(queue') \cup Elements(carry') \cup {e}
<1>1. CASE e \in writer.todo /\ UNCHANGED <<carry, queue>>
  BY <1>1, InvFacts DEF Elements
<1>2. CASE carry # <<>> /\ e = Head(carry) /\ carry' = Tail(carry) /\ UNCHANGED queue
  <2>1. e \in Event /\ Elements(carry) = {e} \cup Elements(carry')
    BY <1>2, InvFacts, ElementsOfTail
  <2>2. Elements(queue') = Elements(queue)
    BY <1>2 DEF Elements
  <2> QED
    BY <2>1, <2>2
<1>3. CASE queue # <<>> /\ e = Head(queue) /\ queue' = Tail(queue) /\ UNCHANGED carry
  <2>1. e \in Event /\ Elements(queue) = {e} \cup Elements(queue')
    BY <1>3, InvFacts, ElementsOfTail
  <2>2. Elements(carry') = Elements(carry)
    BY <1>3 DEF Elements
  <2> QED
    BY <2>1, <2>2
<1> QED
  BY <1>1, <1>2, <1>3

\* Recording a written event moves it into the log, or to the events the log gives up on.
LEMMA RecordingHolds ==
  ASSUME Inv, NEW e \in Event, log' = written(log, e, TRUE), excused' = excused \cup Trimmed(log, e)
  PROVE  /\ log'.exec = log.exec /\ log'.acked = log.acked
         /\ log.unacked \subseteq log'.unacked \cup excused'
         /\ e.exec = log.exec /\ e.seq > log.acked => e \in log'.unacked \cup excused'
BY InvFacts, WrittenType, WrittenKeeps, TRUE \in BOOLEAN

\* A message that stays with the write loop of a closed connection is held there.
LEMMA FailingAdded ==
  ASSUME NEW e, NEW b, failing' = failing \cup {[msg |-> e, sent |-> b]}
  PROVE  {f.msg : f \in failing} \cup {e} \subseteq {f.msg : f \in failing'}
<1>1. [msg |-> e, sent |-> b] \in failing' /\ [msg |-> e, sent |-> b].msg = e
  OBVIOUS
<1>2. failing \subseteq failing'
  OBVIOUS
<1> QED
  BY <1>1, <1>2

\* The agent's own steps keep hold of every unacknowledged event.
LEMMA AgentKeepsHold ==
  ASSUME Inv, TypeOK',
         \/ \E kind \in Kinds : Emit(kind)
         \/ RunnerExits \/ GiveUp \/ gc \/ AgentRestarts \/ AgentStep
  PROVE  ExecsBounded' /\ WriterClosed' /\ NothingForgotten'
<1>1. ASSUME NEW kind \in Kinds, Emit(kind) PROVE ExecsBounded' /\ WriterClosed' /\ NothingForgotten'
  <2> DEFINE e == [exec |-> log.exec, seq |-> log.next + 1, kind |-> kind]
  <2>1. /\ log'.exec = log.exec /\ log'.acked = log.acked /\ log'.unacked = log.unacked
        /\ queue' = Append(queue, e) /\ emitted' = emitted \cup {e} /\ execs' = execs
        /\ UNCHANGED <<carry, failing, open, writer, excused>>
    BY <1>1, InvFacts DEF Emit, LogType, counters
  <2>2. e \in Event
    BY <2>1 DEF TypeOK, HistoryTypes
  <2>3. Elements(queue') = Elements(queue) \cup {e}
    BY <2>1, <2>2, InvFacts, ElementsOfAppend
  <2>4. Held' = Held \cup {e}
    BY <2>1, <2>3 DEF Held, Elements
  <2>5. NothingForgotten'
    BY <2>1, <2>4, InvFacts DEF NothingForgotten
  <2>6. ExecsBounded' /\ WriterClosed'
    BY <2>1, InvFacts DEF ExecsBounded, WriterClosed
  <2> QED
    BY <2>5, <2>6
<1>2. CASE RunnerExits
  BY <1>2, NotTouched DEF RunnerExits, counters, historyVars, Inv, WriterClosed
<1>3. CASE GiveUp
  <2>1. /\ queue # <<>> /\ log' = written(log, Head(queue), FALSE)
        /\ excused' = excused \cup {Head(queue)} /\ queue' = Tail(queue)
        /\ UNCHANGED <<carry, failing, open, writer, emitted, execs>>
    BY <1>3 DEF GiveUp
  <2>2. Head(queue) \in Event /\ Elements(queue) = {Head(queue)} \cup Elements(queue')
    BY <2>1, InvFacts, ElementsOfTail
  <2>3. log'.exec = log.exec /\ log'.acked = log.acked /\ log'.unacked = log.unacked
    BY <2>1, <2>2, InvFacts, WrittenType, GivenUpKeeps, FALSE \in BOOLEAN
  <2>4. Held \subseteq Held'
    BY <2>1, <2>2, <2>3, ZenonT(30) DEF Held, Elements
  <2> QED
    BY <2>1, <2>3, <2>4, InvFacts DEF ExecsBounded, WriterClosed, NothingForgotten
<1>4. ASSUME gc \/ AgentRestarts PROVE ExecsBounded' /\ WriterClosed' /\ NothingForgotten'
  <2>1. /\ log'.exec = 0 /\ emitted' = emitted /\ execs' = execs
        /\ UNCHANGED <<open, writer>> \/ writer'.cur = NoEvent
    BY <1>4 DEF gc, AgentRestarts, NoLog, IdleWriter, counters, historyVars
  <2> QED
    BY <2>1, InvFacts DEF ExecsBounded, WriterClosed, NothingForgotten
<1>5. CASE Connect
  <2>1. /\ writer'.cur = NoEvent /\ execs' = execs /\ ~open
        /\ UNCHANGED <<log, queue, carry, failing, emitted, excused>>
    BY <1>5 DEF Connect, IdleWriter, historyVars
  <2>2. Held' = Held
    BY <2>1, InvFacts DEF Held, Elements, WriterClosed
  <2> QED
    BY <2>1, <2>2, InvFacts DEF ExecsBounded, WriterClosed, NothingForgotten
<1>6. CASE Write
  <2>1. PICK e : NextOut(e)
    BY <1>6 DEF Write
  <2>2. /\ open' /\ writer.cur = NoEvent /\ writer'.cur = e /\ execs' = execs
        /\ UNCHANGED <<log, failing, emitted, excused>>
    BY <1>6, <2>1, InvFacts DEF Write, NextOut, counters, historyVars, Inv, TypeOK, AgentTypes
  <2>3. Elements(queue) \cup Elements(carry) \subseteq Elements(queue') \cup Elements(carry') \cup {e}
    BY <2>1, TakeNext DEF NextOut
  <2>4. Held \cap Event \subseteq Held'
    BY <2>2, <2>3, NoEventIsNone DEF Held
  <2>5. log'.acked >= log.acked
    BY <2>2, InvFacts, DeliveryAssumption DEF LogType
  <2> QED
    BY <2>2, <2>4, <2>5, HeldSuffices DEF WriterClosed
<1>7. CASE RecordWritten
  <2>1. /\ writer.cur \in Event /\ writer'.cur = NoEvent /\ execs' = execs
        /\ log' = written(log, writer.cur, TRUE) /\ excused' = excused \cup Trimmed(log, writer.cur)
        /\ UNCHANGED <<queue, carry, failing, emitted>>
    BY <1>7, InvFacts DEF RecordWritten, counters, Inv, TypeOK, AgentTypes
  <2>2. /\ log'.exec = log.exec /\ log'.acked = log.acked
        /\ log.unacked \subseteq log'.unacked \cup excused'
        /\ writer.cur.exec = log.exec /\ writer.cur.seq > log.acked =>
             writer.cur \in log'.unacked \cup excused'
    BY <2>1, RecordingHolds
  <2>3. \A e \in Held \cap Event : e.exec = log.exec /\ e.seq > log'.acked => e \in Held'
    BY <2>1, <2>2 DEF Held, Elements
  <2>4. log'.acked >= log.acked
    BY <2>2, InvFacts, DeliveryAssumption DEF LogType
  <2> QED
    BY <2>1, <2>2, <2>3, <2>4, HeldSuffices DEF WriterClosed
<1>8. CASE RequestAck
  <2>1. /\ writer'.cur = writer.cur /\ execs' = execs
        /\ UNCHANGED <<log, queue, carry, failing, open, emitted, excused>>
    BY <1>8 DEF RequestAck, counters, historyVars, Inv, TypeOK, AgentTypes
  <2>2. Held' = Held
    BY <2>1 DEF Held, Elements
  <2> QED
    BY <2>1, <2>2, InvFacts DEF ExecsBounded, WriterClosed, NothingForgotten
<1>9. CASE AgentCloses
  <2>1. writer' = IdleWriter /\ execs' = execs /\ UNCHANGED <<log, emitted, excused>>
    BY <1>9 DEF AgentCloses, counters, historyVars
  <2>2. Held \cap Event \subseteq Held'
    <3>1. CASE /\ failing' = IF writer.cur = NoEvent THEN failing
                             ELSE failing \cup {[msg |-> writer.cur, sent |-> TRUE]}
               /\ UNCHANGED <<carry, queue>>
      <4>1. ({f.msg : f \in failing} \cup {writer.cur}) \cap Event \subseteq {f.msg : f \in failing'}
        BY <3>1, FailingAdded, NoEventIsNone
      <4>2. Elements(queue') = Elements(queue) /\ Elements(carry') = Elements(carry)
        BY <3>1 DEF Elements
      <4> QED
        BY <2>1, <4>1, <4>2 DEF Held
    <3>2. CASE /\ writer.cur = NoEvent
               /\ \E e : /\ Elements(queue) \cup Elements(carry) \subseteq
                              Elements(queue') \cup Elements(carry') \cup {e}
                         /\ failing' = failing \cup {[msg |-> e, sent |-> FALSE]}
      <4>1. PICK e : /\ Elements(queue) \cup Elements(carry) \subseteq
                          Elements(queue') \cup Elements(carry') \cup {e}
                     /\ failing' = failing \cup {[msg |-> e, sent |-> FALSE]}
        BY <3>2
      <4>2. {f.msg : f \in failing} \cup {e} \subseteq {f.msg : f \in failing'}
        BY <4>1, FailingAdded
      <4> QED
        BY <2>1, <3>2, <4>1, <4>2, NoEventIsNone DEF Held
    <3> QED
      BY <1>9, <3>1, <3>2, TakeNext DEF AgentCloses
  <2>3. log'.acked >= log.acked
    BY <2>1, InvFacts, DeliveryAssumption DEF LogType
  <2> QED
    BY <2>1, <2>2, <2>3, HeldSuffices DEF WriterClosed, IdleWriter
<1>10. CASE OldWriteReturns
  <2>1. PICK f \in failing :
          /\ failing' = failing \ {f}
          /\ \/ /\ log' = written(log, f.msg, TRUE)
                /\ excused' = excused \cup Trimmed(log, f.msg)
                /\ UNCHANGED carry
             \/ /\ carry' = IF kept(log, f.msg) THEN carry ELSE Append(carry, f.msg)
                /\ UNCHANGED <<log, excused>>
          /\ execs' = execs /\ UNCHANGED <<queue, open, writer, emitted>>
    BY <1>10 DEF OldWriteReturns, counters
  <2>2. f.msg \in Event /\ {g.msg : g \in failing} \subseteq {g.msg : g \in failing'} \cup {f.msg}
    BY <2>1, InvFacts
  <2>3. CASE /\ log' = written(log, f.msg, TRUE) /\ excused' = excused \cup Trimmed(log, f.msg)
             /\ UNCHANGED carry
    <3>1. /\ log'.exec = log.exec /\ log'.acked = log.acked
          /\ log.unacked \subseteq log'.unacked \cup excused'
          /\ f.msg.exec = log.exec /\ f.msg.seq > log.acked => f.msg \in log'.unacked \cup excused'
      BY <2>2, <2>3, RecordingHolds
    <3>2. \A e \in Held \cap Event : e.exec = log.exec /\ e.seq > log'.acked => e \in Held'
      BY <2>1, <2>2, <2>3, <3>1 DEF Held, Elements
    <3>3. log'.acked >= log.acked
      BY <3>1, InvFacts, DeliveryAssumption DEF LogType
    <3> QED
      BY <2>1, <3>1, <3>2, <3>3, HeldSuffices, InvFacts DEF WriterClosed
  <2>4. CASE /\ carry' = IF kept(log, f.msg) THEN carry ELSE Append(carry, f.msg)
             /\ UNCHANGED <<log, excused>>
    <3>1. Elements(carry) \subseteq Elements(carry')
      BY <2>2, <2>4, InvFacts, ElementsOfAppend
    <3>2. f.msg.exec = log.exec /\ f.msg.seq > log.acked => f.msg \in Elements(carry') \cup log.unacked
      <4>1. CASE kept(log, f.msg)
        BY <2>2, <4>1, InvFacts, DeliveryAssumption DEF kept, LogType, Event
      <4>2. CASE ~kept(log, f.msg)
        BY <2>2, <2>4, <4>2, InvFacts, ElementsOfAppend
      <4> QED
        BY <4>1, <4>2
    <3>3. \A e \in Held \cap Event : e.exec = log.exec /\ e.seq > log'.acked => e \in Held'
      BY <2>1, <2>2, <2>4, <3>1, <3>2 DEF Held, Elements
    <3>4. log'.acked >= log.acked
      BY <2>4, InvFacts, DeliveryAssumption DEF LogType
    <3> QED
      BY <2>1, <2>4, <3>3, <3>4, HeldSuffices, InvFacts DEF WriterClosed
  <2> QED
    BY <2>1, <2>3, <2>4
<1>11. CASE AgentReceives
  <2> DEFINE m == Head(down[conn])
  <2>1. UNCHANGED <<queue, carry, failing, open, writer, emitted, excused>>
    BY <1>11 DEF AgentReceives, historyVars
  <2>2. WriterClosed'
    BY <2>1, InvFacts DEF WriterClosed
  <2>3. CASE log' = ack(log, m) /\ execs' = execs
    <3>1. m \in Reply
      <4>1. conn \in Conns /\ down[conn] \in Seq(Reply) /\ down[conn] # <<>>
        BY <1>11 DEF AgentReceives, Inv, TypeOK, AgentTypes, WireTypes, Conns
      <4> QED
        BY <4>1, ElementsOfTail
    <3>2. /\ log'.exec = log.exec /\ log'.acked >= log.acked
          /\ \A e \in log.unacked : e.seq > log'.acked => e \in log'.unacked
      BY <2>3, <3>1, AckType, InvFacts
    <3>3. \A e \in Held \cap Event : e.exec = log.exec /\ e.seq > log'.acked => e \in Held'
      BY <2>1, <3>2 DEF Held, Elements
    <3> QED
      BY <2>1, <2>2, <2>3, <3>2, <3>3, HeldSuffices
  <2>4. CASE log' = [NoLog EXCEPT !.exec = execs + 1] /\ execs' = execs + 1
    <3>1. log'.exec = execs + 1
      BY <2>4 DEF NoLog
    <3>2. \A e \in emitted : e.exec # log'.exec
      BY <3>1, InvFacts DEF ExecsBounded
    <3>3. NothingForgotten'
      BY <2>1, <3>2 DEF NothingForgotten
    <3>4. ExecsBounded'
      BY <2>1, <2>4, <3>1, InvFacts DEF ExecsBounded
    <3> QED
      BY <2>2, <3>3, <3>4
  <2>5. CASE UNCHANGED <<log, execs>>
    BY <2>1, <2>2, <2>5, NotTouched
  <2> QED
    BY <1>11, <2>3, <2>4, <2>5 DEF AgentReceives
<1> QED
  BY <1>1, <1>2, <1>3, <1>4, <1>5, <1>6, <1>7, <1>8, <1>9, <1>10, <1>11 DEF AgentStep

\* No step of the coordinator or of the connections touches what the agent holds.
LEMMA CoordinatorKeepsHold ==
  ASSUME Inv,
         \/ CoordinatorStep \/ Break \/ Hibernate \/ CoordinatorRestarts
         \/ \E c \in Conns : Dispatch(c)
  PROVE  ExecsBounded' /\ WriterClosed' /\ NothingForgotten'
<1>1. UNCHANGED <<agentVars, emitted, execs>> /\ excused \subseteq excused'
  BY DEF CoordinatorStep, Break, Hibernate, CoordinatorRestarts, Dispatch, CoordinatorCloses, Refuse,
         DropDuplicate, Accept, HandleAckRequest, Persist, StoreMark, SendAck, counters, historyVars
<1> QED
  BY <1>1, NotTouched DEF agentVars, Inv, WriterClosed

\* Every step keeps the invariant.
LEMMA InvKept == Inv /\ [Next]_vars => Inv'
<1> SUFFICES ASSUME Inv, [Next]_vars PROVE Inv'
  OBVIOUS
<1>1. CASE Next
  <2>1. TypeOK'
    BY <1>1, AgentStepTypes, CoordinatorStepTypes DEF Next, Inv
  <2> QED
    BY <1>1, <2>1, AgentKeepsHold, CoordinatorKeepsHold DEF Next, Inv
<1>2. CASE UNCHANGED vars
  <2>1. TypeOK'
    BY <1>2, Unchanged DEF vars, Inv, TypeOK, durableVars
  <2> QED
    BY <1>2, <2>1, NotTouched DEF vars, agentVars, counters, historyVars, Inv, WriterClosed
<1> QED
  BY <1>1, <1>2

\* In every reachable state the agent holds each event of the execution in progress that was not
\* acknowledged: whatever connections and processes do, none is lost between queue, write loops and log.
THEOREM NothingIsForgotten == Spec => []NothingForgotten
<1>1. Inv => NothingForgotten
  BY DEF Inv
<1> QED
  BY InitInv, InvKept, <1>1, PTL DEF Spec

----------------------------------------------------------------------------
(* An event is accepted as new once, as long as events of one execution    *)
(* arrive: the mark, in memory or stored, has passed every event accepted. *)

\* Every event accepted is of the last mark's execution and not past it, or two executions were mixed.
PastTheMark ==
  \/ \E e, f \in processed : e.exec # f.exec
  \/ again = {} /\ \A e \in processed : last.exec = e.exec /\ e.seq <= last.seq

\* A step that moves neither the mark nor the events accepted keeps it.
LEMMA SameMark ==
  ASSUME PastTheMark, last' = last, processed' = processed, again' = again
  PROVE  PastTheMark'
<1>1. CASE \E e, f \in processed : e.exec # f.exec
  BY <1>1 DEF PastTheMark
<1>2. CASE again = {} /\ \A e \in processed : last.exec = e.exec /\ e.seq <= last.seq
  BY <1>2 DEF PastTheMark
<1> QED
  BY <1>1, <1>2 DEF PastTheMark

\* An event is accepted as new once, however often it is replayed, while the tracker loses nothing but by
\* hibernation and the events accepted are of one execution.
THEOREM AcceptedOnce ==
  ASSUME Faults \cap {"coordRestart", "putFails"} = {}
  PROVE  Spec => []NeverProcessedTwice
<1> DEFINE J == TypeOK /\ PastTheMark
<1>1. Init => J
  BY InitTypes DEF Init, PastTheMark
<1>2. J /\ [Next]_vars => J'
  <2> SUFFICES ASSUME J, [Next]_vars PROVE J'
    OBVIOUS
  <2>1. TypeOK'
    <3>1. CASE Next
      BY <3>1, AgentStepTypes, CoordinatorStepTypes DEF Next
    <3>2. CASE UNCHANGED vars
      BY <3>2, Unchanged DEF vars, TypeOK, durableVars
    <3> QED
      BY <3>1, <3>2
  <2>2. CASE UNCHANGED <<marks, stored, processed, again>>
    <3>1. last' = last /\ processed' = processed /\ again' = again
      BY <2>2 DEF last
    <3> QED
      BY <2>1, <3>1, SameMark
  <2>3. ASSUME NEW c \in Conns, Accept(c) PROVE PastTheMark'
    <3>1. PICK m \in Arriving(c) :
            /\ IsEvent(m) /\ ~IsDuplicate(m) /\ marks' = MarkOf(m)
            /\ processed' = processed \cup {m}
            /\ again' = IF m \in processed THEN again \cup {m} ELSE again
      BY <2>3 DEF Accept
    <3>2. m \in Event
      BY <3>1, ArrivingTypes DEF TypeOK
    <3>3. last' = MarkOf(m)
      BY <3>1, <3>2, DeliveryAssumption DEF last, MarkOf, NoMark, Event, Execs
    <3>4. \A e \in processed : e \in Event
      BY DEF TypeOK, HistoryTypes
    <3>5. last \in Mark
      BY DEF TypeOK, CoordinatorTypes, last
    <3>6. CASE \E e, f \in processed : e.exec # f.exec
      BY <3>1, <3>6 DEF PastTheMark
    <3>7. CASE again = {} /\ \A e \in processed : last.exec = e.exec /\ e.seq <= last.seq
      <4>1. CASE \E e \in processed : e.exec # m.exec
        BY <3>1, <4>1 DEF PastTheMark
      <4>2. CASE \A e \in processed : e.exec = m.exec
        <5>1. ASSUME NEW e \in processed PROVE e.seq < m.seq
          <6>1. last.exec = m.exec /\ e.seq <= last.seq
            BY <3>7, <4>2, <5>1
          <6>2. ~(m.seq <= last.seq)
            BY <3>1, <6>1 DEF IsDuplicate
          <6>3. e.seq \in Int /\ m.seq \in Int /\ last.seq \in Int
            BY <3>2, <3>4, <3>5, DeliveryAssumption DEF Event, Mark
          <6> QED
            BY <6>1, <6>2, <6>3
        <5>2. m.seq \in Int /\ \A e \in processed : e.seq \in Int
          BY <3>2, <3>4, DeliveryAssumption DEF Event
        <5>3. m \notin processed
          BY <5>1, <5>2
        <5>4. last'.exec = m.exec /\ last'.seq = m.seq
          BY <3>3 DEF MarkOf
        <5> QED
          BY <3>1, <3>7, <4>2, <5>1, <5>2, <5>3, <5>4 DEF PastTheMark
      <4> QED
        BY <4>1, <4>2
    <3> QED
      BY <3>6, <3>7 DEF PastTheMark
  <2>4. CASE StoreMark
    <3>1. marks # NoMark /\ marks' = NoMark /\ stored' = marks /\ UNCHANGED <<processed, again>>
      BY <2>4 DEF StoreMark, Fault, historyVars
    <3>2. last' = last /\ processed' = processed /\ again' = again
      BY <3>1 DEF last
    <3> QED
      BY <2>1, <3>2, SameMark
  <2>5. ~CoordinatorRestarts
    BY DEF CoordinatorRestarts, Fault
  <2>6. CASE \/ \E kind \in Kinds : Emit(kind)
             \/ RunnerExits \/ GiveUp \/ gc \/ AgentRestarts \/ Break \/ AgentStep \/ Hibernate
             \/ \E c \in Conns : Dispatch(c)
    <3>1. UNCHANGED <<marks, stored, processed, again>>
      BY <2>6 DEF Emit, RunnerExits, GiveUp, gc, AgentRestarts, Break, AgentStep, Hibernate, Dispatch,
                  Connect, Write, RecordWritten, RequestAck, AgentCloses, OldWriteReturns, AgentReceives,
                  memoryVars, durableVars, historyVars
    <3> QED
      BY <2>2, <3>1
  <2>7. CASE \/ \E c \in Conns : CoordinatorCloses(c) \/ Refuse(c) \/ DropDuplicate(c) \/ HandleAckRequest(c)
             \/ Persist \/ SendAck
    <3>1. UNCHANGED <<marks, stored, processed, again>>
      BY <2>7 DEF CoordinatorCloses, Refuse, DropDuplicate, HandleAckRequest, Persist, SendAck,
                  memoryVars, durableVars, historyVars
    <3> QED
      BY <2>2, <3>1
  <2>8. CASE UNCHANGED vars
    BY <2>2, <2>8 DEF vars, memoryVars, durableVars, historyVars
  <2> QED
    BY <2>1, <2>3, <2>4, <2>5, <2>6, <2>7, <2>8 DEF Next, CoordinatorStep
<1>3. J => NeverProcessedTwice
  BY DEF PastTheMark, NeverProcessedTwice
<1> QED
  BY <1>1, <1>2, <1>3, PTL DEF Spec

----------------------------------------------------------------------------
(* Operators of the log.                                                   *)

\* Trimming leaves at most MaxUnacked events, and a log within the limit as it is.
LEMMA TrimBounded ==
  ASSUME NEW u \in SUBSET Event, IsFiniteSet(u)
  PROVE  /\ IsFiniteSet(Trim(u)) /\ Cardinality(Trim(u)) <= MaxUnacked
         /\ Cardinality(u) <= MaxUnacked => Trim(u) = u
<1>1. Cardinality(u) \in Nat /\ MaxUnacked \in Nat \ {0}
  BY FS_CardinalityType, DeliveryAssumption
<1>2. CASE Cardinality(u) <= MaxUnacked
  BY <1>1, <1>2 DEF Trim
<1>3. CASE Cardinality(u) > MaxUnacked
  <2> DEFINE Above(s) == {f \in u : f.seq >= s}
             T == {e \in u : Cardinality(Above(e.seq)) <= MaxUnacked \div 2}
             S == {e.seq : e \in T}
  <2>1. Trim(u) = T
    BY <1>3 DEF Trim
  <2>2. CASE T = {}
    <3>1. Trim(u) = {} /\ ~(Cardinality(u) <= MaxUnacked)
      BY <1>1, <1>3, <2>1, <2>2
    <3> QED
      BY <1>1, <3>1, FS_EmptySet
  <2>3. CASE T # {}
    <3>0. \A e \in u : e.seq \in Nat
      BY DeliveryAssumption DEF Event
    <3>1. S \subseteq Nat /\ S # {}
      BY <2>3, <3>0
    <3>2. PICK n \in S : \A x \in S : ~(<<x, n>> \in OpToRel(<, Nat))
      BY <3>1, NatLessThanWellFounded, WFMin
    <3>3. PICK t \in T : n = t.seq
      OBVIOUS
    <3>4. ASSUME NEW e \in T PROVE e.seq >= n
      <4>1. e.seq \in S /\ e.seq \in Nat /\ n \in Nat
        BY <3>1
      <4>2. ~(<<e.seq, n>> \in OpToRel(<, Nat))
        BY <3>2, <4>1
      <4>3. ~(e.seq < n)
        BY <4>1, <4>2 DEF OpToRel
      <4> QED
        BY <4>1, <4>3
    <3>5. T \subseteq Above(n)
      BY <3>4
    <3>6. Cardinality(Above(n)) <= MaxUnacked \div 2
      BY <3>3
    <3>7. Above(n) \subseteq u
      OBVIOUS
    <3> HIDE DEF T, Above, S
    <3>8. IsFiniteSet(Above(n))
      BY <3>7, FS_Subset
    <3>9. IsFiniteSet(T) /\ Cardinality(T) <= Cardinality(Above(n))
      BY <3>5, <3>8, FS_Subset
    <3>10. Cardinality(T) \in Nat /\ Cardinality(Above(n)) \in Nat
      BY <3>8, <3>9, FS_CardinalityType
    <3>11. MaxUnacked \div 2 <= MaxUnacked /\ MaxUnacked \div 2 \in Nat
      BY <1>1
    <3> QED
      BY <1>1, <1>3, <2>1, <3>6, <3>9, <3>10, <3>11
  <2> QED
    BY <2>2, <2>3
<1> QED
  BY <1>1, <1>2, <1>3

\* What written() leaves alone, and what it may add.
LEMMA WrittenAdds ==
  ASSUME NEW l \in LogType, NEW e \in Event, NEW sent \in BOOLEAN
  PROVE  /\ written(l, e, sent).exec = l.exec /\ written(l, e, sent).next = l.next
         /\ written(l, e, sent).acked = l.acked
         /\ written(l, e, sent).unacked \subseteq l.unacked \cup {e}
         /\ e \in written(l, e, sent).unacked => e \in l.unacked \/ e.exec = l.exec
<1>1. CASE l.exec # e.exec
  BY <1>1 DEF written
<1>2. CASE l.exec = e.exec
  <2>1. Trim(l.unacked \cup {e}) \subseteq l.unacked \cup {e}
    BY TrimShrinks
  <2> QED
    BY <1>2, <2>1, WrittenFields
<1> QED
  BY <1>1, <1>2

\* What ack() leaves alone, and that what is kept stays kept.
LEMMA AckKeeps ==
  ASSUME NEW l \in LogType, NEW m \in Reply
  PROVE  /\ ack(l, m).exec = l.exec /\ ack(l, m).next = l.next
         /\ ack(l, m).unacked \subseteq l.unacked
         /\ ack(l, m).acked = l.acked \/ (l.exec = m.exec /\ ack(l, m).acked = m.seq)
         /\ \A e \in Event : kept(l, e) => kept(ack(l, m), e)
<1>1. CASE l.exec # m.exec
  BY <1>1 DEF ack
<1>2. CASE l.exec = m.exec
  <2>1. ack(l, m) = [exec |-> l.exec, next |-> l.next, written |-> l.written,
                     acked |-> Max2(l.acked, m.seq), unacked |-> {e \in l.unacked : e.seq > m.seq}]
    BY <1>2 DEF ack, LogType
  <2>2. /\ Max2(l.acked, m.seq) \in {l.acked, m.seq} /\ Max2(l.acked, m.seq) >= l.acked
        /\ Max2(l.acked, m.seq) >= m.seq /\ l.acked \in Int /\ m.seq \in Int
    BY DeliveryAssumption DEF Max2, LogType, Reply
  <2>3. \A e \in Event : e.seq \in Int
    BY DeliveryAssumption DEF Event
  <2> QED
    BY <1>2, <2>1, <2>2, <2>3 DEF kept
<1> QED
  BY <1>1, <1>2

----------------------------------------------------------------------------
(* The invariant of the ledger.                                            *)

\* The execution in progress is the latest one; its events are numbered from 1 without repetition.
Numbers ==
  /\ log.exec \in {0, execs}
  /\ \A e \in emitted : e.exec = log.exec => e.seq <= log.next
  /\ \A e, f \in emitted : e.exec = log.exec /\ f.exec = log.exec /\ e.seq = f.seq => e = f

\* No execution starts before the coordinator has dispatched the run.
DispatchFirst ==
  dispatches = 0 =>
    /\ execs = 0
    /\ \A c \in Conns : \A m \in Elements(down[c]) : m.type # "dispatch"

\* Whatever is queued, written, kept, on its way or settled was emitted.
Known ==
  /\ Elements(queue) \cup Elements(carry) \cup writer.todo \cup log.unacked \subseteq emitted
  /\ \A f \in failing : f.msg \in emitted
  /\ writer.cur \in emitted \cup {NoEvent}
  /\ \A c \in Conns : \A m \in Elements(up[c]) : IsEvent(m) => m \in emitted
  /\ excused \cup refused \cup durable \cup persisting \subseteq emitted
  /\ \A e \in log.unacked : e.exec = log.exec

\* Every event of the log l of the run up to m is in H, given the events emitted and the executions started.
Covered(m, H, l, sent, started) ==
  /\ m.exec <= started
  /\ m.exec = l.exec /\ l.exec # 0 =>
       /\ m.seq <= l.next
       /\ {e \in sent : e.exec = m.exec /\ e.seq <= m.seq} \subseteq H

\* No event of the execution in progress up to m is missing from H.
Sound(m, H) == Covered(m, H, log, emitted, execs)

Safe == Settled \cup GivenUp
Acked == [exec |-> log.exec, seq |-> log.acked]

\* What the mark in memory covers is safe or being persisted; what the stored mark and an
\* acknowledgement cover is safe once everything the acknowledgement waits for has settled.
MarksSound ==
  /\ Sound(marks, persisting \cup Safe)
  /\ Sound(stored, Safe)
  /\ \A a \in acks : Sound(a.mark, (a.covers \cap persisting) \cup Safe)
  /\ \A c \in Conns : \A m \in Elements(down[c]) : m.type = "ack" => Sound(MarkOf(m), Safe)
  /\ Sound(Acked, Safe)

\* A write loop exists while the connection is open, and at most one write of an old one has not returned.
LoopShape ==
  /\ open => failing = {}
  /\ ~open => writer = IdleWriter
  /\ \A f, g \in failing : f = g

\* The log is within its limit.
LogSmall == IsFiniteSet(log.unacked) /\ Cardinality(log.unacked) <= MaxUnacked

\* What is replayed is still kept.
ReplayKept ==
  /\ \A e \in writer.todo : e.exec = log.exec => kept(log, e)
  /\ writer.todo # {} /\ writer.cur # NoEvent /\ writer.cur.exec = log.exec => kept(log, writer.cur)

\* Nothing is on a connection not yet set up.
NothingAhead == \A c \in Conns : c > conn => up[c] = <<>>

Shape == LoopShape /\ LogSmall /\ ReplayKept /\ NothingAhead

\* The events of execution x in S are all numbered below those in T.
Ahead(S, T, x) == \A e \in S, f \in T : e.exec = x /\ f.exec = x => e.seq < f.seq

\* The events of execution x in the sequence q are numbered upwards; there is at most one in k.
InOrder(q, x) == \A i, j \in DOMAIN q : i < j /\ q[i].exec = x /\ q[j].exec = x => q[i].seq < q[j].seq
AtMostOne(k, x) == \A i, j \in DOMAIN k : k[i].exec = x /\ k[j].exec = x => i = j

\* Of the execution in progress, at most one event is carried over, and events leave in sequence: first what is
\* kept for replay, then the one carried over, then the queue. What a failed write comes back with has its place.
Written == log.unacked \cup writer.todo \cup {writer.cur}

FailedInOrder ==
  \A f \in failing :
    /\ Ahead({f.msg}, Elements(queue), log.exec)
    /\ f.sent => Ahead({f.msg}, Elements(carry), log.exec)
    /\ ~f.sent /\ f.msg.exec = log.exec /\ ~kept(log, f.msg) =>
         /\ \A g \in Elements(carry) : g.exec # log.exec
         /\ Ahead(log.unacked, {f.msg}, log.exec)

Order ==
  /\ InOrder(queue, log.exec) /\ AtMostOne(carry, log.exec)
  /\ Ahead(Written \cup Elements(carry), Elements(queue), log.exec)
  /\ Ahead(Written, Elements(carry), log.exec)
  /\ FailedInOrder

\* What has been taken care of, as seen from connection c: an event that is refused is so until the run is
\* dispatched again, unless c does not own the run.
Owner(c) == jobs[c] \in {"active", "recent"}
HandledOn(c) == persisting \cup Settled \cup (IF Owner(c) THEN GivenUp ELSE refused)

\* Every event of the execution in progress is taken care of, on its way on the connection, or still to be sent.
Reachable ==
  open /\ link[conn] =>
    \A e \in emitted : e.exec = log.exec =>
      e \in HandledOn(conn) \cup Elements(up[conn]) \cup writer.todo \cup Elements(carry) \cup Elements(queue)

\* In the messages u, an event of execution x finds its predecessors among those sent in H or ahead of it.
Predecessors(u, x, sent, H) ==
  \A i \in DOMAIN u : IsEvent(u[i]) /\ u[i].exec = x =>
    \A e \in sent : e.exec = x /\ e.seq < u[i].seq =>
      e \in H \/ \E j \in DOMAIN u : j < i /\ u[j] = e

\* On every connection an event finds its predecessors taken care of or ahead of it.
InSequence == \A c \in Conns : Predecessors(up[c], log.exec, emitted, HandledOn(c))

LedgerInv ==
  /\ Inv /\ Numbers /\ DispatchFirst /\ Known /\ MarksSound /\ Shape /\ Order /\ Reachable /\ InSequence

----------------------------------------------------------------------------
(* What a step does to the log, to what is safe and to the wire.           *)

\* A step keeps the execution and its numbers, emits the next event, forgets the log, or starts an execution.
LEMMA LogOfStep ==
  ASSUME Inv, Next
  PROVE  \/ /\ log'.exec = log.exec /\ log'.next = log.next /\ emitted' = emitted /\ execs' = execs
         \/ /\ log'.exec = log.exec /\ log.exec # 0 /\ log'.next = log.next + 1 /\ execs' = execs
            /\ \E kind \in Kinds :
                 Emit(kind) /\ emitted' = emitted \cup {[exec |-> log.exec, seq |-> log.next + 1, kind |-> kind]}
         \/ log'.exec = 0 /\ emitted' = emitted /\ execs' = execs
         \/ log'.exec = execs + 1 /\ emitted' = emitted /\ execs' = execs + 1
<1> USE DEF historyVars, counters
<1>1. ASSUME NEW kind \in Kinds, Emit(kind)
      PROVE  /\ log'.exec = log.exec /\ log.exec # 0 /\ log'.next = log.next + 1 /\ execs' = execs
             /\ emitted' = emitted \cup {[exec |-> log.exec, seq |-> log.next + 1, kind |-> kind]}
  BY <1>1, InvFacts DEF Emit, LogType
<1>2. CASE GiveUp
  <2>1. /\ queue # <<>> /\ log' = written(log, Head(queue), FALSE) /\ emitted' = emitted /\ execs' = execs
    BY <1>2 DEF GiveUp
  <2>2. Head(queue) \in Event
    BY <2>1, InvFacts, ElementsOfTail
  <2> QED
    BY <2>1, <2>2, InvFacts, WrittenAdds, FALSE \in BOOLEAN
<1>3. CASE gc \/ AgentRestarts
  BY <1>3 DEF gc, AgentRestarts, NoLog
<1>4. CASE RecordWritten
  <2>1. /\ writer.cur \in Event /\ log' = written(log, writer.cur, TRUE)
        /\ emitted' = emitted /\ execs' = execs
    BY <1>4, InvFacts DEF RecordWritten
  <2> QED
    BY <2>1, InvFacts, WrittenAdds, TRUE \in BOOLEAN
<1>5. CASE OldWriteReturns
  <2>1. PICK f \in failing :
          /\ log' = written(log, f.msg, TRUE) \/ log' = log
          /\ emitted' = emitted /\ execs' = execs
    BY <1>5 DEF OldWriteReturns
  <2>2. f.msg \in Event
    BY <2>1, InvFacts
  <2>3. written(log, f.msg, TRUE).exec = log.exec /\ written(log, f.msg, TRUE).next = log.next
    BY <2>2, InvFacts, WrittenAdds, TRUE \in BOOLEAN
  <2> QED
    BY <2>1, <2>3
<1>6. CASE AgentReceives
  <2> DEFINE m == Head(down[conn])
  <2>1. emitted' = emitted /\ open /\ down[conn] # <<>>
    BY <1>6 DEF AgentReceives
  <2>2. m \in Reply
    <3>1. conn \in Conns /\ down[conn] \in Seq(Reply)
      BY <2>1 DEF Inv, TypeOK, AgentTypes, WireTypes, Conns
    <3> QED
      BY <2>1, <3>1, ElementsOfTail
  <2>3. CASE log' = ack(log, m) /\ execs' = execs
    BY <2>1, <2>2, <2>3, AckKeeps, InvFacts
  <2>4. CASE log' = [NoLog EXCEPT !.exec = execs + 1] /\ execs' = execs + 1
    BY <2>1, <2>4 DEF NoLog
  <2>5. CASE UNCHANGED <<log, execs>>
    BY <2>1, <2>5
  <2> QED
    BY <1>6, <2>3, <2>4, <2>5 DEF AgentReceives
<1>7. CASE RunnerExits \/ Break \/ Connect \/ Write \/ RequestAck \/ AgentCloses \/ Hibernate
           \/ CoordinatorRestarts \/ \E c \in Conns : Dispatch(c)
  BY <1>7 DEF RunnerExits, Break, Connect, Write, RequestAck, AgentCloses, Hibernate, CoordinatorRestarts,
              Dispatch, agentVars
<1>8. CASE CoordinatorStep
  <2>1. ASSUME NEW c \in Conns, CoordinatorCloses(c) \/ Refuse(c) \/ DropDuplicate(c) \/ Accept(c)
                                \/ HandleAckRequest(c)
        PROVE  UNCHANGED <<log, emitted, execs>>
    BY <2>1 DEF CoordinatorCloses, Refuse, DropDuplicate, Accept, HandleAckRequest, agentVars
  <2>2. CASE Persist \/ StoreMark \/ SendAck
    BY <2>2 DEF Persist, StoreMark, SendAck, agentVars
  <2> QED
    BY <1>8, <2>1, <2>2 DEF CoordinatorStep
<1> QED
  BY <1>1, <1>2, <1>3, <1>4, <1>5, <1>6, <1>7, <1>8 DEF Next, AgentStep

\* What is safe stays safe, and what is being persisted is so until it is safe or the coordinator restarts.
LEMMA SafeGrows ==
  ASSUME Inv, Next
  PROVE  /\ Settled \subseteq Settled' /\ GivenUp \subseteq GivenUp' /\ refused \subseteq refused'
         /\ persisting \subseteq persisting' \cup Settled' \/ CoordinatorRestarts
         /\ dispatches' \in Nat /\ dispatches <= dispatches'
<1> USE DEF historyVars, counters, durableVars, memoryVars, Settled
<1>0. dispatches \in Nat
  BY DeliveryAssumption DEF Inv, TypeOK, HistoryTypes
<1>a. ASSUME refused \subseteq refused', dispatches' = dispatches \/ dispatches' = dispatches + 1
      PROVE  GivenUp \subseteq GivenUp' /\ dispatches' \in Nat /\ dispatches <= dispatches'
  <2>1. CASE dispatches <= 1
    BY <1>0, <1>a, <2>1 DEF GivenUp
  <2>2. CASE ~(dispatches <= 1)
    <3>1. ~(dispatches' <= 1)
      BY <1>0, <1>a, <2>2
    <3> QED
      BY <1>0, <1>a, <2>2, <3>1 DEF GivenUp
  <2> QED
    BY <2>1, <2>2
<1>1. CASE \/ \E kind \in Kinds : Emit(kind)
           \/ RunnerExits \/ GiveUp \/ gc \/ AgentRestarts \/ Break \/ AgentStep \/ Hibernate
  <2>1. /\ excused \subseteq excused' /\ UNCHANGED <<refused, durable, persisting, dispatches>>
    BY <1>1 DEF Emit, RunnerExits, GiveUp, gc, AgentRestarts, Break, AgentStep, Hibernate,
                Connect, Write, RecordWritten, RequestAck, AgentCloses, OldWriteReturns, AgentReceives
  <2> QED
    BY <1>a, <2>1
<1>2. CASE CoordinatorRestarts
  BY <1>2, <1>a DEF CoordinatorRestarts
<1>3. ASSUME NEW c \in Conns, Dispatch(c)
      PROVE  UNCHANGED <<refused, durable, excused, persisting>> /\ dispatches' = dispatches + 1
  BY <1>3 DEF Dispatch
<1>4. ASSUME NEW c \in Conns, CoordinatorCloses(c) \/ Refuse(c) \/ DropDuplicate(c) \/ Accept(c)
                              \/ HandleAckRequest(c)
      PROVE  /\ refused \subseteq refused' /\ durable \subseteq durable' /\ excused \subseteq excused'
             /\ persisting \subseteq persisting' /\ dispatches' = dispatches
  BY <1>4 DEF CoordinatorCloses, Refuse, DropDuplicate, Accept, HandleAckRequest
<1>5. CASE StoreMark \/ SendAck
  <2>1. UNCHANGED <<refused, durable, excused, persisting, dispatches>>
    BY <1>5 DEF StoreMark, SendAck
  <2> QED
    BY <1>a, <2>1
<1>6. CASE Persist
  <2>1. PICK e \in persisting :
          /\ persisting' = persisting \ {e}
          /\ \/ durable' = durable \cup {e} /\ UNCHANGED excused
             \/ excused' = excused \cup {e} /\ UNCHANGED durable
          /\ UNCHANGED <<refused, dispatches>>
    BY <1>6 DEF Persist
  <2> QED
    BY <1>a, <2>1
<1> QED
  BY <1>a, <1>1, <1>2, <1>3, <1>4, <1>5, <1>6 DEF Next, CoordinatorStep

\* The numbering goes on.
LEMMA NumbersKept == ASSUME Inv, Numbers, Next PROVE Numbers'
<1>0. /\ \A e \in emitted : e.exec \in Nat /\ e.exec >= 1 /\ e.exec <= execs /\ e.seq \in Nat
      /\ log \in LogType /\ execs \in Nat /\ log.next \in Nat
  BY InvFacts DEF ExecsBounded, LogType
<1>1. CASE /\ log'.exec = log.exec /\ log'.next = log.next /\ emitted' = emitted /\ execs' = execs
  BY <1>1 DEF Numbers
<1>2. CASE /\ log'.exec = log.exec /\ log.exec # 0 /\ log'.next = log.next + 1 /\ execs' = execs
           /\ \E kind \in Kinds :
                emitted' = emitted \cup {[exec |-> log.exec, seq |-> log.next + 1, kind |-> kind]}
  <2>1. PICK kind \in Kinds :
          emitted' = emitted \cup {[exec |-> log.exec, seq |-> log.next + 1, kind |-> kind]}
    BY <1>2
  <2> DEFINE n == [exec |-> log.exec, seq |-> log.next + 1, kind |-> kind]
  <2>2. n.seq = log.next + 1
    OBVIOUS
  <2>3. emitted' = emitted \cup {n}
    BY <2>1
  <2> HIDE DEF n
  <2>4. \A e \in emitted : e.exec = log.exec => e.seq < n.seq
    BY <1>0, <2>2 DEF Numbers
  <2>5. \A e \in emitted' : e.exec = log.exec => e.seq <= log.next + 1
    BY <1>0, <2>2, <2>3, <2>4
  <2>6. \A e, f \in emitted' : e.exec = log.exec /\ f.exec = log.exec /\ e.seq = f.seq => e = f
    <3> SUFFICES ASSUME NEW e \in emitted', NEW f \in emitted',
                        e.exec = log.exec, f.exec = log.exec, e.seq = f.seq
                 PROVE  e = f
      OBVIOUS
    <3>1. CASE e \in emitted /\ f \in emitted
      BY <3>1 DEF Numbers
    <3>2. CASE e \in emitted /\ f = n
      <4>1. e.seq < n.seq /\ e.seq \in Nat
        BY <1>0, <2>4, <3>2
      <4> QED
        BY <1>0, <2>2, <3>2, <4>1
    <3>3. CASE e = n /\ f \in emitted
      <4>1. f.seq < n.seq /\ f.seq \in Nat
        BY <1>0, <2>4, <3>3
      <4> QED
        BY <1>0, <2>2, <3>3, <4>1
    <3> QED
      BY <2>3, <3>1, <3>2, <3>3
  <2> QED
    BY <1>2, <2>5, <2>6 DEF Numbers
<1>3. CASE log'.exec = 0 /\ emitted' = emitted /\ execs' = execs
  BY <1>0, <1>3 DEF Numbers
<1>4. CASE log'.exec = execs + 1 /\ emitted' = emitted /\ execs' = execs + 1
  BY <1>0, <1>4 DEF Numbers
<1> QED
  BY <1>1, <1>2, <1>3, <1>4, LogOfStep

\* What is on its way to the agent after a step was so before, or is a dispatch, or an acknowledgement sent.
LEMMA DownOfStep ==
  ASSUME Inv, Next, NEW c \in Conns, NEW m \in Elements(down'[c])
  PROVE  \/ m \in Elements(down[c])
         \/ m.type = "dispatch" /\ dispatches' = dispatches + 1
         \/ m.type = "ack" /\ \E a \in acks : MayAcknowledge(a) /\ MarkOf(m) = a.mark
<1> USE DEF wireVars, agentVars
<1>0. /\ down \in [Conns -> Seq(Reply)] /\ down[c] \in Seq(Reply) /\ down' \in [Conns -> Seq(Reply)]
  <2>1. TypeOK'
    BY AgentStepTypes, CoordinatorStepTypes DEF Next, Inv
  <2> QED
    BY <2>1 DEF Inv, TypeOK, WireTypes
<1>a. \A s : Elements(s) = {s[i] : i \in DOMAIN s}
  BY DEF Elements
<1>b. down'[c] # <<>>
  BY <1>a
<1>1. CASE down' = down
  BY <1>1
<1>2. CASE AgentCloses \/ AgentRestarts
  <2>1. down' = [down EXCEPT ![conn] = <<>>]
    BY <1>2 DEF AgentCloses, AgentRestarts
  <2>2. down'[c] = down[c]
    BY <1>0, <1>b, <2>1
  <2> QED
    BY <2>2
<1>3. CASE AgentReceives
  <2>1. down' = [down EXCEPT ![conn] = Tail(@)] /\ down[conn] # <<>>
    BY <1>3 DEF AgentReceives
  <2>2. CASE c = conn
    <3>1. down'[c] = Tail(down[c]) /\ down[c] # <<>>
      BY <1>0, <2>1, <2>2
    <3> QED
      BY <1>0, <3>1, ElementsOfTail
  <2>3. CASE c # conn
    BY <1>0, <2>1, <2>3
  <2> QED
    BY <2>2, <2>3
<1>s. ASSUME NEW d, NEW r, down' = Sent(d, r), r \in Reply, m \notin Elements(down[c]) PROVE m = r
  <2>1. d = c /\ down'[c] = Append(down[c], r)
    BY <1>0, <1>s DEF Sent
  <2>2. Elements(Append(down[c], r)) = Elements(down[c]) \cup {r}
    BY <1>0, <1>s, ElementsOfAppend
  <2> QED
    BY <1>s, <2>1, <2>2
<1>4. ASSUME NEW d \in Conns, Dispatch(d)
      PROVE m \in Elements(down[c]) \/ (m.type = "dispatch" /\ dispatches' = dispatches + 1)
  <2> DEFINE r == [type |-> "dispatch", exec |-> 0, seq |-> 0]
  <2>1. down' = Sent(d, r) /\ dispatches' = dispatches + 1
    BY <1>4 DEF Dispatch
  <2>2. r \in Reply /\ r.type = "dispatch"
    BY DeliveryAssumption DEF Reply
  <2> HIDE DEF r
  <2> QED
    BY <1>s, <2>1, <2>2
<1>5. CASE SendAck
  <2>1. PICK a \in acks :
          /\ MayAcknowledge(a)
          /\ \/ down' = down
             \/ down' = Sent(a.conn, [type |-> "ack", exec |-> a.mark.exec, seq |-> a.mark.seq])
    BY <1>5 DEF SendAck
  <2> DEFINE r == [type |-> "ack", exec |-> a.mark.exec, seq |-> a.mark.seq]
  <2>2. a.mark \in Mark
    BY DEF Inv, TypeOK, CoordinatorTypes
  <2>3. r \in Reply /\ r.type = "ack" /\ MarkOf(r) = a.mark
    BY <2>2 DEF Reply, Mark, MarkOf
  <2>4. CASE down' = Sent(a.conn, r)
    <3> HIDE DEF r
    <3> QED
      BY <1>s, <2>1, <2>3, <2>4
  <2> QED
    BY <1>1, <2>1, <2>4
<1>6. CASE \/ \E kind \in Kinds : Emit(kind)
           \/ RunnerExits \/ GiveUp \/ gc \/ Break \/ Connect \/ Write \/ RecordWritten \/ RequestAck
           \/ OldWriteReturns \/ Hibernate \/ CoordinatorRestarts
  BY <1>1, <1>6 DEF Emit, RunnerExits, GiveUp, gc, Break, Connect, Write, RecordWritten, RequestAck,
                    OldWriteReturns, Hibernate, CoordinatorRestarts
<1>7. CASE \/ \E d \in Conns : \/ CoordinatorCloses(d) \/ Refuse(d) \/ DropDuplicate(d) \/ Accept(d)
                               \/ HandleAckRequest(d)
           \/ Persist \/ StoreMark
  BY <1>1, <1>7 DEF CoordinatorCloses, Refuse, DropDuplicate, Accept, HandleAckRequest, Persist, StoreMark
<1> QED
  BY <1>2, <1>3, <1>4, <1>5, <1>6, <1>7 DEF Next, AgentStep, CoordinatorStep

\* No execution starts without a dispatch.
LEMMA DispatchFirstKept == ASSUME Inv, DispatchFirst, Next PROVE DispatchFirst'
<1> SUFFICES ASSUME dispatches' = 0
             PROVE  execs' = 0 /\ \A c \in Conns : \A m \in Elements(down'[c]) : m.type # "dispatch"
  BY DEF DispatchFirst, Elements
<1>1. dispatches = 0 /\ dispatches' # dispatches + 1
  BY SafeGrows DEF Inv, TypeOK, HistoryTypes
<1>2. execs = 0 /\ \A c \in Conns : \A m \in Elements(down[c]) : m.type # "dispatch"
  BY <1>1 DEF DispatchFirst
<1>3. \A c \in Conns : \A m \in Elements(down'[c]) : m.type # "dispatch"
  BY <1>1, <1>2, DownOfStep
<1>4. execs' = execs
  <2>1. CASE AgentReceives
    <3>1. conn \in Conns /\ down[conn] \in Seq(Reply) /\ down[conn] # <<>>
      BY <2>1 DEF AgentReceives, Inv, TypeOK, AgentTypes, WireTypes, Conns
    <3>2. Head(down[conn]) \in Elements(down[conn])
      BY <3>1, ElementsOfTail
    <3> QED
      BY <1>2, <2>1, <3>1, <3>2 DEF AgentReceives, counters
  <2>2. CASE ~AgentReceives
    <3>1. CASE \/ \E kind \in Kinds : Emit(kind)
               \/ RunnerExits \/ GiveUp \/ gc \/ AgentRestarts \/ Break \/ Connect \/ Write \/ RecordWritten
               \/ RequestAck \/ AgentCloses \/ OldWriteReturns \/ Hibernate \/ CoordinatorRestarts
               \/ \E c \in Conns : Dispatch(c)
      BY <3>1 DEF Emit, RunnerExits, GiveUp, gc, AgentRestarts, Break, Connect, Write, RecordWritten,
                  RequestAck, AgentCloses, OldWriteReturns, Hibernate, CoordinatorRestarts, Dispatch, counters
    <3>2. CASE \/ \E c \in Conns : \/ CoordinatorCloses(c) \/ Refuse(c) \/ DropDuplicate(c) \/ Accept(c)
                                   \/ HandleAckRequest(c)
               \/ Persist \/ StoreMark \/ SendAck
      BY <3>2 DEF CoordinatorCloses, Refuse, DropDuplicate, Accept, HandleAckRequest, Persist, StoreMark,
                  SendAck, counters
    <3> QED
      BY <2>2, <3>1, <3>2 DEF Next, AgentStep, CoordinatorStep
  <2> QED
    BY <2>1, <2>2
<1> QED
  BY <1>2, <1>3, <1>4

----------------------------------------------------------------------------
(* Marks and acknowledgements.                                             *)

\* What a mark covers stays covered: events emitted later have later numbers, or are of another execution.
LEMMA CoveredKept ==
  ASSUME Inv, Numbers, Next
  PROVE  \A m \in Mark : \A H, G :
           H \subseteq G /\ Sound(m, H) => Covered(m, G, log', emitted', execs')
<1> SUFFICES ASSUME NEW m \in Mark, NEW H, NEW G, H \subseteq G, Sound(m, H)
             PROVE  Covered(m, G, log', emitted', execs')
  OBVIOUS
<1>0. /\ m.exec \in Nat /\ m.seq \in Nat /\ m.exec <= execs /\ execs \in Nat
      /\ log.next \in Nat /\ log.exec \in Nat
  BY InvFacts, DeliveryAssumption DEF Sound, Covered, Mark, LogType
<1>1. CASE /\ log'.exec = log.exec /\ log'.next = log.next /\ emitted' = emitted /\ execs' = execs
  BY <1>1 DEF Sound, Covered
<1>2. CASE /\ log'.exec = log.exec /\ log.exec # 0 /\ log'.next = log.next + 1 /\ execs' = execs
           /\ \E kind \in Kinds :
                emitted' = emitted \cup {[exec |-> log.exec, seq |-> log.next + 1, kind |-> kind]}
  <2>1. PICK kind \in Kinds :
          emitted' = emitted \cup {[exec |-> log.exec, seq |-> log.next + 1, kind |-> kind]}
    BY <1>2
  <2>2. \A e \in emitted' : e \in emitted \/ e.seq = log.next + 1
    BY <2>1
  <2>3. CASE m.exec = log.exec
    <3>1. m.seq <= log.next /\ {e \in emitted : e.exec = m.exec /\ e.seq <= m.seq} \subseteq H
      BY <1>2, <2>3 DEF Sound, Covered
    <3>2. {e \in emitted' : e.exec = m.exec /\ e.seq <= m.seq} \subseteq H
      BY <1>0, <2>2, <3>1
    <3> QED
      BY <1>0, <1>2, <3>1, <3>2 DEF Covered
  <2>4. CASE m.exec # log.exec
    BY <1>0, <1>2, <2>4 DEF Covered
  <2> QED
    BY <2>3, <2>4
<1>3. CASE log'.exec = 0 /\ emitted' = emitted /\ execs' = execs
  BY <1>0, <1>3 DEF Covered
<1>4. CASE log'.exec = execs + 1 /\ emitted' = emitted /\ execs' = execs + 1
  BY <1>0, <1>4 DEF Covered
<1> QED
  BY <1>1, <1>2, <1>3, <1>4, LogOfStep

\* The mark the coordinator compares with, from memory or from storage, covers only what it has.
LEMMA LastSound == ASSUME MarksSound PROVE Sound(last, persisting \cup Safe)
BY DEF MarksSound, last, Sound, Covered

\* What arrives on a connection.
LEMMA ArrivingFacts ==
  ASSUME Inv, Known, NEW c \in Conns, NEW m \in Arriving(c)
  PROVE  /\ up[c] \in Seq(WireMessage) /\ up[c] # <<>> /\ m = Head(up[c]) /\ m = up[c][1]
         /\ 1 \in DOMAIN up[c] /\ m \in WireMessage /\ m \in Elements(up[c])
         /\ IsEvent(m) => m \in Event /\ m \in emitted
<1>1. up[c] \in Seq(WireMessage) /\ up[c] # <<>> /\ m = Head(up[c])
  BY DEF Arriving, Inv, TypeOK, WireTypes
<1>2. m = up[c][1] /\ 1 \in DOMAIN up[c] /\ m \in WireMessage
  BY <1>1
<1>3. m \in Elements(up[c])
  BY <1>1, ElementsOfTail
<1>4. IsEvent(m) => m \in Event
  BY ArrivingTypes DEF Inv, TypeOK
<1> QED
  BY <1>1, <1>2, <1>3, <1>4 DEF Known

\* The mark of an event that is accepted covers only what the coordinator has: its predecessors were ahead of
\* it on its connection.
LEMMA AcceptedSound ==
  ASSUME LedgerInv, NEW c \in Conns, NEW m \in Arriving(c), IsEvent(m), Owned(c, m)
  PROVE  MarkOf(m) \in Mark /\ Sound(MarkOf(m), persisting \cup {m} \cup Safe)
<1>1. /\ m \in Event /\ m \in emitted /\ m = up[c][1] /\ 1 \in DOMAIN up[c]
      /\ up[c] \in Seq(WireMessage)
  BY ArrivingFacts DEF LedgerInv
<1>2. MarkOf(m).exec = m.exec /\ MarkOf(m).seq = m.seq
  BY DEF MarkOf
<1>3. MarkOf(m) \in Mark
  BY <1>1, DeliveryAssumption DEF MarkOf, Mark, Event, Execs
<1>4. m.exec <= execs
  BY <1>1, InvFacts DEF LedgerInv, ExecsBounded
<1>5. ASSUME m.exec = log.exec
      PROVE  /\ m.seq <= log.next
             /\ {e \in emitted : e.exec = m.exec /\ e.seq <= m.seq} \subseteq persisting \cup {m} \cup Safe
  <2>1. m.seq <= log.next
    BY <1>1, <1>5 DEF LedgerInv, Numbers
  <2>2. ASSUME NEW e \in emitted, e.exec = m.exec, e.seq <= m.seq PROVE e \in persisting \cup {m} \cup Safe
    <3>1. e.seq \in Nat /\ m.seq \in Nat
      BY <1>1, InvFacts DEF LedgerInv
    <3>2. CASE e.seq = m.seq
      BY <1>1, <1>5, <2>2, <3>2 DEF LedgerInv, Numbers
    <3>3. CASE e.seq < m.seq
      <4>1. e \in HandledOn(c) \/ \E j \in DOMAIN up[c] : j < 1 /\ up[c][j] = e
        BY <1>1, <1>5, <2>2, <3>3 DEF LedgerInv, InSequence, Predecessors
      <4>2. \A j \in DOMAIN up[c] : ~(j < 1)
        BY <1>1
      <4>3. Owner(c)
        BY DEF Owned, Owner
      <4> QED
        BY <4>1, <4>2, <4>3 DEF HandledOn, Safe
    <3> QED
      BY <2>2, <3>1, <3>2, <3>3
  <2> QED
    BY <2>1, <2>2
<1> QED
  BY <1>2, <1>3, <1>4, <1>5 DEF Sound, Covered

\* How much is acknowledged after a step: what was, what an acknowledgement says, or nothing of another execution.
LEMMA AckedOfStep ==
  ASSUME Inv, Next
  PROVE  \/ log'.exec = log.exec /\ log'.acked = log.acked
         \/ /\ log'.exec = log.exec /\ conn \in Conns
            /\ \E m \in Elements(down[conn]) :
                 m.type = "ack" /\ MarkOf(m) = [exec |-> log.exec, seq |-> log'.acked]
         \/ log'.acked = 0
<1>1. ASSUME NEW kind \in Kinds, Emit(kind) PROVE log'.exec = log.exec /\ log'.acked = log.acked
  BY <1>1, InvFacts DEF Emit, LogType
<1>2. CASE GiveUp
  <2>1. queue # <<>> /\ log' = written(log, Head(queue), FALSE)
    BY <1>2 DEF GiveUp
  <2>2. Head(queue) \in Event
    BY <2>1, InvFacts, ElementsOfTail
  <2> QED
    BY <2>1, <2>2, InvFacts, WrittenAdds, FALSE \in BOOLEAN
<1>3. CASE gc \/ AgentRestarts
  BY <1>3 DEF gc, AgentRestarts, NoLog
<1>4. CASE RecordWritten
  <2>1. writer.cur \in Event /\ log' = written(log, writer.cur, TRUE)
    BY <1>4, InvFacts DEF RecordWritten
  <2> QED
    BY <2>1, InvFacts, WrittenAdds, TRUE \in BOOLEAN
<1>5. CASE OldWriteReturns
  <2>1. PICK f \in failing : log' = written(log, f.msg, TRUE) \/ log' = log
    BY <1>5 DEF OldWriteReturns
  <2>2. f.msg \in Event
    BY <2>1, InvFacts
  <2>3. written(log, f.msg, TRUE).exec = log.exec /\ written(log, f.msg, TRUE).acked = log.acked
    BY <2>2, InvFacts, WrittenAdds, TRUE \in BOOLEAN
  <2> QED
    BY <2>1, <2>3
<1>6. CASE AgentReceives
  <2> DEFINE m == Head(down[conn])
  <2>1. open /\ down[conn] # <<>>
    BY <1>6 DEF AgentReceives
  <2>2. conn \in Conns /\ down[conn] \in Seq(Reply)
    BY <2>1 DEF Inv, TypeOK, AgentTypes, WireTypes, Conns
  <2>3. m \in Reply /\ m \in Elements(down[conn])
    BY <2>1, <2>2, ElementsOfTail
  <2>4. CASE m.type = "ack" /\ log' = ack(log, m)
    <3>1. log'.exec = log.exec /\ (log'.acked = log.acked \/ (log.exec = m.exec /\ log'.acked = m.seq))
      BY <2>3, <2>4, AckKeeps, InvFacts
    <3> QED
      BY <2>2, <2>3, <2>4, <3>1 DEF MarkOf
  <2>5. CASE log' = [NoLog EXCEPT !.exec = execs + 1]
    BY <2>5 DEF NoLog
  <2>6. CASE log' = log
    BY <2>6
  <2> QED
    BY <1>6, <2>4, <2>5, <2>6 DEF AgentReceives
<1>7. CASE RunnerExits \/ Break \/ Connect \/ Write \/ RequestAck \/ AgentCloses \/ Hibernate
           \/ CoordinatorRestarts \/ \E c \in Conns : Dispatch(c)
  BY <1>7 DEF RunnerExits, Break, Connect, Write, RequestAck, AgentCloses, Hibernate, CoordinatorRestarts,
              Dispatch, agentVars
<1>8. CASE CoordinatorStep
  <2>1. ASSUME NEW c \in Conns, CoordinatorCloses(c) \/ Refuse(c) \/ DropDuplicate(c) \/ Accept(c)
                                \/ HandleAckRequest(c)
        PROVE  log' = log
    BY <2>1 DEF CoordinatorCloses, Refuse, DropDuplicate, Accept, HandleAckRequest, agentVars
  <2>2. CASE Persist \/ StoreMark \/ SendAck
    BY <2>2 DEF Persist, StoreMark, SendAck, agentVars
  <2> QED
    BY <1>8, <2>1, <2>2 DEF CoordinatorStep
<1> QED
  BY <1>1, <1>2, <1>3, <1>4, <1>5, <1>6, <1>7, <1>8 DEF Next, AgentStep

\* A mark with a lower number covers less.
LEMMA LowerMark ==
  ASSUME Inv, NEW m \in Mark, NEW n \in Nat, NEW H, Sound(m, H)
  PROVE  LET k == [m EXCEPT !.seq = Min2(@, n)] IN k \in Mark /\ Sound(k, H)
<1> DEFINE k == [m EXCEPT !.seq = Min2(@, n)]
<1>1. m.seq \in 0..MaxSeq /\ m.exec \in 0..MaxExecs /\ MaxSeq \in Nat
  BY DeliveryAssumption DEF Mark
<1>2. Min2(m.seq, n) <= m.seq /\ Min2(m.seq, n) \in 0..MaxSeq
  BY <1>1 DEF Min2
<1>3. k.exec = m.exec /\ k.seq = Min2(m.seq, n) /\ k \in Mark
  BY <1>2 DEF Mark
<1> HIDE DEF k
<1>a. k.exec <= execs
  BY <1>3 DEF Sound, Covered
<1>4. CASE k.exec = log.exec /\ log.exec # 0
  <2>1. m.seq <= log.next /\ {e \in emitted : e.exec = m.exec /\ e.seq <= m.seq} \subseteq H
    BY <1>3, <1>4 DEF Sound, Covered
  <2>2. k.seq <= m.seq /\ k.seq \in Int /\ m.seq \in Int
    BY <1>1, <1>2, <1>3
  <2>3. log.next \in Nat /\ \A e \in emitted : e.seq \in Nat
    BY InvFacts DEF LogType
  <2>4. ASSUME NEW e \in emitted, e.exec = k.exec, e.seq <= k.seq PROVE e \in H
    <3>1. e.seq <= m.seq /\ e.exec = m.exec
      BY <1>3, <2>2, <2>3, <2>4
    <3> QED
      BY <2>1, <3>1
  <2>5. {e \in emitted : e.exec = k.exec /\ e.seq <= k.seq} \subseteq H
    BY <2>4
  <2>6. k.seq <= log.next
    BY <2>1, <2>2, <2>3
  <2>7. Sound(k, H)
    BY <1>a, <2>5, <2>6 DEF Sound, Covered
  <2> QED
    BY <1>3, <2>7 DEF k
<1>5. CASE ~(k.exec = log.exec /\ log.exec # 0)
  <2>1. Sound(k, H)
    BY <1>a, <1>5 DEF Sound, Covered
  <2> QED
    BY <1>3, <2>1 DEF k
<1> QED
  BY <1>3, <1>4, <1>5

\* Acknowledgements to be sent after a step: those before it, or one of what the coordinator has.
LEMMA AcksOfStep ==
  ASSUME LedgerInv, Next, NEW a \in acks'
  PROVE  \/ a \in acks /\ ~CoordinatorRestarts
         \/ /\ a.mark \in Mark /\ persisting \subseteq persisting'
            /\ \E H : H \subseteq (a.covers \cap persisting') \cup Safe' /\ Sound(a.mark, H)
<1>0. /\ Safe \subseteq Safe' /\ MarksSound /\ last \in Mark
  BY SafeGrows DEF LedgerInv, Safe, Inv, TypeOK, CoordinatorTypes, last
<1>1. CASE acks' \subseteq acks /\ ~CoordinatorRestarts
  BY <1>1
<1>2. CASE CoordinatorRestarts
  BY <1>2 DEF CoordinatorRestarts
<1>3. ASSUME NEW c \in Conns, DropDuplicate(c), a \notin acks
      PROVE  /\ a.mark \in Mark /\ persisting \subseteq persisting'
             /\ \E H : H \subseteq (a.covers \cap persisting') \cup Safe' /\ Sound(a.mark, H)
  <2>1. a.mark = last /\ a.covers = persisting /\ persisting' = persisting
    BY <1>3 DEF DropDuplicate, Acknowledgement
  <2> QED
    BY <1>0, <2>1, LastSound
<1>4. ASSUME NEW c \in Conns, Accept(c), a \notin acks
      PROVE  /\ a.mark \in Mark /\ persisting \subseteq persisting'
             /\ \E H : H \subseteq (a.covers \cap persisting') \cup Safe' /\ Sound(a.mark, H)
  <2>1. PICK m \in Arriving(c) :
          /\ IsEvent(m) /\ Owned(c, m) /\ persisting' = persisting \cup {m}
          /\ a.mark = MarkOf(m) /\ a.covers = persisting'
    BY <1>4 DEF Accept, Acknowledgement
  <2>2. MarkOf(m) \in Mark /\ Sound(MarkOf(m), persisting \cup {m} \cup Safe)
    BY <2>1, AcceptedSound
  <2> QED
    BY <1>0, <2>1, <2>2
<1>5. ASSUME NEW c \in Conns, HandleAckRequest(c), a \notin acks
      PROVE  /\ a.mark \in Mark /\ persisting \subseteq persisting'
             /\ \E H : H \subseteq (a.covers \cap persisting') \cup Safe' /\ Sound(a.mark, H)
  <2>1. PICK m \in Arriving(c) :
          /\ a.mark = [last EXCEPT !.seq = Min2(@, m.seq)] /\ a.covers = persisting
          /\ persisting' = persisting
    BY <1>5, SMTT(30) DEF HandleAckRequest, Acknowledgement, memoryVars
  <2>2. m.seq \in Nat
    <3>1. m \in WireMessage
      BY ArrivingFacts DEF LedgerInv
    <3> QED
      BY <3>1, DeliveryAssumption DEF WireMessage, Event
  <2>3. a.mark \in Mark /\ Sound(a.mark, persisting \cup Safe)
    BY <1>0, <2>1, <2>2, LastSound, LowerMark DEF LedgerInv
  <2> QED
    BY <1>0, <2>1, <2>3
<1>6. CASE \/ \E kind \in Kinds : Emit(kind)
           \/ RunnerExits \/ GiveUp \/ gc \/ AgentRestarts \/ Break \/ AgentStep \/ Hibernate
           \/ \E c \in Conns : Dispatch(c)
  <2>1. acks' = acks
    BY <1>6 DEF Emit, RunnerExits, GiveUp, gc, AgentRestarts, Break, AgentStep, Hibernate, Dispatch,
                Connect, Write, RecordWritten, RequestAck, AgentCloses, OldWriteReturns, AgentReceives,
                memoryVars
  <2> QED
    BY <1>2, <2>1
<1>7. CASE \/ \E c \in Conns : CoordinatorCloses(c) \/ Refuse(c)
           \/ Persist \/ StoreMark \/ SendAck
  <2>1. acks' \subseteq acks
    BY <1>7 DEF CoordinatorCloses, Refuse, Persist, StoreMark, SendAck, memoryVars
  <2> QED
    BY <1>2, <2>1
<1> QED
  BY <1>2, <1>3, <1>4, <1>5, <1>6, <1>7 DEF Next, CoordinatorStep

\* The mark in memory after a step: what it was, none, or that of an event accepted.
LEMMA MarkOfStep ==
  ASSUME LedgerInv, Next
  PROVE  \/ marks' = marks /\ ~CoordinatorRestarts
         \/ marks' = NoMark
         \/ marks' \in Mark /\ \E H : H \subseteq (persisting \cup Safe)' /\ Sound(marks', H)
<1>1. ASSUME NEW c \in Conns, Accept(c)
      PROVE  marks' \in Mark /\ \E H : H \subseteq (persisting \cup Safe)' /\ Sound(marks', H)
  <2>1. PICK m \in Arriving(c) :
          IsEvent(m) /\ Owned(c, m) /\ persisting' = persisting \cup {m} /\ marks' = MarkOf(m)
    BY <1>1 DEF Accept
  <2>2. MarkOf(m) \in Mark /\ Sound(MarkOf(m), persisting \cup {m} \cup Safe)
    BY <2>1, AcceptedSound
  <2>3. Safe \subseteq Safe'
    BY SafeGrows DEF LedgerInv, Safe
  <2> QED
    BY <2>1, <2>2, <2>3
<1>2. CASE StoreMark \/ CoordinatorRestarts
  BY <1>2 DEF StoreMark, CoordinatorRestarts
<1>3. CASE \/ \E kind \in Kinds : Emit(kind)
           \/ RunnerExits \/ GiveUp \/ gc \/ AgentRestarts \/ Break \/ AgentStep \/ Hibernate
           \/ \E c \in Conns : Dispatch(c)
  <2>1. marks' = marks
    BY <1>3 DEF Emit, RunnerExits, GiveUp, gc, AgentRestarts, Break, AgentStep, Hibernate, Dispatch,
                Connect, Write, RecordWritten, RequestAck, AgentCloses, OldWriteReturns, AgentReceives,
                memoryVars
  <2> QED
    BY <1>2, <2>1
<1>4. CASE \/ \E c \in Conns : CoordinatorCloses(c) \/ Refuse(c) \/ DropDuplicate(c) \/ HandleAckRequest(c)
           \/ Persist \/ SendAck
  <2>1. marks' = marks
    BY <1>4 DEF CoordinatorCloses, Refuse, DropDuplicate, HandleAckRequest, Persist, SendAck, memoryVars
  <2> QED
    BY <1>2, <2>1
<1> QED
  BY <1>1, <1>2, <1>3, <1>4 DEF Next, CoordinatorStep

\* The stored mark after a step: what it was, or the mark in memory once everything has settled.
LEMMA StoredOfStep ==
  ASSUME Next
  PROVE  stored' = stored \/ (stored' = marks /\ persisting = {})
<1>1. CASE StoreMark
  BY <1>1 DEF StoreMark, AllSettled
<1>2. CASE \/ \E kind \in Kinds : Emit(kind)
           \/ RunnerExits \/ GiveUp \/ gc \/ AgentRestarts \/ Break \/ AgentStep \/ Hibernate
           \/ \E c \in Conns : Dispatch(c)
           \/ CoordinatorRestarts
  BY <1>2 DEF Emit, RunnerExits, GiveUp, gc, AgentRestarts, Break, AgentStep, Hibernate, Dispatch,
              Connect, Write, RecordWritten, RequestAck, AgentCloses, OldWriteReturns, AgentReceives,
              CoordinatorRestarts, durableVars
<1>3. CASE \/ \E c \in Conns : CoordinatorCloses(c) \/ Refuse(c) \/ DropDuplicate(c) \/ HandleAckRequest(c)
                               \/ Accept(c)
           \/ Persist \/ SendAck
  BY <1>3 DEF CoordinatorCloses, Refuse, DropDuplicate, HandleAckRequest, Accept, Persist, SendAck, durableVars
<1> QED
  BY <1>1, <1>2, <1>3 DEF Next, CoordinatorStep

\* Marks and acknowledgements go on covering only what is safe, or about to be.
LEMMA MarksSoundKept ==
  ASSUME LedgerInv, Next PROVE MarksSound'
<1> USE DEF Sound
<1>0. /\ Inv /\ Numbers /\ MarksSound /\ Safe \subseteq Safe'
      /\ persisting \subseteq persisting' \cup Safe' \/ CoordinatorRestarts
      /\ marks \in Mark /\ stored \in Mark /\ \A a \in acks : a.mark \in Mark
  BY SafeGrows DEF LedgerInv, Safe, Inv, TypeOK, CoordinatorTypes
<1>k. \A m \in Mark : \A H, G :
        H \subseteq G /\ Covered(m, H, log, emitted, execs) => Covered(m, G, log', emitted', execs')
  BY <1>0, CoveredKept
<1>t. TypeOK' /\ log' \in LogType /\ execs' \in Nat
  <2>1. TypeOK'
    BY <1>0, AgentStepTypes, CoordinatorStepTypes DEF Next, Inv
  <2> QED
    BY <2>1, DeliveryAssumption DEF TypeOK, AgentTypes, HistoryTypes, LogType
<1>1. Sound(marks, persisting \cup Safe)'
  <2>1. CASE marks' = marks /\ ~CoordinatorRestarts
    <3>1. persisting \cup Safe \subseteq (persisting \cup Safe)'
      BY <1>0, <2>1
    <3> QED
      BY <1>0, <1>k, <2>1, <3>1 DEF MarksSound
  <2>2. CASE marks' = NoMark
    BY <1>t, <2>2 DEF NoMark, Covered, LogType
  <2>3. CASE marks' \in Mark /\ \E H : H \subseteq (persisting \cup Safe)' /\ Sound(marks', H)
    BY <1>k, <2>3
  <2> QED
    BY <2>1, <2>2, <2>3, MarkOfStep
<1>2. Sound(stored, Safe)'
  <2>1. CASE stored' = stored
    BY <1>0, <1>k, <2>1 DEF MarksSound
  <2>2. CASE stored' = marks /\ persisting = {}
    <3>1. persisting \cup Safe \subseteq Safe'
      BY <1>0, <2>2
    <3> QED
      BY <1>0, <1>k, <2>2, <3>1 DEF MarksSound
  <2> QED
    BY <2>1, <2>2, StoredOfStep
<1>3. ASSUME NEW a \in acks'
      PROVE  Covered(a.mark, (a.covers \cap persisting') \cup Safe', log', emitted', execs')
  <2>1. CASE a \in acks /\ ~CoordinatorRestarts
    <3>1. (a.covers \cap persisting) \cup Safe \subseteq (a.covers \cap persisting') \cup Safe'
      BY <1>0, <2>1
    <3> QED
      BY <1>0, <1>k, <2>1, <3>1 DEF MarksSound
  <2>2. CASE a.mark \in Mark /\ \E H : H \subseteq (a.covers \cap persisting') \cup Safe' /\ Sound(a.mark, H)
    BY <1>k, <2>2
  <2> QED
    BY <2>1, <2>2, AcksOfStep
<1>4. ASSUME NEW c \in Conns, NEW m \in Elements(down'[c]), m.type = "ack"
      PROVE  Covered(MarkOf(m), Safe', log', emitted', execs')
  <2>1. CASE m \in Elements(down[c])
    <3>1. m \in Reply
      BY <1>0, <2>1 DEF Inv, TypeOK, WireTypes, Elements
    <3>2. MarkOf(m) \in Mark
      BY <3>1 DEF Reply, MarkOf, Mark
    <3> QED
      BY <1>0, <1>4, <1>k, <2>1, <3>2 DEF MarksSound
  <2>2. CASE \E a \in acks : MayAcknowledge(a) /\ MarkOf(m) = a.mark
    <3>1. PICK a \in acks : a.covers \cap persisting = {} /\ MarkOf(m) = a.mark
      BY <2>2 DEF MayAcknowledge
    <3>2. (a.covers \cap persisting) \cup Safe \subseteq Safe'
      BY <1>0, <3>1
    <3> QED
      BY <1>0, <1>k, <3>1, <3>2 DEF MarksSound
  <2> QED
    BY <1>0, <1>4, <2>1, <2>2, DownOfStep
<1>5. Sound(Acked, Safe)'
  <2>1. CASE log'.exec = log.exec /\ log'.acked = log.acked
    <3>1. Acked \in Mark
      BY <1>0, InvFacts DEF Acked, LogType, Mark
    <3> QED
      BY <1>0, <1>k, <2>1, <3>1 DEF MarksSound, Acked
  <2>2. CASE /\ log'.exec = log.exec /\ conn \in Conns
             /\ \E m \in Elements(down[conn]) :
                  m.type = "ack" /\ MarkOf(m) = [exec |-> log.exec, seq |-> log'.acked]
    <3>1. PICK m \in Elements(down[conn]) :
            m.type = "ack" /\ MarkOf(m) = [exec |-> log.exec, seq |-> log'.acked]
      BY <2>2
    <3>2. m \in Reply
      BY <1>0, <2>2 DEF Inv, TypeOK, WireTypes, Elements
    <3>3. MarkOf(m) \in Mark
      BY <3>2 DEF Reply, MarkOf, Mark
    <3>4. Covered([exec |-> log.exec, seq |-> log'.acked], Safe', log', emitted', execs')
      BY <1>0, <1>k, <2>2, <3>1, <3>3 DEF MarksSound
    <3> QED
      BY <2>2, <3>4 DEF Acked
  <2>3. CASE log'.acked = 0
    <3>1. log'.exec <= execs' /\ log'.next >= 0
      BY <1>0, <1>t, NumbersKept DEF Numbers, LogType
    <3>2. \A e \in emitted' : e.seq >= 1 /\ e.seq \in Nat
      BY <1>t, DeliveryAssumption DEF TypeOK, HistoryTypes, Event
    <3> QED
      BY <2>3, <3>1, <3>2 DEF Acked, Covered
  <2> QED
    BY <1>0, <2>1, <2>2, <2>3, AckedOfStep
<1> QED
  BY <1>1, <1>2, <1>3, <1>4, <1>5 DEF MarksSound, Elements

----------------------------------------------------------------------------
(* What the agent's steps do to the places it holds events in.             *)

\* The write loop takes e: the lowest of what it replays, then what is carried over, then the queue.
Takes(e) ==
  \/ /\ e \in writer.todo /\ \A f \in writer.todo : e.seq <= f.seq
     /\ carry' = carry /\ queue' = queue
  \/ /\ writer.todo = {} /\ carry # <<>> /\ e = Head(carry)
     /\ carry' = Tail(carry) /\ queue' = queue
  \/ /\ writer.todo = {} /\ carry = <<>> /\ queue # <<>> /\ e = Head(queue)
     /\ queue' = Tail(queue) /\ carry' = carry

\* What is taken was there, and the rest stays.
LEMMA TakesFacts ==
  ASSUME Inv, NEW e, Takes(e)
  PROVE  /\ e \in Event /\ e \in writer.todo \cup Elements(carry) \cup Elements(queue)
         /\ Elements(queue') \subseteq Elements(queue) /\ Elements(carry') \subseteq Elements(carry)
         /\ Elements(queue) \cup Elements(carry) \subseteq Elements(queue') \cup Elements(carry') \cup {e}
         /\ queue' \in Seq(Event) /\ carry' \in Seq(Event)
<1>1. CASE e \in writer.todo /\ carry' = carry /\ queue' = queue
  BY <1>1, InvFacts DEF Elements
<1>2. CASE carry # <<>> /\ e = Head(carry) /\ carry' = Tail(carry) /\ queue' = queue
  <2>1. e \in Event /\ Elements(carry) = {e} \cup Elements(carry') /\ carry' \in Seq(Event)
    BY <1>2, InvFacts, ElementsOfTail
  <2>2. Elements(queue') = Elements(queue) /\ queue' \in Seq(Event)
    BY <1>2, InvFacts DEF Elements
  <2> QED
    BY <2>1, <2>2
<1>3. CASE queue # <<>> /\ e = Head(queue) /\ queue' = Tail(queue) /\ carry' = carry
  <2>1. e \in Event /\ Elements(queue) = {e} \cup Elements(queue') /\ queue' \in Seq(Event)
    BY <1>3, InvFacts, ElementsOfTail
  <2>2. Elements(carry') = Elements(carry) /\ carry' \in Seq(Event)
    BY <1>3, InvFacts DEF Elements
  <2> QED
    BY <2>1, <2>2
<1> QED
  BY <1>1, <1>2, <1>3 DEF Takes

\* A write takes one event and puts it on the connection while that still gets through.
LEMMA WriteEffect ==
  ASSUME Inv, Write
  PROVE  /\ open /\ open' = open /\ conn' = conn /\ link' = link /\ writer.cur = NoEvent
         /\ UNCHANGED <<log, failing, emitted, excused>>
         /\ \E e : /\ Takes(e) /\ writer'.cur = e /\ writer'.todo = writer.todo \ {e}
                   /\ up' = IF link[conn] THEN [up EXCEPT ![conn] = Append(@, e)] ELSE up
<1>1. PICK e : NextOut(e) /\ up' = IF link[conn] THEN [up EXCEPT ![conn] = Append(@, e)] ELSE up
  BY DEF Write
<1>2. writer \in [todo: SUBSET Event, cur: Event \cup {NoEvent}, sent: Mark, quiet: BOOLEAN]
  BY DEF Inv, TypeOK, AgentTypes
<1>3. Takes(e) /\ writer'.cur = e /\ writer'.todo = writer.todo \ {e}
  BY <1>1, <1>2 DEF NextOut, Takes
<1> QED
  BY <1>1, <1>3 DEF Write, historyVars

\* send() after a write enters the event into the log.
LEMMA RecordEffect ==
  ASSUME Inv, RecordWritten
  PROVE  /\ writer.cur \in Event /\ writer.cur # NoEvent
         /\ log' = written(log, writer.cur, TRUE) /\ excused' = excused \cup Trimmed(log, writer.cur)
         /\ writer'.cur = NoEvent /\ writer'.todo = writer.todo
         /\ UNCHANGED <<queue, carry, failing, conn, open, link, up, emitted>>
<1>1. writer \in [todo: SUBSET Event, cur: Event \cup {NoEvent}, sent: Mark, quiet: BOOLEAN]
  BY DEF Inv, TypeOK, AgentTypes
<1> QED
  BY <1>1 DEF RecordWritten, wireVars

\* The write loop of a connection that is gone keeps the message it was on, or the next one.
LEMMA CloseEffect ==
  ASSUME Inv, AgentCloses
  PROVE  /\ open /\ ~link[conn] /\ ~open' /\ writer' = IdleWriter
         /\ UNCHANGED <<log, conn, link, up, emitted, excused>>
         /\ \/ /\ carry' = carry /\ queue' = queue
               /\ failing' = IF writer.cur = NoEvent THEN failing
                             ELSE failing \cup {[msg |-> writer.cur, sent |-> TRUE]}
            \/ \E e : Takes(e) /\ failing' = failing \cup {[msg |-> e, sent |-> FALSE]}
<1>1. writer' = IdleWriter /\ open /\ ~link[conn] /\ ~open'
  BY DEF AgentCloses
<1>2. UNCHANGED <<log, conn, link, up, emitted, excused>>
  BY DEF AgentCloses, historyVars
<1>3. \/ /\ carry' = carry /\ queue' = queue
         /\ failing' = IF writer.cur = NoEvent THEN failing
                       ELSE failing \cup {[msg |-> writer.cur, sent |-> TRUE]}
      \/ \E e : Takes(e) /\ failing' = failing \cup {[msg |-> e, sent |-> FALSE]}
  BY DEF AgentCloses, Takes
<1> QED
  BY <1>1, <1>2, <1>3

\* The write of an old connection returns.
LEMMA ReturnEffect ==
  ASSUME Inv, OldWriteReturns
  PROVE  /\ UNCHANGED <<queue, conn, open, writer, link, up, emitted>>
         /\ \E f \in failing :
              /\ failing' = failing \ {f} /\ f.msg \in Event
              /\ \/ /\ f.sent /\ log' = written(log, f.msg, TRUE)
                    /\ excused' = excused \cup Trimmed(log, f.msg) /\ carry' = carry
                 \/ ~f.sent /\ log' = log /\ excused' = excused /\ kept(log, f.msg) /\ carry' = carry
                 \/ /\ ~f.sent /\ log' = log /\ excused' = excused /\ ~kept(log, f.msg)
                    /\ carry' = Append(carry, f.msg)
<1>1. UNCHANGED <<queue, conn, open, writer, link, up, emitted>>
  BY DEF OldWriteReturns, wireVars
<1>2. PICK f \in failing :
        /\ failing' = failing \ {f}
        /\ IF f.sent
           THEN /\ log' = written(log, f.msg, TRUE)
                /\ excused' = excused \cup Trimmed(log, f.msg)
                /\ UNCHANGED carry
           ELSE /\ carry' = IF kept(log, f.msg) THEN carry ELSE Append(carry, f.msg)
                /\ UNCHANGED <<log, excused>>
  BY DEF OldWriteReturns
<1>3. f.msg \in Event
  BY <1>2, InvFacts
<1> QED
  BY <1>1, <1>2, <1>3

\* The read loop acknowledges, starts an execution, or ignores the message.
LEMMA ReceiveEffect ==
  ASSUME Inv, AgentReceives
  PROVE  /\ open /\ UNCHANGED <<queue, carry, failing, conn, open, writer, link, up, emitted, excused>>
         /\ \/ \E m \in Reply : log' = ack(log, m)
            \/ log' = [NoLog EXCEPT !.exec = execs + 1]
            \/ log' = log
<1>1. open /\ down[conn] # <<>> /\ UNCHANGED <<queue, carry, failing, conn, open, writer, link, up, emitted, excused>>
  BY DEF AgentReceives, historyVars
<1>2. Head(down[conn]) \in Reply
  <2>1. conn \in Conns /\ down[conn] \in Seq(Reply)
    BY <1>1 DEF Inv, TypeOK, AgentTypes, WireTypes, Conns
  <2> QED
    BY <1>1, <2>1, ElementsOfTail
<1> QED
  BY <1>1, <1>2 DEF AgentReceives

\* A new connection starts with the replay of what is kept.
LEMMA ConnectEffect ==
  ASSUME Inv, Connect
  PROVE  /\ ~open /\ open' /\ conn' = conn + 1 /\ conn' \in Conns
         /\ link' = [link EXCEPT ![conn'] = TRUE]
         /\ writer'.todo = log.unacked /\ writer'.cur = NoEvent
         /\ LateWriter \/ failing = {}
         /\ UNCHANGED <<log, queue, carry, failing, up, emitted, excused, persisting, durable, refused, dispatches>>
<1>1. conn \in Nat /\ conn < MaxConns
  BY DEF Connect, Inv, TypeOK, AgentTypes
<1>2. conn + 1 \in Conns
  BY <1>1, DeliveryAssumption DEF Conns
<1>3. writer'.todo = log.unacked /\ writer'.cur = NoEvent
  BY DEF Connect, IdleWriter, replay
<1> QED
  BY <1>2, <1>3 DEF Connect, historyVars, durableVars

\* A new event is queued.
LEMMA EmitEffect ==
  ASSUME Inv, NEW kind \in Kinds, Emit(kind)
  PROVE  \E e \in Event :
           /\ e.exec = log.exec /\ e.seq = log.next + 1 /\ log.exec # 0
           /\ queue' = Append(queue, e) /\ emitted' = emitted \cup {e}
           /\ log'.exec = log.exec /\ log'.acked = log.acked /\ log'.unacked = log.unacked
           /\ UNCHANGED <<carry, failing, conn, open, writer, link, up, excused>>
<1> DEFINE e == [exec |-> log.exec, seq |-> log.next + 1, kind |-> kind]
<1>1. /\ log'.exec = log.exec /\ log'.acked = log.acked /\ log'.unacked = log.unacked /\ log.exec # 0
      /\ queue' = Append(queue, e) /\ emitted' = emitted \cup {e}
      /\ UNCHANGED <<carry, failing, conn, open, writer, link, up, excused>>
  BY InvFacts DEF Emit, LogType, wireVars
<1>2. log.exec \in Execs /\ log.next + 1 \in 1..MaxSeq /\ kind \in AllKinds
  BY InvFacts, DeliveryAssumption, SMTT(30) DEF Emit, LogType, Execs
<1>3. e \in Event /\ e.exec = log.exec /\ e.seq = log.next + 1
  BY <1>2 DEF Event
<1> QED
  BY <1>1, <1>3

\* A message too large is given up on.
LEMMA GiveUpEffect ==
  ASSUME Inv, GiveUp
  PROVE  /\ open /\ writer.cur = NoEvent /\ writer.todo = {} /\ carry = <<>> /\ queue # <<>>
         /\ queue' = Tail(queue) /\ Head(queue) \in Event /\ excused' = excused \cup {Head(queue)}
         /\ log'.exec = log.exec /\ log'.acked = log.acked /\ log'.unacked = log.unacked
         /\ UNCHANGED <<carry, failing, conn, open, writer, link, up, emitted>>
<1>1. /\ queue # <<>> /\ log' = written(log, Head(queue), FALSE)
  BY DEF GiveUp
<1>2. Head(queue) \in Event
  BY <1>1, InvFacts, ElementsOfTail
<1>3. log'.exec = log.exec /\ log'.acked = log.acked /\ log'.unacked = log.unacked
  BY <1>1, <1>2, InvFacts, WrittenType, GivenUpKeeps, FALSE \in BOOLEAN
<1> QED
  BY <1>1, <1>2, <1>3 DEF GiveUp, wireVars

\* The log is dropped with nothing left in it.
LEMMA LogDropped ==
  ASSUME gc \/ AgentRestarts
  PROVE  /\ log'.exec = 0 /\ log'.unacked = {} /\ UNCHANGED <<conn, up, emitted, excused>>
         /\ \/ UNCHANGED <<queue, carry, failing, open, writer>>
            \/ /\ queue' = <<>> /\ carry' = <<>> /\ failing' = {} /\ writer' = IdleWriter /\ open' = FALSE
BY DEF gc, AgentRestarts, NoLog, wireVars, historyVars

\* The steps that leave the agent's events alone.
AgentUntouched ==
  /\ UNCHANGED <<log, queue, carry, failing, open, conn, emitted>>
  /\ writer'.todo = writer.todo /\ writer'.cur = writer.cur
  /\ ~open => writer' = writer

\* Every other step is one of the agent's that moves events.
LEMMA OtherSteps ==
  ASSUME Inv, Next
  PROVE  \/ \E kind \in Kinds : Emit(kind)
         \/ GiveUp \/ gc \/ AgentRestarts \/ Connect \/ Write \/ RecordWritten \/ AgentCloses
         \/ OldWriteReturns \/ AgentReceives
         \/ AgentUntouched
<1>1. CASE RunnerExits \/ Break \/ Hibernate \/ CoordinatorRestarts \/ \E c \in Conns : Dispatch(c)
  BY <1>1 DEF RunnerExits, Break, Hibernate, CoordinatorRestarts, Dispatch, agentVars, historyVars, AgentUntouched
<1>2. CASE RequestAck
  <2>1. writer \in [todo: SUBSET Event, cur: Event \cup {NoEvent}, sent: Mark, quiet: BOOLEAN]
    BY DEF Inv, TypeOK, AgentTypes
  <2> QED
    BY <1>2, <2>1 DEF RequestAck, historyVars, AgentUntouched
<1>3. ASSUME NEW c \in Conns, CoordinatorCloses(c) \/ Refuse(c) \/ DropDuplicate(c) \/ Accept(c)
                              \/ HandleAckRequest(c)
      PROVE  AgentUntouched
  BY <1>3 DEF CoordinatorCloses, Refuse, DropDuplicate, Accept, HandleAckRequest, agentVars, historyVars,
              AgentUntouched
<1>4. CASE Persist \/ StoreMark \/ SendAck
  BY <1>4 DEF Persist, StoreMark, SendAck, agentVars, historyVars, AgentUntouched
<1> QED
  BY <1>1, <1>2, <1>3, <1>4 DEF Next, AgentStep, CoordinatorStep

----------------------------------------------------------------------------
(* What a step does to the wire.                                           *)

\* An event the coordinator reads is taken care of by the step that reads it.
LEMMA ReadIsHandled ==
  ASSUME LedgerInv, Next, NEW c \in Conns, Refuse(c) \/ DropDuplicate(c) \/ Accept(c) \/ HandleAckRequest(c)
  PROVE  /\ up[c] # <<>> /\ up' = [up EXCEPT ![c] = Tail(@)]
         /\ IsEvent(Head(up[c])) /\ Head(up[c]).exec = log.exec => Head(up[c]) \in HandledOn(c)'
<1>0. /\ Safe \subseteq Safe' /\ GivenUp' \subseteq refused' /\ GivenUp \subseteq GivenUp'
      /\ Settled \subseteq Settled' /\ Inv /\ Known /\ MarksSound
  BY SafeGrows DEF LedgerInv, Safe, GivenUp
<1>1. PICK m \in Arriving(c) : Consume(c)
  BY DEF Refuse, DropDuplicate, Accept, HandleAckRequest
<1>2. up[c] # <<>> /\ up' = [up EXCEPT ![c] = Tail(@)] /\ \A n \in Arriving(c) : n = Head(up[c])
  BY <1>1 DEF Arriving, Consume
<1>3. ASSUME Refuse(c), IsEvent(Head(up[c])) PROVE Head(up[c]) \in HandledOn(c)'
  <2>1. \/ jobs[c] = "none" /\ refused' = refused \cup {Head(up[c])} /\ jobs' = jobs
        \/ excused' = excused \cup {Head(up[c])}
    BY <1>2, <1>3 DEF Refuse, memoryVars
  <2>2. CASE jobs[c] = "none" /\ refused' = refused \cup {Head(up[c])} /\ jobs' = jobs
    <3>1. ~(jobs'[c] \in {"active", "recent"})
      BY <2>2
    <3> QED
      BY <2>2, <3>1 DEF HandledOn, Owner
  <2>3. CASE excused' = excused \cup {Head(up[c])}
    BY <2>3 DEF HandledOn, Settled
  <2> QED
    BY <2>1, <2>2, <2>3
<1>4. ASSUME DropDuplicate(c), IsEvent(Head(up[c])), Head(up[c]).exec = log.exec
      PROVE  Head(up[c]) \in HandledOn(c)'
  <2> DEFINE msg == Head(up[c])
  <2>1. IsDuplicate(msg) /\ persisting' = persisting /\ msg \in Arriving(c)
    BY <1>2, <1>4 DEF DropDuplicate
  <2>2. msg \in emitted /\ msg \in Event
    BY <1>0, <1>4, <2>1, ArrivingFacts
  <2>3. log.exec # 0
    BY <1>4, <2>2, DeliveryAssumption DEF Event, Execs
  <2>4. msg.exec = last.exec /\ msg.seq <= last.seq
    BY <2>1 DEF IsDuplicate
  <2>5. msg \in persisting \cup Safe
    BY <1>0, <1>4, <2>2, <2>3, <2>4, LastSound DEF Sound, Covered
  <2> QED
    BY <1>0, <2>1, <2>5 DEF HandledOn, Safe
<1>5. ASSUME Accept(c), IsEvent(Head(up[c])) PROVE Head(up[c]) \in HandledOn(c)'
  <2>1. persisting' = persisting \cup {Head(up[c])}
    BY <1>2, <1>5 DEF Accept
  <2> QED
    BY <2>1 DEF HandledOn
<1>6. CASE HandleAckRequest(c)
  BY <1>2, <1>6 DEF HandleAckRequest
<1> QED
  BY <1>2, <1>3, <1>4, <1>5, <1>6

\* A connection's messages after a step: what they were, without the one read, none, or one more.
LEMMA UpOfStep ==
  ASSUME LedgerInv, Next, NEW c \in Conns
  PROVE  \/ up'[c] = up[c]
         \/ up'[c] = <<>> /\ ~link'[c]
         \/ /\ up[c] # <<>> /\ up'[c] = Tail(up[c])
            /\ IsEvent(Head(up[c])) /\ Head(up[c]).exec = log.exec => Head(up[c]) \in HandledOn(c)'
         \/ /\ open /\ c = conn
            /\ \E m \in WireMessage :
                 /\ up'[c] = Append(up[c], m)
                 /\ IsEvent(m) => Write /\ link[conn] /\ Takes(m) /\ writer'.todo = writer.todo \ {m}
<1>0. up \in [Conns -> Seq(WireMessage)] /\ Inv
  BY DEF LedgerInv, Inv, TypeOK, WireTypes
<1>1. CASE up' = up
  BY <1>1
<1>2. CASE Write
  <2>1. PICK e : /\ Takes(e) /\ writer'.todo = writer.todo \ {e}
                 /\ up' = IF link[conn] THEN [up EXCEPT ![conn] = Append(@, e)] ELSE up
    BY <1>0, <1>2, WriteEffect
  <2>2. e \in WireMessage
    BY <1>0, <2>1, TakesFacts DEF WireMessage
  <2>3. CASE link[conn] /\ c = conn
    <3>1. up'[c] = Append(up[c], e)
      BY <1>0, <2>1, <2>3
    <3>2. open
      BY <1>2 DEF Write
    <3> QED
      BY <1>2, <2>1, <2>2, <2>3, <3>1, <3>2
  <2>4. CASE ~(link[conn] /\ c = conn)
    BY <1>0, <2>1, <2>4
  <2> QED
    BY <2>3, <2>4
<1>3. CASE RequestAck
  <2>1. /\ open
        /\ up' = IF link[conn] /\ log.exec = writer.sent.exec
                    /\ \E e \in log.unacked : e.seq <= writer.sent.seq
                 THEN [up EXCEPT ![conn] = Append(@, AckRequest(writer.sent))]
                 ELSE up
    BY <1>3 DEF RequestAck
  <2> DEFINE m == AckRequest(writer.sent)
  <2>2. m \in WireMessage /\ ~IsEvent(m)
    <3>1. writer.sent \in Mark
      BY <1>0 DEF Inv, TypeOK, AgentTypes
    <3> QED
      BY <3>1 DEF AckRequest, WireMessage, Mark, IsEvent
  <2>3. up'[c] = up[c] \/ (c = conn /\ up'[c] = Append(up[c], m))
    <3> HIDE DEF m
    <3> QED
      BY <1>0, <2>1 DEF m
  <2> QED
    BY <2>1, <2>2, <2>3
<1>4. ASSUME NEW d \in Conns, CoordinatorCloses(d) PROVE up'[c] = up[c] \/ (up'[c] = <<>> /\ ~link'[c])
  BY <1>0, <1>4 DEF CoordinatorCloses
<1>5. CASE CoordinatorRestarts
  BY <1>5 DEF CoordinatorRestarts
<1>6. ASSUME NEW d \in Conns, Refuse(d) \/ DropDuplicate(d) \/ Accept(d) \/ HandleAckRequest(d)
      PROVE  \/ up'[c] = up[c]
             \/ /\ up[c] # <<>> /\ up'[c] = Tail(up[c])
                /\ IsEvent(Head(up[c])) /\ Head(up[c]).exec = log.exec => Head(up[c]) \in HandledOn(c)'
  BY <1>0, <1>6, ReadIsHandled
<1>7. CASE \/ \E kind \in Kinds : Emit(kind)
           \/ RunnerExits \/ GiveUp \/ gc \/ AgentRestarts \/ Break \/ Hibernate
           \/ Connect \/ RecordWritten \/ AgentCloses \/ OldWriteReturns \/ AgentReceives
           \/ \E d \in Conns : Dispatch(d)
           \/ Persist \/ StoreMark \/ SendAck
  <2>1. up' = up
    BY <1>7 DEF Emit, RunnerExits, GiveUp, gc, AgentRestarts, Break, Hibernate, Connect, RecordWritten,
                AgentCloses, OldWriteReturns, AgentReceives, Dispatch, Persist, StoreMark, SendAck, wireVars
  <2> QED
    BY <1>1, <2>1
<1> QED
  BY <1>2, <1>3, <1>4, <1>5, <1>6, <1>7 DEF Next, AgentStep, CoordinatorStep

\* A log within its limit that a kept event is entered into again stays the same.
LEMMA RecordKeeps ==
  ASSUME Inv, Shape, RecordWritten, writer.todo # {}
  PROVE  log'.exec = log.exec /\ log'.acked = log.acked /\ log'.unacked = log.unacked
<1> DEFINE e == writer.cur
<1>1. e \in Event /\ e # NoEvent /\ log' = written(log, e, TRUE) /\ log \in LogType
  BY RecordEffect, InvFacts
<1>2. log'.exec = log.exec /\ log'.acked = log.acked
  BY <1>1, WrittenAdds, TRUE \in BOOLEAN
<1>3. CASE e.exec # log.exec
  BY <1>1, <1>3 DEF written
<1>4. CASE e.exec = log.exec
  <2>1. kept(log, e)
    BY <1>1, <1>4 DEF Shape, ReplayKept
  <2>2. log'.unacked = IF e.seq > log.acked THEN Trim(log.unacked \cup {e}) ELSE log.unacked
    BY <1>1, <1>4 DEF written, LogType
  <2>3. CASE e.seq > log.acked
    <3>1. e.seq \in Int /\ log.acked \in Int
      BY <1>1, DeliveryAssumption DEF Event, LogType
    <3>2. e \in log.unacked
      BY <2>1, <2>3, <3>1 DEF kept
    <3>3. log.unacked \cup {e} = log.unacked /\ log.unacked \in SUBSET Event
      BY <1>1, <3>2 DEF LogType
    <3>4. Trim(log.unacked) = log.unacked
      BY <3>3, TrimBounded DEF Shape, LogSmall
    <3> QED
      BY <1>2, <2>2, <2>3, <3>3, <3>4
  <2> QED
    BY <1>2, <2>2, <2>3
<1> QED
  BY <1>2, <1>3, <1>4

\* What the agent holds, and what is on its way or settled, was emitted.
LEMMA KnownKept == ASSUME LedgerInv, Next PROVE Known'
<1>0. /\ Inv /\ Known /\ emitted \subseteq emitted'
      /\ queue \in Seq(Event) /\ carry \in Seq(Event) /\ log \in LogType
  <2>1. Inv /\ Known
    BY DEF LedgerInv
  <2> QED
    BY <2>1, InvFacts, LogOfStep
<1> DEFINE Places(q, k, t, u, f, w, em, x) ==
             /\ Elements(q) \cup Elements(k) \cup t \cup u \subseteq em
             /\ \A g \in f : g.msg \in em
             /\ w \in em \cup {NoEvent}
             /\ \A e \in u : e.exec = x
<1> DEFINE Held_ == Places(queue, carry, writer.todo, log.unacked, failing, writer.cur, emitted, log.exec)
<1>1. Held_'
  <2>0. Held_
    BY <1>0 DEF Known
  <2>1. ASSUME NEW kind \in Kinds, Emit(kind) PROVE Held_'
    <3>1. PICK e \in Event :
            /\ queue' = Append(queue, e) /\ emitted' = emitted \cup {e}
            /\ log'.exec = log.exec /\ log'.unacked = log.unacked /\ UNCHANGED <<carry, failing, writer>>
      BY <1>0, <2>1, EmitEffect
    <3>2. Elements(queue') = Elements(queue) \cup {e}
      BY <1>0, <3>1, ElementsOfAppend
    <3> QED
      BY <2>0, <3>1, <3>2
  <2>2. CASE GiveUp
    <3>1. /\ queue # <<>> /\ queue' = Tail(queue)
          /\ log'.exec = log.exec /\ log'.unacked = log.unacked /\ UNCHANGED <<carry, failing, writer, emitted>>
      BY <1>0, <2>2, GiveUpEffect
    <3>2. Elements(queue') \subseteq Elements(queue)
      BY <1>0, <3>1, ElementsOfTail
    <3> QED
      BY <2>0, <3>1, <3>2
  <2>3. CASE gc \/ AgentRestarts
    <3>1. log'.exec = 0 /\ log'.unacked = {} /\ emitted' = emitted
      BY <2>3, LogDropped
    <3>2. CASE UNCHANGED <<queue, carry, failing, open, writer>>
      BY <2>0, <3>1, <3>2
    <3>3. CASE queue' = <<>> /\ carry' = <<>> /\ failing' = {} /\ writer' = IdleWriter
      <4>1. Elements(queue') = {} /\ Elements(carry') = {}
        BY <3>3 DEF Elements
      <4>2. writer'.todo = {} /\ writer'.cur = NoEvent
        BY <3>3 DEF IdleWriter
      <4> QED
        BY <3>1, <3>3, <4>1, <4>2
    <3> QED
      BY <2>3, <3>2, <3>3, LogDropped
  <2>4. CASE Connect
    BY <1>0, <2>0, <2>4, ConnectEffect
  <2>5. CASE Write
    <3>1. PICK e : Takes(e) /\ writer'.cur = e /\ writer'.todo = writer.todo \ {e}
      BY <1>0, <2>5, WriteEffect
    <3>2. UNCHANGED <<log, failing, emitted>>
      BY <1>0, <2>5, WriteEffect
    <3>3. /\ e \in writer.todo \cup Elements(carry) \cup Elements(queue)
          /\ Elements(queue') \subseteq Elements(queue) /\ Elements(carry') \subseteq Elements(carry)
      BY <1>0, <3>1, TakesFacts
    <3> QED
      BY <2>0, <3>1, <3>2, <3>3
  <2>6. CASE RecordWritten
    <3>1. /\ writer.cur \in Event /\ writer.cur # NoEvent /\ log' = written(log, writer.cur, TRUE)
          /\ writer'.cur = NoEvent /\ writer'.todo = writer.todo
          /\ UNCHANGED <<queue, carry, failing, emitted>>
      BY <1>0, <2>6, RecordEffect
    <3>2. /\ log'.exec = log.exec /\ log'.unacked \subseteq log.unacked \cup {writer.cur}
          /\ writer.cur \in log'.unacked => writer.cur \in log.unacked \/ writer.cur.exec = log.exec
      BY <1>0, <3>1, WrittenAdds, TRUE \in BOOLEAN
    <3> QED
      BY <2>0, <3>1, <3>2
  <2>7. CASE AgentCloses
    <3>1. writer' = IdleWriter /\ UNCHANGED <<log, emitted>>
      BY <1>0, <2>7, CloseEffect
    <3>2. writer'.todo = {} /\ writer'.cur = NoEvent
      BY <3>1 DEF IdleWriter
    <3>3. CASE /\ carry' = carry /\ queue' = queue
               /\ failing' = IF writer.cur = NoEvent THEN failing
                             ELSE failing \cup {[msg |-> writer.cur, sent |-> TRUE]}
      BY <2>0, <3>1, <3>2, <3>3
    <3>4. ASSUME NEW e, Takes(e), failing' = failing \cup {[msg |-> e, sent |-> FALSE]} PROVE Held_'
      <4>1. /\ e \in writer.todo \cup Elements(carry) \cup Elements(queue)
            /\ Elements(queue') \subseteq Elements(queue) /\ Elements(carry') \subseteq Elements(carry)
        BY <1>0, <3>4, TakesFacts
      <4> QED
        BY <2>0, <3>1, <3>2, <3>4, <4>1
    <3> QED
      BY <1>0, <2>7, <3>3, <3>4, CloseEffect
  <2>8. CASE OldWriteReturns
    <3>1. UNCHANGED <<queue, writer, emitted>>
      BY <1>0, <2>8, ReturnEffect
    <3>2. PICK f \in failing :
            /\ failing' = failing \ {f} /\ f.msg \in Event
            /\ \/ log' = written(log, f.msg, TRUE) /\ carry' = carry
               \/ log' = log /\ carry' = carry
               \/ log' = log /\ carry' = Append(carry, f.msg)
      BY <1>0, <2>8, ReturnEffect
    <3>3. CASE log' = written(log, f.msg, TRUE) /\ carry' = carry
      <4>1. /\ log'.exec = log.exec /\ log'.unacked \subseteq log.unacked \cup {f.msg}
            /\ f.msg \in log'.unacked => f.msg \in log.unacked \/ f.msg.exec = log.exec
        BY <1>0, <3>2, <3>3, WrittenAdds, TRUE \in BOOLEAN
      <4> QED
        BY <2>0, <3>1, <3>2, <3>3, <4>1
    <3>4. CASE log' = log /\ carry' = carry
      BY <2>0, <3>1, <3>2, <3>4
    <3>5. CASE log' = log /\ carry' = Append(carry, f.msg)
      <4>1. Elements(carry') = Elements(carry) \cup {f.msg}
        BY <1>0, <3>2, <3>5, ElementsOfAppend
      <4> QED
        BY <2>0, <3>1, <3>2, <3>5, <4>1
    <3> QED
      BY <3>2, <3>3, <3>4, <3>5
  <2>9. CASE AgentReceives
    <3>1. UNCHANGED <<queue, carry, failing, writer, emitted>>
      BY <1>0, <2>9, ReceiveEffect
    <3>2. ASSUME NEW m \in Reply, log' = ack(log, m) PROVE Held_'
      <4>1. log'.exec = log.exec /\ log'.unacked \subseteq log.unacked
        BY <1>0, <3>2, AckKeeps
      <4> QED
        BY <2>0, <3>1, <4>1
    <3>3. CASE log' = [NoLog EXCEPT !.exec = execs + 1]
      <4>1. log'.unacked = {}
        BY <3>3 DEF NoLog
      <4> QED
        BY <2>0, <3>1, <4>1
    <3>4. CASE log' = log
      BY <2>0, <3>1, <3>4
    <3> QED
      BY <1>0, <2>9, <3>2, <3>3, <3>4, ReceiveEffect
  <2>10. CASE AgentUntouched
    BY <2>0, <2>10 DEF AgentUntouched
  <2> QED
    BY <1>0, <2>1, <2>2, <2>3, <2>4, <2>5, <2>6, <2>7, <2>8, <2>9, <2>10, OtherSteps
<1>2. ASSUME NEW c \in Conns, NEW m \in Elements(up'[c]), IsEvent(m) PROVE m \in emitted'
  <2>0. up[c] \in Seq(WireMessage) /\ \A n \in Elements(up[c]) : IsEvent(n) => n \in emitted
    BY <1>0 DEF Known, Inv, TypeOK, WireTypes
  <2>1. CASE up'[c] = up[c]
    BY <1>0, <1>2, <2>0, <2>1
  <2>2. CASE up'[c] = <<>>
    BY <1>2, <2>2 DEF Elements
  <2>3. CASE up[c] # <<>> /\ up'[c] = Tail(up[c])
    <3>1. m \in Elements(up[c])
      BY <1>2, <2>0, <2>3, ElementsOfTail
    <3> QED
      BY <1>0, <1>2, <2>0, <3>1
  <2>4. ASSUME NEW n \in WireMessage, up'[c] = Append(up[c], n), IsEvent(n) => Takes(n) PROVE m \in emitted'
    <3>1. Elements(up'[c]) = Elements(up[c]) \cup {n}
      BY <2>0, <2>4, ElementsOfAppend
    <3>2. IsEvent(n) => n \in writer.todo \cup Elements(carry) \cup Elements(queue)
      BY <1>0, <2>4, TakesFacts
    <3> QED
      BY <1>0, <1>2, <2>0, <3>1, <3>2 DEF Known
  <2> QED
    BY <2>1, <2>2, <2>3, <2>4, UpOfStep
<1>3. excused' \cup refused' \cup durable' \cup persisting' \subseteq emitted'
  <2> USE DEF historyVars, durableVars, memoryVars
  <2>0. excused \cup refused \cup durable \cup persisting \subseteq emitted'
    BY <1>0 DEF Known
  <2>1. CASE GiveUp
    <3>1. Head(queue) \in emitted /\ excused' = excused \cup {Head(queue)}
      BY <1>0, <2>1, GiveUpEffect, ElementsOfTail DEF Known
    <3> QED
      BY <1>0, <2>0, <2>1, <3>1 DEF GiveUp
  <2>2. CASE RecordWritten
    <3>1. writer.cur \in emitted /\ excused' = excused \cup Trimmed(log, writer.cur)
      BY <1>0, <2>2, RecordEffect DEF Known
    <3>2. Trimmed(log, writer.cur) \subseteq emitted
      BY <1>0, <3>1 DEF Trimmed, Known
    <3> QED
      BY <1>0, <2>0, <2>2, <3>1, <3>2 DEF RecordWritten
  <2>3. CASE OldWriteReturns
    <3>1. PICK f \in failing : excused' = excused \cup Trimmed(log, f.msg) \/ excused' = excused
      BY <2>3 DEF OldWriteReturns
    <3>2. Trimmed(log, f.msg) \subseteq emitted
      BY <1>0, <3>1 DEF Trimmed, Known
    <3> QED
      BY <1>0, <2>0, <2>3, <3>1, <3>2 DEF OldWriteReturns
  <2>4. ASSUME NEW c \in Conns, Refuse(c) \/ Accept(c)
        PROVE  excused' \cup refused' \cup durable' \cup persisting' \subseteq emitted'
    <3>1. PICK m \in Arriving(c) :
            /\ IsEvent(m) /\ refused' \subseteq refused \cup {m} /\ excused' \subseteq excused \cup {m}
            /\ persisting' \subseteq persisting \cup {m} /\ durable' = durable
      BY <2>4 DEF Refuse, Accept
    <3>2. m \in emitted
      BY <1>0, <3>1, ArrivingFacts
    <3> QED
      BY <1>0, <2>0, <3>1, <3>2
  <2>5. CASE Persist
    BY <2>0, <2>5 DEF Persist
  <2>6. CASE \/ \E kind \in Kinds : Emit(kind)
             \/ RunnerExits \/ gc \/ AgentRestarts \/ Break \/ Hibernate \/ Connect \/ Write \/ RequestAck
             \/ AgentCloses \/ AgentReceives \/ CoordinatorRestarts
             \/ \E d \in Conns : Dispatch(d)
    BY <2>0, <2>6 DEF Emit, RunnerExits, gc, AgentRestarts, Break, Hibernate, Connect, Write, RequestAck,
                      AgentCloses, AgentReceives, CoordinatorRestarts, Dispatch
  <2>7. CASE \/ \E d \in Conns : CoordinatorCloses(d) \/ DropDuplicate(d) \/ HandleAckRequest(d)
             \/ StoreMark \/ SendAck
    BY <2>0, <2>7 DEF CoordinatorCloses, DropDuplicate, HandleAckRequest, StoreMark, SendAck
  <2> QED
    BY <2>1, <2>2, <2>3, <2>4, <2>5, <2>6, <2>7 DEF Next, AgentStep, CoordinatorStep
<1> QED
  BY <1>1, <1>2, <1>3 DEF Known, Elements

\* Connections are only ever added.
LEMMA ConnGrows == ASSUME Inv, Next PROVE conn \in Nat /\ conn' \in Nat /\ conn' >= conn
<1>0. conn \in Nat
  BY DeliveryAssumption DEF Inv, TypeOK, AgentTypes
<1>1. CASE Connect
  BY <1>0, <1>1, ConnectEffect
<1>2. ASSUME NEW kind \in Kinds, Emit(kind) PROVE conn' = conn
  BY <1>2, EmitEffect
<1>3. CASE AgentUntouched
  BY <1>0, <1>3 DEF AgentUntouched
<1>10. CASE gc \/ AgentRestarts
  <2>1. conn' = conn
    BY <1>10, LogDropped
  <2> QED
    BY <1>0, <2>1
<1>8. CASE GiveUp
  BY <1>0, <1>8, GiveUpEffect
<1>4. CASE Write
  BY <1>0, <1>4, WriteEffect
<1>5. CASE RecordWritten
  BY <1>0, <1>5, RecordEffect
<1>9. CASE AgentCloses
  BY <1>0, <1>9, CloseEffect
<1>6. CASE OldWriteReturns
  BY <1>0, <1>6, ReturnEffect
<1>7. CASE AgentReceives
  BY <1>0, <1>7, ReceiveEffect
<1> QED
  BY <1>0, <1>1, <1>2, <1>3, <1>4, <1>5, <1>6, <1>7, <1>8, <1>9, <1>10, OtherSteps

\* The write loop of a connection ends with it, and the next connection waits for its last write.
LEMMA LoopShapeKept == ASSUME ~LateWriter, Inv, Shape, Next PROVE LoopShape'
<1>0. /\ open => failing = {}
      /\ ~open => writer = IdleWriter
      /\ \A f, g \in failing : f = g
  BY DEF Shape, LoopShape
<1>1. ASSUME failing' = failing, open' = open, writer' = writer PROVE LoopShape'
  BY <1>0, <1>1, Zenon DEF LoopShape
<1>2. ASSUME NEW kind \in Kinds, Emit(kind) PROVE LoopShape'
  BY <1>1, <1>2, EmitEffect
<1>3. CASE GiveUp \/ AgentReceives
  BY <1>1, <1>3, GiveUpEffect, ReceiveEffect
<1>4. CASE gc \/ AgentRestarts
  <2>1. CASE UNCHANGED <<queue, carry, failing, open, writer>>
    BY <1>1, <2>1
  <2>2. CASE failing' = {} /\ writer' = IdleWriter /\ open' = FALSE
    BY <2>2, Zenon DEF LoopShape
  <2> QED
    BY <1>4, <2>1, <2>2, LogDropped
<1>5. CASE Connect
  <2>1. open' /\ failing' = failing /\ failing = {}
    BY <1>5, ConnectEffect
  <2> QED
    BY <2>1, Zenon DEF LoopShape
<1>6. CASE Write \/ RecordWritten
  <2>1. open' = open /\ failing' = failing
    BY <1>6, WriteEffect, RecordEffect
  <2>2. open
    <3>1. CASE Write
      BY <3>1, WriteEffect
    <3>2. CASE RecordWritten
      BY <1>0, <3>2, RecordEffect DEF IdleWriter
    <3> QED
      BY <1>6, <3>1, <3>2
  <2> QED
    BY <1>0, <2>1, <2>2, Zenon DEF LoopShape
<1>7. CASE AgentCloses
  <2>1. writer' = IdleWriter /\ ~open' /\ failing = {}
    BY <1>0, <1>7, CloseEffect
  <2>2. \A f, g \in failing' : f = g
    BY <1>7, <2>1, CloseEffect
  <2> QED
    BY <2>1, <2>2, Zenon DEF LoopShape
<1>8. CASE OldWriteReturns
  <2>1. UNCHANGED <<open, writer>> /\ failing' \subseteq failing
    BY <1>8, ReturnEffect
  <2>2. /\ open' => failing' = {}
        /\ ~open' => writer' = IdleWriter
        /\ \A f, g \in failing' : f = g
    BY <1>0, <2>1
  <2> QED
    BY <2>2 DEF LoopShape
<1>9. CASE AgentUntouched
  <2>1. failing' = failing /\ open' = open /\ (~open => writer' = writer)
    BY <1>9 DEF AgentUntouched
  <2> QED
    BY <1>0, <2>1, Zenon DEF LoopShape
<1> QED
  BY <1>2, <1>3, <1>4, <1>5, <1>6, <1>7, <1>8, <1>9, OtherSteps

\* The log stays within its limit.
LEMMA LogSmallKept == ASSUME Inv, LogSmall, Next PROVE LogSmall'
<1>0. log \in LogType /\ MaxUnacked \in Nat
  BY InvFacts, DeliveryAssumption
<1>1. ASSUME log'.unacked = log.unacked PROVE LogSmall'
  BY <1>1 DEF LogSmall
<1>2. ASSUME log'.unacked \subseteq log.unacked PROVE LogSmall'
  <2>1. IsFiniteSet(log'.unacked) /\ Cardinality(log'.unacked) <= Cardinality(log.unacked)
    BY <1>2, FS_Subset DEF LogSmall
  <2>2. Cardinality(log'.unacked) \in Nat /\ Cardinality(log.unacked) \in Nat
    BY <2>1, FS_CardinalityType DEF LogSmall
  <2> QED
    BY <1>0, <2>1, <2>2 DEF LogSmall
<1>3. ASSUME NEW e \in Event, log' = written(log, e, TRUE) PROVE LogSmall'
  <2>1. CASE log'.unacked = Trim(log.unacked \cup {e})
    <3>1. log.unacked \cup {e} \in SUBSET Event /\ IsFiniteSet(log.unacked \cup {e})
      BY <1>0, FS_AddElement DEF LogType, LogSmall
    <3> QED
      BY <2>1, <3>1, TrimBounded DEF LogSmall
  <2>2. log'.unacked = log.unacked \/ log'.unacked = Trim(log.unacked \cup {e})
    <3>1. CASE log.exec # e.exec
      BY <1>3, <3>1 DEF written
    <3>2. CASE log.exec = e.exec
      BY <1>0, <1>3, <3>2 DEF written, LogType
    <3> QED
      BY <3>1, <3>2
  <2> QED
    BY <1>1, <2>1, <2>2
<1>4. ASSUME NEW kind \in Kinds, Emit(kind) PROVE LogSmall'
  BY <1>1, <1>4, EmitEffect
<1>5. CASE GiveUp \/ gc \/ AgentRestarts
  BY <1>2, <1>5, GiveUpEffect, LogDropped
<1>6. CASE RecordWritten
  BY <1>3, <1>6, RecordEffect
<1>7. CASE OldWriteReturns
  <2>1. PICK f \in failing : f.msg \in Event /\ (log' = written(log, f.msg, TRUE) \/ log' = log)
    BY <1>7, ReturnEffect
  <2> QED
    BY <1>1, <1>3, <2>1
<1>8. CASE AgentReceives
  <2>1. ASSUME NEW m \in Reply, log' = ack(log, m) PROVE log'.unacked \subseteq log.unacked
    BY <1>0, <2>1, AckKeeps
  <2>2. CASE log' = [NoLog EXCEPT !.exec = execs + 1]
    BY <1>2, <2>2 DEF NoLog
  <2>3. CASE log' = log
    BY <1>1, <2>3
  <2> QED
    BY <1>2, <1>8, <2>1, <2>2, <2>3, ReceiveEffect
<1>9. CASE Connect \/ Write \/ AgentCloses \/ AgentUntouched
  <2>1. log' = log
    BY <1>9, ConnectEffect, WriteEffect, CloseEffect DEF AgentUntouched
  <2> QED
    BY <1>1, <2>1
<1> QED
  BY <1>4, <1>5, <1>6, <1>7, <1>8, <1>9, OtherSteps

\* What is replayed stays kept until it is written: while it is, nothing enters the log that pushes it out.
LEMMA ReplayKeptKept == ASSUME Inv, Known, Shape, Next PROVE ReplayKept'
<1>0. /\ log \in LogType /\ execs \in Nat /\ writer.todo \subseteq Event
      /\ writer.cur \in Event \cup {NoEvent}
  BY InvFacts
<1>a. /\ \A e \in writer.todo : e.exec = log.exec => kept(log, e)
      /\ writer.todo # {} /\ writer.cur # NoEvent /\ writer.cur.exec = log.exec => kept(log, writer.cur)
      /\ ~open => writer = IdleWriter
      /\ open => failing = {}
  BY DEF Shape, ReplayKept, LoopShape
<1>1. ASSUME log'.exec = log.exec, \A e \in Event : kept(log, e) => kept(log', e),
             writer'.todo = writer.todo, writer'.cur = writer.cur
      PROVE  ReplayKept'
  <2>1. \A e \in writer.todo : e.exec = log.exec => kept(log', e)
    BY <1>0, <1>1, <1>a
  <2>2. writer.todo # {} /\ writer.cur # NoEvent /\ writer.cur.exec = log.exec => kept(log', writer.cur)
    BY <1>0, <1>1, <1>a
  <2> QED
    BY <1>1, <2>1, <2>2 DEF ReplayKept
<1>2. ASSUME log'.exec = log.exec, log'.acked = log.acked, log'.unacked = log.unacked
      PROVE  \A e : kept(log, e) => kept(log', e)
  BY <1>2 DEF kept
<1>3. ASSUME writer'.todo = {} PROVE ReplayKept'
  BY <1>3 DEF ReplayKept
<1>4. ASSUME NEW kind \in Kinds, Emit(kind) PROVE ReplayKept'
  <2>1. log'.exec = log.exec /\ log'.acked = log.acked /\ log'.unacked = log.unacked /\ writer' = writer
    BY <1>4, EmitEffect
  <2> QED
    BY <1>1, <1>2, <2>1
<1>5. CASE GiveUp
  BY <1>3, <1>5, GiveUpEffect
<1>6. CASE gc \/ AgentRestarts
  <2>1. log'.exec = 0 /\ (writer' = writer \/ writer' = IdleWriter)
    BY <1>6, LogDropped
  <2>2. \A e \in Event : e.exec # 0
    BY DEF Event, Execs
  <2>3. CASE writer' = writer
    BY <1>0, <2>1, <2>2, <2>3 DEF ReplayKept
  <2>4. CASE writer' = IdleWriter
    BY <1>3, <2>4 DEF IdleWriter
  <2> QED
    BY <2>1, <2>3, <2>4
<1>7. CASE Connect
  <2>1. writer'.todo = log.unacked /\ writer'.cur = NoEvent /\ log' = log
    BY <1>7, ConnectEffect
  <2>2. \A e \in log.unacked : kept(log, e)
    BY DEF Known, kept
  <2> QED
    BY <2>1, <2>2 DEF ReplayKept
<1>8. CASE Write
  <2>1. PICK e : Takes(e) /\ writer'.cur = e /\ writer'.todo = writer.todo \ {e}
    BY <1>8, WriteEffect
  <2>2. log' = log
    BY <1>8, WriteEffect
  <2>3. writer.todo # {} => e \in writer.todo
    BY <2>1 DEF Takes
  <2>4. \A x \in writer'.todo : x.exec = log.exec => kept(log, x)
    BY <1>a, <2>1
  <2>5. writer'.todo # {} /\ e.exec = log.exec => kept(log, e)
    BY <1>a, <2>1, <2>3
  <2> QED
    BY <2>1, <2>2, <2>4, <2>5 DEF ReplayKept
<1>9. CASE RecordWritten
  <2>1. writer'.cur = NoEvent /\ writer'.todo = writer.todo
    BY <1>9, RecordEffect
  <2>2. CASE writer.todo # {}
    <3>1. log'.exec = log.exec /\ \A e : kept(log, e) => kept(log', e)
      BY <1>2, <1>9, <2>2, RecordKeeps
    <3> QED
      BY <1>a, <2>1, <3>1 DEF ReplayKept
  <2> QED
    BY <1>3, <2>1, <2>2
<1>10. CASE AgentCloses
  BY <1>3, <1>10, CloseEffect DEF IdleWriter
<1>11. CASE OldWriteReturns
  <2>1. writer' = writer /\ failing # {}
    BY <1>11, ReturnEffect
  <2>2. writer'.todo = {}
    BY <1>a, <2>1 DEF IdleWriter
  <2> QED
    BY <1>3, <2>2
<1>12. CASE AgentReceives
  <2>1. writer' = writer
    BY <1>12, ReceiveEffect
  <2>2. ASSUME NEW m \in Reply, log' = ack(log, m) PROVE ReplayKept'
    <3>1. log'.exec = log.exec /\ \A e \in Event : kept(log, e) => kept(log', e)
      BY <1>0, <2>2, AckKeeps
    <3> QED
      BY <1>1, <2>1, <3>1
  <2>3. CASE log' = [NoLog EXCEPT !.exec = execs + 1]
    <3>1. log'.exec = execs + 1
      BY <2>3 DEF NoLog
    <3>2. \A e \in emitted : e.exec # log'.exec
      BY <1>0, <3>1, InvFacts DEF ExecsBounded
    <3>3. writer.todo \subseteq emitted /\ writer.cur \in emitted \cup {NoEvent}
      BY DEF Known
    <3> QED
      BY <2>1, <3>2, <3>3 DEF ReplayKept
  <2>4. CASE log' = log
    BY <1>1, <2>1, <2>4
  <2> QED
    BY <1>12, <2>2, <2>3, <2>4, ReceiveEffect
<1>13. CASE AgentUntouched
  BY <1>1, <1>13 DEF AgentUntouched
<1> QED
  BY <1>4, <1>5, <1>6, <1>7, <1>8, <1>9, <1>10, <1>11, <1>12, <1>13, OtherSteps

\* The write loop and the log keep their shape.
LEMMA ShapeKept == ASSUME ~LateWriter, LedgerInv, Next PROVE Shape'
<1>1. Inv /\ Known /\ Shape /\ MaxConns \in Nat
  BY DeliveryAssumption DEF LedgerInv
<1>2. ASSUME NEW c \in Conns, c > conn' PROVE up'[c] = <<>>
  <2>1. c > conn /\ c # conn
    BY <1>1, <1>2, ConnGrows DEF Conns
  <2>2. up[c] = <<>>
    BY <1>1, <2>1 DEF Shape, NothingAhead
  <2> QED
    BY <2>1, <2>2, UpOfStep
<1>3. NothingAhead'
  BY <1>2 DEF NothingAhead
<1>4. LogSmall'
  BY <1>1, LogSmallKept DEF Shape
<1> QED
  BY <1>1, <1>3, <1>4, LoopShapeKept, ReplayKeptKept DEF Shape

----------------------------------------------------------------------------
(* Events leave in sequence.                                               *)

\* Without its head an ordered queue is ordered, and the head comes first.
LEMMA TailInOrder ==
  ASSUME NEW q \in Seq(Event), q # <<>>, NEW x, InOrder(q, x)
  PROVE  InOrder(Tail(q), x) /\ Ahead({Head(q)}, Elements(Tail(q)), x)
<1>1. /\ Len(q) \in Nat \ {0} /\ DOMAIN Tail(q) = 1..(Len(q) - 1) /\ DOMAIN q = 1..Len(q)
      /\ \A i \in 1..(Len(q) - 1) : Tail(q)[i] = q[i + 1]
      /\ Head(q) = q[1]
  OBVIOUS
<1>2. InOrder(Tail(q), x)
  <2> SUFFICES ASSUME NEW i \in 1..(Len(q) - 1), NEW j \in 1..(Len(q) - 1), i < j,
                      q[i + 1].exec = x, q[j + 1].exec = x
               PROVE  q[i + 1].seq < q[j + 1].seq
    BY <1>1 DEF InOrder
  <2>1. i + 1 \in 1..Len(q) /\ j + 1 \in 1..Len(q) /\ i + 1 < j + 1
    BY <1>1
  <2> QED
    BY <1>1, <2>1 DEF InOrder
<1>3. ASSUME NEW f \in Elements(Tail(q)), q[1].exec = x, f.exec = x PROVE q[1].seq < f.seq
  <2>1. PICK i \in 1..(Len(q) - 1) : f = q[i + 1]
    BY <1>1 DEF Elements
  <2>2. i + 1 \in 1..Len(q) /\ 1 < i + 1 /\ 1 \in 1..Len(q)
    BY <1>1
  <2> QED
    BY <1>1, <1>3, <2>1, <2>2 DEF InOrder
<1> QED
  BY <1>1, <1>2, <1>3 DEF Ahead

\* An event numbered above those of an ordered queue goes to its end.
LEMMA AppendInOrder ==
  ASSUME NEW q \in Seq(Event), NEW e \in Event, NEW x, InOrder(q, x), Ahead(Elements(q), {e}, x)
  PROVE  InOrder(Append(q, e), x)
<1> DEFINE r == Append(q, e)
<1>1. /\ Len(q) \in Nat /\ DOMAIN r = 1..(Len(q) + 1) /\ DOMAIN q = 1..Len(q)
      /\ r[Len(q) + 1] = e /\ \A i \in 1..Len(q) : r[i] = q[i]
  OBVIOUS
<1>2. \A i \in 1..Len(q) : q[i] \in Elements(q)
  BY <1>1 DEF Elements
<1> HIDE DEF r
<1> SUFFICES ASSUME NEW i \in 1..(Len(q) + 1), NEW j \in 1..(Len(q) + 1), i < j,
                    r[i].exec = x, r[j].exec = x
             PROVE  r[i].seq < r[j].seq
  BY <1>1 DEF InOrder, r
<1>3. i \in 1..Len(q)
  BY <1>1
<1>4. CASE j \in 1..Len(q)
  BY <1>1, <1>3, <1>4 DEF InOrder
<1>5. CASE j = Len(q) + 1
  BY <1>1, <1>2, <1>3, <1>5 DEF Ahead
<1> QED
  BY <1>1, <1>4, <1>5

\* Without its head the carried messages hold at most one event still, and none if that was the head.
LEMMA TailAtMostOne ==
  ASSUME NEW k \in Seq(Event), k # <<>>, NEW x, AtMostOne(k, x)
  PROVE  AtMostOne(Tail(k), x) /\ (Head(k).exec = x => \A g \in Elements(Tail(k)) : g.exec # x)
<1>1. /\ Len(k) \in Nat \ {0} /\ DOMAIN Tail(k) = 1..(Len(k) - 1) /\ DOMAIN k = 1..Len(k)
      /\ \A i \in 1..(Len(k) - 1) : Tail(k)[i] = k[i + 1] /\ i + 1 \in 1..Len(k)
      /\ Head(k) = k[1] /\ 1 \in 1..Len(k)
  OBVIOUS
<1>2. AtMostOne(Tail(k), x)
  <2> SUFFICES ASSUME NEW i \in 1..(Len(k) - 1), NEW j \in 1..(Len(k) - 1),
                      k[i + 1].exec = x, k[j + 1].exec = x
               PROVE  i = j
    BY <1>1 DEF AtMostOne
  <2>1. i + 1 = j + 1
    BY <1>1 DEF AtMostOne
  <2> QED
    BY <2>1
<1>3. ASSUME Head(k).exec = x, NEW g \in Elements(Tail(k)), g.exec = x PROVE FALSE
  <2>1. PICK i \in 1..(Len(k) - 1) : g = k[i + 1]
    BY <1>1 DEF Elements
  <2>2. i + 1 = 1
    BY <1>1, <1>3, <2>1 DEF AtMostOne
  <2> QED
    BY <2>2
<1> QED
  BY <1>2, <1>3

\* Where there is none, one may be added.
LEMMA AppendAtMostOne ==
  ASSUME NEW k \in Seq(Event), NEW e \in Event, NEW x, AtMostOne(k, x),
         e.exec = x => \A g \in Elements(k) : g.exec # x
  PROVE  AtMostOne(Append(k, e), x)
<1> DEFINE r == Append(k, e)
<1>1. /\ Len(k) \in Nat /\ DOMAIN r = 1..(Len(k) + 1) /\ DOMAIN k = 1..Len(k)
      /\ r[Len(k) + 1] = e /\ \A i \in 1..Len(k) : r[i] = k[i]
  OBVIOUS
<1>2. \A i \in 1..Len(k) : k[i] \in Elements(k)
  BY <1>1 DEF Elements
<1> HIDE DEF r
<1> SUFFICES ASSUME NEW i \in 1..(Len(k) + 1), NEW j \in 1..(Len(k) + 1), r[i].exec = x, r[j].exec = x
             PROVE  i = j
  BY <1>1 DEF AtMostOne, r
<1>3. CASE i \in 1..Len(k) /\ j \in 1..Len(k)
  BY <1>1, <1>3 DEF AtMostOne
<1>4. CASE i = Len(k) + 1 /\ j = Len(k) + 1
  BY <1>4
<1>5. CASE i = Len(k) + 1 /\ j \in 1..Len(k)
  BY <1>1, <1>2, <1>5
<1>6. CASE i \in 1..Len(k) /\ j = Len(k) + 1
  BY <1>1, <1>2, <1>6
<1> QED
  BY <1>1, <1>3, <1>4, <1>5, <1>6

\* Events leave in sequence after every step.
LEMMA OrderKept == ASSUME LedgerInv, Known', Next PROVE Order'
<1> DEFINE x == log.exec
           Q == Elements(queue)
           K == Elements(carry)
<1>0. /\ Inv /\ Known /\ Numbers /\ Shape /\ log \in LogType /\ execs \in Nat /\ log.next \in Nat
      /\ queue \in Seq(Event) /\ carry \in Seq(Event)
      /\ \A e \in emitted : e \in Event /\ e.exec >= 1 /\ e.exec \in Nat /\ e.seq \in Nat
  BY InvFacts DEF LedgerInv, LogType
<1>o. /\ InOrder(queue, x) /\ AtMostOne(carry, x) /\ Ahead(Written \cup K, Q, x) /\ Ahead(Written, K, x)
      /\ FailedInOrder
  BY DEF LedgerInv, Order
<1>p. /\ Q \subseteq emitted /\ K \subseteq emitted /\ Written \subseteq emitted \cup {NoEvent}
      /\ \A f \in failing : f.msg \in emitted
  BY <1>0 DEF Known, Written
<1>s. /\ open => failing = {}
      /\ ~open => writer = IdleWriter
      /\ \A f, g \in failing : f = g
      /\ \A e \in writer.todo : e.exec = x => kept(log, e)
      /\ IdleWriter.todo = {} /\ IdleWriter.cur = NoEvent
  BY <1>0 DEF Shape, LoopShape, ReplayKept, IdleWriter
<1>n. \A S \in SUBSET Event : Ahead({NoEvent}, S, x) /\ Ahead(S, {NoEvent}, x)
  BY DEF Ahead, NoEvent, Event, Execs
<1>e. \A y : Elements(<<>>) = {} /\ InOrder(<<>>, y) /\ AtMostOne(<<>>, y)
  BY DEF Elements, InOrder, AtMostOne
<1>z. ASSUME \A e \in emitted' : e.exec # log'.exec PROVE Order'
  <2>1. /\ Elements(queue') \subseteq emitted' /\ Elements(carry') \subseteq emitted'
        /\ \A f \in failing' : f.msg \in emitted'
    BY DEF Known, Elements
  <2>2. \A S, T : T \subseteq emitted' => Ahead(S, T, log'.exec)
    BY <1>z DEF Ahead
  <2>3. queue' \in Seq(Event) /\ carry' \in Seq(Event)
    <3>1. TypeOK'
      BY <1>0, AgentStepTypes, CoordinatorStepTypes DEF Next, Inv
    <3> QED
      BY <3>1 DEF TypeOK, AgentTypes
  <2>4. /\ \A i \in DOMAIN queue' : queue'[i].exec # log'.exec
        /\ \A i \in DOMAIN carry' : carry'[i].exec # log'.exec
    BY <1>z, <2>1 DEF Elements
  <2>5. InOrder(queue', log'.exec) /\ AtMostOne(carry', log'.exec)
    BY <2>4 DEF InOrder, AtMostOne
  <2>6. FailedInOrder'
    BY <1>z, <2>1, <2>2 DEF FailedInOrder, Elements
  <2> QED
    BY <2>1, <2>2, <2>5, <2>6 DEF Order, Elements
<1>f. ASSUME failing' = {} PROVE FailedInOrder'
  BY <1>f DEF FailedInOrder
<1>1. ASSUME NEW kind \in Kinds, Emit(kind) PROVE Order'
  <2>1. PICK e \in Event :
          /\ e.exec = log.exec /\ e.seq = log.next + 1 /\ log.exec # 0
          /\ queue' = Append(queue, e)
          /\ log'.exec = log.exec /\ log'.acked = log.acked /\ log'.unacked = log.unacked
          /\ UNCHANGED <<carry, failing, writer>>
    BY <1>0, <1>1, EmitEffect
  <2>2. Elements(queue') = Q \cup {e} /\ Elements(carry') = K
    BY <1>0, <2>1, ElementsOfAppend, SMTT(30) DEF Elements
  <2>3. \A f \in emitted \cup {NoEvent} : f.exec = x => f.seq < e.seq
    <3>1. NoEvent.exec = 0
      BY DEF NoEvent
    <3> QED
      BY <1>0, <2>1, <3>1 DEF Numbers
  <2>4. \A S \in SUBSET (emitted \cup {NoEvent}) : Ahead(S, {e}, x)
    BY <2>3 DEF Ahead
  <2>5. InOrder(queue', x)
    BY <1>0, <1>o, <1>p, <2>1, <2>4, AppendInOrder
  <2>6. Written' = Written
    BY <2>1 DEF Written
  <2>7. Ahead(Written \cup K, Q \cup {e}, x)
    BY <1>o, <1>p, <2>3 DEF Ahead
  <2>8. FailedInOrder'
    <3>1. \A f \in failing : Ahead({f.msg}, Q \cup {e}, x)
      BY <1>o, <1>p, <2>3 DEF Ahead, FailedInOrder
    <3>2. \A f : kept(log', f) <=> kept(log, f)
      BY <2>1 DEF kept
    <3> QED
      BY <1>o, <2>1, <2>2, <3>1, <3>2 DEF FailedInOrder
  <2> QED
    BY <1>o, <2>1, <2>2, <2>5, <2>6, <2>7, <2>8 DEF Order
<1>2. CASE GiveUp
  <2>1. /\ queue # <<>> /\ queue' = Tail(queue) /\ open
        /\ log'.exec = log.exec /\ log'.unacked = log.unacked /\ UNCHANGED <<carry, failing, writer>>
    BY <1>0, <1>2, GiveUpEffect
  <2>2. Elements(queue') \subseteq Q /\ Elements(carry') = K
    BY <1>0, <2>1, ElementsOfTail DEF Elements
  <2>3. InOrder(queue', x)
    BY <1>0, <1>o, <2>1, TailInOrder
  <2>4. Written' = Written /\ failing' = {}
    BY <1>s, <2>1 DEF Written
  <2>5. Ahead(Written \cup K, Elements(queue'), x)
    BY <1>o, <2>2 DEF Ahead
  <2> QED
    BY <1>f, <1>o, <2>1, <2>2, <2>3, <2>4, <2>5 DEF Order
<1>3. CASE gc \/ AgentRestarts
  <2>1. log'.exec = 0 /\ emitted' = emitted
    BY <1>3, LogDropped
  <2> QED
    BY <1>0, <1>z, <2>1
<1>c. ASSUME log'.exec = x, queue' = queue, carry' = carry,
             Written' \subseteq Written \cup {NoEvent}, FailedInOrder'
      PROVE  Order'
  <2>1. Elements(queue') = Q /\ Elements(carry') = K
    BY <1>c DEF Elements
  <2>2. Q \in SUBSET Event /\ K \in SUBSET Event
    BY <1>0, <1>p
  <2>3. Ahead(Written' \cup K, Q, x) /\ Ahead(Written', K, x)
    <3>1. Ahead({NoEvent}, Q, x) /\ Ahead({NoEvent}, K, x)
      BY <1>n, <2>2
    <3> QED
      BY <1>o, <1>c, <3>1 DEF Ahead
  <2> QED
    BY <1>c, <1>o, <2>1, <2>3 DEF Order
<1>4. CASE Connect
  <2>1. /\ writer'.todo = log.unacked /\ writer'.cur = NoEvent
        /\ UNCHANGED <<log, queue, carry, failing>>
    BY <1>0, <1>4, ConnectEffect
  <2>2. Written' \subseteq Written \cup {NoEvent}
    BY <2>1 DEF Written
  <2>3. FailedInOrder'
    BY <1>o, <2>1 DEF FailedInOrder, Elements
  <2> QED
    BY <1>c, <2>1, <2>2, <2>3
<1>5. CASE Write
  <2>1. PICK e : Takes(e) /\ writer'.cur = e /\ writer'.todo = writer.todo \ {e}
    BY <1>0, <1>5, WriteEffect
  <2>2. log' = log /\ failing' = {}
    BY <1>0, <1>5, <1>s, WriteEffect
  <2>3. CASE e \in writer.todo /\ carry' = carry /\ queue' = queue
    <3>1. Written' \subseteq Written
      BY <2>1, <2>2, <2>3 DEF Written
    <3> QED
      BY <1>c, <1>f, <2>2, <2>3, <3>1
  <2>4. CASE writer.todo = {} /\ carry # <<>> /\ e = Head(carry) /\ carry' = Tail(carry) /\ queue' = queue
    <3>1. e \in K /\ Elements(carry') \subseteq K /\ Elements(queue') = Q
      BY <1>0, <2>4, ElementsOfTail DEF Elements
    <3>2. AtMostOne(carry', x) /\ (e.exec = x => \A g \in Elements(carry') : g.exec # x)
      BY <1>0, <1>o, <2>4, TailAtMostOne
    <3>3. Written' \subseteq Written \cup {e}
      BY <2>1, <2>2, <2>4 DEF Written
    <3>4. Ahead(Written', Elements(carry'), x)
      BY <1>o, <3>1, <3>2, <3>3 DEF Ahead
    <3>5. Ahead(Written' \cup Elements(carry'), Q, x)
      BY <1>o, <3>1, <3>3 DEF Ahead
    <3> QED
      BY <1>f, <1>o, <2>2, <2>4, <3>1, <3>2, <3>4, <3>5 DEF Order
  <2>5. CASE /\ writer.todo = {} /\ carry = <<>> /\ queue # <<>> /\ e = Head(queue)
             /\ queue' = Tail(queue) /\ carry' = carry
    <3>1. Elements(queue') \subseteq Q /\ Elements(carry') = {} /\ AtMostOne(carry', x)
      BY <1>0, <1>e, <2>5, ElementsOfTail
    <3>2. InOrder(queue', x) /\ Ahead({e}, Elements(queue'), x)
      BY <1>0, <1>o, <2>5, TailInOrder
    <3>3. Written' \subseteq Written \cup {e}
      BY <2>1, <2>2, <2>5 DEF Written
    <3>4. Ahead(Written' \cup {}, Elements(queue'), x)
      BY <1>o, <3>1, <3>2, <3>3 DEF Ahead
    <3>5. Ahead(Written', {}, x)
      BY DEF Ahead
    <3> QED
      BY <1>f, <2>2, <2>5, <3>1, <3>2, <3>4, <3>5 DEF Order
  <2> QED
    BY <2>1, <2>3, <2>4, <2>5 DEF Takes
<1>6. CASE RecordWritten
  <2>1. /\ writer.cur \in Event /\ writer.cur # NoEvent /\ log' = written(log, writer.cur, TRUE)
        /\ writer'.cur = NoEvent /\ writer'.todo = writer.todo
        /\ UNCHANGED <<queue, carry, failing>>
    BY <1>0, <1>6, RecordEffect
  <2>2. log'.exec = x /\ log'.unacked \subseteq log.unacked \cup {writer.cur}
    BY <1>0, <2>1, WrittenAdds, TRUE \in BOOLEAN
  <2>3. failing' = {}
    BY <1>s, <2>1
  <2>4. Written' \subseteq Written \cup {NoEvent}
    BY <2>1, <2>2 DEF Written
  <2> QED
    BY <1>c, <1>f, <2>1, <2>2, <2>3, <2>4
<1>7. CASE AgentCloses
  <2>1. open /\ writer' = IdleWriter /\ log' = log /\ failing = {}
    BY <1>0, <1>7, <1>s, CloseEffect
  <2>2. Written' \subseteq Written \cup {NoEvent} /\ Written' = log.unacked \cup {NoEvent}
    BY <1>s, <2>1 DEF Written
  <2>3. CASE /\ carry' = carry /\ queue' = queue
             /\ failing' = IF writer.cur = NoEvent THEN failing
                           ELSE failing \cup {[msg |-> writer.cur, sent |-> TRUE]}
    <3>1. \A f \in failing' : f.msg = writer.cur /\ f.sent
      BY <2>1, <2>3
    <3>2. writer.cur \in Written
      BY DEF Written
    <3>3. Ahead({writer.cur}, Q, x) /\ Ahead({writer.cur}, K, x)
      BY <1>o, <3>2 DEF Ahead
    <3>4. FailedInOrder'
      BY <2>1, <2>3, <3>1, <3>3 DEF FailedInOrder, Elements
    <3> QED
      BY <1>c, <2>1, <2>2, <2>3, <3>4
  <2>4. ASSUME NEW e, Takes(e), failing' = failing \cup {[msg |-> e, sent |-> FALSE]} PROVE Order'
    <3>0. \A f \in failing' : f.msg = e /\ ~f.sent
      BY <2>1, <2>4
    <3>1. CASE e \in writer.todo /\ carry' = carry /\ queue' = queue
      <4>1. e.exec = x => kept(log, e)
        BY <1>s, <3>1
      <4>2. e \in Written
        BY <3>1 DEF Written
      <4>3. Ahead({e}, Q, x)
        BY <1>o, <4>2 DEF Ahead
      <4>4. FailedInOrder'
        BY <2>1, <3>0, <3>1, <4>1, <4>3 DEF FailedInOrder, Elements
      <4> QED
        BY <1>c, <2>1, <2>2, <3>1, <4>4
    <3>2. CASE writer.todo = {} /\ carry # <<>> /\ e = Head(carry) /\ carry' = Tail(carry) /\ queue' = queue
      <4>1. e \in K /\ Elements(carry') \subseteq K /\ Elements(queue') = Q
        BY <1>0, <3>2, ElementsOfTail DEF Elements
      <4>2. AtMostOne(carry', x) /\ (e.exec = x => \A g \in Elements(carry') : g.exec # x)
        BY <1>0, <1>o, <3>2, TailAtMostOne
      <4>3. Ahead({e}, Q, x) /\ Ahead(log.unacked, {e}, x)
        BY <1>o, <4>1 DEF Ahead, Written
      <4>4. FailedInOrder'
        BY <2>1, <3>0, <4>1, <4>2, <4>3 DEF FailedInOrder
      <4>5. Ahead(Written', Elements(carry'), x) /\ Ahead(Written' \cup Elements(carry'), Q, x)
        <5>1. Ahead({NoEvent}, Elements(carry'), x) /\ Ahead({NoEvent}, Q, x)
          BY <1>0, <1>n, <1>p, <4>1
        <5> QED
          BY <1>o, <2>2, <4>1, <5>1 DEF Ahead
      <4> QED
        BY <1>o, <2>1, <3>2, <4>1, <4>2, <4>4, <4>5 DEF Order
    <3>3. CASE /\ writer.todo = {} /\ carry = <<>> /\ queue # <<>> /\ e = Head(queue)
               /\ queue' = Tail(queue) /\ carry' = carry
      <4>1. e \in Q /\ Elements(queue') \subseteq Q /\ Elements(carry') = {} /\ AtMostOne(carry', x)
        BY <1>0, <1>e, <3>3, ElementsOfTail
      <4>2. InOrder(queue', x) /\ Ahead({e}, Elements(queue'), x)
        BY <1>0, <1>o, <3>3, TailInOrder
      <4>3. Ahead(log.unacked, {e}, x)
        BY <1>o, <4>1 DEF Ahead, Written
      <4>4. FailedInOrder'
        BY <2>1, <3>0, <4>1, <4>2, <4>3 DEF FailedInOrder
      <4>5. Ahead(Written' \cup {}, Elements(queue'), x)
        <5>1. Ahead({NoEvent}, Elements(queue'), x)
          BY <1>0, <1>n, <1>p, <4>1
        <5> QED
          BY <1>o, <2>2, <4>1, <5>1 DEF Ahead
      <4>6. Ahead(Written', {}, x)
        BY DEF Ahead
      <4> QED
        BY <2>1, <3>3, <4>1, <4>2, <4>4, <4>5, <4>6 DEF Order
    <3> QED
      BY <2>4, <3>1, <3>2, <3>3 DEF Takes
  <2> QED
    BY <1>0, <1>7, <2>3, <2>4, CloseEffect
<1>8. CASE OldWriteReturns
  <2>1. UNCHANGED <<queue, writer>>
    BY <1>0, <1>8, ReturnEffect
  <2>2. PICK f \in failing :
          /\ failing' = failing \ {f} /\ f.msg \in Event
          /\ \/ /\ f.sent /\ log' = written(log, f.msg, TRUE) /\ carry' = carry
             \/ log' = log /\ carry' = carry
             \/ /\ ~f.sent /\ log' = log /\ ~kept(log, f.msg)
                /\ carry' = Append(carry, f.msg)
    BY <1>0, <1>8, ReturnEffect
  <2>3. failing' = {} /\ FailedInOrder'
    <3>1. failing' = {}
      BY <1>s, <2>2
    <3> QED
      BY <1>f, <3>1
  <2>4. writer.todo = {} /\ writer.cur = NoEvent
    BY <1>s, <2>2
  <2>5. CASE f.sent /\ log' = written(log, f.msg, TRUE) /\ carry' = carry
    <3>1. log'.exec = x /\ log'.unacked \subseteq log.unacked \cup {f.msg}
      BY <1>0, <2>2, <2>5, WrittenAdds, TRUE \in BOOLEAN
    <3>2. Written' \subseteq Written \cup {f.msg}
      BY <2>1, <3>1 DEF Written
    <3>3. Ahead({f.msg}, Q, x) /\ Ahead({f.msg}, K, x)
      BY <1>o, <2>2, <2>5 DEF FailedInOrder
    <3>4. Elements(queue') = Q /\ Elements(carry') = K
      BY <2>1, <2>5 DEF Elements
    <3>5. Ahead(Written' \cup K, Q, x) /\ Ahead(Written', K, x)
      BY <1>o, <3>2, <3>3 DEF Ahead
    <3> QED
      BY <1>o, <2>1, <2>3, <2>5, <3>1, <3>4, <3>5 DEF Order
  <2>6. CASE log' = log /\ carry' = carry
    <3>1. Written' \subseteq Written
      BY <2>1, <2>6 DEF Written
    <3> QED
      BY <1>c, <2>1, <2>3, <2>6, <3>1
  <2>7. CASE ~f.sent /\ log' = log /\ ~kept(log, f.msg) /\ carry' = Append(carry, f.msg)
    <3>0. Elements(queue') = Q
      BY <2>1 DEF Elements
    <3>1. Elements(queue') = Q /\ Elements(carry') = K \cup {f.msg}
      BY <1>0, <2>2, <2>7, <3>0, ElementsOfAppend
    <3>2. /\ Ahead({f.msg}, Q, x)
          /\ f.msg.exec = x => (\A g \in K : g.exec # x) /\ Ahead(log.unacked, {f.msg}, x)
      BY <1>o, <2>2, <2>7 DEF FailedInOrder
    <3>3. AtMostOne(carry', x)
      BY <1>0, <1>o, <2>2, <2>7, <3>2, AppendAtMostOne
    <3>4. Written' = log.unacked \cup {NoEvent}
      BY <2>1, <2>4, <2>7 DEF Written
    <3>5. Ahead(log.unacked, {f.msg}, x)
      BY <3>2 DEF Ahead
    <3>6. Ahead({NoEvent}, {f.msg}, x) /\ Ahead({NoEvent}, Q, x) /\ Ahead({NoEvent}, K, x)
      BY <1>0, <1>n, <1>p, <2>2
    <3>7. log.unacked \subseteq Written
      BY DEF Written
    <3>8. Ahead(Written', K \cup {f.msg}, x)
      BY <1>o, <3>4, <3>5, <3>6, <3>7 DEF Ahead
    <3>9. Ahead(Written' \cup (K \cup {f.msg}), Q, x)
      BY <1>o, <3>2, <3>4, <3>6, <3>7 DEF Ahead
    <3> QED
      BY <1>o, <2>1, <2>3, <2>7, <3>1, <3>3, <3>8, <3>9 DEF Order
  <2> QED
    BY <2>2, <2>5, <2>6, <2>7
<1>9. CASE AgentReceives
  <2>1. open /\ UNCHANGED <<queue, carry, failing, writer, emitted>>
    BY <1>0, <1>9, ReceiveEffect
  <2>2. failing' = {} /\ FailedInOrder'
    BY <1>f, <1>s, <2>1
  <2>3. ASSUME NEW m \in Reply, log' = ack(log, m) PROVE Order'
    <3>1. log'.exec = x /\ log'.unacked \subseteq log.unacked
      BY <1>0, <2>3, AckKeeps
    <3>2. Written' \subseteq Written
      BY <2>1, <3>1 DEF Written
    <3> QED
      BY <1>c, <2>1, <2>2, <3>1, <3>2
  <2>4. CASE log' = [NoLog EXCEPT !.exec = execs + 1]
    <3>1. log'.exec = execs + 1
      BY <2>4 DEF NoLog
    <3>2. \A e \in emitted' : e.exec # log'.exec
      BY <1>0, <2>1, <3>1, InvFacts DEF ExecsBounded
    <3> QED
      BY <1>z, <3>2
  <2>5. CASE log' = log
    <3>1. Written' = Written
      BY <2>1, <2>5 DEF Written
    <3> QED
      BY <1>c, <2>1, <2>2, <2>5, <3>1
  <2> QED
    BY <1>0, <1>9, <2>3, <2>4, <2>5, ReceiveEffect
<1>10. CASE AgentUntouched
  <2>1. Written' = Written /\ UNCHANGED <<log, queue, carry, failing>>
    BY <1>10 DEF AgentUntouched, Written
  <2>2. FailedInOrder'
    BY <1>o, <2>1 DEF FailedInOrder, Elements
  <2> QED
    BY <1>c, <2>1, <2>2
<1> QED
  BY <1>0, <1>1, <1>2, <1>3, <1>4, <1>5, <1>6, <1>7, <1>8, <1>9, <1>10, OtherSteps

----------------------------------------------------------------------------
(* Every event of the execution in progress has a way to the coordinator.  *)

\* Only setting up a connection makes bytes get through.
LEMMA LinkOfStep ==
  ASSUME Inv, Next, ~Connect
  PROVE  conn' = conn /\ (open' => open) /\ \A c \in Conns : link'[c] => link[c]
<1>0. link \in [Conns -> BOOLEAN]
  BY DEF Inv, TypeOK, WireTypes
<1> DEFINE Goal == conn' = conn /\ (open' => open) /\ \A c \in Conns : link'[c] => link[c]
<1>1. ASSUME conn' = conn, open' = open, link' = link PROVE Goal
  BY <1>1, Zenon
<1>2. ASSUME NEW kind \in Kinds, Emit(kind) PROVE Goal
  BY <1>1, <1>2 DEF Emit, wireVars
<1>3. CASE RunnerExits \/ GiveUp \/ gc \/ Write \/ RecordWritten \/ RequestAck \/ OldWriteReturns \/ AgentReceives
  BY <1>1, <1>3 DEF RunnerExits, GiveUp, gc, Write, RecordWritten, RequestAck, OldWriteReturns, AgentReceives,
                    wireVars
<1>4. CASE AgentCloses
  <2>1. conn' = conn /\ ~open' /\ link' = link
    BY <1>4 DEF AgentCloses
  <2> QED
    BY <2>1, Zenon
<1>5. CASE AgentRestarts
  <2>1. conn' = conn /\ ~open' /\ link' = [link EXCEPT ![conn] = FALSE]
    BY <1>5 DEF AgentRestarts
  <2>2. \A c \in Conns : link'[c] = link[c] \/ link'[c] = FALSE
    BY <1>0, <2>1
  <2> QED
    BY <2>1, <2>2
<1>6. CASE Break
  <2>1. conn' = conn /\ open' = open /\ link' = [link EXCEPT ![conn] = FALSE]
    BY <1>6 DEF Break, agentVars
  <2>2. \A c \in Conns : link'[c] = link[c] \/ link'[c] = FALSE
    BY <1>0, <2>1
  <2> QED
    BY <2>1, <2>2
<1>7. CASE CoordinatorRestarts
  BY <1>7 DEF CoordinatorRestarts, agentVars
<1>8. CASE Hibernate \/ \E c \in Conns : Dispatch(c)
  BY <1>1, <1>8 DEF Hibernate, Dispatch, agentVars, wireVars
<1>9. ASSUME NEW c \in Conns, CoordinatorCloses(c) \/ Refuse(c) \/ DropDuplicate(c) \/ Accept(c)
                              \/ HandleAckRequest(c)
      PROVE  Goal
  BY <1>1, <1>9 DEF CoordinatorCloses, Refuse, DropDuplicate, Accept, HandleAckRequest, agentVars
<1>10. CASE Persist \/ StoreMark \/ SendAck
  BY <1>1, <1>10 DEF Persist, StoreMark, SendAck, agentVars, wireVars
<1> QED
  BY <1>2, <1>3, <1>4, <1>5, <1>6, <1>7, <1>8, <1>9, <1>10 DEF Next, AgentStep, CoordinatorStep

\* A connection comes to own the run when the run is dispatched on it or handed over as it is set up.
LEMMA OwnerOfStep ==
  ASSUME Inv, Next, NEW c \in Conns, Owner(c)'
  PROVE  Owner(c) \/ Dispatch(c) \/ (Connect /\ c = conn')
<1> USE DEF Owner
<1>0. jobs \in [Conns -> {"closed", "none", "active", "recent"}]
  BY DEF Inv, TypeOK, CoordinatorTypes
<1>1. CASE jobs' = jobs
  BY <1>1
<1>2. ASSUME Connect, c # conn' PROVE Owner(c)
  BY <1>0, <1>2 DEF Connect
<1>3. ASSUME NEW d \in Conns, Dispatch(d) PROVE Owner(c) \/ d = c
  BY <1>0, <1>3 DEF Dispatch
<1>4. ASSUME NEW d \in Conns, CoordinatorCloses(d) PROVE Owner(c)
  BY <1>0, <1>4 DEF CoordinatorCloses
<1>5. ASSUME NEW d \in Conns, Accept(d) PROVE Owner(c)
  BY <1>0, <1>5 DEF Accept, Owned
<1>6. CASE CoordinatorRestarts
  BY <1>6 DEF CoordinatorRestarts
<1>7. ASSUME NEW d \in Conns, Refuse(d) \/ DropDuplicate(d) \/ HandleAckRequest(d) PROVE jobs' = jobs
  BY <1>7 DEF Refuse, DropDuplicate, HandleAckRequest, memoryVars
<1>8. CASE \/ \E kind \in Kinds : Emit(kind)
           \/ RunnerExits \/ GiveUp \/ gc \/ AgentRestarts \/ Break \/ Hibernate
           \/ Write \/ RecordWritten \/ RequestAck \/ AgentCloses \/ OldWriteReturns \/ AgentReceives
           \/ Persist \/ StoreMark \/ SendAck
  BY <1>1, <1>8 DEF Emit, RunnerExits, GiveUp, gc, AgentRestarts, Break, Hibernate, Write, RecordWritten,
                    RequestAck, AgentCloses, OldWriteReturns, AgentReceives, Persist, StoreMark, SendAck, memoryVars
<1> QED
  BY <1>1, <1>2, <1>3, <1>4, <1>5, <1>6, <1>7, <1>8 DEF Next, AgentStep, CoordinatorStep

\* What is taken care of, as a connection sees it, stays so while the coordinator runs.
LEMMA HandledGrows ==
  ASSUME LedgerInv, Next, ~CoordinatorRestarts, NEW c \in Conns, Connect => c # conn'
  PROVE  emitted \cap HandledOn(c) \subseteq HandledOn(c)'
<1>0. /\ Inv /\ Settled \subseteq Settled' /\ GivenUp \subseteq GivenUp' /\ refused \subseteq refused'
      /\ persisting \subseteq persisting' \cup Settled' /\ GivenUp' \subseteq refused' /\ GivenUp \subseteq refused
  BY SafeGrows DEF LedgerInv, GivenUp
<1>1. CASE ~Owner(c)'
  BY <1>0, <1>1 DEF HandledOn
<1>2. CASE Owner(c)' /\ Owner(c)
  BY <1>0, <1>2 DEF HandledOn
<1>3. CASE Owner(c)' /\ Dispatch(c)
  <2>1. dispatches \in Nat /\ dispatches' = dispatches + 1
    BY <1>0, <1>3, SafeGrows DEF Dispatch, Inv, TypeOK, HistoryTypes
  <2>2. CASE dispatches = 0
    <3>1. execs = 0
      BY <2>2 DEF LedgerInv, DispatchFirst
    <3>2. emitted = {}
      BY <1>0, <3>1, InvFacts DEF ExecsBounded
    <3> QED
      BY <3>2
  <2>3. CASE dispatches # 0
    <3>1. GivenUp' = refused'
      BY <2>1, <2>3 DEF GivenUp
    <3> QED
      BY <1>0, <1>3, <3>1 DEF HandledOn
  <2> QED
    BY <2>2, <2>3
<1> QED
  BY <1>0, <1>1, <1>2, <1>3, OwnerOfStep

\* Every event of the execution in progress keeps a way to the coordinator.
LEMMA ReachableKept == ASSUME ~LateWriter, LedgerInv, Next PROVE Reachable'
<1> DEFINE H == HandledOn(conn)
           U == Elements(up[conn])
           T == writer.todo
           K == Elements(carry)
           Q == Elements(queue)
<1>0. /\ Inv /\ Known /\ Shape /\ MarksSound /\ log \in LogType /\ execs \in Nat
      /\ queue \in Seq(Event) /\ carry \in Seq(Event)
      /\ \A e \in emitted : e \in Event /\ e.exec >= 1 /\ e.exec \in Nat /\ e.seq \in Nat
  BY InvFacts DEF LedgerInv
<1>1. CASE Connect
  <2>1. /\ ~open /\ failing = {} /\ conn' = conn + 1 /\ conn' \in Conns /\ up' = up
        /\ writer'.todo = log.unacked
        /\ UNCHANGED <<log, queue, carry, emitted, excused, persisting, durable, refused, dispatches>>
    BY <1>0, <1>1, ConnectEffect
  <2>2. writer.cur = NoEvent
    BY <1>0, <2>1 DEF Inv, WriterClosed
  <2>3. ASSUME NEW e \in emitted, e.exec = log.exec
        PROVE  e \in HandledOn(conn)' \cup writer'.todo \cup Elements(carry') \cup Elements(queue')
    <3>1. Safe' = Safe /\ Safe \subseteq Settled' \cup GivenUp' /\ GivenUp' \subseteq refused'
      BY <2>1 DEF Safe, Settled, GivenUp
    <3>2. Safe \subseteq HandledOn(conn)'
      BY <3>1 DEF HandledOn
    <3>3. CASE e.seq > log.acked
      <4>1. e \in Held
        BY <1>0, <2>3, <3>3, InvFacts DEF NothingForgotten
      <4>2. e # NoEvent
        BY <1>0, NoEventIsNone
      <4>3. e \in Elements(queue) \cup Elements(carry) \cup log.unacked \cup excused
        BY <2>1, <2>2, <4>1, <4>2 DEF Held
      <4>4. Elements(queue') = Elements(queue) /\ Elements(carry') = Elements(carry)
        BY <2>1 DEF Elements
      <4>5. excused \subseteq Safe
        BY DEF Safe, Settled
      <4> QED
        BY <2>1, <3>2, <4>3, <4>4, <4>5
    <3>4. CASE ~(e.seq > log.acked)
      <4>1. e.seq <= log.acked
        BY <1>0, <3>4, DeliveryAssumption DEF LogType
      <4>2. log.exec # 0
        BY <1>0, <2>3
      <4>3. e \in Safe
        BY <1>0, <2>3, <4>1, <4>2 DEF MarksSound, Sound, Covered, Acked
      <4> QED
        BY <3>2, <4>3
    <3> QED
      BY <3>3, <3>4
  <2> QED
    BY <2>1, <2>3 DEF Reachable
<1>2. ASSUME ~Connect, open', link'[conn'], NEW e \in emitted', e.exec = log'.exec
      PROVE  e \in (HandledOn(conn) \cup Elements(up[conn]) \cup writer.todo \cup Elements(carry)
                    \cup Elements(queue))'
  <2>1. conn' = conn /\ open /\ conn \in Conns
    <3>1. conn' = conn /\ open
      BY <1>0, <1>2, LinkOfStep
    <3> QED
      BY <1>0, <3>1 DEF Inv, TypeOK, AgentTypes, Conns
  <2>2. link[conn] /\ ~CoordinatorRestarts
    <3>1. link'[conn]
      BY <1>2, <2>1
    <3>2. ~CoordinatorRestarts
      BY <2>1, <3>1 DEF CoordinatorRestarts
    <3> QED
      BY <1>0, <1>2, <2>1, <3>1, <3>2, LinkOfStep
  <2>3. \A d \in emitted : d.exec = log.exec => d \in H \cup U \cup T \cup K \cup Q
    BY <2>1, <2>2 DEF LedgerInv, Reachable
  <2>4. emitted \cap H \subseteq HandledOn(conn)'
    BY <1>2, <2>1, <2>2, HandledGrows
  <2>e. e \in emitted' /\ e.exec = log'.exec
    BY <1>2
  <2> DEFINE R2 == HandledOn(conn)' \cup Elements(up'[conn]) \cup writer'.todo \cup Elements(carry')
                     \cup Elements(queue')
  <2>r. SUFFICES e \in R2
    BY <2>1 DEF Elements
  <2>5. ASSUME log'.exec = log.exec, e \in emitted, e \in T \cup K \cup Q => e \in R2 PROVE e \in R2
    <3>0. e \in H \cup U \cup T \cup K \cup Q /\ IsEvent(e) /\ up[conn] \in Seq(WireMessage)
      <4>1. IsEvent(e)
        BY <1>0, <2>5 DEF IsEvent, Event, AllKinds
      <4>2. up[conn] \in Seq(WireMessage)
        BY <1>0, <2>1 DEF Inv, TypeOK, WireTypes
      <4> QED
        BY <2>e, <2>3, <2>5, <4>1, <4>2
    <3>1. CASE e \in H
      BY <2>4, <2>5, <3>1
    <3>2. CASE e \in U
      <4>1. CASE up'[conn] = up[conn]
        BY <3>2, <4>1
      <4>2. ~(up'[conn] = <<>> /\ ~link'[conn])
        BY <1>2, <2>1
      <4>3. CASE up[conn] # <<>> /\ up'[conn] = Tail(up[conn])
                 /\ (IsEvent(Head(up[conn])) /\ Head(up[conn]).exec = log.exec => Head(up[conn]) \in HandledOn(conn)')
        <5>1. U = {Head(up[conn])} \cup Elements(up'[conn])
          BY <3>0, <4>3, ElementsOfTail
        <5>2. CASE e = Head(up[conn])
          BY <2>e, <2>5, <3>0, <4>3, <5>2
        <5>3. CASE e \in Elements(up'[conn])
          BY <5>3
        <5> QED
          BY <3>2, <5>1, <5>2, <5>3
      <4>4. ASSUME NEW m \in WireMessage, up'[conn] = Append(up[conn], m) PROVE e \in R2
        <5>1. Elements(up'[conn]) = U \cup {m}
          BY <3>0, <4>4, ElementsOfAppend
        <5> QED
          BY <3>2, <5>1
      <4>5. \/ up'[conn] = up[conn]
            \/ up'[conn] = <<>> /\ ~link'[conn]
            \/ /\ up[conn] # <<>> /\ up'[conn] = Tail(up[conn])
               /\ IsEvent(Head(up[conn])) /\ Head(up[conn]).exec = log.exec
                    => Head(up[conn]) \in HandledOn(conn)'
            \/ \E m \in WireMessage : up'[conn] = Append(up[conn], m)
        BY <2>1, UpOfStep
      <4> QED
        BY <4>1, <4>2, <4>3, <4>4, <4>5
    <3> QED
      BY <2>5, <3>0, <3>1, <3>2
  <2>6. ASSUME NEW kind \in Kinds, Emit(kind) PROVE e \in R2
    <3>1. PICK d \in Event :
            /\ queue' = Append(queue, d) /\ emitted' = emitted \cup {d}
            /\ log'.exec = log.exec /\ UNCHANGED <<carry, writer>>
      BY <1>0, <2>6, EmitEffect
    <3>2. Elements(queue') = Q \cup {d} /\ Elements(carry') = K
      BY <1>0, <3>1, ElementsOfAppend DEF Elements
    <3> QED
      BY <2>5, <3>1, <3>2
  <2>7. CASE GiveUp
    <3>1. /\ queue # <<>> /\ queue' = Tail(queue) /\ excused' = excused \cup {Head(queue)}
          /\ log'.exec = log.exec /\ UNCHANGED <<carry, writer, emitted>>
      BY <1>0, <2>7, GiveUpEffect
    <3>2. Q = {Head(queue)} \cup Elements(queue')
      BY <1>0, <3>1, ElementsOfTail
    <3>3. Head(queue) \in HandledOn(conn)'
      BY <3>1 DEF HandledOn, Settled
    <3>4. Elements(carry') = K
      BY <3>1 DEF Elements
    <3>8. e \in T \cup K \cup Q => e \in R2
      BY <3>1, <3>2, <3>3, <3>4
    <3>9. e \in emitted /\ log'.exec = log.exec
      BY <2>e, <3>1, <3>2, <3>3, <3>4
    <3> QED
      BY <2>5, <3>8, <3>9
  <2>8. ~gc /\ ~AgentRestarts
    <3>1. gc \/ AgentRestarts => log'.exec = 0 /\ emitted' = emitted
      BY LogDropped
    <3> QED
      BY <1>0, <2>e, <3>1
  <2>9. CASE Write
    <3>1. PICK m : Takes(m) /\ writer'.todo = writer.todo \ {m} /\ up' = [up EXCEPT ![conn] = Append(@, m)]
      BY <1>0, <2>2, <2>9, WriteEffect
    <3>2. log' = log /\ emitted' = emitted
      BY <1>0, <2>9, WriteEffect
    <3>3. Q \cup K \subseteq Elements(queue') \cup Elements(carry') \cup {m} /\ m \in WireMessage
      BY <1>0, <3>1, TakesFacts DEF WireMessage
    <3>4. m \in Elements(up'[conn])
      <4>1. up[conn] \in Seq(WireMessage) /\ up'[conn] = Append(up[conn], m)
        BY <1>0, <2>1, <3>1 DEF Inv, TypeOK, WireTypes
      <4> QED
        BY <3>3, <4>1, ElementsOfAppend
    <3>8. e \in T \cup K \cup Q => e \in R2
      BY <3>1, <3>2, <3>3, <3>4
    <3>9. e \in emitted /\ log'.exec = log.exec
      BY <2>e, <3>1, <3>2, <3>3, <3>4
    <3> QED
      BY <2>5, <3>8, <3>9
  <2>10. CASE RecordWritten
    <3>1. log'.exec = log.exec
      <4>1. log' = written(log, writer.cur, TRUE) /\ writer.cur \in Event
        BY <1>0, <2>10, RecordEffect
      <4> QED
        BY <1>0, <4>1, WrittenAdds, TRUE \in BOOLEAN
    <3>2. writer'.todo = writer.todo /\ UNCHANGED <<queue, carry, emitted>>
      BY <1>0, <2>10, RecordEffect
    <3>3. Elements(queue') = Q /\ Elements(carry') = K
      BY <3>2 DEF Elements
    <3>8. e \in T \cup K \cup Q => e \in R2
      BY <3>1, <3>2, <3>3
    <3>9. e \in emitted /\ log'.exec = log.exec
      BY <2>e, <3>1, <3>2, <3>3
    <3> QED
      BY <2>5, <3>8, <3>9
  <2>11. ~AgentCloses
    BY <1>0, <1>2, CloseEffect
  <2>12. ~OldWriteReturns
    BY <1>0, <2>1, ReturnEffect DEF Shape, LoopShape
  <2>13. CASE AgentReceives
    <3>1. UNCHANGED <<queue, carry, writer, emitted>>
      BY <1>0, <2>13, ReceiveEffect
    <3>2. Elements(queue') = Q /\ Elements(carry') = K
      BY <3>1 DEF Elements
    <3>3. ASSUME NEW m \in Reply, log' = ack(log, m) PROVE log'.exec = log.exec
      BY <1>0, <3>3, AckKeeps
    <3>4. log' # [NoLog EXCEPT !.exec = execs + 1]
      BY <1>0, <2>e, <3>1, InvFacts DEF NoLog, ExecsBounded
    <3>5. log'.exec = log.exec
      BY <1>0, <2>13, <3>3, <3>4, ReceiveEffect
    <3>8. e \in T \cup K \cup Q => e \in R2
      BY <3>1, <3>2, <3>5
    <3>9. e \in emitted /\ log'.exec = log.exec
      BY <2>e, <3>1, <3>2, <3>5
    <3> QED
      BY <2>5, <3>8, <3>9
  <2>14. CASE AgentUntouched
    <3>1. writer'.todo = writer.todo /\ UNCHANGED <<log, queue, carry, emitted>>
      BY <2>14 DEF AgentUntouched
    <3>2. Elements(queue') = Q /\ Elements(carry') = K
      BY <3>1 DEF Elements
    <3>8. e \in T \cup K \cup Q => e \in R2
      BY <3>1, <3>2
    <3>9. e \in emitted /\ log'.exec = log.exec
      BY <2>e, <3>1, <3>2
    <3> QED
      BY <2>5, <3>8, <3>9
  <2> QED
    BY <1>0, <1>2, <2>6, <2>7, <2>8, <2>9, <2>10, <2>11, <2>12, <2>13, <2>14, OtherSteps
<1> QED
  BY <1>1, <1>2 DEF Reachable

----------------------------------------------------------------------------
(* On a connection events follow their predecessors.                       *)

\* Reading the first message leaves the others their predecessors, if the one read is taken care of.
LEMMA TailPredecessors ==
  ASSUME NEW u \in Seq(WireMessage), u # <<>>, NEW x, NEW sent, NEW H, NEW G,
         Predecessors(u, x, sent, H), sent \cap H \subseteq G, \A e \in sent : IsEvent(e),
         IsEvent(Head(u)) /\ Head(u).exec = x => Head(u) \in G
  PROVE  Predecessors(Tail(u), x, sent, G)
<1> DEFINE r == Tail(u)
<1>1. /\ Len(u) \in Nat \ {0} /\ DOMAIN r = 1..(Len(u) - 1) /\ DOMAIN u = 1..Len(u)
      /\ \A i \in 1..(Len(u) - 1) : r[i] = u[i + 1] /\ i + 1 \in 1..Len(u)
      /\ Head(u) = u[1]
  OBVIOUS
<1> SUFFICES Predecessors(r, x, sent, G)
  OBVIOUS
<1> HIDE DEF r
<1> SUFFICES ASSUME NEW i \in 1..(Len(u) - 1), IsEvent(r[i]), r[i].exec = x,
                    NEW e \in sent, e.exec = x, e.seq < r[i].seq
             PROVE  e \in G \/ \E j \in 1..(Len(u) - 1) : j < i /\ r[j] = e
  <2>1. DOMAIN r = 1..(Len(u) - 1)
    BY <1>1
  <2> QED
    BY <2>1, Zenon DEF Predecessors
<1>2. e \in H \/ \E k \in 1..Len(u) : k < i + 1 /\ u[k] = e
  BY <1>1 DEF Predecessors
<1>3. ASSUME NEW k \in 1..Len(u), k < i + 1, u[k] = e
      PROVE  e \in G \/ \E j \in 1..(Len(u) - 1) : j < i /\ r[j] = e
  <2>1. CASE k = 1
    BY <1>1, <1>3, <2>1
  <2>2. CASE k # 1
    <3>1. k - 1 \in 1..(Len(u) - 1) /\ k - 1 < i /\ (k - 1) + 1 = k
      BY <1>1, <1>3, <2>2
    <3>2. r[k - 1] = e
      BY <1>1, <1>3, <3>1
    <3> QED
      BY <3>1, <3>2
  <2> QED
    BY <2>1, <2>2
<1> QED
  BY <1>2, <1>3

\* A message put on a connection after its predecessors.
LEMMA AppendPredecessors ==
  ASSUME NEW u \in Seq(WireMessage), NEW m \in WireMessage, NEW x, NEW sent, NEW H, NEW G,
         Predecessors(u, x, sent, H), sent \cap H \subseteq G,
         IsEvent(m) /\ m.exec = x =>
           \A e \in sent : e.exec = x /\ e.seq < m.seq => e \in G \/ e \in Elements(u)
  PROVE  Predecessors(Append(u, m), x, sent, G)
<1> DEFINE r == Append(u, m)
<1>1. /\ Len(u) \in Nat /\ DOMAIN r = 1..(Len(u) + 1) /\ DOMAIN u = 1..Len(u)
      /\ r[Len(u) + 1] = m /\ \A i \in 1..Len(u) : r[i] = u[i]
  OBVIOUS
<1> HIDE DEF r
<1> SUFFICES ASSUME NEW i \in 1..(Len(u) + 1), IsEvent(r[i]), r[i].exec = x,
                    NEW e \in sent, e.exec = x, e.seq < r[i].seq
             PROVE  e \in G \/ \E j \in 1..(Len(u) + 1) : j < i /\ r[j] = e
  BY <1>1 DEF Predecessors, r
<1>2. CASE i \in 1..Len(u)
  <2>1. e \in H \/ \E k \in 1..Len(u) : k < i /\ u[k] = e
    BY <1>1, <1>2 DEF Predecessors
  <2>2. \A k \in 1..Len(u) : k \in 1..(Len(u) + 1)
    BY <1>1
  <2> QED
    BY <1>1, <2>1, <2>2
<1>3. CASE i = Len(u) + 1
  <2>1. e \in G \/ e \in Elements(u)
    BY <1>1, <1>3
  <2>2. ASSUME e \in Elements(u) PROVE \E j \in 1..(Len(u) + 1) : j < i /\ r[j] = e
    <3>1. PICK k \in 1..Len(u) : e = u[k]
      BY <1>1, <2>2 DEF Elements
    <3>2. k \in 1..(Len(u) + 1) /\ k < i /\ r[k] = e
      BY <1>1, <1>3, <3>1
    <3> QED
      BY <3>2
  <2> QED
    BY <2>1, <2>2
<1> QED
  BY <1>1, <1>2, <1>3

\* The event the write loop takes next has no predecessor left behind it.
LEMMA TakesInSequence ==
  ASSUME LedgerInv, NEW m, Takes(m), m.exec = log.exec,
         NEW e \in emitted, e.exec = log.exec, e.seq < m.seq
  PROVE  e \notin writer.todo \cup Elements(carry) \cup Elements(queue)
<1> DEFINE x == log.exec
           K == Elements(carry)
           Q == Elements(queue)
<1>0. /\ Inv /\ Order /\ m \in Event /\ queue \in Seq(Event) /\ carry \in Seq(Event)
      /\ e.seq \in Nat /\ m.seq \in Nat /\ ~(m.seq < e.seq)
  <2>1. Inv /\ Order
    BY DEF LedgerInv
  <2>2. m \in Event /\ e.seq \in Nat
    BY <2>1, TakesFacts, InvFacts
  <2>3. m.seq \in Nat
    BY <2>2, DeliveryAssumption DEF Event
  <2> QED
    BY <2>1, <2>2, <2>3, InvFacts
<1>1. /\ InOrder(queue, x) /\ AtMostOne(carry, x)
      /\ \A g \in Written \cup K : \A f \in Q : g.exec = x /\ f.exec = x => g.seq < f.seq
      /\ \A g \in Written : \A f \in K : g.exec = x /\ f.exec = x => g.seq < f.seq
  BY <1>0 DEF Order, Ahead
<1>2. writer.todo \subseteq Written
  BY DEF Written
<1>3. CASE m \in writer.todo /\ \A f \in writer.todo : m.seq <= f.seq
  <2>1. e \notin writer.todo
    BY <1>0, <1>3
  <2>2. e \notin K /\ e \notin Q
    BY <1>0, <1>1, <1>2, <1>3
  <2> QED
    BY <2>1, <2>2
<1>4. CASE writer.todo = {} /\ carry # <<>> /\ m = Head(carry)
  <2>1. K = {m} \cup Elements(Tail(carry))
    BY <1>0, <1>4, ElementsOfTail
  <2>2. \A g \in Elements(Tail(carry)) : g.exec # x
    BY <1>0, <1>1, <1>4, TailAtMostOne
  <2>3. e # m
    BY <1>0
  <2>4. e \notin K
    BY <2>1, <2>2, <2>3
  <2>5. e \notin Q
    BY <1>0, <1>1, <2>1
  <2> QED
    BY <1>4, <2>4, <2>5
<1>5. CASE writer.todo = {} /\ carry = <<>> /\ queue # <<>> /\ m = Head(queue)
  <2>0. K = {}
    BY <1>5 DEF Elements
  <2>1. Q = {m} \cup Elements(Tail(queue)) /\ K = {}
    BY <1>0, <1>5, <2>0, ElementsOfTail
  <2>2. \A f \in Elements(Tail(queue)) : f.exec = x => m.seq < f.seq
    BY <1>0, <1>1, <1>5, TailInOrder DEF Ahead
  <2>3. e # m
    BY <1>0
  <2> QED
    BY <1>0, <1>5, <2>1, <2>2, <2>3
<1> QED
  BY <1>3, <1>4, <1>5 DEF Takes

\* On every connection an event keeps its predecessors ahead of it.
LEMMA InSequenceKept == ASSUME LedgerInv, Next PROVE InSequence'
<1>0. /\ Inv /\ Known /\ Numbers /\ up \in [Conns -> Seq(WireMessage)] /\ log.next \in Nat /\ execs \in Nat
      /\ \A e \in emitted : e \in Event /\ e.exec >= 1 /\ e.exec \in Nat /\ e.seq \in Nat /\ IsEvent(e)
  <2>1. \A e \in Event : IsEvent(e)
    BY DEF Event, IsEvent, AllKinds
  <2>2. up \in [Conns -> Seq(WireMessage)]
    BY DEF LedgerInv, Inv, TypeOK, WireTypes
  <2> QED
    BY <2>1, <2>2, InvFacts DEF LedgerInv, LogType
<1> SUFFICES ASSUME NEW c \in Conns PROVE Predecessors(up'[c], log'.exec, emitted', HandledOn(c)')
  BY DEF InSequence
<1> DEFINE x == log.exec
           H == HandledOn(c)
           G == HandledOn(c)'
           u == up[c]
<1>1. Predecessors(u, x, emitted, H) /\ u \in Seq(WireMessage)
  BY <1>0 DEF LedgerInv, InSequence
<1>2. CASE up'[c] = <<>>
  BY <1>2 DEF Predecessors
<1>3. ASSUME up'[c] # <<>> PROVE emitted \cap H \subseteq G
  <2>1. ~CoordinatorRestarts
    BY <1>3 DEF CoordinatorRestarts
  <2>2. Connect => c # conn'
    <3>1. ASSUME Connect, c = conn' PROVE FALSE
      <4>1. conn' = conn + 1 /\ up' = up /\ conn \in Nat
        BY <1>0, <3>1, ConnectEffect, ConnGrows
      <4>2. up[c] = <<>>
        BY <3>1, <4>1 DEF LedgerInv, Shape, NothingAhead
      <4> QED
        BY <1>3, <4>1, <4>2
    <3> QED
      BY <3>1
  <2> QED
    BY <2>1, <2>2, HandledGrows
<1>4. ASSUME up'[c] # <<>>, log'.exec = x, emitted' = emitted PROVE Predecessors(up'[c], x, emitted, G)
  <2> HIDE DEF x, H, G
  <2>0. \A e \in emitted : IsEvent(e)
    BY <1>0
  <2>1. CASE up'[c] = u
    BY <1>1, <1>3, <1>4, <2>1 DEF Predecessors
  <2>2. CASE /\ u # <<>> /\ up'[c] = Tail(u)
             /\ IsEvent(Head(u)) /\ Head(u).exec = x => Head(u) \in G
    BY <1>1, <1>3, <1>4, <2>0, <2>2, TailPredecessors
  <2>3. ASSUME NEW m \in WireMessage, open, c = conn, up'[c] = Append(u, m),
               IsEvent(m) => Write /\ link[conn] /\ Takes(m) /\ writer'.todo = writer.todo \ {m}
        PROVE  Predecessors(up'[c], x, emitted, G)
    <3>1. ASSUME IsEvent(m), m.exec = x, NEW e \in emitted, e.exec = x, e.seq < m.seq
          PROVE  e \in G \/ e \in Elements(u)
      <4>1. e \in H \cup Elements(u) \cup writer.todo \cup Elements(carry) \cup Elements(queue)
        BY <2>3, <3>1 DEF LedgerInv, Reachable, x, H
      <4>2. e \notin writer.todo \cup Elements(carry) \cup Elements(queue)
        BY <2>3, <3>1, TakesInSequence DEF x
      <4> QED
        BY <1>3, <1>4, <4>1, <4>2
    <3> QED
      BY <1>1, <1>3, <1>4, <2>3, <3>1, AppendPredecessors
  <2>4. \/ up'[c] = u
        \/ up'[c] = <<>>
        \/ /\ u # <<>> /\ up'[c] = Tail(u)
           /\ IsEvent(Head(u)) /\ Head(u).exec = x => Head(u) \in G
        \/ /\ open /\ c = conn
           /\ \E m \in WireMessage :
                /\ up'[c] = Append(u, m)
                /\ IsEvent(m) => Write /\ link[conn] /\ Takes(m) /\ writer'.todo = writer.todo \ {m}
    BY UpOfStep DEF x, G
  <2> QED
    BY <1>4, <2>1, <2>2, <2>3, <2>4
<1>5. CASE up'[c] # <<>> /\ log'.exec = x /\ emitted' = emitted
  BY <1>4, <1>5
<1>6. ASSUME NEW kind \in Kinds, Emit(kind), up'[c] # <<>> PROVE Predecessors(up'[c], x, emitted', G)
  <2>1. PICK d \in Event : /\ d.exec = x /\ d.seq = log.next + 1 /\ emitted' = emitted \cup {d} /\ up' = up
    BY <1>0, <1>6, EmitEffect
  <2>2. ASSUME NEW i \in DOMAIN u, IsEvent(u[i]), u[i].exec = x PROVE ~(d.seq < u[i].seq)
    <3>1. u[i] \in emitted
      BY <1>0, <2>2 DEF Known, Elements
    <3>2. u[i].seq <= log.next /\ u[i].seq \in Nat
      BY <1>0, <2>2, <3>1 DEF Numbers
    <3> QED
      BY <1>0, <2>1, <3>2
  <2> HIDE DEF x, H, G
  <2>3. Predecessors(u, x, emitted', G)
    BY <1>1, <1>3, <1>6, <2>1, <2>2 DEF Predecessors
  <2> QED
    BY <2>1, <2>3
<1>7. CASE \A e \in emitted' : e.exec # log'.exec
  BY <1>7 DEF Predecessors
<1>8. CASE log'.exec = 0 /\ emitted' = emitted
  BY <1>0, <1>7, <1>8
<1>9. CASE log'.exec = execs + 1 /\ emitted' = emitted
  <2>1. \A e \in emitted : e.exec <= execs
    BY <1>0, InvFacts DEF ExecsBounded
  <2> QED
    BY <1>0, <1>7, <1>9, <2>1
<1>10. CASE up'[c] # <<>> /\ \E kind \in Kinds : Emit(kind)
  <2>1. log'.exec = x
    BY <1>0, <1>10, EmitEffect
  <2> QED
    BY <1>6, <1>10, <2>1
<1>11. \/ log'.exec = x /\ emitted' = emitted
       \/ \E kind \in Kinds : Emit(kind)
       \/ log'.exec = 0 /\ emitted' = emitted
       \/ log'.exec = execs + 1 /\ emitted' = emitted
  BY <1>0, LogOfStep
<1> QED
  BY <1>2, <1>5, <1>8, <1>9, <1>10, <1>11

----------------------------------------------------------------------------
(* What follows from the invariant of the ledger.                          *)

\* The initial state satisfies the invariant of the ledger.
LEMMA InitLedgerInv == Init => LedgerInv
<1> SUFFICES ASSUME Init PROVE LedgerInv
  OBVIOUS
<1> USE DEF NoLog, IdleWriter
<1>0. Inv
  BY InitInv
<1>e. Elements(<<>>) = {}
  BY DEF Elements
<1>1. Numbers /\ DispatchFirst
  BY <1>e DEF Init, Numbers, DispatchFirst
<1>2. Known
  BY <1>e DEF Init, Known
<1>3. MarksSound
  BY <1>e DEF Init, MarksSound, Sound, Covered, Acked, NoMark
<1>4. Shape
  <2>1. LoopShape
    BY Zenon DEF Init, LoopShape
  <2>2. LogSmall
    BY FS_EmptySet, DeliveryAssumption DEF Init, LogSmall
  <2>3. ReplayKept /\ NothingAhead
    BY DEF Init, ReplayKept, NothingAhead
  <2> QED
    BY <2>1, <2>2, <2>3 DEF Shape
<1>5. Order
  BY <1>e DEF Init, Order, InOrder, AtMostOne, Ahead, FailedInOrder
<1>6. Reachable /\ InSequence
  BY DEF Init, Reachable, InSequence, Predecessors
<1> QED
  BY <1>0, <1>1, <1>2, <1>3, <1>4, <1>5, <1>6 DEF LedgerInv

\* Every step keeps it.
LEMMA LedgerInvKept == ASSUME ~LateWriter, LedgerInv, [Next]_vars PROVE LedgerInv'
<1>1. Inv'
  BY InvKept DEF LedgerInv
<1>2. CASE Next
  <2>1. Known'
    BY <1>2, KnownKept
  <2>2. Numbers' /\ DispatchFirst'
    BY <1>2, NumbersKept, DispatchFirstKept DEF LedgerInv
  <2> QED
    BY <1>1, <1>2, <2>1, <2>2, MarksSoundKept, ShapeKept, OrderKept, ReachableKept, InSequenceKept DEF LedgerInv
<1>3. CASE UNCHANGED vars
  <2>1. /\ UNCHANGED <<log, queue, carry, failing, conn, open, writer, link, up, down>>
        /\ UNCHANGED <<jobs, marks, persisting, acks, stored, durable, execs, dispatches, emitted, excused, refused>>
    BY <1>3 DEF vars, agentVars, wireVars, memoryVars, durableVars, counters, historyVars
  <2>2. Numbers' /\ DispatchFirst' /\ Known'
    BY <2>1 DEF LedgerInv, Numbers, DispatchFirst, Known, Elements
  <2>3. MarksSound'
    BY <2>1 DEF LedgerInv, MarksSound, Sound, Covered, Safe, Settled, GivenUp, Acked, Elements
  <2>4. Shape'
    <3>1. LoopShape'
      BY <2>1, Zenon DEF LedgerInv, Shape, LoopShape
    <3>2. LogSmall' /\ ReplayKept' /\ NothingAhead'
      BY <2>1 DEF LedgerInv, Shape, LogSmall, ReplayKept, NothingAhead, kept
    <3> QED
      BY <3>1, <3>2 DEF Shape
  <2>5. Order'
    BY <2>1 DEF LedgerInv, Order, Written, FailedInOrder, Elements, kept
  <2>6. \A c : HandledOn(c)' = HandledOn(c)
    BY <2>1 DEF HandledOn, Owner, Settled, GivenUp
  <2>7. Reachable'
    <3>1. HandledOn(conn)' = HandledOn(conn) /\ Elements(up[conn])' = Elements(up[conn])
      BY <2>1, <2>6 DEF Elements
    <3> QED
      BY <2>1, <3>1 DEF LedgerInv, Reachable, Elements
  <2>8. InSequence'
    BY <2>1, <2>6 DEF LedgerInv, InSequence
  <2> QED
    BY <1>1, <2>2, <2>3, <2>4, <2>5, <2>7, <2>8 DEF LedgerInv
<1> QED
  BY <1>2, <1>3

\* The invariant of the ledger holds whenever a write returns before the next connection is set up.
THEOREM LedgerInvariant == ASSUME ~LateWriter PROVE Spec => []LedgerInv
<1>1. LedgerInv /\ [Next]_vars => LedgerInv'
  BY LedgerInvKept
<1> QED
  BY InitLedgerInv, <1>1, PTL DEF Spec

\* What a sound mark covers is lossless; nothing is of execution 0.
LEMMA SoundIsLossless ==
  ASSUME Inv, NEW m \in Mark, Sound(m, Safe), m.exec = log.exec
  PROVE  Lossless(m)
<1>1. CASE log.exec = 0
  BY <1>1, InvFacts DEF Lossless, UpTo
<1>2. CASE log.exec # 0
  BY <1>2 DEF Sound, Covered, Lossless, UpTo, Safe
<1> QED
  BY <1>1, <1>2

\* What the agent lets go of is persisted, refused before the run was dispatched again, or given up on.
THEOREM AckedIsPersisted == ASSUME ~LateWriter PROVE Spec => []AckedArePersisted
<1>1. LedgerInv => AckedArePersisted
  <2> SUFFICES ASSUME LedgerInv PROVE AckedArePersisted
    OBVIOUS
  <2>1. Inv /\ Sound(Acked, Safe) /\ log \in LogType
    BY InvFacts DEF LedgerInv, MarksSound
  <2>2. Acked \in Mark /\ Acked.exec = log.exec
    BY <2>1 DEF Acked, Mark, LogType
  <2> QED
    BY <2>1, <2>2, SoundIsLossless DEF AckedArePersisted, Acked
<1> QED
  BY LedgerInvariant, <1>1, PTL

\* The mark in storage covers no event that could still be lost, so that a coordinator may start from it.
THEOREM StoredMarkIsSafe == ASSUME ~LateWriter PROVE Spec => []MarkCoversPersisted
<1>1. LedgerInv => MarkCoversPersisted
  <2> SUFFICES ASSUME LedgerInv, stored.exec = log.exec PROVE Lossless(stored)
    BY DEF MarkCoversPersisted
  <2>1. Inv /\ Sound(stored, Safe) /\ stored \in Mark
    BY DEF LedgerInv, MarksSound, Inv, TypeOK, CoordinatorTypes
  <2> QED
    BY <2>1, SoundIsLossless
<1> QED
  BY LedgerInvariant, <1>1, PTL

----------------------------------------------------------------------------
(* The refinement: every step is one of the ledger's.                      *)

Confirmed == UpTo(Acked)

\* A step that emits nothing and confirms nothing at most makes events safe.
LEMMA StepKeeps ==
  ASSUME LedgerInv, LedgerInv', Next, emitted' = emitted, Confirmed' = Confirmed
  PROVE  \E S \in SUBSET (emitted \ Safe) : Safe' = Safe \cup S
<1>1. Safe \subseteq Safe'
  BY SafeGrows DEF LedgerInv, Safe
<1>2. Safe' \subseteq emitted
  BY DEF LedgerInv, Known, Safe, Settled, GivenUp
<1>3. Safe' \ Safe \in SUBSET (emitted \ Safe) /\ Safe' = Safe \cup (Safe' \ Safe)
  BY <1>1, <1>2
<1> QED
  BY <1>3

\* The agent receiving a message confirms more, or nothing of a new execution.
LEMMA ReceiptConfirms ==
  ASSUME LedgerInv, LedgerInv', AgentReceives
  PROVE  /\ emitted' = emitted /\ Safe' = Safe
         /\ Confirmed' = {} \/ \E S \in SUBSET (Safe \ Confirmed) : Confirmed' = Confirmed \cup S
<1>1. emitted' = emitted /\ Safe' = Safe
  BY DEF AgentReceives, historyVars, durableVars, Safe, Settled, GivenUp
<1>2. Inv /\ log \in LogType /\ execs \in Nat
  BY InvFacts DEF LedgerInv
<1>3. Confirmed' \subseteq Safe
  <2>1. Inv' /\ Sound(Acked, Safe)'
    BY DEF LedgerInv, MarksSound
  <2>2. /\ \A e \in emitted' : e.exec >= 1 /\ e.exec \in Nat
    BY <1>1, <1>2, InvFacts
  <2>3. CASE log'.exec = 0
    BY <2>2, <2>3 DEF Confirmed, UpTo, Acked
  <2>4. CASE log'.exec # 0
    BY <1>1, <2>1, <2>4 DEF Sound, Covered, Confirmed, UpTo, Acked
  <2> QED
    BY <2>3, <2>4
<1>4. ASSUME log'.exec = log.exec, log'.acked >= log.acked
      PROVE  Confirmed \subseteq Confirmed'
  <2>1. log.acked \in Int /\ log'.acked \in Int
    <3>1. Inv'
      BY DEF LedgerInv
    <3> QED
      BY <1>2, <3>1, DeliveryAssumption DEF Inv, TypeOK, AgentTypes, LogType
  <2>2. \A e \in emitted : e.seq \in Nat
    BY <1>2, InvFacts
  <2> QED
    BY <1>1, <1>4, <2>1, <2>2 DEF Confirmed, UpTo, Acked
<1>5. ASSUME NEW m \in Reply, log' = ack(log, m) PROVE Confirmed \subseteq Confirmed'
  BY <1>2, <1>4, <1>5, AckType
<1>6. CASE log' = [NoLog EXCEPT !.exec = execs + 1]
  <2>1. log'.exec = execs + 1
    BY <1>6 DEF NoLog
  <2>2. \A e \in emitted : e.exec # execs + 1
    BY <1>2, InvFacts DEF ExecsBounded
  <2>3. Confirmed' = {}
    BY <1>1, <2>1, <2>2 DEF Confirmed, UpTo, Acked
  <2> QED
    BY <1>1, <2>3
<1>7. ASSUME log' = log PROVE Confirmed \subseteq Confirmed'
  BY <1>1, <1>7 DEF Confirmed, UpTo, Acked
<1>8. ASSUME Confirmed \subseteq Confirmed'
      PROVE  \E S \in SUBSET (Safe \ Confirmed) : Confirmed' = Confirmed \cup S
  <2>1. Confirmed' \ Confirmed \in SUBSET (Safe \ Confirmed) /\ Confirmed' = Confirmed \cup (Confirmed' \ Confirmed)
    BY <1>3, <1>8
  <2> QED
    BY <2>1
<1> QED
  BY <1>1, <1>2, <1>5, <1>6, <1>7, <1>8, ReceiveEffect

\* Emitting an event sends it.
LEMMA EmissionSends ==
  ASSUME LedgerInv, NEW kind \in Kinds, Emit(kind)
  PROVE  /\ \E e \in Event \ emitted : emitted' = emitted \cup {e}
         /\ Safe' = Safe /\ Confirmed' = Confirmed
<1>1. Inv /\ log \in LogType /\ log.next \in Nat
  BY InvFacts DEF LedgerInv, LogType
<1>2. PICK e \in Event :
        /\ e.exec = log.exec /\ e.seq = log.next + 1 /\ log.exec # 0 /\ emitted' = emitted \cup {e}
        /\ log'.exec = log.exec /\ log'.acked = log.acked
  BY <1>1, EmitEffect
<1>3. e \notin emitted
  <2>1. \A f \in emitted : f.exec = log.exec => f.seq <= log.next /\ f.seq \in Nat
    BY <1>1, InvFacts DEF LedgerInv, Numbers
  <2> QED
    BY <1>1, <1>2, <2>1
<1>4. Safe' = Safe
  BY DEF Emit, historyVars, durableVars, counters, Safe, Settled, GivenUp
<1>5. log.acked <= log.next /\ log.acked \in Nat
  BY <1>1, <1>2, DeliveryAssumption DEF LedgerInv, MarksSound, Sound, Covered, Acked, LogType
<1>6. Confirmed' = Confirmed
  BY <1>1, <1>2, <1>5 DEF Confirmed, UpTo, Acked
<1> QED
  BY <1>2, <1>3, <1>4, <1>6

\* Every step of the program is a step of the ledger: an event is sent, events become safe, what is safe is
\* confirmed, or an execution is forgotten.
LEMMA StepImplements ==
  ASSUME LedgerInv, LedgerInv', [Next]_vars
  PROVE  [Ledger!Next]_(Ledger!vars)
<1>0. Inv /\ Settled \cup GivenUp = Safe /\ UpTo([exec |-> log.exec, seq |-> log.acked]) = Confirmed
  BY DEF LedgerInv, Safe, Confirmed, Acked
<1>p. (Settled \cup GivenUp)' = Safe' /\ UpTo([exec |-> log.exec, seq |-> log.acked])' = Confirmed'
  BY DEF Safe, Confirmed, Acked
<1>1. CASE UNCHANGED vars
  BY <1>1 DEF vars, agentVars, durableVars, counters, historyVars, Ledger!vars, Settled, GivenUp, UpTo
<1>2. ASSUME Next, emitted' = emitted, Confirmed' = Confirmed PROVE Ledger!Next
  <2>1. \E S \in SUBSET (emitted \ Safe) : Safe' = Safe \cup S
    BY <1>2, StepKeeps
  <2>2. Ledger!Keep
    BY <1>0, <1>p, <1>2, <2>1 DEF Ledger!Keep
  <2> QED
    BY <2>2 DEF Ledger!Next
<1>3. ASSUME NEW kind \in Kinds, Emit(kind) PROVE Ledger!Next
  <2>1. /\ \E e \in Event \ emitted : emitted' = emitted \cup {e}
        /\ Safe' = Safe /\ Confirmed' = Confirmed
    BY <1>3, EmissionSends
  <2>2. Ledger!Send
    BY <1>0, <1>p, <2>1 DEF Ledger!Send
  <2> QED
    BY <2>2 DEF Ledger!Next
<1>4. CASE AgentReceives
  <2>1. /\ emitted' = emitted /\ Safe' = Safe
        /\ Confirmed' = {} \/ \E S \in SUBSET (Safe \ Confirmed) : Confirmed' = Confirmed \cup S
    BY <1>4, ReceiptConfirms
  <2>2. Ledger!Forget \/ Ledger!Confirm
    BY <1>0, <1>p, <2>1 DEF Ledger!Forget, Ledger!Confirm
  <2> QED
    BY <2>2 DEF Ledger!Next
<1>5. CASE gc \/ AgentRestarts
  <2>1. log'.exec = 0 /\ emitted' = emitted
    BY <1>5, LogDropped
  <2>2. Safe' = Safe
    BY <1>5 DEF gc, AgentRestarts, durableVars, counters, historyVars, Safe, Settled, GivenUp
  <2>3. Confirmed' = {}
    BY <1>0, <2>1, InvFacts DEF Confirmed, UpTo, Acked
  <2>4. Ledger!Forget
    BY <1>0, <1>p, <2>1, <2>2, <2>3 DEF Ledger!Forget
  <2> QED
    BY <2>4 DEF Ledger!Next
<1>6. ASSUME Next, log'.exec = log.exec, log'.acked = log.acked, emitted' = emitted PROVE Ledger!Next
  BY <1>2, <1>6 DEF Confirmed, UpTo, Acked
<1>7. CASE Next /\ (GiveUp \/ Connect \/ Write \/ AgentCloses \/ AgentUntouched)
  <2>1. CASE GiveUp
    BY <1>0, <1>6, <1>7, <2>1, GiveUpEffect
  <2>2. CASE Connect \/ Write \/ AgentCloses
    BY <1>0, <1>6, <1>7, <2>2, ConnectEffect, WriteEffect, CloseEffect
  <2>3. CASE AgentUntouched
    BY <1>6, <1>7, <2>3 DEF AgentUntouched
  <2> QED
    BY <1>7, <2>1, <2>2, <2>3
<1>8. CASE Next /\ (RecordWritten \/ OldWriteReturns)
  <2>1. emitted' = emitted /\ (log' = log \/ \E e \in Event : log' = written(log, e, TRUE))
    BY <1>0, <1>8, RecordEffect, ReturnEffect
  <2>2. log'.exec = log.exec /\ log'.acked = log.acked
    BY <1>0, <2>1, WrittenAdds, InvFacts, TRUE \in BOOLEAN, ZenonT(30)
  <2> QED
    BY <1>6, <1>8, <2>1, <2>2
<1> QED
  BY <1>0, <1>1, <1>3, <1>4, <1>5, <1>7, <1>8, OtherSteps

\* Acknowledged delivery implements the abstract ledger: whatever connections and processes do, an event is
\* confirmed to the agent only once it is safe, and what is safe stays safe.
THEOREM ImplementsTheLedger == ASSUME ~LateWriter PROVE Spec => ImplementsLedger
<1>1. Init => Ledger!Init
  BY DEF Init, Ledger!Init, Settled, GivenUp, UpTo
<1>2. LedgerInv /\ LedgerInv' /\ [Next]_vars => [Ledger!Next]_(Ledger!vars)
  BY StepImplements
<1> QED
  BY LedgerInvariant, <1>1, <1>2, PTL DEF Spec, ImplementsLedger, Ledger!Spec

=============================================================================
