------------------------- MODULE FindingsQueueProofs -------------------------
(***************************************************************************)
(* Theorems about FindingsQueue: what a deleted scan keeps, how a scan     *)
(* ends, which messages become dead letters, that progress only advances,  *)
(* and that an event the queue has taken is never lost.                    *)
(***************************************************************************)
EXTENDS FindingsQueue, SequenceTheorems, FiniteSetTheorems, WellFoundedInduction, TLAPS

Paths == {"batch", "single", "direct", "watchdog"}
\* Messages without the bounds on copies and tries.
AnyMessage == [event: AllEvents, copy: Nat, tries: Nat]
Calls ==
  [at: Stages, path: Paths, batch: Seq(AnyMessage),
   known: SUBSET Scans, stored: SUBSET AllEvents, ended: SUBSET (Scans \X Outcomes)]

\* What the proofs need of the types.
MessagesTyped ==
  /\ copies \in [Events -> Nat]
  /\ queue \subseteq AnyMessage /\ dead \subseteq AnyMessage
  /\ incidents \in Nat
CallsTyped ==
  /\ worker \in [Workers -> Calls]
  /\ \A w \in Workers : worker[w].at # "idle" => worker[w].batch # <<>>
ScansTyped ==
  /\ status \in [Scans -> {"active", "deleted"} \cup Outcomes] /\ revived \in [Scans -> Nat]
  /\ rows \subseteq AllEvents /\ progress \in [Scans -> {progress[s] : s \in Scans}]
  /\ hooks \in [Scans -> Seq(Outcomes)]
Typed == MessagesTyped /\ CallsTyped /\ ScansTyped

-----------------------------------------------------------------------------

LEMMA IdleIsACall == Idle \in Calls
  BY DEF Idle, Calls, Stages, Paths

\* A new call takes messages that are typed.
LEMMA StartsTyped ==
  ASSUME CallsTyped, NEW w \in Workers, NEW path \in Paths, NEW msgs \in Seq(AnyMessage),
         msgs # <<>>, Starts(w, path, msgs, "lookup")
  PROVE  CallsTyped'
<1> DEFINE call == [Idle EXCEPT !.at = "lookup", !.path = path, !.batch = msgs]
<1>1. call \in Calls /\ call.batch = msgs
  BY DEF Idle, Calls, Stages
<1>2. worker' = [worker EXCEPT ![w] = call]
  BY DEF Starts
<1> QED BY <1>1, <1>2 DEF CallsTyped

\* What GoesOn leaves is typed.
LEMMA GoesOnTyped ==
  ASSUME CallsTyped, NEW w \in Workers, worker[w].at # "idle", GoesOn(w)
  PROVE  CallsTyped'
<1>1. CASE worker[w].path = "single" /\ Rest(w) # <<>>
  <2> DEFINE call == [Idle EXCEPT !.at = "lookup", !.path = "single", !.batch = Rest(w)]
  <2>1. Rest(w) \in Seq(AnyMessage)
    BY DEF CallsTyped, Calls, Rest
  <2>2. call \in Calls /\ call.batch # <<>>
    BY <1>1, <2>1 DEF Idle, Calls, Stages, Paths
  <2>3. worker' = [worker EXCEPT ![w] = call]
    BY <1>1 DEF GoesOn
  <2> QED BY <2>2, <2>3 DEF CallsTyped
<1>2. CASE ~(worker[w].path = "single" /\ Rest(w) # <<>>)
  <2>1. worker' = [worker EXCEPT ![w] = Idle]
    BY <1>2 DEF GoesOn
  <2> QED BY <2>1, IdleIsACall DEF CallsTyped, Idle
<1> QED BY <1>1, <1>2

\* Messages that come back are typed.
LEMMA RetriedTyped ==
  ASSUME MessagesTyped, NEW msgs \in SUBSET AnyMessage, Retried(msgs)
  PROVE  (queue \subseteq AnyMessage /\ dead \subseteq AnyMessage)'
<1>1. \A m \in AnyMessage : [m EXCEPT !.tries = @ + 1] \in AnyMessage
  BY DEF AnyMessage
<1> QED BY <1>1 DEF MessagesTyped, Retried

LEMMA EnqueueTyped ==
  ASSUME MessagesTyped, NEW e \in Events, Enqueue(e)
  PROVE  (queue \subseteq AnyMessage /\ copies \in [Events -> Nat])'
<1>1. InQueue(e) \in AnyMessage
  BY DEF MessagesTyped, InQueue, AnyMessage, AllEvents
<1> QED BY <1>1 DEF MessagesTyped, Enqueue

LEMMA MsgSetTyped ==
  ASSUME CallsTyped, NEW w \in Workers
  PROVE  MsgSet(w) \in SUBSET AnyMessage
BY DEF CallsTyped, Calls, MsgSet

LEMMA MsgsTyped ==
  ASSUME CallsTyped, NEW w \in Workers, worker[w].at # "idle"
  PROVE  /\ Msgs(w) \in Seq(AnyMessage) /\ Msgs(w) # <<>>
         /\ \A i \in DOMAIN Msgs(w) : Msgs(w)[i] \in MsgSet(w)
<1>1. worker[w].batch \in Seq(AnyMessage) /\ worker[w].batch # <<>>
  BY DEF CallsTyped, Calls
<1>2. CASE worker[w].path = "single"
  <2>1. Msgs(w) = <<Head(worker[w].batch)>>
    BY <1>2 DEF Msgs
  <2>2. Head(worker[w].batch) = worker[w].batch[1] /\ 1 \in DOMAIN worker[w].batch
    BY <1>1
  <2>3. worker[w].batch[1] \in MsgSet(w) /\ worker[w].batch[1] \in AnyMessage
    BY <1>1, <2>2 DEF MsgSet
  <2> QED BY <2>1, <2>2, <2>3
<1>3. CASE worker[w].path # "single"
  BY <1>1, <1>3 DEF Msgs, MsgSet
<1> QED BY <1>2, <1>3

LEMMA EventsTyped == \A e \in AllEvents : e.scan \in Scans
  BY FindingsQueueAssumption DEF AllEvents, Event, WatchdogEvent

LEMMA EvsTyped ==
  ASSUME CallsTyped, NEW w \in Workers, worker[w].at # "idle"
  PROVE  /\ DOMAIN Evs(w) = DOMAIN Msgs(w)
         /\ \A i \in DOMAIN Evs(w) : Evs(w)[i] \in AllEvents /\ Evs(w)[i].scan \in Scans
<1>1. \A i \in DOMAIN Msgs(w) : Msgs(w)[i] \in AnyMessage
  BY MsgsTyped
<1>2. \A m \in AnyMessage : m.event \in AllEvents
  BY DEF AnyMessage
<1> QED BY <1>1, <1>2, EventsTyped DEF Evs

-----------------------------------------------------------------------------
(* Types.                                                                  *)

LEMMA InitTyped == ASSUME Init PROVE Typed
<1>1. MessagesTyped
  BY DEF Init, MessagesTyped, AnyMessage
<1>2. CallsTyped
  BY IdleIsACall DEF Init, CallsTyped, Idle
<1>3. ScansTyped
  BY DEF Init, ScansTyped
<1> QED BY <1>1, <1>2, <1>3 DEF Typed

\* The events and scans of the coordinator's and the watchdog's own calls.
LEMMA CoordinatorTyped ==
  ASSUME Typed,
         \/ \E e \in Events : Send(e) \/ Replay(e) \/ \E w \in Workers : SendFails(w, e)
         \/ \E w \in Workers, s \in Scans : WatchdogEnds(w, s)
  PROVE  Typed'
<1>0. MessagesTyped /\ CallsTyped /\ ScansTyped
  BY DEF Typed
<1>1. ASSUME NEW e \in Events, Send(e) PROVE Typed'
  BY <1>0, <1>1, EnqueueTyped DEF Typed, Send, MessagesTyped, CallsTyped, ScansTyped, scanVars
<1>2. ASSUME NEW e \in Events, Replay(e) PROVE Typed'
  <2>1. MessagesTyped'
    BY <1>0, <1>2 DEF Replay, Incident, MessagesTyped, queueVars
  <2>2. CallsTyped' /\ ScansTyped'
    BY <1>0, <1>2 DEF Replay, CallsTyped, ScansTyped, scanVars
  <2> QED BY <2>1, <2>2 DEF Typed
<1>3. ASSUME NEW e \in Events, NEW w \in Workers, SendFails(w, e) PROVE Typed'
  <2>1. CallsTyped'
    <3> DEFINE msgs == <<[event |-> e, copy |-> 0, tries |-> 1]>>
    <3>1. msgs \in Seq(AnyMessage) /\ msgs # <<>>
      BY DEF AnyMessage, AllEvents
    <3> QED BY <1>0, <1>3, <3>1, StartsTyped DEF SendFails, Paths
  <2>2. MessagesTyped'
    <3>1. incidents' \in Nat /\ dead' \subseteq AnyMessage
      BY <1>0, <1>3 DEF SendFails, Incident, MessagesTyped
    <3>2. queue' \subseteq AnyMessage /\ copies' \in [Events -> Nat]
      <4>1. CASE Enqueue(e)
        BY <1>0, <4>1, EnqueueTyped
      <4>2. CASE UNCHANGED <<queue, copies>>
        BY <1>0, <4>2 DEF MessagesTyped
      <4> QED BY <1>3, <4>1, <4>2 DEF SendFails
    <3> QED BY <3>1, <3>2 DEF MessagesTyped
  <2>3. ScansTyped'
    BY <1>0, <1>3 DEF SendFails, ScansTyped, scanVars
  <2> QED BY <2>1, <2>2, <2>3 DEF Typed
<1>4. ASSUME NEW w \in Workers, NEW s \in Scans, WatchdogEnds(w, s) PROVE Typed'
  <2>1. CallsTyped'
    <3> DEFINE msgs == <<[event |-> WatchdogEvent(s), copy |-> 0, tries |-> 1]>>
    <3>1. msgs \in Seq(AnyMessage) /\ msgs # <<>>
      BY DEF AnyMessage, AllEvents
    <3> QED BY <1>0, <1>4, <3>1, StartsTyped DEF WatchdogEnds, Paths
  <2>2. MessagesTyped'
    BY <1>0, <1>4 DEF WatchdogEnds, Incident, MessagesTyped, sendVars, queueVars
  <2>3. ScansTyped'
    BY <1>0, <1>4 DEF WatchdogEnds, ScansTyped, scanVars
  <2> QED BY <2>1, <2>2, <2>3 DEF Typed
<1> QED BY <1>1, <1>2, <1>3, <1>4

\* The calls up to their write.
LEMMA ReadsTyped ==
  ASSUME Typed, NEW w \in Workers, Take(w) \/ Lookup(w) \/ ReadIds(w)
  PROVE  Typed'
<1>0. MessagesTyped /\ CallsTyped /\ ScansTyped
  BY DEF Typed
<1>1. ScansTyped'
  BY <1>0 DEF Take, Lookup, ReadIds, ScansTyped, scanVars
<1>2. CASE Take(w)
  <2>0. PICK n \in 1..BatchSize : \E batch \in [1..n -> queue] :
           Starts(w, "batch", batch, "lookup") /\ queue' = queue \ {batch[i] : i \in 1..n}
    BY <1>2 DEF Take
  <2>1. PICK batch \in [1..n -> queue] :
           Starts(w, "batch", batch, "lookup") /\ queue' = queue \ {batch[i] : i \in 1..n}
    BY <2>0
  <2>2. batch \in Seq(AnyMessage) /\ batch # <<>>
    BY <1>0 DEF MessagesTyped
  <2>3. CallsTyped'
    BY <1>0, <2>1, <2>2, StartsTyped DEF Paths
  <2>4. MessagesTyped'
    BY <1>0, <1>2, <2>1 DEF Take, MessagesTyped, sendVars
  <2> QED BY <1>1, <2>3, <2>4 DEF Typed
<1>3. CASE Lookup(w)
  <2> DEFINE known == {s \in {Evs(w)[i].scan : i \in DOMAIN Msgs(w)} : Exists(s)}
  <2>1. known \subseteq Scans
    BY <1>0, <1>3, EvsTyped DEF Lookup
  <2>2. [worker[w] EXCEPT !.at = "ids", !.known = known] \in Calls
    BY <1>0, <2>1 DEF CallsTyped, Calls, Stages
  <2>3. CallsTyped'
    BY <1>0, <1>3, <2>2 DEF Lookup, CallsTyped, Calls
  <2>4. MessagesTyped'
    BY <1>0, <1>3 DEF Lookup, MessagesTyped, sendVars, queueVars
  <2> QED BY <1>1, <2>3, <2>4 DEF Typed
<1>4. CASE ReadIds(w)
  <2> DEFINE stored == rows \cap {Evs(w)[i] : i \in DOMAIN Msgs(w)}
         call == [worker[w] EXCEPT !.at = "write", !.stored = stored]
  <2>1. call \in Calls /\ call.batch = worker[w].batch
    BY <1>0 DEF CallsTyped, Calls, Stages, ScansTyped
  <2>2. CallsTyped'
    <3>1. worker' = [worker EXCEPT ![w] = call] /\ worker[w].at # "idle"
      BY <1>4 DEF ReadIds
    <3> HIDE DEF call
    <3> QED BY <1>0, <2>1, <3>1 DEF CallsTyped
  <2>3. MessagesTyped'
    BY <1>0, <1>4 DEF ReadIds, MessagesTyped, sendVars, queueVars
  <2> QED BY <1>1, <2>2, <2>3 DEF Typed
<1> QED BY <1>2, <1>3, <1>4

\* A batch that D1 takes ends scans with one of the outcomes, and leaves messages alone.
LEMMA OutcomeTyped == ASSUME NEW w, NEW s PROVE Outcome(w, s) \in Outcomes
  BY DEF Outcome, Outcomes

LEMMA WriteTyped == ASSUME Typed, NEW w \in Workers, Write(w) PROVE Typed'
<1>0. MessagesTyped /\ CallsTyped /\ ScansTyped
  BY DEF Typed
<1>1. MessagesTyped'
  BY <1>0 DEF Write, MessagesTyped, sendVars, queueVars
<1>2. CallsTyped'
  <2> DEFINE ended == {<<s, Outcome(w, s)>> : s \in EndedBy(w)}
  <2>1. ended \in SUBSET (Scans \X Outcomes)
    BY OutcomeTyped DEF EndedBy
  <2>2. [worker[w] EXCEPT !.at = "hooks", !.known = {}, !.stored = {}, !.ended = ended] \in Calls
    BY <1>0, <2>1 DEF CallsTyped, Calls, Stages
  <2> QED BY <1>0, <2>2 DEF Write, CallsTyped, Calls
<1>3. ScansTyped'
  <2>1. status' \in [Scans -> {"active", "deleted"} \cup Outcomes]
    BY <1>0, OutcomeTyped DEF Write, ScansTyped
  <2>2. rows' \subseteq AllEvents
    <3>1. worker[w].at # "idle"
      BY DEF Write
    <3>2. \A i \in Kept(w) : Evs(w)[i] \in AllEvents
      BY <1>0, <3>1, EvsTyped DEF Kept
    <3>3. Inserted(w) \subseteq AllEvents
      BY <3>2 DEF Inserted
    <3> QED BY <1>0, <3>3 DEF Write, ScansTyped
  <2>3. progress' \in [Scans -> {progress'[s] : s \in Scans}]
    BY DEF Write
  <2> QED BY <1>0, <2>1, <2>2, <2>3 DEF Write, ScansTyped
<1> QED BY <1>1, <1>2, <1>3 DEF Typed

LEMMA FiredTyped ==
  ASSUME ScansTyped, NEW w PROVE Fired(w) \in [Scans -> Seq(Outcomes)]
<1>1. <<"completed">> \in Seq(Outcomes) /\ <<"failed">> \in Seq(Outcomes) /\ <<>> \in Seq(Outcomes)
  BY DEF Outcomes
<1> QED BY <1>1 DEF ScansTyped, Fired

\* How a call ends.
LEMMA EndsTyped ==
  ASSUME Typed, NEW w \in Workers,
         Finish(w) \/ BatchFails(w) \/ BatchDeferred(w) \/ MessageFails(w)
  PROVE  Typed'
<1>0. MessagesTyped /\ CallsTyped /\ ScansTyped
  BY DEF Typed
<1>1. CASE Finish(w)
  <2>1. CallsTyped'
    BY <1>0, <1>1, GoesOnTyped DEF Finish
  <2>2. MessagesTyped'
    BY <1>0, <1>1 DEF Finish, MessagesTyped, queueVars
  <2>3. ScansTyped'
    BY <1>0, <1>1, FiredTyped DEF Finish, ScansTyped, scanVars
  <2> QED BY <2>1, <2>2, <2>3 DEF Typed
<1>2. CASE BatchFails(w)
  <2>1. CallsTyped'
    <3> DEFINE call == [Idle EXCEPT !.at = "lookup", !.path = "single", !.batch = worker[w].batch]
    <3>1. worker[w].batch \in Seq(AnyMessage) /\ worker[w].batch # <<>>
      BY <1>0, <1>2 DEF BatchFails, Fails, InCall, CallsTyped, Calls
    <3>2. call \in Calls /\ call.batch # <<>>
      BY <3>1 DEF Idle, Calls, Stages, Paths
    <3>3. worker' = [worker EXCEPT ![w] = call]
      BY <1>2 DEF BatchFails
    <3> QED BY <1>0, <3>2, <3>3 DEF CallsTyped
  <2>2. MessagesTyped'
    BY <1>0, <1>2 DEF BatchFails, Fails, Incident, MessagesTyped, sendVars, queueVars
  <2>3. ScansTyped'
    BY <1>0, <1>2 DEF BatchFails, ScansTyped, scanVars
  <2> QED BY <2>1, <2>2, <2>3 DEF Typed
<1>3. CASE BatchDeferred(w)
  <2>1. CallsTyped'
    BY <1>0, <1>3, IdleIsACall DEF BatchDeferred, CallsTyped, Idle
  <2>2. (queue \subseteq AnyMessage /\ dead \subseteq AnyMessage)'
    BY <1>0, <1>3, MsgSetTyped, RetriedTyped DEF BatchDeferred
  <2>3. MessagesTyped' /\ ScansTyped'
    BY <1>0, <1>3, <2>2 DEF BatchDeferred, Incident, MessagesTyped, ScansTyped, sendVars, scanVars
  <2> QED BY <2>1, <2>3 DEF Typed
<1>4. CASE MessageFails(w)
  <2>0. worker[w].at # "idle"
    BY <1>4 DEF MessageFails, Fails, InCall
  <2>1. CallsTyped'
    BY <1>0, <1>4, <2>0, GoesOnTyped DEF MessageFails
  <2>2. (queue \subseteq AnyMessage /\ dead \subseteq AnyMessage)'
    <3>1. CASE FromQueue(w)
      <4>1. {Msgs(w)[i] : i \in DOMAIN Msgs(w)} \in SUBSET AnyMessage
        BY <1>0, <2>0, MsgsTyped
      <4> QED BY <1>0, <1>4, <3>1, <4>1, RetriedTyped DEF MessageFails
    <3>2. CASE ~FromQueue(w)
      BY <1>0, <1>4, <3>2 DEF MessageFails, queueVars, MessagesTyped
    <3> QED BY <3>1, <3>2
  <2>3. incidents' \in Nat
    BY <1>0, <1>4 DEF MessageFails, Fails, Incident, MessagesTyped
  <2>4. MessagesTyped' /\ ScansTyped'
    BY <1>0, <1>4, <2>2, <2>3 DEF MessageFails, MessagesTyped, ScansTyped, sendVars, scanVars
  <2> QED BY <2>1, <2>4 DEF Typed
<1> QED BY <1>1, <1>2, <1>3, <1>4

LEMMA CrashTyped == ASSUME Typed, NEW w \in Workers, Crash(w) PROVE Typed'
<1>0. MessagesTyped /\ CallsTyped /\ ScansTyped
  BY DEF Typed
<1>1. CallsTyped'
  BY <1>0, IdleIsACall DEF Crash, CallsTyped, Idle
<1>2. ScansTyped'
  <2>1. hooks' \in [Scans -> Seq(Outcomes)]
    BY <1>0, FiredTyped DEF Crash, ScansTyped
  <2> QED BY <1>0, <2>1 DEF Crash, ScansTyped, scanVars
<1>3. (queue \subseteq AnyMessage /\ dead \subseteq AnyMessage)'
  <2>1. CASE FromQueue(w)
    BY <1>0, <2>1, MsgSetTyped, RetriedTyped DEF Crash
  <2>2. CASE ~FromQueue(w)
    BY <1>0, <2>2 DEF Crash, queueVars, MessagesTyped
  <2> QED BY <2>1, <2>2
<1>4. MessagesTyped'
  BY <1>0, <1>3 DEF Crash, Incident, MessagesTyped
<1> QED BY <1>1, <1>2, <1>4 DEF Typed

LEMMA DeletionTyped ==
  ASSUME Typed, NEW s \in Scans, Purge(s) \/ Delete(s)
  PROVE  Typed'
<1>0. MessagesTyped /\ CallsTyped /\ ScansTyped
  BY DEF Typed
<1>1. MessagesTyped' /\ CallsTyped'
  BY <1>0 DEF Purge, Delete, Incident, MessagesTyped, CallsTyped, sendVars, queueVars
<1>2. ScansTyped'
  BY <1>0 DEF Purge, Delete, ScansTyped
<1> QED BY <1>1, <1>2 DEF Typed

\* A late 'dispatched' write or a user's stop: of a scan that exists, to one that exists.
RowWritten(s) ==
  /\ UNCHANGED <<sendVars, queueVars, worker, rows, progress, checkpoint, deleting, hooks>>
  /\ incidents' \in {incidents, incidents + 1}
  /\ \A x \in Scans : status'[x] = "deleted" <=> status[x] = "deleted"
  /\ \A x \in Scans \ {s} : status'[x] = status[x] /\ revived'[x] = revived[x]

LEMMA RowIsWritten ==
  ASSUME Typed, NEW s \in Scans, MarkDispatched(s) \/ StopScan(s)
  PROVE  RowWritten(s) /\ Typed'
<1>0. MessagesTyped /\ CallsTyped /\ ScansTyped
  BY DEF Typed
<1>1. CASE MarkDispatched(s)
  <2>0. /\ UNCHANGED <<sendVars, queueVars, worker, rows, progress, checkpoint, deleting, hooks, incidents>>
        /\ status[s] \in Outcomes /\ status' = [status EXCEPT ![s] = "active"]
        /\ revived' = [revived EXCEPT ![s] = @ + 1]
    BY <1>1 DEF MarkDispatched
  <2>1. RowWritten(s)
    <3>1. \A x \in Scans : status'[x] = "deleted" <=> status[x] = "deleted"
      BY <1>0, <2>0 DEF ScansTyped, Outcomes
    <3>2. \A x \in Scans \ {s} : status'[x] = status[x] /\ revived'[x] = revived[x]
      BY <1>0, <2>0 DEF ScansTyped
    <3> QED BY <2>0, <3>1, <3>2 DEF RowWritten
  <2>2. ScansTyped'
    <3>1. status' \in [Scans -> {"active", "deleted"} \cup Outcomes] BY <1>0, <2>0 DEF ScansTyped
    <3>2. revived' \in [Scans -> Nat]
      <4>1. revived \in [Scans -> Nat] BY <1>0 DEF ScansTyped
      <4> QED BY <2>0, <4>1
    <3> QED BY <1>0, <2>0, <3>1, <3>2 DEF ScansTyped
  <2>3. MessagesTyped' /\ CallsTyped'
    BY <1>0, <1>1 DEF MarkDispatched, MessagesTyped, CallsTyped, sendVars, queueVars
  <2> QED BY <2>1, <2>2, <2>3 DEF Typed
<1>2. CASE StopScan(s)
  <2>1. RowWritten(s)
    BY <1>0, <1>2 DEF StopScan, RowWritten, ScansTyped, IsActive, Incident
  <2>2. ScansTyped'
    BY <1>0, <1>2 DEF StopScan, ScansTyped, Outcomes
  <2>3. MessagesTyped' /\ CallsTyped'
    BY <1>0, <1>2 DEF StopScan, Incident, MessagesTyped, CallsTyped, sendVars, queueVars
  <2> QED BY <2>1, <2>2, <2>3 DEF Typed
<1> QED BY <1>1, <1>2

\* The steps, by what they are about.
LEMMA Steps ==
  ASSUME Next
  PROVE  \/ \E e \in Events : Send(e) \/ Replay(e) \/ \E w \in Workers : SendFails(w, e)
         \/ \E w \in Workers, s \in Scans : WatchdogEnds(w, s)
         \/ \E w \in Workers : Take(w) \/ Lookup(w) \/ ReadIds(w)
         \/ \E w \in Workers : Write(w)
         \/ \E w \in Workers : Finish(w) \/ BatchFails(w) \/ BatchDeferred(w) \/ MessageFails(w)
         \/ \E w \in Workers : Crash(w)
         \/ \E s \in Scans : MarkDispatched(s) \/ StopScan(s)
         \/ \E s \in Scans : Purge(s) \/ Delete(s)
BY Zenon DEF Next, Call

LEMMA StutterTyped == ASSUME Typed, UNCHANGED vars PROVE Typed'
<1>0. MessagesTyped /\ CallsTyped /\ ScansTyped
  BY DEF Typed
<1>1. MessagesTyped' /\ CallsTyped' /\ ScansTyped'
  BY <1>0 DEF vars, sendVars, queueVars, scanVars, MessagesTyped, CallsTyped, ScansTyped
<1> QED BY <1>1 DEF Typed

LEMMA AlwaysTyped == Spec => []Typed
<1>1. Init => Typed
  BY InitTyped
<1>2. Typed /\ [Next]_vars => Typed'
  <2> SUFFICES ASSUME Typed, Next PROVE Typed'
    BY StutterTyped
  <2> QED BY Steps, CoordinatorTyped, ReadsTyped, WriteTyped, EndsTyped, CrashTyped, RowIsWritten,
            DeletionTyped
<1> QED BY <1>1, <1>2, PTL DEF Spec

-----------------------------------------------------------------------------
(* Deletion.                                                               *)

\* What is left of a scan that does not exist: nothing is inserted for it.
LEMMA WriteKeepsNothing ==
  ASSUME Typed, DeletedKeepsNothing, NEW w \in Workers, Write(w)
  PROVE  DeletedKeepsNothing'
<1> SUFFICES ASSUME NEW s \in Scans, status'[s] = "deleted"
             PROVE  progress'[s] = NoProgress /\ \A e \in rows' : e.scan # s
  BY DEF DeletedKeepsNothing, Exists
<1>1. status[s] = "deleted"
  <2>1. s \in EndedBy(w) => status'[s] = Outcome(w, s)
    BY DEF Write
  <2>2. Outcome(w, s) # "deleted"
    BY OutcomeTyped DEF Outcomes
  <2> QED BY <2>1, <2>2 DEF Write
<1>2. progress[s] = NoProgress /\ \A e \in rows : e.scan # s
  BY <1>1 DEF DeletedKeepsNothing, Exists
<1>3. progress'[s] = NoProgress
  <2>1. NewProgress(w, s) = progress[s]
    BY <1>1 DEF NewProgress, MayInsert, Exists
  <2> QED BY <1>2, <2>1 DEF Write
<1>4. \A e \in Inserted(w) : e.scan # s
  BY <1>1 DEF Inserted, MayInsert, Exists
<1> QED BY <1>2, <1>3, <1>4 DEF Write

LEMMA DeletionKeepsNothing ==
  ASSUME Typed, DeletedKeepsNothing, NEW s \in Scans, Purge(s) \/ Delete(s)
  PROVE  DeletedKeepsNothing'
<1> SUFFICES ASSUME NEW x \in Scans, status'[x] = "deleted"
             PROVE  progress'[x] = NoProgress /\ \A e \in rows' : e.scan # x
  BY DEF DeletedKeepsNothing, Exists
<1>1. CASE x = s
  BY <1>1 DEF Typed, ScansTyped, Purge, Delete
<1>2. CASE x # s
  <2>1. status[x] = "deleted" /\ progress'[x] = progress[x] /\ rows' \subseteq rows
    BY <1>2 DEF Typed, ScansTyped, Purge, Delete
  <2> QED BY <2>1 DEF DeletedKeepsNothing, Exists
<1> QED BY <1>1, <1>2

\* The other steps leave scans alone.
LEMMA OthersKeepScans ==
  ASSUME Next, ~\E w \in Workers : Write(w),
         ~\E s \in Scans : MarkDispatched(s) \/ StopScan(s) \/ Purge(s) \/ Delete(s)
  PROVE  UNCHANGED scanVars
BY Steps DEF Send, Replay, SendFails, WatchdogEnds, Take, Lookup, ReadIds, Finish, BatchFails,
   BatchDeferred, MessageFails, Crash

\* A scan that is deleted keeps no rows of its events and findings and no progress, although calls
\* that looked it up before still write theirs (INSERT ... WHERE EXISTS, repositories/scans.ts).
THEOREM DeletedScansKeepNothing == Spec => []DeletedKeepsNothing
<1>1. Init => DeletedKeepsNothing
  BY DEF Init, DeletedKeepsNothing, Exists
<1>2. Typed /\ DeletedKeepsNothing /\ [Next]_vars => DeletedKeepsNothing'
  <2> SUFFICES ASSUME Typed, DeletedKeepsNothing, [Next]_vars PROVE DeletedKeepsNothing'
    OBVIOUS
  <2>1. CASE UNCHANGED scanVars
    BY <2>1 DEF scanVars, DeletedKeepsNothing, Exists
  <2>2. CASE \E w \in Workers : Write(w)
    BY <2>2, WriteKeepsNothing
  <2>3. CASE \E s \in Scans : Purge(s) \/ Delete(s)
    BY <2>3, DeletionKeepsNothing
  <2>4. ASSUME NEW s \in Scans, MarkDispatched(s) \/ StopScan(s) PROVE DeletedKeepsNothing'
    <3>1. RowWritten(s)
      BY <2>4, RowIsWritten
    <3> QED BY <3>1 DEF RowWritten, DeletedKeepsNothing, Exists
  <2> QED BY <2>1, <2>2, <2>3, <2>4, OthersKeepScans DEF vars, scanVars
<1> QED BY <1>1, <1>2, AlwaysTyped, PTL DEF Spec

-----------------------------------------------------------------------------
(* The end of a scan.                                                      *)

\* The call has ended the scan, and not yet fired the webhook that says how.
Owes(w, s, o) == <<s, o>> \in worker[w].ended
Owers(s) == {w \in Workers : \E o \in Outcomes : Owes(w, s, o)}

\* Every webhook, fired or owed, is an end of the scan: the one it is in now, or one that a late
\* 'dispatched' write took back.
Ends(s) == revived[s] + (IF status[s] = "active" THEN 0 ELSE 1)
HooksCounted(s) == IsFiniteSet(Owers(s)) /\ Len(hooks[s]) + Cardinality(Owers(s)) <= Ends(s)

\* As long as there was none, all of them say what the row says.
HooksAgree(s) ==
  revived[s] = 0 =>
    /\ \A w \in Workers, o \in Outcomes : Owes(w, s, o) => status[s] \in {o, "deleted"}
    /\ \A i \in DOMAIN hooks[s] : status[s] \in {hooks[s][i], "deleted"}

OutcomeInv ==
  /\ \A w \in Workers : worker[w].ended # {} => worker[w].at = "hooks"
  /\ \A s \in Scans : HooksCounted(s) /\ HooksAgree(s)

LEMMA CountsAreNumbers ==
  ASSUME Typed, OutcomeInv, NEW s \in Scans
  PROVE  Len(hooks[s]) \in Nat /\ Cardinality(Owers(s)) \in Nat /\ revived[s] \in Nat
BY FS_CardinalityType DEF Typed, ScansTyped, OutcomeInv, HooksCounted

\* An active scan that was never revived has no webhook, fired or owed.
LEMMA ActiveHasNoHook ==
  ASSUME Typed, OutcomeInv, NEW s \in Scans, status[s] = "active", revived[s] = 0
  PROVE  hooks[s] = <<>> /\ Owers(s) = {}
<1>1. Len(hooks[s]) = 0 /\ Cardinality(Owers(s)) = 0
  <2>1. Len(hooks[s]) + Cardinality(Owers(s)) <= 0
    BY DEF OutcomeInv, HooksCounted, Ends
  <2> QED BY <2>1, CountsAreNumbers
<1>2. hooks[s] = <<>>
  BY <1>1, EmptySeq DEF Typed, ScansTyped
<1>3. Owers(s) = {}
  BY <1>1, FS_EmptySet DEF OutcomeInv, HooksCounted
<1> QED BY <1>2, <1>3

\* A step that ends no scan and fires nothing: calls are only relieved of what they owe.
Quiet ==
  /\ UNCHANGED <<status, hooks, revived>>
  /\ \A w \in Workers : worker'[w].ended \subseteq worker[w].ended
  /\ \A w \in Workers : worker'[w].ended # {} => worker'[w].at = "hooks"

LEMMA QuietKeepsOutcome == ASSUME Typed, OutcomeInv, Quiet PROVE OutcomeInv'
<1>1. \A w \in Workers, s \in Scans, o \in Outcomes : Owes(w, s, o)' => Owes(w, s, o)
  BY DEF Quiet, Owes
<1>2. ASSUME NEW s \in Scans PROVE HooksCounted(s)'
  <2>1. Owers(s)' \in SUBSET Owers(s)
    BY <1>1 DEF Owers
  <2>2. /\ IsFiniteSet(Owers(s)') /\ Cardinality(Owers(s)') <= Cardinality(Owers(s))
        /\ Cardinality(Owers(s)') \in Nat
    BY <2>1, FS_Subset, FS_CardinalityType DEF OutcomeInv, HooksCounted
  <2>3. Ends(s)' = Ends(s) /\ Ends(s) \in Nat
    BY CountsAreNumbers DEF Quiet, Ends
  <2> QED BY <2>2, <2>3, CountsAreNumbers DEF Quiet, OutcomeInv, HooksCounted
<1>3. \A s \in Scans : HooksAgree(s)'
  BY <1>1 DEF Quiet, OutcomeInv, HooksAgree
<1> QED BY <1>2, <1>3 DEF OutcomeInv, Quiet

\* A call that is set to owe nothing, or to what it owed, which was nothing.
LEMMA QuietCall ==
  ASSUME Typed, OutcomeInv, UNCHANGED <<status, hooks, revived>>, NEW w \in Workers, NEW call,
         worker' = [worker EXCEPT ![w] = call], call.ended = {}
  PROVE  Quiet
BY DEF Typed, CallsTyped, OutcomeInv, Quiet

LEMMA IdleOwesNothing == Idle.ended = {}
  BY DEF Idle

LEMMA QuietGoesOn ==
  ASSUME Typed, OutcomeInv, UNCHANGED <<status, hooks, revived>>, NEW w \in Workers, GoesOn(w)
  PROVE  Quiet
<1>1. CASE worker[w].path = "single" /\ Rest(w) # <<>>
  <2> DEFINE call == [Idle EXCEPT !.at = "lookup", !.path = "single", !.batch = Rest(w)]
  <2>1. worker' = [worker EXCEPT ![w] = call] /\ call.ended = {}
    BY <1>1 DEF GoesOn, Idle
  <2> QED BY <2>1, QuietCall
<1>2. CASE ~(worker[w].path = "single" /\ Rest(w) # <<>>)
  <2>1. worker' = [worker EXCEPT ![w] = Idle]
    BY <1>2 DEF GoesOn
  <2> QED BY <2>1, IdleOwesNothing, QuietCall
<1> QED BY <1>1, <1>2

LEMMA QuietStarts ==
  ASSUME Typed, OutcomeInv, UNCHANGED <<status, hooks, revived>>, NEW w \in Workers, NEW path, NEW msgs,
         Starts(w, path, msgs, "lookup")
  PROVE  Quiet
<1> DEFINE call == [Idle EXCEPT !.at = "lookup", !.path = path, !.batch = msgs]
<1>1. worker' = [worker EXCEPT ![w] = call] /\ call.ended = {}
  BY DEF Starts, Idle
<1> QED BY <1>1, QuietCall

LEMMA QuietReads ==
  ASSUME Typed, OutcomeInv, NEW w \in Workers, Lookup(w) \/ ReadIds(w)
  PROVE  Quiet
<1>1. worker[w].ended = {} /\ UNCHANGED <<status, hooks, revived>>
  BY DEF OutcomeInv, Lookup, ReadIds, scanVars
<1>2. worker[w] \in Calls
  BY DEF Typed, CallsTyped
<1>3. CASE Lookup(w)
  <2> DEFINE call == [worker[w] EXCEPT !.at = "ids",
                        !.known = {s \in {Evs(w)[i].scan : i \in DOMAIN Msgs(w)} : Exists(s)}]
  <2>1. worker' = [worker EXCEPT ![w] = call] /\ call.ended = {}
    BY <1>1, <1>2, <1>3 DEF Lookup, Calls
  <2> QED BY <1>1, <2>1, QuietCall
<1>4. CASE ReadIds(w)
  <2> DEFINE call == [worker[w] EXCEPT !.at = "write",
                        !.stored = rows \cap {Evs(w)[i] : i \in DOMAIN Msgs(w)}]
  <2>1. worker' = [worker EXCEPT ![w] = call] /\ call.ended = {}
    BY <1>1, <1>2, <1>4 DEF ReadIds, Calls
  <2> QED BY <1>1, <2>1, QuietCall
<1> QED BY <1>3, <1>4

LEMMA QuietSteps ==
  ASSUME Typed, OutcomeInv, Next, ~\E w \in Workers : Write(w) \/ Finish(w) \/ Crash(w),
         ~\E s \in Scans : MarkDispatched(s) \/ StopScan(s) \/ Delete(s)
  PROVE  Quiet
<1>1. ASSUME NEW e \in Events, Send(e) \/ Replay(e) PROVE Quiet
  BY <1>1 DEF Send, Replay, Quiet, OutcomeInv, scanVars
<1>2. ASSUME NEW e \in Events, NEW w \in Workers, SendFails(w, e) PROVE Quiet
  BY <1>2, QuietStarts DEF SendFails, scanVars
<1>3. ASSUME NEW w \in Workers, NEW s \in Scans, WatchdogEnds(w, s) PROVE Quiet
  BY <1>3, QuietStarts DEF WatchdogEnds, scanVars
<1>4. ASSUME NEW w \in Workers, Take(w) PROVE Quiet
  BY <1>4, QuietStarts DEF Take, scanVars
<1>5. ASSUME NEW w \in Workers, BatchFails(w) PROVE Quiet
  <2> DEFINE call == [Idle EXCEPT !.at = "lookup", !.path = "single", !.batch = worker[w].batch]
  <2>1. worker' = [worker EXCEPT ![w] = call] /\ call.ended = {} /\ UNCHANGED <<status, hooks, revived>>
    BY <1>5 DEF BatchFails, Idle, scanVars
  <2> QED BY <2>1, QuietCall
<1>6. ASSUME NEW w \in Workers, BatchDeferred(w) PROVE Quiet
  BY <1>6, IdleOwesNothing, QuietCall DEF BatchDeferred, scanVars
<1>7. ASSUME NEW w \in Workers, MessageFails(w) PROVE Quiet
  BY <1>7, QuietGoesOn DEF MessageFails, scanVars
<1>8. ASSUME NEW s \in Scans, Purge(s) PROVE Quiet
  BY <1>8 DEF Purge, Quiet, OutcomeInv
<1> QED BY Steps, QuietReads, <1>1, <1>2, <1>3, <1>4, <1>5, <1>6, <1>7, <1>8

\* A batch ends only scans that are active, and owes one webhook more for each.
LEMMA WriteKeepsOutcome ==
  ASSUME Typed, OutcomeInv, NEW w \in Workers, Write(w)
  PROVE  OutcomeInv'
<1>0. worker \in [Workers -> Calls] /\ status \in [Scans -> {"active", "deleted"} \cup Outcomes]
  BY DEF Typed, CallsTyped, ScansTyped
<1>1. worker[w].ended = {}
  BY DEF OutcomeInv, Write
<1>2. worker'[w].at = "hooks" /\ worker'[w].ended = {<<s, Outcome(w, s)>> : s \in EndedBy(w)}
  BY <1>0 DEF Write, Calls
<1>3. \A v \in Workers \ {w} : worker'[v] = worker[v]
  BY <1>0 DEF Write
<1>4. /\ hooks' = hooks /\ revived' = revived
      /\ \A s \in Scans : status'[s] = IF s \in EndedBy(w) THEN Outcome(w, s) ELSE status[s]
  BY DEF Write
<1>5. \A s \in Scans, o \in Outcomes : Owes(w, s, o)' <=> s \in EndedBy(w) /\ o = Outcome(w, s)
  BY <1>2 DEF Owes
<1>6. \A v \in Workers \ {w}, s \in Scans, o \in Outcomes : Owes(v, s, o)' <=> Owes(v, s, o)
  BY <1>3 DEF Owes
<1>7. \A v \in Workers : worker'[v].ended # {} => worker'[v].at = "hooks"
  BY <1>2, <1>3 DEF OutcomeInv
<1>8. ASSUME NEW s \in EndedBy(w) PROVE HooksCounted(s)' /\ HooksAgree(s)'
  <2>0. s \in Scans /\ status[s] = "active" /\ Outcome(w, s) \in Outcomes /\ Outcome(w, s) # "active"
    BY OutcomeTyped DEF EndedBy, IsActive, Outcomes
  <2>1. w \notin Owers(s) /\ Owers(s)' = Owers(s) \cup {w}
    BY <1>1, <1>5, <1>6, <2>0 DEF Owers, Owes
  <2>2. IsFiniteSet(Owers(s)') /\ Cardinality(Owers(s)') = Cardinality(Owers(s)) + 1
    BY <2>0, <2>1, FS_AddElement DEF OutcomeInv, HooksCounted
  <2>3. Ends(s)' = Ends(s) + 1 /\ Ends(s) \in Nat
    BY <1>4, <2>0, CountsAreNumbers DEF Ends
  <2>4. HooksCounted(s)'
    BY <1>4, <2>0, <2>2, <2>3, CountsAreNumbers DEF OutcomeInv, HooksCounted
  <2>5. HooksAgree(s)'
    <3> SUFFICES ASSUME revived[s] = 0 PROVE HooksAgree(s)'
      BY <1>4 DEF HooksAgree
    <3>1. hooks'[s] = <<>> /\ Owers(s) = {}
      BY <1>4, <2>0, ActiveHasNoHook
    <3>2. \A v \in Workers, o \in Outcomes : Owes(v, s, o)' => o = Outcome(w, s)
      BY <1>5, <1>6, <2>0, <3>1 DEF Owers
    <3> QED BY <1>4, <2>0, <3>1, <3>2 DEF HooksAgree
  <2> QED BY <2>4, <2>5
<1>9. ASSUME NEW s \in Scans, s \notin EndedBy(w) PROVE HooksCounted(s)' /\ HooksAgree(s)'
  <2>1. \A v \in Workers, o \in Outcomes : Owes(v, s, o)' <=> Owes(v, s, o)
    BY <1>1, <1>5, <1>6, <1>9 DEF Owes
  <2>2. Owers(s)' = Owers(s) /\ status'[s] = status[s]
    BY <1>4, <1>9, <2>1 DEF Owers
  <2> QED BY <1>4, <2>1, <2>2 DEF OutcomeInv, HooksCounted, Ends, HooksAgree
<1> QED BY <1>7, <1>8, <1>9 DEF OutcomeInv

\* A call fires what it owes: one webhook for each scan that it has ended.
LEMMA FiredIsOwed ==
  ASSUME Typed, NEW w \in Workers, NEW s \in Scans
  PROVE  \/ Fired(w)[s] = hooks[s] /\ w \notin Owers(s)
         \/ \E o \in Outcomes : Owes(w, s, o) /\ w \in Owers(s) /\ Fired(w)[s] = Append(hooks[s], o)
<1>0. hooks[s] \in Seq(Outcomes) /\ hooks[s] \o <<>> = hooks[s]
  BY DEF Typed, ScansTyped
<1>1. \A o \in Outcomes : Owes(w, s, o) => w \in Owers(s)
  BY DEF Owers
<1>2. \A o \in Outcomes : hooks[s] \o <<o>> = Append(hooks[s], o)
  BY <1>0, AppendIsConcat
<1>3. CASE Owes(w, s, "completed")
  <2>1. Fired(w)[s] = hooks[s] \o <<"completed">> /\ "completed" \in Outcomes
    BY <1>3 DEF Fired, Owes, Outcomes
  <2> QED BY <1>1, <1>2, <1>3, <2>1
<1>4. CASE ~Owes(w, s, "completed") /\ Owes(w, s, "failed")
  <2>1. Fired(w)[s] = hooks[s] \o <<"failed">> /\ "failed" \in Outcomes
    BY <1>4 DEF Fired, Owes, Outcomes
  <2> QED BY <1>1, <1>2, <1>4, <2>1
<1>5. CASE ~Owes(w, s, "completed") /\ ~Owes(w, s, "failed")
  BY <1>0, <1>5 DEF Fired, Owers, Owes, Outcomes
<1> QED BY <1>3, <1>4, <1>5

LEMMA FiringKeepsOutcome ==
  ASSUME Typed, OutcomeInv, NEW w \in Workers, UNCHANGED <<status, revived>>, hooks' = Fired(w),
         worker'[w].ended = {}, \A v \in Workers \ {w} : worker'[v] = worker[v]
  PROVE  OutcomeInv'
<1>1. \A v \in Workers, s \in Scans, o \in Outcomes : Owes(v, s, o)' <=> v # w /\ Owes(v, s, o)
  BY DEF Owes
<1>2. \A v \in Workers : worker'[v].ended # {} => worker'[v].at = "hooks"
  BY DEF OutcomeInv
<1>3. ASSUME NEW s \in Scans PROVE HooksCounted(s)' /\ HooksAgree(s)'
  <2>0. hooks[s] \in Seq(Outcomes) /\ Ends(s)' = Ends(s) /\ Ends(s) \in Nat
    <3>1. Ends(s)' = Ends(s)
      BY DEF Ends
    <3>2. Ends(s) \in Nat
      BY CountsAreNumbers DEF Ends
    <3> QED BY <3>1, <3>2 DEF Typed, ScansTyped
  <2>1. Owers(s)' = Owers(s) \ {w}
    BY <1>1 DEF Owers
  <2>2. CASE hooks'[s] = hooks[s] /\ w \notin Owers(s)
    <3>1. Owers(s)' = Owers(s)
      BY <2>1, <2>2
    <3> QED BY <1>1, <2>0, <2>2, <3>1 DEF OutcomeInv, HooksCounted, HooksAgree
  <2>3. ASSUME NEW o \in Outcomes, Owes(w, s, o), w \in Owers(s), hooks'[s] = Append(hooks[s], o)
        PROVE  HooksCounted(s)' /\ HooksAgree(s)'
    <3>1. /\ Len(hooks'[s]) = Len(hooks[s]) + 1 /\ DOMAIN hooks'[s] = 1..(Len(hooks[s]) + 1)
          /\ \A i \in 1..Len(hooks[s]) : hooks'[s][i] = hooks[s][i]
          /\ hooks'[s][Len(hooks[s]) + 1] = o
          /\ DOMAIN hooks[s] = 1..Len(hooks[s])
      BY <2>0, <2>3, AppendProperties
    <3>2. IsFiniteSet(Owers(s)') /\ Cardinality(Owers(s)') = Cardinality(Owers(s)) - 1
      BY <2>1, <2>3, FS_RemoveElement DEF OutcomeInv, HooksCounted
    <3>3. HooksCounted(s)'
      BY <2>0, <3>1, <3>2, CountsAreNumbers DEF OutcomeInv, HooksCounted
    <3>4. HooksAgree(s)'
      <4> SUFFICES ASSUME revived[s] = 0 PROVE HooksAgree(s)'
        BY DEF HooksAgree
      <4>1. status[s] \in {o, "deleted"} /\ \A i \in DOMAIN hooks[s] : status[s] \in {hooks[s][i], "deleted"}
        BY <2>3 DEF OutcomeInv, HooksAgree
      <4>2. \A i \in DOMAIN hooks'[s] : status'[s] \in {hooks'[s][i], "deleted"}
        <5> SUFFICES ASSUME NEW i \in DOMAIN hooks'[s] PROVE status[s] \in {hooks'[s][i], "deleted"}
          OBVIOUS
        <5>1. i \in DOMAIN hooks[s] \/ i = Len(hooks[s]) + 1
          BY <3>1, CountsAreNumbers
        <5> QED BY <3>1, <4>1, <5>1
      <4>3. \A v \in Workers, p \in Outcomes : Owes(v, s, p)' => status'[s] \in {p, "deleted"}
        BY <1>1 DEF OutcomeInv, HooksAgree
      <4> QED BY <4>2, <4>3 DEF HooksAgree
    <3> QED BY <3>3, <3>4
  <2> QED BY <2>2, <2>3, FiredIsOwed
<1> QED BY <1>2, <1>3 DEF OutcomeInv

LEMMA EndsKeepOutcome ==
  ASSUME Typed, OutcomeInv, NEW w \in Workers, Finish(w) \/ Crash(w)
  PROVE  OutcomeInv'
<1>0. worker \in [Workers -> Calls] /\ UNCHANGED <<status, revived>>
  BY DEF Typed, CallsTyped, Finish, Crash, scanVars
<1>1. worker'[w].ended = {} /\ \A v \in Workers \ {w} : worker'[v] = worker[v]
  <2>1. CASE Finish(w)
    BY <1>0, <2>1 DEF Finish, GoesOn, Idle
  <2>2. CASE Crash(w)
    BY <1>0, <2>2 DEF Crash, Idle
  <2> QED BY <2>1, <2>2
<1>2. CASE hooks' = Fired(w)
  BY <1>0, <1>1, <1>2, FiringKeepsOutcome
<1>3. CASE hooks' = hooks
  <2>1. Quiet
    BY <1>0, <1>1, <1>3 DEF Quiet, OutcomeInv
  <2> QED BY <2>1, QuietKeepsOutcome
<1> QED BY <1>2, <1>3 DEF Finish, Crash

\* What others write to the row: a deletion and a stop end the scan without a webhook, and a late
\* 'dispatched' write that makes it active again is counted.
LEMMA RowKeepsOutcome ==
  ASSUME Typed, OutcomeInv, NEW s \in Scans, MarkDispatched(s) \/ StopScan(s) \/ Delete(s)
  PROVE  OutcomeInv'
<1>0. /\ status \in [Scans -> {"active", "deleted"} \cup Outcomes] /\ revived \in [Scans -> Nat]
      /\ UNCHANGED <<worker, hooks>>
  BY DEF Typed, ScansTyped, MarkDispatched, StopScan, Delete
<1>1. \A w \in Workers, x \in Scans, o \in Outcomes : Owes(w, x, o)' <=> Owes(w, x, o)
  BY <1>0 DEF Owes
<1>2. \A x \in Scans : Owers(x)' = Owers(x)
  BY <1>1 DEF Owers
<1>3. \A x \in Scans \ {s} : status'[x] = status[x] /\ revived'[x] = revived[x]
  BY <1>0 DEF MarkDispatched, StopScan, Delete
<1>4. \A x \in Scans \ {s} : HooksCounted(x)' /\ HooksAgree(x)'
  BY <1>0, <1>1, <1>2, <1>3 DEF OutcomeInv, HooksCounted, Ends, HooksAgree
<1>5. Ends(s)' >= Ends(s) /\ Ends(s)' \in Nat /\ Ends(s) \in Nat
  BY <1>0 DEF MarkDispatched, StopScan, Delete, Ends, IsActive, Outcomes, Exists
<1>6. HooksCounted(s)'
  BY <1>0, <1>2, <1>5, CountsAreNumbers DEF OutcomeInv, HooksCounted
<1>7. HooksAgree(s)'
  <2>1. CASE status'[s] = "deleted" \/ (status'[s] = status[s] /\ revived'[s] = revived[s])
    <3>1. revived'[s] = revived[s]
      BY <1>0, <2>1 DEF MarkDispatched, StopScan, Delete, Outcomes, Exists
    <3> QED BY <1>0, <1>1, <2>1, <3>1 DEF OutcomeInv, HooksAgree
  <2>2. CASE revived'[s] = revived[s] + 1
    BY <1>0, <2>2 DEF HooksAgree
  <2>3. CASE status[s] = "active" /\ revived'[s] = revived[s]
    <3> SUFFICES ASSUME revived[s] = 0 PROVE HooksAgree(s)'
      BY <2>3 DEF HooksAgree
    <3> QED BY <1>0, <1>1, <2>3, ActiveHasNoHook DEF HooksAgree, Owers
  <2> QED BY <1>0, <2>1, <2>2, <2>3 DEF MarkDispatched, StopScan, Delete, IsActive, Outcomes, Exists
<1> QED BY <1>0, <1>4, <1>6, <1>7 DEF OutcomeInv

\* Every webhook but the first takes a late 'dispatched' write that made the ended scan active again
\* (updateScanStatus, repositories/scans.ts): terminal events that are repeated, processed by several
\* calls at a time, and competing with the watchdog and a user's stop do not suffice. Without such a
\* write the one webhook tells how the scan ended (ACTIVE_STATUS_SQL, and the change count).
THEOREM ScansEndOnce == Spec => []OneOutcome
<1>1. Init => OutcomeInv
  <2> SUFFICES ASSUME Init, NEW s \in Scans PROVE HooksCounted(s) /\ HooksAgree(s)
    BY DEF Init, OutcomeInv, Idle
  <2>1. Owers(s) = {} /\ Len(hooks[s]) = 0 /\ revived[s] = 0 /\ status[s] = "active"
    BY EmptySeq DEF Init, Owers, Owes, Idle
  <2>2. HooksCounted(s)
    BY <2>1, FS_EmptySet DEF HooksCounted, Ends
  <2>3. HooksAgree(s)
    BY DEF Init, HooksAgree, Owes, Idle
  <2> QED BY <2>2, <2>3
<1>2. Typed /\ OutcomeInv /\ [Next]_vars => OutcomeInv'
  <2> SUFFICES ASSUME Typed, OutcomeInv, [Next]_vars PROVE OutcomeInv'
    OBVIOUS
  <2>1. CASE UNCHANGED vars
    <3>1. Quiet
      BY <2>1 DEF vars, scanVars, Quiet, OutcomeInv
    <3> QED BY <3>1, QuietKeepsOutcome
  <2>2. CASE \E w \in Workers : Write(w)
    BY <2>2, WriteKeepsOutcome
  <2>3. CASE \E w \in Workers : Finish(w) \/ Crash(w)
    BY <2>3, EndsKeepOutcome
  <2>4. CASE \E s \in Scans : MarkDispatched(s) \/ StopScan(s) \/ Delete(s)
    BY <2>4, RowKeepsOutcome
  <2> QED BY <2>1, <2>2, <2>3, <2>4, QuietSteps, QuietKeepsOutcome
<1>3. Typed /\ OutcomeInv => OneOutcome
  <2> SUFFICES ASSUME Typed, OutcomeInv, NEW s \in Scans
               PROVE  /\ Len(hooks[s]) <= 1 + revived[s]
                      /\ revived[s] = 0 =>
                           \A i \in DOMAIN hooks[s] : status[s] \in {hooks[s][i], "deleted"}
    BY DEF OneOutcome
  <2>1. Len(hooks[s]) <= 1 + revived[s]
    BY CountsAreNumbers DEF OutcomeInv, HooksCounted, Ends
  <2> QED BY <2>1 DEF OutcomeInv, HooksAgree
<1> QED BY <1>1, <1>2, <1>3, AlwaysTyped, PTL DEF Spec

-----------------------------------------------------------------------------
(* Dead letters.                                                           *)

\* The message was tried once, and once more for every incident, or it is bad.
Spared(m) == m.event \in Bad \/ m.tries <= incidents + 1

TriesInv ==
  /\ \A m \in queue : Spared(m)
  /\ \A w \in Workers : \A m \in MsgSet(w) : Spared(m)
  /\ DeadAreBad

\* Incidents only grow in number, so a message stays spared.
LEMMA IncidentsGrow ==
  ASSUME Typed, Typed', [Next]_vars
  PROVE  /\ incidents' \in Nat /\ incidents \in Nat /\ incidents' >= incidents
         /\ \A m \in AnyMessage : Spared(m) => Spared(m)'
         /\ \A m \in dead : (m.event \in Bad \/ incidents > MaxRetries)
                              => (m.event \in Bad \/ incidents' > MaxRetries)
<1>1. incidents \in Nat /\ incidents' \in Nat
  BY DEF Typed, MessagesTyped
<1>2. incidents' \in {incidents, incidents + 1}
  BY Steps, RowIsWritten DEF RowWritten, Send, Replay, SendFails, WatchdogEnds, Take, Lookup, ReadIds, Write, Finish, Fails,
     BatchFails, BatchDeferred, MessageFails, Crash, Purge, Delete, Incident, vars
<1>3. incidents' >= incidents
  BY <1>1, <1>2
<1>4. \A m \in AnyMessage : Spared(m) => Spared(m)'
  BY <1>1, <1>3 DEF Spared, AnyMessage
<1>5. MaxRetries \in Nat
  BY FindingsQueueAssumption
<1> QED BY <1>1, <1>3, <1>4, <1>5

\* What the queue and the dead letters hold after messages came back: each was struck by an incident,
\* or is bad.
LEMMA RetriedSpared ==
  ASSUME Typed, Typed', TriesInv, [Next]_vars, NEW msgs \in SUBSET AnyMessage, Retried(msgs),
         \A m \in msgs : Spared(m), \A m \in msgs : m.event \in Bad \/ incidents' = incidents + 1
  PROVE  (\A m \in queue' : Spared(m)') /\ DeadAreBad'
<1>1. /\ incidents' \in Nat /\ incidents \in Nat /\ MaxRetries \in Nat
      /\ queue \subseteq AnyMessage /\ dead \subseteq AnyMessage
  BY FindingsQueueAssumption DEF Typed, MessagesTyped
<1>2. \A m \in queue : Spared(m)'
  BY <1>1, IncidentsGrow DEF TriesInv
<1>3. ASSUME NEW m \in msgs PROVE Spared([m EXCEPT !.tries = @ + 1])'
  <2>1. m \in AnyMessage /\ Spared(m)
    OBVIOUS
  <2>2. [m EXCEPT !.tries = @ + 1].event = m.event /\ [m EXCEPT !.tries = @ + 1].tries = m.tries + 1
    BY <2>1 DEF AnyMessage
  <2>3. m.tries \in Nat
    BY <2>1 DEF AnyMessage
  <2> QED BY <1>1, <2>1, <2>2, <2>3 DEF Spared
<1>4. \A m \in queue' : Spared(m)'
  BY <1>2, <1>3 DEF Retried
<1>5. \A m \in dead' : m.event \in Bad \/ incidents' > MaxRetries
  <2>1. ASSUME NEW m \in msgs, IsLastTry(m) PROVE m.event \in Bad \/ incidents' > MaxRetries
    <3>1. m.tries \in Nat /\ Spared(m) /\ m.tries > MaxRetries
      BY <2>1 DEF AnyMessage, IsLastTry
    <3> QED BY <1>1, <3>1 DEF Spared
  <2>2. \A m \in dead : m.event \in Bad \/ incidents' > MaxRetries
    BY <1>1, IncidentsGrow DEF TriesInv, DeadAreBad
  <2> QED BY <2>1, <2>2 DEF Retried
<1> QED BY <1>4, <1>5 DEF DeadAreBad

\* A step after which the calls' messages were there before, and the queue's and the dead ones are as
\* they should be.
LEMMA TriesKept ==
  ASSUME Typed, Typed', TriesInv, [Next]_vars, \A m \in queue' : Spared(m)', DeadAreBad',
         \A w \in Workers : \A m \in MsgSet(w)' : m \in queue \/ (\E v \in Workers : m \in MsgSet(v))
                                                    \/ Spared(m)'
  PROVE  TriesInv'
<1>1. \A w \in Workers : MsgSet(w) \subseteq AnyMessage
  BY MsgSetTyped DEF Typed
<1>2. queue \subseteq AnyMessage
  BY DEF Typed, MessagesTyped
<1> QED BY <1>1, <1>2, IncidentsGrow DEF TriesInv

\* The steps that take no message back from a call.
LEMMA QueueSpared ==
  ASSUME Typed, Typed', TriesInv, [Next]_vars,
         queue' \subseteq queue \/ (\E e \in Events : Enqueue(e)), dead' = dead
  PROVE  (\A m \in queue' : Spared(m)') /\ DeadAreBad'
<1>1. queue \subseteq AnyMessage /\ incidents' \in Nat
  BY DEF Typed, MessagesTyped
<1>2. \A m \in queue : Spared(m)'
  BY <1>1, IncidentsGrow DEF TriesInv
<1>3. ASSUME NEW e \in Events, NEW m, m = InQueue(e) PROVE Spared(m)'
  <2>1. m.tries = 1
    BY <1>3 DEF InQueue
  <2>2. incidents' \in Nat
    BY <1>1
  <2>3. \A n \in Nat : 1 <= n + 1
    OBVIOUS
  <2> QED BY <2>1, <2>2, <2>3 DEF Spared
<1>4. DeadAreBad'
  BY IncidentsGrow DEF TriesInv, DeadAreBad
<1> QED BY <1>2, <1>3, <1>4 DEF Enqueue

\* What a step does to the messages of calls.
LEMMA StartsMsgs ==
  ASSUME Typed, NEW w \in Workers, NEW path, NEW msgs, Starts(w, path, msgs, "lookup")
  PROVE  /\ MsgSet(w)' = {msgs[i] : i \in DOMAIN msgs}
         /\ \A v \in Workers \ {w} : MsgSet(v)' = MsgSet(v)
<1>1. worker \in [Workers -> Calls]
  BY DEF Typed, CallsTyped
<1>2. worker'[w].batch = msgs /\ \A v \in Workers \ {w} : worker'[v] = worker[v]
  BY <1>1 DEF Starts, Idle
<1> QED BY <1>2 DEF MsgSet

LEMMA GoesOnMsgs ==
  ASSUME Typed, NEW w \in Workers, worker[w].at # "idle", GoesOn(w)
  PROVE  \A v \in Workers : MsgSet(v)' \subseteq MsgSet(v)
<1>1. worker \in [Workers -> Calls] /\ worker[w].batch \in Seq(AnyMessage) /\ worker[w].batch # <<>>
  BY DEF Typed, CallsTyped, Calls
<1>2. \A v \in Workers \ {w} : worker'[v] = worker[v]
  BY <1>1 DEF GoesOn
<1>3. MsgSet(w)' \subseteq MsgSet(w)
  <2>1. CASE worker[w].path = "single" /\ Rest(w) # <<>>
    <3>1. worker'[w].batch = Tail(worker[w].batch)
      BY <1>1, <2>1 DEF GoesOn, Idle, Rest
    <3>2. \A i \in DOMAIN Tail(worker[w].batch) :
            i + 1 \in DOMAIN worker[w].batch /\ Tail(worker[w].batch)[i] = worker[w].batch[i + 1]
      BY <1>1
    <3> QED BY <3>1, <3>2 DEF MsgSet
  <2>2. CASE ~(worker[w].path = "single" /\ Rest(w) # <<>>)
    <3>1. worker'[w].batch = <<>>
      BY <1>1, <2>2 DEF GoesOn, Idle
    <3> QED BY <3>1 DEF MsgSet
  <2> QED BY <2>1, <2>2
<1> QED BY <1>2, <1>3 DEF MsgSet

\* The steps of calls that keep the batch, or drop it.
LEMMA CallMsgs ==
  ASSUME Typed, NEW w \in Workers, NEW call, worker' = [worker EXCEPT ![w] = call],
         call.batch \in {worker[w].batch, <<>>}
  PROVE  \A v \in Workers : MsgSet(v)' \subseteq MsgSet(v)
<1>1. worker \in [Workers -> Calls]
  BY DEF Typed, CallsTyped
<1>2. worker'[w].batch \in {worker[w].batch, <<>>} /\ \A v \in Workers \ {w} : worker'[v] = worker[v]
  BY <1>1
<1> QED BY <1>2 DEF MsgSet

\* A single message that D1 rejects is bad.
LEMMA RejectedIsBad ==
  ASSUME Typed, NEW w \in Workers, worker[w].path = "single", Rejected(w)
  PROVE  \A i \in DOMAIN Msgs(w) : Msgs(w)[i].event \in Bad
<1>1. DOMAIN Msgs(w) = {1}
  BY DEF Msgs
<1> QED BY <1>1 DEF Rejected, Kept, Evs

LEMMA CoordinatorSpares ==
  ASSUME Typed, Typed', TriesInv, Next,
         \/ \E e \in Events : Send(e) \/ Replay(e) \/ \E w \in Workers : SendFails(w, e)
         \/ \E w \in Workers, s \in Scans : WatchdogEnds(w, s)
         \/ \E s \in Scans : MarkDispatched(s) \/ StopScan(s)
         \/ \E s \in Scans : Purge(s) \/ Delete(s)
  PROVE  TriesInv'
<1>1. queue' \subseteq queue \/ (\E e \in Events : Enqueue(e))
  BY RowIsWritten DEF RowWritten, Send, Replay, SendFails, WatchdogEnds, Purge, Delete, queueVars
<1>2. dead' = dead
  BY RowIsWritten DEF RowWritten, Send, Replay, SendFails, WatchdogEnds, Purge, Delete, queueVars
<1>3. (\A m \in queue' : Spared(m)') /\ DeadAreBad'
  BY <1>1, <1>2, QueueSpared
<1>4. CASE worker' = worker
  BY <1>3, <1>4, TriesKept DEF MsgSet
<1>5. ASSUME NEW w \in Workers, NEW e, NEW path,
             Starts(w, path, <<[event |-> e, copy |-> 0, tries |-> 1]>>, "lookup")
      PROVE  TriesInv'
  <2>1. MsgSet(w)' = {[event |-> e, copy |-> 0, tries |-> 1]}
    BY <1>5, StartsMsgs
  <2>2. \A m \in MsgSet(w)' : Spared(m)'
    BY <2>1 DEF Spared, Typed, MessagesTyped
  <2>3. \A v \in Workers \ {w} : MsgSet(v)' = MsgSet(v)
    BY <1>5, StartsMsgs
  <2> QED BY <1>3, <2>2, <2>3, TriesKept
<1>6. \/ worker' = worker
      \/ \E w \in Workers, e \in AllEvents, path \in Paths :
           Starts(w, path, <<[event |-> e, copy |-> 0, tries |-> 1]>>, "lookup")
  BY RowIsWritten DEF RowWritten, Send, Replay, SendFails, WatchdogEnds, Purge, Delete, Paths, AllEvents
<1> QED BY <1>4, <1>5, <1>6

LEMMA CallsSpare ==
  ASSUME Typed, Typed', TriesInv, Next, NEW w \in Workers,
         \/ Take(w) \/ Lookup(w) \/ ReadIds(w) \/ Write(w) \/ Finish(w) \/ BatchFails(w)
         \/ MessageFails(w) /\ ~FromQueue(w)
  PROVE  TriesInv'
<1>1. queue' \subseteq queue /\ dead' = dead
  BY DEF Take, Lookup, ReadIds, Write, Finish, BatchFails, MessageFails, queueVars
<1>2. (\A m \in queue' : Spared(m)') /\ DeadAreBad'
  BY <1>1, QueueSpared
<1>3. CASE Take(w)
  <2>1. PICK n \in 1..BatchSize : \E batch \in [1..n -> queue] : Starts(w, "batch", batch, "lookup")
    BY <1>3 DEF Take
  <2>2. PICK batch \in [1..n -> queue] : Starts(w, "batch", batch, "lookup")
    BY <2>1
  <2>3. MsgSet(w)' \subseteq queue /\ \A v \in Workers \ {w} : MsgSet(v)' = MsgSet(v)
    BY <2>2, StartsMsgs
  <2> QED BY <1>2, <2>3, TriesKept
<1>4. ASSUME \A v \in Workers : MsgSet(v)' \subseteq MsgSet(v) PROVE TriesInv'
  BY <1>2, <1>4, TriesKept
<1>5. worker[w] \in Calls
  BY DEF Typed, CallsTyped
<1>6. CASE Lookup(w)
  <2> DEFINE call == [worker[w] EXCEPT !.at = "ids",
                        !.known = {s \in {Evs(w)[i].scan : i \in DOMAIN Msgs(w)} : Exists(s)}]
  <2>1. worker' = [worker EXCEPT ![w] = call] /\ call.batch = worker[w].batch
    BY <1>5, <1>6 DEF Lookup, Calls
  <2> QED BY <1>4, <2>1, CallMsgs
<1>7. CASE ReadIds(w)
  <2> DEFINE call == [worker[w] EXCEPT !.at = "write",
                        !.stored = rows \cap {Evs(w)[i] : i \in DOMAIN Msgs(w)}]
  <2>1. worker' = [worker EXCEPT ![w] = call] /\ call.batch = worker[w].batch
    BY <1>5, <1>7 DEF ReadIds, Calls
  <2> QED BY <1>4, <2>1, CallMsgs
<1>8. CASE Write(w)
  <2> DEFINE call == [worker[w] EXCEPT !.at = "hooks", !.known = {}, !.stored = {},
                        !.ended = {<<s, Outcome(w, s)>> : s \in EndedBy(w)}]
  <2>1. worker' = [worker EXCEPT ![w] = call] /\ call.batch = worker[w].batch
    BY <1>5, <1>8 DEF Write, Calls
  <2> QED BY <1>4, <2>1, CallMsgs
<1>9. CASE BatchFails(w)
  <2> DEFINE call == [Idle EXCEPT !.at = "lookup", !.path = "single", !.batch = worker[w].batch]
  <2>1. worker' = [worker EXCEPT ![w] = call] /\ call.batch = worker[w].batch
    BY <1>9 DEF BatchFails, Idle
  <2> QED BY <1>4, <2>1, CallMsgs
<1>10. CASE Finish(w) \/ MessageFails(w)
  <2>1. worker[w].at # "idle" /\ GoesOn(w)
    BY <1>10 DEF Finish, MessageFails, Fails, InCall
  <2> QED BY <1>4, <2>1, GoesOnMsgs
<1> QED BY <1>3, <1>6, <1>7, <1>8, <1>9, <1>10

\* Messages come back to the queue only in an incident, or alone and bad.
LEMMA RetriesSpare ==
  ASSUME Typed, Typed', TriesInv, Next, NEW w \in Workers,
         BatchDeferred(w) \/ Crash(w) \/ (MessageFails(w) /\ FromQueue(w))
  PROVE  TriesInv'
<1>1. MsgSet(w) \in SUBSET AnyMessage /\ \A m \in MsgSet(w) : Spared(m)
  BY MsgSetTyped DEF Typed, TriesInv
<1>2. ASSUME (\A m \in queue' : Spared(m)') /\ DeadAreBad',
             \A v \in Workers : MsgSet(v)' \subseteq MsgSet(v)
      PROVE  TriesInv'
  BY <1>2, TriesKept
<1>3. CASE BatchDeferred(w) \/ Crash(w)
  <2>1. worker' = [worker EXCEPT ![w] = Idle] /\ Idle.batch = <<>>
    BY <1>3 DEF BatchDeferred, Crash, Idle
  <2>2. \A v \in Workers : MsgSet(v)' \subseteq MsgSet(v)
    BY <2>1, CallMsgs
  <2>3. (\A m \in queue' : Spared(m)') /\ DeadAreBad'
    <3>1. CASE Retried(MsgSet(w))
      <4>1. incidents' = incidents + 1
        BY <1>3 DEF BatchDeferred, Crash, Incident
      <4> QED BY <1>1, <3>1, <4>1, RetriedSpared
    <3>2. CASE UNCHANGED queueVars
      BY <3>2, QueueSpared DEF queueVars
    <3> QED BY <1>3, <3>1, <3>2 DEF BatchDeferred, Crash
  <2> QED BY <1>2, <2>2, <2>3
<1>4. CASE MessageFails(w) /\ FromQueue(w)
  <2> DEFINE msgs == {Msgs(w)[i] : i \in DOMAIN Msgs(w)}
  <2>1. worker[w].at # "idle" /\ GoesOn(w) /\ Retried(msgs) /\ worker[w].path = "single"
    BY <1>4 DEF MessageFails, Fails, InCall, FromQueue, OneAtATime
  <2>2. \A v \in Workers : MsgSet(v)' \subseteq MsgSet(v)
    BY <2>1, GoesOnMsgs
  <2>3. msgs \subseteq MsgSet(w)
    BY <2>1, MsgsTyped DEF Typed
  <2>4. \A m \in msgs : m.event \in Bad \/ incidents' = incidents + 1
    BY <1>4, <2>1, RejectedIsBad DEF MessageFails, Fails, Incident
  <2>5. (\A m \in queue' : Spared(m)') /\ DeadAreBad'
    BY <1>1, <2>1, <2>3, <2>4, RetriedSpared
  <2> QED BY <1>2, <2>2, <2>5
<1> QED BY <1>3, <1>4

\* A good message becomes a dead letter only through more incidents than max_retries: a batch that
\* fails is processed one message at a time (index.ts, queue), so a bad one costs the others no try.
THEOREM GoodMessagesSurvive == Spec => []DeadAreBad
<1>1. Init => TriesInv
  <2> SUFFICES ASSUME Init PROVE TriesInv
    OBVIOUS
  <2>1. queue = {} /\ dead = {} /\ \A w \in Workers : MsgSet(w) = {}
    BY DEF Init, MsgSet, Idle
  <2> QED BY <2>1 DEF TriesInv, DeadAreBad
<1>2. Typed /\ Typed' /\ TriesInv /\ [Next]_vars => TriesInv'
  <2> SUFFICES ASSUME Typed, Typed', TriesInv, [Next]_vars PROVE TriesInv'
    OBVIOUS
  <2>1. CASE UNCHANGED vars
    BY <2>1 DEF vars, queueVars, TriesInv, DeadAreBad, Spared, MsgSet
  <2>2. CASE Next
    <3>1. ASSUME NEW w \in Workers, Take(w) \/ Lookup(w) \/ ReadIds(w) PROVE TriesInv'
      BY <2>2, <3>1, CallsSpare
    <3>2. ASSUME NEW w \in Workers, Write(w) PROVE TriesInv'
      BY <2>2, <3>2, CallsSpare
    <3>3. ASSUME NEW w \in Workers,
                 Finish(w) \/ BatchFails(w) \/ BatchDeferred(w) \/ MessageFails(w)
          PROVE  TriesInv'
      <4>1. CASE Finish(w) \/ BatchFails(w) \/ (MessageFails(w) /\ ~FromQueue(w))
        BY <2>2, <4>1, CallsSpare
      <4>2. CASE BatchDeferred(w) \/ (MessageFails(w) /\ FromQueue(w))
        BY <2>2, <4>2, RetriesSpare
      <4> QED BY <3>3, <4>1, <4>2
    <3>4. ASSUME NEW w \in Workers, Crash(w) PROVE TriesInv'
      BY <2>2, <3>4, RetriesSpare
    <3> QED BY <2>2, <3>1, <3>2, <3>3, <3>4, Steps, CoordinatorSpares
  <2> QED BY <2>1, <2>2
<1>3. TriesInv => DeadAreBad
  BY DEF TriesInv
<1> QED BY <1>1, <1>2, <1>3, AlwaysTyped, PTL DEF Spec

-----------------------------------------------------------------------------
(* Coalesced progress.                                                       *)

\* A set of naturals has a least element.
LEMMA LeastOf ==
  ASSUME NEW S \in SUBSET Nat, S # {}
  PROVE  \E n \in S : \A m \in S : n <= m
<1>1. PICK n \in S : \A m \in S : ~(<<m, n>> \in OpToRel(<, Nat))
  BY NatLessThanWellFounded, WFMin
<1>2. ASSUME NEW m \in S PROVE n <= m
  <2>1. ~(<<m, n>> \in OpToRel(<, Nat)) /\ m \in Nat /\ n \in Nat
    BY <1>1
  <2> QED BY <2>1 DEF OpToRel
<1> QED BY <1>2

\* One event of the fold: what is kept after the n-th event of the call.
Stepped(w, s, n, kept) ==
  IF n \in KeptOf(w, s, {"progress"}) /\ Supersedes(Place(Evs(w)[n]), kept)
  THEN Place(Evs(w)[n]) ELSE kept

IsFold(w, s, N, keep) ==
  keep = [n \in 0..N |-> IF n = 0 THEN NoProgress ELSE Stepped(w, s, n, keep[n - 1])]

\* Coalesced is the last value of that fold.
LEMMA CoalescedIs ==
  ASSUME NEW w, NEW s
  PROVE  Coalesced(w, s) = (CHOOSE keep : IsFold(w, s, Len(Evs(w)), keep))[Len(Evs(w))]
BY DEF Coalesced, IsFold, Stepped

\* There is such a fold over any number of events: a least number without one would be reached from the
\* fold over one event less.
LEMMA FoldExists ==
  ASSUME NEW w, NEW s, NEW N \in Nat
  PROVE  \E keep : IsFold(w, s, N, keep)
<1> DEFINE Missing == {n \in Nat : ~\E keep : IsFold(w, s, n, keep)}
<1> SUFFICES ASSUME Missing # {} PROVE FALSE
  OBVIOUS
<1>1. PICK m \in Missing : \A n \in Missing : m <= n
  <2>1. Missing \in SUBSET Nat
    OBVIOUS
  <2> HIDE DEF Missing
  <2> QED BY <2>1, LeastOf
<1>2. CASE m = 0
  <2> DEFINE f == [n \in 0..0 |-> NoProgress]
  <2>1. f = [n \in 0..0 |-> IF n = 0 THEN NoProgress ELSE Stepped(w, s, n, f[n - 1])]
    OBVIOUS
  <2>2. IsFold(w, s, 0, f)
    BY <2>1 DEF IsFold
  <2> QED BY <1>1, <1>2, <2>2
<1>3. CASE m # 0
  <2>1. m - 1 \in Nat /\ m - 1 \notin Missing /\ m \in Nat
    BY <1>1, <1>3
  <2>2. PICK f : IsFold(w, s, m - 1, f)
    BY <2>1
  <2> DEFINE g == [n \in 0..m |-> IF n < m THEN f[n] ELSE Stepped(w, s, m, f[m - 1])]
  <2>3. /\ DOMAIN f = 0..(m - 1)
        /\ \A n \in 0..(m - 1) : f[n] = IF n = 0 THEN NoProgress ELSE Stepped(w, s, n, f[n - 1])
    BY <2>2 DEF IsFold
  <2>4. \A n \in 0..m : g[n] = IF n = 0 THEN NoProgress ELSE Stepped(w, s, n, g[n - 1])
    <3> SUFFICES ASSUME NEW n \in 0..m PROVE g[n] = IF n = 0 THEN NoProgress ELSE Stepped(w, s, n, g[n - 1])
      OBVIOUS
    <3>1. CASE n = 0
      BY <2>1, <2>3, <1>3, <3>1
    <3>2. CASE n # 0 
      <4>1. g[n - 1] = f[n - 1]
        BY <2>1, <3>2
      <4>2. CASE n < m
        BY <2>1, <2>3, <3>2, <4>1, <4>2
      <4>3. CASE n = m
        BY <2>1, <3>2, <4>1, <4>3
      <4> QED BY <2>1, <4>2, <4>3
    <3> QED BY <3>1, <3>2
  <2>5. IsFold(w, s, m, g)
    <3>1. g = [n \in 0..m |-> g[n]]
      OBVIOUS
    <3> HIDE DEF g
    <3> QED BY <2>4, <3>1 DEF IsFold
  <2> QED BY <1>1, <2>5
<1> QED BY <1>2, <1>3

\* What is kept, event by event.
LEMMA CoalescedByStep ==
  ASSUME NEW w, NEW s, Len(Evs(w)) \in Nat
  PROVE  \E keep : /\ keep[0] = NoProgress /\ keep[Len(Evs(w))] = Coalesced(w, s)
                   /\ \A n \in 1..Len(Evs(w)) : keep[n] = Stepped(w, s, n, keep[n - 1])
<1> DEFINE keep == CHOOSE keep : IsFold(w, s, Len(Evs(w)), keep)
<1>1. IsFold(w, s, Len(Evs(w)), keep)
  BY FoldExists
<1>2. keep[Len(Evs(w))] = Coalesced(w, s)
  BY CoalescedIs
<1> HIDE DEF keep
<1>3. \A n \in 0..Len(Evs(w)) : keep[n] = IF n = 0 THEN NoProgress ELSE Stepped(w, s, n, keep[n - 1])
  BY <1>1 DEF IsFold
<1> QED BY <1>2, <1>3

\* A place in a stream: an execution and a sequence number, neither of them zero.
Placed(p) == p \in [exec: Nat \ {0}, seq: Nat \ {0}]

\* A place is not what a scan without progress has.
LEMMA PlacedIsProgress == \A p : Placed(p) => p # NoProgress
  BY DEF Placed, NoProgress

\* The progress events of a call have a place in a stream: the watchdog sends none.
LEMMA ProgressEventsPlaced ==
  ASSUME Typed, NEW w \in Workers, worker[w].at # "idle", NEW s, NEW i \in KeptOf(w, s, {"progress"})
  PROVE  Placed(Place(Evs(w)[i]))
<1>1. Evs(w)[i] \in AllEvents /\ Evs(w)[i].kind = "progress"
  BY EvsTyped DEF Typed, KeptOf, Kept
<1>2. Evs(w)[i] \in Events
  BY <1>1 DEF AllEvents, WatchdogEvent
<1>3. Evs(w)[i].exec \in Nat \ {0} /\ Evs(w)[i].seq \in Nat \ {0}
  BY <1>2, FindingsQueueAssumption DEF Event
<1> QED BY <1>3 DEF Placed, Place

\* The one progress statement of a call: a place of one of its progress events, if it has any.
LEMMA CoalescedFacts ==
  ASSUME Typed, NEW w \in Workers, worker[w].at # "idle", NEW s
  PROVE  /\ Coalesced(w, s) = NoProgress \/ Placed(Coalesced(w, s))
         /\ KeptOf(w, s, {"progress"}) # {} => Placed(Coalesced(w, s))
<1> DEFINE mine == KeptOf(w, s, {"progress"})
           len == Len(Evs(w))
<1>1. len \in Nat /\ DOMAIN Evs(w) = 1..len
  <2>1. Msgs(w) \in Seq(AnyMessage) /\ DOMAIN Evs(w) = DOMAIN Msgs(w)
    BY MsgsTyped, EvsTyped DEF Typed
  <2>2. DOMAIN Evs(w) = 1..Len(Msgs(w)) /\ Len(Msgs(w)) \in Nat
    BY <2>1
  <2>3. Evs(w) = [i \in 1..Len(Msgs(w)) |-> Evs(w)[i]]
    BY <2>2 DEF Evs
  <2>4. Len(Evs(w)) = Len(Msgs(w))
    BY <2>2
  <2> QED BY <2>2, <2>4
<1>2. PICK keep : /\ keep[0] = NoProgress /\ keep[len] = Coalesced(w, s)
                  /\ \A n \in 1..len : keep[n] = Stepped(w, s, n, keep[n - 1])
  BY <1>1, CoalescedByStep
<1>3. mine \subseteq 1..len /\ \A i \in mine : Placed(Place(Evs(w)[i]))
  <2>1. mine \subseteq 1..len
    BY <1>1 DEF KeptOf, Kept
  <2> QED BY <2>1, ProgressEventsPlaced
<1> HIDE DEF mine
<1>4. \A n \in 1..len : keep[n] = IF n \in mine /\ Supersedes(Place(Evs(w)[n]), keep[n - 1])
                                  THEN Place(Evs(w)[n]) ELSE keep[n - 1]
  BY <1>2 DEF Stepped, mine
<1> HIDE DEF len
<1> DEFINE Wrong == {n \in 0..len : \/ ~(keep[n] = NoProgress \/ Placed(keep[n]))
                                    \/ keep[n] = NoProgress /\ \E i \in mine : i <= n}
<1>5. Wrong = {}
  <2> SUFFICES ASSUME Wrong # {} PROVE FALSE
    OBVIOUS
  <2>1. PICK n \in Wrong : \A m \in Wrong : n <= m
    <3>1. Wrong \in SUBSET Nat
      BY <1>1
    <3> HIDE DEF Wrong
    <3> QED BY <3>1, LeastOf
  <2>2. n # 0
    BY <1>2, <1>3, <2>1, <1>1
  <2>3. n \in 1..len /\ n - 1 \in 0..len /\ n - 1 \notin Wrong /\ n \in Nat
    BY <1>1, <2>1, <2>2
  <2>4. keep[n - 1] = NoProgress \/ Placed(keep[n - 1])
    BY <2>3
  <2>5. CASE n \in mine /\ Supersedes(Place(Evs(w)[n]), keep[n - 1])
    <3>1. Placed(keep[n])
      BY <1>3, <1>4, <2>3, <2>5
    <3>2. keep[n] # NoProgress
      BY <3>1, PlacedIsProgress
    <3> QED BY <2>1, <3>1, <3>2
  <2>6. CASE ~(n \in mine /\ Supersedes(Place(Evs(w)[n]), keep[n - 1]))
    <3>1. keep[n] = keep[n - 1]
      BY <1>4, <2>3, <2>6
    <3>2. keep[n] = NoProgress /\ \E i \in mine : i <= n
      BY <2>1, <2>4, <3>1
    <3>3. ~\E i \in mine : i <= n - 1
      BY <2>3, <3>1, <3>2
    <3>4. n \in mine
      BY <1>1, <1>3, <2>3, <3>2, <3>3
    <3>5. Placed(Place(Evs(w)[n])) /\ keep[n - 1] = NoProgress
      BY <1>3, <3>1, <3>2, <3>4
    <3>6. Supersedes(Place(Evs(w)[n]), keep[n - 1])
      BY <3>5 DEF Placed, NoProgress, Supersedes
    <3> QED BY <2>6, <3>4, <3>6
  <2> QED BY <2>5, <2>6
<1>6. len \notin Wrong /\ len \in 0..len
  BY <1>1, <1>5
<1>7. \A i \in mine : i <= len
  BY <1>1, <1>3
<1>8. mine = KeptOf(w, s, {"progress"})
  BY DEF mine
<1> QED BY <1>2, <1>6, <1>7, <1>8

-----------------------------------------------------------------------------
(* Progress.                                                               *)

\* The coalesced row of a scan is none, or a place in a stream.
ProgressTyped == \A s \in Scans : progress[s] = NoProgress \/ Placed(progress[s])

\* What a step does to the progress of one scan: nothing, it removes it, or a newer place of the
\* same execution, or another execution's, replaces it.
Advanced(s) ==
  \/ progress'[s] = progress[s]
  \/ progress'[s] = NoProgress
  \/ Placed(progress'[s]) /\ Supersedes(progress'[s], progress[s])

\* Every step does one of these.
LEMMA StepAdvances ==
  ASSUME Typed, [Next]_vars, NEW s \in Scans
  PROVE  Advanced(s)
<1>0. DOMAIN progress = Scans
  BY DEF Typed, ScansTyped
<1>1. CASE UNCHANGED vars
  BY <1>1 DEF vars, scanVars, Advanced
<1>2. ASSUME NEW w \in Workers, Write(w) PROVE Advanced(s)
  <2>1. progress'[s] = NewProgress(w, s) /\ worker[w].at # "idle"
    BY <1>2 DEF Write
  <2>2. Coalesced(w, s) # NoProgress => Placed(Coalesced(w, s))
    BY <2>1, CoalescedFacts
  <2> QED BY <2>1, <2>2 DEF NewProgress, Advanced
<1>3. ASSUME NEW x \in Scans, Purge(x) \/ Delete(x) PROVE Advanced(s)
  BY <1>0, <1>3 DEF Purge, Delete, Advanced
<1>4. ASSUME NEW x \in Scans, MarkDispatched(x) \/ StopScan(x) PROVE Advanced(s)
  BY <1>4, RowIsWritten DEF RowWritten, Advanced
<1> QED BY <1>1, <1>2, <1>3, <1>4, OthersKeepScans DEF scanVars, Advanced

\* So the row stays none or a place.
LEMMA ProgressStaysTyped ==
  ASSUME Typed, ProgressTyped, [Next]_vars
  PROVE  ProgressTyped'
<1> SUFFICES ASSUME NEW s \in Scans PROVE progress'[s] = NoProgress \/ Placed(progress'[s])
  BY DEF ProgressTyped
<1>1. Advanced(s)
  BY StepAdvances
<1> QED BY <1>1 DEF Advanced, ProgressTyped

\* An older progress event of an execution never replaces a newer one, neither in a batch nor of another
\* call's, whichever of them writes first (supersedes, and the upsert's WHERE, repositories/scans.ts).
THEOREM ProgressOnlyAdvances == Spec => ProgressNeverGoesBack
<1>1. Init => ProgressTyped
  BY DEF Init, ProgressTyped
<1>2. Typed /\ ProgressTyped /\ [Next]_vars => ProgressTyped'
  BY ProgressStaysTyped
<1>3. Typed /\ ProgressTyped /\ [Next]_vars =>
        [\A s \in Scans :
           progress'[s].exec = progress[s].exec => progress'[s].seq >= progress[s].seq]_progress
  <2> SUFFICES ASSUME Typed, ProgressTyped, [Next]_vars, NEW s \in Scans,
                      progress'[s].exec = progress[s].exec
               PROVE  progress'[s].seq >= progress[s].seq
    OBVIOUS
  <2>1. Advanced(s) /\ (progress[s] = NoProgress \/ Placed(progress[s]))
    BY StepAdvances DEF ProgressTyped
  <2>2. progress[s].seq \in Nat
    BY <2>1 DEF Placed, NoProgress
  <2>3. CASE progress'[s] = progress[s]
    BY <2>2, <2>3
  <2>4. CASE progress'[s] = NoProgress
    BY <2>1, <2>4 DEF Placed, NoProgress
  <2>5. CASE Placed(progress'[s]) /\ Supersedes(progress'[s], progress[s])
    <3>1. progress'[s].seq \in Nat
      BY <2>5 DEF Placed
    <3> QED BY <2>2, <2>5, <3>1 DEF Supersedes
  <2> QED BY <2>1, <2>3, <2>4, <2>5 DEF Advanced
<1> QED BY <1>1, <1>2, <1>3, AlwaysTyped, PTL DEF Spec, ProgressNeverGoesBack

-----------------------------------------------------------------------------
(* Events the queue has taken.                                               *)

\* What a call knows when it is at a stage: the scans of its events that it did not find are being
\* deleted, the events that it found stored are settled, and so is all it has written.
CallKnows(w) ==
  /\ worker[w].at = "idle" => worker[w].batch = <<>>
  /\ worker[w].at \in {"ids", "write"} =>
       \A i \in DOMAIN Evs(w) : Evs(w)[i].scan \in worker[w].known \cup deleting
  /\ \A e \in worker[w].stored : Settled(e)
  /\ worker[w].at = "hooks" => \A i \in DOMAIN Evs(w) : Settled(Evs(w)[i])

HeldInv ==
  /\ EventsAreHeld
  /\ \A s \in Scans : Exists(s) \/ s \in deleting
  /\ \A w \in Workers : CallKnows(w)

\* Deletion is asked for before a scan goes, and never given up.
DeletionHolds ==
  /\ deleting \subseteq deleting'
  /\ \A s \in Scans : Exists(s)' \/ s \in deleting'
  /\ \A e \in AllEvents : Settled(e) => Settled(e)'

\* No step gives a deletion up, or undoes what settled an event.
LEMMA ScansHold ==
  ASSUME Typed, HeldInv, [Next]_vars
  PROVE  DeletionHolds
<1>0. /\ progress \in [Scans -> {progress[s] : s \in Scans}]
      /\ status \in [Scans -> {"active", "deleted"} \cup Outcomes]
      /\ \A s \in Scans : Exists(s) \/ s \in deleting
  BY DEF Typed, ScansTyped, HeldInv
<1>1. CASE UNCHANGED scanVars
  BY <1>0, <1>1 DEF scanVars, DeletionHolds, Settled, Exists
<1>2. ASSUME NEW w \in Workers, Write(w) PROVE DeletionHolds
  <2>1. deleting' = deleting /\ rows \subseteq rows'
    BY <1>2 DEF Write
  <2>2. ASSUME NEW s \in Scans, progress[s] # NoProgress PROVE progress'[s] # NoProgress
    <3>1. progress'[s] = NewProgress(w, s)
      BY <1>2 DEF Write
    <3> QED BY <2>2, <3>1 DEF NewProgress
  <2>3. \A e \in AllEvents : Settled(e) => Settled(e)'
    BY <2>1, <2>2, EventsTyped DEF Settled
  <2>4. ASSUME NEW s \in Scans, ~Exists(s)' PROVE ~Exists(s)
    <3>1. s \notin EndedBy(w)
      BY <1>2, <2>4, OutcomeTyped DEF Write, Exists, Outcomes
    <3> QED BY <1>2, <2>4, <3>1 DEF Write, Exists
  <2> QED BY <1>0, <2>1, <2>3, <2>4 DEF DeletionHolds
<1>3. ASSUME NEW s \in Scans, Purge(s) \/ Delete(s) PROVE DeletionHolds
  <2>1. s \in deleting' /\ deleting \subseteq deleting' /\ rows' = {e \in rows : e.scan # s}
    BY <1>3 DEF Purge, Delete
  <2>2. \A x \in Scans : x # s => progress'[x] = progress[x] /\ status'[x] = status[x]
    BY <1>0, <1>3 DEF Purge, Delete
  <2>3. \A e \in AllEvents : Settled(e) => Settled(e)'
    BY <2>1, <2>2, EventsTyped DEF Settled
  <2> QED BY <1>0, <2>1, <2>2, <2>3 DEF DeletionHolds, Exists
<1>4. ASSUME NEW s \in Scans, MarkDispatched(s) \/ StopScan(s) PROVE DeletionHolds
  <2>1. RowWritten(s)
    BY <1>4, RowIsWritten
  <2> QED BY <1>0, <2>1 DEF RowWritten, DeletionHolds, Settled, Exists
<1> QED BY <1>1, <1>2, <1>3, <1>4, OthersKeepScans DEF vars, scanVars

\* The events of a call are those of its messages.
LEMMA SameEvents ==
  ASSUME NEW v, worker'[v].path = worker[v].path, worker'[v].batch = worker[v].batch
  PROVE  Msgs(v)' = Msgs(v) /\ Evs(v)' = Evs(v)
BY DEF Msgs, Evs

\* A call that a step does not touch knows what it knew.
LEMMA KnowsStill ==
  ASSUME Typed, DeletionHolds, NEW v \in Workers, CallKnows(v), worker'[v] = worker[v]
  PROVE  CallKnows(v)'
<1>1. Evs(v)' = Evs(v)
  BY SameEvents
<1>2. worker[v].at # "idle" => \A i \in DOMAIN Evs(v) : Evs(v)[i] \in AllEvents
  BY EvsTyped DEF Typed
<1>3. \A e \in worker[v].stored : e \in AllEvents
  BY DEF Typed, CallsTyped, Calls
<1>4. (worker[v].at = "idle" => worker[v].batch = <<>>)'
  BY DEF CallKnows
<1>5. (worker[v].at \in {"ids", "write"} =>
         \A i \in DOMAIN Evs(v) : Evs(v)[i].scan \in worker[v].known \cup deleting)'
  <2>1. worker[v].at \in {"ids", "write"} =>
          \A i \in DOMAIN Evs(v) : Evs(v)[i].scan \in worker[v].known \cup deleting
    BY DEF CallKnows
  <2>2. deleting \subseteq deleting'
    BY DEF DeletionHolds
  <2> HIDE DEF Evs
  <2> QED BY <1>1, <2>1, <2>2
<1>6. (\A e \in worker[v].stored : Settled(e))'
  BY <1>3 DEF CallKnows, DeletionHolds
<1>7. (worker[v].at = "hooks" => \A i \in DOMAIN Evs(v) : Settled(Evs(v)[i]))'
  <2> SUFFICES ASSUME worker[v].at = "hooks", NEW i \in DOMAIN Evs(v) PROVE Settled(Evs(v)[i])'
    BY <1>1
  <2>1. Evs(v)[i] \in AllEvents /\ Settled(Evs(v)[i])
    BY <1>2 DEF CallKnows
  <2> QED BY <1>1, <2>1 DEF DeletionHolds
<1> QED BY <1>4, <1>5, <1>6, <1>7 DEF CallKnows

\* A call that is new, or over.
LEMMA FreshKnows ==
  ASSUME NEW v, worker'[v].at = "lookup" \/ worker'[v] = Idle, worker'[v].stored = {}
  PROVE  CallKnows(v)'
BY DEF CallKnows, Idle

\* An event of a batch that is written is settled with it: it is inserted, or stored already, or the
\* scan is being deleted, or its progress is what the row has, or is replaced by.
LEMMA WrittenIsSettled ==
  ASSUME Typed, ProgressTyped, HeldInv, DeletionHolds, NEW w \in Workers, Write(w),
         NEW i \in DOMAIN Evs(w), NEW e, e = Evs(w)[i]
  PROVE  Settled(e)'
<1>0. /\ worker[w].at = "write" /\ rows' = rows \cup Inserted(w)
      /\ \A s \in Scans : progress'[s] = NewProgress(w, s)
  BY DEF Write
<1>1. e \in AllEvents /\ e.scan \in Scans
  BY <1>0, EvsTyped DEF Typed
<1>2. DOMAIN Evs(w) \subseteq Nat \ {0} /\ \A n \in DOMAIN Evs(w) : \A j \in 1..n : j \in DOMAIN Evs(w)
  <2>1. Msgs(w) \in Seq(AnyMessage) /\ DOMAIN Evs(w) = DOMAIN Msgs(w)
    BY <1>0, MsgsTyped, EvsTyped DEF Typed
  <2>2. DOMAIN Evs(w) = 1..Len(Msgs(w)) /\ Len(Msgs(w)) \in Nat
    BY <2>1
  <2> QED BY <2>2
<1>3. CASE e.scan \in deleting
  BY <1>3 DEF Settled, DeletionHolds
<1>4. CASE e \in worker[w].stored
  BY <1>1, <1>4 DEF HeldInv, CallKnows, DeletionHolds
<1>5. CASE e.scan \notin deleting /\ e \notin worker[w].stored
  <2>1. e.scan \in worker[w].known /\ Exists(e.scan)
    BY <1>0, <1>1, <1>5 DEF HeldInv, CallKnows
  <2>2. CASE e.kind = "progress"
    <3>1. i \in KeptOf(w, e.scan, {"progress"})
      BY <2>1, <2>2 DEF KeptOf, Kept, HasStableId
    <3>2. Placed(Coalesced(w, e.scan))
      BY <1>0, <3>1, CoalescedFacts
    <3>3. progress[e.scan] = NoProgress \/ Placed(progress[e.scan])
      BY <1>1 DEF ProgressTyped
    <3>4. NewProgress(w, e.scan) # NoProgress
      BY <2>1, <3>2, <3>3, PlacedIsProgress DEF NewProgress, MayInsert, Supersedes, NoProgress, Placed
    <3> QED BY <1>0, <1>1, <2>2, <3>4 DEF Settled
  <2>3. CASE e.kind # "progress"
    <3>1. \E j \in Kept(w) : Evs(w)[j] = e
      <4> DEFINE Same == {j \in DOMAIN Evs(w) : Evs(w)[j] = e}
      <4>1. PICK j \in Same : \A n \in Same : j <= n
        <5>1. Same \in SUBSET Nat /\ Same # {}
          BY <1>2
        <5> HIDE DEF Same
        <5> QED BY <5>1, LeastOf
      <4>2. \A n \in 1..(j - 1) : Evs(w)[n] # e
        <5> SUFFICES ASSUME NEW n \in 1..(j - 1), Evs(w)[n] = e PROVE FALSE
          OBVIOUS
        <5>1. j \in Nat \ {0} /\ n \in DOMAIN Evs(w)
          BY <1>2, <4>1
        <5>2. n \in Same /\ n < j
          BY <5>1
        <5> QED BY <4>1, <5>1, <5>2
      <4>3. j \in DOMAIN Evs(w) /\ Evs(w)[j] = e
        BY <4>1
      <4>4. j \in Kept(w)
        BY <1>5, <2>1, <4>2, <4>3 DEF Kept
      <4> QED BY <4>3, <4>4
    <3>2. e \in Inserted(w)
      BY <2>1, <2>3, <3>1 DEF Inserted, MayInsert
    <3> QED BY <1>0, <3>2 DEF Settled
  <2> QED BY <2>2, <2>3
<1> QED BY <1>3, <1>4, <1>5

\* The event is settled, or some message of it is left.
Held(e) == Settled(e) \/ InMessages(e) \/ InBatch(e)

\* A step that touches one call at most, and after which the events of the queue's messages and of that
\* call's are held, leaves every event held.
LEMMA MessagesHold ==
  ASSUME DeletionHolds, NEW w \in Workers, \A v \in Workers \ {w} : worker'[v] = worker[v],
         \A m \in queue \cup dead : Held(m.event)',
         FromQueue(w) => \A m \in MsgSet(w) : Held(m.event)'
  PROVE  \A e \in AllEvents : Held(e) => Held(e)'
<1> SUFFICES ASSUME NEW e \in AllEvents, Held(e) PROVE Held(e)'
  OBVIOUS
<1>1. CASE Settled(e)
  BY <1>1 DEF Held, DeletionHolds
<1>2. CASE InMessages(e)
  BY <1>2 DEF InMessages
<1>3. CASE InBatch(e)
  <2>1. PICK v \in Workers : FromQueue(v) /\ \E m \in MsgSet(v) : m.event = e
    BY <1>3 DEF InBatch
  <2>2. CASE v = w
    BY <2>1, <2>2
  <2>3. CASE v # w
    <3>1. FromQueue(v)' /\ MsgSet(v)' = MsgSet(v)
      BY <2>1, <2>3 DEF FromQueue, MsgSet
    <3>2. InBatch(e)'
      BY <2>1, <3>1 DEF InBatch
    <3> QED BY <3>2 DEF Held
  <2> QED BY <2>2, <2>3
<1> QED BY <1>1, <1>2, <1>3 DEF Held

\* What stays in the queue or is a dead letter is held.
LEMMA StaysHeld ==
  ASSUME NEW m, m \in queue' \cup dead'
  PROVE  Held(m.event)'
BY DEF Held, InMessages

\* So is what stays with a consumer.
LEMMA InCallHeld ==
  ASSUME NEW w \in Workers, FromQueue(w)', NEW m \in MsgSet(w)'
  PROVE  Held(m.event)'
BY DEF Held, InBatch

\* And what comes back to the queue.
LEMMA RetriedHeld ==
  ASSUME Typed, NEW msgs \in SUBSET AnyMessage, Retried(msgs)
  PROVE  /\ \A m \in msgs : Held(m.event)'
         /\ \A m \in queue \cup dead : Held(m.event)'
<1>1. ASSUME NEW m \in msgs PROVE InMessages(m.event)'
  <2>1. CASE IsLastTry(m)
    BY <2>1 DEF Retried, InMessages
  <2>2. CASE ~IsLastTry(m)
    <3>1. [m EXCEPT !.tries = @ + 1] \in queue' /\ [m EXCEPT !.tries = @ + 1].event = m.event
      BY <2>2 DEF Retried, AnyMessage
    <3> QED BY <3>1 DEF InMessages
  <2> QED BY <2>1, <2>2
<1>2. \A m \in queue \cup dead : m \in queue' \cup dead'
  BY DEF Retried
<1> QED BY <1>1, <1>2, StaysHeld DEF Held

\* A consumer that goes on keeps all but the message it has processed.
LEMMA GoesOnHolds ==
  ASSUME Typed, NEW w \in Workers, worker[w].at # "idle", FromQueue(w), GoesOn(w), NEW m \in MsgSet(w)
  PROVE  (\E i \in DOMAIN Msgs(w) : m = Msgs(w)[i]) \/ Held(m.event)'
<1>1. /\ worker \in [Workers -> Calls]
      /\ worker[w].batch \in Seq(AnyMessage) /\ worker[w].batch # <<>>
  BY DEF Typed, CallsTyped, Calls
<1>2. PICK i \in DOMAIN worker[w].batch : m = worker[w].batch[i]
  BY DEF MsgSet
<1>3. CASE worker[w].path # "single"
  BY <1>2, <1>3 DEF Msgs
<1>4. CASE worker[w].path = "single" /\ i = 1
  <2>1. Msgs(w) = <<Head(worker[w].batch)>> /\ Head(worker[w].batch) = m
    BY <1>1, <1>2, <1>4 DEF Msgs
  <2>2. 1 \in DOMAIN Msgs(w) /\ Msgs(w)[1] = m
    BY <2>1
  <2> QED BY <2>2
<1>5. CASE worker[w].path = "single" /\ i # 1
  <2>1. i - 1 \in DOMAIN Rest(w) /\ Rest(w)[i - 1] = m
    BY <1>1, <1>2, <1>5 DEF Rest
  <2>2. Rest(w) # <<>>
    BY <2>1
  <2>3. worker'[w].batch = Rest(w) /\ worker'[w].path = "single"
    BY <1>1, <1>5, <2>2 DEF GoesOn, Idle
  <2>4. FromQueue(w)' /\ m \in MsgSet(w)'
    BY <2>1, <2>3 DEF FromQueue, MsgSet
  <2> QED BY <2>4, InCallHeld
<1> QED BY <1>3, <1>4, <1>5

\* What HeldInv needs of a step.
LEMMA HeldByParts ==
  ASSUME Typed, HeldInv, DeletionHolds, taken \subseteq AllEvents, NEW w \in Workers,
         \A v \in Workers \ {w} : worker'[v] = worker[v], CallKnows(w)',
         \A m \in queue \cup dead : Held(m.event)',
         FromQueue(w) => \A m \in MsgSet(w) : Held(m.event)',
         \A e \in taken' \ taken : Held(e)'
  PROVE  HeldInv'
<1>1. EventsAreHeld'
  <2>1. \A e \in AllEvents : Held(e) => Held(e)'
    BY MessagesHold
  <2> QED BY <2>1 DEF HeldInv, EventsAreHeld, Held
<1>2. \A v \in Workers : CallKnows(v)'
  BY KnowsStill DEF HeldInv
<1>3. (\A s \in Scans : Exists(s) \/ s \in deleting)'
  BY DEF DeletionHolds
<1> QED BY <1>1, <1>2, <1>3 DEF HeldInv

\* The steps that leave calls alone.
LEMMA NoCallHolds ==
  ASSUME Typed, HeldInv, DeletionHolds, taken \subseteq AllEvents,
         \/ \E e \in Events : Send(e) \/ Replay(e)
         \/ \E s \in Scans : MarkDispatched(s) \/ StopScan(s)
         \/ \E s \in Scans : Purge(s) \/ Delete(s)
         \/ UNCHANGED vars
  PROVE  HeldInv'
<1>1. worker' = worker
  BY RowIsWritten DEF RowWritten, Send, Replay, Purge, Delete, vars
<1>2. queue \subseteq queue' /\ dead = dead'
  BY RowIsWritten DEF RowWritten, Send, Replay, Purge, Delete, vars, Enqueue, queueVars
<1>3. \A e \in AllEvents : Held(e) => Held(e)'
  BY <1>1, <1>2 DEF Held, InMessages, InBatch, FromQueue, MsgSet, DeletionHolds
<1>4. \A e \in taken' \ taken : Held(e)'
  <2> SUFFICES ASSUME NEW e \in taken' \ taken PROVE Held(e)'
    OBVIOUS
  <2>1. Send(e)
    BY RowIsWritten DEF RowWritten, Send, Replay, Purge, Delete, vars, sendVars
  <2>2. InQueue(e) \in queue' /\ InQueue(e).event = e
    BY <2>1 DEF Send, Enqueue, InQueue
  <2> QED BY <2>2, StaysHeld
<1>5. \A v \in Workers : CallKnows(v)'
  BY <1>1, KnowsStill DEF HeldInv
<1>6. EventsAreHeld'
  BY <1>3, <1>4 DEF HeldInv, EventsAreHeld, Held
<1> QED BY <1>5, <1>6 DEF HeldInv, DeletionHolds

\* The steps that start a call: an idle worker has no messages to lose.
LEMMA StartHolds ==
  ASSUME Typed, HeldInv, DeletionHolds, taken \subseteq AllEvents, NEW w \in Workers,
         NEW path \in Paths, NEW msgs, Starts(w, path, msgs, "lookup"), taken' = taken,
         dead' = dead, \A m \in queue : m \in queue' \/ (FromQueue(w)' /\ m \in MsgSet(w)')
  PROVE  HeldInv'
<1>1. worker \in [Workers -> Calls]
  BY DEF Typed, CallsTyped
<1>2. MsgSet(w) = {}
  BY DEF Starts, HeldInv, CallKnows, MsgSet
<1>3. /\ \A v \in Workers \ {w} : worker'[v] = worker[v]
      /\ worker'[w].at = "lookup" /\ worker'[w].stored = {}
  BY <1>1 DEF Starts, Idle
<1>4. CallKnows(w)'
  BY <1>3, FreshKnows
<1>5. \A m \in queue \cup dead : Held(m.event)'
  BY StaysHeld, InCallHeld
<1> QED BY <1>2, <1>3, <1>4, <1>5, HeldByParts

\* The coordinator's own call, the watchdog's, and the consumer's: the queue's messages go with it.
LEMMA StartsHold ==
  ASSUME Typed, HeldInv, DeletionHolds, taken \subseteq AllEvents, NEW w \in Workers,
         \/ \E e \in Events : SendFails(w, e)
         \/ \E s \in Scans : WatchdogEnds(w, s)
         \/ Take(w)
  PROVE  HeldInv'
<1>1. ASSUME NEW e \in Events, SendFails(w, e) PROVE HeldInv'
  BY <1>1, StartHolds DEF SendFails, Paths, Enqueue
<1>2. ASSUME NEW s \in Scans, WatchdogEnds(w, s) PROVE HeldInv'
  BY <1>2, StartHolds DEF WatchdogEnds, Paths, queueVars, sendVars
<1>3. CASE Take(w)
  <2>1. PICK n \in 1..BatchSize : \E batch \in [1..n -> queue] :
           Starts(w, "batch", batch, "lookup") /\ queue' = queue \ {batch[i] : i \in 1..n}
    BY <1>3 DEF Take
  <2>2. PICK batch \in [1..n -> queue] :
           Starts(w, "batch", batch, "lookup") /\ queue' = queue \ {batch[i] : i \in 1..n}
    BY <2>1
  <2>3. MsgSet(w)' = {batch[i] : i \in 1..n}
    BY <2>2, StartsMsgs
  <2>4. worker'[w].path = "batch"
    BY <2>2 DEF Starts, Idle, Typed, CallsTyped
  <2>5. taken' = taken /\ dead' = dead
    BY <1>3 DEF Take, sendVars
  <2> QED BY <2>2, <2>3, <2>4, <2>5, StartHolds DEF FromQueue, Paths
<1> QED BY <1>1, <1>2, <1>3

\* The steps of a call up to its write, and the write: it keeps its messages.
LEMMA CallHolds ==
  ASSUME Typed, HeldInv, DeletionHolds, taken \subseteq AllEvents, NEW w \in Workers, NEW call,
         worker' = [worker EXCEPT ![w] = call], call.path = worker[w].path,
         call.batch = worker[w].batch, CallKnows(w)', UNCHANGED <<taken, queue, dead>>
  PROVE  HeldInv'
<1>1. worker'[w] = call /\ \A v \in Workers \ {w} : worker'[v] = worker[v]
  BY DEF Typed, CallsTyped
<1>2. FromQueue(w)' = FromQueue(w) /\ MsgSet(w)' = MsgSet(w)
  BY <1>1 DEF FromQueue, MsgSet
<1>3. \A m \in queue \cup dead : Held(m.event)'
  BY StaysHeld
<1>4. FromQueue(w) => \A m \in MsgSet(w) : Held(m.event)'
  BY <1>2, InCallHeld
<1> QED BY <1>1, <1>3, <1>4, HeldByParts

\* The two reads: a scan that is not found is being deleted, and what is found stored is settled.
LEMMA ReadsHold ==
  ASSUME Typed, HeldInv, DeletionHolds, taken \subseteq AllEvents, NEW w \in Workers,
         Lookup(w) \/ ReadIds(w)
  PROVE  HeldInv'
<1>0. worker[w] \in Calls /\ worker[w].at # "idle" /\ UNCHANGED <<taken, queue, dead>>
  BY DEF Lookup, ReadIds, Typed, CallsTyped, sendVars, queueVars
<1>1. \A i \in DOMAIN Evs(w) : Evs(w)[i] \in AllEvents /\ Evs(w)[i].scan \in Scans
  BY <1>0, EvsTyped DEF Typed
<1>2. DOMAIN Evs(w) = DOMAIN Msgs(w)
  BY DEF Evs
<1>3. CASE Lookup(w)
  <2> DEFINE known == {s \in {Evs(w)[i].scan : i \in DOMAIN Msgs(w)} : Exists(s)}
             call == [worker[w] EXCEPT !.at = "ids", !.known = known]
  <2>1. worker' = [worker EXCEPT ![w] = call]
    BY <1>3 DEF Lookup
  <2>2. /\ call.path = worker[w].path /\ call.batch = worker[w].batch /\ call.at = "ids"
        /\ call.stored = worker[w].stored /\ call.known = known
    BY <1>0 DEF Calls
  <2>3. worker'[w] = call
    BY <2>1 DEF Typed, CallsTyped
  <2>4. \A i \in DOMAIN Evs(w) : Evs(w)[i].scan \in known \cup deleting
    BY <1>1, <1>2 DEF HeldInv
  <2> HIDE DEF call, known
  <2>5. Evs(w)' = Evs(w)
    BY <2>2, <2>3, SameEvents
  <2>6. deleting' = deleting
    BY <1>3 DEF Lookup, scanVars
  <2>7. \A e \in worker'[w].stored : Settled(e)'
    <3>1. worker[w].stored \subseteq AllEvents /\ \A e \in worker[w].stored : Settled(e)
      BY <1>0 DEF Calls, HeldInv, CallKnows
    <3> QED BY <2>2, <2>3, <3>1 DEF DeletionHolds
  <2>8. (\A i \in DOMAIN Evs(w) : Evs(w)[i].scan \in worker[w].known \cup deleting)'
    BY <2>2, <2>3, <2>4, <2>5, <2>6
  <2>9. CallKnows(w)'
    BY <2>2, <2>3, <2>7, <2>8 DEF CallKnows
  <2> QED BY <1>0, <2>1, <2>2, <2>9, CallHolds
<1>4. CASE ReadIds(w)
  <2> DEFINE stored == rows \cap {Evs(w)[i] : i \in DOMAIN Msgs(w)}
             call == [worker[w] EXCEPT !.at = "write", !.stored = stored]
  <2>1. worker' = [worker EXCEPT ![w] = call]
    BY <1>4 DEF ReadIds
  <2>2. /\ call.path = worker[w].path /\ call.batch = worker[w].batch /\ call.at = "write"
        /\ call.stored = stored /\ call.known = worker[w].known
    BY <1>0 DEF Calls
  <2>3. worker'[w] = call
    BY <2>1 DEF Typed, CallsTyped
  <2>4. \A i \in DOMAIN Evs(w) : Evs(w)[i].scan \in worker[w].known \cup deleting
    BY <1>4 DEF HeldInv, CallKnows, ReadIds
  <2>5. rows' = rows /\ deleting' = deleting
    BY <1>4 DEF ReadIds, scanVars
  <2>6. \A e \in stored : Settled(e)'
    BY <2>5 DEF Settled
  <2> HIDE DEF call, stored
  <2>7. Evs(w)' = Evs(w)
    BY <2>2, <2>3, SameEvents
  <2>8. (\A i \in DOMAIN Evs(w) : Evs(w)[i].scan \in worker[w].known \cup deleting)'
    BY <2>2, <2>3, <2>4, <2>5, <2>7
  <2>9. CallKnows(w)'
    BY <2>2, <2>3, <2>6, <2>8 DEF CallKnows
  <2> QED BY <1>0, <2>1, <2>2, <2>9, CallHolds
<1> QED BY <1>3, <1>4

\* The batch of statements settles every event of the call.
LEMMA WriteHolds ==
  ASSUME Typed, ProgressTyped, HeldInv, DeletionHolds, taken \subseteq AllEvents, NEW w \in Workers,
         Write(w)
  PROVE  HeldInv'
<1> DEFINE call == [worker[w] EXCEPT !.at = "hooks", !.known = {}, !.stored = {},
                      !.ended = {<<s, Outcome(w, s)>> : s \in EndedBy(w)}]
<1>1. worker' = [worker EXCEPT ![w] = call] /\ UNCHANGED <<taken, queue, dead>>
  BY DEF Write, sendVars, queueVars
<1>2. worker[w] \in Calls
  BY DEF Typed, CallsTyped
<1>3. /\ call.path = worker[w].path /\ call.batch = worker[w].batch /\ call.at = "hooks"
      /\ call.stored = {}
  BY <1>2 DEF Calls
<1>4. worker'[w] = call
  BY <1>1 DEF Typed, CallsTyped
<1> HIDE DEF call
<1>5. Evs(w)' = Evs(w)
  BY <1>3, <1>4, SameEvents
<1>6. (\A i \in DOMAIN Evs(w) : Settled(Evs(w)[i]))'
  <2> SUFFICES ASSUME NEW i \in DOMAIN Evs(w) PROVE Settled(Evs(w)[i])'
    BY <1>5
  <2>1. \A e : e = Evs(w)[i] => Settled(e)'
    BY WrittenIsSettled
  <2> QED BY <1>5, <2>1
<1>7. CallKnows(w)'
  BY <1>3, <1>4, <1>6 DEF CallKnows
<1> QED BY <1>1, <1>3, <1>7, CallHolds

\* After a call is over, or goes on to its next message, it knows nothing.
LEMMA OverKnows ==
  ASSUME Typed, NEW w \in Workers, NEW call, worker' = [worker EXCEPT ![w] = call],
         call = Idle \/ call.at = "lookup", call.stored = {}
  PROVE  CallKnows(w)' /\ \A v \in Workers \ {w} : worker'[v] = worker[v]
<1>1. worker'[w] = call /\ \A v \in Workers \ {w} : worker'[v] = worker[v]
  BY DEF Typed, CallsTyped
<1> QED BY <1>1, FreshKnows

\* The consumer's next message is looked up anew.
LEMMA GoesOnKnows ==
  ASSUME Typed, NEW w \in Workers, GoesOn(w)
  PROVE  CallKnows(w)' /\ \A v \in Workers \ {w} : worker'[v] = worker[v]
<1>1. CASE worker[w].path = "single" /\ Rest(w) # <<>>
  <2> DEFINE call == [Idle EXCEPT !.at = "lookup", !.path = "single", !.batch = Rest(w)]
  <2>1. worker' = [worker EXCEPT ![w] = call] /\ call.at = "lookup" /\ call.stored = {}
    BY <1>1 DEF GoesOn, Idle
  <2> QED BY <2>1, OverKnows
<1>2. CASE ~(worker[w].path = "single" /\ Rest(w) # <<>>)
  <2>1. worker' = [worker EXCEPT ![w] = Idle] /\ Idle.stored = {}
    BY <1>2 DEF GoesOn, Idle
  <2> QED BY <2>1, OverKnows
<1> QED BY <1>1, <1>2

\* What a call has written is settled: its messages need not be kept.
LEMMA FinishHolds ==
  ASSUME Typed, HeldInv, DeletionHolds, taken \subseteq AllEvents, NEW w \in Workers, Finish(w)
  PROVE  HeldInv'
<1>1. /\ worker[w].at = "hooks" /\ worker[w].at # "idle" /\ GoesOn(w) /\ UNCHANGED <<queue, dead>>
      /\ taken' = IF worker[w].path = "direct" THEN taken \cup {Msgs(w)[1].event} ELSE taken
  BY DEF Finish, queueVars
<1>2. ASSUME NEW i \in DOMAIN Msgs(w), NEW e, e = Msgs(w)[i].event PROVE Settled(e)'
  <2>1. i \in DOMAIN Evs(w) /\ Evs(w)[i] = e
    BY <1>2 DEF Evs
  <2>2. e \in AllEvents
    BY <1>1, <2>1, EvsTyped DEF Typed
  <2>3. Settled(e)
    BY <1>1, <2>1 DEF HeldInv, CallKnows
  <2> QED BY <2>2, <2>3 DEF DeletionHolds
<1>3. ASSUME FromQueue(w), NEW m \in MsgSet(w) PROVE Held(m.event)'
  <2>1. CASE \E i \in DOMAIN Msgs(w) : m = Msgs(w)[i]
    BY <1>2, <2>1 DEF Held
  <2> QED BY <1>1, <1>3, <2>1, GoesOnHolds
<1>4. \A m \in queue \cup dead : Held(m.event)'
  BY <1>1, StaysHeld
<1>5. ASSUME NEW e \in taken' \ taken PROVE Held(e)'
  <2>1. worker[w].path = "direct" /\ e = Msgs(w)[1].event
    BY <1>1, <1>5
  <2>2. Msgs(w) # <<>> /\ Msgs(w) \in Seq(AnyMessage)
    BY <1>1, MsgsTyped DEF Typed
  <2>3. 1 \in DOMAIN Msgs(w)
    BY <2>2
  <2> QED BY <1>2, <2>1, <2>3 DEF Held
<1>6. CallKnows(w)' /\ \A v \in Workers \ {w} : worker'[v] = worker[v]
  BY <1>1, GoesOnKnows
<1> QED BY <1>3, <1>4, <1>5, <1>6, HeldByParts

\* A call that fails or is cut short gives its messages back to the queue, or keeps them.
LEMMA BatchFailsHolds ==
  ASSUME Typed, HeldInv, DeletionHolds, taken \subseteq AllEvents, NEW w \in Workers, BatchFails(w)
  PROVE  HeldInv'
<1> DEFINE call == [Idle EXCEPT !.at = "lookup", !.path = "single", !.batch = worker[w].batch]
<1>1. /\ worker' = [worker EXCEPT ![w] = call] /\ call.at = "lookup" /\ call.stored = {}
      /\ call.path = "single" /\ call.batch = worker[w].batch
      /\ UNCHANGED <<taken, queue, dead>>
  BY DEF BatchFails, Idle, sendVars, queueVars
<1>2. worker'[w] = call
  BY <1>1 DEF Typed, CallsTyped
<1> HIDE DEF call
<1>3. CallKnows(w)' /\ \A v \in Workers \ {w} : worker'[v] = worker[v]
  BY <1>1, OverKnows
<1>4. FromQueue(w)' /\ MsgSet(w)' = MsgSet(w)
  BY <1>1, <1>2 DEF FromQueue, MsgSet
<1>5. \A m \in MsgSet(w) : Held(m.event)'
  BY <1>4, InCallHeld
<1>6. \A m \in queue \cup dead : Held(m.event)'
  BY <1>1, StaysHeld
<1> QED BY <1>1, <1>3, <1>5, <1>6, HeldByParts

\* A message that fails alone comes back to the queue, or becomes a dead letter.
LEMMA MessageFailsHolds ==
  ASSUME Typed, HeldInv, DeletionHolds, taken \subseteq AllEvents, NEW w \in Workers, MessageFails(w)
  PROVE  HeldInv'
<1> DEFINE msgs == {Msgs(w)[i] : i \in DOMAIN Msgs(w)}
<1>1. worker[w].at # "idle" /\ GoesOn(w) /\ taken' = taken
  BY DEF MessageFails, Fails, InCall, sendVars
<1>2. msgs \in SUBSET AnyMessage
  BY <1>1, MsgsTyped DEF Typed
<1>3. CallKnows(w)' /\ \A v \in Workers \ {w} : worker'[v] = worker[v]
  BY <1>1, GoesOnKnows
<1>4. CASE FromQueue(w)
  <2>1. Retried(msgs)
    BY <1>4 DEF MessageFails
  <2>2. /\ \A m \in msgs : Held(m.event)'
        /\ \A m \in queue \cup dead : Held(m.event)'
    BY <1>2, <2>1, RetriedHeld
  <2>3. \A m \in MsgSet(w) : Held(m.event)'
    BY <1>1, <1>4, <2>2, GoesOnHolds
  <2> QED BY <1>1, <1>3, <2>2, <2>3, HeldByParts
<1>5. CASE ~FromQueue(w)
  <2>1. \A m \in queue \cup dead : Held(m.event)'
    BY <1>5, StaysHeld DEF MessageFails, queueVars
  <2> QED BY <1>1, <1>3, <1>5, <2>1, HeldByParts
<1> QED BY <1>4, <1>5

\* So do all messages of a call that is deferred or cut short.
LEMMA CutShortHolds ==
  ASSUME Typed, HeldInv, DeletionHolds, taken \subseteq AllEvents, NEW w \in Workers,
         BatchDeferred(w) \/ Crash(w)
  PROVE  HeldInv'
<1>1. worker' = [worker EXCEPT ![w] = Idle] /\ Idle.stored = {} /\ taken' = taken
  BY DEF BatchDeferred, Crash, Idle, sendVars
<1>2. CallKnows(w)' /\ \A v \in Workers \ {w} : worker'[v] = worker[v]
  BY <1>1, OverKnows
<1>3. MsgSet(w) \in SUBSET AnyMessage
  BY MsgSetTyped DEF Typed
<1>4. CASE Retried(MsgSet(w))
  BY <1>1, <1>2, <1>3, <1>4, RetriedHeld, HeldByParts
<1>5. CASE ~FromQueue(w) /\ UNCHANGED queueVars
  <2>1. \A m \in queue \cup dead : Held(m.event)'
    BY <1>5, StaysHeld DEF queueVars
  <2> QED BY <1>1, <1>2, <1>5, <2>1, HeldByParts
<1> QED BY <1>4, <1>5 DEF BatchDeferred, Crash

\* Every step keeps the invariant.
LEMMA StepHolds ==
  ASSUME Typed, ProgressTyped, HeldInv, taken \subseteq AllEvents, [Next]_vars
  PROVE  HeldInv'
<1>1. DeletionHolds
  BY ScansHold
<1>2. CASE UNCHANGED vars
  BY <1>1, <1>2, NoCallHolds
<1>3. ASSUME NEW e \in Events, Send(e) \/ Replay(e) PROVE HeldInv'
  BY <1>1, <1>3, NoCallHolds
<1>4. ASSUME NEW s \in Scans, Purge(s) \/ Delete(s) PROVE HeldInv'
  BY <1>1, <1>4, NoCallHolds
<1>13. ASSUME NEW s \in Scans, MarkDispatched(s) \/ StopScan(s) PROVE HeldInv'
  BY <1>1, <1>13, NoCallHolds
<1>5. ASSUME NEW w \in Workers,
             \/ \E e \in Events : SendFails(w, e)
             \/ \E s \in Scans : WatchdogEnds(w, s)
             \/ Take(w)
      PROVE  HeldInv'
  BY <1>1, <1>5, StartsHold
<1>6. ASSUME NEW w \in Workers, Lookup(w) \/ ReadIds(w) PROVE HeldInv'
  BY <1>1, <1>6, ReadsHold
<1>7. ASSUME NEW w \in Workers, Write(w) PROVE HeldInv'
  BY <1>1, <1>7, WriteHolds
<1>8. ASSUME NEW w \in Workers, Finish(w) PROVE HeldInv'
  BY <1>1, <1>8, FinishHolds
<1>9. ASSUME NEW w \in Workers, BatchFails(w) PROVE HeldInv'
  BY <1>1, <1>9, BatchFailsHolds
<1>10. ASSUME NEW w \in Workers, MessageFails(w) PROVE HeldInv'
  BY <1>1, <1>10, MessageFailsHolds
<1>11. ASSUME NEW w \in Workers, BatchDeferred(w) \/ Crash(w) PROVE HeldInv'
  BY <1>1, <1>11, CutShortHolds
<1>12. CASE Next
  BY <1>12, <1>3, <1>4, <1>13, <1>5, <1>6, <1>7, <1>8, <1>9, <1>10, <1>11, Steps
<1> QED BY <1>2, <1>12

\* The events whose persist promise was kept are events.
LEMMA TakenTyped ==
  ASSUME Typed, pending \cup taken \subseteq AllEvents, [Next]_vars
  PROVE  (pending \cup taken \subseteq AllEvents)'
<1>1. ASSUME NEW w \in Workers, worker[w].at # "idle" PROVE Msgs(w)[1].event \in AllEvents
  <2>1. Msgs(w) \in Seq(AnyMessage) /\ Msgs(w) # <<>>
    BY <1>1, MsgsTyped DEF Typed
  <2>2. Msgs(w)[1] \in AnyMessage
    BY <2>1
  <2> QED BY <2>2 DEF AnyMessage
<1>2. Events \subseteq AllEvents
  BY DEF AllEvents
<1>3. CASE UNCHANGED vars
  BY <1>3 DEF vars, sendVars
<1>4. CASE Next
  BY <1>1, <1>2, <1>4, Steps, RowIsWritten DEF RowWritten, Send, Replay, SendFails, WatchdogEnds, Take,
     Lookup, ReadIds, Write, Finish, BatchFails, BatchDeferred, MessageFails, Crash, Purge, Delete, sendVars
<1> QED BY <1>3, <1>4

\* An event whose persist promise was kept is settled, or a message of it is left in the queue, with a
\* consumer or as a dead letter, whichever calls, retries, crashes and deletions come in between.
THEOREM TakenIsHeld == Spec => []EventsAreHeld
<1>1. Init => ProgressTyped /\ HeldInv /\ pending \cup taken \subseteq AllEvents
  <2> SUFFICES ASSUME Init PROVE ProgressTyped /\ HeldInv /\ pending \cup taken \subseteq AllEvents
    OBVIOUS
  <2>1. EventsAreHeld /\ \A s \in Scans : Exists(s)
    BY DEF Init, EventsAreHeld, Exists
  <2>2. \A w \in Workers : CallKnows(w)
    BY DEF Init, CallKnows, Idle
  <2>3. ProgressTyped /\ pending \cup taken \subseteq AllEvents
    BY DEF Init, ProgressTyped, AllEvents
  <2> QED BY <2>1, <2>2, <2>3 DEF HeldInv
<1>2. Typed /\ ProgressTyped /\ HeldInv /\ pending \cup taken \subseteq AllEvents /\ [Next]_vars
        => (ProgressTyped /\ HeldInv /\ pending \cup taken \subseteq AllEvents)'
  BY StepHolds, ProgressStaysTyped, TakenTyped
<1>3. HeldInv => EventsAreHeld
  BY DEF HeldInv
<1> QED BY <1>1, <1>2, <1>3, AlwaysTyped, PTL DEF Spec

=============================================================================
