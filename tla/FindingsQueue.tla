---------------------------- MODULE FindingsQueue ----------------------------
(***************************************************************************)
(* From the coordinator to the database: the events it sends to the        *)
(* findings queue, the queue's consumers (index.ts, queue) and             *)
(* processFindingsQueueMessages (repositories/scans.ts), which the         *)
(* coordinator's fallback and the stalled scan watchdog call as well;      *)
(* the deletion of scans (repositories/scanDeletion.ts), their stop, and   *)
(* the late status write of their dispatch meanwhile.                      *)
(*                                                                         *)
(* A call of processFindingsQueueMessages awaits D1 three times: the scans *)
(* of its events, which events are stored already, and one atomic batch of *)
(* statements. Each is a step, and anything may happen between them.       *)
(***************************************************************************)
EXTENDS Integers, Sequences, FiniteSets

CONSTANTS
  Scans,
  Events,       \* the sequenced events that the agents send
  Bad,          \* events with a statement that D1 rejects
  MaxEvents,    \* bound: how many of them are sent in a behaviour
  Workers,      \* processes that each run one call at a time
  BatchSize,    \* max_batch_size
  MaxRetries,   \* max_retries
  MaxMarks,     \* bound: 'dispatched' writes that come after a scan has ended
  MaxIncidents, \* bound: incidents in a behaviour
  Incidents     \* the kinds that occur: faults, a scan gone silent, stopped or deleted

Kinds == {"result", "progress", "checkpoint", "complete", "error"}
Event == [scan: Scans, kind: Kinds, exec: Nat, seq: Nat]

ASSUME FindingsQueueAssumption ==
  /\ Events \subseteq Event /\ \A e \in Events : e.exec > 0 /\ e.seq > 0
  /\ Bad \subseteq Events /\ \A e \in Bad : e.kind # "progress"
  /\ MaxEvents \in Nat /\ BatchSize \in Nat \ {0}
  /\ MaxRetries \in Nat /\ MaxIncidents \in Nat /\ MaxMarks \in Nat

\* The watchdog's error event has no place in a stream, and a random id when it is stored.
WatchdogEvent(s) == [scan |-> s, kind |-> "error", exec |-> 0, seq |-> 0]
AllEvents == Events \cup {WatchdogEvent(s) : s \in Scans}
Message == [event: AllEvents, copy: 0..(MaxIncidents + 1), tries: 1..(MaxRetries + 1)]

NoProgress == [exec |-> 0, seq |-> 0]
Place(e) == [exec |-> e.exec, seq |-> e.seq]
Outcomes == {"completed", "failed"}
Idle == [at |-> "idle", path |-> "batch", batch |-> <<>>, known |-> {}, stored |-> {}, ended |-> {}]

VARIABLES
  pending,    \* events the coordinator has received and not yet persisted
  copies,     \* [Events -> Nat]: how often each was put into the queue
  taken,      \* events whose persist promise was kept, by the queue or by D1
  queue,      \* messages the queue holds
  dead,       \* messages in the dead-letter queue
  worker,     \* [Workers -> ...]: the calls under way
  status,     \* [Scans -> ...]: scans.status; "deleted" when the row is gone
  revived,    \* [Scans -> Nat]: 'dispatched' writes that made the ended scan active again
  rows,       \* scan_events, and the findings inserted with them
  progress,   \* [Scans -> ...]: _exec and _seq of the coalesced progress row
  checkpoint, \* [Scans -> ...]: the event last_checkpoint comes from
  deleting,   \* scans that are asked to be deleted
  hooks,      \* [Scans -> Seq(Outcomes)]: webhooks fired
  incidents   \* so far

sendVars == <<pending, copies, taken>>
queueVars == <<queue, dead>>
scanVars == <<status, revived, rows, progress, checkpoint, deleting>>
vars == <<sendVars, queueVars, worker, scanVars, hooks, incidents>>

Init ==
  /\ pending \in {sent \in SUBSET Events : Cardinality(sent) <= MaxEvents}
  /\ copies = [e \in Events |-> 0] /\ taken = {}
  /\ queue = {} /\ dead = {}
  /\ worker = [w \in Workers |-> Idle]
  /\ status = [s \in Scans |-> "active"] /\ rows = {} /\ deleting = {}
  /\ revived = [s \in Scans |-> 0]
  /\ progress = [s \in Scans |-> NoProgress] /\ checkpoint = [s \in Scans |-> NoProgress]
  /\ hooks = [s \in Scans |-> <<>>]
  /\ incidents = 0

Incident(kind) == kind \in Incidents /\ incidents < MaxIncidents /\ incidents' = incidents + 1

Exists(s) == status[s] # "deleted"

----------------------------------------------------------------------------
(* The coordinator.                                                        *)

InQueue(e) == [event |-> e, copy |-> copies[e] + 1, tries |-> 1]
Enqueue(e) == queue' = queue \cup {InQueue(e)} /\ copies' = [copies EXCEPT ![e] = @ + 1]

Starts(w, path, msgs, place) ==
  /\ worker[w].at = "idle"
  /\ worker' = [worker EXCEPT ![w] = [Idle EXCEPT !.at = place, !.path = path, !.batch = msgs]]

\* FINDINGS_QUEUE.send(body). Sends are promises that do not wait for one another.
Send(e) ==
  /\ e \in pending
  /\ Enqueue(e)
  /\ pending' = pending \ {e} /\ taken' = taken \cup {e}
  /\ UNCHANGED <<dead, worker, scanVars, hooks, incidents>>

\* The send fails, or only its answer does, and the event is written straight to D1.
SendFails(w, e) ==
  /\ e \in pending /\ Incident("sendFails")
  /\ Starts(w, "direct", <<[event |-> e, copy |-> 0, tries |-> 1]>>, "lookup")
  /\ pending' = pending \ {e}
  /\ Enqueue(e) \/ UNCHANGED <<queue, copies>>
  /\ UNCHANGED <<taken, dead, scanVars, hooks>>

\* An event comes again: the agent replays it after a restart of the coordinator, or the queue
\* delivers a message twice.
Replay(e) ==
  /\ e \in taken \ pending /\ Incident("replay")
  /\ pending' = pending \cup {e}
  /\ UNCHANGED <<copies, taken, queueVars, worker, scanVars, hooks>>

\* endScan: the watchdog fails an active scan that has gone silent. It asked for the status first.
WatchdogEnds(w, s) ==
  /\ status[s] = "active" /\ Incident("stall")
  /\ Starts(w, "watchdog", <<[event |-> WatchdogEvent(s), copy |-> 0, tries |-> 1]>>, "lookup")
  /\ UNCHANGED <<sendVars, queueVars, scanVars, hooks>>

----------------------------------------------------------------------------
(* A call of processFindingsQueueMessages, and the queue's consumer.       *)

\* The consumer's calls are for the whole batch, or, once that failed, for one message at a time.
Msgs(w) == IF worker[w].path = "single" THEN <<Head(worker[w].batch)>> ELSE worker[w].batch
Evs(w) == [i \in DOMAIN Msgs(w) |-> Msgs(w)[i].event]
FromQueue(w) == worker[w].path \in {"batch", "single"}

\* storedEventId: progress is coalesced, and unsequenced events have no stable id.
HasStableId(e) == e.seq > 0 /\ e.kind # "progress"

\* The consumer is given a batch, in any order: the queue keeps none.
Take(w) ==
  /\ \E n \in 1..BatchSize : \E batch \in [1..n -> queue] :
       /\ \A i, j \in 1..n : batch[i] = batch[j] => i = j
       /\ Starts(w, "batch", batch, "lookup")
       /\ queue' = queue \ {batch[i] : i \in 1..n}
  /\ UNCHANGED <<sendVars, dead, scanVars, hooks, incidents>>

\* SELECT ... FROM scans
Lookup(w) ==
  /\ worker[w].at = "lookup"
  /\ worker' = [worker EXCEPT ![w] = [@ EXCEPT !.at = "ids",
                  !.known = {s \in {Evs(w)[i].scan : i \in DOMAIN Msgs(w)} : Exists(s)}]]
  /\ UNCHANGED <<sendVars, queueVars, scanVars, hooks, incidents>>

\* SELECT id FROM scan_events
ReadIds(w) ==
  /\ worker[w].at = "ids"
  /\ worker' = [worker EXCEPT ![w] = [@ EXCEPT !.at = "write",
                  !.stored = rows \cap {Evs(w)[i] : i \in DOMAIN Msgs(w)}]]
  /\ UNCHANGED <<sendVars, queueVars, scanVars, hooks, incidents>>

\* The indices of the events that are processed: those stored already, repeated in the batch, or of a
\* missing scan are not.
Kept_OnePerScan(w) ==
  LET evs == Evs(w) IN
  {i \in DOMAIN evs :
     /\ evs[i].scan \in worker[w].known
     /\ HasStableId(evs[i]) =>
          /\ evs[i] \notin worker[w].stored
          /\ \A j \in 1..(i - 1) : evs[j].scan # evs[i].scan}
Kept(w) ==
  LET evs == Evs(w) IN
  {i \in DOMAIN evs :
     /\ evs[i].scan \in worker[w].known
     /\ HasStableId(evs[i]) =>
          evs[i] \notin worker[w].stored /\ \A j \in 1..(i - 1) : evs[j] # evs[i]}

KeptOf(w, s, kinds) == {i \in Kept(w) : Evs(w)[i].scan = s /\ Evs(w)[i].kind \in kinds}

\* supersedes, and the upsert's WHERE clause: another execution always replaces.
Supersedes_Always(next, kept) == TRUE
Supersedes(next, kept) == next.exec # kept.exec \/ next.seq > kept.seq

\* The one progress statement of the batch for a scan.
Coalesced(w, s) ==
  LET evs == Evs(w)
      keep[n \in 0..Len(evs)] ==
        IF n = 0 THEN NoProgress
        ELSE IF n \in KeptOf(w, s, {"progress"}) /\ Supersedes(Place(evs[n]), keep[n - 1])
             THEN Place(evs[n]) ELSE keep[n - 1]
  IN  keep[Len(evs)]

\* ACTIVE_STATUS_SQL: a terminal update applies to a scan that has not ended.
IsActive_Always(s) == Exists(s)
IsActive(s) == status[s] = "active"

\* What a batch does to a scan's status: its first terminal event does.
Outcome(w, s) ==
  LET first == CHOOSE i \in KeptOf(w, s, {"complete", "error"}) :
                 \A j \in KeptOf(w, s, {"complete", "error"}) : i <= j
  IN  IF Evs(w)[first].kind = "complete" THEN "completed" ELSE "failed"
EndedBy(w) == {s \in Scans : IsActive(s) /\ KeptOf(w, s, {"complete", "error"}) # {}}

\* INSERT ... WHERE EXISTS (SELECT 1 FROM scans WHERE id = ?)
MayInsert_Any(s) == TRUE
MayInsert(s) == Exists(s)
Inserted(w) ==
  {e \in {Evs(w)[i] : i \in Kept(w)} : e.kind # "progress" /\ MayInsert(e.scan)}

NewProgress(w, s) ==
  LET c == Coalesced(w, s)
  IN  IF c # NoProgress /\ MayInsert(s) /\ Supersedes(c, progress[s]) THEN c ELSE progress[s]

\* UPDATE scans SET last_checkpoint: on any scan, whatever its status and its last checkpoint.
NewCheckpoint(w, s) ==
  LET mine == KeptOf(w, s, {"checkpoint"})
      last == CHOOSE i \in mine : \A j \in mine : j <= i
  IN  IF mine # {} /\ Exists(s) THEN Place(Evs(w)[last]) ELSE checkpoint[s]

Rejected(w) == \E i \in Kept(w) : Evs(w)[i] \in Bad

\* db.batch: every statement or none.
Write(w) ==
  /\ worker[w].at = "write" /\ ~Rejected(w)
  /\ rows' = rows \cup Inserted(w)
  /\ progress' = [s \in Scans |-> NewProgress(w, s)]
  /\ checkpoint' = [s \in Scans |-> NewCheckpoint(w, s)]
  /\ status' = [s \in Scans |-> IF s \in EndedBy(w) THEN Outcome(w, s) ELSE status[s]]
  /\ worker' = [worker EXCEPT ![w] = [@ EXCEPT !.at = "hooks", !.known = {}, !.stored = {},
                  !.ended = {<<s, Outcome(w, s)>> : s \in EndedBy(w)}]]
  /\ UNCHANGED <<sendVars, queueVars, revived, deleting, hooks, incidents>>

\* After the last event of a call: the consumer goes on to its next message, or is done.
Rest(w) == Tail(worker[w].batch)
GoesOn(w) ==
  worker' = [worker EXCEPT ![w] =
    IF worker[w].path = "single" /\ Rest(w) # <<>>
    THEN [Idle EXCEPT !.at = "lookup", !.path = "single", !.batch = Rest(w)]
    ELSE Idle]

\* The webhooks of the updates that changed a scan.
Fired(w) ==
  [s \in Scans |-> hooks[s] \o
     (IF <<s, "completed">> \in worker[w].ended THEN <<"completed">>
      ELSE IF <<s, "failed">> \in worker[w].ended THEN <<"failed">> ELSE <<>>)]

\* The webhooks are dispatched (a webhook that fails is logged), and the messages acknowledged.
Finish(w) ==
  /\ worker[w].at = "hooks"
  /\ hooks' = Fired(w)
  /\ taken' = IF worker[w].path = "direct" THEN taken \cup {Msgs(w)[1].event} ELSE taken
  /\ GoesOn(w)
  /\ UNCHANGED <<pending, copies, queueVars, scanVars, incidents>>

\* The platform takes a message back, up to max_retries times.
IsLastTry(m) == m.tries > MaxRetries
Retried(msgs) ==
  /\ queue' = queue \cup {[m EXCEPT !.tries = @ + 1] : m \in {x \in msgs : ~IsLastTry(x)}}
  /\ dead' = dead \cup {m \in msgs : IsLastTry(m)}
MsgSet(w) == {worker[w].batch[i] : i \in DOMAIN worker[w].batch}

\* A batch that fails is processed one message at a time, so that a bad one costs no other.
OneAtATime_Never(w) == FALSE
OneAtATime(w) == worker[w].path = "batch"

\* D1 fails, or rejects a statement.
InCall(w) == worker[w].at \in {"lookup", "ids", "write"}
Fails(w) ==
  /\ InCall(w)
  /\ \/ worker[w].at = "write" /\ Rejected(w) /\ UNCHANGED incidents
     \/ Incident("d1")

BatchFails(w) ==
  /\ Fails(w) /\ OneAtATime(w)
  /\ worker' = [worker EXCEPT ![w] =
       [Idle EXCEPT !.at = "lookup", !.path = "single", !.batch = worker[w].batch]]
  /\ UNCHANGED <<sendVars, queueVars, scanVars, hooks>>

\* The database is full: every message would fail by itself too, and all of them are retried later.
BatchDeferred(w) ==
  /\ worker[w].path = "batch" /\ worker[w].at = "write" /\ Incident("quota")
  /\ Retried(MsgSet(w))
  /\ worker' = [worker EXCEPT ![w] = Idle]
  /\ UNCHANGED <<sendVars, scanVars, hooks>>

\* A message that fails on its own is retried. What the coordinator's fallback or the watchdog fails
\* to write is logged only.
MessageFails(w) ==
  /\ Fails(w) /\ ~OneAtATime(w)
  /\ IF FromQueue(w) THEN Retried({Msgs(w)[i] : i \in DOMAIN Msgs(w)}) ELSE UNCHANGED queueVars
  /\ GoesOn(w)
  /\ UNCHANGED <<sendVars, scanVars, hooks>>

\* The process is gone: the queue delivers what was not acknowledged again, and the agent replays
\* what the coordinator had not persisted. The webhooks may have been sent.
Crash(w) ==
  /\ worker[w].at # "idle" /\ Incident("crash")
  /\ IF FromQueue(w) THEN Retried(MsgSet(w)) ELSE UNCHANGED queueVars
  /\ pending' = IF worker[w].path = "direct" THEN pending \cup {Msgs(w)[1].event} ELSE pending
  /\ hooks' \in IF worker[w].at = "hooks" THEN {hooks, Fired(w)} ELSE {hooks}
  /\ worker' = [worker EXCEPT ![w] = Idle]
  /\ UNCHANGED <<copies, taken, scanVars>>

----------------------------------------------------------------------------
(* Others that write the scan's row.                                       *)

\* updateScanStatus(runId, 'dispatched') of the pass or the consumer that dispatched the scan: the
\* runner has it by then, and may have ended it. The UPDATE asks for no status, so it makes an ended
\* scan active again; of one that is active, or deleted, it changes nothing.
MarkDispatched(s) ==
  /\ status[s] \in Outcomes /\ revived[s] < MaxMarks
  /\ status' = [status EXCEPT ![s] = "active"] /\ revived' = [revived EXCEPT ![s] = @ + 1]
  /\ UNCHANGED <<sendVars, queueVars, worker, rows, progress, checkpoint, deleting, hooks, incidents>>

\* markFailedIfActive: a user stops the scan. It fires no webhook.
StopScan(s) ==
  /\ IsActive(s) /\ Incident("stop")
  /\ status' = [status EXCEPT ![s] = "failed"]
  /\ UNCHANGED <<sendVars, queueVars, worker, revived, rows, progress, checkpoint, deleting, hooks>>

\* purgeScanChildren: the rows that there are now.
Purge(s) ==
  /\ Exists(s) /\ Incident("delete")
  /\ deleting' = deleting \cup {s}
  /\ rows' = {e \in rows : e.scan # s}
  /\ progress' = [progress EXCEPT ![s] = NoProgress]
  /\ UNCHANGED <<sendVars, queueVars, worker, status, revived, checkpoint, hooks>>

\* deleteScansWhere: what is left, and the scan, at once.
Delete(s) ==
  /\ Exists(s) /\ s \in deleting
  /\ status' = [status EXCEPT ![s] = "deleted"]
  /\ rows' = {e \in rows : e.scan # s}
  /\ progress' = [progress EXCEPT ![s] = NoProgress]
  /\ checkpoint' = [checkpoint EXCEPT ![s] = NoProgress]
  /\ UNCHANGED <<sendVars, queueVars, worker, revived, deleting, hooks, incidents>>

----------------------------------------------------------------------------
Call(w) ==
  \/ Take(w) \/ Lookup(w) \/ ReadIds(w) \/ Write(w) \/ Finish(w)
  \/ BatchFails(w) \/ MessageFails(w)

Next ==
  \/ \E e \in Events : Send(e) \/ Replay(e) \/ \E w \in Workers : SendFails(w, e)
  \/ \E w \in Workers : Call(w) \/ BatchDeferred(w) \/ Crash(w)
  \/ \E w \in Workers, s \in Scans : WatchdogEnds(w, s)
  \/ \E s \in Scans : MarkDispatched(s) \/ StopScan(s) \/ Purge(s) \/ Delete(s)

Spec == Init /\ [][Next]_vars

----------------------------------------------------------------------------
(* Properties.                                                             *)

Stages == {"idle", "lookup", "ids", "write", "hooks"}

\* What every variable holds. Among others: no message is tried more than max_retries + 1 times.
TypeOK ==
  /\ pending \subseteq Events /\ taken \subseteq Events
  /\ copies \in [Events -> 0..(MaxIncidents + 1)]
  /\ queue \subseteq Message /\ dead \subseteq Message
  /\ worker \in [Workers ->
       [at: Stages, path: {"batch", "single", "direct", "watchdog"}, batch: Seq(Message),
        known: SUBSET Scans, stored: SUBSET AllEvents, ended: SUBSET (Scans \X Outcomes)]]
  /\ status \in [Scans -> {"active", "deleted"} \cup Outcomes]
  /\ revived \in [Scans -> 0..MaxMarks]
  /\ rows \subseteq AllEvents /\ deleting \subseteq Scans
  /\ progress \in [Scans -> [exec: Nat, seq: Nat]]
  /\ checkpoint \in [Scans -> [exec: Nat, seq: Nat]]
  /\ hooks \in [Scans -> Seq(Outcomes)]
  /\ incidents \in 0..MaxIncidents

\* Nothing of the scan is wanted any more, the event is in D1, or it is progress that was replaced.
Settled(e) ==
  \/ e.scan \in deleting
  \/ e \in rows
  \/ e.kind = "progress" /\ progress[e.scan] # NoProgress

InBatch(e) == \E w \in Workers : FromQueue(w) /\ \E m \in MsgSet(w) : m.event = e
InMessages(e) == \E m \in queue \cup dead : m.event = e

\* An event whose persist promise was kept is not lost, whichever call, retry or crash comes in
\* between: it is settled, or a message of it is in the queue, with a consumer or a dead letter.
EventsAreHeld == \A e \in taken : Settled(e) \/ InMessages(e) \/ InBatch(e)

\* A scan ends once, and its webhook says how, whichever of the runner, twice perhaps, the watchdog
\* and a user ends it first, in calls at the same time and for a scan being deleted. Each further
\* webhook takes a late 'dispatched' write that made the ended scan active again: then, and only
\* then, an event processed twice fires twice (delivery.ts:30).
OneOutcome ==
  \A s \in Scans :
    /\ Len(hooks[s]) <= 1 + revived[s]
    /\ revived[s] = 0 => \A i \in DOMAIN hooks[s] : status[s] \in {hooks[s][i], "deleted"}

\* A deleted scan keeps no rows: not of a call that looked it up before either.
DeletedKeepsNothing ==
  \A s \in Scans :
    ~Exists(s) => progress[s] = NoProgress /\ \A e \in rows : e.scan # s

\* An older progress event of an execution never replaces a newer one, in a batch or across calls.
ProgressNeverGoesBack ==
  [][\A s \in Scans :
       progress'[s].exec = progress[s].exec => progress'[s].seq >= progress[s].seq]_progress

\* A message is given up as a dead letter only because it is bad itself or was struck by more incidents
\* than max_retries: the bad messages it shares batches with do not use up its tries.
DeadAreBad == \A m \in dead : m.event \in Bad \/ incidents > MaxRetries

=============================================================================
