# swazz: specifications of the scan platform

swazz is an API fuzzing platform. A **coordinator** (TypeScript, a Cloudflare Worker with one
Durable Object, a D1 database, R2 objects and two queues; `src/packages/edge`) hands scans to
**agents** (Go; `src/packages/container`), which execute them and send back a stream of events. This
directory models the parts where several parties must agree: how a scan reaches exactly one runner,
how the runner turns its work into events, holds, pauses, stops and ends it, how the events of a run
reach the database although connections break and processes restart, and how the user's dashboard
and late out-of-band callbacks learn what became of the run.

## Inventory

| Part | State it keeps | Operations | What is hard, and what makes it correct |
|---|---|---|---|
| Scan creation (`services/scans.ts`, `scanConfigStore.ts`) | `scans` row, config object in R2, SCAN_QUEUE message | createScan, stopRun, pauseRun, resumeRun | the row, the config and the message become visible one after another; an ended scan stays ended |
| Dispatch (`coordinator/handlers/jobs.ts`, `QueueService.ts`) | `jobs`, `job_runner`, `config_ref`, `finished_runs`, a pass per socket | `/dispatch`, dispatch passes, commands | every await lets other handlers in: no run on two runners, no overfilled runner, no forgotten scan, no shared runner for a private scan |
| Sockets (`StateManager.ts`, `WebSocketHandler.ts`, `resume.ts`) | `runners`, `clients`, attachments (`activeJobs`, `recentJobs`) | connect, resumeRuns, events, close, hibernation, prune | memory and attachments agree across hibernation; a reconnected runner gets its runs back, and only those |
| Delivery, coordinator (`delivery.ts`) | `marks`, `sinceAck`, `duplicateAcked`, `delivered_seq` in storage | accept, processed, persisted, duplicate, requested, acknowledge | an ack covers only what is safe; a replay is not processed twice; a restart loses no event |
| Delivery, agent (`agent_delivery.go`, `agent_client.go`) | `runLog` per run, `carryOver`, a session per connection | stamp, written, kept, ack, ackRequest, replay, gc, reset | every unacknowledged event is held somewhere, whichever connection's write loop fails when |
| Outbox (`agent_outbox.go`, `agent_dispatcher.go`) | queue, replies, `held`, one pump | queueEvent, queueReply, holdScans, releaseScans, pump | order of a run's events, no lost wakeup, scans are held and released together |
| Findings queue (`index.ts`, `repositories/scans.ts`) | `scan_events`, `findings`, scan status, retries, dead letters | processFindingsQueueMessages, batch fallback | redelivery, concurrent consumers, one bad message in a batch, a scan deleted meanwhile |
| Watchdog, scheduler (`watchdog.ts`, `utils/scheduler.ts`) | none of their own | failStalledScans, handleScheduledScans | late terminal events; a minute run twice |
| OOB callbacks (`handlers/oob.ts`, `internal/oob`, `runner/oob.go`) | token stores on both sides, recent hand-overs | take, hand over, store, look up, record | a callback falls between the two stores, or finds its token in both |
| Parse requests (`handlers/parse.ts`) | pending requests with timers | parse, parse_result, timeout | one timer and one map entry each; late answers, closed sockets |
| Runner engine (`internal/runner`: `runner.go`, `fuzz_worker.go`, `init_run.go`, `stats.go`, `events.go`) | loops, workers, statistics pipe, watermark, event queue, subscribers | Start, statsAggregator, Broadcast, processEvents, finalise, Close | a lagging subscriber, checkpoints, one terminal event after everything else |
| Runner control (`lifecycle.go`, `runner.go`) | flags, condition variable, hold account, duration timer | Pause, Resume, Stop, Hold, Release, waitIfPaused | no lost wakeup; held time does not count |
| Limiter (`limiter.go`) | target, slots taken, wait queue | Acquire, Release, SetTarget | a wait cancelled as a slot is handed over |
| Session with the target (`auth.go`, `executor_http.go`) | headers, variables, reauthentication lock, probe time | MaybeReauthenticate, ExecuteAuthSequence | all requests fail together; one login only |
| MCP clients (`internal/mcp`) | pending calls with a channel each, reader, end of stream | sendRequest, reader loop, Close | an answer, a timeout, the end of the stream and Close at once |
| Executions and recycling (`agent_dispatcher.go`) | `activeRunners`, deliveries, `recycling` | dispatch, finishExecution, maybeRecycle, restart | exit with undelivered output, a dispatch meanwhile |
| Dashboard follower (`useRunner.ts`, `connectClient.ts`) | stream, reconnects, status requests, `finished` | followRun, settleFromStatus, onDrop | the end is learned once, from a stream that may drop or fall silent, or from the status |
| Analyzers, generators, parsers, classifier, web, extension, RAG, accounts, licences, deployment | data | – | pure functions, user interface, single-statement handlers: not modelled |

How they interact: createScan writes the row, the config, then SCAN_QUEUE; its consumer calls
`/dispatch` on the Durable Object; a free runner's socket also triggers a pass over the active scans.
The agent stamps events, queues them in its outbox, and a write loop per connection sends them; the
coordinator forwards each to the findings queue (D1 if that fails), acknowledges, and on a terminal
event frees the slot and triggers the next pass. The findings consumer ends the scan's row. Inside the
agent a run's goroutine starts workers, whose results go through a pipe to the statistics and through the
event queue to the forwarder, which stamps them for the outbox; Hold and Release come from the outbox when
it is full or drained. The coordinator tells connected dashboards of each event as it comes, and matches
out-of-band callbacks with the run's agent first and with the tokens in D1 after the run.

## Modules

| Module | Models | Used by |
|---|---|---|
| `Delivery` | one run's events, end to end: agent log, write loops of live and dead connections, the wire, DeliveryTracker, persistence | runs `delivery_*` |
| `EventLedger` | the promise: sent, safe, confirmed | `Delivery!ImplementsLedger` |
| `DeliveryProofs` | theorems about `Delivery` | TLAPS |
| `ScanDispatch` | scans, `/dispatch`, passes, resumeRuns, stop and pause, sockets, runners reduced to what they were sent and finished | runs `dispatch_*` |
| `ScanDispatchProofs` | theorems about `ScanDispatch` | TLAPS |
| `MCScanDispatch` | which runner sets up which connection, for TLC | runs `dispatch_*`, `scan_parts` |
| `Outbox` | queue, pump, forwarders, repliers, holding | run `agent_output` |
| `RunnerEvents` | one execution in the runner: loops, workers, statistics pipe, aggregator, event bus, forwarder, end | runs `agent_output`, `runner_checkpoint` |
| `AgentRuns` | the executions of an agent process, their terminal events, recycling and restart | run `agent_output` |
| `ScanTimer` | the duration timer and the account of held time | run `agent_output` |
| `MCAgent` | these four side by side, for TLC | run `agent_output` |
| `OutboxProofs` | theorems about `Outbox` | TLAPS |
| `RunnerEventsProofs` | theorems about `RunnerEvents` | TLAPS |
| `AgentProofs` | theorems about `AgentRuns` and `ScanTimer` | TLAPS |
| `Limiter` | ConcurrencyLimiter | run `scan_parts` |
| `RunnerControl` | pause, hold, stop and their condition variable | run `scan_parts` |
| `RunnerSession` | the scan's session with its target and its renewal | run `scan_parts` |
| `OobCallbacks` | out-of-band callbacks and the hand-over of tokens | run `scan_parts` |
| `McpClient` | the pending calls of the streaming MCP clients | run `scan_parts` |
| `ScanFollower` | the dashboard following a scan, with the coordinator's side of its socket | run `scan_parts` |
| `RunnerProofs` | theorems about `RunnerControl`, `RunnerSession` and `McpClient` | TLAPS |
| `ServiceProofs` | theorems about `Limiter`, `OobCallbacks` and `ScanFollower` | TLAPS |
| `MCService` | dispatch and these six side by side, for TLC | run `scan_parts` |
| `FindingsQueue` | the findings queue, its consumers, the D1 fallback, the watchdog's endScan, scan deletion | run `findings_incidents` |
| `MCFindingsQueue` | the events of a scan, for TLC | run `findings_incidents` |
| `FindingsQueueProofs` | theorems about `FindingsQueue` | TLAPS |

### Delivery

State: `log` is the run's `runLog` (`exec`, `nextSeq`, `writtenSeq`, `ackedSeq`, `unacked`), `queue` the
outbox together with `outChan`, `carry` the session's carry-over, `writer` the write loop of the current
connection and `failing` the writes of loops whose connection is gone. `up` and `down` are what each
connection has still to deliver. `marks`, `sinceAck`, `dupAcked` are DeliveryTracker's fields, `persisting`
the `done` promises it waits for and `acks` its pending `acknowledge()` calls; `stored` is `delivered_seq`.
`jobs[c]` says where socket `c`'s attachment lists the run.

Actions: one per step of the write loop (`Write`, `RecordWritten`, `GiveUp`, `RequestAck`,
`OldWriteReturns`), of the session (`Connect`, `AgentCloses`, `AgentReceives`), of the coordinator's message
handler (`Refuse`, `DropDuplicate`, `Accept`, `HandleAckRequest`) and of its promises (`Persist`, `StoreMark`,
`SendAck`); faults are `Break` (a connection dies, or goes half-open, without either side noticing),
`AgentRestarts`, `CoordinatorRestarts`, `Hibernate`, failing puts and persistence, and a refused claim.

Abstractions: one run (runs share no delivery state); an event is its execution, number and kind (data,
log line, terminal); the mutual exclusion of `sendMu` is one step `Emit` here, and modelled in `Outbox`;
a settled finding is safe when it is in the queue or in D1. Coordinators without acknowledgements
(`setEnabled(false)`) are not modelled. `LateWriter` lets a failing write outlast the reconnect backoff;
the runs set it FALSE, see *Known limits* below.

`EventLedger` is refined under *sent* = every event stamped, *safe* = persisted or given up on by design
(too large, trimmed, failed on both paths), *confirmed* = what the agent was told is safe. An event the
coordinator refused counts as given up (`GivenUp`) once the run has been dispatched anew, and not before: from
then on a connection may own the run that dropped earlier events of it. That the code should not let go of
those either is `RefusedStayUnacked`, which `delivery_refused_claim` violates.

### ScanDispatch

The Durable Object runs handlers from one await to the next. A storage operation lets no other event in
(input gates), so it belongs to the step around it; D1, R2 and queue operations do, so a step ends there.
A D1 query is two steps, its evaluation (`PassReads`, `DispatchChecks`, `ResumeAsks`) and the handler going on
with the answer. `pass[c]` and `resume[c]` are the local variables of the pass and the resumeRuns call of
socket `c`; `request[s]` is the `/dispatch` request of a scan.

Abstractions: all scans belong to one user; runners are the user's own or shared; a config is the fact that
it disables shared runners (`Private`), that it exists (`config`), and that a project's stored config is the
fallback (`Projects`). A scan that needs a user's public key is refused by shared runners just like a
private one. Deleting the R2 object is merged with clearing the stored state, and failing a scan whose
config is gone with its D1 update. `exec`, `over` and `up` are the runner reduced to what it executes, has
finished, and has told. Commands to a run that has a runner go to the runner, where the run may end anyway.

### Outbox

A step is what a goroutine does under one lock, or one channel operation. `sender[g]` is where a
forwarder is in queueEvent and holdScans, `pump` where the pump is in `take`, the hand-off and `handed`.
The room channel is the set of forwarders at `"wait"`: closing it sends all of them back to look. Holding and
releasing all runners happens under `activeRunnersMu` and is one step each. Requests wait while their
run is held (`waitWhileHeld`); one already under way still makes an event. Closing the dispatcher (tests
only) is not modelled.

### FindingsQueue

`worker[w]` is a process with one call under way: `path` says whether the consumer calls
processFindingsQueueMessages for the whole batch or for one message at a time, or the coordinator's
fallback (`"direct"`) or the watchdog does; `at` is the await it is in. `Lookup`, `ReadIds` and `Write` are the
evaluation of its three D1 operations, so what the call goes on with (`known`, `stored`) may be out of date;
`Write` is one atomic `db.batch`. `Finish` fires the webhooks and acknowledges. `queue` and `dead` hold messages
with the number of their delivery; `rows`, `progress`, `checkpoint` and `status` are what D1 holds.

Faults: `SendFails` (with or without the message in the queue), `Replay` (an agent's replay, or a message
delivered twice), `Fails` (D1, or a statement it rejects), `BatchDeferred` (the database is full), `Crash`. Each
but a rejected statement, and also a stall that the watchdog sees, a user's stop and a deletion, is an
*incident*; a behaviour has at most `MaxIncidents`.

Others write the scan's row too. `MarkDispatched` is the unconditional write of 'dispatched' with which a
dispatch ends (`QueueService.ts:307`, `index.ts:560`), maybe after the scan's completion was consumed: an ended
scan is active again (`revived` counts it, up to `MaxMarks`; of another scan the write changes nothing). `StopScan` is
markFailedIfActive, which fires no webhook. The failure of a scan that could not be queued
(`services/scans.ts:187`) fires its own webhook before there is a run, and is left out.

Abstractions: findings are merged with the row of their event (same guard, same batch, both OR IGNORE);
`fuzz_progress` rows are treated by the same code as `progress` rows and left out; queued, dispatched and
paused are one active status; the chunks of the id lookup and of the purge are one step each; retry delays
are left to the interleaving. Unsequenced events, which runners without acknowledged delivery send, are left
out but for the watchdog's. Dead letters are not replayed.

### RunnerEvents

`main` is the run's goroutine from initRun over the loops (`target`, `next`), finalise and Close to
finishExecution; `pr` and `ce` are what `progress` shows, which the loops store one after the other.
`worker[i]` is the goroutine of iteration `i`: it hands its result to the statistics pipe (`TakeLock`,
`HandOver`), then broadcasts it (`Stream`). `counted`, `mark` and `since` are the aggregator's; `queue` and
`woken` the MPSCQueue, `bus`, `batch` and `lag` broadcastLoop with the state of its subscriber, `sub` the
subscriber's channel and `fwd` the forwarder. A scan may start from a checkpoint (`Resumes`).

Abstractions: the baseline, BOLA, differential, rate-limit and active phases, duplicates and the
batch of out-of-band tokens are left out; progress events too, so `SubCap` is the room they leave. `Tick` reads
profile and endpoint at once, which are loaded one after the other (`stats.go:194-201`). Push
and its notification are one step, popping and taking the subscriber lock another; the one-second limit of
Close may or may not run out.

### AgentRuns and ScanTimer

`AgentRuns`: `execution[e]` is the goroutine of one dispatch and where its terminal event is: with the
forwarder, queued, written or acknowledged. `recycler` is maybeRecycle's goroutine. The delivery itself is
`Delivery` and `Outbox`; here it is three steps. `ScanTimer`: `clock` is monotonic time in ticks; a reading
of the clock and the following heldFor are two steps (`TimerReads`, `TimerDecides`), so holds fall between.
The one-second floor of the timer's checks and time within a tick are left out.

### RunnerControl

`at[w]` is where the main loop and each request are between the first look at the flags and the sleep on the
condition variable; `mu` is the lock. Commands store under the lock, cancel, then broadcast, in
steps of their own (`call`). `wake` is the function that `context.AfterFunc` runs.

### Limiter and RunnerSession

`Limiter`: `queued` is the wait list; a caller in it no more has been handed a slot whether or not it has
noticed. `RunnerSession`: a session is the number of the login it comes from; requests take headers and variables at different times (`TakeHeaders`,
`TakeVariables`), and a login sets the variables step by step and the headers only when it succeeded.
The code compares header values (`auth.go:532-562`); that a new login may bring equal ones, or that a header may be a
template, is abstracted away.

### OobCallbacks

The run's `phase`, its `oobStore` and the tokens it took from it (`matched`), the events on their way, the
statements that store batches, D1's `oob_pending`, the coordinator's memory of hand-overs (`noted`), and whether
`jobs` has the run's socket (`link`). Each callback goes both ways: as an `oob_trigger` to the agent, if `jobs` has
the socket, and, at once and up to twice later, to D1.

HandleOOBTrigger is two steps: the token leaves the store (`MatchTrigger`), then its finding is broadcast
(`ReportTrigger`). finalise is two as well (`HandOver`, then `EndRun`, which also stands for the clearing of the
store, empty by then, and the run's removal from `activeRunners`) and waits for neither, so the finding may
come behind the run's end, where the coordinator drops it (`Arrives`). `LinkBreaks` is handleClose: the job
goes, and the triggers sent go with it; events wait for the connection `Reconnects` brings.

Assumptions on time, as guards: the grace period is longer than a message takes (`InTime`), the last look-up
comes after the hand-over arrived and was stored (`HandedOver`); neither holds while a connection is broken or its
events are late (`delayed`, `cut`). A restart or hibernation of the coordinator, a claim of the run that is
refused after a break, a D1 that refuses the tokens and the caps on retries (100) and remembered runs (200) lose
callbacks and are left out; a run that panics hands nothing over.

### McpClient

`listed` is the pending map, `answerChan` the channel of each call. The reader takes an answer and deletes the
entry under the lock, and sends after it (`inHand`). For server-sent events the end of the stream is
noted and the calls are failed in one hold of the lock; for a subprocess `processDone` is closed first, and a
call also waits for that. The reader ends only with the stream: that the subprocess's reader also stops at output
it cannot decode while the process lives (`stdio.go:255-258`) is left out. A server may answer before the POST returns, twice, or never. One call is
the handshake. The HTTP client has no shared calls.

### ScanFollower

The scan's end is a fact of the run (`outcome`), something clients are told (`told`), and a status in D1, in either
order. `stream` is the socket from both sides; `check[a]` the status requests of onopen, onDrop and the
interval, one at a time each. What is shown to the user meanwhile is left out, except whether it is shown as
queued.

## Runs

| Run | Bounds | Checks |
|---|---|---|
| `delivery_reconnect` | 2 events in each of 2 executions, 2 connections, 1 fault of {claim refused, message too large, persistence fails}, log trimmed above 1 | `TypeOK`, `NothingForgotten`, `NeverProcessedTwice` |
| `delivery_faults` | the same, 1 fault of {coordinator restart, agent restart, failed put}, terminal events | `AckedArePersisted`, `MarkCoversPersisted`, `ImplementsLedger` |
| `delivery_liveness` | 2 events, 2 connections, no faults but the breaking connection | `EveryEventSettles`, `AcksArrive` |
| `dispatch_handover` | 1 scan, a runner that reconnects, 1 restart, stop and pause | `TypeOK`, `TrackingKept` |
| `dispatch_slots` | 2 scans (a project's; a private one), one slot each on an own and a shared runner | `CapacityRespected` |
| `agent_output` | outbox: 2 forwarders, 1 replier, 2 executions of a run, 3 requests, marks 0/1/1; an execution of 1 profile, 2 endpoints, 2 iterations, from the start or a checkpoint, channels of 1, 1 fault of 5 kinds; 2 executions of 2 runs; a timer of 2 ticks in 5 | `HeldTogether`, `HardLimitKept`, `OrderedOnWire`, `HeldAreReleased`, `RoomComes`, `RepliesLeave`; `FinalStatsAreWhole`, `CompleteMeansAll`, `NoCheckpointAfterMiss`, `CheckpointSafeInPlace`, `EndIsReported`; `ActiveIsRunning`, `EndIsWritten`; `HeldTimeNotCounted` |
| `scan_parts` | 2 scans, one slot; 3 callers, target up to 3; the loop and 1 request, 3 commanders; 2 requests, 2 logins; 1 token, 2 callbacks, 1 broken connection; 2 MCP calls answered up to twice; 1 reconnect, 1 message, 2 troubles | `QueuedIsDispatched`; `NoSlotLost`; `NoLostWakeup`; `OneLoginPerSession`; `CallbackReported`, `ReportedOnce`; `ReaderCanSend`, `NoOrphanedCall`; `EndIsLearned`, `EndReportedOnce` |
| `findings_incidents` | 1 scan, 2 calls at a time, batches of 2, 1 retry; at most 2 of 6 events (progress of two executions, a checkpoint, completion, a bad result), 2 incidents of 8 kinds, 1 late 'dispatched' write | `EventsAreHeld`, `OneOutcome`, `DeletedKeepsNothing`, `DeadAreBad`, `ProgressNeverGoesBack` |
| `delivery_refused_claim` | as reconnect | violates `RefusedStayUnacked` |
| `dispatch_private`, `dispatch_stopped` | 1 scan | violate `PrivateStaysPrivate`, `EndedStaysEnded` |
| `runner_checkpoint` | 2 profiles of 1 endpoint, 2 iterations | violates `CheckpointsAreSafe` |

`agent_output` and `scan_parts` check parts that share no state side by side: the first state chooses which
part moves and the others stay where they began, so the states are the sum of the parts' states, not their product.

Why the bounds are enough. Two connections give every overlap of an old and a new one the code knows,
since only the latest connection is live; two events make order and cumulative acknowledgement matter,
and two executions the confusion of their numbers. One fault per behaviour: faults of different kinds
touch different variables, and two at a time were checked in simulation. With one slot per runner, two
scans compete for it; the marks 0, 1 and 1 of the outbox make full, drained and the hard limit reachable
with three events, and two executions confusable with two. An execution of two endpoints has a move of
the position with results still under way, channels of one place fill at once, and a checkpoint every third request
falls into the second endpoint. Three callers make a waiter behind a waiter; two requests suffice for one to find
the other's login, two callbacks to meet at one token, two calls to meet the end of a stream; the follower's
reconnects run out. Faults and troubles are bounded because a hazard needs one or two. In the findings queue a hazard is two events of a scan, or one event in two calls: two events,
two calls and two incidents give each pair in every order, with one retry so that a dead letter is near. Only
`findings_incidents` uses symmetry, of its two workers, which are interchangeable; it checks no liveness. Deadlock checking is off everywhere because bounded
scenarios end.

Fairness. `Delivery!FairSpec`: the agent's loops and the coordinator's handlers go on; connections beyond
the last do not break, and new events, dispatches and faults need not come. `ScanDispatch!FairSpec`:
handlers and promises go on, runners connect, read and finish runs (scans are finite); users and faults
need not come. `Outbox!FairSpec`: goroutines are scheduled, and the write loop takes messages (the agent
reconnects for ever); requests need not be sent. `RunnerEvents!EventsFairSpec`: goroutines are scheduled and
requests end (they have a timeout); faults need not happen. `OobCallbacks!OobFairSpec`: a run ends, messages
arrive, a broken connection comes back (the agent reconnects for ever), the read loop, statements and timers go
on. `ScanFollower!FollowerFairSpec`: timers fire and requests are answered or
fail; no stream need open. `MCAgent` and `MCService` ask the same of the part that moves. All of it is weak fairness.

### What the violations show

* `delivery_refused_claim`: a claim refused at a reconnect leaves a gap that the next acknowledgement covers,
  because the coordinator compares sequence numbers with `>` only (`delivery.ts:71-77`) and the dispatch that
  follows is ignored by an agent still executing the run. Without any fault the same happens over three
  connections, when a pass dispatches the run to another socket first.
* `dispatch_private`: a pass between the scan's row and its config gives a private scan, with an empty config,
  to a shared runner.
* `dispatch_stopped`: a pass with an older answer of D1 makes a stopped scan active again. The same happens
  without a stop when a short run's completion is consumed before the pass marks it dispatched. What may
  follow is in `FindingsQueue`: the revived scan ends a second time, by the watchdog or by another consumer of
  the same terminal event, and its webhook fires again.
* `runner_checkpoint`: a checkpoint takes the position from what the loops show and the iteration from the last
  result counted. A tick after the loops moved on and before a result of the new position was counted
  names the new position with the old one's watermark, and a scan resumed from it skips iterations never run.
  `CheckpointSafeInPlace` says that only this combination is wrong.

### Known limits, not stated by a run

* The tracker keeps one mark for a run, of the execution it last took an event of. When events of two executions
  of a run alternate over several connections, a replay of the earlier one is taken as new (found with four
  connections and three executions). `NeverProcessedTwice` is therefore about one execution's events.
* The resumeRuns of a connection that is gone can take a run back from its successor: it goes on after the
  runner's next connection took the run over, releases it there and points `jobs` at the old socket
  (`resume.ts:86-91`). Found with three connections of one runner.
* "None of its effects may repeat" (`repositories/scans.ts:769-771`) holds for rows, but not for `last_checkpoint`
  (`:898`): a call that read the stored ids before another stored the checkpoint writes it again, over a newer
  one perhaps.
* Status and webhooks repeat in one case. That webhooks of a terminal event processed twice by concurrent
  consumers "may fire twice" (`coordinator/delivery.ts:30`) does not follow from the two reads of the stored ids:
  the second call's UPDATE finds the scan ended, changes no row and fires nothing (`repositories/scans.ts:870-922`,
  `:947-955`). It comes true when a late 'dispatched' write falls between the two writes; then the row may also
  be active while a webhook said that the scan ended, and "nor fire twice" (`:746-748`) fails too. `OneOutcome`
  therefore says that every webhook beyond the first takes such a write (`revived`), and that without one the
  webhook and the row agree. The write itself is what `dispatch_stopped` finds. A driver that reports no count
  of changes would be taken as having changed the row (`:951`), and is left out.
* A process that ends between the batch (`repositories/scans.ts:945`) and the webhooks (`:957`) loses the webhook of a
  scan's end, since the redelivered event is skipped as stored; the watchdog's clearScanState
  (`watchdog.ts:90`) is lost in the same way.
* Late progress of an earlier execution replaces that of a later one: supersedes lets another execution always
  replace, and cannot tell which is the later. `ProgressNeverGoesBack` is about one execution.
* A run that completes while resumeRuns waits for D1 is put back into `activeJobs` (`resume.ts:46` reads
  `finished_runs` before the await), although "a run that completed is accepted only for its late log lines".
* resumeRuns writes the attachment it read before the await (`resume.ts:47` and `:95`); a run dispatched to
  the socket meanwhile is lost from it, and `jobs` may list more runs on a socket than
  `MAX_ACTIVE_JOBS_PER_RUNNER`. `TrackingKept` therefore excepts exactly that write (`OverlappedWrite`).
* With `LateWriter = TRUE`, `AckedArePersisted` fails: a write that fails after the next connection has
  replayed puts its message behind later ones, where it is dropped as a duplicate.
* `/dispatch` does not consult `finished_runs`: a scan whose terminal event is still in the findings queue and
  whose row still says queued is dispatched again by a redelivered request. `finished_runs` forgets an entry beyond 200.
* A message handler that fails in a storage call after a dispatch was sent (`handlers/jobs.ts:105`) frees a slot
  that the runner still uses.
* Recycling: when the last look finds no active run, another run's terminal event may still be unqueued, since
  a run is removed before it is reported; and when the recycler gives up just as another execution ends, that
  execution finds it still there and nobody recycles. `EndIsWritten` is about the run that made the agent idle.
* A Stop between the registration in `activeRunners` and initRun is lost, because initRun resets the flags; a Pause
  before the run is running is ignored; a checkpoint's `Paused` overrides what the user asked since.
* A result is counted before it is broadcast, so a checkpoint may precede a result that a subscriber then misses;
  `NoCheckpointAfterMiss` is about the order of a checkpoint after a miss.
* A failed login leaves its new variables with the old headers, and each waiting request repeats it; within five
  seconds of a probe or a login a session is taken as alive.
* A stopped run has no grace period: a callback that comes between taking the tokens and storing them is lost.
  `CallbackReported` excepts stopped runs.
* A callback can be lost while its run ends, grace period or not: the agent's read loop takes its token from the store
  (`runner/oob.go:69`), the run hands over without it and ends (`init_run.go:243-257`), and the finding that is then
  broadcast (`oob.go:116`) comes behind the end and is dropped (`WebSocketHandler.ts:208-214`). The comment on
  announceOOBHandOver, "looked up again rather than lost" (`oob.go:55-56`), does not hold for it. `CallbackReported` excepts
  exactly these tokens (`Overtaken`).
* While the runner's connection is broken `jobs` has no socket (`WebSocketHandler.ts:369-373`): no trigger is sent,
  and a callback of a run that has announced nothing is looked up once (`handlers/oob.ts:52-65`); a trigger sent
  just before is lost. `CallbackReported` excepts callbacks around which the connection broke (`cut`), and those that
  come while the events that waited for it are still on their way.
* After a worker's panic the loop over the profiles goes on, without sending anything.
* The MCP client of a subprocess may report "process terminated" although the answer has arrived: select chooses among
  what is ready.
* A scheduled minute is read, filtered and triggered in steps (`utils/scheduler.ts`), and a run whose enqueue failed
  still counts as done.
* Two parse results for one key stored at once can leave `endpoints_hash` naming other content than R2 holds; a closed
  socket's pending parses are answered by their timeout only.

## Proofs

`DeliveryProofs`, for every number of events, executions, connections and faults:

* `TypeCorrect`: `Spec => []TypeOK`, one lemma per action or group of actions.
* `NothingIsForgotten`: `Spec => []NothingForgotten`. The property is inductive together with `TypeOK`: an event
  leaves `queue` or `carry` only into `writer.cur`, that only into the log or, when the connection is lost,
  into `failing`, and the log only by acknowledgement or trimming.
* `AcceptedOnce`: `Spec => []NeverProcessedTwice`, when neither "coordRestart" nor "putFails" is among `Faults`: the mark
  in memory then covers every event accepted (`PastTheMark`), or events of two executions were accepted. With one
  of these faults a replay is meant to be taken as new, and the rows' ids make it harmless (`FindingsQueue`).
* `AckedIsPersisted`, `StoredMarkIsSafe` and `ImplementsTheLedger`: `Spec => []AckedArePersisted`,
  `[]MarkCoversPersisted` and `ImplementsLedger`, for every set of faults, with `LateWriter = FALSE`. All three follow
  from `LedgerInvariant` (`Spec => []LedgerInv`).

`LedgerInv` is what makes a cumulative acknowledgement sound, from the agent's numbering to the coordinator's marks.
An execution's events are numbered without repetition (`Numbers`). Its unacknowledged events leave the agent in order:
what is carried over, in the write loop, in a failed write or in the log comes before what is queued, and a replay
takes what is lower first (`Shape`, `Order`). On each connection, an event finds its predecessors ahead of it or already
taken care of (`InSequence`); what has not been taken care of is still at the agent or on the live connection
(`Reachable`). So whatever the coordinator accepts has no gap below it but refused events, and each mark and each
acknowledgement covers only what is safe, or will be once what the acknowledgement waits for has settled (`MarksSound`).
A gap can only arise when the run is dispatched again (`DispatchFirst`), which is where `GivenUp` begins to count.
The hypothesis `~LateWriter` stands for the time a failed write has: `write` returns before the next connection
is set up after the backoff. Without it the theorem is false, see *Known limits*.

`OutboxProofs`, for every set of runs, forwarders and repliers and every mark:

* `HoldingIsUniform`: `Spec => []HeldTogether`, inductive with the types of `held`, `heldRun` and `active`.
* `HardLimitHolds`: `Spec => []HardLimitKept`. The invariant counts the forwarders that have seen room: the
  queue's length plus their number stays below the hard limit plus the number of forwarders.
* `WireIsInOrder`: `Spec => OrderedOnWire`. `OrderInv` looks at the pipe of a run's events: the one in the pump's hand,
  the queue, and the one whose forwarder has numbered it and still has `sendMu`. In it the events of a run are
  in the order of their numbers, each directly after the one before it, between what was written last and the
  log's last number (`InOrder`). Only the holder of the lock numbers, so the pipe grows at its end.

`ScanDispatchProofs`, for every number of scans, connections and restarts, every assignment of connections
to runners and every capacity:

* `TypeCorrect`: `Spec => []TypeOK`. `TypeOK` is split into parts without common variables (`TypeSplit`), so that
  a step is looked at only for the parts it changes; the helpers `Trigger`, `EndPass`, `SendTo` and
  `Proceed` have a lemma each.
* `CapacityHolds`: `Spec => []CapacityRespected`. The invariant also bounds what a resumeRuns call has counted
  and is going to write (`CapacityInv`), and needs that only open sockets are given runs (`SocketInv`).
* `TrackingIsKept`: `Spec => TrackingKept`. `SocketInv` adds that a socket never used holds no run, so a
  connection starts without any; then each way a run changes hands is a lemma (`TrackedAssign`,
  `TrackedResume`, `TrackedReconstruct`).

`FindingsQueueProofs`, for every set of scans, events, bad events and workers, every batch size, number of
retries and kind and number of incidents:

* `DeletedScansKeepNothing`: `Spec => []DeletedKeepsNothing`, inductive together with the types: every statement
  that inserts rows is guarded by the scan's existence in the same atomic batch.
* `ScansEndOnce`: `Spec => []OneOutcome`. A call that changed a scan's status *owes* a webhook until it has
  fired it (`Owers`). `OutcomeInv` counts: the webhooks fired and those owed are at most the ends of the scan, the one it
  is in and those a late 'dispatched' write took back (`HooksCounted`); as long as there was no such write, all of
  them say what the row says (`HooksAgree`). `OneOutcome` alone is not inductive: it does not see who still owes.
* `GoodMessagesSurvive`: `Spec => []DeadAreBad`. `TriesInv` bounds the tries of every message that is not
  bad, in the queue or in a call, by the incidents so far plus one: a rejected statement retries a message only
  when that message was processed alone.

* `ProgressOnlyAdvances`: `Spec => ProgressNeverGoesBack`. What a batch of any length stores is what `Coalesced` picks from
  it, a recursive function; it is reasoned about without induction, by taking the least length at which a claim
  fails (`LeastOf`, `FoldExists`, `CoalescedFacts`).
* `TakenIsHeld`: `Spec => []EventsAreHeld`. `HeldInv` adds what a call may take for granted: a scan that it found missing
  is being deleted for good, and an id that it read as stored still is, or its scan is gone (`CallKnows`); only
  such messages are dropped unstored.

`RunnerEventsProofs`, for every number of profiles, endpoints, iterations and slots, every size of the channels,
every place to resume from, and every set and number of faults:

* `ResultsAreWhole` and `CompletionMeansAll`: `EventsSpec => []FinalStatsAreWhole` and `[]CompleteMeansAll`. The core of
  `EventsInv` says that a result streamed, or about to be, is counted or in the pipe (`Whole`); that the pipe is sealed
  only when nobody sends any more and drained before the run ends (`Gated`); and that everything before
  the position of the loops is covered (`InOrder`).
* `CheckpointsInPlaceAreSafe`: `EventsSpec => CheckpointSafeInPlace`. The pipe keeps the order of the positions, so the
  watermark's comes after everything counted (`Fifo`), and up to the watermark all is counted (`Marked`).
* `NoCheckpointOverAGap`: `EventsSpec => NoCheckpointAfterMiss`. A subscriber that missed an event never counts as
  one that did not again (`LagRemembered`).

`ServiceProofs`, for every set of tokens, callbacks and messages, every finite set of callers and every ceiling:

* `FollowerReportsOnce`: `FollowerSpec => []EndReportedOnce`. Whatever speaks of the end, in the stream, an answer or D1,
  says how the scan ended (`FollowerTypes`).
* `TokenReportedOnce`: `OobSpec => []ReportedOnce`. A token that the run matched has left its store for good, so it is
  in no batch, statement or row (`HandedOverOnce`, `EventsOnWay`), and the run's findings are of such tokens only,
  however late they come.
* `SlotsAreNeverLost`: `LimiterSpec => []NoSlotLost`. The slots taken are the cardinality of the callers that own one,
  among them those handed one that have not noticed; nobody is queued twice (`QueueIsFair`). SetTarget hands
  over many slots in one step, so its lemma counts the front of the queue.

`RunnerProofs`, for every set of requesters, goroutines and MCP calls and every number of answers and sessions:

* `ReaderNeverStuck` and `CallsAreReleased`: `McpSpec => []ReaderCanSend` and `[]NoOrphanedCall`. `McpInv` ties the list of
  calls to their channels (`Channels`: a call that is listed, or whose answer the reader has in hand, has an open
  channel, and never both) and says what the end of the stream leaves listed (`Deserted`).
* `WaitersAreWoken`: `ControlSpec => []NoLostWakeup`. The property alone is not inductive: a waiter that is about to
  sleep holds the lock, so only the end of the context can make its wait pointless, and then wakeOnDone is still due.
* `SessionsReplacedOnce`: `SessionSpec => []OneLoginPerSession`. In `SessionInv` a goroutine that logs in holds the lock
  and still sees the headers its request failed with; headers come only from logins, so a session that was
  renewed is older than the current one.

`AgentProofs`, for every set of runs, number of executions and duration:

* `TableIsExact`: `AgentRunsSpec => []ActiveIsRunning`, inductive with the types and with every live execution
  being one of a run.
* `ExitAfterEnd`: `AgentRunsSpec => []EndIsWritten`. `RecyclerInv` follows the execution that started the recycler: it is
  over, a report was made, and from the last look on that report is no longer queued.
* `HeldTimeIsFree`: `TimerSpec => []HeldTimeNotCounted`. `TimerInv` is the balance of the account: the time
  unheld and the time held since the timer started make up the time since then, whatever Hold and Release do
  between the timer's readings.

The assumptions are those on the constants (`OutboxAssumption`, `ScanDispatchAssumption`, `FindingsQueueAssumption`,
`ControlAssumption`, `SessionAssumption`, `AgentRunsAssumption`, `ScanTimerAssumption`, `RunnerEventsAssumption`,
`LimiterAssumption`, `OobAssumption`, `McpAssumption`, `FollowerAssumption` and `DeliveryAssumption`), which TLC evaluates in the runs, and the
two hypotheses named above. Most only bound numbers; `Nobody \notin Senders` and its like say that the mark of a free
lock is no one's name. `SocketInv`, the bound in `CapacityInv`, `HeldInv`, `OrderInv` and the invariants of `Delivery` were
checked with TLC on small instances before they were proved. On larger instances than the runs', TLC refuted
two earlier forms of `Delivery`'s properties, which did not know of a run dispatched anew over three
connections, and of two executions alternating: see *What the violations show* and *Known limits*.

Every invariant and every action property that a passing run checks, and the refinement, is a theorem. Only
model-checked are the liveness properties (`EveryEventSettles`, `AcksArrive`, `QueuedIsDispatched`, `HeldAreReleased`,
`RoomComes`, `RepliesLeave`, `EndIsReported`, `CallbackReported`, `EndIsLearned`): they need fairness and ENABLED, which are out of
the prover's reach. The type invariants of `Outbox` and `FindingsQueue` are in no run, to keep the runs to
questions about the code; they hold on the instances of `agent_output` and `findings_incidents`, and the parts of
them that the proofs need are proved.

## Not modelled

* *Parse requests.* One request has one map entry, one timer and one answer, all handled in one step of the
  Durable Object; the cache filled from the answer promises nothing when two come at once (see above).
* *Scheduled scans.* cronMatches is a parser of strings, tested by tables; the rest is one query and a loop.
* *Server-sent events and user notices.* Fan-out to connections, without state that outlives them.
* *The other phases of a scan* (baseline, BOLA, differential, rate-limit, active, discovery, crawler), *generators,
  analyzers, classifier.* They run one after another in the run's goroutine, or are pure functions of requests and responses
  with no reference definition other than themselves. Their use of the workers, the limiter, the pipe and the session is
  that of fuzzEndpoint.
* *Specification parsers, agent helpers (crypto, triage, WAF patches, spec filter), bounded maps, rate-limit checks.*
  Sequential code on data under one lock.
* *Accounts, projects, RBAC, licences, e-mail, AI services.* Request handlers around single D1 statements; sessions,
  tokens and key-value expiry are properties of those services.
* *Web application (but for followRun), browser extension, RAG index, MCP server, wizard, demo targets, deployment.* User
  interface, tooling and packaging: more than half of the repository's lines, and no protocol state.

## Plan

1. Done: every component above that keeps state shared by several actors, and the proofs above.
2. Done: the safety properties of every passing run, and the refinement of `EventLedger`, proved.
3. Proofs still worth having: the whole type invariants of `Outbox` and `FindingsQueue`; and that `Outbox`, with its lock,
   pump and room, implements the queue that `Delivery` takes in one step (`Emit`), as a refinement of its own.
