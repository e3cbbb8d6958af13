------------------------------ MODULE RunnerEvents ------------------------------
(***************************************************************************)
(* One execution of a scan inside the agent's runner, and how its results  *)
(* and its end reach the agent's outbox: workers, the statistics pipe and  *)
(* its aggregator, the event queue, the broadcast loop with a subscriber   *)
(* that may lag, the forwarder, and the order in which a run is closed.    *)
(*                                                                         *)
(* The work of a scan is its endpoints, each in every profile, each for a  *)
(* number of iterations. A position is a profile and an endpoint, in the   *)
(* order they are fuzzed.                                                  *)
(***************************************************************************)
EXTENDS Naturals, Sequences, FiniteSets

CONSTANTS
  NumProfiles, NumEndpoints, NumIterations,
  Slots,       \* the limiter's target
  PipeCap,     \* room of the statistics pipe (4096)
  SubCap,      \* room of a subscriber's channel (512)
  CheckEvery,  \* requests between two checkpoints (100)
  Resumes,     \* checkpoints the scan may be resumed from: positions with an iteration
  RunFaults, MaxRunFaults

ASSUME RunnerEventsAssumption ==
  /\ {NumProfiles, NumEndpoints, NumIterations, Slots, PipeCap, SubCap, CheckEvery} \subseteq Nat \ {0}
  /\ MaxRunFaults \in Nat
  /\ RunFaults \subseteq {"stop", "workerPanic", "runPanic", "startFails", "brokenEvent"}
  /\ Resumes \subseteq (1..NumProfiles * NumEndpoints) \X (0..NumIterations)

VARIABLES
  main,      \* the run's goroutine: Start, then Close, then finishExecution
  target,    \* the position the loops of Start come to next
  pr, ce,    \* progress.currentProfile, progress.currentEndpoint
  next,      \* the next iteration of fuzzEndpoint
  worker,    \* the goroutines of the current position, one per iteration
  pipe, gate,            \* statsPipe: its channel; open, stopping, sealed, done
  counted, mark, since,  \* the aggregator: results taken in, watermark, requests since a checkpoint
  queue, woken,          \* eventQueue and its notify channel
  bus, batch,            \* broadcastLoop and the events it is processing
  lag,                   \* the subscriber's subLag: none, stalled, or caught up after a gap
  sub, open,             \* the subscriber's channel, and whether it is subscribed
  fwd, terminals,        \* the forwarder; terminal events sent for the execution
  missed,                \* history: the subscriber did not get some event
  happened               \* the faults so far

engineVars == <<main, target, pr, ce, next, worker>>
statsVars  == <<pipe, gate, counted, mark, since>>
busVars    == <<bus, batch, lag, missed>>
outVars    == <<sub, open, fwd, terminals>>
eventsVars == <<engineVars, statsVars, queue, woken, busVars, outVars, happened>>

Positions  == 1..NumProfiles * NumEndpoints
Iterations == 1..NumIterations
Work       == Positions \X Iterations

Pos(p, e)      == (p - 1) * NumEndpoints + e
ProfileOf(k)  == ((k - 1) \div NumEndpoints) + 1
EndpointOf(k) == ((k - 1) % NumEndpoints) + 1

\* What a scan resumed from iteration n of position k does not run again.
SkippedBy(k, n) == {w \in Work : w[1] < k \/ (w[1] = k /\ w[2] <= n)}

Stopped   == "stop" \in happened
Panicked  == happened \cap {"workerPanic", "runPanic"} # {}
Cancelled == Stopped \/ Panicked \/ main \notin {"init", "next", "fuzz"}
Happens(f) == /\ f \in RunFaults \ happened
              /\ Cardinality(happened) < MaxRunFaults
              /\ happened' = happened \cup {f}

Result(w)        == [type |-> "result", at |-> w[1], n |-> w[2]]
Checkpoint(k, n) == [type |-> "checkpoint", at |-> k, n |-> n]
End(type)        == [type |-> type, at |-> 0, n |-> 0]

\* Broadcast, that is MPSCQueue.Push: it wakes the consumer only if the queue was empty.
Push(e) == /\ queue' = Append(queue, e)
           /\ woken' = (woken \/ queue = <<>>)

EventsInit ==
  /\ \E r \in {<<1, 0>>} \cup Resumes :
       /\ target = r[1] /\ next = r[2] + 1
       /\ counted = SkippedBy(r[1], r[2])
  /\ main = "init" /\ pr = 0 /\ ce = 0
  /\ worker = [i \in Iterations |-> "none"]
  /\ pipe = <<>> /\ gate = "open" /\ since = 0
  /\ mark = [at |-> 0, done |-> {}, n |-> 0]
  /\ queue = <<>> /\ woken = FALSE
  /\ bus = "loop" /\ batch = <<>> /\ lag = "none"
  /\ sub = <<>> /\ open = TRUE /\ fwd = "on" /\ terminals = 0
  /\ missed = FALSE /\ happened = {}

-----------------------------------------------------------------------------
(* Start: the loops over profiles and endpoints, and fuzzEndpoint.         *)

Live == {i \in Iterations : worker[i] \in {"running", "sending", "handed"}}

StartRun == /\ main = "init" /\ main' = "next"
            /\ UNCHANGED <<target, pr, ce, next, worker, statsVars, queue, woken, busVars, outVars, happened>>

\* initRun refuses (the last run's workers, an MCP server that is the only target): Start returns
\* an error, which the run's goroutine reports itself.
StartFails == /\ main = "init" /\ Happens("startFails")
              /\ main' = "close" /\ terminals' = terminals + 1
              /\ UNCHANGED <<target, pr, ce, next, worker, statsVars, queue, woken, busVars, sub, open, fwd>>

\* The profile is shown before the endpoint is; between the two, the last profile's endpoint is.
NextProfile == /\ main = "next" /\ target \in Positions /\ ~Stopped
               /\ pr # ProfileOf(target) /\ pr' = ProfileOf(target)
               /\ UNCHANGED <<main, target, ce, next, worker, statsVars, queue, woken, busVars, outVars, happened>>

EnterEndpoint == /\ main = "next" /\ target \in Positions /\ ~Cancelled
                 /\ pr = ProfileOf(target)
                 /\ main' = "fuzz" /\ ce' = EndpointOf(target)
                 /\ worker' = [i \in Iterations |-> "none"]
                 /\ UNCHANGED <<target, pr, next, statsVars, queue, woken, busVars, outVars, happened>>

\* A cancelled run leaves the loop over the endpoints, not that over the profiles.
SkipProfile == /\ main = "next" /\ target \in Positions /\ Cancelled /\ ~Stopped
               /\ pr = ProfileOf(target)
               /\ target' = Pos(pr + 1, 1)
               /\ UNCHANGED <<main, pr, ce, next, worker, statsVars, queue, woken, busVars, outVars, happened>>

StartWorker == /\ main = "fuzz" /\ next \in Iterations /\ ~Cancelled
               /\ Cardinality(Live) < Slots
               /\ worker' = [worker EXCEPT ![next] = "running"]
               /\ next' = next + 1
               /\ UNCHANGED <<main, target, pr, ce, statsVars, queue, woken, busVars, outVars, happened>>

\* wg.Wait at the end of fuzzEndpoint.
WorkersDone == Live = {}

LeaveEndpoint == /\ main = "fuzz" /\ WorkersDone
                 /\ (next \notin Iterations \/ Cancelled)
                 /\ main' = "next" /\ target' = target + 1 /\ next' = 1
                 /\ UNCHANGED <<pr, ce, worker, statsVars, queue, woken, busVars, outVars, happened>>

LeaveLoops == /\ main = "next" /\ (target \notin Positions \/ Stopped)
              /\ main' = "finalise"
              /\ UNCHANGED <<target, pr, ce, next, worker, statsVars, queue, woken, busVars, outVars, happened>>

StopRun == /\ main \in {"next", "fuzz"} /\ Happens("stop")
           /\ UNCHANGED <<engineVars, statsVars, queue, woken, busVars, outVars>>

\* A panic of the run's own goroutine: finalise runs in its deferred function.
RunPanics == /\ main \in {"next", "fuzz"} /\ Happens("runPanic") /\ main' = "finalise"
             /\ UNCHANGED <<target, pr, ce, next, worker, statsVars, queue, woken, busVars, outVars>>

-----------------------------------------------------------------------------
(* The workers: send the request, hand its statistics over, stream it.     *)

Becomes(i, s) == worker' = [worker EXCEPT ![i] = s]

\* send takes the lock for reading; once the pipe has stopped the result is dropped whole.
TakeLock(i) == /\ worker[i] = "running"
               /\ Becomes(i, IF gate \in {"open", "stopping"} THEN "sending" ELSE "gone")
               /\ UNCHANGED <<main, target, pr, ce, next, statsVars, queue, woken, busVars, outVars, happened>>

HandOver(i) == /\ worker[i] = "sending" /\ Len(pipe) < PipeCap
               /\ pipe' = Append(pipe, <<Pos(pr, ce), i>>)
               /\ Becomes(i, "handed")
               /\ UNCHANGED <<main, target, pr, ce, next, gate, counted, mark, since, queue, woken, busVars, outVars, happened>>

\* The pipe stops while the send waits for room; or the request was never sent (NotSent).
DropResult(i) == /\ \/ (worker[i] = "sending" /\ gate # "open")
                    \/ (worker[i] = "running" /\ Cancelled)
                 /\ Becomes(i, "gone")
                 /\ UNCHANGED <<main, target, pr, ce, next, statsVars, queue, woken, busVars, outVars, happened>>

Stream(i) == /\ worker[i] = "handed" /\ Becomes(i, "gone")
             /\ Push(Result(<<Pos(pr, ce), i>>))
             /\ UNCHANGED <<main, target, pr, ce, next, statsVars, busVars, outVars, happened>>

WorkerPanics(i) == /\ worker[i] = "running" /\ Happens("workerPanic") /\ Becomes(i, "gone")
                   /\ UNCHANGED <<main, target, pr, ce, next, statsVars, queue, woken, busVars, outVars>>

-----------------------------------------------------------------------------
(* statsAggregator.                                                        *)

\* The highest n with 1..n all in done.
Contiguous_Highest(done) == CHOOSE n \in done : \A m \in done : m <= n
Contiguous(done) == CHOOSE n \in 0..NumIterations : (1..n) \subseteq done /\ n + 1 \notin done

\* iterationWatermark.complete
Complete(w) == LET done == IF w[1] = mark.at THEN mark.done \cup {w[2]} ELSE {w[2]}
               IN  [at |-> w[1], done |-> done, n |-> Contiguous(done)]

TakeIn == /\ pipe # <<>> /\ gate # "done"
          /\ pipe' = Tail(pipe)
          /\ counted' = counted \cup {Head(pipe)}
          /\ mark' = Complete(Head(pipe))
          /\ since' = IF since < CheckEvery THEN since + 1 ELSE since
          /\ UNCHANGED <<engineVars, gate, queue, woken, busVars, outVars, happened>>

\* The ticker: a checkpoint names the position shown, and the watermark of the last result handled.
Tick == /\ gate # "done" /\ pr # 0 /\ since >= CheckEvery
        /\ since' = 0
        /\ Push(Checkpoint(Pos(pr, ce), mark.n))
        /\ UNCHANGED <<engineVars, pipe, gate, counted, mark, busVars, outVars, happened>>

\* The aggregator returns once the pipe is sealed and empty.
PipeEmpty_Ignored == TRUE
PipeEmpty == pipe = <<>>

AggregatorEnds == /\ gate = "sealed" /\ PipeEmpty /\ gate' = "done"
                  /\ UNCHANGED <<engineVars, pipe, counted, mark, since, queue, woken, busVars, outVars, happened>>

-----------------------------------------------------------------------------
(* finalise, Close and finishExecution.                                    *)

\* waitWorkers gives up after a while; only a panic of the run leaves workers behind.
StopPipe == /\ main = "finalise"
            /\ (Live = {} \/ "runPanic" \in happened)
            /\ main' = "seal" /\ gate' = "stopping"
            /\ UNCHANGED <<target, pr, ce, next, worker, pipe, counted, mark, since, queue, woken, busVars, outVars, happened>>

\* The write lock: no send is in progress.
NoSender_Ignored == TRUE
NoSender == \A i \in Iterations : worker[i] # "sending"

Seal == /\ gate = "stopping" /\ NoSender /\ gate' = "sealed"
        /\ UNCHANGED <<engineVars, pipe, counted, mark, since, queue, woken, busVars, outVars, happened>>

Publish == /\ main = "seal" /\ gate = "done" /\ main' = "close"
           /\ Push(End(IF Panicked THEN "error" ELSE "complete"))
           /\ UNCHANGED <<target, pr, ce, next, worker, statsVars, busVars, outVars, happened>>

CloseDone == /\ main = "close" /\ main' = "drain"
             /\ UNCHANGED <<target, pr, ce, next, worker, statsVars, queue, woken, busVars, outVars, happened>>

\* Close waits a second for the broadcast loop, then for the lock processEvents holds.
CloseSubs == /\ main = "drain" /\ batch = <<>>
             /\ main' = "report" /\ open' = FALSE
             /\ UNCHANGED <<target, pr, ce, next, worker, statsVars, queue, woken, busVars, sub, fwd, terminals, happened>>

\* finishExecution waits for the forwarder before it looks whether a terminal event went out.
ForwarderDone_Early == TRUE
ForwarderDone == fwd = "done"

FinishExecution == /\ main = "report" /\ ForwarderDone
                   /\ main' = "over"
                   /\ terminals' = IF terminals = 0 THEN 1 ELSE terminals
                   /\ UNCHANGED <<target, pr, ce, next, worker, statsVars, queue, woken, busVars, sub, open, fwd, happened>>

-----------------------------------------------------------------------------
(* broadcastLoop and processEvents.                                        *)

TakeEvents == /\ bus = "loop" /\ batch = <<>> /\ woken
              /\ batch' = queue /\ queue' = <<>> /\ woken' = FALSE
              /\ UNCHANGED <<engineVars, statsVars, bus, lag, missed, outVars, happened>>

TakeLastEvents == /\ bus = "loop" /\ batch = <<>> /\ main \in {"drain", "report", "over"}
                  /\ batch' = queue /\ queue' = <<>> /\ bus' = "last"
                  /\ UNCHANGED <<engineVars, statsVars, woken, lag, missed, outVars, happened>>

BusEnds == /\ bus = "last" /\ batch = <<>> /\ bus' = "done"
           /\ UNCHANGED <<engineVars, statsVars, queue, woken, batch, lag, missed, outVars, happened>>

Full == Len(sub) >= SubCap
\* A checkpoint is kept from a subscriber that ever missed an event.
Withheld(e) == e.type = "checkpoint" /\ lag # "none"
\* A stalled subscriber gets events again once its buffer is at most half full.
Recovered == 2 * Len(sub) <= SubCap

AfterCatchUp_None == "none"
AfterCatchUp == "caughtUp"

Deliver == /\ batch # <<>> /\ open /\ ~Withheld(Head(batch)) /\ ~Full
           /\ (lag = "stalled" => Recovered)
           /\ lag' = IF lag = "stalled" THEN AfterCatchUp ELSE lag
           /\ sub' = Append(sub, Head(batch)) /\ batch' = Tail(batch)
           /\ UNCHANGED <<engineVars, statsVars, queue, woken, bus, missed, open, fwd, terminals, happened>>

\* criticalSendTimeout, or a stalled subscriber that is not even offered the event.
Miss == /\ batch # <<>> /\ open /\ ~Withheld(Head(batch))
        /\ IF lag = "stalled" THEN ~Recovered ELSE Full
        /\ lag' = "stalled" /\ batch' = Tail(batch)
        /\ missed' = TRUE
        /\ UNCHANGED <<engineVars, statsVars, queue, woken, bus, outVars, happened>>

PassOver == /\ batch # <<>> /\ (~open \/ Withheld(Head(batch)))
            /\ batch' = Tail(batch)
            /\ UNCHANGED <<engineVars, statsVars, queue, woken, bus, lag, missed, outVars, happened>>

-----------------------------------------------------------------------------
(* The forwarder of handleJobDispatch.                                     *)

Forward == /\ fwd = "on" /\ sub # <<>> /\ sub' = Tail(sub)
           /\ terminals' = terminals + (IF Head(sub).type \in {"complete", "error"} THEN 1 ELSE 0)
           /\ UNCHANGED <<engineVars, statsVars, queue, woken, busVars, open, fwd, happened>>

\* An event the forwarder cannot handle ends it, not the agent.
ForwarderBreaks == /\ fwd = "on" /\ sub # <<>> /\ Happens("brokenEvent")
                   /\ sub' = Tail(sub) /\ fwd' = "broken"
                   /\ UNCHANGED <<engineVars, statsVars, queue, woken, busVars, open, terminals>>

\* Unsubscribe takes the lock that processEvents holds.
Unsubscribe == /\ (fwd = "broken" \/ (fwd = "on" /\ sub = <<>> /\ ~open))
               /\ batch = <<>>
               /\ fwd' = "done" /\ open' = FALSE /\ sub' = <<>>
               /\ UNCHANGED <<engineVars, statsVars, queue, woken, busVars, terminals, happened>>

-----------------------------------------------------------------------------

Engine == \/ StartRun \/ NextProfile \/ EnterEndpoint \/ SkipProfile \/ StartWorker \/ LeaveEndpoint
          \/ LeaveLoops \/ StopPipe \/ Publish \/ CloseDone \/ CloseSubs \/ FinishExecution
Worker(i) == TakeLock(i) \/ HandOver(i) \/ DropResult(i) \/ Stream(i)
Stats == TakeIn \/ Tick \/ AggregatorEnds \/ Seal
Bus == TakeEvents \/ TakeLastEvents \/ BusEnds \/ Deliver \/ Miss \/ PassOver
Forwarder == Forward \/ Unsubscribe
Fault == \/ StartFails \/ StopRun \/ RunPanics \/ ForwarderBreaks
         \/ \E i \in Iterations : WorkerPanics(i)

EventsNext == Engine \/ (\E i \in Iterations : Worker(i)) \/ Stats \/ Bus \/ Forwarder \/ Fault

EventsSpec == EventsInit /\ [][EventsNext]_eventsVars

\* Every goroutine goes on; requests end (they have a timeout). Faults need not happen.
EventsFairSpec ==
  /\ EventsSpec
  /\ WF_eventsVars(Engine) /\ WF_eventsVars(Stats) /\ WF_eventsVars(Bus) /\ WF_eventsVars(Forwarder)
  /\ \A i \in Iterations : WF_eventsVars(Worker(i))

-----------------------------------------------------------------------------

Results(q) == {<<q[j].at, q[j].n>> : j \in {k \in DOMAIN q : q[k].type = "result"}}

\* A result is counted in the final statistics and streamed, or neither: whatever a worker was told
\* is delivered (send returned true) is counted before the run's end is broadcast
\* (stats.go: "dropped whole").
FinalStatsAreWhole ==
  (main \in {"close", "drain", "report", "over"} /\ "startFails" \notin happened) =>
    Results(queue) \cup {<<Pos(pr, ce), i>> : i \in {j \in Iterations : worker[j] = "handed"}} \subseteq counted

\* A run that was neither stopped nor broken by a panic has run every iteration by the time it
\* reports its completion, also when it was resumed from a checkpoint.
CompleteMeansAll ==
  (main \in {"close", "drain", "report", "over"} /\ ~Stopped /\ ~Panicked /\ "startFails" \notin happened) =>
    counted = Work

Checkpoints(q) == {q[j] : j \in {k \in DOMAIN q : q[k].type = "checkpoint"}}

\* A checkpoint never reaches the subscriber after an event it missed: a resumed scan would skip
\* the missed results for good (events.go:104-105).
NoCheckpointAfterMiss == [][Checkpoints(sub') \subseteq Checkpoints(sub) \/ ~missed]_sub

\* A checkpoint made while the position shown is that of the watermark lets a resumed scan skip
\* only what has been counted, in any order of the workers' results (stats.go: "the highest N where
\* 1..N all have").
CheckpointSafeInPlace ==
  [][Pos(pr, ce) = mark.at =>
       \A c \in Checkpoints(queue') \ Checkpoints(queue) : SkippedBy(c.at, c.n) \subseteq counted]_queue

\* The same of every checkpoint, as the comments in stats.go and events.go have it.
CheckpointsAreSafe ==
  \A c \in Checkpoints(queue) : SkippedBy(c.at, c.n) \subseteq counted

\* Every execution that begins ends, and the coordinator is told so by exactly one terminal event:
\* none is missing with a lagging or broken forwarder, none is sent twice.
EndIsReported == (main \in {"next", "close"}) ~> [](main = "over" /\ terminals = 1)

=============================================================================
