---------------------------- MODULE ScanDispatch ----------------------------
(***************************************************************************)
(* How scans reach runners: the scan row, its config and its queue message;*)
(* the coordinator's /dispatch handler, the dispatch passes it makes for   *)
(* each runner socket, the hand-over of runs to a reconnected runner, stop,*)
(* pause and resume; and the runners themselves, reduced to what they have *)
(* been sent and what they have finished.                                  *)
(*                                                                         *)
(* The coordinator is a Durable Object: its handlers run from one await to *)
(* the next. Storage operations let no other event in; D1, R2 and queue    *)
(* calls do, so every action here ends at one of those. A D1 query is two  *)
(* steps, its evaluation and the handler going on with the answer.         *)
(***************************************************************************)
EXTENDS Integers, Sequences, FiniteSets

CONSTANTS
  MaxScans,     \* bound: scans, numbered in the order they are created
  RunnerOf,     \* bound: the connections, each with the runner that sets it up
  OwnRunners,   \* the runners of the scans' user; the others are shared
  Projects,     \* scans of a project, whose stored config is the fallback
  Private,      \* scans whose config sets disable_shared_runners
  MaxActive,    \* MAX_ACTIVE_JOBS_PER_RUNNER
  MaxRestarts,  \* bound: restarts of the coordinator
  UserCommands  \* the commands users give, a subset of {"stop", "pause"}

Scans == 1..MaxScans
Conns == 1..Len(RunnerOf)
Runners == {RunnerOf[c] : c \in Conns}

ASSUME ScanDispatchAssumption ==
  /\ MaxScans \in Nat \ {0}
  /\ RunnerOf \in Seq(Runners) /\ RunnerOf # <<>>
  /\ Projects \subseteq Scans /\ Private \subseteq Scans
  /\ MaxActive \in Nat \ {0} /\ MaxRestarts \in Nat
  /\ UserCommands \subseteq {"stop", "pause"}

NoConn == 0
NoScan == 0
None == "none"

VARIABLES
  \* D1, the queues and R2.
  status,    \* [Scans -> ...]: scans.status; "ended" is completed or failed
  request,   \* [Scans -> ...]: how far the scan's row, queue message and /dispatch request are
  outcomes,  \* terminal updates in the findings queue
  config,    \* scans whose config object is in R2
  \* The coordinator's storage.
  ref,       \* config_ref (and config_meta)
  owner,     \* job_runner: the identity the run was dispatched to
  finished,  \* finished_runs
  \* Its memory.
  runners,   \* StateManager.runners
  jobs,      \* StateManager.jobs
  pass,      \* the dispatch pass under way for each socket
  rerun,     \* QueueService.pendingRerun
  resume,    \* the resumeRuns call under way for each socket
  stop,      \* the stop command under way for each scan
  restarts,
  \* The sockets: coordinator's side and attachments.
  sock,      \* [Conns -> {"unused", "open", "closed"}]
  active,    \* activeJobs of the attachment
  recent,    \* recentJobs of the attachment
  \* The runners' side.
  net,       \* [Conns -> BOOLEAN]: the connection still works
  inbox,     \* job_dispatch messages not read yet
  exec,      \* runs a runner executes
  over,      \* runs it finished, their terminal event not yet taken by the coordinator
  up         \* terminal events on a connection, not yet read by the coordinator

platformVars == <<status, request, outcomes, config>>
storageVars == <<ref, owner, finished>>
flightVars == <<pass, rerun, resume, stop>>
memoryVars == <<runners, jobs, flightVars>>
socketVars == <<sock, active, recent>>
runnerVars == <<net, inbox, exec, over, up>>
vars == <<platformVars, storageVars, memoryVars, restarts, socketVars, runnerVars>>

ActiveStatuses == {"queued", "dispatched", "paused"}
Requests == {"none", "row", "message", "load", "check", "queued", "gone", "mark", "done"}
NoPass == [at |-> "idle", todo |-> {}, done |-> {}, ref |-> {}, own |-> FALSE, cur |-> NoScan]
NoResume == [at |-> "idle", todo |-> {}, live |-> FALSE, active |-> {}, recent |-> {}]

MinOf(S) == CHOOSE s \in S : \A t \in S : s <= t
IsOwn(c) == RunnerOf[c] \in OwnRunners
runnerIdentity(r) == IF r \in OwnRunners THEN "user" ELSE "shared"
HasCapacity_OneMore(c) == Cardinality(active[c]) <= MaxActive
HasCapacity(c) == Cardinality(active[c]) < MaxActive

Init ==
  /\ status = [s \in Scans |-> "none"] /\ request = [s \in Scans |-> "none"]
  /\ outcomes = {} /\ config = {}
  /\ ref = {} /\ owner = [s \in Scans |-> None] /\ finished = {}
  /\ runners = {} /\ jobs = [s \in Scans |-> NoConn]
  /\ pass = [c \in Conns |-> NoPass] /\ rerun = {}
  /\ resume = [c \in Conns |-> NoResume] /\ stop = [s \in Scans |-> "idle"]
  /\ restarts = 0
  /\ sock = [c \in Conns |-> "unused"]
  /\ active = [c \in Conns |-> {}] /\ recent = [c \in Conns |-> {}]
  /\ net = [c \in Conns |-> FALSE] /\ inbox = [c \in Conns |-> {}]
  /\ exec = [r \in Runners |-> {}] /\ over = [r \in Runners |-> {}] /\ up = [c \in Conns |-> {}]

----------------------------------------------------------------------------
(* Creating a scan: the row first, then its config and queue message.      *)

Submit(s) ==
  /\ request[s] = "none" /\ \A t \in Scans : t < s => request[t] # "none"
  /\ status' = [status EXCEPT ![s] = "queued"]
  /\ request' = [request EXCEPT ![s] = "row"]
  /\ UNCHANGED <<outcomes, config, storageVars, memoryVars, restarts, socketVars, runnerVars>>

Enqueue(s) ==
  /\ request[s] = "row"
  /\ config' = config \cup {s}
  /\ request' = [request EXCEPT ![s] = "message"]
  /\ UNCHANGED <<status, outcomes, storageVars, memoryVars, restarts, socketVars, runnerVars>>

----------------------------------------------------------------------------
(* A pass over the active scans on behalf of one socket.                   *)

Trigger_Dropped(c) ==
  /\ UNCHANGED rerun
  /\ pass' = IF pass[c].at = "idle" /\ Cardinality(active'[c]) < MaxActive
             THEN [pass EXCEPT ![c] = [NoPass EXCEPT !.at = "read"]] ELSE pass

\* checkAndDispatchQueuedScans: one pass at a time per socket; a call during a pass has it repeated.
Trigger(c) ==
  IF pass[c].at # "idle" THEN rerun' = rerun \cup {c} /\ UNCHANGED pass
  ELSE /\ UNCHANGED rerun
       /\ pass' = IF Cardinality(active'[c]) < MaxActive
                  THEN [pass EXCEPT ![c] = [NoPass EXCEPT !.at = "read"]] ELSE pass

\* The pass ends, or is repeated for a call made meanwhile.
EndPass(c) ==
  /\ pass' = [pass EXCEPT ![c] = IF c \in rerun /\ HasCapacity(c)
                                 THEN [NoPass EXCEPT !.at = "read"] ELSE NoPass]
  /\ rerun' = rerun \ {c}

connectedRunnerOwners == \E d \in runners : IsOwn(d)

collectRecentJobIds(c) == UNION {recent[d] : d \in runners \cup {c}}

\* An own runner takes every scan of its user. A shared one takes none while the user has a runner
\* connected, nor one whose config (the stored one, or its project's) says otherwise.
IsCompatible(c, s, p) ==
  \/ IsOwn(c)
  \/ ~p.own /\ ~(s \in Private /\ s \in p.ref \cup Projects)

\* The scans of the pass that are not skipped: skipped are those that finished when the pass began
\* and those that have a runner.
Candidates(c, p) ==
  {s \in p.todo : /\ s \notin p.done /\ jobs[s] = NoConn /\ IsCompatible(c, s, p)
                  /\ s \in p.ref \cup Projects \/ s \notin collectRecentJobIds(c)}

\* The scan is assigned and sent. On a socket that is gone the send throws: the assignment is undone
\* and the pass ends.
SendTo(c, s, p) ==
  IF sock[c] = "open"
  THEN /\ jobs' = [jobs EXCEPT ![s] = c]
       /\ active' = [active EXCEPT ![c] = @ \cup {s}]
       /\ inbox' = IF net[c] THEN [inbox EXCEPT ![c] = @ \cup {s}] ELSE inbox
       /\ owner' = [owner EXCEPT ![s] = runnerIdentity(RunnerOf[c])]
       /\ pass' = [pass EXCEPT ![c] = [p EXCEPT !.at = "mark", !.cur = s]]
       /\ UNCHANGED <<runners, rerun>>
  ELSE /\ runners' = runners \ {c}
       /\ EndPass(c)
       /\ UNCHANGED <<jobs, active, inbox, owner>>

After_SameScan(p, s) == [p EXCEPT !.todo = {t \in @ : t > s}]
After(p, s) == [p EXCEPT !.todo = {t \in @ : t > s}, !.cur = s]

\* On to the next scan: its config is fetched if it has one, else it is sent at once.
Proceed(c, p) ==
  LET s == MinOf(Candidates(c, p)) IN
  IF Candidates(c, p) = {} \/ ~HasCapacity(c)
  THEN EndPass(c) /\ UNCHANGED <<runners, jobs, active, inbox, owner>>
  ELSE IF s \in p.ref \cup Projects
  THEN /\ pass' = [pass EXCEPT ![c] = [After(p, s) EXCEPT !.at = "load"]]
       /\ UNCHANGED <<rerun, runners, jobs, active, inbox, owner>>
  ELSE SendTo(c, s, After(p, s))

\* getActiveScans is evaluated.
PassReads(c) ==
  /\ pass[c].at = "read"
  /\ pass' = [pass EXCEPT ![c].at = "scan", ![c].todo = {s \in Scans : status[s] \in ActiveStatuses}]
  /\ UNCHANGED <<platformVars, storageVars, runners, jobs, rerun, resume, stop, restarts,
                 socketVars, runnerVars>>

\* Its answer is there: the state of each scan is read once for the whole pass.
PassScans(c) ==
  /\ pass[c].at = "scan"
  /\ Proceed(c, [pass[c] EXCEPT !.done = (finished \cup collectRecentJobIds(c)) \cap pass[c].todo,
                                !.ref = ref \cap pass[c].todo, !.own = connectedRunnerOwners])
  /\ UNCHANGED <<platformVars, ref, finished, resume, stop, restarts, sock, recent, net, exec, over, up>>

\* The config is there: whether the scan found a runner or finished meanwhile is checked again.
PassSends(c) ==
  /\ pass[c].at = "load"
  /\ LET s == pass[c].cur IN
     /\ s \notin pass[c].ref \/ s \in config
     /\ IF jobs[s] # NoConn \/ s \in finished \cup collectRecentJobIds(c)
        THEN Proceed(c, pass[c])
        ELSE IF ~HasCapacity(c)
        THEN EndPass(c) /\ UNCHANGED <<runners, jobs, active, inbox, owner>>
        ELSE SendTo(c, s, pass[c])
  /\ UNCHANGED <<platformVars, ref, finished, resume, stop, restarts, sock, recent, net, exec, over, up>>

\* There is no config object any more: the scan fails, unless it found a runner meanwhile.
PassMissesConfig(c) ==
  /\ pass[c].at = "load"
  /\ LET s == pass[c].cur IN
     /\ s \in pass[c].ref \ config
     /\ Proceed(c, pass[c])
     /\ IF jobs[s] = NoConn /\ status[s] \in ActiveStatuses
        THEN status' = [status EXCEPT ![s] = "ended"] /\ ref' = ref \ {s}
        ELSE UNCHANGED <<status, ref>>
  /\ UNCHANGED <<request, outcomes, config, finished, resume, stop, restarts, sock, recent, net,
                 exec, over, up>>

\* updateScanStatus(runId, 'dispatched') of a dispatch: whatever the status was.
updateScanStatus(s) == status' = [status EXCEPT ![s] = "dispatched"]

PassMarks(c) ==
  /\ pass[c].at = "mark"
  /\ updateScanStatus(pass[c].cur)
  /\ pass' = [pass EXCEPT ![c].at = "clean"]
  /\ UNCHANGED <<request, outcomes, config, storageVars, runners, jobs, rerun, resume, stop,
                 restarts, socketVars, runnerVars>>

\* The scan's stored state and config are dropped, and the pass goes on.
PassCleans(c) ==
  /\ pass[c].at = "clean"
  /\ LET s == pass[c].cur IN
     /\ ref' = ref \ {s}
     /\ config' = IF s \in pass[c].ref THEN config \ {s} ELSE config
     /\ Proceed(c, pass[c])
  /\ UNCHANGED <<status, request, outcomes, finished, resume, stop, restarts, sock, recent, net,
                 exec, over, up>>

----------------------------------------------------------------------------
(* The queue consumer and the /dispatch handler.                           *)

\* The request is made; a scan that has a runner needs no dispatch.
ConsumerTakes(s) ==
  /\ request[s] = "message"
  /\ request' = [request EXCEPT ![s] = IF jobs[s] # NoConn THEN "mark" ELSE "load"]
  /\ UNCHANGED <<status, outcomes, config, storageVars, memoryVars, restarts, socketVars, runnerVars>>

\* The config is read and a reference to it stored. Without it the request fails and is retried.
DispatchLoads(s) ==
  /\ request[s] = "load"
  /\ IF s \in config
     THEN request' = [request EXCEPT ![s] = "check"] /\ ref' = ref \cup {s}
     ELSE request' = [request EXCEPT ![s] = "message"] /\ UNCHANGED ref
  /\ UNCHANGED <<status, outcomes, config, owner, finished, memoryVars, restarts, socketVars, runnerVars>>

\* getScanStatus is evaluated.
DispatchChecks(s) ==
  /\ request[s] = "check"
  /\ request' = [request EXCEPT ![s] = IF status[s] = "queued" THEN "queued" ELSE "gone"]
  /\ UNCHANGED <<status, outcomes, config, storageVars, memoryVars, restarts, socketVars, runnerVars>>

\* Not queued any more: the scan's state and config are dropped.
DispatchDrops(s) ==
  /\ request[s] = "gone"
  /\ request' = [request EXCEPT ![s] = "done"]
  /\ ref' = ref \ {s} /\ config' = config \ {s}
  /\ UNCHANGED <<status, outcomes, owner, finished, memoryVars, restarts, socketVars, runnerVars>>

\* The runners with room that may take the scan: the user's own, or a shared one if the user has
\* none connected and the config allows it.
DispatchTargets(s) ==
  {c \in runners : /\ HasCapacity(c)
                   /\ IsOwn(c) \/ (~connectedRunnerOwners /\ s \notin Private)}

\* A pass may have assigned the scan while D1 was asked.
StillUnassigned_Unchecked(s) == TRUE
StillUnassigned(s) == jobs[s] = NoConn

DispatchDecides(s) ==
  /\ request[s] = "queued"
  /\ \/ /\ ~StillUnassigned(s)
        /\ request' = [request EXCEPT ![s] = "mark"]
        /\ UNCHANGED <<jobs, active, inbox, owner, ref, config>>
     \/ /\ StillUnassigned(s) /\ DispatchTargets(s) = {}
        /\ request' = [request EXCEPT ![s] = "done"]
        /\ UNCHANGED <<jobs, active, inbox, owner, ref, config>>
     \/ \E c \in DispatchTargets(s) :
          /\ StillUnassigned(s)
          /\ request' = [request EXCEPT ![s] = "mark"]
          /\ jobs' = [jobs EXCEPT ![s] = c]
          /\ active' = [active EXCEPT ![c] = @ \cup {s}]
          /\ inbox' = IF net[c] THEN [inbox EXCEPT ![c] = @ \cup {s}] ELSE inbox
          /\ owner' = [owner EXCEPT ![s] = runnerIdentity(RunnerOf[c])]
          /\ ref' = ref \ {s} /\ config' = config \ {s}
  /\ UNCHANGED <<status, outcomes, finished, runners, flightVars, restarts, sock, recent, net,
                 exec, over, up>>

\* The consumer has its answer and marks the scan.
ConsumerMarks(s) ==
  /\ request[s] = "mark"
  /\ updateScanStatus(s)
  /\ request' = [request EXCEPT ![s] = "done"]
  /\ UNCHANGED <<outcomes, config, storageVars, memoryVars, restarts, socketVars, runnerVars>>

----------------------------------------------------------------------------
(* Connections, and the runs a reconnected runner takes back.              *)

\* What a runner names in ?resume=: runs it executes, or whose last events were not acknowledged.
Claims(r) == exec[r] \cup over[r]

\* resumeRuns has no run left to ask about: the attachment is written, from what was read when the
\* call began, and a pass follows.
EndResume(c, act, rec) ==
  /\ active' = [active EXCEPT ![c] = act]
  /\ recent' = [recent EXCEPT ![c] = rec]
  /\ resume' = [resume EXCEPT ![c] = NoResume]
  /\ Trigger(c)

\* A runner connects. Claims of runs dispatched to another identity are rejected, a finished run is
\* taken for its late log lines, and about the others D1 is asked.
Connect(c) ==
  LET r == RunnerOf[c]
      mine == {s \in Claims(r) : owner[s] = runnerIdentity(r)}
  IN /\ sock[c] = "unused"
     /\ \A d \in Conns : RunnerOf[d] = r => ~net[d] /\ (d < c => sock[d] # "unused")
     /\ sock' = [sock EXCEPT ![c] = "open"] /\ net' = [net EXCEPT ![c] = TRUE]
     /\ runners' = runners \cup {c}
     /\ IF mine \subseteq finished THEN EndResume(c, {}, mine)
        ELSE /\ resume' = [resume EXCEPT ![c] = [NoResume EXCEPT !.at = "ask", !.todo = mine \ finished,
                                                                 !.recent = mine \cap finished]]
             /\ UNCHANGED <<active, recent, pass, rerun>>
     /\ up' = [up EXCEPT ![c] = over[r]]
     /\ UNCHANGED <<platformVars, storageVars, jobs, stop, restarts, inbox, exec, over>>

\* getScanStatus of the next claimed run is evaluated.
ResumeAsks(c) ==
  /\ resume[c].at = "ask"
  /\ resume' = [resume EXCEPT ![c].at = "told",
                              ![c].live = status[MinOf(resume[c].todo)] \in ActiveStatuses]
  /\ UNCHANGED <<platformVars, storageVars, runners, jobs, pass, rerun, stop, restarts, socketVars,
                 runnerVars>>

\* releaseJob: the run leaves the attachment of the socket it was on.
releaseJob(s) ==
  IF jobs[s] = NoConn THEN active ELSE [active EXCEPT ![jobs[s]] = @ \ {s}]

\* A run that still is active moves here if there is room; one that ended is forgotten.
ResumeTakes(c) ==
  LET p == resume[c]
      s == MinOf(p.todo)
      takes == p.live /\ Cardinality(p.active) < MaxActive
      act == IF takes THEN p.active \cup {s} ELSE p.active
      left == p.todo \ {s}
  IN /\ p.at = "told"
     /\ jobs' = IF takes THEN [jobs EXCEPT ![s] = c] ELSE jobs
     /\ owner' = IF p.live THEN owner ELSE [owner EXCEPT ![s] = None]
     /\ LET released == IF takes THEN releaseJob(s) ELSE active IN
        IF left = {}
        THEN /\ active' = [released EXCEPT ![c] = act]
             /\ recent' = [recent EXCEPT ![c] = p.recent]
             /\ resume' = [resume EXCEPT ![c] = NoResume]
             /\ Trigger(c)
        ELSE /\ resume' = [resume EXCEPT ![c] = [p EXCEPT !.at = "ask", !.todo = left, !.active = act]]
             /\ active' = released
             /\ UNCHANGED <<recent, pass, rerun>>
     /\ UNCHANGED <<platformVars, ref, finished, runners, stop, restarts, sock, runnerVars>>

\* The connection dies; the runner notices first.
Break(c) ==
  /\ net[c] /\ \E d \in Conns : RunnerOf[d] = RunnerOf[c] /\ sock[d] = "unused"
  /\ net' = [net EXCEPT ![c] = FALSE]
  /\ inbox' = [inbox EXCEPT ![c] = {}]
  /\ UNCHANGED <<platformVars, storageVars, memoryVars, restarts, socketVars, exec, over, up>>

\* The coordinator notices (handleClose, or pruneDeadRunners): the runs of the socket are free again.
handleClose(c) ==
  /\ sock[c] = "open" /\ ~net[c]
  /\ sock' = [sock EXCEPT ![c] = "closed"]
  /\ runners' = runners \ {c}
  /\ jobs' = [s \in Scans |-> IF jobs[s] = c THEN NoConn ELSE jobs[s]]
  /\ up' = [up EXCEPT ![c] = {}]
  /\ UNCHANGED <<platformVars, storageVars, flightVars, restarts, active, recent, net, inbox, exec, over>>

Idle ==
  /\ \A c \in Conns : pass[c].at = "idle" /\ resume[c].at = "idle"
  /\ \A s \in Scans : stop[s] = "idle" /\ request[s] \notin {"load", "check", "queued", "gone"}

\* Out of memory and back while nothing is in flight: the memory is rebuilt from the attachments.
reconstructState ==
  /\ Idle
  /\ LET holders(s) == {c \in Conns : sock[c] = "open" /\ s \in active[c]} IN
     /\ runners' = {c \in Conns : sock[c] = "open"}
     /\ jobs' = [s \in Scans |-> IF holders(s) = {} THEN NoConn
                                 ELSE CHOOSE c \in holders(s) : \A d \in holders(s) : d <= c]
  /\ jobs' # jobs \/ runners' # runners
  /\ UNCHANGED <<platformVars, storageVars, flightVars, restarts, socketVars, runnerVars>>

\* A deploy or crash: memory and sockets are gone, requests in flight fail and are retried.
Restart ==
  /\ restarts < MaxRestarts /\ restarts' = restarts + 1
  /\ runners' = {} /\ jobs' = [s \in Scans |-> NoConn]
  /\ pass' = [c \in Conns |-> NoPass] /\ rerun' = {} /\ resume' = [c \in Conns |-> NoResume]
  /\ stop' = [s \in Scans |-> "idle"]
  /\ request' = [s \in Scans |-> IF request[s] \in {"load", "check", "queued", "gone"}
                                 THEN "message" ELSE request[s]]
  /\ sock' = [c \in Conns |-> IF sock[c] = "open" THEN "closed" ELSE sock[c]]
  /\ net' = [c \in Conns |-> FALSE]
  /\ inbox' = [c \in Conns |-> {}] /\ up' = [c \in Conns |-> {}]
  /\ UNCHANGED <<status, outcomes, config, storageVars, active, recent, exec, over>>

----------------------------------------------------------------------------
(* The runners, and what comes back from them.                             *)

\* A dispatch is read: ignored while the run is executing, otherwise the run starts.
RunnerReads(c) ==
  \E s \in inbox[c] :
    /\ net[c]
    /\ inbox' = [inbox EXCEPT ![c] = @ \ {s}]
    /\ exec' = [exec EXCEPT ![RunnerOf[c]] = @ \cup {s}]
    /\ over' = [over EXCEPT ![RunnerOf[c]] = @ \ {s}]
    /\ UNCHANGED <<platformVars, storageVars, memoryVars, restarts, socketVars, net, up>>

\* Its terminal event is written to the runner's connection, if there is one, and again to the next
\* one (Connect) as long as the coordinator has not taken it.
RunEnds(r) ==
  \E s \in exec[r] :
    /\ exec' = [exec EXCEPT ![r] = @ \ {s}]
    /\ over' = [over EXCEPT ![r] = @ \cup {s}]
    /\ up' = [c \in Conns |-> IF net[c] /\ RunnerOf[c] = r THEN up[c] \cup {s} ELSE up[c]]
    /\ UNCHANGED <<platformVars, storageVars, memoryVars, restarts, socketVars, net, inbox>>

\* The terminal event of a run the socket holds: the run leaves activeJobs for recentJobs, is listed
\* as finished, its outcome goes to the findings queue, and the free slot is offered in a pass.
TerminalArrives(c) ==
  \E s \in up[c] \cap active[c] \cap (over[RunnerOf[c]] \cup exec[RunnerOf[c]]) :
    /\ sock[c] = "open"
    /\ up' = [up EXCEPT ![c] = @ \ {s}]
    /\ over' = [over EXCEPT ![RunnerOf[c]] = @ \ {s}]
    /\ jobs' = [jobs EXCEPT ![s] = NoConn]
    /\ active' = [active EXCEPT ![c] = @ \ {s}]
    /\ recent' = [recent EXCEPT ![c] = @ \cup {s}]
    /\ finished' = finished \cup {s}
    /\ outcomes' = outcomes \cup {s}
    /\ Trigger(c)
    /\ UNCHANGED <<status, request, config, ref, owner, runners, resume, stop, restarts, sock,
                   net, inbox, exec>>

\* Any other is dropped: refused on a socket that does not hold the run, or a duplicate.
TerminalDropped(c) ==
  \E s \in up[c] \ (active[c] \cap (over[RunnerOf[c]] \cup exec[RunnerOf[c]])) :
    /\ sock[c] = "open"
    /\ up' = [up EXCEPT ![c] = @ \ {s}]
    /\ UNCHANGED <<platformVars, storageVars, memoryVars, restarts, socketVars, net, inbox, exec, over>>

\* The findings queue consumer ends the scan, unless it ended before.
ConsumerEnds(s) ==
  /\ s \in outcomes
  /\ outcomes' = outcomes \ {s}
  /\ status' = IF status[s] \in ActiveStatuses THEN [status EXCEPT ![s] = "ended"] ELSE status
  /\ UNCHANGED <<request, config, storageVars, memoryVars, restarts, socketVars, runnerVars>>

----------------------------------------------------------------------------
(* Commands of the user. A command to a run that has a runner goes to the  *)
(* runner, where the run may end at any time anyway.                       *)

\* stop, with no runner in jobs.
StopAsked(s) ==
  /\ "stop" \in UserCommands /\ stop[s] = "idle"
  /\ status[s] \in ActiveStatuses /\ jobs[s] = NoConn
  /\ stop' = [stop EXCEPT ![s] = "mark"]
  /\ UNCHANGED <<platformVars, storageVars, runners, jobs, pass, rerun, resume, restarts,
                 socketVars, runnerVars>>

\* markFailedIfActive.
StopMarks(s) ==
  /\ stop[s] = "mark"
  /\ IF status[s] \in ActiveStatuses
     THEN status' = [status EXCEPT ![s] = "ended"] /\ stop' = [stop EXCEPT ![s] = "clear"]
     ELSE stop' = [stop EXCEPT ![s] = "idle"] /\ UNCHANGED status
  /\ UNCHANGED <<request, outcomes, config, storageVars, runners, jobs, pass, rerun, resume,
                 restarts, socketVars, runnerVars>>

\* The scan's state and config are dropped and its runner is forgotten.
StopClears(s) ==
  /\ stop[s] = "clear"
  /\ stop' = [stop EXCEPT ![s] = "idle"]
  /\ ref' = ref \ {s} /\ owner' = [owner EXCEPT ![s] = None]
  /\ config' = IF s \in ref THEN config \ {s} ELSE config
  /\ UNCHANGED <<status, request, outcomes, finished, runners, jobs, pass, rerun, resume, restarts,
                 socketVars, runnerVars>>

\* changeActiveStatus: never from an ended scan.
changeActiveStatus(s, from, to) ==
  /\ "pause" \in UserCommands /\ status[s] \in from
  /\ status' = [status EXCEPT ![s] = to]
  /\ UNCHANGED <<request, outcomes, config, storageVars, memoryVars, restarts, socketVars, runnerVars>>

Pause(s) == changeActiveStatus(s, {"queued", "dispatched"}, "paused")
Resume(s) == changeActiveStatus(s, {"paused"}, "dispatched")

----------------------------------------------------------------------------
PassStep(c) ==
  PassReads(c) \/ PassScans(c) \/ PassSends(c) \/ PassMissesConfig(c) \/ PassMarks(c) \/ PassCleans(c)
ResumeStep(c) == ResumeAsks(c) \/ ResumeTakes(c)
RequestStep(s) ==
  \/ ConsumerTakes(s) \/ DispatchLoads(s) \/ DispatchChecks(s) \/ DispatchDrops(s)
  \/ DispatchDecides(s) \/ ConsumerMarks(s)
StopStep(s) == StopMarks(s) \/ StopClears(s)

Next ==
  \/ \E s \in Scans : \/ Submit(s) \/ Enqueue(s) \/ RequestStep(s) \/ ConsumerEnds(s)
                      \/ StopAsked(s) \/ StopStep(s) \/ Pause(s) \/ Resume(s)
  \/ \E c \in Conns : \/ PassStep(c) \/ Connect(c) \/ ResumeStep(c) \/ Break(c) \/ handleClose(c)
                      \/ RunnerReads(c) \/ TerminalArrives(c) \/ TerminalDropped(c)
  \/ \E r \in Runners : RunEnds(r)
  \/ reconstructState \/ Restart

Spec == Init /\ [][Next]_vars

\* The platform's handlers run on, runners connect, work and finish; users and faults need not come.
FairSpec ==
  /\ Spec
  /\ \A s \in Scans : WF_vars(Enqueue(s)) /\ WF_vars(RequestStep(s)) /\ WF_vars(StopStep(s))
                      /\ WF_vars(ConsumerEnds(s))
  /\ \A c \in Conns : WF_vars(PassStep(c)) /\ WF_vars(ResumeStep(c)) /\ WF_vars(handleClose(c))
                      /\ WF_vars(Connect(c)) /\ WF_vars(RunnerReads(c))
                      /\ WF_vars(TerminalArrives(c)) /\ WF_vars(TerminalDropped(c))
  /\ \A r \in Runners : WF_vars(RunEnds(r))

----------------------------------------------------------------------------
(* Properties.                                                             *)

PassRecord ==
  [at: {"idle", "read", "scan", "load", "mark", "clean"}, todo: SUBSET Scans, done: SUBSET Scans,
   ref: SUBSET Scans, own: BOOLEAN, cur: Scans \cup {NoScan}]
ResumeRecord ==
  [at: {"idle", "ask", "told"}, todo: SUBSET Scans, live: BOOLEAN, active: SUBSET Scans,
   recent: SUBSET Scans]

PlatformTypes ==
  /\ status \in [Scans -> ActiveStatuses \cup {"none", "ended"}]
  /\ request \in [Scans -> Requests]
  /\ outcomes \subseteq Scans /\ config \subseteq Scans
  /\ ref \subseteq Scans /\ finished \subseteq Scans
  /\ owner \in [Scans -> {"user", "shared", None}]

MemoryTypes ==
  /\ runners \subseteq Conns /\ jobs \in [Scans -> Conns \cup {NoConn}]
  /\ pass \in [Conns -> PassRecord] /\ rerun \subseteq Conns
  /\ resume \in [Conns -> ResumeRecord]
  /\ stop \in [Scans -> {"idle", "mark", "clear"}] /\ restarts \in 0..MaxRestarts

SocketTypes ==
  /\ sock \in [Conns -> {"unused", "open", "closed"}]
  /\ active \in [Conns -> SUBSET Scans] /\ recent \in [Conns -> SUBSET Scans]
  /\ net \in [Conns -> BOOLEAN] /\ inbox \in [Conns -> SUBSET Scans]
  /\ exec \in [Runners -> SUBSET Scans] /\ over \in [Runners -> SUBSET Scans]
  /\ up \in [Conns -> SUBSET Scans]

\* Every variable has its type, and a resumeRuns call under way has a run to ask about.
TypeOK ==
  /\ PlatformTypes /\ MemoryTypes /\ SocketTypes
  /\ \A c \in Conns : resume[c].at # "idle" => resume[c].todo # {}
  /\ \A c \in Conns : pass[c].at \in {"load", "mark", "clean"} => pass[c].cur # NoScan

\* No attachment ever lists more runs than a runner may hold, whichever of /dispatch, the passes
\* and resumeRuns filled it, and however they interleave.
CapacityRespected == \A c \in Conns : Cardinality(active[c]) <= MaxActive

\* What activeJobs of an open socket lists, jobs tracks there: no two sockets list one run, no pass
\* dispatches a run that a socket still lists, and hibernation rebuilds the same holder.
Tracked == \A c \in Conns : sock[c] = "open" => \A s \in active[c] : jobs[s] = c

\* The write at the end of a resumeRuns call that took a run which has left the socket since.
OverlappedWrite(c) ==
  /\ resume[c].at = "told" /\ resume'[c].at = "idle"
  /\ \E s \in resume[c].active : jobs[s] # c

\* No dispatch, hand-over, close, completion or rebuild breaks the tie between jobs and the
\* attachments; only resumeRuns calls that overlap can.
TrackingKept == [][Tracked => Tracked' \/ \E c \in Conns : OverlappedWrite(c)]_vars

\* A queued scan does not wait for ever while a runner that may take it stays connected.
QueuedIsDispatched == \A s \in Scans : (status[s] = "queued") ~> (status[s] # "queued")

\* An ended scan is never made active again.
EndedStaysEnded ==
  [][\A s \in Scans : status[s] = "ended" => status'[s] = "ended"]_status

\* A scan whose config disables shared runners is never held by one.
PrivateStaysPrivate == \A c \in Conns : ~IsOwn(c) => active[c] \cap Private = {}

=============================================================================
