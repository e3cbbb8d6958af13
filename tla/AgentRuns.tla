------------------------------ MODULE AgentRuns ------------------------------
(***************************************************************************)
(* The executions of runs inside one agent process: registered on dispatch *)
(* (unless the run is active), started, removed when they return, reported *)
(* by a terminal event that is queued, written and acknowledged; and the   *)
(* agent that exits once it is idle and its output is delivered.           *)
(***************************************************************************)
EXTENDS Naturals

CONSTANTS
  RunIds,
  MaxExecutions  \* bound: executions of the process

ASSUME AgentRunsAssumption == MaxExecutions \in Nat \ {0}

VARIABLES
  process,   \* up, recycled, restarted
  activeRunners,  \* [RunIds -> execution], 0 for none
  execution, \* [1..MaxExecutions -> [run, at, report]]
  recycler,  \* the goroutine of maybeRecycle: [at, after], after the execution that started it
  restart    \* handleRestart has stopped the runs

agentRunVars == <<process, activeRunners, execution, recycler, restart>>

Executions == 1..MaxExecutions
NoRun == "none"
NoExecution == [run |-> NoRun, at |-> "none", report |-> "none"]
NotRecycling == [at |-> "off", after |-> 0]
Active == {r \in RunIds : activeRunners[r] # 0}

AgentRunsInit == /\ process = "up" /\ activeRunners = [r \in RunIds |-> 0]
                 /\ execution = [e \in Executions |-> NoExecution]
                 /\ recycler = NotRecycling /\ restart = FALSE

ExecAt(e) == execution[e].at
Newest(e) == \A f \in Executions : (f > e) => execution[f].run # execution[e].run

\* An event of an execution the run has since replaced is dropped.
Reported(e) == IF Newest(e) THEN "queued" ELSE "dropped"

-----------------------------------------------------------------------------
(* handleJobDispatch, on the read loop.                                    *)

AlreadyRunning_Never(r) == FALSE
AlreadyRunning(r) == activeRunners[r] # 0

IsNext(e) == ExecAt(e) = "none" /\ \A f \in Executions : f < e => ExecAt(f) # "none"

DispatchRun(r, e) ==
  /\ process = "up" /\ ~restart /\ ~AlreadyRunning(r) /\ IsNext(e)
  /\ \/ /\ execution' = [execution EXCEPT ![e] = [run |-> r, at |-> "registered", report |-> "none"]]
        /\ activeRunners' = [activeRunners EXCEPT ![r] = e]
     \/ \* BuildRunnerConfig fails: never registered, and an error of its own
        /\ execution' = [execution EXCEPT ![e] = [run |-> r, at |-> "badConfig", report |-> "none"]]
        /\ UNCHANGED activeRunners
  /\ UNCHANGED <<process, recycler, restart>>

ExecMoves(e, from, to) == /\ process = "up" /\ ExecAt(e) = from
                     /\ execution' = [execution EXCEPT ![e].at = to]

RunBegins(e) == ExecMoves(e, "registered", "running") /\ UNCHANGED <<process, activeRunners, recycler, restart>>

\* Start has returned (or panicked) and Close was called.
RunReturns(e) == ExecMoves(e, "running", "closed") /\ UNCHANGED <<process, activeRunners, recycler, restart>>

\* The run is no longer active, though its last events may still be on their way.
RunRemoved(e) == /\ ExecMoves(e, "closed", "ending")
                 /\ activeRunners' = [activeRunners EXCEPT ![execution[e].run] = 0]
                 /\ UNCHANGED <<process, recycler, restart>>

\* The forwarder queues the run's own terminal event.
ForwardsEnd(e) == /\ process = "up" /\ ExecAt(e) \in {"closed", "ending"} /\ execution[e].report = "none"
                  /\ execution' = [execution EXCEPT ![e].report = Reported(e)]
                  /\ UNCHANGED <<process, activeRunners, recycler, restart>>

\* finishExecution: the forwarder is done; a run that sent no terminal event gets one.
ReportsEnd(e, from, to) ==
  /\ process = "up" /\ ExecAt(e) = from
  /\ execution' = [execution EXCEPT ![e].at = to,
                     ![e].report = IF @ = "none" THEN Reported(e) ELSE @]
  /\ UNCHANGED <<process, activeRunners, recycler, restart>>

Delivered(e, from, to) == /\ process = "up" /\ execution[e].report = from
                          /\ execution' = [execution EXCEPT ![e].report = to]
                          /\ UNCHANGED <<process, activeRunners, recycler, restart>>

-----------------------------------------------------------------------------
(* maybeRecycle.                                                           *)

unwritten_No == FALSE
unwritten == \E e \in Executions : execution[e].report = "queued"
pendingOutput == unwritten \/ \E e \in Executions : execution[e].report = "written"

maybeRecycle(e) ==
  /\ ExecMoves(e, "reported", "over")
  /\ recycler' = IF Active = {} /\ recycler.at = "off" THEN [at |-> "poll", after |-> e] ELSE recycler
  /\ UNCHANGED <<process, activeRunners, restart>>

Recycler(from, to) == /\ process = "up" /\ recycler.at = from
                      /\ recycler' = [recycler EXCEPT !.at = to]
                      /\ UNCHANGED <<process, activeRunners, execution, restart>>

\* It waits for what is not written however long that takes, for acknowledgements only for a while.
WaitsForOutput == pendingOutput /\ Active # {} /\ Recycler("poll", "leave")
OutputDone == ~unwritten /\ Recycler("poll", "last")
LastLook == Recycler("last", IF Active = {} THEN "exit" ELSE "leave")
StopsRecycling == Recycler("leave", "off")

Exits == /\ process = "up" /\ recycler.at = "exit" /\ process' = "recycled"
         /\ UNCHANGED <<activeRunners, execution, recycler, restart>>

\* agent_restart: the runs are stopped, a second passes on the read loop, and the process ends.
RestartAsked == /\ process = "up" /\ ~restart /\ restart' = TRUE
                /\ UNCHANGED <<process, activeRunners, execution, recycler>>
RestartDone == /\ process = "up" /\ restart /\ process' = "restarted"
               /\ UNCHANGED <<activeRunners, execution, recycler, restart>>

-----------------------------------------------------------------------------

ExecutionStep(e) ==
  \/ RunBegins(e) \/ RunReturns(e) \/ RunRemoved(e) \/ ForwardsEnd(e)
  \/ ReportsEnd(e, "ending", "reported") \/ ReportsEnd(e, "badConfig", "over")
  \/ Delivered(e, "queued", "written") \/ Delivered(e, "written", "acked")
  \/ maybeRecycle(e)

AgentRunsNext == \/ \E r \in RunIds, e \in Executions : DispatchRun(r, e)
                 \/ \E e \in Executions : ExecutionStep(e)
                 \/ WaitsForOutput \/ OutputDone \/ LastLook \/ StopsRecycling \/ Exits
                 \/ RestartAsked \/ RestartDone

AgentRunsSpec == AgentRunsInit /\ [][AgentRunsNext]_agentRunVars

-----------------------------------------------------------------------------

IsLive(e) == ExecAt(e) \in {"registered", "running", "closed"}

\* activeRunners names exactly the executions that run, one at most of each run, also while earlier
\* executions of a run are still being reported (handleJobDispatch).
ActiveIsRunning ==
  \A e \in Executions : IsLive(e) <=> (execution[e].run \in RunIds /\ activeRunners[execution[e].run] = e)

\* When an idle agent exits, the end of the run that made it idle has been written to the
\* coordinator, or a newer execution of that run has replaced it (maybeRecycle).
EndIsWritten == process = "recycled" => execution[recycler.after].report \notin {"none", "queued"}

=============================================================================
