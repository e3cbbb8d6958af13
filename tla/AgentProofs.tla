----------------------------- MODULE AgentProofs -----------------------------
(***************************************************************************)
(* Theorems about the agent process, for every set of runs, number of      *)
(* executions and duration: its table of active runs, its exit when idle,  *)
(* and the timer of a scan.                                                *)
(***************************************************************************)
EXTENDS AgentRuns, ScanTimer, TLAPS

----------------------------------------------------------------------------
(* The table of active runs.                                               *)

ExecutionRecord ==
  [run : RunIds \cup {NoRun},
   at : {"none", "registered", "badConfig", "running", "closed", "ending", "reported", "over"},
   report : {"none", "queued", "dropped", "written", "acked"}]

RunsTypes ==
  /\ process \in {"up", "recycled", "restarted"} /\ restart \in BOOLEAN
  /\ activeRunners \in [RunIds -> 0..MaxExecutions]
  /\ execution \in [Executions -> ExecutionRecord]
  /\ recycler \in [at : {"off", "poll", "last", "leave", "exit"}, after : 0..MaxExecutions]

\* The recycler follows an execution that is over and was reported; from its last look on, the
\* report has been written.
RecyclerInv ==
  /\ \A e \in Executions : ExecAt(e) \in {"reported", "over"} => execution[e].report # "none"
  /\ recycler.at # "off" => recycler.after \in Executions /\ ExecAt(recycler.after) = "over"
  /\ recycler.at \in {"last", "exit"} => execution[recycler.after].report # "queued"
  /\ process = "recycled" => recycler.at = "exit"

RunsInv == /\ RunsTypes /\ ActiveIsRunning /\ RecyclerInv
           /\ \A e \in Executions : IsLive(e) => execution[e].run \in RunIds

LEMMA ReportedTyped == \A e : Reported(e) \in {"queued", "dropped"}
BY DEF Reported

LEMMA RunsInitially == ASSUME AgentRunsInit PROVE RunsInv
<1> USE AgentRunsAssumption DEF AgentRunsInit, Executions, NoExecution, NoRun, NotRecycling
<1>1. NoExecution \in ExecutionRecord
  BY DEF ExecutionRecord
<1>2. RunsTypes
  <2>1. execution \in [Executions -> ExecutionRecord]
    BY <1>1
  <2>2. activeRunners \in [RunIds -> 0..MaxExecutions]
    OBVIOUS
  <2>3. recycler \in [at : {"off", "poll", "last", "leave", "exit"}, after : 0..MaxExecutions]
    OBVIOUS
  <2> QED BY <2>1, <2>2, <2>3 DEF RunsTypes
<1>3. \A e \in Executions : ~IsLive(e) /\ ExecAt(e) = "none" /\ \A r \in RunIds : activeRunners[r] # e
  BY DEF IsLive, ExecAt
<1>4. ActiveIsRunning
  BY <1>3 DEF ActiveIsRunning
<1>5. RecyclerInv
  BY <1>3 DEF RecyclerInv
<1> QED BY <1>2, <1>3, <1>4, <1>5 DEF RunsInv

\* What a step that only gives execution e a new place or report has to show.
LEMMA OneRecordChanges ==
  ASSUME RunsInv, NEW e \in Executions, NEW x \in ExecutionRecord,
         execution' = [execution EXCEPT ![e] = x]
  PROVE  /\ execution' \in [Executions -> ExecutionRecord] /\ execution'[e] = x
         /\ \A f \in Executions : f # e => execution'[f] = execution[f]
BY DEF RunsInv, RunsTypes

\* A dispatch takes a free record, and never one the recycler follows.
LEMMA RunsDispatch ==
  ASSUME RunsInv, NEW r \in RunIds, NEW e \in Executions, DispatchRun(r, e)
  PROVE  RunsInv'
<1> DEFINE x(at) == [run |-> r, at |-> at, report |-> "none"]
<1>1. ExecAt(e) = "none" /\ activeRunners[r] = 0 /\ process = "up" /\ restart = FALSE
  BY DEF DispatchRun, AlreadyRunning, IsNext, RunsInv, RunsTypes
<1>2. UNCHANGED <<process, recycler, restart>>
  BY DEF DispatchRun
<1>3. PICK at \in {"registered", "badConfig"} :
        /\ execution' = [execution EXCEPT ![e] = x(at)]
        /\ activeRunners' = IF at = "registered" THEN [activeRunners EXCEPT ![r] = e] ELSE activeRunners
  BY DEF DispatchRun
<1>4. x(at) \in ExecutionRecord
  BY DEF ExecutionRecord
<1> HIDE DEF x
<1>5. /\ execution' \in [Executions -> ExecutionRecord] /\ execution'[e] = x(at)
      /\ \A f \in Executions : f # e => execution'[f] = execution[f]
  BY <1>2, <1>3, <1>4, OneRecordChanges DEF RunsInv, RunsTypes
<1> USE DEF x
<1>6. activeRunners' \in [RunIds -> 0..MaxExecutions]
  BY <1>3 DEF RunsInv, RunsTypes, Executions
<1>7. RunsTypes'
  BY <1>2, <1>5, <1>6 DEF RunsInv, RunsTypes
<1>8. (\A f \in Executions : IsLive(f) => execution[f].run \in RunIds)'
  BY <1>5 DEF RunsInv, IsLive, ExecAt
<1>9. ActiveIsRunning'
  <2> SUFFICES ASSUME NEW f \in Executions
               PROVE  IsLive(f)' <=> (execution'[f].run \in RunIds /\ activeRunners'[execution'[f].run] = f)
    BY DEF ActiveIsRunning
  <2>1. f # 0
    BY AgentRunsAssumption DEF Executions
  <2>2. CASE f = e
    BY <1>1, <1>3, <1>5, <2>1, <2>2 DEF RunsInv, RunsTypes, ActiveIsRunning, IsLive, ExecAt
  <2>3. CASE f # e
    <3>1. IsLive(f)' = IsLive(f) /\ execution'[f].run = execution[f].run
      BY <1>5, <2>3 DEF IsLive, ExecAt
    <3>2. ASSUME execution[f].run \in RunIds
          PROVE  activeRunners'[execution[f].run] = f <=> activeRunners[execution[f].run] = f
      BY <1>1, <1>3, <2>1, <2>3, <3>2 DEF RunsInv, RunsTypes
    <3> QED BY <3>1, <3>2 DEF RunsInv, ActiveIsRunning
  <2> QED BY <2>2, <2>3
<1>10. RecyclerInv'
  BY <1>1, <1>2, <1>3, <1>5 DEF RunsInv, RecyclerInv, ExecAt
<1> QED BY <1>7, <1>8, <1>9, <1>10 DEF RunsInv

\* An execution that goes from its start to its removal from the table.
LEMMA RunsMove ==
  ASSUME RunsInv, NEW e \in Executions, RunBegins(e) \/ RunReturns(e) \/ RunRemoved(e)
  PROVE  RunsInv'
<1> USE DEF ExecMoves, RunsInv, RunsTypes, RecyclerInv, ActiveIsRunning, IsLive, ExecAt,
        Executions, ExecutionRecord
<1>1. CASE RunBegins(e)
  BY <1>1 DEF RunBegins
<1>2. CASE RunReturns(e)
  BY <1>2 DEF RunReturns
<1>3. CASE RunRemoved(e)
  <2>1. /\ ExecAt(e) = "closed" /\ execution' = [execution EXCEPT ![e].at = "ending"]
        /\ activeRunners' = [activeRunners EXCEPT ![execution[e].run] = 0]
        /\ UNCHANGED <<process, recycler, restart>> /\ process = "up"
    BY <1>3 DEF RunRemoved
  <2>2. execution[e].run \in RunIds /\ activeRunners[execution[e].run] = e /\ e # 0
    BY <2>1, AgentRunsAssumption
  <2>3. RunsTypes'
    <3>1. activeRunners' \in [RunIds -> 0..MaxExecutions]
      BY <2>1, AgentRunsAssumption
    <3>2. execution' \in [Executions -> ExecutionRecord]
      BY <2>1
    <3> QED BY <2>1, <3>1, <3>2
  <2>4. (\A f \in Executions : IsLive(f) => execution[f].run \in RunIds)'
    BY <2>1
  <2>5. \A f \in Executions : f # e => execution'[f] = execution[f]
    BY <2>1
  <2>6. /\ execution'[e].run = execution[e].run /\ execution'[e].at = "ending"
        /\ execution'[e].report = execution[e].report
    BY <2>1
  <2>7. ASSUME NEW f \in Executions
        PROVE  IsLive(f)' <=> (execution'[f].run \in RunIds /\ activeRunners'[execution'[f].run] = f)
    <3>1. f # 0
      BY AgentRunsAssumption
    <3>2. CASE f = e
      BY <2>1, <2>2, <2>6, <3>1, <3>2
    <3>3. CASE f # e
      BY <2>1, <2>2, <2>5, <3>1, <3>3
    <3> QED BY <3>2, <3>3
  <2>8. ActiveIsRunning'
    BY <2>7
  <2>9. RecyclerInv'
    BY <2>1, <2>5, <2>6
  <2> QED BY <2>3, <2>4, <2>8, <2>9
<1> QED BY <1>1, <1>2, <1>3

\* The terminal event is queued, written and acknowledged.
LEMMA RunsReport ==
  ASSUME RunsInv, NEW e \in Executions,
         \/ ForwardsEnd(e)
         \/ ReportsEnd(e, "ending", "reported") \/ ReportsEnd(e, "badConfig", "over")
         \/ Delivered(e, "queued", "written") \/ Delivered(e, "written", "acked")
  PROVE  RunsInv'
<1> USE ReportedTyped DEF RunsInv, RunsTypes, RecyclerInv, ActiveIsRunning, IsLive, ExecAt,
        Executions, ExecutionRecord
<1>1. CASE ForwardsEnd(e)
  BY <1>1 DEF ForwardsEnd
<1>2. ASSUME NEW from \in {"ending", "badConfig"}, NEW to \in {"reported", "over"},
             ReportsEnd(e, from, to)
      PROVE  RunsInv'
  <2>1. PICK x \in ExecutionRecord :
          /\ execution' = [execution EXCEPT ![e] = x]
          /\ x.run = execution[e].run /\ x.at = to /\ x.report # "none"
          /\ execution[e].report # "none" => x.report = execution[e].report
    <3> DEFINE rep == IF execution[e].report = "none" THEN Reported(e) ELSE execution[e].report
               x == [execution[e] EXCEPT !.at = to, !.report = rep]
    <3>1. rep \in {"queued", "dropped", "written", "acked"}
      OBVIOUS
    <3>2. execution[e] \in ExecutionRecord
      OBVIOUS
    <3>3. execution' = [execution EXCEPT ![e] = x]
      BY <1>2, <3>2 DEF ReportsEnd
    <3>4. execution[e].report # "none" => rep = execution[e].report
      OBVIOUS
    <3> HIDE DEF rep
    <3>5. x \in ExecutionRecord /\ x.run = execution[e].run /\ x.at = to /\ x.report = rep
      BY <3>1, <3>2
    <3> QED BY <3>1, <3>3, <3>4, <3>5
  <2>2. ExecAt(e) = from /\ process = "up" /\ UNCHANGED <<process, activeRunners, recycler, restart>>
    BY <1>2 DEF ReportsEnd
  <2>3. RunsTypes'
    BY <2>1, <2>2
  <2>4. (\A f \in Executions : IsLive(f) => execution[f].run \in RunIds)'
    BY <2>1, <2>2
  <2>5. ActiveIsRunning'
    BY <2>1, <2>2
  <2>6. RecyclerInv'
    BY <2>1, <2>2
  <2> QED BY <2>3, <2>4, <2>5, <2>6
<1>4. CASE Delivered(e, "queued", "written")
  BY <1>4 DEF Delivered
<1>5. CASE Delivered(e, "written", "acked")
  BY <1>5 DEF Delivered
<1> QED BY <1>1, <1>2, <1>4, <1>5

LEMMA RunsRecycle ==
  ASSUME RunsInv, NEW e \in Executions, maybeRecycle(e)
  PROVE  RunsInv'
BY DEF maybeRecycle, ExecMoves, Active, RunsInv, RunsTypes, RecyclerInv, ActiveIsRunning, IsLive,
   ExecAt, Executions,
   ExecutionRecord

\* The recycler moves on only while the agent is up; it stops waiting when nothing is unwritten.
LEMMA RecyclerMoves ==
  ASSUME RunsInv, WaitsForOutput \/ OutputDone \/ LastLook \/ StopsRecycling \/ Exits
  PROVE  RunsInv'
<1> USE DEF Recycler, RunsInv, RunsTypes, RecyclerInv, ActiveIsRunning, IsLive, ExecAt, Executions,
        ExecutionRecord
<1>1. CASE WaitsForOutput
  BY <1>1 DEF WaitsForOutput
<1>2. CASE OutputDone
  BY <1>2 DEF OutputDone, unwritten
<1>3. CASE LastLook
  BY <1>3 DEF LastLook
<1>4. CASE StopsRecycling
  BY <1>4 DEF StopsRecycling
<1>5. CASE Exits
  BY <1>5 DEF Exits
<1> QED BY <1>1, <1>2, <1>3, <1>4, <1>5

LEMMA RunsRestart ==
  ASSUME RunsInv, RestartAsked \/ RestartDone \/ UNCHANGED agentRunVars
  PROVE  RunsInv'
<1>1. UNCHANGED <<activeRunners, execution, recycler>>
  BY DEF RestartAsked, RestartDone, agentRunVars
<1>2. process' = process \/ process' = "restarted"
  BY DEF RestartAsked, RestartDone, agentRunVars
<1>3. restart' \in BOOLEAN
  BY DEF RestartAsked, RestartDone, agentRunVars, RunsInv, RunsTypes
<1>4. RunsTypes'
  BY <1>1, <1>2, <1>3 DEF RunsInv, RunsTypes
<1>5. ActiveIsRunning' /\ (\A e \in Executions : IsLive(e) => execution[e].run \in RunIds)'
  BY <1>1 DEF RunsInv, ActiveIsRunning, IsLive, ExecAt
<1>6. RecyclerInv'
  BY <1>1, <1>2 DEF RunsInv, RecyclerInv, ExecAt
<1> QED BY <1>4, <1>5, <1>6 DEF RunsInv

LEMMA RunsAlways == AgentRunsSpec => []RunsInv
<1>1. ASSUME RunsInv, [AgentRunsNext]_agentRunVars PROVE RunsInv'
  <2>1. CASE \E e \in Executions : ExecutionStep(e)
    BY <1>1, <2>1, RunsMove, RunsReport, RunsRecycle DEF ExecutionStep
  <2> QED BY <1>1, <2>1, RunsDispatch, RecyclerMoves, RunsRestart DEF AgentRunsNext
<1> QED BY <1>1, RunsInitially, PTL DEF AgentRunsSpec

\* The table of active runs is exact, for any number of runs and executions (handleJobDispatch).
THEOREM TableIsExact == AgentRunsSpec => []ActiveIsRunning
<1>1. RunsInv => ActiveIsRunning
  BY DEF RunsInv
<1> QED BY <1>1, RunsAlways, PTL

\* The end that made the agent idle is written before the agent exits (maybeRecycle).
THEOREM ExitAfterEnd == AgentRunsSpec => []EndIsWritten
<1>1. RunsInv => EndIsWritten
  BY DEF RunsInv, RunsTypes, RecyclerInv, EndIsWritten, ExecAt
<1> QED BY <1>1, RunsAlways, PTL

----------------------------------------------------------------------------
(* The timer. While it runs, the time unheld and the time held since it    *)
(* was started make up the time since then.                                *)

TimerInv ==
  /\ {clock, heldSince, heldTotal, due, started, heldBefore, passed, unheld} \subseteq Nat
  /\ holds \in BOOLEAN /\ timer \in {"off", "on", "read", "stopped"}
  /\ heldSince <= clock /\ started <= clock
  /\ timer # "off" => unheld + heldFor + started = clock + heldBefore
  /\ timer = "off" => unheld = 0
  /\ timer = "read" => passed + started <= clock
  /\ HeldTimeNotCounted

LEMMA TimerInitially == ASSUME TimerInit PROVE TimerInv
BY DEF TimerInit, TimerInv, HeldTimeNotCounted, heldFor

\* Holding and releasing leave the account as it was.
LEMMA TimerHolds ==
  ASSUME TimerInv, ClockTicks \/ TimedHold \/ TimedRelease
  PROVE  TimerInv'
<1> USE DEF TimerInv, HeldTimeNotCounted
<1>1. CASE ClockTicks
  <2>1. CASE holds
    BY <1>1, <2>1 DEF ClockTicks, heldFor
  <2>2. CASE ~holds
    <3>1. heldFor = heldTotal /\ heldFor' = heldTotal
      BY <1>1, <2>2 DEF ClockTicks, heldFor
    <3>2. CASE timer = "off"
      BY <1>1, <2>2, <3>1, <3>2 DEF ClockTicks
    <3>3. CASE timer # "off"
      <4>1. clock' = clock + 1 /\ unheld' = unheld + 1
        BY <1>1, <2>2, <3>3 DEF ClockTicks
      <4>2. UNCHANGED <<holds, heldSince, heldTotal, timer, due, started, heldBefore, passed>>
        BY <1>1 DEF ClockTicks
      <4>3. heldFor' \in Nat /\ unheld' + heldFor' + started = clock' + heldBefore
        BY <3>1, <3>3, <4>1
      <4> QED BY <3>3, <4>1, <4>2, <4>3, ScanTimerAssumption
    <3> QED BY <3>2, <3>3
  <2> QED BY <2>1, <2>2
<1>2. CASE TimedHold
  BY <1>2 DEF TimedHold, HoldFrom, heldFor
<1>3. CASE TimedRelease
  <2>1. heldFor \in Nat
    BY DEF heldFor
  <2>2. heldFor' = heldFor
    BY <1>3, <2>1 DEF TimedRelease, heldFor
  <2>3. /\ heldTotal' = heldFor /\ holds' = FALSE
        /\ UNCHANGED <<clock, heldSince, timer, due, started, heldBefore, passed, unheld>>
    BY <1>3 DEF TimedRelease
  <2> HIDE DEF HeldTimeNotCounted
  <2>4. HeldTimeNotCounted'
    BY <2>3 DEF HeldTimeNotCounted
  <2> QED BY <2>1, <2>2, <2>3, <2>4
<1> QED BY <1>1, <1>2, <1>3

LEMMA TimerRuns ==
  ASSUME TimerInv, StartTimer \/ TimerReads \/ TimerDecides \/ UNCHANGED scanTimerVars
  PROVE  TimerInv'
<1> USE ScanTimerAssumption DEF TimerInv, HeldTimeNotCounted
<1>0. heldFor \in Nat
  BY DEF heldFor
<1>1. CASE StartTimer
  <2>1. heldFor' = heldFor
    BY <1>1 DEF StartTimer, heldFor
  <2> QED BY <1>0, <1>1, <2>1 DEF StartTimer
<1>2. CASE TimerReads
  BY <1>2 DEF TimerReads, heldFor
<1>3. CASE TimerDecides
  BY <1>3 DEF TimerDecides, heldFor
<1>4. CASE UNCHANGED scanTimerVars
  BY <1>4 DEF scanTimerVars, heldFor
<1> QED BY <1>1, <1>2, <1>3, <1>4

\* A scan is not stopped for time it was held (Start, Hold, Release, heldFor).
THEOREM HeldTimeIsFree == TimerSpec => []HeldTimeNotCounted
<1>1. ASSUME TimerInv, [TimerNext]_scanTimerVars PROVE TimerInv'
  BY <1>1, TimerHolds, TimerRuns DEF TimerNext
<1>2. TimerInv => HeldTimeNotCounted
  BY DEF TimerInv
<1> QED BY <1>1, <1>2, TimerInitially, PTL DEF TimerSpec

=============================================================================
