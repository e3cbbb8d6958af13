------------------------------- MODULE MCAgent -------------------------------
(***************************************************************************)
(* The agent's parts that send to the coordinator, side by side, one       *)
(* instance of each for TLC: the outbox, an execution's events, the books  *)
(* of its executions, and the scan timer. They share no state here: the    *)
(* first state chooses the part that moves, the others stay where they     *)
(* begin.                                                                  *)
(***************************************************************************)
EXTENDS Outbox, RunnerEvents, AgentRuns, ScanTimer

VARIABLE part

\* A scan resumed after the first iteration of its second endpoint.
SecondEndpoint == {<<2, 1>>}

AgentInit ==
  /\ part \in {"outbox", "events", "runs", "timer"}
  /\ Init /\ EventsInit /\ AgentRunsInit /\ TimerInit
  /\ part = "events" \/ next = 1
  /\ part = "timer" \/ ~holds

\* Bound: three requests and a reply in one execution of the run, or two requests in two.
OutboxBound == \A r \in Runs :
  log'[r].exec > 1 => sent' <= 2 /\ \A g \in Repliers : replier'[g] = "idle"

Still(p, v) == IF part = p THEN TRUE ELSE UNCHANGED v

AgentNext ==
  /\ \/ part = "outbox" /\ Next /\ OutboxBound
     \/ part = "events" /\ EventsNext
     \/ part = "runs" /\ AgentRunsNext
     \/ part = "timer" /\ TimerNext
  /\ Still("outbox", vars) /\ Still("events", eventsVars)
  /\ Still("runs", agentRunVars) /\ Still("timer", scanTimerVars)
  /\ UNCHANGED part

Everything == <<part, vars, eventsVars, agentRunVars, scanTimerVars>>

\* The fairness of FairSpec and of EventsFairSpec, asked of the part that moves.
Fair(p, A) == part = p /\ A

AgentSpec ==
  /\ AgentInit /\ [][AgentNext]_Everything
  /\ WF_vars(Fair("outbox", PumpStep))
  /\ \A g \in Senders : WF_vars(Fair("outbox", SenderStep(g)))
  /\ \A g \in Repliers : WF_vars(Fair("outbox", ReplySignals(g)))
  /\ WF_eventsVars(Fair("events", Engine)) /\ WF_eventsVars(Fair("events", Stats))
  /\ WF_eventsVars(Fair("events", Bus)) /\ WF_eventsVars(Fair("events", Forwarder))
  /\ \A i \in Iterations : WF_eventsVars(Fair("events", Worker(i)))

=============================================================================
