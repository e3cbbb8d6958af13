------------------------------ MODULE MCService ------------------------------
(***************************************************************************)
(* The dispatch of scans, and the parts of a scan that stand by themselves,*)
(* one instance of each for TLC: the concurrency limiter, the pausing and  *)
(* stopping of a run, its session with the target, its out-of-band         *)
(* callbacks, the MCP client of an MCP target, and the dashboard that      *)
(* follows it. They share no state: the first state chooses the part that  *)
(* moves, the others stay where they begin.                                *)
(***************************************************************************)
EXTENDS MCScanDispatch, Limiter, RunnerControl, RunnerSession, OobCallbacks, McpClient,
        ScanFollower

VARIABLE part

ServiceInit ==
  /\ part \in {"dispatch", "limiter", "control", "session", "oob", "mcp", "follower"}
  /\ Init /\ LimiterInit /\ ControlInit /\ SessionInit /\ OobInit /\ McpInit
  /\ FollowerInit
  /\ part = "limiter" \/ (slots = 1 /\ ceiling = 1)
  /\ part = "control" \/ ~isHeld
  /\ part = "mcp" \/ transport = "sse"

Still(p, v) == IF part = p THEN TRUE ELSE UNCHANGED v

ServiceNext ==
  /\ \/ part = "dispatch" /\ Next
     \/ part = "limiter" /\ LimiterNext
     \/ part = "control" /\ ControlNext
     \/ part = "session" /\ SessionNext
     \/ part = "oob" /\ OobNext
     \/ part = "mcp" /\ McpNext
     \/ part = "follower" /\ FollowerNext
  /\ Still("dispatch", vars) /\ Still("limiter", limiterVars) /\ Still("control", controlVars)
  /\ Still("session", sessionVars) /\ Still("oob", oobVars) /\ Still("mcp", mcpVars)
  /\ Still("follower", followerVars)
  /\ UNCHANGED part

Everything == <<part, vars, limiterVars, controlVars, sessionVars, oobVars, mcpVars,
                followerVars>>

\* The fairness of FairSpec, OobFairSpec and FollowerFairSpec, asked of the part that moves.
Fair(p, A) == part = p /\ A

ServiceSpec ==
  /\ ServiceInit /\ [][ServiceNext]_Everything
  /\ \A s \in Scans :
       /\ WF_vars(Fair("dispatch", Enqueue(s))) /\ WF_vars(Fair("dispatch", RequestStep(s)))
       /\ WF_vars(Fair("dispatch", StopStep(s))) /\ WF_vars(Fair("dispatch", ConsumerEnds(s)))
  /\ \A c \in Conns :
       /\ WF_vars(Fair("dispatch", PassStep(c))) /\ WF_vars(Fair("dispatch", ResumeStep(c)))
       /\ WF_vars(Fair("dispatch", handleClose(c))) /\ WF_vars(Fair("dispatch", Connect(c)))
       /\ WF_vars(Fair("dispatch", RunnerReads(c)))
       /\ WF_vars(Fair("dispatch", TerminalArrives(c))) /\ WF_vars(Fair("dispatch", TerminalDropped(c)))
  /\ \A r \in Runners : WF_vars(Fair("dispatch", RunEnds(r)))
  /\ WF_oobVars(Fair("oob", AgentOob)) /\ WF_oobVars(Fair("oob", Stores))
  /\ WF_oobVars(Fair("oob", Arrives \/ Reconnects))
  /\ \A c \in Callbacks : WF_oobVars(Fair("oob", Triggers(c))) /\ WF_oobVars(Fair("oob", Looks(c)))
  /\ WF_followerVars(Fair("follower", GoesQuiet)) /\ WF_followerVars(Fair("follower", TimerAsks))
  /\ \A a \in Askers : /\ WF_followerVars(Fair("follower", StatusComes(a) \/ StatusFails(a)))
                       /\ WF_followerVars(Fair("follower", Settle(a)))

=============================================================================
