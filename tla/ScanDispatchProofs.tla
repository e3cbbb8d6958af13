------------------------- MODULE ScanDispatchProofs -------------------------
(***************************************************************************)
(* Theorems about ScanDispatch, for every number of scans and connections, *)
(* every assignment of connections to runners and every capacity: type     *)
(* correctness, and that no runner is given more runs than it may hold.    *)
(***************************************************************************)
EXTENDS ScanDispatch, FiniteSetTheorems, WellFoundedInduction, TLAPS

----------------------------------------------------------------------------
(* TypeOK in parts that have no variable in common.                        *)

PassStates == {p \in PassRecord : p.at \in {"load", "mark", "clean"} => p.cur # NoScan}
ResumeStates == {p \in ResumeRecord : p.at # "idle" => p.todo # {}}

RowTypes ==
  /\ status \in [Scans -> ActiveStatuses \cup {"none", "ended"}]
  /\ request \in [Scans -> Requests]
  /\ outcomes \subseteq Scans /\ config \subseteq Scans
  /\ ref \subseteq Scans /\ finished \subseteq Scans
AssignTypes ==
  /\ runners \subseteq Conns /\ jobs \in [Scans -> Conns \cup {NoConn}]
  /\ active \in [Conns -> SUBSET Scans] /\ inbox \in [Conns -> SUBSET Scans]
  /\ owner \in [Scans -> {"user", "shared", None}]
PassTypes == pass \in [Conns -> PassStates] /\ rerun \subseteq Conns
ResumeTypes == resume \in [Conns -> ResumeStates]
StopTypes == stop \in [Scans -> {"idle", "mark", "clear"}] /\ restarts \in 0..MaxRestarts
LinkTypes ==
  /\ sock \in [Conns -> {"unused", "open", "closed"}]
  /\ recent \in [Conns -> SUBSET Scans] /\ net \in [Conns -> BOOLEAN]
  /\ up \in [Conns -> SUBSET Scans]
WorkTypes == exec \in [Runners -> SUBSET Scans] /\ over \in [Runners -> SUBSET Scans]

\* TypeOK is the conjunction of these parts.
LEMMA TypeSplit ==
  TypeOK <=> /\ RowTypes /\ AssignTypes /\ PassTypes /\ ResumeTypes /\ StopTypes
             /\ LinkTypes /\ WorkTypes
<1>1. ASSUME pass \in [Conns -> PassRecord]
      PROVE  (\A c \in Conns : pass[c].at \in {"load", "mark", "clean"} => pass[c].cur # NoScan)
             <=> pass \in [Conns -> PassStates]
  BY <1>1, Zenon DEF PassStates
<1>2. ASSUME resume \in [Conns -> ResumeRecord]
      PROVE  (\A c \in Conns : resume[c].at # "idle" => resume[c].todo # {})
             <=> resume \in [Conns -> ResumeStates]
  BY <1>2, Zenon DEF ResumeStates
<1>3. pass \in [Conns -> PassStates] => pass \in [Conns -> PassRecord]
  BY Zenon DEF PassStates
<1>4. resume \in [Conns -> ResumeStates] => resume \in [Conns -> ResumeRecord]
  BY Zenon DEF ResumeStates
<1> QED
  BY <1>1, <1>2, <1>3, <1>4, Zenon
     DEF TypeOK, PlatformTypes, MemoryTypes, SocketTypes, RowTypes, AssignTypes, PassTypes,
         ResumeTypes, StopTypes, LinkTypes, WorkTypes

\* The same of the next state.
LEMMA TypeJoin ==
  /\ RowTypes' /\ AssignTypes' /\ PassTypes' /\ ResumeTypes' /\ StopTypes' /\ LinkTypes' /\ WorkTypes'
  => TypeOK'
BY TypeSplit, PTL

\* A step that leaves a part alone keeps it: the rows of the platform.
LEMMA RowTypesKept == RowTypes /\ UNCHANGED <<status, request, outcomes, config, ref, finished>> => RowTypes'
BY DEF RowTypes
\* Who is connected and which run is where.
LEMMA AssignTypesKept == AssignTypes /\ UNCHANGED <<runners, jobs, active, inbox, owner>> => AssignTypes'
BY DEF AssignTypes
\* The passes.
LEMMA PassTypesKept == PassTypes /\ UNCHANGED <<pass, rerun>> => PassTypes'
BY DEF PassTypes
\* The resumeRuns calls.
LEMMA ResumeTypesKept == ResumeTypes /\ UNCHANGED resume => ResumeTypes'
BY DEF ResumeTypes
\* The stop commands and the restarts.
LEMMA StopTypesKept == StopTypes /\ UNCHANGED <<stop, restarts>> => StopTypes'
BY DEF StopTypes
\* The sockets.
LEMMA LinkTypesKept == LinkTypes /\ UNCHANGED <<sock, recent, net, up>> => LinkTypes'
BY DEF LinkTypes
\* The runners.
LEMMA WorkTypesKept == WorkTypes /\ UNCHANGED <<exec, over>> => WorkTypes'
BY DEF WorkTypes

----------------------------------------------------------------------------
(* Lemmas about the helpers.                                               *)

\* The least of some scans is one of them.
LEMMA MinOfIn ==
  ASSUME NEW S, S \subseteq Scans, S # {}
  PROVE  MinOf(S) \in S
<1>1. S \subseteq Nat
  BY ScanDispatchAssumption DEF Scans
<1>2. PICK s \in S : \A t \in S : ~(<<t, s>> \in OpToRel(<, Nat))
  BY <1>1, NatLessThanWellFounded, WFMin
<1>3. ASSUME NEW t \in S PROVE s <= t
  <2>1. t \in Nat /\ s \in Nat
    BY <1>1
  <2>2. ~(<<t, s>> \in OpToRel(<, Nat))
    BY <1>2
  <2>3. ~(t < s)
    BY <2>1, <2>2 DEF OpToRel
  <2> QED
    BY <2>1, <2>3
<1> QED
  BY <1>3 DEF MinOf

\* The greatest of some connections is one of them.
LEMMA GreatestConn ==
  ASSUME NEW S, S \subseteq Conns, S # {}
  PROVE  \E c \in S : \A d \in S : d <= c
<1> DEFINE n == Len(RunnerOf)
           T == {n - c : c \in S}
<1>1. n \in Nat /\ S \subseteq 1..n
  BY ScanDispatchAssumption DEF Conns
<1>2. T \subseteq Nat /\ T # {}
  <2>1. ASSUME NEW c \in S PROVE n - c \in Nat
    <3>1. c \in 1..n
      BY <1>1
    <3> QED
      BY <1>1, <3>1
  <2> QED
    BY <2>1
<1>3. PICK t \in T : \A u \in T : ~(<<u, t>> \in OpToRel(<, Nat))
  BY <1>2, NatLessThanWellFounded, WFMin
<1>4. PICK c \in S : t = n - c
  BY <1>3
<1>5. ASSUME NEW d \in S PROVE d <= c
  <2>1. n - d \in T
    OBVIOUS
  <2>2. ~(n - d < t)
    BY <1>2, <1>3, <2>1 DEF OpToRel
  <2> QED
    BY <1>1, <1>4, <2>2
<1> QED
  BY <1>5

\* Each connection has its runner.
LEMMA RunnerOfConn ==
  ASSUME NEW c \in Conns
  PROVE  RunnerOf[c] \in Runners
BY DEF Runners

\* A pass that is not under way, and one that begins.
LEMMA PassBegins ==
  NoPass \in PassStates /\ [NoPass EXCEPT !.at = "read"] \in PassStates
BY DEF NoPass, PassStates, PassRecord

\* What a pass knows of its scans when it goes through them.
LEMMA ScanningPass ==
  ASSUME NEW c \in Conns, pass[c] \in PassStates
  PROVE  [pass[c] EXCEPT !.done = (finished \cup collectRecentJobIds(c)) \cap pass[c].todo,
                         !.ref = ref \cap pass[c].todo, !.own = connectedRunnerOwners] \in PassStates
<1> DEFINE p == [pass[c] EXCEPT !.done = (finished \cup collectRecentJobIds(c)) \cap pass[c].todo,
                                !.ref = ref \cap pass[c].todo, !.own = connectedRunnerOwners]
<1>1. connectedRunnerOwners \in BOOLEAN
  BY DEF connectedRunnerOwners
<1>2. pass[c].todo \subseteq Scans
  BY DEF PassStates, PassRecord
<1>3. /\ (finished \cup collectRecentJobIds(c)) \cap pass[c].todo \subseteq Scans
      /\ ref \cap pass[c].todo \subseteq Scans
  BY <1>2
<1>4. p \in PassRecord
  BY <1>1, <1>3 DEF PassStates, PassRecord
<1>5. p.at = pass[c].at /\ p.cur = pass[c].cur
  BY DEF PassStates, PassRecord
<1> QED
  BY <1>4, <1>5 DEF PassStates

\* A pass begins, or a call is noted for the one under way.
LEMMA TriggerTypes ==
  ASSUME PassTypes, NEW c \in Conns, Trigger(c)
  PROVE  PassTypes'
<1> DEFINE new == [NoPass EXCEPT !.at = "read"]
<1> HIDE DEF new
<1>1. CASE pass[c].at # "idle"
  BY <1>1 DEF Trigger, PassTypes
<1>2. CASE pass[c].at = "idle"
  <2>1. UNCHANGED rerun /\ (UNCHANGED pass \/ pass' = [pass EXCEPT ![c] = new])
    BY <1>2, Zenon DEF Trigger, new
  <2>2. new \in PassStates
    BY PassBegins DEF new
  <2> QED
    BY <2>1, <2>2 DEF PassTypes
<1> QED
  BY <1>1, <1>2

\* A pass ends, or is repeated.
LEMMA EndPassTypes ==
  ASSUME PassTypes, NEW c \in Conns, EndPass(c)
  PROVE  PassTypes'
<1>1. PICK new \in PassStates : pass' = [pass EXCEPT ![c] = new]
  BY PassBegins, Zenon DEF EndPass
<1> QED
  BY <1>1 DEF EndPass, PassTypes

\* The scan is a scan and the pass goes on to mark it.
LEMMA SendToTypes ==
  ASSUME AssignTypes, PassTypes, NEW c \in Conns, NEW s \in Scans, NEW p \in PassStates,
         SendTo(c, s, p)
  PROVE  AssignTypes' /\ PassTypes'
<1>1. CASE sock[c] = "open"
  <2> DEFINE new == [p EXCEPT !.at = "mark", !.cur = s]
  <2>1. new \in PassStates
    <3>1. s # NoScan
      BY ScanDispatchAssumption DEF Scans, NoScan
    <3> QED
      BY <3>1 DEF PassStates, PassRecord
  <2>2. pass' = [pass EXCEPT ![c] = new] /\ UNCHANGED <<runners, rerun>>
    BY <1>1, Zenon DEF SendTo
  <2>3. PassTypes'
    BY <2>1, <2>2, Zenon DEF PassTypes
  <2>4. runnerIdentity(RunnerOf[c]) \in {"user", "shared", None}
    BY DEF runnerIdentity
  <2>5. /\ jobs' = [jobs EXCEPT ![s] = c]
        /\ active' = [active EXCEPT ![c] = active[c] \cup {s}]
        /\ inbox' = [inbox EXCEPT ![c] = inbox[c] \cup {s}] \/ inbox' = inbox
        /\ owner' = [owner EXCEPT ![s] = runnerIdentity(RunnerOf[c])]
    BY <1>1 DEF SendTo
  <2>6. AssignTypes'
    BY <2>2, <2>4, <2>5 DEF AssignTypes
  <2> QED
    BY <2>3, <2>6
<1>2. CASE sock[c] # "open"
  <2>1. PassTypes'
    BY <1>2, EndPassTypes DEF SendTo
  <2>2. AssignTypes'
    BY <1>2 DEF SendTo, AssignTypes
  <2> QED
    BY <2>1, <2>2
<1> QED
  BY <1>1, <1>2

\* A pass that has chosen a scan.
LEMMA AfterTypes ==
  ASSUME NEW p \in PassStates, NEW s \in Scans
  PROVE  After(p, s) \in PassStates /\ [After(p, s) EXCEPT !.at = "load"] \in PassStates
<1>1. s # NoScan
  BY ScanDispatchAssumption DEF Scans, NoScan
<1>2. After(p, s) = [p EXCEPT !.todo = {t \in p.todo : t > s}, !.cur = s]
  BY DEF After
<1>3. {t \in p.todo : t > s} \subseteq Scans
  BY DEF PassStates, PassRecord
<1>4. After(p, s) \in PassRecord /\ After(p, s).cur = s
  BY <1>2, <1>3 DEF PassStates, PassRecord
<1>5. [After(p, s) EXCEPT !.at = "load"] \in PassRecord /\ [After(p, s) EXCEPT !.at = "load"].cur = s
  BY <1>4 DEF PassRecord
<1> QED
  BY <1>1, <1>4, <1>5 DEF PassStates

\* Candidates are scans.
LEMMA CandidatesTypes ==
  ASSUME NEW c \in Conns, NEW p \in PassStates
  PROVE  Candidates(c, p) \subseteq Scans
BY DEF Candidates, PassStates, PassRecord

\* A pass that goes on.
LEMMA ProceedTypes ==
  ASSUME AssignTypes, PassTypes, NEW c \in Conns, NEW p \in PassStates, Proceed(c, p)
  PROVE  AssignTypes' /\ PassTypes'
<1> DEFINE s == MinOf(Candidates(c, p))
<1>1. CASE Candidates(c, p) = {} \/ ~HasCapacity(c)
  <2>1. EndPass(c) /\ UNCHANGED <<runners, jobs, active, inbox, owner>>
    BY <1>1 DEF Proceed
  <2> QED
    BY <2>1, EndPassTypes, AssignTypesKept
<1>2. CASE Candidates(c, p) # {} /\ HasCapacity(c)
  <2>1. s \in Scans
    BY <1>2, CandidatesTypes, MinOfIn
  <2>2. After(p, s) \in PassStates /\ [After(p, s) EXCEPT !.at = "load"] \in PassStates
    BY <2>1, AfterTypes
  <2>3. CASE s \in p.ref \cup Projects
    <3>1. /\ pass' = [pass EXCEPT ![c] = [After(p, s) EXCEPT !.at = "load"]]
          /\ UNCHANGED <<rerun, runners, jobs, active, inbox, owner>>
      BY <1>2, <2>3 DEF Proceed
    <3> QED
      BY <2>2, <3>1, AssignTypesKept DEF PassTypes
  <2>4. CASE ~(s \in p.ref \cup Projects)
    <3>1. SendTo(c, s, After(p, s))
      BY <1>2, <2>4, Zenon DEF Proceed
    <3> QED
      BY <2>1, <2>2, <3>1, SendToTypes
  <2> QED
    BY <2>3, <2>4
<1> QED
  BY <1>1, <1>2

----------------------------------------------------------------------------
(* Every step keeps the types.                                             *)

\* Creating a scan, the queue consumers, and pausing change the platform's rows only.
LEMMA TypesOfRows ==
  ASSUME TypeOK, NEW s \in Scans,
         \/ Submit(s) \/ Enqueue(s) \/ ConsumerTakes(s) \/ DispatchLoads(s) \/ DispatchChecks(s)
         \/ DispatchDrops(s) \/ ConsumerMarks(s) \/ ConsumerEnds(s) \/ Pause(s) \/ Resume(s)
  PROVE  TypeOK'
<1> USE TypeSplit, TypeJoin
<1>1. RowTypes'
  <2>1. CASE Submit(s) \/ Enqueue(s)
    BY <2>1 DEF Submit, Enqueue, storageVars, RowTypes, ActiveStatuses, Requests
  <2>2. CASE ConsumerTakes(s) \/ DispatchChecks(s)
    BY <2>2 DEF ConsumerTakes, DispatchChecks, storageVars, RowTypes, Requests
  <2>3. CASE DispatchLoads(s) \/ DispatchDrops(s)
    BY <2>3 DEF DispatchLoads, DispatchDrops, RowTypes, Requests
  <2>4. CASE ConsumerMarks(s) \/ ConsumerEnds(s)
    BY <2>4 DEF ConsumerMarks, updateScanStatus, ConsumerEnds, storageVars, RowTypes,
                ActiveStatuses, Requests
  <2>5. CASE Pause(s) \/ Resume(s)
    BY <2>5 DEF Pause, Resume, changeActiveStatus, storageVars, RowTypes, ActiveStatuses
  <2> QED
    BY <2>1, <2>2, <2>3, <2>4, <2>5
<1>2. UNCHANGED <<owner, memoryVars, restarts, socketVars, runnerVars>>
  BY DEF Submit, Enqueue, ConsumerTakes, DispatchLoads, DispatchChecks, DispatchDrops,
         ConsumerMarks, ConsumerEnds, Pause, Resume, changeActiveStatus, storageVars
<1>3. AssignTypes' /\ PassTypes' /\ ResumeTypes' /\ StopTypes' /\ LinkTypes' /\ WorkTypes'
  BY <1>2, AssignTypesKept, PassTypesKept, ResumeTypesKept, StopTypesKept, LinkTypesKept,
     WorkTypesKept DEF memoryVars, flightVars, socketVars, runnerVars
<1> QED
  BY <1>1, <1>3

\* The /dispatch request assigns at most one run.
LEMMA TypesOfDispatch ==
  ASSUME TypeOK, NEW s \in Scans, DispatchDecides(s)
  PROVE  TypeOK'
<1> USE TypeSplit, TypeJoin
<1>1. RowTypes'
  <2>1. request' = [request EXCEPT ![s] = "mark"] \/ request' = [request EXCEPT ![s] = "done"]
    BY DEF DispatchDecides
  <2>2. ref' \subseteq ref /\ config' \subseteq config /\ UNCHANGED <<status, outcomes, finished>>
    BY DEF DispatchDecides
  <2> QED
    BY <2>1, <2>2 DEF RowTypes, Requests
<1>2. AssignTypes'
  <2>1. CASE UNCHANGED <<jobs, active, inbox, owner>>
    BY <2>1, AssignTypesKept DEF DispatchDecides
  <2>2. CASE ~UNCHANGED <<jobs, active, inbox, owner>>
    <3>1. PICK c \in DispatchTargets(s) :
            /\ jobs' = [jobs EXCEPT ![s] = c]
            /\ active' = [active EXCEPT ![c] = active[c] \cup {s}]
            /\ inbox' = IF net[c] THEN [inbox EXCEPT ![c] = inbox[c] \cup {s}] ELSE inbox
            /\ owner' = [owner EXCEPT ![s] = runnerIdentity(RunnerOf[c])]
      BY <2>2 DEF DispatchDecides
    <3>2. c \in Conns
      BY DEF DispatchTargets, AssignTypes
    <3>3. runnerIdentity(RunnerOf[c]) \in {"user", "shared", None}
      BY DEF runnerIdentity
    <3>4. inbox' \in [Conns -> SUBSET Scans]
      BY <3>1, <3>2 DEF AssignTypes
    <3>5. UNCHANGED runners
      BY DEF DispatchDecides
    <3> QED
      BY <3>1, <3>2, <3>3, <3>4, <3>5 DEF AssignTypes
  <2> QED
    BY <2>1, <2>2
<1>3. UNCHANGED <<flightVars, restarts, sock, recent, net, exec, over, up>>
  BY DEF DispatchDecides
<1>4. PassTypes' /\ ResumeTypes' /\ StopTypes' /\ LinkTypes' /\ WorkTypes'
  BY <1>3, PassTypesKept, ResumeTypesKept, StopTypesKept, LinkTypesKept, WorkTypesKept DEF flightVars
<1> QED
  BY <1>1, <1>2, <1>4

\* The steps of a pass.
LEMMA TypesOfPass ==
  ASSUME TypeOK, NEW c \in Conns, PassStep(c)
  PROVE  TypeOK'
<1> USE TypeSplit, TypeJoin
<1>0. pass[c] \in PassStates
  BY DEF PassTypes
<1>1. UNCHANGED <<request, outcomes, finished, resume, stop, restarts, sock, recent, net, exec, over, up>>
  BY DEF PassStep, PassReads, PassScans, PassSends, PassMissesConfig, PassMarks, PassCleans,
         platformVars, storageVars, socketVars, runnerVars
<1>2. ResumeTypes' /\ StopTypes' /\ LinkTypes' /\ WorkTypes'
  BY <1>1, ResumeTypesKept, StopTypesKept, LinkTypesKept, WorkTypesKept
<1>3. CASE PassReads(c)
  <2> DEFINE new == [pass[c] EXCEPT !.at = "scan", !.todo = {s \in Scans : status[s] \in ActiveStatuses}]
  <2>1. pass' = [pass EXCEPT ![c] = new] /\ UNCHANGED rerun
    BY <1>3 DEF PassReads
  <2>2. new \in PassStates
    BY <1>0 DEF PassStates, PassRecord
  <2>3. PassTypes'
    BY <2>1, <2>2, Zenon DEF PassTypes
  <2>4. RowTypes' /\ AssignTypes'
    BY <1>3, RowTypesKept, AssignTypesKept DEF PassReads, platformVars, storageVars, socketVars, runnerVars
  <2> QED
    BY <1>2, <2>3, <2>4
<1>4. CASE PassScans(c)
  <2> DEFINE p == [pass[c] EXCEPT !.done = (finished \cup collectRecentJobIds(c)) \cap pass[c].todo,
                                  !.ref = ref \cap pass[c].todo, !.own = connectedRunnerOwners]
  <2>1. p \in PassStates
    BY <1>0, ScanningPass
  <2>2. Proceed(c, p) /\ UNCHANGED <<platformVars, ref, finished>>
    BY <1>4 DEF PassScans
  <2>3. RowTypes'
    BY <2>2, RowTypesKept DEF platformVars
  <2> QED
    BY <1>2, <2>1, <2>2, <2>3, ProceedTypes
<1>5. CASE PassSends(c)
  <2>1. pass[c].cur \in Scans
    BY <1>0, <1>5 DEF PassSends, PassStates, PassRecord
  <2>2. RowTypes'
    BY <1>5, RowTypesKept DEF PassSends, platformVars
  <2>3. \/ Proceed(c, pass[c])
        \/ EndPass(c) /\ UNCHANGED <<runners, jobs, active, inbox, owner>>
        \/ SendTo(c, pass[c].cur, pass[c])
    BY <1>5, Zenon DEF PassSends
  <2>4. AssignTypes' /\ PassTypes'
    BY <1>0, <2>1, <2>3, ProceedTypes, EndPassTypes, AssignTypesKept, SendToTypes
  <2> QED
    BY <1>2, <2>2, <2>4
<1>6. CASE PassMissesConfig(c)
  <2>1. Proceed(c, pass[c])
    BY <1>6 DEF PassMissesConfig
  <2>2. RowTypes'
    <3>1. status' = [status EXCEPT ![pass[c].cur] = "ended"] \/ UNCHANGED status
      BY <1>6 DEF PassMissesConfig
    <3>2. ref' \subseteq ref /\ UNCHANGED <<request, outcomes, config, finished>>
      BY <1>6 DEF PassMissesConfig
    <3> QED
      BY <3>1, <3>2 DEF RowTypes
  <2> QED
    BY <1>0, <1>2, <2>1, <2>2, ProceedTypes
<1>7. CASE PassMarks(c)
  <2>1. RowTypes'
    BY <1>7 DEF PassMarks, updateScanStatus, storageVars, RowTypes, ActiveStatuses
  <2>2. AssignTypes'
    BY <1>7, AssignTypesKept DEF PassMarks, storageVars, socketVars, runnerVars
  <2>3. PassTypes'
    <3>1. pass' = [pass EXCEPT ![c] = [pass[c] EXCEPT !.at = "clean"]] /\ UNCHANGED rerun
      BY <1>7 DEF PassMarks
    <3>2. [pass[c] EXCEPT !.at = "clean"] \in PassStates
      BY <1>0, <1>7 DEF PassMarks, PassStates, PassRecord
    <3> QED
      BY <3>1, <3>2, Zenon DEF PassTypes
  <2> QED
    BY <1>2, <2>1, <2>2, <2>3
<1>8. CASE PassCleans(c)
  <2>1. Proceed(c, pass[c])
    BY <1>8 DEF PassCleans
  <2>2. RowTypes'
    BY <1>8 DEF PassCleans, RowTypes
  <2> QED
    BY <1>0, <1>2, <2>1, <2>2, ProceedTypes
<1> QED
  BY <1>3, <1>4, <1>5, <1>6, <1>7, <1>8 DEF PassStep

\* Stopping a scan that has no runner.
LEMMA TypesOfStop ==
  ASSUME TypeOK, NEW s \in Scans, StopAsked(s) \/ StopStep(s)
  PROVE  TypeOK'
<1> USE TypeSplit, TypeJoin
<1>1. UNCHANGED <<request, outcomes, finished, runners, jobs, pass, rerun, resume, restarts,
                  socketVars, runnerVars>>
  BY DEF StopAsked, StopStep, StopMarks, StopClears, platformVars, storageVars
<1>2. PassTypes' /\ ResumeTypes' /\ LinkTypes' /\ WorkTypes'
  BY <1>1, PassTypesKept, ResumeTypesKept, LinkTypesKept, WorkTypesKept DEF socketVars, runnerVars
<1>3. RowTypes'
  BY DEF RowTypes, StopAsked, StopStep, StopMarks, StopClears, platformVars, storageVars, ActiveStatuses
<1>4. StopTypes'
  BY <1>1 DEF StopTypes, StopAsked, StopStep, StopMarks, StopClears
<1>5. AssignTypes'
  <2>1. owner' \in [Scans -> {"user", "shared", None}]
    BY DEF AssignTypes, StopAsked, StopStep, StopMarks, StopClears, storageVars
  <2> QED
    BY <1>1, <2>1 DEF AssignTypes, socketVars, runnerVars
<1> QED
  BY <1>2, <1>3, <1>4, <1>5

\* A runner connects, and takes its runs back.
LEMMA TypesOfConnect ==
  ASSUME TypeOK, NEW c \in Conns, Connect(c)
  PROVE  TypeOK'
<1> USE TypeSplit, TypeJoin
<1> DEFINE r == RunnerOf[c]
           mine == {s \in Claims(r) : owner[s] = runnerIdentity(r)}
<1>1. mine \subseteq Scans
  BY RunnerOfConn DEF Claims, WorkTypes
<1> HIDE DEF mine
<1>2. UNCHANGED <<platformVars, storageVars, jobs, stop, restarts, inbox, exec, over>>
  BY DEF Connect
<1>3. RowTypes' /\ StopTypes' /\ WorkTypes'
  BY <1>2, RowTypesKept, StopTypesKept, WorkTypesKept DEF platformVars, storageVars
<1>4. \/ EndResume(c, {}, mine)
      \/ /\ ~(mine \subseteq finished)
         /\ resume' = [resume EXCEPT ![c] = [NoResume EXCEPT !.at = "ask", !.todo = mine \ finished,
                                                             !.recent = mine \cap finished]]
         /\ UNCHANGED <<active, recent, pass, rerun>>
  BY DEF Connect, mine
<1>5. sock' = [sock EXCEPT ![c] = "open"] /\ net' = [net EXCEPT ![c] = TRUE]
      /\ up' = [up EXCEPT ![c] = over[r]] /\ runners' = runners \cup {c}
  BY DEF Connect
<1>6. LinkTypes'
  <2>1. recent' \in [Conns -> SUBSET Scans]
    BY <1>1, <1>4 DEF EndResume, LinkTypes
  <2>2. net' \in [Conns -> BOOLEAN]
    BY <1>5, Zenon DEF LinkTypes
  <2>3. up' \in [Conns -> SUBSET Scans]
    BY <1>5, RunnerOfConn DEF LinkTypes, WorkTypes
  <2>4. sock' \in [Conns -> {"unused", "open", "closed"}]
    BY <1>5 DEF LinkTypes
  <2> QED
    BY <2>1, <2>2, <2>3, <2>4 DEF LinkTypes
<1>7. AssignTypes'
  <2>1. active' \in [Conns -> SUBSET Scans]
    BY <1>4 DEF EndResume, AssignTypes
  <2> QED
    BY <1>2, <1>5, <2>1 DEF AssignTypes, storageVars
<1>8. PassTypes'
  BY <1>4, TriggerTypes, PassTypesKept DEF EndResume
<1>9. ResumeTypes'
  <2>1. NoResume \in ResumeStates
    BY DEF NoResume, ResumeStates, ResumeRecord
  <2>2. CASE EndResume(c, {}, mine)
    BY <2>1, <2>2 DEF EndResume, ResumeTypes
  <2>3. CASE ~EndResume(c, {}, mine)
    <3> DEFINE new == [NoResume EXCEPT !.at = "ask", !.todo = mine \ finished,
                                       !.recent = mine \cap finished]
    <3>1. NoResume \in ResumeRecord
      BY <2>1 DEF ResumeStates
    <3>2. mine \ finished # {} /\ mine \ finished \subseteq Scans /\ mine \cap finished \subseteq Scans
      BY <1>1, <1>4, <2>3
    <3>3. new \in ResumeStates
      BY <3>1, <3>2 DEF ResumeStates, ResumeRecord
    <3>4. resume' = [resume EXCEPT ![c] = new]
      BY <1>4, <2>3
    <3> QED
      BY <3>3, <3>4, Zenon DEF ResumeTypes
  <2> QED
    BY <2>2, <2>3
<1> QED
  BY <1>3, <1>6, <1>7, <1>8, <1>9

\* A resumeRuns call asks about a run, and takes it.
LEMMA TypesOfResume ==
  ASSUME TypeOK, NEW c \in Conns, ResumeStep(c)
  PROVE  TypeOK'
<1> USE TypeSplit, TypeJoin
<1> DEFINE p == resume[c]
           s == MinOf(p.todo)
<1>0. p \in ResumeStates
  BY DEF ResumeTypes
<1>1. CASE ResumeAsks(c)
  <2> DEFINE new == [resume[c] EXCEPT !.at = "told", !.live = status[MinOf(resume[c].todo)] \in ActiveStatuses]
  <2>1. resume' = [resume EXCEPT ![c] = new]
    BY <1>1 DEF ResumeAsks
  <2>2. (status[MinOf(resume[c].todo)] \in ActiveStatuses) \in BOOLEAN
    OBVIOUS
  <2>3. new \in ResumeRecord /\ new.todo = p.todo
    BY <1>0, <2>2 DEF ResumeStates, ResumeRecord
  <2>4. p.todo # {}
    BY <1>0, <1>1 DEF ResumeStates, ResumeAsks
  <2>5. new \in ResumeStates
    BY <2>3, <2>4, Zenon DEF ResumeStates
  <2>6. ResumeTypes'
    BY <2>1, <2>5, Zenon DEF ResumeTypes
  <2>7. UNCHANGED <<platformVars, storageVars, runners, jobs, pass, rerun, stop, restarts,
                    socketVars, runnerVars>>
    BY <1>1 DEF ResumeAsks
  <2> QED
    BY <2>6, <2>7, RowTypesKept, AssignTypesKept, PassTypesKept, StopTypesKept, LinkTypesKept,
       WorkTypesKept DEF platformVars, storageVars, socketVars, runnerVars
<1>2. CASE ResumeTakes(c)
  <2> DEFINE takes == p.live /\ Cardinality(p.active) < MaxActive
             act == IF takes THEN p.active \cup {s} ELSE p.active
             left == p.todo \ {s}
             released == IF takes THEN releaseJob(s) ELSE active
  <2>1. p.todo \subseteq Scans /\ p.todo # {} /\ p.active \subseteq Scans /\ p.recent \subseteq Scans
    BY <1>0, <1>2 DEF ResumeStates, ResumeRecord, ResumeTakes
  <2>2. s \in Scans
    BY <2>1, MinOfIn
  <2>3. act \subseteq Scans /\ left \subseteq Scans
    BY <2>1, <2>2
  <2>4. released \in [Conns -> SUBSET Scans]
    BY <2>2 DEF releaseJob, AssignTypes
  <2>5. /\ jobs' = IF takes THEN [jobs EXCEPT ![s] = c] ELSE jobs
        /\ owner' = IF p.live THEN owner ELSE [owner EXCEPT ![s] = None]
        /\ UNCHANGED <<platformVars, ref, finished, runners, stop, restarts, sock, runnerVars>>
    BY <1>2, Zenon DEF ResumeTakes
  <2>6. \/ /\ active' = [released EXCEPT ![c] = act]
           /\ recent' = [recent EXCEPT ![c] = p.recent]
           /\ resume' = [resume EXCEPT ![c] = NoResume]
           /\ Trigger(c)
        \/ /\ left # {}
           /\ resume' = [resume EXCEPT ![c] = [p EXCEPT !.at = "ask", !.todo = left, !.active = act]]
           /\ active' = released
           /\ UNCHANGED <<recent, pass, rerun>>
    BY <1>2, Zenon DEF ResumeTakes
  <2> HIDE DEF act, left, released
  <2>7. active' \in [Conns -> SUBSET Scans]
    BY <2>3, <2>4, <2>6
  <2>8. AssignTypes'
    BY <2>2, <2>5, <2>7 DEF AssignTypes, runnerVars
  <2>9. LinkTypes'
    <3>1. recent' \in [Conns -> SUBSET Scans]
      BY <2>1, <2>6 DEF LinkTypes
    <3> QED
      BY <2>5, <3>1 DEF LinkTypes, runnerVars
  <2>10. PassTypes'
    BY <2>6, TriggerTypes, PassTypesKept
  <2>11. ResumeTypes'
    <3>1. NoResume \in ResumeStates
      BY DEF NoResume, ResumeStates, ResumeRecord
    <3>2. CASE resume' = [resume EXCEPT ![c] = NoResume]
      BY <3>1, <3>2 DEF ResumeTypes
    <3>3. CASE resume' # [resume EXCEPT ![c] = NoResume]
      <4> DEFINE new == [p EXCEPT !.at = "ask", !.todo = left, !.active = act]
      <4>1. new \in ResumeRecord /\ new.todo = left
        BY <1>0, <2>3 DEF ResumeStates, ResumeRecord
      <4>2. left # {} /\ resume' = [resume EXCEPT ![c] = new]
        BY <2>6, <3>3
      <4>3. new \in ResumeStates
        BY <4>1, <4>2, Zenon DEF ResumeStates
      <4> QED
        BY <4>2, <4>3, Zenon DEF ResumeTypes
    <3> QED
      BY <3>2, <3>3
  <2> QED
    BY <2>5, <2>8, <2>9, <2>10, <2>11, RowTypesKept, StopTypesKept, WorkTypesKept
       DEF platformVars, runnerVars
<1> QED
  BY <1>1, <1>2 DEF ResumeStep

\* A connection dies, and the coordinator notices.
LEMMA TypesOfClose ==
  ASSUME TypeOK, NEW c \in Conns, Break(c) \/ handleClose(c)
  PROVE  TypeOK'
<1> USE TypeSplit, TypeJoin
<1>1. UNCHANGED <<platformVars, storageVars, flightVars, restarts, active, recent, exec, over>>
  BY DEF Break, handleClose, memoryVars, socketVars
<1>2. RowTypes' /\ PassTypes' /\ ResumeTypes' /\ StopTypes' /\ WorkTypes'
  BY <1>1, RowTypesKept, PassTypesKept, ResumeTypesKept, StopTypesKept, WorkTypesKept
     DEF platformVars, storageVars, flightVars
<1>3. AssignTypes'
  <2>1. runners' \subseteq Conns /\ jobs' \in [Scans -> Conns \cup {NoConn}]
    BY DEF Break, handleClose, memoryVars, AssignTypes
  <2>2. inbox' \in [Conns -> SUBSET Scans]
    BY DEF Break, handleClose, AssignTypes
  <2> QED
    BY <1>1, <2>1, <2>2 DEF AssignTypes, storageVars
<1>4. LinkTypes'
  <2>1. net' = [net EXCEPT ![c] = FALSE] \/ net' = net
    BY DEF Break, handleClose
  <2>2. net' \in [Conns -> BOOLEAN]
    BY <2>1, Zenon DEF LinkTypes
  <2>3. sock' \in [Conns -> {"unused", "open", "closed"}] /\ up' \in [Conns -> SUBSET Scans]
    BY DEF Break, handleClose, socketVars, LinkTypes
  <2> QED
    BY <1>1, <2>2, <2>3 DEF LinkTypes
<1> QED
  BY <1>2, <1>3, <1>4

\* Hibernation and restart.
LEMMA TypesOfReconstruct ==
  ASSUME TypeOK, reconstructState
  PROVE  TypeOK'
<1> USE TypeSplit, TypeJoin
<1> DEFINE holders(s) == {c \in Conns : sock[c] = "open" /\ s \in active[c]}
<1>1. UNCHANGED <<platformVars, storageVars, flightVars, restarts, socketVars, runnerVars>>
  BY DEF reconstructState
<1>2. /\ runners' = {c \in Conns : sock[c] = "open"}
      /\ jobs' = [s \in Scans |-> IF holders(s) = {} THEN NoConn
                                  ELSE CHOOSE c \in holders(s) : \A d \in holders(s) : d <= c]
  BY DEF reconstructState
<1>3. ASSUME NEW s \in Scans PROVE jobs'[s] \in Conns \cup {NoConn}
  <2>1. CASE holders(s) = {}
    BY <1>2, <2>1
  <2>2. CASE holders(s) # {}
    <3>1. \E c \in holders(s) : \A d \in holders(s) : d <= c
      BY <2>2, GreatestConn
    <3>2. (CHOOSE c \in holders(s) : \A d \in holders(s) : d <= c) \in holders(s)
      BY <3>1
    <3> QED
      BY <1>2, <2>2, <3>2
  <2> QED
    BY <2>1, <2>2
<1>4. jobs' \in [Scans -> Conns \cup {NoConn}]
  BY <1>2, <1>3, Zenon
<1>5. AssignTypes'
  BY <1>1, <1>2, <1>4 DEF AssignTypes, storageVars, socketVars, runnerVars
<1>6. RowTypes' /\ PassTypes' /\ ResumeTypes' /\ StopTypes' /\ LinkTypes' /\ WorkTypes'
  BY <1>1, RowTypesKept, PassTypesKept, ResumeTypesKept, StopTypesKept, LinkTypesKept, WorkTypesKept
     DEF platformVars, storageVars, flightVars, socketVars, runnerVars
<1> QED
  BY <1>5, <1>6

\* A restart forgets the memory and the sockets.
LEMMA TypesOfRestart ==
  ASSUME TypeOK, Restart
  PROVE  TypeOK'
<1> USE TypeSplit, TypeJoin
<1>1. UNCHANGED <<status, outcomes, config, storageVars, active, recent, exec, over>>
  BY DEF Restart
<1>2. RowTypes'
  BY <1>1 DEF Restart, RowTypes, Requests, storageVars
<1>3. AssignTypes'
  BY <1>1 DEF Restart, AssignTypes, storageVars
<1>4. PassTypes'
  BY PassBegins DEF Restart, PassTypes
<1>5. ResumeTypes'
  <2>1. NoResume \in ResumeStates
    BY DEF NoResume, ResumeStates, ResumeRecord
  <2> QED
    BY <2>1 DEF Restart, ResumeTypes
<1>6. StopTypes'
  <2>1. restarts \in Nat /\ restarts' = restarts + 1 /\ restarts < MaxRestarts
    BY DEF StopTypes, Restart
  <2>2. restarts' \in 0..MaxRestarts
    BY <2>1, ScanDispatchAssumption
  <2> QED
    BY <2>2 DEF Restart, StopTypes
<1>7. LinkTypes'
  <2>1. net' = [c \in Conns |-> FALSE]
    BY DEF Restart
  <2>2. net' \in [Conns -> BOOLEAN]
    BY <2>1, Zenon
  <2>3. sock' \in [Conns -> {"unused", "open", "closed"}] /\ up' \in [Conns -> SUBSET Scans]
    BY DEF Restart, LinkTypes
  <2> QED
    BY <1>1, <2>2, <2>3 DEF LinkTypes
<1>8. WorkTypes'
  BY <1>1, WorkTypesKept
<1> QED
  BY <1>2, <1>3, <1>4, <1>5, <1>6, <1>7, <1>8

\* The runners, and what arrives from them.
LEMMA TypesOfRunner ==
  ASSUME TypeOK, (\E c \in Conns : RunnerReads(c)) \/ (\E r \in Runners : RunEnds(r))
  PROVE  TypeOK'
<1> USE TypeSplit, TypeJoin
<1>1. UNCHANGED <<platformVars, storageVars, memoryVars, restarts, socketVars, net>>
  BY DEF RunnerReads, RunEnds
<1>2. RowTypes' /\ PassTypes' /\ ResumeTypes' /\ StopTypes'
  BY <1>1, RowTypesKept, PassTypesKept, ResumeTypesKept, StopTypesKept
     DEF platformVars, storageVars, memoryVars, flightVars
<1>3. inbox' \in [Conns -> SUBSET Scans]
  BY DEF RunnerReads, RunEnds, AssignTypes
<1>4. AssignTypes'
  BY <1>1, <1>3 DEF AssignTypes, storageVars, memoryVars, socketVars
<1>5. up' \in [Conns -> SUBSET Scans]
  <2>1. CASE \E c \in Conns : RunnerReads(c)
    BY <2>1 DEF RunnerReads, LinkTypes
  <2>2. CASE \E r \in Runners : RunEnds(r)
    BY <2>2 DEF RunEnds, LinkTypes, WorkTypes
  <2> QED
    BY <2>1, <2>2
<1>6. LinkTypes'
  BY <1>1, <1>5 DEF LinkTypes, socketVars
<1>7. WorkTypes'
  <2>1. CASE \E c \in Conns : RunnerReads(c)
    BY <2>1, RunnerOfConn DEF RunnerReads, AssignTypes, WorkTypes
  <2>2. CASE \E r \in Runners : RunEnds(r)
    BY <2>2 DEF RunEnds, WorkTypes
  <2> QED
    BY <2>1, <2>2
<1> QED
  BY <1>2, <1>4, <1>6, <1>7

\* A terminal event is taken or dropped.
LEMMA TypesOfTerminal ==
  ASSUME TypeOK, NEW c \in Conns, TerminalArrives(c) \/ TerminalDropped(c)
  PROVE  TypeOK'
<1> USE TypeSplit, TypeJoin
<1>1. CASE TerminalDropped(c)
  <2>1. /\ UNCHANGED <<platformVars, storageVars, memoryVars, restarts, socketVars, net, inbox, exec, over>>
        /\ up' \in [Conns -> SUBSET Scans]
    BY <1>1 DEF TerminalDropped, LinkTypes
  <2>2. LinkTypes'
    BY <2>1 DEF LinkTypes, socketVars
  <2> QED
    BY <2>1, <2>2, RowTypesKept, AssignTypesKept, PassTypesKept, ResumeTypesKept, StopTypesKept,
       WorkTypesKept DEF platformVars, storageVars, memoryVars, flightVars, socketVars
<1>2. CASE TerminalArrives(c)
  <2>1. PICK s \in up[c] \cap active[c] \cap (over[RunnerOf[c]] \cup exec[RunnerOf[c]]) :
          /\ up' = [up EXCEPT ![c] = up[c] \ {s}]
          /\ over' = [over EXCEPT ![RunnerOf[c]] = over[RunnerOf[c]] \ {s}]
          /\ jobs' = [jobs EXCEPT ![s] = NoConn]
          /\ active' = [active EXCEPT ![c] = active[c] \ {s}]
          /\ recent' = [recent EXCEPT ![c] = recent[c] \cup {s}]
          /\ finished' = finished \cup {s}
          /\ outcomes' = outcomes \cup {s}
          /\ Trigger(c)
          /\ UNCHANGED <<status, request, config, ref, owner, runners, resume, stop, restarts, sock,
                         net, inbox, exec>>
    BY <1>2 DEF TerminalArrives
  <2>2. s \in Scans
    BY DEF LinkTypes
  <2>3. RowTypes'
    BY <2>1, <2>2 DEF RowTypes
  <2>4. AssignTypes'
    BY <2>1, <2>2 DEF AssignTypes
  <2>5. LinkTypes'
    BY <2>1, <2>2 DEF LinkTypes
  <2>6. WorkTypes'
    BY <2>1, RunnerOfConn DEF WorkTypes
  <2>7. PassTypes' /\ ResumeTypes' /\ StopTypes'
    BY <2>1, TriggerTypes, ResumeTypesKept, StopTypesKept
  <2> QED
    BY <2>3, <2>4, <2>5, <2>6, <2>7
<1> QED
  BY <1>1, <1>2

\* Every step keeps the types.
LEMMA TypesOfStep ==
  ASSUME TypeOK, [Next]_vars
  PROVE  TypeOK'
<1>1. ASSUME NEW s \in Scans,
             \/ Submit(s) \/ Enqueue(s) \/ RequestStep(s) \/ ConsumerEnds(s)
             \/ StopAsked(s) \/ StopStep(s) \/ Pause(s) \/ Resume(s)
      PROVE  TypeOK'
  BY <1>1, TypesOfRows, TypesOfDispatch, TypesOfStop DEF RequestStep
<1>2. ASSUME NEW c \in Conns,
             \/ PassStep(c) \/ Connect(c) \/ ResumeStep(c) \/ Break(c) \/ handleClose(c)
             \/ RunnerReads(c) \/ TerminalArrives(c) \/ TerminalDropped(c)
      PROVE  TypeOK'
  BY <1>2, TypesOfPass, TypesOfConnect, TypesOfResume, TypesOfClose, TypesOfRunner, TypesOfTerminal
<1>3. CASE (\E r \in Runners : RunEnds(r)) \/ reconstructState \/ Restart
  BY <1>3, TypesOfRunner, TypesOfReconstruct, TypesOfRestart
<1>4. CASE UNCHANGED vars
  BY <1>4, TypeSplit, TypeJoin, RowTypesKept, AssignTypesKept, PassTypesKept, ResumeTypesKept,
     StopTypesKept, LinkTypesKept, WorkTypesKept
     DEF vars, platformVars, storageVars, memoryVars, flightVars, socketVars, runnerVars
<1> QED
  BY <1>1, <1>2, <1>3, <1>4 DEF Next

\* The initial state has the types.
LEMMA TypesAtStart ==
  ASSUME Init
  PROVE  TypeOK
<1>1. NoResume \in ResumeStates
  BY DEF NoResume, ResumeStates, ResumeRecord
<1>2. ResumeTypes /\ PassTypes
  BY <1>1, PassBegins DEF Init, ResumeTypes, PassTypes
<1>3. RowTypes /\ AssignTypes /\ WorkTypes
  BY DEF Init, RowTypes, AssignTypes, WorkTypes, Requests
<1>4. StopTypes
  BY ScanDispatchAssumption DEF Init, StopTypes
<1>5. LinkTypes
  <2>1. net \in [Conns -> BOOLEAN]
    BY Zenon DEF Init
  <2> QED
    BY <2>1 DEF Init, LinkTypes
<1> QED
  BY <1>2, <1>3, <1>4, <1>5, TypeSplit

\* Type correctness of the coordinator's dispatch, for every number of scans and connections
\* (TypeOK): a pass that sends has a scan to send, a resumeRuns call that asks has a run to ask about.
THEOREM TypeCorrect == Spec => []TypeOK
<1>1. Init => TypeOK
  BY TypesAtStart
<1>2. TypeOK /\ [Next]_vars => TypeOK'
  BY TypesOfStep
<1> QED
  BY <1>1, <1>2, PTL DEF Spec

----------------------------------------------------------------------------
(* Assigning runs.                                                         *)

\* What the coordinator remembers as a runner's socket is open; a socket that was never used holds
\* no run and takes none back.
SocketInv ==
  /\ \A c \in runners : sock[c] = "open"
  /\ \A c \in Conns : sock[c] = "unused" => active[c] = {} /\ resume[c].at = "idle"

\* The capacity of what is written, and of what a resumeRuns call is going to write.
CapacityInv ==
  /\ CapacityRespected
  /\ \A c \in Conns : Cardinality(resume[c].active) <= MaxActive

\* The one way a run is given to a socket outside resumeRuns.
Assigns(c, s) ==
  /\ sock[c] = "open" /\ jobs[s] = NoConn /\ HasCapacity(c)
  /\ jobs' = [jobs EXCEPT ![s] = c]
  /\ active' = [active EXCEPT ![c] = active[c] \cup {s}]
AssignsOrNot(c) == UNCHANGED <<jobs, active>> \/ \E s \in Scans : Assigns(c, s)

\* A send assigns the run, or undoes it when the socket is gone.
LEMMA SendToAssigns ==
  ASSUME NEW c \in Conns, NEW s \in Scans, NEW p, SendTo(c, s, p),
         runners \subseteq Conns, jobs[s] = NoConn, HasCapacity(c)
  PROVE  AssignsOrNot(c) /\ runners' \subseteq runners
BY DEF SendTo, AssignsOrNot, Assigns

\* A pass that goes on assigns at most one run to its socket.
LEMMA ProceedAssigns ==
  ASSUME NEW c \in Conns, NEW p \in PassStates, Proceed(c, p), runners \subseteq Conns
  PROVE  AssignsOrNot(c) /\ runners' \subseteq runners
<1> DEFINE s == MinOf(Candidates(c, p))
<1>1. CASE Candidates(c, p) = {} \/ ~HasCapacity(c)
  BY <1>1 DEF Proceed, AssignsOrNot
<1>2. CASE Candidates(c, p) # {} /\ HasCapacity(c)
  <2>1. s \in Scans /\ s \in Candidates(c, p)
    BY <1>2, CandidatesTypes, MinOfIn
  <2>2. jobs[s] = NoConn
    BY <2>1 DEF Candidates
  <2>3. UNCHANGED <<runners, jobs, active>> \/ SendTo(c, s, After(p, s))
    BY <1>2, Zenon DEF Proceed
  <2> QED
    BY <1>2, <2>1, <2>2, <2>3, SendToAssigns DEF AssignsOrNot
<1> QED
  BY <1>1, <1>2

\* A pass gives at most one run a step, to its own socket.
LEMMA PassAssigns ==
  ASSUME TypeOK, NEW c \in Conns, PassStep(c)
  PROVE  AssignsOrNot(c) /\ runners' \subseteq runners /\ UNCHANGED <<resume, sock>>
<1>1. pass[c] \in PassStates /\ runners \subseteq Conns
  BY TypeSplit DEF PassTypes, AssignTypes
<1>2. UNCHANGED <<resume, sock>>
  BY DEF PassStep, PassReads, PassScans, PassSends, PassMissesConfig, PassMarks, PassCleans, socketVars
<1>3. CASE PassReads(c) \/ PassMarks(c)
  BY <1>2, <1>3 DEF PassReads, PassMarks, AssignsOrNot, socketVars
<1>4. CASE PassScans(c)
  <2> DEFINE p == [pass[c] EXCEPT !.done = (finished \cup collectRecentJobIds(c)) \cap pass[c].todo,
                                  !.ref = ref \cap pass[c].todo, !.own = connectedRunnerOwners]
  <2>1. p \in PassStates
    BY <1>1, ScanningPass
  <2>2. Proceed(c, p)
    BY <1>4 DEF PassScans
  <2> QED
    BY <1>1, <1>2, <2>1, <2>2, ProceedAssigns
<1>5. CASE PassSends(c)
  <2>1. pass[c].cur \in Scans
    BY <1>1, <1>5 DEF PassSends, PassStates, PassRecord
  <2>2. \/ Proceed(c, pass[c])
        \/ UNCHANGED <<runners, jobs, active>>
        \/ SendTo(c, pass[c].cur, pass[c]) /\ jobs[pass[c].cur] = NoConn /\ HasCapacity(c)
    BY <1>5, Zenon DEF PassSends
  <2> QED
    BY <1>1, <1>2, <2>1, <2>2, ProceedAssigns, SendToAssigns DEF AssignsOrNot
<1>6. CASE PassMissesConfig(c) \/ PassCleans(c)
  <2>1. Proceed(c, pass[c])
    BY <1>6 DEF PassMissesConfig, PassCleans
  <2> QED
    BY <1>1, <1>2, <2>1, ProceedAssigns
<1> QED
  BY <1>3, <1>4, <1>5, <1>6 DEF PassStep

\* So does the /dispatch request.
LEMMA DispatchAssigns ==
  ASSUME TypeOK, SocketInv, NEW s \in Scans, DispatchDecides(s)
  PROVE  /\ UNCHANGED <<jobs, active>> \/ \E c \in Conns : Assigns(c, s)
         /\ UNCHANGED <<runners, resume, sock>>
<1>1. UNCHANGED <<runners, resume, sock>>
  BY DEF DispatchDecides, flightVars
<1>2. CASE UNCHANGED <<jobs, active>>
  BY <1>1, <1>2
<1>3. CASE ~UNCHANGED <<jobs, active>>
  <2>1. PICK c \in DispatchTargets(s) :
          /\ StillUnassigned(s)
          /\ jobs' = [jobs EXCEPT ![s] = c]
          /\ active' = [active EXCEPT ![c] = active[c] \cup {s}]
    BY <1>3 DEF DispatchDecides
  <2>2. c \in Conns /\ sock[c] = "open" /\ HasCapacity(c)
    BY TypeSplit DEF DispatchTargets, SocketInv, AssignTypes
  <2> QED
    BY <1>1, <2>1, <2>2 DEF Assigns, StillUnassigned
<1> QED
  BY <1>2, <1>3

\* The steps that give no run to a socket and change none.
LEMMA ElseNoAssignment ==
  ASSUME \/ \E s \in Scans : \/ Submit(s) \/ Enqueue(s) \/ ConsumerTakes(s) \/ DispatchLoads(s)
                             \/ DispatchChecks(s) \/ DispatchDrops(s) \/ ConsumerMarks(s)
                             \/ ConsumerEnds(s) \/ StopAsked(s) \/ StopStep(s) \/ Pause(s) \/ Resume(s)
         \/ \E c \in Conns : Break(c) \/ RunnerReads(c) \/ TerminalDropped(c)
         \/ \E r \in Runners : RunEnds(r)
         \/ UNCHANGED vars
  PROVE  UNCHANGED <<runners, jobs, active, resume, sock>>
BY DEF Submit, Enqueue, ConsumerTakes, DispatchLoads, DispatchChecks, DispatchDrops, ConsumerMarks,
       ConsumerEnds, StopAsked, StopStep, StopMarks, StopClears, Pause, Resume, changeActiveStatus,
       Break, RunnerReads, TerminalDropped, RunEnds, vars, memoryVars, flightVars, socketVars

----------------------------------------------------------------------------
(* Capacity.                                                               *)

\* Sets of scans are finite.
LEMMA Finite ==
  ASSUME NEW S, S \subseteq Scans
  PROVE  IsFiniteSet(S) /\ Cardinality(S) \in Nat
<1>1. IsFiniteSet(Scans)
  BY ScanDispatchAssumption, FS_Interval DEF Scans
<1> QED
  BY <1>1, FS_Subset, FS_CardinalityType

\* One run fits where there is room for one.
LEMMA OneMoreFits ==
  ASSUME NEW S, S \subseteq Scans, NEW s, Cardinality(S) < MaxActive
  PROVE  Cardinality(S \cup {s}) <= MaxActive
<1>1. Cardinality(S \cup {s}) = IF s \in S THEN Cardinality(S) ELSE Cardinality(S) + 1
  BY Finite, FS_AddElement
<1>2. Cardinality(S) \in Nat /\ MaxActive \in Nat
  BY Finite, ScanDispatchAssumption
<1> QED
  BY <1>1, <1>2

\* Fewer runs fit where more did.
LEMMA FewerFit ==
  ASSUME NEW S, S \subseteq Scans, NEW T, T \subseteq S, Cardinality(S) <= MaxActive
  PROVE  Cardinality(T) <= MaxActive
<1>1. Cardinality(T) <= Cardinality(S) /\ Cardinality(T) \in Nat /\ Cardinality(S) \in Nat
  BY Finite, FS_Subset
<1> QED
  BY <1>1, ScanDispatchAssumption

\* No runs fit anywhere.
LEMMA NoneFits == Cardinality({}) <= MaxActive
BY FS_EmptySet, ScanDispatchAssumption

\* A run is given where there is room.
LEMMA CapacityOfAssign ==
  ASSUME TypeOK, CapacityInv, NEW c \in Conns, NEW s \in Scans, Assigns(c, s), UNCHANGED resume
  PROVE  CapacityInv'
<1>1. active \in [Conns -> SUBSET Scans]
  BY TypeSplit DEF AssignTypes
<1>2. Cardinality(active'[c]) <= MaxActive
  BY <1>1, OneMoreFits DEF Assigns, HasCapacity
<1>3. \A d \in Conns \ {c} : active'[d] = active[d]
  BY <1>1 DEF Assigns
<1> QED
  BY <1>2, <1>3 DEF CapacityInv, CapacityRespected

\* A step that leaves the attachments and the resumeRuns calls alone.
LEMMA CapacityKept ==
  ASSUME CapacityInv, UNCHANGED <<active, resume>>
  PROVE  CapacityInv'
BY DEF CapacityInv, CapacityRespected

----------------------------------------------------------------------------
(* What a step of a resumeRuns call does to the attachments.               *)

AskedRun(c) == MinOf(resume[c].todo)
Takes(c) == resume[c].live /\ Cardinality(resume[c].active) < MaxActive
Taken(c) == IF Takes(c) THEN resume[c].active \cup {AskedRun(c)} ELSE resume[c].active
Released(c) == IF Takes(c) THEN releaseJob(AskedRun(c)) ELSE active

\* A run released leaves one attachment, and no attachment grows.
LEMMA ReleasedTypes ==
  ASSUME TypeOK, NEW c \in Conns, AskedRun(c) \in Scans
  PROVE  Released(c) \in [Conns -> SUBSET Scans] /\ \A d \in Conns : Released(c)[d] \subseteq active[d]
<1>1. active \in [Conns -> SUBSET Scans] /\ jobs \in [Scans -> Conns \cup {NoConn}]
  BY TypeSplit DEF AssignTypes
<1> QED
  BY <1>1 DEF Released, releaseJob

\* A step of the call moves at most the run it asked about, and its last one writes the attachment.
LEMMA ResumeEffect ==
  ASSUME TypeOK, NEW c \in Conns, ResumeTakes(c)
  PROVE  /\ AskedRun(c) \in Scans /\ resume[c].at = "told"
         /\ resume[c].active \subseteq Scans
         /\ jobs' = IF Takes(c) THEN [jobs EXCEPT ![AskedRun(c)] = c] ELSE jobs
         /\ UNCHANGED <<runners, sock>>
         /\ \A d \in Conns \ {c} : resume'[d] = resume[d]
         /\ \/ /\ active' = [Released(c) EXCEPT ![c] = Taken(c)]
               /\ resume'[c].at = "idle" /\ resume'[c].active = {}
            \/ /\ active' = Released(c)
               /\ resume'[c].at = "ask" /\ resume'[c].active = Taken(c)
<1> DEFINE p == resume[c]
           s == MinOf(p.todo)
           takes == p.live /\ Cardinality(p.active) < MaxActive
           act == IF takes THEN p.active \cup {s} ELSE p.active
           left == p.todo \ {s}
           released == IF takes THEN releaseJob(s) ELSE active
<1>1. resume \in [Conns -> ResumeStates] /\ p \in ResumeStates
  BY TypeSplit DEF ResumeTypes
<1>2. p.at = "told" /\ p.todo \subseteq Scans /\ p.todo # {} /\ p.active \subseteq Scans
  BY <1>1 DEF ResumeStates, ResumeRecord, ResumeTakes
<1>3. s \in Scans
  BY <1>2, MinOfIn
<1>4. act = Taken(c) /\ released = Released(c) /\ s = AskedRun(c) /\ takes = Takes(c)
  BY DEF Taken, Released, AskedRun, Takes
<1>5. /\ jobs' = IF takes THEN [jobs EXCEPT ![s] = c] ELSE jobs
      /\ UNCHANGED <<runners, sock>>
  BY Zenon DEF ResumeTakes
<1>6. \/ active' = [released EXCEPT ![c] = act] /\ resume' = [resume EXCEPT ![c] = NoResume]
      \/ /\ resume' = [resume EXCEPT ![c] = [p EXCEPT !.at = "ask", !.todo = left, !.active = act]]
         /\ active' = released
  BY Zenon DEF ResumeTakes
<1> HIDE DEF act, left, released, takes, s
<1>7. CASE active' = [released EXCEPT ![c] = act] /\ resume' = [resume EXCEPT ![c] = NoResume]
  <2>1. resume'[c] = NoResume /\ \A d \in Conns \ {c} : resume'[d] = resume[d]
    BY <1>1, <1>7
  <2>2. resume'[c].at = "idle" /\ resume'[c].active = {}
    BY <2>1 DEF NoResume
  <2> QED
    BY <1>2, <1>3, <1>4, <1>5, <1>7, <2>1, <2>2
<1>8. CASE /\ resume' = [resume EXCEPT ![c] = [p EXCEPT !.at = "ask", !.todo = left, !.active = act]]
           /\ active' = released
  <2>1. /\ resume'[c] = [p EXCEPT !.at = "ask", !.todo = left, !.active = act]
        /\ \A d \in Conns \ {c} : resume'[d] = resume[d]
    BY <1>1, <1>8
  <2>2. resume'[c].at = "ask" /\ resume'[c].active = act
    BY <1>1, <2>1 DEF ResumeStates, ResumeRecord
  <2> QED
    BY <1>2, <1>3, <1>4, <1>5, <1>8, <2>1, <2>2
<1> QED
  BY <1>6, <1>7, <1>8

\* The socket that connects holds what it held (nothing) until its call ends.
LEMMA ConnectEffect ==
  ASSUME TypeOK, NEW c \in Conns, Connect(c)
  PROVE  /\ sock[c] = "unused" /\ sock' = [sock EXCEPT ![c] = "open"]
         /\ runners' = runners \cup {c} /\ UNCHANGED jobs
         /\ active' = [active EXCEPT ![c] = {}] \/ UNCHANGED active
         /\ resume'[c].active = {} /\ \A d \in Conns \ {c} : resume'[d] = resume[d]
<1>1. resume \in [Conns -> ResumeStates]
  BY TypeSplit DEF ResumeTypes
<1>2. /\ sock[c] = "unused" /\ sock' = [sock EXCEPT ![c] = "open"]
      /\ runners' = runners \cup {c} /\ UNCHANGED jobs
  BY DEF Connect
<1>3. active' = [active EXCEPT ![c] = {}] \/ UNCHANGED active
  BY Zenon DEF Connect, EndResume
<1>4. PICK t, n : \/ resume' = [resume EXCEPT ![c] = NoResume]
                  \/ resume' = [resume EXCEPT ![c] = [NoResume EXCEPT !.at = "ask", !.todo = t, !.recent = n]]
  BY Zenon DEF Connect, EndResume
<1>5. resume'[c] = NoResume \/ resume'[c] = [NoResume EXCEPT !.at = "ask", !.todo = t, !.recent = n]
  BY <1>1, <1>4
<1>6. resume'[c].active = {}
  <2>1. NoResume \in ResumeRecord /\ NoResume.active = {}
    BY DEF NoResume, ResumeRecord
  <2> QED
    BY <1>5, <2>1 DEF ResumeRecord
<1>7. \A d \in Conns \ {c} : resume'[d] = resume[d]
  BY <1>1, <1>4
<1> QED
  BY <1>2, <1>3, <1>6, <1>7

\* A terminal event takes a run from the socket.
LEMMA TerminalEffect ==
  ASSUME TypeOK, NEW c \in Conns, TerminalArrives(c)
  PROVE  /\ sock[c] = "open" /\ UNCHANGED <<runners, resume, sock>>
         /\ \E s \in active[c] : /\ jobs' = [jobs EXCEPT ![s] = NoConn]
                                 /\ active' = [active EXCEPT ![c] = active[c] \ {s}]
BY DEF TerminalArrives

\* Every step respects the capacity.
LEMMA CapacityStep ==
  ASSUME TypeOK, SocketInv, CapacityInv, [Next]_vars
  PROVE  CapacityInv'
<1>0. active \in [Conns -> SUBSET Scans]
  BY TypeSplit DEF AssignTypes
<1>1. ASSUME NEW c \in Conns, PassStep(c) PROVE CapacityInv'
  BY <1>1, PassAssigns, CapacityOfAssign, CapacityKept DEF AssignsOrNot
<1>2. ASSUME NEW s \in Scans, DispatchDecides(s) PROVE CapacityInv'
  BY <1>2, DispatchAssigns, CapacityOfAssign, CapacityKept
<1>3. ASSUME NEW c \in Conns, Connect(c) PROVE CapacityInv'
  <2>1. ASSUME NEW d \in Conns PROVE Cardinality(active'[d]) <= MaxActive
    <3>1. active'[d] = active[d] \/ active'[d] = {}
      BY <1>0, <1>3, ConnectEffect
    <3> QED
      BY <3>1, NoneFits DEF CapacityInv, CapacityRespected
  <2>2. ASSUME NEW d \in Conns PROVE Cardinality(resume'[d].active) <= MaxActive
    <3>1. resume'[d] = resume[d] \/ resume'[d].active = {}
      BY <1>3, ConnectEffect
    <3> QED
      BY <3>1, NoneFits DEF CapacityInv
  <2> QED
    BY <2>1, <2>2 DEF CapacityInv, CapacityRespected
<1>4. ASSUME NEW c \in Conns, ResumeStep(c) PROVE CapacityInv'
  <2>1. CASE ResumeAsks(c)
    <3>1. UNCHANGED active
      BY <2>1 DEF ResumeAsks, socketVars
    <3>2. resume' = [resume EXCEPT ![c] = [resume[c] EXCEPT !.at = "told",
                       !.live = status[MinOf(resume[c].todo)] \in ActiveStatuses]]
      BY <2>1 DEF ResumeAsks
    <3>3. \A d \in Conns : resume'[d].active = resume[d].active
      BY <3>2, TypeSplit DEF ResumeTypes, ResumeStates, ResumeRecord
    <3> QED
      BY <3>1, <3>3 DEF CapacityInv, CapacityRespected
  <2>2. CASE ResumeTakes(c)
    <3>1. Cardinality(Taken(c)) <= MaxActive
      BY <2>2, ResumeEffect, OneMoreFits DEF Taken, Takes, CapacityInv
    <3>2. ASSUME NEW d \in Conns PROVE Cardinality(active'[d]) <= MaxActive
      <4>1. Released(c) \in [Conns -> SUBSET Scans] /\ Released(c)[d] \subseteq active[d]
        BY <2>2, ResumeEffect, ReleasedTypes
      <4>2. Cardinality(Released(c)[d]) <= MaxActive
        BY <1>0, <4>1, FewerFit DEF CapacityInv, CapacityRespected
      <4>3. active'[d] = Released(c)[d] \/ active'[d] = Taken(c)
        BY <2>2, <4>1, ResumeEffect
      <4> QED
        BY <3>1, <4>2, <4>3
    <3>3. ASSUME NEW d \in Conns PROVE Cardinality(resume'[d].active) <= MaxActive
      <4>1. resume'[d] = resume[d] \/ resume'[d].active = {} \/ resume'[d].active = Taken(c)
        BY <2>2, ResumeEffect
      <4> QED
        BY <3>1, <4>1, NoneFits DEF CapacityInv
    <3> QED
      BY <3>2, <3>3 DEF CapacityInv, CapacityRespected
  <2> QED
    BY <1>4, <2>1, <2>2 DEF ResumeStep
<1>5. ASSUME NEW c \in Conns, TerminalArrives(c) PROVE CapacityInv'
  <2>1. UNCHANGED resume /\ \A d \in Conns : active'[d] \subseteq active[d]
    BY <1>0, <1>5, TerminalEffect
  <2>2. ASSUME NEW d \in Conns PROVE Cardinality(active'[d]) <= MaxActive
    BY <1>0, <2>1, FewerFit DEF CapacityInv, CapacityRespected
  <2> QED
    BY <2>1, <2>2 DEF CapacityInv, CapacityRespected
<1>6. ASSUME NEW c \in Conns, handleClose(c) PROVE CapacityInv'
  BY <1>6, CapacityKept DEF handleClose, flightVars
<1>7. CASE reconstructState
  BY <1>7, CapacityKept DEF reconstructState, flightVars, socketVars
<1>8. CASE Restart
  <2>1. UNCHANGED active /\ \A c \in Conns : resume'[c].active = {}
    BY <1>8 DEF Restart, NoResume
  <2> QED
    BY <2>1, NoneFits DEF CapacityInv, CapacityRespected
<1>9. ASSUME UNCHANGED <<runners, jobs, active, resume, sock>> PROVE CapacityInv'
  BY <1>9, CapacityKept
<1> QED
  BY <1>1, <1>2, <1>3, <1>4, <1>5, <1>6, <1>7, <1>8, <1>9, ElseNoAssignment DEF Next, RequestStep

----------------------------------------------------------------------------
(* Sockets.                                                                *)

\* A run is given to an open socket only.
LEMMA SocketsOfAssign ==
  ASSUME TypeOK, SocketInv, NEW c \in Conns, NEW s \in Scans, Assigns(c, s),
         UNCHANGED <<resume, sock>>, runners' \subseteq runners
  PROVE  SocketInv'
<1>1. active \in [Conns -> SUBSET Scans]
  BY TypeSplit DEF AssignTypes
<1>2. sock[c] = "open" /\ \A d \in Conns \ {c} : active'[d] = active[d]
  BY <1>1 DEF Assigns
<1> QED
  BY <1>2 DEF SocketInv

\* A step that only forgets runners.
LEMMA SocketsKept ==
  ASSUME SocketInv, UNCHANGED <<active, resume, sock>>, runners' \subseteq runners
  PROVE  SocketInv'
BY DEF SocketInv

\* Every step keeps runners and sockets in line.
LEMMA SocketStep ==
  ASSUME TypeOK, SocketInv, [Next]_vars
  PROVE  SocketInv'
<1>0. /\ active \in [Conns -> SUBSET Scans] /\ runners \subseteq Conns
      /\ sock \in [Conns -> {"unused", "open", "closed"}]
  BY TypeSplit DEF AssignTypes, LinkTypes
<1>1. ASSUME NEW c \in Conns, PassStep(c) PROVE SocketInv'
  BY <1>1, PassAssigns, SocketsOfAssign, SocketsKept DEF AssignsOrNot
<1>2. ASSUME NEW s \in Scans, DispatchDecides(s) PROVE SocketInv'
  BY <1>2, DispatchAssigns, SocketsOfAssign, SocketsKept
<1>3. ASSUME NEW c \in Conns, Connect(c) PROVE SocketInv'
  <2>1. sock'[c] = "open" /\ runners' = runners \cup {c}
        /\ \A d \in Conns \ {c} : sock'[d] = sock[d] /\ active'[d] = active[d] /\ resume'[d] = resume[d]
    BY <1>0, <1>3, ConnectEffect
  <2> QED
    BY <1>0, <2>1 DEF SocketInv
<1>4. ASSUME NEW c \in Conns, ResumeStep(c) PROVE SocketInv'
  <2>1. CASE ResumeAsks(c)
    <3>1. UNCHANGED <<active, sock, runners>> /\ resume[c].at = "ask"
      BY <2>1 DEF ResumeAsks, socketVars
    <3>2. \A d \in Conns \ {c} : resume'[d] = resume[d]
      BY <2>1, TypeSplit DEF ResumeAsks, ResumeTypes
    <3> QED
      BY <3>1, <3>2 DEF SocketInv
  <2>2. CASE ResumeTakes(c)
    <3>1. resume[c].at = "told" /\ UNCHANGED <<runners, sock>>
          /\ \A d \in Conns \ {c} : resume'[d] = resume[d]
      BY <2>2, ResumeEffect
    <3>2. sock[c] # "unused"
      BY <3>1 DEF SocketInv
    <3>3. ASSUME NEW d \in Conns \ {c} PROVE active'[d] \subseteq active[d]
      <4>1. Released(c) \in [Conns -> SUBSET Scans] /\ Released(c)[d] \subseteq active[d]
        BY <2>2, ResumeEffect, ReleasedTypes
      <4>2. active' = [Released(c) EXCEPT ![c] = Taken(c)] \/ active' = Released(c)
        BY <2>2, ResumeEffect
      <4> QED
        BY <4>1, <4>2
    <3> QED
      BY <3>1, <3>2, <3>3 DEF SocketInv
  <2> QED
    BY <1>4, <2>1, <2>2 DEF ResumeStep
<1>5. ASSUME NEW c \in Conns, TerminalArrives(c) PROVE SocketInv'
  <2>1. UNCHANGED <<runners, resume, sock>> /\ \A d \in Conns : active'[d] \subseteq active[d]
    BY <1>0, <1>5, TerminalEffect
  <2> QED
    BY <2>1 DEF SocketInv
<1>6. ASSUME NEW c \in Conns, handleClose(c) PROVE SocketInv'
  BY <1>0, <1>6 DEF handleClose, flightVars, SocketInv
<1>7. CASE reconstructState
  BY <1>7 DEF reconstructState, flightVars, socketVars, SocketInv
<1>8. CASE Restart
  BY <1>0, <1>8 DEF Restart, NoResume, SocketInv
<1>9. ASSUME UNCHANGED <<runners, jobs, active, resume, sock>> PROVE SocketInv'
  BY <1>9, SocketsKept
<1> QED
  BY <1>1, <1>2, <1>3, <1>4, <1>5, <1>6, <1>7, <1>8, <1>9, ElseNoAssignment DEF Next, RequestStep

----------------------------------------------------------------------------
(* Tracking.                                                               *)

\* A run given to a socket was held by none.
LEMMA TrackedAssign ==
  ASSUME TypeOK, Tracked, NEW c \in Conns, NEW s \in Scans, Assigns(c, s), UNCHANGED sock
  PROVE  Tracked'
<1>1. active \in [Conns -> SUBSET Scans] /\ jobs \in [Scans -> Conns \cup {NoConn}]
  BY TypeSplit DEF AssignTypes
<1>2. ASSUME NEW d \in Conns, sock'[d] = "open", NEW t \in active'[d] PROVE jobs'[t] = d
  <2>1. CASE t = s
    <3>1. NoConn \notin Conns
      BY ScanDispatchAssumption DEF NoConn, Conns
    <3>2. d = c
      BY <1>1, <1>2, <2>1, <3>1 DEF Assigns, Tracked
    <3> QED
      BY <1>1, <2>1, <3>2 DEF Assigns
  <2>2. CASE t # s
    <3>1. t \in active[d] /\ jobs'[t] = jobs[t]
      BY <1>1, <1>2, <2>2 DEF Assigns
    <3> QED
      BY <1>2, <3>1 DEF Tracked
  <2> QED
    BY <2>1, <2>2
<1> QED
  BY <1>2 DEF Tracked

\* A resumeRuns call takes a run from the socket that holds it; what it took before is its own still,
\* or the write at its end overlaps with another handler.
LEMMA TrackedResume ==
  ASSUME TypeOK, Tracked, NEW c \in Conns, ResumeTakes(c), ~OverlappedWrite(c)
  PROVE  Tracked'
<1> DEFINE s == AskedRun(c)
<1>0. active \in [Conns -> SUBSET Scans] /\ jobs \in [Scans -> Conns \cup {NoConn}]
  BY TypeSplit DEF AssignTypes
<1>1. s \in Scans /\ UNCHANGED sock
  BY ResumeEffect
<1>2. Released(c) \in [Conns -> SUBSET Scans] /\ \A d \in Conns : Released(c)[d] \subseteq active[d]
  BY <1>1, ReleasedTypes
<1>3. jobs' = IF Takes(c) THEN [jobs EXCEPT ![s] = c] ELSE jobs
  BY ResumeEffect
<1> HIDE DEF s
<1>4. ASSUME NEW d \in Conns, sock[d] = "open", NEW t \in Released(c)[d] PROVE jobs'[t] = d
  <2>1. t \in active[d] /\ jobs[t] = d /\ t \in Scans
    BY <1>0, <1>2, <1>4 DEF Tracked
  <2>2. CASE ~Takes(c)
    BY <1>3, <2>1, <2>2
  <2>3. CASE Takes(c)
    <3>1. Released(c) = releaseJob(s)
      BY <2>3 DEF Released, s
    <3>2. NoConn \notin Conns
      BY ScanDispatchAssumption DEF NoConn, Conns
    <3>3. t # s
      <4>1. SUFFICES ASSUME t = s PROVE FALSE
        OBVIOUS
      <4>2. jobs[s] = d /\ jobs[s] # NoConn
        BY <2>1, <3>2, <4>1
      <4>3. releaseJob(s) = [active EXCEPT ![d] = active[d] \ {s}]
        BY <4>2 DEF releaseJob
      <4> QED
        BY <1>0, <1>4, <3>1, <4>1, <4>3
    <3> QED
      BY <1>0, <1>1, <1>3, <2>1, <2>3, <3>3
  <2> QED
    BY <2>2, <2>3
<1>5. CASE active' = Released(c)
  BY <1>1, <1>4, <1>5 DEF Tracked
<1>6. CASE active' = [Released(c) EXCEPT ![c] = Taken(c)] /\ resume'[c].at = "idle"
  <2>1. \A t \in resume[c].active : jobs[t] = c
    BY <1>6, ResumeEffect DEF OverlappedWrite
  <2>2. ASSUME NEW t \in Taken(c) PROVE jobs'[t] = c
    <3>1. resume[c].active \subseteq Scans
      BY ResumeEffect
    <3>2. CASE Takes(c) /\ t = s
      BY <1>0, <1>1, <1>3, <3>2
    <3>3. CASE ~(Takes(c) /\ t = s)
      <4>1. t \in resume[c].active
        BY <2>2, <3>3 DEF Taken, s
      <4>2. jobs'[t] = jobs[t]
        BY <1>0, <1>1, <1>3, <3>1, <3>3, <4>1
      <4> QED
        BY <2>1, <4>1, <4>2
    <3> QED
      BY <3>2, <3>3
  <2>3. ASSUME NEW d \in Conns, sock'[d] = "open", NEW t \in active'[d] PROVE jobs'[t] = d
    <3>1. CASE d = c
      BY <1>2, <1>6, <2>2, <2>3, <3>1
    <3>2. CASE d # c
      BY <1>1, <1>2, <1>4, <1>6, <2>3, <3>2
    <3> QED
      BY <3>1, <3>2
  <2> QED
    BY <2>3 DEF Tracked
<1> QED
  BY <1>5, <1>6, ResumeEffect

\* The rebuild from the attachments finds the holder that memory had.
LEMMA TrackedReconstruct ==
  ASSUME TypeOK, Tracked, reconstructState
  PROVE  Tracked'
<1> DEFINE holders(s) == {c \in Conns : sock[c] = "open" /\ s \in active[c]}
<1>1. UNCHANGED <<sock, active>>
  BY DEF reconstructState, socketVars
<1>2. jobs' = [s \in Scans |-> IF holders(s) = {} THEN NoConn
                               ELSE CHOOSE c \in holders(s) : \A d \in holders(s) : d <= c]
  BY DEF reconstructState
<1>3. ASSUME NEW c \in Conns, sock[c] = "open", NEW s \in active[c] PROVE jobs'[s] = c
  <2>1. s \in Scans
    BY <1>3, TypeSplit DEF AssignTypes
  <2>2. c \in holders(s) /\ \A d \in holders(s) : d = c
    BY <1>3 DEF Tracked
  <2>3. \E d \in holders(s) : \A e \in holders(s) : e <= d
    BY <2>2, GreatestConn
  <2>4. (CHOOSE d \in holders(s) : \A e \in holders(s) : e <= d) \in holders(s)
    BY <2>3
  <2>5. jobs'[s] = CHOOSE d \in holders(s) : \A e \in holders(s) : e <= d
    BY <1>2, <2>1, <2>2
  <2> QED
    BY <2>2, <2>4, <2>5
<1> QED
  BY <1>1, <1>3 DEF Tracked

\* Every step but an overlapped write keeps jobs and attachments tied.
LEMMA TrackedStep ==
  ASSUME TypeOK, SocketInv, Tracked, [Next]_vars, \A c \in Conns : ~OverlappedWrite(c)
  PROVE  Tracked'
<1>0. /\ active \in [Conns -> SUBSET Scans] /\ jobs \in [Scans -> Conns \cup {NoConn}]
      /\ sock \in [Conns -> {"unused", "open", "closed"}]
  BY TypeSplit DEF AssignTypes, LinkTypes
<1>1. ASSUME UNCHANGED <<jobs, active, sock>> PROVE Tracked'
  BY <1>1 DEF Tracked
<1>2. ASSUME NEW c \in Conns, PassStep(c) PROVE Tracked'
  BY <1>1, <1>2, PassAssigns, TrackedAssign DEF AssignsOrNot
<1>3. ASSUME NEW s \in Scans, DispatchDecides(s) PROVE Tracked'
  BY <1>1, <1>3, DispatchAssigns, TrackedAssign
<1>4. ASSUME NEW c \in Conns, Connect(c) PROVE Tracked'
  <2>1. active[c] = {} /\ UNCHANGED jobs
    BY <1>4, ConnectEffect DEF SocketInv
  <2>2. active'[c] = {} /\ \A d \in Conns \ {c} : active'[d] = active[d] /\ sock'[d] = sock[d]
    BY <1>0, <1>4, <2>1, ConnectEffect
  <2> QED
    BY <2>1, <2>2 DEF Tracked
<1>5. ASSUME NEW c \in Conns, ResumeStep(c) PROVE Tracked'
  <2>1. CASE ResumeAsks(c)
    BY <1>1, <2>1 DEF ResumeAsks, socketVars
  <2>2. CASE ResumeTakes(c)
    BY <2>2, TrackedResume
  <2> QED
    BY <1>5, <2>1, <2>2 DEF ResumeStep
<1>6. ASSUME NEW c \in Conns, TerminalArrives(c) PROVE Tracked'
  <2>1. PICK s \in active[c] : /\ jobs' = [jobs EXCEPT ![s] = NoConn]
                               /\ active' = [active EXCEPT ![c] = active[c] \ {s}]
    BY <1>6, TerminalEffect
  <2>2. sock[c] = "open" /\ UNCHANGED sock /\ jobs[s] = c
    BY <1>6, TerminalEffect DEF Tracked
  <2>3. ASSUME NEW d \in Conns, sock[d] = "open", NEW t \in active'[d] PROVE jobs'[t] = d
    <3>1. t \in active[d] /\ jobs[t] = d
      BY <1>0, <2>1, <2>3 DEF Tracked
    <3>2. t # s
      BY <1>0, <2>1, <2>2, <2>3, <3>1
    <3> QED
      BY <1>0, <2>1, <3>1, <3>2
  <2> QED
    BY <2>2, <2>3 DEF Tracked
<1>7. ASSUME NEW c \in Conns, handleClose(c) PROVE Tracked'
  BY <1>0, <1>7 DEF handleClose, Tracked
<1>8. CASE reconstructState
  BY <1>8, TrackedReconstruct
<1>9. CASE Restart
  <2>1. \A c \in Conns : sock'[c] # "open"
    BY <1>9 DEF Restart
  <2> QED
    BY <2>1 DEF Tracked
<1> QED
  BY <1>1, <1>2, <1>3, <1>4, <1>5, <1>6, <1>7, <1>8, <1>9, ElseNoAssignment DEF Next, RequestStep

----------------------------------------------------------------------------
(* The theorems.                                                           *)

\* The initial state has the invariants.
LEMMA InvAtStart ==
  ASSUME Init
  PROVE  SocketInv /\ CapacityInv
BY NoneFits DEF Init, SocketInv, CapacityInv, CapacityRespected, NoResume

\* runners and sockets are in line in every reachable state.
LEMMA SocketsAreRight == Spec => [](TypeOK /\ SocketInv)
<1>1. Init => TypeOK /\ SocketInv
  BY TypesAtStart, InvAtStart
<1>2. TypeOK /\ SocketInv /\ [Next]_vars => (TypeOK /\ SocketInv)'
  BY TypesOfStep, SocketStep
<1> QED
  BY <1>1, <1>2, PTL DEF Spec

\* No runner is given more runs than it may hold (CapacityRespected): the check before each send and
\* the count of a resumeRuns call suffice, although all of them run interleaved.
THEOREM CapacityHolds == Spec => []CapacityRespected
<1>1. Init => CapacityInv
  BY InvAtStart
<1>2. TypeOK /\ SocketInv /\ CapacityInv /\ [Next]_vars => CapacityInv'
  BY CapacityStep
<1>3. CapacityInv => CapacityRespected
  BY DEF CapacityInv
<1> QED
  BY <1>1, <1>2, <1>3, SocketsAreRight, PTL DEF Spec

\* jobs and the attachments stay tied (TrackingKept) in every step of dispatch, hand-over, close,
\* completion and rebuild, except the last write of a resumeRuns call that overlapped with another.
THEOREM TrackingIsKept == Spec => TrackingKept
<1>1. TypeOK /\ SocketInv /\ [Next]_vars
      => [Tracked => Tracked' \/ \E c \in Conns : OverlappedWrite(c)]_vars
  BY TrackedStep
<1> QED
  BY <1>1, SocketsAreRight, PTL DEF Spec, TrackingKept

=============================================================================
