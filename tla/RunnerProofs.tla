---------------------------- MODULE RunnerProofs ----------------------------
(***************************************************************************)
(* Theorems about parts of a run that stand by themselves, for every value *)
(* of their constants: the pending calls of an MCP client, the wakeup of a *)
(* run's waiters, and the renewal of its session.                          *)
(***************************************************************************)
EXTENDS RunnerControl, RunnerSession, McpClient, TLAPS

----------------------------------------------------------------------------
(* The MCP client. A listed call, and one whose answer is in hand, has an  *)
(* open channel; a call whose channel is open is listed or in hand.        *)

McpTypes ==
  /\ mcpCall \in [McpCalls -> {"new", "sending", "waiting", "answered", "failed"}]
  /\ answerChan \in [McpCalls -> {"none", "open", "answered", "closed"}]
  /\ listed \subseteq McpCalls /\ inHand \subseteq McpCalls /\ asked \subseteq McpCalls
  /\ answers \in [McpCalls -> Nat]

Channels ==
  /\ listed \cap inHand = {} /\ \A c, d \in inHand : c = d
  /\ \A c \in listed \cup inHand : answerChan[c] = "open" /\ mcpCall[c] # "new"
  /\ \A c \in McpCalls :
       mcpCall[c] \in {"sending", "waiting"} /\ answerChan[c] = "open" => c \in listed \cup inHand

\* Nothing is listed any more once the stream has ended, nor asked of an exited subprocess.
Deserted ==
  /\ transport = "sse" /\ ~reading => streamEnded /\ listed = {}
  /\ reaped => gone /\ transport = "stdio" /\ \A c \in listed : c \notin asked
  /\ transport = "stdio" /\ streamEnded => gone
  /\ \A c \in McpCalls : mcpCall[c] = "waiting" => c \in asked
  /\ \A c \in McpCalls : mcpCall[c] = "new" => c \notin asked

McpInv == McpTypes /\ Channels /\ Deserted

LEMMA McpInitially == ASSUME McpInit PROVE McpInv
BY DEF McpInit, McpInv, McpTypes, Channels, Deserted

\* The steps of a call until it waits.
LEMMA McpAsks ==
  ASSUME McpInv, NEW c \in McpCalls, Register(c) \/ ReachesServer(c) \/ Sent(c) \/ SendFails(c)
  PROVE  McpInv'
<1>1. CASE Register(c)
  BY <1>1 DEF Register, CallRefused, McpInv, McpTypes, Channels, Deserted, mcpStreamVars
<1>2. CASE ReachesServer(c)
  BY <1>2 DEF ReachesServer, McpInv, McpTypes, Channels, Deserted, mcpStreamVars
<1>3. CASE Sent(c)
  BY <1>3 DEF Sent, Ends, McpInv, McpTypes, Channels, Deserted, mcpStreamVars
<1>4. CASE SendFails(c)
  BY <1>4 DEF SendFails, Ends, McpInv, McpTypes, Channels, Deserted, mcpStreamVars
<1> QED BY <1>1, <1>2, <1>3, <1>4

\* The end of a call, and the answer on its way to it.
LEMMA McpReturns ==
  ASSUME McpInv, NEW c \in McpCalls, Returns(c) \/ TimesOut(c) \/ ReadsAnswer(c) \/ HandsOver(c)
  PROVE  McpInv'
<1>1. CASE Returns(c)
  BY <1>1 DEF Returns, Ends, McpInv, McpTypes, Channels, Deserted, mcpStreamVars
<1>2. CASE TimesOut(c)
  BY <1>2 DEF TimesOut, Ends, McpInv, McpTypes, Channels, Deserted, mcpStreamVars
<1>3. CASE ReadsAnswer(c)
  BY <1>3 DEF ReadsAnswer, Found, McpInv, McpTypes, Channels, Deserted, mcpStreamVars
<1>4. CASE HandsOver(c)
  BY <1>4 DEF HandsOver, McpInv, McpTypes, Channels, Deserted, mcpStreamVars
<1> QED BY <1>1, <1>2, <1>3, <1>4

\* The channels of the listed calls are closed, all at once.
LEMMA McpCloses ==
  ASSUME McpInv, ReaderEnds \/ ProcessReaped \/ CloseClears
  PROVE  McpInv'
<1>1. CASE ReaderEnds
  BY <1>1 DEF ReaderEnds, CloseListed, McpInv, McpTypes, Channels, Deserted
<1>2. CASE ProcessReaped
  BY <1>2 DEF ProcessReaped, CloseListed, McpInv, McpTypes, Channels, Deserted
<1>3. CASE CloseClears
  BY <1>3 DEF CloseClears, CloseListed, McpInv, McpTypes, Channels, Deserted
<1> QED BY <1>1, <1>2, <1>3

\* The other steps leave the calls alone.
LEMMA McpGoes ==
  ASSUME McpInv, StreamGoes \/ ProcessDone \/ CloseMarks \/ CloseCancels \/ UNCHANGED mcpVars
  PROVE  McpInv'
BY DEF StreamGoes, ProcessDone, CloseMarks, CloseCancels, McpInv, McpTypes, Channels, Deserted,
       mcpVars, mcpStreamVars, mcpCallVars

LEMMA McpAlways == McpSpec => []McpInv
<1>1. ASSUME McpInv, [McpNext]_mcpVars PROVE McpInv'
  BY <1>1, McpAsks, McpReturns, McpCloses, McpGoes DEF McpNext, CallStep
<1> QED BY <1>1, McpInitially, PTL DEF McpSpec

\* The reader's send never meets a closed or a full channel (handleSSEEvent, readStdoutLoop).
THEOREM ReaderNeverStuck == McpSpec => []ReaderCanSend
<1>1. McpInv => ReaderCanSend
  BY DEF McpInv, Channels, ReaderCanSend
<1> QED BY <1>1, McpAlways, PTL

\* No call is left waiting on a channel that nobody will fill or close (readSSELoop, waitProcess).
THEOREM CallsAreReleased == McpSpec => []NoOrphanedCall
<1>1. McpInv => NoOrphanedCall
  BY DEF McpInv, McpTypes, Channels, Deserted, NoOrphanedCall
<1> QED BY <1>1, McpAlways, PTL

----------------------------------------------------------------------------
(* Waiting and waking.                                                     *)

\* Before the loop nobody waits; a waiter about to sleep for nothing, who holds the lock, is woken
\* by wakeOnDone, since only the end of the context can have come while it held the lock.
ControlInv ==
  /\ ControlTypeOK /\ NoLostWakeup
  /\ start \in {"new", "begun"} => \A w \in Waiters : at[w] = "none"
  /\ \A w \in Waiters : at[w] = "toSleep" /\ ~MustWait(w) => wake

LEMMA ControlInitially == ASSUME ControlInit PROVE ControlInv
BY ControlAssumption DEF ControlInit, ControlInv, ControlTypeOK, NoLostWakeup, Waiters, Commanders

LEMMA ControlStarts ==
  ASSUME ControlInv, initRun \/ ResumeCheckpoint \/ LoopEnds
  PROVE  ControlInv'
<1> USE ControlAssumption DEF ControlInv, ControlTypeOK, NoLostWakeup, Waiters, MustWait, Asked
<1>1. CASE initRun
  BY <1>1 DEF initRun
<1>2. CASE ResumeCheckpoint
  BY <1>2 DEF ResumeCheckpoint
<1>3. CASE LoopEnds
  BY <1>3 DEF LoopEnds, flagVars
<1> QED BY <1>1, <1>2, <1>3

LEMMA ControlRequests ==
  ASSUME ControlInv, NEW r \in Requesters, StartRequest(r) \/ RequestEnds(r)
  PROVE  ControlInv'
<1> USE ControlAssumption DEF ControlInv, ControlTypeOK, NoLostWakeup, Waiters, MustWait, Asked,
        flagVars
<1>1. CASE StartRequest(r)
  BY <1>1 DEF StartRequest
<1>2. CASE RequestEnds(r)
  BY <1>2 DEF RequestEnds
<1> QED BY <1>1, <1>2

LEMMA ControlWaits ==
  ASSUME ControlInv, NEW w \in Waiters, Waits(w)
  PROVE  ControlInv'
<1> USE ControlAssumption DEF ControlInv, ControlTypeOK, NoLostWakeup, Waiters, MustWait, Asked,
        flagVars
<1>1. CASE FirstLook(w)
  BY <1>1 DEF FirstLook
<1>2. CASE Lock(w)
  BY <1>2 DEF Lock
<1>3. CASE Look(w)
  BY <1>3 DEF Look
<1>4. CASE Sleep(w)
  BY <1>4 DEF Sleep
<1> QED BY <1>1, <1>2, <1>3, <1>4 DEF Waits

\* A broadcast wakes those asleep; who is about to sleep holds the lock.
LEMMA ControlWakes ==
  ASSUME ControlInv, WakeOnDone \/ \E k \in Commanders : Broadcast(k)
  PROVE  ControlInv'
<1> USE ControlAssumption DEF ControlInv, ControlTypeOK, NoLostWakeup, Waiters, MustWait, Asked,
        flagVars,
                              WakeAll, Commanders
<1>1. CASE WakeOnDone
  BY <1>1 DEF WakeOnDone, WakeMay
<1>2. ASSUME NEW k \in Commanders, Broadcast(k) PROVE ControlInv'
  BY <1>2 DEF Broadcast, ThenDoes
<1> QED BY <1>1, <1>2

\* The commands that store a flag do so while nobody holds the lock.
LEMMA ControlStores ==
  ASSUME ControlInv, ResumeRun \/ Hold \/ EndHold \/ PauseRun \/ \E k \in Commanders : StopSets(k)
  PROVE  ControlInv'
<1> USE ControlAssumption DEF ControlInv, ControlTypeOK, NoLostWakeup, Waiters, MustWait, Asked,
        flagVars,
                              Commanders, ThenDoes, MayStore
<1>1. CASE ResumeRun
  BY <1>1 DEF ResumeRun
<1>2. CASE Hold
  BY <1>2 DEF Hold
<1>3. CASE EndHold
  BY <1>3 DEF EndHold
<1>4. CASE PauseRun
  BY <1>4 DEF PauseRun
<1>5. ASSUME NEW k \in Commanders, StopSets(k) PROVE ControlInv'
  BY <1>5, ZenonT(30) DEF StopSets
<1> QED BY <1>1, <1>2, <1>3, <1>4, <1>5

\* The cancellation needs no lock: it sets up a wakeup of everyone on the way to sleep.
LEMMA ControlCancels ==
  ASSUME ControlInv, NEW k \in Commanders, StopCancels(k)
  PROVE  ControlInv'
BY ControlAssumption DEF ControlInv, ControlTypeOK, NoLostWakeup, Waiters, MustWait, Asked,
   flagVars,
   Commanders, ThenDoes, StopCancels, Registered

LEMMA ControlAsks ==
  ASSUME ControlInv, NEW k \in Commanders, NEW what \in {"resume", "stop", "hold", "release"}, Ask(k, what)
  PROVE  ControlInv'
BY ControlAssumption DEF ControlInv, ControlTypeOK, NoLostWakeup, Waiters, MustWait, Asked,
   flagVars,
   Commanders, ThenDoes, Ask

LEMMA ControlStutters == ASSUME ControlInv, UNCHANGED controlVars PROVE ControlInv'
BY DEF ControlInv, ControlTypeOK, NoLostWakeup, MustWait, Asked, controlVars, flagVars

LEMMA ControlStep == ASSUME ControlInv, [ControlNext]_controlVars PROVE ControlInv'
<1>1. CASE initRun \/ ResumeCheckpoint \/ LoopEnds
  BY <1>1, ControlStarts
<1>2. CASE \E r \in Requesters : StartRequest(r) \/ RequestEnds(r)
  BY <1>2, ControlRequests
<1>3. CASE \E w \in Waiters : Waits(w)
  BY <1>3, ControlWaits
<1>4. CASE WakeOnDone \/ \E k \in Commanders : Carries(k)
  BY <1>4, ControlWakes, ControlStores, ControlCancels DEF Carries
<1>5. CASE Commands
  BY <1>5, ControlAsks, ControlStores DEF Commands, Commanders
<1>6. CASE UNCHANGED controlVars
  BY <1>6, ControlStutters
<1> QED BY <1>1, <1>2, <1>3, <1>4, <1>5, <1>6 DEF ControlNext

\* No wakeup is lost, for any number of requests (waitIfPaused, waitWhileHeld, wakeOnDone).
THEOREM WaitersAreWoken == ControlSpec => []NoLostWakeup
<1>1. ControlInv => NoLostWakeup
  BY DEF ControlInv
<1> QED BY <1>1, ControlInitially, ControlStep, PTL DEF ControlSpec

----------------------------------------------------------------------------
(* The session. Headers only ever come from a later login, and a login     *)
(* replaces the session its request failed with.                           *)

LoggingIn == {c \in Calls : doing[c].at \in {"login", "extracted"}}

SessionInv ==
  /\ SessionTypeOK
  /\ headers <= logins
  /\ \A c \in LoggingIn : doing[c].headers = headers
  /\ \A c \in Calls : doing[c].at = "extracted" => headers < logins
  /\ \A s \in Sessions : renewed[s] <= 1 /\ (renewed[s] = 1 => s < headers)

\* What a goroutine's record may hold.
Errand == [at : {"idle", "headers", "sent", "wants", "check", "login", "extracted"},
           headers : Sessions, variables : Sessions, retried : BOOLEAN]

LEMMA SessionNumbers == 0 \in Sessions /\ Sessions \subseteq Nat /\ Fresh \in Errand
BY SessionAssumption DEF Sessions, Fresh, Errand

\* Headers taken from the session make a record of the right type, with those headers.
LEMMA HeadersTyped ==
  ASSUME SessionTypeOK
  PROVE  /\ [Fresh EXCEPT !.at = "headers", !.headers = headers] \in Errand
         /\ [Fresh EXCEPT !.at = "headers", !.headers = headers].at = "headers"
BY SessionNumbers DEF SessionTypeOK, Fresh, Errand

LEMMA SessionInitially == ASSUME SessionInit PROVE SessionInv
<1> USE SessionAssumption, SessionNumbers DEF SessionInit
<1>1. SessionTypeOK
  <2>1. doing \in [Calls -> Errand] /\ renewed \in [Sessions -> Nat]
    OBVIOUS
  <2>2. \A c \in Calls : doing[c].at = "idle"
    BY DEF Fresh
  <2>3. headers \in Sessions /\ variables \in Sessions /\ valid \subseteq Sessions /\ logins \in Sessions
    OBVIOUS
  <2>4. ends \in 0..MaxEnds
    OBVIOUS
  <2>5. probed \in BOOLEAN /\ reauthMu = NoOwner
    BY Zenon
  <2> QED BY <2>1, <2>2, <2>3, <2>4, <2>5 DEF SessionTypeOK, Errand, NoOwner
<1> QED BY <1>1 DEF SessionInv, Fresh, LoggingIn, Sessions

\* The requests do not touch the session.
LEMMA SessionSends ==
  ASSUME SessionInv, NEW c \in Calls, Sends(c)
  PROVE  SessionInv'
<1> USE SessionAssumption, SessionNumbers DEF SessionInv, SessionTypeOK, LoggingIn, Moves, NoOwner
<1>1. CASE TakeHeaders(c)
  BY <1>1, HeadersTyped DEF TakeHeaders, Errand
<1>2. CASE TakeVariables(c)
  BY <1>2, ZenonT(30) DEF TakeVariables
<1>3. CASE Accepted(c)
  BY <1>3 DEF Accepted
<1>4. CASE Refused(c)
  BY <1>4 DEF Refused
<1> QED BY <1>1, <1>2, <1>3, <1>4 DEF Sends

\* Under the lock: whoever logs in does so for the headers it failed with.
LEMMA SessionRenews ==
  ASSUME SessionInv, NEW c \in Calls, Renews(c)
  PROVE  SessionInv'
<1> USE SessionAssumption, SessionNumbers DEF SessionInv, SessionTypeOK, LoggingIn, Moves, NoOwner,
        Unlock, IsFresh,
                                             Fresh, Errand
<1>1. CASE LockSession(c)
  BY <1>1 DEF LockSession
<1>2. CASE UseFresh(c)
  BY <1>2 DEF UseFresh
<1>3. CASE TrustProbe(c)
  BY <1>3 DEF TrustProbe
<1>4. CASE StartLogin(c)
  BY <1>4 DEF StartLogin
<1>5. CASE LoginStep(c)
  <2>1. logins' = logins + 1 /\ logins' \in Sessions /\ variables' \in Sessions
    BY <1>5 DEF LoginStep, Sessions
  <2>2. SessionTypeOK'
    BY <1>5, <2>1 DEF LoginStep
  <2>3. headers' = headers /\ headers < logins'
    BY <1>5, <2>1 DEF LoginStep
  <2>4. LoggingIn' = LoggingIn /\ \A d \in Calls : doing'[d].headers = doing[d].headers
    BY <1>5 DEF LoginStep
  <2>5. \A s \in Sessions : renewed'[s] <= 1 /\ (renewed'[s] = 1 => s < headers')
    BY <1>5, <2>3 DEF LoginStep
  <2> QED BY <2>1, <2>2, <2>3, <2>4, <2>5
<1>6. CASE LoginSucceeds(c)
  <2>1. doing[c].headers = headers /\ headers < logins /\ headers' = logins
    BY <1>6 DEF LoginSucceeds
  <2>2. renewed' = [renewed EXCEPT ![headers] = @ + 1] /\ renewed[headers] = 0
    BY <1>6, <2>1 DEF LoginSucceeds
  <2>3. \A s \in Sessions : renewed'[s] <= 1 /\ (renewed'[s] = 1 => s < headers')
    BY <2>1, <2>2
  <2>4. \A d \in Calls : doing'[d].at \notin {"check", "login", "extracted"}
    BY <1>6 DEF LoginSucceeds
  <2>5. SessionTypeOK'
    <3>1. doing' \in [Calls -> Errand] /\ reauthMu' = NoOwner
      BY <1>6 DEF LoginSucceeds
    <3>2. renewed' \in [Sessions -> Nat] /\ headers' \in Sessions /\ valid' \subseteq Sessions
      BY <1>6, <2>2 DEF LoginSucceeds
    <3>3. probed' = TRUE /\ UNCHANGED <<variables, ends, logins>>
      BY <1>6 DEF LoginSucceeds
    <3> QED BY <2>4, <3>1, <3>2, <3>3
  <2>6. logins' = logins
    BY <1>6 DEF LoginSucceeds
  <2> QED BY <2>1, <2>3, <2>4, <2>5, <2>6
<1>7. CASE LoginFails(c)
  BY <1>7 DEF LoginFails
<1> QED BY <1>1, <1>2, <1>3, <1>4, <1>5, <1>6, <1>7 DEF Renews

LEMMA SessionStep ==
  ASSUME SessionInv, [SessionNext]_sessionVars
  PROVE  SessionInv'
<1> USE SessionAssumption DEF SessionInv, SessionTypeOK, LoggingIn
<1>1. CASE SessionEnds
  BY <1>1 DEF SessionEnds
<1>2. CASE ProbeAges
  BY <1>2 DEF ProbeAges
<1>3. CASE UNCHANGED sessionVars
  BY <1>3 DEF sessionVars
<1> QED BY <1>1, <1>2, <1>3, SessionSends, SessionRenews DEF SessionNext

\* However many requests are refused at once, each session is replaced once (MaybeReauthenticate).
THEOREM SessionsReplacedOnce == SessionSpec => []OneLoginPerSession
<1>1. SessionInv => OneLoginPerSession
  BY DEF SessionInv, OneLoginPerSession
<1>2. SessionInit => SessionInv
  BY SessionInitially
<1>3. SessionInv /\ [SessionNext]_sessionVars => SessionInv'
  BY SessionStep
<1> QED BY <1>1, <1>2, <1>3, PTL DEF SessionSpec

=============================================================================
