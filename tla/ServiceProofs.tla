---------------------------- MODULE ServiceProofs ----------------------------
(***************************************************************************)
(* Theorems about three parts around a scan, for every value of the        *)
(* constants: the dashboard that learns its end once, the out-of-band      *)
(* tokens it hands over, and the slots of the limiter its requests wait    *)
(* for.                                                                    *)
(***************************************************************************)
EXTENDS Limiter, OobCallbacks, ScanFollower, SequenceTheorems, FiniteSetTheorems, TLAPS

----------------------------------------------------------------------------
(* The follower. Whatever speaks of the end, in the stream, in an answer   *)
(* on its way or in D1, says how the scan ended.                           *)

\* What may be said of the scan's end: nothing before it, then how it ended.
Known == {outcome} \cap Outcomes

FollowerTypes ==
  /\ outcome \in Outcomes \cup {"none"} /\ scanStatus \in {"active"} \cup Known
  /\ inStream \in Seq({"queued", "progress"} \cup Known)
  /\ check \in [Askers -> {"none", "asked", "unknown", "active"} \cup Known]
  /\ finishedAs \in {"no", "ended", "stopped"}

EndedKnown == finishedAs = "ended" => outcome \in Outcomes

FollowerInv == FollowerTypes /\ EndedKnown /\ EndReportedOnce

LEMMA FollowerInitially == ASSUME FollowerInit PROVE FollowerInv
BY DEF FollowerInit, FollowerInv, FollowerTypes, EndedKnown, EndReportedOnce, Known, Outcomes, Askers

\* A message that is true of the scan keeps the stream true.
LEMMA SendKeepsStream ==
  ASSUME FollowerTypes, NEW m \in {"queued", "progress"} \cup Known, Send(m)
  PROVE  inStream' \in Seq({"queued", "progress"} \cup Known)
BY AppendProperties DEF FollowerTypes, Send

\* The scan says something, or clients are told of its end.
LEMMA ScanSpeaks ==
  ASSUME FollowerInv, (\E m \in {"queued", "progress"} : ScanSays(m)) \/ TellClients \/ Accept \/ StoreEnd
  PROVE  FollowerInv'
<1>1. ASSUME NEW m \in {"queued", "progress"}, ScanSays(m) PROVE FollowerInv'
  <2>1. inStream' \in Seq({"queued", "progress"} \cup Known)
    BY <1>1, SendKeepsStream DEF ScanSays, FollowerInv
  <2> QED BY <1>1, <2>1 DEF ScanSays, scanSide, shownVars, endVars, FollowerInv, FollowerTypes, EndedKnown, EndReportedOnce, Known
<1>2. CASE TellClients
  <2>1. outcome \in Known
    BY <1>2 DEF TellClients, FollowerInv, FollowerTypes, Known
  <2>2. inStream' \in Seq({"queued", "progress"} \cup Known)
    BY <1>2, <2>1, SendKeepsStream DEF TellClients, FollowerInv
  <2> QED BY <1>2, <2>2 DEF TellClients, shownVars, endVars, FollowerInv, FollowerTypes, EndedKnown, EndReportedOnce, Known
<1>3. CASE Accept
  BY <1>3 DEF Accept, scanSide, shownVars, endVars, FollowerInv, FollowerTypes, EndedKnown, EndReportedOnce, Known
<1>4. CASE StoreEnd
  BY <1>4 DEF StoreEnd, streamVars, shownVars, endVars, FollowerInv, FollowerTypes, EndedKnown, EndReportedOnce, Known, Outcomes
<1> QED BY <1>1, <1>2, <1>3, <1>4

\* Before the end nothing is known, so whatever was said stays true when it comes.
LEMMA EndComes ==
  ASSUME FollowerInv, NEW o \in Outcomes, ScanEnds(o)
  PROVE  FollowerInv'
<1>1. Known = {} /\ Known' = {o}
  BY DEF ScanEnds, Known, Outcomes
<1>2. inStream' \in Seq({"queued", "progress"} \cup Known')
  BY <1>1 DEF ScanEnds, FollowerInv, FollowerTypes, streamVars
<1>3. check' \in [Askers -> {"none", "asked", "unknown", "active"} \cup Known']
  BY <1>1 DEF ScanEnds, FollowerInv, FollowerTypes
<1> QED BY <1>1, <1>2, <1>3 DEF ScanEnds, endVars, FollowerInv, FollowerTypes, EndedKnown, EndReportedOnce, Outcomes

\* The handler that answers sends what D1 has.
LEMMA StreamOpens == ASSUME FollowerInv, Opens PROVE FollowerInv'
<1>1. inStream' \in Seq({"queued", "progress"} \cup Known)
  <2>1. CASE scanStatus # "active"
    <3>1. scanStatus \in Known BY <2>1 DEF FollowerInv, FollowerTypes
    <3> QED BY <2>1, <3>1, SendKeepsStream DEF Opens, FollowerInv
  <2>2. CASE scanStatus = "active"
    BY <2>2 DEF Opens, FollowerInv, FollowerTypes
  <2> QED BY <2>1, <2>2
<1>2. check' \in [Askers -> {"none", "asked", "unknown", "active"} \cup Known]
  BY DEF Opens, FollowerInv, FollowerTypes, Askers
<1> QED BY <1>1, <1>2 DEF Opens, scanSide, shownVars, endVars, FollowerInv, FollowerTypes, EndedKnown, EndReportedOnce, Known

\* complete, fail: a report of what is known of the end is the first and the right one.
LEMMA ReportsOnce ==
  ASSUME FollowerInv, NEW o \in Known, Report(o), UNCHANGED scanSide
  PROVE  /\ inStream' \in Seq({"queued", "progress"} \cup Known)
         /\ finishedAs' \in {"no", "ended", "stopped"} /\ EndedKnown' /\ EndReportedOnce'
<1>1. CASE IsFinished
  BY <1>1 DEF Report, scanSide, endVars, FollowerInv, FollowerTypes, EndedKnown, EndReportedOnce
<1>2. CASE ~IsFinished
  <2>1. o = outcome /\ outcome \in Outcomes /\ outcome' = outcome BY DEF Known, scanSide
  <2>2. reports = <<>> /\ reports' = Append(reports, o) /\ finishedAs' = "ended" /\ inStream' = <<>>
    BY <1>2 DEF Report, IsFinished, FollowerInv, EndReportedOnce
  <2>3. reports' = <<outcome'>> BY <2>1, <2>2
  <2> QED BY <2>1, <2>2, <2>3 DEF EndedKnown, EndReportedOnce
<1> QED BY <1>1, <1>2

LEMMA MessageRead == ASSUME FollowerInv, Receive PROVE FollowerInv'
<1> DEFINE Said == {"queued", "progress"} \cup Known
<1>0. inStream \in Seq(Said) /\ inStream # <<>> /\ UNCHANGED scanSide /\ UNCHANGED check
  BY DEF Receive, FollowerInv, FollowerTypes
<1>1. Head(inStream) \in Said /\ Tail(inStream) \in Seq(Said)
  BY <1>0, HeadTailProperties
<1>2. CASE Head(inStream) \in Outcomes
  <2>1. Head(inStream) \in Known BY <1>1, <1>2 DEF Outcomes
  <2>2. Report(Head(inStream)) BY <1>2 DEF Receive
  <2> QED BY <1>0, <2>1, <2>2, ReportsOnce DEF FollowerInv, FollowerTypes, scanSide, Known
<1>3. CASE Head(inStream) \notin Outcomes
  <2>1. inStream' = Tail(inStream) /\ UNCHANGED endVars BY <1>3 DEF Receive
  <2> QED BY <1>0, <1>1, <2>1 DEF FollowerInv, FollowerTypes, EndedKnown, EndReportedOnce, scanSide, endVars, Known
<1> QED BY <1>2, <1>3

\* settleFromStatus reports an end, or leaves it to a later answer.
LEMMA AnswerSettled == ASSUME FollowerInv, NEW a \in Askers, Settle(a) PROVE FollowerInv'
<1> DEFINE Said == {"queued", "progress"} \cup Known
           Answer == {"none", "asked", "unknown", "active"} \cup Known
<1>0. inStream \in Seq(Said) /\ UNCHANGED scanSide /\ check' \in [Askers -> Answer] /\ check[a] \in Answer
  BY DEF Settle, FollowerInv, FollowerTypes
<1>1. CASE check[a] \in Outcomes
  <2>1. check[a] \in Known BY <1>0, <1>1 DEF Outcomes
  <2>2. Report(check[a]) BY <1>1 DEF Settle
  <2> QED BY <1>0, <2>1, <2>2, ReportsOnce DEF FollowerInv, FollowerTypes, scanSide, Known
<1>2. CASE check[a] \notin Outcomes
  <2>1. UNCHANGED <<endVars, inStream>> BY <1>2 DEF Settle
  <2> QED BY <1>0, <2>1 DEF FollowerInv, FollowerTypes, EndedKnown, EndReportedOnce, scanSide, endVars, Known
<1> QED BY <1>1, <1>2

\* The steps that ask, wait, drop and give up report nothing.
LEMMA FollowerWaits ==
  ASSUME FollowerInv,
         \/ GoesQuiet \/ Drops \/ FallsSilent \/ OpenStream \/ TimerAsks \/ StopFollowing
         \/ \E a \in Askers : StatusComes(a) \/ StatusFails(a)
  PROVE  FollowerInv'
<1>1. CASE GoesQuiet \/ FallsSilent \/ OpenStream
  BY <1>1 DEF GoesQuiet, FallsSilent, OpenStream, scanSide, streamVars, endVars, FollowerInv, FollowerTypes, EndedKnown, EndReportedOnce, Known
<1>2. CASE Drops \/ TimerAsks
  <2>1. check' \in [Askers -> {"none", "asked", "unknown", "active"} \cup Known]
    BY <1>2 DEF Drops, TimerAsks, FollowerInv, FollowerTypes
  <2>2. (inStream' = inStream \/ inStream' = <<>>) /\ UNCHANGED <<scanSide, endVars>>
    BY <1>2 DEF Drops, TimerAsks, streamVars
  <2>3. inStream' \in Seq({"queued", "progress"} \cup Known)
    <3>1. inStream \in Seq({"queued", "progress"} \cup Known) BY DEF FollowerInv, FollowerTypes
    <3>2. <<>> \in Seq({"queued", "progress"} \cup Known) OBVIOUS
    <3> QED BY <2>2, <3>1, <3>2
  <2> QED BY <2>1, <2>2, <2>3 DEF scanSide, endVars, FollowerInv, FollowerTypes, EndedKnown, EndReportedOnce, Known
<1>3. CASE StopFollowing
  <2>1. reports' = <<>> /\ finishedAs' = "stopped" /\ inStream' = <<>>
    BY <1>3 DEF StopFollowing, IsFinished, FollowerInv, EndReportedOnce
  <2> QED BY <1>3, <2>1 DEF StopFollowing, scanSide, FollowerInv, FollowerTypes, EndedKnown, EndReportedOnce, Known
<1>4. ASSUME NEW a \in Askers, StatusComes(a) \/ StatusFails(a) PROVE FollowerInv'
  <2>1. check' \in [Askers -> {"none", "asked", "unknown", "active"} \cup Known]
    BY <1>4 DEF StatusComes, StatusFails, FollowerInv, FollowerTypes
  <2>2. UNCHANGED <<scanSide, inStream, endVars>>
    BY <1>4 DEF StatusComes, StatusFails, streamVars
  <2> QED BY <2>1, <2>2 DEF scanSide, endVars, FollowerInv, FollowerTypes, EndedKnown, EndReportedOnce, Known
<1> QED BY <1>1, <1>2, <1>3, <1>4

LEMMA FollowerPreserved == ASSUME FollowerInv, [FollowerNext]_followerVars PROVE FollowerInv'
<1>1. CASE FollowerNext
  BY <1>1, ScanSpeaks, EndComes, StreamOpens, MessageRead, AnswerSettled, FollowerWaits DEF FollowerNext, Serves
<1>2. CASE UNCHANGED followerVars
  BY <1>2 DEF followerVars, scanSide, streamVars, endVars, FollowerInv, FollowerTypes, EndedKnown, EndReportedOnce, Known
<1> QED BY <1>1, <1>2

\* The caller of followRun hears of the end once, as it was, and never after it stopped following,
\* whatever streams dropped and whatever answers were still on their way (complete, fail).
THEOREM FollowerReportsOnce == FollowerSpec => []EndReportedOnce
<1>1. FollowerInit => FollowerInv BY FollowerInitially
<1>2. FollowerInv /\ [FollowerNext]_followerVars => FollowerInv' BY FollowerPreserved
<1>3. FollowerInv => EndReportedOnce BY DEF FollowerInv
<1> QED BY <1>1, <1>2, <1>3, PTL DEF FollowerSpec

----------------------------------------------------------------------------
(* The out-of-band tokens. A token the run still waits for, or has taken   *)
(* from its store for a callback, is in none of the hands it passes        *)
(* through once it is handed over: on its way, in a statement that runs    *)
(* (again), in D1, reported by the coordinator. The run's findings are of  *)
(* tokens it took.                                                         *)

Events == [type : {"oob_pending", "result", "complete"}, tokens : SUBSET Tokens]
CallRecords == [token : Tokens \cup {NoToken}, at : {"none", "look", "found", "done"},
                retry : BOOLEAN, tries : Nat, cut : BOOLEAN]

\* No token of s is still the run's, or was taken by it.
NotOfTheRun(s) == s \cap (oobStore \cup matched) = {}

HandedOverOnce ==
  /\ oobStore \subseteq Tokens /\ matched \subseteq Tokens
  /\ oobStore \cap matched = {} /\ live \subseteq matched
  /\ \A b \in storing : NotOfTheRun(b)
  /\ NotOfTheRun(oobPending) /\ NotOfTheRun(late)

\* A batch is not of the run, a result is of a token it took.
SentOnce(e, store, own) ==
  /\ e.type = "oob_pending" => e.tokens \cap (store \cup own) = {}
  /\ e.type = "result" => e.tokens \subseteq own

EventsOnWay == onWay \in Seq(Events) /\ \A i \in 1..Len(onWay) : SentOnce(onWay[i], oobStore, matched)

CallsInv == /\ callback \in [Callbacks -> CallRecords] /\ noted \in BOOLEAN /\ delayed \in BOOLEAN
            /\ trigger \in [Callbacks -> {"none", "sent", "matched", "over"}]
            /\ \A c \in Callbacks : trigger[c] = "matched" => callback[c].token \in matched

OobInv == HandedOverOnce /\ EventsOnWay /\ CallsInv

LEMMA OobInitially == ASSUME OobInit PROVE OobInv
<1>1. HandedOverOnce BY DEF OobInit, HandedOverOnce, NotOfTheRun
<1>2. EventsOnWay BY DEF OobInit, EventsOnWay
<1>3. CallsInv
  <2>1. NotCome \in CallRecords BY DEF NotCome, CallRecords
  <2> QED BY <2>1 DEF OobInit, CallsInv
<1> QED BY <1>1, <1>2, <1>3 DEF OobInv

\* An event is sent; the run takes no token as it is.
LEMMA EventSent ==
  ASSUME EventsOnWay, NEW e \in Events, onWay' = Append(onWay, e), SentOnce(e, oobStore', matched'),
         oobStore' \subseteq oobStore, matched' = matched
  PROVE  EventsOnWay'
<1>1. /\ onWay' \in Seq(Events) /\ Len(onWay') = Len(onWay) + 1
      /\ \A i \in 1..Len(onWay) : onWay'[i] = onWay[i]
      /\ onWay'[Len(onWay) + 1] = e /\ Len(onWay) \in Nat
  BY AppendProperties, LenProperties DEF EventsOnWay
<1>2. ASSUME NEW i \in 1..Len(onWay') PROVE SentOnce(onWay'[i], oobStore', matched')
  <2>1. CASE i = Len(onWay) + 1 BY <1>1, <2>1
  <2>2. CASE i # Len(onWay) + 1
    <3>1. i \in 1..Len(onWay) /\ onWay'[i] = onWay[i] BY <1>1, <2>2
    <3> QED BY <3>1 DEF EventsOnWay, SentOnce
  <2> QED BY <2>1, <2>2
<1> QED BY <1>1, <1>2 DEF EventsOnWay

\* Nothing is sent; the run only loses tokens, or takes its own.
LEMMA NothingSent ==
  ASSUME EventsOnWay, onWay' = onWay, matched \subseteq matched', oobStore' \cup matched' \subseteq oobStore \cup matched
  PROVE  EventsOnWay'
BY DEF EventsOnWay, SentOnce

\* The run's store: announced, handed over whole, cleared.
LEMMA RunHandsOver == ASSUME OobInv, AgentOob PROVE OobInv'
<1>1. CASE StartGrace
  <2>1. Batch({}) \in Events /\ SentOnce(Batch({}), oobStore', matched') BY DEF Batch, Events, SentOnce
  <2>2. EventsOnWay' BY <1>1, <2>1, EventSent DEF StartGrace, OobInv
  <2> QED BY <1>1, <2>2 DEF StartGrace, linkVars, coordVars, callVars, OobInv, HandedOverOnce, NotOfTheRun, CallsInv
<1>2. ASSUME NEW stopped \in BOOLEAN, HandOver(stopped) PROVE OobInv'
  <2>1. oobStore' = {} /\ UNCHANGED <<matched, live, linkVars, coordVars, callVars>>
    BY <1>2 DEF HandOver, TakePending
  <2>2. EventsOnWay'
    <3>1. CASE oobStore = {}
      BY <1>2, <2>1, <3>1, NothingSent DEF HandOver, OobInv
    <3>2. CASE oobStore # {}
      <4>1. Batch(oobStore) \in Events /\ SentOnce(Batch(oobStore), oobStore', matched')
        BY <2>1 DEF Batch, Events, SentOnce, OobInv, HandedOverOnce
      <4>2. onWay' = Append(onWay, Batch(oobStore)) BY <1>2, <3>2 DEF HandOver
      <4> QED BY <2>1, <4>1, <4>2, EventSent DEF OobInv
    <3> QED BY <3>1, <3>2
  <2> QED BY <2>1, <2>2 DEF linkVars, coordVars, callVars, OobInv, HandedOverOnce, NotOfTheRun, CallsInv
<1>3. CASE EndRun
  <2>1. RunEnd \in Events /\ SentOnce(RunEnd, oobStore', matched') BY DEF RunEnd, Events, SentOnce
  <2>2. EventsOnWay' BY <1>3, <2>1, EventSent DEF EndRun, OobInv
  <2> QED BY <1>3, <2>2 DEF EndRun, linkVars, coordVars, callVars, OobInv, HandedOverOnce, NotOfTheRun, CallsInv
<1> QED BY <1>1, <1>2, <1>3 DEF AgentOob

\* The run's agent matches a callback: the token leaves its store, then its finding is sent.
LEMMA RunMatches == ASSUME OobInv, NEW c \in Callbacks, Triggers(c) PROVE OobInv'
<1>1. CASE MatchTrigger(c)
  <2>1. /\ oobStore' \cup matched' \subseteq oobStore \cup matched /\ matched \subseteq matched'
        /\ oobStore' \cap matched' = {} /\ oobStore' \subseteq oobStore
    BY <1>1 DEF MatchTrigger, OobInv, HandedOverOnce
  <2>2. EventsOnWay' BY <1>1, <2>1, NothingSent DEF MatchTrigger, OobInv
  <2>3. HandedOverOnce'
    BY <1>1, <2>1 DEF MatchTrigger, linkVars, coordVars, OobInv, HandedOverOnce, NotOfTheRun
  <2>4. CallsInv'
    BY <1>1, <2>1 DEF MatchTrigger, linkVars, coordVars, OobInv, CallsInv
  <2> QED BY <2>2, <2>3, <2>4 DEF OobInv
<1>2. CASE ReportTrigger(c)
  <2>1. callback[c].token \in matched /\ matched \subseteq Tokens
    BY <1>2 DEF ReportTrigger, OobInv, CallsInv, HandedOverOnce
  <2>2. Finding(callback[c].token) \in Events BY <2>1 DEF Finding, Events
  <2>3. SentOnce(Finding(callback[c].token), oobStore', matched')
    BY <1>2, <2>1 DEF ReportTrigger, runVars, SentOnce, Finding
  <2>4. EventsOnWay' BY <1>2, <2>2, <2>3, EventSent DEF ReportTrigger, runVars, OobInv
  <2> QED BY <1>2, <2>4 DEF ReportTrigger, runVars, linkVars, coordVars, OobInv, HandedOverOnce, NotOfTheRun, CallsInv
<1> QED BY <1>1, <1>2 DEF Triggers

\* The connection breaks and comes back: no token moves.
LEMMA LinkMoves == ASSUME OobInv, LinkBreaks \/ Reconnects PROVE OobInv'
<1>1. UNCHANGED <<runVars, coordVars, onWay, live>> BY DEF LinkBreaks, Reconnects
<1>2. EventsOnWay' BY <1>1, NothingSent DEF runVars, OobInv
<1>3. CallsInv'
  <2>1. CASE LinkBreaks
    <3>1. /\ delayed' \in BOOLEAN /\ noted' \in BOOLEAN /\ matched' = matched
          /\ \A c \in Callbacks : callback[c] \in CallRecords /\ trigger[c] \in {"none", "sent", "matched", "over"}
      BY <1>1, <2>1 DEF LinkBreaks, runVars, coordVars, OobInv, CallsInv
    <3>2. ASSUME NEW c \in Callbacks PROVE callback'[c] \in CallRecords /\ callback'[c].token = callback[c].token
      BY <2>1, <3>1 DEF LinkBreaks, CallRecords
    <3>3. callback' \in [Callbacks -> CallRecords] BY <2>1, <3>2 DEF LinkBreaks
    <3>4. /\ trigger' \in [Callbacks -> {"none", "sent", "matched", "over"}]
          /\ \A c \in Callbacks : trigger'[c] = "matched" => trigger[c] = "matched"
      BY <2>1, <3>1 DEF LinkBreaks
    <3> QED BY <3>1, <3>2, <3>3, <3>4 DEF OobInv, CallsInv
  <2>2. CASE Reconnects
    BY <1>1, <2>2 DEF Reconnects, runVars, coordVars, callVars, OobInv, CallsInv
  <2> QED BY <2>1, <2>2
<1> QED BY <1>1, <1>2, <1>3 DEF runVars, coordVars, OobInv, HandedOverOnce, NotOfTheRun

\* The coordinator's steps: an event arrives, a batch is stored, maybe again; a callback is looked up,
\* and its token leaves D1 for a finding.
LEMMA CoordinatorStores ==
  ASSUME OobInv, \/ Arrives \/ NoteAges \/ (\E b \in storing, again \in BOOLEAN : storeOobPending(b, again))
                 \/ \E c \in Callbacks : Looks(c) \/ (\E t \in Tokens : CallsBack(c, t))
  PROVE  OobInv'
<1>1. CASE Arrives
  <2>1. onWay \in Seq(Events) /\ onWay # <<>> BY <1>1 DEF Arrives, OobInv, EventsOnWay
  <2>2. /\ onWay' \in Seq(Events) /\ Len(onWay') = Len(onWay) - 1 /\ Len(onWay) \in Nat \ {0}
        /\ \A i \in 1..Len(onWay') : onWay'[i] = onWay[i + 1]
        /\ Head(onWay) = onWay[1]
    BY <1>1, <2>1, HeadTailProperties, EmptySeq DEF Arrives
  <2>3. UNCHANGED <<oobStore, matched, oobPending, late, callback, trigger>>
    BY <1>1 DEF Arrives, runVars, callVars
  <2>4. EventsOnWay'
    BY <2>2, <2>3 DEF OobInv, EventsOnWay
  <2>5. SentOnce(Head(onWay), oobStore, matched) BY <2>2 DEF OobInv, EventsOnWay
  <2>6. \A b \in storing' : NotOfTheRun(b)
    BY <1>1, <2>5 DEF Arrives, SentOnce, NotOfTheRun, OobInv, HandedOverOnce
  <2>7. live' \subseteq matched
    BY <1>1, <2>5 DEF Arrives, SentOnce, OobInv, HandedOverOnce
  <2>8. noted' \in BOOLEAN /\ delayed' \in BOOLEAN
    BY <1>1 DEF Arrives, NoteHandOver, OobInv, CallsInv
  <2> QED BY <2>3, <2>4, <2>6, <2>7, <2>8 DEF OobInv, HandedOverOnce, NotOfTheRun, CallsInv
<1>2. ASSUME NEW b \in storing, NEW again \in BOOLEAN, storeOobPending(b, again) PROVE OobInv'
  <2>1. EventsOnWay' BY <1>2, NothingSent DEF storeOobPending, runVars, OobInv
  <2> QED BY <1>2, <2>1
          DEF storeOobPending, runVars, linkVars, callVars, OobInv, HandedOverOnce, NotOfTheRun, CallsInv
<1>3. CASE NoteAges
  <2>1. EventsOnWay' BY <1>3, NothingSent DEF NoteAges, runVars, OobInv
  <2> QED BY <1>3, <2>1 DEF NoteAges, runVars, linkVars, callVars, OobInv, HandedOverOnce, NotOfTheRun, CallsInv
<1>4. ASSUME NEW c \in Callbacks, NEW t \in Tokens, CallsBack(c, t) PROVE OobInv'
  <2>1. UNCHANGED <<runVars, linkVars, coordVars, onWay, live>> BY <1>4 DEF CallsBack
  <2>2. EventsOnWay' BY <2>1, NothingSent DEF runVars, OobInv
  <2>3. [token |-> t, at |-> "look", retry |-> noted, tries |-> 1, cut |-> delayed] \in CallRecords
    BY DEF CallRecords, OobInv, CallsInv
  <2>4. CallsInv'
    BY <1>4, <2>1, <2>3 DEF CallsBack, runVars, linkVars, coordVars, OobInv, CallsInv
  <2> QED BY <2>1, <2>2, <2>4 DEF runVars, coordVars, OobInv, HandedOverOnce, NotOfTheRun
<1>5. ASSUME NEW c \in Callbacks, LookUp(c) PROVE OobInv'
  <2>1. UNCHANGED <<runVars, linkVars, coordVars, trigger, onWay, live>> BY <1>5 DEF LookUp
  <2>2. EventsOnWay' BY <2>1, NothingSent DEF runVars, OobInv
  <2>3. callback \in [Callbacks -> CallRecords] BY DEF OobInv, CallsInv
  <2>4. PICK at \in {"found", "done", "look"}, tries \in Nat :
          callback' = [callback EXCEPT ![c].at = at, ![c].tries = tries]
    <3> DEFINE ends == callback[c].token \in oobPending \/ LastTry(c)
               place == IF callback[c].token \in oobPending THEN "found" ELSE IF LastTry(c) THEN "done" ELSE "look"
               left == IF ends THEN 0 ELSE callback[c].tries + 1
    <3>1. callback[c].tries \in Nat BY <2>3 DEF CallRecords
    <3>2. callback' = [callback EXCEPT ![c].at = place, ![c].tries = left] BY <1>5, <2>3 DEF LookUp, CallRecords
    <3>3. place \in {"found", "done", "look"} /\ left \in Nat BY <3>1
    <3> QED BY <3>2, <3>3
  <2>5. callback' \in [Callbacks -> CallRecords] /\ \A d \in Callbacks : callback'[d].token = callback[d].token
    <3>1. [callback[c] EXCEPT !.at = at, !.tries = tries] \in CallRecords
      BY <2>3 DEF CallRecords
    <3>2. [callback[c] EXCEPT !.at = at, !.tries = tries].token = callback[c].token
      BY <2>3 DEF CallRecords
    <3>3. callback' = [callback EXCEPT ![c] = [callback[c] EXCEPT !.at = at, !.tries = tries]]
      BY <2>3, <2>4 DEF CallRecords
    <3> QED BY <2>3, <3>1, <3>2, <3>3
  <2> QED BY <2>1, <2>2, <2>5 DEF runVars, linkVars, coordVars, OobInv, HandedOverOnce, NotOfTheRun, CallsInv
<1>6. ASSUME NEW c \in Callbacks, Record(c) PROVE OobInv'
  <2>1. UNCHANGED <<runVars, linkVars, storing, noted, trigger, onWay, live>> BY <1>6 DEF Record
  <2>2. EventsOnWay' BY <2>1, NothingSent DEF runVars, OobInv
  <2>3. callback' \in [Callbacks -> CallRecords] /\ \A d \in Callbacks : callback'[d].token = callback[d].token
    BY <1>6 DEF Record, CallRecords, OobInv, CallsInv
  <2>4. HandedOverOnce'
    BY <1>6, <2>1 DEF Record, runVars, OobInv, HandedOverOnce, NotOfTheRun
  <2> QED BY <2>1, <2>2, <2>3, <2>4 DEF runVars, linkVars, OobInv, CallsInv
<1> QED BY <1>1, <1>2, <1>3, <1>4, <1>5, <1>6 DEF Looks

LEMMA OobPreserved == ASSUME OobInv, [OobNext]_oobVars PROVE OobInv'
<1>1. CASE OobNext
  BY <1>1, RunHandsOver, CoordinatorStores, RunMatches, LinkMoves DEF OobNext, Stores
<1>2. CASE UNCHANGED oobVars
  <2>1. EventsOnWay' BY <1>2, NothingSent DEF oobVars, runVars, OobInv
  <2> QED BY <1>2, <2>1
          DEF oobVars, runVars, linkVars, coordVars, callVars, OobInv, HandedOverOnce, NotOfTheRun, CallsInv
<1> QED BY <1>1, <1>2

\* One interaction is one finding: a token is matched by the run or, handed over, by the coordinator,
\* never by both, wherever the callbacks fall, however late the run's finding comes, and also when a
\* batch is stored again after its token was reported (TakePending, storeOobPending,
\* recordLateOobCallback).
THEOREM TokenReportedOnce == OobSpec => []ReportedOnce
<1>1. OobInit => OobInv BY OobInitially
<1>2. OobInv /\ [OobNext]_oobVars => OobInv' BY OobPreserved
<1>3. OobInv => ReportedOnce BY DEF OobInv, HandedOverOnce, NotOfTheRun, ReportedOnce
<1> QED BY <1>1, <1>2, <1>3, PTL DEF OobSpec

----------------------------------------------------------------------------
(* Sequences without repetition, as the limiter's queue is one.            *)

\* A new element at the end, the first element gone.
LEMMA AppendNew ==
  ASSUME NEW S, NEW q \in Seq(S), NEW e \in S, IsInjective(q), e \notin ToSet(q)
  PROVE  /\ Append(q, e) \in Seq(S) /\ IsInjective(Append(q, e))
         /\ ToSet(Append(q, e)) = ToSet(q) \cup {e}
<1>1. /\ Append(q, e) \in Seq(S) /\ Len(Append(q, e)) = Len(q) + 1 /\ Append(q, e)[Len(q) + 1] = e
      /\ \A i \in 1..Len(q) : Append(q, e)[i] = q[i]
  BY AppendProperties
<1>2. DOMAIN Append(q, e) = 1..Len(q) + 1 /\ DOMAIN q = 1..Len(q) /\ Len(q) \in Nat
  BY <1>1, LenProperties
<1> QED BY <1>1, <1>2 DEF IsInjective, ToSet

\* r is what q, an injective sequence over S, has after its first k elements.
LastPart(r, q, k, S) ==
  /\ r \in Seq(S) /\ IsInjective(r) /\ Len(r) = Len(q) - k
  /\ \A i \in 1..Len(q) - k : r[i] = q[k + i]
  /\ ToSet(r) = ToSet(q) \ {q[i] : i \in 1..k}

\* SubSeq gives that last part.
LEMMA WithoutFirst ==
  ASSUME NEW S, NEW q \in Seq(S), NEW k \in 0..Len(q), IsInjective(q)
  PROVE  LastPart(SubSeq(q, k + 1, Len(q)), q, k, S)
<1> DEFINE r == SubSeq(q, k + 1, Len(q))
<1>1. DOMAIN q = 1..Len(q) /\ Len(q) \in Nat BY LenProperties
<1>2. r \in Seq(S) /\ Len(r) = Len(q) - k /\ \A i \in 1..Len(q) - k : r[i] = q[k + i]
  <2>1. \A i \in k + 1..Len(q) : q[i] \in S BY <1>1, ElementOfSeq
  <2>2. /\ r \in Seq(S) /\ Len(r) = IF k + 1 <= Len(q) THEN Len(q) - (k + 1) + 1 ELSE 0
        /\ \A i \in 1..Len(q) - (k + 1) + 1 : r[i] = q[(k + 1) + i - 1]
    BY <1>1, <2>1, SubSeqProperties
  <2> HIDE DEF r
  <2>3. Len(r) = Len(q) - k
    <3>1. CASE k + 1 <= Len(q) BY <1>1, <2>2, <3>1
    <3>2. CASE ~(k + 1 <= Len(q))
      <4>1. k = Len(q)
        <5>1. \A n \in Nat : \A m \in 0..n : ~(m + 1 <= n) => m = n OBVIOUS
        <5> QED BY <1>1, <3>2, <5>1
      <4>2. Len(r) = 0 BY <2>2, <3>2
      <4> QED BY <1>1, <4>1, <4>2
    <3> QED BY <3>1, <3>2
  <2>4. ASSUME NEW i \in 1..Len(q) - k PROVE r[i] = q[k + i]
    <3>1. i \in 1..Len(q) - (k + 1) + 1 /\ (k + 1) + i - 1 = k + i BY <1>1
    <3> QED BY <2>2, <3>1
  <2> QED BY <2>2, <2>3, <2>4
<1>3. DOMAIN r = 1..Len(q) - k BY <1>2, LenProperties
<1> HIDE DEF r
<1>4. IsInjective(r)
  <2>1. ASSUME NEW i \in 1..Len(q) - k, NEW j \in 1..Len(q) - k, r[i] = r[j] PROVE i = j
    <3>1. k + i \in 1..Len(q) /\ k + j \in 1..Len(q) /\ q[k + i] = q[k + j] BY <1>1, <1>2, <2>1
    <3>2. k + i = k + j BY <1>1, <3>1 DEF IsInjective
    <3> QED BY <3>2
  <2> QED BY <1>3, <2>1 DEF IsInjective
<1>5. ToSet(r) = {q[i] : i \in k + 1..Len(q)}
  <2>1. ASSUME NEW x \in ToSet(r) PROVE x \in {q[i] : i \in k + 1..Len(q)}
    <3>1. PICK j \in 1..Len(q) - k : x = r[j] BY <1>3 DEF ToSet
    <3>2. k + j \in k + 1..Len(q) BY <1>1
    <3> QED BY <1>2, <3>1, <3>2
  <2>2. ASSUME NEW i \in k + 1..Len(q) PROVE q[i] \in ToSet(r)
    <3>1. i - k \in 1..Len(q) - k /\ k + (i - k) = i BY <1>1
    <3>2. r[i - k] = q[i] BY <1>2, <3>1
    <3> QED BY <1>3, <3>1, <3>2 DEF ToSet
  <2> QED BY <2>1, <2>2
<1>6. {q[i] : i \in k + 1..Len(q)} = ToSet(q) \ {q[i] : i \in 1..k}
  BY <1>1 DEF ToSet, IsInjective
<1>7. LastPart(r, q, k, S)
  BY <1>2, <1>4, <1>5, <1>6 DEF LastPart
<1> QED BY <1>7 DEF r

LEMMA TailOfInjective ==
  ASSUME NEW S, NEW q \in Seq(S), IsInjective(q), q # <<>>
  PROVE  /\ Tail(q) \in Seq(S) /\ IsInjective(Tail(q)) /\ ToSet(Tail(q)) = ToSet(q) \ {Head(q)}
         /\ Head(q) \in ToSet(q) /\ Head(q) \in S
<1>1. DOMAIN q = 1..Len(q) /\ Len(q) \in Nat \ {0} BY LenProperties, EmptySeq
<1>2. Head(q) = q[1] /\ q[1] \in S /\ q[1] \in ToSet(q) BY <1>1, HeadTailProperties, ElementOfSeq DEF ToSet
<1>3. /\ Tail(q) \in Seq(S) /\ Len(Tail(q)) = Len(q) - 1
      /\ \A i \in 1..Len(Tail(q)) : Tail(q)[i] = q[i + 1]
  BY HeadTailProperties
<1> DEFINE r == SubSeq(q, 1 + 1, Len(q))
<1>4. LastPart(r, q, 1, S)
  <2>1. 1 \in 0..Len(q) BY <1>1
  <2> QED BY <2>1, WithoutFirst
<1> HIDE DEF r
<1>5. Tail(q) = r
  <2>1. \A i \in 1..Len(Tail(q)) : Tail(q)[i] = r[i] BY <1>1, <1>3, <1>4 DEF LastPart
  <2> QED BY <1>3, <1>4, <2>1, SeqEqual DEF LastPart
<1>6. {q[i] : i \in 1..1} = {q[1]} OBVIOUS
<1> QED BY <1>2, <1>3, <1>4, <1>5, <1>6 DEF LastPart

\* The i-th element removed.
LEMMA WithoutOne ==
  ASSUME NEW S, NEW q \in Seq(S), NEW i \in DOMAIN q, IsInjective(q)
  PROVE  /\ RemoveAt(q, i) \in Seq(S) /\ IsInjective(RemoveAt(q, i))
         /\ ToSet(RemoveAt(q, i)) = ToSet(q) \ {q[i]}
<1> DEFINE a == SubSeq(q, 1, i - 1)
           b == SubSeq(q, i + 1, Len(q))
           r == RemoveAt(q, i)
<1>1. DOMAIN q = 1..Len(q) /\ Len(q) \in Nat /\ i \in 1..Len(q) BY LenProperties
<1>2. a \in Seq(S) /\ Len(a) = i - 1 /\ \A j \in 1..i - 1 : a[j] = q[j]
  BY <1>1, SubSeqProperties, ElementOfSeq, SMTT(30)
<1>3. b \in Seq(S) /\ Len(b) = Len(q) - i /\ \A j \in 1..Len(q) - i : b[j] = q[i + j]
  BY <1>1, SubSeqProperties, ElementOfSeq, SMTT(30)
<1> HIDE DEF a, b
<1>4. /\ r \in Seq(S) /\ Len(r) = Len(q) - 1
      /\ \A j \in 1..Len(q) - 1 : r[j] = IF j <= i - 1 THEN a[j] ELSE b[j - (i - 1)]
  <2>1. r = a \o b BY DEF RemoveAt, a, b
  <2>2. /\ r \in Seq(S) /\ Len(r) = Len(a) + Len(b)
        /\ \A j \in 1..Len(a) + Len(b) : r[j] = IF j <= Len(a) THEN a[j] ELSE b[j - Len(a)]
    BY <1>2, <1>3, <2>1, ConcatProperties
  <2>3. Len(a) = i - 1 /\ Len(a) + Len(b) = Len(q) - 1 BY <1>1, <1>2, <1>3
  <2> QED BY <2>2, <2>3
<1>5. DOMAIN r = 1..Len(q) - 1 BY <1>4, LenProperties
<1> HIDE DEF r
<1>6. ASSUME NEW j \in 1..Len(q) - 1 PROVE r[j] = IF j < i THEN q[j] ELSE q[j + 1]
  <2>1. CASE j < i
    <3>1. j \in 1..i - 1 BY <1>1, <2>1
    <3> QED BY <1>1, <1>2, <1>4, <2>1, <3>1
  <2>2. CASE j >= i
    <3>1. j - (i - 1) \in 1..Len(q) - i /\ i + (j - (i - 1)) = j + 1 /\ ~(j <= i - 1) /\ ~(j < i) BY <1>1, <2>2
    <3> QED BY <1>3, <1>4, <3>1
  <2> QED BY <1>1, <2>1, <2>2
<1>7. IsInjective(r)
  <2>1. ASSUME NEW j \in 1..Len(q) - 1, NEW l \in 1..Len(q) - 1, r[j] = r[l] PROVE j = l
    <3> DEFINE at(x) == IF x < i THEN x ELSE x + 1
    <3>1. at(j) \in DOMAIN q /\ at(l) \in DOMAIN q /\ q[at(j)] = q[at(l)] BY <1>1, <1>6, <2>1
    <3>2. at(j) = at(l) BY <3>1 DEF IsInjective
    <3> QED BY <1>1, <3>2
  <2> QED BY <1>5, <2>1 DEF IsInjective
<1>8. ToSet(r) = ToSet(q) \ {q[i]}
  <2>1. ASSUME NEW j \in 1..Len(q), j # i PROVE \E l \in 1..Len(q) - 1 : r[l] = q[j]
    <3>1. CASE j < i BY <1>1, <1>6, <3>1
    <3>2. CASE j > i
      <4>1. j - 1 \in 1..Len(q) - 1 /\ r[j - 1] = q[j] BY <1>1, <1>6, <3>2
      <4> QED BY <4>1
    <3> QED BY <1>1, <2>1, <3>1, <3>2
  <2>2. ASSUME NEW l \in 1..Len(q) - 1 PROVE \E j \in 1..Len(q) : j # i /\ r[l] = q[j]
    <3>1. CASE l < i BY <1>1, <1>6, <3>1
    <3>2. CASE l >= i
      <4>1. l + 1 \in 1..Len(q) /\ l + 1 # i /\ r[l] = q[l + 1] BY <1>1, <1>6, <3>2
      <4> QED BY <4>1
    <3> QED BY <1>1, <3>1, <3>2
  <2>3. ToSet(r) = {r[l] : l \in 1..Len(q) - 1} /\ ToSet(q) = {q[j] : j \in 1..Len(q)}
    BY <1>1, <1>5 DEF ToSet
  <2>4. \A j \in 1..Len(q) : q[j] = q[i] => j = i BY <1>1 DEF IsInjective
  <2>5. ASSUME NEW x \in ToSet(r) PROVE x \in ToSet(q) \ {q[i]}
    BY <2>2, <2>3, <2>4, <2>5
  <2>6. ASSUME NEW x \in ToSet(q) \ {q[i]} PROVE x \in ToSet(r)
    <3>1. PICK j \in 1..Len(q) : x = q[j] /\ j # i BY <2>3, <2>6
    <3> QED BY <2>1, <2>3, <3>1
  <2> QED BY <2>5, <2>6
<1> QED BY <1>4, <1>7, <1>8 DEF r

\* The first k elements are k.
LEMMA FirstAreMany ==
  ASSUME NEW S, NEW q \in Seq(S), NEW k \in 0..Len(q), IsInjective(q)
  PROVE  IsFiniteSet({q[i] : i \in 1..k}) /\ Cardinality({q[i] : i \in 1..k}) = k
<1> DEFINE first == {q[i] : i \in 1..k}
           f == [i \in 1..k |-> q[i]]
<1>1. DOMAIN q = 1..Len(q) /\ Len(q) \in Nat BY LenProperties
<1>2. f \in Injection(1..k, first) /\ f \in Surjection(1..k, first)
  BY <1>1 DEF Injection, Surjection, IsInjective
<1>3. IsFiniteSet(1..k) /\ Cardinality(1..k) = k BY <1>1, FS_Interval
<1> QED BY <1>2, <1>3, FS_Surjection

----------------------------------------------------------------------------
(* The concurrency limiter. A slot is owned by the caller that holds it or *)
(* that was handed it: those are as many as the limiter counts.            *)

LimiterTypes ==
  /\ ceiling \in 1..Ceiling /\ slots \in 1..ceiling /\ taken \in Nat
  /\ queued \in Seq(Callers)
  /\ caller \in [Callers -> {"idle", "waiting", "leaving", "holding", "gone"}]

\* Nobody queues twice, and who queues has not got a slot.
QueueIsFair == IsInjective(queued) /\ \A c \in ToSet(queued) : caller[c] \in {"waiting", "leaving"}

Owners == {c \in Callers : \/ caller[c] = "holding"
                           \/ (caller[c] \in {"waiting", "leaving"} /\ c \notin ToSet(queued))}

LimiterInv == LimiterTypes /\ QueueIsFair /\ taken = Cardinality(Owners) /\ NoIdleSlot

LEMMA QueuedAreInQueue == ASSUME NEW c PROVE InQueue(c) <=> c \in ToSet(queued)
BY DEF InQueue, ToSet

LEMMA QueuedAreCallers == ASSUME LimiterTypes PROVE ToSet(queued) \subseteq Callers
BY LenProperties, ElementOfSeq DEF ToSet, LimiterTypes

LEMMA OwnersAreFinite == IsFiniteSet(Owners)
BY LimiterAssumption, FS_Subset DEF Owners, LimiterAssumption

\* The holders and those who were handed a slot are the owners.
LEMMA OwnersAreCounted ==
  ASSUME LimiterInv PROVE NoSlotLost
<1>1. Owners = Holding \cup Handed /\ Holding \cap Handed = {}
  BY QueuedAreInQueue DEF Owners, Holding, Handed
<1>2. IsFiniteSet(Holding) /\ IsFiniteSet(Handed)
  BY LimiterAssumption, FS_Subset DEF Holding, Handed, LimiterAssumption
<1>3. Cardinality(Holding) \in Nat /\ Cardinality(Handed) \in Nat BY <1>2, FS_CardinalityType
<1>4. Cardinality(Owners) = Cardinality(Holding) + Cardinality(Handed)
  <2>1. Cardinality(Holding \cup Handed) = Cardinality(Holding) + Cardinality(Handed) - Cardinality(Holding \cap Handed)
    BY <1>2, FS_Union
  <2>2. Cardinality(Holding \cap Handed) = 0 BY <1>1, FS_EmptySet
  <2> QED BY <1>1, <1>3, <2>1, <2>2
<1> QED BY <1>4 DEF LimiterInv, NoSlotLost, SlotsAccounted

LEMMA LimiterInitially == ASSUME LimiterInit PROVE LimiterInv
<1>1. Owners = {} BY DEF LimiterInit, Owners
<1> QED BY <1>1, FS_EmptySet, LimiterAssumption
       DEF LimiterInit, LimiterInv, LimiterTypes, QueueIsFair, NoIdleSlot, IsInjective, ToSet, LimiterAssumption

\* The caller goes straight in, or to the end of the queue.
LEMMA SlotAcquired == ASSUME LimiterInv, NEW c \in Callers, Acquire(c) PROVE LimiterInv'
<1>0. c \notin Owners /\ c \notin ToSet(queued) /\ queued \in Seq(Callers) /\ IsInjective(queued)
  BY DEF Acquire, LimiterInv, LimiterTypes, QueueIsFair, Owners
<1>1. CASE taken < slots
  <2>1. taken' = taken + 1 /\ caller' = [caller EXCEPT ![c] = "holding"] /\ queued' = queued
    BY <1>1 DEF Acquire
  <2>2. Owners' = Owners \cup {c} BY <2>1 DEF Owners, LimiterInv, LimiterTypes
  <2>3. Cardinality(Owners') = Cardinality(Owners) + 1 BY <1>0, <2>2, OwnersAreFinite, FS_AddElement
  <2>4. queued' = <<>> BY <1>1, <2>1 DEF LimiterInv, LimiterTypes, NoIdleSlot
  <2> QED BY <1>0, <2>1, <2>3, <2>4 DEF Acquire, LimiterInv, LimiterTypes, QueueIsFair, NoIdleSlot
<1>2. CASE ~(taken < slots)
  <2>1. queued' = Append(queued, c) /\ taken' = taken /\ caller' = [caller EXCEPT ![c] = "waiting"]
    BY <1>2 DEF Acquire
  <2>2. queued' \in Seq(Callers) /\ IsInjective(queued') /\ ToSet(queued') = ToSet(queued) \cup {c}
    BY <1>0, <2>1, AppendNew
  <2>3. Owners' = Owners BY <1>0, <2>1, <2>2 DEF Owners, LimiterInv, LimiterTypes
  <2>4. ToSet(queued) \subseteq Callers BY QueuedAreCallers DEF LimiterInv
  <2> QED BY <1>2, <2>1, <2>2, <2>3, <2>4 DEF Acquire, LimiterInv, LimiterTypes, QueueIsFair, NoIdleSlot
<1> QED BY <1>1, <1>2

\* It sees that it was handed a slot, or its context ends: who owns a slot does not change.
LEMMA WaitEnds == ASSUME LimiterInv, NEW c \in Callers, TakesSlot(c) \/ GivesUp(c) PROVE LimiterInv'
<1>1. Owners' = Owners
  BY QueuedAreInQueue DEF TakesSlot, GivesUp, Handed, Owners, LimiterInv, LimiterTypes
<1>2. ToSet(queued) \subseteq Callers BY QueuedAreCallers DEF LimiterInv
<1> QED BY <1>1, <1>2, QueuedAreInQueue
       DEF TakesSlot, GivesUp, Handed, LimiterInv, LimiterTypes, QueueIsFair, NoIdleSlot

\* A slot that its owner returns goes to the head of the queue, or is free.
LEMMA SlotReturned ==
  ASSUME LimiterInv, NEW c \in Owners, PassOn, UNCHANGED <<slots, ceiling>>,
         caller' = [caller EXCEPT ![c] = "idle"] \/ caller' = [caller EXCEPT ![c] = "gone"]
  PROVE  LimiterInv'
<1>0. /\ c \in Callers /\ c \notin ToSet(queued) /\ queued \in Seq(Callers) /\ IsInjective(queued)
      /\ Cardinality(Owners) \in Nat /\ taken = Cardinality(Owners)
  BY OwnersAreFinite, FS_CardinalityType DEF LimiterInv, LimiterTypes, QueueIsFair, Owners
<1>1. /\ IsFiniteSet(Owners \ {c}) /\ Cardinality(Owners \ {c}) = taken - 1 /\ taken - 1 \in Nat
  <2>1. IsFiniteSet(Owners \ {c}) /\ Cardinality(Owners \ {c}) = Cardinality(Owners) - 1
    BY OwnersAreFinite, FS_RemoveElement
  <2> QED BY <1>0, <2>1, FS_CardinalityType
<1>2. CASE queued # <<>> /\ taken - 1 < slots
  <2>1. taken' = taken /\ queued' = Tail(queued) BY <1>2 DEF PassOn
  <2> DEFINE h == Head(queued)
  <2>2. queued' \in Seq(Callers) /\ IsInjective(queued') /\ ToSet(queued') = ToSet(queued) \ {h}
    BY <1>0, <1>2, <2>1, TailOfInjective
  <2>3. h \in ToSet(queued) /\ h \in Callers
    BY <1>0, <1>2, TailOfInjective
  <2>4. Owners' = (Owners \ {c}) \cup {h} /\ h \notin Owners \ {c}
    BY <1>0, <2>2, <2>3 DEF Owners, LimiterInv, LimiterTypes, QueueIsFair
  <2>5. Cardinality((Owners \ {c}) \cup {h}) = Cardinality(Owners \ {c}) + 1
    BY <1>1, <2>4, FS_AddElement
  <2>6. Cardinality(Owners') = taken' BY <1>0, <1>1, <2>1, <2>4, <2>5 DEF LimiterInv, LimiterTypes
  <2>7. \A d \in ToSet(queued') : caller'[d] \in {"waiting", "leaving"}
    BY <1>0, <2>2, QueuedAreCallers DEF LimiterInv, LimiterTypes, QueueIsFair
  <2>8. taken' >= slots' BY <1>2, <2>1 DEF LimiterInv, NoIdleSlot
  <2> QED BY <2>1, <2>2, <2>6, <2>7, <2>8 DEF LimiterInv, LimiterTypes, QueueIsFair, NoIdleSlot
<1>3. CASE ~(queued # <<>> /\ taken - 1 < slots)
  <2>1. taken' = taken - 1 /\ queued' = queued BY <1>3 DEF PassOn
  <2>2. Owners' = Owners \ {c} BY <1>0, <2>1 DEF Owners, LimiterInv, LimiterTypes
  <2>3. queued' # <<>> => taken' >= slots' BY <1>0, <1>3, <2>1 DEF LimiterInv, LimiterTypes
  <2>4. \A d \in ToSet(queued') : caller'[d] \in {"waiting", "leaving"}
    BY <1>0, <2>1, QueuedAreCallers DEF LimiterInv, LimiterTypes, QueueIsFair
  <2> QED BY <1>0, <1>1, <2>1, <2>2, <2>3, <2>4 DEF LimiterInv, LimiterTypes, QueueIsFair, NoIdleSlot
<1> QED BY <1>2, <1>3

\* A caller that gave up leaves the queue, or returns the slot it was handed at that moment.
LEMMA CallerLeaves == ASSUME LimiterInv, NEW c \in Callers, Leaves(c) PROVE LimiterInv'
<1>0. /\ caller' = [caller EXCEPT ![c] = "gone"] /\ caller[c] = "leaving" /\ UNCHANGED <<slots, ceiling>>
      /\ queued \in Seq(Callers) /\ IsInjective(queued)
  BY DEF Leaves, LimiterInv, LimiterTypes, QueueIsFair
<1>1. CASE c \in ToSet(queued)
  <2>1. PICK i \in DOMAIN queued : queued[i] = c /\ queued' = RemoveAt(queued, i) /\ taken' = taken
    BY <1>1, QueuedAreInQueue DEF Leaves
  <2>2. queued' \in Seq(Callers) /\ IsInjective(queued') /\ ToSet(queued') = ToSet(queued) \ {c}
    BY <1>0, <2>1, WithoutOne
  <2>3. Owners' = Owners BY <1>0, <1>1, <2>2 DEF Owners, LimiterInv, LimiterTypes
  <2>4. queued # <<>> BY <1>1 DEF ToSet
  <2> QED BY <1>0, <2>1, <2>2, <2>3, <2>4 DEF LimiterInv, LimiterTypes, QueueIsFair, NoIdleSlot
<1>2. CASE c \notin ToSet(queued)
  <2>1. PassOn BY <1>2, QueuedAreInQueue DEF Leaves, LeaveHanded
  <2>2. c \in Owners BY <1>0, <1>2 DEF Owners
  <2> QED BY <1>0, <2>1, <2>2, SlotReturned
<1> QED BY <1>1, <1>2

LEMMA SlotReleased == ASSUME LimiterInv, NEW c \in Callers, Release(c) PROVE LimiterInv'
<1>1. c \in Owners BY DEF Release, Owners
<1> QED BY <1>1, SlotReturned DEF Release

\* A new target lets in as many as it has slots for.
LEMMA TargetSet == ASSUME LimiterInv, NEW t \in 1..Ceiling, SetTarget(t) PROVE LimiterInv'
<1> DEFINE many == LetIn(t)
           first == {queued[i] : i \in 1..many}
<1>0. /\ queued \in Seq(Callers) /\ IsInjective(queued) /\ Len(queued) \in Nat
      /\ DOMAIN queued = 1..Len(queued) /\ taken \in Nat /\ t \in Nat
  BY LenProperties, LimiterAssumption DEF LimiterInv, LimiterTypes, QueueIsFair, LimiterAssumption
<1>1. many \in 0..Len(queued) BY <1>0 DEF LetIn
<1>2. many < Len(queued) => taken + many >= t BY <1>0 DEF LetIn
<1>3. taken' = taken + many /\ queued' = SubSeq(queued, many + 1, Len(queued)) /\ slots' = t /\ UNCHANGED <<ceiling, caller>>
  BY DEF SetTarget
<1> HIDE DEF many
<1>4. /\ queued' \in Seq(Callers) /\ IsInjective(queued') /\ Len(queued') = Len(queued) - many
      /\ ToSet(queued') = ToSet(queued) \ first
  <2>1. LastPart(SubSeq(queued, many + 1, Len(queued)), queued, many, Callers)
    BY <1>0, <1>1, WithoutFirst
  <2> QED BY <1>3, <2>1 DEF LastPart
<1>5. IsFiniteSet(first) /\ Cardinality(first) = many BY <1>0, <1>1, FirstAreMany
<1>6. first \subseteq ToSet(queued) /\ first \subseteq Callers
  BY <1>0, <1>1, ElementOfSeq DEF ToSet
<1> HIDE DEF first
<1>7. Owners' = Owners \cup first /\ Owners \cap first = {}
  BY <1>3, <1>4, <1>6 DEF Owners, LimiterInv, LimiterTypes, QueueIsFair
<1>8. Cardinality(Owners') = taken'
  <2>1. Cardinality(Owners \cup first) = Cardinality(Owners) + Cardinality(first) - Cardinality({})
    BY <1>5, <1>7, OwnersAreFinite, FS_Union
  <2> QED BY <1>0, <1>1, <1>3, <1>5, <1>7, <2>1, FS_EmptySet DEF LimiterInv
<1>9. queued' # <<>> => taken' >= slots'
  <2>1. queued' # <<>> => Len(queued') > 0 BY <1>4, EmptySeq
  <2>2. \A n \in Nat : \A m \in 0..n : n - m > 0 => m < n OBVIOUS
  <2> QED BY <1>0, <1>1, <1>2, <1>3, <1>4, <2>1, <2>2
<1>10. taken' \in Nat /\ slots' \in 1..ceiling' /\ UNCHANGED <<ceiling, caller>>
  BY <1>0, <1>1, <1>3 DEF SetTarget, LimiterInv, LimiterTypes
<1>11. \A d \in ToSet(queued') : caller'[d] \in {"waiting", "leaving"}
  BY <1>3, <1>4 DEF LimiterInv, QueueIsFair
<1> QED BY <1>4, <1>8, <1>9, <1>10, <1>11 DEF LimiterInv, LimiterTypes, QueueIsFair, NoIdleSlot

LEMMA CeilingSet == ASSUME LimiterInv, NEW t \in 1..Ceiling, SetCeiling(t) PROVE LimiterInv'
<1>1. Owners' = Owners BY DEF SetCeiling, Owners
<1> QED BY <1>1, LimiterAssumption
       DEF SetCeiling, LimiterInv, LimiterTypes, QueueIsFair, NoIdleSlot, LimiterAssumption

LEMMA LimiterPreserved == ASSUME LimiterInv, [LimiterNext]_limiterVars PROVE LimiterInv'
<1>1. CASE LimiterNext
  BY <1>1, SlotAcquired, WaitEnds, CallerLeaves, SlotReleased, TargetSet, CeilingSet DEF LimiterNext, LimiterStep
<1>2. CASE UNCHANGED limiterVars
  <2>1. Owners' = Owners BY <1>2 DEF limiterVars, Owners
  <2> QED BY <1>2, <2>1 DEF limiterVars, LimiterInv, LimiterTypes, QueueIsFair, NoIdleSlot
<1> QED BY <1>1, <1>2

\* No slot is lost, whatever order acquisitions, releases, cancelled waits and new targets come in:
\* every slot counted has an owner, and nobody waits while one is free (Acquire, Release, SetTarget).
THEOREM SlotsAreNeverLost == LimiterSpec => []NoSlotLost
<1>1. LimiterInit => LimiterInv BY LimiterInitially
<1>2. LimiterInv /\ [LimiterNext]_limiterVars => LimiterInv' BY LimiterPreserved
<1>3. LimiterInv => NoSlotLost BY OwnersAreCounted
<1> QED BY <1>1, <1>2, <1>3, PTL DEF LimiterSpec

=============================================================================
