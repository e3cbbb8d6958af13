---------------------------- MODULE ScanFollower ----------------------------
(***************************************************************************)
(* followRun: how the dashboard learns that a scan ended, from the stream  *)
(* of its events, which may drop or fall silent, and from its status in    *)
(* the API, which is asked for when the stream opens or drops and when     *)
(* nothing has come for a while. The coordinator tells the connected       *)
(* dashboards of the end before D1 has it, or does not tell them at all    *)
(* (the watchdog ends the scan).                                           *)
(***************************************************************************)
EXTENDS Naturals, Sequences

CONSTANTS
  MaxReconnects,  \* RUN_MAX_RECONNECTS
  MaxSaid,        \* bound: messages of the scan before its end
  MaxTrouble      \* bound: streams that drop or fall silent, tickets and answers that fail

ASSUME FollowerAssumption == {MaxReconnects, MaxSaid, MaxTrouble} \subseteq Nat

VARIABLES
  outcome, told, scanStatus,  \* how the scan ended, if it did; clients were told; its status in D1
  stream,     \* the socket: none, connecting, accepted, open, closed
  silent,     \* nothing comes through it any more
  inStream, said,
  received, queuedShown, quiet,  \* receivedAny, isQueued, nothing for RUN_STALL_AFTER_MS
  retries, dropped,   \* reconnects; where onDrop is: no, checking, waiting, gaveUp
  check,      \* settleFromStatus, by who called it: none, asked, or the answer
  finishedAs, \* no, ended, or stopped by the caller
  reports,    \* calls of onComplete and onError
  trouble

scanSide == <<outcome, told, scanStatus>>
streamVars == <<stream, silent, inStream, said>>
shownVars == <<received, queuedShown, quiet>>
endVars == <<finishedAs, reports>>
followerVars == <<scanSide, streamVars, shownVars, retries, dropped, check, endVars, trouble>>

Outcomes == {"completed", "failed"}
Askers == {"open", "drop", "timer"}

FollowerInit ==
  /\ outcome = "none" /\ told = FALSE /\ scanStatus = "active"
  /\ stream = "none" /\ silent = FALSE /\ inStream = <<>> /\ said = 0
  /\ received = FALSE /\ queuedShown = FALSE /\ quiet = FALSE
  /\ retries = 0 /\ dropped = "waiting" /\ check = [a \in Askers |-> "none"]
  /\ finishedAs = "no" /\ reports = <<>> /\ trouble = 0

Troubles == trouble < MaxTrouble /\ trouble' = trouble + 1

-----------------------------------------------------------------------------
(* The scan and the coordinator.                                           *)

\* The coordinator has the client's socket (clients).
Connected == stream \in {"accepted", "open"} /\ ~silent
Send(m) == inStream' = IF Connected THEN Append(inStream, m) ELSE inStream

ScanSays(m) == /\ outcome = "none" /\ said < MaxSaid /\ said' = said + 1 /\ Send(m)
               /\ UNCHANGED <<scanSide, stream, silent, shownVars, retries, dropped, check, endVars, trouble>>

ScanEnds(o) == /\ outcome = "none" /\ outcome' = o
               /\ UNCHANGED <<told, scanStatus, streamVars, shownVars, retries, dropped, check, endVars, trouble>>

TellClients == /\ outcome # "none" /\ ~told /\ told' = TRUE /\ Send(outcome)
               /\ UNCHANGED <<outcome, scanStatus, stream, silent, said, shownVars, retries, dropped, check, endVars, trouble>>

StoreEnd == /\ outcome # "none" /\ scanStatus' = outcome
            /\ UNCHANGED <<outcome, told, streamVars, shownVars, retries, dropped, check, endVars, trouble>>

\* ConnectClientHandler: the socket joins the clients, and then D1 is asked whether the scan ended.
Accept == /\ stream = "connecting" /\ stream' = "accepted"
          /\ UNCHANGED <<scanSide, silent, inStream, said, shownVars, retries, dropped, check, endVars, trouble>>

\* The handler answers; onopen asks for the status if nothing was received yet.
Opens == /\ stream = "accepted" /\ stream' = "open"
         /\ IF scanStatus # "active" THEN Send(scanStatus) ELSE UNCHANGED inStream
         /\ check' = IF received \/ check["open"] # "none" THEN check ELSE [check EXCEPT !["open"] = "asked"]
         /\ UNCHANGED <<scanSide, silent, said, shownVars, retries, dropped, endVars, trouble>>

-----------------------------------------------------------------------------
(* The dashboard.                                                          *)

IsFinished_Never == FALSE
IsFinished == finishedAs # "no"

\* complete, fail: they close the socket, which then delivers nothing.
Report(o) == IF IsFinished THEN UNCHANGED <<endVars, stream, inStream>>
             ELSE /\ finishedAs' = "ended" /\ reports' = Append(reports, o)
                  /\ stream' = "closed" /\ inStream' = <<>>

\* onMessage: the reconnects start anew.
Receive ==
  /\ stream = "open" /\ inStream # <<>>
  /\ received' = TRUE /\ quiet' = FALSE /\ retries' = 0
  /\ queuedShown' = (Head(inStream) = "queued")
  /\ IF Head(inStream) \in Outcomes THEN Report(Head(inStream))
     ELSE inStream' = Tail(inStream) /\ UNCHANGED <<endVars, stream>>
  /\ UNCHANGED <<scanSide, silent, said, dropped, check, trouble>>

GoesQuiet == /\ ~quiet /\ quiet' = TRUE
             /\ UNCHANGED <<scanSide, streamVars, received, queuedShown, retries, dropped, check, endVars, trouble>>

\* The stream closes, or a ticket for it cannot be had: onDrop.
Drops == /\ ~IsFinished /\ Troubles
         /\ \/ stream \in {"connecting", "accepted", "open"} /\ stream' = "closed"
            \/ dropped = "waiting" /\ UNCHANGED stream
         /\ dropped' = "checking" /\ check' = [check EXCEPT !["drop"] = "asked"]
         /\ silent' = FALSE /\ inStream' = <<>>
         /\ UNCHANGED <<scanSide, said, shownVars, retries, endVars>>

FallsSilent == /\ Connected /\ Troubles /\ silent' = TRUE
               /\ UNCHANGED <<scanSide, stream, inStream, said, shownVars, retries, dropped, check, endVars>>

\* The timer of onDrop fires, or followRun begins: connect.
OpenStream == /\ dropped = "waiting" /\ ~IsFinished
           /\ dropped' = "no" /\ stream' = "connecting"
           /\ UNCHANGED <<scanSide, silent, inStream, said, shownVars, retries, check, endVars, trouble>>

\* The interval: a queued scan is quiet by design, and asked about all the same.
Suspicious_NotQueued == (quiet /\ ~queuedShown) \/ ~received \/ stream \in {"none", "closed"}
Suspicious == quiet \/ ~received \/ stream \in {"none", "closed"}

TimerAsks == /\ ~IsFinished /\ Suspicious /\ check["timer"] = "none"
             /\ check' = [check EXCEPT !["timer"] = "asked"]
             /\ UNCHANGED <<scanSide, streamVars, shownVars, retries, dropped, endVars, trouble>>

\* fetchScanStatus
StatusComes(a) == /\ check[a] = "asked" /\ check' = [check EXCEPT ![a] = scanStatus]
                  /\ UNCHANGED <<scanSide, streamVars, shownVars, retries, dropped, endVars, trouble>>
StatusFails(a) == /\ check[a] = "asked" /\ Troubles /\ check' = [check EXCEPT ![a] = "unknown"]
                  /\ UNCHANGED <<scanSide, streamVars, shownVars, retries, dropped, endVars>>

\* settleFromStatus after its await; onDrop then gives up or waits to connect again.
Settle(a) ==
  /\ check[a] \notin {"none", "asked"} /\ check' = [check EXCEPT ![a] = "none"]
  /\ IF check[a] \in Outcomes THEN Report(check[a]) ELSE UNCHANGED <<endVars, stream, inStream>>
  /\ IF a = "drop" /\ ~IsFinished /\ check[a] \notin Outcomes
     THEN IF retries >= MaxReconnects
          THEN dropped' = "gaveUp" /\ UNCHANGED retries
          ELSE dropped' = "waiting" /\ retries' = retries + 1
     ELSE UNCHANGED <<dropped, retries>>
  /\ UNCHANGED <<scanSide, silent, said, shownVars, trouble>>

\* The caller stops following: another scan is followed, or the page is left.
StopFollowing == /\ ~IsFinished /\ finishedAs' = "stopped" /\ stream' = "closed" /\ inStream' = <<>>
                 /\ UNCHANGED <<scanSide, silent, said, shownVars, retries, dropped, check, reports, trouble>>

-----------------------------------------------------------------------------

Serves == Accept \/ Opens
FollowerNext ==
  \/ (\E m \in {"queued", "progress"} : ScanSays(m)) \/ (\E o \in Outcomes : ScanEnds(o))
  \/ TellClients \/ StoreEnd \/ Serves
  \/ Receive \/ GoesQuiet \/ Drops \/ FallsSilent \/ OpenStream \/ TimerAsks \/ StopFollowing
  \/ \E a \in Askers : StatusComes(a) \/ StatusFails(a) \/ Settle(a)

FollowerSpec == FollowerInit /\ [][FollowerNext]_followerVars

\* Timers fire and requests are answered; no stream need open, no message need come.
FollowerFairSpec ==
  /\ FollowerSpec
  /\ WF_followerVars(GoesQuiet) /\ WF_followerVars(TimerAsks)
  /\ \A a \in Askers : WF_followerVars(StatusComes(a) \/ StatusFails(a)) /\ WF_followerVars(Settle(a))

-----------------------------------------------------------------------------

\* The caller hears of the scan's end once, as it was, and not after it stopped following, whatever
\* answers were still on their way (complete, fail, settleFromStatus).
EndReportedOnce == reports = IF finishedAs = "ended" THEN <<outcome>> ELSE <<>>

\* A dashboard that follows a scan learns of its end although streams drop, fall silent or never
\* open: the end is in D1, and the interval goes on (followRun: "however it does").
EndIsLearned == (scanStatus # "active") ~> (finishedAs # "no")

=============================================================================
