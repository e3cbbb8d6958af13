---------------------------- MODULE OobCallbacks ----------------------------
(***************************************************************************)
(* Out-of-band callbacks of one run. A payload carries a token; the target *)
(* that follows it calls the coordinator, which asks the run's agent to    *)
(* match the token and looks for it among those a run handed over when it  *)
(* ended. The tokens pass from the run's store to D1 while callbacks for   *)
(* them come in and the runner's connection may break.                     *)
(*                                                                         *)
(* Timing: the five seconds of the grace period are longer than a message  *)
(* takes (InTime), the 35 seconds of a retried look-up longer than the     *)
(* hand-over takes (HandedOver), unless the connection broke. Left out,    *)
(* and able to lose a callback: a coordinator that restarts or hibernates  *)
(* (it forgets what it noted and its timers), a D1 that refuses the        *)
(* tokens, a run that panics (it hands nothing over), a claim of the run   *)
(* that is refused when its agent reconnects (Delivery).                   *)
(***************************************************************************)
EXTENDS Naturals, Sequences

CONSTANTS
  Tokens,
  MaxCallbacks, \* bound: how many requests targets make
  MaxCuts       \* bound: how often the runner's connection breaks

ASSUME OobAssumption == MaxCallbacks \in Nat /\ MaxCuts \in Nat

Callbacks == 1..MaxCallbacks \* in the order they come

VARIABLES
  phase,      \* the run: fuzzing, grace, handing (over its tokens), ended
  hurried,    \* it was stopped, so it has no grace period
  oobStore,   \* tokens the run waits for
  matched,    \* tokens the run took from its store for a callback
  onWay,      \* the run's events on their way
  storing,    \* batches whose statement runs
  oobPending, \* tokens in D1's oob_pending
  link,       \* the run's entry in stateManager.jobs: up, down (no connection), gone (the run ended)
  cuts, delayed, \* how often it broke; events that waited for a connection are still on their way
  noted,      \* stateManager.oobHandOvers: the run announced, or handed over, lately
  callback,   \* [Callbacks -> [token, at, retry, tries, cut]]; cut: the connection broke around it
  trigger,    \* oob_trigger messages: none, sent, matched, over
  live, late  \* tokens with a finding of the run's, with one of the coordinator's

runVars == <<phase, hurried, oobStore, matched>>
linkVars == <<link, cuts, delayed>>
coordVars == <<storing, oobPending, noted, late>>
callVars == <<callback, trigger>>
oobVars == <<runVars, linkVars, coordVars, callVars, onWay, live>>

NoToken == "none"
Batch(tokens) == [type |-> "oob_pending", tokens |-> tokens]
Finding(t) == [type |-> "result", tokens |-> {t}]
RunEnd == [type |-> "complete", tokens |-> {}]
NotCome == [token |-> NoToken, at |-> "none", retry |-> FALSE, tries |-> 0, cut |-> FALSE]

OobInit ==
  /\ phase = "fuzzing" /\ hurried = FALSE /\ oobStore = Tokens /\ matched = {}
  /\ onWay = <<>> /\ storing = {} /\ oobPending = {}
  /\ link = "up" /\ cuts = 0 /\ delayed = FALSE /\ noted = FALSE
  /\ callback = [c \in Callbacks |-> NotCome] /\ trigger = [c \in Callbacks |-> "none"]
  /\ live = {} /\ late = {}

-----------------------------------------------------------------------------
(* The run.                                                                *)

StartGrace == /\ phase = "fuzzing" /\ oobStore # {}
              /\ phase' = "grace" /\ onWay' = Append(onWay, Batch({}))
              /\ UNCHANGED <<hurried, oobStore, matched, linkVars, coordVars, callVars, live>>

\* The announcement has arrived, and so has what the coordinator sent before it did.
InTime == /\ \A i \in 1..Len(onWay) : onWay[i] # Batch({})
          /\ \A c \in Callbacks : trigger[c] = "sent" => callback[c].retry

\* TakePending takes the tokens out of the store, under its lock.
TakePending_Copies == oobStore
TakePending == {}

\* finalise: handOverPendingOOB. A stopped run does not wait for the callbacks.
HandOver(stopped) ==
  /\ phase \in {"fuzzing", "grace"}
  /\ phase = "fuzzing" => stopped \/ oobStore = {}
  /\ stopped \/ phase = "fuzzing" \/ InTime \/ delayed
  /\ phase' = "handing" /\ hurried' = stopped
  /\ onWay' = IF oobStore = {} THEN onWay ELSE Append(onWay, Batch(oobStore))
  /\ oobStore' = TakePending
  /\ UNCHANGED <<matched, linkVars, coordVars, callVars, live>>

\* finalise: the run's end. It does not wait for a trigger the read loop is handling. Then the store is
\* cleared and the agent forgets the run: no step of its own, since the store is empty already.
EndRun == /\ phase = "handing" /\ phase' = "ended" /\ onWay' = Append(onWay, RunEnd) /\ oobStore' = {}
          /\ UNCHANGED <<hurried, matched, linkVars, coordVars, callVars, live>>

\* handleOOBTrigger, HandleOOBTrigger on the agent's read loop: the token leaves the store.
MatchTrigger(c) ==
  LET t == callback[c].token IN
  /\ trigger[c] = "sent"
  /\ IF t \in oobStore
     THEN /\ trigger' = [trigger EXCEPT ![c] = "matched"]
          /\ oobStore' = oobStore \ {t} /\ matched' = matched \cup {t}
     ELSE trigger' = [trigger EXCEPT ![c] = "over"] /\ UNCHANGED <<oobStore, matched>>
  /\ UNCHANGED <<phase, hurried, linkVars, coordVars, callback, onWay, live>>

\* HandleOOBTrigger: then its result is broadcast, maybe behind the run's end.
ReportTrigger(c) ==
  /\ trigger[c] = "matched" /\ trigger' = [trigger EXCEPT ![c] = "over"]
  /\ onWay' = Append(onWay, Finding(callback[c].token))
  /\ UNCHANGED <<runVars, linkVars, coordVars, callback, live>>

-----------------------------------------------------------------------------
(* The runner's connection.                                                *)

\* handleClose drops the job. What the coordinator had sent is lost.
LinkBreaks ==
  /\ link = "up" /\ cuts < MaxCuts /\ cuts' = cuts + 1 /\ link' = "down" /\ delayed' = TRUE
  /\ callback' = [c \in Callbacks |->
       [callback[c] EXCEPT !.cut = @ \/ trigger[c] = "sent" \/ callback[c].at = "look"]]
  /\ trigger' = [c \in Callbacks |-> IF trigger[c] = "sent" THEN "over" ELSE trigger[c]]
  /\ UNCHANGED <<runVars, coordVars, onWay, live>>

\* The agent reports the run again, which sets the job, and its events go on (Delivery).
Reconnects == /\ link = "down" /\ link' = "up" /\ delayed' = (onWay # <<>>)
              /\ UNCHANGED <<cuts, runVars, coordVars, callVars, onWay, live>>

-----------------------------------------------------------------------------
(* The coordinator: the run's events (handleMessage).                      *)

\* An announcement is a batch without tokens. Every batch is noted and, meanwhile, stored.
NoteHandOver_OnlyTokens(e) == e.type = "oob_pending" /\ e.tokens # {}
NoteHandOver(e) == e.type = "oob_pending"

\* What comes behind the run's end is dropped: its job has become a recent one.
Arrives ==
  LET e == Head(onWay) IN
  /\ onWay # <<>> /\ link # "down" /\ onWay' = Tail(onWay)
  /\ link' = IF e = RunEnd THEN "gone" ELSE link
  /\ delayed' = (delayed /\ Tail(onWay) # <<>> /\ e # RunEnd)
  /\ noted' = (noted \/ NoteHandOver(e))
  /\ storing' = IF e.type = "oob_pending" THEN storing \cup ({e.tokens} \ {{}}) ELSE storing
  /\ live' = IF e.type = "result" /\ link = "up" THEN live \cup e.tokens ELSE live
  /\ UNCHANGED <<cuts, runVars, oobPending, late, callVars>>

\* storeOobPending (INSERT OR IGNORE). A batch delivered again is stored again.
storeOobPending(b, again) ==
  /\ b \in storing
  /\ oobPending' = oobPending \cup b
  /\ storing' = IF again THEN storing ELSE storing \ {b}
  /\ UNCHANGED <<runVars, linkVars, noted, late, callVars, onWay, live>>

HandedOver == phase = "ended" /\ onWay = <<>> /\ storing = {}

\* LATE_OOB_RETRY_WINDOW_MS, two minutes.
NoteAges == /\ noted /\ HandedOver /\ noted' = FALSE
            /\ UNCHANGED <<runVars, linkVars, storing, oobPending, late, callVars, onWay, live>>

-----------------------------------------------------------------------------
(* The coordinator: the callbacks (OobHandler, recordLateOobCallback).     *)

\* The trigger goes to the run's socket, if there is one.
CallsBack(c, t) ==
  /\ callback[c].at = "none" /\ \A d \in 1..(c - 1) : callback[d].at # "none"
  /\ callback' = [callback EXCEPT ![c] = [token |-> t, at |-> "look", retry |-> noted, tries |-> 1, cut |-> delayed]]
  /\ trigger' = [trigger EXCEPT ![c] = IF link = "up" THEN "sent" ELSE "over"]
  /\ UNCHANGED <<runVars, linkVars, coordVars, onWay, live>>

\* A callback is looked up at once; one for a run that hands over again after 5 s and after 35 s.
LastTry(c) == ~callback[c].retry \/ callback[c].tries = 3

LookUp(c) ==
  /\ callback[c].at = "look"
  /\ callback[c].tries = 3 => HandedOver \/ callback[c].cut
  /\ callback' = [callback EXCEPT
       ![c].at = IF callback[c].token \in oobPending THEN "found" ELSE IF LastTry(c) THEN "done" ELSE "look",
       ![c].tries = IF callback[c].token \in oobPending \/ LastTry(c) THEN 0 ELSE @ + 1]
  /\ UNCHANGED <<runVars, linkVars, coordVars, trigger, onWay, live>>

\* One transaction: the finding and the removal of the token; nothing, if another got there first.
Record(c) ==
  /\ callback[c].at = "found" /\ callback' = [callback EXCEPT ![c].at = "done"]
  /\ late' = late \cup ({callback[c].token} \cap oobPending)
  /\ oobPending' = oobPending \ {callback[c].token}
  /\ UNCHANGED <<runVars, linkVars, storing, noted, trigger, onWay, live>>

-----------------------------------------------------------------------------

AgentOob == StartGrace \/ (\E stopped \in BOOLEAN : HandOver(stopped)) \/ EndRun
Triggers(c) == MatchTrigger(c) \/ ReportTrigger(c)
Looks(c) == LookUp(c) \/ Record(c)
Stores == \E b \in storing : storeOobPending(b, FALSE)

OobNext == \/ AgentOob \/ Arrives \/ Stores \/ NoteAges \/ LinkBreaks \/ Reconnects
           \/ \E b \in storing : storeOobPending(b, TRUE)
           \/ \E c \in Callbacks : Triggers(c) \/ Looks(c) \/ (\E t \in Tokens : CallsBack(c, t))

OobSpec == OobInit /\ [][OobNext]_oobVars

\* Runs end, messages arrive, agents reconnect, statements and timers complete. Nobody need call back.
OobFairSpec ==
  /\ OobSpec
  /\ WF_oobVars(AgentOob) /\ WF_oobVars(Arrives \/ Reconnects) /\ WF_oobVars(Stores)
  /\ \A c \in Callbacks : WF_oobVars(Triggers(c)) /\ WF_oobVars(Looks(c))

-----------------------------------------------------------------------------

\* A token is matched by the run or handed over, never both: one interaction is one finding (the
\* two findings have different ids), also when a batch is stored again after its token was reported.
ReportedOnce == live \cap late = {}

\* Tokens the run took for a callback whose finding the run's end overtook (HandleOOBTrigger and
\* finalise do not wait for each other).
Overtaken == IF link = "gone" THEN matched \ live ELSE {}

\* A callback for a run that was not stopped is reported, however it falls between the run and D1:
\* before, while, or after the tokens change hands (OobHandler; docs/usage.md, oob_server_url). Not
\* if the connection breaks around it, nor if the run's end overtakes its finding.
CallbackReported == \A c \in Callbacks :
  (callback[c].at = "look") ~> \/ callback[c].token \in live \cup late
                               \/ callback[c].token \in Overtaken
                               \/ hurried \/ callback[c].cut

=============================================================================
