------------------------------- MODULE Outbox -------------------------------
(***************************************************************************)
(* The agent's queue of messages for the coordinator (agent_outbox.go) and *)
(* the goroutines around it (agent_dispatcher.go): the forwarders of the   *)
(* runs' events, which number and queue them and hold every scan when the  *)
(* queue is full; those that queue replies; and the pump, which moves the  *)
(* messages on to the connection's write loop and releases the scans.      *)
(*                                                                         *)
(* A step of a goroutine is what it does under one lock, or one operation  *)
(* on a channel or an atomic.                                              *)
(***************************************************************************)
EXTENDS Integers, Sequences, FiniteSets

CONSTANTS
  Runs,
  Senders,     \* goroutines that forward events; a run may have several
  Repliers,    \* goroutines that answer coordinator requests, one reply each
  Low, High, Hard, \* lowOutboxMark, highOutboxMark, hardOutboxLimit
  MaxRequests, \* bound: requests the runs send, in all
  MaxStarts    \* bound: executions of a run

Nobody == "nobody"  \* who has a lock that is free

ASSUME OutboxAssumption ==
  /\ IsFiniteSet(Senders) /\ Senders \cap Repliers = {} /\ Senders # {} /\ Nobody \notin Senders
  /\ Low \in Nat /\ High \in Nat /\ Hard \in Nat
  /\ Low < High /\ High <= Hard
  /\ MaxRequests \in Nat /\ MaxStarts \in Nat

Message == [run: Runs, exec: 1..MaxStarts, seq: Nat]
NoMessage == [run |-> "none", exec |-> 0, seq |-> 0]
Reply == [run |-> "reply", exec |-> 0, seq |-> 0]
Idle == [at |-> "idle"]

VARIABLES
  items, replies, \* outbox.items; the number of outbox.replies
  ready,          \* outbox.ready holds a signal
  inHand,         \* the message the pump has taken and not yet handed on: outbox.inFlight
  pump,           \* where the pump is
  sender,         \* [Senders -> ...]: where each forwarder is, and with which event
  replier,        \* [Repliers -> ...]: where each is
  sendMu,         \* who holds it
  held,           \* AgentDispatcher.held
  active,         \* activeRunners
  heldRun,        \* [Runs -> BOOLEAN]: the run's runner is held
  log,            \* [Runs -> ...]: the runLog's exec and nextSeq
  requests,       \* [Runs -> Nat]: requests sent and not finished
  sent,           \* requests sent so far
  wire            \* [Runs -> ...]: the last event handed to the write loop

queueVars == <<items, replies, ready>>
pumpVars == <<inHand, pump, wire>>
holdVars == <<held, heldRun>>
runVars == <<active, requests, sent>>
vars == <<queueVars, pumpVars, sender, replier, sendMu, holdVars, log, runVars>>

Init ==
  /\ items = <<>> /\ replies = 0 /\ ready = FALSE
  /\ inHand = NoMessage /\ pump = "take"
  /\ sender = [g \in Senders |-> Idle] /\ replier = [g \in Repliers |-> "idle"]
  /\ sendMu = Nobody
  /\ held = FALSE /\ active = {} /\ heldRun = [r \in Runs |-> FALSE]
  /\ log = [r \in Runs |-> [exec |-> 0, seq |-> 0]]
  /\ requests = [r \in Runs |-> 0] /\ sent = 0
  /\ wire = [r \in Runs |-> [exec |-> 0, seq |-> 0]]

----------------------------------------------------------------------------
(* The runs.                                                               *)

\* A run that starts while the scans are held is held too.
HoldAtStart_Never == FALSE
HoldAtStart == held

\* handleJobDispatch: a new execution, numbered from 1.
RunStarts(r) ==
  /\ r \notin active /\ log[r].exec < MaxStarts
  /\ active' = active \cup {r}
  /\ log' = [log EXCEPT ![r] = [exec |-> @.exec + 1, seq |-> 0]]
  /\ heldRun' = [heldRun EXCEPT ![r] = HoldAtStart]
  /\ UNCHANGED <<queueVars, pumpVars, sender, replier, sendMu, held, requests, sent>>

\* executeRequest: a request waits while the run is held.
RequestStarts(r) ==
  /\ r \in active /\ ~heldRun[r] /\ sent < MaxRequests
  /\ requests' = [requests EXCEPT ![r] = @ + 1] /\ sent' = sent + 1
  /\ UNCHANGED <<queueVars, pumpVars, sender, replier, sendMu, holdVars, log, active>>

RunEnds(r) ==
  /\ r \in active /\ requests[r] = 0
  /\ active' = active \ {r}
  /\ UNCHANGED <<queueVars, pumpVars, sender, replier, sendMu, holdVars, log, requests, sent>>

----------------------------------------------------------------------------
(* The forwarders: queueEvent.                                             *)

At(g, place) == sender[g].at = place
Goes(g, place) == sender' = [sender EXCEPT ![g].at = place]
Done(g) == sender' = [sender EXCEPT ![g] = Idle]

\* waitRoom: at the hard limit a forwarder waits for the room channel to be closed, and looks again.
HasRoom_AtLimit == Len(items) <= Hard
HasRoom == Len(items) < Hard
Room == IF HasRoom THEN "stamp" ELSE "wait"

\* A request finishes, and its event is to be queued.
EventComes(g, r) ==
  /\ At(g, "idle") /\ requests[r] > 0
  /\ requests' = [requests EXCEPT ![r] = @ - 1]
  /\ sender' = [sender EXCEPT ![g] = [at |-> Room, run |-> r, exec |-> log[r].exec, seq |-> 0]]
  /\ UNCHANGED <<queueVars, pumpVars, replier, sendMu, holdVars, log, active, sent>>

LooksAgain(g) ==
  /\ At(g, "room")
  /\ Goes(g, Room)
  /\ UNCHANGED <<queueVars, pumpVars, replier, sendMu, holdVars, log, runVars>>

\* sendMu is free to be taken.
MayLock(g) == sendMu = Nobody

\* A late event of an earlier execution.
IsLate_Never(g) == FALSE
IsLate(g) == sender[g].exec # log[sender[g].run].exec

\* The event is numbered, or dropped if it is late.
stamp(g) ==
  LET r == sender[g].run IN
  /\ At(g, "stamp") /\ MayLock(g)
  /\ IF IsLate(g) THEN Done(g) /\ UNCHANGED <<sendMu, log>>
     ELSE /\ sendMu' = g
          /\ log' = [log EXCEPT ![r].seq = @ + 1]
          /\ sender' = [sender EXCEPT ![g].at = "push", ![g].seq = log[r].seq + 1]
  /\ UNCHANGED <<queueVars, pumpVars, replier, holdVars, runVars>>

MessageOf(g) == [run |-> sender[g].run, exec |-> sender[g].exec, seq |-> sender[g].seq]
InFlight == IF inHand = NoMessage THEN 0 ELSE 1

\* push, and whether the queue is at its high mark.
push(g) ==
  /\ At(g, "push")
  /\ items' = Append(items, MessageOf(g))
  /\ Goes(g, IF Len(items') + InFlight >= High THEN "signalFull" ELSE "signal")
  /\ UNCHANGED <<replies, ready, pumpVars, replier, sendMu, holdVars, log, runVars>>

\* The pump is told, and sendMu given back.
pushSignals(g) ==
  /\ At(g, "signal") \/ At(g, "signalFull")
  /\ ready' = TRUE
  /\ sendMu' = Nobody
  /\ IF At(g, "signalFull") THEN Goes(g, "hold") ELSE Done(g)
  /\ UNCHANGED <<items, replies, pumpVars, replier, holdVars, log, runVars>>

\* holdScans, unless they are held already.
MustHold(g) ==
  /\ At(g, "hold")
  /\ IF held THEN Done(g) ELSE Goes(g, "lock")
  /\ UNCHANGED <<queueVars, pumpVars, replier, sendMu, holdVars, log, runVars>>

holdScans(g) ==
  /\ At(g, "lock")
  /\ held' = TRUE
  /\ heldRun' = [r \in Runs |-> heldRun[r] \/ r \in active]
  /\ Goes(g, "recheck")
  /\ UNCHANGED <<queueVars, pumpVars, replier, sendMu, log, runVars>>

\* The queue may have drained before the scans were held: no hand-off is left to release them then.
Drained == Len(items) <= Low
NextAfterHold_Nothing(g) == Done(g)
NextAfterHold(g) == IF Drained THEN Goes(g, "release") ELSE Done(g)

recheck(g) ==
  /\ At(g, "recheck")
  /\ NextAfterHold(g)
  /\ UNCHANGED <<queueVars, pumpVars, replier, sendMu, holdVars, log, runVars>>

releaseScans ==
  /\ held' = FALSE
  /\ heldRun' = [r \in Runs |-> heldRun[r] /\ held = FALSE]

SenderReleases(g) ==
  /\ At(g, "release")
  /\ releaseScans
  /\ Done(g)
  /\ UNCHANGED <<queueVars, pumpVars, replier, sendMu, log, runVars>>

----------------------------------------------------------------------------
(* Replies: they need no number and count toward no mark.                  *)

pushReply(g) ==
  /\ replier[g] = "idle"
  /\ replies' = replies + 1
  /\ replier' = [replier EXCEPT ![g] = "signal"]
  /\ UNCHANGED <<items, ready, pumpVars, sender, sendMu, holdVars, log, runVars>>

TellPump_BehindItems == ready' = (ready \/ items # <<>>)
TellPump == ready' = TRUE

ReplySignals(g) ==
  /\ replier[g] = "signal"
  /\ TellPump
  /\ replier' = [replier EXCEPT ![g] = "done"]
  /\ UNCHANGED <<items, replies, pumpVars, sender, sendMu, holdVars, log, runVars>>

----------------------------------------------------------------------------
(* The pump.                                                               *)

\* Taking an item below the hard limit closes the room channel: everyone who waits looks again.
MakeRoom_Never == UNCHANGED sender
MakeRoom ==
  sender' = [g \in Senders |-> IF At(g, "wait") THEN [sender[g] EXCEPT !.at = "room"] ELSE sender[g]]

takeReply ==
  /\ pump = "take" /\ replies > 0
  /\ replies' = replies - 1 /\ inHand' = Reply /\ pump' = "hand"
  /\ UNCHANGED <<items, ready, wire, sender, replier, sendMu, holdVars, log, runVars>>

takeItem ==
  /\ pump = "take" /\ replies = 0 /\ items # <<>>
  /\ items' = Tail(items) /\ inHand' = Head(items) /\ pump' = "hand"
  /\ IF Len(items') < Hard THEN MakeRoom ELSE UNCHANGED sender
  /\ UNCHANGED <<replies, ready, wire, replier, sendMu, holdVars, log, runVars>>

takeNothing ==
  /\ pump = "take" /\ replies = 0 /\ items = <<>>
  /\ pump' = "wait"
  /\ UNCHANGED <<queueVars, inHand, wire, sender, replier, sendMu, holdVars, log, runVars>>

takeWakes ==
  /\ pump = "wait" /\ ready
  /\ ready' = FALSE /\ pump' = "take"
  /\ UNCHANGED <<items, replies, inHand, wire, sender, replier, sendMu, holdVars, log, runVars>>

\* The write loop takes the message.
HandOn ==
  /\ pump = "hand"
  /\ pump' = "handed"
  /\ wire' = IF inHand = Reply THEN wire
             ELSE [wire EXCEPT ![inHand.run] = [exec |-> inHand.exec, seq |-> inHand.seq]]
  /\ UNCHANGED <<queueVars, inHand, sender, replier, sendMu, holdVars, log, runVars>>

handed ==
  /\ pump = "handed"
  /\ inHand' = NoMessage
  /\ pump' = IF Drained THEN "release" ELSE "take"
  /\ UNCHANGED <<queueVars, wire, sender, replier, sendMu, holdVars, log, runVars>>

PumpReleases ==
  /\ pump = "release"
  /\ releaseScans
  /\ pump' = "take"
  /\ UNCHANGED <<queueVars, inHand, wire, sender, replier, sendMu, log, runVars>>

----------------------------------------------------------------------------
RunStep(r) == RunStarts(r) \/ RequestStarts(r) \/ RunEnds(r)
SenderStep(g) ==
  \/ \E r \in Runs : EventComes(g, r)
  \/ LooksAgain(g) \/ stamp(g) \/ push(g) \/ pushSignals(g)
  \/ MustHold(g) \/ holdScans(g) \/ recheck(g) \/ SenderReleases(g)
ReplyStep(g) == pushReply(g) \/ ReplySignals(g)
PumpStep ==
  takeReply \/ takeItem \/ takeNothing \/ takeWakes \/ HandOn \/ handed \/ PumpReleases

Next ==
  \/ \E r \in Runs : RunStep(r)
  \/ \E g \in Senders : SenderStep(g)
  \/ \E g \in Repliers : ReplyStep(g)
  \/ PumpStep

Spec == Init /\ [][Next]_vars

\* Goroutines run on, requests finish (they time out), and the connection comes back. Runs need not
\* start, send anything or end, nor requests for replies come.
FairSpec ==
  /\ Spec
  /\ WF_vars(PumpStep)
  /\ \A g \in Senders : WF_vars(SenderStep(g))
  /\ \A g \in Repliers : WF_vars(ReplySignals(g))

----------------------------------------------------------------------------
(* Properties.                                                             *)

Places ==
  {"room", "wait", "stamp", "push", "signal", "signalFull", "hold", "lock", "recheck", "release"}

\* Every variable has its type; the pump has a message exactly while it hands one on, and sendMu is
\* held exactly while an event is numbered and not yet announced.
TypeOK ==
  /\ items \in Seq(Message) /\ replies \in Nat /\ ready \in BOOLEAN
  /\ inHand \in Message \cup {NoMessage, Reply}
  /\ pump \in {"take", "wait", "hand", "handed", "release"}
  /\ inHand # NoMessage <=> pump \in {"hand", "handed"}
  /\ sender \in [Senders -> [at: Places, run: Runs, exec: 1..MaxStarts, seq: Nat] \cup {Idle}]
  /\ replier \in [Repliers -> {"idle", "signal", "done"}]
  /\ sendMu \in Senders \cup {Nobody}
  /\ \A g \in Senders : sender[g].at \in {"push", "signal", "signalFull"} <=> sendMu = g
  /\ held \in BOOLEAN /\ active \subseteq Runs /\ heldRun \in [Runs -> BOOLEAN]
  /\ log \in [Runs -> [exec: 0..MaxStarts, seq: Nat]]
  /\ requests \in [Runs -> Nat] /\ sent \in Nat
  /\ wire \in [Runs -> [exec: 0..MaxStarts, seq: Nat]]

\* The scans are held together: no run is left held when the others go on, and no run that started
\* meanwhile goes on while the others are held.
HeldTogether == \A r \in active : heldRun[r] = held

\* However late the forwarders that saw room are, each adds at most one event beyond the hard limit.
HardLimitKept == Len(items) < Hard + Cardinality(Senders)

\* A run's events reach the wire in the order of their numbers, without a gap, and those of an
\* earlier execution never after a later one's: the coordinator drops a lower number as a duplicate.
OrderedOnWire ==
  [][\A r \in Runs : wire'[r] # wire[r] =>
       \/ wire'[r].exec = wire[r].exec /\ wire'[r].seq = wire[r].seq + 1
       \/ wire'[r].exec > wire[r].exec /\ wire'[r].seq = 1]_wire

\* The scans are not held for ever, whatever the order of a last hand-off and of holding them.
HeldAreReleased == held ~> ~held

\* A forwarder that waits at the hard limit goes on.
RoomComes == \A g \in Senders : At(g, "wait") ~> At(g, "stamp")

\* Every reply leaves the queue, also when no event is queued behind it.
RepliesLeave == (replies > 0) ~> (replies = 0)

=============================================================================
