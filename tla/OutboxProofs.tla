---------------------------- MODULE OutboxProofs ----------------------------
(***************************************************************************)
(* Theorems about Outbox, for every set of runs, forwarders and repliers,  *)
(* whatever the marks: the scans are held together, the hard limit is      *)
(* exceeded by at most one event for each forwarder, and a run's events    *)
(* reach the wire in order and without a gap.                              *)
(***************************************************************************)
EXTENDS Outbox, FiniteSetTheorems, SequenceTheorems, TLAPS

----------------------------------------------------------------------------
(* Holding.                                                                *)

HoldingInv ==
  /\ held \in BOOLEAN /\ active \subseteq Runs /\ heldRun \in [Runs -> BOOLEAN]
  /\ HeldTogether

\* A step that leaves holding and the active runs alone.
LEMMA HoldingUntouched ==
  ASSUME HoldingInv, UNCHANGED <<held, heldRun, active>>
  PROVE  HoldingInv'
BY DEF HoldingInv, HeldTogether

\* A run that starts joins the others.
LEMMA HoldingAtStart ==
  ASSUME HoldingInv, NEW r \in Runs, RunStarts(r)
  PROVE  HoldingInv'
<1>1. heldRun' = [heldRun EXCEPT ![r] = held] /\ held' = held /\ active' = active \cup {r}
  BY DEF RunStarts, HoldAtStart
<1>2. heldRun' \in [Runs -> BOOLEAN]
  BY <1>1, Zenon DEF HoldingInv
<1>3. ASSUME NEW q \in active' PROVE heldRun'[q] = held'
  BY <1>1, <1>3 DEF HoldingInv, HeldTogether
<1> QED
  BY <1>1, <1>2, <1>3, Zenon DEF HoldingInv, HeldTogether

\* Holding the scans holds all of them.
LEMMA HoldingHolds ==
  ASSUME HoldingInv, NEW g \in Senders, holdScans(g)
  PROVE  HoldingInv'
<1>1. held' = TRUE /\ active' = active /\ heldRun' = [r \in Runs |-> heldRun[r] \/ r \in active]
  BY Zenon DEF holdScans, runVars
<1>2. heldRun' \in [Runs -> BOOLEAN]
  BY <1>1, Zenon DEF HoldingInv
<1>3. ASSUME NEW q \in active' PROVE heldRun'[q] = TRUE
  BY <1>1, Zenon DEF HoldingInv
<1> QED
  BY <1>1, <1>2, <1>3, Zenon DEF HoldingInv, HeldTogether

\* Releasing them releases all of them.
LEMMA HoldingReleases ==
  ASSUME HoldingInv, releaseScans, UNCHANGED active
  PROVE  HoldingInv'
<1>1. held' = FALSE /\ heldRun' = [r \in Runs |-> heldRun[r] /\ held = FALSE]
  BY DEF releaseScans
<1>2. heldRun' \in [Runs -> BOOLEAN]
  BY <1>1, Zenon DEF HoldingInv
<1>3. ASSUME NEW q \in active' PROVE heldRun'[q] = FALSE
  <2>1. heldRun'[q] = (heldRun[q] /\ held = FALSE) /\ heldRun[q] = held /\ held \in BOOLEAN
    BY <1>1, <1>3, Zenon DEF HoldingInv, HeldTogether
  <2> QED
    BY <2>1
<1> QED
  BY <1>1, <1>2, <1>3, Zenon DEF HoldingInv, HeldTogether

\* Every other step of the forwarders, repliers and the pump leaves holding alone.
LEMMA HoldingStep ==
  ASSUME HoldingInv, [Next]_vars
  PROVE  HoldingInv'
<1>1. ASSUME NEW r \in Runs, RunStep(r) PROVE HoldingInv'
  <2>1. CASE RunStarts(r)
    BY <2>1, HoldingAtStart
  <2>2. CASE RequestStarts(r)
    BY <2>2, HoldingUntouched DEF RequestStarts, holdVars
  <2>3. CASE RunEnds(r)
    <3>1. active' \subseteq active /\ UNCHANGED <<held, heldRun>>
      BY <2>3 DEF RunEnds, holdVars
    <3> QED
      BY <3>1 DEF HoldingInv, HeldTogether
  <2> QED
    BY <1>1, <2>1, <2>2, <2>3 DEF RunStep
<1>2. ASSUME NEW g \in Senders, SenderStep(g) PROVE HoldingInv'
  <2>1. CASE holdScans(g)
    BY <2>1, HoldingHolds
  <2>2. CASE SenderReleases(g)
    BY <2>2, HoldingReleases DEF SenderReleases, runVars
  <2>3. CASE (\E r \in Runs : EventComes(g, r)) \/ LooksAgain(g) \/ stamp(g) \/ push(g)
             \/ pushSignals(g) \/ MustHold(g) \/ recheck(g)
    <3>1. UNCHANGED <<held, heldRun, active>>
      BY <2>3 DEF EventComes, LooksAgain, stamp, push, pushSignals, MustHold, recheck,
                  holdVars, runVars
    <3> QED
      BY <3>1, HoldingUntouched
  <2> QED
    BY <1>2, <2>1, <2>2, <2>3 DEF SenderStep
<1>3. ASSUME NEW g \in Repliers, ReplyStep(g) PROVE HoldingInv'
  BY <1>3, HoldingUntouched DEF ReplyStep, pushReply, ReplySignals, holdVars, runVars
<1>4. ASSUME PumpStep PROVE HoldingInv'
  <2>1. CASE PumpReleases
    BY <2>1, HoldingReleases DEF PumpReleases, runVars
  <2>2. CASE takeReply \/ takeItem \/ takeNothing \/ takeWakes \/ HandOn \/ handed
    <3>1. UNCHANGED <<held, heldRun, active>>
      BY <2>2 DEF takeReply, takeItem, takeNothing, takeWakes, HandOn, handed, holdVars, runVars
    <3> QED
      BY <3>1, HoldingUntouched
  <2> QED
    BY <1>4, <2>1, <2>2 DEF PumpStep
<1>5. CASE UNCHANGED vars
  BY <1>5, HoldingUntouched DEF vars, holdVars, runVars
<1> QED
  BY <1>1, <1>2, <1>3, <1>4, <1>5 DEF Next

\* The scans are held together (HeldTogether): holdScans, releaseScans and the start of a run under
\* activeRunnersMu leave no run behind.
THEOREM HoldingIsUniform == Spec => []HeldTogether
<1>1. Init => HoldingInv
  BY DEF Init, HoldingInv, HeldTogether
<1>2. HoldingInv /\ [Next]_vars => HoldingInv'
  BY HoldingStep
<1>3. HoldingInv => HeldTogether
  BY DEF HoldingInv
<1> QED
  BY <1>1, <1>2, <1>3, PTL DEF Spec

----------------------------------------------------------------------------
(* The hard limit.                                                         *)

\* The forwarders that have seen room and have not queued their event yet.
Passing == {g \in Senders : sender[g].at \in {"stamp", "push"}}

\* A forwarder with an event, or none.
Event == [run: Runs, exec: Nat, seq: Nat]
Busy == [at: Places, run: Runs, exec: Nat, seq: Nat]
Forwarder == Busy \cup {Idle}

\* Room was seen below the limit, and each forwarder that saw it adds one event.
RoomInv ==
  /\ items \in Seq(Event)
  /\ log \in [Runs -> [exec: Nat, seq: Nat]]
  /\ sender \in [Senders -> Forwarder]
  /\ Len(items) + Cardinality(Passing) < Hard + Cardinality(Senders)

\* Cardinalities of the forwarders that pass are numbers, at most that of all forwarders.
LEMMA PassingCard ==
  /\ IsFiniteSet(Passing) /\ Cardinality(Passing) \in Nat
  /\ Cardinality(Senders) \in Nat /\ Cardinality(Passing) <= Cardinality(Senders)
<1>1. Passing \subseteq Senders
  BY DEF Passing
<1>2. IsFiniteSet(Senders)
  BY OutboxAssumption
<1> QED
  BY <1>1, <1>2, FS_Subset, FS_CardinalityType

\* The same after a step.
LEMMA PassingCardNext ==
  /\ IsFiniteSet(Passing') /\ Cardinality(Passing') \in Nat
  /\ Cardinality(Senders) \in Nat /\ Cardinality(Passing') <= Cardinality(Senders)
<1>1. Passing' \subseteq Senders
  BY DEF Passing
<1>2. IsFiniteSet(Senders)
  BY OutboxAssumption
<1> QED
  BY <1>1, <1>2, FS_Subset, FS_CardinalityType

\* The queue did not grow, and nobody new has seen room.
LEMMA RoomShrinks ==
  ASSUME RoomInv, items' \in Seq(Event), Len(items') <= Len(items), Passing' \subseteq Passing,
         log' \in [Runs -> [exec: Nat, seq: Nat]], sender' \in [Senders -> Forwarder]
  PROVE  RoomInv'
<1>1. Cardinality(Passing') \in Nat /\ Cardinality(Passing') <= Cardinality(Passing)
  BY PassingCard, FS_Subset, FS_CardinalityType
<1>2. Len(items) \in Nat /\ Len(items') \in Nat /\ Hard \in Nat
  BY OutboxAssumption DEF RoomInv
<1>3. Len(items') + Cardinality(Passing') < Hard + Cardinality(Senders)
  BY <1>1, <1>2, PassingCard DEF RoomInv
<1> QED
  BY <1>3 DEF RoomInv

\* A forwarder that sees room sees a queue below the limit; then any number of them may pass.
LEMMA RoomSeen ==
  ASSUME RoomInv, HasRoom, UNCHANGED <<items, log>>, sender' \in [Senders -> Forwarder]
  PROVE  RoomInv'
<1>1. Len(items) \in Nat /\ Hard \in Nat /\ Len(items) < Hard
  BY OutboxAssumption DEF RoomInv, HasRoom
<1>2. Len(items) + Cardinality(Passing') < Hard + Cardinality(Senders)
  BY <1>1, PassingCardNext
<1> QED
  BY <1>2 DEF RoomInv

\* One forwarder moves to a place and stays as it is otherwise.
LEMMA Moves ==
  ASSUME RoomInv, NEW g \in Senders, NEW place \in Places, ~At(g, "idle"), Goes(g, place)
  PROVE  /\ sender' \in [Senders -> Forwarder]
         /\ sender'[g].at = place
         /\ \A h \in Senders \ {g} : sender'[h] = sender[h]
<1>1. sender[g] \in Busy
  BY DEF RoomInv, Forwarder, At, Idle
<1>2. sender' = [sender EXCEPT ![g] = [sender[g] EXCEPT !.at = place]]
  BY DEF Goes
<1>3. [sender[g] EXCEPT !.at = place] \in Busy /\ [sender[g] EXCEPT !.at = place].at = place
  BY <1>1 DEF Busy
<1> QED
  BY <1>2, <1>3 DEF RoomInv, Forwarder

\* A forwarder that is done has no event any more.
LEMMA Finishes ==
  ASSUME RoomInv, NEW g \in Senders, Done(g)
  PROVE  /\ sender' \in [Senders -> Forwarder]
         /\ sender'[g].at = "idle"
         /\ \A h \in Senders \ {g} : sender'[h] = sender[h]
BY DEF RoomInv, Done, Forwarder, Idle

\* A forwarder that goes where it neither sees room nor has an event to queue.
LEMMA PassesNoMore ==
  ASSUME NEW g \in Senders, sender'[g].at \notin {"stamp", "push"},
         \A h \in Senders \ {g} : sender'[h] = sender[h]
  PROVE  Passing' = Passing \ {g}
BY DEF Passing

\* A forwarder comes with an event: it passes if it sees room, and waits otherwise.
LEMMA RoomEventComes ==
  ASSUME RoomInv, NEW g \in Senders, NEW r \in Runs, EventComes(g, r)
  PROVE  RoomInv'
<1> DEFINE new == [at |-> Room, run |-> r, exec |-> log[r].exec, seq |-> 0]
<1>1. sender' = [sender EXCEPT ![g] = new] /\ UNCHANGED <<items, log>>
  BY DEF EventComes, queueVars
<1>2. new \in Busy /\ new.at = Room
  BY DEF RoomInv, Busy, Room, Places
<1>3. sender' \in [Senders -> Forwarder] /\ sender'[g].at = Room
      /\ \A h \in Senders \ {g} : sender'[h] = sender[h]
  BY <1>1, <1>2 DEF RoomInv, Forwarder
<1>4. CASE HasRoom
  BY <1>1, <1>3, <1>4, RoomSeen
<1>5. CASE ~HasRoom
  <2>1. Passing' = Passing \ {g}
    BY <1>3, <1>5, PassesNoMore DEF Room
  <2> QED
    BY <1>1, <1>3, <2>1, RoomShrinks DEF RoomInv
<1> QED
  BY <1>4, <1>5

\* So does a forwarder that was woken.
LEMMA RoomLooksAgain ==
  ASSUME RoomInv, NEW g \in Senders, LooksAgain(g)
  PROVE  RoomInv'
<1>1. Goes(g, Room) /\ ~At(g, "idle") /\ Room \in Places /\ UNCHANGED <<items, log>>
  BY DEF LooksAgain, At, Room, Places, queueVars
<1>2. sender' \in [Senders -> Forwarder] /\ sender'[g].at = Room
      /\ \A h \in Senders \ {g} : sender'[h] = sender[h]
  BY <1>1, Moves
<1>3. CASE HasRoom
  BY <1>1, <1>2, <1>3, RoomSeen
<1>4. CASE ~HasRoom
  <2>1. Passing' = Passing \ {g}
    BY <1>2, <1>4, PassesNoMore DEF Room
  <2> QED
    BY <1>1, <1>2, <2>1, RoomShrinks DEF RoomInv
<1> QED
  BY <1>3, <1>4

\* A forwarder that passes keeps its place among them while it takes its number, or drops its event.
LEMMA RoomStamp ==
  ASSUME RoomInv, NEW g \in Senders, stamp(g)
  PROVE  RoomInv'
<1>1. UNCHANGED items /\ At(g, "stamp") /\ g \in Passing
  BY DEF stamp, queueVars, Passing, At
<1>2. CASE IsLate(g)
  <2>1. Done(g) /\ UNCHANGED log
    BY <1>2 DEF stamp
  <2>2. Passing' = Passing \ {g}
    BY <2>1, Finishes, PassesNoMore
  <2> QED
    BY <1>1, <2>1, <2>2, Finishes, RoomShrinks DEF RoomInv
<1>3. CASE ~IsLate(g)
  <2> DEFINE r == sender[g].run
             new == [sender[g] EXCEPT !.at = "push", !.seq = log[r].seq + 1]
  <2>1. sender[g] \in Busy /\ r \in Runs
    BY <1>1 DEF RoomInv, Forwarder, Busy, At, Idle
  <2>2. log' = [log EXCEPT ![r] = [log[r] EXCEPT !.seq = log[r].seq + 1]]
        /\ sender' = [sender EXCEPT ![g] = new]
    BY <1>3 DEF stamp
  <2>3. log' \in [Runs -> [exec: Nat, seq: Nat]]
    BY <2>1, <2>2, SMTT(30) DEF RoomInv
  <2>4. log[r].seq + 1 \in Nat
    BY <2>1 DEF RoomInv
  <2>5. new \in Busy
    BY <2>1, <2>4 DEF Busy, Places
  <2>6. sender' \in [Senders -> Forwarder] /\ \A h \in Senders \ {g} : sender'[h] = sender[h]
    BY <2>2, <2>5 DEF RoomInv, Forwarder
  <2>7. Passing' \subseteq Passing
    BY <1>1, <2>6 DEF Passing
  <2> QED
    BY <1>1, <2>3, <2>6, <2>7, RoomShrinks DEF RoomInv
<1> QED
  BY <1>2, <1>3

\* The queue grows by one, and one forwarder has passed.
LEMMA RoomPush ==
  ASSUME RoomInv, NEW g \in Senders, push(g)
  PROVE  RoomInv'
<1>1. sender[g] \in Busy /\ At(g, "push") /\ g \in Passing
  BY DEF push, At, Passing, RoomInv, Forwarder, Idle
<1>2. items' = Append(items, MessageOf(g)) /\ UNCHANGED log
  BY DEF push
<1>3. MessageOf(g) \in Event
  BY <1>1 DEF MessageOf, Event, Busy
<1>4. items' \in Seq(Event) /\ Len(items') = Len(items) + 1 /\ Len(items) \in Nat
  BY <1>2, <1>3 DEF RoomInv
<1>5. PICK place \in {"signal", "signalFull"} : Goes(g, place)
  BY DEF push
<1>6. place \in Places /\ place \notin {"stamp", "push"} /\ ~At(g, "idle")
  BY <1>1, <1>5 DEF Places, At
<1>7. sender' \in [Senders -> Forwarder] /\ Passing' = Passing \ {g}
  BY <1>5, <1>6, Moves, PassesNoMore
<1>8. Cardinality(Passing') = Cardinality(Passing) - 1
  BY <1>1, <1>7, PassingCard, FS_RemoveElement
<1>9. Len(items') + Cardinality(Passing') < Hard + Cardinality(Senders)
  BY <1>4, <1>8, PassingCard, OutboxAssumption DEF RoomInv
<1> QED
  BY <1>2, <1>4, <1>7, <1>9 DEF RoomInv

\* A forwarder that has queued its event passes no more.
LEMMA RoomAfterPush ==
  ASSUME RoomInv, NEW g \in Senders,
         pushSignals(g) \/ MustHold(g) \/ holdScans(g) \/ recheck(g) \/ SenderReleases(g)
  PROVE  RoomInv'
<1>1. UNCHANGED <<items, log>> /\ ~At(g, "idle")
  BY DEF pushSignals, MustHold, holdScans, recheck, SenderReleases, queueVars, At
<1>2. Done(g) \/ \E place \in {"hold", "lock", "recheck", "release"} : Goes(g, place)
  BY DEF pushSignals, MustHold, holdScans, recheck, NextAfterHold, SenderReleases
<1>3. CASE Done(g)
  <2>1. Passing' = Passing \ {g}
    BY <1>3, Finishes, PassesNoMore
  <2> QED
    BY <1>1, <1>3, <2>1, Finishes, RoomShrinks DEF RoomInv
<1>4. ASSUME NEW place \in {"hold", "lock", "recheck", "release"}, Goes(g, place) PROVE RoomInv'
  <2>1. place \in Places /\ place \notin {"stamp", "push"}
    BY DEF Places
  <2>2. sender' \in [Senders -> Forwarder] /\ Passing' = Passing \ {g}
    BY <1>1, <1>4, <2>1, Moves, PassesNoMore
  <2> QED
    BY <1>1, <2>2, RoomShrinks DEF RoomInv
<1> QED
  BY <1>2, <1>3, <1>4

\* The pump makes the queue shorter; those it wakes have not seen room yet.
LEMMA RoomTaken ==
  ASSUME RoomInv, takeItem
  PROVE  RoomInv'
<1>1. items # <<>> /\ items' = Tail(items) /\ UNCHANGED log
  BY DEF takeItem
<1>2. items' \in Seq(Event) /\ Len(items') <= Len(items)
  BY <1>1 DEF RoomInv
<1>3. sender' \in [Senders -> Forwarder] /\ Passing' \subseteq Passing
  <2>1. CASE UNCHANGED sender
    BY <2>1 DEF RoomInv, Passing
  <2>2. CASE MakeRoom
    <3>1. ASSUME NEW g \in Senders
          PROVE  sender'[g] \in Forwarder /\ (sender'[g].at \in {"stamp", "push"} => sender'[g] = sender[g])
      <4>1. CASE At(g, "wait")
        <5>1. sender[g] \in Busy
          BY <4>1 DEF RoomInv, Forwarder, At, Idle
        <5>2. sender'[g] = [sender[g] EXCEPT !.at = "room"]
          BY <2>2, <4>1 DEF MakeRoom
        <5>3. sender'[g] \in Busy /\ sender'[g].at = "room"
          BY <5>1, <5>2 DEF Busy, Places
        <5> QED
          BY <5>3 DEF Forwarder
      <4>2. CASE ~At(g, "wait")
        BY <2>2, <4>2 DEF MakeRoom, RoomInv
      <4> QED
        BY <4>1, <4>2
    <3>2. sender' \in [Senders -> Forwarder]
      BY <2>2, <3>1, Zenon DEF MakeRoom
    <3> QED
      BY <3>1, <3>2 DEF Passing
  <2> QED
    BY <2>1, <2>2 DEF takeItem
<1> QED
  BY <1>1, <1>2, <1>3, RoomShrinks DEF RoomInv

\* A step that leaves the queue and the forwarders alone, and the log's types.
LEMMA RoomUntouched ==
  ASSUME RoomInv, UNCHANGED <<items, sender>>, log' \in [Runs -> [exec: Nat, seq: Nat]]
  PROVE  RoomInv'
BY RoomShrinks DEF RoomInv, Passing

\* Every step keeps the queue and those who passed below the bound.
LEMMA RoomStep ==
  ASSUME RoomInv, [Next]_vars
  PROVE  RoomInv'
<1>1. ASSUME NEW r \in Runs, RunStep(r) PROVE RoomInv'
  <2>1. CASE RunStarts(r)
    <3>1. UNCHANGED <<items, sender>> /\ log' = [log EXCEPT ![r] = [exec |-> log[r].exec + 1, seq |-> 0]]
      BY <2>1 DEF RunStarts, queueVars
    <3>2. log' \in [Runs -> [exec: Nat, seq: Nat]]
      BY <3>1 DEF RoomInv
    <3> QED
      BY <3>1, <3>2, RoomUntouched
  <2>2. CASE RequestStarts(r) \/ RunEnds(r)
    <3>1. UNCHANGED <<items, sender, log>>
      BY <2>2 DEF RequestStarts, RunEnds, queueVars
    <3> QED
      BY <3>1, RoomUntouched DEF RoomInv
  <2> QED
    BY <1>1, <2>1, <2>2 DEF RunStep
<1>2. ASSUME NEW g \in Senders, SenderStep(g) PROVE RoomInv'
  <2>1. CASE \E r \in Runs : EventComes(g, r)
    BY <2>1, RoomEventComes
  <2>2. CASE LooksAgain(g) \/ stamp(g) \/ push(g)
    BY <2>2, RoomLooksAgain, RoomStamp, RoomPush
  <2>3. CASE pushSignals(g) \/ MustHold(g) \/ holdScans(g) \/ recheck(g) \/ SenderReleases(g)
    BY <2>3, RoomAfterPush
  <2> QED
    BY <1>2, <2>1, <2>2, <2>3 DEF SenderStep
<1>3. ASSUME NEW g \in Repliers, ReplyStep(g) PROVE RoomInv'
  <2>1. UNCHANGED <<items, sender, log>>
    BY <1>3 DEF ReplyStep, pushReply, ReplySignals
  <2> QED
    BY <2>1, RoomUntouched DEF RoomInv
<1>4. ASSUME PumpStep PROVE RoomInv'
  <2>1. CASE takeItem
    BY <2>1, RoomTaken
  <2>2. CASE takeReply \/ takeNothing \/ takeWakes \/ HandOn \/ handed \/ PumpReleases
    <3>1. UNCHANGED <<items, sender, log>>
      BY <2>2 DEF takeReply, takeNothing, takeWakes, HandOn, handed, PumpReleases, queueVars
    <3> QED
      BY <3>1, RoomUntouched DEF RoomInv
  <2> QED
    BY <1>4, <2>1, <2>2 DEF PumpStep
<1>5. CASE UNCHANGED vars
  <2>1. UNCHANGED <<items, sender, log>>
    BY <1>5 DEF vars, queueVars
  <2> QED
    BY <2>1, RoomUntouched DEF RoomInv
<1> QED
  BY <1>1, <1>2, <1>3, <1>4, <1>5 DEF Next

\* Nobody has passed at the start.
LEMMA RoomInit ==
  ASSUME Init
  PROVE  RoomInv
<1>1. Passing = {}
  BY DEF Init, Passing, Idle
<1>2. Cardinality(Passing) = 0
  BY <1>1, FS_EmptySet
<1>3. Cardinality(Senders) \in Nat /\ Cardinality(Senders) # 0
  BY OutboxAssumption, FS_CardinalityType, FS_EmptySet
<1>4. items \in Seq(Event) /\ Len(items) = 0 /\ sender \in [Senders -> Forwarder]
      /\ log \in [Runs -> [exec: Nat, seq: Nat]]
  BY DEF Init, Forwarder
<1> QED
  BY <1>2, <1>3, <1>4, OutboxAssumption DEF RoomInv

\* The hard limit is exceeded by less than one event for each forwarder (HardLimitKept), however
\* many of them saw room at once: waitRoom gives the lock back before push takes it again.
THEOREM HardLimitHolds == Spec => []HardLimitKept
<1>1. Init => RoomInv
  BY RoomInit
<1>2. RoomInv /\ [Next]_vars => RoomInv'
  BY RoomStep
<1>3. RoomInv => HardLimitKept
  <2>1. RoomInv => Len(items) \in Nat /\ Hard \in Nat
    BY OutboxAssumption DEF RoomInv
  <2> QED
    BY <2>1, PassingCard DEF RoomInv, HardLimitKept
<1> QED
  BY <1>1, <1>2, <1>3, PTL DEF Spec

----------------------------------------------------------------------------
(* The order on the wire.                                                   *)

\* A place in a run's stream; one before another, and the one right before a message's.
StreamPlace == [exec: Nat, seq: Nat]
PlaceOf(m) == [exec |-> m.exec, seq |-> m.seq]
Before(a, b) == a.exec < b.exec \/ (a.exec = b.exec /\ a.seq < b.seq)
RightAfter(m, p) == p.exec = m.exec /\ p.seq = m.seq - 1

\* Nothing is wrong with the messages of run r in q, when w was the last on the wire and l the last to be
\* numbered: they are between the two, sorted, and each has the one before it in front of it, on the
\* wire, or is the first of its execution.
InOrder(q, r, w, l) ==
  /\ \A i, j \in DOMAIN q : i < j /\ q[i].run = r /\ q[j].run = r => Before(q[i], q[j])
  /\ \A i \in DOMAIN q : q[i].run = r =>
       /\ q[i].seq >= 1 /\ Before(w, q[i]) /\ ~Before(l, q[i])
       /\ \/ q[i].seq = 1 \/ RightAfter(q[i], w)
          \/ \E j \in 1..(i - 1) : q[j].run = r /\ RightAfter(q[i], q[j])
  /\ ~Before(l, w)
  /\ \/ l.seq = 0 \/ w = l
     \/ \E j \in DOMAIN q : q[j].run = r /\ q[j].exec = l.exec /\ q[j].seq = l.seq

\* What is in a sequence of events is one.
LEMMA QueuedTyped ==
  ASSUME NEW q \in Seq(Event), NEW i \in DOMAIN q
  PROVE  q[i].exec \in Nat /\ q[i].seq \in Nat
<1>1. q[i] \in Event
  OBVIOUS
<1> QED BY <1>1 DEF Event

\* A new execution has no number yet.
LEMMA OrderRestarts ==
  ASSUME NEW q \in Seq(Event), NEW r, NEW w \in StreamPlace, NEW l \in StreamPlace, InOrder(q, r, w, l)
  PROVE  InOrder(q, r, w, [exec |-> l.exec + 1, seq |-> 0])
<1> DEFINE new == [exec |-> l.exec + 1, seq |-> 0]
<1>1. l.exec \in Nat /\ l.seq \in Nat /\ w.exec \in Nat /\ w.seq \in Nat
  BY DEF StreamPlace
<1>2. \A i \in DOMAIN q : q[i].exec \in Nat /\ q[i].seq \in Nat
  BY QueuedTyped
<1>3. new.exec = l.exec + 1 /\ new.seq = 0
  OBVIOUS
<1>4. ~Before(new, w)
  BY <1>1, <1>3 DEF InOrder, Before
<1>5. \A i \in DOMAIN q : q[i].run = r => ~Before(new, q[i])
  BY <1>1, <1>2, <1>3 DEF InOrder, Before
<1> HIDE DEF new
<1>6. InOrder(q, r, w, new)
  BY <1>3, <1>4, <1>5 DEF InOrder
<1> QED BY <1>6 DEF new

\* The next number is given: the message goes behind all others.
LEMMA OrderAppend ==
  ASSUME NEW q \in Seq(Event), NEW r \in Runs, NEW w \in StreamPlace, NEW l \in StreamPlace,
         InOrder(q, r, w, l), NEW m \in Event, m.run = r, m.exec = l.exec, m.seq = l.seq + 1
  PROVE  InOrder(Append(q, m), r, w, PlaceOf(m))
<1> DEFINE p == Append(q, m)
           n == Len(q)
           new == PlaceOf(m)
<1>1. l.exec \in Nat /\ l.seq \in Nat /\ w.exec \in Nat /\ w.seq \in Nat /\ n \in Nat
  BY DEF StreamPlace
<1>2. DOMAIN q = 1..n /\ \A i \in DOMAIN q : q[i].exec \in Nat /\ q[i].seq \in Nat
  BY QueuedTyped
<1>3. DOMAIN p = 1..(n + 1) /\ p[n + 1] = m /\ \A i \in 1..n : p[i] = q[i]
  BY <1>1
<1>4. new.exec = l.exec /\ new.seq = l.seq + 1
  BY DEF PlaceOf
<1> HIDE DEF p, n, new
<1>5. Before(w, m) /\ ~Before(new, m) /\ ~Before(new, w)
  BY <1>1, <1>4 DEF InOrder, Before
<1>6. ASSUME NEW i \in 1..n, q[i].run = r PROVE Before(q[i], m) /\ ~Before(new, q[i])
  <2>1. ~Before(l, q[i]) /\ q[i].exec \in Nat /\ q[i].seq \in Nat
    BY <1>2, <1>6 DEF InOrder
  <2> QED BY <1>1, <1>4, <2>1, SMTT(30) DEF Before
<1>7. \A i, j \in DOMAIN p : i < j /\ p[i].run = r /\ p[j].run = r => Before(p[i], p[j])
  <2> SUFFICES ASSUME NEW i \in DOMAIN p, NEW j \in DOMAIN p, i < j, p[i].run = r, p[j].run = r
               PROVE  Before(p[i], p[j])
    OBVIOUS
  <2>1. i \in 1..n
    BY <1>1, <1>3
  <2>2. CASE j \in 1..n
    BY <1>2, <1>3, <2>1, <2>2 DEF InOrder
  <2>3. CASE j = n + 1
    BY <1>3, <1>6, <2>1, <2>3
  <2> QED BY <1>1, <1>3, <2>2, <2>3
<1>8. ASSUME NEW i \in DOMAIN p, p[i].run = r
      PROVE  /\ p[i].seq >= 1 /\ Before(w, p[i]) /\ ~Before(new, p[i])
             /\ \/ p[i].seq = 1 \/ RightAfter(p[i], w)
                \/ \E j \in 1..(i - 1) : p[j].run = r /\ RightAfter(p[i], p[j])
  <2>1. CASE i \in 1..n
    <3>1. p[i] = q[i] /\ i \in DOMAIN q /\ i \in Nat
      BY <1>2, <1>3, <2>1
    <3>2. \A j \in 1..(i - 1) : p[j] = q[j]
      BY <1>1, <1>3, <2>1
    <3> QED BY <1>6, <1>8, <2>1, <3>1, <3>2 DEF InOrder
  <2>2. CASE i = n + 1
    <3>1. p[i] = m /\ i - 1 = n
      BY <1>1, <1>3, <2>2
    <3>2. CASE l.seq = 0
      BY <1>5, <3>1, <3>2
    <3>3. CASE w = l
      BY <1>1, <1>5, <3>1, <3>3 DEF RightAfter
    <3>4. ASSUME NEW j \in 1..n, q[j].run = r, q[j].exec = l.exec, q[j].seq = l.seq
          PROVE  \E k \in 1..n : p[k].run = r /\ RightAfter(m, p[k])
      <4>1. p[j].run = r /\ p[j].exec = l.exec /\ p[j].seq = l.seq
        BY <1>3, <3>4
      <4>2. m.seq - 1 = l.seq
        BY <1>1
      <4> QED BY <4>1, <4>2 DEF RightAfter
    <3> QED BY <1>1, <1>2, <1>5, <3>1, <3>2, <3>3, <3>4 DEF InOrder
  <2> QED BY <1>1, <1>3, <2>1, <2>2
<1>9. \E j \in DOMAIN p : p[j].run = r /\ p[j].exec = new.exec /\ p[j].seq = new.seq
  BY <1>1, <1>3, <1>4
<1>10. InOrder(p, r, w, new)
  BY <1>5, <1>7, <1>8, <1>9 DEF InOrder
<1> QED BY <1>10 DEF p, new

\* A message of another run changes nothing.
LEMMA OrderAppendOther ==
  ASSUME NEW q \in Seq(Event), NEW r, NEW w \in StreamPlace, NEW l \in StreamPlace,
         InOrder(q, r, w, l), NEW m \in Event, m.run # r
  PROVE  InOrder(Append(q, m), r, w, l)
<1> DEFINE p == Append(q, m)
           n == Len(q)
<1>1. n \in Nat /\ DOMAIN q = 1..n /\ DOMAIN p = 1..(n + 1) /\ p[n + 1] = m /\ \A i \in 1..n : p[i] = q[i]
  OBVIOUS
<1> HIDE DEF p, n
<1>2. \A i \in DOMAIN p : p[i].run = r => i \in DOMAIN q /\ p[i] = q[i]
  BY <1>1
<1>3. \A i, j \in DOMAIN p : i < j /\ p[i].run = r /\ p[j].run = r => Before(p[i], p[j])
  BY <1>2 DEF InOrder
<1>4. ASSUME NEW i \in DOMAIN p, p[i].run = r
      PROVE  /\ p[i].seq >= 1 /\ Before(w, p[i]) /\ ~Before(l, p[i])
             /\ \/ p[i].seq = 1 \/ RightAfter(p[i], w)
                \/ \E j \in 1..(i - 1) : p[j].run = r /\ RightAfter(p[i], p[j])
  <2>1. i \in DOMAIN q /\ p[i] = q[i] /\ \A j \in 1..(i - 1) : p[j] = q[j]
    BY <1>1, <1>2, <1>4
  <2> QED BY <1>4, <2>1 DEF InOrder
<1>5. \A j \in DOMAIN q : j \in DOMAIN p /\ p[j] = q[j]
  BY <1>1
<1>6. InOrder(p, r, w, l)
  BY <1>3, <1>4, <1>5 DEF InOrder
<1> QED BY <1>6 DEF p

\* The oldest message goes on the wire: it comes right after what was there, or begins an execution.
LEMMA OrderHead ==
  ASSUME NEW q \in Seq(Event), q # <<>>, NEW w \in StreamPlace, NEW l \in StreamPlace,
         InOrder(q, Head(q).run, w, l)
  PROVE  /\ InOrder(Tail(q), Head(q).run, PlaceOf(Head(q)), l)
         /\ \/ Head(q).exec = w.exec /\ Head(q).seq = w.seq + 1
            \/ Head(q).exec > w.exec /\ Head(q).seq = 1
<1> DEFINE h == Head(q)
           r == Head(q).run
           t == Tail(q)
           n == Len(q)
           new == PlaceOf(h)
<1>1. /\ n \in Nat /\ DOMAIN q = 1..n /\ 1 \in DOMAIN q /\ h = q[1] /\ r = h.run
      /\ DOMAIN t = 1..(n - 1) /\ \A i \in 1..(n - 1) : t[i] = q[i + 1]
  OBVIOUS
<1>2. \A i \in DOMAIN q : q[i].exec \in Nat /\ q[i].seq \in Nat
  BY QueuedTyped
<1>3. l.exec \in Nat /\ l.seq \in Nat /\ w.exec \in Nat /\ w.seq \in Nat
  BY DEF StreamPlace
<1>4. new.exec = h.exec /\ new.seq = h.seq
  BY DEF PlaceOf
<1>5. InOrder(q, r, w, l)
  OBVIOUS
<1> HIDE DEF h, r, t, n, new
<1>6. h.seq >= 1 /\ Before(w, h) /\ ~Before(l, h) /\ (h.seq = 1 \/ RightAfter(h, w))
  <2>1. ~\E j \in 1..(1 - 1) : TRUE
    OBVIOUS
  <2> QED BY <1>1, <1>5, <2>1 DEF InOrder
<1>7. (h.exec = w.exec /\ h.seq = w.seq + 1) \/ (h.exec > w.exec /\ h.seq = 1)
  BY <1>1, <1>2, <1>3, <1>6, SMTT(30) DEF Before, RightAfter
<1>8. ~Before(l, new)
  BY <1>4, <1>6 DEF Before
<1>9. \A i \in 1..(n - 1) : i + 1 \in DOMAIN q /\ 1 < i + 1
  BY <1>1
<1>10. \A i, j \in DOMAIN t : i < j /\ t[i].run = r /\ t[j].run = r => Before(t[i], t[j])
  <2> SUFFICES ASSUME NEW i \in DOMAIN t, NEW j \in DOMAIN t, i < j, t[i].run = r, t[j].run = r
               PROVE  Before(t[i], t[j])
    OBVIOUS
  <2>1. i + 1 \in DOMAIN q /\ j + 1 \in DOMAIN q /\ i + 1 < j + 1
    BY <1>1, <1>9
  <2> QED BY <1>1, <1>5, <2>1 DEF InOrder
<1>11. ASSUME NEW i \in DOMAIN t, t[i].run = r
       PROVE  /\ t[i].seq >= 1 /\ Before(new, t[i]) /\ ~Before(l, t[i])
              /\ \/ t[i].seq = 1 \/ RightAfter(t[i], new)
                 \/ \E j \in 1..(i - 1) : t[j].run = r /\ RightAfter(t[i], t[j])
  <2>1. i + 1 \in DOMAIN q /\ 1 < i + 1 /\ t[i] = q[i + 1] /\ i \in Nat /\ i + 1 - 1 = i
    BY <1>1, <1>9
  <2>2. Before(h, t[i])
    BY <1>1, <1>5, <1>11, <2>1 DEF InOrder
  <2>3. Before(new, t[i])
    BY <1>4, <2>2 DEF Before
  <2>4. t[i].seq >= 1 /\ ~Before(l, t[i])
    BY <1>5, <1>11, <2>1 DEF InOrder
  <2>5. ~RightAfter(t[i], w)
    <3>1. /\ h.exec \in Nat /\ h.seq \in Nat
          /\ t[i].exec \in Nat /\ t[i].seq \in Nat
      BY <1>1, <1>2, <2>1
    <3> QED BY <1>3, <1>6, <2>2, <3>1 DEF Before, RightAfter
  <2>6. t[i].seq = 1 \/ \E j \in 1..i : q[j].run = r /\ RightAfter(t[i], q[j])
    BY <1>5, <1>11, <2>1, <2>5 DEF InOrder
  <2>7. ASSUME NEW j \in 1..i, q[j].run = r, RightAfter(t[i], q[j])
        PROVE  RightAfter(t[i], new) \/ \E k \in 1..(i - 1) : t[k].run = r /\ RightAfter(t[i], t[k])
    <3>1. CASE j = 1
      BY <1>1, <1>4, <2>7, <3>1 DEF RightAfter
    <3>2. CASE j # 1
      <4>1. j - 1 \in 1..(i - 1) /\ j - 1 \in 1..(n - 1) /\ j - 1 + 1 = j
        BY <1>1, <2>1, <3>2
      <4>2. t[j - 1] = q[j]
        BY <1>1, <4>1
      <4> QED BY <2>7, <4>1, <4>2
    <3> QED BY <3>1, <3>2
  <2> QED BY <2>3, <2>4, <2>6, <2>7
<1>12. l.seq = 0 \/ new = l \/ \E j \in DOMAIN t : t[j].run = r /\ t[j].exec = l.exec /\ t[j].seq = l.seq
  <2>1. CASE l.seq = 0
    BY <2>1
  <2>2. w # l
    <3>1. CASE w = l
      BY <1>6, <3>1
    <3> QED BY <3>1
  <2>3. ASSUME NEW j \in DOMAIN q, q[j].run = r, q[j].exec = l.exec, q[j].seq = l.seq
        PROVE  new = l \/ \E k \in DOMAIN t : t[k].run = r /\ t[k].exec = l.exec /\ t[k].seq = l.seq
    <3>1. CASE j = 1
      <4>1. h.exec = l.exec /\ h.seq = l.seq
        BY <1>1, <2>3, <3>1
      <4> QED BY <4>1 DEF new, PlaceOf, StreamPlace
    <3>2. CASE j # 1
      <4>1. j - 1 \in 1..(n - 1) /\ j - 1 + 1 = j
        BY <1>1, <3>2
      <4>2. t[j - 1] = q[j] /\ j - 1 \in DOMAIN t
        BY <1>1, <4>1
      <4> QED BY <2>3, <4>2
    <3> QED BY <3>1, <3>2
  <2> QED BY <1>5, <2>1, <2>2, <2>3 DEF InOrder
<1>13. InOrder(t, r, new, l)
  BY <1>8, <1>10, <1>11, <1>12 DEF InOrder
<1> QED BY <1>7, <1>13 DEF t, r, new, h

\* Another run's messages are as before when it goes.
LEMMA OrderHeadOther ==
  ASSUME NEW q \in Seq(Event), q # <<>>, NEW r, NEW w \in StreamPlace, NEW l \in StreamPlace,
         InOrder(q, r, w, l), Head(q).run # r
  PROVE  InOrder(Tail(q), r, w, l)
<1> DEFINE t == Tail(q)
           n == Len(q)
<1>1. /\ n \in Nat /\ DOMAIN q = 1..n /\ 1 \in DOMAIN q /\ q[1].run # r
      /\ DOMAIN t = 1..(n - 1) /\ \A i \in 1..(n - 1) : t[i] = q[i + 1]
  OBVIOUS
<1> HIDE DEF t, n
<1>2. \A i \in 1..(n - 1) : i + 1 \in DOMAIN q
  BY <1>1
<1>3. \A i, j \in DOMAIN t : i < j /\ t[i].run = r /\ t[j].run = r => Before(t[i], t[j])
  <2> SUFFICES ASSUME NEW i \in DOMAIN t, NEW j \in DOMAIN t, i < j, t[i].run = r, t[j].run = r
               PROVE  Before(t[i], t[j])
    OBVIOUS
  <2>1. i + 1 \in DOMAIN q /\ j + 1 \in DOMAIN q /\ i + 1 < j + 1
    BY <1>1, <1>2
  <2> QED BY <1>1, <2>1 DEF InOrder
<1>4. \A j \in DOMAIN q : q[j].run = r => j - 1 \in DOMAIN t /\ t[j - 1] = q[j]
  <2> SUFFICES ASSUME NEW j \in DOMAIN q, q[j].run = r PROVE j - 1 \in DOMAIN t /\ t[j - 1] = q[j]
    OBVIOUS
  <2>1. j - 1 \in 1..(n - 1) /\ j - 1 + 1 = j
    BY <1>1
  <2> QED BY <1>1, <2>1
<1>5. ASSUME NEW i \in DOMAIN t, t[i].run = r
      PROVE  /\ t[i].seq >= 1 /\ Before(w, t[i]) /\ ~Before(l, t[i])
             /\ \/ t[i].seq = 1 \/ RightAfter(t[i], w)
                \/ \E j \in 1..(i - 1) : t[j].run = r /\ RightAfter(t[i], t[j])
  <2>1. i + 1 \in DOMAIN q /\ t[i] = q[i + 1] /\ i + 1 - 1 = i
    BY <1>1, <1>2
  <2>2. ASSUME NEW j \in 1..i, q[j].run = r, RightAfter(t[i], q[j])
        PROVE  \E k \in 1..(i - 1) : t[k].run = r /\ RightAfter(t[i], t[k])
    <3>1. j \in DOMAIN q /\ j # 1 /\ j - 1 \in 1..(i - 1)
      BY <1>1, <2>1, <2>2
    <3> QED BY <1>4, <2>2, <3>1
  <2>3. q[i + 1].run = r
    BY <1>5, <2>1
  <2>4. \/ t[i].seq = 1 \/ RightAfter(t[i], w)
        \/ \E j \in 1..i : q[j].run = r /\ RightAfter(t[i], q[j])
    <3>1. \/ q[i + 1].seq = 1 \/ RightAfter(q[i + 1], w)
          \/ \E j \in 1..(i + 1 - 1) : q[j].run = r /\ RightAfter(q[i + 1], q[j])
      <4>1. \A k \in DOMAIN q : q[k].run = r =>
              \/ q[k].seq = 1 \/ RightAfter(q[k], w)
              \/ \E j \in 1..(k - 1) : q[j].run = r /\ RightAfter(q[k], q[j])
        BY DEF InOrder
      <4> HIDE DEF InOrder
      <4> QED BY <2>1, <2>3, <4>1
    <3> QED BY <2>1, <3>1
  <2>5. t[i].seq >= 1 /\ Before(w, t[i]) /\ ~Before(l, t[i])
    BY <2>1, <2>3 DEF InOrder
  <2> QED BY <2>2, <2>4, <2>5
<1>6. /\ ~Before(l, w)
      /\ \/ l.seq = 0 \/ w = l
         \/ \E j \in DOMAIN t : t[j].run = r /\ t[j].exec = l.exec /\ t[j].seq = l.seq
  BY <1>4 DEF InOrder
<1>7. InOrder(t, r, w, l)
  BY <1>3, <1>5, <1>6 DEF InOrder
<1> QED BY <1>7 DEF t

\* The messages that are numbered and not yet with the write loop, the oldest first: the pump's, the
\* queued ones, and the one that a forwarder is about to queue.
Hand == IF pump = "hand" /\ inHand # Reply THEN <<inHand>> ELSE <<>>
Numbered == IF sendMu \in Senders /\ At(sendMu, "push") THEN <<MessageOf(sendMu)>> ELSE <<>>
Pipe == Hand \o items \o Numbered

\* sendMu belongs to the forwarder that numbers an event, until the pump is told of it.
Locked(g) == sender[g].at \in {"push", "signal", "signalFull"}
Locking ==
  /\ sendMu \in Senders \cup {Nobody}
  /\ \A g \in Senders : Locked(g) <=> sendMu = g

HandTyped == pump = "hand" => inHand \in Event \cup {Reply}
WireTyped == wire \in [Runs -> StreamPlace]
PipeInOrder == \A r \in Runs : InOrder(Pipe, r, wire[r], log[r])
OrderInv == Locking /\ HandTyped /\ WireTyped /\ PipeInOrder

\* These are messages of events.
LEMMA PipeTyped ==
  ASSUME RoomInv, OrderInv
  PROVE  Hand \in Seq(Event) /\ Numbered \in Seq(Event) /\ Pipe \in Seq(Event)
<1>1. Hand \in Seq(Event)
  BY DEF OrderInv, HandTyped, Hand
<1>2. Numbered \in Seq(Event)
  <2>1. CASE sendMu \in Senders /\ At(sendMu, "push")
    <3>1. sender[sendMu] \in Busy
      BY <2>1 DEF RoomInv, Forwarder, At, Idle
    <3>2. MessageOf(sendMu) \in Event
      BY <3>1 DEF MessageOf, Busy, Event
    <3> QED BY <2>1, <3>2 DEF Numbered
  <2>2. CASE ~(sendMu \in Senders /\ At(sendMu, "push"))
    BY <2>2 DEF Numbered
  <2> QED BY <2>1, <2>2
<1>3. Hand \o items \in Seq(Event)
  BY <1>1, ConcatProperties DEF RoomInv
<1> QED BY <1>1, <1>2, <1>3, ConcatProperties DEF Pipe

\* A step that leaves the messages, the log and the wire alone.
LEMMA OrderKept ==
  ASSUME OrderInv, Pipe' = Pipe, wire' = wire, log' = log, Locking', HandTyped'
  PROVE  OrderInv'
<1>1. WireTyped'
  BY DEF OrderInv, WireTyped
<1>2. PipeInOrder'
  BY DEF OrderInv, PipeInOrder
<1> QED BY <1>1, <1>2 DEF OrderInv

\* The same, when the forwarder that has sendMu is left alone too.
LEMMA OrderUntouched ==
  ASSUME OrderInv, UNCHANGED <<items, sendMu, wire, log>>, Hand' = Hand, HandTyped',
         \A g \in Senders : Locked(g) => sender'[g] = sender[g],
         \A g \in Senders : ~Locked(g) => ~Locked(g)'
  PROVE  OrderInv'
<1>1. Locking'
  <2>1. \A g \in Senders : Locked(g)' <=> Locked(g)
    BY DEF Locked
  <2> QED BY <2>1 DEF OrderInv, Locking
<1>2. Numbered' = Numbered
  <2>1. CASE sendMu \in Senders
    <3>1. sender'[sendMu] = sender[sendMu]
      BY <2>1 DEF OrderInv, Locking
    <3> QED BY <3>1 DEF Numbered, At, MessageOf
  <2>2. CASE sendMu \notin Senders
    BY <2>2 DEF Numbered
  <2> QED BY <2>1, <2>2
<1>3. Pipe' = Pipe
  BY <1>2 DEF Pipe
<1> QED BY <1>1, <1>3, OrderKept

\* A run starts: the log's next number is the first of a new execution.
LEMMA OrderRunStarts ==
  ASSUME RoomInv, OrderInv, NEW r \in Runs, RunStarts(r)
  PROVE  OrderInv'
<1> DEFINE new == [exec |-> log[r].exec + 1, seq |-> 0]
<1>1. /\ UNCHANGED <<items, sender, sendMu, pump, inHand, wire>>
      /\ log' = [log EXCEPT ![r] = new]
  BY DEF RunStarts, queueVars, pumpVars
<1>2. Pipe' = Pipe /\ Locking' /\ HandTyped' /\ WireTyped'
  BY <1>1 DEF Pipe, Hand, Numbered, At, MessageOf, OrderInv, Locking, Locked, HandTyped, WireTyped
<1>3. Pipe \in Seq(Event)
  BY PipeTyped
<1>4. \A q \in Runs : log[q] \in StreamPlace /\ wire[q] \in StreamPlace
  BY DEF RoomInv, OrderInv, WireTyped, StreamPlace
<1>5. \A q \in Runs : InOrder(Pipe, q, wire[q], log[q])
  BY DEF OrderInv, PipeInOrder
<1>6. InOrder(Pipe, r, wire[r], new)
  BY <1>3, <1>4, <1>5, OrderRestarts
<1>7. log'[r] = new /\ \A q \in Runs \ {r} : log'[q] = log[q]
  BY <1>1 DEF RoomInv
<1> HIDE DEF new
<1>8. \A q \in Runs : InOrder(Pipe, q, wire[q], log'[q])
  <2> SUFFICES ASSUME NEW q \in Runs PROVE InOrder(Pipe, q, wire[q], log'[q])
    OBVIOUS
  <2>1. CASE q = r
    BY <1>6, <1>7, <2>1
  <2>2. CASE q # r
    BY <1>5, <1>7, <2>2
  <2> QED BY <2>1, <2>2
<1>9. PipeInOrder'
  BY <1>1, <1>2, <1>8 DEF PipeInOrder
<1> QED BY <1>2, <1>9 DEF OrderInv

\* A forwarder that does not have sendMu and does not get it.
LEMMA OrderOutside ==
  ASSUME RoomInv, OrderInv, NEW g \in Senders, ~Locked(g), ~Locked(g)',
         \A h \in Senders \ {g} : sender'[h] = sender[h],
         UNCHANGED <<items, sendMu, wire, log, pump, inHand>>
  PROVE  OrderInv'
<1>1. Hand' = Hand /\ HandTyped'
  BY DEF Hand, OrderInv, HandTyped
<1>2. \A h \in Senders : Locked(h) => sender'[h] = sender[h]
  OBVIOUS
<1>3. \A h \in Senders : ~Locked(h) => ~Locked(h)'
  BY DEF Locked
<1> QED BY <1>1, <1>2, <1>3, OrderUntouched

\* The steps of forwarders that neither number an event nor queue it.
LEMMA OrderForwarders ==
  ASSUME RoomInv, OrderInv, NEW g \in Senders,
         \/ \E r \in Runs : EventComes(g, r)
         \/ LooksAgain(g)
         \/ stamp(g) /\ IsLate(g)
         \/ MustHold(g) \/ holdScans(g) \/ recheck(g) \/ SenderReleases(g)
  PROVE  OrderInv'
<1>1. UNCHANGED <<items, sendMu, wire, log, pump, inHand>>
  BY DEF EventComes, LooksAgain, stamp, MustHold, holdScans, recheck, SenderReleases, queueVars, pumpVars
<1>2. ~Locked(g)
  BY DEF EventComes, LooksAgain, stamp, MustHold, holdScans, recheck, SenderReleases, At, Locked
<1>3. ASSUME Done(g) PROVE OrderInv'
  BY <1>1, <1>2, <1>3, Finishes, OrderOutside DEF Locked
<1>4. ASSUME NEW place \in {"stamp", "wait", "lock", "recheck", "release"}, Goes(g, place), ~At(g, "idle")
      PROVE  OrderInv'
  <2>1. place \in Places
    BY DEF Places
  <2>2. sender'[g].at = place /\ \A h \in Senders \ {g} : sender'[h] = sender[h]
    BY <1>4, <2>1, Moves
  <2> QED BY <1>1, <1>2, <2>2, OrderOutside DEF Locked
<1>5. ASSUME NEW r \in Runs, EventComes(g, r) PROVE OrderInv'
  <2>1. sender'[g].at = Room /\ \A h \in Senders \ {g} : sender'[h] = sender[h]
    BY <1>5 DEF EventComes, RoomInv
  <2>2. ~Locked(g)'
    BY <2>1 DEF Locked, Room
  <2> QED BY <1>1, <1>2, <2>1, <2>2, OrderOutside
<1>6. CASE LooksAgain(g)
  BY <1>4, <1>6 DEF LooksAgain, Room, At
<1>7. CASE stamp(g) /\ IsLate(g)
  BY <1>3, <1>7 DEF stamp
<1>8. CASE MustHold(g)
  BY <1>3, <1>4, <1>8 DEF MustHold, At
<1>9. CASE holdScans(g)
  BY <1>4, <1>9 DEF holdScans, At
<1>10. CASE recheck(g)
  BY <1>3, <1>4, <1>10 DEF recheck, NextAfterHold, At
<1>11. CASE SenderReleases(g)
  BY <1>3, <1>11 DEF SenderReleases
<1> QED BY <1>5, <1>6, <1>7, <1>8, <1>9, <1>10, <1>11

\* An event gets its number: its message is behind all others.
LEMMA OrderStamp ==
  ASSUME RoomInv, OrderInv, NEW g \in Senders, stamp(g), ~IsLate(g)
  PROVE  OrderInv'
<1> DEFINE r == sender[g].run
           m == [run |-> r, exec |-> log[r].exec, seq |-> log[r].seq + 1]
           new == [sender[g] EXCEPT !.at = "push", !.seq = log[r].seq + 1]
<1>1. /\ At(g, "stamp") /\ sendMu = Nobody /\ sendMu' = g
      /\ log' = [log EXCEPT ![r] = [log[r] EXCEPT !.seq = log[r].seq + 1]]
      /\ sender' = [sender EXCEPT ![g] = new]
      /\ UNCHANGED <<items, pump, inHand, wire>>
  BY DEF stamp, MayLock, queueVars, pumpVars
<1>2. sender[g] \in Busy /\ r \in Runs /\ sender[g].exec = log[r].exec
  BY <1>1 DEF RoomInv, Forwarder, Busy, At, Idle, IsLate
<1>3. log[r] \in StreamPlace /\ log[r].exec \in Nat /\ log[r].seq \in Nat
  BY <1>2 DEF RoomInv, StreamPlace
<1>4. /\ sender'[g] = new /\ \A h \in Senders \ {g} : sender'[h] = sender[h]
      /\ new.at = "push" /\ new.run = r /\ new.exec = log[r].exec /\ new.seq = log[r].seq + 1
  BY <1>1, <1>2 DEF RoomInv, Busy
<1>5. m \in Event /\ m.run = r /\ m.exec = log[r].exec /\ m.seq = log[r].seq + 1
  BY <1>2, <1>3 DEF Event
<1>6. Numbered = <<>> /\ Numbered' = <<m>>
  <2>1. sendMu \notin Senders
    BY <1>1, OutboxAssumption DEF Nobody
  <2>2. sendMu' \in Senders /\ At(g, "push")' /\ MessageOf(g)' = m
    BY <1>1, <1>4 DEF At, MessageOf
  <2>3. Numbered' = <<MessageOf(g)'>>
    BY <1>1, <2>2 DEF Numbered, At, MessageOf
  <2> QED BY <2>1, <2>2, <2>3 DEF Numbered
<1>7. Hand' = Hand /\ HandTyped' /\ WireTyped'
  BY <1>1 DEF Hand, OrderInv, HandTyped, WireTyped
<1>8. Pipe' = Append(Pipe, m) /\ Pipe \in Seq(Event)
  <2>1. Hand \o items \in Seq(Event) /\ Pipe \in Seq(Event)
    BY PipeTyped, ConcatProperties DEF RoomInv
  <2>2. Pipe = Hand \o items
    BY <1>6, <2>1, ConcatEmptySeq DEF Pipe
  <2>3. Pipe' = (Hand \o items) \o <<m>>
    BY <1>1, <1>6, <1>7 DEF Pipe
  <2> QED BY <1>5, <2>1, <2>2, <2>3, AppendIsConcat
<1>9. Locking'
  <2>1. \A h \in Senders \ {g} : ~Locked(h)
    BY <1>1, OutboxAssumption DEF OrderInv, Locking, Nobody
  <2>2. Locked(g)' /\ \A h \in Senders \ {g} : ~Locked(h)'
    BY <1>4, <2>1 DEF Locked
  <2> QED BY <1>1, <2>2 DEF Locking
<1>10. log'[r] = PlaceOf(m) /\ \A q \in Runs \ {r} : log'[q] = log[q]
  <2>1. [log[r] EXCEPT !.seq = log[r].seq + 1] = PlaceOf(m)
    BY <1>3 DEF PlaceOf, StreamPlace
  <2> QED BY <1>1, <1>2, <2>1 DEF RoomInv
<1> HIDE DEF m, new
<1>11. \A q \in Runs : log[q] \in StreamPlace /\ wire[q] \in StreamPlace /\ InOrder(Pipe, q, wire[q], log[q])
  BY DEF RoomInv, OrderInv, WireTyped, StreamPlace, PipeInOrder
<1>12. ASSUME NEW q \in Runs PROVE InOrder(Append(Pipe, m), q, wire[q], log'[q])
  <2>1. CASE q = r
    BY <1>2, <1>5, <1>8, <1>10, <1>11, <2>1, OrderAppend
  <2>2. CASE q # r
    <3>1. InOrder(Append(Pipe, m), q, wire[q], log[q])
      BY <1>5, <1>8, <1>11, <2>2, OrderAppendOther
    <3> QED BY <1>10, <2>2, <3>1
  <2> QED BY <2>1, <2>2
<1>13. PipeInOrder'
  BY <1>1, <1>8, <1>12 DEF PipeInOrder
<1> QED BY <1>7, <1>9, <1>13 DEF OrderInv

\* It is queued: the message moves within the pipe, to its place there.
LEMMA OrderPush ==
  ASSUME RoomInv, OrderInv, NEW g \in Senders, push(g)
  PROVE  OrderInv'
<1>1. /\ At(g, "push") /\ items' = Append(items, MessageOf(g))
      /\ UNCHANGED <<sendMu, wire, log, pump, inHand>>
  BY DEF push, pumpVars
<1>2. sendMu = g
  BY <1>1 DEF At, OrderInv, Locking, Locked
<1>3. PICK place \in {"signal", "signalFull"} : Goes(g, place)
  BY DEF push
<1>4. place \in Places /\ ~At(g, "idle")
  BY <1>1, <1>3 DEF Places, At
<1>5. sender'[g].at = place /\ \A h \in Senders \ {g} : sender'[h] = sender[h]
  BY <1>3, <1>4, Moves
<1>6. Locking'
  <2>1. Locked(g)' /\ Locked(g) /\ \A h \in Senders \ {g} : Locked(h)' <=> Locked(h)
    BY <1>1, <1>5 DEF Locked, At
  <2> QED BY <1>1, <1>2, <2>1 DEF OrderInv, Locking
<1>7. Numbered = <<MessageOf(g)>> /\ Numbered' = <<>>
  BY <1>1, <1>2, <1>5 DEF Numbered, At
<1>8. Hand' = Hand /\ HandTyped'
  BY <1>1 DEF Hand, OrderInv, HandTyped
<1>9. Pipe' = Pipe
  <2>1. Hand \in Seq(Event) /\ items \in Seq(Event) /\ Numbered \in Seq(Event)
    BY PipeTyped DEF RoomInv
  <2>2. MessageOf(g) \in Event
    BY <1>7, <2>1
  <2>3. items' = items \o Numbered /\ items' \in Seq(Event)
    BY <1>1, <1>7, <2>1, <2>2, AppendIsConcat, AppendProperties
  <2>4. Pipe = Hand \o (items \o Numbered)
    BY <2>1, ConcatAssociative DEF Pipe
  <2>5. Hand \o items' \in Seq(Event)
    BY <2>1, <2>3, ConcatProperties
  <2>6. Pipe' = (Hand \o items') \o <<>>
    BY <1>7, <1>8 DEF Pipe
  <2> QED BY <2>3, <2>4, <2>5, <2>6, ConcatEmptySeq
<1> QED BY <1>1, <1>6, <1>8, <1>9, OrderKept

\* The pump is told, and sendMu is free again.
LEMMA OrderPushSignals ==
  ASSUME RoomInv, OrderInv, NEW g \in Senders, pushSignals(g)
  PROVE  OrderInv'
<1>1. /\ At(g, "signal") \/ At(g, "signalFull")
      /\ sendMu' = Nobody /\ UNCHANGED <<items, wire, log, pump, inHand>>
  BY DEF pushSignals, pumpVars
<1>2. sendMu = g
  BY <1>1 DEF At, OrderInv, Locking, Locked
<1>3. sender'[g].at \in {"hold", "idle"} /\ \A h \in Senders \ {g} : sender'[h] = sender[h]
  <2>1. CASE At(g, "signalFull")
    <3>1. Goes(g, "hold") /\ ~At(g, "idle") /\ "hold" \in Places
      BY <2>1 DEF pushSignals, At, Places
    <3> QED BY <3>1, Moves
  <2>2. CASE ~At(g, "signalFull")
    <3>1. Done(g)
      BY <2>2 DEF pushSignals
    <3> QED BY <3>1, Finishes
  <2> QED BY <2>1, <2>2
<1>4. Locking'
  <2>1. \A h \in Senders : ~Locked(h)'
    BY <1>2, <1>3 DEF OrderInv, Locking, Locked
  <2>2. Nobody \notin Senders
    BY OutboxAssumption DEF Nobody
  <2> QED BY <1>1, <2>1, <2>2 DEF Locking
<1>5. Numbered = <<>> /\ Numbered' = <<>>
  <2>1. Nobody \notin Senders
    BY OutboxAssumption DEF Nobody
  <2> QED BY <1>1, <1>2, <2>1 DEF Numbered, At
<1>6. Hand' = Hand /\ HandTyped'
  BY <1>1 DEF Hand, OrderInv, HandTyped
<1>7. Pipe' = Pipe
  BY <1>1, <1>5, <1>6 DEF Pipe
<1> QED BY <1>1, <1>4, <1>6, <1>7, OrderKept

\* The pump takes the oldest queued message: it stays in the pipe, at its head.
LEMMA OrderTake ==
  ASSUME RoomInv, OrderInv, takeItem
  PROVE  OrderInv'
<1>1. /\ pump = "take" /\ pump' = "hand" /\ items # <<>> /\ items' = Tail(items)
      /\ inHand' = Head(items) /\ UNCHANGED <<sendMu, wire, log>>
      /\ MakeRoom \/ UNCHANGED sender
  BY DEF takeItem
<1>2. Hand = <<>> /\ items \in Seq(Event) /\ Numbered \in Seq(Event) /\ Pipe \in Seq(Event)
  BY <1>1, PipeTyped DEF Hand, RoomInv
<1>3. Pipe = items \o Numbered
  BY <1>2, ConcatEmptySeq DEF Pipe
<1>4. Head(items) \in Event /\ Head(items) # Reply
  <2>1. Head(items) = items[1] /\ 1 \in DOMAIN items /\ Len(items) \in Nat /\ Len(items) >= 1
    BY <1>1, <1>2
  <2>2. items[1] \in Event
    BY <1>2, <2>1
  <2>3. Pipe[1] = items[1] /\ 1 \in DOMAIN Pipe
    BY <1>2, <1>3, <2>1, ConcatProperties
  <2>4. items[1].run \in Runs
    BY <2>2 DEF Event
  <2>5. Pipe[1].seq >= 1
    BY <2>3, <2>4 DEF OrderInv, PipeInOrder, InOrder
  <2> QED BY <2>1, <2>2, <2>3, <2>5 DEF Reply
<1>5. Hand' = <<Head(items)>> /\ HandTyped'
  BY <1>1, <1>4 DEF Hand, HandTyped
<1>6. \A g \in Senders : (Locked(g) => sender'[g] = sender[g]) /\ (~Locked(g) => ~Locked(g)')
  <2>1. CASE UNCHANGED sender
    BY <2>1 DEF Locked
  <2>2. CASE MakeRoom
    <3> SUFFICES ASSUME NEW g \in Senders
                 PROVE  (Locked(g) => sender'[g] = sender[g]) /\ (~Locked(g) => ~Locked(g)')
      OBVIOUS
    <3>1. CASE At(g, "wait")
      <4>1. sender[g] \in Busy
        BY <3>1 DEF RoomInv, Forwarder, At, Idle
      <4>2. sender'[g] = [sender[g] EXCEPT !.at = "room"]
        BY <2>2, <3>1 DEF MakeRoom
      <4>3. sender'[g].at = "room"
        BY <4>1, <4>2 DEF Busy
      <4> QED BY <3>1, <4>3 DEF Locked, At
    <3>2. CASE ~At(g, "wait")
      <4>1. sender'[g] = sender[g]
        BY <2>2, <3>2 DEF MakeRoom
      <4> QED BY <4>1 DEF Locked
    <3> QED BY <3>1, <3>2
  <2> QED BY <1>1, <2>1, <2>2
<1>7. Locking'
  BY <1>1, <1>6 DEF OrderInv, Locking, Locked
<1>8. Numbered' = Numbered
  <2>1. CASE sendMu \in Senders
    <3>1. sender'[sendMu] = sender[sendMu]
      BY <1>6, <2>1 DEF OrderInv, Locking
    <3> QED BY <1>1, <3>1 DEF Numbered, At, MessageOf
  <2>2. CASE sendMu \notin Senders
    BY <1>1, <2>2 DEF Numbered
  <2> QED BY <2>1, <2>2
<1>9. Pipe' = Pipe
  <2>1. <<Head(items)>> \o Tail(items) = items
    BY <1>1, <1>2
  <2>2. Pipe' = (<<Head(items)>> \o Tail(items)) \o Numbered
    BY <1>1, <1>5, <1>8 DEF Pipe
  <2> QED BY <1>3, <2>1, <2>2
<1> QED BY <1>1, <1>5, <1>7, <1>9, OrderKept

\* The write loop takes the oldest message. What it then has on the wire follows what it had.
LEMMA OrderHandOn ==
  ASSUME RoomInv, OrderInv, HandOn, inHand # Reply
  PROVE  /\ OrderInv'
         /\ inHand.run \in Runs /\ \A r \in Runs \ {inHand.run} : wire'[r] = wire[r]
         /\ LET w == wire[inHand.run]  v == wire'[inHand.run] IN
            (v.exec = w.exec /\ v.seq = w.seq + 1) \/ (v.exec > w.exec /\ v.seq = 1)
<1> DEFINE r == inHand.run
<1>1. /\ pump = "hand" /\ pump' = "handed" /\ UNCHANGED <<items, inHand, sender, sendMu, log>>
      /\ wire' = [wire EXCEPT ![r] = PlaceOf(inHand)]
  BY DEF HandOn, queueVars, PlaceOf
<1>2. inHand \in Event /\ r \in Runs /\ inHand.exec \in Nat /\ inHand.seq \in Nat
  BY <1>1 DEF OrderInv, HandTyped, Event
<1>3. Hand = <<inHand>> /\ Hand' = <<>> /\ HandTyped' /\ Numbered' = Numbered /\ Locking'
  BY <1>1 DEF Hand, HandTyped, Numbered, At, MessageOf, OrderInv, Locking, Locked
<1>4. items \o Numbered \in Seq(Event) /\ Pipe \in Seq(Event)
  BY PipeTyped, ConcatProperties DEF RoomInv
<1>5. Pipe = <<inHand>> \o (items \o Numbered) /\ Pipe' = items \o Numbered
  <2>1. items \in Seq(Event) /\ Numbered \in Seq(Event) /\ <<inHand>> \in Seq(Event)
    BY <1>2, PipeTyped DEF RoomInv
  <2>2. Pipe = <<inHand>> \o (items \o Numbered)
    BY <1>3, <2>1, ConcatAssociative DEF Pipe
  <2>3. Pipe' = (<<>> \o items) \o Numbered
    BY <1>1, <1>3 DEF Pipe
  <2> QED BY <2>1, <2>2, <2>3, ConcatEmptySeq
<1>6. Pipe # <<>> /\ Head(Pipe) = inHand /\ Tail(Pipe) = Pipe'
  <2> DEFINE rest == items \o Numbered
  <2>1. rest \in Seq(Event) /\ Pipe = <<inHand>> \o rest
    BY <1>4, <1>5
  <2> HIDE DEF rest
  <2>2. Pipe # <<>> /\ Head(Pipe) = inHand /\ Tail(Pipe) = rest
    BY <1>2, <2>1
  <2> QED BY <1>5, <2>2 DEF rest
<1>7. \A q \in Runs : log[q] \in StreamPlace /\ wire[q] \in StreamPlace /\ InOrder(Pipe, q, wire[q], log[q])
  BY DEF RoomInv, OrderInv, WireTyped, StreamPlace, PipeInOrder
<1>8. wire'[r] = PlaceOf(inHand) /\ \A q \in Runs \ {r} : wire'[q] = wire[q]
  BY <1>1, <1>2 DEF OrderInv, WireTyped
<1>9. WireTyped'
  BY <1>1, <1>2 DEF OrderInv, WireTyped, StreamPlace, PlaceOf
<1>10. /\ InOrder(Tail(Pipe), r, PlaceOf(inHand), log[r])
       /\ \/ inHand.exec = wire[r].exec /\ inHand.seq = wire[r].seq + 1
          \/ inHand.exec > wire[r].exec /\ inHand.seq = 1
  BY <1>2, <1>4, <1>6, <1>7, OrderHead
<1>11. ASSUME NEW q \in Runs PROVE InOrder(Tail(Pipe), q, wire'[q], log[q])
  <2>1. CASE q = r
    BY <1>8, <1>10, <2>1
  <2>2. CASE q # r
    <3>1. InOrder(Tail(Pipe), q, wire[q], log[q])
      BY <1>4, <1>6, <1>7, <2>2, OrderHeadOther
    <3> QED BY <1>8, <2>2, <3>1
  <2> QED BY <2>1, <2>2
<1>12. PipeInOrder'
  BY <1>1, <1>6, <1>11 DEF PipeInOrder
<1>13. OrderInv'
  BY <1>3, <1>9, <1>12 DEF OrderInv
<1>14. wire'[r].exec = inHand.exec /\ wire'[r].seq = inHand.seq
  BY <1>8 DEF PlaceOf
<1> QED BY <1>2, <1>8, <1>10, <1>13, <1>14

\* The steps of the pump that move no event.
LEMMA OrderPumpIdles ==
  ASSUME RoomInv, OrderInv,
         \/ takeReply \/ takeNothing \/ takeWakes \/ handed \/ PumpReleases
         \/ HandOn /\ inHand = Reply
  PROVE  OrderInv' /\ wire' = wire
<1>1. UNCHANGED <<items, sender, sendMu, wire, log>>
  BY DEF takeReply, takeNothing, takeWakes, handed, PumpReleases, HandOn, queueVars
<1>2. Hand = <<>> /\ Hand' = <<>> /\ HandTyped'
  BY DEF takeReply, takeNothing, takeWakes, handed, PumpReleases, HandOn, Hand, HandTyped
<1> QED BY <1>1, <1>2, OrderUntouched DEF Locked

\* Only the hand-off to the write loop changes what is on the wire.
LEMMA OthersKeepWire ==
  ASSUME Next, ~HandOn
  PROVE  wire' = wire
<1>1. ASSUME NEW r \in Runs, RunStep(r) PROVE wire' = wire
  BY <1>1 DEF RunStep, RunStarts, RequestStarts, RunEnds, pumpVars
<1>2. ASSUME NEW g \in Senders, SenderStep(g) PROVE wire' = wire
  BY <1>2 DEF SenderStep, EventComes, LooksAgain, stamp, push, pushSignals, MustHold, holdScans,
     recheck, SenderReleases, pumpVars
<1>3. ASSUME NEW g \in Repliers, ReplyStep(g) PROVE wire' = wire
  BY <1>3 DEF ReplyStep, pushReply, ReplySignals, pumpVars
<1>4. ASSUME PumpStep PROVE wire' = wire
  BY <1>4 DEF PumpStep, takeReply, takeItem, takeNothing, takeWakes, handed, PumpReleases
<1> QED BY <1>1, <1>2, <1>3, <1>4 DEF Next

\* Every step keeps the order.
LEMMA OrderStep ==
  ASSUME RoomInv, OrderInv, [Next]_vars
  PROVE  OrderInv'
<1>1. CASE UNCHANGED vars
  <2>1. UNCHANGED <<items, sender, sendMu, wire, log, pump, inHand>>
    BY <1>1 DEF vars, queueVars, pumpVars
  <2>2. Hand' = Hand /\ HandTyped'
    BY <2>1 DEF Hand, OrderInv, HandTyped
  <2> QED BY <2>1, <2>2, OrderUntouched DEF Locked
<1>2. ASSUME NEW r \in Runs, RunStep(r) PROVE OrderInv'
  <2>1. CASE RunStarts(r)
    BY <2>1, OrderRunStarts
  <2>2. CASE RequestStarts(r) \/ RunEnds(r)
    <3>1. UNCHANGED <<items, sender, sendMu, wire, log, pump, inHand>>
      BY <2>2 DEF RequestStarts, RunEnds, queueVars, pumpVars
    <3>2. Hand' = Hand /\ HandTyped'
      BY <3>1 DEF Hand, OrderInv, HandTyped
    <3> QED BY <3>1, <3>2, OrderUntouched DEF Locked
  <2> QED BY <1>2, <2>1, <2>2 DEF RunStep
<1>3. ASSUME NEW g \in Senders, SenderStep(g) PROVE OrderInv'
  <2>1. CASE stamp(g) /\ ~IsLate(g)
    BY <2>1, OrderStamp
  <2>2. CASE push(g)
    BY <2>2, OrderPush
  <2>3. CASE pushSignals(g)
    BY <2>3, OrderPushSignals
  <2> QED BY <1>3, <2>1, <2>2, <2>3, OrderForwarders DEF SenderStep
<1>4. ASSUME NEW g \in Repliers, ReplyStep(g) PROVE OrderInv'
  <2>1. UNCHANGED <<items, sender, sendMu, wire, log, pump, inHand>>
    BY <1>4 DEF ReplyStep, pushReply, ReplySignals, pumpVars
  <2>2. Hand' = Hand /\ HandTyped'
    BY <2>1 DEF Hand, OrderInv, HandTyped
  <2> QED BY <2>1, <2>2, OrderUntouched DEF Locked
<1>5. ASSUME PumpStep PROVE OrderInv'
  <2>1. CASE takeItem
    BY <2>1, OrderTake
  <2>2. CASE HandOn /\ inHand # Reply
    BY <2>2, OrderHandOn
  <2> QED BY <1>5, <2>1, <2>2, OrderPumpIdles DEF PumpStep
<1> QED BY <1>1, <1>2, <1>3, <1>4, <1>5 DEF Next

\* At the start there is no message.
LEMMA OrderInit ==
  ASSUME Init
  PROVE  OrderInv
<1>1. Locking
  BY OutboxAssumption DEF Init, Locking, Locked, Idle, Nobody
<1>2. HandTyped /\ WireTyped
  BY DEF Init, HandTyped, WireTyped, StreamPlace
<1>3. Hand = <<>> /\ Numbered = <<>> /\ items = <<>>
  BY OutboxAssumption DEF Init, Hand, Numbered
<1>4. Pipe = <<>>
  BY <1>3, ConcatEmptySeq DEF Pipe
<1>5. ASSUME NEW r \in Runs PROVE InOrder(<<>>, r, wire[r], log[r])
  <2>1. wire[r] = [exec |-> 0, seq |-> 0] /\ log[r] = [exec |-> 0, seq |-> 0]
    BY DEF Init
  <2>2. DOMAIN <<>> = {}
    OBVIOUS
  <2> QED BY <2>1, <2>2 DEF InOrder, Before
<1> QED BY <1>1, <1>2, <1>4, <1>5 DEF OrderInv, PipeInOrder

\* A run's events reach the wire in the order of their numbers and without a gap, and those of an
\* earlier execution never after a later one's (OrderedOnWire): sendMu is held from the number to the
\* queue (agent_dispatcher.go, queueEvent), so the queue is in the order of the numbers.
THEOREM WireIsInOrder == Spec => OrderedOnWire
<1>1. Init => RoomInv /\ OrderInv
  BY RoomInit, OrderInit
<1>2. RoomInv /\ OrderInv /\ [Next]_vars => (RoomInv /\ OrderInv)'
  BY RoomStep, OrderStep
<1>3. RoomInv /\ OrderInv /\ [Next]_vars =>
        [\A r \in Runs : wire'[r] # wire[r] =>
           \/ wire'[r].exec = wire[r].exec /\ wire'[r].seq = wire[r].seq + 1
           \/ wire'[r].exec > wire[r].exec /\ wire'[r].seq = 1]_wire
  <2> SUFFICES ASSUME RoomInv, OrderInv, Next, NEW r \in Runs, wire'[r] # wire[r]
               PROVE  \/ wire'[r].exec = wire[r].exec /\ wire'[r].seq = wire[r].seq + 1
                      \/ wire'[r].exec > wire[r].exec /\ wire'[r].seq = 1
    BY DEF vars, pumpVars
  <2>1. HandOn
    BY OthersKeepWire
  <2>2. inHand # Reply
    BY <2>1 DEF HandOn
  <2> QED BY <2>1, <2>2, OrderHandOn
<1> QED BY <1>1, <1>2, <1>3, PTL DEF Spec, OrderedOnWire

=============================================================================
