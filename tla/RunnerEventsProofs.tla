------------------------- MODULE RunnerEventsProofs -------------------------
(***************************************************************************)
(* Theorems about the results of one execution, for every value of the     *)
(* constants: the statistics a run ends with, what its completion means,   *)
(* and which checkpoints its subscriber may come to see.                   *)
(***************************************************************************)
EXTENDS RunnerEvents, SequenceTheorems, WellFoundedInduction, TLAPS

----------------------------------------------------------------------------
(* The inductive invariant.                                                *)

Items == [type : {"result", "checkpoint", "complete", "error"}, at : Int, n : Int]

BeforeEnd == {"init", "next", "fuzz"}
AtEnd == {"close", "drain", "report", "over"}

EngineTypes ==
  /\ main \in BeforeEnd \cup {"finalise", "seal"} \cup AtEnd
  /\ target \in Nat \ {0} /\ pr \in Nat /\ ce \in Nat /\ next \in 1..NumIterations + 1
  /\ worker \in [Iterations -> {"none", "running", "sending", "handed", "gone"}]
  /\ gate \in {"open", "stopping", "sealed", "done"}
  /\ pipe \in Seq(Work) /\ counted \subseteq Work

BusTypes == queue \in Seq(Items) /\ batch \in Seq(Items) /\ sub \in Seq(Items)

\* The results the aggregator has, or will come to; and those of workers that are to stream them.
InPipe == {pipe[j] : j \in 1..Len(pipe)}
Covered == counted \cup InPipe
HandedAt == {<<Pos(pr, ce), i>> : i \in {j \in Iterations : worker[j] = "handed"}}

\* Workers are those of the position shown, which is the target.
Placed ==
  /\ main = "fuzz" \/ Live # {} => Pos(pr, ce) = target /\ target \in Positions
  /\ main \in {"init", "next"} => Live = {}

\* The pipe is sealed when nobody sends, done when it is empty, and the run ends once it is done.
Gated ==
  /\ gate = "done" => pipe = <<>>
  /\ gate \in {"sealed", "done"} => NoSender
  /\ main \in BeforeEnd \cup {"finalise"} => gate = "open"
  /\ main \in AtEnd /\ "startFails" \notin happened => gate = "done"

\* What was streamed, or is about to be, is counted or in the pipe.
Whole == Results(queue) \cup HandedAt \subseteq Covered

\* Nothing has broken the run off.
Sound == ~Stopped /\ ~Panicked
Before(k) == {w \in Work : w[1] < k}

\* A position is entered when those before it are covered; in it, the iterations started are
\* covered or with a worker; and the loops are left when everything is covered.
InOrder ==
  /\ (main \in {"init", "next"} /\ Sound) \/ main = "fuzz" \/ Live # {} => Before(target) \subseteq Covered
  /\ main \in BeforeEnd /\ Sound =>
       \A w \in Work : w[1] = target /\ w[2] < next =>
         w \in Covered \/ (main = "fuzz" /\ worker[w[2]] \in {"running", "sending"})
  /\ main \notin BeforeEnd /\ Sound /\ "startFails" \notin happened => Work \subseteq Covered

\* The pipe keeps that order, so the watermark's position comes after all that is counted.
Fifo ==
  /\ \A j \in 1..Len(pipe) : \A w \in Before(pipe[j][1]) : w \in counted \/ \E l \in 1..j - 1 : pipe[l] = w
  /\ Before(mark.at) \subseteq counted

\* The watermark is one of iterations of its position that were counted.
Marked ==
  /\ mark.at \in Int /\ mark.done \subseteq Iterations /\ mark.n \in 0..NumIterations
  /\ 1..mark.n \subseteq mark.done
  /\ \A i \in mark.done : <<mark.at, i>> \in counted

Core == EngineTypes /\ Placed /\ Gated /\ Whole /\ InOrder /\ Fifo /\ Marked

\* A subscriber that missed an event is never again one that did not.
LagRemembered == missed => lag # "none"

----------------------------------------------------------------------------
(* Lemmas about the helpers.                                               *)

LEMMA Bounds ==
  /\ {NumProfiles, NumEndpoints, NumIterations, Slots, PipeCap, SubCap, CheckEvery} \subseteq Nat \ {0}
  /\ NumProfiles * NumEndpoints \in Nat
  /\ \A k \in Positions : k \in Nat \ {0}
  /\ \A i \in Iterations : i \in Nat \ {0} /\ i <= NumIterations
BY RunnerEventsAssumption DEF RunnerEventsAssumption, Positions, Iterations

LEMMA PosIsInt == ASSUME NEW p \in Nat, NEW e \in Nat PROVE Pos(p, e) \in Int
<1>1. NumEndpoints \in Nat BY Bounds
<1> QED BY <1>1 DEF Pos

LEMMA QuotientAndRest ==
  ASSUME NEW a \in Nat, NEW b \in Nat \ {0}
  PROVE  a \div b \in Nat /\ a % b \in Nat /\ (a \div b) * b = a - (a % b)
<1>1. a % b = a - b * (a \div b) OBVIOUS
<1>2. a \div b \in Nat /\ a % b \in Nat OBVIOUS
<1> DEFINE q == a \div b
           r == a % b
<1>3. q \in Nat /\ r \in Nat /\ r = a - b * q BY <1>1, <1>2
<1> HIDE DEF q, r
<1>4. q * b = a - r BY <1>3
<1> QED BY <1>2, <1>4 DEF q, r

\* The profile and the endpoint of a position are its own.
LEMMA PosOfPosition ==
  ASSUME NEW k \in Nat \ {0}
  PROVE  ProfileOf(k) \in Nat /\ EndpointOf(k) \in Nat /\ Pos(ProfileOf(k), EndpointOf(k)) = k
<1>1. NumEndpoints \in Nat \ {0} BY Bounds
<1>3. k - 1 \in Nat OBVIOUS
<1> DEFINE q == (k - 1) \div NumEndpoints
           r == (k - 1) % NumEndpoints
<1>4. q \in Nat /\ r \in Nat /\ q * NumEndpoints = (k - 1) - r
  BY <1>1, <1>3, QuotientAndRest
<1> HIDE DEF q, r
<1>5. (q + 1) - 1 = q /\ q * NumEndpoints \in Nat BY <1>1, <1>4
<1>6. ((q + 1) - 1) * NumEndpoints + (r + 1) = k BY <1>4, <1>5
<1>7. ProfileOf(k) = q + 1 /\ EndpointOf(k) = r + 1 BY DEF ProfileOf, EndpointOf, q, r
<1> QED BY <1>4, <1>6, <1>7 DEF Pos

\* iterationWatermark: there is a highest N with 1..N done, and everything up to it is done.
LEMMA ContiguousIsDone ==
  ASSUME NEW done, done \subseteq Iterations
  PROVE  Contiguous(done) \in 0..NumIterations /\ 1..Contiguous(done) \subseteq done
<1> DEFINE T == (Nat \ {0}) \ done
<1>1. NumIterations \in Nat /\ NumIterations + 1 \in T BY Bounds DEF Iterations
<1>2. PICK m \in T : \A x \in T : ~(<<x, m>> \in OpToRel(<, Nat))
  <2>1. T \subseteq Nat /\ T # {} BY <1>1
  <2> QED BY <2>1, NatLessThanWellFounded, WFMin
<1>3. \A x \in T : m <= x
  <2> TAKE x \in T
  <2>1. ~(x < m) BY <1>2 DEF OpToRel
  <2> QED BY <2>1
<1>4. m - 1 \in 0..NumIterations /\ (1..m - 1) \subseteq done /\ (m - 1) + 1 \notin done
  BY <1>1, <1>3
<1>5. \E n \in 0..NumIterations : (1..n) \subseteq done /\ n + 1 \notin done BY <1>4
<1> QED BY <1>5 DEF Contiguous

\* One more event, of which kind.
LEMMA ResultsOfAppend ==
  ASSUME NEW q \in Seq(Items), NEW e \in Items
  PROVE  /\ Append(q, e) \in Seq(Items)
         /\ Results(Append(q, e)) = Results(q) \cup (IF e.type = "result" THEN {<<e.at, e.n>>} ELSE {})
         /\ Checkpoints(Append(q, e)) = Checkpoints(q) \cup (IF e.type = "checkpoint" THEN {e} ELSE {})
<1>1. /\ Append(q, e) \in Seq(Items) /\ Len(Append(q, e)) = Len(q) + 1 /\ Append(q, e)[Len(q) + 1] = e
      /\ \A i \in 1..Len(q) : Append(q, e)[i] = q[i]
  BY AppendProperties
<1>2. DOMAIN Append(q, e) = 1..Len(q) + 1 /\ DOMAIN q = 1..Len(q) /\ Len(q) \in Nat
  BY <1>1, LenProperties
<1> HIDE DEF Items
<1>3. Results(Append(q, e)) = Results(q) \cup (IF e.type = "result" THEN {<<e.at, e.n>>} ELSE {})
  BY <1>1, <1>2 DEF Results
<1>4. Checkpoints(Append(q, e)) = Checkpoints(q) \cup (IF e.type = "checkpoint" THEN {e} ELSE {})
  BY <1>1, <1>2 DEF Checkpoints
<1> QED BY <1>1, <1>3, <1>4

LEMMA CheckpointsOfTail ==
  ASSUME NEW q \in Seq(Items), q # <<>>
  PROVE  Tail(q) \in Seq(Items) /\ Head(q) \in Items /\ Checkpoints(Tail(q)) \subseteq Checkpoints(q)
<1>1. Len(q) \in Nat \ {0} /\ DOMAIN q = 1..Len(q) BY LenProperties, EmptySeq
<1>2. /\ Head(q) \in Items /\ Tail(q) \in Seq(Items) /\ Len(Tail(q)) = Len(q) - 1
      /\ \A i \in 1..Len(Tail(q)) : Tail(q)[i] = q[i + 1]
  BY HeadTailProperties
<1>3. DOMAIN Tail(q) = 1..Len(q) - 1 BY <1>2, LenProperties
<1>4. \A i \in DOMAIN Tail(q) : i + 1 \in DOMAIN q /\ Tail(q)[i] = q[i + 1] BY <1>1, <1>2, <1>3
<1> QED BY <1>2, <1>4 DEF Checkpoints

----------------------------------------------------------------------------
(* The parts of the invariant that a step leaves alone.                    *)

\* The statistics and the queue untouched: the order in the pipe and the watermark are as before.
LEMMA StatsStay ==
  ASSUME Core, UNCHANGED <<statsVars, queue>>
  PROVE  /\ Fifo' /\ Marked' /\ Covered' = Covered /\ Results(queue') = Results(queue)
         /\ UNCHANGED <<pipe, gate, counted>>
BY DEF Core, statsVars, Fifo, Marked, Covered, InPipe, Before

\* Without a live worker none is about to stream a result.
LEMMA NoneHanded == ASSUME Live = {} PROVE HandedAt = {} /\ NoSender
BY DEF Live, HandedAt, NoSender

\* The engine and the statistics untouched, no result streamed, no new result in the queue.
LEMMA CoreStays ==
  ASSUME Core, UNCHANGED <<target, pr, ce, next, worker, pipe, counted, mark>>,
         EngineTypes', Gated', happened \subseteq happened', Results(queue') \subseteq Results(queue),
         main' = main \/ (main \notin BeforeEnd /\ main' \notin BeforeEnd)
  PROVE  Core'
<1>1. Live' = Live /\ Covered' = Covered /\ HandedAt' = HandedAt
  BY DEF Live, Covered, InPipe, HandedAt
<1>2. Sound' => Sound BY DEF Sound, Stopped, Panicked
<1>3. Placed' BY <1>1 DEF Core, Placed, BeforeEnd
<1>4. Whole' BY <1>1 DEF Core, Whole
<1>5. InOrder' BY <1>1, <1>2 DEF Core, InOrder, BeforeEnd, Before
<1>6. Fifo' /\ Marked' BY DEF Core, Fifo, Marked, Before
<1> QED BY <1>3, <1>4, <1>5, <1>6 DEF Core

----------------------------------------------------------------------------
(* The engine.                                                             *)

LEMMA EngineInitially == ASSUME EventsInit PROVE Core /\ BusTypes /\ LagRemembered
<1>1. PICK r \in {<<1, 0>>} \cup Resumes :
        target = r[1] /\ next = r[2] + 1 /\ counted = SkippedBy(r[1], r[2])
  BY DEF EventsInit
<1>2. r[1] \in Positions /\ r[2] \in 0..NumIterations
  <2>1. 1 \in Positions /\ 0 \in 0..NumIterations
    <3>1. \A a \in Nat \ {0}, b \in Nat \ {0} : a * b >= 1 /\ a * b \in Nat OBVIOUS
    <3>2. NumProfiles * NumEndpoints >= 1 /\ NumProfiles * NumEndpoints \in Nat /\ NumIterations \in Nat
      BY <3>1, Bounds
    <3> QED BY <3>2 DEF Positions
  <2>2. ASSUME r \in Resumes PROVE r[1] \in Positions /\ r[2] \in 0..NumIterations
    BY <2>2, RunnerEventsAssumption DEF RunnerEventsAssumption, Positions
  <2> QED BY <1>1, <2>1, <2>2
<1>3. /\ main = "init" /\ pr = 0 /\ ce = 0 /\ worker = [i \in Iterations |-> "none"]
      /\ pipe = <<>> /\ gate = "open" /\ mark = [at |-> 0, done |-> {}, n |-> 0]
      /\ queue = <<>> /\ batch = <<>> /\ sub = <<>> /\ missed = FALSE
  BY DEF EventsInit
<1>4. EngineTypes
  <2>1. target \in Nat \ {0} /\ next \in 1..NumIterations + 1 BY <1>1, <1>2, Bounds
  <2>2. counted \subseteq Work BY <1>1 DEF SkippedBy
  <2> QED BY <1>3, <2>1, <2>2 DEF EngineTypes, BeforeEnd
<1>5. Live = {} BY <1>3 DEF Live
<1>6. HandedAt = {} BY <1>5, NoneHanded
<1>7. Results(queue) = {} BY <1>3 DEF Results
<1>8. InOrder
  <2>1. Before(target) \subseteq counted BY <1>1 DEF SkippedBy, Before
  <2>2. \A w \in Work : w[1] = target /\ w[2] < next => w \in counted
    BY <1>1, <1>2 DEF SkippedBy, Work, Iterations
  <2> QED BY <1>3, <2>1, <2>2 DEF InOrder, BeforeEnd, Covered
<1>9. Fifo
  <2>1. Before(0) = {} BY Bounds DEF Before, Work
  <2> QED BY <1>3, <2>1 DEF Fifo
<1>10. Marked BY <1>3, Bounds DEF Marked
<1> QED BY <1>3, <1>4, <1>5, <1>6, <1>7, <1>8, <1>9, <1>10
       DEF Core, BusTypes, LagRemembered, Placed, Gated, Whole, BeforeEnd, AtEnd, NoSender

\* Start, and the loop over the profiles: no worker is live.
LEMMA LoopsGoOn ==
  ASSUME Core, StartRun \/ NextProfile \/ SkipProfile PROVE Core'
<1>0. UNCHANGED <<statsVars, queue, worker, next, happened>> /\ main \in {"init", "next"} /\ main' = "next"
  BY DEF StartRun, NextProfile, SkipProfile, engineVars
<1>1. /\ Fifo' /\ Marked' /\ Covered' = Covered /\ Results(queue') = Results(queue)
      /\ UNCHANGED <<pipe, gate, counted>>
  BY <1>0, StatsStay
<1>2. Live = {} /\ Live' = {} BY <1>0 DEF Core, Placed, Live
<1>3. HandedAt' = {} BY <1>2 DEF Live, HandedAt
<1>4. EngineTypes'
  <2>1. target' \in Nat \ {0} /\ pr' \in Nat /\ ce' \in Nat
    <3>1. CASE StartRun BY <3>1 DEF StartRun, Core, EngineTypes
    <3>2. CASE NextProfile BY <3>2, PosOfPosition DEF NextProfile, Core, EngineTypes
    <3>3. CASE SkipProfile
      <4>1. Pos(pr + 1, 1) \in Nat \ {0}
        <5>1. NumEndpoints \in Nat /\ pr \in Nat BY Bounds DEF Core, EngineTypes
        <5>2. \A a \in Nat, b \in Nat : ((a + 1) - 1) * b + 1 \in Nat \ {0}
          <6> TAKE a \in Nat, b \in Nat
          <6>1. (a + 1) - 1 = a /\ a * b \in Nat OBVIOUS
          <6> QED BY <6>1
        <5> QED BY <5>1, <5>2 DEF Pos
      <4> QED BY <3>3, <4>1 DEF SkipProfile, Core, EngineTypes
    <3> QED BY <3>1, <3>2, <3>3
  <2> QED BY <1>0, <1>1, <2>1 DEF Core, EngineTypes, BeforeEnd
<1>5. InOrder'
  <2>1. CASE SkipProfile
    \* Only a panic cancels the run there without stopping it.
    <3>1. ~Sound /\ ~Sound'
      BY <2>1 DEF SkipProfile, Cancelled, Sound, Stopped, Panicked
    <3> QED BY <1>0, <1>2, <3>1 DEF InOrder, BeforeEnd
  <2>2. CASE StartRun \/ NextProfile
    <3>1. target' = target BY <2>2 DEF StartRun, NextProfile
    <3> QED BY <1>0, <1>1, <1>2, <3>1 DEF Core, InOrder, BeforeEnd, Before, Sound, Stopped, Panicked
  <2> QED BY <2>1, <2>2
<1> QED BY <1>0, <1>1, <1>2, <1>3, <1>4, <1>5 DEF Core, Placed, Gated, Whole, BeforeEnd, AtEnd, NoSender

\* A position is entered only by a run that nothing has broken off: those before it are covered.
LEMMA PositionEntered == ASSUME Core, EnterEndpoint PROVE Core'
<1>0. /\ UNCHANGED <<statsVars, queue, target, pr, next, happened>> /\ main = "next" /\ main' = "fuzz"
      /\ target \in Positions /\ ~Cancelled /\ pr = ProfileOf(target) /\ ce' = EndpointOf(target)
      /\ worker' = [i \in Iterations |-> "none"]
  BY DEF EnterEndpoint
<1>1. /\ Fifo' /\ Marked' /\ Covered' = Covered /\ Results(queue') = Results(queue)
      /\ UNCHANGED <<pipe, gate, counted>>
  BY <1>0, StatsStay
<1>2. Live' = {} /\ HandedAt' = {} BY <1>0 DEF Live, HandedAt
<1>3. ce' \in Nat /\ Pos(pr', ce') = target' BY <1>0, PosOfPosition, Bounds
<1>4. EngineTypes' BY <1>0, <1>1, <1>3 DEF Core, EngineTypes, BeforeEnd
<1>5. InOrder' BY <1>0, <1>1 DEF Core, InOrder, BeforeEnd, Before, Sound, Cancelled
<1> QED BY <1>0, <1>1, <1>2, <1>3, <1>4, <1>5 DEF Core, Placed, Gated, Whole, BeforeEnd, AtEnd, NoSender

LEMMA WorkerStarted == ASSUME Core, StartWorker PROVE Core'
<1>0. /\ UNCHANGED <<statsVars, queue, main, target, pr, ce, happened>> /\ main = "fuzz" /\ next \in Iterations
      /\ worker' = [worker EXCEPT ![next] = "running"] /\ next' = next + 1
  BY DEF StartWorker
<1>1. /\ Fifo' /\ Marked' /\ Covered' = Covered /\ Results(queue') = Results(queue)
      /\ UNCHANGED <<pipe, gate, counted>>
  BY <1>0, StatsStay
<1>2. HandedAt' \subseteq HandedAt BY <1>0 DEF Core, EngineTypes, HandedAt
<1>3. EngineTypes'
  <2>1. next' \in 1..NumIterations + 1 BY <1>0, Bounds
  <2> QED BY <1>0, <1>1, <2>1 DEF Core, EngineTypes
<1>4. InOrder'
  <2>1. ASSUME NEW w \in Work, w[1] = target, w[2] < next', Sound
        PROVE  w \in Covered \/ worker'[w[2]] \in {"running", "sending"}
    <3>0. w[2] \in Iterations /\ w[2] \in Nat /\ next \in Nat BY <1>0, Bounds DEF Work
    <3>1. CASE w[2] < next
      BY <1>0, <2>1, <3>0, <3>1 DEF Core, EngineTypes, InOrder, BeforeEnd
    <3>2. CASE w[2] = next
      BY <1>0, <3>0, <3>2 DEF Core, EngineTypes
    <3> QED BY <1>0, <2>1, <3>0, <3>1, <3>2
  <2> QED BY <1>0, <1>1, <2>1 DEF Core, InOrder, BeforeEnd, Before, Sound, Stopped, Panicked
<1> QED BY <1>0, <1>1, <1>2, <1>3, <1>4 DEF Core, Placed, Gated, Whole, BeforeEnd, AtEnd, NoSender

\* fuzzEndpoint returns when its workers have, with every iteration unless it was broken off.
LEMMA PositionLeft == ASSUME Core, LeaveEndpoint PROVE Core'
<1>0. /\ UNCHANGED <<statsVars, queue, pr, ce, worker, happened>> /\ main = "fuzz" /\ main' = "next"
      /\ target' = target + 1 /\ next' = 1 /\ Live = {} /\ (next \notin Iterations \/ Cancelled)
  BY DEF LeaveEndpoint, WorkersDone
<1>1. /\ Fifo' /\ Marked' /\ Covered' = Covered /\ Results(queue') = Results(queue)
      /\ UNCHANGED <<pipe, gate, counted>>
  BY <1>0, StatsStay
<1>2. Live' = {} /\ HandedAt' = {} BY <1>0 DEF Live, HandedAt
<1>3. EngineTypes'
  <2>1. target' \in Nat \ {0} /\ next' \in 1..NumIterations + 1 BY <1>0, Bounds DEF Core, EngineTypes
  <2> QED BY <1>0, <1>1, <2>1 DEF Core, EngineTypes, BeforeEnd
<1>4. InOrder'
  <2>1. ASSUME Sound, NEW w \in Before(target + 1) PROVE w \in Covered
    <3>0. w \in Work /\ w[1] \in Nat /\ w[2] \in Iterations /\ w[2] \in Nat /\ target \in Nat /\ w[1] < target + 1
      BY Bounds DEF Before, Work, Core, EngineTypes
    <3>1. CASE w[1] < target
      BY <1>0, <3>0, <3>1 DEF Core, InOrder, Before
    <3>2. CASE w[1] = target
      <4>1. next \notin Iterations BY <1>0, <2>1 DEF Cancelled, Sound
      <4>2. w[2] < next BY <3>0, <4>1, Bounds, SMTT(30) DEF Core, EngineTypes, Iterations
      <4>3. worker[w[2]] \notin {"running", "sending"} BY <1>0, <3>0 DEF Live
      <4> QED BY <1>0, <2>1, <3>0, <3>2, <4>2, <4>3 DEF Core, InOrder, BeforeEnd
    <3> QED BY <3>0, <3>1, <3>2
  <2>2. \A w \in Work : ~(w[2] < 1) BY Bounds DEF Work
  <2>3. Sound' <=> Sound BY <1>0 DEF Sound, Stopped, Panicked
  <2> QED BY <1>0, <1>1, <1>2, <2>1, <2>2, <2>3 DEF InOrder, BeforeEnd, Before
<1> QED BY <1>0, <1>1, <1>2, <1>3, <1>4 DEF Core, Placed, Gated, Whole, BeforeEnd, AtEnd, NoSender

\* The loops end, or are broken off by a stop or a panic; or Start refuses the run.
LEMMA LoopsEnd ==
  ASSUME Core, LeaveLoops \/ StartFails \/ StopRun \/ RunPanics PROVE Core'
<1>0. UNCHANGED <<statsVars, queue, target, pr, ce, next, worker>> /\ main \in BeforeEnd
  BY DEF LeaveLoops, StartFails, StopRun, RunPanics, engineVars, BeforeEnd
<1>1. /\ Fifo' /\ Marked' /\ Covered' = Covered /\ Results(queue') = Results(queue)
      /\ UNCHANGED <<pipe, gate, counted>>
  BY <1>0, StatsStay
<1>2. Live' = Live /\ HandedAt' = HandedAt /\ Pos(pr', ce') = Pos(pr, ce) BY <1>0 DEF Live, HandedAt
<1>3. main' \in {main, "finalise", "close"} /\ (main' = "close" => "startFails" \in happened')
  BY DEF LeaveLoops, StartFails, StopRun, RunPanics, engineVars, Happens
<1>4. EngineTypes' BY <1>0, <1>1, <1>3 DEF Core, EngineTypes, BeforeEnd, AtEnd
<1>5. Gated' BY <1>0, <1>1, <1>3 DEF Core, Gated, BeforeEnd, AtEnd, NoSender
<1>6. InOrder'
  <2>1. CASE LeaveLoops
    <3>0. main = "next" /\ main' = "finalise" /\ happened' = happened /\ (target \notin Positions \/ Stopped)
      BY <2>1 DEF LeaveLoops
    <3>1. Sound' <=> Sound BY <3>0 DEF Sound, Stopped, Panicked
    <3>2. ASSUME Sound PROVE Work \subseteq Covered
      <4>1. target \notin Positions /\ target \in Nat \ {0} BY <3>0, <3>2 DEF Sound, Core, EngineTypes
      <4>2. Work \subseteq Before(target) BY <4>1, Bounds DEF Before, Work, Positions
      <4> QED BY <3>0, <3>2, <4>2 DEF Core, InOrder
    <3>3. Live = {} BY <3>0 DEF Core, Placed
    <3> QED BY <1>1, <1>2, <3>0, <3>1, <3>2, <3>3 DEF InOrder, BeforeEnd
  <2>2. CASE StartFails
    <3>1. main = "init" /\ main' = "close" /\ "startFails" \in happened' BY <2>2 DEF StartFails, Happens
    <3>2. Live = {} BY <3>1 DEF Core, Placed
    <3> QED BY <1>2, <3>1, <3>2 DEF InOrder, BeforeEnd
  <2>3. CASE StopRun \/ RunPanics
    <3>1. ~Sound' /\ main \in {"next", "fuzz"} /\ main' \in {main, "finalise"}
      BY <2>3 DEF StopRun, RunPanics, Happens, Sound, Stopped, Panicked, engineVars
    <3>2. main' = "fuzz" => main = "fuzz" BY <3>1
    <3>3. Before(target') = Before(target) BY <1>0 DEF Before
    <3> QED BY <1>0, <1>1, <1>2, <3>1, <3>2, <3>3 DEF Core, InOrder
  <2> QED BY <2>1, <2>2, <2>3
<1>7. Placed'
  <2>1. main' = "fuzz" => main = "fuzz" BY <1>0, <1>3 DEF BeforeEnd
  <2>2. main' \in {"init", "next"} => main \in {"init", "next"} BY <1>0, <1>3 DEF BeforeEnd
  <2> QED BY <1>0, <1>2, <2>1, <2>2 DEF Core, Placed
<1> QED BY <1>1, <1>2, <1>4, <1>5, <1>6, <1>7 DEF Core, Whole

----------------------------------------------------------------------------
(* The workers.                                                            *)

\* A worker goes on to send, or its result is dropped whole: not by a sound run before its end.
LEMMA WorkerMoves ==
  ASSUME Core, NEW i \in Iterations, TakeLock(i) \/ DropResult(i) \/ WorkerPanics(i) PROVE Core'
<1>0. /\ UNCHANGED <<statsVars, queue, main, target, pr, ce, next>> /\ happened \subseteq happened'
      /\ worker[i] \in {"running", "sending"}
      /\ worker' = [worker EXCEPT ![i] = "sending"] \/ worker' = [worker EXCEPT ![i] = "gone"]
  BY DEF TakeLock, DropResult, WorkerPanics, Becomes, Happens
<1>1. /\ Fifo' /\ Marked' /\ Covered' = Covered /\ Results(queue') = Results(queue)
      /\ UNCHANGED <<pipe, gate, counted>>
  BY <1>0, StatsStay
<1>2. Live' \subseteq Live /\ HandedAt' = HandedAt
  BY <1>0 DEF Core, EngineTypes, Live, HandedAt
<1>3. EngineTypes' BY <1>0, <1>1 DEF Core, EngineTypes
<1>4. Sound' => Sound BY <1>0 DEF Sound, Stopped, Panicked
<1>5. worker'[i] = "sending" => gate \in {"open", "stopping"}
  BY <1>0 DEF TakeLock, DropResult, WorkerPanics, Becomes, Core, EngineTypes
<1>6. Gated'
  <2>1. gate' \in {"sealed", "done"} => NoSender'
    BY <1>0, <1>1, <1>5 DEF Core, EngineTypes, Gated, NoSender
  <2> QED BY <1>0, <1>1, <2>1 DEF Core, Gated
<1>7. main \in BeforeEnd /\ Sound' => worker'[i] = "sending"
  <2>1. ASSUME main \in BeforeEnd, Sound' PROVE worker'[i] = "sending"
    <3>1. gate = "open" /\ ~Cancelled BY <1>4, <2>1 DEF Core, Gated, Cancelled, Sound, BeforeEnd
    <3>2. TakeLock(i) BY <2>1, <3>1 DEF DropResult, WorkerPanics, Happens, Sound, Panicked
    <3> QED BY <3>1, <3>2 DEF TakeLock, Becomes, Core, EngineTypes
  <2> QED BY <2>1
<1>8. InOrder'
  <2>1. ASSUME main \in BeforeEnd, Sound', NEW w \in Work, w[1] = target, w[2] < next
        PROVE  w \in Covered \/ (main = "fuzz" /\ worker'[w[2]] \in {"running", "sending"})
    <3>1. w[2] \in Iterations BY DEF Work
    <3>2. w \in Covered \/ (main = "fuzz" /\ worker[w[2]] \in {"running", "sending"})
      BY <1>4, <2>1 DEF Core, InOrder
    <3> QED BY <1>0, <1>7, <2>1, <3>1, <3>2 DEF Core, EngineTypes
  <2> QED BY <1>0, <1>1, <1>2, <1>4, <2>1 DEF Core, InOrder, Before
<1> QED BY <1>0, <1>1, <1>2, <1>3, <1>6, <1>8 DEF Core, Placed, Whole

\* A handed-over result is streamed: it was put into the pipe before.
LEMMA ResultStreamed == ASSUME Core, BusTypes, NEW i \in Iterations, Stream(i) PROVE Core' /\ BusTypes'
<1> DEFINE e == Result(<<Pos(pr, ce), i>>)
<1>0. /\ UNCHANGED <<main, target, pr, ce, next, happened, statsVars, batch, sub>> /\ worker[i] = "handed"
      /\ worker' = [worker EXCEPT ![i] = "gone"] /\ queue' = Append(queue, e)
  BY DEF Stream, Becomes, Push, busVars, outVars
<1>1. UNCHANGED <<pipe, gate, counted, mark>> /\ Covered' = Covered BY <1>0 DEF statsVars, Covered, InPipe
<1>2. e \in Items /\ e.type = "result" /\ <<e.at, e.n>> \in HandedAt
  <2>1. Pos(pr, ce) \in Int BY PosIsInt DEF Core, EngineTypes
  <2>2. e = [type |-> "result", at |-> Pos(pr, ce), n |-> i] BY DEF Result
  <2>3. <<Pos(pr, ce), i>> \in HandedAt BY <1>0 DEF HandedAt
  <2>4. i \in Int BY Bounds
  <2> HIDE DEF e
  <2> QED BY <2>1, <2>2, <2>3, <2>4 DEF Items
<1> HIDE DEF e
<1>3. queue' \in Seq(Items) /\ Results(queue') = Results(queue) \cup {<<e.at, e.n>>}
  BY <1>0, <1>2, ResultsOfAppend DEF BusTypes
<1>4. Live' \subseteq Live /\ HandedAt' \subseteq HandedAt
  BY <1>0 DEF Core, EngineTypes, Live, HandedAt
<1>5. Whole' BY <1>1, <1>2, <1>3, <1>4 DEF Core, Whole
<1>6. EngineTypes' BY <1>0, <1>1 DEF Core, EngineTypes
<1>7. Gated' BY <1>0, <1>1 DEF Core, EngineTypes, Gated, NoSender
<1>8. InOrder'
  <2>1. \A j \in Iterations : worker[j] \in {"running", "sending"} => worker'[j] = worker[j]
    BY <1>0 DEF Core, EngineTypes
  <2>2. \A w \in Work : w[2] \in Iterations BY DEF Work
  <2> QED BY <1>0, <1>1, <1>4, <2>1, <2>2 DEF Core, InOrder, Before, Sound, Stopped, Panicked
<1>9. Fifo' /\ Marked' BY <1>1 DEF Core, Fifo, Marked, Before
<1> QED BY <1>0, <1>1, <1>3, <1>4, <1>5, <1>6, <1>7, <1>8, <1>9 DEF Core, Placed, BusTypes

\* The statistics of a result go into the pipe, behind all that come before its position.
LEMMA ResultHandedOver == ASSUME Core, NEW i \in Iterations, HandOver(i) PROVE Core'
<1> DEFINE r == <<target, i>>
<1>0. /\ UNCHANGED <<main, target, pr, ce, next, gate, counted, mark, queue, happened>>
      /\ worker[i] = "sending" /\ worker' = [worker EXCEPT ![i] = "handed"]
      /\ pipe' = Append(pipe, <<Pos(pr, ce), i>>)
  BY DEF HandOver, Becomes
<1>1. Live # {} /\ Pos(pr, ce) = target /\ target \in Positions
  BY <1>0 DEF Core, Placed, Live
<1>2. r \in Work /\ pipe \in Seq(Work) BY <1>1 DEF Work, Core, EngineTypes
<1>3. /\ pipe' \in Seq(Work) /\ Len(pipe') = Len(pipe) + 1 /\ Len(pipe) \in Nat /\ pipe'[Len(pipe) + 1] = r
      /\ \A j \in 1..Len(pipe) : pipe'[j] = pipe[j]
  BY <1>0, <1>1, <1>2, AppendProperties, LenProperties
<1>4. Covered' = Covered \cup {r}
  <2>1. \A j : j \in 1..Len(pipe') <=> j \in 1..Len(pipe) \/ j = Len(pipe) + 1 BY <1>3
  <2> HIDE DEF r
  <2>2. InPipe' = InPipe \cup {r} BY <1>3, <2>1 DEF InPipe
  <2> QED BY <1>0, <2>2 DEF Covered
<1>5. Live' = Live /\ HandedAt' = HandedAt \cup {r}
  BY <1>0, <1>1 DEF Core, EngineTypes, Live, HandedAt
<1>6. Whole' BY <1>0, <1>4, <1>5 DEF Core, Whole
<1>7. EngineTypes' BY <1>0, <1>3 DEF Core, EngineTypes
<1>8. Gated'
  <2>1. gate \notin {"sealed", "done"} BY <1>0 DEF Core, Gated, NoSender
  <2> QED BY <1>0, <2>1 DEF Core, Gated
<1>9. InOrder'
  <2>1. \A w \in Work : w[1] = target /\ w[2] = i => w = r BY DEF Work
  <2>2. \A w \in Work : w[2] \in Iterations BY DEF Work
  <2>3. \A j \in Iterations : j # i => worker'[j] = worker[j] BY <1>0 DEF Core, EngineTypes
  <2> HIDE DEF r
  <2> QED BY <1>0, <1>4, <1>5, <2>1, <2>2, <2>3 DEF Core, InOrder, Before, Sound, Stopped, Panicked
<1>10. Fifo'
  <2>1. Before(target) \subseteq Covered BY <1>1 DEF Core, InOrder
  <2>2. ASSUME NEW j \in 1..Len(pipe'), NEW w \in Before(pipe'[j][1])
        PROVE  w \in counted' \/ \E l \in 1..j - 1 : pipe'[l] = w
    <3>1. CASE j \in 1..Len(pipe)
      <4>1. w \in counted \/ \E l \in 1..j - 1 : pipe[l] = w
        <5>1. pipe'[j] = pipe[j] BY <1>3, <3>1
        <5> QED BY <2>2, <3>1, <5>1 DEF Core, Fifo
      <4>2. \A l \in 1..j - 1 : l \in 1..Len(pipe) BY <1>3, <3>1
      <4> QED BY <1>0, <1>3, <4>1, <4>2
    <3>2. CASE j = Len(pipe) + 1
      <4>1. pipe'[j][1] = target BY <1>3, <3>2
      <4>2. w \in counted \/ \E l \in 1..Len(pipe) : pipe[l] = w
        BY <2>1, <2>2, <4>1 DEF Covered, InPipe
      <4>3. j - 1 = Len(pipe) BY <1>3, <3>2
      <4> QED BY <1>0, <1>3, <4>2, <4>3
    <3> QED BY <1>3, <3>1, <3>2
  <2>3. Before(mark.at)' \subseteq counted' BY <1>0 DEF Core, Fifo, Before
  <2>4. \A j \in 1..Len(pipe') : \A w \in Before(pipe'[j][1]) : w \in counted' \/ \E l \in 1..j - 1 : pipe'[l] = w
    BY <2>2
  <2> QED BY <2>3, <2>4 DEF Fifo, Before
<1>11. Marked' BY <1>0 DEF Core, Marked
<1> QED BY <1>0, <1>1, <1>5, <1>6, <1>7, <1>8, <1>9, <1>10, <1>11 DEF Core, Placed

----------------------------------------------------------------------------
(* The aggregator and the end of the run.                                  *)

\* A result is taken in from the head of the pipe: all before its position were taken in earlier.
LEMMA ResultTakenIn == ASSUME Core, TakeIn PROVE Core'
<1> DEFINE h == Head(pipe)
<1>0. /\ UNCHANGED <<engineVars, gate, queue, happened>> /\ pipe # <<>> /\ gate # "done"
      /\ pipe' = Tail(pipe) /\ counted' = counted \cup {h} /\ mark' = Complete(h)
  BY DEF TakeIn
<1>1. /\ pipe \in Seq(Work) /\ pipe' \in Seq(Work) /\ h \in Work /\ h = pipe[1]
      /\ Len(pipe) \in Nat \ {0} /\ Len(pipe') = Len(pipe) - 1 /\ \A j \in 1..Len(pipe') : pipe'[j] = pipe[j + 1]
  BY <1>0, HeadTailProperties, EmptySeq DEF Core, EngineTypes
<1> HIDE DEF h
<1>2. InPipe = InPipe' \cup {h}
  <2>1. \A j \in 1..Len(pipe') : j + 1 \in 1..Len(pipe) BY <1>1
  <2>2. ASSUME NEW j \in 1..Len(pipe), j # 1 PROVE j - 1 \in 1..Len(pipe') /\ pipe[j] = pipe'[j - 1]
    <3>1. j - 1 \in 1..Len(pipe') /\ (j - 1) + 1 = j BY <1>1, <2>2
    <3> QED BY <1>1, <3>1
  <2>3. 1 \in 1..Len(pipe) BY <1>1
  <2> QED BY <1>1, <2>1, <2>2, <2>3 DEF InPipe
<1>3. Covered' = Covered BY <1>0, <1>2 DEF Covered
<1>4. Live' = Live /\ HandedAt' = HandedAt BY <1>0 DEF engineVars, Live, HandedAt
<1>5. EngineTypes' BY <1>0, <1>1 DEF engineVars, Core, EngineTypes
<1>6. Gated' BY <1>0 DEF engineVars, Core, Gated, NoSender
<1>7. InOrder' BY <1>0, <1>3, <1>4 DEF engineVars, Core, InOrder, Before, Sound, Stopped, Panicked
<1>8. mark'.at = h[1] /\ mark'.done = (IF h[1] = mark.at THEN mark.done \cup {h[2]} ELSE {h[2]})
      /\ mark'.n = Contiguous(mark'.done)
  BY <1>0 DEF Complete
<1>9. Fifo'
  <2>1. Before(h[1]) \subseteq counted
    <3>1. 1 \in 1..Len(pipe) /\ \A l : l \notin 1..1 - 1 BY <1>1
    <3> QED BY <1>1, <3>1 DEF Core, Fifo
  <2>2. ASSUME NEW j \in 1..Len(pipe'), NEW w \in Before(pipe'[j][1])
        PROVE  w \in counted' \/ \E l \in 1..j - 1 : pipe'[l] = w
    <3>1. j + 1 \in 1..Len(pipe) /\ pipe'[j] = pipe[j + 1] /\ (j + 1) - 1 = j BY <1>1
    <3>2. w \in counted \/ \E l \in 1..j : pipe[l] = w BY <2>2, <3>1 DEF Core, Fifo
    <3>3. ASSUME NEW l \in 1..j, pipe[l] = w PROVE w = h \/ \E m \in 1..j - 1 : pipe'[m] = w
      <4>1. CASE l = 1 BY <1>1, <3>3, <4>1
      <4>2. CASE l # 1
        <5>1. l - 1 \in 1..j - 1 /\ l - 1 \in 1..Len(pipe') /\ (l - 1) + 1 = l BY <1>1, <4>2
        <5> QED BY <1>1, <3>3, <5>1
      <4> QED BY <4>1, <4>2
    <3> QED BY <1>0, <3>2, <3>3
  <2>3. Before(mark.at)' \subseteq counted' BY <1>0, <1>8, <2>1 DEF Before
  <2>4. \A j \in 1..Len(pipe') : \A w \in Before(pipe'[j][1]) : w \in counted' \/ \E l \in 1..j - 1 : pipe'[l] = w
    BY <2>2
  <2> QED BY <2>3, <2>4 DEF Fifo, Before
<1>10. Marked'
  <2>1. h[1] \in Int /\ h[2] \in Iterations /\ h = <<h[1], h[2]>>
    <3>1. h[1] \in Positions /\ h[2] \in Iterations /\ h = <<h[1], h[2]>> BY <1>1 DEF Work
    <3>2. h[1] \in Nat \ {0} BY <3>1, Bounds
    <3> QED BY <3>1, <3>2
  <2>2. mark'.done \subseteq Iterations BY <1>8, <2>1 DEF Core, Marked
  <2>3. mark'.n \in 0..NumIterations /\ 1..mark'.n \subseteq mark'.done BY <1>8, <2>2, ContiguousIsDone
  <2>4. \A i \in mark'.done : <<mark'.at, i>> \in counted' BY <1>0, <1>8, <2>1 DEF Core, Marked
  <2> QED BY <1>8, <2>1, <2>2, <2>3, <2>4 DEF Marked
<1> QED BY <1>0, <1>3, <1>4, <1>5, <1>6, <1>7, <1>9, <1>10 DEF engineVars, Core, Placed, Whole

\* A checkpoint or the end of the run is pushed: no result.
LEMMA PushedNoResult ==
  ASSUME Core, BusTypes, Tick \/ Publish
  PROVE  queue' \in Seq(Items) /\ Results(queue') = Results(queue)
<1>1. CASE Tick
  <2> DEFINE e == Checkpoint(Pos(pr, ce), mark.n)
  <2>1. e \in Items /\ e.type = "checkpoint"
    <3>1. Pos(pr, ce) \in Int BY PosIsInt DEF Core, EngineTypes
    <3>3. mark.n \in Int BY Bounds DEF Core, Marked
    <3>2. e = [type |-> "checkpoint", at |-> Pos(pr, ce), n |-> mark.n] BY DEF Checkpoint
    <3> HIDE DEF e
    <3> QED BY <3>1, <3>2, <3>3 DEF Items
  <2>2. queue' = Append(queue, e) BY <1>1 DEF Tick, Push
  <2> HIDE DEF e
  <2> QED BY <2>1, <2>2, ResultsOfAppend DEF BusTypes
<1>2. CASE Publish
  <2> DEFINE e == End(IF Panicked THEN "error" ELSE "complete")
  <2>1. e \in Items /\ e.type # "result"
    <3>1. e = [type |-> IF Panicked THEN "error" ELSE "complete", at |-> 0, n |-> 0] BY DEF End
    <3> HIDE DEF e
    <3> QED BY <3>1 DEF Items
  <2>2. queue' = Append(queue, e) BY <1>2 DEF Publish, Push
  <2> HIDE DEF e
  <2> QED BY <2>1, <2>2, ResultsOfAppend DEF BusTypes
<1> QED BY <1>1, <1>2

\* finalise: the pipe is stopped, sealed, drained; then the end is published.
LEMMA RunFinalised ==
  ASSUME Core, BusTypes, Tick \/ AggregatorEnds \/ Seal \/ StopPipe \/ Publish
  PROVE  Core' /\ queue' \in Seq(Items)
<1>1. /\ UNCHANGED <<target, pr, ce, next, worker, pipe, counted, mark, happened>>
      /\ main' = main \/ (main \notin BeforeEnd /\ main' \notin BeforeEnd)
  BY DEF Tick, AggregatorEnds, Seal, StopPipe, Publish, engineVars, statsVars, BeforeEnd
<1>2. queue' \in Seq(Items) /\ Results(queue') = Results(queue)
  <2>1. CASE Tick \/ Publish BY <2>1, PushedNoResult
  <2>2. CASE AggregatorEnds \/ Seal \/ StopPipe
    BY <2>2 DEF AggregatorEnds, Seal, StopPipe, BusTypes
  <2> QED BY <2>1, <2>2
<1>3. EngineTypes'
  <2>1. main' \in {main, "seal", "close"} /\ gate' \in {gate, "stopping", "sealed", "done"}
    BY DEF Tick, AggregatorEnds, Seal, StopPipe, Publish, engineVars, statsVars
  <2> QED BY <1>1, <2>1 DEF Core, EngineTypes, BeforeEnd, AtEnd
<1>4. Gated'
  <2>1. CASE Tick BY <2>1 DEF Tick, engineVars, Core, Gated, NoSender
  <2>2. CASE AggregatorEnds BY <2>2 DEF AggregatorEnds, PipeEmpty, engineVars, Core, Gated, NoSender, BeforeEnd, AtEnd
  <2>3. CASE Seal BY <2>3 DEF Seal, engineVars, Core, Gated, NoSender, BeforeEnd, AtEnd
  <2>4. CASE StopPipe BY <2>4 DEF StopPipe, Core, Gated, NoSender, BeforeEnd, AtEnd
  <2>5. CASE Publish BY <2>5 DEF Publish, statsVars, Core, Gated, NoSender, BeforeEnd, AtEnd
  <2> QED BY <2>1, <2>2, <2>3, <2>4, <2>5
<1> QED BY <1>1, <1>2, <1>3, <1>4, CoreStays

\* Close, finishExecution, the broadcast loop and the forwarder take nothing back.
LEMMA EventsPassOn ==
  ASSUME Core, \/ CloseDone \/ CloseSubs \/ FinishExecution \/ Bus \/ Forwarder \/ ForwarderBreaks
  PROVE  Core'
<1>1. /\ UNCHANGED <<target, pr, ce, next, worker, pipe, gate, counted, mark>>
      /\ happened \subseteq happened'
      /\ main' = main \/ (main \in AtEnd /\ main' \in AtEnd)
  <2>1. CASE CloseDone \/ CloseSubs \/ FinishExecution
    BY <2>1 DEF CloseDone, CloseSubs, FinishExecution, statsVars, AtEnd
  <2>2. CASE Bus
    BY <2>2 DEF Bus, TakeEvents, TakeLastEvents, BusEnds, Deliver, Miss, PassOver, engineVars, statsVars
  <2>3. CASE Forwarder \/ ForwarderBreaks
    BY <2>3 DEF Forwarder, Forward, Unsubscribe, ForwarderBreaks, Happens, engineVars, statsVars
  <2> QED BY <2>1, <2>2, <2>3
<1>2. queue' = queue \/ queue' = <<>>
  BY DEF CloseDone, CloseSubs, FinishExecution, Bus, TakeEvents, TakeLastEvents, BusEnds, Deliver, Miss,
         PassOver, Forwarder, Forward, Unsubscribe, ForwarderBreaks
<1>3. Results(queue') \subseteq Results(queue) BY <1>2 DEF Results
<1>4. EngineTypes' BY <1>1 DEF Core, EngineTypes
<1>5. Gated' BY <1>1 DEF Core, Gated, NoSender, BeforeEnd, AtEnd
<1> QED BY <1>1, <1>3, <1>4, <1>5, CoreStays DEF BeforeEnd, AtEnd

----------------------------------------------------------------------------
(* The whole invariant.                                                    *)

EventsInv == Core /\ BusTypes /\ LagRemembered

\* The broadcast loop and the forwarder move events that were queued, and remember a miss.
LEMMA EventsMove ==
  ASSUME BusTypes, LagRemembered, Bus \/ Forwarder \/ ForwarderBreaks
  PROVE  BusTypes' /\ LagRemembered'
<1>0. <<>> \in Seq(Items) OBVIOUS
<1>1. CASE TakeEvents \/ TakeLastEvents \/ BusEnds
  BY <1>0, <1>1 DEF TakeEvents, TakeLastEvents, BusEnds, outVars, BusTypes, LagRemembered
<1>2. CASE Deliver \/ Miss \/ PassOver
  <2>1. batch # <<>> /\ batch' = Tail(batch) /\ UNCHANGED queue
    BY <1>2 DEF Deliver, Miss, PassOver
  <2>2. Head(batch) \in Items /\ batch' \in Seq(Items) BY <2>1, CheckpointsOfTail DEF BusTypes
  <2>3. sub' \in Seq(Items)
    <3>1. Append(sub, Head(batch)) \in Seq(Items) BY <2>2, AppendProperties DEF BusTypes
    <3> QED BY <1>2, <3>1 DEF Deliver, Miss, PassOver, outVars, BusTypes
  <2>4. LagRemembered'
    BY <1>2 DEF Deliver, Miss, PassOver, AfterCatchUp, LagRemembered
  <2> QED BY <2>1, <2>2, <2>3, <2>4 DEF BusTypes
<1>3. CASE Forwarder \/ ForwarderBreaks
  <2>1. UNCHANGED <<queue, batch, lag, missed>>
    BY <1>3 DEF Forwarder, Forward, Unsubscribe, ForwarderBreaks, busVars
  <2>2. sub' = <<>> \/ (sub # <<>> /\ sub' = Tail(sub))
    BY <1>3 DEF Forwarder, Forward, Unsubscribe, ForwarderBreaks
  <2>3. sub' \in Seq(Items) BY <1>0, <2>2, CheckpointsOfTail DEF BusTypes
  <2> QED BY <2>1, <2>3 DEF BusTypes, LagRemembered
<1> QED BY <1>1, <1>2, <1>3 DEF Bus

\* Every other step leaves them to it.
LEMMA EventsPreserved == ASSUME EventsInv, [EventsNext]_eventsVars PROVE EventsInv'
<1>1. CASE \/ StartRun \/ NextProfile \/ EnterEndpoint \/ SkipProfile \/ StartWorker \/ LeaveEndpoint
           \/ LeaveLoops \/ StartFails \/ StopRun \/ RunPanics
  <2>1. UNCHANGED <<queue, batch, sub, lag, missed>>
    BY <1>1 DEF StartRun, NextProfile, EnterEndpoint, SkipProfile, StartWorker, LeaveEndpoint,
                LeaveLoops, StartFails, StopRun, RunPanics, busVars, outVars
  <2>2. Core'
    BY <1>1, LoopsGoOn, PositionEntered, WorkerStarted, PositionLeft, LoopsEnd DEF EventsInv
  <2> QED BY <2>1, <2>2 DEF EventsInv, BusTypes, LagRemembered
<1>2. ASSUME NEW i \in Iterations, TakeLock(i) \/ DropResult(i) \/ WorkerPanics(i) \/ HandOver(i) PROVE EventsInv'
  <2>1. UNCHANGED <<queue, batch, sub, lag, missed>>
    BY <1>2 DEF TakeLock, DropResult, WorkerPanics, HandOver, busVars, outVars
  <2>2. Core' BY <1>2, WorkerMoves, ResultHandedOver DEF EventsInv
  <2> QED BY <2>1, <2>2 DEF EventsInv, BusTypes, LagRemembered
<1>3. ASSUME NEW i \in Iterations, Stream(i) PROVE EventsInv'
  BY <1>3, ResultStreamed DEF EventsInv, Stream, busVars, LagRemembered
<1>4. CASE TakeIn
  BY <1>4, ResultTakenIn DEF EventsInv, TakeIn, busVars, outVars, BusTypes, LagRemembered
<1>5. CASE Tick \/ AggregatorEnds \/ Seal \/ StopPipe \/ Publish
  <2>1. UNCHANGED <<batch, sub, lag, missed>>
    BY <1>5 DEF Tick, AggregatorEnds, Seal, StopPipe, Publish, busVars, outVars
  <2> QED BY <1>5, <2>1, RunFinalised DEF EventsInv, BusTypes, LagRemembered
<1>6. CASE CloseDone \/ CloseSubs \/ FinishExecution
  <2>1. UNCHANGED <<queue, batch, sub, lag, missed>>
    BY <1>6 DEF CloseDone, CloseSubs, FinishExecution, busVars, outVars
  <2> QED BY <1>6, <2>1, EventsPassOn DEF EventsInv, BusTypes, LagRemembered
<1>7. CASE Bus \/ Forwarder \/ ForwarderBreaks
  BY <1>7, EventsPassOn, EventsMove DEF EventsInv
<1>8. CASE UNCHANGED eventsVars
  <2>1. /\ UNCHANGED <<main, target, pr, ce, next, worker, pipe, gate, counted, mark, queue, happened>>
        /\ UNCHANGED <<batch, sub, lag, missed>>
    BY <1>8 DEF eventsVars, engineVars, statsVars, busVars, outVars
  <2>2. EngineTypes' /\ Gated' BY <2>1 DEF EventsInv, Core, EngineTypes, Gated, NoSender
  <2>3. Core' BY <2>1, <2>2, CoreStays DEF EventsInv
  <2> QED BY <2>1, <2>3 DEF EventsInv, BusTypes, LagRemembered
<1> QED BY <1>1, <1>2, <1>3, <1>4, <1>5, <1>6, <1>7, <1>8 DEF EventsNext, Engine, Worker, Stats, Fault

LEMMA EventsHold == EventsSpec => []EventsInv
<1>1. EventsInit => EventsInv BY EngineInitially DEF EventsInv
<1>2. EventsInv /\ [EventsNext]_eventsVars => EventsInv' BY EventsPreserved
<1> QED BY <1>1, <1>2, PTL DEF EventsSpec

\* A result is counted in the final statistics and streamed, or neither: the pipe is sealed only when
\* no send is in progress, and emptied before the end of the run is broadcast (stopPipe, finalise).
THEOREM ResultsAreWhole == EventsSpec => []FinalStatsAreWhole
<1>1. ASSUME EventsInv PROVE FinalStatsAreWhole
  <2> SUFFICES ASSUME main \in AtEnd, "startFails" \notin happened
               PROVE  Results(queue) \cup HandedAt \subseteq counted
    BY DEF FinalStatsAreWhole, AtEnd, HandedAt
  <2>1. pipe = <<>> BY <1>1 DEF EventsInv, Core, Gated
  <2>2. InPipe = {} BY <2>1 DEF InPipe
  <2> QED BY <1>1, <2>2 DEF EventsInv, Core, Whole, Covered
<1> QED BY <1>1, EventsHold, PTL

\* A run that was neither stopped nor broken off by a panic has counted every iteration of every
\* position when it reports its completion, from whatever checkpoint it was resumed (Start, finalise).
THEOREM CompletionMeansAll == EventsSpec => []CompleteMeansAll
<1>1. ASSUME EventsInv PROVE CompleteMeansAll
  <2> SUFFICES ASSUME main \in AtEnd, Sound, "startFails" \notin happened
               PROVE  counted = Work
    BY DEF CompleteMeansAll, AtEnd, Sound
  <2>1. pipe = <<>> BY <1>1 DEF EventsInv, Core, Gated
  <2>2. InPipe = {} BY <2>1 DEF InPipe
  <2>3. main \notin BeforeEnd BY DEF AtEnd, BeforeEnd
  <2> QED BY <1>1, <2>2, <2>3 DEF EventsInv, Core, InOrder, EngineTypes, Covered
<1> QED BY <1>1, EventsHold, PTL

\* No checkpoint reaches a subscriber after an event it missed: the lag is remembered even once the
\* subscriber has caught up (processEvents).
THEOREM NoCheckpointOverAGap == EventsSpec => NoCheckpointAfterMiss
<1>1. ASSUME EventsInv, [EventsNext]_eventsVars
      PROVE  [Checkpoints(sub') \subseteq Checkpoints(sub) \/ ~missed]_sub
  <2> SUFFICES ASSUME sub' # sub PROVE Checkpoints(sub') \subseteq Checkpoints(sub) \/ ~missed
    OBVIOUS
  <2>0. EventsNext BY <1>1 DEF eventsVars, outVars
  <2>1. CASE Deliver
    <3>1. Head(batch) \in Items /\ sub' = Append(sub, Head(batch)) /\ ~Withheld(Head(batch))
      BY <1>1, <2>1, CheckpointsOfTail DEF Deliver, EventsInv, BusTypes
    <3>2. Checkpoints(sub') = Checkpoints(sub) \cup (IF Head(batch).type = "checkpoint" THEN {Head(batch)} ELSE {})
      BY <1>1, <3>1, ResultsOfAppend DEF EventsInv, BusTypes
    <3> QED BY <1>1, <3>1, <3>2 DEF Withheld, EventsInv, LagRemembered
  <2>2. CASE Forwarder \/ ForwarderBreaks
    <3>1. sub' = <<>> \/ (sub # <<>> /\ sub' = Tail(sub))
      BY <2>2 DEF Forwarder, Forward, Unsubscribe, ForwarderBreaks
    <3>2. Checkpoints(<<>>) = {} BY DEF Checkpoints
    <3> QED BY <1>1, <3>1, <3>2, CheckpointsOfTail DEF EventsInv, BusTypes
  <2>3. CASE \/ Engine \/ (\E i \in Iterations : Worker(i) \/ WorkerPanics(i)) \/ Stats
             \/ TakeEvents \/ TakeLastEvents \/ BusEnds \/ Miss \/ PassOver
             \/ StartFails \/ StopRun \/ RunPanics
    <3>1. sub' = sub
      BY <2>3 DEF Engine, StartRun, NextProfile, EnterEndpoint, SkipProfile, StartWorker, LeaveEndpoint,
                  LeaveLoops, StopPipe, Publish, CloseDone, CloseSubs, FinishExecution, Worker, TakeLock, HandOver,
                  DropResult, Stream, WorkerPanics, Stats, TakeIn, Tick, AggregatorEnds, Seal, TakeEvents,
                  TakeLastEvents, BusEnds, Miss, PassOver, StartFails, StopRun, RunPanics, outVars
    <3> QED BY <3>1
  <2> QED BY <2>0, <2>1, <2>2, <2>3 DEF EventsNext, Bus, Fault
<1> QED BY <1>1, EventsHold, PTL DEF EventsSpec, NoCheckpointAfterMiss

\* A checkpoint made while the position shown is that of the watermark lets a resumed scan skip only
\* what was counted, whatever order the workers' results come in: the pipe keeps the positions in
\* order, and the watermark counts iterations without a gap (iterationWatermark, statsAggregator).
THEOREM CheckpointsInPlaceAreSafe == EventsSpec => CheckpointSafeInPlace
<1>1. ASSUME EventsInv, [EventsNext]_eventsVars
      PROVE  [Pos(pr, ce) = mark.at =>
                \A c \in Checkpoints(queue') \ Checkpoints(queue) : SkippedBy(c.at, c.n) \subseteq counted]_queue
  <2> SUFFICES ASSUME queue' # queue, Pos(pr, ce) = mark.at,
                      NEW c \in Checkpoints(queue') \ Checkpoints(queue)
               PROVE  SkippedBy(c.at, c.n) \subseteq counted
    OBVIOUS
  <2>0. EventsNext BY <1>1 DEF eventsVars
  <2>1. CASE Tick
    <3> DEFINE e == Checkpoint(Pos(pr, ce), mark.n)
    <3>1. e = [type |-> "checkpoint", at |-> mark.at, n |-> mark.n] BY DEF Checkpoint
    <3>2. queue' = Append(queue, e) BY <2>1 DEF Tick, Push
    <3> HIDE DEF e
    <3>3. mark.at \in Int /\ mark.n \in 0..NumIterations /\ mark.n \in Int
      BY <1>1, Bounds DEF EventsInv, Core, Marked
    <3>4. e \in Items BY <3>1, <3>3 DEF Items
    <3>5. c = e BY <1>1, <3>1, <3>2, <3>4, ResultsOfAppend DEF EventsInv, BusTypes
    <3>6. ASSUME NEW w \in SkippedBy(mark.at, mark.n) PROVE w \in counted
      <4>1. w \in Work /\ w = <<w[1], w[2]>> /\ w[2] \in Nat \ {0} BY Bounds DEF SkippedBy, Work
      <4>2. CASE w[1] < mark.at BY <1>1, <4>1, <4>2 DEF EventsInv, Core, Fifo, Before
      <4>3. CASE w[1] = mark.at /\ w[2] <= mark.n
        <5>1. w[2] \in 1..mark.n BY <3>3, <4>1, <4>3
        <5> QED BY <1>1, <4>1, <4>3, <5>1 DEF EventsInv, Core, Marked
      <4> QED BY <4>2, <4>3 DEF SkippedBy
    <3> QED BY <3>1, <3>5, <3>6
  <2>2. ASSUME Publish \/ (\E i \in Iterations : Stream(i)) PROVE FALSE
    <3>1. PICK e \in Items : e.type # "checkpoint" /\ queue' = Append(queue, e)
      <4>1. CASE Publish
        <5> DEFINE e == End(IF Panicked THEN "error" ELSE "complete")
        <5>1. e = [type |-> IF Panicked THEN "error" ELSE "complete", at |-> 0, n |-> 0] BY DEF End
        <5>2. queue' = Append(queue, e) BY <4>1 DEF Publish, Push
        <5> HIDE DEF e
        <5>3. e \in Items /\ e.type # "checkpoint" BY <5>1 DEF Items
        <5> QED BY <5>2, <5>3
      <4>2. ASSUME NEW i \in Iterations, Stream(i) PROVE \E e \in Items : e.type # "checkpoint" /\ queue' = Append(queue, e)
        <5> DEFINE e == Result(<<Pos(pr, ce), i>>)
        <5>1. e = [type |-> "result", at |-> Pos(pr, ce), n |-> i] BY DEF Result
        <5>2. queue' = Append(queue, e) BY <4>2 DEF Stream, Push
        <5>3. Pos(pr, ce) \in Int BY <1>1, PosIsInt DEF EventsInv, Core, EngineTypes
        <5>4. i \in Int BY Bounds
        <5> HIDE DEF e
        <5>5. e \in Items /\ e.type # "checkpoint" BY <5>1, <5>3, <5>4 DEF Items
        <5> QED BY <5>2, <5>5
      <4> QED BY <2>2, <4>1, <4>2
    <3>2. Checkpoints(queue') = Checkpoints(queue)
      BY <1>1, <3>1, ResultsOfAppend DEF EventsInv, BusTypes
    <3> QED BY <3>2
  <2>3. ASSUME TakeEvents \/ TakeLastEvents PROVE FALSE
    <3>1. queue' = <<>> BY <2>3 DEF TakeEvents, TakeLastEvents
    <3> QED BY <3>1 DEF Checkpoints
  <2>4. ASSUME \/ StartRun \/ NextProfile \/ EnterEndpoint \/ SkipProfile \/ StartWorker \/ LeaveEndpoint
               \/ LeaveLoops \/ StopPipe \/ CloseDone \/ CloseSubs \/ FinishExecution
               \/ (\E i \in Iterations : TakeLock(i) \/ HandOver(i) \/ DropResult(i) \/ WorkerPanics(i))
               \/ TakeIn \/ AggregatorEnds \/ Seal \/ BusEnds \/ Deliver \/ Miss \/ PassOver \/ Forwarder
               \/ StartFails \/ StopRun \/ RunPanics \/ ForwarderBreaks
        PROVE  queue' = queue
    BY <2>4 DEF StartRun, NextProfile, EnterEndpoint, SkipProfile, StartWorker, LeaveEndpoint,
                LeaveLoops, StopPipe, CloseDone, CloseSubs, FinishExecution, TakeLock, HandOver, DropResult,
                WorkerPanics, TakeIn, AggregatorEnds, Seal, BusEnds, Deliver, Miss, PassOver, Forwarder, Forward,
                Unsubscribe, StartFails, StopRun, RunPanics, ForwarderBreaks
  <2> QED BY <2>0, <2>1, <2>2, <2>3, <2>4 DEF EventsNext, Engine, Worker, Stats, Bus, Fault
<1> QED BY <1>1, EventsHold, PTL DEF EventsSpec, CheckpointSafeInPlace

=============================================================================
