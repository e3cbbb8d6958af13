------------------------------- MODULE Limiter -------------------------------
(***************************************************************************)
(* ConcurrencyLimiter: callers take slots up to a target that may change,  *)
(* wait in a queue when there is none, and may give up waiting at the very *)
(* moment a slot is handed to them. A caller that waits and is not in the  *)
(* queue has been handed a slot.                                           *)
(***************************************************************************)
EXTENDS Naturals, FiniteSets, SequencesExt

CONSTANTS
  Callers,   \* the goroutines that ask for a slot
  Ceiling    \* MaxConcurrencyCeiling

ASSUME LimiterAssumption == IsFiniteSet(Callers) /\ Ceiling \in Nat \ {0}

VARIABLES
  slots,    \* target
  ceiling,  \* the highest target for now
  taken,    \* current
  queued,   \* waiters
  caller    \* where each caller is

limiterVars == <<slots, ceiling, taken, queued, caller>>

InQueue(c) == \E i \in DOMAIN queued : queued[i] = c
Handed == {c \in Callers : caller[c] \in {"waiting", "leaving"} /\ ~InQueue(c)}
Holding == {c \in Callers : caller[c] = "holding"}

LimiterInit == /\ ceiling \in 1..Ceiling /\ slots \in 1..ceiling /\ taken = 0 /\ queued = <<>>
               /\ caller = [c \in Callers |-> "idle"]

\* A slot was returned: the next in the queue gets it, if the target still allows.
PassOn == IF queued # <<>> /\ taken - 1 < slots
          THEN taken' = taken /\ queued' = Tail(queued)
          ELSE taken' = taken - 1 /\ UNCHANGED queued

Acquire(c) ==
  /\ caller[c] = "idle"
  /\ IF taken < slots
     THEN taken' = taken + 1 /\ caller' = [caller EXCEPT ![c] = "holding"] /\ UNCHANGED queued
     ELSE /\ queued' = Append(queued, c) /\ UNCHANGED taken
          /\ caller' = [caller EXCEPT ![c] = "waiting"]
  /\ UNCHANGED <<slots, ceiling>>

\* The caller sees its channel closed.
TakesSlot(c) == /\ c \in Handed /\ caller[c] = "waiting"
                /\ caller' = [caller EXCEPT ![c] = "holding"]
                /\ UNCHANGED <<slots, ceiling, taken, queued>>

\* Its context ends first, or both at once.
GivesUp(c) == /\ caller[c] = "waiting"
              /\ caller' = [caller EXCEPT ![c] = "leaving"]
              /\ UNCHANGED <<slots, ceiling, taken, queued>>

\* It takes the lock: still queued, or already handed a slot that it now returns.
LeaveHanded_Keeps == UNCHANGED <<taken, queued>>
LeaveHanded == PassOn

Leaves(c) == /\ caller[c] = "leaving"
             /\ caller' = [caller EXCEPT ![c] = "gone"]
             /\ IF InQueue(c)
                THEN /\ \E i \in DOMAIN queued : queued[i] = c /\ queued' = RemoveAt(queued, i)
                     /\ UNCHANGED taken
                ELSE LeaveHanded
             /\ UNCHANGED <<slots, ceiling>>

Release(c) == /\ caller[c] = "holding"
              /\ caller' = [caller EXCEPT ![c] = "idle"]
              /\ PassOn
              /\ UNCHANGED <<slots, ceiling>>

\* How many of the queue a new target lets in.
LetIn(t) == IF t <= taken THEN 0
            ELSE IF t - taken < Len(queued) THEN t - taken ELSE Len(queued)

\* SetTarget clamps to 1..ceiling.
SetTarget(t) == /\ t <= ceiling /\ slots' = t
                /\ taken' = taken + LetIn(t)
                /\ queued' = SubSeq(queued, LetIn(t) + 1, Len(queued))
                /\ UNCHANGED <<ceiling, caller>>

\* A lower ceiling takes no slot away; a higher one lets nobody in before the next SetTarget.
SetCeiling(t) == /\ ceiling' = t /\ slots' = IF slots > t THEN t ELSE slots
                 /\ UNCHANGED <<taken, queued, caller>>

LimiterStep(c) == Acquire(c) \/ TakesSlot(c) \/ GivesUp(c) \/ Leaves(c) \/ Release(c)
LimiterNext == (\E c \in Callers : LimiterStep(c)) \/ (\E t \in 1..Ceiling : SetTarget(t) \/ SetCeiling(t))

LimiterSpec == LimiterInit /\ [][LimiterNext]_limiterVars

-----------------------------------------------------------------------------

\* Every slot counted as taken is held by a caller or on its way to one, also when a caller gives
\* up just as it is handed one: no slot leaks (Acquire, Release, SetTarget).
SlotsAccounted == taken = Cardinality(Holding) + Cardinality(Handed)

\* Nobody queues while a slot is free, whatever order targets, releases and cancelled waits come in.
NoIdleSlot == queued # <<>> => taken >= slots

\* A free slot is never lost: neither leaked nor left idle while someone waits.
NoSlotLost == SlotsAccounted /\ NoIdleSlot

=============================================================================
