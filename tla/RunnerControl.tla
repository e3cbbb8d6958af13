---------------------------- MODULE RunnerControl ----------------------------
(***************************************************************************)
(* Pausing, holding and stopping a run: the flags, the condition variable  *)
(* the main loop and the requests wait on, the commands that set the flags *)
(* and then broadcast, and the wakeup when the run's context ends.         *)
(*                                                                         *)
(* A waiter takes the lock, looks at the flags, and goes to sleep, three   *)
(* steps of which the last returns the lock. A command that stores under   *)
(* the lock does so in one step, and broadcasts in a later one.            *)
(***************************************************************************)
CONSTANTS
  Requesters  \* goroutines of executeRequest

ASSUME ControlAssumption == "loop" \notin Requesters /\ "free" \notin Requesters

Waiters == Requesters \cup {"loop"}
Commanders == {"user", "agent", "timer"}

VARIABLES
  start,       \* Start: new, begun (initRun done), loop, over
  shouldStop, isPaused, isHeld,
  ended,       \* the run's context has ended
  at,          \* where each waiter is
  mu,          \* who holds pause.mu
  call,        \* what each caller is about to do
  wake         \* a wakeOnDone function has yet to run

flagVars == <<shouldStop, isPaused, isHeld>>
controlVars == <<start, flagVars, ended, at, mu, call, wake>>

ControlInit ==
  /\ start = "new" /\ shouldStop = FALSE /\ isPaused = FALSE /\ isHeld \in BOOLEAN
  /\ ended = FALSE /\ at = [w \in Waiters |-> "none"] /\ mu = "free"
  /\ call = [k \in Commanders |-> "idle"] /\ wake = FALSE

-----------------------------------------------------------------------------
(* Start.                                                                  *)

initRun == /\ start = "new" /\ start' = "begun"
           /\ isPaused' = FALSE /\ shouldStop' = FALSE
           /\ UNCHANGED <<isHeld, ended, at, mu, call, wake>>

\* A scan resumed from a checkpoint is paused if it was when the checkpoint was made, whatever the
\* user asked for since; any other stays as it is.
ResumeCheckpoint == /\ start = "begun" /\ start' = "loop"
                    /\ \E p \in BOOLEAN : isPaused' = p
                    /\ at' = [at EXCEPT !["loop"] = "work"]
                    /\ UNCHANGED <<shouldStop, isHeld, ended, mu, call, wake>>

\* The loop has nothing left, or sees that it has been stopped; then finalise, which cancels.
LoopEnds == /\ start = "loop" /\ at["loop"] \in {"work", "go"}
            /\ \A r \in Requesters : at[r] = "none"
            /\ start' = "over" /\ ended' = TRUE
            /\ at' = [at EXCEPT !["loop"] = "none"]
            /\ UNCHANGED <<flagVars, mu, call, wake>>

Halted == shouldStop \/ ended

\* The waiters whose wakeOnDone function is set up.
Registered == {w \in Waiters : at[w] \in {"enter", "locked", "toSleep", "asleep"}}

\* The loop passed waitIfPaused: it starts a request, unless the run was stopped.
StartRequest(r) == /\ at["loop"] = "go" /\ ~Halted /\ at[r] = "none"
                   /\ at' = [at EXCEPT ![r] = "work", !["loop"] = "work"]
                   /\ UNCHANGED <<start, flagVars, ended, mu, call, wake>>

\* The request is sent, or abandoned.
RequestEnds(r) == /\ at[r] = "go" /\ at' = [at EXCEPT ![r] = "none"]
                  /\ UNCHANGED <<start, flagVars, ended, mu, call, wake>>

-----------------------------------------------------------------------------
(* waitIfPaused (the loop) and waitWhileHeld (the requests).               *)

Asked(w) == isHeld \/ (w = "loop" /\ isPaused)
MustWait(w) == Asked(w) /\ ~shouldStop /\ ~ended

\* The first look, without the lock. wakeOnDone runs at once if the context has ended.
FirstLook(w) == /\ at[w] = "work"
                /\ at' = [at EXCEPT ![w] = IF Asked(w) THEN "enter" ELSE "go"]
                /\ wake' = (wake \/ (Asked(w) /\ ended))
                /\ UNCHANGED <<start, flagVars, ended, mu, call>>

Lock(w) == /\ at[w] = "enter" /\ mu = "free"
           /\ mu' = w /\ at' = [at EXCEPT ![w] = "locked"]
           /\ UNCHANGED <<start, flagVars, ended, call, wake>>

Look(w) == /\ at[w] = "locked"
           /\ IF MustWait(w) THEN at' = [at EXCEPT ![w] = "toSleep"] /\ UNCHANGED mu
                             ELSE at' = [at EXCEPT ![w] = "go"] /\ mu' = "free"
           /\ UNCHANGED <<start, flagVars, ended, call, wake>>

Sleep(w) == /\ at[w] = "toSleep" /\ mu' = "free"
            /\ at' = [at EXCEPT ![w] = "asleep"]
            /\ UNCHANGED <<start, flagVars, ended, call, wake>>

WakeAll == at' = [w \in Waiters |-> IF at[w] = "asleep" THEN "enter" ELSE at[w]]

\* wakeOnDone broadcasts under the lock.
WakeMay == mu = "free"

WakeOnDone == /\ wake /\ WakeMay
              /\ wake' = FALSE /\ WakeAll
              /\ UNCHANGED <<start, flagVars, ended, mu, call>>

-----------------------------------------------------------------------------
(* The commands.                                                           *)

ThenDoes(k, next) == call' = [call EXCEPT ![k] = next]

\* The user's commands come one at a time; Pause has no lock and no effect before the run started.
PauseRun == /\ call["user"] = "idle" /\ start \in {"begun", "loop"}
         /\ isPaused' = TRUE
         /\ UNCHANGED <<start, shouldStop, isHeld, ended, at, mu, call, wake>>

Ask(k, what) == /\ call[k] = "idle" /\ start # "over" /\ ThenDoes(k, what)
                /\ UNCHANGED <<start, flagVars, ended, at, mu, wake>>

\* A waiter between its check and its Wait must not miss the broadcast.
MayStore_Always == TRUE
MayStore == mu = "free"

ResumeRun == /\ call["user"] = "resume" /\ MayStore
          /\ isPaused' = FALSE /\ ThenDoes("user", "broadcast")
          /\ UNCHANGED <<start, shouldStop, isHeld, ended, at, mu, wake>>

StopSets(k) == /\ call[k] = "stop" /\ MayStore
               /\ shouldStop' = TRUE /\ isPaused' = FALSE /\ ThenDoes(k, "cancel")
               /\ UNCHANGED <<start, isHeld, ended, at, mu, wake>>

StopCancels(k) == /\ call[k] = "cancel"
                  /\ ended' = (ended \/ start # "new") /\ ThenDoes(k, "broadcast")
                  /\ wake' = (wake \/ (start # "new" /\ Registered # {}))
                  /\ UNCHANGED <<start, flagVars, at, mu>>

Hold == /\ call["agent"] = "hold" /\ MayStore
        /\ isHeld' = TRUE /\ ThenDoes("agent", "idle")
        /\ UNCHANGED <<start, shouldStop, isPaused, ended, at, mu, wake>>

EndHold == /\ call["agent"] = "release" /\ MayStore
           /\ isHeld' = FALSE /\ ThenDoes("agent", "broadcast")
           /\ UNCHANGED <<start, shouldStop, isPaused, ended, at, mu, wake>>

Broadcast(k) == /\ call[k] = "broadcast" /\ ThenDoes(k, "idle") /\ WakeAll
                /\ UNCHANGED <<start, flagVars, ended, mu, wake>>

-----------------------------------------------------------------------------

Waits(w) == FirstLook(w) \/ Lock(w) \/ Look(w) \/ Sleep(w)
Carries(k) == \/ StopSets(k) \/ StopCancels(k) \/ Broadcast(k)
              \/ (k = "user" /\ ResumeRun) \/ (k = "agent" /\ (Hold \/ EndHold))
Commands == PauseRun \/ Ask("user", "resume") \/ Ask("user", "stop") \/ Ask("agent", "hold") \/ Ask("agent", "release")
            \/ Ask("timer", "stop")

ControlNext == \/ initRun \/ ResumeCheckpoint \/ LoopEnds
               \/ (\E r \in Requesters : StartRequest(r) \/ RequestEnds(r))
               \/ (\E w \in Waiters : Waits(w))
               \/ WakeOnDone \/ (\E k \in Commanders : Carries(k)) \/ Commands

ControlSpec == ControlInit /\ [][ControlNext]_controlVars

-----------------------------------------------------------------------------

\* The types of the flags, of the waiters and of the callers; one owner of the lock.
ControlTypeOK ==
  /\ start \in {"new", "begun", "loop", "over"}
  /\ shouldStop \in BOOLEAN /\ isPaused \in BOOLEAN /\ isHeld \in BOOLEAN /\ ended \in BOOLEAN
  /\ at \in [Waiters -> {"none", "work", "enter", "locked", "toSleep", "asleep", "go"}]
  /\ mu \in Waiters \cup {"free"}
  /\ \A w \in Waiters : (at[w] \in {"locked", "toSleep"}) <=> (mu = w)
  /\ call \in [Commanders -> {"idle", "resume", "stop", "cancel", "hold", "release", "broadcast"}]
  /\ wake \in BOOLEAN

\* No wakeup is lost: a waiter that sleeps, or is about to, although nothing makes it wait has a
\* broadcast coming (lifecycle.go: a waiter between its check and its Wait must not miss it).
NoLostWakeup == \A w \in Waiters :
  (at[w] \in {"toSleep", "asleep"} /\ ~MustWait(w)) =>
    wake \/ \E k \in Commanders : call[k] \in {"cancel", "broadcast"}

=============================================================================
