------------------------------ MODULE ScanTimer ------------------------------
(***************************************************************************)
(* The timer that bounds a scan's duration but not the time the agent held *)
(* it: Hold and Release keep the books, the timer's goroutine reads them,  *)
(* and sleeps again for what is left.                                      *)
(***************************************************************************)
EXTENDS Naturals

CONSTANTS
  MaxDuration,  \* max_scan_duration_min, in ticks
  MaxClock      \* bound: ticks of the clock

ASSUME ScanTimerAssumption == MaxDuration \in Nat \ {0} /\ MaxClock \in Nat

VARIABLES
  clock,
  holds, heldSince, heldTotal,  \* held, and the runner's account of it
  timer,   \* off, on, read (the time since started, not yet heldFor), stopped
  due, started, heldBefore,
  passed,  \* time.Since(started), as the goroutine read it
  unheld   \* history: ticks since the start in which the scan was not held

scanTimerVars == <<clock, holds, heldSince, heldTotal, timer, due, started, heldBefore, passed, unheld>>

TimerInit == /\ clock = 0 /\ holds \in BOOLEAN /\ heldSince = 0 /\ heldTotal = 0
             /\ timer = "off" /\ due = 0 /\ started = 0 /\ heldBefore = 0 /\ passed = 0 /\ unheld = 0

ClockTicks == /\ clock < MaxClock /\ clock' = clock + 1
              /\ unheld' = IF timer # "off" /\ ~holds THEN unheld + 1 ELSE unheld
              /\ UNCHANGED <<holds, heldSince, heldTotal, timer, due, started, heldBefore, passed>>

\* A second Hold does not start the account again.
HoldFrom_Now == clock
HoldFrom == IF holds THEN heldSince ELSE clock

TimedHold == /\ holds' = TRUE /\ heldSince' = HoldFrom
             /\ UNCHANGED <<clock, heldTotal, timer, due, started, heldBefore, passed, unheld>>

heldFor == heldTotal + (IF holds THEN clock - heldSince ELSE 0)

TimedRelease == /\ holds' = FALSE /\ heldTotal' = heldFor
                /\ UNCHANGED <<clock, heldSince, timer, due, started, heldBefore, passed, unheld>>

StartTimer == /\ timer = "off" /\ timer' = "on"
              /\ started' = clock /\ heldBefore' = heldFor /\ due' = clock + MaxDuration
              /\ UNCHANGED <<clock, holds, heldSince, heldTotal, passed, unheld>>

TimerReads == /\ timer = "on" /\ clock >= due
              /\ timer' = "read" /\ passed' = clock - started
              /\ UNCHANGED <<clock, holds, heldSince, heldTotal, due, started, heldBefore, unheld>>

TimerDecides ==
  /\ timer = "read"
  /\ IF passed + heldBefore < heldFor + MaxDuration
     THEN timer' = "on" /\ due' = clock + (MaxDuration + heldFor - passed - heldBefore)
     ELSE timer' = "stopped" /\ UNCHANGED due
  /\ UNCHANGED <<clock, holds, heldSince, heldTotal, started, heldBefore, passed, unheld>>

TimerNext == ClockTicks \/ TimedHold \/ TimedRelease \/ StartTimer \/ TimerReads \/ TimerDecides

TimerSpec == TimerInit /\ [][TimerNext]_scanTimerVars

-----------------------------------------------------------------------------

\* The scan is stopped for its duration only after running that long unheld, however often and
\* whenever it was held, also between the timer's two readings (Start's timer, Hold, heldFor).
HeldTimeNotCounted == timer = "stopped" => unheld >= MaxDuration

=============================================================================
