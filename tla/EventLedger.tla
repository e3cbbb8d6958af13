---------------------------- MODULE EventLedger ----------------------------
(***************************************************************************)
(* What acknowledged delivery promises about the events of a run, whatever *)
(* happens to connections and processes: an event is confirmed to the agent*)
(* only once it is safe, what is safe stays safe, and within an            *)
(* execution what is confirmed stays confirmed. Delivery implements it.    *)
(***************************************************************************)
CONSTANT Event

VARIABLES
  sent,      \* events the agent numbered and queued
  safe,      \* events that need no replay any more
  confirmed  \* events the agent let go of, of its current execution

vars == <<sent, safe, confirmed>>

Init == sent = {} /\ safe = {} /\ confirmed = {}

Send ==
  \E e \in Event \ sent : sent' = sent \cup {e} /\ UNCHANGED <<safe, confirmed>>

Keep ==
  \E S \in SUBSET (sent \ safe) : safe' = safe \cup S /\ UNCHANGED <<sent, confirmed>>

Confirm ==
  \E S \in SUBSET (safe \ confirmed) : confirmed' = confirmed \cup S /\ UNCHANGED <<sent, safe>>

\* A new execution starts, or the agent forgets the run.
Forget == confirmed' = {} /\ UNCHANGED <<sent, safe>>

Next == Send \/ Keep \/ Confirm \/ Forget

Spec == Init /\ [][Next]_vars

=============================================================================
