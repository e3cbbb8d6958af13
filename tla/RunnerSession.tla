---------------------------- MODULE RunnerSession ----------------------------
(***************************************************************************)
(* The session a scan's requests share with its target: requests take the  *)
(* config's headers and then its variables, one that is refused asks for a *)
(* new login, and the logins run one at a time. A login sets the variables *)
(* as its steps go, and the headers and cookies only once it succeeded.    *)
(* A session is the number of the login it comes from.                     *)
(***************************************************************************)
EXTENDS Naturals

CONSTANTS
  Calls,      \* the goroutines that send requests
  HasProbe,   \* auth_probe_url is set
  MaxLogins,  \* bound: logins
  MaxEnds     \* bound: sessions the target ends

ASSUME SessionAssumption == "nobody" \notin Calls /\ HasProbe \in BOOLEAN /\ MaxLogins \in Nat /\ MaxEnds \in Nat

VARIABLES
  headers, variables,  \* GlobalHeaders and Cookies; Variables: the logins they come from
  valid,     \* the sessions the target accepts
  ends, logins,
  doing,     \* what each goroutine does: [at, headers, variables, retried]
  reauthMu,  \* who holds it
  probed,    \* lastProbeTime is less than five seconds ago
  renewed    \* history: how often a login replaced each session

sessionVars == <<headers, variables, valid, ends, logins, doing, reauthMu, probed, renewed>>

Sessions == 0..MaxLogins
NoOwner == "nobody"
Fresh == [at |-> "idle", headers |-> 0, variables |-> 0, retried |-> FALSE]

SessionInit == /\ headers = 0 /\ variables = 0 /\ valid = {0} /\ ends = 0 /\ logins = 0
               /\ doing = [c \in Calls |-> Fresh] /\ reauthMu = NoOwner /\ probed = FALSE
               /\ renewed = [s \in Sessions |-> 0]

Moves(c, place) == doing' = [doing EXCEPT ![c].at = place]

\* fuzzEndpoint passes the headers; sendRequest fills in the variables.
TakeHeaders(c) == /\ doing[c].at = "idle"
                  /\ doing' = [doing EXCEPT ![c] = [Fresh EXCEPT !.at = "headers", !.headers = headers]]
                  /\ UNCHANGED <<headers, variables, valid, ends, logins, reauthMu, probed, renewed>>

TakeVariables(c) == /\ doing[c].at = "headers"
                    /\ doing' = [doing EXCEPT ![c].at = "sent", ![c].variables = variables]
                    /\ UNCHANGED <<headers, variables, valid, ends, logins, reauthMu, probed, renewed>>

Accepted(c) == /\ doing[c].at = "sent" /\ doing[c].headers \in valid
               /\ Moves(c, "idle")
               /\ UNCHANGED <<headers, variables, valid, ends, logins, reauthMu, probed, renewed>>

\* isSessionExpired: a refusal looks the same whether the session ended or the target just refuses.
Refused(c) == /\ doing[c].at = "sent"
              /\ Moves(c, IF doing[c].retried THEN "idle" ELSE "wants")
              /\ UNCHANGED <<headers, variables, valid, ends, logins, reauthMu, probed, renewed>>

-----------------------------------------------------------------------------
(* MaybeReauthenticate, under reauthMu.                                    *)

LockSession(c) == /\ doing[c].at = "wants" /\ reauthMu = NoOwner /\ reauthMu' = c
                  /\ Moves(c, "check")
                  /\ UNCHANGED <<headers, variables, valid, ends, logins, probed, renewed>>

Unlock(c, d) == reauthMu' = NoOwner /\ doing' = [doing EXCEPT ![c] = d]

\* Another request's login has replaced the session this one failed with.
IsFresh_Never(c) == FALSE
IsFresh(c) == headers # doing[c].headers

\* The retry is sent with the new headers; its variables are filled in again, outside the lock.
UseFresh(c) == /\ doing[c].at = "check" /\ IsFresh(c)
               /\ Unlock(c, [doing[c] EXCEPT !.at = "headers", !.headers = headers, !.retried = TRUE])
               /\ UNCHANGED <<headers, variables, valid, ends, logins, probed, renewed>>

\* The probe, or one made lately, says that the session is alive: no login, no retry.
TrustProbe(c) == /\ doing[c].at = "check" /\ ~IsFresh(c) /\ HasProbe
                 /\ probed \/ headers \in valid
                 /\ probed' = TRUE
                 /\ Unlock(c, Fresh)
                 /\ UNCHANGED <<headers, variables, valid, ends, logins, renewed>>

StartLogin(c) == /\ doing[c].at = "check" /\ ~IsFresh(c)
                 /\ ~(HasProbe /\ probed)
                 /\ Moves(c, "login")
                 /\ UNCHANGED <<headers, variables, valid, ends, logins, reauthMu, probed, renewed>>

\* A step of ExecuteAuthSequence extracts variables, for everyone at once.
LoginStep(c) == /\ doing[c].at = "login" /\ logins < MaxLogins
                /\ logins' = logins + 1 /\ variables' = logins + 1
                /\ Moves(c, "extracted")
                /\ UNCHANGED <<headers, valid, ends, reauthMu, probed, renewed>>

LoginSucceeds(c) ==
  /\ doing[c].at = "extracted"
  /\ headers' = logins /\ valid' = valid \cup {logins} /\ probed' = TRUE
  /\ renewed' = [renewed EXCEPT ![doing[c].headers] = @ + 1]
  /\ Unlock(c, [doing[c] EXCEPT !.at = "headers", !.headers = logins, !.retried = TRUE])
  /\ UNCHANGED <<variables, ends, logins>>

LoginFails(c) == /\ doing[c].at \in {"login", "extracted"}
                 /\ Unlock(c, Fresh)
                 /\ UNCHANGED <<headers, variables, valid, ends, logins, probed, renewed>>

-----------------------------------------------------------------------------

SessionEnds == /\ ends < MaxEnds /\ ends' = ends + 1 /\ valid' = {}
               /\ UNCHANGED <<headers, variables, logins, doing, reauthMu, probed, renewed>>

ProbeAges == /\ probed /\ probed' = FALSE
             /\ UNCHANGED <<headers, variables, valid, ends, logins, doing, reauthMu, renewed>>

Sends(c) == TakeHeaders(c) \/ TakeVariables(c) \/ Accepted(c) \/ Refused(c)
Renews(c) == \/ LockSession(c) \/ UseFresh(c) \/ TrustProbe(c) \/ StartLogin(c)
             \/ LoginStep(c) \/ LoginSucceeds(c) \/ LoginFails(c)

SessionNext == (\E c \in Calls : Sends(c) \/ Renews(c)) \/ SessionEnds \/ ProbeAges

SessionSpec == SessionInit /\ [][SessionNext]_sessionVars

-----------------------------------------------------------------------------

\* The types, and that the holder of the lock is the one goroutine inside it.
SessionTypeOK ==
  /\ headers \in Sessions /\ variables \in Sessions /\ valid \subseteq Sessions
  /\ ends \in 0..MaxEnds /\ logins \in Sessions /\ probed \in BOOLEAN
  /\ doing \in [Calls -> [at : {"idle", "headers", "sent", "wants", "check", "login", "extracted"},
                          headers : Sessions, variables : Sessions, retried : BOOLEAN]]
  /\ reauthMu \in Calls \cup {NoOwner}
  /\ \A c \in Calls : (doing[c].at \in {"check", "login", "extracted"}) <=> (reauthMu = c)
  /\ renewed \in [Sessions -> Nat]

\* However many requests fail with a session, it is replaced by one login: the others find it
\* replaced and retry with what they find (the double check of MaybeReauthenticate).
OneLoginPerSession == \A s \in Sessions : renewed[s] <= 1

=============================================================================
