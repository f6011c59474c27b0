----------------------------- MODULE CodexLogin -----------------------------
(***************************************************************************)
(* Connecting and disconnecting the shared Codex login from the console.   *)
(* Connect spawns `codex login --device-auth`, which goes on polling after *)
(* the request has answered; a reader thread waits for its end.            *)
(***************************************************************************)
EXTENDS Naturals, FiniteSets

CONSTANTS
  LoginChild,     \* login children, each spawned once
  LoginRequest,   \* console requests handled at the same time
  MaxLoginFaults  \* bound on spawns and logouts that fail

VARIABLES
  loggedIn,    \* what `codex login status` says
  login,       \* [LoginChild -> "new", "polling", "exited", "reaped"]
  current,     \* _login_proc, NoChild for None
  loginReq,    \* [LoginRequest -> where it is]
  hands,       \* [LoginRequest -> the child a disconnect has taken]
  loginFaults  \* faults so far

loginVars == << loggedIn, login, current, loginReq, hands, loginFaults >>

NoChild == "no child"

\* None is no child.
ASSUME LoginAssumption == NoChild \notin LoginChild /\ MaxLoginFaults \in Nat

LoginInit ==
  /\ loggedIn \in BOOLEAN
  /\ login = [c \in LoginChild |-> "new"]
  /\ current = NoChild
  /\ loginReq = [q \in LoginRequest |-> "idle"]
  /\ hands = [q \in LoginRequest |-> NoChild]
  /\ loginFaults = 0

Polling         == {c \in LoginChild : login[c] = "polling"}
GoesTo(q, step) == loginReq' = [loginReq EXCEPT ![q] = step]
LoginFails      == loginFaults < MaxLoginFaults /\ loginFaults' = loginFaults + 1
KilledLogin(c)  == IF c \in Polling THEN [login EXCEPT ![c] = "exited"] ELSE login

-----------------------------------------------------------------------------
(* start_codex_login                                                       *)

\* "already connected" ends the request.
CheckLogin(q) ==
  /\ loginReq[q] = "idle" /\ ~loggedIn
  /\ GoesTo(q, "spawn")
  /\ UNCHANGED << loggedIn, login, current, hands, loginFaults >>

\* Mutant: the child in flight is left running.
SpawnLogin_NoKill(q, c) ==
  /\ loginReq[q] = "spawn" /\ login[c] = "new"
  /\ login' = [login EXCEPT ![c] = "polling"]
  /\ current' = c
  /\ GoesTo(q, "wait")
  /\ UNCHANGED << loggedIn, hands, loginFaults >>

\* Under the lock: the child in flight is killed, and the new one takes its place.
SpawnLogin(q, c) ==
  /\ loginReq[q] = "spawn" /\ login[c] = "new"
  /\ login' = [KilledLogin(current) EXCEPT ![c] = "polling"]
  /\ current' = c
  /\ GoesTo(q, "wait")
  /\ UNCHANGED << loggedIn, hands, loginFaults >>

\* OSError: the old child is dead and stays the current one.
SpawnFails(q) ==
  /\ loginReq[q] = "spawn" /\ LoginFails
  /\ login' = KilledLogin(current)
  /\ GoesTo(q, "idle")
  /\ UNCHANGED << loggedIn, current, hands >>

\* The link and the code, the end of the child, or 25 seconds without either: the
\* request is answered, and the child is left to itself.
Answer(q) == /\ loginReq[q] = "wait" /\ GoesTo(q, "idle")
             /\ UNCHANGED << loggedIn, login, current, hands, loginFaults >>

\* Somebody enters the code: the CLI stores the login and exits.
Authorized(c) ==
  /\ c \in Polling
  /\ loggedIn' = TRUE
  /\ login' = [login EXCEPT ![c] = "exited"]
  /\ UNCHANGED << current, loginReq, hands, loginFaults >>

\* The code expires, or the CLI fails.
GivesUp(c) ==
  /\ c \in Polling
  /\ login' = [login EXCEPT ![c] = "exited"]
  /\ UNCHANGED << loggedIn, current, loginReq, hands, loginFaults >>

\* Mutant: the reader does not look whose turn it is.
Reap_Any(c) ==
  /\ login[c] = "exited"
  /\ login' = [login EXCEPT ![c] = "reaped"]
  /\ current' = NoChild
  /\ UNCHANGED << loggedIn, loginReq, hands, loginFaults >>

\* _log_result, under the lock: only its own child is forgotten.
Reap(c) ==
  /\ login[c] = "exited"
  /\ login' = [login EXCEPT ![c] = "reaped"]
  /\ current' = IF current = c THEN NoChild ELSE current
  /\ UNCHANGED << loggedIn, loginReq, hands, loginFaults >>

-----------------------------------------------------------------------------
(* disconnect_codex_login                                                  *)

TakeChild(q) ==
  /\ loginReq[q] = "idle"
  /\ hands' = [hands EXCEPT ![q] = current]
  /\ current' = NoChild
  /\ GoesTo(q, "kill")
  /\ UNCHANGED << loggedIn, login, loginFaults >>

KillChild(q) ==
  /\ loginReq[q] = "kill"
  /\ login' = KilledLogin(hands[q])
  /\ hands' = [hands EXCEPT ![q] = NoChild]
  /\ GoesTo(q, "logout")
  /\ UNCHANGED << loggedIn, current, loginFaults >>

Logout(q) ==
  /\ loginReq[q] = "logout"
  /\ loggedIn' = FALSE
  /\ GoesTo(q, "idle")
  /\ UNCHANGED << login, current, hands, loginFaults >>

\* A failed `codex logout` is passed over: the login stays.
LogoutFails(q) ==
  /\ loginReq[q] = "logout" /\ LoginFails /\ GoesTo(q, "idle")
  /\ UNCHANGED << loggedIn, login, current, hands >>

-----------------------------------------------------------------------------
LoginNext ==
  \/ \E q \in LoginRequest : \/ CheckLogin(q) \/ SpawnFails(q) \/ Answer(q)
                        \/ TakeChild(q) \/ KillChild(q)
                        \/ Logout(q) \/ LogoutFails(q)
                        \/ \E c \in LoginChild : SpawnLogin(q, c)
  \/ \E c \in LoginChild : Authorized(c) \/ GivesUp(c) \/ Reap(c)

LoginSpec == LoginInit /\ [][LoginNext]_loginVars

-----------------------------------------------------------------------------
(* Properties *)

\* Type invariant.
LoginTypeOK ==
  /\ loggedIn \in BOOLEAN
  /\ login \in [LoginChild -> {"new", "polling", "exited", "reaped"}]
  /\ current \in LoginChild \union {NoChild}
  /\ loginReq \in [LoginRequest -> {"idle", "spawn", "wait", "kill", "logout"}]
  /\ hands \in [LoginRequest -> LoginChild \union {NoChild}]
  /\ loginFaults \in 0 .. MaxLoginFaults

\* A child that still polls, and could connect an account, is the current one or
\* in the hands of a disconnect about to kill it: nothing an admin has replaced or
\* disconnected comes back, however starts, ends and disconnects interleave.
NoStrayLogin == \A c \in Polling : c = current \/ \E q \in LoginRequest : hands[q] = c
=============================================================================
