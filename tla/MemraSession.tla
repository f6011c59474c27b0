---------------------------- MODULE MemraSession ----------------------------
(***************************************************************************)
(* The client of Memra (shared/context/memra.py), one object that all      *)
(* threads share.  The token is renewed under a lock; the session id is    *)
(* read and written without one.  A call whose session the server does not *)
(* know clears the id and is tried once more in a new session.             *)
(* Sessions are numbered; 0 stands for none.                               *)
(***************************************************************************)
EXTENDS Naturals, FiniteSets

CONSTANTS
  Thread,
  MaxSessions,   \* bound: sessions the server opens
  MaxCalls,      \* bound: calls made
  MaxMemraFaults \* bound: expired tokens, sessions that the server drops, errors

ASSUME MemraAssumption == MaxSessions \in Nat /\ MaxCalls \in Nat /\ MaxMemraFaults \in Nat

VARIABLES
  expired,       \* the token has to be renewed before it is used again
  session,       \* self._session_id
  known,         \* the sessions that the server knows
  opened, memCalls, memFaults,
  memCall        \* thread -> where its call is, the session it sends, and what has happened

memraVars == <<expired, session, known, opened, memCalls, memFaults, memCall>>

Session      == 0..MaxSessions
NoMemraCall  == [at |-> "idle", sends |-> 0, retried |-> FALSE, alone |-> TRUE, spared |-> TRUE]

MemraTypeOK ==
  /\ expired \in BOOLEAN /\ session \in Session /\ known \subseteq 1..MaxSessions
  /\ opened \in Session /\ memCalls \in 0..MaxCalls /\ memFaults \in 0..MaxMemraFaults
  /\ memCall \in [Thread -> [at : {"idle", "ensure", "opening", "call", "sent", "done", "failed"},
                             sends : Session, retried : BOOLEAN, alone : BOOLEAN, spared : BOOLEAN]]

MemraInit ==
  /\ expired = TRUE /\ session = 0 /\ known = {}
  /\ opened = 0 /\ memCalls = 0 /\ memFaults = 0
  /\ memCall = [t \in Thread |-> NoMemraCall]

Running == {t \in Thread : memCall[t].at \notin {"idle", "done", "failed"}}

\* A fault is noted in the calls that run.
MemraFault ==
  /\ memFaults < MaxMemraFaults /\ memFaults' = memFaults + 1
  /\ memCall' = [t \in Thread |-> [memCall[t] EXCEPT !.spared = @ /\ t \notin Running]]

-----------------------------------------------------------------------------
(* call_tool                                                               *)

Begin(t) ==
  /\ memCall[t].at = "idle" /\ memCalls < MaxCalls /\ memCalls' = memCalls + 1
  /\ memCall' = [u \in Thread |-> IF u = t THEN [NoMemraCall EXCEPT !.at = "ensure", !.alone = Running = {}]
                                  ELSE [memCall[u] EXCEPT !.alone = @ /\ u \notin Running]]
  /\ UNCHANGED <<expired, session, known, opened, memFaults>>

HasSession(t) ==
  /\ memCall[t].at = "ensure" /\ session # 0
  /\ memCall' = [memCall EXCEPT ![t].at = "call"]
  /\ UNCHANGED <<expired, session, known, opened, memCalls, memFaults>>

\* _headers: a renewed token drops the session, whichever thread had opened it.
Renewed == IF expired THEN 0 ELSE session

\* initialize: the server opens a session, and answers it to this thread.
Initialize(t) ==
  /\ memCall[t].at = "ensure" /\ session = 0 /\ opened < MaxSessions
  /\ expired' = FALSE /\ session' = Renewed
  /\ opened' = opened + 1 /\ known' = known \union {opened + 1}
  /\ memCall' = [memCall EXCEPT ![t].at = "opening", ![t].sends = opened + 1]
  /\ UNCHANGED <<memCalls, memFaults>>

InitializeFails(t) ==
  /\ memCall[t].at = "ensure" /\ session = 0
  /\ memFaults < MaxMemraFaults /\ memFaults' = memFaults + 1
  /\ expired' = FALSE /\ session' = Renewed
  /\ memCall' = [memCall EXCEPT ![t].at = "failed", ![t].spared = FALSE]
  /\ UNCHANGED <<known, opened, memCalls>>

\* The answer is taken over an id that another thread may have set since; the notification
\* that follows changes nothing unless it renews the token.
Opened(t) ==
  /\ memCall[t].at = "opening"
  /\ session' = IF expired THEN 0 ELSE memCall[t].sends
  /\ expired' = FALSE
  /\ memCall' = [memCall EXCEPT ![t].at = "call"]
  /\ UNCHANGED <<known, opened, memCalls, memFaults>>

\* tools/call goes out with the session of this moment.  A token that has to be renewed here
\* takes the session with it, and the call goes out without one: its retry is spent.
SendCall(t) ==
  /\ memCall[t].at = "call"
  /\ expired' = FALSE /\ session' = Renewed
  /\ memCall' = [memCall EXCEPT ![t].at = "sent", ![t].sends = Renewed]
  /\ UNCHANGED <<known, opened, memCalls, memFaults>>

Accepted(t) ==
  /\ memCall[t].at = "sent" /\ memCall[t].sends \in known
  /\ memCall' = [memCall EXCEPT ![t].at = "done"]
  /\ UNCHANGED <<expired, session, known, opened, memCalls, memFaults>>

\* Mutant: the retry keeps the id that the server has refused.
Retry_KeepsSession(t) ==
  /\ memCall[t].at = "sent" /\ memCall[t].sends \notin known /\ ~memCall[t].retried
  /\ memCall' = [memCall EXCEPT ![t].at = "ensure", ![t].retried = TRUE, ![t].alone = Running = {t}, ![t].spared = TRUE]
  /\ UNCHANGED <<expired, session, known, opened, memCalls, memFaults>>

\* A 400 or a 404 clears the id, even one that another thread has set since, and the call is
\* made once more.  What happens from here on is what can make it fail.
Retry(t) ==
  /\ memCall[t].at = "sent" /\ memCall[t].sends \notin known /\ ~memCall[t].retried
  /\ session' = 0
  /\ memCall' = [memCall EXCEPT ![t].at = "ensure", ![t].retried = TRUE, ![t].alone = Running = {t}, ![t].spared = TRUE]
  /\ UNCHANGED <<expired, known, opened, memCalls, memFaults>>

GiveUp(t) ==
  /\ memCall[t].at = "sent" /\ memCall[t].sends \notin known /\ memCall[t].retried
  /\ memCall' = [memCall EXCEPT ![t].at = "failed"]
  /\ UNCHANGED <<expired, session, known, opened, memCalls, memFaults>>

EndCall(t) ==
  /\ memCall[t].at \in {"done", "failed"}
  /\ memCall' = [memCall EXCEPT ![t] = NoMemraCall]
  /\ UNCHANGED <<expired, session, known, opened, memCalls, memFaults>>

-----------------------------------------------------------------------------
(* The server *)

TokenExpires ==
  /\ ~expired /\ expired' = TRUE /\ MemraFault
  /\ UNCHANGED <<session, known, opened, memCalls>>

DropSession(s) ==
  /\ s \in known /\ known' = known \ {s} /\ MemraFault
  /\ UNCHANGED <<expired, session, opened, memCalls>>

MemraNext ==
  \/ \E t \in Thread : \/ Begin(t) \/ HasSession(t) \/ Initialize(t) \/ InitializeFails(t) \/ Opened(t)
                       \/ SendCall(t) \/ Accepted(t) \/ Retry(t) \/ GiveUp(t) \/ EndCall(t)
  \/ TokenExpires
  \/ \E s \in 1..MaxSessions : DropSession(s)

MemraSpec == MemraInit /\ [][MemraNext]_memraVars

-----------------------------------------------------------------------------
(* Properties                                                              *)

\* "Re-initializes the session once if the server reports it expired": however many sessions
\* and tokens were lost before its retry, a call fails only if one more is lost after it, or
\* if another thread's call is under way as well.
ExpiryIsRecovered == \A t \in Thread : memCall[t].at = "failed" => ~(memCall[t].alone /\ memCall[t].spared)
=============================================================================
