------------------------------ MODULE ChatTurns ------------------------------
(***************************************************************************)
(* Chat turns: CodexExecChat.invoke mints a bearer ticket for its user,    *)
(* waits for its slots in the guard (CodexConcurrency), runs `codex exec`, *)
(* and the tools the model calls come back to the MCP server with the      *)
(* ticket.  A turn without a user has neither ticket nor tools.  Time is   *)
(* in ticks; a thread that can go on takes no time.                        *)
(***************************************************************************)
EXTENDS CodexConcurrency

CONSTANTS
  Ttl,       \* bott_mcp_ticket_ttl_s
  Timeout    \* codex_chat_timeout_s

ASSUME ClockAssumption == Ttl \in Nat /\ Timeout \in Nat \ {0}

VARIABLES
  age,       \* [Turn -> ticks since the turn's ticket was minted]
  ran,       \* [Turn -> ticks since its codex exec was spawned]
  serving    \* [Turn -> who the MCP server handles the turn's tool call for]

chatVars == << pc, orgFree, userFree, age, ran, serving >>

NoOne  == "no one"
MaxAge == Ttl + Timeout + 1

ChatInit == /\ Init
            /\ age = [t \in Turn |-> 0] /\ ran = [t \in Turn |-> 0]
            /\ serving = [t \in Turn |-> NoOne]

-----------------------------------------------------------------------------
(* The turn                                                                *)

\* The ticket is minted here, before any slot is waited for.
Invoke(t) == Arrive(t) /\ UNCHANGED << age, ran, serving >>

WaitForSlots(t) == /\ AcquireOrg(t) \/ AcquireUser(t)
                   /\ UNCHANGED << age, ran, serving >>

\* codex exec answers or fails, or is killed at its timeout.
RunCodex(t) == CallEnds(t) /\ UNCHANGED << age, ran, serving >>

\* The clocks of a turn that is over are of no use any more.
GiveBack(t) == /\ \/ ReleaseUser(t) /\ UNCHANGED << age, ran >>
                  \/ /\ ReleaseOrg(t)
                     /\ age' = [age EXCEPT ![t] = 0] /\ ran' = [ran EXCEPT ![t] = 0]
               /\ UNCHANGED serving

-----------------------------------------------------------------------------
(* The MCP server                                                          *)

\* Mutant: the identity is a module attribute, that of the last request.
Authorize_Shared(t) ==
  /\ pc[t] = "running" /\ Known(t) /\ age[t] <= Ttl /\ serving[t] = NoOne
  /\ serving' = [o \in Turn |-> IF o = t \/ serving[o] # NoOne THEN UserOf[t] ELSE NoOne]
  /\ UNCHANGED << pc, orgFree, userFree, age, ran >>

\* The bearer check of a tool call sets the identity of its request alone; with an
\* expired ticket the call is answered 401 and nothing is set.
Authorize(t) ==
  /\ pc[t] = "running" /\ Known(t) /\ age[t] <= Ttl /\ serving[t] = NoOne
  /\ serving' = [serving EXCEPT ![t] = UserOf[t]]
  /\ UNCHANGED << pc, orgFree, userFree, age, ran >>

\* dispatch runs the tool for that identity, whatever the model's arguments say,
\* and finishes it also when the turn has been killed meanwhile.
Dispatch(t) ==
  /\ serving[t] # NoOne
  /\ serving' = [serving EXCEPT ![t] = NoOne]
  /\ UNCHANGED << pc, orgFree, userFree, age, ran >>

-----------------------------------------------------------------------------
Settled == \A t \in Turn : ~CanTake(t) /\ pc[t] \notin {"leave user", "leave org"}

\* Mutant: a child is not killed at its timeout.
Tick_NoTimeout ==
  /\ Settled /\ At("running") # {}
  /\ age' = [t \in Turn |-> IF pc[t] \in {"new", "done"} \/ age[t] = MaxAge
                            THEN age[t] ELSE age[t] + 1]
  /\ UNCHANGED << pc, orgFree, userFree, ran, serving >>

Tick ==
  /\ Settled /\ At("running") # {} /\ \A t \in At("running") : ran[t] < Timeout
  /\ age' = [t \in Turn |-> IF pc[t] \in {"new", "done"} \/ age[t] = MaxAge
                            THEN age[t] ELSE age[t] + 1]
  /\ ran' = [t \in Turn |-> IF pc[t] = "running" THEN ran[t] + 1 ELSE ran[t]]
  /\ UNCHANGED << pc, orgFree, userFree, serving >>

ChatStep(t) == \/ WaitForSlots(t) \/ RunCodex(t) \/ GiveBack(t)
               \/ Authorize(t) \/ Dispatch(t)
ChatNext    == Tick \/ \E t \in Turn : Invoke(t) \/ ChatStep(t)

ChatSpec     == ChatInit /\ [][ChatNext]_chatVars
ChatFairness == \A t \in Turn : WF_chatVars(WaitForSlots(t) \/ RunCodex(t) \/ GiveBack(t))

-----------------------------------------------------------------------------
(* Properties *)

\* Type invariant, with that of the guard.
ChatTypeOK == /\ TypeOK
              /\ age \in [Turn -> 0 .. MaxAge]
              /\ ran \in [Turn -> 0 .. Timeout]
              /\ serving \in [Turn -> User \union {NoOne}]

\* "binds every tool call in that invocation to the verified Slack identity"
\* (tickets.py): however the calls of concurrent turns interleave at the server, a
\* tool runs for the user whose turn called it, and a turn without one calls none.
ToolsRunAsTheCaller == \A t \in Turn : serving[t] \in {NoOne} \union ({UserOf[t]} \intersect User)

\* A ticket outlasts the waiting and the running of its turn, in whatever order the
\* slots are handed out, if its lifetime covers as many timeouts as there are turns.
TicketLastsTheTurn ==
  Ttl >= Timeout * Cardinality(Turn) => \A t \in At("running") : age[t] <= Ttl

\* The guard of the Codex login loses no slot, respects both caps, and idles
\* for nobody who waits.
GuardHolds == SlotsConserved /\ CapsRespected /\ BusyWhenBlocked

\* The guard's promises are kept to the turns, a tool call acts as its turn's own user, and
\* a ticket is good for the turn it is for.
TurnsHold == GuardHolds /\ ToolsRunAsTheCaller /\ TicketLastsTheTurn

\* "Callers that exceed a cap simply wait for a slot to free" (codex_concurrency): nothing
\* in a turn holds a slot for ever, so that whoever waits is served and, the turns
\* being finitely many, the guard comes to rest.
AtRest        == \A t \in Turn : pc[t] \in {"new", "done"}
EveryTurnEnds == ~AtRest ~> AtRest
=============================================================================
