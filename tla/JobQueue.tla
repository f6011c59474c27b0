------------------------------ MODULE JobQueue ------------------------------
(***************************************************************************)
(* The Postgres job queue of bott.shared.persistence.queue and the worker  *)
(* loop that drains it: enqueue, claim_one, complete, requeue,             *)
(* recover_orphans and worker_main.                                        *)
(*                                                                         *)
(* Each row of the table jobs is an identifier in JobIds; the columns that *)
(* decide anything are the functions status, attempts, claimedAt and       *)
(* dedupKey.  A Worker is one bott process together with its worker        *)
(* thread.  A database call commits or raises without effect; a claim is   *)
(* two steps because its row lock is held from the SELECT to the COMMIT,   *)
(* and a keyed enqueue is two steps because its SELECT takes no lock.      *)
(***************************************************************************)
EXTENDS Naturals, FiniteSets

CONSTANTS
  Worker,       \* bott processes, each with one worker thread
  Client,       \* callers of enqueue that may be between its two statements
  Key,          \* values of dedup_key
  NoKey,        \* dedup_key IS NULL
  MaxAttempts,  \* _MAX_ATTEMPTS
  StaleAfter,   \* job_orphan_stale_after_s(), in ticks
  MaxRuntime,   \* longest time from claim to settlement, in ticks
  MaxJobs,      \* bound: rows ever inserted
  MaxTime,      \* bound: clock
  MaxCrashes,   \* bound: process crashes
  MaxDbErrors   \* bound: raising database calls

ASSUME KeyAssumption     == NoKey \notin Key
ASSUME AttemptAssumption == MaxAttempts \in Nat \ {0}
ASSUME TimeAssumption    == StaleAfter \in Nat /\ MaxRuntime \in Nat
ASSUME BoundAssumption   == /\ MaxJobs \in Nat /\ MaxTime \in Nat
                            /\ MaxCrashes \in Nat /\ MaxDbErrors \in Nat

JobIds  == 1 .. MaxJobs
Settled == {"done", "failed"}
InHand  == {"running", "completing", "failing"}  \* pc of a worker that owns a row
InLoop  == {"idle", "claiming"} \union InHand

VARIABLES
  status,     \* jobs.status of each row; "none" before the row is inserted
  attempts,   \* jobs.attempts
  claimedAt,  \* jobs.claimed_at; 0 is NULL
  dedupKey,   \* jobs.dedup_key
  nextId,     \* the id the next INSERT gets
  call,       \* per client, the key of a keyed enqueue that found no pending row
  pc,         \* where each worker is
  held,       \* the row a worker has selected or owns; 0 for none
  seen,       \* job["attempts"], as read by claim_one
  now,        \* time.time()
  starts,     \* history: times the handler was given each row
  promised,   \* history: starts[j] will be at least this, said an enqueue
  crashes,
  dbErrors

rowVars    == << status, attempts, claimedAt, dedupKey >>
workerVars == << pc, held, seen >>
faultVars  == << crashes, dbErrors >>
vars == << rowVars, nextId, call, workerVars, now, starts, promised, faultVars >>

-----------------------------------------------------------------------------
Init ==
  /\ status    = [j \in JobIds |-> "none"]
  /\ attempts  = [j \in JobIds |-> 0]
  /\ claimedAt = [j \in JobIds |-> 0]
  /\ dedupKey  = [j \in JobIds |-> NoKey]
  /\ nextId    = 1
  /\ call      = [c \in Client |-> NoKey]
  /\ pc        = [w \in Worker |-> "down"]
  /\ held      = [w \in Worker |-> 0]
  /\ seen      = [w \in Worker |-> 0]
  /\ now       = 1
  /\ starts    = [j \in JobIds |-> 0]
  /\ promised  = [j \in JobIds |-> 0]
  /\ crashes   = 0
  /\ dbErrors  = 0

-----------------------------------------------------------------------------
(* enqueue *)

\* Mutant: coalesces with a row whose handling has begun.
PendingWith_OrRunning(k) ==
  {j \in JobIds : status[j] \in {"pending", "running"} /\ dedupKey[j] = k}

PendingWith(k) == {j \in JobIds : status[j] = "pending" /\ dedupKey[j] = k}

Insert(k) ==
  /\ nextId \in JobIds
  /\ status'   = [status EXCEPT ![nextId] = "pending"]
  /\ dedupKey' = [dedupKey EXCEPT ![nextId] = k]
  /\ promised' = [promised EXCEPT ![nextId] = 1]
  /\ nextId'   = nextId + 1
  /\ UNCHANGED << attempts, claimedAt, workerVars, now, starts, faultVars >>

EnqueueUnkeyed == Insert(NoKey) /\ UNCHANGED call

\* A pending row has the key: its id is returned and nothing is written.
EnqueueCoalesce(k) ==
  /\ \E j \in PendingWith(k) :
        promised' = [promised EXCEPT ![j] = starts[j] + 1]
  /\ UNCHANGED << rowVars, nextId, call, workerVars, now, starts, faultVars >>

\* No pending row has the key; the INSERT follows, in the same transaction but
\* with nothing locked in between.
EnqueueCheck(c, k) ==
  /\ call[c] = NoKey
  /\ PendingWith(k) = {}
  /\ call' = [call EXCEPT ![c] = k]
  /\ UNCHANGED << rowVars, nextId, workerVars, now, starts, promised, faultVars >>

EnqueueInsert(c) ==
  /\ call[c] # NoKey
  /\ Insert(call[c])
  /\ call' = [call EXCEPT ![c] = NoKey]

-----------------------------------------------------------------------------
(* worker_main: start of the thread *)

DbRaises == dbErrors < MaxDbErrors /\ dbErrors' = dbErrors + 1

\* Mutants: every running row is swept; the limit itself counts as stale.
Stale_Blanket(j)   == status[j] = "running"
Stale_Inclusive(j) == status[j] = "running" /\ claimedAt[j] + StaleAfter <= now

Stale(j) == status[j] = "running" /\ (claimedAt[j] = 0 \/ claimedAt[j] + StaleAfter < now)

\* Mutant: orphans are tried again instead of failed.
RecoverOrphans_Requeues ==
  status' = [j \in JobIds |-> IF Stale(j) THEN "pending" ELSE status[j]]

\* recover_orphans fails every stale row in one UPDATE.
RecoverOrphans ==
  status' = [j \in JobIds |-> IF Stale(j) THEN "failed" ELSE status[j]]

Boot(w) ==
  /\ pc[w] = "down"
  /\ RecoverOrphans
  /\ pc' = [pc EXCEPT ![w] = "idle"]
  /\ UNCHANGED << attempts, claimedAt, dedupKey, nextId, call, held, seen, now,
                  starts, promised, faultVars >>

\* init_queue and recover_orphans run outside any try: the thread ends.
BootRaises(w) ==
  /\ pc[w] = "down"
  /\ DbRaises
  /\ pc' = [pc EXCEPT ![w] = "dead"]
  /\ UNCHANGED << rowVars, nextId, call, held, seen, now, starts, promised, crashes >>

-----------------------------------------------------------------------------
(* claim_one *)

\* FOR UPDATE SKIP LOCKED: a row another transaction has locked is passed over.
Locked(j)    == \E w \in Worker : pc[w] = "claiming" /\ held[w] = j

\* Mutant: without SKIP LOCKED.
Claimable_Unlocked(j) == status[j] = "pending"

Claimable(j) == status[j] = "pending" /\ ~Locked(j)

SelectPending(w) ==
  /\ pc[w] = "idle"
  /\ \E j \in JobIds :
        /\ Claimable(j)
        /\ \A i \in JobIds : Claimable(i) => j <= i
        /\ held' = [held EXCEPT ![w] = j]
        /\ seen' = [seen EXCEPT ![w] = attempts[j]]
  /\ pc' = [pc EXCEPT ![w] = "claiming"]
  /\ UNCHANGED << rowVars, nextId, call, now, starts, promised, faultVars >>

\* The UPDATE and the COMMIT; the loop then calls the handler.
MarkRunning(w) ==
  /\ pc[w] = "claiming"
  /\ status'    = [status EXCEPT ![held[w]] = "running"]
  /\ claimedAt' = [claimedAt EXCEPT ![held[w]] = now]
  /\ starts'    = [starts EXCEPT ![held[w]] = @ + 1]
  /\ pc' = [pc EXCEPT ![w] = "running"]
  /\ UNCHANGED << attempts, dedupKey, nextId, call, held, seen, now, promised, faultVars >>

\* claim_one raises: rolled back, alerted, and the loop goes on.
ClaimRaises(w) ==
  /\ pc[w] \in {"idle", "claiming"}
  /\ DbRaises
  /\ pc'   = [pc EXCEPT ![w] = "idle"]
  /\ held' = [held EXCEPT ![w] = 0]
  /\ UNCHANGED << rowVars, nextId, call, seen, now, starts, promised, crashes >>

-----------------------------------------------------------------------------
(* the handler, and what the loop does with its outcome *)

HandlerReturns(w) ==
  /\ pc[w] = "running"
  /\ pc' = [pc EXCEPT ![w] = "completing"]
  /\ UNCHANGED << rowVars, nextId, call, held, seen, now, starts, promised, faultVars >>

HandlerRaises(w) ==
  /\ pc[w] = "running"
  /\ pc' = [pc EXCEPT ![w] = "failing"]
  /\ UNCHANGED << rowVars, nextId, call, held, seen, now, starts, promised, faultVars >>

\* The row leaves the worker's hands with a new status; the UPDATE has no
\* condition on the status it overwrites.
LetGo(w, s) ==
  /\ status' = [status EXCEPT ![held[w]] = s]
  /\ pc'     = [pc EXCEPT ![w] = "idle"]
  /\ held'   = [held EXCEPT ![w] = 0]

CompleteDone(w) ==
  /\ pc[w] = "completing"
  /\ LetGo(w, "done")
  /\ UNCHANGED << attempts, claimedAt, dedupKey, nextId, call, seen, now, starts,
                  promised, faultVars >>

\* complete(job) raises inside the try: a handled job is treated as a failed one.
CompleteRaises(w) ==
  /\ pc[w] = "completing"
  /\ DbRaises
  /\ pc' = [pc EXCEPT ![w] = "failing"]
  /\ UNCHANGED << rowVars, nextId, call, held, seen, now, starts, promised, crashes >>

\* Mutant: one retry too many.
RetriesLeft_OneMore(w) == seen[w] + 1 <= MaxAttempts

RetriesLeft(w) == seen[w] + 1 < MaxAttempts

\* Mutant: the retry is not counted.
Requeue_Uncounted(w) ==
  /\ pc[w] = "failing" /\ RetriesLeft(w)
  /\ LetGo(w, "pending")
  /\ UNCHANGED << attempts, claimedAt, dedupKey, nextId, call, seen, now, starts,
                  promised, faultVars >>

Requeue(w) ==
  /\ pc[w] = "failing" /\ RetriesLeft(w)
  /\ LetGo(w, "pending")
  /\ attempts' = [attempts EXCEPT ![held[w]] = @ + 1]
  /\ UNCHANGED << claimedAt, dedupKey, nextId, call, seen, now, starts, promised, faultVars >>

\* Mutant: gives up one attempt after the last retry.
GiveUp_Late(w) ==
  /\ pc[w] = "failing" /\ seen[w] + 1 > MaxAttempts
  /\ LetGo(w, "failed")
  /\ UNCHANGED << attempts, claimedAt, dedupKey, nextId, call, seen, now, starts,
                  promised, faultVars >>

GiveUp(w) ==
  /\ pc[w] = "failing" /\ ~RetriesLeft(w)
  /\ LetGo(w, "failed")
  /\ UNCHANGED << attempts, claimedAt, dedupKey, nextId, call, seen, now, starts,
                  promised, faultVars >>

\* requeue or complete(error) raises inside the except clause: the exception
\* leaves the while loop and the thread ends with its row still running.
FailureWriteRaises(w) ==
  /\ pc[w] = "failing"
  /\ DbRaises
  /\ pc'   = [pc EXCEPT ![w] = "dead"]
  /\ held' = [held EXCEPT ![w] = 0]
  /\ UNCHANGED << rowVars, nextId, call, seen, now, starts, promised, crashes >>

-----------------------------------------------------------------------------
(* the environment *)

\* The process goes away (crash, kill, redeploy; the thread is a daemon, so an
\* orderly shutdown does not wait for it).  An open claim is rolled back.
Crash(w) ==
  /\ pc[w] # "down"
  /\ crashes < MaxCrashes
  /\ crashes' = crashes + 1
  /\ pc'   = [pc EXCEPT ![w] = "down"]
  /\ held' = [held EXCEPT ![w] = 0]
  /\ UNCHANGED << rowVars, nextId, call, seen, now, starts, promised, dbErrors >>

Owns(w, j) == pc[w] \in InHand /\ held[w] = j

\* Time passes, but no job is in hand for longer than MaxRuntime.
Tick ==
  /\ now < MaxTime
  /\ \A w \in Worker, j \in JobIds : Owns(w, j) => now < claimedAt[j] + MaxRuntime
  /\ now' = now + 1
  /\ UNCHANGED << rowVars, nextId, call, workerVars, starts, promised, faultVars >>

-----------------------------------------------------------------------------
Enqueue == \/ EnqueueUnkeyed
           \/ \E k \in Key : EnqueueCoalesce(k)
           \/ \E c \in Client, k \in Key : EnqueueCheck(c, k)
           \/ \E c \in Client : EnqueueInsert(c)

Start(w) == Boot(w) \/ BootRaises(w)

LoopStep(w) == \/ SelectPending(w)  \/ MarkRunning(w)    \/ ClaimRaises(w)
               \/ HandlerReturns(w) \/ HandlerRaises(w)
               \/ CompleteDone(w)   \/ CompleteRaises(w)
               \/ Requeue(w)        \/ GiveUp(w)         \/ FailureWriteRaises(w)

Next == \/ Enqueue
        \/ \E w \in Worker : Start(w) \/ LoopStep(w) \/ Crash(w)
        \/ Tick

Spec == Init /\ [][Next]_vars

\* The worker thread keeps running its loop, every handler ends (its subprocess
\* and model calls carry timeouts), a process that is down is started again
\* (restart: unless-stopped) and the clock advances.
Fairness == /\ \A w \in Worker : WF_vars(Start(w)) /\ WF_vars(LoopStep(w))
            /\ WF_vars(Tick)

FairSpec == Spec /\ Fairness
-----------------------------------------------------------------------------
(* Properties *)

\* Type invariant: what each variable holds; at most MaxAttempts - 1 retries.
TypeOK ==
  /\ status    \in [JobIds -> {"none", "pending", "running", "done", "failed"}]
  /\ attempts  \in [JobIds -> 0 .. MaxAttempts - 1]
  /\ claimedAt \in [JobIds -> Nat]
  /\ dedupKey  \in [JobIds -> Key \union {NoKey}]
  /\ nextId    \in 1 .. MaxJobs + 1
  /\ call      \in [Client -> Key \union {NoKey}]
  /\ pc        \in [Worker -> {"down", "dead"} \union InLoop]
  /\ held      \in [Worker -> JobIds \union {0}]
  /\ seen      \in [Worker -> 0 .. MaxAttempts - 1]
  /\ now       \in Nat \ {0}
  /\ starts    \in [JobIds -> Nat]
  /\ promised  \in [JobIds -> Nat]
  /\ crashes   \in Nat
  /\ dbErrors  \in Nat

\* No two workers ever have the same row, whatever crashes, database errors or
\* orphan sweeps happen in between ("any number of worker processes claim
\* safely", queue.py's module docstring).
ExclusiveHandling ==
  \A v, w \in Worker : v # w /\ held[v] # 0 => held[v] # held[w]

\* A row is handed to the handler at most _MAX_ATTEMPTS times.
BoundedHandling == \A j \in JobIds : starts[j] <= MaxAttempts

\* An enqueue that returned a row's id, by inserting it or by coalescing with
\* it, is followed by a handling of that row: a promise still open means the
\* row is still pending.
CoalescedIsStillToRun ==
  \A j \in JobIds : promised[j] > starts[j] => status[j] = "pending"

\* Every row knows how often it was handled: once per counted retry, and once
\* more if it has been claimed since.
RowsConsistent ==
  \A j \in JobIds :
    /\ j >= nextId <=> status[j] = "none"
    /\ starts[j] = attempts[j] + (IF status[j] \in {"none", "pending"} THEN 0 ELSE 1)
    /\ claimedAt[j] <= now
    /\ status[j] = "running" => claimedAt[j] # 0

\* A worker that has a row has it in the status its pc says, and the attempts it
\* read when it claimed are still the row's.
WorkersConsistent ==
  \A w \in Worker :
    /\ held[w] # 0 <=> pc[w] \in {"claiming"} \union InHand
    /\ pc[w] = "claiming" => status[held[w]] = "pending"
    /\ pc[w] \in InHand => status[held[w]] \in {"running", "failed"}
    /\ held[w] # 0 => seen[w] = attempts[held[w]]

Consistent == RowsConsistent /\ WorkersConsistent

IInv == TypeOK /\ Consistent /\ ExclusiveHandling

\* The documented precondition of orphan recovery: JOB_ORPHAN_STALE_AFTER_S
\* "must exceed the longest legitimate job runtime" (config.py).
RuntimeAssumption == MaxRuntime <= StaleAfter

\* Under that precondition a row some worker has is never declared orphaned:
\* the sweep another process makes when it starts leaves it running.
LiveJobsRun ==
  \A w \in Worker, j \in JobIds :
    Owns(w, j) => status[j] = "running" /\ now <= claimedAt[j] + MaxRuntime

Orphan(j) == status[j] = "running" /\ \A w \in Worker : ~Owns(w, j)

\* A row fails only because its attempts are used up or because it was running
\* and nobody has it any more.
FailsForACause ==
  [][\A j \in JobIds :
       status[j] # "failed" /\ status'[j] = "failed" =>
         starts[j] = MaxAttempts \/ Orphan(j)]_vars

\* done and failed are final: complete and requeue overwrite the status without
\* looking at it, yet never revive or relabel a settled row.
SettledIsFinal ==
  [][\A j \in JobIds : status[j] \in Settled => status'[j] = status[j]]_vars

\* The queue keeps the promises of JobLedger: a row is taken while it is
\* running, by the worker that owns it.
Phase == [j \in JobIds |-> CASE status[j] = "pending" -> "waiting"
                              [] status[j] = "running" -> "taken"
                              [] OTHER                 -> status[j]]
Has   == [w \in Worker |-> IF pc[w] \in InHand THEN held[w] ELSE 0]

Ledger == INSTANCE JobLedger WITH Item <- JobIds, Hand <- Worker, Nothing <- 0,
                                  phase <- Phase, tries <- starts, has <- Has

RefinesLedger == Ledger!Spec

\* As long as one worker thread lives, a pending row is worked off: it settles,
\* or is orphaned by a crash or a thread that died with it.  An orphan may stay one for
\* good: a process that starts before the row is stale does not sweep it, and nothing
\* sweeps later.
PendingIsWorkedOff ==
  (\E w \in Worker : [](pc[w] # "dead")) =>
    \A j \in JobIds : status[j] = "pending" ~> status[j] \in Settled \/ Orphan(j)

\* worker_main, on claim_one: "without this guard a DB hiccup here would kill
\* the whole worker thread silently" and it is "the one call outside the per-job
\* try/except": no database error ends a thread that is in its loop.
LoopSurvives == [][\A w \in Worker : pc[w] \in InLoop => pc'[w] # "dead"]_vars

=============================================================================
