--------------------------- MODULE JobQueueProofs ---------------------------
(***************************************************************************)
(* The safety of JobQueue for every number of workers, rows, attempts,     *)
(* ticks, crashes and database errors.                                     *)
(***************************************************************************)
EXTENDS JobQueue, TLAPS

\* Row ids are positive; the proofs need nothing else of them.
LEMMA JobIdFacts == 0 \notin JobIds /\ JobIds \subseteq Nat
BY BoundAssumption DEF JobIds

USE KeyAssumption, AttemptAssumption, BoundAssumption, JobIdFacts DEF InHand, InLoop

\* The inductive invariant holds of an empty table and workers not yet started.
LEMMA InitIInv == Init => IInv
<1> SUFFICES ASSUME Init PROVE IInv
  OBVIOUS
<1>1. TypeOK
  BY DEF Init, TypeOK
<1>2. RowsConsistent
  BY DEF Init, RowsConsistent
<1>3. WorkersConsistent /\ ExclusiveHandling
  BY DEF Init, WorkersConsistent, ExclusiveHandling
<1> QED
  BY <1>1, <1>2, <1>3 DEF IInv, Consistent

\* INSERT gives a new row to nobody.
LEMMA InsertIInv == ASSUME NEW k \in Key \union {NoKey}, IInv, Insert(k),
                           call' \in [Client -> Key \union {NoKey}]
                    PROVE  IInv'
<1> USE DEF IInv, Consistent
<1>1. TypeOK'
  <2>1. nextId' \in 1 .. MaxJobs + 1
    BY DEF Insert, TypeOK, JobIds
  <2> QED
    BY <2>1 DEF Insert, TypeOK, workerVars, faultVars
<1>2. RowsConsistent'
  BY DEF Insert, TypeOK, RowsConsistent, workerVars
<1>3. WorkersConsistent'
  BY DEF Insert, TypeOK, RowsConsistent, WorkersConsistent, workerVars
<1>4. ExclusiveHandling'
  BY DEF Insert, ExclusiveHandling, workerVars
<1> QED
  BY <1>1, <1>2, <1>3, <1>4

\* A step that leaves rows, workers and clock alone keeps the invariant if it
\* keeps the types.
LEMMA FrameIInv == ASSUME IInv, TypeOK',
                          UNCHANGED << rowVars, nextId, workerVars, now, starts >>
                   PROVE  IInv'
BY DEF IInv, Consistent, RowsConsistent, WorkersConsistent, ExclusiveHandling, rowVars, workerVars

LEMMA EnqueueIInv == IInv /\ Enqueue => IInv'
<1> SUFFICES ASSUME IInv, Enqueue PROVE IInv'
  OBVIOUS
<1>1. CASE EnqueueUnkeyed
  BY <1>1, InsertIInv DEF EnqueueUnkeyed, IInv, TypeOK
<1>2. ASSUME NEW k \in Key, EnqueueCoalesce(k) PROVE IInv'
  <2>1. TypeOK'
    BY <1>2 DEF EnqueueCoalesce, PendingWith, IInv, TypeOK, rowVars, workerVars, faultVars
  <2> QED
    BY <1>2, <2>1, FrameIInv DEF EnqueueCoalesce
<1>3. ASSUME NEW c \in Client, NEW k \in Key, EnqueueCheck(c, k) PROVE IInv'
  <2>1. TypeOK'
    BY <1>3 DEF EnqueueCheck, IInv, TypeOK, rowVars, workerVars, faultVars
  <2> QED
    BY <1>3, <2>1, FrameIInv DEF EnqueueCheck
<1>4. ASSUME NEW c \in Client, EnqueueInsert(c) PROVE IInv'
  <2>1. call[c] \in Key \union {NoKey} /\ call' \in [Client -> Key \union {NoKey}]
    BY <1>4 DEF EnqueueInsert, IInv, TypeOK
  <2> QED
    BY <1>4, <2>1, InsertIInv DEF EnqueueInsert
<1> QED
  BY <1>1, <1>2, <1>3, <1>4 DEF Enqueue

\* The orphan sweep touches running rows only, so a claim in progress is safe.
LEMMA StartIInv == ASSUME NEW w \in Worker, IInv, Start(w) PROVE IInv'
<1> USE DEF IInv, Consistent
<1>1. CASE Boot(w)
  <2> USE <1>1 DEF Boot, RecoverOrphans, Stale
  <2>1. TypeOK'
    BY DEF TypeOK, faultVars
  <2>2. RowsConsistent'
    BY DEF TypeOK, RowsConsistent
  <2>3. WorkersConsistent'
    BY DEF TypeOK, WorkersConsistent
  <2>4. ExclusiveHandling'
    BY DEF ExclusiveHandling
  <2> QED
    BY <2>1, <2>2, <2>3, <2>4
<1>2. CASE BootRaises(w)
  <2> USE <1>2 DEF BootRaises, DbRaises
  <2>1. TypeOK'
    BY DEF TypeOK, rowVars
  <2>2. RowsConsistent' /\ ExclusiveHandling'
    BY DEF RowsConsistent, ExclusiveHandling, rowVars
  <2>3. WorkersConsistent'
    BY DEF TypeOK, WorkersConsistent, rowVars
  <2> QED
    BY <2>1, <2>2, <2>3
<1> QED
  BY <1>1, <1>2 DEF Start

\* A worker that lets go of its row without writing it keeps the invariant.
LEMMA ReleaseIInv == ASSUME NEW w \in Worker, IInv, TypeOK',
                            NEW p \in {"idle", "dead", "down"},
                            pc'   = [pc EXCEPT ![w] = p],
                            held' = [held EXCEPT ![w] = 0],
                            UNCHANGED << rowVars, nextId, seen, now, starts >>
                     PROVE  IInv'
<1>1. RowsConsistent'
  BY DEF IInv, Consistent, RowsConsistent, rowVars
<1>2. WorkersConsistent'
  BY DEF IInv, Consistent, TypeOK, WorkersConsistent, rowVars
<1>3. ExclusiveHandling'
  BY DEF IInv, TypeOK, ExclusiveHandling
<1> QED
  BY <1>1, <1>2, <1>3 DEF IInv, Consistent

\* A row is selected by one worker only: a pending row is in nobody's hands, and
\* SKIP LOCKED passes over the rows being claimed.
LEMMA ClaimIInv == ASSUME NEW w \in Worker, IInv,
                          SelectPending(w) \/ MarkRunning(w) \/ ClaimRaises(w)
                   PROVE  IInv'
<1> USE DEF IInv, Consistent
<1>1. CASE SelectPending(w)
  <2>1. PICK j \in JobIds : /\ Claimable(j)
                            /\ held' = [held EXCEPT ![w] = j]
                            /\ seen' = [seen EXCEPT ![w] = attempts[j]]
    BY <1>1 DEF SelectPending
  <2>2. \A v \in Worker : held[v] # j
    BY <2>1 DEF Claimable, Locked, TypeOK, WorkersConsistent
  <2> USE <1>1 DEF SelectPending
  <2>3. TypeOK'
    BY <2>1 DEF TypeOK, rowVars, faultVars
  <2>4. RowsConsistent'
    BY DEF RowsConsistent, rowVars
  <2>5. WorkersConsistent'
    BY <2>1 DEF Claimable, TypeOK, WorkersConsistent, rowVars
  <2>6. ExclusiveHandling'
    BY <2>1, <2>2 DEF TypeOK, ExclusiveHandling
  <2> QED
    BY <2>3, <2>4, <2>5, <2>6
<1>2. CASE MarkRunning(w)
  <2> USE <1>2 DEF MarkRunning
  <2>1. held[w] \in JobIds /\ status[held[w]] = "pending"
    BY DEF TypeOK, WorkersConsistent
  <2>2. TypeOK'
    <3>1. status' \in [JobIds -> {"none", "pending", "running", "done", "failed"}]
      BY <2>1 DEF TypeOK
    <3>2. claimedAt' \in [JobIds -> Nat]
      BY <2>1 DEF TypeOK
    <3>3. starts' \in [JobIds -> Nat]
      <4>1. starts[held[w]] \in Nat
        BY <2>1 DEF TypeOK
      <4>2. starts' = [starts EXCEPT ![held[w]] = starts[held[w]] + 1]
        OBVIOUS
      <4>3. starts[held[w]] + 1 \in Nat
        BY <4>1
      <4> QED
        BY <2>1, <4>2, <4>3 DEF TypeOK
    <3>4. pc' \in [Worker -> {"down", "dead"} \union InLoop]
      BY DEF TypeOK, InLoop
    <3> QED
      BY <3>1, <3>2, <3>3, <3>4 DEF TypeOK, faultVars
  <2>3. RowsConsistent'
    BY <2>1 DEF TypeOK, RowsConsistent
  <2>4. WorkersConsistent'
    BY <2>1 DEF TypeOK, WorkersConsistent, ExclusiveHandling
  <2>5. ExclusiveHandling'
    BY DEF ExclusiveHandling
  <2> QED
    BY <2>2, <2>3, <2>4, <2>5
<1>3. CASE ClaimRaises(w)
  <2>1. TypeOK'
    BY <1>3 DEF ClaimRaises, DbRaises, TypeOK, rowVars
  <2> QED
    BY <1>3, <2>1, ReleaseIInv DEF ClaimRaises
<1> QED
  BY <1>1, <1>2, <1>3

\* A worker that writes the outcome of its row and lets it go: nobody else has
\* the row, and a row going back to pending has its retry counted.
LEMMA LetGoIInv == ASSUME NEW w \in Worker, IInv, NEW s \in {"pending", "done", "failed"},
                          pc[w] \in InHand, LetGo(w, s), TypeOK',
                          attempts' = IF s = "pending"
                                      THEN [attempts EXCEPT ![held[w]] = @ + 1]
                                      ELSE attempts,
                          UNCHANGED << claimedAt, nextId, seen, now, starts >>
                   PROVE  IInv'
<1> USE DEF IInv, Consistent, LetGo
<1>1. held[w] \in JobIds /\ status[held[w]] \in {"running", "failed"}
  BY DEF TypeOK, WorkersConsistent
<1>2. RowsConsistent'
  BY <1>1 DEF TypeOK, RowsConsistent
<1>3. WorkersConsistent'
  BY <1>1 DEF TypeOK, WorkersConsistent, ExclusiveHandling
<1>4. ExclusiveHandling'
  BY DEF TypeOK, ExclusiveHandling
<1> QED
  BY <1>2, <1>3, <1>4

\* A worker keeps its row while it goes from one stage of handling to the next.
LEMMA StageIInv == ASSUME NEW w \in Worker, IInv, TypeOK',
                          pc[w] \in InHand, NEW p \in InHand,
                          pc' = [pc EXCEPT ![w] = p],
                          UNCHANGED << rowVars, nextId, held, seen, now, starts >>
                   PROVE  IInv'
<1>1. RowsConsistent' /\ ExclusiveHandling'
  BY DEF IInv, Consistent, RowsConsistent, ExclusiveHandling, rowVars
<1>2. WorkersConsistent'
  BY DEF IInv, Consistent, TypeOK, WorkersConsistent, rowVars
<1> QED
  BY <1>1, <1>2 DEF IInv, Consistent

\* The outcome of the handler is written to a row that only this worker has.
LEMMA OutcomeIInv == ASSUME NEW w \in Worker, IInv,
                            \/ HandlerReturns(w) \/ HandlerRaises(w)
                            \/ CompleteDone(w)   \/ CompleteRaises(w)
                            \/ Requeue(w) \/ GiveUp(w) \/ FailureWriteRaises(w)
                     PROVE  IInv'
<1>1. CASE HandlerReturns(w) \/ HandlerRaises(w)
  <2>1. TypeOK'
    BY <1>1 DEF HandlerReturns, HandlerRaises, IInv, TypeOK, rowVars, faultVars
  <2> QED
    BY <1>1, <2>1, StageIInv DEF HandlerReturns, HandlerRaises
<1>2. CASE CompleteRaises(w)
  <2>1. TypeOK'
    BY <1>2 DEF CompleteRaises, DbRaises, IInv, TypeOK, rowVars
  <2> QED
    BY <1>2, <2>1, StageIInv DEF CompleteRaises
<1>3. CASE CompleteDone(w)
  <2>1. TypeOK'
    BY <1>3 DEF CompleteDone, LetGo, IInv, TypeOK, faultVars
  <2> QED
    BY <1>3, <2>1, LetGoIInv DEF CompleteDone
<1>4. CASE Requeue(w)
  <2>1. held[w] \in JobIds /\ attempts[held[w]] + 1 < MaxAttempts
    BY <1>4 DEF Requeue, RetriesLeft, IInv, Consistent, TypeOK, WorkersConsistent
  <2>2. attempts' \in [JobIds -> 0 .. MaxAttempts - 1]
    <3>1. attempts[held[w]] + 1 \in 0 .. MaxAttempts - 1
      <4>1. attempts[held[w]] \in 0 .. MaxAttempts - 1
        BY <2>1 DEF IInv, TypeOK
      <4> QED
        BY <2>1, <4>1
    <3>2. attempts' = [attempts EXCEPT ![held[w]] = attempts[held[w]] + 1]
      BY <1>4 DEF Requeue
    <3> QED
      BY <2>1, <3>1, <3>2 DEF IInv, TypeOK
  <2>3. TypeOK'
    BY <1>4, <2>2 DEF Requeue, LetGo, InLoop, IInv, TypeOK, faultVars
  <2> QED
    BY <1>4, <2>3, LetGoIInv DEF Requeue
<1>5. CASE GiveUp(w)
  <2>1. TypeOK'
    BY <1>5 DEF GiveUp, LetGo, IInv, TypeOK, faultVars
  <2> QED
    BY <1>5, <2>1, LetGoIInv DEF GiveUp
<1>6. CASE FailureWriteRaises(w)
  <2>1. TypeOK'
    BY <1>6 DEF FailureWriteRaises, DbRaises, IInv, TypeOK, rowVars
  <2> QED
    BY <1>6, <2>1, ReleaseIInv DEF FailureWriteRaises
<1> QED
  BY <1>1, <1>2, <1>3, <1>4, <1>5, <1>6

LEMMA EnvironmentIInv == ASSUME IInv, (\E w \in Worker : Crash(w)) \/ Tick PROVE IInv'
<1>1. ASSUME NEW w \in Worker, Crash(w) PROVE IInv'
  <2>1. TypeOK'
    BY <1>1 DEF Crash, IInv, TypeOK, rowVars
  <2> QED
    BY <1>1, <2>1, ReleaseIInv DEF Crash
<1>2. CASE Tick
  <2> USE <1>2 DEF Tick
  <2>1. TypeOK'
    BY DEF IInv, TypeOK, rowVars, workerVars, faultVars
  <2>2. RowsConsistent'
    BY DEF IInv, Consistent, TypeOK, RowsConsistent, rowVars
  <2>3. WorkersConsistent' /\ ExclusiveHandling'
    BY DEF IInv, Consistent, WorkersConsistent, ExclusiveHandling, rowVars, workerVars
  <2> QED
    BY <2>1, <2>2, <2>3 DEF IInv, Consistent
<1> QED
  BY <1>1, <1>2

LEMMA NextIInv == IInv /\ [Next]_vars => IInv'
<1> SUFFICES ASSUME IInv, [Next]_vars PROVE IInv'
  OBVIOUS
<1>1. CASE Enqueue
  BY <1>1, EnqueueIInv
<1>2. ASSUME NEW w \in Worker, Start(w) PROVE IInv'
  BY <1>2, StartIInv
<1>3. ASSUME NEW w \in Worker, LoopStep(w) PROVE IInv'
  BY <1>3, ClaimIInv, OutcomeIInv DEF LoopStep
<1>4. ASSUME NEW w \in Worker, Crash(w) PROVE IInv'
  BY <1>4, EnvironmentIInv
<1>5. CASE Tick
  BY <1>5, EnvironmentIInv
<1>6. CASE UNCHANGED vars
  <2>1. TypeOK'
    BY <1>6 DEF vars, rowVars, workerVars, faultVars, IInv, TypeOK
  <2> QED
    BY <1>6, <2>1, FrameIInv DEF vars
<1> QED
  BY <1>1, <1>2, <1>3, <1>4, <1>5, <1>6 DEF Next

\* The rows and the workers always stand to each other as Consistent says.
THEOREM Invariance == Spec => []IInv
BY InitIInv, NextIInv, PTL DEF Spec

\* Every variable keeps its type; attempts stays below _MAX_ATTEMPTS.
THEOREM TypeCorrect == Spec => []TypeOK
<1>1. IInv => TypeOK
  BY DEF IInv
<1> QED
  BY <1>1, Invariance, PTL

\* No two workers ever have the same row: SKIP LOCKED keeps claims apart, and a
\* claimed row is not pending again before its worker has let it go.
THEOREM Exclusive == Spec => []ExclusiveHandling
<1>1. IInv => ExclusiveHandling
  BY DEF IInv
<1> QED
  BY <1>1, Invariance, PTL

\* The handler is given a row at most _MAX_ATTEMPTS times, because every handling
\* but the last was counted in the row before it became pending again.
THEOREM Bounded == Spec => []BoundedHandling
<1>1. IInv => BoundedHandling
  BY DEF IInv, TypeOK, Consistent, RowsConsistent, BoundedHandling
<1> QED
  BY <1>1, Invariance, PTL

\* A row's retries and handlings agree, and no worker has a row that it did not
\* read as it is now.
THEOREM Agree == Spec => []Consistent
<1>1. IInv => Consistent
  BY DEF IInv
<1> QED
  BY <1>1, Invariance, PTL

\* An enqueue promises at most the next handling of a row.
PromiseInv == CoalescedIsStillToRun /\ \A j \in JobIds : promised[j] <= starts[j] + 1

\* A row that is in hand, or swept, owes nobody a handling.
LEMMA PromiseFrame ==
  ASSUME IInv, PromiseInv, UNCHANGED << promised, starts >>,
         \A j \in JobIds : status'[j] = status[j] \/ status[j] # "pending"
  PROVE  PromiseInv'
BY DEF PromiseInv, CoalescedIsStillToRun

LEMMA PromiseEnqueue == ASSUME IInv, PromiseInv, Enqueue PROVE PromiseInv'
<1> USE DEF IInv, TypeOK, PromiseInv, CoalescedIsStillToRun
<1>1. ASSUME NEW k, Insert(k) PROVE PromiseInv'
  <2>1. starts[nextId] \in Nat
    BY <1>1 DEF Insert
  <2>2. \A j \in JobIds : /\ promised'[j] = IF j = nextId THEN 1 ELSE promised[j]
                          /\ status'[j] = IF j = nextId THEN "pending" ELSE status[j]
    BY <1>1 DEF Insert
  <2>3. UNCHANGED starts
    BY <1>1 DEF Insert
  <2> QED
    BY <2>1, <2>2, <2>3
<1>2. ASSUME NEW k \in Key, EnqueueCoalesce(k) PROVE PromiseInv'
  <2>1. PICK j \in JobIds : status[j] = "pending" /\ promised' = [promised EXCEPT ![j] = starts[j] + 1]
    BY <1>2 DEF EnqueueCoalesce, PendingWith
  <2>2. UNCHANGED << status, starts >>
    BY <1>2 DEF EnqueueCoalesce, rowVars
  <2>3. \A i \in JobIds : promised'[i] = IF i = j THEN starts[j] + 1 ELSE promised[i]
    BY <2>1
  <2> QED
    BY <2>1, <2>2, <2>3
<1>3. ASSUME NEW c \in Client, NEW k \in Key, EnqueueCheck(c, k) PROVE PromiseInv'
  BY <1>3, PromiseFrame DEF EnqueueCheck, rowVars
<1> QED
  BY <1>1, <1>2, <1>3 DEF Enqueue, EnqueueUnkeyed, EnqueueInsert

LEMMA PromiseLoop == ASSUME IInv, PromiseInv, NEW w \in Worker, LoopStep(w) PROVE PromiseInv'
<1> USE DEF IInv
<1>1. CASE MarkRunning(w)
  <2>1. held[w] \in JobIds
    BY <1>1 DEF MarkRunning, TypeOK, Consistent, WorkersConsistent
  <2>2. \A j \in JobIds : /\ starts'[j] = IF j = held[w] THEN starts[j] + 1 ELSE starts[j]
                          /\ status'[j] = IF j = held[w] THEN "running" ELSE status[j]
    BY <1>1 DEF MarkRunning, TypeOK
  <2>3. promised \in [JobIds -> Nat] /\ starts \in [JobIds -> Nat] /\ UNCHANGED promised
    BY <1>1 DEF MarkRunning, TypeOK
  <2> QED
    BY <2>1, <2>2, <2>3 DEF PromiseInv, CoalescedIsStillToRun
<1>2. ASSUME NEW s, pc[w] \in InHand, LetGo(w, s), UNCHANGED << promised, starts >> PROVE PromiseInv'
  <2>1. held[w] \in JobIds /\ status[held[w]] # "pending"
    BY <1>2 DEF TypeOK, Consistent, WorkersConsistent
  <2>2. \A j \in JobIds : j # held[w] => status'[j] = status[j]
    BY <1>2 DEF LetGo, TypeOK
  <2> QED
    BY <1>2, <2>1, <2>2, PromiseFrame
<1>3. CASE CompleteDone(w) \/ Requeue(w) \/ GiveUp(w)
  BY <1>2, <1>3 DEF CompleteDone, Requeue, GiveUp
<1>4. CASE SelectPending(w) \/ ClaimRaises(w) \/ HandlerReturns(w) \/ HandlerRaises(w)
           \/ CompleteRaises(w) \/ FailureWriteRaises(w)
  BY <1>4, PromiseFrame DEF SelectPending, ClaimRaises, HandlerReturns, HandlerRaises,
                            CompleteRaises, FailureWriteRaises, rowVars
<1> QED
  BY <1>1, <1>3, <1>4 DEF LoopStep

\* What enqueue told its caller comes true, by insert or by coalescing: a row is
\* not let go unhandled while a promise on it is open, whoever crashes.
THEOREM PromisesAreOpen == Spec => []CoalescedIsStillToRun
<1>1. Init => PromiseInv
  BY DEF Init, PromiseInv, CoalescedIsStillToRun
<1>2. ASSUME IInv, PromiseInv, [Next]_vars PROVE PromiseInv'
  <2>1. ASSUME NEW w \in Worker, Start(w) \/ Crash(w) PROVE PromiseInv'
    BY <1>2, <2>1, PromiseFrame DEF Start, Boot, BootRaises, RecoverOrphans, Stale, Crash, rowVars
  <2>2. CASE Tick \/ UNCHANGED vars
    BY <1>2, <2>2, PromiseFrame DEF Tick, vars, rowVars
  <2> QED
    BY <1>2, <2>1, <2>2, PromiseEnqueue, PromiseLoop DEF Next
<1>3. PromiseInv => CoalescedIsStillToRun
  BY DEF PromiseInv
<1> QED
  BY <1>1, <1>2, <1>3, Invariance, PTL DEF Spec

-----------------------------------------------------------------------------
(* What holds when no job outlives the staleness limit. *)

\* The sweep spares every row that somebody has, because its age is at most
\* MaxRuntime.
LEMMA SweepSparesLive == ASSUME RuntimeAssumption, IInv, LiveJobsRun,
                                NEW w \in Worker, NEW j \in JobIds, Owns(w, j)
                         PROVE  ~Stale(j)
<1>1. status[j] = "running" /\ now <= claimedAt[j] + MaxRuntime
  BY DEF LiveJobsRun
<1>2. claimedAt[j] # 0 /\ claimedAt[j] \in Nat /\ now \in Nat
  BY <1>1 DEF IInv, TypeOK, Consistent, RowsConsistent
<1>3. now <= claimedAt[j] + StaleAfter
  BY <1>1, <1>2, TimeAssumption DEF RuntimeAssumption
<1> QED
  BY <1>2, <1>3, TimeAssumption DEF Stale

LEMMA LiveInit == Init => LiveJobsRun
BY DEF Init, LiveJobsRun, Owns

LEMMA LiveNext == ASSUME RuntimeAssumption, IInv, LiveJobsRun, [Next]_vars
                  PROVE  LiveJobsRun'
<1> SUFFICES ASSUME NEW v \in Worker, NEW j \in JobIds, Owns(v, j)'
             PROVE  (status[j] = "running" /\ now <= claimedAt[j] + MaxRuntime)'
  BY DEF LiveJobsRun
<1> DEFINE Safe == status'[j] = "running" /\ now' <= claimedAt'[j] + MaxRuntime
<1> USE DEF Owns
<1>1. ASSUME Owns(v, j), claimedAt'[j] = claimedAt[j], now' = now, status'[j] = status[j]
      PROVE  Safe
  BY <1>1 DEF LiveJobsRun
<1>2. CASE Enqueue
  <2>1. ASSUME NEW k, Insert(k) PROVE Owns(v, j) /\ status'[j] = status[j]
    <3>1. Owns(v, j)
      BY <2>1 DEF Insert, workerVars
    <3>2. j # nextId
      BY <3>1 DEF LiveJobsRun, IInv, TypeOK, Consistent, RowsConsistent
    <3> QED
      BY <2>1, <3>1, <3>2 DEF Insert, IInv, TypeOK
  <2> QED
    BY <1>1, <1>2, <2>1 DEF Enqueue, EnqueueUnkeyed, EnqueueCoalesce, EnqueueCheck,
                            EnqueueInsert, Insert, rowVars, workerVars
<1>3. ASSUME NEW w \in Worker, Start(w) PROVE Safe
  <2>1. Owns(v, j)
    BY <1>3 DEF Start, Boot, BootRaises, IInv, TypeOK
  <2>2. ~Stale(j)
    BY <2>1, SweepSparesLive
  <2> QED
    BY <1>1, <1>3, <2>1, <2>2 DEF Start, Boot, BootRaises, RecoverOrphans, rowVars
<1>4. ASSUME NEW w \in Worker, MarkRunning(w) PROVE Safe
  <2> USE DEF MarkRunning
  <2>1. held[w] \in JobIds /\ now \in Nat
    BY <1>4 DEF IInv, TypeOK, Consistent, WorkersConsistent
  <2>2. CASE v = w
    <3>1. j = held[w]
      BY <1>4, <2>2
    <3>2. status'[j] = "running" /\ claimedAt'[j] = now /\ now' = now
      BY <1>4, <2>1, <3>1 DEF IInv, TypeOK
    <3> QED
      BY <2>1, <3>2, TimeAssumption
  <2>3. CASE v # w
    <3>1. Owns(v, j) /\ j # held[w]
      BY <1>4, <2>3 DEF IInv, TypeOK, ExclusiveHandling
    <3> QED
      BY <1>1, <1>4, <3>1 DEF IInv, TypeOK
  <2> QED
    BY <2>2, <2>3
<1>5. ASSUME NEW w \in Worker, NEW s, pc[w] \in InHand, LetGo(w, s), UNCHANGED << claimedAt, now >>
      PROVE  Safe
  <2>1. Owns(v, j) /\ j # held[w]
    BY <1>5 DEF LetGo, IInv, TypeOK, Consistent, WorkersConsistent, ExclusiveHandling
  <2> QED
    BY <1>1, <1>5, <2>1 DEF LetGo, IInv, TypeOK
<1>6. ASSUME NEW w \in Worker, LoopStep(w) PROVE Safe
  <2>1. CASE SelectPending(w) \/ ClaimRaises(w) \/ HandlerReturns(w) \/ HandlerRaises(w)
             \/ CompleteRaises(w) \/ FailureWriteRaises(w)
    <3>1. Owns(v, j)
      BY <2>1 DEF SelectPending, ClaimRaises, HandlerReturns, HandlerRaises, CompleteRaises,
                  FailureWriteRaises, IInv, TypeOK
    <3> QED
      BY <1>1, <2>1, <3>1 DEF SelectPending, ClaimRaises, HandlerReturns, HandlerRaises,
                              CompleteRaises, FailureWriteRaises, rowVars
  <2>2. CASE MarkRunning(w)
    BY <1>4, <2>2
  <2>3. CASE CompleteDone(w) \/ Requeue(w) \/ GiveUp(w)
    BY <1>5, <2>3 DEF CompleteDone, Requeue, GiveUp
  <2> QED
    BY <1>6, <2>1, <2>2, <2>3 DEF LoopStep
<1>7. ASSUME NEW w \in Worker, Crash(w) PROVE Safe
  BY <1>1, <1>7 DEF Crash, rowVars, IInv, TypeOK
<1>8. CASE Tick
  <2>1. Owns(v, j) /\ status'[j] = status[j] /\ claimedAt'[j] = claimedAt[j] /\ now' = now + 1
    BY <1>8 DEF Tick, rowVars, workerVars
  <2>2. now < claimedAt[j] + MaxRuntime
    BY <1>8, <2>1 DEF Tick
  <2>3. now \in Nat /\ claimedAt[j] \in Nat
    BY DEF IInv, TypeOK
  <2>4. now + 1 <= claimedAt[j] + MaxRuntime
    BY <2>2, <2>3, TimeAssumption
  <2> QED
    BY <2>1, <2>4 DEF LiveJobsRun
<1>9. CASE UNCHANGED vars
  BY <1>1, <1>9 DEF vars, rowVars, workerVars
<1> QED
  BY <1>2, <1>3, <1>6, <1>7, <1>8, <1>9 DEF Next

\* If no job outlives the staleness limit, no process that starts ever fails a
\* row another process has in hand.
THEOREM LiveJobsAreSafe == ASSUME RuntimeAssumption PROVE Spec => []LiveJobsRun
<1>1. IInv /\ LiveJobsRun /\ [Next]_vars => LiveJobsRun'
  BY LiveNext
<1> QED
  BY <1>1, LiveInit, Invariance, PTL DEF Spec

\* Every way a row can change its status: it is inserted, claimed, let go by the
\* worker that has it, or swept when nobody has it.
LEMMA StatusChange ==
  ASSUME RuntimeAssumption, IInv, LiveJobsRun, [Next]_vars,
         NEW j \in JobIds, status'[j] # status[j]
  PROVE  \/ status[j] = "none"    /\ status'[j] = "pending"
         \/ status[j] = "pending" /\ status'[j] = "running"
         \/ status[j] = "running" /\ status'[j] \in {"pending", "done"}
         \/ status[j] = "running" /\ status'[j] = "failed" /\ starts[j] = MaxAttempts
         \/ Orphan(j) /\ status'[j] = "failed"
<1>1. ASSUME NEW k, Insert(k) PROVE status[j] = "none" /\ status'[j] = "pending"
  <2>1. j = nextId /\ status'[j] = "pending"
    BY <1>1 DEF Insert, IInv, TypeOK
  <2> QED
    BY <2>1 DEF IInv, TypeOK, Consistent, RowsConsistent
<1>2. ASSUME NEW w \in Worker, Boot(w) PROVE Orphan(j) /\ status'[j] = "failed"
  <2>1. Stale(j) /\ status'[j] = "failed"
    BY <1>2 DEF Boot, RecoverOrphans
  <2>2. \A v \in Worker : ~Owns(v, j)
    BY <2>1, SweepSparesLive
  <2> QED
    BY <2>1, <2>2 DEF Stale, Orphan
<1>3. ASSUME NEW w \in Worker, MarkRunning(w) PROVE status[j] = "pending" /\ status'[j] = "running"
  <2>1. j = held[w] /\ status'[j] = "running"
    BY <1>3 DEF MarkRunning, IInv, TypeOK
  <2> QED
    BY <1>3, <2>1 DEF MarkRunning, IInv, Consistent, WorkersConsistent
<1>4. ASSUME NEW w \in Worker, pc[w] \in InHand, NEW s, LetGo(w, s)
      PROVE  Owns(w, j) /\ status[j] = "running" /\ status'[j] = s
  <2>1. j = held[w] /\ status'[j] = s
    BY <1>4 DEF LetGo, IInv, TypeOK
  <2> QED
    BY <1>4, <2>1 DEF Owns, LiveJobsRun
<1>5. ASSUME NEW w \in Worker, GiveUp(w)
      PROVE  status[j] = "running" /\ status'[j] = "failed" /\ starts[j] = MaxAttempts
  <2>1. Owns(w, j) /\ status[j] = "running" /\ status'[j] = "failed"
    BY <1>4, <1>5 DEF GiveUp
  <2>2. seen[w] = attempts[j] /\ starts[j] = attempts[j] + 1 /\ attempts[j] \in 0 .. MaxAttempts - 1
    BY <2>1 DEF Owns, IInv, TypeOK, Consistent, RowsConsistent, WorkersConsistent
  <2>3. ~(attempts[j] + 1 < MaxAttempts)
    BY <1>5, <2>2 DEF GiveUp, RetriesLeft
  <2> QED
    BY <2>1, <2>2, <2>3
<1>6. ASSUME NEW w \in Worker, CompleteDone(w) \/ Requeue(w)
      PROVE  status[j] = "running" /\ status'[j] \in {"pending", "done"}
  BY <1>4, <1>6 DEF CompleteDone, Requeue
<1>7. CASE Enqueue
  <2>1. \E k : Insert(k)
    BY <1>7 DEF Enqueue, EnqueueUnkeyed, EnqueueCoalesce, EnqueueCheck, EnqueueInsert, rowVars
  <2> QED
    BY <1>1, <2>1
<1>8. ASSUME NEW w \in Worker, Start(w) \/ LoopStep(w) \/ Crash(w)
      PROVE  Boot(w) \/ MarkRunning(w) \/ CompleteDone(w) \/ Requeue(w) \/ GiveUp(w)
  BY <1>8 DEF Start, LoopStep, BootRaises, SelectPending, ClaimRaises, HandlerReturns,
              HandlerRaises, CompleteRaises, FailureWriteRaises, Crash, rowVars
<1>9. ~Tick /\ ~UNCHANGED vars
  BY DEF Tick, vars, rowVars
<1> QED
  BY <1>2, <1>3, <1>5, <1>6, <1>7, <1>8, <1>9 DEF Next

\* A row that is done or failed stays so: no late complete or requeue overwrites
\* it, because its worker had let it go before it settled.
THEOREM SettledStays == ASSUME RuntimeAssumption PROVE Spec => SettledIsFinal
<1>1. IInv /\ LiveJobsRun /\ [Next]_vars =>
        [\A j \in JobIds : status[j] \in Settled => status'[j] = status[j]]_vars
  BY StatusChange DEF Settled, Orphan
<1> QED
  BY <1>1, Invariance, LiveJobsAreSafe, PTL DEF Spec, SettledIsFinal

\* A row fails only after MaxAttempts handlings, or when the worker that was
\* handling it is gone.
THEOREM FailureHasACause == ASSUME RuntimeAssumption PROVE Spec => FailsForACause
<1>1. IInv /\ LiveJobsRun /\ [Next]_vars =>
        [\A j \in JobIds : status[j] # "failed" /\ status'[j] = "failed" =>
           starts[j] = MaxAttempts \/ Orphan(j)]_vars
  BY StatusChange
<1> QED
  BY <1>1, Invariance, LiveJobsAreSafe, PTL DEF Spec, FailsForACause

-----------------------------------------------------------------------------
(* The queue implements the ledger. *)

LEMMA LedgerInit == Init => Ledger!Init
BY DEF Init, Ledger!Init, Phase, Has

\* Whoever owns a row has it in hand as the ledger sees it, and nobody else does.
LEMMA OwnerHas == ASSUME RuntimeAssumption, IInv, LiveJobsRun, NEW w \in Worker, pc[w] \in InHand
                  PROVE  /\ held[w] \in JobIds
                         /\ Has[w] = held[w]
                         /\ Phase[held[w]] = "taken"
                         /\ status[held[w]] = "running"
                         /\ starts[held[w]] = seen[w] + 1
                         /\ seen[w] \in 0 .. MaxAttempts - 1
<1>1. held[w] \in JobIds
  BY DEF IInv, TypeOK, Consistent, WorkersConsistent
<1>2. status[held[w]] = "running"
  BY <1>1 DEF LiveJobsRun, Owns
<1> QED
  BY <1>1, <1>2 DEF IInv, TypeOK, Consistent, RowsConsistent, WorkersConsistent, Has, Phase

LEMMA LedgerSubmit == ASSUME IInv, NEW k, Insert(k) PROVE Ledger!Submit(nextId)
<1>1. nextId \in JobIds /\ status[nextId] = "none"
  BY DEF Insert, IInv, TypeOK, Consistent, RowsConsistent
<1>2. Phase' = [Phase EXCEPT ![nextId] = "waiting"]
  BY <1>1 DEF Insert, IInv, TypeOK, Phase
<1> QED
  BY <1>1, <1>2 DEF Insert, workerVars, Ledger!Submit, Phase, Has

LEMMA LedgerTake == ASSUME IInv, NEW w \in Worker, MarkRunning(w) PROVE Ledger!Take(w, held[w])
<1> DEFINE j == held[w]
<1>1. j \in JobIds /\ status[j] = "pending" /\ starts[j] = attempts[j]
  <2>1. j \in JobIds /\ status[j] = "pending"
    BY DEF MarkRunning, IInv, TypeOK, Consistent, WorkersConsistent
  <2>2. starts[j] = attempts[j] + 0
    BY <2>1 DEF IInv, Consistent, RowsConsistent
  <2>3. attempts[j] \in 0 .. MaxAttempts - 1
    BY <2>1 DEF IInv, TypeOK
  <2> QED
    BY <2>1, <2>2, <2>3
<1>2. Has[w] = 0 /\ Phase[j] = "waiting"
  BY <1>1 DEF MarkRunning, Has, Phase
<1>3. ~Ledger!InSomeHand(j)
  BY <1>1, <1>2 DEF Ledger!InSomeHand, Has, IInv, ExclusiveHandling
<1>4. starts[j] < MaxAttempts
  <2>1. attempts[j] \in 0 .. MaxAttempts - 1
    BY <1>1 DEF IInv, TypeOK
  <2> QED
    BY <1>1, <2>1
<1>5. Phase' = [Phase EXCEPT ![j] = "taken"]
  BY <1>1 DEF MarkRunning, IInv, TypeOK, Phase
<1>6. Has' = [Has EXCEPT ![w] = j]
  BY DEF MarkRunning, IInv, TypeOK, Has
<1> QED
  BY <1>1, <1>2, <1>3, <1>4, <1>5, <1>6 DEF MarkRunning, Ledger!Take

LEMMA LedgerLetGo ==
  ASSUME RuntimeAssumption, IInv, LiveJobsRun, NEW w \in Worker, pc[w] \in InHand,
         NEW s \in {"pending", "done", "failed"}, LetGo(w, s), UNCHANGED starts
  PROVE  Ledger!LetGo(w, held[w], IF s = "pending" THEN "waiting" ELSE s)
<1>1. held[w] \in JobIds /\ Has[w] = held[w] /\ Phase[held[w]] = "taken"
  BY OwnerHas
<1>2. Phase' = [Phase EXCEPT ![held[w]] = IF s = "pending" THEN "waiting" ELSE s]
  BY <1>1 DEF LetGo, IInv, TypeOK, Phase
<1>3. Has' = [Has EXCEPT ![w] = 0]
  BY DEF LetGo, IInv, TypeOK, Has
<1> QED
  BY <1>1, <1>2, <1>3 DEF Ledger!LetGo

\* A worker that goes away without writing its row loses it, if it had one.
LEMMA LedgerLose ==
  ASSUME IInv, NEW w \in Worker, NEW p \in {"idle", "dead", "down"},
         pc' = [pc EXCEPT ![w] = p], held' = [held EXCEPT ![w] = 0], UNCHANGED << status, starts >>
  PROVE  Ledger!Lose(w) \/ UNCHANGED << Phase, starts, Has >>
<1>1. Has' = [Has EXCEPT ![w] = 0] /\ Phase' = Phase
  BY DEF IInv, TypeOK, Has, Phase
<1> QED
  BY <1>1 DEF Ledger!Lose, Has

LEMMA LedgerWriteOff ==
  ASSUME RuntimeAssumption, IInv, LiveJobsRun, NEW w \in Worker, Boot(w)
  PROVE  Ledger!WriteOff
<1> DEFINE lost == {j \in JobIds : Stale(j)}
<1>1. \A j \in lost : Phase[j] = "taken" /\ ~Ledger!InSomeHand(j)
  <2> SUFFICES ASSUME NEW j \in JobIds, Stale(j)
               PROVE  Phase[j] = "taken" /\ ~Ledger!InSomeHand(j)
    OBVIOUS
  <2>1. \A v \in Worker : ~Owns(v, j)
    BY SweepSparesLive
  <2> QED
    BY <2>1 DEF Stale, Owns, Ledger!InSomeHand, Has, Phase
<1>2. Phase' = [j \in JobIds |-> IF j \in lost THEN "failed" ELSE Phase[j]]
  BY DEF Boot, RecoverOrphans, Stale, Phase
<1>3. Has' = Has
  BY DEF Boot, IInv, TypeOK, Has
<1> QED
  BY <1>1, <1>2, <1>3 DEF Boot, Ledger!WriteOff

LEMMA LedgerStep == ASSUME RuntimeAssumption, IInv, LiveJobsRun, [Next]_vars
                    PROVE  [Ledger!Next]_(Ledger!ledger)
<1> USE DEF Ledger!ledger
<1>1. CASE Enqueue
  <2>1. (\E k : Insert(k)) \/ UNCHANGED << rowVars, workerVars, starts >>
    BY <1>1 DEF Enqueue, EnqueueUnkeyed, EnqueueCoalesce, EnqueueCheck, EnqueueInsert
  <2>2. ASSUME NEW k, Insert(k) PROVE Ledger!Next
    BY <2>2, LedgerSubmit DEF Insert, Ledger!Next
  <2> QED
    BY <2>1, <2>2 DEF rowVars, workerVars, Phase, Has
<1>2. ASSUME NEW w \in Worker, Start(w) PROVE [Ledger!Next]_(Ledger!ledger)
  <2>1. CASE Boot(w)
    BY <2>1, LedgerWriteOff DEF Ledger!Next
  <2>2. CASE BootRaises(w)
    BY <2>2 DEF BootRaises, IInv, TypeOK, rowVars, Phase, Has
  <2> QED
    BY <1>2, <2>1, <2>2 DEF Start
<1>3. ASSUME NEW w \in Worker, LoopStep(w) PROVE [Ledger!Next]_(Ledger!ledger)
  <2>1. CASE SelectPending(w)
    <3>1. Has' = Has
      BY <2>1 DEF SelectPending, IInv, TypeOK, Has
    <3> QED
      BY <2>1, <3>1 DEF SelectPending, rowVars, Phase
  <2>2. CASE MarkRunning(w)
    <3>1. held[w] \in JobIds
      BY <2>2 DEF MarkRunning, IInv, TypeOK, Consistent, WorkersConsistent
    <3> QED
      BY <2>2, <3>1, LedgerTake DEF Ledger!Next
  <2>3. CASE HandlerReturns(w) \/ HandlerRaises(w) \/ CompleteRaises(w)
    <3>1. Has' = Has
      BY <2>3 DEF HandlerReturns, HandlerRaises, CompleteRaises, IInv, TypeOK, Has
    <3> QED
      BY <2>3, <3>1 DEF HandlerReturns, HandlerRaises, CompleteRaises, rowVars, Phase
  <2>4. CASE ClaimRaises(w) \/ FailureWriteRaises(w)
    BY <2>4, LedgerLose DEF ClaimRaises, FailureWriteRaises, rowVars, Ledger!Next
  <2>5. CASE CompleteDone(w)
    <3>1. Ledger!Finish(w, held[w])
      BY <2>5, LedgerLetGo DEF CompleteDone, Ledger!Finish
    <3> QED
      BY <2>5, <3>1, OwnerHas DEF CompleteDone, Ledger!Next
  <2>6. CASE Requeue(w)
    <3>1. starts[held[w]] < MaxAttempts
      BY <2>6, OwnerHas DEF Requeue, RetriesLeft
    <3>2. Ledger!PutBack(w, held[w])
      BY <2>6, <3>1, LedgerLetGo DEF Requeue, Ledger!PutBack
    <3> QED
      BY <2>6, <3>2, OwnerHas DEF Requeue, Ledger!Next
  <2>7. CASE GiveUp(w)
    <3>1. starts[held[w]] = MaxAttempts
      BY <2>7, OwnerHas DEF GiveUp, RetriesLeft
    <3>2. Ledger!GiveUp(w, held[w])
      BY <2>7, <3>1, LedgerLetGo DEF GiveUp, Ledger!GiveUp
    <3> QED
      BY <2>7, <3>2, OwnerHas DEF GiveUp, Ledger!Next
  <2> QED
    BY <1>3, <2>1, <2>2, <2>3, <2>4, <2>5, <2>6, <2>7 DEF LoopStep
<1>4. ASSUME NEW w \in Worker, Crash(w) PROVE [Ledger!Next]_(Ledger!ledger)
  BY <1>4, LedgerLose DEF Crash, rowVars, Ledger!Next
<1>5. CASE Tick \/ UNCHANGED vars
  BY <1>5 DEF Tick, vars, rowVars, workerVars, Phase, Has
<1> QED
  BY <1>1, <1>2, <1>3, <1>4, <1>5 DEF Next

\* If no job outlives the staleness limit, the table, its row locks, its clock
\* and its worker loops do what the ledger says: one hand per item, at most
\* MaxAttempts tries, failure for a cause, settled for good.
THEOREM Refinement == ASSUME RuntimeAssumption PROVE Spec => RefinesLedger
<1>1. IInv /\ LiveJobsRun /\ [Next]_vars => [Ledger!Next]_(Ledger!ledger)
  BY LedgerStep
<1> QED
  BY <1>1, LedgerInit, Invariance, LiveJobsAreSafe, PTL DEF Spec, RefinesLedger, Ledger!Spec
=============================================================================
