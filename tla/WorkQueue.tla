----------------------------- MODULE WorkQueue -----------------------------
(***************************************************************************)
(* The durable job table of internal/workqueue: enqueue with idempotency   *)
(* keys and dependencies, fenced leases that expire, completion, cancella- *)
(* tion, propagation through the dependency graph, retention and restart.  *)
(*                                                                         *)
(* Every operation of the store holds Store.mu and runs in one SQLite      *)
(* transaction, so it is one action here.  What interleaves is the callers:*)
(* workers whose lease has lapsed, retries of calls whose answer was lost, *)
(* cancellations, and the process stopping between any two operations.     *)
(*                                                                         *)
(* A row is a record.  A lease id is random in the code and is replaced    *)
(* only together with a new fence, so the model names a lease by the fence *)
(* it was issued with, 0 standing for NULL; the holder column is set and   *)
(* cleared with it.  The body of a result (summary and reference) is named *)
(* by the lease whose worker sent it, 0 for the texts the store writes.    *)
(***************************************************************************)
EXTENDS Integers, FiniteSets, FairScheduler

CONSTANTS
  Jobs,                 \* job ids, numbers because the code orders them
  Keys,                 \* idempotency keys
  Pools,
  Ttls,                 \* the lease durations callers ask for
  MaxJobs,              \* Config.MaxJobs
  MaxJobsPerWorkspace,  \* Config.MaxJobsPerWorkspace
  MaxDependencies,
  MaxLeaseAttempts,
  MaxTaskWorkers,       \* jobs one CreateTask may insert
  Retention,            \* CleanupTerminal's retention
  MaxTime               \* bound of the model: no heartbeat after it, and
                        \* the clock only runs on for leases still held

ASSUME QueueAssumption ==
  /\ Jobs \subseteq Nat /\ IsFiniteSet(Jobs)
  /\ Ttls \subseteq Nat \ {0}
  /\ MaxJobs \in Nat /\ MaxJobsPerWorkspace \in Nat
  /\ MaxDependencies \in Nat /\ MaxTaskWorkers \in Nat
  /\ MaxLeaseAttempts \in Nat \ {0}
  /\ Retention \in Nat /\ MaxTime \in Nat

VARIABLES
  job,       \* the table: a row for every job id, "absent" before the insert
  open,      \* the process has the store open
  fair,      \* the in-memory scheduler of the open store
  clock,
  promised   \* history: the expiry last told to a worker, per job

vars == <<job, open, fair, clock, promised>>

-----------------------------------------------------------------------------
(* Rows.                                                                   *)

Pending == {"blocked", "queued", "leased"}
Terminal == {"succeeded", "failed", "cancelled"}
States == Pending \cup Terminal
Reasons == {"", "dependency_pending", "dependency_failed", "lease_expired", "recovery_exhausted",
            "task_goal_unavailable", "cancelled", "cancel_requested"}
NoLease == 0
NoKey == "no key"
NoPool == "no pool"

Row == [state: States \cup {"absent", "deleted"}, reason: Reasons,
        key: Keys \cup {NoKey}, ws: Workspaces \cup {NoCursor}, pool: Pools \cup {NoPool},
        deps: SUBSET Jobs, worker: BOOLEAN, cancel: BOOLEAN,
        attempt: Nat, fence: Nat, lease: Nat, until: Nat,
        outcome: Terminal \cup {""}, result: Nat, created: Nat, updated: Nat]

\* No row in the table; "deleted" marks an id that was used and is gone.
NoRow(state) ==
  [state |-> state, reason |-> "", key |-> NoKey, ws |-> NoCursor, pool |-> NoPool,
   deps |-> {}, worker |-> FALSE, cancel |-> FALSE,
   attempt |-> 0, fence |-> 0, lease |-> NoLease, until |-> 0,
   outcome |-> "", result |-> 0, created |-> 0, updated |-> 0]

\* The column defaults of an INSERT; a job inserted as failed has its outcome.
NewRow(state, reason, k, w, p, D, isWorker) ==
  [NoRow(state) EXCEPT
    !.reason = reason, !.key = k, !.ws = w, !.pool = p, !.deps = D, !.worker = isWorker,
    !.outcome = IF state \in Terminal THEN state ELSE "",
    !.created = clock, !.updated = clock]

Present(t) == {j \in Jobs : t[j].state \in States}
PendingJobs(t) == {j \in Jobs : t[j].state \in Pending}
ActiveIn(t, w) == {j \in PendingJobs(t) : t[j].ws = w}
InState(t, s) == {j \in Jobs : t[j].state = s}
Bad(t) == InState(t, "failed") \cup InState(t, "cancelled")

-----------------------------------------------------------------------------
(* Dependencies.                                                           *)

\* dependencyState: a failed or cancelled dependency decides, then a pending
\* one, then all have succeeded.
DependencyState(t, D) ==
  IF D \cap Bad(t) # {} THEN "failed"
  ELSE IF D \subseteq InState(t, "succeeded") THEN "queued" ELSE "blocked"

DependencyReason(state) ==
  CASE state = "failed" -> "dependency_failed"
    [] state = "blocked" -> "dependency_pending"
    [] OTHER -> ""

\* The blocked jobs a breadth-first walk from the failed jobs reaches: the
\* least set of blocked jobs that holds every blocked job depending on a
\* failed job or on a member.
Falls(t, S) == {j \in InState(t, "blocked") : t[j].deps \cap (Bad(t) \cup S) # {}}
Fallen(t) ==
  {j \in InState(t, "blocked") :
    \A S \in SUBSET InState(t, "blocked") : Falls(t, S) \subseteq S => j \in S}

Released(t) ==
  {j \in InState(t, "blocked") : t[j].deps \subseteq InState(t, "succeeded")}

\* propagate: what the walk leaves behind when t is the table in which jobs
\* have just become terminal.
Propagate(t) ==
  LET fallen == Fallen(t)
      released == Released(t)
  IN [j \in Jobs |->
       IF j \in fallen
       THEN [t[j] EXCEPT !.state = "failed", !.reason = "dependency_failed",
                         !.outcome = "failed", !.updated = clock]
       ELSE IF j \in released
       THEN [t[j] EXCEPT !.state = "queued", !.reason = "", !.updated = clock]
       ELSE t[j]]

-----------------------------------------------------------------------------
(* Leases.                                                                 *)

\* The scan of recoverExpired.
Expired(t) == {j \in InState(t, "leased") : t[j].until <= clock}

\* What becomes of a job whose lease expired.
ReapedState(r) ==
  IF r.cancel THEN "cancelled" ELSE IF r.attempt >= MaxLeaseAttempts THEN "failed" ELSE "queued"

ReapedReason(state) ==
  CASE state = "cancelled" -> "cancelled"
    [] state = "failed" -> "recovery_exhausted"
    [] OTHER -> "lease_expired"

\* Faulty variant: a requeued job starts afresh, its cancellation forgotten.
ReapedForgettingCancel(r) ==
  [r EXCEPT !.state = "queued", !.reason = "lease_expired", !.lease = NoLease, !.until = 0,
            !.cancel = FALSE, !.updated = clock]

\* One iteration of recoverExpired's loop.
Reaped(r) ==
  LET state == ReapedState(r)
  IN [r EXCEPT !.state = state, !.reason = ReapedReason(state), !.lease = NoLease, !.until = 0,
               !.outcome = IF state \in Terminal THEN state ELSE "", !.updated = clock]

\* recoverExpired: every expired lease is reaped, then the walks run.
Recovered ==
  Propagate([j \in Jobs |-> IF j \in Expired(job) THEN Reaped(job[j]) ELSE job[j]])

\* The UPDATE that hands out a lease.
Granted(r, ttl) ==
  [r EXCEPT !.state = "leased", !.reason = "", !.attempt = @ + 1, !.fence = @ + 1,
            !.lease = r.fence + 1, !.until = clock + ttl, !.updated = clock]

\* Faulty variant: a requeued job is not a candidate.
CandidatesNeverLeased(t, p) ==
  {[id |-> j, ws |-> t[j].ws, cost |-> 1, at |-> t[j].updated] :
    j \in {i \in InState(t, "queued") : t[i].pool = p /\ t[i].reason = ""}}

\* LeaseNext's candidates; their age counts from the last update.
Candidates(t, p) ==
  {[id |-> j, ws |-> t[j].ws, cost |-> 1, at |-> t[j].updated] :
    j \in {i \in InState(t, "queued") : t[i].pool = p /\ ~t[i].cancel}}

\* Faulty variant: the lease id and the fence are not compared.
HoldsAnyLease(j, f) == job[j].state = "leased" /\ job[j].until > clock

\* The worker presenting lease f holds job j now.
Holds(j, f) ==
  job[j].state = "leased" /\ job[j].lease = f /\ job[j].fence = f /\ job[j].until > clock
-----------------------------------------------------------------------------
(* The operations.  An operation that returns an error or a stored answer  *)
(* leaves the table alone and is a stuttering step; its condition is the   *)
(* negation of the guard.                                                  *)

KeyUnused(k) == \A j \in Present(job) : job[j].key # k

\* The bounds on pending jobs, for n more jobs of workspace w.
Admits(w, n) ==
  /\ Cardinality(PendingJobs(job)) + n <= MaxJobs
  /\ Cardinality(ActiveIn(job, w)) + n <= MaxJobsPerWorkspace

\* Enqueue: a stored key returns the stored job (or a conflict).
Enqueue(j, k, w, p, D) ==
  /\ open
  /\ job[j].state = "absent"
  /\ KeyUnused(k)
  /\ Cardinality(D) <= MaxDependencies /\ D \subseteq Present(job)
  /\ Admits(w, 1)
  /\ LET state == DependencyState(job, D)
     IN job' = [job EXCEPT ![j] = NewRow(state, DependencyReason(state), k, w, p, D, FALSE)]
  /\ UNCHANGED <<open, fair, clock, promised>>

\* CreateTask, as far as the job table goes: the jobs of all workers or none.
CreateTask(J, key, w, p) ==
  /\ open
  /\ Cardinality(J) \in 1..MaxTaskWorkers
  /\ \A j \in J : job[j].state = "absent" /\ KeyUnused(key[j])
  /\ \A i, j \in J : key[i] = key[j] => i = j
  /\ Admits(w, Cardinality(J))
  /\ job' = [j \in Jobs |-> IF j \in J THEN NewRow("queued", "", key[j], w, p, {}, TRUE) ELSE job[j]]
  /\ UNCHANGED <<open, fair, clock, promised>>

\* LeaseNext: recovery, selection and the lease in one transaction; without a
\* candidate the recovery alone is committed.
LeaseNext(p, ttl) ==
  /\ open
  /\ \E t \in {Recovered} : \E C \in {Candidates(t, p)} :
        \/ /\ C = {}
           /\ job' = t
           /\ UNCHANGED <<fair, promised>>
        \/ /\ C # {}
           /\ \E choice \in {Select(fair, clock, C)} : \E c \in choice.picked :
                /\ job' = [t EXCEPT ![c.id] = Granted(@, ttl)]
                /\ promised' = [promised EXCEPT ![c.id] = clock + ttl]
                /\ fair' = choice.fair
  /\ UNCHANGED <<open, clock>>

\* LeaseTaskWorker: a lease on one named job; a worker that is leased already
\* gets the stored lease back and only the recovery is committed.
LeaseTaskWorker(j, ttl) ==
  /\ open
  /\ job[j].worker
  /\ LET t == Recovered IN
     \/ /\ t[j].state = "leased"
        /\ job' = t
        /\ UNCHANGED promised
     \/ /\ t[j].state = "queued" /\ ~t[j].cancel
        /\ job' = [t EXCEPT ![j] = Granted(@, ttl)]
        /\ promised' = [promised EXCEPT ![j] = clock + ttl]
  /\ UNCHANGED <<open, fair, clock>>

RecoverExpired ==
  /\ open
  /\ job' = Recovered
  /\ UNCHANGED <<open, fair, clock, promised>>

\* Heartbeat by the worker that was given lease f.
Heartbeat(j, f, ttl) ==
  /\ open
  /\ clock <= MaxTime
  /\ Holds(j, f)
  /\ job' = [job EXCEPT ![j].until = clock + ttl, ![j].updated = clock]
  /\ promised' = [promised EXCEPT ![j] = clock + ttl]
  /\ UNCHANGED <<open, fair, clock>>

\* Complete by the worker that was given lease f; on a terminal job the call
\* is a replay or a conflict and changes nothing.
Complete(j, f, outcome) ==
  /\ open
  /\ Holds(j, f)
  /\ job[j].cancel => outcome = "cancelled"
  /\ job' = Propagate([job EXCEPT ![j].state = outcome, ![j].reason = "", ![j].outcome = outcome,
                                  ![j].result = f, ![j].updated = clock])
  /\ UNCHANGED <<open, fair, clock, promised>>

\* Faulty variant: the dependents of a cancelled job are not told.
CancelWithoutWalk(j) ==
  /\ open
  /\ job[j].state \in {"blocked", "queued"}
  /\ job' = [job EXCEPT ![j].state = "cancelled", ![j].reason = "cancelled", ![j].cancel = TRUE,
                        ![j].outcome = "cancelled", ![j].updated = clock]
  /\ UNCHANGED <<open, fair, clock, promised>>

\* Cancel: immediate for a waiting job, a request for a running one.
Cancel(j) ==
  /\ open
  /\ \/ /\ job[j].state = "leased"
        /\ job' = [job EXCEPT ![j].cancel = TRUE, ![j].reason = "cancel_requested",
                              ![j].updated = clock]
     \/ /\ job[j].state \in {"blocked", "queued"}
        /\ job' = Propagate([job EXCEPT ![j].state = "cancelled", ![j].reason = "cancelled",
                                        ![j].cancel = TRUE, ![j].outcome = "cancelled",
                                        ![j].updated = clock])
  /\ UNCHANGED <<open, fair, clock, promised>>

\* FailUnstartedTaskWorker: the private goal of a worker that never started
\* is gone.
FailUnstartedTaskWorker(j) ==
  /\ open
  /\ job[j].worker /\ job[j].state \in {"blocked", "queued"}
  /\ job' = Propagate([job EXCEPT ![j].state = "failed", ![j].reason = "task_goal_unavailable",
                                  ![j].cancel = FALSE, ![j].outcome = "failed",
                                  ![j].result = 0, ![j].updated = clock])
  /\ UNCHANGED <<open, fair, clock, promised>>

\* What CleanupTerminal may delete: old terminal rows no row depends on and no
\* task owns.
Removable ==
  {j \in Jobs : /\ job[j].state \in Terminal /\ job[j].updated < clock - Retention
                /\ ~job[j].worker /\ \A i \in Jobs : j \notin job[i].deps}

\* CleanupTerminal: the oldest rows first, up to the caller's limit.
CleanupTerminal(X) ==
  /\ open
  /\ X # {} /\ X \subseteq Removable
  /\ \A x \in X, y \in Removable \ X :
       job[x].updated < job[y].updated \/ (job[x].updated = job[y].updated /\ x < y)
  /\ job' = [j \in Jobs |-> IF j \in X THEN NoRow("deleted") ELSE job[j]]
  /\ UNCHANGED <<open, fair, clock, promised>>
-----------------------------------------------------------------------------
(* Opening the store.                                                      *)

\* validateStoredJob: a row that fails it cannot be read by any operation.
StoredJobValid(r) ==
  LET unleased == r.lease = NoLease /\ r.until = 0
      leased == r.lease # NoLease /\ r.until # 0 /\ r.fence # 0
  IN /\ r.state \in States
     /\ r.created <= r.updated
     /\ r.state = "blocked" =>
          r.reason = "dependency_pending" /\ ~r.cancel /\ unleased /\ r.outcome = ""
     /\ r.state = "queued" =>
          r.reason \in {"", "lease_expired"} /\ ~r.cancel /\ unleased /\ r.outcome = ""
     /\ r.state = "leased" =>
          leased /\ r.outcome = "" /\ r.reason = IF r.cancel THEN "cancel_requested" ELSE ""
     /\ r.state = "succeeded" =>
          r.outcome = "succeeded" /\ (unleased \/ leased) /\ ~r.cancel /\ r.reason = ""
     /\ r.state = "failed" =>
          /\ r.outcome = "failed" /\ (unleased \/ leased) /\ ~r.cancel
          /\ r.reason \in {"", "dependency_failed", "recovery_exhausted", "task_goal_unavailable"}
     /\ r.state = "cancelled" =>
          r.outcome = "cancelled" /\ (unleased \/ leased) /\ r.reason \in {"", "cancelled"}

DependencyRows(t) == UNION {{j} \X t[j].deps : j \in Jobs}

\* Integrity, as far as the job table goes.
Integrity ==
  /\ \A j \in Present(job) : StoredJobValid(job[j])
  /\ Cardinality(PendingJobs(job)) <= MaxJobs
  /\ \A w \in Workspaces : Cardinality(ActiveIn(job, w)) <= MaxJobsPerWorkspace
  /\ Cardinality(DependencyRows(job)) <= MaxJobs * MaxDependencies
  /\ \A j \in Jobs : job[j].deps \subseteq Present(job)

\* The process ends, by Close or by a crash: committed rows stay, the
\* scheduler's memory does not.
Stop ==
  /\ open
  /\ open' = FALSE
  /\ fair' = NewFairScheduler
  /\ UNCHANGED <<job, clock, promised>>

\* Open refuses a table that fails Integrity.
Open ==
  /\ ~open
  /\ Integrity
  /\ open' = TRUE
  /\ fair' = NewFairScheduler
  /\ UNCHANGED <<job, clock, promised>>

Tick ==
  /\ clock < MaxTime \/ \E j \in InState(job, "leased") : job[j].until > clock
  /\ clock' = clock + 1
  /\ UNCHANGED <<job, open, fair, promised>>

Init ==
  /\ job = [j \in Jobs |-> NoRow("absent")]
  /\ open = TRUE
  /\ fair = NewFairScheduler
  /\ clock = 1
  /\ promised = [j \in Jobs |-> 0]

\* A worker may act on any lease it was ever given.
Next ==
  \/ \E j \in Jobs, k \in Keys, w \in Workspaces, p \in Pools, D \in SUBSET Jobs :
       Enqueue(j, k, w, p, D)
  \/ \E J \in SUBSET Jobs, w \in Workspaces, p \in Pools : \E key \in [J -> Keys] :
       CreateTask(J, key, w, p)
  \/ \E p \in Pools, ttl \in Ttls : LeaseNext(p, ttl)
  \/ \E j \in Jobs, ttl \in Ttls : LeaseTaskWorker(j, ttl)
  \/ RecoverExpired
  \/ \E j \in Jobs, ttl \in Ttls : \E f \in 1..job[j].fence : Heartbeat(j, f, ttl)
  \/ \E j \in Jobs, o \in Terminal : \E f \in 1..job[j].fence : Complete(j, f, o)
  \/ \E j \in Jobs : Cancel(j)
  \/ \E j \in Jobs : FailUnstartedTaskWorker(j)
  \/ \E X \in SUBSET Jobs : CleanupTerminal(X)
  \/ Stop
  \/ Open
  \/ Tick

Spec == Init /\ [][Next]_vars
-----------------------------------------------------------------------------
(* Properties.                                                             *)

\* The table holds rows of the schema, the scheduler's memory is well formed.
TypeOK ==
  /\ job \in [Jobs -> Row]
  /\ open \in BOOLEAN
  /\ fair \in FairState
  /\ clock \in Nat
  /\ promised \in [Jobs -> Nat]

\* Every row some sequence of operations leaves behind is one validateStoredJob
\* accepts: no operation ever makes a job unreadable, and Open's semantic scan
\* never refuses the table after a stop between any two operations.
StoredJobsValid == \A j \in Present(job) : StoredJobValid(job[j])

\* A job waits as blocked only while a dependency is undecided and none has
\* failed: propagate leaves no job behind, however long the chain.
BlockedHasCause ==
  \A j \in InState(job, "blocked") :
    job[j].deps \cap PendingJobs(job) # {} /\ job[j].deps \cap Bad(job) = {}

\* No job runs, or is offered to a worker, before all it depends on succeeded.
StartedAfterDependencies ==
  \A j \in Jobs : job[j].state \in {"queued", "leased", "succeeded"} =>
    job[j].deps \subseteq InState(job, "succeeded")

\* A job is failed for its dependencies only if one of them failed or was
\* cancelled.
DependencyFailureHasCause ==
  \A j \in InState(job, "failed") : job[j].reason = "dependency_failed" =>
    job[j].deps \cap Bad(job) # {}

\* What propagate, Enqueue's dependencyState and CleanupTerminal maintain
\* together.
DependencyConsistency ==
  /\ BlockedHasCause
  /\ StartedAfterDependencies
  /\ DependencyFailureHasCause

\* CleanupTerminal never deletes a row another row still depends on, and no
\* two rows share an idempotency key.
ReferencesIntact ==
  /\ \A j \in Jobs : job[j].deps \subseteq Present(job)
  /\ \A i, j \in Present(job) : job[i].key = job[j].key => i = j

\* The admission bounds of Enqueue and CreateTask hold at all times, through
\* requeues after expired leases as well.
BoundsRespected ==
  /\ Cardinality(PendingJobs(job)) <= MaxJobs
  /\ \A w \in Workspaces : Cardinality(ActiveIn(job, w)) <= MaxJobsPerWorkspace

\* A worker's result is in the table only if it was sent under the last lease
\* ever issued for the job: a worker whose lease lapsed and was issued again
\* never decides the outcome.
NewestLeaseDecides ==
  \A j \in Jobs : job[j].result # 0 =>
    job[j].state \in Terminal /\ job[j].result = job[j].fence /\ job[j].lease = job[j].fence

\* A job is leased at most MaxLeaseAttempts times, and a job that waits in the
\* queue has an attempt left.
AttemptsBounded ==
  \A j \in Jobs :
    /\ job[j].attempt = job[j].fence /\ job[j].attempt <= MaxLeaseAttempts
    /\ job[j].state = "queued" => job[j].attempt < MaxLeaseAttempts

\* A lease is issued only when the time promised to the previous worker of the
\* job is over, and each lease takes the next fence.
LeaseExclusiveStep ==
  \A j \in Jobs : job'[j].fence > job[j].fence =>
    promised[j] <= clock /\ job'[j].fence = job[j].fence + 1
LeaseExclusive == [][LeaseExclusiveStep]_vars

\* A terminal row is evidence: it never changes again, retries and late
\* workers included, until CleanupTerminal deletes it.
TerminalFinalStep ==
  \A j \in Jobs : job[j].state \in Terminal =>
    job'[j] = job[j] \/ job'[j].state = "deleted"
TerminalFinal == [][TerminalFinalStep]_vars

\* Once a running job's cancellation was accepted, the job is never queued
\* again and ends as cancelled.
CancelSticksStep ==
  \A j \in Jobs : job[j].cancel =>
    job'[j].state \in {"leased", "cancelled", "deleted"} /\ job'[j].fence \in {0, job[j].fence}
CancelSticks == [][CancelSticksStep]_vars

-----------------------------------------------------------------------------
(* Progress.  The coordinators of the control plane poll their pools and   *)
(* recover expired leases on every pass, after a restart as well, and a    *)
(* stopped process is started again.  Nothing is assumed of the workers.   *)

Fairness ==
  /\ WF_vars(Tick)
  /\ WF_vars(Open)
  /\ SF_vars(RecoverExpired)
  /\ \A p \in Pools : SF_vars(\E ttl \in Ttls : LeaseNext(p, ttl))

FairSpec == Spec /\ Fairness

\* Every job that is in the table ends, even if every worker that is given a
\* lease vanishes: expired leases are requeued until recovery_exhausted, and
\* the failure reaches the blocked jobs behind it.
EveryJobEnds == \A j \in Jobs : []<>(job[j].state \notin Pending)

\* The stored queue in every state: rows that Open accepts, whose dependencies
\* exist, within the limits of jobs and of abandoned leases; the outcome of a
\* job is the one its newest lease gave.
QueueSafe ==
  /\ TypeOK
  /\ StoredJobsValid
  /\ ReferencesIntact
  /\ NewestLeaseDecides
  /\ AttemptsBounded
  /\ BoundsRespected

\* What no call on the queue may do: lease a job that is promised to another
\* worker, change an ended job, or forget an accepted cancellation.
QueueSteps ==
  /\ LeaseExclusive
  /\ TerminalFinal
  /\ CancelSticks
=============================================================================
