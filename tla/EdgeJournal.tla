---------------------------- MODULE EdgeJournal ----------------------------
(***************************************************************************)
(* The journal of direct operations of one paired Edge device, table       *)
(* edge_operations of internal/edge: creation with idempotency, leases,    *)
(* progress, completion, cancellation, recovery by kind, retention.        *)
(*                                                                         *)
(* Every call of the store holds Store.mu and is one action.  Calls that   *)
(* read an operation first normalise it (recover an expired lease, expire a*)
(* queued project_exec), which is a write and is modelled.                 *)
(*                                                                         *)
(* A lease id is random and is NULL unless the operation is leased; the    *)
(* model names a lease by the attempt it was issued for, 0 for NULL.  Times*)
(* are numbers, 0 for NULL.  Request and result bodies are left out: a     *)
(* request is its digest, a result is valid or not.                        *)
(***************************************************************************)
EXTENDS Integers, FiniteSets, FiniteSetsExt

CONSTANTS
  Ops,               \* operation ids, numbers because the code orders them
  Kinds,             \* the kinds of operation in use
  Digests,           \* idempotency keys or digests of request bodies
  LeaseTtls,         \* lease durations the Edge asks for
  HeartbeatTtl,      \* operationHeartbeatTTL
  QueueTtl,          \* projectExecQueueTTL
  RecoveryWindow,    \* maxPrivilegedOperationRecoveryWindow
  MaxLeaseAttempts,  \* maxOperationLeaseAttempts
  MaxRevision,       \* bound of the model on progress revisions
  MaxTime            \* bound of the model: no progress from here on, and the
                     \* clock only runs on for leases still held

\* One kind for each way the code treats an operation: the foreground
\* project_exec; a keyed effect such as project_process_start; a keyed effect
\* that is not interruptible (project_process_stdin); lab preparation; a
\* request without key such as project_status; the two diagnostics; and bundle
\* update, rollback and repair.
AllKinds == {"exec", "keyed", "stdin", "lab", "plain", "diagnostic", "bundle"}

\* projectOperationUsesIdempotency, and the two lab kinds: a finished operation
\* answers a repeated request.
Idempotent == {"exec", "keyed", "stdin", "lab"}
\* The five kinds that may be executed again, and that a device with another
\* protocol may lease.
Repeatable == {"diagnostic", "bundle"}
Privileged == {"bundle"}
Interruptible == AllKinds \ {"bundle", "stdin"}

ASSUME JournalAssumption ==
  /\ Ops \subseteq Nat /\ IsFiniteSet(Ops)
  /\ Kinds \subseteq AllKinds
  /\ LeaseTtls \subseteq Nat \ {0} /\ HeartbeatTtl \in Nat \ {0}
  /\ QueueTtl \in Nat /\ RecoveryWindow \in Nat
  /\ MaxLeaseAttempts \in Nat \ {0}
  /\ MaxRevision \in Nat /\ MaxTime \in Nat

VARIABLES
  op,      \* the table
  clock

journalVars == <<op, clock>>

-----------------------------------------------------------------------------
(* Rows.                                                                   *)

Live == {"queued", "leased"}
Done == {"succeeded", "failed", "cancelled"}
OpStates == Live \cup Done
\* Error codes; the empty one, of an operation without error, is "none".
Codes == {"none", "operation_cancelled", "operation_execution_interrupted", "operation_recovery_exhausted",
          "operation_queue_expired", "operation_result_invalid", "reported"}
Phases == {"running", "finalizing", "other"}
NoDigest == "no digest"

OpRow == [state: OpStates \cup {"absent", "pruned"}, kind: Kinds \cup {"none"},
          digest: Digests \cup {NoDigest}, code: Codes, cancel: BOOLEAN, progress: Nat,
          attempts: Nat, lease: Nat, until: Nat, first: Nat,
          leasedAt: Nat, runningAt: Nat, finalizingAt: Nat, created: Nat, updated: Nat, rowid: Nat]

NoOp(state) ==
  [state |-> state, kind |-> "none", digest |-> NoDigest, code |-> "none", cancel |-> FALSE,
   progress |-> 0, attempts |-> 0, lease |-> 0, until |-> 0, first |-> 0,
   leasedAt |-> 0, runningAt |-> 0, finalizingAt |-> 0, created |-> 0, updated |-> 0, rowid |-> 0]

Stored(t) == {o \in Ops : t[o].state \in OpStates}
Queued(t) == {o \in Ops : t[o].state = "queued"}
Leased(t) == {o \in Ops : t[o].state = "leased"}

\* SQLite gives a new row the largest row id plus one.
NextRowid(t) == Max({0} \cup {t[o].rowid : o \in Stored(t)}) + 1

NewOp(t, kind, d) ==
  [NoOp("queued") EXCEPT !.kind = kind, !.digest = d, !.created = clock, !.updated = clock,
                         !.rowid = NextRowid(t)]

-----------------------------------------------------------------------------
(* Recovery.                                                               *)

\* An effect that may have begun and must not begin again.
Interrupted(r) == r.progress # 0 /\ r.kind \notin Repeatable

Exhausted(r) ==
  \/ r.attempts >= MaxLeaseAttempts
  \/ r.kind \in Privileged /\ r.first # 0 /\ r.first <= clock - RecoveryWindow

RecoveredState(r) ==
  IF r.cancel THEN "cancelled" ELSE IF Interrupted(r) \/ Exhausted(r) THEN "failed" ELSE "queued"

RecoveredCode(r) ==
  IF r.cancel THEN "operation_cancelled"
  ELSE IF Interrupted(r) THEN "operation_execution_interrupted"
  ELSE IF Exhausted(r) THEN "operation_recovery_exhausted" ELSE "none"

\* Faulty variant: the times of the abandoned attempt are kept.
RecoveredRowKeepingTimes(r) ==
  [r EXCEPT !.state = RecoveredState(r), !.code = RecoveredCode(r), !.lease = 0, !.until = 0,
            !.progress = IF r.cancel \/ Interrupted(r) THEN @ ELSE 0, !.leasedAt = 0,
            !.updated = clock]

\* Faulty variant: a requested cancellation is forgotten.
RecoveredRowForgettingCancel(r) ==
  LET s == [r EXCEPT !.cancel = FALSE]
      kept(v) == IF Interrupted(s) THEN v ELSE 0
  IN [s EXCEPT !.state = RecoveredState(s), !.code = RecoveredCode(s), !.lease = 0, !.until = 0,
               !.progress = kept(@), !.leasedAt = kept(@), !.runningAt = kept(@),
               !.finalizingAt = kept(@), !.updated = clock]

\* recoverExpiredOperationLeases on one row: progress and times of the attempt
\* are kept only as evidence of a cancelled or interrupted one.
RecoveredRow(r) ==
  LET kept(v) == IF r.cancel \/ Interrupted(r) THEN v ELSE 0
  IN [r EXCEPT !.state = RecoveredState(r), !.code = RecoveredCode(r), !.lease = 0, !.until = 0,
               !.progress = kept(@), !.leasedAt = kept(@), !.runningAt = kept(@),
               !.finalizingAt = kept(@), !.updated = clock]

Lapsed(r) == r.state = "leased" /\ r.until <= clock

\* expireQueuedProjectExecs on one row.
Overdue(r) == r.state = "queued" /\ r.kind = "exec" /\ r.created <= clock - QueueTtl
ExpiredRow(r) == [r EXCEPT !.state = "failed", !.code = "operation_queue_expired", !.updated = clock]

RecoverRow(r) == IF Lapsed(r) THEN RecoveredRow(r) ELSE r

\* Recovery, then expiry.
NormalRow(r) ==
  LET s == RecoverRow(r) IN IF Overdue(s) THEN ExpiredRow(s) ELSE s

Normalized == [o \in Ops |-> NormalRow(op[o])]
-----------------------------------------------------------------------------
(* Creation.                                                               *)

\* operationLifecycleByDigest: the newest operation of a kind and digest.
Latest(t, kind, d) ==
  {o \in Stored(t) : /\ t[o].kind = kind /\ t[o].digest = d
                     /\ \A p \in Stored(t) : t[p].kind = kind /\ t[p].digest = d =>
                          t[p].created < t[o].created \/ (t[p].created = t[o].created /\ t[p].rowid <= t[o].rowid)}

\* The stored operation is the answer to the same request.
Answers(r) == r.kind \in Idempotent \/ r.state \in Live

Ended(t) == {o \in Ops : t[o].state \in Done}

\* The order in which ended operations are pruned.
Older(t, x, y) ==
  \/ t[x].updated < t[y].updated
  \/ t[x].updated = t[y].updated /\ t[x].created < t[y].created
  \/ t[x].updated = t[y].updated /\ t[x].created = t[y].created /\ x < y

\* What ensureOperationStorageCapacityLocked may delete when the file is full.
Prunable(t, X) == X \subseteq Ended(t) /\ \A x \in X, y \in Ended(t) \ X : Older(t, x, y)

Pruned(t, X) == [o \in Ops |-> IF o \in X THEN NoOp("pruned") ELSE t[o]]

\* CreateOperation: a request that is answered, or that storage refuses after
\* pruning, leaves the normalised (and pruned) table.
CreateOperation(o, kind, d, X) ==
  /\ \E t \in {Normalized} :
       \/ /\ \E p \in Latest(t, kind, d) : Answers(t[p])
          /\ X = {}
          /\ op' = t
       \/ /\ \A p \in Latest(t, kind, d) : ~Answers(t[p])
          /\ Prunable(t, X)
          /\ \/ op' = Pruned(t, X)
             \/ op[o].state = "absent" /\ op' = [Pruned(t, X) EXCEPT ![o] = NewOp(Pruned(t, X), kind, d)]
  /\ UNCHANGED clock

-----------------------------------------------------------------------------
(* The calls of the Edge.                                                  *)

\* Faulty variant: an operation that was leased before is passed over.
NextOfFresh(t, compatible) ==
  LET Q == {o \in Queued(t) : t[o].attempts = 0 /\ (compatible \/ t[o].kind \in Repeatable)}
  IN {o \in Q : \A p \in Q : t[o].updated < t[p].updated \/ (t[o].updated = t[p].updated /\ o <= p)}

\* The operation LeaseOperationCompatible selects, if any.
NextOf(t, compatible) ==
  LET Q == {o \in Queued(t) : compatible \/ t[o].kind \in Repeatable}
  IN {o \in Q : \A p \in Q : t[o].updated < t[p].updated \/ (t[o].updated = t[p].updated /\ o <= p)}

LeasedRow(r, ttl) ==
  [r EXCEPT !.state = "leased", !.lease = r.attempts + 1, !.attempts = @ + 1, !.until = clock + ttl,
            !.first = IF @ = 0 THEN clock ELSE @, !.leasedAt = clock, !.runningAt = 0,
            !.finalizingAt = 0, !.updated = clock]

\* A device of another protocol with only ordinary operations waiting: the
\* answer is a conflict and the transaction, recovery included, is rolled back.
Skewed(t, compatible) == ~compatible /\ Queued(t) # {} /\ NextOf(t, compatible) = {}

\* The table after LeaseOperationCompatible.
AfterLease(compatible, ttl) ==
  LET t == Normalized IN
  IF Skewed(t, compatible) THEN op
  ELSE [o \in Ops |-> IF o \in NextOf(t, compatible) THEN LeasedRow(t[o], ttl) ELSE t[o]]

LeaseOperationCompatible(compatible, ttl) == op' = AfterLease(compatible, ttl) /\ UNCHANGED clock

\* The Edge presenting lease l of operation o holds it now.
Held(o, l) == op[o].state = "leased" /\ op[o].lease = l /\ op[o].until > clock

\* ReportOperationProgress.
ProgressRow(r, revision, phase) ==
  [r EXCEPT !.progress = revision, !.until = clock + HeartbeatTtl,
            !.runningAt = IF phase = "running" /\ r.finalizingAt = 0 /\ @ = 0 THEN clock ELSE @,
            !.finalizingAt = IF phase = "finalizing" /\ r.runningAt # 0 /\ @ = 0 THEN clock ELSE @,
            !.updated = clock]

CanReport(o, l, revision) == Held(o, l) /\ revision > op[o].progress

ReportOperationProgress(o, l, revision, phase) ==
  /\ clock < MaxTime
  /\ CanReport(o, l, revision)
  /\ op' = [op EXCEPT ![o] = ProgressRow(@, revision, phase)]
  /\ UNCHANGED clock

CanComplete(o, l) == Held(o, l) /\ ~op[o].cancel

\* What becomes of a completion: the Edge's code, none with a valid result, or
\* that the result is not valid for the kind (validOperationCompletionForKind).
ReportCodes == {"none", "reported", "operation_result_invalid"}

\* CompleteOperation.
CompletedRow(r, code) ==
  [r EXCEPT !.state = IF code = "none" THEN "succeeded" ELSE "failed", !.code = code,
            !.lease = 0, !.until = 0, !.updated = clock]

CompleteOperation(o, l, code) ==
  /\ CanComplete(o, l)
  /\ op' = [op EXCEPT ![o] = CompletedRow(@, code)]
  /\ UNCHANGED clock

\* CancelLeasedOperation: the Edge acknowledges a cancellation.
AcknowledgedRow(r) ==
  [r EXCEPT !.state = "cancelled", !.cancel = TRUE, !.code = "operation_cancelled",
            !.lease = 0, !.until = 0, !.updated = clock]

CancelLeasedOperation(o, l) ==
  /\ Held(o, l)
  /\ op' = [op EXCEPT ![o] = AcknowledgedRow(@)]
  /\ UNCHANGED clock

-----------------------------------------------------------------------------
(* The calls of the control plane's clients.                               *)

CancelRow(r) ==
  [r EXCEPT !.cancel = TRUE, !.state = IF @ = "queued" THEN "cancelled" ELSE @,
            !.code = IF r.state = "queued" THEN "operation_cancelled" ELSE @, !.updated = clock]

\* OperationCanCancel.
Cancellable(r) == r.state = "queued" \/ (r.state = "leased" /\ r.kind \in Interruptible)

\* RequestOperationCancel: the lease of this operation is recovered first.
RequestOperationCancel(o) ==
  /\ o \in Stored(op)
  /\ \E r \in {RecoverRow(op[o])} :
       op' = [op EXCEPT ![o] = IF Cancellable(r) THEN CancelRow(r) ELSE r]
  /\ UNCHANGED clock

\* OperationStatus, OperationLifecycleStatus, and each turn of WaitOperation.
OperationStatus(o) ==
  /\ o \in Stored(op)
  /\ op' = [op EXCEPT ![o] = NormalRow(@)]
  /\ UNCHANGED clock

ActiveOperations == op' = Normalized /\ UNCHANGED clock

OperationByIdempotency == op' = [o \in Ops |-> RecoverRow(op[o])] /\ UNCHANGED clock

Tick ==
  /\ clock < MaxTime \/ \E o \in Leased(op) : op[o].until > clock
  /\ clock' = clock + 1
  /\ UNCHANGED op

-----------------------------------------------------------------------------

JournalInit == op = [o \in Ops |-> NoOp("absent")] /\ clock = 1

\* The Edge may present any lease it was ever given, late or twice.
JournalNext ==
  \/ \E o \in Ops, kind \in Kinds, d \in Digests, X \in SUBSET Ops : CreateOperation(o, kind, d, X)
  \/ \E compatible \in BOOLEAN, ttl \in LeaseTtls : LeaseOperationCompatible(compatible, ttl)
  \/ \E o \in Ops, revision \in 1..MaxRevision, phase \in Phases : \E l \in 1..op[o].attempts :
       ReportOperationProgress(o, l, revision, phase)
  \/ \E o \in Ops, code \in ReportCodes :
       \E l \in 1..op[o].attempts : CompleteOperation(o, l, code)
  \/ \E o \in Ops : \E l \in 1..op[o].attempts : CancelLeasedOperation(o, l)
  \/ \E o \in Ops : RequestOperationCancel(o)
  \/ \E o \in Ops : OperationStatus(o)
  \/ ActiveOperations
  \/ OperationByIdempotency
  \/ Tick

JournalSpec == JournalInit /\ [][JournalNext]_journalVars

-----------------------------------------------------------------------------
(* Properties.                                                             *)

\* The table holds rows of the schema.
JournalTypeOK == op \in [Ops -> OpRow] /\ clock \in Nat

\* validOperationTiming.
TimingValid(r) ==
  /\ r.created # 0 /\ r.updated >= r.created
  /\ r.leasedAt = 0 => r.runningAt = 0
  /\ r.leasedAt # 0 => r.leasedAt \in r.created..r.updated
  /\ r.runningAt = 0 => r.finalizingAt = 0
  /\ r.runningAt # 0 => r.runningAt \in r.leasedAt..r.updated
  /\ r.finalizingAt # 0 => r.finalizingAt \in r.runningAt..r.updated

\* validStoredOperationLifecycle.
LifecycleValid(r) ==
  /\ r.state = "queued" => ~r.cancel /\ r.code = "none"
  /\ r.state = "leased" => r.code = "none"
  /\ r.state = "succeeded" => ~r.cancel /\ r.code = "none"
  /\ r.state = "failed" => ~r.cancel /\ r.code # "none"
  /\ r.state = "cancelled" => r.cancel /\ r.code = "operation_cancelled"

\* Every row any sequence of calls leaves behind is one scanOperationLifecycle
\* reads: an unreadable row would fail ActiveOperations for the whole device.
OperationsReadable == \A o \in Stored(op) : TimingValid(op[o]) /\ LifecycleValid(op[o])

\* "Every Edge operation has a fail-closed recovery budget of at most four
\* expired leases": no operation is leased more often, an operation that waits
\* has a lease left, and only a leased one has a lease to present.
RecoveryBudget ==
  \A o \in Ops :
    /\ op[o].attempts <= MaxLeaseAttempts
    /\ op[o].state = "queued" => op[o].attempts < MaxLeaseAttempts
    /\ op[o].lease = IF op[o].state = "leased" THEN op[o].attempts ELSE 0

\* CreateOperation never stores a second operation for a request that has its
\* answer: one row for an idempotency key, one live row for a request body.
OneAnswer ==
  \A o, p \in Stored(op) :
    /\ o # p /\ op[o].kind = op[p].kind /\ op[o].digest = op[p].digest
    => op[o].kind \notin Idempotent /\ (op[o].state \in Done \/ op[p].state \in Done)

\* Terminal operations are immutable until retention prunes them: late
\* completions, retries and cancellations change nothing.
OperationFinalStep ==
  \A o \in Ops : op[o].state \in Done => op'[o] = op[o] \/ op'[o].state = "pruned"
OperationFinal == [][OperationFinalStep]_journalVars

\* An accepted cancellation is final: the operation is not leased again and
\* ends as cancelled, whatever the Edge reports.
CancelAcceptedStep ==
  \A o \in Ops : op[o].cancel =>
    /\ op'[o].state \in {"leased", "cancelled", "pruned"}
    /\ op'[o].state = "leased" => op'[o].lease = op[o].lease
CancelAccepted == [][CancelAcceptedStep]_journalVars

\* "An offline Edge must not run one after that wait has ended": a project_exec
\* is first reported as running before the queue deadline and one lease.
ExecInTimeStep ==
  \A o \in Ops : op[o].kind = "exec" /\ op[o].progress = 0 /\ op'[o].progress # 0 =>
    \E ttl \in LeaseTtls : clock < op[o].created + QueueTtl + ttl
ExecInTime == [][ExecInTimeStep]_journalVars

\* The Edge polls; nothing is assumed of what it does with a lease.
JournalFairSpec ==
  JournalSpec /\ WF_journalVars(Tick) /\ WF_journalVars(\E ttl \in LeaseTtls : LeaseOperationCompatible(TRUE, ttl))

\* Every operation that was created ends, even if the Edge loses every lease.
EveryOperationEnds == \A o \in Ops : []<>(op[o].state \notin Live)

\* The operation journal in every state: rows that scanOperationLifecycle
\* accepts, leased within the recovery budget, and one answer for a request.
JournalSafe ==
  /\ JournalTypeOK
  /\ OperationsReadable
  /\ RecoveryBudget
  /\ OneAnswer

\* What no call on the journal may do: change an ended operation, lose an
\* accepted cancellation, or lease a project_exec whose caller no longer
\* waits.
JournalSteps ==
  /\ OperationFinal
  /\ CancelAccepted
  /\ ExecInTime

-----------------------------------------------------------------------------
(* The inductive invariant behind them, and what a step does to a row.     *)

\* What a stored row may look like at time now.  A row that waits has no trace
\* of an attempt; the first lease of a project_exec lapses soon after the end
\* of the time it may wait.
RowInv(r, now) ==
  /\ r.state \in OpStates => TimingValid(r) /\ LifecycleValid(r)
  /\ r.state \notin OpStates => ~r.cancel
  /\ r.state = "queued" => /\ r.leasedAt = 0 /\ r.runningAt = 0 /\ r.finalizingAt = 0
                           /\ r.progress = 0 /\ r.attempts < MaxLeaseAttempts
  /\ r.state = "leased" => r.leasedAt # 0
  /\ r.created <= now /\ r.updated <= now
  /\ r.attempts <= MaxLeaseAttempts
  /\ r.lease = IF r.state = "leased" THEN r.attempts ELSE 0
  /\ (r.state = "leased" /\ r.kind = "exec" /\ r.progress = 0)
       => \E ttl \in LeaseTtls : r.until < r.created + QueueTtl + ttl

SameRequest(r, s) == r.kind = s.kind /\ r.digest = s.digest

Newer(r, s) == s.created < r.created \/ (s.created = r.created /\ s.rowid < r.rowid)

\* Two rows of one request are of a kind without idempotency key, and one of
\* them that has not ended is newer than the other: CreateOperation, which only
\* looks at the newest, then meets it.
RequestInv(t) ==
  \A o, p \in Stored(t) : (o # p /\ SameRequest(t[o], t[p])) =>
    t[o].kind \notin Idempotent /\ (t[o].state \in Live => Newer(t[o], t[p]))

JInv ==
  /\ JournalTypeOK /\ clock # 0
  /\ \A o \in Ops : RowInv(op[o], clock)
  /\ RequestInv(op)

\* What a step of the store may do to a row.
RowStep(r, s) ==
  /\ s \in OpRow /\ RowInv(s, clock)
  /\ r.state \in Done => s = r \/ s.state = "pruned"
  /\ r.cancel => /\ s.state \in {"leased", "cancelled", "pruned"}
                 /\ s.state = "leased" => s.lease = r.lease
  /\ (r.kind = "exec" /\ r.progress = 0 /\ s.progress # 0)
       => \E ttl \in LeaseTtls : clock < r.created + QueueTtl + ttl

\* A step keeps the rows valid, row by row, and the order of the requests.
TableStep ==
  /\ op' \in [Ops -> OpRow] /\ RequestInv(op')
  /\ \A o \in Ops : RowStep(op[o], op'[o])

-----------------------------------------------------------------------------
(* What a step does to the table as the workers of an agent see it.        *)

\* Of a stored row a step keeps the kind, the leases issued, the evidence of an
\* effect that must not be repeated, and the end; a row that is created waits.
Onward(r, s) ==
  /\ s.state # "pruned"
  /\ s.state = "absent" => r.state = "absent"
  /\ r.state = "absent" => s.state \in {"absent", "queued"}
  /\ r.state # "absent" => /\ s.state \in OpStates /\ s.kind = r.kind /\ s.attempts >= r.attempts
                           /\ r.kind \notin Repeatable /\ r.progress # 0 => s.progress # 0
  /\ r.state \in Done => s = r

\* A lease that is held stays, and lasts as long or two ticks from now.
Renewed(r, s) ==
  r.state = "leased" /\ r.until > clock =>
    /\ s.state = "leased" /\ s.lease = r.lease /\ s.until > clock
    /\ s.until >= r.until \/ s.until > clock + 1

\* No success is recorded.
NoSuccess(r, s) == s.state = "succeeded" => r.state = "succeeded"

Calm(r, s) == Onward(r, s) /\ Renewed(r, s) /\ NoSuccess(r, s)

\* What is known of a row of the table.
GoodRow(r) == r \in OpRow /\ RowInv(r, clock) /\ r.state # "pruned"

\* A step of the table: it stays valid, row by row, and rows only go onward.
TableOnward ==
  /\ TableStep
  /\ \A o \in Ops : Onward(op[o], op'[o])

\* A table of which no row was pruned.
Unpruned == JInv /\ \A o \in Ops : op[o].state # "pruned"
=============================================================================
