---------------------------- MODULE TaskWorkers -----------------------------
(***************************************************************************)
(* One durable task group (internal/workqueue/task.go), the coordinator of *)
(* internal/mcpserver/project_task_tools.go that drives its workers, and   *)
(* the Edge side it drives: worktrees (internal/edgeclient/                *)
(* project_worktree.go) and model runtimes (internal/modelturn).           *)
(*                                                                         *)
(* A worker is a queue job with an operation, a worktree and a runtime     *)
(* bound to it, each once.  The coordinator visits the workers in order,   *)
(* one reconcile pass at a time, and takes every decision on the row it    *)
(* read when the visit began; every write it makes is a transaction of its *)
(* own, and a restart between two of them leaves the lease to a holder that*)
(* is gone.  Cancellation and cleanup are tool calls of other goroutines.  *)
(*                                                                         *)
(* A lease is live until it lapses; its ID is the fence it was issued      *)
(* with, 0 for NULL.  Edge operations are executed once and in any order.  *)
(***************************************************************************)
EXTENDS Integers, FiniteSets, TLC

CONSTANTS
  TaskLeaseLimit,   \* MaxLeaseAttempts
  TaskBounds        \* the bounds of a behaviour: records of workers, crashes,
                    \* lapses, cancels, cleanups, statuses and failures

VARIABLES
  taskRow,    \* task_workers joined with jobs, by ordinal
  coord,      \* the coordinator goroutine: its boot, where it is, whom it
              \* visits, the row it read
  caller,     \* the project_task_cancel and project_task_cleanup calls
  site,       \* the Edge: operations, worktrees, claims, runtimes
  taskSpent   \* the bounds of this behaviour, counted down

taskVars == <<taskRow, coord, caller, site, taskSpent>>

Ordinals == 1..taskSpent.workers
WorkerEnd == {"succeeded", "failed", "cancelled"}
RuntimeEnd == {"completed", "failed", "cancelled"}
Unbound == <<>>
NoCleanup == [state |-> "none", fence |-> 0]

NewWorker ==
  [state |-> "queued", attempt |-> 0, fence |-> 0, lease |-> 0, holder |-> 0,
   live |-> FALSE, cancel |-> FALSE, op |-> Unbound, tree |-> Unbound,
   runtime |-> Unbound, cleaned |-> FALSE]

TaskInit ==
  /\ taskSpent \in TaskBounds
  /\ taskRow = [w \in Ordinals |-> NewWorker]
  /\ coord = [boot |-> 1, at |-> "idle", w |-> 0, me |-> NewWorker]
  /\ caller = [cancelling |-> {}, at |-> "idle", w |-> 0, rows |-> <<>>]
  /\ site = [ops |-> <<>>, trees |-> <<>>, claims |-> {}, runtimes |-> <<>>,
             cleanups |-> [w \in Ordinals |-> NoCleanup]]

\* The server-owned idempotency keys: one per task and ordinal.
KeyPerAttempt(w, row) == <<w, row.attempt>>
WorktreeKey(w, row) == <<w, 0>>
RuntimeKey(w, row) == <<w, 0>>

DeriveTaskState(R) ==
  CASE \A w \in Ordinals : R[w].state = "succeeded" -> "completed"
    [] \E w \in Ordinals : R[w].state = "failed" -> "failed"
    [] \A w \in Ordinals : R[w].state \in WorkerEnd -> "cancelled"
    [] OTHER -> "running"
TaskEnded(R) == DeriveTaskState(R) \in {"completed", "failed", "cancelled"}

----------------------------------------------------------------------------
(* The store's transactions.                                              *)

WorkerReaped(row) ==
  IF row.state = "leased" /\ ~row.live
  THEN [row EXCEPT !.lease = 0, !.holder = 0,
          !.state = IF row.cancel THEN "cancelled"
                    ELSE IF row.attempt >= TaskLeaseLimit THEN "failed" ELSE "queued"]
  ELSE row
WorkerRecoverExpired(R) == [w \in Ordinals |-> WorkerReaped(R[w])]

HoldsLease(row, f) == row.state = "leased" /\ row.lease = f /\ row.fence = f /\ row.live

\* LeaseTaskWorker on a queued row.
WorkerLeased(row, holder) ==
  [row EXCEPT !.state = "leased", !.attempt = @ + 1, !.fence = @ + 1,
              !.lease = row.fence + 1, !.holder = holder, !.live = TRUE]

Completed(row, f, outcome) ==
  IF HoldsLease(row, f) /\ (row.cancel => outcome = "cancelled")
  THEN [row EXCEPT !.state = outcome] ELSE row

\* The heartbeat only pushes the deadline of a lease that is still live.
Cancelled(row) ==
  CASE row.state = "queued" -> [row EXCEPT !.state = "cancelled"]
    [] row.state = "leased" -> [row EXCEPT !.cancel = TRUE]
    [] OTHER -> row

----------------------------------------------------------------------------
(* The reconcile pass.                                                    *)

Visit(w) == IF w \in Ordinals THEN [coord EXCEPT !.at = "visit", !.w = w, !.me = NewWorker]
            ELSE [coord EXCEPT !.at = "idle", !.w = 0, !.me = NewWorker]
NextWorker == Visit(coord.w + 1)
GoTo(step) == [coord EXCEPT !.at = step]

BeginPass ==
  LET R == WorkerRecoverExpired(taskRow) IN
  /\ coord.at = "idle"
  /\ taskRow' = R
  /\ coord' = IF TaskEnded(R) THEN coord ELSE Visit(1)
  /\ UNCHANGED <<caller, site, taskSpent>>

BeginCalledPass ==
  /\ coord.at = "idle" /\ taskSpent.statuses > 0
  /\ taskSpent' = [taskSpent EXCEPT !.statuses = @ - 1]
  /\ taskRow' = WorkerRecoverExpired(taskRow)
  /\ coord' = Visit(1)
  /\ UNCHANGED <<caller, site>>

\* Where the visit of a row starts: a later attempt first claims the worktree.
EntryUnclaimed(row) ==
  CASE row.runtime # Unbound -> "runtime"
    [] row.runtime = Unbound /\ row.cancel -> "cancel"
    [] OTHER -> "beat"
Entry(row) ==
  IF row.tree # Unbound /\ row.attempt > 1 THEN "claim" ELSE EntryUnclaimed(row)

VisitWorker ==
  LET R == IF taskRow[coord.w].state = "queued"
           THEN [WorkerRecoverExpired(taskRow) EXCEPT ![coord.w] = WorkerLeased(@, coord.boot)]
           ELSE taskRow
      me == R[coord.w]
  IN /\ coord.at = "visit"
     /\ taskRow' = R
     /\ coord' = IF me.state = "leased" /\ me.holder = coord.boot
                 THEN [coord EXCEPT !.at = Entry(me), !.me = me]
                 ELSE NextWorker
     /\ UNCHANGED <<caller, site, taskSpent>>

\* claimProjectTaskWorktree: read the worktree, and ask for the claim if it is
\* another lease's.  me.tree is the bound or the recovered worktree.
AfterClaim ==
  IF taskRow[coord.w].tree = Unbound THEN "bindtree" ELSE EntryUnclaimed(coord.me)

ClaimWorktree ==
  LET tree == site.trees[coord.me.tree] IN
  /\ coord.at = "claim" /\ tree.state = "ready"
  /\ IF tree.fence = coord.me.fence
     THEN coord' = GoTo(AfterClaim) /\ UNCHANGED site
     ELSE /\ coord' = GoTo("claiming")
          /\ site' = [site EXCEPT !.claims = @ \cup {<<coord.me.tree, coord.me.fence>>}]
  /\ UNCHANGED <<taskRow, caller, taskSpent>>

AwaitClaim ==
  /\ coord.at = "claiming" /\ <<coord.me.tree, coord.me.fence>> \notin site.claims
  /\ coord' = IF site.trees[coord.me.tree].fence = coord.me.fence
              THEN GoTo(AfterClaim) ELSE NextWorker
  /\ UNCHANGED <<taskRow, caller, site, taskSpent>>

\* An Edge wait that times out, an operation that is refused, a workspace that
\* is not registered yet: the visit returns an error and the pass goes on.
AbandonVisit ==
  /\ coord.at \in {"claim", "claiming", "start"}
  /\ taskSpent.lapses > 0
  /\ taskSpent' = [taskSpent EXCEPT !.lapses = @ - 1]
  /\ coord' = NextWorker
  /\ UNCHANGED <<taskRow, caller, site>>

RefusedStatus ==
  /\ coord.at = "claim" /\ site.trees[coord.me.tree].state # "ready"
  /\ coord' = NextWorker
  /\ UNCHANGED <<taskRow, caller, site, taskSpent>>

\* A bound runtime: cancel it on request, then settle the worker or keep on.
CancelRuntime ==
  /\ coord.at = "runtime" /\ coord.me.cancel
  /\ site.runtimes[coord.me.runtime] = "running"
  /\ site' = [site EXCEPT !.runtimes[coord.me.runtime] = "cancelled"]
  /\ UNCHANGED <<taskRow, coord, caller, taskSpent>>

RuntimeOutcome(state) == IF state = "completed" THEN "succeeded" ELSE state

SettleRuntime ==
  LET state == site.runtimes[coord.me.runtime] IN
  /\ coord.at = "runtime" /\ (coord.me.cancel => state # "running")
  /\ taskRow' = IF state \in RuntimeEnd
                THEN [taskRow EXCEPT ![coord.w] =
                        Completed(@, coord.me.lease, RuntimeOutcome(state))]
                ELSE taskRow
  /\ coord' = NextWorker
  /\ UNCHANGED <<caller, site, taskSpent>>

\* No runtime yet: a cancelled worker waits for its worktree operation, binds
\* what it made, and ends; another keeps its lease and goes on.
HeartbeatVisit ==
  /\ coord.at = "beat"
  /\ coord' = IF ~HoldsLease(taskRow[coord.w], coord.me.lease) THEN NextWorker
              ELSE IF coord.me.tree = Unbound THEN GoTo("tree") ELSE GoTo("start")
  /\ UNCHANGED <<taskRow, caller, site, taskSpent>>

CreateWorktreeOp ==
  LET key == WorktreeKey(coord.w, coord.me) IN
  /\ coord.at = "tree" /\ coord.me.op = Unbound /\ key \notin DOMAIN site.ops
  /\ site' = [site EXCEPT !.ops = @ @@ (key :> [state |-> "queued", fence |-> coord.me.fence])]
  /\ UNCHANGED <<taskRow, coord, caller, taskSpent>>

\* recoverProjectTaskWorktreeOperation finds the operation by its key and binds
\* it; BindTaskWorkerOperation refuses a lease that is gone.
BindOperation ==
  LET key == WorktreeKey(coord.w, coord.me) IN
  /\ coord.at \in {"tree", "cancel"} /\ coord.me.tree = Unbound
  /\ coord.me.op = Unbound /\ key \in DOMAIN site.ops
  /\ IF HoldsLease(taskRow[coord.w], coord.me.lease)
     THEN /\ taskRow' = [taskRow EXCEPT ![coord.w].op = key]
          /\ coord' = [coord EXCEPT !.me.op = key]
     ELSE coord' = NextWorker /\ UNCHANGED taskRow
  /\ UNCHANGED <<caller, site, taskSpent>>

\* The operation's state decides: not finished, failed, or a worktree.
ReadOperation ==
  LET key == coord.me.op
      op == site.ops[key]
  IN /\ coord.at \in {"tree", "cancel"} /\ coord.me.tree = Unbound /\ key # Unbound
     /\ \/ op.state = "queued" /\ coord' = NextWorker /\ UNCHANGED taskRow
        \/ /\ op.state = "failed" /\ coord.at = "tree"
           /\ taskRow' = [taskRow EXCEPT ![coord.w] = Completed(@, coord.me.lease, "failed")]
           /\ coord' = NextWorker
        \/ /\ op.state = "failed" /\ coord.at = "cancel"
           /\ coord' = GoTo("cancelled") /\ UNCHANGED taskRow
        \/ /\ op.state = "succeeded" /\ UNCHANGED taskRow
           /\ coord' = [coord EXCEPT !.me.tree = key,
                          !.at = IF op.fence # coord.me.fence THEN "claim" ELSE "bindtree"]
     /\ UNCHANGED <<caller, site, taskSpent>>

\* BindTaskWorker; the visit goes on with the row as it is now.
BindWorktree ==
  LET row == [taskRow[coord.w] EXCEPT !.tree = coord.me.tree] IN
  /\ coord.at = "bindtree"
  /\ IF HoldsLease(taskRow[coord.w], coord.me.lease)
     THEN /\ taskRow' = [taskRow EXCEPT ![coord.w] = row]
          /\ coord' = IF coord.me.cancel THEN GoTo("cancelled")
                      ELSE [coord EXCEPT !.at = "start", !.me = row]
     ELSE coord' = NextWorker /\ UNCHANGED taskRow
  /\ UNCHANGED <<caller, site, taskSpent>>

StartBoundRuntime ==
  LET key == RuntimeKey(coord.w, coord.me) IN
  /\ coord.at = "start"
  /\ site' = IF key \in DOMAIN site.runtimes THEN site
             ELSE [site EXCEPT !.runtimes = @ @@ (key :> "running")]
  /\ coord' = [coord EXCEPT !.at = "bindruntime", !.me.runtime = key]
  /\ UNCHANGED <<taskRow, caller, taskSpent>>

BindRuntime ==
  /\ coord.at = "bindruntime"
  /\ taskRow' = IF HoldsLease(taskRow[coord.w], coord.me.lease)
                THEN [taskRow EXCEPT ![coord.w].runtime = coord.me.runtime] ELSE taskRow
  /\ coord' = NextWorker
  /\ UNCHANGED <<caller, site, taskSpent>>

\* "cancelled before runtime start"
CompleteCancelled ==
  /\ \/ coord.at = "cancelled"
     \/ coord.at = "cancel" /\ coord.me.tree # Unbound
     \/ /\ coord.at = "cancel" /\ coord.me.op = Unbound
        /\ WorktreeKey(coord.w, coord.me) \notin DOMAIN site.ops
  /\ taskRow' = [taskRow EXCEPT ![coord.w] = Completed(@, coord.me.lease, "cancelled")]
  /\ coord' = NextWorker
  /\ UNCHANGED <<caller, site, taskSpent>>

----------------------------------------------------------------------------
(* The tool calls, the Edge, and what goes wrong.                         *)

\* CancelTask cancels the workers one transaction at a time.
CallCancel ==
  /\ caller.cancelling = {} /\ taskSpent.cancels > 0
  /\ taskSpent' = [taskSpent EXCEPT !.cancels = @ - 1]
  /\ caller' = [caller EXCEPT !.cancelling = Ordinals]
  /\ UNCHANGED <<taskRow, coord, site>>

CancelWorker ==
  \E w \in caller.cancelling :
    /\ \A v \in caller.cancelling : w <= v
    /\ taskRow' = [taskRow EXCEPT ![w] = Cancelled(@)]
    /\ caller' = [caller EXCEPT !.cancelling = @ \ {w}]
    /\ UNCHANGED <<coord, site, taskSpent>>

\* handleProjectTaskCleanup reads the task once and walks that copy.
EndCleanup == [caller EXCEPT !.at = "idle", !.w = 0, !.rows = <<>>]
NextCleanup == IF caller.w + 1 \in Ordinals
               THEN [caller EXCEPT !.at = "send", !.w = @ + 1] ELSE EndCleanup

CallCleanup ==
  /\ caller.at = "idle" /\ taskSpent.cleanups > 0 /\ TaskEnded(taskRow)
  /\ taskSpent' = [taskSpent EXCEPT !.cleanups = @ - 1]
  /\ caller' = [caller EXCEPT !.at = "send", !.w = 1, !.rows = taskRow]
  /\ UNCHANGED <<taskRow, coord, site>>

\* The key of a cleanup operation is the task and the ordinal: the operation
\* is recovered, or refused when the worker's lease is not the one it names.
SendCleanup ==
  LET row == caller.rows[caller.w]
      old == site.cleanups[caller.w]
  IN /\ caller.at = "send"
     /\ \/ /\ row.tree = Unbound \/ row.cleaned
           /\ caller' = NextCleanup /\ UNCHANGED site
        \/ /\ row.tree # Unbound /\ ~row.cleaned
           /\ row.lease = 0 \/ (old.state # "none" /\ old.fence # row.fence)
           /\ caller' = EndCleanup /\ UNCHANGED site
        \/ /\ row.tree # Unbound /\ ~row.cleaned /\ row.lease # 0
           /\ old.state = "none" \/ old.fence = row.fence
           /\ caller' = [caller EXCEPT !.at = "wait"]
           /\ site' = IF old.state # "none" THEN site
                      ELSE [site EXCEPT !.cleanups[caller.w] =
                              [state |-> "queued", fence |-> row.fence]]
     /\ UNCHANGED <<taskRow, coord, taskSpent>>

MayMarkCleaned(old, row, f) ==
  old.state = "succeeded" /\ row.state \in WorkerEnd /\ row.lease = f /\ row.fence = f

MarkCleaned ==
  LET old == site.cleanups[caller.w]
      ok == MayMarkCleaned(old, taskRow[caller.w], caller.rows[caller.w].fence)
  IN /\ caller.at = "wait" /\ (old.state = "queued" => ok)
     /\ IF ok THEN taskRow' = [taskRow EXCEPT ![caller.w].cleaned = TRUE] /\ caller' = NextCleanup
              ELSE caller' = EndCleanup /\ UNCHANGED taskRow
     /\ UNCHANGED <<coord, site, taskSpent>>

\* ProjectWorktreeManager.Create, Claim and Cleanup.
EdgeCreateWorktree ==
  \E key \in DOMAIN site.ops, done \in {"succeeded", "failed"} :
    /\ site.ops[key].state = "queued"
    /\ done = "failed" => taskSpent.failures > 0
    /\ taskSpent' = IF done = "failed" THEN [taskSpent EXCEPT !.failures = @ - 1] ELSE taskSpent
    /\ site' = [site EXCEPT !.ops[key].state = done,
                  !.trees = IF done = "failed" THEN @
                            ELSE @ @@ (key :> [state |-> "ready", fence |-> site.ops[key].fence])]
    /\ UNCHANGED <<taskRow, coord, caller>>

MayClaim(tree, f) == f > tree.fence

EdgeClaimWorktree ==
  \E c \in site.claims :
    /\ site' = [site EXCEPT !.claims = @ \ {c},
                  !.trees[c[1]].fence = IF site.trees[c[1]].state = "ready" /\ MayClaim(site.trees[c[1]], c[2])
                                        THEN c[2] ELSE @]
    /\ UNCHANGED <<taskRow, coord, caller, taskSpent>>

\* A worktree with uncommitted changes is refused.
EdgeCleanWorktree ==
  \E w \in Ordinals, dirty \in BOOLEAN :
    LET tree == site.trees[taskRow[w].tree]
        ok == tree.state = "ready" /\ tree.fence = site.cleanups[w].fence /\ ~dirty
    IN /\ site.cleanups[w].state = "queued"
       /\ dirty => taskSpent.failures > 0
       /\ taskSpent' = IF dirty THEN [taskSpent EXCEPT !.failures = @ - 1] ELSE taskSpent
       /\ site' = IF ok THEN [site EXCEPT !.cleanups[w].state = "succeeded",
                                          !.trees[taskRow[w].tree].state = "removed"]
                  ELSE [site EXCEPT !.cleanups[w].state = "failed"]
       /\ UNCHANGED <<taskRow, coord, caller>>

RuntimeEnds ==
  \E key \in DOMAIN site.runtimes, done \in {"completed", "failed"} :
    /\ site.runtimes[key] = "running"
    /\ done = "failed" => taskSpent.failures > 0
    /\ taskSpent' = IF done = "failed" THEN [taskSpent EXCEPT !.failures = @ - 1] ELSE taskSpent
    /\ site' = [site EXCEPT !.runtimes[key] = done]
    /\ UNCHANGED <<taskRow, coord, caller>>

\* Nobody renews the lease of a coordinator that is gone, nor that of a worker
\* whose runtime ended otherwise than the requested cancellation demands; the
\* others lapse only under a pass that is slow.
Renewed(row) ==
  /\ row.holder = coord.boot
  /\ ~(row.cancel /\ row.runtime # Unbound /\ site.runtimes[row.runtime] \in {"completed", "failed"})

LeaseExpires ==
  \E w \in Ordinals :
    /\ taskRow[w].state = "leased" /\ taskRow[w].live /\ ~Renewed(taskRow[w])
    /\ taskRow' = [taskRow EXCEPT ![w].live = FALSE]
    /\ UNCHANGED <<coord, caller, site, taskSpent>>

LeaseOverruns ==
  \E w \in Ordinals :
    /\ taskRow[w].state = "leased" /\ taskRow[w].live /\ Renewed(taskRow[w])
    /\ taskSpent.lapses > 0
    /\ taskSpent' = [taskSpent EXCEPT !.lapses = @ - 1]
    /\ taskRow' = [taskRow EXCEPT ![w].live = FALSE]
    /\ UNCHANGED <<coord, caller, site>>

RestartServer ==
  /\ taskSpent.crashes > 0
  /\ taskSpent' = [taskSpent EXCEPT !.crashes = @ - 1]
  /\ coord' = [boot |-> coord.boot + 1, at |-> "idle", w |-> 0, me |-> NewWorker]
  /\ caller' = [cancelling |-> {}, at |-> "idle", w |-> 0, rows |-> <<>>]
  /\ UNCHANGED <<taskRow, site>>

CoordinatorStep ==
  \/ BeginPass \/ VisitWorker \/ ClaimWorktree \/ AwaitClaim \/ RefusedStatus
  \/ CancelRuntime \/ SettleRuntime \/ HeartbeatVisit \/ CreateWorktreeOp
  \/ BindOperation \/ ReadOperation \/ BindWorktree \/ StartBoundRuntime
  \/ BindRuntime \/ CompleteCancelled

EdgeStep == EdgeCreateWorktree \/ EdgeClaimWorktree \/ EdgeCleanWorktree

TaskNext ==
  \/ BeginPass \/ BeginCalledPass \/ VisitWorker \/ ClaimWorktree \/ AwaitClaim
  \/ AbandonVisit \/ RefusedStatus \/ CancelRuntime \/ SettleRuntime
  \/ HeartbeatVisit \/ CreateWorktreeOp \/ BindOperation \/ ReadOperation
  \/ BindWorktree \/ StartBoundRuntime \/ BindRuntime \/ CompleteCancelled
  \/ CallCancel \/ CancelWorker \/ CallCleanup \/ SendCleanup \/ MarkCleaned
  \/ EdgeCreateWorktree \/ EdgeClaimWorktree \/ EdgeCleanWorktree
  \/ RuntimeEnds \/ LeaseExpires \/ LeaseOverruns \/ RestartServer

TaskSpec == TaskInit /\ [][TaskNext]_taskVars

\* The ticker runs a pass every ten seconds, the Edge serves its operations,
\* a runtime has an execution timeout, and time passes.
TaskFairSpec ==
  /\ TaskSpec
  /\ WF_taskVars(CoordinatorStep) /\ WF_taskVars(EdgeStep)
  /\ WF_taskVars(RuntimeEnds) /\ WF_taskVars(LeaseExpires)

----------------------------------------------------------------------------
\* Types of the rows and of what they are bound to.
TaskTypeOK ==
  /\ \A w \in Ordinals :
       /\ taskRow[w].state \in {"queued", "leased"} \cup WorkerEnd
       /\ taskRow[w].attempt \in 0..TaskLeaseLimit
       /\ taskRow[w].op \in DOMAIN site.ops \cup {Unbound}
       /\ taskRow[w].tree \in DOMAIN site.trees \cup {Unbound}
       /\ taskRow[w].runtime \in DOMAIN site.runtimes \cup {Unbound}
  /\ \A key \in DOMAIN site.trees : site.trees[key].fence \in 1..taskRow[key[1]].fence

\* However often the coordinator restarts between creating something at the
\* Edge and recording it, a worker has one worktree and one runtime
\* (projectTaskWorktreeOperationKey, StartBoundRuntime's key digest).
OneOfEach ==
  \A w \in Ordinals :
    /\ Cardinality({key \in DOMAIN site.trees : key[1] = w}) <= 1
    /\ Cardinality({key \in DOMAIN site.runtimes : key[1] = w}) <= 1

\* A worker that its coordinator completed owns its worktree at the Edge: the
\* worktree's fence is the worker's, so evidence and cleanup, which demand the
\* exact lease and fence, are not refused (claimProjectTaskWorktree).
SettledOwnsWorktree ==
  \A w \in Ordinals :
    LET row == taskRow[w] IN
    (row.state \in WorkerEnd /\ row.lease # 0 /\ row.tree # Unbound)
      => site.trees[row.tree].fence = row.fence

\* A worker succeeds only when the runtime bound to it ran to completion and
\* nobody asked to cancel it, whichever came first (Complete, CancelTask).
SucceededRan ==
  \A w \in Ordinals :
    taskRow[w].state = "succeeded" =>
      /\ ~taskRow[w].cancel
      /\ taskRow[w].runtime # Unbound /\ site.runtimes[taskRow[w].runtime] = "completed"

\* The cleanup marker is written only after the Edge removed the worktree.
CleanedIsRemoved ==
  \A w \in Ordinals : taskRow[w].cleaned => site.trees[taskRow[w].tree].state = "removed"

\* No step takes back an end or a binding: not a lapse, not a requeue, not a
\* claim of an older coordinator that the Edge executes late.
NothingTakenBack ==
  [][/\ \A w \in Ordinals :
          /\ taskRow[w].state \in WorkerEnd => taskRow'[w].state = taskRow[w].state
          /\ taskRow[w].op # Unbound => taskRow'[w].op = taskRow[w].op
          /\ taskRow[w].tree # Unbound => taskRow'[w].tree = taskRow[w].tree
          /\ taskRow[w].runtime # Unbound => taskRow'[w].runtime = taskRow[w].runtime
     /\ \A key \in DOMAIN site.trees : site'.trees[key].fence >= site.trees[key].fence]_taskVars

\* The ticker alone brings every worker to an end, through restarts, lapses and
\* cancellation, as long as no worker of the group has failed.
WorkersSettle ==
  <>[](\/ \A w \in Ordinals : taskRow[w].state \in WorkerEnd
       \/ \E w \in Ordinals : taskRow[w].state = "failed")

=============================================================================
