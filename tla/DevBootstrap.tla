---------------------------- MODULE DevBootstrap ----------------------------
(***************************************************************************)
(* Bootstrap provisioning: the one extra effect a development request may  *)
(* have, installing missing toolchains in its workcell.  The supervisor    *)
(* keeps one provisioning attempt on the objective, one queue job for it,  *)
(* and, through the Edge provider, keyed operations per toolchain selector *)
(* (resolve, start, recover, status, stop).                                *)
(*                                                                         *)
(* Rounds of one request run one at a time under its key lock, and every   *)
(* round decides from what is durable.  So an action is one durable write, *)
(* guarded by the path that leads to it, and the server may stop after any *)
(* of them.  The Edge, the installer process, the lease clock and the      *)
(* queue's other callers move in between.                                  *)
(***************************************************************************)
EXTENDS Integers, FiniteSets

CONSTANT BootBounds     \* the bounds records a behaviour may be given

VARIABLES
    bootBounds,
    boot,       \* the request's phase, the provisioning attempt, faults so far
    bootJob,    \* the queue job of the attempt
    bootOps,    \* the latest Edge operation of each kind, per selector
    installers  \* the installer process of each selector

bootVars == <<bootBounds, boot, bootJob, bootOps, installers>>

BootSelectors == 1..bootBounds.selectors
OpKinds == {"resolve", "start", "recover", "status", "stop"}
BootNoOp == [state |-> "none", cancel |-> FALSE, seen |-> "none"]
QueuedOp == [BootNoOp EXCEPT !.state = "queued"]
LiveOp(op) == op.state \in {"queued", "leased"}

BootInit ==
    /\ bootBounds \in BootBounds
    /\ boot = [phase |-> "active", prov |-> "none", fence |-> 0,
               open |-> TRUE, mid |-> FALSE, faults |-> 0, lapses |-> 0]
    /\ bootJob = [state |-> "none", fence |-> 0, live |-> FALSE,
                  cancel |-> FALSE, ref |-> FALSE]
    /\ bootOps = [s \in BootSelectors |-> [k \in OpKinds |-> BootNoOp]]
    /\ installers = [s \in BootSelectors |->
                        [state |-> "none", runs |-> 0, due |-> FALSE]]

-----------------------------------------------------------------------------
(* ProvisionStep: plan, enqueue under the attempt's key, bind the job and  *)
(* its fence, and record the outcome the queue holds.                      *)

Reconciling == boot.phase = "active" /\ boot.open
Cancelling == boot.phase = "cancelling"

BootPlanProvision ==
    /\ Reconciling /\ boot.prov = "none"
    /\ boot' = [boot EXCEPT !.prov = "planned"]
    /\ UNCHANGED <<bootBounds, bootJob, bootOps, installers>>

\* The queue finds the job of the same key again, so an enqueue whose
\* acknowledgement was lost is repeated without a second job.
EnqueueProvision ==
    /\ boot.prov = "planned" /\ bootJob.state = "none"
    /\ boot.open /\ boot.phase \in {"active", "cancelling"}
    /\ bootJob' = [bootJob EXCEPT !.state = "queued"]
    /\ UNCHANGED <<bootBounds, boot, bootOps, installers>>

BindProvisionJob ==
    /\ boot.prov = "planned" /\ bootJob.state # "none"
    /\ boot.open /\ boot.phase \in {"active", "cancelling"}
    /\ boot' = [boot EXCEPT !.prov = "queued"]
    /\ UNCHANGED <<bootBounds, bootJob, bootOps, installers>>

BindProvisionFence ==
    /\ Reconciling /\ boot.prov = "queued" /\ boot.fence < bootJob.fence
    /\ boot' = [boot EXCEPT !.fence = bootJob.fence]
    /\ UNCHANGED <<bootBounds, bootJob, bootOps, installers>>

\* A failure is one the request hands back to its caller.
RecordProvision ==
    /\ Reconciling /\ boot.prov = "queued" /\ boot.fence = bootJob.fence
    /\ bootJob.state \in {"succeeded", "failed"}
    /\ boot' = [boot EXCEPT !.prov = bootJob.state, !.mid = FALSE,
                            !.phase = IF bootJob.state = "failed"
                                      THEN "awaiting" ELSE "active"]
    /\ UNCHANGED <<bootBounds, bootJob, bootOps, installers>>

-----------------------------------------------------------------------------
(* The queue job: leased by the coordinator, renewed by each round, lapsed *)
(* when rounds stop coming, recovered by any other caller of the queue.    *)

LeaseProvision ==
    /\ Reconciling /\ boot.prov = "queued"
    /\ bootJob.state = "queued" /\ bootJob.fence < bootBounds.fences
    /\ bootJob' = [bootJob EXCEPT !.state = "leased", !.live = TRUE,
                                  !.fence = @ + 1]
    /\ UNCHANGED <<bootBounds, boot, bootOps, installers>>

LapseLease ==
    /\ bootJob.state = "leased" /\ bootJob.live
    /\ boot.lapses < bootBounds.lapses
    /\ bootJob' = [bootJob EXCEPT !.live = FALSE]
    /\ boot' = [boot EXCEPT !.lapses = @ + 1]
    /\ UNCHANGED <<bootBounds, bootOps, installers>>

\* A job whose attempts are spent fails; one asked to cancel is cancelled
\* without a result, which proves nothing about the host.
RecoverLapsed ==
    /\ bootJob.state = "leased" /\ ~bootJob.live
    /\ bootJob' = [bootJob EXCEPT !.state =
                    IF bootJob.cancel THEN "cancelled"
                    ELSE IF bootJob.fence = bootBounds.fences THEN "failed"
                    ELSE "queued"]
    /\ UNCHANGED <<bootBounds, boot, bootOps, installers>>

-----------------------------------------------------------------------------
(* The Edge provider.  Its next move for a selector is the operation to    *)
(* create, or "pending", "failure" or "done".                              *)

\* The process was started by this attempt: the start or its recovery says so.
StartKnown(o) == "succeeded" \in {o.start.state, o.recover.state}

\* createProcessOperation creates a status or stop anew when there is none or,
\* if a refresh is wanted, when the latest saw the process still running.
Wanted(op, refresh) ==
    \/ op.state = "none"
    \/ refresh /\ op.state = "succeeded" /\ op.seen \in {"running", "stopping"}

\* Mutant: a start that failed is issued again.
MoveStartsAgain(o) ==
    IF o.resolve.state # "succeeded"
    THEN IF o.resolve.state = "none" THEN "resolve"
         ELSE IF LiveOp(o.resolve) THEN "pending" ELSE "failure"
    ELSE IF ~StartKnown(o)
    THEN IF LiveOp(o.start) THEN "pending" ELSE "start"
    ELSE IF Wanted(o.status, TRUE) THEN "status"
    ELSE IF LiveOp(o.status) THEN "pending"
    ELSE IF o.status.seen = "verified" THEN "done" ELSE "failure"

ReconcileMove(o) ==
    IF o.resolve.state # "succeeded"
    THEN IF o.resolve.state = "none" THEN "resolve"
         ELSE IF LiveOp(o.resolve) THEN "pending" ELSE "failure"
    ELSE IF ~StartKnown(o)
    THEN IF o.start.state = "none" THEN "start"
         ELSE IF LiveOp(o.start) \/ LiveOp(o.recover) THEN "pending"
         ELSE IF o.recover.state = "none" THEN "recover" ELSE "failure"
    ELSE IF Wanted(o.status, TRUE) THEN "status"
    ELSE IF LiveOp(o.status) THEN "pending"
    ELSE IF o.status.seen = "verified" THEN "done" ELSE "failure"

\* What is left to do for an installer that was started and must not run on.
StopMove(o) ==
    IF Wanted(o.status, o.status.seen = "stopping") THEN "status"
    ELSE IF LiveOp(o.status) THEN "pending"
    ELSE IF o.status.seen \in {"verified", "exited", "stopped"} THEN "done"
    ELSE IF o.status.seen # "running" THEN "failure"
    ELSE IF Wanted(o.stop, TRUE) THEN "stop"
    ELSE IF LiveOp(o.stop) THEN "pending"
    ELSE IF o.stop.seen \in {"verified", "exited", "stopped"} THEN "done"
    ELSE "failure"

CancelMove(o) ==
    IF LiveOp(o.resolve) THEN "cancel_resolve"
    ELSE IF o.resolve.state = "failed" THEN "failure"
    ELSE IF o.start.state = "none" THEN "done"
    ELSE IF LiveOp(o.start) THEN "cancel_start"
    ELSE IF StartKnown(o) THEN StopMove(o)
    ELSE IF LiveOp(o.recover) THEN "pending"
    ELSE IF o.recover.state = "none" THEN "recover" ELSE "failure"

\* validateLease: the exact live lease, in the mode the round is in.
ReconcilesLease ==
    /\ Reconciling /\ boot.prov = "queued" /\ ~boot.mid
    /\ boot.fence = bootJob.fence
    /\ bootJob.state = "leased" /\ bootJob.live /\ ~bootJob.cancel

CancelsLease ==
    /\ Cancelling /\ ~boot.open /\ boot.prov = "cancelled"
    /\ bootJob.state = "leased" /\ bootJob.live /\ bootJob.cancel

\* Selectors are taken in order: the move of the first one not done.
FirstMove(move(_)) ==
    LET open == {s \in BootSelectors : move(bootOps[s]) # "done"}
    IN  IF open = {} THEN [at |-> 0, move |-> "done"]
        ELSE LET s == CHOOSE t \in open : \A u \in open : t <= u
             IN  [at |-> s, move |-> move(bootOps[s])]

CreateOp(s, k) == bootOps' = [bootOps EXCEPT ![s][k] = QueuedOp]

ReconcileCreates ==
    LET next == FirstMove(ReconcileMove)
    IN  /\ ReconcilesLease
        /\ next.move \in OpKinds
        /\ CreateOp(next.at, next.move)
        /\ UNCHANGED <<bootBounds, boot, bootJob, installers>>

\* Complete, then ProvisionStep in the same round: between the two the round
\* still runs, so only a crash lets another caller in.
ReconcileCompletes ==
    LET next == FirstMove(ReconcileMove)
    IN  /\ ReconcilesLease
        /\ next.move \in {"done", "failure"}
        /\ bootJob' = [bootJob EXCEPT
                !.state = IF next.move = "done" THEN "succeeded" ELSE "failed",
                !.ref = next.move = "done"]
        /\ boot' = [boot EXCEPT !.mid = TRUE]
        /\ UNCHANGED <<bootBounds, bootOps, installers>>

CrashAfterComplete ==
    /\ boot.mid /\ boot.faults < bootBounds.faults
    /\ boot' = [boot EXCEPT !.mid = FALSE, !.faults = @ + 1]
    /\ UNCHANGED <<bootBounds, bootJob, bootOps, installers>>

-----------------------------------------------------------------------------
(* Cancellation of the request.                                            *)

AskCancel ==
    /\ boot.phase \in {"active", "awaiting"} /\ ~boot.mid
    /\ boot' = [boot EXCEPT !.phase = "cancelling"]
    /\ UNCHANGED <<bootBounds, bootJob, bootOps, installers>>

\* Supervisor.Cancel: the bound job first (a leased one is only asked), then
\* the objective, and with it an attempt that has not ended.
CancelProvisionJob ==
    /\ Cancelling /\ boot.open /\ boot.prov = "queued"
    /\ bootJob.state \in {"leased", "queued"} /\ ~bootJob.cancel
    /\ bootJob' = [bootJob EXCEPT !.cancel = TRUE,
                    !.state = IF @ = "queued" THEN "cancelled" ELSE @]
    /\ UNCHANGED <<bootBounds, boot, bootOps, installers>>

BootCancelObjective ==
    /\ Cancelling /\ boot.open /\ boot.prov \in {"queued", "failed"}
    /\ boot.prov = "queued" =>
            bootJob.cancel \/ bootJob.state \in {"succeeded", "failed"}
    /\ boot' = [boot EXCEPT !.open = FALSE,
                            !.prov = IF @ = "queued" THEN "cancelled" ELSE @]
    /\ UNCHANGED <<bootBounds, bootJob, bootOps, installers>>

CancelCreates ==
    LET next == FirstMove(CancelMove)
    IN  /\ CancelsLease
        /\ next.move \in OpKinds
        /\ CreateOp(next.at, next.move)
        /\ UNCHANGED <<bootBounds, boot, bootJob, installers>>

\* RequestOperationCancel: a queued operation is cancelled, a leased one asked.
CancelRequests ==
    LET next == FirstMove(CancelMove)
        kind == IF next.move = "cancel_resolve" THEN "resolve" ELSE "start"
    IN  /\ CancelsLease
        /\ next.move \in {"cancel_resolve", "cancel_start"}
        /\ ~bootOps[next.at][kind].cancel
        /\ bootOps' = [bootOps EXCEPT ![next.at][kind].cancel = TRUE,
                        ![next.at][kind].state =
                            IF @ = "queued" THEN "cancelled" ELSE @]
        /\ UNCHANGED <<bootBounds, boot, bootJob, installers>>

CancelCompletes ==
    /\ CancelsLease /\ FirstMove(CancelMove).move = "done"
    /\ bootJob' = [bootJob EXCEPT !.state = "cancelled", !.ref = TRUE]
    /\ UNCHANGED <<bootBounds, boot, bootOps, installers>>

\* A failed job can lease no more: it is settled only when every selector's
\* resolve failed and no start was ever created.
NeverStarted ==
    \A s \in BootSelectors : /\ bootOps[s].resolve.state = "failed"
                             /\ bootOps[s].start.state = "none"

\* cancelDevelopmentBootstrap answers that nothing is left of the bootstrap.
BootstrapSettled ==
    \/ boot.prov \in {"none", "succeeded"}
    \/ /\ ~boot.open /\ bootJob.state = "cancelled"
       /\ (bootJob.fence = 0 \/ bootJob.ref)
    \/ ~boot.open /\ boot.prov = "failed" /\ bootJob.state = "failed" /\ NeverStarted

FinishCancel ==
    /\ Cancelling /\ BootstrapSettled
    /\ boot' = [boot EXCEPT !.phase = "cancelled"]
    /\ UNCHANGED <<bootBounds, bootJob, bootOps, installers>>

-----------------------------------------------------------------------------
(* The Edge: it leases operations, runs them, and may lose an answer.      *)

EdgeLeases(s, k) ==
    /\ bootOps[s][k].state = "queued"
    /\ bootOps' = [bootOps EXCEPT ![s][k].state = "leased"]
    /\ installers' = IF k = "start" THEN [installers EXCEPT ![s].due = TRUE]
                     ELSE installers
    /\ UNCHANGED <<bootBounds, boot, bootJob>>

\* The process manager journals a start under its operation and launches it
\* once: the operation delivered again finds its process.
Launched(i) == [state |-> "running", runs |-> i.runs + 1, due |-> FALSE]
EdgeLaunches(s) ==
    /\ installers[s].due
    /\ installers' = [installers EXCEPT ![s] = Launched(@)]
    /\ UNCHANGED <<bootBounds, boot, bootJob, bootOps>>

\* What an operation that ran answers.  A recovery finds the process or fails.
EdgeAnswers(s, k) ==
    /\ bootOps[s][k].state = "leased"
    /\ k = "start" => ~installers[s].due
    /\ bootOps' = [bootOps EXCEPT ![s][k].state =
                        IF k = "recover" /\ installers[s].state = "none"
                        THEN "failed" ELSE "succeeded",
                    ![s][k].seen =
                        IF k = "stop" /\ installers[s].state = "running"
                        THEN "stopping" ELSE installers[s].state]
    /\ installers' = IF k = "stop" /\ installers[s].state = "running"
                     THEN [installers EXCEPT ![s].state = "stopping"]
                     ELSE installers
    /\ UNCHANGED <<bootBounds, boot, bootJob>>

\* The operation fails, or its lease expires at the server: before its effect,
\* after it, or while the Edge has still to launch.
EdgeFails(s, k) ==
    /\ bootOps[s][k].state = "leased" /\ boot.faults < bootBounds.faults
    /\ bootOps' = [bootOps EXCEPT ![s][k].state = "failed"]
    /\ \E stays \in {installers[s].due, FALSE} :
            installers' = [installers EXCEPT ![s].due =
                                IF k = "start" THEN stays ELSE @]
    /\ boot' = [boot EXCEPT !.faults = @ + 1]
    /\ UNCHANGED <<bootBounds, bootJob>>

\* The Edge honours a requested cancellation.
EdgeCancels(s, k) ==
    /\ bootOps[s][k].state = "leased" /\ bootOps[s][k].cancel
    /\ bootOps' = [bootOps EXCEPT ![s][k].state = "cancelled"]
    /\ installers' = IF k = "start" THEN [installers EXCEPT ![s].due = FALSE]
                     ELSE installers
    /\ UNCHANGED <<bootBounds, boot, bootJob>>

\* How the installer's script may exit: with the tool verified in place, or not.
ScriptExits == {"verified", "exited"}

\* The installer ends: verified, with another exit, or lost by the host.
InstallerEnds(s) ==
    /\ \/ /\ installers[s].state = "running"
          /\ \E end \in ScriptExits :
                installers' = [installers EXCEPT ![s].state = end]
          /\ boot' = boot
       \/ /\ installers[s].state = "running" /\ boot.faults < bootBounds.faults
          /\ installers' = [installers EXCEPT ![s].state = "lost"]
          /\ boot' = [boot EXCEPT !.faults = @ + 1]
       \/ /\ installers[s].state = "stopping"
          /\ installers' = [installers EXCEPT ![s].state = "stopped"]
          /\ boot' = boot
    /\ UNCHANGED <<bootBounds, bootJob, bootOps>>

BootNext ==
    \/ BootPlanProvision \/ EnqueueProvision \/ BindProvisionJob
    \/ BindProvisionFence \/ RecordProvision
    \/ LeaseProvision \/ LapseLease \/ RecoverLapsed
    \/ ReconcileCreates \/ ReconcileCompletes \/ CrashAfterComplete
    \/ AskCancel \/ CancelProvisionJob \/ BootCancelObjective
    \/ CancelCreates \/ CancelRequests \/ CancelCompletes \/ FinishCancel
    \/ \E s \in BootSelectors :
        \/ EdgeLaunches(s) \/ InstallerEnds(s)
        \/ \E k \in OpKinds : EdgeLeases(s, k) \/ EdgeAnswers(s, k)
                                \/ EdgeFails(s, k) \/ EdgeCancels(s, k)

\* Rounds come back for every open request, the Edge polls its operations and
\* an installer runs under a hard timeout.
RoundsContinue ==
    \/ EnqueueProvision \/ BindProvisionJob \/ BindProvisionFence
    \/ RecordProvision \/ LeaseProvision \/ ReconcileCreates
    \/ ReconcileCompletes \/ CancelProvisionJob \/ BootCancelObjective
    \/ CancelCreates \/ CancelRequests \/ CancelCompletes \/ FinishCancel

EdgeWorks(s) ==
    \/ EdgeLaunches(s)
    \/ \E k \in OpKinds : EdgeLeases(s, k) \/ EdgeAnswers(s, k)

-----------------------------------------------------------------------------
(* What the bootstrap promises. *)

\* Types of the model's state.
BootTypeOK ==
    /\ boot.phase \in {"active", "awaiting", "cancelling", "cancelled"}
    /\ boot.prov \in {"none", "planned", "queued", "succeeded", "failed", "cancelled"}
    /\ bootJob.state \in {"none", "queued", "leased", "succeeded", "failed", "cancelled"}
    /\ boot.fence <= bootJob.fence

\* A toolchain is installed by at most one installer, whatever leases lapse,
\* answers are lost or rounds are repeated: a start whose answer is lost is
\* recovered, never issued again (reconcileSelector, recoverStart).
InstalledOnce == \A s \in BootSelectors : installers[s].runs <= 1

\* Provisioning is recorded as succeeded only when every installer was seen
\* to exit with its verified output (reconcileSelector, CompleteProvision).
SuccessProven ==
    boot.prov = "succeeded" =>
        \A s \in BootSelectors : installers[s].state = "verified"

\* A cancelled request left nothing behind: no installer runs, none is due at
\* the Edge and no start can still be picked up (cancelDevelopmentBootstrap).
CancelProven ==
    boot.phase = "cancelled" =>
        \A s \in BootSelectors :
            /\ ~installers[s].due
            /\ installers[s].state \notin {"running", "stopping"}
            /\ bootOps[s].start.state \notin {"queued", "leased"}

\* A cancellation ends, unless a fault or a lapsed lease left it unproven, it
\* caught a start before the Edge ran it (its recovery finds no process), or
\* the attempt had already failed after a start (its job leases no more).
Unproven ==
    \/ boot.faults + boot.lapses > 0
    \/ \E s \in BootSelectors :
            \/ bootOps[s].start.state = "cancelled"
            \/ boot.prov = "failed" /\ bootOps[s].start.state # "none"

CancelSettles == []<>(boot.phase # "cancelling" \/ Unproven)

\* A planned attempt ends in an outcome on the objective, unless the lease
\* lapses or the request is cancelled meanwhile.
ProvisionEnds ==
    []<>(boot.prov \notin {"planned", "queued"} \/ boot.phase # "active" \/ boot.lapses > 0)

BootSpec ==
    /\ BootInit /\ [][BootNext]_bootVars
    /\ WF_bootVars(RoundsContinue)
    /\ \A s \in 1..2 : /\ WF_bootVars(s \in BootSelectors /\ EdgeWorks(s))
                      /\ WF_bootVars(s \in BootSelectors /\ InstallerEnds(s))

=============================================================================
