---------------------------- MODULE DevExecution ----------------------------
(***************************************************************************)
(* The two ways a staged development request is carried out: by the        *)
(* coordinator through operations of an Edge, and by an isolated hosted    *)
(* runner. Each part has its own variables and its own specification.      *)
(***************************************************************************)
EXTENDS Integers, FiniteSets

-----------------------------------------------------------------------------
(***************************************************************************)
(* One durable development request of internal/mcpserver and               *)
(* internal/workqueue: a command staged by project_development_start, run  *)
(* by the coordinator through Edge operations, and accepted, failed or     *)
(* cancelled on the evidence those operations bring back.                  *)
(*                                                                         *)
(* A round of the coordinator, and the cancel handler, hold the lock of the*)
(* request's key.  Each durable write of a round is one action, guarded by *)
(* the path the code takes to it from durable state; a round that stops, or*)
(* a server that dies, between two writes is a behaviour in which the next *)
(* write comes later or never.  `mid` names the one thing a round carries  *)
(* in memory from one write to the next, and a crash loses it.             *)
(*                                                                         *)
(* Keyed operations (the two inspections, the command and its recoveries)  *)
(* exist once.  A process read or stop has no key: CreateOperation answers *)
(* with a live one or makes a new one, so one slot for each kind suffices. *)
(* Legacy rows, bound by servers that did not record reconciliation before *)
(* its first read, are not initial states of this model.                   *)
(***************************************************************************)

CONSTANT ReqBounds  \* records [crashes, edgeFaults, drift, tools]

VARIABLES
  reqBounds,   \* the bounds of this behaviour, counted down
  request,     \* the row of development_requests
  objv,        \* the objective's one step: its newest attempt
  rops,        \* the Edge operations of the request
  dproc,       \* the command's process on the Edge, and the Edge executing it
  world,       \* the source and environment of the workspace
  mid          \* what the current round holds in memory

reqVars == <<reqBounds, request, objv, rops, dproc, world, mid>>

-----------------------------------------------------------------------------

Keyed == {"inspect", "command", "recover", "recover2", "accept"}
ProcKinds == {"status", "stop"}
OpKind == Keyed \cup ProcKinds

OpLive == {"queued", "leased"}
OpDone == {"succeeded", "failed", "cancelled"}
Running == {"running", "stopping"}
ExitedStates == {"exit0", "exit1", "stopped", "lost"}

\* What an operation brings back: the source and environment an inspection or
\* a start measured, the process it saw, and the code it failed with.
Evidence == [src: 0..1, env: 0..1, proc: {"none"} \cup Running \cup ExitedStates,
             code: {"", "prestart", "unknown", "old", "absent"}]
RequestNoEvidence == [src |-> 0, env |-> 0, proc |-> "none", code |-> ""]
NoOperation == [state |-> "none", cancel |-> FALSE, seen |-> RequestNoEvidence]
Fresh == [NoOperation EXCEPT !.state = "queued"]

ReqTerminal == {"completed", "failed", "cancelled"}
RequestReasons == {"", "inspection_pending", "reconciliation_required", "cancellation_requested",
                   "operation_failed", "code_failure", "source_changed", "new_requirement", "capability_missing"}

\* "blocked": the attempt failed; the objective waits for a new plan.
ObjStates == {"none", "open", "planned", "running", "blocked", "pending", "accepted", "cancelled"}

Is(k, S) == rops[k].state \in S

\* A round that finds the request in one of these states, with nothing in hand.
Round(S) == request.state \in S /\ mid = ""
RequestReconciling == Round({"preparing", "active"})
Driving == RequestReconciling /\ request.objective

Save(r) == request' = r
OnlyRequest == UNCHANGED <<reqBounds, objv, rops, dproc, world, mid>>
OnlyObjective == UNCHANGED <<reqBounds, request, rops, dproc, world, mid>>
OnlyOps == UNCHANGED <<reqBounds, request, objv, dproc, world, mid>>

\* developmentOperation: a keyed operation is created when the lookup by key
\* finds none.
CreateKeyed(k) ==
  /\ Is(k, {"none"})
  /\ rops' = [rops EXCEPT ![k] = Fresh]
  /\ OnlyOps

Bind(k) ==
  /\ ~Is(k, {"none"})
  /\ request.active # k
  /\ Save([request EXCEPT !.active = k])
  /\ OnlyRequest

-----------------------------------------------------------------------------
(* Admission.                                                              *)

\* handleProjectDevelopmentStart: the private body is staged and pinned before
\* the row is saved; the same key finds the row again.
StartDevelopment ==
  /\ Round({"absent"})
  /\ Save([request EXCEPT !.state = "preparing"])
  /\ OnlyRequest

\* handleProjectDevelopmentCancel: an ordinary read is dropped, so that every
\* later read belongs to the cancellation.
AskCancelDevelopment ==
  /\ Round({"preparing", "active", "awaiting"})
  /\ Save([request EXCEPT !.state = "cancelling", !.reason = "cancellation_requested",
                          !.active = IF request.process /\ @ = "status" THEN "" ELSE @])
  /\ OnlyRequest

\* reconcileDevelopmentRequest when the pinned body cannot be read.
BodyUnavailable ==
  /\ RequestReconciling
  /\ reqBounds.edgeFaults > 0
  /\ reqBounds' = [reqBounds EXCEPT !.edgeFaults = @ - 1]
  /\ Save([request EXCEPT !.reason = "reconciliation_required"])
  /\ UNCHANGED <<objv, rops, dproc, world, mid>>

-----------------------------------------------------------------------------
(* Inspection and objective.                                               *)

Inspecting == RequestReconciling /\ ~request.objective

CreateInspection == Inspecting /\ CreateKeyed("inspect")

BindInspection ==
  /\ Inspecting
  /\ ~Is("inspect", {"none"})
  /\ ~request.inspected
  /\ Save([request EXCEPT !.inspected = TRUE, !.active = "inspect", !.reason = "inspection_pending"])
  /\ OnlyRequest

InspectionFails ==
  /\ Inspecting /\ request.inspected
  /\ Is("inspect", {"failed", "cancelled"})
  /\ Save([request EXCEPT !.state = "failed", !.reason = "operation_failed"])
  /\ OnlyRequest

\* The objective is saved before the request names it.
CreateObjective ==
  /\ Inspecting /\ request.inspected
  /\ Is("inspect", {"succeeded"})
  /\ objv = "none"
  /\ objv' = "open"
  /\ OnlyObjective

BindObjective ==
  /\ Inspecting /\ request.inspected
  /\ Is("inspect", {"succeeded"})
  /\ objv # "none"
  /\ Save([request EXCEPT !.objective = TRUE, !.state = "active", !.reason = "", !.active = ""])
  /\ OnlyRequest

\* An accepted objective completes its request.
CompleteRequest ==
  /\ Driving
  /\ objv = "accepted"
  /\ Save([request EXCEPT !.state = "completed", !.reason = ""])
  /\ OnlyRequest

-----------------------------------------------------------------------------
(* The attempt and its command.                                            *)

Attempting == Driving /\ ~request.process /\ objv \notin {"pending", "accepted"}

PlanCommand ==
  /\ Attempting
  /\ objv = "open" /\ reqBounds.tools
  /\ objv' = "planned"
  /\ OnlyObjective

\* pendingDevelopmentCapabilities.
AwaitCapabilities ==
  /\ Attempting
  /\ objv = "open" /\ ~reqBounds.tools
  /\ request.reason # "capability_missing"
  /\ Save([request EXCEPT !.reason = "capability_missing"])
  /\ OnlyRequest

\* reconcileDevelopmentBootstrap reports a verified environment.
Provisioned ==
  /\ Attempting
  /\ objv = "open" /\ ~reqBounds.tools
  /\ reqBounds' = [reqBounds EXCEPT !.tools = TRUE]
  /\ UNCHANGED <<request, objv, rops, dproc, world, mid>>

RequestStartAttempt ==
  /\ Attempting
  /\ objv = "planned"
  /\ objv' = "running"
  /\ OnlyObjective

\* developmentCommandOperation: a failed start is looked up by a recovery, which
\* cannot start a process.
StartKey == IF Is("command", {"failed"}) THEN "recover" ELSE "command"

CreateCommand == Attempting /\ objv = "running" /\ CreateKeyed(StartKey)
BindCommand == Attempting /\ objv = "running" /\ Bind(StartKey)

CommandUnresolved ==
  /\ Attempting
  /\ objv = "running" /\ request.active = StartKey
  /\ Is(StartKey, {"failed", "cancelled"})
  /\ Save([request EXCEPT !.reason = "reconciliation_required"])
  /\ OnlyRequest

Captured(k) == Is(k, {"succeeded"}) /\ rops[k].seen.src = rops["inspect"].seen.src
                                    /\ rops[k].seen.env = rops["inspect"].seen.env

CaptureProcess ==
  /\ Attempting
  /\ objv = "running" /\ request.active = StartKey
  /\ Captured(StartKey)
  /\ Save([request EXCEPT !.process = TRUE, !.active = "", !.reason = ""])
  /\ OnlyRequest

-----------------------------------------------------------------------------
(* Reading the process.                                                    *)

\* processOperation without a bound operation: CreateOperation returns a live
\* operation of the same body, or makes one.
CreateRead(k) ==
  /\ request.active = ""
  /\ rops' = [rops EXCEPT ![k] = IF @.state \in OpLive THEN @ ELSE Fresh]
  /\ mid' = k
  /\ UNCHANGED <<reqBounds, request, objv, dproc, world>>

\* The same round then saves the binding.
BindRead ==
  /\ mid \in ProcKinds
  /\ Save([request EXCEPT !.active = mid])
  /\ mid' = ""
  /\ UNCHANGED <<reqBounds, objv, rops, dproc, world>>

Polling == Driving /\ request.process /\ objv \notin {"pending", "accepted"}
ReadAnswer(k) == request.active = k /\ Is(k, {"succeeded"})

CreatePoll == Polling /\ CreateRead("status")

\* pollDevelopmentProcess, known exit zero: CompleteAttempt is saved; the
\* binding is cleared by the same round or by the acceptance.
PollCompletes ==
  /\ Polling /\ ReadAnswer("status")
  /\ rops["status"].seen.proc = "exit0"
  /\ objv = "running"
  /\ objv' = "pending"
  /\ OnlyObjective

\* failDevelopmentAttempt: the objective first, the request next.
PollFails ==
  /\ Polling /\ ReadAnswer("status")
  /\ rops["status"].seen.proc \in ExitedStates \ {"exit0"}
  /\ objv = "running"
  /\ objv' = "blocked"
  /\ mid' = "awaiting"
  /\ UNCHANGED <<reqBounds, request, rops, dproc, world>>

FinishAwaiting ==
  /\ mid = "awaiting"
  /\ Save([request EXCEPT !.state = "awaiting", !.reason = "code_failure"])
  /\ mid' = ""
  /\ UNCHANGED <<reqBounds, objv, rops, dproc, world>>

PollContinues ==
  /\ Polling /\ ReadAnswer("status")
  /\ rops["status"].seen.proc \in Running
  /\ Save([request EXCEPT !.active = ""])
  /\ OnlyRequest

-----------------------------------------------------------------------------
(* Acceptance.                                                             *)

Accepting == Driving /\ objv = "pending"

\* The status read whose binding a crash left behind.
AcceptClearsRead ==
  /\ Accepting
  /\ request.active = "status"
  /\ Save([request EXCEPT !.active = ""])
  /\ OnlyRequest

CreateAcceptance == Accepting /\ request.active # "status" /\ CreateKeyed("accept")
BindAcceptance == Accepting /\ request.active # "status" /\ Bind("accept")

Inspected == Accepting /\ request.active = "accept" /\ Is("accept", {"succeeded"})
RequestSameSource == rops["accept"].seen.src = rops["inspect"].seen.src
SameEnvironment == rops["accept"].seen.env = rops["inspect"].seen.env

SourceChanged ==
  /\ Inspected /\ ~RequestSameSource
  /\ Save([request EXCEPT !.state = "awaiting", !.reason = "source_changed"])
  /\ OnlyRequest

EnvironmentChanged ==
  /\ Inspected /\ RequestSameSource /\ ~SameEnvironment
  /\ Save([request EXCEPT !.state = "awaiting", !.reason = "new_requirement"])
  /\ OnlyRequest

\* AcceptWithEvidence on the receipt of the captured start.
AcceptCommand ==
  /\ Inspected /\ RequestSameSource /\ SameEnvironment
  /\ Captured(StartKey)
  /\ objv' = "accepted"
  /\ OnlyObjective

-----------------------------------------------------------------------------
(* Cancellation: cancelDevelopmentRequest.                                 *)

RequestCancelling == Round({"cancelling"})
Uncaptured == RequestCancelling /\ ~request.process

FailedStart == Is("command", {"failed"})

\* validDevelopmentPreStartOriginal: the Edge said it stopped before Start.
PreStart == rops["command"].seen.code = "prestart" /\ objv \in {"running", "cancelled"}

\* An Edge of an older version reports the missing marker as a failure; one
\* versioned observation is made then.
OldAnswer == PreStart /\ Is("recover", {"failed"}) /\ rops["recover"].seen.code = "old"
RecoveryKey == IF OldAnswer THEN "recover2" ELSE "recover"

CreateRecovery == Uncaptured /\ FailedStart /\ CreateKeyed(RecoveryKey)
BindRecovery == Uncaptured /\ FailedStart /\ Bind(RecoveryKey)

\* Faulty variant: a missing marker alone settles an interrupted start.
AbsenceByMarker == Is(RecoveryKey, {"failed"}) /\ rops[RecoveryKey].seen.code = "absent"

\* validDevelopmentPreStartAbsence.
Absence == PreStart /\ Is(RecoveryKey, {"failed"}) /\ rops[RecoveryKey].seen.code = "absent"

RequestRecovered == request.active = RecoveryKey /\ (Is(RecoveryKey, {"succeeded"}) \/ Absence)

\* RequestOperationCancel on the start.
CancelStart ==
  /\ RequestCancelling
  /\ Is("command", OpLive)
  /\ rops' = [rops EXCEPT !["command"].cancel = TRUE,
                          !["command"].state = IF @ = "queued" THEN "cancelled" ELSE @]
  /\ OnlyOps

CancelCaptures ==
  /\ Uncaptured
  /\ \/ Is("command", {"succeeded"}) /\ Captured("command")
     \/ FailedStart /\ RequestRecovered /\ Captured(RecoveryKey)
  /\ Save([request EXCEPT !.process = TRUE, !.active = ""])
  /\ OnlyRequest

OwnsProcess == RequestCancelling /\ request.process

\* Once reconciliation is recorded the process is only read.
StopKind == IF request.reason = "reconciliation_required" THEN "status" ELSE "stop"

\* A start or an acceptance read still bound from an earlier phase.
CancelClearsPhase ==
  /\ OwnsProcess
  /\ request.active \in Keyed
  /\ Save([request EXCEPT !.active = ""])
  /\ OnlyRequest

\* A failed stop may have stopped the process: recovery by reading is recorded
\* before its first read.
EnterReconciliation ==
  /\ OwnsProcess
  /\ request.active = "stop" /\ Is("stop", {"failed", "cancelled"})
  /\ Save([request EXCEPT !.reason = "reconciliation_required", !.active = ""])
  /\ OnlyRequest

CreateStop == OwnsProcess /\ CreateRead(StopKind)

\* A stop that did not end the process is followed by another; a read that did
\* not is replaced by the next one without leaving the binding empty.
StopContinues ==
  /\ OwnsProcess /\ ReadAnswer(StopKind)
  /\ rops[StopKind].seen.proc \in Running
  /\ IF StopKind = "stop" THEN Save([request EXCEPT !.active = ""]) /\ UNCHANGED rops
     ELSE rops' = [rops EXCEPT !["status"] = Fresh] /\ UNCHANGED request
  /\ UNCHANGED <<reqBounds, objv, dproc, world, mid>>

\* A read that shows an end without a known exit proves nothing.
StopProven ==
  /\ request.process /\ ReadAnswer(StopKind)
  /\ rops[StopKind].seen.proc \in ExitedStates
  /\ StopKind = "status" => rops["status"].seen.proc # "lost"

Proven ==
  \/ StopProven
  \/ /\ ~request.process
     /\ \/ Is("command", {"none", "cancelled"})
        \/ FailedStart /\ request.active = RecoveryKey /\ Absence

CancelsObjective == request.objective /\ objv \notin {"cancelled", "accepted"}

CancelObjv ==
  /\ RequestCancelling /\ Proven
  /\ CancelsObjective
  /\ objv' = "cancelled"
  /\ OnlyObjective

FinishCancelled ==
  /\ RequestCancelling /\ Proven
  /\ ~CancelsObjective
  /\ Save([request EXCEPT !.state = "cancelled", !.reason = "cancellation_requested"])
  /\ OnlyRequest

\* The server dies inside a round.
RoundLost ==
  /\ mid # ""
  /\ reqBounds.crashes > 0
  /\ reqBounds' = [reqBounds EXCEPT !.crashes = @ - 1]
  /\ mid' = ""
  /\ UNCHANGED <<request, objv, rops, dproc, world>>

-----------------------------------------------------------------------------
(* The Edge.                                                               *)

OnlyEdge == UNCHANGED <<request, objv, mid>>

Answer(k, state, seen) == rops' = [rops EXCEPT ![k].state = state, ![k].seen = seen]
EdgeFault == reqBounds.edgeFaults > 0 /\ reqBounds' = [reqBounds EXCEPT !.edgeFaults = @ - 1]

\* The agent leases the start and reports progress before it executes.
EdgeLeasesStart ==
  /\ Is("command", {"queued"})
  /\ rops' = [rops EXCEPT !["command"].state = "leased"]
  /\ dproc' = [dproc EXCEPT !.exec = "executing"]
  /\ UNCHANGED <<reqBounds, world>> /\ OnlyEdge

\* executeProjectDevelopmentCommandStart measures the workspace again and starts
\* the process only if the binding still holds.
EdgeBegins ==
  /\ dproc.exec = "executing"
  /\ dproc' = IF world.src = rops["inspect"].seen.src /\ world.env = rops["inspect"].seen.env
              THEN [dproc EXCEPT !.exec = "begun", !.state = "running", !.src = world.src, !.env = world.env]
              ELSE [dproc EXCEPT !.exec = "drift"]
  /\ UNCHANGED <<reqBounds, rops, world>> /\ OnlyEdge

\* The agent's answer: a cancellation it learns of wins, and an answer for a
\* lease that was recovered is refused.
StartSeen == [RequestNoEvidence EXCEPT !.src = dproc.src, !.env = dproc.env, !.proc = "running"]

EdgeAnswersStart ==
  /\ dproc.exec \in {"begun", "drift"}
  /\ IF ~Is("command", {"leased"}) THEN UNCHANGED rops
     ELSE IF rops["command"].cancel THEN Answer("command", "cancelled", RequestNoEvidence)
     ELSE IF dproc.exec = "begun" THEN Answer("command", "succeeded", StartSeen)
     ELSE Answer("command", "failed", [RequestNoEvidence EXCEPT !.code = "prestart"])
  /\ dproc' = [dproc EXCEPT !.exec = "idle"]
  /\ UNCHANGED <<reqBounds, world>> /\ OnlyEdge

\* A cancellation stops an execution that has not begun.
EdgeDropsStart ==
  /\ dproc.exec = "executing" /\ rops["command"].cancel
  /\ IF Is("command", {"leased"}) THEN Answer("command", "cancelled", RequestNoEvidence) ELSE UNCHANGED rops
  /\ dproc' = [dproc EXCEPT !.exec = "idle"]
  /\ UNCHANGED <<reqBounds, world>> /\ OnlyEdge

\* The lease of the start runs out, the agent still at work or gone.
StartLeaseLost ==
  /\ Is("command", {"leased"})
  /\ IF rops["command"].cancel THEN Answer("command", "cancelled", RequestNoEvidence)
     ELSE Answer("command", "failed", [RequestNoEvidence EXCEPT !.code = "unknown"])
  /\ \/ dproc.exec = "idle" /\ UNCHANGED reqBounds
     \/ dproc.exec # "idle" /\ EdgeFault
  /\ UNCHANGED <<dproc, world>> /\ OnlyEdge

EdgeDies ==
  /\ dproc.exec # "idle" /\ EdgeFault
  /\ dproc' = [dproc EXCEPT !.exec = "idle"]
  /\ UNCHANGED <<rops, world>> /\ OnlyEdge

Measured == [RequestNoEvidence EXCEPT !.src = world.src, !.env = world.env]

EdgeInspects(k) ==
  /\ k \in {"inspect", "accept"}
  /\ Is(k, {"queued"})
  /\ Answer(k, "succeeded", Measured)
  /\ UNCHANGED <<reqBounds, dproc, world>> /\ OnlyEdge

\* recoverDevelopmentProcess with a recovery binding: a lookup, never a start.
EdgeRecovers(k) ==
  /\ k \in {"recover", "recover2"}
  /\ Is(k, {"queued"})
  /\ IF dproc.state # "none" THEN Answer(k, "succeeded", StartSeen)
     ELSE \E code \in IF k = "recover" /\ reqBounds.edgeFaults > 0 THEN {"absent", "old"} ELSE {"absent"} :
            Answer(k, "failed", [RequestNoEvidence EXCEPT !.code = code])
  /\ UNCHANGED <<reqBounds, dproc, world>> /\ OnlyEdge

Saw(s) == [RequestNoEvidence EXCEPT !.proc = s]

EdgeReads ==
  /\ Is("status", {"queued"})
  /\ Answer("status", "succeeded", Saw(dproc.state))
  /\ UNCHANGED <<reqBounds, dproc, world>> /\ OnlyEdge

\* Stopping ends the process, or reports it still stopping.
EdgeStops ==
  /\ Is("stop", {"queued"})
  /\ \E s \in IF dproc.state \notin Running THEN {dproc.state}
              ELSE {"stopped"} \cup IF reqBounds.edgeFaults > 0 THEN {"stopping"} ELSE {} :
       /\ Answer("stop", "succeeded", Saw(s))
       /\ dproc' = [dproc EXCEPT !.state = s]
       /\ reqBounds' = IF s = "stopping" THEN [reqBounds EXCEPT !.edgeFaults = @ - 1] ELSE reqBounds
  /\ UNCHANGED world /\ OnlyEdge

\* An operation fails; a failed stop may have stopped the process.
EdgeFailsOp(k) ==
  /\ Is(k, {"queued"}) /\ k # "command" /\ EdgeFault
  /\ Answer(k, "failed", [RequestNoEvidence EXCEPT !.code = "unknown"])
  /\ \/ UNCHANGED dproc
     \/ k = "stop" /\ dproc.state \in Running /\ dproc' = [dproc EXCEPT !.state = "stopped"]
  /\ UNCHANGED world /\ OnlyEdge

\* The command runs under a timeout and ends; an Edge that restarts may lose
\* the exit.
ProcessEnds ==
  /\ dproc.state \in Running
  /\ \E s \in (IF dproc.state = "running" THEN {"exit0", "exit1"} ELSE {"stopped"}) :
       dproc' = [dproc EXCEPT !.state = s]
  /\ UNCHANGED <<reqBounds, rops, world>> /\ OnlyEdge

ProcessLost ==
  /\ dproc.state \in Running /\ EdgeFault
  /\ dproc' = [dproc EXCEPT !.state = "lost"]
  /\ UNCHANGED <<rops, world>> /\ OnlyEdge

\* Someone edits the source or changes the environment.
Drift ==
  /\ reqBounds.drift > 0
  /\ reqBounds' = [reqBounds EXCEPT !.drift = @ - 1]
  /\ \/ world.src = 0 /\ world' = [world EXCEPT !.src = 1]
     \/ world.env = 0 /\ world' = [world EXCEPT !.env = 1]
  /\ UNCHANGED <<rops, dproc>> /\ OnlyEdge

-----------------------------------------------------------------------------

ReqInit ==
  /\ reqBounds \in ReqBounds
  /\ request = [state |-> "absent", reason |-> "", active |-> "",
                inspected |-> FALSE, objective |-> FALSE, process |-> FALSE]
  /\ objv = "none"
  /\ rops = [k \in OpKind |-> NoOperation]
  /\ dproc = [state |-> "none", exec |-> "idle", src |-> 0, env |-> 0]
  /\ world = [src |-> 0, env |-> 0]
  /\ mid = ""

RequestCoordinatorStep ==
  \/ CreateInspection \/ BindInspection \/ InspectionFails \/ CreateObjective \/ BindObjective
  \/ CompleteRequest \/ PlanCommand \/ AwaitCapabilities \/ Provisioned \/ RequestStartAttempt
  \/ CreateCommand \/ BindCommand \/ CommandUnresolved \/ CaptureProcess
  \/ CreatePoll \/ BindRead \/ PollCompletes \/ PollFails \/ FinishAwaiting \/ PollContinues
  \/ AcceptClearsRead \/ CreateAcceptance \/ BindAcceptance \/ SourceChanged \/ EnvironmentChanged
  \/ AcceptCommand
  \/ CreateRecovery \/ BindRecovery \/ CancelStart \/ CancelCaptures \/ CancelClearsPhase
  \/ EnterReconciliation \/ CreateStop \/ StopContinues \/ CancelObjv \/ FinishCancelled

RequestEdgeStep ==
  \/ EdgeLeasesStart \/ EdgeBegins \/ EdgeAnswersStart \/ EdgeDropsStart \/ StartLeaseLost
  \/ EdgeReads \/ EdgeStops
  \/ \E k \in OpKind : EdgeInspects(k) \/ EdgeRecovers(k)

ReqNext ==
  \/ StartDevelopment
  \/ AskCancelDevelopment
  \/ BodyUnavailable
  \/ RoundLost
  \/ RequestCoordinatorStep
  \/ RequestEdgeStep
  \/ EdgeDies
  \/ \E k \in OpKind : EdgeFailsOp(k)
  \/ ProcessEnds
  \/ ProcessLost
  \/ Drift

\* The coordinator's ticker keeps offering rounds, the Edge keeps polling, and
\* the timeout that wraps the command ends it.
ReqFairness == WF_reqVars(RequestCoordinatorStep) /\ WF_reqVars(RequestEdgeStep) /\ WF_reqVars(ProcessEnds)

ReqSpec == ReqInit /\ [][ReqNext]_reqVars /\ ReqFairness

-----------------------------------------------------------------------------
(* Properties.                                                             *)

\* The row, the operations and the process have their types.
ReqTypeOK ==
  /\ request \in [state: {"absent", "preparing", "active", "awaiting", "cancelling"} \cup ReqTerminal,
                  reason: RequestReasons, active: OpKind \cup {""},
                  inspected: BOOLEAN, objective: BOOLEAN, process: BOOLEAN]
  /\ objv \in ObjStates
  /\ rops \in [OpKind -> [state: {"none"} \cup OpLive \cup OpDone, cancel: BOOLEAN, seen: Evidence]]
  /\ dproc \in [state: {"none"} \cup Running \cup ExitedStates,
                exec: {"idle", "executing", "begun", "drift"}, src: 0..1, env: 0..1]
  /\ world \in [src: 0..1, env: 0..1]
  /\ mid \in {"", "awaiting"} \cup ProcKinds

\* The command's process does not run and no execution of the start is about to
\* begin one.
AtRest == dproc.state \notin Running /\ dproc.exec # "executing"

\* "The result may remain cancelling until terminal evidence is observed": a
\* request reported as cancelled has no process running and none about to
\* start, whatever acknowledgements were lost, unless its start ended as a
\* cancelled operation, which the code takes as evidence of its own.
CancelledAtRest ==
  request.state = "cancelled" /\ rops["command"].state # "cancelled" => AtRest

\* "command_verified means the exact command had a known zero exit and its
\* source/environment bindings were revalidated": an accepted objective has a
\* process that exited with zero, started on the inspected source and
\* environment, which the acceptance inspection found again.
AcceptanceEarned ==
  objv = "accepted" =>
    /\ dproc.state = "exit0"
    /\ \A k \in {"inspect", "accept"} : rops[k].seen.src = dproc.src /\ rops[k].seen.env = dproc.env

\* "A failed stop enters durable, identity-bound read-only reconciliation": once
\* it is recorded, no further stop is created before the request ends.
ReadOnlyStep ==
  request.state = "cancelling" /\ request.reason = "reconciliation_required" =>
    /\ rops'["stop"] = rops["stop"] \/ Is("stop", OpLive)
    /\ request'.state = "cancelling" => request'.reason = "reconciliation_required"
ReadOnlyAfterFailedStop == [][ReadOnlyStep]_reqVars

\* Evidence the code cannot do without: a read or an acceptance inspection that
\* failed stays bound; a failed recovery, or an interrupted start without a
\* process, is never looked up again; a lost exit is never known; and a failed
\* attempt whose second write a crash took away cannot be failed again.
Unresolvable ==
  \/ request.active \in {"status", "accept"} /\ Is(request.active, {"failed"})
  \/ FailedStart /\ rops["command"].seen.code = "unknown" /\ ~request.process
  \/ FailedStart /\ request.state = "active" /\ ~request.process
  \/ \E k \in {"recover", "recover2"} : rops[k].seen.code = "unknown"
  \/ dproc.state = "lost"
  \/ objv = "blocked" /\ request.state = "active"

\* Every request settles while its evidence can be had: it completes, fails, is
\* cancelled or waits for reasoning, whatever rounds are lost and although stops
\* fail.
Settled == request.state \in ReqTerminal \cup {"awaiting"}
RequestSettles == []<>(request.state = "absent" \/ Settled \/ Unresolvable)

-----------------------------------------------------------------------------
(***************************************************************************)
(* The isolated runner of internal/tools and internal/mcpserver: a         *)
(* development request whose command runs as one hosted workflow.  Two     *)
(* effects use the protocol, the calibration probe of the runner's template*)
(* and then the command: a queue job is leased, a dispatch intent is saved *)
(* under the lease, and only the call that created it may POST.            *)
(*                                                                         *)
(* The lock of the request's key, and the lock of the effect, make a round *)
(* one process at a time; `grip` is what the current round holds in memory,*)
(* and a crash or a lost lease takes it away.  Templates, digests and run  *)
(* identities are abstracted to whether the run is the effect's own.       *)
(***************************************************************************)

CONSTANT RunnerBounds  \* records [lapses, crashes, lost, drift, source]

VARIABLES
  rnBounds,   \* the bounds of this behaviour, counted down
  rn,         \* the request, its objective, and the acceptance inspection
  rjob,       \* the queue job of each effect
  effect,     \* the rows of development_runner_effects
  hosted,     \* the runs at the hosting service
  grip

rnVars == <<rnBounds, rn, rjob, effect, hosted, grip>>

Effects == {"probe", "command"}
EffectEnded == {"succeeded", "failed", "cancelled"}
JobEnded == {"succeeded", "failed", "cancelled"}
MaxRunnerAttempts == 3   \* bound of the model on MaxLeaseAttempts

Loose == [e |-> "command", at |-> ""]
RunnerFree == grip.at = ""
RunnerLive(e) == rjob[e].state = "leased" /\ ~rjob[e].lapsed

\* TemplateAttestation: the succeeded probe of this very template.
TemplateAttested == effect["probe"].state = "succeeded"
PublicSource == rnBounds.source = "public"

\* developmentRunnerFindRun: by id, or by the effect it names.
RunFound(e) == hosted[e].run # "none"

\* What the class of a failure, read from the run's steps, makes of the request.
AfterFailure == {"awaiting", "failed"}

\* The effect the round is about.  A cancellation never touches the probe.
Turn(e) ==
  /\ RunnerFree
  /\ \/ /\ e = "probe" /\ rn.req = "active" /\ rn.obj = "open"
        /\ effect["probe"].state # "succeeded" /\ rnBounds.source # "dirty"
     \/ e = "command" /\ rn.req = "active" /\ rn.obj \in {"running", "pending"}
     \/ e = "command" /\ rn.req = "cancelling" /\ effect["command"].state # "none"

-----------------------------------------------------------------------------
(* The queue job: developmentRunnerLease and EnsureCalibration.            *)

OnlyJobs == UNCHANGED <<rnBounds, rn, effect, hosted, grip>>

EnqueueRunner(e) ==
  /\ Turn(e)
  /\ rjob[e].state = "none"
  /\ rjob' = [rjob EXCEPT ![e].state = "queued"]
  /\ OnlyJobs

LeaseRunner(e) ==
  /\ Turn(e)
  /\ rjob[e].state = "queued"
  /\ rjob' = [rjob EXCEPT ![e].state = "leased", ![e].fence = @ + 1, ![e].lapsed = FALSE]
  /\ OnlyJobs

\* RecoverExpired: requeued, or failed once its attempts are spent; the row then
\* names no lease any more ("exhausted"), and every later call is refused.
RecoverRunner(e) ==
  /\ Turn(e)
  /\ rjob[e].state = "leased" /\ rjob[e].lapsed
  /\ rjob' = [rjob EXCEPT ![e].state = IF rjob[e].fence >= MaxRunnerAttempts THEN "exhausted" ELSE "queued",
                          ![e].lapsed = FALSE]
  /\ OnlyJobs

\* The lease runs out while nobody renews it, in or between rounds.
RunnerLapses(e) ==
  /\ RunnerLive(e) /\ rnBounds.lapses > 0
  /\ rnBounds' = [rnBounds EXCEPT !.lapses = @ - 1]
  /\ rjob' = [rjob EXCEPT ![e].lapsed = TRUE]
  /\ UNCHANGED <<rn, effect, hosted, grip>>

\* Complete, which answers a repetition of itself.
RunnerCanComplete(e, outcome) == RunnerLive(e) \/ rjob[e].state = outcome
RunnerCompleted(e, outcome) == rjob' = [rjob EXCEPT ![e].state = outcome]

-----------------------------------------------------------------------------
(* The effect: DevelopmentRunner.Start, inspect and reconcile.             *)

\* SaveDevelopmentRunnerEffect, revision one, before any POST.
DispatchIntent(e) ==
  /\ Turn(e) /\ rn.req = "active" /\ RunnerLive(e)
  /\ effect[e].state = "none"
  /\ e = "command" => TemplateAttested /\ PublicSource
  /\ effect' = [effect EXCEPT ![e].state = "dispatch_intent", ![e].fence = rjob[e].fence]
  /\ grip' = [e |-> e, at |-> "post"]
  /\ UNCHANGED <<rnBounds, rn, rjob, hosted>>

\* The sole POST: it may be lost, succeed without telling the run, or tell it.
PostDispatch ==
  /\ grip.at = "post"
  /\ LET e == grip.e IN
     \/ /\ rnBounds.lost > 0
        /\ rnBounds' = [rnBounds EXCEPT !.lost = @ - 1]
        /\ hosted' = [hosted EXCEPT ![e].posts = @ + 1]
        /\ grip' = Loose
     \/ /\ hosted' = [hosted EXCEPT ![e].posts = @ + 1, ![e].run = "active"]
        /\ \E at \in {"", "record"} : grip' = [e |-> e, at |-> at]
        /\ UNCHANGED rnBounds
  /\ UNCHANGED <<rn, rjob, effect>>

RecordRun ==
  /\ grip.at = "record"
  /\ effect' = IF RunnerLive(grip.e) /\ rjob[grip.e].fence = effect[grip.e].fence
               THEN [effect EXCEPT ![grip.e].state = "pending", ![grip.e].run = TRUE] ELSE effect
  /\ grip' = Loose
  /\ UNCHANGED <<rnBounds, rn, rjob, hosted>>

\* reconcile: the fresh fence, and the intent to cancel, are saved before the
\* service is asked.
Refence(e) ==
  /\ Turn(e) /\ RunnerLive(e)
  /\ effect[e].state \notin {"none"} \cup EffectEnded
  /\ effect' = [effect EXCEPT ![e].fence = rjob[e].fence,
                              ![e].state = IF rn.req = "cancelling" THEN "cancel_intent" ELSE @]
  /\ grip' = [e |-> e, at |-> "read"]
  /\ UNCHANGED <<rnBounds, rn, rjob, hosted>>

\* The state a reading of the run leads to; an acknowledged cancellation is not
\* an end.
ReadState(state, run) ==
  IF run = "active" THEN (IF state = "cancel_intent" THEN "cancel_intent" ELSE "pending")
  ELSE IF run = "success" THEN (IF state = "cancel_intent" THEN "cancelled" ELSE "succeeded")
  ELSE IF run = "cancelled" THEN "cancelled" ELSE "failed"

\* SaveDevelopmentRunnerEffect: an intent to cancel is never withdrawn.
Storable(old, new) == old = "cancel_intent" => new \in {"cancel_intent", "cancelled", "failed"}

ReadRun ==
  /\ grip.at = "read"
  /\ LET e == grip.e
         run == hosted[e].run
     IN /\ hosted' = [hosted EXCEPT ![e].asked = @ \/ (run = "active" /\ effect[e].state = "cancel_intent")]
        /\ effect' = IF RunFound(e) /\ RunnerLive(e) /\ rjob[e].fence = effect[e].fence
                           /\ Storable(effect[e].state, ReadState(effect[e].state, run))
                     THEN [effect EXCEPT ![e].state = ReadState(@, run), ![e].run = TRUE] ELSE effect
        /\ grip' = IF e = "probe" /\ effect'[e].state \in EffectEnded THEN [e |-> e, at |-> "close"] ELSE Loose
  /\ UNCHANGED <<rnBounds, rn, rjob>>

\* The run ends; one asked to be cancelled may still end otherwise, and one may
\* be cancelled at the service by somebody else.
RunEnds(e) ==
  /\ hosted[e].run = "active"
  /\ \E c \in {"success", "failure", "cancelled"} : hosted' = [hosted EXCEPT ![e].run = c]
  /\ UNCHANGED <<rnBounds, rn, rjob, effect, grip>>

-----------------------------------------------------------------------------
(* The request: reconcileDevelopmentRunner, acceptDevelopmentRunner and     *)
(* cancelDevelopmentRunner.                                                *)

OnlyRn == UNCHANGED <<rnBounds, rjob, effect, hosted>>
SaveRn(r) == rn' = r /\ UNCHANGED grip /\ OnlyRn

\* EnsureCalibration completes the probe's job in the round that read its end.
CloseProbe ==
  /\ grip.at = "close"
  /\ rjob' = IF RunnerLive("probe") THEN [rjob EXCEPT !["probe"].state = effect["probe"].state] ELSE rjob
  /\ grip' = IF RunnerLive("probe") /\ effect["probe"].state # "succeeded" THEN [grip EXCEPT !.at = "failed"] ELSE Loose
  /\ UNCHANGED <<rnBounds, rn, effect, hosted>>

\* A probe found ended unsuccessfully by a later round is closed by it.
FindProbe ==
  /\ Turn("probe")
  /\ effect["probe"].state \in {"failed", "cancelled"}
  /\ RunnerLive("probe") \/ rjob["probe"].state \in JobEnded
  /\ grip' = [e |-> "probe", at |-> IF RunnerLive("probe") THEN "close" ELSE "failed"]
  /\ UNCHANGED <<rnBounds, rn, rjob, effect, hosted>>

FinishFailed ==
  /\ grip.at = "failed"
  /\ rn' = [rn EXCEPT !.req = "failed"]
  /\ grip' = Loose
  /\ OnlyRn

\* A dirty source, or a template without the command's capabilities, is left to
\* the operator before anything is dispatched for the command.
RunnerUnfit ==
  /\ RunnerFree /\ rn.req = "active" /\ rn.obj = "open"
  /\ \/ rnBounds.source = "dirty"
     \/ rnBounds.source = "unfit" /\ TemplateAttested
  /\ SaveRn([rn EXCEPT !.req = "awaiting"])

\* PlanAttempt and StartAttempt on the template a succeeded probe attests.
PlanRunner ==
  /\ RunnerFree /\ rn.req = "active" /\ rn.obj = "open"
  /\ TemplateAttested /\ rnBounds.source \notin {"dirty", "unfit"}
  /\ SaveRn([rn EXCEPT !.obj = "running"])

\* The source is not public: the job fails, the request waits.
SourceNotPublic ==
  /\ Turn("command") /\ rn.req = "active"
  /\ effect["command"].state = "none" /\ rnBounds.source = "private"
  /\ RunnerCanComplete("command", "failed")
  /\ RunnerCompleted("command", "failed")
  /\ rn' = [rn EXCEPT !.req = "awaiting"]
  /\ UNCHANGED <<rnBounds, effect, hosted, grip>>

\* What a round finds when the command's effect has ended in one of S.
Found(S) ==
  /\ Turn("command") /\ rn.req = "active"
  /\ effect["command"].state \in S
  /\ RunnerLive("command") \/ rjob["command"].state \in JobEnded

\* Found cancelled though nobody asked here: job, objective, request.  Cancel
\* refuses an objective that is over, so a round that dies after the objective
\* is not resumed.
FoundCancelled ==
  /\ Found({"cancelled"})
  /\ rn.obj = "running"
  /\ RunnerCanComplete("command", "cancelled")
  /\ RunnerCompleted("command", "cancelled")
  /\ grip' = [e |-> "command", at |-> "cancel"]
  /\ UNCHANGED <<rnBounds, rn, effect, hosted>>

CloseCancelled ==
  /\ grip.at \in {"cancel", "cancelled"}
  /\ \/ /\ grip.at = "cancel"
        /\ rn' = [rn EXCEPT !.obj = "cancelled"]
        /\ grip' = [grip EXCEPT !.at = "cancelled"]
     \/ /\ grip.at = "cancelled"
        /\ rn' = [rn EXCEPT !.req = "cancelled"]
        /\ grip' = Loose
  /\ OnlyRn

\* Found failed: FailAttempt is saved first; the round then closes the job and
\* the request, and a round that dies in between is not resumed.
FoundFailed ==
  /\ Found({"failed"})
  /\ rn.obj = "running"
  /\ rn' = [rn EXCEPT !.obj = "blocked"]
  /\ grip' = [e |-> "command", at |-> "fail"]
  /\ OnlyRn

CloseFailed ==
  /\ grip.at = "fail"
  /\ \/ /\ RunnerLive("command")
        /\ RunnerCompleted("command", "failed")
        /\ \E s \in AfterFailure : rn' = [rn EXCEPT !.req = s]
     \/ /\ rjob["command"].state \in JobEnded
        /\ \E s \in AfterFailure : rn' = [rn EXCEPT !.req = s]
        /\ UNCHANGED rjob
     \/ /\ rjob["command"].lapsed
        /\ UNCHANGED <<rn, rjob>>
  /\ grip' = Loose
  /\ UNCHANGED <<rnBounds, effect, hosted>>

FoundSucceeded ==
  /\ Found({"succeeded"})
  /\ rn.obj = "running"
  /\ SaveRn([rn EXCEPT !.obj = "pending"])

\* The second inspection, keyed, created and bound once.
InspectAgain ==
  /\ Found({"succeeded"})
  /\ rn.obj = "pending" /\ rn.accept = "none"
  /\ SaveRn([rn EXCEPT !.accept = "queued"])

EdgeInspectsAgain ==
  /\ rn.accept = "queued"
  /\ SaveRn([rn EXCEPT !.accept = IF rn.src = 0 THEN "same" ELSE "changed"])

AcceptRunner ==
  /\ Found({"succeeded"})
  /\ rn.obj = "pending" /\ rn.accept = "same"
  /\ rn' = [rn EXCEPT !.obj = "accepted"]
  /\ grip' = [e |-> "command", at |-> "accepted"]
  /\ OnlyRn

\* The job is closed if it is still leased, and the request completes; a lost
\* lease leaves the completion to the next round.
CloseAccepted ==
  /\ grip.at = "accepted"
  /\ IF rjob["command"].lapsed THEN UNCHANGED <<rn, rjob>>
     ELSE /\ rjob' = IF RunnerLive("command") THEN [rjob EXCEPT !["command"].state = "succeeded"] ELSE rjob
          /\ rn' = [rn EXCEPT !.req = "completed"]
  /\ grip' = Loose
  /\ UNCHANGED <<rnBounds, effect, hosted>>

SourceMoved ==
  /\ Found({"succeeded"})
  /\ rn.obj = "pending" /\ rn.accept = "changed"
  /\ rjob' = IF RunnerLive("command") THEN [rjob EXCEPT !["command"].state = "failed"] ELSE rjob
  /\ rn' = [rn EXCEPT !.req = "awaiting"]
  /\ UNCHANGED <<rnBounds, effect, hosted, grip>>

\* An accepted objective completes its request without the runner.
CompleteAccepted ==
  /\ RunnerFree /\ rn.req = "active" /\ rn.obj = "accepted"
  /\ SaveRn([rn EXCEPT !.req = "completed"])

AskCancelRunner ==
  /\ RunnerFree /\ rn.req \in {"active", "awaiting"}
  /\ SaveRn([rn EXCEPT !.req = "cancelling"])

ObjectiveOver == {"accepted", "cancelled", "failed"}
CancelledObj == IF rn.obj \in ObjectiveOver THEN rn.obj ELSE "cancelled"

\* Nothing was ever dispatched for the command.
CancelUndispatched ==
  /\ RunnerFree /\ rn.req = "cancelling"
  /\ effect["command"].state = "none"
  /\ SaveRn([rn EXCEPT !.obj = CancelledObj, !.req = "cancelled"])

\* The effect has ended, whichever way: the job if still leased, the objective,
\* the request.  Every prefix of these writes is repeated harmlessly.
CancelEnded ==
  /\ Turn("command") /\ rn.req = "cancelling"
  /\ effect["command"].state \in EffectEnded
  /\ RunnerLive("command") \/ rjob["command"].state \in JobEnded
  /\ rjob' = IF RunnerLive("command") THEN [rjob EXCEPT !["command"].state = "cancelled"] ELSE rjob
  /\ rn' = [rn EXCEPT !.obj = CancelledObj, !.req = "cancelled"]
  /\ UNCHANGED <<rnBounds, effect, hosted, grip>>

-----------------------------------------------------------------------------
(* The environment.                                                        *)

SourceDrifts ==
  /\ rnBounds.drift > 0
  /\ rnBounds' = [rnBounds EXCEPT !.drift = 0]
  /\ rn' = [rn EXCEPT !.src = 1]
  /\ UNCHANGED <<rjob, effect, hosted, grip>>

RunnerCrash ==
  /\ ~RunnerFree /\ rnBounds.crashes > 0
  /\ rnBounds' = [rnBounds EXCEPT !.crashes = @ - 1]
  /\ grip' = Loose
  /\ UNCHANGED <<rn, rjob, effect, hosted>>

-----------------------------------------------------------------------------

RnInit ==
  /\ rnBounds \in RunnerBounds
  /\ rn = [req |-> "active", obj |-> "open", accept |-> "none", src |-> 0]
  /\ rjob = [e \in Effects |-> [state |-> "none", fence |-> 0, lapsed |-> FALSE]]
  /\ effect = [e \in Effects |-> [state |-> "none", fence |-> 0, run |-> FALSE]]
  /\ hosted = [e \in Effects |-> [posts |-> 0, run |-> "none", asked |-> FALSE]]
  /\ grip = Loose

RunnerRound ==
  \/ \E e \in Effects : EnqueueRunner(e) \/ LeaseRunner(e) \/ RecoverRunner(e) \/ DispatchIntent(e) \/ Refence(e)
  \/ PostDispatch \/ RecordRun \/ ReadRun
  \/ CloseProbe \/ FindProbe \/ FinishFailed \/ RunnerUnfit \/ PlanRunner \/ SourceNotPublic
  \/ FoundCancelled \/ CloseCancelled \/ FoundFailed \/ CloseFailed \/ FoundSucceeded \/ InspectAgain
  \/ AcceptRunner \/ CloseAccepted \/ SourceMoved \/ CompleteAccepted
  \/ CancelUndispatched \/ CancelEnded

RnNext ==
  \/ RunnerRound
  \/ \E e \in Effects : RunEnds(e) \/ RunnerLapses(e)
  \/ EdgeInspectsAgain \/ AskCancelRunner \/ SourceDrifts \/ RunnerCrash

\* The coordinator runs a round of every live request again and again; runs at
\* the service end within their timeout; the Edge answers inspections.
RnSpec ==
  /\ RnInit /\ [][RnNext]_rnVars
  /\ WF_rnVars(RunnerRound)
  /\ \A e \in Effects : WF_rnVars(RunEnds(e))
  /\ WF_rnVars(EdgeInspectsAgain)

-----------------------------------------------------------------------------
(* Properties.                                                             *)

RunnerTypeOK ==
  /\ rn \in [req: {"active", "awaiting", "cancelling", "completed", "failed", "cancelled"},
             obj: {"open", "running", "blocked", "pending", "accepted", "cancelled"},
             accept: {"none", "queued", "same", "changed"}, src: 0..1]
  /\ \A e \in Effects : /\ rjob[e].state \in {"none", "queued", "leased", "exhausted"} \cup JobEnded
                         /\ effect[e].fence <= rjob[e].fence
                         /\ rjob[e].fence <= MaxRunnerAttempts

\* Start persists its intent before its sole POST: whatever is lost, lapses or
\* crashes afterwards, no effect is ever dispatched a second time.
PostedOnce == \A e \in Effects : hosted[e].posts <= 1

\* A request reported cancelled has no command running at the service: an
\* acknowledged cancellation is not taken for the end of the run.
RunnerCancelledAtRest == rn.req = "cancelled" => hosted["command"].run # "active"

\* An accepted objective rests on a run that succeeded, on a template whose own
\* probe run succeeded, and on a source inspected again after the run.
RunnerAcceptanceEarned ==
  rn.obj = "accepted" => /\ hosted["command"].run = "success"
                         /\ hosted["probe"].run = "success"
                         /\ rn.accept = "same"

\* What no round can resolve: a POST whose run never existed, a job whose lease
\* attempts are spent, and a round that died between the objective's end and
\* the request's.
NeverResolved ==
  \/ \E e \in Effects : effect[e].state # "none" /\ hosted[e].run = "none" /\ grip.at # "post"
  \/ \E e \in Effects : rjob[e].state = "exhausted"
  \/ RunnerFree /\ rn.req = "active" /\ rn.obj \in {"blocked", "cancelled"}
RequestOver == rn.req \in {"awaiting", "completed", "failed", "cancelled"}

\* Every runner request comes to an end the operator sees, through lost leases,
\* crashes and lost acknowledgements, except in the three cases above.
RunnerSettles == <>[](RequestOver \/ NeverResolved)

=============================================================================
