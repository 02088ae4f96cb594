--------------------------- MODULE RuntimeLaunch ----------------------------
(***************************************************************************)
(* How a runtime requested at the control plane becomes one process on the *)
(* Edge: leases and their receipts (internal/edge, internal/modelturn),    *)
(* the pollers and the launcher that takes a lease through its stages      *)
(* (internal/edgeclient, cmd/mcp-edge), and the Edge's journal of local    *)
(* runtimes, which survives the Edge process.  All runtimes here share one *)
(* workspace.                                                              *)
(***************************************************************************)
EXTENDS Naturals

CONSTANTS
  LaunchBounds,   \* records [runtimes, leases, lost, faults, crashes, kills, cancels]
  Pollers         \* the Edge's runtime pollers

VARIABLES
  lbBounds,       \* the bounds of this behaviour
  rts,            \* the runtimes' rows at the control plane
  row,            \* the Edge's journal, by runtime
  pol,            \* the pollers
  edge            \* the Edge: kill switch, processes started, crashes

LaunchFields == {"runtimes", "leases", "lost", "faults", "crashes", "kills", "cancels"}

ASSUME LaunchAssumption == LaunchBounds \subseteq [LaunchFields -> Nat]

lbVars == <<lbBounds, rts, row, pol, edge>>

Runtimes == 1 .. lbBounds.runtimes
RowActive == {"starting", "running"}
RtEnded == {"completed", "failed", "cancelled", "expired"}
IdlePoller == [at |-> "idle", rt |-> 0, id |-> 0, why |-> "none"]

Has(field) == lbBounds[field] > 0
Spend(field) == lbBounds' = [lbBounds EXCEPT ![field] = @ - 1]

\* A call to the control plane that stays without an answer.
Unheard == Has("lost") /\ Spend("lost")

\* setRuntimeState with its compare-and-swap on the allowed states.
SetState(r, target, allowed) ==
  rts' = [rts EXCEPT ![r].state = IF @ \in allowed THEN target ELSE @]
Ongoing == {"awaiting_edge", "starting", "awaiting_model"}

-----------------------------------------------------------------------------
(* The control plane.                                                      *)

\* handleOpenCodeRuntimeStart: the goal is staged and the runtime bound.
LaunchStartBoundRuntime(r) ==
  /\ rts[r].state = "none"
  /\ \A q \in Runtimes : q < r => rts[q].state # "none"
  /\ rts' = [rts EXCEPT ![r].state = "awaiting_edge"]
  /\ UNCHANGED <<lbBounds, row, pol, edge>>

CancelRequested(r) ==
  /\ Has("cancels") /\ rts[r].state \in Ongoing
  /\ Spend("cancels")
  /\ SetState(r, "cancelled", Ongoing)
  /\ UNCHANGED <<row, pol, edge>>

StartupDeadline(r) ==
  /\ rts[r].state \in Ongoing /\ ~rts[r].due
  /\ rts' = [rts EXCEPT ![r].due = TRUE]
  /\ UNCHANGED <<lbBounds, row, pol, edge>>

expireRuntimesLocked(r) ==
  /\ rts[r].state \in Ongoing /\ rts[r].due
  /\ SetState(r, "expired", Ongoing)
  /\ UNCHANGED <<lbBounds, row, pol, edge>>

\* LeaseNextRuntime: the oldest runtime that waits for its Edge.
Leasable == {r \in Runtimes : rts[r].state = "awaiting_edge" /\ ~rts[r].due}
NextLease(r) == r \in Leasable /\ \A q \in Leasable : r <= q
ReceiptOf(id) == {r \in Runtimes : rts[r].lease = id}

\* writeLease for runtime r once the receipt stands: the goal may be
\* unreadable for now, the runtime may be past its deadline, the reply lost.
WriteLease(p, r, held) ==
  \/ /\ ~rts[r].due
     /\ rts' = [held EXCEPT ![r].state = "starting"]
     /\ \/ /\ pol' = [pol EXCEPT ![p].at = "leased", ![p].rt = r]
           /\ UNCHANGED lbBounds
        \/ Unheard /\ UNCHANGED pol
  \/ /\ Has("faults") /\ ~rts[r].due
     /\ Spend("faults")
     /\ rts' = [held EXCEPT ![r].state = "awaiting_edge"]
     /\ UNCHANGED pol
  \/ /\ rts[r].due
     /\ rts' = [held EXCEPT ![r].state = "failed"]
     /\ pol' = [pol EXCEPT ![p] = IdlePoller]
     /\ UNCHANGED lbBounds

\* handleLease under a receipt it gave before: the same runtime or nothing.
LeaseAgain(p) ==
  /\ pol[p].at = "asking"
  /\ \E r \in ReceiptOf(pol[p].id) :
       \/ rts[r].state \in {"awaiting_edge", "starting"} /\ WriteLease(p, r, rts)
       \/ /\ rts[r].state \notin {"awaiting_edge", "starting"}
          /\ pol' = [pol EXCEPT ![p] = IdlePoller]
          /\ UNCHANGED <<lbBounds, rts>>
  /\ UNCHANGED <<row, edge>>

\* A first lease: the runtime is taken, then its receipt recorded, unless
\* another lease has it already; a restart in between leaves it taken.
LeaseFirst(p) ==
  /\ pol[p].at = "asking"
  /\ ReceiptOf(pol[p].id) = {}
  /\ \E r \in Runtimes :
       /\ NextLease(r)
       /\ \/ rts[r].lease = 0 /\ WriteLease(p, r, [rts EXCEPT ![r].lease = pol[p].id])
          \/ /\ rts[r].lease = 0 /\ Unheard
             /\ rts' = [rts EXCEPT ![r].state = "starting"]
             /\ UNCHANGED pol
          \/ /\ rts[r].lease # 0
             /\ rts' = [rts EXCEPT ![r].state = "starting"]
             /\ pol' = [pol EXCEPT ![p] = IdlePoller]
             /\ UNCHANGED lbBounds
  /\ UNCHANGED <<row, edge>>

\* The long poll ends without a runtime.
LeaseNothing(p) ==
  /\ pol[p].at = "asking"
  /\ ReceiptOf(pol[p].id) = {} /\ Leasable = {}
  /\ pol' = [pol EXCEPT ![p] = IdlePoller]
  /\ UNCHANGED <<lbBounds, rts, row, edge>>

-----------------------------------------------------------------------------
(* The Edge: RunNext and the stages of RunLease.                           *)

\* LeaseModelRuntime: one lease identity for all repetitions of the call.
RunNext(p) ==
  /\ Has("leases") /\ pol[p].at = "idle"
  /\ Spend("leases")
  /\ pol' = [pol EXCEPT ![p] = [IdlePoller EXCEPT !.at = "asking", !.id = lbBounds.leases]]
  /\ UNCHANGED <<rts, row, edge>>

At(p, stage) == pol[p].at = stage
Stage(p, stage) == pol' = [pol EXCEPT ![p].at = stage]

\* failLocal: Finish closes an open row only.
failLocal(r, state) ==
  row' = [row EXCEPT ![r] = IF @ \in RowActive THEN state ELSE @]

\* The kill switch is looked at before anything is journalled or reported.
RefuseLease(p) ==
  /\ At(p, "leased") /\ edge.killed
  /\ pol' = [pol EXCEPT ![p] = IdlePoller]
  /\ UNCHANGED <<lbBounds, rts, row, edge>>

\* Faulty variant: the journal keeps no unique active row per workspace.
OthersActiveIgnored(r) == row[r] \in RowActive

OthersActive(r) == \E q \in Runtimes \ {r} : row[q] \in RowActive

\* Begin: a new row unless another runtime is active in the workspace; a row
\* found in place means an interrupted run, which is never run again.
LaunchBegin(p) ==
  /\ At(p, "leased") /\ ~edge.killed
  /\ LET r == pol[p].rt IN
       \/ /\ row[r] = "none" /\ ~OthersActive(r)
          /\ row' = [row EXCEPT ![r] = "starting"]
          /\ Stage(p, "prepare")
       \/ /\ row[r] = "none" /\ OthersActive(r)
          /\ UNCHANGED row
          /\ Stage(p, "report")
       \/ /\ row[r] \in RowActive
          /\ failLocal(r, "failed")
          /\ Stage(p, "report")
       \/ /\ row[r] \notin RowActive \cup {"none"}
          /\ UNCHANGED row
          /\ pol' = [pol EXCEPT ![p] = IdlePoller]
  /\ UNCHANGED <<lbBounds, rts, edge>>

StageFails(p) ==
  /\ failLocal(pol[p].rt, "failed")
  /\ Stage(p, "report")

\* A stage on the Edge alone: it fails for a local reason, or the next begins.
LocalFault(p) == Has("faults") /\ Spend("faults") /\ StageFails(p)
LocalStage(p, from, to) ==
  /\ At(p, from)
  /\ \/ LocalFault(p)
     \/ Stage(p, to) /\ UNCHANGED <<lbBounds, row>>
  /\ UNCHANGED <<rts, edge>>

\* The workspace is resolved and its workcell prepared.
PrepareWorkspace(p) == LocalStage(p, "prepare", "verify")

\* The executables, their locks and the sandbox are verified.
verifyLocalInstallation(p) == LocalStage(p, "verify", "preflight")

\* The workspace is resolved again and must be the same; then the phase, which
\* the control plane takes only from a starting runtime.
Preflight(p) ==
  /\ At(p, "preflight")
  /\ \/ LocalFault(p)
     \/ /\ rts[pol[p].rt].state = "starting"
        /\ Stage(p, "confirm")
        /\ UNCHANGED <<lbBounds, row>>
     \/ /\ rts[pol[p].rt].state # "starting"
        /\ StageFails(p)
        /\ UNCHANGED lbBounds
  /\ UNCHANGED <<rts, edge>>

\* Started: a rejection closes the row without a report.
Started(p) ==
  /\ At(p, "confirm")
  /\ LET r == pol[p].rt IN
       \/ /\ rts[r].state \in {"starting", "awaiting_model"}
          /\ SetState(r, "awaiting_model", {"starting", "awaiting_model"})
          /\ Stage(p, "brokers")
          /\ UNCHANGED row
       \/ /\ rts[r].state \notin {"starting", "awaiting_model"}
          /\ failLocal(r, "failed")
          /\ pol' = [pol EXCEPT ![p] = IdlePoller]
          /\ UNCHANGED rts
  /\ UNCHANGED <<lbBounds, edge>>

\* The private directory, the container proxy and the workspace's broker.
StartBrokers(p) == LocalStage(p, "brokers", "driver")

\* The driver or adapter, the ready phase and the running row.
StartDriver(p) ==
  /\ At(p, "driver")
  /\ \/ LocalFault(p)
     \/ /\ rts[pol[p].rt].state = "awaiting_model"
        /\ row' = [row EXCEPT ![pol[p].rt] = "running"]
        /\ Stage(p, "spec")
        /\ UNCHANGED lbBounds
     \/ /\ rts[pol[p].rt].state # "awaiting_model"
        /\ StageFails(p)
        /\ UNCHANGED lbBounds
  /\ UNCHANGED <<rts, edge>>

\* The process and its sandbox are specified and the specification checked.
processSpec(p) == LocalStage(p, "spec", "launch")

runProcess(p) ==
  /\ At(p, "launch")
  /\ edge' = [edge EXCEPT !.runs[pol[p].rt] = @ + 1, !.live = @ \cup {pol[p].rt}]
  /\ Stage(p, "running")
  /\ UNCHANGED <<lbBounds, rts, row>>

LaunchStopped(p, why) ==
  /\ edge' = [edge EXCEPT !.live = @ \ {pol[p].rt}]
  /\ pol' = [pol EXCEPT ![p].at = "ended", ![p].why = why]
  /\ UNCHANGED <<lbBounds, rts, row>>

\* monitorRuntime: the heartbeat stops the process of an ended runtime, the
\* kill switch that of any.
monitorRuntime(p) ==
  /\ At(p, "running")
  /\ \/ edge.killed /\ LaunchStopped(p, "killed")
     \/ /\ rts[pol[p].rt].state \in RtEnded
        /\ LaunchStopped(p, rts[pol[p].rt].state)

\* The exits told apart: a clean one, and all others with their signals.
ExitCodes == {"zero", "error"}

ProcessExits(p, code) ==
  /\ At(p, "running")
  /\ LaunchStopped(p, code)

\* Brokers end, the containers of the run are removed: a fault of these
\* decides before the exit does.
CleanUp(p) == LocalStage(p, "ended", "classify")

\* The classification of the exit: what the heartbeat saw, the kill switch,
\* the exit itself.  Only a clean exit goes on to report its completion.
Classify(p) ==
  /\ At(p, "classify")
  /\ LET r == pol[p].rt IN
       \/ /\ pol[p].why = "cancelled"
          /\ failLocal(r, "cancelled")
          /\ pol' = [pol EXCEPT ![p] = IdlePoller]
       \/ /\ pol[p].why # "cancelled" /\ pol[p].why # "expired" /\ edge.killed
          /\ failLocal(r, "cancelled") /\ Stage(p, "report")
       \/ /\ pol[p].why = "expired" \/ (pol[p].why \notin {"cancelled", "zero"} /\ ~edge.killed)
          /\ failLocal(r, "failed") /\ Stage(p, "report")
       \/ /\ pol[p].why = "zero" /\ ~edge.killed
          /\ Stage(p, "completing")
          /\ UNCHANGED row
  /\ UNCHANGED <<lbBounds, rts, edge>>

\* reportTerminalFailure: best effort, bounded in time.
Report(p) ==
  /\ At(p, "report")
  /\ \/ SetState(pol[p].rt, "failed", Ongoing) /\ UNCHANGED lbBounds
     \/ Unheard /\ UNCHANGED rts
  /\ pol' = [pol EXCEPT ![p] = IdlePoller]
  /\ UNCHANGED <<row, edge>>

\* Completed, and only then the local row; a rejected or unanswered
\* completion leaves a failed row.
LaunchCompleted(p) ==
  /\ At(p, "completing")
  /\ LET r == pol[p].rt IN
       \/ /\ rts[r].state \in Ongoing \cup {"completed"}
          /\ SetState(r, "completed", Ongoing)
          /\ Stage(p, "completed")
          /\ UNCHANGED <<lbBounds, row>>
       \/ /\ Unheard
          /\ SetState(r, "completed", Ongoing) \/ UNCHANGED rts
          /\ failLocal(r, "failed")
          /\ pol' = [pol EXCEPT ![p] = IdlePoller]
       \/ /\ rts[r].state \notin Ongoing \cup {"completed"}
          /\ failLocal(r, "failed")
          /\ pol' = [pol EXCEPT ![p] = IdlePoller]
          /\ UNCHANGED <<lbBounds, rts>>
  /\ UNCHANGED edge

FinishCompleted(p) ==
  /\ At(p, "completed")
  /\ failLocal(pol[p].rt, "completed")
  /\ pol' = [pol EXCEPT ![p] = IdlePoller]
  /\ UNCHANGED <<lbBounds, rts, edge>>

\* The Edge process dies with its pollers and the processes below it; leases
\* were in memory, the journal's rows stay.
EdgeCrash ==
  /\ Has("crashes") /\ Spend("crashes")
  /\ pol' = [p \in Pollers |-> IdlePoller]
  /\ edge' = [edge EXCEPT !.live = {}, !.crashed = TRUE]
  /\ UNCHANGED <<rts, row>>

KillSwitch ==
  /\ Has("kills") /\ Spend("kills")
  /\ edge' = [edge EXCEPT !.killed = ~@]
  /\ UNCHANGED <<rts, row, pol>>

-----------------------------------------------------------------------------
LbInit ==
  /\ lbBounds \in LaunchBounds
  /\ rts = [r \in Runtimes |-> [state |-> "none", due |-> FALSE, lease |-> 0]]
  /\ row = [r \in Runtimes |-> "none"]
  /\ pol = [p \in Pollers |-> IdlePoller]
  /\ edge = [killed |-> FALSE, live |-> {}, runs |-> [r \in Runtimes |-> 0],
             crashed |-> FALSE]

LaunchStep(p) ==
  \/ LeaseAgain(p)
  \/ LeaseFirst(p)
  \/ LeaseNothing(p)
  \/ RefuseLease(p)
  \/ LaunchBegin(p)
  \/ PrepareWorkspace(p)
  \/ verifyLocalInstallation(p)
  \/ Preflight(p)
  \/ Started(p)
  \/ StartBrokers(p)
  \/ StartDriver(p)
  \/ processSpec(p)
  \/ runProcess(p)
  \/ CleanUp(p)
  \/ Classify(p)
  \/ Report(p)
  \/ LaunchCompleted(p)
  \/ FinishCompleted(p)

LbNext ==
  \/ \E p \in Pollers :
       \/ LaunchStep(p)
       \/ monitorRuntime(p)
       \/ RunNext(p)
       \/ \E code \in ExitCodes : ProcessExits(p, code)
  \/ \E r \in Runtimes :
       \/ LaunchStartBoundRuntime(r)
       \/ CancelRequested(r)
       \/ StartupDeadline(r)
       \/ expireRuntimesLocked(r)
  \/ EdgeCrash
  \/ KillSwitch

\* Launchers take their steps, heartbeats go on while a process runs, and
\* every poll of the store expires what is due.  Processes need never exit.
LbFairness ==
  /\ \A p \in Pollers : WF_lbVars(LaunchStep(p)) /\ WF_lbVars(monitorRuntime(p))
  /\ \A r \in 1 .. 2 : WF_lbVars(r \in Runtimes /\ expireRuntimesLocked(r))

LbSpec == LbInit /\ [][LbNext]_lbVars /\ LbFairness

-----------------------------------------------------------------------------
\* Type invariant.
LaunchTypeOK ==
  /\ \A r \in Runtimes : /\ rts[r].state \in {"none"} \cup Ongoing \cup RtEnded
                         /\ rts[r].lease \in Nat /\ rts[r].due \in BOOLEAN
  /\ row \in [Runtimes -> {"none", "completed", "failed", "cancelled"} \cup RowActive]
  /\ edge.live \subseteq Runtimes
  /\ \A p \in Pollers : pol[p].rt \in Runtimes \cup {0}

\* A runtime is launched at most once, by the one poller whose receipt names
\* it, and no two processes share the workspace: leases that are repeated,
\* taken over or interrupted never run a goal twice.
RunsOnceAlone ==
  /\ \A r \in Runtimes : edge.runs[r] <= 1
  /\ \A q, r \in edge.live : q = r
  /\ \A p, q \in Pollers : p # q /\ pol[p].rt = pol[q].rt => pol[p].rt = 0

\* The Edge never holds a run for completed that the control plane does not:
\* a cancelled, expired or failed runtime has no completed row, even when the
\* process ended cleanly while the runtime was being cancelled.
CompletionAgrees ==
  \A r \in Runtimes : row[r] = "completed" => rts[r].state = "completed"

\* Runtime launches: a run is executed once and alone in its workspace, and
\* the two journals agree on how it ended.
LaunchSafe ==
  /\ LaunchTypeOK
  /\ RunsOnceAlone
  /\ CompletionAgrees

\* A process whose runtime has ended at the control plane is stopped.
EndedRuntimeStops ==
  \A r \in 1 .. 2 :
    []<>(r \in Runtimes /\ rts[r].state \in RtEnded => r \notin edge.live)

\* Every run the Edge has begun is closed in its journal once its runtime
\* has ended, and frees the workspace for the next, unless the Edge crashed:
\* a row left behind by a crash is closed by nobody.
BegunRunCloses ==
  \A r \in 1 .. 2 :
    []<>(r \in Runtimes /\ rts[r].state \in RtEnded => edge.crashed \/ row[r] \notin RowActive)

=============================================================================
