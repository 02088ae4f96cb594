--------------------------- MODULE MCCoordination ---------------------------
(***************************************************************************)
(* The coordinator's components for TLC: task groups, provisioning,        *)
(* development requests, the external runner, objectives and the sandbox   *)
(* executor. A behaviour belongs to one component, which `part` names; the *)
(* others rest. The components share no state, so this is their union and  *)
(* not their product. Each has a set of bound records, one for each        *)
(* combination of faults worth meeting together.                           *)
(***************************************************************************)
EXTENDS TaskWorkers, DevBootstrap, DevExecution, DevObjectives,
        SandboxRuns

CONSTANTS
  Parts

VARIABLE part

GroupLife(workers, crashes, lapses, cancels, cleanups, statuses, failures) ==
  [workers |-> workers, crashes |-> crashes, lapses |-> lapses, cancels |-> cancels,
   cleanups |-> cleanups, statuses |-> statuses, failures |-> failures]

\* Task groups: a restart; a restart against a lapse and a cancellation; a
\* cleanup of two workers under a restart; a failing runtime, worktree or
\* cleanup with a status call; a cancellation of two workers against a lapse;
\* a worker whose leases all lapse.
Lives == {GroupLife(1, 1, 0, 0, 0, 0, 0), GroupLife(1, 1, 1, 1, 0, 0, 0), GroupLife(2, 1, 0, 0, 1, 0, 0),
          GroupLife(1, 0, 0, 0, 1, 1, 1), GroupLife(2, 0, 1, 1, 0, 0, 0),
          GroupLife(1, 0, 3, 0, 0, 0, 0)}

Provision(selectors, faults, lapses, fences) ==
  [selectors |-> selectors, faults |-> faults, lapses |-> lapses, fences |-> fences]

\* Provisioning: two selectors, undisturbed and with a fault; one selector with
\* faults, lapses and a second attempt.
Provisions == {Provision(2, 0, 0, 1), Provision(2, 1, 0, 1), Provision(1, 2, 2, 2)}

Asking(crashes, edgeFaults, drift, tools) ==
  [crashes |-> crashes, edgeFaults |-> edgeFaults, drift |-> drift, tools |-> tools]

\* Development requests: an objective without tools; a restart against an edit;
\* two faults of the Edge; a fault against an edit; a restart and a fault.
Askings == {Asking(1, 0, 1, TRUE), Asking(0, 0, 0, FALSE), Asking(0, 2, 0, TRUE), Asking(0, 1, 1, TRUE), Asking(1, 1, 0, TRUE)}

RunnerRun(lapses, crashes, lost, drift, origin) ==
  [lapses |-> lapses, crashes |-> crashes, lost |-> lost, drift |-> drift, source |-> origin]

\* The external runner: sources it may not take; lapses of the coordinator's
\* lease with a restart; lost answers; an edit meanwhile; a private source.
RunnerRuns == {RunnerRun(0, 0, 0, 0, "dirty"), RunnerRun(0, 0, 0, 0, "unfit"),
               RunnerRun(1, 1, 0, 0, "public"), RunnerRun(3, 0, 0, 0, "public"),
               RunnerRun(0, 1, 1, 1, "public"), RunnerRun(1, 0, 0, 0, "private")}

Workcell == [id |-> 1, tier |-> 2, caps |-> {"go"}]
Rebuilt  == [id |-> 1, tier |-> 2, caps |-> {"go", "rust"}]
Toolbox  == [id |-> 2, tier |-> 4, caps |-> {"go", "rust"}]
Root     == [id |-> 3, tier |-> 6, caps |-> {"go", "rust"}]

OneStep == [steps |-> 1, contract |-> 0, req |-> {"go"}, more |-> {"rust"},
            classes |-> {2, 4}, sources |-> {1}, fences |-> 1, revisions |-> 7,
            failures |-> {"capability"}, callers |-> {"plan"}, catalogs |-> {{Workcell}}]
TwoSteps == [OneStep EXCEPT !.steps = 2, !.failures = {"policy", "reconcile", "code"},
                            !.sources = {1, 2}, !.revisions = 8]

\* Objectives: two supervisors while the catalog gains a Toolbox; a changing
\* source against a rebuilt Workcell; two steps; and provisioning from the start.
Objectives == {
  [OneStep EXCEPT !.catalogs = {{Workcell, Root}, {Workcell, Toolbox}},
                  !.callers = Supervisors, !.revisions = 6],
  [OneStep EXCEPT !.catalogs = {{Rebuilt, Root}, {Root}}, !.contract = 1, !.sources = {1, 2},
                  !.failures = {"code", "transient"}, !.revisions = 8],
  TwoSteps,
  [OneStep EXCEPT !.req = {"go", "rust"}, !.fences = 2, !.revisions = 8,
                  !.catalogs = {{Workcell}, {Workcell, Toolbox}}]}

Call(key, digest, dir, profile) == [key |-> key, digest |-> digest, dir |-> dir, profile |-> profile]
SandboxUse(calls, who, layout, faults, cancels, crashes, moves, probes) ==
  [calls |-> calls, who |-> who, layout |-> layout, faults |-> faults, cancels |-> cancels,
   crashes |-> crashes, moves |-> moves, probes |-> probes]
Same == <<Call("k", "d", <<"a">>, "new"), Call("k", "d", <<"a">>, "new"), Call("k", "e", <<"a">>, "new")>>
Deep == <<Call("k", "d", <<"a", "a">>, "new"), Call("j", "d", <<"a", "b">>, "legacy"), Call("j", "e", <<>>, "new")>>
Top  == <<Call("k", "d", <<>>, "new"), Call("j", "d", <<>>, "new"), Call("k", "e", <<>>, "new")>>

\* The sandbox: one key from two callers under a crash, with another digest,
\* with failing steps; nested directories whose links move; three callers.
SandboxUses == {SandboxUse(Same, {1, 2}, "multi", 0, 0, 1, 0, 1), SandboxUse(Same, {1, 3}, "direct", 1, 1, 0, 0, 0),
                SandboxUse(Same, {2}, "direct", 2, 1, 0, 0, 0), SandboxUse(Deep, {1, 2}, "multi", 0, 0, 0, 1, 0),
                SandboxUse(Deep, {1, 3}, "direct", 0, 0, 0, 2, 0), SandboxUse(Top, {1, 2, 3}, "direct", 0, 0, 0, 1, 0)}

coordVars == <<part, taskVars, bootVars, reqVars, rnVars, objVars, sbVars>>

\* One component moves; the others rest in one of their initial states.
Only(p, bounds, rest) == part = p \/ bounds = rest

CoordInit ==
  /\ part \in Parts
  /\ TaskInit /\ Only("workers", taskSpent, GroupLife(1, 1, 0, 0, 0, 0, 0))
  /\ BootInit /\ Only("bootstrap", bootBounds, Provision(2, 0, 0, 1))
  /\ ReqInit /\ Only("requests", reqBounds, Asking(0, 0, 0, FALSE))
  /\ RnInit /\ Only("runner", rnBounds, RunnerRun(0, 0, 0, 0, "unfit"))
  /\ ObjInit /\ Only("objectives", objBounds, TwoSteps)
  /\ SandboxInit /\ Only("sandbox", sbBounds, SandboxUse(Same, {2}, "direct", 2, 1, 0, 0, 0))

CoordNext ==
  \/ /\ part = "workers" /\ TaskNext
     /\ UNCHANGED <<part, bootVars, reqVars, rnVars, objVars, sbVars>>
  \/ /\ part = "bootstrap" /\ BootNext
     /\ UNCHANGED <<part, taskVars, reqVars, rnVars, objVars, sbVars>>
  \/ /\ part = "requests" /\ ReqNext
     /\ UNCHANGED <<part, taskVars, bootVars, rnVars, objVars, sbVars>>
  \/ /\ part = "runner" /\ RnNext
     /\ UNCHANGED <<part, taskVars, bootVars, reqVars, objVars, sbVars>>
  \/ /\ part = "objectives" /\ ObjNext
     /\ UNCHANGED <<part, taskVars, bootVars, reqVars, rnVars, sbVars>>
  \/ /\ part = "sandbox" /\ SandboxNext
     /\ UNCHANGED <<part, taskVars, bootVars, reqVars, rnVars, objVars>>

CoordSpec ==
  /\ CoordInit /\ [][CoordNext]_coordVars
  /\ WF_taskVars(part = "workers" /\ CoordinatorStep)
  /\ WF_taskVars(part = "workers" /\ EdgeStep)
  /\ WF_taskVars(part = "workers" /\ RuntimeEnds)
  /\ WF_taskVars(part = "workers" /\ LeaseExpires)
  /\ WF_bootVars(part = "bootstrap" /\ RoundsContinue)
  /\ \A s \in 1 .. 2 : WF_bootVars(part = "bootstrap" /\ s \in BootSelectors /\ EdgeWorks(s))
  /\ \A s \in 1 .. 2 : WF_bootVars(part = "bootstrap" /\ s \in BootSelectors /\ InstallerEnds(s))
  /\ WF_reqVars(part = "requests" /\ RequestCoordinatorStep)
  /\ WF_reqVars(part = "requests" /\ RequestEdgeStep)
  /\ WF_reqVars(part = "requests" /\ ProcessEnds)
  /\ WF_rnVars(part = "runner" /\ RunnerRound)
  /\ \A e \in Effects : WF_rnVars(part = "runner" /\ RunEnds(e))
  /\ WF_rnVars(part = "runner" /\ EdgeInspectsAgain)
  /\ \A c \in SandboxCalls : SF_sbVars(part = "sandbox" /\ SandboxServe(c))
  /\ \A k \in SandboxKeys : WF_sbVars(part = "sandbox" /\ ContainerExits(k))

\* WorkersSettle, when the task groups move.
GroupsSettle == <>[](part = "workers") => WorkersSettle

\* RunnerSettles, when the runner moves.
RunnersSettle == <>[](part = "runner") => RunnerSettles

\* Task groups, through restarts, lapsed leases and late claims: one worktree,
\* operation and runtime for a worker, a settled worker owns its worktree,
\* success was run, and a cleanup marker is true.
TaskGroupsSafe ==
  /\ part = "workers" => /\ TaskTypeOK /\ OneOfEach /\ SettledOwnsWorktree /\ SucceededRan
                         /\ CleanedIsRemoved

\* Provisioning: the runner is installed once, and both success and
\* cancellation are reported only with proof of them.
ProvisioningSafe ==
  /\ part = "bootstrap" => /\ BootTypeOK /\ InstalledOnce /\ SuccessProven /\ CancelProven

\* Development requests, through operations of an Edge or a hosted runner:
\* work is posted once, acceptance is earned by the source that was tested,
\* and a cancelled request is at rest.
ExecutionSafe ==
  /\ part = "requests" => /\ ReqTypeOK /\ CancelledAtRest /\ AcceptanceEarned
  /\ part = "runner" => /\ RunnerTypeOK /\ PostedOnce /\ RunnerCancelledAtRest /\ RunnerAcceptanceEarned

\* The sandbox executor: one run for a key, with the digest and in the
\* directory that was asked for, and no container is left behind.
SandboxSafe ==
  /\ part = "sandbox" => /\ KeyRunsOnce /\ CompletedAsAsked /\ RunsWhereAsked /\ NoContainerLeft

=============================================================================
