-------------------------- MODULE FrontDoorRollout --------------------------
(***************************************************************************)
(* The two durable journals of the coordinator beside the front door: the  *)
(* move of the public origin, and the catalog-aware rollout of the         *)
(* backend. Each part has its own variables and its own specification.     *)
(***************************************************************************)
EXTENDS Naturals, FiniteSets

-----------------------------------------------------------------------------
(***************************************************************************)
(* The private coordinator that moves the public origin between the backend *)
(* and the stable front door (internal/frontdoorcoordinator, its process in *)
(* cmd/mcp-front-door-coordinator) and the platform tools that dispatch it  *)
(* (internal/tools/front_door_coordinator_*.go).                            *)
(*                                                                         *)
(* A topology is what the hosting platform has for the two applications:    *)
(* the front door's domain and upstream and the backend's set of domains.   *)
(* site.conf is the configuration (what Topology() reads), site.run what    *)
(* the running containers serve: a patch changes the first, a finished      *)
(* deployment copies an application's part into the second.  The journal    *)
(* fjr is durable; fpub is the status published in the coordinator's        *)
(* application description; fenv the coordinator's environment.             *)
(***************************************************************************)

CONSTANT MoveBounds  \* records [start, after, requests, reconciles, faults, crashes, edits, budget]

VARIABLES fmBounds, \* what is left of the bounds of this behaviour
          moveSite,     \* [conf, run, pend, bad, edited]: the applications as configured and as deployed
          fjr,      \* the durable journal
          fpub,     \* the published status
          fenv,     \* the coordinator's environment
          fplan,    \* the operator's transition plan
          fw        \* the coordinator process

fmVars == <<fmBounds, moveSite, fjr, fpub, fenv, fplan, fw>>

Apps == {"front", "backend"}
Topo(front, fb, bd) == [front |-> front, fb |-> fb, bd |-> bd]
Both == {"public", "backend"}

\* The closed path of topologies between the direct backend and the stable front door.
Direct == Topo("temp", "public", {"public"})
Added == Topo("temp", "public", Both)
Switched == Topo("temp", "backend", Both)
MoveReleased == Topo("temp", "backend", {"backend"})
Fronted == Topo("public", "backend", {"backend"})
Path == {Direct, Added, Switched, MoveReleased, Fronted}

\* The next phase towards a target, from the configured topology alone.
NextPhase(target, t) ==
  CASE target = "cutover" /\ t = Fronted -> "complete"
    [] target = "cutover" /\ t = Direct -> "add-backend-origin"
    [] target = "cutover" /\ t = Added -> "switch-front-backend"
    [] target = "cutover" /\ t = Switched -> "release-public-backend"
    [] target = "cutover" /\ t = MoveReleased -> "assign-public-front"
    [] target = "rollback" /\ t = Direct -> "complete"
    [] target = "rollback" /\ t = Fronted -> "move-front-temporary"
    [] target = "rollback" /\ t = MoveReleased -> "restore-public-backend"
    [] target = "rollback" /\ t = Switched -> "switch-front-public-backend"
    [] target = "rollback" /\ t = Added -> "remove-alternate-backend"
    [] OTHER -> "invalid"

\* What a phase configures, on which application, and the origin it probes.
BackendDomains(bd, origin) == [app |-> "backend", bd |-> bd, front |-> "", fb |-> "", origin |-> origin]
FrontConfig(front, fb) == [app |-> "front", bd |-> {}, front |-> front, fb |-> fb, origin |-> front]
execute(phase) ==
  CASE phase = "add-backend-origin" -> BackendDomains(Both, "backend")
    [] phase = "switch-front-backend" -> FrontConfig("temp", "backend")
    [] phase = "release-public-backend" -> BackendDomains({"backend"}, "backend")
    [] phase = "assign-public-front" -> FrontConfig("public", "backend")
    [] phase = "move-front-temporary" -> FrontConfig("temp", "backend")
    [] phase = "restore-public-backend" -> BackendDomains(Both, "public")
    [] phase = "switch-front-public-backend" -> FrontConfig("temp", "public")
    [] phase = "remove-alternate-backend" -> BackendDomains({"public"}, "public")

\* The phase recorded after a phase succeeded.
PhaseAfter(phase) ==
  CASE phase = "add-backend-origin" -> "switch-front-backend"
    [] phase = "switch-front-backend" -> "release-public-backend"
    [] phase = "release-public-backend" -> "assign-public-front"
    [] phase = "move-front-temporary" -> "restore-public-backend"
    [] phase = "restore-public-backend" -> "switch-front-public-backend"
    [] phase = "switch-front-public-backend" -> "remove-alternate-backend"
    [] OTHER -> "complete"

oppositeTarget(target) == IF target = "cutover" THEN "rollback" ELSE "cutover"

\* SetBackendDomains and ConfigureFront write one field that differs from the
\* configuration before them, so a prefix of their writes changes all or nothing.
SetBackendDomains(conf, bd) == [conf EXCEPT !.bd = bd]
ConfigureFront(conf, front, fb) == [conf EXCEPT !.front = front, !.fb = fb]
Patched(conf, e) ==
  IF e.app = "backend" THEN SetBackendDomains(conf, e.bd) ELSE ConfigureFront(conf, e.front, e.fb)

\* An application's running part becomes its configured part.
Deployed(run, conf, app) ==
  IF app = "backend" THEN [run EXCEPT !.bd = conf.bd] ELSE [run EXCEPT !.front = conf.front, !.fb = conf.fb]

-----------------------------------------------------------------------------
MoveActive(state) == state \in {"queued", "running", "compensating"}
NoPub == [id |-> 0, target |-> "idle", state |-> "none"]
NoPlan == [st |-> "none", id |-> 0, target |-> "idle", conf |-> Direct, stale |-> FALSE]
Down == [pc |-> "down", nxt |-> "down", id |-> 0, target |-> "idle", phase |-> "", att |-> 0, whole |-> FALSE]
Starting == [Down EXCEPT !.pc = "starting"]
IdleJournal == [id |-> 0, target |-> "idle", rec |-> "", state |-> "idle", phase |-> "", reason |-> ""]

\* What Advance accepts: the shape of a status in each state.
validateStatus(s) ==
  \/ s = IdleJournal
  \/ /\ s.id > 0 /\ s.target \in {"cutover", "rollback"}
     /\ \/ s.state = "queued" /\ s.rec = "" /\ s.phase = "" /\ s.reason = ""
        \/ s.state = "running" /\ s.rec = "" /\ s.phase # "" /\ s.reason = ""
        \/ s.state = "compensating" /\ s.rec = oppositeTarget(s.target) /\ s.phase # "" /\ s.reason # ""
        \/ s.state = "succeeded" /\ s.rec = "" /\ s.phase = "complete" /\ s.reason = ""
        \/ s.state = "failed" /\ s.reason # "" /\ s.rec \in {"", oppositeTarget(s.target)}
                              /\ (s.rec # "" => s.phase # "")

MoveInit ==
  /\ fmBounds \in MoveBounds
  /\ LET t == IF fmBounds.start = "direct" THEN Direct ELSE Fronted IN
     moveSite = [conf |-> t, run |-> t, pend |-> {}, bad |-> {}, edited |-> FALSE]
  /\ fjr = IdleJournal
  /\ fpub = NoPub
  /\ fenv = [id |-> 0, target |-> "idle", catalog |-> fmBounds.after]
  /\ fplan = NoPlan
  /\ fw = [Down EXCEPT !.pc = "idle"]

Fault == fmBounds.faults > 0 /\ fmBounds' = [fmBounds EXCEPT !.faults = @ - 1]
NoFault == UNCHANGED fmBounds

-----------------------------------------------------------------------------
(* The platform tools. *)

\* verifyManagedFrontDoorCoordinatorRuntime: the three applications are healthy with a
\* finished latest deployment, and the worker's environment is the published request.
RuntimeVerified ==
  /\ fw.pc \notin {"down", "starting", "unready", "stalled"}
  /\ moveSite.pend = {} /\ moveSite.bad = {}
  /\ fpub.target = fenv.target /\ fpub.id = fenv.id

\* platform_front_door_transition_preview, when its disposition is "dispatch".
PreviewTransition(t) ==
  /\ fmBounds.requests > 0 /\ fplan.st = "none"
  /\ RuntimeVerified
  /\ NextPhase(t, moveSite.conf) \notin {"invalid", "complete"}
  /\ ~MoveActive(fpub.state)
  /\ fmBounds' = [fmBounds EXCEPT !.requests = @ - 1]
  /\ fplan' = [st |-> "previewed", id |-> fmBounds.requests, target |-> t, conf |-> moveSite.conf, stale |-> FALSE]
  /\ UNCHANGED <<moveSite, fjr, fpub, fenv, fw>>

\* platform_front_door_transition consumes the plan, checks that nothing it saw has
\* changed and writes the request id ...
DispatchRequest ==
  /\ fplan.st = "previewed"
  /\ \/ /\ RuntimeVerified /\ ~fplan.stale /\ fplan.conf = moveSite.conf
        /\ fenv' = [fenv EXCEPT !.id = fplan.id]
        /\ fplan' = [fplan EXCEPT !.st = "id"]
     \/ /\ ~(RuntimeVerified /\ ~fplan.stale /\ fplan.conf = moveSite.conf)
        /\ fplan' = NoPlan /\ UNCHANGED fenv
  /\ UNCHANGED <<fmBounds, moveSite, fjr, fpub, fw>>

\* ... then the target ...
DispatchTarget ==
  /\ fplan.st = "id"
  /\ \/ /\ fenv' = [fenv EXCEPT !.target = fplan.target]
        /\ fplan' = [fplan EXCEPT !.st = "target"] /\ NoFault
     \/ Fault /\ fplan' = NoPlan /\ UNCHANGED fenv
  /\ UNCHANGED <<moveSite, fjr, fpub, fw>>

\* ... and deploys the coordinator, whose old container is replaced.
DispatchDeploy ==
  /\ fplan.st = "target"
  /\ fplan' = NoPlan
  /\ \/ fw' = Starting /\ NoFault
     \/ Fault /\ UNCHANGED fw
  /\ UNCHANGED <<moveSite, fjr, fpub, fenv>>

\* platform_front_door_coordinator_create on the existing application restores the
\* environment from the published status (the id only when there is one) and deploys.
ReconcileCoordinator ==
  /\ fmBounds.reconciles > 0 /\ fplan.st = "none"
  /\ fmBounds' = [fmBounds EXCEPT !.reconciles = @ - 1]
  /\ fenv' = [fenv EXCEPT !.target = fpub.target, !.id = IF fpub.id # 0 THEN fpub.id ELSE @]
  /\ fw' = Starting
  /\ UNCHANGED <<moveSite, fjr, fpub, fplan>>

-----------------------------------------------------------------------------
(* The coordinator process. *)

\* An active request in the journal outlives the environment that dispatched it.
resumeActiveCoordinatorRequest(j, env) ==
  IF MoveActive(j.state) THEN [id |-> j.id, target |-> j.target] ELSE [id |-> env.id, target |-> env.target]

\* A worker started with a catalog rollout request in its environment runs that instead,
\* and refuses to start when a topology request is there too.
CatalogRefuses == fenv.catalog /\ (fenv.target # "idle" \/ fenv.id # 0)

\* initializeCoordinator: the request to drive, and a first reading of the topology.
Initialize ==
  /\ fw.pc = "starting" /\ ~fenv.catalog
  /\ LET q == resumeActiveCoordinatorRequest(fjr, fenv) IN
     \/ /\ NextPhase("cutover", moveSite.conf) # "invalid"
        /\ fw' = [fw EXCEPT !.pc = IF q.target = "idle" THEN "idle" ELSE "gate",
                            !.id = q.id, !.target = q.target]
        /\ NoFault
     \/ /\ IF NextPhase("cutover", moveSite.conf) = "invalid" THEN NoFault ELSE Fault
        /\ fw' = [fw EXCEPT !.pc = "unready"]
  /\ UNCHANGED <<moveSite, fjr, fpub, fenv, fplan>>

InitializeCatalog ==
  /\ fw.pc = "starting" /\ fenv.catalog
  /\ fw' = [fw EXCEPT !.pc = IF CatalogRefuses THEN "unready" ELSE "idle"]
  /\ UNCHANGED <<fmBounds, moveSite, fjr, fpub, fenv, fplan>>

\* The worker reports ready and lets the rollout of its own container finish first.
TransitionStarts ==
  /\ fw.pc = "gate"
  /\ fw' = [fw EXCEPT !.pc = "enter"]
  /\ UNCHANGED <<fmBounds, moveSite, fjr, fpub, fenv, fplan>>

\* The journal's one row is replaced in one write.
Advance(status) == fjr' = status

\* persist: the journal advances, then the status is published.
persist(status, w, nxt) ==
  /\ Advance(status)
  /\ fw' = [w EXCEPT !.pc = "publish", !.nxt = nxt]

MoveRunning(phase) == [fjr EXCEPT !.state = "running", !.phase = phase]
Compensating(phase) == [fjr EXCEPT !.phase = phase]

\* Run: the same request resumes, or only republishes its end; a new one is queued,
\* unless a different one is active.
Enter ==
  /\ fw.pc = "enter"
  /\ \/ /\ fjr.id = fw.id /\ MoveActive(fjr.state)
        /\ fw' = [fw EXCEPT !.pc = "read"] /\ UNCHANGED fjr
     \/ /\ fjr.id = fw.id /\ ~MoveActive(fjr.state)
        /\ persist(fjr, fw, "idle")
     \/ /\ fjr.id # fw.id /\ ~MoveActive(fjr.state)
        /\ persist([IdleJournal EXCEPT !.id = fw.id, !.target = fw.target, !.state = "queued"],
                   [fw EXCEPT !.whole = moveSite.run = moveSite.conf], "read")
  /\ UNCHANGED <<fmBounds, moveSite, fpub, fenv, fplan>>

\* runCoordinatorTransition: the process stays up, not ready, and the run is over.
Stalled == [fw EXCEPT !.pc = "stalled"]

\* publishStatus succeeds within its attempts, or ends the run with the journal as it is.
PublishStatus ==
  /\ fw.pc = "publish"
  /\ \/ /\ fpub' = [id |-> fjr.id, target |-> fjr.target, state |-> fjr.state]
        /\ fplan' = [fplan EXCEPT !.stale = fplan.st # "none"]
        /\ fw' = [fw EXCEPT !.pc = fw.nxt] /\ NoFault
     \/ Fault /\ fw' = Stalled /\ UNCHANGED <<fpub, fplan>>
  /\ UNCHANGED <<moveSite, fjr, fenv>>

Undoing == fjr.state = "compensating"
Heading == IF Undoing THEN fjr.rec ELSE fjr.target

\* compensate: the failed request is driven to the opposite target from here on.
compensate ==
  persist([fjr EXCEPT !.state = "compensating", !.rec = oppositeTarget(fjr.target), !.reason = "cause"],
          [fw EXCEPT !.att = 0], "read")
fail == persist([fjr EXCEPT !.state = "failed", !.reason = "plain"], fw, "idle")
compensationFailed == persist([fjr EXCEPT !.state = "failed", !.reason = "unrestored"], fw, "idle")

\* The end of a loop that cannot go on: topology invalid, or the budget exhausted.
MoveGiveUp == IF Undoing THEN compensationFailed ELSE IF fjr.phase = "" THEN fail ELSE compensate

\* One turn of the loop of Run or runCompensation up to the effect of a phase.
NextTurn ==
  /\ fw.pc = "read"
  /\ LET phase == NextPhase(Heading, moveSite.conf) IN
     \/ fw.att >= fmBounds.budget /\ MoveGiveUp /\ NoFault
     \/ /\ fw.att < fmBounds.budget /\ Fault \* the topology could not be read
        /\ fw' = [fw EXCEPT !.att = @ + 1] /\ UNCHANGED fjr
     \/ fw.att < fmBounds.budget /\ phase = "invalid" /\ MoveGiveUp /\ NoFault
     \/ /\ fw.att < fmBounds.budget /\ phase = "complete" /\ NoFault
        /\ persist(IF Undoing THEN [fjr EXCEPT !.state = "failed", !.phase = "complete", !.reason = "compensated"]
                              ELSE [fjr EXCEPT !.state = "succeeded", !.phase = "complete"], fw, "idle")
     \/ /\ fw.att < fmBounds.budget /\ phase \notin {"invalid", "complete"} /\ NoFault
        /\ persist(IF Undoing THEN Compensating(phase) ELSE MoveRunning(phase), [fw EXCEPT !.phase = phase], "patch")
  /\ UNCHANGED <<moveSite, fpub, fenv, fplan>>

\* An effect failed: the transition turns to compensation; a compensation observes the
\* topology, records it when it can, and tries again.
EffectFailed ==
  \/ ~Undoing /\ compensate
  \/ Undoing /\ persist(Compensating(fw.phase), [fw EXCEPT !.att = @ + 1], "read")
  \/ Undoing /\ fw' = [fw EXCEPT !.pc = "read", !.att = @ + 1] /\ UNCHANGED fjr

\* The configuration is written; a failed write may or may not have been applied.
PatchConfiguration ==
  /\ fw.pc = "patch"
  /\ \/ /\ moveSite' = [moveSite EXCEPT !.conf = Patched(@, execute(fw.phase))]
        /\ fw' = [fw EXCEPT !.pc = "deploy"] /\ UNCHANGED fjr /\ NoFault
     \/ Fault /\ EffectFailed /\ (UNCHANGED moveSite \/ moveSite' = [moveSite EXCEPT !.conf = Patched(@, execute(fw.phase))])
  /\ UNCHANGED <<fpub, fenv, fplan>>

\* deployAndWait requests the deployment ...
StartDeployment ==
  /\ fw.pc = "deploy"
  /\ LET app == execute(fw.phase).app IN
     \/ /\ moveSite' = [moveSite EXCEPT !.pend = @ \cup {app}, !.bad = @ \ {app}]
        /\ fw' = [fw EXCEPT !.pc = "wait"] /\ UNCHANGED fjr /\ NoFault
     \/ Fault /\ EffectFailed /\ (UNCHANGED moveSite \/ moveSite' = [moveSite EXCEPT !.pend = @ \cup {app}, !.bad = @ \ {app}])
  /\ UNCHANGED <<fpub, fenv, fplan>>

\* ... and polls it: finished, failed, or not terminal within the time allowed.
AwaitDeployment ==
  /\ fw.pc = "wait"
  /\ LET app == execute(fw.phase).app IN
     \/ app \notin moveSite.pend \cup moveSite.bad /\ fw' = [fw EXCEPT !.pc = "probe"] /\ UNCHANGED fjr /\ NoFault
     \/ app \in moveSite.bad /\ EffectFailed /\ NoFault
     \/ app \in moveSite.pend /\ Fault /\ EffectFailed
  /\ UNCHANGED <<moveSite, fpub, fenv, fplan>>

\* Whether a probe of the phase's origin can and must find what it looks for: two running
\* applications on one origin leave it to the proxy which of them answers.
ProbeCan(e) ==
  IF e.app = "backend" THEN e.origin \in moveSite.run.bd
                       ELSE moveSite.run.front = e.origin /\ moveSite.run.fb \in moveSite.run.bd
ProbeMust(e) ==
  ProbeCan(e) /\ ~(moveSite.run.front \in moveSite.run.bd)

probe ==
  /\ fw.pc = "probe"
  /\ LET e == execute(fw.phase) IN
     \/ ProbeCan(e) /\ fw' = [fw EXCEPT !.pc = "reread"] /\ UNCHANGED fjr /\ NoFault
     \/ (IF ProbeMust(e) THEN Fault ELSE NoFault) /\ EffectFailed
  /\ UNCHANGED <<moveSite, fpub, fenv, fplan>>

\* After the effect the topology is read again and the phase reached is recorded.
RecordPhase ==
  /\ fw.pc = "reread"
  /\ LET next == PhaseAfter(fw.phase) IN
     \/ /\ NoFault
        /\ persist(IF Undoing THEN Compensating(next) ELSE MoveRunning(next), [fw EXCEPT !.att = @ + 1], "read")
     \/ Fault /\ ~Undoing /\ compensate
     \/ Fault /\ Undoing /\ fw' = [fw EXCEPT !.pc = "read", !.att = @ + 1] /\ UNCHANGED fjr
  /\ UNCHANGED <<moveSite, fpub, fenv, fplan>>

\* The journal cannot be read or written: the run is over.
JournalUnavailable ==
  /\ fw.pc \in {"enter", "read", "reread"} /\ Fault
  /\ fw' = Stalled
  /\ UNCHANGED <<moveSite, fjr, fpub, fenv, fplan>>

\* A worker dies or is stopped anywhere; the platform starts it again.
CoordinatorCrash ==
  /\ fmBounds.crashes > 0 /\ fw.pc # "down"
  /\ fmBounds' = [fmBounds EXCEPT !.crashes = @ - 1]
  /\ fw' = Down
  /\ UNCHANGED <<moveSite, fjr, fpub, fenv, fplan>>
CoordinatorRestart ==
  /\ fw.pc = "down" /\ fw' = Starting
  /\ UNCHANGED <<fmBounds, moveSite, fjr, fpub, fenv, fplan>>

-----------------------------------------------------------------------------
(* The hosting platform. *)

FinishDeployment(app) ==
  /\ app \in moveSite.pend
  /\ moveSite' = [moveSite EXCEPT !.run = Deployed(@, moveSite.conf, app), !.pend = @ \ {app}, !.bad = @ \ {app}]
  /\ UNCHANGED <<fmBounds, fjr, fpub, fenv, fplan, fw>>
FailDeployment(app) ==
  /\ app \in moveSite.pend /\ Fault
  /\ moveSite' = [moveSite EXCEPT !.pend = @ \ {app}, !.bad = @ \cup {app}]
  /\ UNCHANGED <<fjr, fpub, fenv, fplan, fw>>
\* Somebody edits the backend's domains by hand.
EditDomains ==
  /\ fmBounds.edits > 0 /\ moveSite.conf \in {Direct, Added}
  /\ fmBounds' = [fmBounds EXCEPT !.edits = @ - 1]
  /\ moveSite' = [moveSite EXCEPT !.conf.bd = {"backend"}, !.edited = TRUE]
  /\ UNCHANGED <<fjr, fpub, fenv, fplan, fw>>

MoveWorkerStep ==
  \/ Initialize \/ InitializeCatalog \/ TransitionStarts \/ Enter \/ PublishStatus \/ NextTurn
  \/ PatchConfiguration \/ StartDeployment \/ AwaitDeployment \/ probe \/ RecordPhase

MoveNext ==
  \/ \E t \in {"cutover", "rollback"} : PreviewTransition(t)
  \/ DispatchRequest \/ DispatchTarget \/ DispatchDeploy \/ ReconcileCoordinator
  \/ Initialize \/ InitializeCatalog \/ TransitionStarts \/ Enter \/ PublishStatus \/ NextTurn
  \/ PatchConfiguration \/ StartDeployment \/ AwaitDeployment \/ probe \/ RecordPhase
  \/ JournalUnavailable \/ CoordinatorCrash \/ CoordinatorRestart
  \/ \E app \in Apps : FinishDeployment(app) \/ FailDeployment(app)
  \/ EditDomains

MoveFairness ==
  /\ WF_fmVars(MoveWorkerStep)
  /\ WF_fmVars(CoordinatorRestart)
  /\ \A app \in Apps : WF_fmVars(FinishDeployment(app))
  /\ WF_fmVars(DispatchRequest \/ DispatchTarget \/ DispatchDeploy)

MoveSpec == MoveInit /\ [][MoveNext]_fmVars /\ MoveFairness

-----------------------------------------------------------------------------
\* Every status the worker writes is one the journal accepts (validateStatus), and the
\* process, the platform and the environment have their shapes.
MoveTypeOK ==
  /\ validateStatus(fjr)
  /\ moveSite.pend \subseteq Apps /\ moveSite.bad \subseteq Apps
  /\ fw.att \in 0 .. fmBounds.budget
  /\ fenv.target \in {"idle", "cutover", "rollback"}

\* The front door never fronts itself, and it never holds the public origin together with
\* the backend: through restarts, failed phases and compensations the configuration stays
\* on the closed path, unless somebody edited the domains by hand.
OriginsApart ==
  /\ moveSite.conf.front # moveSite.conf.fb
  /\ ~(moveSite.conf.front \in moveSite.conf.bd)
  /\ moveSite.run.front # moveSite.run.fb
  /\ (moveSite.conf \in Path \/ moveSite.edited)

\* A request that one process drove to its success, from a queueing at which what ran was
\* what was configured, left both running applications in the target topology.
WholeRunServed ==
  fw.whole /\ fjr.state = "succeeded" /\ fjr.id = fw.id /\ ~moveSite.edited
    => moveSite.run = (IF fjr.target = "cutover" THEN Fronted ELSE Direct)

\* The journal only moves forward: an active request is not replaced by another one, a
\* request being compensated never becomes a success, and an ended one stays ended.
JournalForward ==
  [][/\ MoveActive(fjr.state) => fjr'.id = fjr.id
     /\ fjr'.id = fjr.id =>
          /\ fjr.state = "compensating" => fjr'.state \in {"compensating", "failed"}
          /\ fjr.state \in {"succeeded", "failed"} => fjr' = fjr]_fmVars

\* An active request comes to an end whatever phase fails and whenever the worker is
\* replaced, unless a worker stands still with its failure shown (not ready, stalled).
ActiveRequestEnds ==
  []<>(~MoveActive(fjr.state) \/ fw.pc \in {"stalled", "unready"})

-----------------------------------------------------------------------------
(***************************************************************************)
(* The catalog-aware rollout of the managed backend: the durable runner     *)
(* (internal/catalogrollout), the hosting platform as it drives it          *)
(* (internal/frontdoorcoordinator/catalog_rollout.go), its process          *)
(* (cmd/mcp-front-door-coordinator/catalog_runtime.go) and the tool that    *)
(* dispatches it (internal/tools/managed_backend_rollout.go).               *)
(*                                                                         *)
(* A backend identity is a number, Hash gives its catalog.  An application  *)
(* has a configuration and what runs: a finished deployment copies the      *)
(* first into the second.  Observe reads the front door's configured        *)
(* contract and the backend that runs.                                      *)
(***************************************************************************)

CONSTANT CatBounds  \* records [changed, requests, heads, faults, disk, crashes]

VARIABLES crBounds, \* what is left of the bounds of this behaviour
          cfr,      \* front door application: [conf, run, pend, bad], contracts [p, t]
          cbk,      \* backend application: [branch, pin, run, pend, bad], and the branches [head, rb]
          cj,       \* the durable journal [req, prev, cand, state, phase, reason]
          cpub,     \* the published status [req, state]
          cenv,     \* the request in the coordinator's environment
          cplan,    \* the operator's plan
          cp,       \* the coordinator process
          chist     \* deployments of a request's candidate so far, per request

crVars == <<crBounds, cfr, cbk, cj, cpub, cenv, cplan, cp, chist>>

CatalogStopped == 9                 \* no backend runs
Hash(c) == IF crBounds.changed THEN c ELSE 0
NoHash == 8
Contract(p, t) == [p |-> p, t |-> t]
CatalogAdmits(contract, c) == Hash(c) \in {contract.p, contract.t} \ {NoHash}

NoRequest == [id |-> 0, prev |-> 0, cand |-> 0]
NoCatPlan == [st |-> "none", prev |-> 0, cand |-> 0, rb |-> 0]
ProcessDown == [pc |-> "down", q |-> NoRequest, job |-> "", reason |-> "", blank |-> FALSE]
CatIdle == [req |-> 0, prev |-> 0, cand |-> 0, state |-> "idle", phase |-> "", reason |-> ""]
CatActive(state) == state \in {"queued", "running", "compensating"}

\* A status is readable when it is idle or has a valid request.
StatusReadable(status) == status.state = "idle" \/ status.req > 0

CatInit ==
  /\ crBounds \in CatBounds
  /\ cfr = [conf |-> Contract(0, NoHash), run |-> Contract(0, NoHash), pend |-> FALSE, bad |-> FALSE]
  /\ cbk = [branch |-> "main", pin |-> 0, run |-> 0, pend |-> CatalogStopped, bad |-> FALSE, head |-> 1, rb |-> 0]
  /\ cj = CatIdle
  /\ cpub = [req |-> 0, state |-> "none"]
  /\ cenv = NoRequest
  /\ cplan = NoCatPlan
  /\ cp = [ProcessDown EXCEPT !.pc = "idle"]
  /\ chist = <<0, 0>>

CatFault == crBounds.faults > 0 /\ crBounds' = [crBounds EXCEPT !.faults = @ - 1]
DiskFault == crBounds.disk > 0 /\ crBounds' = [crBounds EXCEPT !.disk = @ - 1]
NoCatFault == UNCHANGED crBounds

-----------------------------------------------------------------------------
(* The deployment tool. *)

\* managedBackendRolloutIdentity: the running backend is reachable through the front door
\* and no rollout is published as active.
RolloutIdentity ==
  /\ cbk.branch = "main" /\ cbk.run # CatalogStopped
  /\ CatalogAdmits(cfr.run, cbk.run)
  /\ cbk.rb <= cbk.run
  /\ ~CatActive(cpub.state)

PreviewRollout ==
  /\ crBounds.requests > 0 /\ cplan.st = "none" /\ RolloutIdentity
  /\ crBounds' = [crBounds EXCEPT !.requests = @ - 1]
  /\ cplan' = [st |-> "previewed", prev |-> cbk.run, cand |-> cbk.head, rb |-> cbk.rb]
  /\ UNCHANGED <<cfr, cbk, cj, cpub, cenv, cp, chist>>

\* executeManagedBackendRollout re-reads the identity and moves the rollback branch ...
DispatchRollout ==
  /\ cplan.st = "previewed"
  /\ LET same == RolloutIdentity /\ cbk.run = cplan.prev /\ cbk.head = cplan.cand /\ cbk.rb = cplan.rb IN
     \/ same /\ cbk' = [cbk EXCEPT !.rb = cplan.prev] /\ cplan' = [cplan EXCEPT !.st = "pin"]
     \/ ~same /\ cplan' = NoCatPlan /\ UNCHANGED cbk
  /\ UNCHANGED <<crBounds, cfr, cj, cpub, cenv, cp, chist>>

\* ... pins the backend to what runs ...
DispatchPin ==
  /\ cplan.st = "pin"
  /\ \/ cbk' = [cbk EXCEPT !.pin = cplan.prev] /\ cplan' = [cplan EXCEPT !.st = "env"] /\ NoCatFault
     \/ CatFault /\ cplan' = NoCatPlan /\ UNCHANGED cbk
  /\ UNCHANGED <<cfr, cj, cpub, cenv, cp, chist>>

\* ... writes the request into the coordinator's environment ...
DispatchEnvironment ==
  /\ cplan.st = "env"
  /\ cenv' = [id |-> cenv.id + 1, prev |-> cplan.prev, cand |-> cplan.cand]
  /\ cplan' = [cplan EXCEPT !.st = "deploy"]
  /\ UNCHANGED <<crBounds, cfr, cbk, cj, cpub, cp, chist>>

\* ... and deploys the coordinator.
DispatchCoordinator ==
  /\ cplan.st = "deploy" /\ cplan' = NoCatPlan
  /\ \/ cp' = [ProcessDown EXCEPT !.pc = "starting"] /\ NoCatFault
     \/ CatFault /\ UNCHANGED cp
  /\ UNCHANGED <<cfr, cbk, cj, cpub, cenv, chist>>

-----------------------------------------------------------------------------
(* The runner. *)

\* serveCatalogCoordinator opens the journal; the rollout starts after the container's own
\* replacement has settled.
ServeCatalog ==
  /\ cp.pc = "starting"
  /\ cp' = [cp EXCEPT !.pc = IF cenv.id = 0 THEN "idle" ELSE IF StatusReadable(cj) THEN "gate" ELSE "unready",
                      !.q = cenv]
  /\ UNCHANGED <<crBounds, cfr, cbk, cj, cpub, cenv, cplan, chist>>
RolloutStarts ==
  /\ cp.pc = "gate" /\ cp' = [cp EXCEPT !.pc = "enter"]
  /\ UNCHANGED <<crBounds, cfr, cbk, cj, cpub, cenv, cplan, chist>>

Status(state, phase, reason) ==
  [req |-> cp.q.id, prev |-> cp.q.prev, cand |-> cp.q.cand, state |-> state, phase |-> phase, reason |-> reason]

\* The journal file is replaced by one rename.
CatAdvance(status) == cj' = status

\* persist: the journal advances, then the status is published.  A caller that checks ends
\* the run on either failure; one that does not goes on, after a failed write with an
\* empty status in its hands.
CatPersist(status, checked, w) ==
  \/ /\ status.req > 0 /\ CatAdvance(status) /\ NoCatFault
     /\ cpub' = [req |-> status.req, state |-> status.state] /\ cp' = [w EXCEPT !.blank = FALSE]
  \/ CatAdvance(status) /\ UNCHANGED cpub /\ (IF status.req > 0 THEN CatFault ELSE NoCatFault)
     /\ cp' = IF checked THEN [cp EXCEPT !.pc = "stalled"] ELSE [w EXCEPT !.blank = FALSE]
  \/ UNCHANGED <<cj, cpub>> /\ DiskFault
     /\ cp' = IF checked THEN [cp EXCEPT !.pc = "stalled"] ELSE [w EXCEPT !.blank = TRUE]

CatalogAt(pc) == [cp EXCEPT !.pc = pc]
Doing(pc, job) == [cp EXCEPT !.pc = pc, !.job = job]

\* Run: a different active request is refused, an ended one is published again, an active
\* one goes on from what is observed and a new one is queued.
EnterRollout ==
  /\ cp.pc = "enter"
  /\ \/ /\ CatActive(cj.state) /\ cj.req # cp.q.id /\ cp' = CatalogAt("refused")
        /\ UNCHANGED <<crBounds, cj, cpub>>
     \/ /\ CatActive(cj.state) /\ cj.req = cp.q.id /\ cp' = CatalogAt("observe")
        /\ UNCHANGED <<crBounds, cj, cpub>>
     \/ /\ cj.req = cp.q.id /\ ~CatActive(cj.state) /\ CatPersist(cj, TRUE, CatalogAt("idle"))
     \/ /\ cj.req # cp.q.id /\ ~CatActive(cj.state) /\ CatPersist(Status("queued", "", ""), TRUE, CatalogAt("observe"))
  /\ UNCHANGED <<cfr, cbk, cenv, cplan, chist>>

frontOld(f) == f = Contract(Hash(cp.q.prev), NoHash)
frontBoth(f) == f = Contract(Hash(cp.q.cand), Hash(cp.q.prev))
frontNew(f) == f = Contract(Hash(cp.q.cand), NoHash)
\* The contract holds only the two catalogs, the primary one set and different from the other.
validateObservation ==
  /\ {cfr.conf.p, cfr.conf.t} \subseteq {Hash(cp.q.prev), Hash(cp.q.cand), NoHash}
  /\ cfr.conf.p # NoHash /\ cfr.conf.p # cfr.conf.t

\* Observe succeeds when the application is on main and runs the commit it is pinned to.
Observable == cbk.branch = "main" /\ cbk.run = cbk.pin
ObserveOK == Observable /\ NoCatFault
ObserveFails == IF Observable THEN CatFault ELSE NoCatFault

\* compensate records the reason; a failed backend deployment rolls back without looking.
StartCompensation(reason) ==
  CatPersist(Status("compensating", IF cp.blank THEN "" ELSE cj.phase, reason), FALSE,
             [cp EXCEPT !.reason = reason, !.pc = IF reason = "deploy" THEN "undo" ELSE "look"])

\* fail persists what it holds: after a failed write that is a status without a request.
EndFailed(how) ==
  CatPersist(IF cp.blank THEN [CatIdle EXCEPT !.state = "failed", !.phase = "complete", !.reason = how]
                         ELSE Status("failed", "complete", how), TRUE, CatalogAt("idle"))

\* Observe could not be made, or shows something the request cannot go on from.
ObserveRefuses ==
  /\ cp.pc = "observe"
  /\ \/ ObserveFails /\ cp' = CatalogAt("failing") /\ UNCHANGED <<cj, cpub>>
     \/ /\ ObserveOK /\ UNCHANGED <<cj, cpub>>
        /\ \/ ~validateObservation
           \/ cbk.run \notin {cp.q.prev, cp.q.cand}
           \/ /\ cbk.run = cp.q.cand /\ cj.phase \in {"finalize-front", "complete"}
              /\ Hash(cp.q.cand) # Hash(cp.q.prev) /\ ~frontNew(cfr.conf) /\ ~frontBoth(cfr.conf)
           \/ /\ cbk.run = cp.q.prev /\ cbk.run # cp.q.cand /\ Hash(cp.q.cand) # Hash(cp.q.prev)
              /\ ~frontBoth(cfr.conf) /\ ~frontOld(cfr.conf)
        /\ cp' = CatalogAt("failing")
  /\ UNCHANGED <<cfr, cbk, cenv, cplan, chist>>

\* The candidate runs and was not verified since: verify it.
ObserveVerify ==
  /\ cp.pc = "observe" /\ Observable /\ validateObservation
  /\ cbk.run = cp.q.cand /\ cj.phase \notin {"finalize-front", "complete"}
  /\ CatPersist(Status("running", "verify-backend", ""), FALSE, CatalogAt("verify"))
  /\ UNCHANGED <<cfr, cbk, cenv, cplan, chist>>

\* The front door is final: only the candidate's catalog is admitted.
FrontDone(f) == frontNew(f)

\* The candidate was verified: the rollout has succeeded, or the front door is finalized.
ObserveFinish ==
  /\ cp.pc = "observe" /\ Observable /\ validateObservation
  /\ cbk.run = cp.q.cand /\ cj.phase \in {"finalize-front", "complete"}
  /\ \/ /\ Hash(cp.q.cand) = Hash(cp.q.prev) \/ FrontDone(cfr.conf)
        /\ CatPersist(Status("succeeded", "complete", ""), TRUE, CatalogAt("idle"))
     \/ /\ Hash(cp.q.cand) # Hash(cp.q.prev) /\ ~FrontDone(cfr.conf) /\ frontBoth(cfr.conf)
        /\ CatPersist(Status("running", "finalize-front", ""), FALSE, Doing("primary", "finalize"))
  /\ UNCHANGED <<cfr, cbk, cenv, cplan, chist>>

\* The previous backend runs: open the front door to both catalogs, then replace it.
ObservePrepare ==
  /\ cp.pc = "observe" /\ Observable /\ validateObservation
  /\ cbk.run = cp.q.prev /\ cbk.run # cp.q.cand
  /\ \/ /\ Hash(cp.q.cand) # Hash(cp.q.prev) /\ frontOld(cfr.conf)
        /\ CatPersist(Status("running", "prepare-front", ""), FALSE, Doing("primary", "prepare"))
     \/ /\ Hash(cp.q.cand) = Hash(cp.q.prev) \/ frontBoth(cfr.conf)
        /\ CatPersist(Status("running", "deploy-backend", ""), FALSE, Doing("patch", "candidate"))
  /\ UNCHANGED <<cfr, cbk, cenv, cplan, chist>>

FailedObservation ==
  /\ cp.pc = "failing" /\ StartCompensation("other")
  /\ UNCHANGED <<cfr, cbk, cenv, cplan, chist>>
-----------------------------------------------------------------------------
(* The effects of a phase. *)

\* A step of an effect failed; a rollback's own failure ends the rollout.
EffectFails ==
  CASE cp.job = "candidate" -> CatPersist(Status("running", "deploy-backend", "deploy"), TRUE, CatalogAt("undeployed"))
    [] cp.job \in {"prepare", "finalize"} -> StartCompensation("other")
    [] cp.job \in {"previous", "restore"} -> EndFailed("lost")
FailEffect ==
  /\ cp.pc = "broken" /\ EffectFails
  /\ UNCHANGED <<cfr, cbk, cenv, cplan, chist>>
Broken == cp' = CatalogAt("broken")
FailedDeployment ==
  /\ cp.pc = "undeployed" /\ StartCompensation("deploy")
  /\ UNCHANGED <<cfr, cbk, cenv, cplan, chist>>

\* The contract a front door job writes, and the backend it verifies through it.
CatalogWanted(job) ==
  CASE job = "prepare" -> Contract(Hash(cp.q.cand), Hash(cp.q.prev))
    [] job = "finalize" -> Contract(Hash(cp.q.cand), NoHash)
    [] job = "restore" -> Contract(Hash(cp.q.prev), NoHash)
Expected(job) == IF job = "finalize" THEN cp.q.cand ELSE cp.q.prev

\* setEnvironment writes the keys in their order, one request each.
WritePrimary ==
  /\ cp.pc = "primary"
  /\ \/ cfr' = [cfr EXCEPT !.conf.p = CatalogWanted(cp.job).p] /\ cp' = CatalogAt("transition") /\ NoCatFault
     \/ CatFault /\ Broken /\ UNCHANGED cfr
  /\ UNCHANGED <<cbk, cj, cpub, cenv, cplan, chist>>
WriteTransition ==
  /\ cp.pc = "transition"
  /\ \/ cfr' = [cfr EXCEPT !.conf.t = CatalogWanted(cp.job).t] /\ cp' = CatalogAt("fdeploy") /\ NoCatFault
     \/ CatFault /\ Broken /\ UNCHANGED cfr
  /\ UNCHANGED <<cbk, cj, cpub, cenv, cplan, chist>>
DeployFront ==
  /\ cp.pc = "fdeploy"
  /\ \/ cfr' = [cfr EXCEPT !.pend = TRUE, !.bad = FALSE] /\ cp' = CatalogAt("fwait") /\ NoCatFault
     \/ CatFault /\ Broken /\ UNCHANGED cfr
  /\ UNCHANGED <<cbk, cj, cpub, cenv, cplan, chist>>
AwaitFront ==
  /\ cp.pc = "fwait"
  /\ \/ ~cfr.pend /\ ~cfr.bad /\ cp' = CatalogAt("fverify") /\ NoCatFault
     \/ cfr.bad /\ Broken /\ NoCatFault
     \/ cfr.pend /\ CatFault /\ Broken
  /\ UNCHANGED <<cfr, cbk, cj, cpub, cenv, cplan, chist>>

\* The contract was applied and the expected backend answers through the front door.
verifyFront(c) == cbk.run = c /\ CatalogAdmits(cfr.run, c)
VerifyFrontJob ==
  /\ cp.pc = "fverify"
  /\ \/ cfr.conf = CatalogWanted(cp.job) /\ verifyFront(Expected(cp.job)) /\ cp' = CatalogAt("fdone") /\ NoCatFault
     \/ (IF cfr.conf = CatalogWanted(cp.job) /\ verifyFront(Expected(cp.job)) THEN CatFault ELSE NoCatFault) /\ Broken
  /\ UNCHANGED <<cfr, cbk, cj, cpub, cenv, cplan, chist>>

FrontJobDone ==
  /\ cp.pc = "fdone"
  /\ CASE cp.job = "prepare" -> CatPersist(Status("running", "deploy-backend", ""), TRUE, CatalogAt("observe"))
       [] cp.job = "finalize" -> CatPersist(Status("running", "complete", ""), TRUE, CatalogAt("observe"))
       [] cp.job = "restore" -> CatPersist(Status("compensating", "rollback-front", cp.reason), FALSE, CatalogAt("restored"))
  /\ UNCHANGED <<cfr, cbk, cenv, cplan, chist>>

\* deployBackendFromBranch: pin, stop, deploy; the rollback deploys from its own branch and
\* puts main back whatever happened after the pin.
Target(job) == IF job = "candidate" THEN cp.q.cand ELSE cp.q.prev
Unbranch(b) == IF cp.job = "previous" THEN [b EXCEPT !.branch = "main", !.pin = cp.q.prev] ELSE b

PinBackend ==
  /\ cp.pc = "patch"
  /\ \/ /\ cbk' = [cbk EXCEPT !.pin = Target(cp.job), !.branch = IF cp.job = "previous" THEN "rollback" ELSE "main"]
        /\ cp' = CatalogAt("stop") /\ NoCatFault
     \/ CatFault /\ Broken /\ UNCHANGED cbk
  /\ UNCHANGED <<cfr, cj, cpub, cenv, cplan, chist>>
StopBackend ==
  /\ cp.pc = "stop"
  /\ \/ cbk' = [cbk EXCEPT !.run = CatalogStopped] /\ cp' = CatalogAt("bdeploy") /\ NoCatFault
     \/ /\ CatFault /\ Broken
        /\ \/ cbk' = Unbranch(cbk)
           \/ cbk' = Unbranch([cbk EXCEPT !.run = CatalogStopped])
           \/ cp.job = "previous" /\ UNCHANGED cbk \* putting main back failed too
  /\ UNCHANGED <<cfr, cj, cpub, cenv, cplan, chist>>
DeployBackend ==
  /\ cp.pc = "bdeploy"
  /\ \/ /\ cbk' = [cbk EXCEPT !.pend = cbk.pin, !.bad = FALSE] /\ cp' = CatalogAt("bwait") /\ NoCatFault
        /\ chist' = IF cp.job = "candidate" THEN [chist EXCEPT ![cp.q.id] = @ + 1] ELSE chist
     \/ CatFault /\ Broken /\ cbk' = Unbranch(cbk) /\ UNCHANGED chist
  /\ UNCHANGED <<cfr, cj, cpub, cenv, cplan>>
AwaitBackend ==
  /\ cp.pc = "bwait"
  /\ \/ /\ cbk.pend = CatalogStopped /\ ~cbk.bad /\ NoCatFault
        /\ cbk' = Unbranch(cbk) /\ cp' = CatalogAt("bdone")
     \/ cbk.bad /\ Broken /\ cbk' = Unbranch(cbk) /\ NoCatFault
     \/ CatFault /\ Broken /\ (cbk' = Unbranch(cbk) \/ (cp.job = "previous" /\ UNCHANGED cbk))
  /\ UNCHANGED <<cfr, cj, cpub, cenv, cplan, chist>>
BackendJobDone ==
  /\ cp.pc = "bdone"
  /\ IF cp.job = "candidate"
     THEN CatPersist(Status("running", "verify-backend", ""), TRUE, CatalogAt("observe"))
     ELSE CatPersist(Status("compensating", "rollback-backend", cp.reason), FALSE, CatalogAt("looked"))
  /\ UNCHANGED <<cfr, cbk, cenv, cplan, chist>>

\* VerifyBackend: the candidate answers directly, through the front door and over MCP.
verifyMCP(c) == CatalogAdmits(cfr.run, c) /\ cbk.run = c
BackendSound(c) == cbk.run = c /\ verifyFront(c) /\ verifyMCP(c)
VerifyBackend ==
  /\ cp.pc = "verify"
  /\ \/ BackendSound(cp.q.cand) /\ cp' = CatalogAt("verified") /\ NoCatFault
     \/ (IF BackendSound(cp.q.cand) THEN CatFault ELSE NoCatFault) /\ cp' = CatalogAt("failing")
  /\ UNCHANGED <<cfr, cbk, cj, cpub, cenv, cplan, chist>>
BackendVerified ==
  /\ cp.pc = "verified" /\ CatPersist(Status("running", "finalize-front", ""), TRUE, CatalogAt("observe"))
  /\ UNCHANGED <<cfr, cbk, cenv, cplan, chist>>

-----------------------------------------------------------------------------
(* Compensation. *)

\* The first look: is the candidate in place?
LookAtBackend ==
  /\ cp.pc \in {"look", "looked"}
  /\ \/ ObserveFails /\ cp' = CatalogAt("lost")
     \/ /\ ObserveOK
        /\ cp' = CatalogAt(CASE cp.pc = "look" /\ cbk.run = cp.q.cand -> "undo"
                             [] ~(cp.pc = "look" /\ cbk.run = cp.q.cand) /\ cbk.run # cp.q.prev -> "lost"
                             [] ~(cp.pc = "look" /\ cbk.run = cp.q.cand) /\ cbk.run = cp.q.prev -> "front")
  /\ UNCHANGED <<cfr, cbk, cj, cpub, cenv, cplan, chist>>
UndoBackend ==
  /\ cp.pc = "undo"
  /\ CatPersist(Status("compensating", "rollback-backend", cp.reason), FALSE, Doing("patch", "previous"))
  /\ UNCHANGED <<cfr, cbk, cenv, cplan, chist>>

\* Faulty variant: a front door that admits the previous catalog is left as it is.
RestoreFrontAdmitting ==
  /\ cp.pc = "front"
  /\ \/ CatalogAdmits(cfr.conf, cp.q.prev) /\ EndFailed("plain")
     \/ /\ ~CatalogAdmits(cfr.conf, cp.q.prev)
        /\ CatPersist(Status("compensating", "rollback-front", cp.reason), FALSE, Doing("primary", "restore"))
  /\ UNCHANGED <<cfr, cbk, cenv, cplan, chist>>
\* The previous backend runs: restore the front door's contract unless it is in place.
RestoreFront ==
  /\ cp.pc = "front"
  /\ \/ frontOld(cfr.conf) /\ EndFailed("plain")
     \/ /\ ~frontOld(cfr.conf)
        /\ CatPersist(Status("compensating", "rollback-front", cp.reason), FALSE, Doing("primary", "restore"))
  /\ UNCHANGED <<cfr, cbk, cenv, cplan, chist>>
LookAtBoth ==
  /\ cp.pc = "restored"
  /\ \/ ObserveFails /\ cp' = CatalogAt("lost")
     \/ ObserveOK /\ cp' = CatalogAt(IF cbk.run = cp.q.prev /\ frontOld(cfr.conf) THEN "front" ELSE "lost")
  /\ UNCHANGED <<cfr, cbk, cj, cpub, cenv, cplan, chist>>
CompensationLost ==
  /\ cp.pc = "lost" /\ EndFailed("lost")
  /\ UNCHANGED <<cfr, cbk, cenv, cplan, chist>>

-----------------------------------------------------------------------------
(* Around the coordinator. *)

CatCrash ==
  /\ crBounds.crashes > 0 /\ cp.pc # "down"
  /\ crBounds' = [crBounds EXCEPT !.crashes = @ - 1]
  /\ cp' = ProcessDown
  /\ UNCHANGED <<cfr, cbk, cj, cpub, cenv, cplan, chist>>
CatRestart ==
  /\ cp.pc = "down" /\ cp' = [ProcessDown EXCEPT !.pc = "starting"]
  /\ UNCHANGED <<crBounds, cfr, cbk, cj, cpub, cenv, cplan, chist>>

\* A deployment ends: with the commit it was requested for, or the one pinned now; one
\* from the rollback branch needs the branch to hold the commit.
FinishBackend ==
  /\ cbk.pend # CatalogStopped
  /\ \E c \in {cbk.pend, cbk.pin} :
       /\ cbk.branch = "rollback" => cbk.rb = c
       /\ cbk' = [cbk EXCEPT !.run = c, !.pend = CatalogStopped]
  /\ UNCHANGED <<crBounds, cfr, cj, cpub, cenv, cplan, cp, chist>>
FailBackend ==
  /\ cbk.pend # CatalogStopped
  /\ IF cbk.branch = "rollback" /\ cbk.rb # cbk.pend THEN NoCatFault ELSE CatFault
  /\ cbk' = [cbk EXCEPT !.bad = TRUE, !.pend = CatalogStopped]
  /\ UNCHANGED <<cfr, cj, cpub, cenv, cplan, cp, chist>>
FinishFront ==
  /\ cfr.pend /\ cfr' = [cfr EXCEPT !.run = cfr.conf, !.pend = FALSE]
  /\ UNCHANGED <<crBounds, cbk, cj, cpub, cenv, cplan, cp, chist>>
FailFront ==
  /\ cfr.pend /\ CatFault /\ cfr' = [cfr EXCEPT !.bad = TRUE, !.pend = FALSE]
  /\ UNCHANGED <<cbk, cj, cpub, cenv, cplan, cp, chist>>
NewHead ==
  /\ crBounds.heads > 0 /\ crBounds' = [crBounds EXCEPT !.heads = @ - 1]
  /\ cbk' = [cbk EXCEPT !.head = @ + 1]
  /\ UNCHANGED <<cfr, cj, cpub, cenv, cplan, cp, chist>>

CatWorker ==
  \/ ServeCatalog \/ RolloutStarts \/ EnterRollout
  \/ ObserveRefuses \/ ObserveVerify \/ ObserveFinish \/ ObservePrepare \/ FailedObservation
  \/ FailEffect \/ FailedDeployment \/ WritePrimary \/ WriteTransition \/ DeployFront \/ AwaitFront
  \/ VerifyFrontJob \/ FrontJobDone \/ PinBackend \/ StopBackend \/ DeployBackend \/ AwaitBackend
  \/ BackendJobDone \/ VerifyBackend \/ BackendVerified
  \/ LookAtBackend \/ UndoBackend \/ RestoreFront \/ LookAtBoth \/ CompensationLost
CatOperator == DispatchRollout \/ DispatchPin \/ DispatchEnvironment \/ DispatchCoordinator

CatNext ==
  \/ PreviewRollout \/ DispatchRollout \/ DispatchPin \/ DispatchEnvironment \/ DispatchCoordinator
  \/ ServeCatalog \/ RolloutStarts \/ EnterRollout
  \/ ObserveRefuses \/ ObserveVerify \/ ObserveFinish \/ ObservePrepare \/ FailedObservation
  \/ FailEffect \/ FailedDeployment \/ WritePrimary \/ WriteTransition \/ DeployFront \/ AwaitFront
  \/ VerifyFrontJob \/ FrontJobDone \/ PinBackend \/ StopBackend \/ DeployBackend \/ AwaitBackend
  \/ BackendJobDone \/ VerifyBackend \/ BackendVerified
  \/ LookAtBackend \/ UndoBackend \/ RestoreFront \/ LookAtBoth \/ CompensationLost
  \/ CatCrash \/ CatRestart \/ FinishBackend \/ FailBackend \/ FinishFront \/ FailFront \/ NewHead

CatFairness ==
  /\ WF_crVars(CatWorker) /\ WF_crVars(CatOperator) /\ WF_crVars(CatRestart)
  /\ WF_crVars(FinishBackend \/ FailBackend) /\ WF_crVars(FinishFront)

CatSpec == CatInit /\ [][CatNext]_crVars /\ CatFairness

-----------------------------------------------------------------------------
\* The shape of the state; an ended rollout is complete, a queued one has no phase.
CatTypeOK ==
  /\ cbk.run \in 0 .. 2 \cup {CatalogStopped} /\ cbk.pin \in 0 .. 2 /\ cbk.rb \in 0 .. 2
  /\ {cfr.conf.p, cfr.run.p} \subseteq 0 .. 2 /\ {cfr.conf.t, cfr.run.t} \subseteq 0 .. 2 \cup {NoHash}
  /\ cj.state \in {"succeeded", "failed"} => cj.phase = "complete"
  /\ cj.state = "queued" => cj.phase = "" /\ cj.reason = ""

\* A rollout that succeeded runs the candidate, pinned on main, with the front door
\* configured for its catalog alone and admitting it as it runs, until the next dispatch.
SucceededServed ==
  cj.state = "succeeded" /\ cj.req = cenv.id /\ cplan.st = "none" =>
    /\ cbk.branch = "main" /\ cbk.pin = cj.cand /\ cbk.run = cj.cand
    /\ cfr.conf = Contract(Hash(cj.cand), NoHash)
    /\ CatalogAdmits(cfr.run, cj.cand)

\* A rollout that failed for its own reason, with no complaint about the rollback, has the
\* previous backend running and the front door configured for its catalog alone, whichever
\* step failed and wherever the coordinator was replaced.
PlainFailureRestored ==
  cj.state = "failed" /\ cj.reason = "plain" /\ cj.req > 0 /\ cj.req = cenv.id /\ cplan.st = "none" =>
    /\ cbk.branch = "main" /\ cbk.pin = cj.prev /\ cbk.run = cj.prev
    /\ cfr.conf = Contract(Hash(cj.prev), NoHash)

\* One rollout at a time: an active request is never replaced in the journal, and an ended
\* one stays as it ended.
OneRollout ==
  [][/\ CatActive(cj.state) /\ cj'.req # 0 => cj'.req = cj.req
     /\ cj.state \in {"succeeded", "failed"} /\ cj'.req = cj.req => cj' = cj]_crVars

\* An active rollout ends, unless the run stopped on a status it could not write or publish
\* or the coordinator was handed a different request.
RolloutEnds ==
  []<>(~CatActive(cj.state) \/ cp.pc \in {"stalled", "unready"} \/ cenv.id # cj.req)

=============================================================================
