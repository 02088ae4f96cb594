----------------------------- MODULE FrontDoor ------------------------------
(***************************************************************************)
(* The front door: how it gates requests while the backend is replaced,    *)
(* and the reviewed plan that creates or reconciles it. Each part has its  *)
(* own variables and its own specification.                                *)
(***************************************************************************)
EXTENDS Naturals, FiniteSets, Sequences

-----------------------------------------------------------------------------
(***************************************************************************)
(* The stable front door (internal/frontdoor): a reverse proxy that probes  *)
(* the backend all the time, holds new requests back while no compatible    *)
(* backend answers and keeps accepted event streams alive across a backend  *)
(* replacement.                                                             *)
(*                                                                         *)
(* Times are kept as what the code asks of them: a request is "fresh" when  *)
(* a snapshot was stored after it began to wait, "woken" when one was       *)
(* stored after it took the change channel, and a recovered stream has      *)
(* "moved" when the backend generation changed after it looked.             *)
(***************************************************************************)

CONSTANTS Posts,      \* ordinary requests
          Streams,    \* event streams of MCP clients
          GateBounds  \* records [flips, leaves]

VARIABLES fdBounds, \* backend changes and client departures left
          be,       \* the backend: "ok", "down", or "alien" (another catalog)
          snap,     \* the snapshot [ready, reason]
          probing,  \* who holds the probe lock, and how far its probe got
          fr        \* requests: [pc, fresh, woken, moved, back]

gateVars == <<fdBounds, be, snap, probing, fr>>
Callers == Posts \cup Streams
Prober == "prober"
Unlocked == [by |-> "nobody", st |-> "none"]

\* The waiting loop is entered afresh: back is where it returns to.
Enters(q, back) == [q EXCEPT !.pc = "channel", !.fresh = FALSE, !.back = back]

GateInit ==
  /\ fdBounds \in GateBounds
  /\ be \in {"ok", "down"}
  /\ snap = [ready |-> FALSE, reason |-> "not_probed"]
  /\ probing = Unlocked
  /\ fr = [r \in Callers |-> [pc |-> "new", fresh |-> FALSE, woken |-> FALSE, moved |-> FALSE, back |-> ""]]

\* storeSnapshot replaces the snapshot, counts a generation when the backend became ready
\* and closes the change channel.
storeSnapshot(next, rs) ==
  /\ snap' = next
  /\ fr' = [r \in Callers |->
              [rs[r] EXCEPT !.fresh = TRUE, !.woken = TRUE, !.moved = @ \/ (next.ready /\ ~snap.ready)]]
Unavailable == [ready |-> FALSE, reason |-> "unavailable"]
Incompatible == [ready |-> FALSE, reason |-> "incompatible"]
storeUnavailable(rs) == storeSnapshot(Unavailable, rs)

-----------------------------------------------------------------------------
(* Probes: the background prober and waiting requests share one lock. *)

\* Run: the prober takes the lock at every tick.
ProberStarts ==
  /\ probing = Unlocked
  /\ probing' = [by |-> Prober, st |-> "ready"]
  /\ UNCHANGED <<fdBounds, be, snap, fr>>

\* What a probe made by a waiting request means for it.
Outcome(q, result) ==
  [q EXCEPT !.pc = CASE result = "ok" -> q.back
                     [] result = "incompatible" -> "refused"
                     [] result = "unavailable" -> "asleep"]
AfterProbe(result) ==
  IF probing.by = Prober THEN fr ELSE [fr EXCEPT ![probing.by] = Outcome(@, result)]

\* probeReady: the backend answers readiness, or the probe ends here.
ProbeReady ==
  /\ probing.st = "ready"
  /\ \/ be # "down" /\ probing' = [probing EXCEPT !.st = "version"] /\ UNCHANGED <<snap, fr>>
     \/ be = "down" /\ probing' = Unlocked /\ storeUnavailable(AfterProbe("unavailable"))
  /\ UNCHANGED <<fdBounds, be>>

\* probeVersion and the comparison with the accepted catalogs; the snapshot is stored.
ProbeVersion ==
  /\ probing.st = "version" /\ probing' = Unlocked
  /\ \/ be = "ok" /\ storeSnapshot([ready |-> TRUE, reason |-> ""], AfterProbe("ok"))
     \/ be = "alien" /\ storeSnapshot(Incompatible, AfterProbe("incompatible"))
     \/ be = "down" /\ storeUnavailable(AfterProbe("unavailable"))
  /\ UNCHANGED <<fdBounds, be>>

-----------------------------------------------------------------------------
(* Waiting for the backend. *)

Arrive(r) ==
  /\ fr[r].pc = "new"
  /\ fr' = [fr EXCEPT ![r] = Enters(@, IF r \in Posts THEN "admitted" ELSE "opening")]
  /\ UNCHANGED <<fdBounds, be, snap, probing>>

\* Each round of waitForBackend takes the change channel before it looks.
TakeChannel(r) ==
  /\ fr[r].pc = "channel"
  /\ fr' = [fr EXCEPT ![r].pc = "probe", ![r].woken = FALSE]
  /\ UNCHANGED <<fdBounds, be, snap, probing>>

\* probeAfter: a snapshot newer than the wait is taken as it is, otherwise probe.
Snapshot == IF snap.ready THEN "ok" ELSE IF snap.reason = "incompatible" THEN "incompatible" ELSE "unavailable"
ProbeAfter(r) ==
  /\ fr[r].pc = "probe" /\ probing = Unlocked
  /\ \/ fr[r].fresh /\ fr' = [fr EXCEPT ![r] = Outcome(@, Snapshot)] /\ UNCHANGED probing
     \/ ~fr[r].fresh /\ probing' = [by |-> r, st |-> "ready"] /\ fr' = [fr EXCEPT ![r].pc = "probing"]
  /\ UNCHANGED <<fdBounds, be, snap>>

Wake(r) ==
  /\ fr[r].pc = "asleep" /\ fr[r].woken
  /\ fr' = [fr EXCEPT ![r].pc = "channel"]
  /\ UNCHANGED <<fdBounds, be, snap, probing>>

\* A stream that was accepted writes a comment from time to time and looks again.
GateHeartbeat(r) ==
  /\ fr[r].pc = "asleep" /\ fr[r].back = "recovered"
  /\ fr' = [fr EXCEPT ![r].pc = "channel"]
  /\ UNCHANGED <<fdBounds, be, snap, probing>>

\* The admission timeout runs out while the request sleeps ...
AdmissionTimeout(r) ==
  /\ fr[r].pc = "asleep" /\ fr' = [fr EXCEPT ![r].pc = "refused"]
  /\ UNCHANGED <<fdBounds, be, snap, probing>>
\* ... or while its own probe runs: the probe fails with it, and is recorded.
ProbeCancelled(r) ==
  /\ fr[r].pc = "probing"
  /\ probing' = Unlocked
  /\ storeUnavailable([fr EXCEPT ![r].pc = "asleep"])
  /\ UNCHANGED <<fdBounds, be>>

\* The client goes away: quietly from a wait or an open stream ...
ClientLeaves(r) ==
  /\ fdBounds.leaves > 0 /\ fr[r].pc \in {"asleep", "streaming", "resting"}
  /\ fdBounds' = [fdBounds EXCEPT !.leaves = @ - 1]
  /\ fr' = [fr EXCEPT ![r].pc = "gone"]
  /\ UNCHANGED <<be, snap, probing>>
\* ... but a request or a stream being opened fails upstream, which proxyError and
\* openMCPStream take for a failure of the backend.
ClientAborts(r) ==
  /\ fdBounds.leaves > 0 /\ fr[r].pc \in {"admitted", "opening"}
  /\ fdBounds' = [fdBounds EXCEPT !.leaves = @ - 1]
  /\ storeUnavailable([fr EXCEPT ![r].pc = "gone"])
  /\ UNCHANGED <<be, probing>>

-----------------------------------------------------------------------------
(* Requests and streams. *)

\* validateResponse: the answer must carry an accepted catalog.
validateResponse(r) == be = "ok"

\* The proxied request: an answer, or a failure that also marks the backend unavailable
\* (the error handler runs after a refused response, too).
Proxy(r) ==
  /\ fr[r].pc = "admitted"
  /\ \/ validateResponse(r) /\ fr' = [fr EXCEPT ![r].pc = "answered"] /\ UNCHANGED snap
     \/ ~validateResponse(r) /\ storeUnavailable([fr EXCEPT ![r].pc = "refused"])
  /\ UNCHANGED <<fdBounds, be, probing>>

\* openMCPStream: the stream opens, is tried again, or is refused for its catalog.
GateOpenStream(r) ==
  /\ fr[r].pc = "opening"
  /\ \/ be = "ok" /\ fr' = [fr EXCEPT ![r].pc = "streaming"] /\ UNCHANGED snap
     \/ be = "down" /\ storeUnavailable([fr EXCEPT ![r] = Enters(@, "opening")])
     \/ be = "alien" /\ storeSnapshot(Incompatible, [fr EXCEPT ![r].pc = "refused"])
  /\ UNCHANGED <<fdBounds, be, probing>>

\* copyCommentSSE passes comments on and ends a stream that carries anything else.
StreamPayload(r) ==
  /\ fdBounds.leaves > 0 /\ fr[r].pc = "streaming"
  /\ fdBounds' = [fdBounds EXCEPT !.leaves = @ - 1]
  /\ fr' = [fr EXCEPT ![r].pc = "closed"]
  /\ UNCHANGED <<be, snap, probing>>

\* The backend closed the stream: it is unavailable, and the client's stream is kept.
StreamEnds(r) ==
  /\ fr[r].pc = "cut"
  /\ storeUnavailable([fr EXCEPT ![r] = Enters(@, "recovered")])
  /\ UNCHANGED <<fdBounds, be, probing>>

\* recoverAcceptedMCPStream: a compatible backend is there again.
Recover(r) ==
  /\ fr[r].pc = "recovered"
  /\ fr' = [fr EXCEPT ![r].pc = "keeping", ![r].moved = FALSE]
  /\ UNCHANGED <<fdBounds, be, snap, probing>>

\* keepRecoveredMCPStream takes the channel ...
KeepStream(r) ==
  /\ fr[r].pc = "keeping"
  /\ fr' = [fr EXCEPT ![r].pc = "looking", ![r].woken = FALSE]
  /\ UNCHANGED <<fdBounds, be, snap, probing>>
\* ... then looks at the snapshot and the generation, and rests or recovers again.
LookAtState(r) ==
  /\ fr[r].pc = "looking"
  /\ fr' = [fr EXCEPT ![r] =
       IF snap.ready /\ ~fr[r].moved THEN [@ EXCEPT !.pc = "resting"] ELSE Enters(@, "recovered")]
  /\ UNCHANGED <<fdBounds, be, snap, probing>>
Rise(r) ==
  /\ fr[r].pc = "resting" /\ fr[r].woken
  /\ fr' = [fr EXCEPT ![r].pc = "keeping"]
  /\ UNCHANGED <<fdBounds, be, snap, probing>>

\* The backend is stopped, replaced, or comes back; its connections are cut.
BackendFlips(b) ==
  /\ fdBounds.flips > 0 /\ b # be
  /\ fdBounds' = [fdBounds EXCEPT !.flips = @ - 1]
  /\ be' = b
  /\ fr' = [r \in Callers |-> IF fr[r].pc = "streaming" THEN [fr[r] EXCEPT !.pc = "cut"] ELSE fr[r]]
  /\ UNCHANGED <<snap, probing>>

-----------------------------------------------------------------------------
CallerSteps(r) == \/ TakeChannel(r) \/ Wake(r) \/ GateHeartbeat(r) \/ Proxy(r) \/ GateOpenStream(r)
                  \/ StreamEnds(r) \/ Recover(r) \/ KeepStream(r) \/ LookAtState(r) \/ Rise(r)
GateNext ==
  \/ ProberStarts
  \/ ProbeReady
  \/ ProbeVersion
  \/ \E r \in Callers : Arrive(r)
  \/ \E r \in Callers : ProbeAfter(r)
  \/ \E r \in Callers : AdmissionTimeout(r)
  \/ \E r \in Callers : ProbeCancelled(r)
  \/ \E r \in Callers : ClientLeaves(r)
  \/ \E r \in Callers : ClientAborts(r)
  \/ \E r \in Callers : StreamPayload(r)
  \/ \E r \in Callers : CallerSteps(r)
  \/ \E b \in {"ok", "down", "alien"} : BackendFlips(b)

\* The prober's ticker never stops, a probe ends (its client has a timeout), every request
\* has its own goroutine, and Go's mutex hands itself to the goroutine that waits longest.
GateFairness ==
  /\ SF_gateVars(ProberStarts)
  /\ WF_gateVars(ProbeReady \/ ProbeVersion)
  /\ \A r \in Callers : SF_gateVars(ProbeAfter(r))
  /\ \A r \in Callers : WF_gateVars(CallerSteps(r))
GateSpec == GateInit /\ [][GateNext]_gateVars /\ GateFairness

-----------------------------------------------------------------------------
(* Properties *)

\* Type correctness; the probe lock is held by the prober or by a request that is probing,
\* and by nobody else (probeMu is released on every path of probeAfter).
GateTypeOK ==
  /\ be \in {"ok", "down", "alien"}
  /\ snap \in [ready : BOOLEAN, reason : {"", "not_probed", "unavailable", "incompatible"}]
  /\ snap.ready <=> snap.reason = ""
  /\ \A r \in Callers : fr[r].pc = "probing" <=> probing.by = r

\* No wake-up is lost: a request that sleeps in waitForBackend on a channel nobody closed
\* since sleeps because the current snapshot is not ready.
NoMissedWake ==
  \A r \in Callers : fr[r].pc = "asleep" /\ ~fr[r].woken => ~snap.ready

\* A stream kept alive for a client rests only on a ready backend of the generation it
\* recovered on (keepRecoveredMCPStream): after any loss it announces its recovery again.
StreamsNotice ==
  \A r \in Streams : fr[r].pc = "resting" /\ ~fr[r].woken => snap.ready /\ ~fr[r].moved

\* The gate follows the backend: when the backend stays as it is, the snapshot ends up
\* telling whether it is compatible, whatever clients and slow probes stored in between.
SnapshotSettles ==
  /\ <>[](be = "ok") => <>[](snap.ready)
  /\ <>[](be # "ok") => <>[](~snap.ready)

\* No request waits for ever once a compatible backend stays (without relying on the
\* admission timeout).
Waiting(r) == fr[r].pc \in {"channel", "probe", "probing", "asleep"}
WaitersServed == \A r \in Callers : <>[](be = "ok") => []<>~Waiting(r)

-----------------------------------------------------------------------------
(***************************************************************************)
(* platform_front_door_create: one reviewed plan creates the managed front *)
(* door, reconciles its environment and catalog pins, or renames it to its *)
(* temporary origin.  Each call is a series of requests to Coolify; others *)
(* may run the same tool, requests fail with or without their effect, and  *)
(* a deployment finishes, or fails, in its own time.                       *)
(***************************************************************************)

CONSTANTS
  SetupCallers,   \* concurrent executions of the tool
  SetupBounds     \* [start, requests, jobs, faults, pushes, callers]

VARIABLES
  fsBounds,   \* the request set and what a behaviour may still spend
  facade,     \* what Coolify holds: [sha, apps, domain, env, live, deploying, backend]
  setup       \* each caller's position: [at, req, plan, app, listed, undo, told]

fsVars == <<fsBounds, facade, setup>>

NoApp == [there |-> FALSE, domain |-> "", commit |-> 0]
NoEnv == [k \in {"url", "expected", "transition"} |-> <<>>]
NotLive == [commit |-> 0, url |-> "", catalogs |-> {}, domain |-> ""]
NoCatalogs == [primary |-> "", transition |-> "", remove |-> FALSE, changed |-> TRUE]
NoSetupPlan == [action |-> "none", sha |-> 0, domain |-> "", catalogs |-> NoCatalogs]
AtRestSetup == [at |-> "idle", req |-> [domain |-> "", url |-> "", catalog |-> ""], plan |-> NoSetupPlan,
                app |-> NoApp, listed |-> NoEnv, undo |-> FALSE, alone |-> TRUE, told |-> "none"]

Ready(origin) == [sha |-> 1, apps |-> 1, domain |-> origin, backend |-> "A", deploying |-> FALSE,
                  env |-> [url |-> <<"public">>, expected |-> <<"A">>, transition |-> <<>>],
                  live |-> [commit |-> 1, url |-> "public", catalogs |-> {"A"}, domain |-> origin]]
Absent == [sha |-> 1, apps |-> 0, domain |-> "", backend |-> "A", deploying |-> FALSE, env |-> NoEnv, live |-> NotLive]

SetupInit ==
  /\ fsBounds \in SetupBounds
  /\ facade = IF fsBounds.start = "absent" THEN Absent ELSE Ready(fsBounds.start)
  /\ setup = [c \in SetupCallers |-> AtRestSetup]

FsSpend(field) == /\ fsBounds[field] > 0
                  /\ fsBounds' = [fsBounds EXCEPT ![field] = @ - 1]
SetupTo(c, s) == setup' = [setup EXCEPT ![c] = s]
SetupTold(c, told) == SetupTo(c, [setup[c] EXCEPT !.at = "idle", !.undo = FALSE, !.told = told])

-----------------------------------------------------------------------------
(* What is decided from what was read *)

\* The action for an existing application and a request: the transitions that would
\* sever the backend are left to the coordinator.
managedFrontDoorAction(app, req) ==
  CASE app.domain = "" -> "reconcile"
    [] app.domain = "legacy" /\ req.domain = "temporary" /\ req.url = "public" -> "rename-temporary"
    [] app.domain = req.domain -> "reconcile"
    [] app.domain \notin {"", req.domain} /\ ~(app.domain = "legacy" /\ req.domain = "temporary" /\ req.url = "public") -> "refused"

SetupAction(app, req) == IF app.there THEN managedFrontDoorAction(app, req) ELSE "create"

\* authenticatedManagedCatalog: the single entry's authenticated value.
authenticatedCatalog(entries) == IF entries = <<>> THEN "" ELSE entries[1]

\* planManagedFrontDoorCatalogTransition: empty when it refuses.
planManagedFrontDoorCatalogTransition(env, requested) ==
  LET primary == authenticatedCatalog(env.expected)
      transition == authenticatedCatalog(env.transition)
      Plan(p, t, r, ch) == {[primary |-> p, transition |-> t, remove |-> r, changed |-> ch]}
  IN IF Len(env.expected) > 1 \/ Len(env.transition) > 1 \/ (primary = "" /\ transition # "")
        \/ (primary # "" /\ transition = primary) THEN {}
     ELSE IF primary = "" THEN Plan(requested, "", FALSE, TRUE)
     ELSE IF primary = requested THEN Plan(primary, "", transition # "", transition # "")
     ELSE IF transition \notin {"", requested} THEN {}
     ELSE Plan(requested, primary, FALSE, TRUE)

-----------------------------------------------------------------------------
(* The preview *)

\* A call begins when the deployment of an earlier one has ended.
StartSetupPreview(c) ==
  /\ setup[c].at = "idle" /\ ~facade.deploying /\ c \in fsBounds.callers /\ FsSpend("jobs")
  /\ \E r \in fsBounds.requests : SetupTo(c, [AtRestSetup EXCEPT !.at = "preview-sha", !.req = r])
  /\ UNCHANGED facade

PreviewSha(c) ==
  /\ setup[c].at = "preview-sha"
  /\ SetupTo(c, [setup[c] EXCEPT !.at = "preview-app", !.plan.sha = facade.sha])
  /\ UNCHANGED <<fsBounds, facade>>

\* managedFrontDoorApp: found by name; several are ambiguous.
managedFrontDoorApp(f) ==
  IF f.apps = 0 THEN NoApp ELSE [there |-> TRUE, domain |-> f.domain, commit |-> f.live.commit]

PreviewApp(c) ==
  /\ setup[c].at = "preview-app"
  /\ LET app == managedFrontDoorApp(facade)
         action == SetupAction(app, setup[c].req)
         catalogs == [NoCatalogs EXCEPT !.primary = setup[c].req.catalog]
     IN IF facade.apps > 1 \/ action = "refused" THEN SetupTold(c, "refused")
        ELSE SetupTo(c, [setup[c] EXCEPT !.at = IF action = "reconcile" THEN "preview-env" ELSE "planned", !.app = app,
                                         !.plan = [@ EXCEPT !.action = action, !.domain = app.domain, !.catalogs = catalogs]])
  /\ UNCHANGED <<fsBounds, facade>>

PreviewEnv(c) ==
  /\ setup[c].at = "preview-env"
  /\ LET plan == planManagedFrontDoorCatalogTransition(facade.env, setup[c].req.catalog)
     IN IF plan = {} THEN SetupTold(c, "refused")
        ELSE \E p \in plan : SetupTo(c, [setup[c] EXCEPT !.at = "planned", !.plan.catalogs = p])
  /\ UNCHANGED <<fsBounds, facade>>

\* The caller approves a plan only when the catalogs it shows admit the backend's.
Approvable(c) ==
  \/ setup[c].plan.action = "rename-temporary"
  \/ facade.backend \in {setup[c].plan.catalogs.primary, setup[c].plan.catalogs.transition}

-----------------------------------------------------------------------------
(* The execution *)

Executing(c) == setup[c].at \notin {"idle", "planned", "preview-sha", "preview-app", "preview-env"}

\* The plan is spent, the branch read again.
StartSetup(c) ==
  /\ setup[c].at = "planned" /\ Approvable(c)
  /\ IF facade.sha # setup[c].plan.sha THEN SetupTold(c, "refused")
     ELSE setup' = [d \in SetupCallers |->
                      IF d = c THEN [setup[c] EXCEPT !.at = "app", !.alone = \A e \in SetupCallers \ {c} : ~Executing(e)]
                      ELSE [setup[d] EXCEPT !.alone = @ /\ ~Executing(d)]]
  /\ UNCHANGED <<fsBounds, facade>>

SetupReadsApp(c) ==
  /\ setup[c].at = "app"
  /\ LET app == managedFrontDoorApp(facade)
         action == SetupAction(app, setup[c].req)
     IN IF facade.apps > 1 \/ (setup[c].plan.action = "reconcile" /\ ~app.there)
           \/ (app.there /\ (action # setup[c].plan.action \/ app.domain # setup[c].plan.domain))
        THEN SetupTold(c, "refused")
        ELSE SetupTo(c, [setup[c] EXCEPT !.app = app,
               !.at = CASE action = "create" -> "create" [] action = "rename-temporary" -> "rename" [] action = "reconcile" -> "env"])
  /\ UNCHANGED <<fsBounds, facade>>

\* The catalog decision is made again and must come out as reviewed.
SameCatalogPlan(plan, planned) == plan = {planned}

SetupReadsEnv(c) ==
  /\ setup[c].at = "env"
  /\ LET plan == planManagedFrontDoorCatalogTransition(facade.env, setup[c].req.catalog)
     IN IF ~SameCatalogPlan(plan, setup[c].plan.catalogs) THEN SetupTold(c, "refused")
        ELSE SetupTo(c, [setup[c] EXCEPT !.at = "domain", !.plan.catalogs = CHOOSE p \in plan : TRUE])
  /\ UNCHANGED <<fsBounds, facade>>

createManagedFrontDoorApp(f) == [f EXCEPT !.apps = @ + 1]

CreateFrontDoor(c) ==
  /\ setup[c].at = "create" /\ facade.apps < 2
  /\ facade' = createManagedFrontDoorApp(facade)
  /\ SetupTo(c, [setup[c] EXCEPT !.at = "domain", !.app = [there |-> TRUE, domain |-> "", commit |-> 0],
                                 !.plan.catalogs = [NoCatalogs EXCEPT !.primary = setup[c].req.catalog]])
  /\ UNCHANGED fsBounds

ensureManagedFrontDoorDomain(c) ==
  /\ setup[c].at = "domain"
  /\ IF setup[c].app.domain = setup[c].req.domain
     THEN SetupTo(c, [setup[c] EXCEPT !.at = "remove"]) /\ UNCHANGED facade
     ELSE /\ setup[c].app.domain = ""
          /\ facade' = [facade EXCEPT !.domain = setup[c].req.domain]
          /\ SetupTo(c, [setup[c] EXCEPT !.at = "remove"])
  /\ UNCHANGED fsBounds

\* deleteEnvironmentVariable, when the plan removes the transition catalog.
RemoveTransition(c) ==
  /\ setup[c].at = "remove"
  /\ IF setup[c].plan.catalogs.remove /\ facade.env.transition = <<>> THEN SetupTold(c, "error") /\ UNCHANGED facade
     ELSE /\ facade' = [facade EXCEPT !.env.transition = IF setup[c].plan.catalogs.remove THEN Tail(@) ELSE @]
          /\ SetupTo(c, [setup[c] EXCEPT !.at = "list"])
  /\ UNCHANGED fsBounds

\* setEnvironmentVariables lists once and then writes each key in turn.
ListEnvironment(c) ==
  /\ setup[c].at = "list"
  /\ IF \E k \in DOMAIN facade.env : Len(facade.env[k]) > 1 THEN SetupTold(c, "error")
     ELSE SetupTo(c, [setup[c] EXCEPT !.at = "url", !.listed = facade.env])
  /\ UNCHANGED <<fsBounds, facade>>

ValueFor(c, k) == CASE k = "url" -> setup[c].req.url
                    [] k = "expected" -> setup[c].plan.catalogs.primary
                    [] k = "transition" -> setup[c].plan.catalogs.transition

\* A key that was listed is patched, another one is posted.
Written(entries, listed, value) ==
  IF listed = <<>> THEN Append(entries, value) ELSE [i \in DOMAIN entries |-> value]

NextKey(k) == CASE k = "url" -> "expected" [] k = "expected" -> "transition" [] k = "transition" -> "deploy"

WriteKey(c) ==
  /\ setup[c].at \in {"url", "expected", "transition"}
  /\ LET k == setup[c].at
     IN /\ facade' = IF ValueFor(c, k) = "" THEN facade
                     ELSE [facade EXCEPT !.env[k] = Written(@, setup[c].listed[k], ValueFor(c, k))]
        /\ SetupTo(c, [setup[c] EXCEPT !.at = NextKey(k)])
  /\ UNCHANGED fsBounds

\* The deployment is skipped for an unchanged catalog on a front door at the commit.
DeploySkipped(c) == setup[c].app.commit = setup[c].plan.sha /\ ~setup[c].plan.catalogs.changed

FinishSetup(c) ==
  /\ setup[c].at = "deploy"
  /\ IF DeploySkipped(c) THEN SetupTold(c, "skipped") /\ UNCHANGED facade
     ELSE SetupTold(c, "deployed") /\ facade' = [facade EXCEPT !.deploying = TRUE]
  /\ UNCHANGED fsBounds

-----------------------------------------------------------------------------
(* rename-temporary, and its way back *)

RenameTarget(c) == IF setup[c].undo THEN "legacy" ELSE "temporary"

\* patchAndDeployManagedFrontDoorDomain: the domain, then one deployment that is awaited.
PatchRenamed(c) ==
  /\ setup[c].at = "rename"
  /\ facade' = [facade EXCEPT !.domain = RenameTarget(c)]
  /\ SetupTo(c, [setup[c] EXCEPT !.at = "rename-deploy"])
  /\ UNCHANGED fsBounds

DeployRenamed(c) ==
  /\ setup[c].at = "rename-deploy"
  /\ facade' = [facade EXCEPT !.deploying = TRUE]
  /\ SetupTo(c, [setup[c] EXCEPT !.at = "rename-wait"])
  /\ UNCHANGED fsBounds

waitManagedDeployment(c) ==
  /\ setup[c].at = "rename-wait" /\ ~facade.deploying
  /\ SetupTo(c, [setup[c] EXCEPT !.at = "rename-probe"])
  /\ UNCHANGED <<fsBounds, facade>>

\* probeManagedOrigin: the front door answers there, at the commit, its backend ready
\* with the expected catalog.
FrontAnswers(f, origin, sha, catalog) ==
  /\ f.live.domain = origin /\ f.live.commit = sha
  /\ f.backend \in f.live.catalogs /\ f.backend = catalog

\* What follows a step of the renaming that went well, or not.
RenameEnds(c, ok) ==
  IF setup[c].undo THEN SetupTold(c, IF ok THEN "restored" ELSE "unrestored") ELSE IF ok THEN SetupTold(c, "renamed")
  ELSE SetupTo(c, [setup[c] EXCEPT !.at = "rename", !.undo = TRUE])

ProbeRenamed(c) ==
  /\ setup[c].at = "rename-probe"
  /\ RenameEnds(c, FrontAnswers(facade, RenameTarget(c), setup[c].plan.sha, setup[c].req.catalog))
  /\ UNCHANGED <<fsBounds, facade>>

-----------------------------------------------------------------------------
(* Failures, and Coolify *)

Renaming(c) == setup[c].at \in {"rename", "rename-deploy", "rename-wait", "rename-probe"}

\* The effect of the request a caller is at, for a reply that is lost.
LostEffect(c) ==
  LET at == setup[c].at
  IN CASE at = "create" -> createManagedFrontDoorApp(facade)
       [] at = "rename" -> [facade EXCEPT !.domain = RenameTarget(c)]
       [] at \in {"rename-deploy", "deploy"} -> [facade EXCEPT !.deploying = TRUE]
       [] at \in {"url", "expected"} -> [facade EXCEPT !.env[at] = Written(@, setup[c].listed[at], ValueFor(c, at))]
       [] at \notin {"create", "rename", "rename-deploy", "deploy", "url", "expected"} -> facade

\* A request fails, with or without its effect; a renaming is undone.
SetupRequestFails(c) ==
  /\ setup[c].at \notin {"idle", "planned"} /\ FsSpend("faults")
  /\ facade' \in {facade, LostEffect(c)} /\ facade'.apps <= 2
  /\ IF Renaming(c) THEN RenameEnds(c, FALSE) ELSE SetupTold(c, "error")

\* The server restarts: the call is gone, and the plan with it.
SetupRestarts ==
  /\ FsSpend("faults") /\ \E c \in SetupCallers : setup[c].at # "idle"
  /\ setup' = [c \in SetupCallers |-> [AtRestSetup EXCEPT !.told = IF setup[c].at = "idle" THEN setup[c].told ELSE "none"]]
  /\ UNCHANGED facade

CatalogsOf(env) == {env.expected[i] : i \in DOMAIN env.expected} \cup {env.transition[i] : i \in DOMAIN env.transition}

DeploymentFinishes ==
  /\ facade.deploying
  /\ facade' = [facade EXCEPT !.deploying = FALSE,
       !.live = [commit |-> facade.sha, url |-> authenticatedCatalog(facade.env.url), domain |-> facade.domain,
                 catalogs |-> CatalogsOf(facade.env)]]
  /\ UNCHANGED <<fsBounds, setup>>

DeploymentFails ==
  /\ facade.deploying /\ FsSpend("faults")
  /\ facade' = [facade EXCEPT !.deploying = FALSE]
  /\ setup' = [c \in SetupCallers |->
       IF setup[c].at # "rename-wait" THEN setup[c]
       ELSE IF setup[c].undo THEN [setup[c] EXCEPT !.at = "idle", !.undo = FALSE, !.told = "unrestored"]
       ELSE [setup[c] EXCEPT !.at = "rename", !.undo = TRUE]]

\* The backend takes the next catalog once the front door admits both.
BackendTakesNext ==
  /\ facade.backend = "A" /\ "B" \in facade.live.catalogs /\ ~facade.deploying
  /\ \A c \in SetupCallers : setup[c].at = "idle"
  /\ facade' = [facade EXCEPT !.backend = "B"]
  /\ UNCHANGED <<fsBounds, setup>>

StableBranchMoves ==
  /\ FsSpend("pushes")
  /\ facade' = [facade EXCEPT !.sha = @ + 1]
  /\ UNCHANGED setup

SetupNext ==
  \/ \E c \in SetupCallers :
       \/ StartSetupPreview(c) \/ PreviewSha(c) \/ PreviewApp(c) \/ PreviewEnv(c) \/ StartSetup(c)
       \/ SetupReadsApp(c) \/ SetupReadsEnv(c) \/ CreateFrontDoor(c) \/ ensureManagedFrontDoorDomain(c)
       \/ RemoveTransition(c) \/ ListEnvironment(c) \/ WriteKey(c) \/ FinishSetup(c)
       \/ PatchRenamed(c) \/ DeployRenamed(c) \/ waitManagedDeployment(c) \/ ProbeRenamed(c)
       \/ SetupRequestFails(c)
  \/ SetupRestarts \/ DeploymentFinishes \/ DeploymentFails \/ BackendTakesNext \/ StableBranchMoves

SetupSpec == SetupInit /\ [][SetupNext]_fsVars

-----------------------------------------------------------------------------
(* Properties *)

\* However calls overlap or break off, a front door that was live admits the catalog its
\* backend serves: the pins never move past the backend.
LiveAdmitsBackend == facade.live # NotLive => facade.backend \in facade.live.catalogs

\* A second application of the managed name, which makes every later call refuse, takes
\* two executions that overlap.
OneFrontDoor ==
  [][facade'.apps > facade.apps /\ facade'.apps > 1 =>
       \E c \in SetupCallers : setup[c].at = "create" /\ ~setup[c].alone]_fsVars

\* A renaming reported as undone, with no word of a failed compensation, left the front
\* door answering on the origin it had.
RestoredAnswers ==
  [][\A c \in SetupCallers :
       setup'[c].told = "restored" /\ setup[c].told # "restored" => facade.domain = "legacy" /\ facade.live.domain = "legacy"]_fsVars

\* Pins are written only as the caller reviewed them.
WritesReviewed ==
  [][\A c \in SetupCallers : setup[c].at = "env" /\ setup'[c].at = "domain" => setup'[c].plan = setup[c].plan]_fsVars

=============================================================================
