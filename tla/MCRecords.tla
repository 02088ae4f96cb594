----------------------------- MODULE MCRecords ------------------------------
(***************************************************************************)
(* The stores, journals and reviewed actions for TLC: what the server and  *)
(* an Edge keep on disk or in a checkout and change in several steps. A    *)
(* behaviour belongs to one component, which `part` names; the others      *)
(* rest. The components share no state, so this is their union and not     *)
(* their product. Each has a set of bound records, one for each            *)
(* combination of faults worth meeting together.                           *)
(***************************************************************************)
EXTENDS TaskRecords, ServerStores, ServerRecords, ReviewedActions,
        SignedRequests, EdgeRelease, ProjectSources, ProjectWorkspaces

CONSTANTS
  Parts,
  s1,
  s2,
  c1,
  c2,
  l1

VARIABLE part

Review(sources, contract, judged, edits, commits, calls, restarts, reboots) ==
  [sources |-> sources, contract |-> contract, judged |-> judged, edits |-> edits,
   commits |-> commits, calls |-> calls, restarts |-> restarts, reboots |-> reboots]

\* Task evidence: a worker under a test against edits, a commit and an Edge
\* restart; one under a Git contract; two that an integration pins, with either
\* contract.
Reviews == {Review(<<s1>>, "objective", FALSE, 1, 1, 2, 0, 1),
            Review(<<s1>>, "objective", FALSE, 2, 0, 3, 0, 0),
            Review(<<s1>>, "git", FALSE, 2, 1, 3, 1, 0),
            Review(<<s1, s2>>, "git", TRUE, 1, 1, 2, 1, 0),
            Review(<<s1, s2>>, "git", TRUE, 0, 1, 3, 1, 0),
            Review(<<s1, s2>>, "objective", TRUE, 0, 1, 3, 0, 0)}

\* Task journal and console: one call and two connections over a live journal;
\* the same with the legacy import and a restart; and the paging client with
\* ageing.
Live == [view |-> "stream", calls |-> {c1, c2}, legacy |-> {}, events |-> 3,
         beats |-> 0, crashes |-> 0, time |-> 0, streams |-> 2]
Journals ==
  {Live,
   [Live EXCEPT !.calls = {c2}, !.legacy = {l1}, !.events = 4, !.beats = 1, !.crashes = 1, !.streams = 1],
   [Live EXCEPT !.view = "pages", !.legacy = {l1}, !.events = 4, !.beats = 1, !.time = 1, !.streams = 0]}

Access(starts, logins, pairs, faults, crashes, lapses, ages, wrong, console, overlap) ==
  [starts |-> starts, logins |-> logins, pairs |-> pairs, faults |-> faults, crashes |-> crashes,
   lapses |-> lapses, ages |-> ages, wrong |-> wrong, console |-> console, overlap |-> overlap]

\* The OAuth store: failing writes and a crash; a console login and an expiry;
\* the grant limit; two backends that overlap without expiry; wrong passphrases
\* and ageing registrations.
Accesses == {Access(2, 1, 2, 2, 1, 0, 0, 0, FALSE, FALSE), Access(1, 2, 3, 1, 0, 1, 0, 0, TRUE, FALSE),
             Access(1, 1, 4, 2, 0, 2, 0, 0, FALSE, FALSE), Access(2, 2, 3, 0, 0, 0, 0, 0, FALSE, TRUE),
             Access(2, 2, 1, 1, 1, 0, 2, 2, FALSE, FALSE)}

Noting(writes, faults, crashes, edits, commits, limit, instances) ==
  [writes |-> writes, faults |-> faults, crashes |-> crashes, edits |-> edits,
   commits |-> commits, limit |-> limit, instances |-> instances]

\* Brain notes: failing steps under a foreign commit; a crash with a foreign
\* edit; the note limit; and two server instances that create the console key.
Notings == {Noting(2, 2, 0, 0, 1, 2, {}), Noting(2, 0, 1, 1, 1, 2, {}), Noting(2, 1, 1, 1, 0, 2, {}),
            Noting(2, 0, 1, 0, 0, 1, {}), Noting(0, 0, 2, 0, 0, 1, Instances)}

Counting(calls, kinds, ticks, faults, crashes, reads, legacy) ==
  [calls |-> calls, kinds |-> kinds, ticks |-> ticks, faults |-> faults, crashes |-> crashes,
   reads |-> reads, turns |-> 1, legacy |-> legacy]
ActivityWindows == <<2, 4, 8, 12>>

\* Telemetry: a long time with a legacy table; two calls in one window; every
\* kind with a failing write and a crash; a call over stdio.
Countings == {Counting(1, {"httpTool"}, 13, 0, 0, 1, TRUE), Counting(2, {"httpTool"}, 3, 0, 0, 1, FALSE),
              Counting(2, TelemetryKinds, 2, 1, 1, 0, TRUE), Counting(1, {"stdioTool"}, 7, 0, 1, 0, FALSE)}

Logging(events, sizes, durations, faults, torn, crashes) ==
  [events |-> events, sizes |-> sizes, durations |-> durations, faults |-> faults,
   torn |-> torn, crashes |-> crashes]

\* The event log: a failing rotation; restarts; a torn line; and a full sample
\* of durations.
Loggings == {Logging(5, {1, 2}, {1}, 1, 0, 0), Logging(6, {2}, {1}, 0, 0, 2),
             Logging(4, {1, 2, 3}, {1}, 0, 1, 1), Logging(5, {1}, {1, 2, 3}, 0, 0, 0)}

Keeping(contents, limits, puts, ticks, faults, crashes) ==
  [contents |-> contents, limits |-> limits, puts |-> puts, ticks |-> ticks,
   faults |-> faults, crashes |-> crashes]

\* The result store: fragments of characters of several widths; three results
\* over the quota; failing writes and a restart.
Keepings == {Keeping({<<1, 2>>, <<2, 1, 1>>, <<1, 3>>}, {0, 1, 2, 3}, 1, 1, 0, 0),
             Keeping({<<1>>, <<3>>}, {}, 3, 1, 0, 0), Keeping({<<2>>}, {4}, 3, 1, 1, 1)}

Action(kind, previews, executions, edits, facts, faults, restarts, lapses) ==
  [kind |-> kind, previews |-> previews, executions |-> executions, edits |-> edits,
   facts |-> facts, faults |-> faults, restarts |-> restarts, lapses |-> lapses]

\* Reviewed source actions: every kind of action, with the facts of the
\* repository that change meanwhile, a lost answer, a restart or an expiry.
Actions == {
  Action("fork", 1, 1, 1, {"upstream", "fork"}, 1, 0, 0), Action("issue", 1, 2, 1, {"upstream"}, 1, 1, 1),
  Action("comment", 2, 2, 1, {"upstream", "issue"}, 1, 0, 0),
  Action("crosspr", 1, 1, 2, {"upstream", "fork", "head", "base", "pull"}, 0, 0, 0),
  Action("reply", 1, 2, 1, {"upstream", "head", "pull", "thread"}, 1, 0, 0),
  Action("pr", 1, 2, 2, {"head", "base", "pull"}, 0, 0, 0), Action("merge", 1, 2, 2, {"head", "pull", "red"}, 1, 0, 0),
  Action("default", 1, 2, 1, {"default", "head"}, 1, 0, 1), Action("dispatch", 1, 2, 1, {"flow", "head"}, 1, 1, 0),
  Action("remote", 1, 2, 1, {"remote"}, 0, 0, 1)}

NoJobs == [n \in {} |-> <<>>]
GatheredEvidence(from, list, runs, jobs, statuses, bad, required, contexts) ==
  [source |-> from, checks |-> list, runs |-> runs, jobs |-> jobs, statuses |-> statuses,
   states |-> [n \in CheckNames |-> IF n \in bad THEN "bad" ELSE "ok"],
   required |-> required, contexts |-> contexts, spare |-> {"z"}, starts |-> 1, turns |-> 1]
ByChecks(from, list, statuses, bad, required, contexts) ==
  GatheredEvidence(from, list, <<>>, NoJobs, statuses, bad, required, contexts)
Flow(n, flow, attempt, id) == [name |-> n, workflow |-> flow, attempt |-> attempt, id |-> id]
ByRuns(runs, jobs, statuses, bad, contexts) ==
  GatheredEvidence("actions", <<>>, runs, jobs, statuses, bad, "listed", contexts)

\* Check evidence: lists over several pages with a bad entry on any page, every
\* answer about the required contexts, and workflow runs with a later attempt.
Evidences ==
  {ByChecks(o, <<"a", "b", "c">>, st, bad, "listed", {"a"}) :
     o \in {"checks", "public"}, st \in {<<>>, <<"d">>, <<"d", "e", "f">>}, bad \in {{}, {"c"}}}
  \cup {ByChecks("checks", <<"a">>, <<>>, {}, rq, cx) :
          rq \in {"listed", "unavailable", "nofeature"}, cx \in {{"a"}, {"z"}}}
  \cup {ByChecks(o, <<>>, <<>>, {}, "listed", {}) : o \in {"checks", "public"}}
  \cup {ByRuns(<<Flow("r", 1, 1, 1), Flow("s", 2, 1, 2), Flow("t", 1, 2, 1)>>,
               [n \in {"r", "s", "t"} |-> IF n = "t" THEN <<"a", "b", "c">> ELSE IF n = "s" THEN <<"d">> ELSE <<>>],
               <<"e">>, bad, {"a"}) : bad \in {{}, {"r"}, {"b"}, {"s", "d"}}}
  \cup {ByRuns(<<Flow("r", 1, 1, 1)>>, [n \in {"r"} |-> <<>>], <<>>, {}, {}), ByRuns(<<>>, NoJobs, <<"e">>, {}, {})}

Run(sha, status) == [sha |-> sha, status |-> status, cancelled |-> FALSE]
Env(custom, protected, wait) == [custom |-> custom, protected |-> protected, wait |-> wait]
Maintaining(env, policies, runs, jobs, edits, changes, faults, starts) ==
  [env |-> env, policies |-> policies, runs |-> runs, jobs |-> jobs, edits |-> edits,
   changes |-> changes, faults |-> faults, starts |-> starts]
Old   == <<Run(1, "waiting"), Run(1, "in_progress"), Run(0, "none")>>
Mixed == <<Run(1, "waiting"), Run(2, "waiting"), Run(0, "none")>>

\* Release maintenance: a lost answer; policies and runs that change between
\* the preview and the execution; an operator's edit; a run that starts late.
Maintainings == {
  Maintaining(Env(FALSE, TRUE, 1), {}, Old, 2, 0, 0, 1, 0),
  Maintaining(Env(TRUE, FALSE, 0), {"other", "main"}, Mixed, 2, 1, 0, 0, 1),
  Maintaining(Env(FALSE, TRUE, 0), {"other"}, Mixed, 1, 0, 2, 0, 1),
  Maintaining(Env(FALSE, TRUE, 0), {"other"}, Mixed, 2, 1, 0, 1, 0),
  Maintaining(Env(TRUE, FALSE, 0), {"other"}, Mixed, 1, 2, 0, 0, 0)}

\* Signed requests run without bounds: their time is relative and saturates.

ServiceGenerations == <<"legacy", "neutral", "neutral">>
Updating(runs, faults, crashes, damages, moves) ==
  [runs |-> runs, faults |-> faults, crashes |-> crashes, damages |-> damages, moves |-> moves]

\* The bundle update: failing steps and a damaged release; a crash; and the
\* move from the legacy service to the neutral one.
Updates == {Updating(2, 2, 0, 1, 0), Updating(2, 1, 1, 1, 0), Updating(2, 1, 0, 0, 1)}

WinUpdating(runs, faults, crashes, moves, bounces) ==
  [runs |-> runs, faults |-> faults, crashes |-> crashes, moves |-> moves, bounces |-> bounces]

\* The Windows update: failing steps; crashes against a manual move and a
\* restarted service.
WinUpdates == {WinUpdating(2, 2, 0, 0, 1), WinUpdating(2, 1, 2, 1, 1), WinUpdating(3, 1, 1, 0, 0)}

Migrating(atomic, overlap, runs, faults, crashes) ==
  [atomic |-> atomic, overlap |-> overlap, runs |-> runs, faults |-> faults, crashes |-> crashes]

\* The state migration: with and without an atomic exchange, alone and with two
\* overlapping commands, one failing step and one crash.
Migrations == {Migrating(TRUE, FALSE, 3, 1, 1), Migrating(FALSE, FALSE, 3, 1, 1),
               Migrating(TRUE, TRUE, 2, 1, 1), Migrating(FALSE, TRUE, 2, 1, 1)}

Registering(start, kinds, ops, edits, crashes, clones) ==
  [start |-> start, kinds |-> kinds, ops |-> ops, edits |-> edits, crashes |-> crashes, clones |-> clones]

\* The project registry: preparations that race, meet a foreign clone, crash or
\* find a sibling checkout; a claimed or legacy workspace reconciled and released.
Registrations == {
  Registering("none", {"prepare"}, 2, 0, 0, 1), Registering("none", {"prepare"}, 2, 1, 0, 0), Registering("none", {"prepare"}, 2, 0, 1, 0),
  Registering("sibling", {"prepare"}, 2, 0, 0, 0),
  Registering("claimed", {"prepare", "reconcile", "release"}, 2, 1, 0, 0),
  Registering("legacy", {"prepare", "reconcile", "release"}, 3, 0, 0, 0)}

\* The same without a foreign clone, an edit or a crash.
TwoPreparations == {Registering("none", {"prepare"}, 2, 0, 0, 0)}

GitWork(start, kinds, calls, edits, pushes, rewrites, crashes, faults, windows, lapses) ==
  [start |-> start, kinds |-> kinds, calls |-> calls, edits |-> edits, pushes |-> pushes,
   rewrites |-> rewrites, crashes |-> crashes, faults |-> faults, windows |-> windows, lapses |-> lapses]
FetchForward == {"fetch", "preview_ff", "fast_forward"}
Publish == {"preview_publish", "publish"}
Develop == {"dev_preview", "dev_publish"}

\* Git synchronisation: fast-forwards against edits, pushes, rewrites and a
\* crash; publications of a branch that moves, from either side; development
\* publications and clones.
GitWorks == {
  GitWork("behind", FetchForward, 3, 1, 1, FALSE, 0, 0, FALSE, 0), GitWork("behind", FetchForward, 3, 0, 1, TRUE, 0, 0, TRUE, 0),
  GitWork("unborn", FetchForward, 3, 1, 0, FALSE, 1, 0, FALSE, 0), GitWork("ahead", Publish, 3, 1, 1, FALSE, 0, 0, FALSE, 0),
  GitWork("ahead", Publish, 3, 1, 0, FALSE, 0, 0, TRUE, 0), GitWork("ahead", Publish, 3, 0, 0, FALSE, 1, 0, FALSE, 1),
  GitWork("new", Publish \cup {"fetch"}, 3, 0, 1, FALSE, 0, 0, FALSE, 0),
  GitWork("ahead", Develop \cup Publish, 3, 1, 0, FALSE, 0, 0, FALSE, 0), GitWork("ahead", Develop, 3, 0, 1, FALSE, 1, 0, FALSE, 1),
  GitWork("absent", Develop \cup {"dev_clone"}, 3, 1, 0, FALSE, 0, 1, FALSE, 0)}

Box(ready, kinds, ops, ages, sids, faults, lost, crashes, edits, turns) ==
  [ready |-> ready, kinds |-> kinds, ops |-> ops, ages |-> ages, sids |-> sids, sid |-> 0, faults |-> faults,
   lost |-> lost, crashes |-> crashes, edits |-> edits, turns |-> turns, hurt |-> FALSE]
ToolboxEngines == <<"docker", "podman">>

\* The toolbox: creations and cleanups; a replacement whose mounts, name or
\* limits were changed by hand; a moved workspace; services.
Boxes == {
  Box(FALSE, {"create", "cleanup"}, 3, 3, 0, 1, 0, 0, {"client"}, 0),
  Box(FALSE, {"create"}, 2, 2, 0, 0, 1, 1, {"engine"}, 1),
  Box(TRUE, {"repair", "exec"}, 2, 2, 0, 1, 0, 0, {"mounts", "rename", "limits"}, 1),
  Box(TRUE, {"repair"}, 2, 2, 0, 0, 0, 1, {"mounts", "limits"}, 2),
  Box(TRUE, {"repair", "exec", "cleanup"}, 2, 2, 0, 0, 1, 1, {"mounts", "limits", "workspace"}, 1),
  Box(TRUE, {"cleanup", "create", "exec"}, 2, 2, 0, 1, 0, 1, {"remove", "rename", "client", "stop"}, 1),
  Box(TRUE, {"service_start", "service_stop", "service_status"}, 3, 0, 1, 1, 0, 0, {"stop", "exit"}, 1),
  Box(TRUE, {"service_start", "service_stop", "repair"}, 2, 1, 1, 0, 0, 1, {"mounts", "client"}, 1)}

Uses(a, b) == [u \in {"u", "v"} |-> IF u = "u" THEN a ELSE b]
TreeUse(kind, kinds, creates, cleans, edits, faults, crashes) ==
  [kind |-> kind, kinds |-> kinds, creates |-> creates, cleans |-> cleans,
   edits |-> edits, faults |-> faults, crashes |-> crashes]

\* Worktrees of tasks and of direct work: every kind of command inside, two
\* cleanups that overlap, edits, failing steps and a crash.
TreeUses == {
  TreeUse("task", Uses("process", "none"), 1, 2, 0, 0, 1), TreeUse("task", Uses("process", "none"), 1, 1, 1, 0, 0),
  TreeUse("task", Uses("toolbox", "runtime"), 1, 1, 0, 0, 1), TreeUse("task", Uses("process", "exec"), 1, 1, 0, 1, 0),
  TreeUse("direct", Uses("process", "exec"), 1, 1, 1, 0, 0), TreeUse("direct", Uses("toolbox", "none"), 1, 2, 1, 1, 0),
  TreeUse("task", Uses("none", "none"), 2, 2, 0, 1, 1)}

recordsVars == <<part, evidenceVars, consoleVars, oaVars, bnVars, tmVars,
                 lgVars, rsVars, saVars, ceVars, rmVars, srVars, upVars,
                 wuVars, smVars, regVars, gitVars, tbVars, wrVars>>

\* One component moves; the others rest in one of their initial states.
Only(p, bounds, rest) == part = p \/ bounds = rest

RecordsInit ==
  /\ part \in Parts
  /\ EvidenceInit /\ Only("evidence", allowance, Review(<<s1>>, "git", FALSE, 2, 1, 3, 1, 0))
  /\ ConsoleInit /\ Only("console", spent.bound, Live)
  /\ OAuthInit /\ Only("oauth", oaBounds.lapses, 2)
  /\ BrainInit /\ Only("brain", bnBounds, Noting(2, 0, 1, 0, 0, 1, {}))
  /\ TmInit /\ Only("telemetry", tmBounds, Counting(1, {"stdioTool"}, 7, 0, 1, 0, FALSE))
  /\ LogInit /\ Only("log", lgBounds, Logging(6, {2}, {1}, 0, 0, 2))
  /\ ResultInit /\ Only("results", rsBounds, Keeping({<<2>>}, {4}, 3, 1, 1, 1))
  /\ SourceInit /\ Only("source", saBounds, Action("remote", 1, 2, 1, {"remote"}, 0, 0, 1))
  /\ CheckEvidenceInit /\ Only("checks", ceBounds, ByChecks("checks", <<>>, <<>>, {}, "listed", {}))
  /\ MaintenanceInit /\ Only("maintenance", rmBounds, Maintaining(Env(TRUE, FALSE, 0), {"other"}, Mixed, 1, 2, 0, 0, 0))
  /\ SrInit
  /\ UpdateInit /\ Only("bundle", ubBounds, Updating(2, 1, 1, 1, 0))
  /\ WinInit /\ Only("windows", wuBounds, WinUpdating(2, 2, 0, 0, 1))
  /\ SmInit /\ Only("migration", smBounds, Migrating(FALSE, FALSE, 3, 1, 1))
  /\ RegInit /\ Only("registry", prBounds, Registering("none", {"prepare"}, 2, 0, 1, 0))
  /\ GitInit /\ Only("git", gsBounds, GitWork("unborn", FetchForward, 3, 1, 0, FALSE, 1, 0, FALSE, 0))
  /\ ToolboxInit /\ Only("toolbox", tbBounds, Box(FALSE, {"create"}, 2, 2, 0, 0, 1, 1, {"engine"}, 1))
  /\ WrInit /\ Only("worktrees", wrBounds, TreeUse("task", Uses("none", "none"), 2, 2, 0, 1, 1))

RecordsNext ==
  \/ /\ part = "evidence" /\ EvidenceNext
     /\ UNCHANGED <<part, consoleVars, oaVars, bnVars, tmVars, lgVars,
                    rsVars, saVars, ceVars, rmVars, srVars, upVars, wuVars,
                    smVars, regVars, gitVars, tbVars, wrVars>>
  \/ /\ part = "console" /\ ConsoleNext
     /\ UNCHANGED <<part, evidenceVars, oaVars, bnVars, tmVars, lgVars,
                    rsVars, saVars, ceVars, rmVars, srVars, upVars, wuVars,
                    smVars, regVars, gitVars, tbVars, wrVars>>
  \/ /\ part = "oauth" /\ OAuthNext
     /\ UNCHANGED <<part, evidenceVars, consoleVars, bnVars, tmVars,
                    lgVars, rsVars, saVars, ceVars, rmVars, srVars, upVars,
                    wuVars, smVars, regVars, gitVars, tbVars, wrVars>>
  \/ /\ part = "brain" /\ BrainNext
     /\ UNCHANGED <<part, evidenceVars, consoleVars, oaVars, tmVars,
                    lgVars, rsVars, saVars, ceVars, rmVars, srVars, upVars,
                    wuVars, smVars, regVars, gitVars, tbVars, wrVars>>
  \/ /\ part = "telemetry" /\ TmNext
     /\ UNCHANGED <<part, evidenceVars, consoleVars, oaVars, bnVars,
                    lgVars, rsVars, saVars, ceVars, rmVars, srVars, upVars,
                    wuVars, smVars, regVars, gitVars, tbVars, wrVars>>
  \/ /\ part = "log" /\ LogNext
     /\ UNCHANGED <<part, evidenceVars, consoleVars, oaVars, bnVars,
                    tmVars, rsVars, saVars, ceVars, rmVars, srVars, upVars,
                    wuVars, smVars, regVars, gitVars, tbVars, wrVars>>
  \/ /\ part = "results" /\ ResultNext
     /\ UNCHANGED <<part, evidenceVars, consoleVars, oaVars, bnVars,
                    tmVars, lgVars, saVars, ceVars, rmVars, srVars, upVars,
                    wuVars, smVars, regVars, gitVars, tbVars, wrVars>>
  \/ /\ part = "source" /\ SourceNext
     /\ UNCHANGED <<part, evidenceVars, consoleVars, oaVars, bnVars,
                    tmVars, lgVars, rsVars, ceVars, rmVars, srVars, upVars,
                    wuVars, smVars, regVars, gitVars, tbVars, wrVars>>
  \/ /\ part = "checks" /\ CheckEvidenceNext
     /\ UNCHANGED <<part, evidenceVars, consoleVars, oaVars, bnVars,
                    tmVars, lgVars, rsVars, saVars, rmVars, srVars, upVars,
                    wuVars, smVars, regVars, gitVars, tbVars, wrVars>>
  \/ /\ part = "maintenance" /\ MaintenanceNext
     /\ UNCHANGED <<part, evidenceVars, consoleVars, oaVars, bnVars,
                    tmVars, lgVars, rsVars, saVars, ceVars, srVars, upVars,
                    wuVars, smVars, regVars, gitVars, tbVars, wrVars>>
  \/ /\ part = "signed" /\ SrNext
     /\ UNCHANGED <<part, evidenceVars, consoleVars, oaVars, bnVars,
                    tmVars, lgVars, rsVars, saVars, ceVars, rmVars, upVars,
                    wuVars, smVars, regVars, gitVars, tbVars, wrVars>>
  \/ /\ part = "bundle" /\ UpdateNext
     /\ UNCHANGED <<part, evidenceVars, consoleVars, oaVars, bnVars,
                    tmVars, lgVars, rsVars, saVars, ceVars, rmVars, srVars,
                    wuVars, smVars, regVars, gitVars, tbVars, wrVars>>
  \/ /\ part = "windows" /\ WinNext
     /\ UNCHANGED <<part, evidenceVars, consoleVars, oaVars, bnVars,
                    tmVars, lgVars, rsVars, saVars, ceVars, rmVars, srVars,
                    upVars, smVars, regVars, gitVars, tbVars, wrVars>>
  \/ /\ part = "migration" /\ SmNext
     /\ UNCHANGED <<part, evidenceVars, consoleVars, oaVars, bnVars,
                    tmVars, lgVars, rsVars, saVars, ceVars, rmVars, srVars,
                    upVars, wuVars, regVars, gitVars, tbVars, wrVars>>
  \/ /\ part = "registry" /\ RegNext
     /\ UNCHANGED <<part, evidenceVars, consoleVars, oaVars, bnVars,
                    tmVars, lgVars, rsVars, saVars, ceVars, rmVars, srVars,
                    upVars, wuVars, smVars, gitVars, tbVars, wrVars>>
  \/ /\ part = "git" /\ GitNext
     /\ UNCHANGED <<part, evidenceVars, consoleVars, oaVars, bnVars,
                    tmVars, lgVars, rsVars, saVars, ceVars, rmVars, srVars,
                    upVars, wuVars, smVars, regVars, tbVars, wrVars>>
  \/ /\ part = "toolbox" /\ ToolboxNext
     /\ UNCHANGED <<part, evidenceVars, consoleVars, oaVars, bnVars,
                    tmVars, lgVars, rsVars, saVars, ceVars, rmVars, srVars,
                    upVars, wuVars, smVars, regVars, gitVars, wrVars>>
  \/ /\ part = "worktrees" /\ WrNext
     /\ UNCHANGED <<part, evidenceVars, consoleVars, oaVars, bnVars,
                    tmVars, lgVars, rsVars, saVars, ceVars, rmVars, srVars,
                    upVars, wuVars, smVars, regVars, gitVars, tbVars>>

RecordsSpec ==
  /\ RecordsInit /\ [][RecordsNext]_recordsVars

\* What is kept of tasks: an objective is called tested, and a worktree
\* cleaned, only under evidence for the same head; the journal of calls loses
\* and repeats nothing, and its pages are complete.
TaskRecordsSafe ==
  /\ part = "evidence" => /\ EvidenceTypeOK /\ ObjectiveWasTested /\ CleanedUnderEvidence
                          /\ IntegratedAtOneHead
  /\ part = "console" => /\ ConsoleTypeOK /\ LogAgrees /\ ActiveKept /\ InsertedOnce /\ NoDuplicates
                         /\ PagesComplete

\* Grants and notes: no grant is loose, a token pair and an authorised client
\* are kept over a restart; a note that was acknowledged is whole, a failed
\* write restores what was there, and two instances agree on one console key.
ServerStoresSafe ==
  /\ part = "oauth" => /\ OAuthTypeOK /\ PairKept /\ NoLooseGrant /\ AuthorizedClientKept
  /\ part = "brain" => /\ AcknowledgedWhole /\ FailureRestoresPrior /\ IdleAgrees /\ OneConsoleKey

\* Counters, logs and results: lifetime totals are exact and windows nest, a
\* log keeps a bounded tail and tells its failures, and stored results respect
\* their quota and are read back exactly.
ServerRecordsSafe ==
  /\ part = "telemetry" => /\ LifetimeExact /\ RequestsCountedOnce /\ WindowsNest
  /\ part = "log" => /\ RetainedIsTail /\ SegmentsBounded /\ FailuresTell /\ SummaryRecent
  /\ part = "results" => /\ QuotaKept /\ PagesExact


\* An installed Edge changing itself: the links always name a bundle, the
\* markers of a transaction tell its state and leave it decidable, and a
\* migration keeps both the state and its evidence.
ReleaseSafe ==
  /\ part = "bundle" => /\ UpdateTypeOK /\ LinksPresent
  /\ part = "windows" => /\ WinTypeOK /\ MarkersTell /\ PendingDecidable
  /\ part = "migration" => /\ StateKept /\ EvidenceKept

\* Checkouts: a project that resolves was inspected, a failed preparation
\* leaves nothing, a Git plan is spent once, and what is reported as published
\* is what was planned and is there.
SourcesSafe ==
  /\ part = "registry" => /\ RegTypeOK /\ ResolvableInspected /\ FailedPreparationClean
  /\ part = "git" => /\ GitTypeOK /\ PlanSpentOnce /\ SuccessExact /\ BrokerSendsPlanned

\* Toolboxes and worktrees: one toolbox for a workspace, a failed replacement
\* restores it, the roots of a live process are kept, and a removal happens
\* once, resumes, and its receipt is true.
WorkspacesSafe ==
  /\ part = "toolbox" => /\ TbTypeOK /\ OneToolbox /\ FailedReplacementRestores
  /\ part = "worktrees" => /\ WrTypeOK /\ RootsKeptForLive /\ RemovedOnce /\ ReceiptTrue
                           /\ InterruptedRemovalResumes /\ FailedCreateLeavesNothing

=============================================================================
