---------------------------- MODULE EdgeRelease -----------------------------
(***************************************************************************)
(* How an installed Edge changes on its own machine: the bundle updater on *)
(* Linux, the updater on Windows, and the migration of the state           *)
(* directory. Each part has its own variables and its own specification.   *)
(***************************************************************************)
EXTENDS Naturals

-----------------------------------------------------------------------------
(***************************************************************************)
(* The privileged bundle updater of a Linux Edge (cmd/mcp-bundle-updater    *)
(* and internal/edgeupdate): update to the stable channel, rollback and     *)
(* repair of the signed releases below /opt/mcp-devbox, the current and     *)
(* previous links, and the service unit of the release's generation.        *)
(*                                                                         *)
(* Releases are numbered in the order CompareRelease gives them. A release  *)
(* directory is good, bad (its manifest does not verify) or missing.        *)
(* Update and rollback hold the updater's file lock; repair holds none.     *)
(***************************************************************************)

CONSTANTS Generation,   \* the service generation of each release
          Updaters,     \* updater processes
          UpdateBounds  \* records [runs, faults, crashes, damages, moves]

Bundles == DOMAIN Generation
NoBundle == 0
Units == {"legacy", "neutral"}
OtherUnit(u) == IF u = "legacy" THEN "neutral" ELSE "legacy"

VARIABLES ubBounds, \* what may still happen
          stable,   \* the release the signed channel names
          dir,      \* release directories: "good", "bad", "none", or "aside" (moved away)
          link,     \* [cur, prev]
          svc,      \* services by generation: [on, run], run the release that runs
          upd       \* updater processes

upVars == <<ubBounds, stable, dir, link, svc, upd>>

BundleIdle == [op |-> "none", pc |-> "idle", new |-> NoBundle, old |-> NoBundle, prev |-> NoBundle,
               unit |-> "legacy", replace |-> FALSE, undo |-> "", was |-> NoBundle, result |-> "", calm |-> TRUE]
Goto(p, pc) == [upd EXCEPT ![p].pc = pc]
Result(p, r) == [upd EXCEPT ![p].pc = "idle", ![p].op = "none", ![p].result = r]
Locked == \E p \in Updaters : upd[p].pc \notin {"idle", "status", "fix", "check"}
BundleFault == ubBounds.faults > 0 /\ ubBounds' = [ubBounds EXCEPT !.faults = @ - 1]
\* A link's release directory is there; whether it verifies is another question.
BundlePresent(r) == r # NoBundle /\ dir[r] \in {"good", "bad"}
Trusted(r) == r # NoBundle /\ dir[r] = "good"
BundleStatusReadable == \A r \in {link.cur, link.prev} \ {NoBundle} : BundlePresent(r)
BundleOlder(r, s) == s # NoBundle /\ r < s

UpdateInit ==
  /\ ubBounds \in UpdateBounds
  /\ stable = 2
  /\ dir = [r \in Bundles |-> IF r = 1 THEN "good" ELSE "none"]
  /\ link = [cur |-> 1, prev |-> NoBundle]
  /\ svc = [u \in Units |-> IF u = Generation[1] THEN [on |-> TRUE, run |-> 1] ELSE [on |-> FALSE, run |-> NoBundle]]
  /\ upd = [p \in Updaters |-> BundleIdle]

-----------------------------------------------------------------------------
(* The service. *)

\* InstallUnit up to its k-th step: links, unit and enabling; the other generation is
\* disabled and stopped; the historical units are retired.
InstallUnit(r, k) ==
  [u \in Units |->
     CASE k >= 1 /\ u = Generation[r] -> [svc[u] EXCEPT !.on = TRUE]
       [] k >= 2 /\ u # Generation[r] -> [on |-> FALSE, run |-> NoBundle]
       [] OTHER -> svc[u]]
InstallSteps == 3
\* serviceBaseFromEvidence: the generation of a trusted active bundle, otherwise the newest unit.
ServiceBase ==
  IF Trusted(link.cur) THEN Generation[link.cur]
  ELSE IF svc["neutral"].on THEN "neutral" ELSE "legacy"
\* A restarted service runs what the current link names.
Restarted(u) == [svc EXCEPT ![u].run = IF BundlePresent(link.cur) THEN link.cur ELSE NoBundle]

-----------------------------------------------------------------------------
(* Starting an operation. *)

StartOp(p, op) ==
  /\ ubBounds.runs > 0 /\ upd[p].pc = "idle"
  /\ ubBounds' = [ubBounds EXCEPT !.runs = @ - 1]
  /\ upd' = [q \in Updaters |->
       IF q = p
       THEN [BundleIdle EXCEPT !.op = op, !.pc = IF op = "repair" THEN "status" ELSE "begin", !.unit = ServiceBase,
                               !.was = svc[ServiceBase].run, !.prev = link.prev, !.old = link.cur,
                               !.calm = \A o \in Updaters : upd[o].pc = "idle"]
       ELSE [upd[q] EXCEPT !.calm = FALSE]]
  /\ UNCHANGED <<stable, dir, link, svc>>
\* Update and rollback take the updater lock; repair starts without it.
BundleBegin(p, op) ==
  /\ \/ op = "repair"
     \/ op # "repair" /\ ~Locked
  /\ StartOp(p, op)

-----------------------------------------------------------------------------
(* Install. *)

\* UpdateStable and the first part of Install: the links must be readable, an older stable
\* release is refused, and a valid active release is left alone.
BundleResolve(p) ==
  /\ upd[p].op \in {"update", "repair"} /\ upd[p].pc = "begin"
  /\ LET new == stable
         replace == link.cur = new IN
     upd' = IF ~BundleStatusReadable \/ BundleOlder(new, link.cur) THEN Result(p, "failed")
            ELSE IF replace /\ Trusted(new) THEN Result(p, "unchanged")
            ELSE [upd EXCEPT ![p].pc = "place", ![p].new = new, ![p].old = link.cur, ![p].replace = replace]
  /\ UNCHANGED <<ubBounds, stable, dir, link, svc>>

\* The signed release is staged and renamed into place; an invalid active one is moved
\* aside first; any other invalid directory is refused.
Place(p) ==
  /\ upd[p].pc = "place"
  /\ LET new == upd[p].new IN
     \/ dir[new] = "none" /\ dir' = [dir EXCEPT ![new] = "good"] /\ upd' = Goto(p, "previous")
     \/ dir[new] = "good" /\ upd' = Goto(p, "previous") /\ UNCHANGED dir
     \/ dir[new] = "bad" /\ upd[p].replace /\ dir' = [dir EXCEPT ![new] = "aside"] /\ upd' = Goto(p, "replaced")
     \/ dir[new] = "bad" /\ ~upd[p].replace /\ upd' = Result(p, "failed") /\ UNCHANGED dir
  /\ UNCHANGED <<ubBounds, stable, link, svc>>
PlaceReplacement(p) ==
  /\ upd[p].pc = "replaced"
  /\ dir' = [dir EXCEPT ![upd[p].new] = "good"]
  /\ upd' = Goto(p, "unit")
  /\ UNCHANGED <<ubBounds, stable, link, svc>>

\* The previous link is set to the active release, then the current link to the new one.
LinkPrevious(p) ==
  /\ upd[p].pc = "previous"
  /\ link' = IF upd[p].old # NoBundle THEN [link EXCEPT !.prev = upd[p].old] ELSE link
  /\ upd' = Goto(p, "current")
  /\ UNCHANGED <<ubBounds, stable, dir, svc>>
LinkCurrent(p) ==
  /\ upd[p].pc = "current"
  /\ link' = [link EXCEPT !.cur = upd[p].new]
  /\ upd' = Goto(p, "unit")
  /\ UNCHANGED <<ubBounds, stable, dir, svc>>
\* atomicLink fails: Install returns without undoing anything.
LinkFails(p) ==
  /\ upd[p].pc \in {"previous", "current"} /\ BundleFault
  /\ upd' = Result(p, "failed")
  /\ UNCHANGED <<stable, dir, link, svc>>

\* The unit of the new release; a failure may come after any of its steps.
ActivateUnit(p) ==
  /\ upd[p].op # "rollback" /\ upd[p].pc = "unit"
  /\ \/ svc' = InstallUnit(upd[p].new, InstallSteps)
        /\ upd' = [upd EXCEPT ![p].pc = "restart", ![p].unit = Generation[upd[p].new]]
        /\ UNCHANGED ubBounds
     \/ \E k \in 0 .. 2 : BundleFault /\ svc' = InstallUnit(upd[p].new, k)
        /\ upd' = [upd EXCEPT ![p].pc = "undo", ![p].undo = "unit"]
  /\ UNCHANGED <<stable, dir, link>>
RestartEdge(p) ==
  /\ upd[p].op # "rollback" /\ upd[p].pc = "restart"
  /\ \/ svc' = Restarted(upd[p].unit) /\ upd' = Goto(p, "health") /\ UNCHANGED ubBounds
     \/ BundleFault /\ svc' = [svc EXCEPT ![upd[p].unit].run = NoBundle]
        /\ upd' = [upd EXCEPT ![p].pc = "undo", ![p].undo = "restart"]
  /\ UNCHANGED <<stable, dir, link>>
\* EdgeHealthy: the new process may be gone again.
EdgeHealthy(p) ==
  /\ upd[p].op # "rollback" /\ upd[p].pc = "health"
  /\ \/ svc[upd[p].unit].run # NoBundle /\ upd' = Goto(p, "prune") /\ UNCHANGED <<ubBounds, svc>>
     \/ svc[upd[p].unit].run = NoBundle /\ upd' = [upd EXCEPT ![p].pc = "undo", ![p].undo = "health"]
        /\ UNCHANGED <<ubBounds, svc>>
     \/ BundleFault /\ svc' = [svc EXCEPT ![upd[p].unit].run = NoBundle]
        /\ upd' = [upd EXCEPT ![p].pc = "undo", ![p].undo = "health"]
  /\ UNCHANGED <<stable, dir, link>>

\* pruneOldReleases: every other trusted release goes.
pruneOldReleases(p) ==
  /\ upd[p].pc = "prune"
  /\ dir' = [r \in Bundles |-> IF dir[r] = "good" /\ r \notin {link.cur, link.prev} THEN "none" ELSE dir[r]]
  /\ upd' = Result(p, "done")
  /\ UNCHANGED <<ubBounds, stable, link, svc>>

\* restoreLink and restoreReplaced.
Undo(p) ==
  /\ upd[p].op # "rollback" /\ upd[p].pc = "undo"
  /\ link' = [link EXCEPT !.cur = upd[p].old]
  /\ dir' = IF upd[p].replace THEN [dir EXCEPT ![upd[p].new] = "bad"] ELSE dir
  /\ upd' = Goto(p, "undounit")
  /\ UNCHANGED <<ubBounds, stable, svc>>
\* The old release's unit is installed again as far as that works (it names the service
\* only when it succeeds).
UndoUnit(p) ==
  /\ upd[p].pc = "undounit"
  /\ LET after(unit) == IF upd[p].undo = "unit" THEN Result(p, "failed")
                        ELSE [upd EXCEPT ![p].pc = "undorestart", ![p].unit = unit] IN
     \/ upd[p].old = NoBundle /\ upd' = after(upd[p].unit) /\ UNCHANGED <<ubBounds, svc>>
     \/ upd[p].old # NoBundle /\ dir[upd[p].old] = "good" /\ svc' = InstallUnit(upd[p].old, InstallSteps)
        /\ upd' = after(Generation[upd[p].old]) /\ UNCHANGED ubBounds
     \/ upd[p].old # NoBundle /\ dir[upd[p].old] # "good" /\ upd' = after(upd[p].unit) /\ UNCHANGED <<ubBounds, svc>>
     \/ \E k \in 0 .. 2 : upd[p].old # NoBundle /\ BundleFault /\ svc' = InstallUnit(upd[p].old, k)
        /\ upd' = [after(upd[p].unit) EXCEPT ![p].calm = FALSE]
  /\ UNCHANGED <<stable, dir, link>>
UndoRestart(p) ==
  /\ upd[p].pc = "undorestart"
  /\ \/ svc' = (IF upd[p].old = NoBundle /\ upd[p].undo = "restart" THEN svc ELSE Restarted(upd[p].unit))
        /\ upd' = Result(p, "failed") /\ UNCHANGED ubBounds
     \/ BundleFault /\ upd' = [Result(p, "failed") EXCEPT ![p].calm = FALSE] /\ UNCHANGED svc
  /\ UNCHANGED <<stable, dir, link>>

-----------------------------------------------------------------------------
(* Rollback. *)

\* The previous release must be there and verify; the links change places one by one.
RollbackCurrent(p) ==
  /\ upd[p].op = "rollback" /\ upd[p].pc = "begin"
  /\ LET can == link.cur # NoBundle /\ Trusted(link.prev) IN
     \/ ~can /\ upd' = Result(p, "failed") /\ UNCHANGED link
     \/ can /\ link' = [link EXCEPT !.cur = link.prev]
        /\ upd' = [upd EXCEPT ![p].pc = "swap", ![p].new = link.prev, ![p].old = link.cur]
  /\ UNCHANGED <<ubBounds, stable, dir, svc>>
RollbackPrevious(p) ==
  /\ upd[p].pc = "swap"
  /\ \/ link' = [link EXCEPT !.prev = upd[p].old] /\ upd' = Goto(p, "unit") /\ UNCHANGED ubBounds
     \/ BundleFault /\ link' = [link EXCEPT !.cur = upd[p].old] /\ upd' = Result(p, "failed")
  /\ UNCHANGED <<stable, dir, svc>>
RollbackUnit(p) ==
  /\ upd[p].op = "rollback" /\ upd[p].pc = "unit"
  /\ \/ svc' = InstallUnit(upd[p].new, InstallSteps)
        /\ upd' = [upd EXCEPT ![p].pc = "restart", ![p].unit = Generation[upd[p].new]]
        /\ UNCHANGED <<ubBounds, link>>
     \/ \E k \in 0 .. 2 : BundleFault /\ svc' = InstallUnit(upd[p].new, k)
        /\ link' = [cur |-> upd[p].old, prev |-> upd[p].new]
        /\ upd' = [Result(p, "failed") EXCEPT ![p].undo = "unit"]
  /\ UNCHANGED <<stable, dir>>
RollbackRestart(p) ==
  /\ upd[p].op = "rollback" /\ upd[p].pc = "restart"
  /\ \/ svc' = Restarted(upd[p].unit) /\ BundlePresent(link.cur)
        /\ upd' = Result(p, "done") /\ UNCHANGED <<ubBounds, link>>
     \/ BundleFault /\ svc' = [svc EXCEPT ![upd[p].unit].run = NoBundle]
        /\ link' = [cur |-> upd[p].old, prev |-> upd[p].new]
        /\ upd' = [upd EXCEPT ![p].pc = "undounit", ![p].undo = "restart"]
  /\ UNCHANGED <<stable, dir>>

-----------------------------------------------------------------------------
(* Repair, without the lock. *)

RepairStatus(p) ==
  /\ upd[p].op = "repair" /\ upd[p].pc = "status"
  /\ LET whole == BundleStatusReadable /\ Trusted(link.cur) IN
     \/ whole /\ upd' = [upd EXCEPT ![p].pc = "fix", ![p].new = link.cur]
     \/ ~whole /\ ~Locked /\ upd' = Goto(p, "begin")
  /\ UNCHANGED <<ubBounds, stable, dir, link, svc>>
RepairUnit(p) ==
  /\ upd[p].pc = "fix"
  /\ \/ dir[upd[p].new] = "good" /\ svc' = InstallUnit(upd[p].new, InstallSteps)
        /\ upd' = [upd EXCEPT ![p].pc = "check", ![p].unit = Generation[upd[p].new]] /\ UNCHANGED ubBounds
     \/ dir[upd[p].new] # "good" /\ upd' = Result(p, "failed") /\ UNCHANGED <<ubBounds, svc>>
     \/ \E k \in 0 .. 2 : BundleFault /\ svc' = InstallUnit(upd[p].new, k) /\ upd' = Result(p, "failed")
  /\ UNCHANGED <<stable, dir, link>>
RepairHealth(p) ==
  /\ upd[p].pc = "check"
  /\ \/ svc[upd[p].unit].run # NoBundle /\ upd' = Result(p, "done") /\ UNCHANGED <<ubBounds, svc>>
     \/ svc[upd[p].unit].run = NoBundle /\ svc' = Restarted(upd[p].unit)
        /\ upd' = Result(p, IF BundlePresent(link.cur) THEN "done" ELSE "failed") /\ UNCHANGED ubBounds
     \/ svc[upd[p].unit].run = NoBundle /\ BundleFault /\ upd' = Result(p, "failed") /\ UNCHANGED svc
  /\ UNCHANGED <<stable, dir, link>>

-----------------------------------------------------------------------------
(* Faults of the host. *)

UpdaterCrash(p) ==
  /\ ubBounds.crashes > 0 /\ upd[p].pc # "idle"
  /\ ubBounds' = [ubBounds EXCEPT !.crashes = @ - 1]
  /\ upd' = Result(p, "crashed")
  /\ UNCHANGED <<stable, dir, link, svc>>
DamageRelease(r) ==
  /\ ubBounds.damages > 0 /\ dir[r] = "good" /\ \A p \in Updaters : upd[p].pc = "idle"
  /\ ubBounds' = [ubBounds EXCEPT !.damages = @ - 1]
  /\ dir' = [dir EXCEPT ![r] = "bad"]
  /\ UNCHANGED <<stable, link, svc, upd>>
ChannelMoves(r) ==
  /\ ubBounds.moves > 0 /\ r # stable
  /\ ubBounds' = [ubBounds EXCEPT !.moves = @ - 1]
  /\ stable' = r
  /\ UNCHANGED <<dir, link, svc, upd>>

-----------------------------------------------------------------------------
UpdateNext ==
  \/ \E p \in Updaters, op \in {"update", "rollback", "repair"} : BundleBegin(p, op)
  \/ \E p \in Updaters : BundleResolve(p)
  \/ \E p \in Updaters : Place(p)
  \/ \E p \in Updaters : PlaceReplacement(p)
  \/ \E p \in Updaters : LinkPrevious(p)
  \/ \E p \in Updaters : LinkCurrent(p)
  \/ \E p \in Updaters : LinkFails(p)
  \/ \E p \in Updaters : ActivateUnit(p)
  \/ \E p \in Updaters : RestartEdge(p)
  \/ \E p \in Updaters : EdgeHealthy(p)
  \/ \E p \in Updaters : pruneOldReleases(p)
  \/ \E p \in Updaters : Undo(p)
  \/ \E p \in Updaters : UndoUnit(p)
  \/ \E p \in Updaters : UndoRestart(p)
  \/ \E p \in Updaters : RollbackCurrent(p)
  \/ \E p \in Updaters : RollbackPrevious(p)
  \/ \E p \in Updaters : RollbackUnit(p)
  \/ \E p \in Updaters : RollbackRestart(p)
  \/ \E p \in Updaters : RepairStatus(p)
  \/ \E p \in Updaters : RepairUnit(p)
  \/ \E p \in Updaters : RepairHealth(p)
  \/ \E p \in Updaters : UpdaterCrash(p)
  \/ \E r \in Bundles : DamageRelease(r)
  \/ \E r \in Bundles : ChannelMoves(r)
UpdateSpec == UpdateInit /\ [][UpdateNext]_upVars

-----------------------------------------------------------------------------
(* Properties *)

\* Type correctness; update and rollback exclude each other through the file lock.
UpdateTypeOK ==
  /\ dir \in [Bundles -> {"good", "bad", "none", "aside"}]
  /\ link \in [cur : Bundles \cup {NoBundle}, prev : Bundles \cup {NoBundle}]
  /\ svc \in [Units -> [on : BOOLEAN, run : Bundles \cup {NoBundle}]]
  /\ \A p, q \in Updaters :
       p # q /\ upd[p].pc \notin {"idle", "status", "fix", "check"} => upd[q].pc \in {"idle", "status", "fix", "check"}

\* The current and the previous link never name a release that was removed: what is pruned
\* is never linked, whatever was interrupted before (only a replacement cut between its two
\* renames leaves the active release moved aside).
LinksPresent == \A r \in {link.cur, link.prev} \ {NoBundle} : dir[r] # "none"

\* Only a release that verifies becomes current, except when a failed operation restores
\* what was current before.
ActivatesVerified ==
  link'.cur # link.cur /\ link'.cur # NoBundle =>
    \/ dir'[link'.cur] = "good"
    \/ \E p \in Updaters : upd[p].pc \in {"undo", "swap", "unit", "restart"} /\ upd[p].old = link'.cur

\* An operation ends here with the given result, undisturbed by another updater.
EndsHere(p, r) == upd[p].pc # "idle" /\ upd'[p].pc = "idle" /\ upd'[p].result = r /\ upd'[p].calm

\* An update or rollback that reports success left exactly one Edge service running: the
\* one of the current release's generation, running that release.
DoneRuns ==
  \A p \in Updaters : EndsHere(p, "done") /\ upd[p].op # "repair" =>
    /\ link'.cur = upd[p].new
    /\ svc'[Generation[link'.cur]].run = link'.cur
    /\ svc'[OtherUnit(Generation[link'.cur])].run = NoBundle

\* An operation whose restart or health check failed puts the release that was current
\* back: its link, its service, and only its service.
FailureRestores ==
  \A p \in Updaters :
    EndsHere(p, "failed") /\ upd[p].undo \in {"restart", "health"} /\ upd[p].old # NoBundle =>
      (dir[upd[p].old] = "good" =>
         /\ link'.cur = upd[p].old
         /\ svc'[Generation[upd[p].old]].run = upd[p].old
         /\ svc'[OtherUnit(Generation[upd[p].old])].run = NoBundle)

-----------------------------------------------------------------------------
(***************************************************************************)
(* The privileged bundle updater of a Windows Edge (main_windows.go in      *)
(* cmd/mcp-bundle-updater). The active and previous markers and the binary  *)
(* of the one Windows service change together through a transaction file:   *)
(* prepared, markers_written, service_started, removed. An updater may die  *)
(* between any two writes; the next update or rollback first recovers what  *)
(* is pending. Releases are numbered in the order CompareRelease gives.     *)
(***************************************************************************)

CONSTANTS WinReleases, \* 1 .. n
          WinUpdaters, \* updater processes
          WinBounds    \* records [runs, faults, crashes, moves, bounces]

NoRelease == 0
NoTx == [phase |-> "none", oa |-> NoRelease, op |-> NoRelease, ta |-> NoRelease, tp |-> NoRelease]

VARIABLES wuBounds, \* what may still happen
          wchan,    \* the release of the signed stable channel
          winst,    \* releases installed below releases/
          wmark,    \* active.json and previous.json
          wtx,      \* the transaction file, or NoTx
          wsvc,     \* the service: [bin, up]
          wup       \* updater processes

wuVars == <<wuBounds, wchan, winst, wmark, wtx, wsvc, wup>>

WinIdle == [op |-> "none", pc |-> "idle", why |-> "none", tx |-> NoTx, to |-> NoRelease, had |-> NoRelease]
WinGoto(p, pc) == [wup EXCEPT ![p].pc = pc]
WinEnds(p) == [wup EXCEPT ![p] = WinIdle]
WinFault == wuBounds.faults > 0 /\ wuBounds' = [wuBounds EXCEPT !.faults = @ - 1]
WinBusy == \E p \in WinUpdaters : wup[p].pc # "idle"

\* Verify: the service is configured with this release's binary and runs.
ServiceVerified(r) == wsvc.bin = r /\ wsvc.up

WinInit ==
  /\ wuBounds \in WinBounds
  /\ wchan = 2 /\ winst = {1}
  /\ wmark = [active |-> 1, previous |-> NoRelease]
  /\ wtx = NoTx
  /\ wsvc = [bin |-> 1, up |-> TRUE]
  /\ wup = [p \in WinUpdaters |-> WinIdle]

-----------------------------------------------------------------------------
(* An operation starts: the named mutex, then the recovery of what is pending. *)

\* A second invocation does not wait: it ends with an error and touches nothing. A mutex
\* its holder died with is taken over.
WinBegin(p, op) ==
  /\ ~WinBusy
  /\ wuBounds.runs > 0 /\ wup[p].pc = "idle"
  /\ wuBounds' = [wuBounds EXCEPT !.runs = @ - 1]
  /\ wup' = [wup EXCEPT ![p].op = op, ![p].pc = "recover"]
  /\ UNCHANGED <<wchan, winst, wmark, wtx, wsvc>>

\* What the service runs decides whether the markers go forward or back; when it runs
\* neither release, the operation ends and the transaction stays.
recoverPendingTransaction(p) ==
  /\ wup[p].pc = "recover"
  /\ wup' = IF wtx = NoTx THEN WinGoto(p, "plan")
            ELSE IF ServiceVerified(wtx.ta) THEN [wup EXCEPT ![p].pc = "active", ![p].why = "forward", ![p].tx = wtx]
            ELSE IF ServiceVerified(wtx.oa) THEN [wup EXCEPT ![p].pc = "active", ![p].why = "back", ![p].tx = wtx]
            ELSE WinEnds(p)
  /\ UNCHANGED <<wuBounds, wchan, winst, wmark, wtx, wsvc>>

-----------------------------------------------------------------------------
(* updateStable and rollback up to the transaction. *)

\* The channel and the archive are fetched and checked; an older release is refused.
fetchStable(p) ==
  /\ wup[p].pc = "plan" /\ wup[p].op = "update"
  /\ \/ wup' = (IF wchan < wmark.active THEN WinEnds(p) ELSE [wup EXCEPT ![p].pc = "install", ![p].to = wchan])
        /\ UNCHANGED wuBounds
     \/ WinFault /\ wup' = WinEnds(p)
  /\ UNCHANGED <<wchan, winst, wmark, wtx, wsvc>>
\* The archive is extracted, staged, verified and renamed into place.
installWindowsRelease(p) ==
  /\ wup[p].pc = "install"
  /\ \/ winst' = winst \cup {wup[p].to} /\ wup' = WinGoto(p, "update") /\ UNCHANGED wuBounds
     \/ WinFault /\ wup' = WinEnds(p) /\ UNCHANGED winst
  /\ UNCHANGED <<wchan, wmark, wtx, wsvc>>
updateStable(p) ==
  /\ wup[p].pc = "update"
  /\ wup' = IF wup[p].to = wmark.active THEN WinEnds(p)
            ELSE [wup EXCEPT ![p].pc = "prepare", ![p].why = "commit",
                    ![p].tx = [phase |-> "prepared", oa |-> wmark.active, op |-> wmark.previous,
                               ta |-> wup[p].to, tp |-> wmark.active]]
  /\ UNCHANGED <<wuBounds, wchan, winst, wmark, wtx, wsvc>>
rollbackWindows(p) ==
  /\ wup[p].pc = "plan" /\ wup[p].op = "rollback"
  /\ wup' = IF wmark.previous \notin winst THEN WinEnds(p)
            ELSE [wup EXCEPT ![p].pc = "prepare", ![p].why = "commit",
                    ![p].tx = [phase |-> "prepared", oa |-> wmark.active, op |-> wmark.previous,
                               ta |-> wmark.previous, tp |-> wmark.active]]
  /\ UNCHANGED <<wuBounds, wchan, winst, wmark, wtx, wsvc>>

-----------------------------------------------------------------------------
(* Writes of files; each is a rename, and each may fail and end the operation. *)

WriteFails(p) ==
  /\ wup[p].pc \in {"prepare", "active", "previous", "written", "started", "clear"}
  /\ WinFault
  /\ wup' = WinEnds(p)
  /\ UNCHANGED <<wchan, winst, wmark, wtx, wsvc>>
writeWindowsTransaction(p) ==
  /\ wup[p].pc \in {"prepare", "written", "started"}
  /\ LET phase == CASE wup[p].pc = "prepare" -> "prepared"
                    [] wup[p].pc = "written" -> "markers_written"
                    [] wup[p].pc = "started" -> "service_started" IN
     wtx' = [wup[p].tx EXCEPT !.phase = phase]
  /\ wup' = IF wup[p].pc = "prepare" THEN WinGoto(p, "active")
            ELSE IF wup[p].pc = "started" THEN WinGoto(p, "clear")
            ELSE [wup EXCEPT ![p].pc = "stop", ![p].to = wup[p].tx.ta]
  /\ UNCHANGED <<wuBounds, wchan, winst, wmark, wsvc>>

\* The markers written: the target's when going forward, otherwise the old ones.
Forward(p) == wup[p].why \in {"commit", "forward"}
writeActive(p) ==
  /\ wup[p].pc = "active"
  /\ wmark' = [wmark EXCEPT !.active = IF Forward(p) THEN wup[p].tx.ta ELSE wup[p].tx.oa]
  /\ wup' = WinGoto(p, "previous")
  /\ UNCHANGED <<wuBounds, wchan, winst, wtx, wsvc>>
\* writePrevious, or clearPrevious when there was none.
writePrevious(p) ==
  /\ wup[p].pc = "previous"
  /\ wmark' = [wmark EXCEPT !.previous = IF Forward(p) THEN wup[p].tx.tp ELSE wup[p].tx.op]
  /\ wup' = WinGoto(p, IF wup[p].why = "commit" THEN "written" ELSE "clear")
  /\ UNCHANGED <<wuBounds, wchan, winst, wtx, wsvc>>
\* A recovery goes on with the operation; a commit or a restore ends here.
clearWindowsTransaction(p) ==
  /\ wup[p].pc = "clear"
  /\ wtx' = NoTx
  /\ wup' = IF wup[p].why \in {"forward", "back"} THEN WinGoto(p, "plan") ELSE WinEnds(p)
  /\ UNCHANGED <<wuBounds, wchan, winst, wmark, wsvc>>

-----------------------------------------------------------------------------
(* SwapAndStart, in the steps the service control manager sees. *)

\* After a failed swap: a commit restores, a restore looks once more.
SwapFailed(p) == WinGoto(p, IF wup[p].why = "commit" THEN "restore" ELSE "restored")
stopWindowsService(p) ==
  /\ wup[p].pc = "stop"
  /\ \/ wsvc' = [wsvc EXCEPT !.up = FALSE]
        /\ wup' = [wup EXCEPT ![p].pc = "config", ![p].had = wsvc.bin] /\ UNCHANGED wuBounds
     \/ WinFault /\ wup' = SwapFailed(p) /\ UNCHANGED wsvc
     \/ WinFault /\ wup' = SwapFailed(p) /\ wsvc' = [wsvc EXCEPT !.up = FALSE]
  /\ UNCHANGED <<wchan, winst, wmark, wtx>>
\* The configuration cannot be changed: the service is started as it was.
ConfigureService(p) ==
  /\ wup[p].pc = "config"
  /\ \/ wsvc' = [wsvc EXCEPT !.bin = wup[p].to] /\ wup' = WinGoto(p, "start") /\ UNCHANGED wuBounds
     \/ \E up \in BOOLEAN : WinFault /\ wsvc' = [wsvc EXCEPT !.up = up] /\ wup' = SwapFailed(p)
  /\ UNCHANGED <<wchan, winst, wmark, wtx>>
\* The new binary does not run within the wait: the configuration the service had is put
\* back and started, each as far as it works.
StartService(p) ==
  /\ wup[p].pc = "start"
  /\ \/ /\ wsvc' = [wsvc EXCEPT !.up = TRUE]
        /\ wup' = WinGoto(p, IF wup[p].why = "commit" THEN "verify" ELSE "restored")
        /\ UNCHANGED wuBounds
     \/ /\ WinFault /\ wup' = SwapFailed(p)
        /\ \E bin \in {wup[p].had, wsvc.bin}, up \in BOOLEAN : wsvc' = [bin |-> bin, up |-> up]
  /\ UNCHANGED <<wchan, winst, wmark, wtx>>

\* The final verification of the new service.
VerifyNew(p) ==
  /\ wup[p].pc = "verify"
  /\ wup' = IF ServiceVerified(wup[p].tx.ta) THEN WinGoto(p, "started") ELSE WinGoto(p, "restore")
  /\ UNCHANGED <<wuBounds, wchan, winst, wmark, wtx, wsvc>>
\* restoreWindowsTransaction: swap back unless the old service already runs.
RestoreService(p) ==
  /\ wup[p].pc = "restore"
  /\ wup' = [wup EXCEPT ![p].pc = IF ServiceVerified(wup[p].tx.oa) THEN "restored" ELSE "stop",
                        ![p].why = "restore", ![p].to = wup[p].tx.oa]
  /\ UNCHANGED <<wuBounds, wchan, winst, wmark, wtx, wsvc>>
RestoreMarkers(p) ==
  /\ wup[p].pc = "restored"
  /\ wup' = IF ServiceVerified(wup[p].tx.oa) THEN WinGoto(p, "active") ELSE WinEnds(p)
  /\ UNCHANGED <<wuBounds, wchan, winst, wmark, wtx, wsvc>>

-----------------------------------------------------------------------------
(* The host. *)

WinUpdaterDies(p) ==
  /\ wuBounds.crashes > 0 /\ wup[p].pc # "idle"
  /\ wuBounds' = [wuBounds EXCEPT !.crashes = @ - 1]
  /\ wup' = WinEnds(p)
  /\ UNCHANGED <<wchan, winst, wmark, wtx, wsvc>>
\* The service stops by itself, or is started again by the service control manager.
ServiceBounces ==
  /\ wuBounds.bounces > 0
  /\ wuBounds' = [wuBounds EXCEPT !.bounces = @ - 1]
  /\ wsvc' = [wsvc EXCEPT !.up = ~@]
  /\ UNCHANGED <<wchan, winst, wmark, wtx, wup>>
WinChannelMoves ==
  /\ wuBounds.moves > 0
  /\ wuBounds' = [wuBounds EXCEPT !.moves = @ - 1]
  /\ \E r \in WinReleases \ {wchan} : wchan' = r
  /\ UNCHANGED <<winst, wmark, wtx, wsvc, wup>>

WinNext ==
  \/ \E p \in WinUpdaters, op \in {"update", "rollback"} : WinBegin(p, op)
  \/ \E p \in WinUpdaters : recoverPendingTransaction(p)
  \/ \E p \in WinUpdaters : fetchStable(p)
  \/ \E p \in WinUpdaters : installWindowsRelease(p)
  \/ \E p \in WinUpdaters : updateStable(p)
  \/ \E p \in WinUpdaters : rollbackWindows(p)
  \/ \E p \in WinUpdaters : WriteFails(p)
  \/ \E p \in WinUpdaters : writeWindowsTransaction(p)
  \/ \E p \in WinUpdaters : writeActive(p)
  \/ \E p \in WinUpdaters : writePrevious(p)
  \/ \E p \in WinUpdaters : clearWindowsTransaction(p)
  \/ \E p \in WinUpdaters : stopWindowsService(p)
  \/ \E p \in WinUpdaters : ConfigureService(p)
  \/ \E p \in WinUpdaters : StartService(p)
  \/ \E p \in WinUpdaters : VerifyNew(p)
  \/ \E p \in WinUpdaters : RestoreService(p)
  \/ \E p \in WinUpdaters : RestoreMarkers(p)
  \/ \E p \in WinUpdaters : WinUpdaterDies(p)
  \/ ServiceBounces
  \/ WinChannelMoves
WinSpec == WinInit /\ [][WinNext]_wuVars

-----------------------------------------------------------------------------
(* Properties *)

\* Type correctness; the mutex admits one updater.
WinTypeOK ==
  /\ winst \subseteq WinReleases /\ wchan \in WinReleases
  /\ wmark \in [active : WinReleases, previous : WinReleases \cup {NoRelease}]
  /\ wsvc \in [bin : WinReleases, up : BOOLEAN]
  /\ wtx.phase \in {"none", "prepared", "markers_written", "service_started"}
  /\ \A p, q \in WinUpdaters : wup[p].pc # "idle" /\ wup[q].pc # "idle" => p = q

\* With no transaction pending and no updater at work, the markers are whole: the active
\* marker names the release the service is configured with, and the previous marker names
\* another installed release or none.
MarkersTell ==
  ~WinBusy /\ wtx = NoTx =>
    /\ wmark.active = wsvc.bin
    /\ wmark.active # wmark.previous
    /\ {wmark.active, wmark.previous} \subseteq winst \cup {NoRelease}

\* A transaction left pending can always be decided: the service is configured with the
\* release it started from or the one it goes to, so recovery has to wait for nothing but
\* that service to run. It never stays with a third release.
PendingDecidable == ~WinBusy /\ wtx # NoTx => wsvc.bin \in {wtx.oa, wtx.ta}

\* The transaction file goes only when both markers are those of one side of it, and that
\* side was seen running since the swap began.
ClearedWhole ==
  wtx # NoTx /\ wtx' = NoTx =>
    \/ wmark = [active |-> wtx.ta, previous |-> wtx.tp] /\ wsvc.bin = wtx.ta
    \/ wmark = [active |-> wtx.oa, previous |-> wtx.op] /\ wsvc.bin = wtx.oa

-----------------------------------------------------------------------------
(***************************************************************************)
(* The migration of the historical Edge state directory to its canonical    *)
(* place (internal/edgelifecycle and the lifecycle and doctor commands of    *)
(* mcp-edge). A journal (prepared, renamed, verified) accompanies one       *)
(* directory rename that never replaces its destination. Where the file     *)
(* system cannot do that for directories, an empty placeholder is created   *)
(* and exchanged with the source. Commands take no lock and may be killed   *)
(* between any two system calls.                                            *)
(***************************************************************************)

CONSTANTS Operators,  \* commands that may run at the same time
          StateBounds \* records [atomic, overlap, runs, faults, crashes]

Commands == {"migrate", "prepare", "finalize", "rollback", "recover", "repair"}

VARIABLES smBounds,  \* what may still happen
          sdir,      \* the two directories: "none", "empty" (a placeholder) or "state" (the identity)
          sjournal,  \* the journal's stage, or "none"
          sop        \* the commands

smVars == <<smBounds, sdir, sjournal, sop>>

SmIdle == [cmd |-> "none", pc |-> "idle", needed |-> FALSE, from |-> "old", fails |-> FALSE, result |-> ""]
SmGoto(p, pc) == [sop EXCEPT ![p].pc = pc]
SmEnds(p, r) == [sop EXCEPT ![p] = [SmIdle EXCEPT !.result = r]]
SmFault == smBounds.faults > 0 /\ smBounds' = [smBounds EXCEPT !.faults = @ - 1]
SmQuiet == \A p \in Operators : sop[p].pc = "idle"

\* migrationPathState of both paths.
Exists(d) == sdir[d] # "none"
AtOnePlace == Exists("old") # Exists("new")
\* The other end of a move.
Across(d) == IF d = "old" THEN "new" ELSE "old"

SmInit ==
  /\ smBounds \in StateBounds
  /\ sdir = [old |-> "state", new |-> "none"]
  /\ sjournal = "none"
  /\ sop = [p \in Operators |-> SmIdle]

-----------------------------------------------------------------------------
(* Commands, plans and the journal. *)

SmBegin(p, cmd) ==
  /\ smBounds.runs > 0 /\ sop[p].pc = "idle" /\ (smBounds.overlap \/ SmQuiet)
  /\ smBounds' = [smBounds EXCEPT !.runs = @ - 1]
  /\ sop' = [sop EXCEPT ![p] = [SmIdle EXCEPT !.cmd = cmd,
               !.pc = IF cmd \in {"migrate", "prepare"} THEN "plan" ELSE IF cmd = "repair" THEN "recover" ELSE cmd]]
  /\ UNCHANGED <<sdir, sjournal>>

\* migrationDisposition: an identity at both places or a destination without one blocks.
Disposition ==
  CASE sdir.old = "state" /\ sdir.new # "none" -> "blocked"
    [] sdir.old = "state" /\ sdir.new = "none" -> "legacy_to_preferred"
    [] OTHER -> "none"
\* PlanLegacyStateMigration; a journal that is there stops a migration that is needed.
PlanRefused == Disposition = "blocked" \/ (Disposition = "legacy_to_preferred" /\ sjournal # "none")
PlanMigration(p) ==
  /\ sop[p].pc = "plan"
  /\ sop' = IF PlanRefused THEN SmEnds(p, "failed")
            ELSE IF sop[p].cmd = "repair" /\ Disposition = "none" THEN SmEnds(p, "not_needed")
            ELSE [sop EXCEPT ![p].pc = "apply", ![p].needed = (Disposition # "none")]
  /\ UNCHANGED <<smBounds, sdir, sjournal>>
\* ApplyLegacyStateMigration plans again and compares.
ApplyMigration(p) ==
  /\ sop[p].pc = "apply"
  /\ sop' = IF PlanRefused \/ sop[p].needed # (Disposition # "none") THEN SmEnds(p, "failed")
            ELSE IF ~sop[p].needed THEN SmEnds(p, "not_needed")
            ELSE SmGoto(p, "journal")
  /\ UNCHANGED <<smBounds, sdir, sjournal>>
\* The first journal is created exclusively. When only the sync of its directory fails,
\* the command ends with the journal in place.
CreateJournal(p) ==
  /\ sop[p].pc = "journal"
  /\ \/ Exists("new") /\ sop' = SmEnds(p, "failed") /\ UNCHANGED <<smBounds, sjournal>>
     \/ ~Exists("new") /\ sjournal # "none" /\ sop' = SmEnds(p, "failed") /\ UNCHANGED <<smBounds, sjournal>>
     \/ /\ ~Exists("new") /\ sjournal = "none" /\ sjournal' = "prepared"
        /\ \/ sop' = [sop EXCEPT ![p].pc = "move", ![p].from = "old"] /\ UNCHANGED smBounds
           \/ SmFault /\ sop' = SmEnds(p, "failed")
  /\ UNCHANGED sdir
\* The later stages overwrite it.
RecordStage(p) ==
  /\ sop[p].pc \in {"renamed", "verified"}
  /\ \/ sjournal' = sop[p].pc /\ sop' = SmGoto(p, IF sop[p].pc = "renamed" THEN "verify" ELSE "finish")
        /\ UNCHANGED smBounds
     \/ SmFault /\ sop' = SmGoto(p, "undo") /\ UNCHANGED sjournal
  /\ UNCHANGED sdir

-----------------------------------------------------------------------------
(* renameNoReplace, for a move and for the move back. *)

\* After a move, and after one that failed.
Moved(p) == SmGoto(p, IF sop[p].fails THEN "undone" ELSE "renamed")
MoveFailed(p) == IF sop[p].fails THEN SmEnds(p, "rollback_failed") ELSE SmGoto(p, "undo")
RenameNoReplace(p) ==
  /\ sop[p].pc = "move" /\ smBounds.atomic
  /\ LET from == sop[p].from
         to == Across(from) IN
     \/ Exists(from) /\ ~Exists(to)
        /\ sdir' = [d \in {"old", "new"} |-> IF d = to THEN sdir[from] ELSE "none"]
        /\ sop' = Moved(p) /\ UNCHANGED smBounds
     \/ (~Exists(from) \/ Exists(to)) /\ sop' = MoveFailed(p) /\ UNCHANGED <<smBounds, sdir>>
     \/ SmFault /\ sop' = MoveFailed(p) /\ UNCHANGED sdir
  /\ UNCHANGED sjournal
\* The fallback: an exclusive, private, empty placeholder at the destination.
CreatePlaceholder(p) ==
  /\ sop[p].pc = "move" /\ ~smBounds.atomic
  /\ LET from == sop[p].from
         to == Across(from) IN
     \/ Exists(from) /\ ~Exists(to)
        /\ sdir' = [sdir EXCEPT ![to] = "empty"] /\ sop' = SmGoto(p, "exchange")
     \/ (~Exists(from) \/ Exists(to)) /\ sop' = MoveFailed(p) /\ UNCHANGED sdir
  /\ UNCHANGED <<smBounds, sjournal>>
\* Faulty variant: the contents are copied into the placeholder.
ExchangePlaceholderCopies(p) ==
  /\ sop[p].pc = "exchange"
  /\ sdir' = [sdir EXCEPT ![Across(sop[p].from)] = sdir[sop[p].from]]
  /\ sop' = SmGoto(p, "drop")
  /\ UNCHANGED <<smBounds, sjournal>>
\* RENAME_EXCHANGE, or the placeholder is removed when it is still the empty directory.
ExchangePlaceholder(p) ==
  /\ sop[p].pc = "exchange"
  /\ LET from == sop[p].from
         to == Across(from) IN
     \/ Exists(from) /\ Exists(to)
        /\ sdir' = [d \in {"old", "new"} |-> sdir[Across(d)]] /\ sop' = SmGoto(p, "drop") /\ UNCHANGED smBounds
     \/ (SmFault \/ (~(Exists(from) /\ Exists(to)) /\ UNCHANGED smBounds))
        /\ sdir' = (IF sdir[to] = "empty" THEN [sdir EXCEPT ![to] = "none"] ELSE sdir)
        /\ sop' = MoveFailed(p)
  /\ UNCHANGED sjournal
\* The placeholder, now at the source, goes.
DropPlaceholder(p) ==
  /\ sop[p].pc = "drop"
  /\ \/ sdir[sop[p].from] = "empty" /\ sdir' = [sdir EXCEPT ![sop[p].from] = "none"]
        /\ sop' = Moved(p) /\ UNCHANGED smBounds
     \/ sdir[sop[p].from] # "empty" /\ sop' = MoveFailed(p) /\ UNCHANGED <<smBounds, sdir>>
     \/ SmFault /\ sop' = MoveFailed(p) /\ UNCHANGED sdir
  /\ UNCHANGED sjournal

-----------------------------------------------------------------------------
(* Verification, the end of a migration, and its undoing. *)

Migrated == sdir = [old |-> "none", new |-> "state"]
VerifyMigrated(p) ==
  /\ sop[p].pc = "verify"
  /\ \/ sop' = SmGoto(p, IF Migrated THEN "verified" ELSE "undo") /\ UNCHANGED smBounds
     \/ SmFault /\ sop' = SmGoto(p, "undo")
  /\ UNCHANGED <<sdir, sjournal>>
\* A prepared migration keeps the verified journal; otherwise it is removed.
FinishMigration(p) ==
  /\ sop[p].pc = "finish"
  /\ \/ sop[p].cmd = "prepare" /\ sop' = SmEnds(p, "prepared") /\ UNCHANGED <<smBounds, sjournal>>
     \/ sop[p].cmd # "prepare" /\ sjournal' = "none" /\ sop' = SmEnds(p, "migrated") /\ UNCHANGED smBounds
     \/ sop[p].cmd # "prepare" /\ SmFault /\ sop' = SmEnds(p, "failed") /\ UNCHANGED sjournal
  /\ UNCHANGED sdir
\* rollbackStateMigration: only when exactly one of the directories is there.
UndoMigration(p) ==
  /\ sop[p].pc = "undo"
  /\ sop' = IF ~AtOnePlace THEN SmEnds(p, "rollback_failed")
            ELSE IF Exists("new") THEN [sop EXCEPT ![p].pc = "move", ![p].from = "new", ![p].fails = TRUE]
            ELSE SmGoto(p, "undone")
  /\ UNCHANGED <<smBounds, sdir, sjournal>>
UndoValidates(p) ==
  /\ sop[p].pc = "undone"
  /\ sop' = IF sdir.old = "state" THEN SmGoto(p, "unjournal") ELSE SmEnds(p, "rollback_failed")
  /\ UNCHANGED <<smBounds, sdir, sjournal>>
RemoveJournal(p) ==
  /\ sop[p].pc = "unjournal"
  /\ \/ sjournal' = "none" /\ sop' = (IF sop[p].cmd = "repair" /\ ~sop[p].needed THEN SmGoto(p, "plan") ELSE SmEnds(p, "settled"))
        /\ UNCHANGED smBounds
     \/ SmFault /\ sop' = SmEnds(p, "failed") /\ UNCHANGED sjournal
  /\ UNCHANGED sdir

-----------------------------------------------------------------------------
(* The commands that work on what a journal records. *)

\* RecoverLegacyStateMigration: where the directory is decides; anything else is ambiguous.
RecoverMigration(p) ==
  /\ sop[p].pc = "recover"
  /\ sop' = CASE sjournal = "none" /\ sop[p].cmd = "repair" -> SmGoto(p, "plan")
              [] sjournal = "none" /\ sop[p].cmd # "repair" -> SmEnds(p, "not_needed")
              [] sjournal # "none" /\ ~AtOnePlace -> SmEnds(p, "ambiguous")
              [] sjournal # "none" /\ AtOnePlace ->
                   IF "state" \in {sdir.old, sdir.new} THEN SmGoto(p, "unjournal") ELSE SmEnds(p, "failed")
  /\ UNCHANGED <<smBounds, sdir, sjournal>>
\* FinalizeLegacyStateMigration: the recorded stage and the directories must agree.
FinalizeMigration(p) ==
  /\ sop[p].pc = "finalize"
  /\ sop' = IF sjournal = "none" THEN SmEnds(p, "not_needed")
            ELSE IF sjournal = "verified" /\ Migrated THEN SmGoto(p, "finish")
            ELSE SmEnds(p, "failed")
  /\ UNCHANGED <<smBounds, sdir, sjournal>>
RollbackPrepared(p) ==
  /\ sop[p].pc = "rollback"
  /\ sop' = IF sjournal = "none" THEN SmEnds(p, "not_needed")
            ELSE IF sjournal = "verified" THEN SmGoto(p, "undo")
            ELSE SmEnds(p, "failed")
  /\ UNCHANGED <<smBounds, sdir, sjournal>>
SmKilled(p) ==
  /\ smBounds.crashes > 0 /\ sop[p].pc # "idle"
  /\ smBounds' = [smBounds EXCEPT !.crashes = @ - 1]
  /\ sop' = SmEnds(p, "killed")
  /\ UNCHANGED <<sdir, sjournal>>

SmNext ==
  \/ \E p \in Operators, cmd \in Commands : SmBegin(p, cmd)
  \/ \E p \in Operators : PlanMigration(p)
  \/ \E p \in Operators : ApplyMigration(p)
  \/ \E p \in Operators : CreateJournal(p)
  \/ \E p \in Operators : RecordStage(p)
  \/ \E p \in Operators : RenameNoReplace(p)
  \/ \E p \in Operators : CreatePlaceholder(p)
  \/ \E p \in Operators : ExchangePlaceholder(p)
  \/ \E p \in Operators : DropPlaceholder(p)
  \/ \E p \in Operators : VerifyMigrated(p)
  \/ \E p \in Operators : FinishMigration(p)
  \/ \E p \in Operators : UndoMigration(p)
  \/ \E p \in Operators : UndoValidates(p)
  \/ \E p \in Operators : RemoveJournal(p)
  \/ \E p \in Operators : RecoverMigration(p)
  \/ \E p \in Operators : FinalizeMigration(p)
  \/ \E p \in Operators : RollbackPrepared(p)
  \/ \E p \in Operators : SmKilled(p)
SmSpec == SmInit /\ [][SmNext]_smVars

-----------------------------------------------------------------------------
(* Properties *)

\* Type correctness. The identity is at exactly one of the two places, whatever commands
\* overlap, fail or are killed: it is never copied and never lost.
StateKept ==
  /\ sdir \in [{"old", "new"} -> {"none", "empty", "state"}]
  /\ sjournal \in {"none", "prepared", "renamed", "verified"}
  /\ (sdir.old = "state") # (sdir.new = "state")

\* One command at a time, a layout that nothing can decide keeps its evidence: when both
\* directories are there and nobody is working, the journal is there too.
EvidenceKept == SmQuiet /\ ~smBounds.overlap /\ ~AtOnePlace => sjournal # "none"

\* A command that reports the migration as done has it done, and one that settled leaves
\* no journal (one command at a time; recovery may have met any remains).
ReportsTrue ==
  \A p \in Operators : sop[p].pc # "idle" /\ sop'[p].pc = "idle" /\ ~smBounds.overlap =>
    CASE sop'[p].result \in {"migrated", "prepared"} -> Migrated'
      [] sop'[p].result = "settled" -> AtOnePlace' /\ sjournal' = "none"
      [] OTHER -> TRUE

=============================================================================
