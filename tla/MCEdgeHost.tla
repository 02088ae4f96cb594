----------------------------- MODULE MCEdgeHost -----------------------------
(***************************************************************************)
(* The components of the resident Edge agent for TLC: runtime launches,    *)
(* Edge tasks, pairing, worktree tests, and the model turns of a driver    *)
(* with the long polls that wait for them. A behaviour belongs to one      *)
(* component, which `part` names; the others rest. The components share no *)
(* state, so this is their union and not their product. Each has a set of  *)
(* bound records, one for each combination of faults worth meeting         *)
(* together.                                                               *)
(***************************************************************************)
EXTENDS RuntimeLaunch, EdgeDevice, WorktreeTests, ModelTurns

CONSTANTS
  Parts

VARIABLE part

LaunchUse(runtimes, leases, lost, faults, crashes, kills, cancels) ==
  [runtimes |-> runtimes, leases |-> leases, lost |-> lost, faults |-> faults,
   crashes |-> crashes, kills |-> kills, cancels |-> cancels]

\* Runtime launches: two runtimes with a failing stage, a cancellation or a lost
\* answer; one runtime with a crash, killed containers or a second lease.
LaunchUses == {LaunchUse(2, 2, 0, 0, 0, 0, 0), LaunchUse(2, 1, 0, 1, 0, 0, 0), LaunchUse(1, 2, 0, 0, 0, 0, 1),
               LaunchUse(1, 2, 1, 0, 1, 0, 0), LaunchUse(1, 1, 0, 0, 0, 2, 1), LaunchUse(1, 2, 1, 1, 0, 0, 0)}

EdgeWork(tasks, losses, crashes, cancels, stops, legacy) ==
  [tasks |-> tasks, losses |-> losses, crashes |-> crashes, cancels |-> cancels,
   stops |-> stops, legacy |-> legacy]

\* Edge tasks: two tasks against a full journal; one task with lost answers and
\* a crash, a cancellation or a stopped runner; a row of an earlier release.
EdgeWorkloads == {EdgeWork({"t", "u"}, 0, 0, 0, 0, {}), EdgeWork({"t"}, 2, 1, 0, 0, {}),
                  EdgeWork({"t"}, 0, 1, 1, 0, {}), EdgeWork({"t"}, 0, 0, 1, 2, {}),
                  EdgeWork({"u"}, 0, 1, 0, 0, {"t"})}

Pairing(pairs, lost, crashes, faults, revokes, changes, legacy) ==
  [pairs |-> pairs, lost |-> lost, crashes |-> crashes, faults |-> faults,
   revokes |-> revokes, changes |-> changes, legacy |-> legacy]

\* Pairing: crashes; a lost answer and a failing write; a revocation; an older
\* pairing whose workspace lists change.
Pairings == {Pairing(1, 0, 2, 0, 0, 0, FALSE), Pairing(2, 1, 0, 1, 0, 0, FALSE), Pairing(2, 0, 1, 0, 1, 0, FALSE),
             Pairing(1, 0, 0, 0, 1, 1, TRUE), Pairing(0, 0, 1, 0, 0, 1, TRUE), Pairing(1, 0, 0, 0, 0, 2, FALSE)}

Testing(edits, commits, starts, faults, stops, reads, closes, crashes, profiles) ==
  [edits |-> edits, commits |-> commits, starts |-> starts, faults |-> faults, stops |-> stops,
   reads |-> reads, closes |-> closes, crashes |-> crashes, profiles |-> profiles]

\* Worktree tests: edits during the capture; a commit between two tests; a
\* failing step, a stop and a close; crashes.
Testings == {Testing(2, 0, 1, 0, 0, 1, 0, 0, 0), Testing(1, 1, 2, 0, 0, 1, 0, 0, 1), Testing(0, 0, 1, 1, 1, 1, 1, 1, 0),
             Testing(0, 0, 1, 0, 0, 0, 1, 2, 0), Testing(1, 0, 1, 0, 0, 1, 0, 1, 1)}

Talk(turns, moves, lost, quits, evicted, restarts) ==
  [turns |-> turns, moves |-> moves, lost |-> lost, quits |-> quits,
   evicted |-> evicted, restarts |-> restarts]

\* Model turns: a lost answer and a driver that gives up; a restart; an evicted
\* runtime; and a hand-over of the controller between two turns.
Talks == {Talk(2, 0, 0, 1, 0, 0), Talk(1, 0, 1, 1, 0, 0), Talk(1, 0, 0, 1, 0, 1), Talk(1, 0, 1, 0, 1, 1),
          Talk(2, 4, 0, 0, 0, 0)}

WaitUse(callers, turns, ends, calls, foreign, lapses) ==
  [callers |-> callers, turns |-> turns, ends |-> ends, calls |-> calls,
   foreign |-> foreign, lapses |-> lapses]

\* Waiting for a turn: two callers; one caller with turns of two runtimes, ends
\* of runtimes, a foreign runtime and a deadline.
WaitUses == {WaitUse({"v"}, 1, 0, 1, 1, 1), WaitUse({"v", "w"}, 0, 1, 2, 0, 0),
             WaitUse({"v"}, 1, 1, 1, 0, 0), WaitUse({"v"}, 0, 1, 1, 1, 0),
             WaitUse({"v"}, 2, 0, 1, 0, 0)}

edgeVars == <<part, lbVars, etVars, epVars, wtVars, mtVars, twVars>>

\* One component moves; the others rest in one of their initial states.
Only(p, bounds, rest) == part = p \/ bounds = rest

EdgeInit ==
  /\ part \in Parts
  /\ LbInit /\ Only("launch", lbBounds, LaunchUse(1, 1, 0, 0, 0, 2, 1))
  /\ EtInit /\ Only("edgetasks", etBounds, EdgeWork({"t"}, 0, 0, 1, 2, {}))
  /\ EpInit /\ Only("pairing", epBounds, Pairing(2, 1, 0, 1, 0, 0, FALSE))
  /\ WtInit /\ Only("tests", wtBounds, Testing(0, 0, 1, 0, 0, 0, 1, 2, 0))
  /\ MtInit /\ Only("turns", mtBounds, Talk(1, 0, 0, 1, 0, 1))
  /\ WaitInit /\ Only("waits", twBounds, WaitUse({"v", "w"}, 0, 1, 2, 0, 0))

EdgeNext ==
  \/ /\ part = "launch" /\ LbNext
     /\ UNCHANGED <<part, etVars, epVars, wtVars, mtVars, twVars>>
  \/ /\ part = "edgetasks" /\ EtNext
     /\ UNCHANGED <<part, lbVars, epVars, wtVars, mtVars, twVars>>
  \/ /\ part = "pairing" /\ EpNext
     /\ UNCHANGED <<part, lbVars, etVars, wtVars, mtVars, twVars>>
  \/ /\ part = "tests" /\ WtNext
     /\ UNCHANGED <<part, lbVars, etVars, epVars, mtVars, twVars>>
  \/ /\ part = "turns" /\ MtNext
     /\ UNCHANGED <<part, lbVars, etVars, epVars, wtVars, twVars>>
  \/ /\ part = "waits" /\ WaitNext
     /\ UNCHANGED <<part, lbVars, etVars, epVars, wtVars, mtVars>>

EdgeSpec ==
  /\ EdgeInit /\ [][EdgeNext]_edgeVars
  /\ \A p \in Pollers : WF_lbVars(part = "launch" /\ LaunchStep(p))
  /\ \A p \in Pollers : WF_lbVars(part = "launch" /\ monitorRuntime(p))
  /\ \A r \in 1 .. 2 : WF_lbVars(part = "launch" /\ r \in Runtimes /\ expireRuntimesLocked(r))
  /\ WF_etVars(part = "edgetasks" /\ StartRunner)
  /\ WF_etVars(part = "edgetasks" /\ RunnerStep)
  /\ WF_etVars(part = "edgetasks" /\ ExecutorStep)
  /\ WF_etVars(part = "edgetasks" /\ HeartbeatReturns)
  /\ WF_etVars(part = "edgetasks" /\ EtTick)
  /\ WF_epVars(part = "pairing" /\ OpenStore("server"))
  /\ WF_epVars(part = "pairing" /\ WriteControlKey("server"))
  /\ WF_epVars(part = "pairing" /\ WriteControlKey("admin"))
  /\ WF_epVars(part = "pairing" /\ StartAgent)
  /\ \A w \in PairingWorkers : WF_epVars(part = "pairing" /\ ListWorkspaces(w))
  /\ \A w \in PairingWorkers : WF_epVars(part = "pairing" /\ RegisterWorkspaces(w))
  /\ WF_wtVars(part = "tests" /\ LaunchTest)
  /\ WF_wtVars(part = "tests" /\ BindProcess)
  /\ WF_wtVars(part = "tests" /\ ScheduleTimeout)
  /\ WF_wtVars(part = "tests" /\ TimeoutProcess)
  /\ WF_wtVars(part = "tests" /\ OpenTests)
  /\ WF_wtVars(part = "tests" /\ MarkInvalid)
  /\ WF_wtVars(part = "tests" /\ StopInvalidated)
  /\ WF_wtVars(part = "tests" /\ TestDies)
  /\ WF_mtVars(part = "turns" /\ CallArrives)
  /\ WF_mtVars(part = "turns" /\ WaitHeld)
  /\ WF_mtVars(part = "turns" /\ TakeReply)
  /\ WF_mtVars(part = "turns" /\ \E s \in TurnSeqs : WaitResponse(s))
  /\ WF_mtVars(part = "turns" /\ \E s \in TurnSeqs : WaitTimesOut(s))
  /\ WF_mtVars(part = "turns" /\ TurnCleanup)
  /\ WF_twVars(part = "waits" /\ signal)
  /\ \A w \in Waiters : WF_twVars(part = "waits" /\ (TakeWake(w) \/ nextOnce(w) \/ ReadRuntime(w) \/ AnswerWait(w) \/ WakeUp(w) \/ Fallback(w)))


\* A paired Edge: a task is executed once, under its lease and before it is
\* called successful; a pairing code admits one device, whose identity is
\* whole and agreed on.
DeviceSafe ==
  /\ part = "edgetasks" => /\ EtTypeOK /\ ExecutesOnce /\ SuccessRan /\ RunsUnderLease
                           /\ DeliveredStored
  /\ part = "pairing" => /\ EpTypeOK /\ CodeAdmitsOne /\ IdentityWhole /\ TrustAgrees



=============================================================================
