----------------------------- MODULE MCServing ------------------------------
(***************************************************************************)
(* What a request passes on its way, for TLC: the front door's gate, its   *)
(* creation, the move of the public origin, the catalog rollout and the    *)
(* sessions of the MCP endpoint. A behaviour belongs to one component,     *)
(* which `part` names; the others rest. The components share no state, so  *)
(* this is their union and not their product. Each has a set of bound      *)
(* records, one for each combination of faults worth meeting together.     *)
(***************************************************************************)
EXTENDS FrontDoor, FrontDoorRollout, McpSessions

CONSTANTS
  Parts

VARIABLE part

\* The gate: the backend goes or returns, and a caller leaves; it does both.
Outages == {[flips |-> 1, leaves |-> 1], [flips |-> 2, leaves |-> 0]}

Door(domain, catalog) == [domain |-> domain, url |-> "public", catalog |-> catalog]
Setup(start, requests, jobs, faults, pushes, callers) ==
  [start |-> start, requests |-> requests, jobs |-> jobs, faults |-> faults,
   pushes |-> pushes, callers |-> callers]

\* Creating the front door: two overlapping creations; a catalog that moves with
\* failing calls, two callers or a push; and the temporary rename.
Setups == {
  Setup("absent", {Door("legacy", "A")}, 2, 1, 0, {"a", "b"}),
  Setup("temporary", {Door("temporary", "B"), Door("temporary", "A")}, 3, 1, 0, {"a"}),
  Setup("temporary", {Door("temporary", "B")}, 3, 0, 0, {"a", "b"}),
  Setup("temporary", {Door("temporary", "B")}, 2, 1, 1, {"a"}),
  Setup("legacy", {Door("temporary", "A"), Door("legacy", "A")}, 1, 2, 1, {"a"}),
  Setup("legacy", {Door("temporary", "A"), Door("legacy", "A")}, 2, 0, 0, {"a", "b"}),
  Setup("legacy", {Door("legacy", "A")}, 1, 0, 0, {"a"})}

Move(start, after, requests, reconciles, faults, crashes, edits) ==
  [start |-> start, after |-> after, requests |-> requests, reconciles |-> reconciles,
   faults |-> faults, crashes |-> crashes, edits |-> edits, budget |-> 5]

\* The move of the public origin: forward and back with failing calls; a crash;
\* an edit by hand that a reconciliation meets; two requests.
Moves == {Move("direct", FALSE, 1, 0, 2, 0, 0), Move("fronted", FALSE, 1, 0, 2, 0, 0),
          Move("direct", FALSE, 1, 0, 1, 1, 0), Move("direct", FALSE, 1, 1, 0, 0, 1),
          Move("direct", FALSE, 1, 0, 1, 0, 1), Move("direct", TRUE, 1, 1, 0, 0, 0),
          Move("direct", FALSE, 2, 0, 0, 1, 0), Move("direct", FALSE, 2, 1, 0, 0, 0)}

Rollout(changed, requests, heads, faults, disk, crashes) ==
  [changed |-> changed, requests |-> requests, heads |-> heads, faults |-> faults,
   disk |-> disk, crashes |-> crashes]

\* The catalog rollout: failing calls and a crash; an unchanged catalog; a
\* second request and a moving branch; a failing write of the journal.
Rollouts == {Rollout(TRUE, 1, 0, 2, 0, 0), Rollout(TRUE, 1, 0, 1, 0, 1), Rollout(FALSE, 1, 0, 1, 1, 0),
             Rollout(TRUE, 2, 1, 0, 0, 0), Rollout(TRUE, 2, 0, 1, 0, 0), Rollout(TRUE, 1, 0, 1, 1, 0)}

Session(requests, lapses, crashes, drains, legacy) ==
  [requests |-> requests, lapses |-> lapses, crashes |-> crashes, drains |-> drains, legacy |-> legacy]

\* MCP sessions: an expiry; a drain into the other backend; a crash; and a
\* session that predates the durable table.
SessionUses == {Session(3, 1, 0, 0, FALSE), Session(2, 0, 0, 1, FALSE), Session(3, 0, 1, 0, FALSE),
                Session(2, 1, 0, 0, TRUE)}

servingVars == <<part, gateVars, fsVars, fmVars, crVars, mcVars>>

\* One component moves; the others rest in one of their initial states.
Only(p, bounds, rest) == part = p \/ bounds = rest

ServingInit ==
  /\ part \in Parts
  /\ GateInit /\ Only("gate", <<fdBounds, be>>, <<[flips |-> 1, leaves |-> 1], "ok">>)
  /\ SetupInit /\ Only("setup", fsBounds, Setup("legacy", {Door("legacy", "A")}, 1, 0, 0, {"a"}))
  /\ MoveInit /\ Only("move", fmBounds, Move("direct", TRUE, 1, 1, 0, 0, 0))
  /\ CatInit /\ Only("rollout", crBounds, Rollout(FALSE, 1, 0, 1, 1, 0))
  /\ McpInit /\ Only("sessions", <<mcBounds, msrv["a"].up>>, <<Session(3, 0, 1, 0, FALSE), TRUE>>)

ServingNext ==
  \/ /\ part = "gate" /\ GateNext
     /\ UNCHANGED <<part, fsVars, fmVars, crVars, mcVars>>
  \/ /\ part = "setup" /\ SetupNext
     /\ UNCHANGED <<part, gateVars, fmVars, crVars, mcVars>>
  \/ /\ part = "move" /\ MoveNext
     /\ UNCHANGED <<part, gateVars, fsVars, crVars, mcVars>>
  \/ /\ part = "rollout" /\ CatNext
     /\ UNCHANGED <<part, gateVars, fsVars, fmVars, mcVars>>
  \/ /\ part = "sessions" /\ McpNext
     /\ UNCHANGED <<part, gateVars, fsVars, fmVars, crVars>>

ServingSpec ==
  /\ ServingInit /\ [][ServingNext]_servingVars
  /\ SF_gateVars(part = "gate" /\ ProberStarts)
  /\ WF_gateVars(part = "gate" /\ (ProbeReady \/ ProbeVersion))
  /\ \A r \in Callers : SF_gateVars(part = "gate" /\ ProbeAfter(r))
  /\ \A r \in Callers : WF_gateVars(part = "gate" /\ CallerSteps(r))
  /\ WF_fmVars(part = "move" /\ MoveWorkerStep)
  /\ WF_fmVars(part = "move" /\ CoordinatorRestart)
  /\ \A app \in Apps : WF_fmVars(part = "move" /\ FinishDeployment(app))
  /\ WF_fmVars(part = "move" /\ (DispatchRequest \/ DispatchTarget \/ DispatchDeploy))
  /\ WF_crVars(part = "rollout" /\ CatWorker)
  /\ WF_crVars(part = "rollout" /\ CatOperator)
  /\ WF_crVars(part = "rollout" /\ CatRestart)
  /\ WF_crVars(part = "rollout" /\ (FinishBackend \/ FailBackend))
  /\ WF_crVars(part = "rollout" /\ FinishFront)
  /\ \A k \in Conns : WF_mcVars(part = "sessions" /\ (UpdateCapabilitiesBound(k) \/ CreateBound(k) \/ initializeResult(k) \/ PutCapabilities(k)))
  /\ \A k \in Conns : WF_mcVars(part = "sessions" /\ (AnswerPost(k) \/ DeleteBound(k) \/ ForgetCapabilities(k) \/ EndStream(k)))
  /\ \A p \in Servers : WF_mcVars(part = "sessions" /\ CloseListener(p))
  /\ \A p \in Servers : WF_mcVars(part = "sessions" /\ FinishDrain(p))

\* SnapshotSettles, when the front door moves.
SnapshotsSettle == <>[](part = "gate") => SnapshotSettles

\* The move of the public origin and the catalog rollout: two applications
\* never claim one origin, and what a journal calls done or restored is what
\* is served.
RolloutSafe ==
  /\ part = "move" => /\ MoveTypeOK /\ OriginsApart /\ WholeRunServed
  /\ part = "rollout" => /\ CatTypeOK /\ SucceededServed /\ PlainFailureRestored

\* MCP sessions over two overlapping backends: the table is bounded, and a
\* session a client was told of lives until it expires, ends or is displaced.
SessionsSafe ==
  /\ part = "sessions" => /\ SessionsBounded /\ ToldSessionLives


\* What serving promises over time: one front door is created, from what was
\* reviewed; a journal goes forward, one rollout at a time, an ended session
\* stays ended; every move, rollout and drain comes to its end, and the gate
\* settles and serves those who wait.
ServingKeepsOn ==
  /\ OneFrontDoor
  /\ RestoredAnswers
  /\ WritesReviewed
  /\ JournalForward
  /\ OneRollout
  /\ EndedStaysEnded
  /\ ActiveRequestEnds
  /\ RolloutEnds
  /\ DrainCompletes
  /\ SnapshotsSettle
  /\ WaitersServed
=============================================================================
