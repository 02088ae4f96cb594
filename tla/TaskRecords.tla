---------------------------- MODULE TaskRecords -----------------------------
(***************************************************************************)
(* What is kept of finished and running tasks: the evidence a task group   *)
(* is judged on, the durable journal of tool calls, and the console's      *)
(* readers of that journal. Each part has its own variables and its own    *)
(* specification.                                                          *)
(***************************************************************************)
EXTENDS Integers, FiniteSets, SequencesExt

-----------------------------------------------------------------------------
(***************************************************************************)
(* What a task group whose runtimes completed is judged on: Git, test and  *)
(* objective receipts of each worker (internal/workqueue/task.go and       *)
(* task_objective.go), the integration task that pins workers of another   *)
(* group (task_integration.go), the status, test, cleanup and start tools  *)
(* of internal/mcpserver that gather the evidence, and the Edge's test     *)
(* processes (internal/edgeclient/project_process_worktree.go).            *)
(*                                                                         *)
(* The sources under judgement stay writable: a status call reads the      *)
(* worktree, then the test, then records, and the worktree may change      *)
(* between any two of these.  A call holds the lock of its source task only*)
(* while its process lives; the Edge operation it sent does not need it.   *)
(*                                                                         *)
(* A commit is its position on the branch, 0 the base; a content digest is *)
(* a small number.  Contracts ask for Git evidence, a test and a clean,    *)
(* committed objective.                                                    *)
(***************************************************************************)

CONSTANTS
  Integrator,      \* the one worker of the integration task
  Contents,        \* content digests, 0 that of the base
  EvidenceBounds   \* the bounds of a behaviour: records of sources (the workers
                   \* of the source task), contract ("git" or "objective"),
                   \* judged (they start out accepted), edits, commits, calls,
                   \* restarts and reboots

VARIABLES
  source,       \* worktrees at the Edge: [state, content, commits]
  trial,        \* worktree_test_processes and its start operation
  evidence,     \* the receipts and the cleanup marker of each worker
  integration,  \* the integration task: [state, pins, receipt]
  desk,         \* the calls in flight
  removal,      \* project_worktree_cleanup operations
  edgeBoot,     \* the generation of the Edge process
  allowance     \* the bounds of this behaviour, counted down

evidenceVars == <<source, trial, evidence, integration, desk, removal, edgeBoot, allowance>>

SourceSet == Range(allowance.sources)
JudgedSet == SourceSet \cup {Integrator}
ReviewCalls == {"status", "cleanup", "launch"}
NoReceipt == -1
Unseen == [head |-> NoReceipt, clean |-> FALSE, fine |-> FALSE]
IdleReview == [at |-> "idle", target |-> "sources", phase |-> "own", todo |-> <<>>,
             seen |-> [u \in JudgedSet |-> Unseen], own |-> Unseen, assumed |-> {}]

ContractOf(u) == IF u = Integrator THEN "objective" ELSE allowance.contract
HeadCommit(u) == Len(source[u].commits)
CommitContent(u, h) == IF h = 0 THEN 0 ELSE source[u].commits[h].content
IsClean(u) == source[u].content = CommitContent(u, HeadCommit(u))
RanToSuccess(u) == u = Integrator => integration.state = "succeeded"

NoTrial == [state |-> "none", head |-> NoReceipt, content |-> NoReceipt, boot |-> 0]
NoEvidence == [git |-> NoReceipt, test |-> <<>>, objective |-> NoReceipt, cleaned |-> FALSE]
AcceptedEvidence == IF allowance.contract = "git" THEN [NoEvidence EXCEPT !.git = 1]
            ELSE [NoEvidence EXCEPT !.test = <<1, 1>>, !.objective = 1]

\* Freshly completed workers, or workers a status call has already accepted.
EvidenceInit ==
  /\ allowance \in EvidenceBounds
  /\ source = [u \in JudgedSet |->
       IF u = Integrator THEN [state |-> "absent", content |-> 0, commits |-> <<>>]
       ELSE [state |-> "ready", content |-> 1, commits |-> <<[content |-> 1, merged |-> {}]>>]]
  /\ trial = [u \in JudgedSet |->
       IF allowance.judged /\ u # Integrator /\ allowance.contract = "objective"
       THEN [state |-> "passed", head |-> 1, content |-> 1, boot |-> 0] ELSE NoTrial]
  /\ evidence = [u \in JudgedSet |->
       IF allowance.judged /\ u # Integrator THEN AcceptedEvidence ELSE NoEvidence]
  /\ integration = [state |-> "none", pins |-> <<>>, receipt |-> NoReceipt]
  /\ desk = [c \in ReviewCalls |-> IdleReview]
  /\ removal = [u \in JudgedSet |-> "none"]
  /\ edgeBoot = 0

----------------------------------------------------------------------------
(* The sources, and the tests at the Edge.                                *)

EditSource ==
  \E u \in JudgedSet, c \in Contents :
    /\ allowance.edits > 0 /\ source[u].state = "ready" /\ source[u].content # c
    /\ allowance' = [allowance EXCEPT !.edits = @ - 1]
    /\ source' = [source EXCEPT ![u].content = c]
    /\ UNCHANGED <<trial, evidence, integration, desk, removal, edgeBoot>>

\* The integrator commits with or without the pinned heads among its ancestors.
CommitSource ==
  \E u \in JudgedSet, merging \in BOOLEAN :
    LET h == HeadCommit(u)
        old == IF h = 0 THEN {} ELSE source[u].commits[h].merged
    IN /\ allowance.commits > 0 /\ source[u].state = "ready"
       /\ ~IsClean(u) \/ merging
       /\ merging => u = Integrator
       /\ allowance' = [allowance EXCEPT !.commits = @ - 1]
       /\ source' = [source EXCEPT ![u].commits =
            Append(@, [content |-> source[u].content,
                       merged |-> IF merging THEN {<<v, integration.pins[v].head>> : v \in SourceSet}
                                  ELSE old])]
       /\ UNCHANGED <<trial, evidence, integration, desk, removal, edgeBoot>>

\* project_task_test_start: one start operation per task and worker.
CallTestStart ==
  \E u \in JudgedSet :
    /\ trial[u].state = "none" /\ ~evidence[u].cleaned
    /\ ContractOf(u) = "objective" /\ RanToSuccess(u)
    /\ trial' = [trial EXCEPT ![u].state = "queued"]
    /\ UNCHANGED <<source, evidence, integration, desk, removal, edgeBoot, allowance>>

\* ProjectWorktreeTestProcessManager.Start captures head and content twice and
\* refuses an input that moved or is gone.
EdgeStartsTest ==
  \E u \in JudgedSet :
    /\ trial[u].state = "queued"
    /\ trial' = [trial EXCEPT ![u] =
         IF source[u].state = "ready"
         THEN [state |-> "running", head |-> HeadCommit(u),
               content |-> source[u].content, boot |-> edgeBoot]
         ELSE [@ EXCEPT !.state = "refused"]]
    /\ UNCHANGED <<source, evidence, integration, desk, removal, edgeBoot, allowance>>

TestEnds ==
  \E u \in JudgedSet, how \in {"passed", "failed"} :
    /\ trial[u].state = "running"
    /\ trial' = [trial EXCEPT ![u].state = how]
    /\ UNCHANGED <<source, evidence, integration, desk, removal, edgeBoot, allowance>>

\* project_task_test_stop, and the profile's timeout.
StopTest ==
  \E u \in JudgedSet :
    /\ trial[u].state = "running" /\ allowance.calls > 0
    /\ allowance' = [allowance EXCEPT !.calls = @ - 1]
    /\ trial' = [trial EXCEPT ![u].state = "stopped"]
    /\ UNCHANGED <<source, evidence, integration, desk, removal, edgeBoot>>

\* A new Edge process stops and invalidates the tests of the one before.
EdgeReboots ==
  /\ allowance.reboots > 0
  /\ allowance' = [allowance EXCEPT !.reboots = @ - 1]
  /\ edgeBoot' = edgeBoot + 1
  /\ trial' = [u \in JudgedSet |-> IF trial[u].state = "running"
                                THEN [trial[u] EXCEPT !.state = "stopped"] ELSE trial[u]]
  /\ UNCHANGED <<source, evidence, integration, desk, removal>>

----------------------------------------------------------------------------
(* The receipts: written once, then only compared.                        *)

RecordedOnce(old, new, none) == IF old = none THEN new ELSE old

TestStale(u) ==
  \/ trial[u].boot # edgeBoot \/ source[u].state # "ready"
  \/ trial[u].head # HeadCommit(u) \/ trial[u].content # source[u].content

\* projectTaskTestStatus.
TestEvidence(u) ==
  LET stored == evidence[u].test # <<>> IN
  CASE evidence[u].cleaned -> IF stored THEN "verified" ELSE "unavailable"
    [] ~evidence[u].cleaned /\ trial[u].state \in {"none", "refused"} ->
         IF stored THEN "unavailable"
         ELSE IF trial[u].state = "none" THEN "not_started" ELSE "failed"
    [] ~evidence[u].cleaned /\ trial[u].state = "queued" -> "running"
    [] ~evidence[u].cleaned /\ trial[u].state \notin {"none", "refused", "queued"} ->
         IF TestStale(u) THEN "stale"
         ELSE IF trial[u].state = "running" THEN "running"
         ELSE IF trial[u].state # "passed" THEN "failed"
         ELSE IF RecordedOnce(evidence[u].test, <<trial[u].head, trial[u].content>>, <<>>)
                   = <<trial[u].head, trial[u].content>> THEN "verified" ELSE "stale"

----------------------------------------------------------------------------
(* A status view: the worktree of every worker, then every worker's test   *)
(* and objective.  What the first pass saw is what the second one judges.  *)

SourceLocked == \/ desk["launch"].at # "idle"
                \/ desk["cleanup"].at # "idle" /\ desk["cleanup"].target = "sources"
AtWorker(c) == Head(desk[c].todo)
ReviewOf(target) == IF target = "sources" THEN allowance.sources ELSE <<Integrator>>
WalkOf(c) == IF desk[c].phase = "own" THEN ReviewOf(desk[c].target) ELSE allowance.sources
BeginWalk(call, phase, todo) ==
  [call EXCEPT !.at = "git", !.phase = phase, !.todo = todo, !.seen = [u \in JudgedSet |-> Unseen]]
EndReview(c) == [desk EXCEPT ![c] = IdleReview]

SpendReview == /\ allowance.calls > 0
               /\ allowance' = [allowance EXCEPT !.calls = @ - 1]

CallStatus ==
  \E target \in {"sources", "integrator"} :
    /\ desk["status"].at = "idle" /\ SpendReview
    /\ target = "integrator" => integration.state = "succeeded"
    /\ desk' = [desk EXCEPT !["status"] =
         BeginWalk([IdleReview EXCEPT !.target = target], "own", ReviewOf(target))]
    /\ UNCHANGED <<source, trial, evidence, integration, removal, edgeBoot>>

\* A worker the view takes for cleaned keeps its stored receipts.
TakenCleaned(c, u) == evidence[u].cleaned \/ u \in desk[c].assumed

\* When the Git contract is satisfied a receipt is recorded, or compared.
ReadGit ==
  \E c \in ReviewCalls :
    LET u == AtWorker(c)
        live == source[u].state = "ready"
        met == ContractOf(u) = "git" /\ IsClean(u) /\ HeadCommit(u) > 0
        git == IF live /\ met /\ ~evidence[u].cleaned
               THEN RecordedOnce(evidence[u].git, HeadCommit(u), NoReceipt) ELSE evidence[u].git
        rest == Tail(desk[c].todo)
    IN /\ desk[c].at = "git"
       /\ evidence' = IF TakenCleaned(c, u) THEN evidence ELSE [evidence EXCEPT ![u].git = git]
       /\ desk' = [desk EXCEPT
            ![c].seen[u] =
              IF TakenCleaned(c, u)
              THEN [head |-> IF evidence[u].objective # NoReceipt THEN evidence[u].objective
                             ELSE evidence[u].git, clean |-> TRUE, fine |-> TRUE]
              ELSE IF ~live THEN Unseen
              ELSE [head |-> HeadCommit(u), clean |-> IsClean(u),
                    fine |-> git = NoReceipt \/ (met /\ git = HeadCommit(u))],
            ![c].todo = IF rest = <<>> THEN WalkOf(c) ELSE rest,
            ![c].at = IF rest # <<>> THEN "git"
                      ELSE IF ContractOf(u) = "git" THEN "walked" ELSE "test"]
       /\ UNCHANGED <<source, trial, integration, removal, edgeBoot, allowance>>

SameSource(head, test) == test # <<>> /\ test[1] = head
CriteriaSatisfied(saw) == saw.clean /\ saw.head > 0

\* projectTaskTestStatus reads the store again: a worker only assumed to be
\* cleaned is asked for live evidence.
ReadTest ==
  \E c \in ReviewCalls :
    LET u == AtWorker(c)
        saw == desk[c].seen[u]
        verdict == TestEvidence(u)
        test == IF verdict = "verified" /\ ~evidence[u].cleaned
                THEN RecordedOnce(evidence[u].test, <<trial[u].head, trial[u].content>>, <<>>)
                ELSE evidence[u].test
        may == /\ ~TakenCleaned(c, u) /\ ~evidence[u].cleaned
               /\ saw.fine /\ verdict = "verified"
               /\ CriteriaSatisfied(saw) /\ SameSource(saw.head, test)
        objective == IF may THEN RecordedOnce(evidence[u].objective, saw.head, NoReceipt)
                     ELSE evidence[u].objective
        rest == Tail(desk[c].todo)
    IN /\ desk[c].at = "test"
       /\ evidence' = [evidence EXCEPT ![u].test = test, ![u].objective = objective]
       /\ desk' = [desk EXCEPT
            ![c].seen[u].fine =
              /\ saw.fine /\ verdict = "verified"
              /\ IF TakenCleaned(c, u) THEN objective # NoReceipt ELSE may /\ objective = saw.head,
            ![c].todo = rest,
            ![c].at = IF rest = <<>> THEN "walked" ELSE "test"]
       /\ UNCHANGED <<source, trial, integration, removal, edgeBoot, allowance>>

AllFine(c, units) == \A u \in units : desk[c].seen[u].fine

----------------------------------------------------------------------------
(* project_task_start with an integration contract.                       *)

CallLaunch ==
  /\ integration.state = "none" /\ Cardinality(SourceSet) > 1
  /\ desk["launch"].at = "idle" /\ ~SourceLocked /\ SpendReview
  /\ desk' = [desk EXCEPT !["launch"] = BeginWalk(IdleReview, "own", allowance.sources)]
  /\ UNCHANGED <<source, trial, evidence, integration, removal, edgeBoot>>

PinOf(c, u) == [head |-> desk[c].seen[u].head, receipts |-> evidence[u]]
MayPin(c) ==
  \A u \in SourceSet :
    desk[c].seen[u].fine /\ desk[c].seen[u].clean /\ ~evidence[u].cleaned

\* captureProjectTaskIntegrationPins, then CreateTask, whose transaction reads
\* the cleanup markers again.
CreateIntegration ==
  /\ desk["launch"].at = "walked"
  /\ desk' = EndReview("launch")
  /\ IF MayPin("launch")
     THEN /\ integration' = [integration EXCEPT !.state = "running",
                               !.pins = [u \in SourceSet |-> PinOf("launch", u)]]
          /\ source' = [source EXCEPT ![Integrator].state = "ready"]
     ELSE UNCHANGED <<integration, source>>
  /\ UNCHANGED <<trial, evidence, removal, edgeBoot, allowance>>

IntegratorEnds ==
  \E end \in {"succeeded", "failed", "cancelled"} :
    /\ integration.state = "running"
    /\ integration' = [integration EXCEPT !.state = end]
    /\ UNCHANGED <<source, trial, evidence, desk, removal, edgeBoot, allowance>>

RequiredByIntegration == integration.state \in {"running", "succeeded"} /\ ~evidence[Integrator].cleaned

PinsHold(c) == /\ MayPin(c)
               /\ \A u \in SourceSet : integration.pins[u] = PinOf(c, u)
SourcesBound == \A u \in SourceSet : ~evidence[u].cleaned /\ integration.pins[u].receipts = evidence[u]

\* applyProjectTaskIntegrationStatus, first part: the sources are viewed again.
EndOwnWalk ==
  \E c \in {"status", "cleanup"} :
    LET d == desk[c] IN
    /\ d.at = "walked" /\ d.phase = "own"
    /\ desk' =
         IF d.target = "integrator" /\ ~evidence[Integrator].cleaned
         THEN [desk EXCEPT ![c] =
                BeginWalk([d EXCEPT !.own = d.seen[Integrator]], "pins", allowance.sources)]
         ELSE IF c = "cleanup" /\ AllFine(c, Range(ReviewOf(d.target)))
         THEN [desk EXCEPT ![c].at = "each"]
         ELSE EndReview(c)
    /\ UNCHANGED <<source, trial, evidence, integration, removal, edgeBoot, allowance>>

EndPinsWalk ==
  \E c \in {"status", "cleanup"} :
    /\ desk[c].at = "walked" /\ desk[c].phase = "pins"
    /\ desk' = IF PinsHold(c) /\ desk[c].own.fine
               THEN [desk EXCEPT ![c].at = "ancestry"] ELSE EndReview(c)
    /\ UNCHANGED <<source, trial, evidence, integration, removal, edgeBoot, allowance>>

\* The Edge verifies that the pinned heads are ancestors of the head it is at.
PinnedHeads == {<<u, integration.pins[u].head>> : u \in SourceSet}
Ancestors(u) == IF HeadCommit(u) = 0 THEN {} ELSE source[u].commits[HeadCommit(u)].merged
AncestryVerified == PinnedHeads \subseteq Ancestors(Integrator)

ReadAncestry ==
  \E c \in {"status", "cleanup"} :
    /\ desk[c].at = "ancestry"
    /\ desk' = IF /\ source[Integrator].state = "ready" /\ IsClean(Integrator)
                  /\ HeadCommit(Integrator) = desk[c].own.head /\ AncestryVerified
               THEN [desk EXCEPT ![c] = BeginWalk(@, "again", allowance.sources)]
               ELSE EndReview(c)
    /\ UNCHANGED <<source, trial, evidence, integration, removal, edgeBoot, allowance>>

\* The sources a second time, the test once more, and the receipt.
RecordIntegration ==
  \E c \in {"status", "cleanup"} :
    LET head == desk[c].own.head
        may == /\ PinsHold(c) /\ SourcesBound
               /\ TestEvidence(Integrator) = "verified" /\ trial[Integrator].head = head
               /\ evidence[Integrator].objective = head
        receipt == IF may THEN RecordedOnce(integration.receipt, head, NoReceipt) ELSE integration.receipt
    IN /\ desk[c].at = "walked" /\ desk[c].phase = "again"
       /\ integration' = [integration EXCEPT !.receipt = receipt]
       /\ desk' = IF c = "cleanup" /\ may /\ receipt = head
                  THEN [desk EXCEPT ![c].at = "each"] ELSE EndReview(c)
       /\ UNCHANGED <<source, trial, evidence, removal, edgeBoot, allowance>>

----------------------------------------------------------------------------
(* project_task_cleanup.                                                  *)

\* ReviewOf whose removal is known to have succeeded are viewed as cleaned.
CallRemoval ==
  \E target \in {"sources", "integrator"} :
    LET call == [IdleReview EXCEPT !.target = target,
                   !.assumed = {u \in Range(ReviewOf(target)) :
                                  removal[u] = "succeeded" /\ evidence[u].objective # NoReceipt}]
    IN /\ desk["cleanup"].at = "idle" /\ SpendReview
       /\ target = "sources" => ~SourceLocked /\ ~RequiredByIntegration
       /\ target = "integrator" => integration.state \in {"succeeded", "failed", "cancelled"}
       /\ desk' = [desk EXCEPT !["cleanup"] =
            IF ContractOf(Head(ReviewOf(target))) = "git" \/ ~RanToSuccess(Head(ReviewOf(target)))
            THEN [call EXCEPT !.at = "each"]
            ELSE BeginWalk(call, "own", ReviewOf(target))]
       /\ UNCHANGED <<source, trial, evidence, integration, removal, edgeBoot>>

\* Receipts present and, unless the removal is known, confirmed live.
ConfirmedStored(u) == evidence[u].git # NoReceipt \/ evidence[u].test # <<>>
ConfirmedLive(u) ==
  \/ ~RanToSuccess(u)
  \/ /\ ConfirmedStored(u)
     /\ \/ removal[u] = "succeeded"
        \/ /\ ContractOf(u) = "git" /\ source[u].state = "ready"
           /\ IsClean(u) /\ evidence[u].git = HeadCommit(u)
        \/ ContractOf(u) = "objective" /\ TestEvidence(u) = "verified"

StillThere == SelectSeq(ReviewOf(desk["cleanup"].target), LAMBDA u : ~evidence[u].cleaned)

SendRemoval ==
  /\ desk["cleanup"].at = "each"
  /\ IF StillThere # <<>> /\ ConfirmedLive(Head(StillThere))
     THEN /\ removal' = [removal EXCEPT ![Head(StillThere)] = IF @ = "none" THEN "queued" ELSE @]
          /\ desk' = [desk EXCEPT !["cleanup"].at = "wait", !["cleanup"].todo = StillThere]
     ELSE desk' = EndReview("cleanup") /\ UNCHANGED removal
  /\ UNCHANGED <<source, trial, evidence, integration, edgeBoot, allowance>>

\* ProjectWorktreeManager.Cleanup refuses a dirty tree.
EdgeRemoves ==
  \E u \in JudgedSet :
    /\ removal[u] = "queued"
    /\ removal' = [removal EXCEPT ![u] = IF IsClean(u) THEN "succeeded" ELSE "failed"]
    /\ source' = IF IsClean(u) THEN [source EXCEPT ![u].state = "removed"] ELSE source
    /\ UNCHANGED <<trial, evidence, integration, desk, edgeBoot, allowance>>

\* MarkTaskWorkerWorktreeCleaned.
MayMark(u) ==
  /\ RanToSuccess(u) =>
       /\ ContractOf(u) = "git" => evidence[u].git # NoReceipt
       /\ ContractOf(u) = "objective" => evidence[u].test # <<>> /\ evidence[u].objective # NoReceipt
       /\ u = Integrator => integration.receipt # NoReceipt
  /\ u # Integrator => ~RequiredByIntegration

MarkRemoved ==
  LET u == AtWorker("cleanup") IN
  /\ desk["cleanup"].at = "wait" /\ removal[u] \in {"succeeded", "failed"}
  /\ IF removal[u] = "succeeded" /\ MayMark(u)
     THEN /\ evidence' = [evidence EXCEPT ![u].cleaned = TRUE]
          /\ desk' = [desk EXCEPT !["cleanup"].at = "each", !["cleanup"].todo = <<>>]
     ELSE desk' = EndReview("cleanup") /\ UNCHANGED evidence
  /\ UNCHANGED <<source, trial, integration, removal, edgeBoot, allowance>>

\* WaitOperation gives up; the operation stays with the Edge.
RemovalTimesOut ==
  /\ desk["cleanup"].at = "wait" /\ removal[AtWorker("cleanup")] = "queued"
  /\ desk' = EndReview("cleanup")
  /\ UNCHANGED <<source, trial, evidence, integration, removal, edgeBoot, allowance>>

ServerRestarts ==
  /\ allowance.restarts > 0 /\ \E c \in ReviewCalls : desk[c].at # "idle"
  /\ allowance' = [allowance EXCEPT !.restarts = @ - 1]
  /\ desk' = [c \in ReviewCalls |-> IdleReview]
  /\ UNCHANGED <<source, trial, evidence, integration, removal, edgeBoot>>

EvidenceNext ==
  \/ EditSource \/ CommitSource
  \/ CallTestStart \/ EdgeStartsTest \/ TestEnds \/ StopTest \/ EdgeReboots
  \/ CallStatus \/ ReadGit \/ ReadTest
  \/ CallLaunch \/ CreateIntegration \/ IntegratorEnds
  \/ EndOwnWalk \/ EndPinsWalk \/ ReadAncestry \/ RecordIntegration
  \/ CallRemoval \/ SendRemoval \/ EdgeRemoves \/ MarkRemoved \/ RemovalTimesOut
  \/ ServerRestarts

EvidenceSpec == EvidenceInit /\ [][EvidenceNext]_evidenceVars

----------------------------------------------------------------------------
(* What must hold.                                                        *)

\* Every record is of the shape the store and the Edge keep; a receipt names a
\* commit of the worker's branch.
EvidenceTypeOK ==
  /\ \A u \in JudgedSet :
       /\ source[u].state \in {"absent", "ready", "removed"} /\ source[u].content \in Contents
       /\ {evidence[u].git, evidence[u].objective} \subseteq 1..HeadCommit(u) \cup {NoReceipt}
       /\ evidence[u].cleaned \in BOOLEAN
       /\ trial[u].state \in {"none", "queued", "running", "refused", "passed", "failed", "stopped"}
  /\ integration.state \in {"none", "running", "succeeded", "failed", "cancelled"}
  /\ \A c \in ReviewCalls : desk[c].at \in {"idle", "git", "test", "walked", "ancestry", "each", "wait"}

\* An objective receipt names the head a test passed on, and was given by a
\* call that had seen that head under a clean tree
\* (evaluateProjectTaskObjective, RecordTaskWorkerObjective).
ObjectiveWasTested ==
  \A u \in JudgedSet : evidence[u].objective # NoReceipt =>
    /\ evidence[u].test # <<>> /\ evidence[u].test[1] = evidence[u].objective
    /\ trial[u].state = "passed"

\* A worktree marked cleaned was removed by the Edge, under its receipts, and
\* no integration that still runs or awaits its own cleanup has it pinned
\* (MarkTaskWorkerWorktreeCleaned, validateTaskIntegrationSourcesTx).
CleanedUnderEvidence ==
  \A u \in JudgedSet : evidence[u].cleaned =>
    /\ source[u].state = "removed"
    /\ RanToSuccess(u) => evidence[u].git # NoReceipt \/ evidence[u].objective # NoReceipt
    /\ u # Integrator /\ integration.state \in {"running", "succeeded"} => evidence[Integrator].cleaned

\* A recorded integration is of one commit: the tested and accepted head, with
\* every pinned head among its ancestors (applyProjectTaskIntegrationStatus).
IntegratedAtOneHead ==
  integration.receipt # NoReceipt =>
    /\ evidence[Integrator].objective = integration.receipt
    /\ PinnedHeads \subseteq source[Integrator].commits[integration.receipt].merged

\* Receipts, pins and cleanup markers are written once.
EvidenceIsFinal ==
  /\ \A u \in JudgedSet :
       /\ evidence[u].git # NoReceipt => evidence'[u].git = evidence[u].git
       /\ evidence[u].test # <<>> => evidence'[u].test = evidence[u].test
       /\ evidence[u].objective # NoReceipt => evidence'[u].objective = evidence[u].objective
       /\ evidence[u].cleaned => evidence'[u].cleaned
  /\ integration.pins # <<>> => integration'.pins = integration.pins
  /\ integration.receipt # NoReceipt => integration'.receipt = integration.receipt

\* A test receipt is recorded while the test it is about describes the
\* worktree as it is (currentEvidence, projectTaskTestStatus).
TestedAsItIs ==
  \A u \in JudgedSet :
    evidence[u].test = <<>> /\ evidence'[u].test # <<>> =>
      evidence'[u].test = <<HeadCommit(u), source[u].content>>
      /\ trial[u].boot = edgeBoot

-----------------------------------------------------------------------------
(***************************************************************************)
(* The durable record of MCP tool calls (internal/taskjournal): a table of *)
(* tasks and a log of events in one SQLite file, pruned by age, by count   *)
(* and by size before every write, and an import of the older per-task     *)
(* JSON files that runs when the file is opened.  The callers are the      *)
(* tools/call requests of internal/mcpserver, each with the ticker that    *)
(* sends its heartbeats.  A commit happens under the store's mutex; the    *)
(* event is handed to the subscribers later, outside of it.                *)
(*                                                                         *)
(* Bytes are counted in rows.  A task row's updated_at is its heartbeat_at.*)
(***************************************************************************)

CONSTANTS
  ToolCalls,     \* tools/call requests; each draws a fresh task ID
  Previews,      \* the calls of a tool whose name ends in "_preview"
  Legacy,        \* tasks that an earlier release left as JSON files
  MaxRecords, MaxLog, MaxRows, PruneBatch,  \* the pruning limits
  RecordAge,     \* TerminalRetention and EventRetention
  JournalBounds  \* the bounds of a behaviour, each a record of calls, legacy
                 \* (files), events, beats, crashes, time, view and streams

VARIABLES
  journal,  \* tasks.db: [tasks, log, lastEvent, lastSeq, migrated]
  files,    \* JSON files still in the root
  server,   \* the process: its mode, where each call is, and the committed
            \* event each call has yet to publish
  inserts,  \* history: how often a row was inserted for each task
  spent     \* the bounds of this behaviour, and the beats, crashes, time used

taskJournalVars == <<journal, files, server, inserts, spent>>

TaskIds == ToolCalls \cup Legacy
TerminalStates == {"completed", "failed", "cancelled"}
NoEvent == [id |-> 0]

TaskRow(s, state, at, version) ==
  [seq |-> s, state |-> state, updated |-> at, version |-> version,
   terminal |-> IF state \in TerminalStates THEN at ELSE -1]

TaskEvent(i, c, row, type) ==
  [id |-> i, task |-> c, version |-> row.version, at |-> row.updated,
   type |-> type, state |-> row.state]

EndedTasks(T) == {c \in DOMAIN T : T[c].terminal >= 0}
Without(T, S) == [c \in DOMAIN T \ S |-> T[c]]
OfTasks(E, S) == {e \in E : e.task \in S}

\* ORDER BY updated_at ASC, sequence ASC LIMIT n over the ended rows.
EndedBefore(T, d, c) ==
  T[d].updated < T[c].updated \/ (T[d].updated = T[c].updated /\ T[d].seq < T[c].seq)
OldestEnded(T, n) ==
  {c \in EndedTasks(T) : Cardinality({d \in EndedTasks(T) : EndedBefore(T, d, c)}) < n}
OldestEvents(E, n) == {e \in E : Cardinality({f \in E : f.id < e.id}) < n}
NewestEvents(E, n) == {e \in E : Cardinality({f \in E : f.id > e.id}) < n}

\* The rows a loop deletes that takes them a batch at a time until n are gone.
InBatches(n) == IF n <= 0 THEN 0 ELSE ((n + PruneBatch - 1) \div PruneBatch) * PruneBatch

\* pruneBytesLocked: events first, then ended tasks; the rows of unfinished
\* tasks are never deleted, and when they alone exceed the budget the write
\* that asked for the pruning fails.
PruneBytes(T, E) ==
  LET over == Cardinality(DOMAIN T) + Cardinality(E) - MaxRows
      E2   == E \ OldestEvents(E, InBatches(over))
      more == Cardinality(DOMAIN T) + Cardinality(E2) - MaxRows
      T2   == Without(T, OldestEnded(T, InBatches(more)))
  IN  [tasks |-> T2, log |-> OfTasks(E2, DOMAIN T2),
       ok |-> Cardinality(DOMAIN T2) + Cardinality(E2) <= MaxRows]

\* pruneLocked.  Deleting a task deletes its events (ON DELETE CASCADE).
TaskPruned ==
  LET old == spent.now - RecordAge
      T1  == Without(journal.tasks, {c \in EndedTasks(journal.tasks) : journal.tasks[c].terminal < old})
      T2  == Without(T1, OldestEnded(T1, Cardinality(DOMAIN T1) - MaxRecords))
      E2  == {e \in OfTasks(journal.log, DOMAIN T2) : e.at >= old}
  IN  PruneBytes(T2, NewestEvents(E2, MaxLog))

TaskJournalInit ==
  /\ journal = [tasks |-> << >>, log |-> {}, lastEvent |-> 0, lastSeq |-> 0, migrated |-> FALSE]
  /\ server = [mode |-> "down", call |-> [c \in ToolCalls |-> "idle"],
               unsent |-> [c \in ToolCalls |-> NoEvent]]
  /\ inserts = [c \in TaskIds |-> 0]
  /\ \E b \in JournalBounds :
       spent = [bound |-> b, beats |-> 0, crashes |-> 0, now |-> 0] /\ files = b.legacy

\* The insertion of rows for the tasks in S, all in one state, in some order.
ImportTasks(S, state, type) ==
  \E pos \in [S -> 1..Cardinality(S)] :
    LET row(c) == TaskRow(journal.lastSeq + pos[c], state, 0, 1) IN
    /\ \A c, d \in S : pos[c] = pos[d] => c = d
    /\ journal' = [journal EXCEPT
         !.tasks = [c \in DOMAIN @ \cup S |-> IF c \in S THEN row(c) ELSE @[c]],
         !.log = @ \cup {TaskEvent(journal.lastEvent + pos[c], c, row(c), type) : c \in S},
         !.lastEvent = @ + Cardinality(S), !.lastSeq = @ + Cardinality(S), !.migrated = TRUE]
    /\ inserts' = [c \in TaskIds |-> inserts[c] + IF c \in S THEN 1 ELSE 0]

\* OpenSQLiteStore up to the migration's commit: the marker is written in the
\* transaction that inserts the rows, and INSERT OR IGNORE skips a known task.
\* The files were last written at time 0.
MigrateLegacy ==
  /\ server.mode = "down"
  /\ \/ /\ journal.migrated /\ server' = [server EXCEPT !.mode = "pruning"]
        /\ UNCHANGED <<journal, inserts>>
     \/ /\ ~journal.migrated /\ server' = [server EXCEPT !.mode = "archiving"]
        /\ LET new == files \ DOMAIN journal.tasks IN
           ImportTasks(new, "executing", "started") \/ ImportTasks(new, "completed", "transition")
  /\ UNCHANGED <<files, spent>>

\* The rename of the imported files: errors are ignored.
ArchiveLegacy ==
  /\ server.mode = "archiving" /\ server' = [server EXCEPT !.mode = "pruning"]
  /\ files' \in SUBSET files
  /\ UNCHANGED <<journal, inserts, spent>>

\* The Prune that ends OpenSQLiteStore; if it fails the process does not start.
OpenJournal ==
  /\ server.mode = "pruning"
  /\ journal' = [journal EXCEPT !.tasks = TaskPruned.tasks, !.log = TaskPruned.log]
  /\ server' = [server EXCEPT !.mode = IF TaskPruned.ok THEN "up" ELSE "down"]
  /\ UNCHANGED <<files, inserts, spent>>

MayWrite == server.mode = "up" /\ journal.lastEvent < spent.bound.events

\* StartScoped: prune, then insert the row and its event in one transaction.
\* When it fails the call goes on without a task.
StartTask(c) ==
  /\ MayWrite /\ server.call[c] = "idle" /\ c \in spent.bound.calls
  /\ LET p   == TaskPruned
         row == TaskRow(journal.lastSeq + 1, "executing", spent.now, 1)
         e   == TaskEvent(journal.lastEvent + 1, c, row, "started")
     IN  IF p.ok
         THEN /\ journal' = [journal EXCEPT !.tasks = [d \in DOMAIN p.tasks \cup {c} |->
                                                         IF d = c THEN row ELSE p.tasks[d]],
                               !.log = p.log \cup {e}, !.lastEvent = e.id, !.lastSeq = row.seq]
              /\ inserts' = [inserts EXCEPT ![c] = @ + 1]
              /\ server' = [server EXCEPT !.call[c] = "running", !.unsent[c] = e]
         ELSE /\ journal' = [journal EXCEPT !.tasks = p.tasks, !.log = p.log]
              /\ server' = [server EXCEPT !.call[c] = "unjournaled"]
              /\ UNCHANGED inserts
  /\ UNCHANGED <<files, spent>>

\* SQLiteStore.Update: prune, then write the row and its event in one
\* transaction.  The next operation of the call follows the publication.
UpdateTask(c, to, state, type) ==
  LET p   == TaskPruned
      row == TaskRow(p.tasks[c].seq, state, spent.now, p.tasks[c].version + 1)
      e   == TaskEvent(journal.lastEvent + 1, c, row, type)
  IN  /\ MayWrite /\ server.unsent[c] = NoEvent
      /\ IF p.ok /\ c \in DOMAIN p.tasks /\ p.tasks[c].state \notin TerminalStates
         THEN /\ journal' = [journal EXCEPT !.tasks = [p.tasks EXCEPT ![c] = row],
                                            !.log = p.log \cup {e}, !.lastEvent = e.id]
              /\ server' = [server EXCEPT !.call[c] = to, !.unsent[c] = e]
         ELSE /\ journal' = [journal EXCEPT !.tasks = p.tasks, !.log = p.log]
              /\ server' = [server EXCEPT !.call[c] = to]
      /\ UNCHANGED <<files, inserts>>

\* The ticker of startTaskJournal.  The state is the one in the row.
HeartbeatTask(c) ==
  /\ server.call[c] = "running" /\ c \in DOMAIN journal.tasks
  /\ spent.beats < spent.bound.beats /\ spent' = [spent EXCEPT !.beats = @ + 1]
  /\ UpdateTask(c, "running", journal.tasks[c].state, "heartbeat")

\* finishTaskJournal, once the ticker has stopped: the validating transition,
\* then the final one.  A preview that went well stays "planned".
ValidateTask(c) ==
  /\ server.call[c] = "running"
  /\ UpdateTask(c, "finishing", "validating", "transition") /\ UNCHANGED spent
FinishTask(c) ==
  /\ server.call[c] = "finishing"
  /\ \E state \in {"failed", IF c \in Previews THEN "planned" ELSE "completed"} :
       UpdateTask(c, "done", state, "transition")
  /\ UNCHANGED spent

\* The caller's part of Journal.publish; DeliverEvent is the subscriber's.
PublishEvent(c) ==
  /\ server.mode = "up" /\ server.unsent[c] # NoEvent
  /\ server' = [server EXCEPT !.unsent[c] = NoEvent]
  /\ UNCHANGED <<journal, files, inserts, spent>>

\* The process dies: the calls and what they had not published are gone.
CrashServer ==
  /\ server.mode # "down" /\ spent.crashes < spent.bound.crashes
  /\ spent' = [spent EXCEPT !.crashes = @ + 1]
  /\ server' = [mode |-> "down", unsent |-> [c \in ToolCalls |-> NoEvent],
                call |-> [c \in ToolCalls |-> IF server.call[c] = "idle" THEN "idle" ELSE "dead"]]
  /\ UNCHANGED <<journal, files, inserts>>

JournalTick ==
  /\ spent.now < spent.bound.time /\ spent' = [spent EXCEPT !.now = @ + 1]
  /\ UNCHANGED <<journal, files, server, inserts>>

-----------------------------------------------------------------------------
(***************************************************************************)
(* The readers of the task journal (internal/console/task_endpoints.go):   *)
(* GET /console/events, a server-sent event stream that replays what its   *)
(* browser missed and then follows the live publications, and              *)
(* GET /console/tasks, which lists the tasks a page at a time.             *)
(*                                                                         *)
(* The two share nothing but the journal: a behaviour has the one or the   *)
(* other (bound.view) and makes at most bound.streams connections.         *)
(***************************************************************************)

CONSTANTS
  ReplayLimit,   \* MaxPageSize of Replay
  PageSize,      \* the limit of a task page
  ChannelSize    \* the 32 events a subscriber's channel holds

VARIABLES
  conn,     \* the handler: [phase, after, channel, made]
  browser,  \* the Last-Event-ID it holds and, as history, the newest event of
            \* its last snapshot, the IDs it was sent, and whether one twice
  pager     \* the client that lists the tasks: [phase, cursor, listed] and,
            \* as history, the tasks not written since its first page

readerVars == <<conn, browser, pager>>
consoleVars == <<taskJournalVars, readerVars>>

ConsoleInit ==
  /\ TaskJournalInit
  /\ conn = [phase |-> "closed", after |-> 0, channel |-> << >>, made |-> 0]
  /\ browser = [last |-> 0, base |-> 0, sent |-> {}, again |-> FALSE]
  /\ pager = [phase |-> "first", cursor |-> << >>, listed |-> << >>, still |-> {}]

EventIds == {e.id : e \in journal.log}

\* SQLiteStore.Replay: an ID older than what is kept, or newer than anything.
ReplayGap(after) ==
  after > 0 /\ (EventIds = {} \/ after > Max(EventIds) \/ after < Min(EventIds) - 1)

Replay(after) ==
  LET past == SetToSortSeq({i \in EventIds : i > after}, <)
  IN  SubSeq(past, 1, Min({Len(past), ReplayLimit}))

\* writeJournalEvent for some IDs, the last of them i.
SendEvents(ids, i) ==
  browser' = [browser EXCEPT !.last = i, !.sent = @ \cup ids,
                             !.again = @ \/ browser.sent \cap ids # {}]

\* handleTaskEvents until the replay: with no ID, or after a gap, the browser
\* gets snapshots instead.
OpenStream ==
  /\ spent.bound.view = "stream" /\ server.mode = "up"
  /\ conn.phase = "closed" /\ conn.made < spent.bound.streams
  /\ IF browser.last = 0 \/ ReplayGap(browser.last)
     THEN /\ conn' = [conn EXCEPT !.phase = "snapshot", !.after = browser.last, !.made = @ + 1]
          /\ UNCHANGED browser
     ELSE LET missed == Replay(browser.last)
              last   == IF missed = << >> THEN browser.last ELSE Last(missed)
          IN  /\ conn' = [conn EXCEPT !.phase = "replayed", !.after = last, !.made = @ + 1]
              /\ SendEvents(ToSet(missed), last)
  /\ UNCHANGED <<taskJournalVars, pager>>

\* writeSnapshots.  The ID of the event snapshot is that of its newest event;
\* the handler's own mark is not moved.
WriteSnapshots ==
  /\ server.mode = "up" /\ conn.phase = "snapshot" /\ conn' = [conn EXCEPT !.phase = "replayed"]
  /\ browser' = IF EventIds = {} THEN browser
                ELSE [browser EXCEPT !.last = Max(EventIds), !.base = Max(EventIds)]
  /\ UNCHANGED <<taskJournalVars, pager>>

\* The live marker, then Subscribe.
Subscribe ==
  /\ server.mode = "up" /\ conn.phase = "replayed" /\ conn' = [conn EXCEPT !.phase = "live"]
  /\ UNCHANGED <<taskJournalVars, browser, pager>>

DeliverEvent(e) ==
  conn' = IF conn.phase = "live" /\ Len(conn.channel) < ChannelSize
          THEN [conn EXCEPT !.channel = Append(@, e.id)] ELSE conn

\* The event loop of the handler.
ReceiveEvent ==
  /\ server.mode = "up" /\ conn.phase = "live" /\ conn.channel # << >>
  /\ LET i == Head(conn.channel) IN
     IF i <= conn.after
     THEN conn' = [conn EXCEPT !.channel = Tail(@)] /\ UNCHANGED browser
     ELSE conn' = [conn EXCEPT !.channel = Tail(@), !.after = i] /\ SendEvents({i}, i)
  /\ UNCHANGED <<taskJournalVars, pager>>

\* The connection breaks; the browser connects again with the ID it has.
HangUp == conn' = [conn EXCEPT !.phase = "closed", !.after = 0, !.channel = << >>]
CloseStream == conn.phase # "closed" /\ HangUp /\ UNCHANGED <<taskJournalVars, browser, pager>>

\* A task's place in ORDER BY updated_at DESC, sequence DESC, task_id DESC;
\* sequence is unique, so the task ID never decides.
TaskKey(c) == <<journal.tasks[c].updated, journal.tasks[c].seq>>
ListedByTime(k, m) == k[1] > m[1]
ListedBefore(k, m) == k[1] > m[1] \/ (k[1] = m[1] /\ k[2] > m[2])

\* ListPageFiltered with no filter, for a client that asks until HasMore is
\* false.
ListTaskPage ==
  LET rest == {c \in DOMAIN journal.tasks :
                 pager.phase = "first" \/ ListedBefore(pager.cursor, TaskKey(c))}
      all  == SetToSortSeq(rest, LAMBDA c, d : ListedBefore(TaskKey(c), TaskKey(d)))
      page == SubSeq(all, 1, Min({Len(all), PageSize}))
      more == Len(all) > PageSize
  IN
  /\ spent.bound.view = "pages" /\ server.mode = "up" /\ pager.phase # "done"
  /\ pager' = [phase  |-> IF more THEN "next" ELSE "done",
               cursor |-> IF more THEN TaskKey(Last(page)) ELSE << >>,
               listed |-> pager.listed \o page,
               still  |-> IF pager.phase = "first" THEN DOMAIN journal.tasks ELSE pager.still]
  /\ UNCHANGED <<taskJournalVars, conn, browser>>

\* A step of the journal takes the tasks it writes or deletes out of still.
Noticed ==
  /\ pager' = [pager EXCEPT !.still =
       {c \in @ : c \in DOMAIN journal'.tasks /\ journal'.tasks[c] = journal.tasks[c]}]
  /\ UNCHANGED <<conn, browser>>

ConsoleNext ==
  \/ MigrateLegacy /\ Noticed
  \/ ArchiveLegacy /\ Noticed
  \/ OpenJournal /\ Noticed
  \/ JournalTick /\ Noticed
  \/ \E c \in ToolCalls :
       \/ StartTask(c) /\ Noticed
       \/ HeartbeatTask(c) /\ Noticed
       \/ ValidateTask(c) /\ Noticed
       \/ FinishTask(c) /\ Noticed
       \/ PublishEvent(c) /\ DeliverEvent(server.unsent[c]) /\ UNCHANGED <<browser, pager>>
  \/ CrashServer /\ HangUp /\ UNCHANGED <<browser, pager>>
  \/ OpenStream \/ WriteSnapshots \/ Subscribe \/ ReceiveEvent \/ CloseStream \/ ListTaskPage

ConsoleSpec == ConsoleInit /\ [][ConsoleNext]_consoleVars
-----------------------------------------------------------------------------
\* Type correctness of the journal and its readers.
ConsoleTypeOK ==
  /\ DOMAIN journal.tasks \subseteq TaskIds /\ EventIds \subseteq 1..journal.lastEvent
  /\ \A c \in DOMAIN journal.tasks :
       journal.tasks[c].seq \in 1..journal.lastSeq /\ journal.tasks[c].version >= 1
  /\ server.mode \in {"down", "archiving", "pruning", "up"}
  /\ browser.last \in 0..journal.lastEvent
  /\ conn.phase \in {"closed", "snapshot", "replayed", "live"} /\ Len(conn.channel) <= ChannelSize

\* The log and the table tell one story: a task's events are in the order of
\* its versions, none is ahead of its row, none outlives it, and the one of
\* the row's version has the row's state.
LogAgrees ==
  \A e \in journal.log :
    /\ \A f \in journal.log : e.task = f.task /\ e.id < f.id => e.version < f.version
    /\ e.task \in DOMAIN journal.tasks /\ e.version <= journal.tasks[e.task].version
    /\ e.version = journal.tasks[e.task].version => e.state = journal.tasks[e.task].state

\* Pruning never takes the row of a call that is still going on, whatever the
\* limits: its next heartbeat or transition finds it.
ActiveKept ==
  \A c \in ToolCalls : server.call[c] \in {"running", "finishing"} => c \in DOMAIN journal.tasks

\* A task is imported or created once: neither a crash between the commit of
\* the migration and the archiving, nor a failed rename, nor the pruning of
\* the row brings it back.
InsertedOnce == \A c \in TaskIds : inserts[c] <= 1

\* Every event of a call is sent to a browser at most once, over all its
\* connections ("A retained range is replayed without duplicates",
\* docs/console.md).
NoDuplicates == ~browser.again

\* A client that follows the cursor to the end gets every task that was there
\* at the first page and was not written meanwhile, and no task twice.
PagesComplete ==
  /\ pager.phase = "done" => pager.still \subseteq ToSet(pager.listed)
  /\ \A i, k \in 1..Len(pager.listed) : pager.listed[i] = pager.listed[k] => i = k

=============================================================================
