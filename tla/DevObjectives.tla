--------------------------- MODULE DevObjectives ----------------------------
(***************************************************************************)
(* Development objectives: the durable record of internal/development, the *)
(* operations that produce its next revision, the checks a stored revision *)
(* must pass (validateObjectiveSnapshot, ValidateTransition), the store's  *)
(* compare-and-swap, and the supervisors of internal/devsupervisor that    *)
(* read a revision and an environment catalog, and later save a successor. *)
(* An attestation is the record it digests, and a command's contract is    *)
(* the source it pins; an attempt's parent is its predecessor in the list. *)
(***************************************************************************)
EXTENDS Integers, Sequences, FiniteSets, SequencesExt

CONSTANTS
    ObjectiveBounds,    \* the bounds records a behaviour may be given
    Supervisors,        \* callers that read, decide and save concurrently
    StepLimit,          \* MaxObjectiveSteps
    AttemptBudget,      \* MaxAttemptsPerStep
    ProvisionBudget     \* MaxProvisioningAttemptsPerStep

VARIABLES objBounds, objective, catalogNow, supervisors

objVars == <<objBounds, objective, catalogNow, supervisors>>

NoEnvironment == [id |-> 0, tier |-> 0, caps |-> {}]
NothingRead == [rev |-> 0]
NoFailure == "none"
Failures == {"code", "capability", "transient", "policy", "reconcile"}

\* The continuation a failure class leads to (the eight provision-or-migrate
\* classes are one).
ContinuationFor(failure) ==
    CASE failure = "code" -> "fix_code"
      [] failure = "capability" -> "provision_or_migrate"
      [] failure = "transient" -> "retry_same"
      [] failure = "policy" -> "stop"
      [] failure = "reconcile" -> "reconcile"

PreflightFailures == {"capability", "policy", "reconcile"}

TerminalObjective(o) == o.state \in {"accepted", "failed", "cancelled"}

\* The objective's authority envelope: the classes its policy names.
PolicyAllows(env) == env.tier \in objBounds.classes

-----------------------------------------------------------------------------
(* Choosing one environment for a step. *)

Missing(req, env) == req \ env.caps

BetterFit(req, left, right) ==
    LET l == Cardinality(Missing(req, left))
        r == Cardinality(Missing(req, right))
    IN  \/ l < r
        \/ l = r /\ left.tier < right.tier
        \/ l = r /\ left.tier = right.tier /\ left.id < right.id

Resolve(req, catalog) ==
    LET eligible == {e \in catalog : PolicyAllows(e)}
        best == CHOOSE e \in eligible :
                    \A f \in eligible \ {e} : ~BetterFit(req, f, e)
    IN  IF eligible = {} \/ Missing(req, best) # {} THEN NoEnvironment ELSE best

StillFits(req, env, catalog) ==
    env \in catalog /\ PolicyAllows(env) /\ Missing(req, env) = {}

\* A code or transient failure stays on the exact environment of the attempt
\* that failed; a missing capability resolves again.
PlanEnvironment(step, catalog) ==
    IF step.tries = <<>> THEN Resolve(step.req, catalog)
    ELSE LET last == Last(step.tries)
         IN  CASE last.state # "failed" -> NoEnvironment
               [] last.failure = "capability" -> Resolve(step.req, catalog)
               [] last.failure \in {"code", "transient"} ->
                    IF StillFits(step.req, last.env, catalog) THEN last.env
                    ELSE NoEnvironment
               [] OTHER -> NoEnvironment

-----------------------------------------------------------------------------
(* The operations of an objective: each gives the next revision. *)

ActiveProvisioning(step) ==
    step.prov # <<>> /\ Last(step.prov).state \in {"planned", "queued"}

NewStep(req) == [state |-> "planned", req |-> req, tries |-> <<>>,
                 prov |-> <<>>, receipt |-> FALSE]

NewObjective(b) ==
    [rev |-> 1, state |-> "planned", contract |-> b.contract,
     steps |-> [i \in 1..b.steps |-> NewStep(b.req)]]

Revise(o, state, i, step) ==
    [o EXCEPT !.rev = @ + 1, !.state = state, !.steps[i] = step]

WithLast(step, state, failure) ==
    [step EXCEPT !.state = state,
                 !.tries[Len(step.tries)].state = state,
                 !.tries[Len(step.tries)].failure = failure]

LastTry(step, state) == step.tries # <<>> /\ Last(step.tries).state = state

\* What ContinueExecutionAttempt asks of the next attempt's source and
\* environment after the failure of the previous one.
ContinuesLawfully(last, src, env) ==
    CASE ContinuationFor(last.failure) = "fix_code" ->
             src # last.src /\ env = last.env
      [] ContinuationFor(last.failure) = "provision_or_migrate" ->
             env # last.env
      [] ContinuationFor(last.failure) = "retry_same" ->
             src = last.src /\ env = last.env
      [] OTHER -> FALSE

CanPlanAttempt(o, i, src, catalog) ==
    LET step == o.steps[i]
        env == PlanEnvironment(step, catalog)
    IN  /\ ~TerminalObjective(o)
        /\ o.contract # 0 => src = o.contract
        /\ ~ActiveProvisioning(step)
        /\ step.state # "succeeded"
        /\ Len(step.tries) < AttemptBudget
        /\ env # NoEnvironment
        /\ step.tries # <<>> => ContinuesLawfully(Last(step.tries), src, env)

PlanAttempt(o, i, src, catalog) ==
    Revise(o, "running", i,
           [o.steps[i] EXCEPT
              !.state = "planned",
              !.tries = Append(@, [src |-> src, state |-> "planned",
                                   env |-> PlanEnvironment(o.steps[i], catalog),
                                   failure |-> NoFailure])])

CanStartAttempt(o, i) ==
    ~TerminalObjective(o) /\ LastTry(o.steps[i], "planned")

StartAttempt(o, i) ==
    Revise(o, "running", i, WithLast(o.steps[i], "running", NoFailure))

StateAfterFailureRunsOn(failure) ==
    IF failure = "reconcile" THEN "reconciliation_required" ELSE "running"

StateAfterFailure(failure) ==
    CASE ContinuationFor(failure) = "reconcile" -> "reconciliation_required"
      [] ContinuationFor(failure) = "stop" -> "failed"
      [] OTHER -> "running"

CanRejectAttempt(o, i, failure) ==
    /\ ~TerminalObjective(o)
    /\ failure \in PreflightFailures
    /\ LastTry(o.steps[i], "planned")

CanFailAttempt(o, i) == ~TerminalObjective(o) /\ LastTry(o.steps[i], "running")

FailAttempt(o, i, failure) ==
    Revise(o, StateAfterFailure(failure), i, WithLast(o.steps[i], "failed", failure))

CanCompleteAttempt(o, i) ==
    ~TerminalObjective(o) /\ LastTry(o.steps[i], "running")

CompleteAttempt(o, i) ==
    LET all == \A j \in DOMAIN o.steps \ {i} : o.steps[j].state = "succeeded"
    IN  Revise(o, IF all THEN "acceptance_pending" ELSE "running", i,
               WithLast(o.steps[i], "succeeded", NoFailure))

CanRefine(o, i) ==
    /\ ~TerminalObjective(o)
    /\ o.steps[i].state \notin {"running", "succeeded"}
    /\ ~ActiveProvisioning(o.steps[i])
    /\ o.contract = 0

RefineRequirements(o, i, more) ==
    Revise(o, o.state, i, [o.steps[i] EXCEPT !.req = @ \cup more])

\* Accept for a semantic objective, AcceptWithEvidence for a contracted one.
CanAccept(o) == o.state = "acceptance_pending"

Accept(o) ==
    [o EXCEPT !.rev = @ + 1, !.state = "accepted",
              !.steps = [i \in DOMAIN @ |->
                            [@[i] EXCEPT !.receipt = o.contract # 0]]]

CancelStep(step) ==
    LET dropped == IF ActiveProvisioning(step)
                   THEN [step EXCEPT !.prov[Len(step.prov)].state = "cancelled"]
                   ELSE step
    IN  CASE step.state \in {"succeeded", "failed", "cancelled"} -> dropped
          [] step.tries = <<>> -> [dropped EXCEPT !.state = "cancelled"]
          [] OTHER -> WithLast(dropped, "cancelled", NoFailure)

CancelObjective(o) ==
    [o EXCEPT !.rev = @ + 1, !.state = "cancelled",
              !.steps = [i \in DOMAIN @ |-> CancelStep(@[i])]]

CanPlanProvisioning(step) ==
    /\ step.state \in {"planned", "failed"} /\ ~ActiveProvisioning(step)
    /\ step.tries # <<>> =>
           Last(step.tries).state = "failed" /\ Last(step.tries).failure = "capability"
    /\ step.prov # <<>> =>
           /\ Last(step.prov).state # "cancelled"
           /\ Last(step.prov).state = "failed" =>
                  Last(step.prov).failure \in {"capability", "transient"}

PlanProvisioning(o, i, src) ==
    Revise(o, "running", i,
           [o.steps[i] EXCEPT
              !.prov = Append(@, [src |-> src, caps |-> o.steps[i].req,
                                  state |-> "planned", job |-> FALSE,
                                  fence |-> 0, failure |-> NoFailure])])

\* BindJob, BindFence, Succeed and Fail of the last provisioning attempt.
Advances(p) ==
    CASE p.state = "planned" -> {[p EXCEPT !.state = "queued", !.job = TRUE]}
      [] p.state = "queued" ->
             {[p EXCEPT !.fence = f] : f \in p.fence + 1 .. objBounds.fences}
             \cup {[p EXCEPT !.state = "succeeded"] : x \in {p.fence} \ {0}}
             \cup {[p EXCEPT !.state = "failed", !.failure = f] : f \in Failures}
      [] OTHER -> {}

AdvanceProvision(o, i, next) ==
    [o EXCEPT !.rev = @ + 1, !.steps[i].prov[Len(o.steps[i].prov)] = next]

-----------------------------------------------------------------------------
(* What the store accepts. *)

StepMatchesTries(step) ==
    IF step.tries = <<>> THEN step.state \in {"planned", "cancelled"}
    ELSE step.state = Last(step.tries).state

ValidTries(o, step) ==
    /\ Len(step.tries) <= AttemptBudget
    /\ \A k \in DOMAIN step.tries :
          LET try == step.tries[k]
          IN  /\ PolicyAllows(try.env)
              /\ o.contract # 0 => try.src = o.contract
              /\ (try.state = "failed") <=> (try.failure # NoFailure)
              /\ k > 1 => /\ step.tries[k - 1].state = "failed"
                          /\ ContinuesLawfully(step.tries[k - 1], try.src, try.env)

ValidProvision(p) ==
    /\ p.state = "planned" => ~p.job /\ p.fence = 0
    /\ p.state \in {"queued", "succeeded", "failed"} => p.job
    /\ p.state = "succeeded" => p.fence > 0
    /\ (p.state = "failed") <=> (p.failure # NoFailure)
    /\ p.state = "cancelled" /\ ~p.job => p.fence = 0

ValidProvisioning(step) ==
    /\ Len(step.prov) <= ProvisionBudget
    /\ \A k \in DOMAIN step.prov :
          /\ ValidProvision(step.prov[k])
          /\ k < Len(step.prov) => step.prov[k].state \notin {"planned", "queued"}
    /\ ActiveProvisioning(step) =>
          /\ step.state \notin {"running", "succeeded", "cancelled"}
          /\ step.req \subseteq Last(step.prov).caps

ValidObjective(o) ==
    LET steps == ToSet(o.steps)
        all == \A s \in steps : s.state = "succeeded"
        receipts == {s \in steps : s.receipt}
    IN  /\ \A s \in steps : ValidTries(o, s) /\ ValidProvisioning(s) /\ StepMatchesTries(s)
        /\ receipts # {} => o.contract # 0 /\ o.state = "accepted"
        /\ o.state = "planned" =>
              \A s \in steps : s.state = "planned" /\ s.tries = <<>> /\ s.prov = <<>>
        /\ o.state = "running" => ~all
        /\ o.state \in {"acceptance_pending", "accepted"} => all
        /\ o.state = "accepted" /\ o.contract # 0 => receipts = steps
        /\ o.state = "reconciliation_required" =>
              \E s \in steps : \E k \in DOMAIN s.tries : s.tries[k].failure = "reconcile"
        /\ o.state = "failed" => \E s \in steps : s.state = "failed"
        /\ o.state = "cancelled" =>
              \A s \in steps : s.state \notin {"running", "planned"} /\ ~ActiveProvisioning(s)

ObjectiveMoves ==
    {<<"planned", "running">>, <<"planned", "cancelled">>,
     <<"running", "acceptance_pending">>, <<"running", "reconciliation_required">>,
     <<"running", "failed">>, <<"running", "cancelled">>,
     <<"acceptance_pending", "accepted">>, <<"acceptance_pending", "cancelled">>,
     <<"reconciliation_required", "running">>, <<"reconciliation_required", "failed">>,
     <<"reconciliation_required", "cancelled">>}

StepMoves ==
    {<<"planned", "running">>, <<"planned", "failed">>, <<"planned", "cancelled">>,
     <<"running", "succeeded">>, <<"running", "failed">>, <<"running", "cancelled">>,
     <<"failed", "planned">>}

ValidAttemptRevision(before, after) ==
    /\ [before EXCEPT !.state = after.state, !.failure = after.failure] = after
    /\ \/ before = after
       \/ before.state = "planned" /\ after.state \in {"running", "cancelled"}
       \/ before.state = "planned" /\ after.state = "failed"
          /\ after.failure \in PreflightFailures
       \/ before.state = "running" /\ after.state \in {"succeeded", "failed", "cancelled"}

ValidTryHistory(before, after) ==
    \/ /\ Len(after) = Len(before) + 1
       /\ Front(after) = before
       /\ before # <<>> => Last(before).state = "failed"
       /\ Last(after).state = "planned"
    \/ before = <<>> /\ after = <<>>
    \/ /\ before # <<>> /\ Len(after) = Len(before)
       /\ Front(after) = Front(before)
       /\ ValidAttemptRevision(Last(before), Last(after))

ValidProvisionRevision(before, after) ==
    /\ before.src = after.src /\ before.caps = after.caps
    /\ \/ before = after
       \/ before.state = "planned" /\ after.state = "queued" /\ after.fence = 0
       \/ before.state = "planned" /\ after.state = "cancelled"
          /\ ~after.job /\ after.fence = 0
       \/ before.state = "queued" /\ after.state = "queued"
          /\ after.job = before.job /\ after.fence > before.fence
       \/ before.state = "queued" /\ after.state \in {"succeeded", "failed", "cancelled"}
          /\ after.job = before.job /\ after.fence = before.fence

ValidProvisionHistory(before, after) ==
    \/ /\ Len(after) = Len(before) + 1
       /\ Front(after) = before
       /\ before # <<>> => Last(before).state \notin {"planned", "queued"}
       /\ Last(after).state = "planned"
    \/ before = <<>> /\ after = <<>>
    \/ /\ before # <<>> /\ Len(after) = Len(before)
       /\ Front(after) = Front(before)
       /\ ValidProvisionRevision(Last(before), Last(after))

ValidStepTransition(o, n, i) ==
    LET before == o.steps[i]
        after == n.steps[i]
    IN  /\ ActiveProvisioning(before) => after.req = before.req
        /\ ValidProvisionHistory(before.prov, after.prov)
        /\ Len(after.prov) > Len(before.prov) => CanPlanProvisioning(before)
        /\ IF before.receipt THEN after.receipt
           ELSE after.receipt => /\ o.contract # 0
                                 /\ o.state = "acceptance_pending"
                                 /\ n.state = "accepted"
        /\ before.req \subseteq after.req
        /\ before.state = after.state \/ <<before.state, after.state>> \in StepMoves
        /\ ValidTryHistory(before.tries, after.tries)

ValidTransition(o, n) ==
    /\ ValidObjective(o) /\ ValidObjective(n) /\ ~TerminalObjective(o)
    /\ n.contract = o.contract /\ DOMAIN n.steps = DOMAIN o.steps
    /\ n.rev = o.rev + 1
    /\ o.state = n.state \/ <<o.state, n.state>> \in ObjectiveMoves
    /\ \A i \in DOMAIN o.steps : ValidStepTransition(o, n, i)

-----------------------------------------------------------------------------
(* Supervisors: a call reads a revision and a catalog, decides, and saves. *)

ObjInit ==
    /\ objBounds \in ObjectiveBounds
    /\ objective = NewObjective(objBounds)
    /\ catalogNow \in objBounds.catalogs
    /\ supervisors = [c \in Supervisors |-> NothingRead]

Attest ==
    /\ catalogNow' \in objBounds.catalogs \ {catalogNow}
    /\ UNCHANGED <<objBounds, objective, supervisors>>

\* Status and catalogSnapshot, which every call begins with.
StatusRead(c) ==
    /\ c \in objBounds.callers /\ objective.rev < objBounds.revisions
    /\ supervisors[c] = NothingRead
    /\ supervisors' = [supervisors EXCEPT ![c] =
           [rev |-> objective.rev, read |-> objective, catalog |-> catalogNow]]
    /\ UNCHANGED <<objBounds, objective, catalogNow>>

\* SaveDevelopmentObjective: a conflict leaves the stored revision alone.
SaveObjective(c, next) ==
    /\ objective' = IF ValidTransition(objective, next) THEN next ELSE objective
    /\ supervisors' = [supervisors EXCEPT ![c] = NothingRead]
    /\ UNCHANGED <<objBounds, catalogNow>>

Deciding(c) == supervisors[c] # NothingRead
Read(c) == supervisors[c].read
Seen(c) == supervisors[c].catalog
StepsOf(c) == DOMAIN Read(c).steps

PlanStep(c) ==
    /\ Deciding(c)
    /\ \E i \in StepsOf(c), src \in objBounds.sources :
          /\ CanPlanAttempt(Read(c), i, src, Seen(c))
          /\ SaveObjective(c, PlanAttempt(Read(c), i, src, Seen(c)))

\* A planned attempt whose environment drifted, left the policy or lost a
\* requirement is rejected before it starts.
StartStep(c) ==
    /\ Deciding(c)
    /\ \E i \in StepsOf(c) :
          LET step == Read(c).steps[i]
              env == Last(step.tries).env
          IN  /\ CanStartAttempt(Read(c), i)
              /\ SaveObjective(c,
                     IF env \notin Seen(c) THEN FailAttempt(Read(c), i, "capability")
                     ELSE IF ~PolicyAllows(env) THEN FailAttempt(Read(c), i, "policy")
                     ELSE IF Missing(step.req, env) # {}
                          THEN FailAttempt(Read(c), i, "capability")
                     ELSE StartAttempt(Read(c), i))

FailStep(c) ==
    /\ Deciding(c)
    /\ \E i \in StepsOf(c), failure \in objBounds.failures :
          CanFailAttempt(Read(c), i) /\ SaveObjective(c, FailAttempt(Read(c), i, failure))

CompleteStep(c) ==
    /\ Deciding(c)
    /\ \E i \in StepsOf(c) :
          CanCompleteAttempt(Read(c), i) /\ SaveObjective(c, CompleteAttempt(Read(c), i))

Refine(c) ==
    /\ Deciding(c)
    /\ \E i \in StepsOf(c) :
          /\ CanRefine(Read(c), i)
          /\ ~(objBounds.more \subseteq Read(c).steps[i].req)
          /\ SaveObjective(c, RefineRequirements(Read(c), i, objBounds.more))

AcceptObjective(c) ==
    Deciding(c) /\ CanAccept(Read(c)) /\ SaveObjective(c, Accept(Read(c)))

ObjectiveCancelCall(c) ==
    /\ Deciding(c)
    /\ ~TerminalObjective(Read(c))
    /\ SaveObjective(c, CancelObjective(Read(c)))

PlanProvision(c) ==
    /\ Deciding(c)
    /\ ~TerminalObjective(Read(c))
    /\ \E i \in StepsOf(c) :
          /\ CanPlanProvisioning(Read(c).steps[i])
          /\ Len(Read(c).steps[i].prov) < ProvisionBudget
          /\ Resolve(Read(c).steps[i].req, Seen(c)) = NoEnvironment
          /\ \E src \in objBounds.sources :
                SaveObjective(c, PlanProvisioning(Read(c), i, src))

AdvanceProvisioning(c) ==
    /\ Deciding(c)
    /\ ~TerminalObjective(Read(c))
    /\ \E i \in StepsOf(c) :
          /\ Read(c).steps[i].prov # <<>>
          /\ \E next \in Advances(Last(Read(c).steps[i].prov)) :
                SaveObjective(c, AdvanceProvision(Read(c), i, next))

\* Every early return of a call: nothing to do, a conflict or an error.
CallReturns(c) ==
    /\ Deciding(c)
    /\ supervisors' = [supervisors EXCEPT ![c] = NothingRead]
    /\ UNCHANGED <<objBounds, objective, catalogNow>>

ObjNext ==
    \/ Attest
    \/ \E c \in Supervisors : StatusRead(c)
    \/ \E c \in Supervisors : PlanStep(c)
    \/ \E c \in Supervisors : StartStep(c)
    \/ \E c \in Supervisors : FailStep(c)
    \/ \E c \in Supervisors : CompleteStep(c)
    \/ \E c \in Supervisors : Refine(c)
    \/ \E c \in Supervisors : AcceptObjective(c)
    \/ \E c \in Supervisors : ObjectiveCancelCall(c)
    \/ \E c \in Supervisors : PlanProvision(c)
    \/ \E c \in Supervisors : AdvanceProvisioning(c)
    \/ \E c \in Supervisors : CallReturns(c)

ObjSpec == ObjInit /\ [][ObjNext]_objVars

-----------------------------------------------------------------------------
(* Properties. *)

\* Whatever an operation of an objective returns, the store takes: applied to
\* the stored revision, every operation gives a record that passes
\* validateObjectiveSnapshot and ValidateTransition. Were it not so, a step of
\* the supervisor would be refused for ever on a revision nobody else changes.
EveryRevisionStorable ==
    LET o == objective
        Storable(n) == n.rev = o.rev + 1 /\ ValidTransition(o, n)
    IN  \A i \in DOMAIN o.steps :
          /\ \A src \in objBounds.sources, cat \in objBounds.catalogs :
                CanPlanAttempt(o, i, src, cat) => Storable(PlanAttempt(o, i, src, cat))
          /\ CanStartAttempt(o, i) => Storable(StartAttempt(o, i))
          /\ \A f \in Failures :
                /\ CanRejectAttempt(o, i, f) => Storable(FailAttempt(o, i, f))
                /\ CanFailAttempt(o, i) => Storable(FailAttempt(o, i, f))
          /\ CanCompleteAttempt(o, i) => Storable(CompleteAttempt(o, i))
          /\ CanRefine(o, i) => Storable(RefineRequirements(o, i, objBounds.more))
          /\ CanAccept(o) => Storable(Accept(o))
          /\ ~TerminalObjective(o) => Storable(CancelObjective(o))
          /\ ~TerminalObjective(o) /\ o.steps[i].prov # <<>> =>
                \A n \in Advances(Last(o.steps[i].prov)) : Storable(AdvanceProvision(o, i, n))
          /\ /\ ~TerminalObjective(o) /\ CanPlanProvisioning(o.steps[i])
             /\ Len(o.steps[i].prov) < ProvisionBudget
             => \A src \in objBounds.sources : Storable(PlanProvisioning(o, i, src))

\* An attempt starts only on an environment that has everything the step asks
\* for in the revision that starts it, even though the requirements may have
\* been refined, and the catalog may have changed, since it was planned.
StartsWhereItFits ==
    [][\A i \in DOMAIN objective.steps :
          LET before == objective.steps[i]
              after == objective'.steps[i]
          IN  after.state = "running" /\ before.state # "running" =>
                  after.req \ Last(after.tries).env.caps = {}]_objective

\* What an objective promises: see ObjectiveLife. A planned or running attempt
\* is live; provisioning and refinement do not show.
TryShown(try) ==
    CASE try.state \in {"planned", "running"} -> "live"
      [] try.state = "failed" -> try.failure
      [] OTHER -> try.state

Life == INSTANCE ObjectiveLife WITH
    MaxSteps <- StepLimit,
    tries <- [i \in DOMAIN objective.steps |->
                 [k \in DOMAIN objective.steps[i].tries |->
                     TryShown(objective.steps[i].tries[k])]],
    verdict <- IF TerminalObjective(objective) THEN objective.state ELSE "open"

LifeKept == Life!LifeSpec

=============================================================================
