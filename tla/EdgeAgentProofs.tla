-------------------------- MODULE EdgeAgentProofs --------------------------
(***************************************************************************)
(* The safety of the Edge agent against the journal, proved for any number *)
(* of operations, workers and requests under way.                          *)
(*                                                                         *)
(* The journal keeps the promise under which EdgeWorkerProofs,             *)
(* EdgeStepProofs and EdgeBundleProofs show that the workers keep the      *)
(* inductive invariant AInv.  From AInv follow the agent's safety, and     *)
(* that the agent uses the journal as the journal's own proofs require;    *)
(* then, when the heartbeats of bundle operations are timely, that a       *)
(* bundle's unit is started once and under a lease.                        *)
(***************************************************************************)
EXTENDS EdgeJournalProofs, EdgeBundleProofs

-----------------------------------------------------------------------------
(* What the journal promises the workers.                                  *)

\* Only a completion or an acknowledgement takes a lease away, from the one who
\* presents it, and only a completion without error records a success.
LEMMA ServedOnward ==
  ASSUME StateInv, NEW m \in LateCalls, op' = Served(m), clock' = clock
  PROVE  /\ TableOnward
         /\ \A p \in Ops : \/ Calm(op[p], op'[p])
                           \/ p = m.o /\ m.call \in {"complete", "cancel"} /\ Held(m.o, m.l)
         /\ \A p \in Ops : op'[p].state = "succeeded" =>
              op[p].state = "succeeded" \/ (p = m.o /\ m.call = "complete" /\ m.arg = "none")
<1> Unpruned
  BY DEF StateInv, Unpruned
<1>1. op \in [Ops -> OpRow]
  BY RowsGood
<1>2. (CHOOSE ttl \in LeaseTtls : TRUE) \in LeaseTtls
  BY AgentAssumption
<1>3. \A p \in Ops : Calm(op[p], op'[p]) => (op'[p].state = "succeeded" => op[p].state = "succeeded")
  BY DEF Calm, NoSuccess
<1>4. CASE ~Accepted(m)
  BY <1>1, <1>3, <1>4, ServedByCall, SameTable, Zenon
<1>5. CASE m.call = "probe"
  <2>1. op' = AfterLease(FALSE, CHOOSE ttl \in LeaseTtls : TRUE)
    BY <1>1, <1>5, ServedByCall, Zenon
  <2> QED BY <1>2, <1>3, <2>1, LeaseOnward, Zenon
<1>6. CASE m.call = "stamped"
  <2>1. op' = AfterLease(TRUE, CHOOSE ttl \in LeaseTtls : TRUE)
    BY <1>1, <1>6, ServedByCall, Zenon
  <2> QED BY <1>2, <1>3, <2>1, LeaseOnward, Zenon
<1>7. CASE Accepted(m) /\ m.call = "progress"
  <2>1. op' = [op EXCEPT ![m.o] = ProgressRow(op[m.o], m.rev, m.arg)]
    BY <1>1, <1>7, ServedByCall, Zenon
  <2>2. m.o \in Ops /\ m.rev \in Nat /\ CanReport(m.o, m.l, m.rev)
    BY <1>7, CallFields DEF Accepted
  <2> QED BY <1>3, <2>1, <2>2, AgentAssumption, ReportOnward, Zenon
<1>8. CASE Accepted(m) /\ m.call = "complete"
  <2>1. op' = [op EXCEPT ![m.o] = CompletedRow(op[m.o], m.arg)]
    BY <1>1, <1>8, ServedByCall, Zenon
  <2>2. m.o \in Ops /\ m.arg \in ReportCodes /\ CanComplete(m.o, m.l)
    BY <1>8, CallFields DEF Accepted
  <2>3. Held(m.o, m.l)
    BY <2>2 DEF CanComplete
  <2> QED BY <1>3, <1>8, <2>1, <2>2, <2>3, CompleteOnward, Zenon
<1>9. CASE Accepted(m) /\ m.call = "cancel"
  <2>1. op' = [op EXCEPT ![m.o] = AcknowledgedRow(op[m.o])]
    BY <1>1, <1>9, ServedByCall, Zenon
  <2>2. m.o \in Ops /\ Held(m.o, m.l)
    BY <1>9, CallFields DEF Accepted
  <2> QED BY <1>3, <1>9, <2>1, <2>2, AcknowledgeOnward, Zenon
<1> QED BY <1>4, <1>5, <1>6, <1>7, <1>8, <1>9, CallFields

\* The journal keeps its promise.
LEMMA PromiseKept ==
  ASSUME StateInv
  PROVE  JournalPromise
<1> Unpruned
  BY DEF StateInv, Unpruned
<1>1. op' = op => TableOnward /\ \A o \in Ops : Calm(op[o], op'[o])
  BY SameTable, Zenon
<1>2. ASSUME clock' = clock, NEW m \in LateCalls, op' = Served(m) PROVE HandledKindly(m)
  BY <1>2, ServedOnward, Zenon DEF HandledKindly
<1>3. ASSUME clock' = clock, NEW compatible \in BOOLEAN, NEW ttl \in LeaseTtls, op' = AfterLease(compatible, ttl)
      PROVE  LeasedFreshly(compatible)
  BY <1>3, LeaseOnward, Zenon DEF LeasedFreshly
<1>4. ASSUME NEW o \in Ops, NEW revision \in Nat, NEW l, NEW phase, CanReport(o, l, revision),
             op' = [op EXCEPT ![o] = ProgressRow(op[o], revision, phase)]
      PROVE  ReportRenews(o, l)
  BY <1>4, AgentAssumption, ReportOnward, Zenon DEF ReportRenews
<1>5. Client => TableOnward /\ (\A o \in Ops : Calm(op[o], op'[o])) /\ clock' = clock
  BY ClientOnward, Zenon DEF Client
<1>6. Tick => JInv'
  BY NextJInv, Zenon DEF JournalNext, StateInv
<1> QED BY <1>1, <1>2, <1>3, <1>4, <1>5, <1>6, Zenon DEF JournalPromise


-----------------------------------------------------------------------------
(* The invariant holds.                                                    *)

\* The invariant holds at the start.
LEMMA InitAInv == AgentInit => AInv
<1> SUFFICES ASSUME AgentInit PROVE AInv
  OBVIOUS
<1>1. JInv /\ op = [o \in Ops |-> NoOp("absent")]
  BY InitJInv DEF AgentInit, JournalInit
<1>2. \A o \in Ops : op[o].state = "absent"
  BY <1>1 DEF NoOp
<1>3. Idle \in WorkerState /\ \A w \in Workers : wk[w] = Idle
  BY IdleOK DEF AgentInit
<1>4. \A o \in Ops : hist[o] \in Deeds /\ hist[o].begun = 0
  BY DEF AgentInit, Deeds
<1>5. StateInv
  BY <1>1, <1>2, <1>3, <1>4, Zenon DEF StateInv, AgentInit, Deeds
<1>6. \A o \in Ops : RowOK(op[o], hist[o])
  BY <1>2, <1>4 DEF RowOK, OpStates, Live, Done
<1>7. /\ \A w \in Workers : WorkerOK(wk[w], op, hist, clock, stopping)
      /\ \A v, w \in Workers : PairOK(wk[v], wk[w], op)
  BY <1>3, IdleOK
<1>8. late = {}
  BY DEF AgentInit
<1> QED BY <1>5, <1>6, <1>7, <1>8 DEF AInv

\* The inductive invariant of the agent and the journal.
THEOREM AgentInvariance == AgentSpec => []AInv
<1>1. AInv /\ [AgentNext]_agentVars => AInv'
  BY TypedState, PromiseKept, NextAInv
<1> QED BY <1>1, InitAInv, PTL DEF AgentSpec

\* The agent keeps its types: a worker has at most one lease and one executor.
THEOREM AgentTypeCorrect == AgentSpec => []AgentTypeOK
<1>1. AInv => AgentTypeOK
  BY DEF AInv, StateInv, JInv, AgentTypeOK, Deeds
<1> QED BY <1>1, AgentInvariance, PTL

\* The effect of an ordinary operation begins at most once, over all leases,
\* workers, restarts, lost answers and requests handled late.
THEOREM EffectsAtMostOnce == AgentSpec => []EffectAtMostOnce
<1>1. AInv => EffectAtMostOnce
  <2> SUFFICES ASSUME AInv, NEW o \in Ops, Ordinary(o) PROVE hist[o].begun <= 1
    BY DEF EffectAtMostOnce
  <2>1. RowOK(op[o], hist[o]) /\ op[o].state \in OpStates \cup {"absent"} /\ hist[o].begun \in Nat
    BY TypedState, RowFields DEF AInv, GoodRow, Deeds
  <2> QED BY <2>1 DEF RowOK, Ordinary
<1> QED BY <1>1, AgentInvariance, PTL

\* An ordinary operation whose row shows no progress has had no effect.
THEOREM EffectsHaveEvidence == AgentSpec => []EvidenceOfEffect
<1>1. AInv => EvidenceOfEffect
  <2> SUFFICES ASSUME AInv, NEW o \in Ops, Ordinary(o), op[o].progress = 0 PROVE hist[o].begun = 0
    BY DEF EvidenceOfEffect
  <2>1. RowOK(op[o], hist[o]) /\ op[o].state \in OpStates \cup {"absent"}
    BY TypedState, RowFields DEF AInv, GoodRow
  <2> QED BY <2>1 DEF RowOK, Ordinary
<1> QED BY <1>1, AgentInvariance, PTL

\* An ordinary operation is recorded as succeeded only if its effect was run to
\* the end and succeeded.
THEOREM SuccessesEarned == AgentSpec => []SuccessEarned
<1>1. AInv => SuccessEarned
  BY DEF AInv, RowOK, SuccessEarned, Ordinary, OpStates, Done
<1> QED BY <1>1, AgentInvariance, PTL

\* A bundle operation runs alone behind the gate.
THEOREM BundlesRunAlone == AgentSpec => []BundleRunsAlone
<1>1. AInv => BundleRunsAlone
  <2> SUFFICES ASSUME AInv, NEW v \in Workers, NEW w \in Workers, v # w, wk[v].gate = "exclusive"
               PROVE  ~InEffect(w) /\ wk[w].gate = "free"
    BY DEF BundleRunsAlone
  <2>1. /\ Shape(wk[v], stopping) /\ Shape(wk[w], stopping) /\ PairOK(wk[v], wk[w], op)
        /\ wk[v] \in WorkerState /\ wk[w] \in WorkerState
    BY TypedState DEF AInv, WorkerOK
  <2>2. Busy(wk[v])
    BY <2>1 DEF Shape, Busy
  <2>3. wk[w].gate = "free"
    <3>1. CASE Busy(wk[w])
      BY <2>1, <2>2, <3>1 DEF PairOK
    <3>2. CASE ~Busy(wk[w])
      BY <2>1, <3>2 DEF Shape, Busy
    <3> QED BY <3>1, <3>2
  <2>4. ~InEffect(w)
    BY <2>1, <2>3 DEF Shape, InEffect, InTheUnit, WorkerState, Exs
  <2> QED BY <2>3, <2>4
<1> QED BY <1>1, AgentInvariance, PTL

\* AgentSafe: all of them, for every number of operations, workers and requests
\* under way.
THEOREM AgentAlwaysSafe == AgentSpec => []AgentSafe
<1>1. AgentTypeOK /\ EffectAtMostOnce /\ EvidenceOfEffect /\ SuccessEarned /\ BundleRunsAlone => AgentSafe
  BY DEF AgentSafe
<1> QED BY <1>1, AgentTypeCorrect, EffectsAtMostOnce, EffectsHaveEvidence, SuccessesEarned, BundlesRunAlone, PTL

-----------------------------------------------------------------------------
(* The journal under the agent.                                            *)

\* The journal stays safe under the agent: its rows are readable, leased within
\* the budget, and a request has one answer.
THEOREM AgentJournalSafe == AgentSpec => []JournalSafe
<1>1. AInv => JournalSafe
  <2> SUFFICES ASSUME JInv PROVE JournalSafe
    BY DEF AInv, StateInv
  <2> QED BY RowsAnswerOnce DEF JournalSafe, JInv, OperationsReadable, RecoveryBudget, Stored, RowInv
<1> QED BY <1>1, AgentInvariance, PTL

\* Under the agent, too, no ended operation changes, no accepted cancellation
\* is lost and no project_exec starts after its caller's wait.
THEOREM AgentJournalSteps == AgentSpec => JournalSteps
<1>1. AInv /\ [AgentNext]_agentVars => OperationFinalStep /\ CancelAcceptedStep /\ ExecInTimeStep
  <2> SUFFICES ASSUME AInv, [AgentNext]_agentVars PROVE OperationFinalStep /\ CancelAcceptedStep /\ ExecInTimeStep
    OBVIOUS
  <2>1. \A o \in Ops : RowStep(op[o], op'[o])
    BY TypedState, PromiseKept, AgentTable DEF TableOnward, TableStep
  <2> QED BY <2>1 DEF OperationFinalStep, CancelAcceptedStep, ExecInTimeStep, RowStep
<1> QED BY <1>1, AgentInvariance, PTL DEF AgentSpec, JournalSteps, OperationFinal, CancelAccepted, ExecInTime

\* While the heartbeats of bundle operations are timely, the receipt names the
\* operation for which the unit was started, until that operation has ended or
\* the unit failed; no other executor writes or removes it.
THEOREM ReceiptInvariance == BundlesTimely /\ AgentSpec => []ReceiptInv
<1>1. BundlesTimely /\ AInv /\ ReceiptInv /\ [AgentNext]_agentVars => (BundlesTimely /\ ReceiptInv)'
  <2>1. BundlesTimely => BundlesTimely'
    BY DEF BundlesTimely, Privileged
  <2> QED BY <2>1, TypedState, PromiseKept, ReceiptStep
<1> QED BY <1>1, InitReceipt, AgentInvariance, PTL DEF AgentSpec

\* "so the next lease observes the existing transaction instead of starting the
\* updater a second time": under timely heartbeats no operation's unit is
\* started twice unless it failed, over leases, workers, restarts and lost or
\* late requests.
THEOREM BundleNotStartedTwice == BundlesTimely /\ AgentSpec => NoSecondDispatch
<1>1. AInv /\ ReceiptInv /\ [AgentNext]_agentVars => NoSecondDispatchStep
  BY BeginsOnce DEF NoSecondDispatchStep
<1> QED BY <1>1, ReceiptInvariance, AgentInvariance, PTL DEF AgentSpec, NoSecondDispatch

\* The privileged unit is started only under a lease the server still honours,
\* when the heartbeats of bundle operations are timely.
THEOREM BundleStartedUnderLease == BundlesTimely /\ AgentSpec => DispatchUnderLease
<1>1. BundlesTimely /\ AInv /\ [AgentNext]_agentVars => DispatchUnderLeaseStep
  BY DispatchesHeld DEF DispatchUnderLeaseStep
<1>2. BundlesTimely => BundlesTimely'
  BY DEF BundlesTimely, Privileged
<1> QED BY <1>1, <1>2, AgentInvariance, PTL DEF AgentSpec, DispatchUnderLease
=============================================================================
