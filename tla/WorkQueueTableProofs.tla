------------------------ MODULE WorkQueueTableProofs ------------------------
(***************************************************************************)
(* The table of the work queue, row by row and as a whole.                 *)
(*                                                                         *)
(* What no operation ever does to a row: issue a lease while the previous  *)
(* one is promised to a worker, change a terminal row, or give a cancelled *)
(* job another chance.  The three action properties of WorkQueue are       *)
(* proved together, from the inductive invariant.                          *)
(*                                                                         *)
(* And the bounds on pending jobs and the uniqueness of idempotency keys.  *)
(* The code checks both on insert only.  That is enough because every      *)
(* other operation keeps the table within what it was: it makes no row     *)
(* pending that was not, and gives no row another key or workspace.        *)
(***************************************************************************)
EXTENDS WorkQueueProofs

-----------------------------------------------------------------------------
(* The steps of a row.                                                     *)

\* The three action properties, of one row r that a step turns into s.
RowStep(r, s, told) ==
  /\ s.fence > r.fence => told <= clock /\ s.fence = r.fence + 1
  /\ r.state \in Terminal => s = r \/ s.state = "deleted"
  /\ r.cancel => s.state \in {"leased", "cancelled", "deleted"} /\ s.fence \in {0, r.fence}

\* A row of a reachable table carries a cancellation only while it runs under
\* one or after it ended as cancelled.
LEMMA CancelRequested ==
  ASSUME NEW r \in Row, NEW told, RowInv(r, told, clock)
  PROVE  r.cancel => r.state \in {"leased", "cancelled"}
BY Zenon DEF RowInv, StoredJobValid, Row, States, Pending, Terminal

\* A row the operation does not write.
LEMMA SameRowStep ==
  ASSUME NEW r \in Row, NEW told, RowInv(r, told, clock)
  PROVE  RowStep(r, r, told)
<1>1. r.cancel => r.state \in {"leased", "cancelled"}
  BY CancelRequested
<1>2. r.fence \in Nat
  BY Zenon DEF Row
<1> QED BY <1>1, <1>2 DEF RowStep

\* A pending row that is changed without a new lease.
LEMMA PendingRowStep ==
  ASSUME NEW r \in Row, NEW s, NEW told, r.state \in Pending, s.fence = r.fence,
         r.cancel => s.state \in {"leased", "cancelled"}
  PROVE  RowStep(r, s, told)
<1>1. r.fence \in Nat /\ r.state \notin Terminal
  BY Zenon DEF Row, Pending, Terminal
<1> QED BY <1>1 DEF RowStep

\* A row propagate finds as the operation found it: unchanged, or blocked and
\* then without a cancellation.
LEMMA PropagatedRowStep ==
  ASSUME NEW t \in [Jobs -> Row], NEW j \in Jobs, NEW told, RowInv(t[j], told, clock)
  PROVE  RowStep(t[j], Propagate(t)[j], told) /\ Propagate(t)[j].fence = t[j].fence
<1>1. t[j] \in Row
  OBVIOUS
<1>2. CASE t[j].state # "blocked"
  BY <1>1, <1>2, PropagateKeeps, SameRowStep
<1>3. CASE t[j].state = "blocked"
  <2>1. ~t[j].cancel
    BY <1>1, <1>3, CancelRequested
  <2>2. FellRow(t[j]).fence = t[j].fence /\ ReleasedRow(t[j]).fence = t[j].fence
    BY <1>1, Zenon DEF FellRow, ReleasedRow, Row
  <2>3. Propagate(t)[j].fence = t[j].fence
    BY <2>2, PropagateRow
  <2> QED BY <1>1, <1>3, <2>1, <2>3, PendingRowStep DEF Pending
<1> QED BY <1>2, <1>3

RowSteps == \A j \in Jobs : RowStep(job[j], job'[j], promised[j])

\* What Complete, Cancel and FailUnstartedTaskWorker do to the table: one
\* pending row ends, then the walk.
LEMMA EndRowSteps ==
  ASSUME IInv, NEW j \in Jobs, NEW r \in Row, job[j].state \in Pending, r.state \in Terminal,
         r.fence = job[j].fence, job[j].cancel => r.state = "cancelled",
         job' = Propagate([job EXCEPT ![j] = r])
  PROVE  RowSteps
<1> DEFINE u == [job EXCEPT ![j] = r]
<1>1. job \in [Jobs -> Row] /\ u \in [Jobs -> Row] /\ RowsInv(job, promised, clock)
  BY DEF IInv, TypeOK
<1>2. u[j] = r /\ \A i \in Jobs : i # j => u[i] = job[i]
  BY <1>1
<1> HIDE DEF u
<1>3. RowStep(job[j], job'[j], promised[j])
  <2>1. r.state # "blocked"
    BY DEF Terminal
  <2>2. Propagate(u)[j] = r
    BY <1>2, <2>1, PropagateKeeps
  <2>3. job'[j] = r
    BY <2>2 DEF u
  <2> QED BY <1>1, <2>3, PendingRowStep
<1>4. ASSUME NEW i \in Jobs, i # j
      PROVE  RowStep(job[i], job'[i], promised[i])
  <2>1. RowInv(u[i], promised[i], clock)
    BY <1>1, <1>2, <1>4 DEF RowsInv
  <2>2. RowStep(u[i], Propagate(u)[i], promised[i])
    BY <1>1, <2>1, PropagatedRowStep
  <2> QED BY <1>2, <1>4, <2>2 DEF u
<1> QED BY <1>3, <1>4, Zenon DEF RowSteps

\* recoverExpired issues no lease, leaves terminal rows alone and ends a
\* cancelled job whose lease expired.
LEMMA RecoveredRow ==
  ASSUME IInv, NEW j \in Jobs
  PROVE  /\ RowStep(job[j], Recovered[j], promised[j])
         /\ Recovered[j].fence = job[j].fence
         /\ Recovered[j].state \in Pending => job[j].state \notin Terminal
         /\ Recovered[j].state = "queued" => ~job[j].cancel
<1> DEFINE u == [i \in Jobs |-> Swept(i)]
<1>1. Recovered = Propagate(u)
  BY DEF Recovered, Swept
<1>2. u \in [Jobs -> Row] /\ RowInv(u[j], promised[j], clock) /\ u[j] = Swept(j)
  BY SweptRow DEF IInv
<1>3. /\ job[j] \in Row /\ RowInv(job[j], promised[j], clock)
      /\ Swept(j).fence = job[j].fence /\ Swept(j).cancel = job[j].cancel
  BY SweptRow DEF IInv, TypeOK, RowsInv
<1> HIDE DEF u
<1>4. RowStep(u[j], Propagate(u)[j], promised[j]) /\ Propagate(u)[j].fence = u[j].fence
  BY <1>2, PropagatedRowStep
<1>5. Recovered[j].fence = job[j].fence
  BY <1>1, <1>2, <1>3, <1>4
<1>6. CASE j \in Expired(job)
  <2>1. job[j].state = "leased" /\ Swept(j) = Reaped(job[j])
    BY <1>6 DEF Expired, InState, Swept
  <2>2. /\ Reaped(job[j]).state # "blocked"
        /\ job[j].cancel => Reaped(job[j]).state = "cancelled"
    BY <1>3, Zenon DEF Reaped, ReapedState, Row
  <2>3. Recovered[j] = Reaped(job[j])
    BY <1>1, <1>2, <2>1, <2>2, PropagateKeeps
  <2> QED BY <1>3, <1>5, <2>1, <2>2, <2>3, PendingRowStep DEF Pending, Terminal
<1>7. CASE j \notin Expired(job)
  <2>1. u[j] = job[j]
    BY <1>2, <1>7 DEF Swept
  <2>2. RowStep(job[j], Recovered[j], promised[j])
    BY <1>1, <1>4, <2>1
  <2>3. job[j].state # "blocked" => Recovered[j] = job[j]
    BY <1>1, <2>1, PropagateKeeps
  <2>4. job[j].cancel => job[j].state \in {"leased", "cancelled"}
    BY <1>3, CancelRequested
  <2> QED BY <1>5, <2>2, <2>3, <2>4 DEF Pending, Terminal
<1> QED BY <1>6, <1>7

\* A lease on a job recovery left in the queue.
LEMMA LeaseRowSteps ==
  ASSUME IInv, NEW j \in Jobs, NEW ttl, Recovered[j].state = "queued",
         job' = [Recovered EXCEPT ![j] = Granted(@, ttl)]
  PROVE  RowSteps
<1>1. Recovered \in [Jobs -> Row] /\ RowInv(Recovered[j], promised[j], clock)
  BY RecoveredInv DEF RowsInv
<1>2. RowStep(job[j], job'[j], promised[j])
  <2>1. promised[j] <= clock
    BY <1>1 DEF RowInv
  <2>2. job'[j] = Granted(Recovered[j], ttl) /\ Recovered[j] \in Row
    BY <1>1
  <2>3. Granted(Recovered[j], ttl).fence = Recovered[j].fence + 1
    BY <2>2, Zenon DEF Granted, Row
  <2>4. job[j].state \notin Terminal /\ ~job[j].cancel /\ Recovered[j].fence = job[j].fence
    BY RecoveredRow DEF Pending
  <2> QED BY <2>1, <2>2, <2>3, <2>4 DEF RowStep
<1>3. ASSUME NEW i \in Jobs, i # j
      PROVE  RowStep(job[i], job'[i], promised[i])
  <2>1. job'[i] = Recovered[i]
    BY <1>1, <1>3
  <2> QED BY <2>1, RecoveredRow
<1> QED BY <1>2, <1>3 DEF RowSteps

\* A row an operation inserts or deletes.
LEMMA InsertedOrDeletedStep ==
  ASSUME NEW r \in Row, NEW s, NEW told, RowInv(r, told, clock), s.fence = 0,
         r.state = "absent" \/ s.state = "deleted"
  PROVE  RowStep(r, s, told)
<1>1. r.fence \in Nat
  BY Zenon DEF Row
<1>2. r.state = "absent" => ~r.cancel /\ r.state \notin Terminal
  BY DEF RowInv, States, Pending, Terminal
<1> QED BY <1>1, <1>2 DEF RowStep

\* Complete ends one leased row, as cancelled if its cancellation was asked for.
LEMMA CompleteRowSteps ==
  ASSUME IInv, NEW j \in Jobs, NEW f \in 1..job[j].fence, NEW o \in Terminal, Complete(j, f, o)
  PROVE  RowSteps
<1> DEFINE r == CompletedRow(job[j], f, o)
<1>1. /\ job[j] \in Row /\ promised[j] \in Nat /\ clock \in Nat /\ job \in [Jobs -> Row]
      /\ RowInv(job[j], promised[j], clock)
  BY DEF IInv, TypeOK, RowsInv
<1>2. f \in Nat
  <2>1. job[j].fence \in Nat
    BY <1>1, Zenon DEF Row
  <2> QED BY <2>1
<1>3. /\ job[j].state = "leased" /\ job[j].lease = f /\ job[j].fence = f
      /\ job[j].cancel => o = "cancelled"
  BY Zenon DEF Complete, Holds
<1>4. r \in Row
  BY <1>1, <1>2, <1>3, CompletedRowInv
<1>5. r.fence = job[j].fence /\ r.state = o
  BY <1>1, Zenon DEF CompletedRow, Row
<1>6. job' = Propagate([job EXCEPT ![j] = r])
  <2>1. [job EXCEPT ![j].state = o, ![j].reason = "", ![j].outcome = o, ![j].result = f,
                    ![j].updated = clock] = [job EXCEPT ![j] = r]
    BY <1>1, Zenon DEF CompletedRow
  <2> QED BY <2>1, Zenon DEF Complete
<1> HIDE DEF r
<1> QED BY <1>3, <1>4, <1>5, <1>6, EndRowSteps DEF Pending

\* Cancel ends a waiting row and only marks a running one.
LEMMA CancelRowSteps ==
  ASSUME IInv, NEW j \in Jobs, Cancel(j)
  PROVE  RowSteps
<1>1. /\ job \in [Jobs -> Row] /\ clock \in Nat /\ promised \in [Jobs -> Nat]
      /\ \A i \in Jobs : job[i] \in Row /\ RowInv(job[i], promised[i], clock)
  BY DEF IInv, TypeOK, RowsInv
<1>2. CASE job[j].state = "leased"
  <2> DEFINE r == CancellingRow(job[j])
  <2>1. job' = [job EXCEPT ![j] = r]
    <3>1. [job EXCEPT ![j].cancel = TRUE, ![j].reason = "cancel_requested", ![j].updated = clock]
            = [job EXCEPT ![j] = r]
      BY <1>1, Zenon DEF CancellingRow
    <3>2. job' = [job EXCEPT ![j].cancel = TRUE, ![j].reason = "cancel_requested",
                             ![j].updated = clock]
      BY <1>2, Zenon DEF Cancel
    <3> QED BY <3>1, <3>2
  <2>2. r.fence = job[j].fence /\ r.state = "leased"
    BY <1>1, <1>2, Zenon DEF CancellingRow, Row
  <2> HIDE DEF r
  <2>3. ASSUME NEW i \in Jobs PROVE RowStep(job[i], job'[i], promised[i])
    <3>1. CASE i = j
      BY <1>1, <1>2, <2>1, <2>2, <3>1, PendingRowStep DEF Pending
    <3>2. CASE i # j
      BY <1>1, <2>1, <3>2, SameRowStep
    <3> QED BY <3>1, <3>2
  <2> QED BY <2>3 DEF RowSteps
<1>3. CASE job[j].state \in {"blocked", "queued"}
  <2> DEFINE r == CancelledRow(job[j])
  <2>1. r \in Row
    BY <1>1, <1>3, CancelledRowInv
  <2>2. r.fence = job[j].fence /\ r.state = "cancelled"
    <3>1. job[j] \in Row
      BY <1>1
    <3> QED BY <3>1, Zenon DEF CancelledRow, Row
  <2>3. job' = Propagate([job EXCEPT ![j] = r])
    <3> DEFINE u == [job EXCEPT ![j].state = "cancelled", ![j].reason = "cancelled",
                                ![j].cancel = TRUE, ![j].outcome = "cancelled",
                                ![j].updated = clock]
    <3>1. u = [job EXCEPT ![j] = r]
      BY <1>1, Zenon DEF CancelledRow
    <3>2. job' = Propagate(u)
      BY <1>3 DEF Cancel
    <3> QED BY <3>1, <3>2, Zenon
  <2> HIDE DEF r
  <2> QED BY <1>3, <2>1, <2>2, <2>3, EndRowSteps DEF Pending, Terminal
<1> QED BY <1>2, <1>3 DEF Cancel

\* FailUnstartedTaskWorker ends a waiting row, which is never a cancelled one.
LEMMA FailUnstartedRowSteps ==
  ASSUME IInv, NEW j \in Jobs, FailUnstartedTaskWorker(j)
  PROVE  RowSteps
<1> DEFINE r == UnstartedRow(job[j])
<1>1. /\ job[j] \in Row /\ promised[j] \in Nat /\ clock \in Nat /\ job \in [Jobs -> Row]
      /\ RowInv(job[j], promised[j], clock)
  BY DEF IInv, TypeOK, RowsInv
<1>2. job[j].state \in {"blocked", "queued"}
  BY DEF FailUnstartedTaskWorker
<1>3. ~job[j].cancel
  BY <1>1, <1>2, CancelRequested
<1>4. r \in Row
  BY <1>1, <1>2, UnstartedRowInv
<1>5. r.fence = job[j].fence /\ r.state = "failed"
  BY <1>1, Zenon DEF UnstartedRow, Row
<1>6. job' = Propagate([job EXCEPT ![j] = r])
  <2>1. [job EXCEPT ![j].state = "failed", ![j].reason = "task_goal_unavailable",
                    ![j].cancel = FALSE, ![j].outcome = "failed", ![j].result = 0,
                    ![j].updated = clock] = [job EXCEPT ![j] = r]
    BY <1>1, Zenon DEF UnstartedRow
  <2> QED BY <2>1, Zenon DEF FailUnstartedTaskWorker
<1> HIDE DEF r
<1> QED BY <1>2, <1>3, <1>4, <1>5, <1>6, EndRowSteps DEF Pending, Terminal

\* No operation of the store breaks the step properties of any row.
LEMMA NextRowSteps ==
  ASSUME IInv, Next
  PROVE  RowSteps
<1>1. /\ job \in [Jobs -> Row]
      /\ \A j \in Jobs : job[j] \in Row /\ RowInv(job[j], promised[j], clock)
  BY DEF IInv, TypeOK, RowsInv
<1>2. ASSUME NEW j \in Jobs, NEW k \in Keys, NEW w \in Workspaces, NEW p \in Pools,
             NEW D \in SUBSET Jobs, Enqueue(j, k, w, p, D)
      PROVE  RowSteps
  <2> DEFINE state == DependencyState(job, D)
             r == NewRow(state, DependencyReason(state), k, w, p, D, FALSE)
  <2>1. job[j].state = "absent" /\ job' = [job EXCEPT ![j] = r]
    BY <1>2 DEF Enqueue
  <2>2. r.fence = 0
    BY DEF NewRow, NoRow
  <2> HIDE DEF r
  <2>3. ASSUME NEW i \in Jobs PROVE RowStep(job[i], job'[i], promised[i])
    <3>1. CASE i = j
      BY <1>1, <2>1, <2>2, <3>1, InsertedOrDeletedStep
    <3>2. CASE i # j
      BY <1>1, <2>1, <3>2, SameRowStep
    <3> QED BY <3>1, <3>2
  <2> QED BY <2>3 DEF RowSteps
<1>3. ASSUME NEW J \in SUBSET Jobs, NEW w \in Workspaces, NEW p \in Pools, NEW key \in [J -> Keys],
             CreateTask(J, key, w, p)
      PROVE  RowSteps
  <2>1. ASSUME NEW i \in Jobs PROVE RowStep(job[i], job'[i], promised[i])
    <3> DEFINE r == NewRow("queued", "", key[i], w, p, {}, TRUE)
    <3>1. CASE i \in J
      <4>1. job[i].state = "absent" /\ job'[i] = r
        BY <1>3, <3>1, Zenon DEF CreateTask
      <4>2. r.fence = 0
        BY DEF NewRow, NoRow
      <4> HIDE DEF r
      <4> QED BY <1>1, <4>1, <4>2, InsertedOrDeletedStep
    <3>2. CASE i \notin J
      <4>1. job'[i] = job[i]
        BY <1>3, <3>2, Zenon DEF CreateTask
      <4> QED BY <1>1, <4>1, SameRowStep
    <3> QED BY <3>1, <3>2
  <2> QED BY <2>1 DEF RowSteps
<1>4. ASSUME NEW p \in Pools, NEW ttl \in Ttls, LeaseNext(p, ttl) PROVE RowSteps
  <2> DEFINE C == Candidates(Recovered, p)
  <2>1. CASE C = {}
    <3>1. job' = Recovered
      BY <1>4, <2>1 DEF LeaseNext
    <3> QED BY <3>1, RecoveredRow DEF RowSteps
  <2>2. CASE C # {}
    <3>1. PICK j \in Jobs : /\ Recovered[j].state = "queued"
                            /\ job' = [Recovered EXCEPT ![j] = Granted(@, ttl)]
      BY <1>4, <2>2, LeasedCandidate
    <3> QED BY <3>1, LeaseRowSteps, Zenon
  <2> QED BY <2>1, <2>2
<1>5. ASSUME NEW j \in Jobs, NEW ttl \in Ttls, LeaseTaskWorker(j, ttl) PROVE RowSteps
  <2>1. CASE job' = Recovered
    BY <2>1, RecoveredRow DEF RowSteps
  <2>2. CASE Recovered[j].state = "queued" /\ job' = [Recovered EXCEPT ![j] = Granted(@, ttl)]
    BY <2>2, LeaseRowSteps, Zenon
  <2> QED BY <1>5, <2>1, <2>2 DEF LeaseTaskWorker
<1>6. CASE RecoverExpired
  BY <1>6, RecoveredRow DEF RecoverExpired, RowSteps
<1>7. ASSUME NEW j \in Jobs, NEW ttl \in Ttls, NEW f \in 1..job[j].fence, Heartbeat(j, f, ttl)
      PROVE  RowSteps
  <2> DEFINE r == RenewedRow(job[j], ttl)
  <2>1. job[j].state = "leased"
    BY <1>7 DEF Heartbeat, Holds
  <2>2. job' = [job EXCEPT ![j] = r]
    BY <1>1, <1>7, Zenon DEF Heartbeat, RenewedRow
  <2>3. r.fence = job[j].fence /\ r.state = "leased"
    BY <1>1, <2>1, Zenon DEF RenewedRow, Row
  <2> HIDE DEF r
  <2>4. ASSUME NEW i \in Jobs PROVE RowStep(job[i], job'[i], promised[i])
    <3>1. CASE i = j
      BY <1>1, <2>1, <2>2, <2>3, <3>1, PendingRowStep DEF Pending
    <3>2. CASE i # j
      BY <1>1, <2>2, <3>2, SameRowStep
    <3> QED BY <3>1, <3>2
  <2> QED BY <2>4 DEF RowSteps
<1>8. ASSUME NEW j \in Jobs, NEW o \in Terminal, NEW f \in 1..job[j].fence, Complete(j, f, o)
      PROVE  RowSteps
  BY <1>8, CompleteRowSteps
<1>9. ASSUME NEW j \in Jobs, Cancel(j) PROVE RowSteps
  BY <1>9, CancelRowSteps
<1>10. ASSUME NEW j \in Jobs, FailUnstartedTaskWorker(j) PROVE RowSteps
  BY <1>10, FailUnstartedRowSteps
<1>11. ASSUME NEW X \in SUBSET Jobs, CleanupTerminal(X) PROVE RowSteps
  <2>1. ASSUME NEW i \in Jobs PROVE RowStep(job[i], job'[i], promised[i])
    <3>1. CASE i \in X
      <4>1. job'[i] = NoRow("deleted")
        BY <1>11, <3>1 DEF CleanupTerminal
      <4>2. NoRow("deleted").fence = 0 /\ NoRow("deleted").state = "deleted"
        BY DEF NoRow
      <4> QED BY <1>1, <4>1, <4>2, InsertedOrDeletedStep
    <3>2. CASE i \notin X
      <4>1. job'[i] = job[i]
        BY <1>11, <3>2 DEF CleanupTerminal
      <4> QED BY <1>1, <4>1, SameRowStep
    <3> QED BY <3>1, <3>2
  <2> QED BY <2>1 DEF RowSteps
<1>12. CASE Stop \/ Open \/ Tick
  <2>1. job' = job
    BY <1>12 DEF Stop, Open, Tick
  <2> QED BY <1>1, <2>1, SameRowStep DEF RowSteps
<1> QED BY <1>2, <1>3, <1>4, <1>5, <1>6, <1>7, <1>8, <1>9, <1>10, <1>11, <1>12 DEF Next

\* No lease is issued for a job while the previous one is promised to a worker:
\* at any time at most one worker is entitled to run a job, for any lease
\* durations, heartbeats and restarts.
THEOREM LeasesExclusive == Spec => LeaseExclusive
<1>1. IInv /\ [Next]_vars => [LeaseExclusiveStep]_vars
  BY NextRowSteps DEF RowSteps, RowStep, LeaseExclusiveStep
<1> QED BY <1>1, Invariance, PTL DEF Spec, LeaseExclusive

\* A terminal row never changes until it is deleted.
THEOREM TerminalsFinal == Spec => TerminalFinal
<1>1. IInv /\ [Next]_vars => [TerminalFinalStep]_vars
  BY NextRowSteps DEF RowSteps, RowStep, TerminalFinalStep
<1> QED BY <1>1, Invariance, PTL DEF Spec, TerminalFinal

\* A job whose cancellation was accepted is never queued or leased again.
THEOREM CancelsStick == Spec => CancelSticks
<1>1. IInv /\ [Next]_vars => [CancelSticksStep]_vars
  BY NextRowSteps DEF RowSteps, RowStep, CancelSticksStep
<1> QED BY <1>1, Invariance, PTL DEF Spec, CancelSticks

\* QueueSteps: no call takes a job from the worker it is promised to, changes
\* an ended job or forgets an accepted cancellation.
THEOREM QueueStepsKept == Spec => QueueSteps
BY LeasesExclusive, TerminalsFinal, CancelsStick DEF QueueSteps

-----------------------------------------------------------------------------
(* The table as a whole.                                                   *)

\* Row s stands for the same job as r, and waits or runs only if r did.
KeptRow(r, s) ==
  /\ s.state \in Pending => r.state \in Pending
  /\ s.state \in States => r.state \in States /\ s.key = r.key /\ s.ws = r.ws

Kept(t, u) == \A j \in Jobs : KeptRow(t[j], u[j])

KeysUnique(t) == \A i, j \in Present(t) : t[i].key = t[j].key => i = j

Bounded(t) ==
  /\ Cardinality(PendingJobs(t)) <= MaxJobs
  /\ \A w \in Workspaces : Cardinality(ActiveIn(t, w)) <= MaxJobsPerWorkspace

TableInv == KeysUnique(job) /\ Bounded(job)

\* The sets the bounds count are finite.
LEMMA PendingFinite ==
  ASSUME NEW t
  PROVE  /\ IsFiniteSet(PendingJobs(t)) /\ Cardinality(PendingJobs(t)) \in Nat
         /\ \A w : IsFiniteSet(ActiveIn(t, w)) /\ Cardinality(ActiveIn(t, w)) \in Nat
<1>1. IsFiniteSet(Jobs)
  BY QueueAssumption
<1>2. PendingJobs(t) \in SUBSET Jobs /\ \A w : ActiveIn(t, w) \in SUBSET Jobs
  BY DEF PendingJobs, ActiveIn
<1> QED BY <1>1, <1>2, FS_Subset, FS_CardinalityType

\* An operation that keeps every row keeps the table within its bounds.
LEMMA KeptTable ==
  ASSUME NEW t, NEW u, Kept(t, u), KeysUnique(t), Bounded(t)
  PROVE  KeysUnique(u) /\ Bounded(u)
<1>1. PendingJobs(u) \in SUBSET PendingJobs(t)
  BY DEF Kept, KeptRow, PendingJobs
<1>2. \A w : ActiveIn(u, w) \in SUBSET ActiveIn(t, w)
  BY DEF Kept, KeptRow, PendingJobs, ActiveIn, States
<1>3. MaxJobs \in Nat /\ MaxJobsPerWorkspace \in Nat
  BY QueueAssumption
<1>4. Cardinality(PendingJobs(u)) <= Cardinality(PendingJobs(t))
  BY <1>1, PendingFinite, FS_Subset
<1>5. \A w : Cardinality(ActiveIn(u, w)) <= Cardinality(ActiveIn(t, w))
  BY <1>2, PendingFinite, FS_Subset
<1>6. Cardinality(PendingJobs(u)) <= MaxJobs
  BY <1>3, <1>4, PendingFinite DEF Bounded
<1>7. ASSUME NEW w \in Workspaces PROVE Cardinality(ActiveIn(u, w)) <= MaxJobsPerWorkspace
  <2>1. Cardinality(ActiveIn(t, w)) <= MaxJobsPerWorkspace
    BY DEF Bounded
  <2> QED BY <1>3, <1>5, <2>1, PendingFinite
<1>8. KeysUnique(u)
  BY DEF Kept, KeptRow, KeysUnique, Present
<1> QED BY <1>6, <1>7, <1>8 DEF Bounded

\* Rows are kept through two operations in turn, and by one that does nothing.
LEMMA KeptTransitive ==
  ASSUME NEW t, NEW u, NEW v, Kept(t, u), Kept(u, v)
  PROVE  Kept(t, v)
BY DEF Kept, KeptRow

\* Writing one row that is kept.
LEMMA KeptWrite ==
  ASSUME NEW t \in [Jobs -> Row], NEW j \in Jobs, NEW r, KeptRow(t[j], r)
  PROVE  Kept(t, [t EXCEPT ![j] = r])
BY DEF Kept, KeptRow

\* propagate moves blocked rows only, to queued or to failed.
LEMMA PropagateKept ==
  ASSUME NEW t \in [Jobs -> Row]
  PROVE  Kept(t, Propagate(t))
<1>1. ASSUME NEW j \in Jobs PROVE KeptRow(t[j], Propagate(t)[j])
  <2>1. t[j] \in Row
    OBVIOUS
  <2>2. CASE t[j].state # "blocked"
    BY <2>2, PropagateKeeps DEF KeptRow
  <2>3. CASE t[j].state = "blocked"
    <3>1. t[j].state \in Pending /\ t[j].state \in States
      BY <2>3 DEF Pending, States
    <3>2. /\ FellRow(t[j]).key = t[j].key /\ FellRow(t[j]).ws = t[j].ws
          /\ ReleasedRow(t[j]).key = t[j].key /\ ReleasedRow(t[j]).ws = t[j].ws
      BY <2>1, Zenon DEF FellRow, ReleasedRow, Row
    <3> QED BY <3>1, <3>2, PropagateRow DEF KeptRow
  <2> QED BY <2>2, <2>3
<1> QED BY <1>1 DEF Kept

\* recoverExpired requeues only what was leased.
LEMMA RecoveredKept ==
  ASSUME IInv
  PROVE  Recovered \in [Jobs -> Row] /\ Kept(job, Recovered)
<1> DEFINE u == [j \in Jobs |-> Swept(j)]
<1>1. Recovered = Propagate(u)
  BY DEF Recovered, Swept
<1>2. u \in [Jobs -> Row]
  BY SweptRow DEF IInv
<1>3. ASSUME NEW j \in Jobs PROVE KeptRow(job[j], Swept(j))
  <2>1. job[j] \in Row
    BY DEF IInv, TypeOK
  <2>2. CASE j \in Expired(job)
    <3>1. job[j].state \in Pending /\ job[j].state \in States /\ Swept(j) = Reaped(job[j])
      BY <2>2 DEF Expired, InState, Swept, Pending, States
    <3>2. Reaped(job[j]).key = job[j].key /\ Reaped(job[j]).ws = job[j].ws
      BY <2>1, Zenon DEF Reaped, Row
    <3> QED BY <3>1, <3>2 DEF KeptRow
  <2>3. CASE j \notin Expired(job)
    BY <2>3 DEF Swept, KeptRow
  <2> QED BY <2>2, <2>3
<1>4. Kept(job, u)
  BY <1>3 DEF Kept
<1> HIDE DEF u
<1>5. Kept(u, Propagate(u))
  BY <1>2, PropagateKept
<1> QED BY <1>1, <1>4, <1>5, KeptTransitive, RecoveredInv

\* A lease on a job recovery left in the queue.
LEMMA LeaseKept ==
  ASSUME IInv, NEW j \in Jobs, NEW ttl, Recovered[j].state = "queued"
  PROVE  Kept(job, [Recovered EXCEPT ![j] = Granted(@, ttl)])
<1>1. Recovered \in [Jobs -> Row] /\ Kept(job, Recovered)
  BY RecoveredKept
<1>2. KeptRow(Recovered[j], Granted(Recovered[j], ttl))
  <2>1. Recovered[j] \in Row
    BY <1>1
  <2>2. Granted(Recovered[j], ttl).key = Recovered[j].key /\ Granted(Recovered[j], ttl).ws = Recovered[j].ws
    BY <2>1, Zenon DEF Granted, Row
  <2>3. Recovered[j].state \in Pending /\ Recovered[j].state \in States
    BY DEF Pending, States
  <2> QED BY <2>2, <2>3 DEF KeptRow
<1>3. Kept(Recovered, [Recovered EXCEPT ![j] = Granted(@, ttl)])
  BY <1>1, <1>2, KeptWrite, Zenon
<1> QED BY <1>1, <1>3, KeptTransitive

\* One pending row is written and the walk runs.
LEMMA EndKept ==
  ASSUME IInv, NEW j \in Jobs, NEW r \in Row, job[j].state \in Pending,
         r.key = job[j].key, r.ws = job[j].ws
  PROVE  Kept(job, [job EXCEPT ![j] = r]) /\ Kept(job, Propagate([job EXCEPT ![j] = r]))
<1> DEFINE u == [job EXCEPT ![j] = r]
<1>1. job \in [Jobs -> Row] /\ u \in [Jobs -> Row]
  BY DEF IInv, TypeOK
<1>2. KeptRow(job[j], r)
  BY DEF KeptRow, States
<1>3. Kept(job, u)
  BY <1>1, <1>2, KeptWrite, Zenon
<1>4. Kept(u, Propagate(u))
  BY <1>1, PropagateKept, Zenon
<1> QED BY <1>3, <1>4, KeptTransitive

\* Complete ends one leased row.
LEMMA CompleteKept ==
  ASSUME IInv, NEW j \in Jobs, NEW f \in 1..job[j].fence, NEW o \in Terminal, Complete(j, f, o)
  PROVE  Kept(job, job')
<1> DEFINE r == CompletedRow(job[j], f, o)
<1>1. /\ job[j] \in Row /\ promised[j] \in Nat /\ clock \in Nat /\ job \in [Jobs -> Row]
      /\ RowInv(job[j], promised[j], clock)
  BY DEF IInv, TypeOK, RowsInv
<1>2. f \in Nat
  <2>1. job[j].fence \in Nat
    BY <1>1, Zenon DEF Row
  <2> QED BY <2>1
<1>3. /\ job[j].state = "leased" /\ job[j].lease = f /\ job[j].fence = f
      /\ job[j].cancel => o = "cancelled"
  BY Zenon DEF Complete, Holds
<1>4. r \in Row
  BY <1>1, <1>2, <1>3, CompletedRowInv
<1>5. r.key = job[j].key /\ r.ws = job[j].ws
  BY <1>1, Zenon DEF CompletedRow, Row
<1>6. job' = Propagate([job EXCEPT ![j] = r])
  <2>1. [job EXCEPT ![j].state = o, ![j].reason = "", ![j].outcome = o, ![j].result = f,
                    ![j].updated = clock] = [job EXCEPT ![j] = r]
    BY <1>1, Zenon DEF CompletedRow
  <2> QED BY <2>1, Zenon DEF Complete
<1> HIDE DEF r
<1>7. job[j].state \in Pending
  BY <1>3 DEF Pending
<1> QED BY <1>4, <1>5, <1>6, <1>7, EndKept

\* Cancel ends a waiting row and only marks a running one.
LEMMA CancelKept ==
  ASSUME IInv, NEW j \in Jobs, Cancel(j)
  PROVE  Kept(job, job')
<1>1. /\ job \in [Jobs -> Row] /\ job[j] \in Row /\ clock \in Nat /\ promised[j] \in Nat
      /\ RowInv(job[j], promised[j], clock)
  BY DEF IInv, TypeOK, RowsInv
<1>2. CASE job[j].state = "leased"
  <2> DEFINE r == CancellingRow(job[j])
  <2>1. job' = [job EXCEPT ![j].cancel = TRUE, ![j].reason = "cancel_requested",
                           ![j].updated = clock]
    BY <1>2, Zenon DEF Cancel
  <2>2. job' = [job EXCEPT ![j] = r]
    BY <1>1, <2>1, Zenon DEF CancellingRow
  <2>3. r.state = job[j].state /\ r.key = job[j].key /\ r.ws = job[j].ws
    BY <1>1, Zenon DEF CancellingRow, Row
  <2> HIDE DEF r
  <2>4. KeptRow(job[j], r)
    BY <2>3 DEF KeptRow
  <2> QED BY <1>1, <2>2, <2>4, KeptWrite, Zenon
<1>3. CASE job[j].state \in {"blocked", "queued"}
  <2> DEFINE r == CancelledRow(job[j])
             u == [job EXCEPT ![j].state = "cancelled", ![j].reason = "cancelled",
                              ![j].cancel = TRUE, ![j].outcome = "cancelled",
                              ![j].updated = clock]
  <2>1. r \in Row
    BY <1>1, <1>3, CancelledRowInv
  <2>2. r.key = job[j].key /\ r.ws = job[j].ws
    BY <1>1, Zenon DEF CancelledRow, Row
  <2>3. u = [job EXCEPT ![j] = r]
    BY <1>1, Zenon DEF CancelledRow
  <2>4. job' = Propagate(u)
    BY <1>3 DEF Cancel
  <2>5. job' = Propagate([job EXCEPT ![j] = r])
    BY <2>3, <2>4, Zenon
  <2> HIDE DEF r
  <2>6. job[j].state \in Pending
    BY <1>3 DEF Pending
  <2> QED BY <2>1, <2>2, <2>5, <2>6, EndKept
<1> QED BY <1>2, <1>3 DEF Cancel

\* FailUnstartedTaskWorker ends a waiting row.
LEMMA FailUnstartedKept ==
  ASSUME IInv, NEW j \in Jobs, FailUnstartedTaskWorker(j)
  PROVE  Kept(job, job')
<1> DEFINE r == UnstartedRow(job[j])
<1>1. /\ job[j] \in Row /\ promised[j] \in Nat /\ clock \in Nat /\ job \in [Jobs -> Row]
      /\ RowInv(job[j], promised[j], clock)
  BY DEF IInv, TypeOK, RowsInv
<1>2. job[j].state \in {"blocked", "queued"}
  BY DEF FailUnstartedTaskWorker
<1>3. r \in Row
  BY <1>1, <1>2, UnstartedRowInv
<1>4. r.key = job[j].key /\ r.ws = job[j].ws
  BY <1>1, Zenon DEF UnstartedRow, Row
<1>5. job' = Propagate([job EXCEPT ![j] = r])
  <2>1. [job EXCEPT ![j].state = "failed", ![j].reason = "task_goal_unavailable",
                    ![j].cancel = FALSE, ![j].outcome = "failed", ![j].result = 0,
                    ![j].updated = clock] = [job EXCEPT ![j] = r]
    BY <1>1, Zenon DEF UnstartedRow
  <2> QED BY <2>1, Zenon DEF FailUnstartedTaskWorker
<1> HIDE DEF r
<1>6. job[j].state \in Pending
  BY <1>2 DEF Pending
<1> QED BY <1>3, <1>4, <1>5, <1>6, EndKept

\* Every operation but the inserts keeps the rows.
LEMMA OtherKept ==
  ASSUME IInv, Next,
         ~\E j \in Jobs, k \in Keys, w \in Workspaces, p \in Pools, D \in SUBSET Jobs :
            Enqueue(j, k, w, p, D),
         ~\E J \in SUBSET Jobs, w \in Workspaces, p \in Pools : \E key \in [J -> Keys] :
            CreateTask(J, key, w, p)
  PROVE  Kept(job, job')
<1>1. job \in [Jobs -> Row] /\ \A j \in Jobs : job[j] \in Row
  BY DEF IInv, TypeOK
<1>2. ASSUME NEW p \in Pools, NEW ttl \in Ttls, LeaseNext(p, ttl) PROVE Kept(job, job')
  <2> DEFINE C == Candidates(Recovered, p)
  <2>1. CASE C = {}
    <3>1. job' = Recovered
      BY <1>2, <2>1 DEF LeaseNext
    <3> QED BY <3>1, RecoveredKept
  <2>2. CASE C # {}
    <3>1. PICK j \in Jobs : /\ Recovered[j].state = "queued"
                            /\ job' = [Recovered EXCEPT ![j] = Granted(@, ttl)]
      BY <1>2, <2>2, LeasedCandidate
    <3> QED BY <3>1, LeaseKept, Zenon
  <2> QED BY <2>1, <2>2
<1>3. ASSUME NEW j \in Jobs, NEW ttl \in Ttls, LeaseTaskWorker(j, ttl) PROVE Kept(job, job')
  <2>1. CASE job' = Recovered
    BY <2>1, RecoveredKept
  <2>2. CASE Recovered[j].state = "queued" /\ job' = [Recovered EXCEPT ![j] = Granted(@, ttl)]
    BY <2>2, LeaseKept, Zenon
  <2> QED BY <1>3, <2>1, <2>2 DEF LeaseTaskWorker
<1>4. CASE RecoverExpired
  BY <1>4, RecoveredKept DEF RecoverExpired
<1>5. ASSUME NEW j \in Jobs, NEW ttl \in Ttls, NEW f \in 1..job[j].fence, Heartbeat(j, f, ttl)
      PROVE  Kept(job, job')
  <2> DEFINE r == RenewedRow(job[j], ttl)
  <2>1. job' = [job EXCEPT ![j] = r]
    BY <1>1, <1>5, Zenon DEF Heartbeat, RenewedRow
  <2>2. r.state = job[j].state /\ r.key = job[j].key /\ r.ws = job[j].ws
    <3>1. job[j] \in Row
      BY <1>1
    <3> QED BY <3>1, Zenon DEF RenewedRow, Row
  <2> HIDE DEF r
  <2>3. KeptRow(job[j], r)
    BY <2>2 DEF KeptRow
  <2> QED BY <1>1, <2>1, <2>3, KeptWrite, Zenon
<1>6. ASSUME NEW j \in Jobs, NEW o \in Terminal, NEW f \in 1..job[j].fence, Complete(j, f, o)
      PROVE  Kept(job, job')
  BY <1>6, CompleteKept
<1>7. ASSUME NEW j \in Jobs, Cancel(j) PROVE Kept(job, job')
  BY <1>7, CancelKept
<1>8. ASSUME NEW j \in Jobs, FailUnstartedTaskWorker(j) PROVE Kept(job, job')
  BY <1>8, FailUnstartedKept
<1>9. ASSUME NEW X \in SUBSET Jobs, CleanupTerminal(X) PROVE Kept(job, job')
  <2>1. ASSUME NEW i \in Jobs PROVE KeptRow(job[i], job'[i])
    <3>1. CASE i \in X
      <4>1. job'[i] = NoRow("deleted")
        BY <1>9, <3>1 DEF CleanupTerminal
      <4>2. NoRow("deleted").state = "deleted"
        BY DEF NoRow
      <4> QED BY <4>1, <4>2 DEF KeptRow, States, Pending, Terminal
    <3>2. CASE i \notin X
      <4>1. job'[i] = job[i]
        BY <1>9, <3>2 DEF CleanupTerminal
      <4> QED BY <4>1 DEF KeptRow
    <3> QED BY <3>1, <3>2
  <2> QED BY <2>1 DEF Kept
<1>10. CASE Stop \/ Open \/ Tick
  <2>1. job' = job
    BY <1>10 DEF Stop, Open, Tick
  <2> QED BY <2>1 DEF Kept, KeptRow
<1> QED BY <1>2, <1>3, <1>4, <1>5, <1>6, <1>7, <1>8, <1>9, <1>10 DEF Next

\* An insert of the jobs J of one workspace: Enqueue with one job, CreateTask
\* with the jobs of all workers.  The bounds were checked for all of them.
LEMMA InsertTable ==
  ASSUME IInv, TableInv, NEW J \in SUBSET Jobs, NEW w \in Workspaces,
         \A j \in J : /\ job[j].state = "absent"
                      /\ job'[j].ws = w
                      /\ \A i \in Present(job) : job[i].key # job'[j].key,
         \A i, j \in J : job'[i].key = job'[j].key => i = j,
         \A i \in Jobs \ J : job'[i] = job[i],
         Admits(w, Cardinality(J))
  PROVE  TableInv'
<1>1. IsFiniteSet(J) /\ Cardinality(J) \in Nat
  BY QueueAssumption, FS_Subset, FS_CardinalityType
<1>2. MaxJobs \in Nat /\ MaxJobsPerWorkspace \in Nat
  BY QueueAssumption
<1>3. J \cap Present(job) = {} /\ J \cap PendingJobs(job) = {}
  BY DEF Present, PendingJobs, States, Pending, Terminal
<1>4. KeysUnique(job')
  <2> SUFFICES ASSUME NEW i \in Present(job'), NEW j \in Present(job'), job'[i].key = job'[j].key
               PROVE  i = j
    BY DEF KeysUnique
  <2>1. \A x \in Present(job') : x \in J \/ (x \in Present(job) /\ job'[x] = job[x])
    BY DEF Present
  <2>2. CASE i \in J /\ j \in J
    BY <2>2
  <2>3. CASE i \in J /\ j \notin J
    BY <2>1, <2>3
  <2>4. CASE i \notin J /\ j \in J
    BY <2>1, <2>4
  <2>5. CASE i \notin J /\ j \notin J
    BY <2>1, <2>5 DEF TableInv, KeysUnique
  <2> QED BY <2>2, <2>3, <2>4, <2>5
<1>5. Cardinality(PendingJobs(job')) <= MaxJobs
  <2> DEFINE P == PendingJobs(job)
  <2>1. PendingJobs(job') \in SUBSET (P \cup J)
    BY DEF PendingJobs
  <2>2. IsFiniteSet(P) /\ Cardinality(P) \in Nat /\ Cardinality(P \cap J) = 0
    BY <1>3, PendingFinite, FS_EmptySet
  <2>3. IsFiniteSet(P \cup J) /\ Cardinality(P \cup J) = Cardinality(P) + Cardinality(J)
    <3>1. /\ IsFiniteSet(P \cup J)
          /\ Cardinality(P \cup J) = Cardinality(P) + Cardinality(J) - Cardinality(P \cap J)
      BY <1>1, <2>2, FS_Union, Zenon
    <3> HIDE DEF P
    <3> QED BY <1>1, <2>2, <3>1
  <2>4. Cardinality(PendingJobs(job')) <= Cardinality(P \cup J)
    BY <2>1, <2>3, FS_Subset
  <2>5. Cardinality(P) + Cardinality(J) <= MaxJobs
    BY DEF Admits
  <2> HIDE DEF P
  <2>6. Cardinality(PendingJobs(job')) \in Nat
    BY PendingFinite
  <2> QED BY <1>1, <1>2, <2>2, <2>3, <2>4, <2>5, <2>6
<1>6. ASSUME NEW v \in Workspaces PROVE Cardinality(ActiveIn(job', v)) <= MaxJobsPerWorkspace
  <2> DEFINE A == ActiveIn(job, v)
  <2>1. IsFiniteSet(A) /\ Cardinality(A) \in Nat /\ Cardinality(ActiveIn(job', v)) \in Nat
    BY PendingFinite
  <2>2. CASE v = w
    <3>1. ActiveIn(job', v) \in SUBSET (A \cup J)
      BY DEF ActiveIn, PendingJobs
    <3>2. A \cap J = {}
      BY <1>3 DEF ActiveIn
    <3>3. Cardinality(A \cap J) = 0
      BY <3>2, FS_EmptySet
    <3>4. IsFiniteSet(A \cup J) /\ Cardinality(A \cup J) = Cardinality(A) + Cardinality(J)
      <4>1. /\ IsFiniteSet(A \cup J)
            /\ Cardinality(A \cup J) = Cardinality(A) + Cardinality(J) - Cardinality(A \cap J)
        BY <1>1, <2>1, FS_Union, Zenon
      <4> HIDE DEF A
      <4> QED BY <1>1, <2>1, <3>3, <4>1
    <3>5. Cardinality(ActiveIn(job', v)) <= Cardinality(A \cup J)
      BY <3>1, <3>4, FS_Subset
    <3>6. Cardinality(A) + Cardinality(J) <= MaxJobsPerWorkspace
      BY <2>2 DEF Admits
    <3> HIDE DEF A
    <3> QED BY <1>1, <1>2, <2>1, <3>4, <3>5, <3>6
  <2>3. CASE v # w
    <3>1. ActiveIn(job', v) \in SUBSET A
      BY <2>3 DEF ActiveIn, PendingJobs
    <3>2. Cardinality(ActiveIn(job', v)) <= Cardinality(A)
      BY <2>1, <3>1, FS_Subset
    <3>3. Cardinality(A) <= MaxJobsPerWorkspace
      BY DEF TableInv, Bounded
    <3> HIDE DEF A
    <3> QED BY <1>2, <2>1, <3>2, <3>3
  <2> QED BY <2>2, <2>3
<1> QED BY <1>4, <1>5, <1>6 DEF TableInv, Bounded

\* Every operation keeps the keys unique and the table within its bounds.
LEMMA NextTable == IInv /\ TableInv /\ [Next]_vars => TableInv'
<1> SUFFICES ASSUME IInv, TableInv, [Next]_vars PROVE TableInv'
  OBVIOUS
<1>1. ASSUME NEW j \in Jobs, NEW k \in Keys, NEW w \in Workspaces, NEW p \in Pools,
             NEW D \in SUBSET Jobs, Enqueue(j, k, w, p, D)
      PROVE  TableInv'
  <2> DEFINE state == DependencyState(job, D)
             r == NewRow(state, DependencyReason(state), k, w, p, D, FALSE)
  <2>1. /\ job[j].state = "absent" /\ job' = [job EXCEPT ![j] = r]
        /\ \A i \in Present(job) : job[i].key # k
        /\ Admits(w, 1)
    BY <1>1 DEF Enqueue, KeyUnused
  <2>2. r.key = k /\ r.ws = w
    BY DEF NewRow, NoRow
  <2> HIDE DEF r
  <2>3. job \in [Jobs -> Row]
    BY DEF IInv, TypeOK
  <2>4. job'[j] = r /\ \A i \in Jobs \ {j} : job'[i] = job[i]
    BY <2>1, <2>3
  <2>5. Cardinality({j}) = 1
    BY FS_Singleton
  <2>6. Admits(w, Cardinality({j}))
    BY <2>1, <2>5
  <2> QED BY <2>1, <2>2, <2>4, <2>6, InsertTable
<1>2. ASSUME NEW J \in SUBSET Jobs, NEW w \in Workspaces, NEW p \in Pools, NEW key \in [J -> Keys],
             CreateTask(J, key, w, p)
      PROVE  TableInv'
  <2> DEFINE r(j) == NewRow("queued", "", key[j], w, p, {}, TRUE)
  <2>1. /\ \A j \in J : job[j].state = "absent" /\ \A i \in Present(job) : job[i].key # key[j]
        /\ \A i, j \in J : key[i] = key[j] => i = j
        /\ Admits(w, Cardinality(J))
    BY <1>2, Zenon DEF CreateTask, KeyUnused
  <2>2. /\ \A j \in J : job'[j] = r(j)
        /\ \A i \in Jobs \ J : job'[i] = job[i]
    BY <1>2, Zenon DEF CreateTask
  <2>3. \A j \in J : r(j).key = key[j] /\ r(j).ws = w
    BY DEF NewRow, NoRow
  <2> HIDE DEF r
  <2> QED BY <2>1, <2>2, <2>3, InsertTable
<1>3. CASE UNCHANGED vars
  BY <1>3 DEF vars, TableInv, KeysUnique, Bounded, Present, PendingJobs, ActiveIn
<1>4. ASSUME Next,
             ~\E j \in Jobs, k \in Keys, w \in Workspaces, p \in Pools, D \in SUBSET Jobs :
                Enqueue(j, k, w, p, D),
             ~\E J \in SUBSET Jobs, w \in Workspaces, p \in Pools : \E key \in [J -> Keys] :
                CreateTask(J, key, w, p)
      PROVE  TableInv'
  <2>1. Kept(job, job')
    BY <1>4, OtherKept
  <2> QED BY <2>1, KeptTable DEF TableInv
<1> QED BY <1>1, <1>2, <1>3, <1>4

\* The empty table satisfies the bounds.
LEMMA InitTable == Init => TableInv
<1> SUFFICES ASSUME Init PROVE TableInv
  OBVIOUS
<1>1. NoRow("absent").state = "absent"
  BY DEF NoRow
<1>2. \A j \in Jobs : job[j].state = "absent"
  BY <1>1 DEF Init
<1>3. Present(job) = {} /\ PendingJobs(job) = {} /\ \A w : ActiveIn(job, w) = {}
  BY <1>2 DEF Present, PendingJobs, ActiveIn, States, Pending, Terminal
<1> QED BY <1>3, FS_EmptySet, QueueAssumption DEF TableInv, KeysUnique, Bounded

\* Both hold in every reachable state.
THEOREM TableInvariance == Spec => []TableInv
<1> QED BY InitTable, NextTable, Invariance, PTL DEF Spec

\* Checking MaxJobs and MaxJobsPerWorkspace on insert bounds the pending jobs
\* at all times, for tasks of any number of workers, through requeues after
\* expired leases, releases of blocked jobs and restarts.
THEOREM CapacityRespected == Spec => []BoundsRespected
<1>1. TableInv => BoundsRespected
  BY DEF TableInv, Bounded, BoundsRespected
<1> QED BY <1>1, TableInvariance, PTL

\* No row is ever deleted while another depends on it, and no two rows ever
\* share an idempotency key.
THEOREM ReferencesKept == Spec => []ReferencesIntact
<1>1. IInv /\ TableInv => ReferencesIntact
  BY DEF IInv, Consistent, Ready, Refs, TableInv, KeysUnique, ReferencesIntact
<1> QED BY <1>1, Invariance, TableInvariance, PTL

\* QueueSafe: whatever calls, expiries and restarts come in whatever order, the
\* stored queue satisfies all the invariants its callers and Open rely on.
THEOREM QueueAlwaysSafe == Spec => []QueueSafe
<1>1. TypeOK /\ StoredJobsValid /\ ReferencesIntact /\ NewestLeaseDecides /\ AttemptsBounded
        /\ BoundsRespected => QueueSafe
  BY DEF QueueSafe
<1> QED
  BY <1>1, TypeCorrect, RowsReadable, ReferencesKept, FencingDecides, LeasesBounded, CapacityRespected, PTL
=============================================================================
