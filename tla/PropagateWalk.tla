--------------------------- MODULE PropagateWalk ---------------------------
(***************************************************************************)
(* propagate and recoverExpired as the code runs them: a work list, a seen *)
(* set, dependents in job-id order, each read again before it is written.  *)
(* The properties compare them, on every reachable table, with the closed  *)
(* forms Propagate and Recovered that the actions of WorkQueue use.        *)
(***************************************************************************)
EXTENDS WorkQueue, Sequences, SequencesExt

Dependents(t, d) == SetToSortSeq({i \in Jobs : d \in t[i].deps}, LAMBDA a, b : a < b)

\* Faulty variant: a job that fails is not put on the work list.
VisitDependentOnce(acc, i) ==
  LET t == acc.table
      state == DependencyState(t, t[i].deps)
  IN IF t[i].state # "blocked" \/ state = "blocked" THEN acc
     ELSE [table |-> [t EXCEPT ![i].state = state, ![i].reason = DependencyReason(state),
                               ![i].outcome = IF state \in Terminal THEN state ELSE "",
                               ![i].updated = clock],
           queue |-> acc.queue]

\* One dependent of the loop body; acc is [table, queue].
VisitDependent(acc, i) ==
  LET t == acc.table
      state == DependencyState(t, t[i].deps)
  IN IF t[i].state # "blocked" \/ state = "blocked" THEN acc
     ELSE [table |-> [t EXCEPT ![i].state = state, ![i].reason = DependencyReason(state),
                               ![i].outcome = IF state \in Terminal THEN state ELSE "",
                               ![i].updated = clock],
           queue |-> IF state \in Terminal THEN Append(acc.queue, i) ELSE acc.queue]

RECURSIVE WalkFrom(_, _, _)
\* The loop of propagate.
WalkFrom(t, queue, seen) ==
  IF queue = <<>> THEN t
  ELSE IF Head(queue) \in seen THEN WalkFrom(t, Tail(queue), seen)
  ELSE LET next == FoldLeft(VisitDependent, [table |-> t, queue |-> Tail(queue)],
                            Dependents(t, Head(queue)))
       IN WalkFrom(next.table, next.queue, seen \cup {Head(queue)})

Walk(t, j) == WalkFrom(t, <<j>>, {})

\* One item of recoverExpired's loop.
ReapOne(t, j) ==
  LET reaped == [t EXCEPT ![j] = Reaped(@)]
  IN IF reaped[j].state \in Terminal THEN Walk(reaped, j) ELSE reaped

\* The items in the order the scan returned them, which SQL leaves open.
ReapInOrder(order) == FoldLeft(ReapOne, job, order)

-----------------------------------------------------------------------------

Ended(j, outcome) == [job EXCEPT ![j].state = outcome, ![j].outcome = outcome, ![j].updated = clock]

\* propagate's walk from one job that ended changes exactly what the closed
\* form of the model changes: it reaches every job that falls, in any graph.
WalkIsPropagate ==
  \A j \in Jobs, o \in Terminal :
    job[j].state \in {"queued", "leased"} => Walk(Ended(j, o), j) = Propagate(Ended(j, o))

\* recoverExpired's result does not depend on the order in which it takes the
\* expired leases, and is the one the model uses.
RecoveryOrderIrrelevant ==
  \A order \in SetToSeqs(Expired(job)) : ReapInOrder(order) = Recovered

\* The loops of the store compute what the closed forms of the model say: the
\* walk from one job that ended, and the recovery of several expired leases.
WalksAgree ==
  /\ WalkIsPropagate
  /\ RecoveryOrderIrrelevant
=============================================================================
