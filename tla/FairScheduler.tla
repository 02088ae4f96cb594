--------------------------- MODULE FairScheduler ---------------------------
(***************************************************************************)
(* The selection policy of internal/workqueue/fairness.go: deficit round   *)
(* robin over the workspaces that have work, overridden by age.            *)
(*                                                                         *)
(* A candidate is a record [id, ws, cost, at].  Job ids and workspace names*)
(* are numbers because the code only compares them (sort.Strings, <); `at' *)
(* is what the caller passes as FairCandidate.CreatedAt.  The scheduler's  *)
(* memory is a record [cursor, deficit]; it lives in the process and is    *)
(* lost with it.                                                           *)
(***************************************************************************)
EXTENDS Integers, FiniteSets

CONSTANTS
  Workspaces,   \* workspace names, as numbers in name order
  Quantum,      \* FairConfig.Quantum
  AgingLimit,   \* FairConfig.AgingLimit
  MaxResource   \* maxResourceValue: deficits saturate here

ASSUME FairAssumption ==
  /\ Workspaces \subseteq Nat \ {0}
  /\ IsFiniteSet(Workspaces)
  /\ Quantum \in 1..MaxResource
  /\ AgingLimit \in Nat
  /\ MaxResource \in Nat

NoCursor == 0

FairState == [cursor: Workspaces \cup {NoCursor}, deficit: [Workspaces -> 0..MaxResource]]

\* A scheduler as NewFairScheduler returns it.
NewFairScheduler == [cursor |-> NoCursor, deficit |-> [w \in Workspaces |-> 0]]

\* The order of every queue: creation time, then job id.
Before(a, b) == a.at < b.at \/ (a.at = b.at /\ a.id < b.id)

Oldest(C) == CHOOSE c \in C : \A d \in C : d = c \/ Before(c, d)

Active(C) == {c.ws : c \in C}

\* queues[workspace][0] after the sort.
HeadOf(C, w) == Oldest({c \in C : c.ws = w})

Heads(C) == {HeadOf(C, w) : w \in Active(C)}

AgedHeads(now, C) == {c \in Heads(C) : now - c.at >= AgingLimit}

\* The position of a workspace in the sorted list of active workspaces.
Index(w, A) == Cardinality({v \in A : v < w})


\* The round starts after the cursor, or at the first workspace when the
\* cursor's workspace has no candidate any more.
StartIndex(cursor, A) ==
  IF cursor \in A THEN (Index(cursor, A) + 1) % Cardinality(A) ELSE 0

\* The workspace looked at by the k-th visit (from 0) of the two nested loops.
VisitAt(k, cursor, A) ==
  CHOOSE w \in A : Index(w, A) = (StartIndex(cursor, A) + k) % Cardinality(A)

Saturated(n) == IF n > MaxResource THEN MaxResource ELSE n

\* The deficit of the workspace of visit k when that visit tests it: every
\* round so far has added one quantum.
DeficitAt(k, fair, A) ==
  Saturated(fair.deficit[VisitAt(k, fair.cursor, A)] + (k \div Cardinality(A) + 1) * Quantum)

\* len(workspaces)+1 rounds.
Visits(A) == 0..(Cardinality(A) * (Cardinality(A) + 1) - 1)

Affordable(fair, C) ==
  LET A == Active(C) IN
  {k \in Visits(A) : HeadOf(C, VisitAt(k, fair.cursor, A)).cost <= DeficitAt(k, fair, A)}

FirstOf(K) == CHOOSE k \in K : \A l \in K : k <= l

\* How many of the visits 0..k go to workspace w.
VisitsTo(w, k, cursor, A) == Cardinality({l \in 0..k : VisitAt(l, cursor, A) = w})

\* The deficits after the visits 0..k: inactive workspaces are forgotten,
\* visited ones have one quantum more for each visit.
DeficitsAfter(k, fair, A) ==
  [w \in Workspaces |->
    IF w \in A THEN Saturated(fair.deficit[w] + VisitsTo(w, k, fair.cursor, A) * Quantum) ELSE 0]

\* Deficits when the aging rule decides before any visit.
DeficitsKept(fair, A) == [w \in Workspaces |-> IF w \in A THEN fair.deficit[w] ELSE 0]

RoundRobin(fair, C) ==
  LET A == Active(C)
      K == Affordable(fair, C)
      last == Cardinality(A) * (Cardinality(A) + 1) - 1
  IN IF K = {}
     THEN [picked |-> {}, fair |-> [fair EXCEPT !.deficit = DeficitsAfter(last, fair, A)]]
     ELSE LET k == FirstOf(K)
              w == VisitAt(k, fair.cursor, A)
              c == HeadOf(C, w)
          IN [picked |-> {c},
              fair |-> [cursor |-> w,
                        deficit |-> [DeficitsAfter(k, fair, A) EXCEPT ![w] = @ - c.cost]]]

\* Select: the chosen candidate as a singleton, or {} for an error, and the
\* scheduler's memory afterwards.  C is not empty.
Select(fair, now, C) ==
  IF \E c \in C : c.at > now
  THEN [picked |-> {}, fair |-> fair]
  ELSE IF AgedHeads(now, C) # {}
       THEN LET c == Oldest(AgedHeads(now, C))
            IN [picked |-> {c},
                fair |-> [cursor |-> c.ws, deficit |-> DeficitsKept(fair, Active(C))]]
       ELSE RoundRobin(fair, C)
=============================================================================
