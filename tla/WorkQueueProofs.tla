-------------------------- MODULE WorkQueueProofs --------------------------
(***************************************************************************)
(* The safety properties of the work queue, proved for any set of jobs and *)
(* any limits.  The selection policy comes first: with unit costs, the     *)
(* only ones the store passes, Select always picks a candidate and leaves  *)
(* a well-formed scheduler.  The inductive invariant of the queue has      *)
(* three parts: the type of the state, what holds of each row by itself,   *)
(* and what holds between a row and the rows it depends on.                *)
(***************************************************************************)
EXTENDS WorkQueue, FiniteSetTheorems, WellFoundedInduction, TLAPS

-----------------------------------------------------------------------------
(* The selection policy.                                                   *)

\* A nonempty set of numbers has a least element.
LEMMA LeastNat ==
  ASSUME NEW S \in SUBSET Nat, S # {}
  PROVE  \E m \in S : \A n \in S : m <= n
<1>1. IsWellFoundedOn(OpToRel(<, Nat), Nat)
  BY NatLessThanWellFounded, Zenon
<1>2. \A x, y \in Nat : <<x, y>> \in OpToRel(<, Nat) <=> x < y
  BY DEF OpToRel
<1>3. PICK R : IsWellFoundedOn(R, Nat) /\ \A x, y \in Nat : <<x, y>> \in R <=> x < y
  BY <1>1, <1>2, Zenon
<1>4. PICK m \in S : \A n \in S : ~ (<<n, m>> \in R)
  <2>1. S \subseteq Nat
    OBVIOUS
  <2>2. IsWellFoundedOn(R, Nat)
    BY <1>3
  <2> QED BY <2>1, <2>2, WFMin, Zenon
<1>5. \A n \in S : ~ (n < m)
  BY <1>3, <1>4, Zenon
<1>6. \A n \in S : n \in Nat /\ m \in Nat
  OBVIOUS
<1>7. \A n \in S : m <= n
  BY <1>5, <1>6
<1> QED BY <1>7

\* A set of distinct unit-cost candidates, as LeaseNext builds it.
Candidate == [id: Nat, ws: Workspaces, cost: {1}, at: Nat]
CandidateSet(C) == C \subseteq Candidate /\ \A c, d \in C : c.id = d.id => c = d

\* The CHOOSE in Oldest is sound: creation time, then job id, orders the
\* candidates totally, so the first element after the sort exists.
LEMMA OldestExists ==
  ASSUME NEW C, CandidateSet(C), C # {}
  PROVE  /\ Oldest(C) \in C
         /\ \A d \in C : d = Oldest(C) \/ Before(Oldest(C), d)
<1>1. PICK m \in {c.at : c \in C} : \A n \in {c.at : c \in C} : m <= n
  <2>1. {c.at : c \in C} \in SUBSET Nat /\ {c.at : c \in C} # {}
    BY DEF CandidateSet, Candidate
  <2> QED BY <2>1, LeastNat, Zenon
<1> DEFINE E == {c \in C : c.at = m}
<1>2. PICK i \in {c.id : c \in E} : \A n \in {c.id : c \in E} : i <= n
  <2>1. {c.id : c \in E} \in SUBSET Nat /\ {c.id : c \in E} # {}
    BY <1>1 DEF CandidateSet, Candidate
  <2> QED BY <2>1, LeastNat, Zenon
<1>3. PICK c \in E : c.id = i
  BY <1>2
<1>4. \A d \in C : d = c \/ Before(c, d)
  <2> SUFFICES ASSUME NEW d \in C, d # c PROVE Before(c, d)
    OBVIOUS
  <2>1. c \in C /\ c.at = m /\ c.at \in Nat /\ d.at \in Nat /\ c.id \in Nat /\ d.id \in Nat /\ d.id # c.id
    BY <1>3 DEF CandidateSet, Candidate
  <2>2. c.at <= d.at
    BY <1>1, <2>1
  <2>3. d.at = c.at => c.id <= d.id
    BY <1>2, <1>3, <2>1
  <2> QED BY <2>1, <2>2, <2>3 DEF Before
<1>5. \E e \in C : \A d \in C : d = e \/ Before(e, d)
  BY <1>4
<1> QED BY <1>5 DEF Oldest

\* Every workspace with a candidate has a head, and it is one of its own.
LEMMA HeadExists ==
  ASSUME NEW C, CandidateSet(C), NEW w \in Active(C)
  PROVE  HeadOf(C, w) \in C /\ HeadOf(C, w).ws = w
<1> DEFINE D == {c \in C : c.ws = w}
<1>1. CandidateSet(D) /\ D # {}
  BY DEF CandidateSet, Active
<1> HIDE DEF D
<1>2. Oldest(D) \in D
  BY <1>1, OldestExists
<1> QED BY <1>2 DEF D, HeadOf

\* The sorted list of the active workspaces has an entry at every position.
LEMMA IndexOnto ==
  ASSUME NEW A \in SUBSET Workspaces, NEW n \in 0..(Cardinality(A) - 1)
  PROVE  \E w \in A : Index(w, A) = n
<1> DEFINE Below(w) == {v \in A : v < w}
           N == Cardinality(A)
           f == [w \in A |-> Index(w, A)]
<1>1. IsFiniteSet(A) /\ N \in Nat /\ A \subseteq Nat
  BY FS_Subset, FS_CardinalityType, FairAssumption, Zenon
<1>2. ASSUME NEW w \in A
      PROVE  IsFiniteSet(Below(w)) /\ Index(w, A) \in 0..(N - 1)
  <2>1. Below(w) \in SUBSET A /\ Below(w) # A
    BY <1>1
  <2>2. IsFiniteSet(Below(w)) /\ Cardinality(Below(w)) <= N /\ Cardinality(Below(w)) # N
    BY <1>1, <2>1, FS_Subset
  <2>3. Cardinality(Below(w)) \in Nat
    BY <2>2, FS_CardinalityType
  <2> QED BY <1>1, <2>2, <2>3 DEF Index
<1>3. ASSUME NEW v \in A, NEW w \in A, v < w
      PROVE  Index(v, A) < Index(w, A)
  <2>0. \A x \in A : x \in Nat
    BY <1>1
  <2>1. Below(v) \in SUBSET Below(w) /\ Below(v) # Below(w)
    <3>1. v \in Below(w) /\ v \notin Below(v)
      BY <1>3, <2>0
    <3>2. ASSUME NEW x \in A, x < v PROVE x < w
      BY <1>3, <2>0, <3>2
    <3> QED BY <3>1, <3>2
  <2>2. Cardinality(Below(v)) <= Cardinality(Below(w)) /\ Cardinality(Below(v)) # Cardinality(Below(w))
    BY <1>2, <2>1, FS_Subset, Zenon
  <2>3. Cardinality(Below(v)) \in Nat /\ Cardinality(Below(w)) \in Nat
    BY <1>2, FS_CardinalityType
  <2> QED BY <2>2, <2>3 DEF Index
<1>4. f \in Injection(A, 0..(N - 1))
  <2>1. f \in [A -> 0..(N - 1)]
    BY <1>2, Zenon
  <2>2. ASSUME NEW v \in A, NEW w \in A, f[v] = f[w] PROVE v = w
    <3>1. Index(v, A) = Index(w, A) /\ v \in Nat /\ w \in Nat
      BY <1>1, <2>2
    <3>0. Index(v, A) \in Int
      <4>1. Index(v, A) \in 0..(N - 1)
        BY <1>2, Zenon
      <4> QED BY <4>1
    <3>2. ~ (v < w) /\ ~ (w < v)
      BY <1>3, <3>0, <3>1
    <3> QED BY <3>1, <3>2
  <2> QED BY <2>1, <2>2 DEF Injection, IsInjective
<1>5. IsFiniteSet(0..(N - 1)) /\ Cardinality(0..(N - 1)) = N
  BY <1>1, FS_Interval
<1>6. f \in Surjection(A, 0..(N - 1))
  BY <1>4, <1>5, FS_Injection
<1> QED BY <1>6, Zenon DEF Surjection

\* Every visit of the nested loops looks at an active workspace.
LEMMA VisitInRange ==
  ASSUME NEW A \in SUBSET Workspaces, A # {}, NEW cursor, NEW k \in Nat
  PROVE  VisitAt(k, cursor, A) \in A
<1>1. IsFiniteSet(A) /\ Cardinality(A) \in Nat /\ Cardinality(A) # 0
  BY FS_Subset, FS_CardinalityType, FS_EmptySet, FairAssumption, Zenon
<1>2. StartIndex(cursor, A) \in Nat
  <2>1. Index(cursor, A) \in Nat
    <3>1. {v \in A : v < cursor} \in SUBSET A
      OBVIOUS
    <3> QED BY <1>1, <3>1, FS_Subset, FS_CardinalityType DEF Index
  <2> QED BY <1>1, <2>1 DEF StartIndex
<1>3. (StartIndex(cursor, A) + k) % Cardinality(A) \in 0..(Cardinality(A) - 1)
  BY <1>1, <1>2
<1>4. \E w \in A : Index(w, A) = (StartIndex(cursor, A) + k) % Cardinality(A)
  BY <1>3, IndexOnto
<1> QED BY <1>4 DEF VisitAt

\* The active workspaces are finitely many of the known ones, at least one.
LEMMA ActiveInRange ==
  ASSUME NEW C, CandidateSet(C), C # {}
  PROVE  Active(C) \in SUBSET Workspaces /\ Active(C) # {}
BY DEF Active, CandidateSet, Candidate

\* The first visit already finds a candidate it can afford, so the round robin
\* serves the workspace after the cursor.
LEMMA FirstVisitServes ==
  ASSUME NEW sched \in FairState, NEW C, CandidateSet(C), C # {}
  PROVE  Affordable(sched, C) # {} /\ FirstOf(Affordable(sched, C)) = 0
<1> DEFINE A == Active(C)
           w == VisitAt(0, sched.cursor, A)
<1>1. A \in SUBSET Workspaces /\ A # {} /\ w \in A
  BY ActiveInRange, VisitInRange
<1>2. IsFiniteSet(A) /\ Cardinality(A) \in Nat /\ Cardinality(A) # 0
  BY <1>1, FS_Subset, FS_CardinalityType, FS_EmptySet, FairAssumption
<1>3. HeadOf(C, w).cost = 1
  BY <1>1, HeadExists DEF CandidateSet, Candidate
<1>4. DeficitAt(0, sched, A) >= 1
  <2>1. 0 \div Cardinality(A) = 0
    BY <1>2
  <2>2. sched.deficit[w] \in 0..MaxResource
    BY <1>1 DEF FairState
  <2> QED BY <2>1, <2>2, FairAssumption DEF DeficitAt, Saturated
<1>5. 0 \in Visits(A) /\ Visits(A) \subseteq Nat
  <2>1. Cardinality(A) * (Cardinality(A) + 1) - 1 >= 0
    BY <1>2
  <2> QED BY <1>2, <2>1 DEF Visits
<1>6. 0 \in Affordable(sched, C) /\ Affordable(sched, C) \subseteq Nat
  <2>1. 1 <= DeficitAt(0, sched, A)
    BY <1>4 DEF DeficitAt, Saturated
  <2> QED BY <1>3, <1>5, <2>1 DEF Affordable
<1>7. \A k \in Affordable(sched, C) : 0 <= k
  BY <1>6
<1>8. ASSUME NEW k \in Affordable(sched, C), \A l \in Affordable(sched, C) : k <= l
      PROVE  k = 0
  BY <1>6, <1>8
<1> QED BY <1>6, <1>7, <1>8 DEF FirstOf

\* The round robin ends at its first visit: with unit costs and a quantum of at
\* least one, the first workspace looked at can pay for its head.
LEMMA RoundRobinPicks ==
  ASSUME NEW sched \in FairState, NEW C, CandidateSet(C), C # {}
  PROVE  /\ \E c \in C : RoundRobin(sched, C).picked = {c}
         /\ RoundRobin(sched, C).fair \in FairState
<1> DEFINE A == Active(C)
           w == VisitAt(0, sched.cursor, A)
           c == HeadOf(C, w)
           d == DeficitsAfter(0, sched, A)
<1>1. A \in SUBSET Workspaces /\ A # {} /\ w \in A
  BY ActiveInRange, VisitInRange
<1>2. c \in C /\ c.cost = 1
  BY <1>1, HeadExists DEF CandidateSet, Candidate
<1>3. RoundRobin(sched, C) =
        [picked |-> {c}, fair |-> [cursor |-> w, deficit |-> [d EXCEPT ![w] = @ - c.cost]]]
  BY FirstVisitServes, Zenon DEF RoundRobin
<1>4. ASSUME NEW v \in A
      PROVE  VisitsTo(v, 0, sched.cursor, A) \in {0, 1} /\ (v = w => VisitsTo(v, 0, sched.cursor, A) = 1)
  <2>1. {l \in 0..0 : VisitAt(l, sched.cursor, A) = v} = IF v = w THEN {0} ELSE {}
    OBVIOUS
  <2> QED BY <2>1, FS_Singleton, FS_EmptySet, Zenon DEF VisitsTo
<1>5. d \in [Workspaces -> 0..MaxResource] /\ d[w] >= 1
  <2>1. \A v \in A : sched.deficit[v] \in 0..MaxResource
    BY <1>1 DEF FairState
  <2>2. ASSUME NEW n \in Nat PROVE Saturated(n) \in 0..MaxResource /\ (n >= 1 => Saturated(n) >= 1)
    BY FairAssumption DEF Saturated
  <2>3. ASSUME NEW v \in A
        PROVE  /\ sched.deficit[v] + VisitsTo(v, 0, sched.cursor, A) * Quantum \in Nat
               /\ v = w => sched.deficit[v] + VisitsTo(v, 0, sched.cursor, A) * Quantum >= 1
    BY <1>4, <2>1, FairAssumption
  <2> QED BY <1>1, <2>2, <2>3, FairAssumption DEF DeficitsAfter
<1>6. [d EXCEPT ![w] = @ - c.cost] \in [Workspaces -> 0..MaxResource]
  <2>1. d[w] - c.cost \in 0..MaxResource
    <3>1. d[w] \in 0..MaxResource /\ d[w] >= 1
      BY <1>1, <1>5
    <3> HIDE DEF d, c
    <3> QED BY <1>2, <3>1, FairAssumption
  <2> QED BY <1>5, <2>1, Zenon
<1> QED BY <1>1, <1>2, <1>3, <1>6 DEF FairState

\* Select never fails on the candidates of the store, picks one of them, and
\* leaves deficits within 0..maxResourceValue.
THEOREM SelectPicks ==
  ASSUME NEW sched \in FairState, NEW C, CandidateSet(C), C # {},
         NEW now \in Nat, \A c \in C : c.at <= now
  PROVE  /\ \E c \in C : Select(sched, now, C).picked = {c}
         /\ Select(sched, now, C).fair \in FairState
<1>1. ~ \E c \in C : c.at > now
  BY DEF CandidateSet, Candidate
<1>2. CASE AgedHeads(now, C) = {}
  BY <1>1, <1>2, RoundRobinPicks DEF Select
<1>3. CASE AgedHeads(now, C) # {}
  <2> DEFINE c == Oldest(AgedHeads(now, C))
  <2>1. AgedHeads(now, C) \subseteq C
    BY HeadExists DEF AgedHeads, Heads
  <2>2. CandidateSet(AgedHeads(now, C))
    BY <2>1 DEF CandidateSet
  <2>3. c \in C
    BY <1>3, <2>1, <2>2, OldestExists
  <2>4. DeficitsKept(sched, Active(C)) \in [Workspaces -> 0..MaxResource]
    BY FairAssumption DEF DeficitsKept, FairState
  <2>5. Select(sched, now, C) =
          [picked |-> {c}, fair |-> [cursor |-> c.ws, deficit |-> DeficitsKept(sched, Active(C))]]
    BY <1>1, <1>3 DEF Select
  <2>6. c.ws \in Workspaces
    BY <2>3 DEF CandidateSet, Candidate
  <2> QED BY <2>3, <2>4, <2>5, <2>6 DEF FairState
<1> QED BY <1>2, <1>3

-----------------------------------------------------------------------------
(* One row.                                                                *)

\* told is the expiry last told to a worker of the row, now is the clock.
RowInv(r, told, now) ==
  /\ r.state \in States => StoredJobValid(r) /\ r.ws \in Workspaces
  /\ r.state \notin States => ~r.cancel /\ r.deps = {}
  /\ r.created <= now /\ r.updated <= now
  /\ r.attempt = r.fence /\ r.attempt <= MaxLeaseAttempts
  /\ r.state = "queued" => r.attempt < MaxLeaseAttempts
  /\ r.state \in {"absent", "blocked"} => r.attempt = 0
  /\ r.result # 0 => r.state \in Terminal /\ r.result = r.fence /\ r.lease = r.fence
  /\ r.state = "leased" => told = r.until
  /\ r.state \in {"absent", "blocked", "queued"} => told <= now

\* The two changes propagate makes to a blocked row.
FellRow(r) == [r EXCEPT !.state = "failed", !.reason = "dependency_failed",
                        !.outcome = "failed", !.updated = clock]
ReleasedRow(r) == [r EXCEPT !.state = "queued", !.reason = "", !.updated = clock]

\* The rows Complete, Cancel, FailUnstartedTaskWorker and Heartbeat write.
CompletedRow(r, f, o) == [r EXCEPT !.state = o, !.reason = "", !.outcome = o,
                                   !.result = f, !.updated = clock]
CancellingRow(r) == [r EXCEPT !.cancel = TRUE, !.reason = "cancel_requested", !.updated = clock]
CancelledRow(r) == [r EXCEPT !.state = "cancelled", !.reason = "cancelled", !.cancel = TRUE,
                             !.outcome = "cancelled", !.updated = clock]
UnstartedRow(r) == [r EXCEPT !.state = "failed", !.reason = "task_goal_unavailable",
                             !.cancel = FALSE, !.outcome = "failed", !.result = 0,
                             !.updated = clock]
RenewedRow(r, ttl) == [r EXCEPT !.until = clock + ttl, !.updated = clock]

\* A blocked row that fails for its dependencies stays a valid row.
LEMMA FellRowInv ==
  ASSUME NEW r \in Row, NEW told \in Nat, clock \in Nat,
         r.state = "blocked", RowInv(r, told, clock)
  PROVE  FellRow(r) \in Row /\ RowInv(FellRow(r), told, clock)
<1> DEFINE s == FellRow(r)
<1>1. s \in Row
  BY Zenon DEF FellRow, Row, States, Pending, Terminal, Reasons, NoLease
<1>2. /\ s.state = "failed" /\ s.reason = "dependency_failed" /\ s.outcome = "failed"
      /\ s.updated = clock /\ s.ws = r.ws /\ s.cancel = r.cancel /\ s.attempt = r.attempt
      /\ s.fence = r.fence /\ s.lease = r.lease /\ s.until = r.until /\ s.result = r.result
      /\ s.created = r.created
  BY Zenon DEF FellRow, Row
<1>3. /\ r.lease = 0 /\ r.until = 0 /\ ~r.cancel /\ r.result = 0 /\ r.ws \in Workspaces
      /\ r.created <= clock /\ r.attempt = r.fence /\ r.attempt <= MaxLeaseAttempts
  BY Zenon DEF RowInv, StoredJobValid, States, Pending, Terminal, NoLease, Row
<1>4. /\ s.state = "failed" /\ s.result = 0 /\ s.ws \in Workspaces /\ s.created <= clock
      /\ s.updated = clock /\ s.attempt = s.fence /\ s.attempt <= MaxLeaseAttempts
  BY <1>2, <1>3
<1>5. StoredJobValid(s)
  BY <1>2, <1>3, <1>4 DEF StoredJobValid, NoLease, States, Pending, Terminal
<1>6. RowInv(s, told, clock)
  BY <1>4, <1>5 DEF RowInv, States, Pending, Terminal
<1> QED BY <1>1, <1>6

\* A blocked row that is released has all its attempts left.
LEMMA ReleasedRowInv ==
  ASSUME NEW r \in Row, NEW told \in Nat, clock \in Nat,
         r.state = "blocked", RowInv(r, told, clock)
  PROVE  ReleasedRow(r) \in Row /\ RowInv(ReleasedRow(r), told, clock)
<1> DEFINE s == ReleasedRow(r)
<1>0. MaxLeaseAttempts \in Nat \ {0}
  BY QueueAssumption
<1>1. s \in Row
  BY <1>0, Zenon DEF ReleasedRow, Row, States, Pending, Terminal, Reasons, NoLease
<1>2. /\ s.state = "queued" /\ s.reason = "" /\ s.updated = clock /\ s.ws = r.ws
      /\ s.cancel = r.cancel /\ s.attempt = r.attempt /\ s.fence = r.fence /\ s.lease = r.lease
      /\ s.until = r.until /\ s.outcome = r.outcome /\ s.result = r.result
      /\ s.created = r.created
  BY Zenon DEF ReleasedRow, Row
<1>3. /\ r.lease = 0 /\ r.until = 0 /\ ~r.cancel /\ r.result = 0 /\ r.ws \in Workspaces
      /\ r.created <= clock /\ r.attempt = r.fence /\ r.attempt <= MaxLeaseAttempts
      /\ r.attempt = 0 /\ told <= clock /\ r.outcome = ""
  BY Zenon DEF RowInv, StoredJobValid, States, Pending, Terminal, NoLease, Row
<1>4. /\ s.state = "queued" /\ s.result = 0 /\ s.attempt = 0 /\ told <= clock
      /\ s.ws \in Workspaces /\ s.created <= clock /\ s.updated = clock /\ s.attempt = s.fence
      /\ s.attempt <= MaxLeaseAttempts
  BY <1>0, <1>2, <1>3, Zenon
<1>5. StoredJobValid(s)
  BY <1>0, <1>2, <1>3, <1>4, Zenon DEF StoredJobValid, NoLease, States, Pending, Terminal
<1>6. RowInv(s, told, clock)
  BY <1>0, <1>4, <1>5 DEF RowInv, States, Pending, Terminal
<1> QED BY <1>1, <1>6

\* The holder of the current lease completes.
LEMMA CompletedRowInv ==
  ASSUME NEW r \in Row, NEW told \in Nat, clock \in Nat, NEW f \in Nat, NEW o \in Terminal,
         r.state = "leased", r.lease = f, r.fence = f, r.cancel => o = "cancelled", RowInv(r, told, clock)
  PROVE  CompletedRow(r, f, o) \in Row /\ RowInv(CompletedRow(r, f, o), told, clock)
<1> DEFINE s == CompletedRow(r, f, o)
<1>1. s \in Row
  BY Zenon DEF CompletedRow, Row, States, Pending, Terminal, Reasons, NoLease
<1>2. /\ s.state = o /\ s.reason = "" /\ s.outcome = o /\ s.result = f /\ s.updated = clock
      /\ s.ws = r.ws /\ s.cancel = r.cancel /\ s.attempt = r.attempt /\ s.fence = r.fence
      /\ s.lease = r.lease /\ s.until = r.until /\ s.created = r.created
  BY Zenon DEF CompletedRow, Row
<1>3. /\ r.lease # 0 /\ r.until # 0 /\ r.fence # 0 /\ r.result = 0 /\ told = r.until
      /\ r.ws \in Workspaces /\ r.created <= clock /\ r.attempt = r.fence
      /\ r.attempt <= MaxLeaseAttempts
  BY Zenon DEF RowInv, StoredJobValid, States, Pending, Terminal, NoLease, Row
<1>4. /\ s.state \in Terminal /\ s.result = s.fence /\ s.lease = s.fence /\ s.ws \in Workspaces
      /\ s.created <= clock /\ s.updated = clock /\ s.attempt = s.fence
      /\ s.attempt <= MaxLeaseAttempts
  BY <1>2, <1>3, Zenon
<1>5. StoredJobValid(s)
  BY <1>2, <1>3, <1>4, Zenon DEF StoredJobValid, NoLease, States, Pending, Terminal
<1>6. RowInv(s, told, clock)
  BY <1>4, <1>5 DEF RowInv, States, Pending, Terminal
<1> QED BY <1>1, <1>6

\* A running job is asked to stop.
LEMMA CancellingRowInv ==
  ASSUME NEW r \in Row, NEW told \in Nat, clock \in Nat,
         r.state = "leased", RowInv(r, told, clock)
  PROVE  CancellingRow(r) \in Row /\ RowInv(CancellingRow(r), told, clock)
<1> DEFINE s == CancellingRow(r)
<1>1. s \in Row
  BY Zenon DEF CancellingRow, Row, States, Pending, Terminal, Reasons, NoLease
<1>2. /\ s.cancel = TRUE /\ s.reason = "cancel_requested" /\ s.updated = clock /\ s.ws = r.ws
      /\ s.attempt = r.attempt /\ s.fence = r.fence /\ s.lease = r.lease /\ s.until = r.until
      /\ s.outcome = r.outcome /\ s.result = r.result /\ s.created = r.created
      /\ s.state = r.state
  BY Zenon DEF CancellingRow, Row
<1>3. /\ r.lease # 0 /\ r.until # 0 /\ r.fence # 0 /\ r.result = 0 /\ told = r.until
      /\ r.ws \in Workspaces /\ r.created <= clock /\ r.attempt = r.fence
      /\ r.attempt <= MaxLeaseAttempts /\ r.outcome = ""
  BY Zenon DEF RowInv, StoredJobValid, States, Pending, Terminal, NoLease, Row
<1>4. /\ s.state = "leased" /\ s.result = 0 /\ told = s.until /\ s.ws \in Workspaces
      /\ s.created <= clock /\ s.updated = clock /\ s.attempt = s.fence
      /\ s.attempt <= MaxLeaseAttempts
  BY <1>2, <1>3, Zenon
<1>5. StoredJobValid(s)
  BY <1>2, <1>3, <1>4, Zenon DEF StoredJobValid, NoLease, States, Pending, Terminal
<1>6. RowInv(s, told, clock)
  BY <1>4, <1>5 DEF RowInv, States, Pending, Terminal
<1> QED BY <1>1, <1>6

\* A waiting job is cancelled.
LEMMA CancelledRowInv ==
  ASSUME NEW r \in Row, NEW told \in Nat, clock \in Nat,
         r.state \in {"blocked", "queued"}, RowInv(r, told, clock)
  PROVE  CancelledRow(r) \in Row /\ RowInv(CancelledRow(r), told, clock)
<1> DEFINE s == CancelledRow(r)
<1>1. s \in Row
  BY Zenon DEF CancelledRow, Row, States, Pending, Terminal, Reasons, NoLease
<1>2. /\ s.state = "cancelled" /\ s.cancel = TRUE /\ s.reason = "cancelled"
      /\ s.outcome = "cancelled" /\ s.updated = clock /\ s.ws = r.ws /\ s.attempt = r.attempt
      /\ s.fence = r.fence /\ s.lease = r.lease /\ s.until = r.until /\ s.result = r.result
      /\ s.created = r.created
  BY Zenon DEF CancelledRow, Row
<1>3. /\ r.lease = 0 /\ r.until = 0 /\ ~r.cancel /\ r.result = 0 /\ r.ws \in Workspaces
      /\ r.created <= clock /\ r.attempt = r.fence /\ r.attempt <= MaxLeaseAttempts
  BY Zenon DEF RowInv, StoredJobValid, States, Pending, Terminal, NoLease, Row
<1>4. /\ s.state = "cancelled" /\ s.result = 0 /\ s.ws \in Workspaces /\ s.created <= clock
      /\ s.updated = clock /\ s.attempt = s.fence /\ s.attempt <= MaxLeaseAttempts
  BY <1>2, <1>3
<1>5. StoredJobValid(s)
  BY <1>2, <1>3, <1>4 DEF StoredJobValid, NoLease, States, Pending, Terminal
<1>6. RowInv(s, told, clock)
  BY <1>4, <1>5 DEF RowInv, States, Pending, Terminal
<1> QED BY <1>1, <1>6

\* A worker that never started is failed.
LEMMA UnstartedRowInv ==
  ASSUME NEW r \in Row, NEW told \in Nat, clock \in Nat,
         r.state \in {"blocked", "queued"}, RowInv(r, told, clock)
  PROVE  UnstartedRow(r) \in Row /\ RowInv(UnstartedRow(r), told, clock)
<1> DEFINE s == UnstartedRow(r)
<1>1. s \in Row
  BY Zenon DEF UnstartedRow, Row, States, Pending, Terminal, Reasons, NoLease
<1>2. /\ s.state = "failed" /\ s.cancel = FALSE /\ s.reason = "task_goal_unavailable"
      /\ s.outcome = "failed" /\ s.result = 0 /\ s.updated = clock /\ s.ws = r.ws
      /\ s.attempt = r.attempt /\ s.fence = r.fence /\ s.lease = r.lease /\ s.until = r.until
      /\ s.created = r.created
  BY Zenon DEF UnstartedRow, Row
<1>3. /\ r.lease = 0 /\ r.until = 0 /\ ~r.cancel /\ r.result = 0 /\ r.ws \in Workspaces
      /\ r.created <= clock /\ r.attempt = r.fence /\ r.attempt <= MaxLeaseAttempts
  BY Zenon DEF RowInv, StoredJobValid, States, Pending, Terminal, NoLease, Row
<1>4. /\ s.state = "failed" /\ s.result = 0 /\ s.ws \in Workspaces /\ s.created <= clock
      /\ s.updated = clock /\ s.attempt = s.fence /\ s.attempt <= MaxLeaseAttempts
  BY <1>2, <1>3
<1>5. StoredJobValid(s)
  BY <1>2, <1>3, <1>4 DEF StoredJobValid, NoLease, States, Pending, Terminal
<1>6. RowInv(s, told, clock)
  BY <1>4, <1>5 DEF RowInv, States, Pending, Terminal
<1> QED BY <1>1, <1>6

\* A heartbeat moves the expiry and what the worker was told together.
LEMMA RenewedRowInv ==
  ASSUME NEW r \in Row, NEW told \in Nat, clock \in Nat, NEW ttl \in Ttls,
         r.state = "leased", RowInv(r, told, clock)
  PROVE  RenewedRow(r, ttl) \in Row /\ RowInv(RenewedRow(r, ttl), clock + ttl, clock)
<1> DEFINE s == RenewedRow(r, ttl)
<1>0. ttl \in Nat /\ ttl # 0 /\ MaxLeaseAttempts \in Nat \ {0}
  BY QueueAssumption
<1>1. s \in Row
  <2>1. \A n \in Nat : [r EXCEPT !.until = n, !.updated = clock] \in Row
    BY Zenon DEF Row
  <2>2. clock + ttl \in Nat
    BY <1>0
  <2> QED BY <2>1, <2>2, Zenon DEF RenewedRow
<1>2. /\ s.until = clock + ttl /\ s.updated = clock /\ s.ws = r.ws /\ s.cancel = r.cancel
      /\ s.attempt = r.attempt /\ s.fence = r.fence /\ s.lease = r.lease
      /\ s.outcome = r.outcome /\ s.result = r.result /\ s.created = r.created
      /\ s.reason = r.reason /\ s.state = r.state
  BY Zenon DEF RenewedRow, Row
<1>3. /\ r.lease # 0 /\ r.until # 0 /\ r.fence # 0 /\ r.result = 0 /\ told = r.until
      /\ r.ws \in Workspaces /\ r.created <= clock /\ r.attempt = r.fence
      /\ r.attempt <= MaxLeaseAttempts /\ r.outcome = ""
      /\ r.reason = IF r.cancel THEN "cancel_requested" ELSE ""
  BY Zenon DEF RowInv, StoredJobValid, States, Pending, Terminal, NoLease, Row
<1>4. /\ s.state = "leased" /\ s.result = 0 /\ s.until = clock + ttl /\ s.ws \in Workspaces
      /\ s.created <= clock /\ s.updated = clock /\ s.attempt = s.fence
      /\ s.attempt <= MaxLeaseAttempts
  BY <1>0, <1>2, <1>3, Zenon
<1>5. StoredJobValid(s)
  <2>0. clock + ttl # 0
    BY <1>0
  <2>1. s.lease # 0 /\ s.until # 0 /\ s.fence # 0
    BY <2>0, <1>2, <1>3, Zenon
  <2>2. s.outcome = "" /\ s.reason = IF s.cancel THEN "cancel_requested" ELSE ""
    BY <1>2, <1>3, Zenon
  <2> QED BY <1>4, <2>1, <2>2, Zenon DEF StoredJobValid, NoLease, States, Pending
<1>6. RowInv(s, clock + ttl, clock)
  BY <1>0, <1>4, <1>5 DEF RowInv, States, Pending, Terminal
<1> QED BY <1>1, <1>6

\* A queued row has an attempt left to be leased with.
LEMMA GrantedRowInv ==
  ASSUME NEW r \in Row, NEW told \in Nat, clock \in Nat, NEW ttl \in Ttls,
         r.state = "queued", RowInv(r, told, clock)
  PROVE  Granted(r, ttl) \in Row /\ RowInv(Granted(r, ttl), clock + ttl, clock)
<1> DEFINE s == Granted(r, ttl)
<1>0. ttl \in Nat /\ ttl # 0 /\ MaxLeaseAttempts \in Nat \ {0}
  BY QueueAssumption
<1>1. s \in Row
  <2>1. ASSUME NEW a \in Nat, NEW f \in Nat, NEW u \in Nat
        PROVE  [r EXCEPT !.state = "leased", !.reason = "", !.attempt = a, !.fence = f,
                         !.lease = f, !.until = u, !.updated = clock] \in Row
    BY ZenonT(60) DEF Row, States, Pending, Reasons
  <2>2. r.attempt \in Nat /\ r.fence \in Nat
    BY Zenon DEF Row
  <2>3. r.attempt + 1 \in Nat /\ r.fence + 1 \in Nat /\ clock + ttl \in Nat
    BY <1>0, <2>2
  <2> QED BY <2>1, <2>3, Zenon DEF Granted
<1>2. /\ s.state = "leased" /\ s.reason = "" /\ s.attempt = r.attempt + 1
      /\ s.fence = r.fence + 1 /\ s.lease = r.fence + 1 /\ s.until = clock + ttl
      /\ s.updated = clock /\ s.ws = r.ws /\ s.cancel = r.cancel /\ s.outcome = r.outcome
      /\ s.result = r.result /\ s.created = r.created
  BY Zenon DEF Granted, Row
<1>3. /\ r.lease = 0 /\ r.until = 0 /\ ~r.cancel /\ r.result = 0 /\ r.ws \in Workspaces
      /\ r.created <= clock /\ r.attempt = r.fence /\ r.attempt <= MaxLeaseAttempts
      /\ r.attempt < MaxLeaseAttempts /\ r.outcome = ""
  BY Zenon DEF RowInv, StoredJobValid, States, Pending, Terminal, NoLease, Row
<1>7. r.attempt + 1 <= MaxLeaseAttempts /\ r.fence + 1 # 0 /\ clock + ttl # 0
  <2>1. r.attempt \in Nat /\ r.fence \in Nat
    BY Zenon DEF Row
  <2>2. r.attempt < MaxLeaseAttempts
    BY <1>3, Zenon
  <2> QED BY <1>0, <2>1, <2>2
<1>4. /\ s.state = "leased" /\ s.result = 0 /\ s.until = clock + ttl /\ s.ws \in Workspaces
      /\ s.created <= clock /\ s.updated = clock /\ s.attempt = s.fence
      /\ s.attempt <= MaxLeaseAttempts
  BY <1>2, <1>3, <1>7, Zenon
<1>5. StoredJobValid(s)
  <2>1. s.lease # 0 /\ s.until # 0 /\ s.fence # 0
    BY <1>2, <1>7, Zenon
  <2>2. s.outcome = "" /\ s.reason = "" /\ ~s.cancel
    BY <1>2, <1>3, Zenon
  <2> QED BY <1>4, <2>1, <2>2, Zenon DEF StoredJobValid, NoLease, States, Pending
<1>6. RowInv(s, clock + ttl, clock)
  BY <1>0, <1>4, <1>5 DEF RowInv, States, Pending, Terminal
<1> QED BY <1>1, <1>6

\* An expired lease is cleared; the job is queued only with an attempt left.
LEMMA ReapedRowInv ==
  ASSUME NEW r \in Row, NEW told \in Nat, clock \in Nat,
         r.state = "leased", r.until <= clock, RowInv(r, told, clock)
  PROVE  Reaped(r) \in Row /\ RowInv(Reaped(r), told, clock)
<1> DEFINE s == Reaped(r)
           st == ReapedState(r)
<1>1. st \in {"cancelled", "failed", "queued"}
  BY DEF ReapedState
<1>2. s \in Row
  BY <1>1, ZenonT(60) DEF Reaped, ReapedReason, NoLease, Row, States, Pending, Terminal, Reasons
<1>3. /\ s.state = st /\ s.lease = 0 /\ s.until = 0 /\ s.updated = clock
      /\ s.cancel = r.cancel /\ s.attempt = r.attempt /\ s.fence = r.fence
      /\ s.result = r.result /\ s.created = r.created /\ s.ws = r.ws
  BY Zenon DEF Reaped, NoLease, Row
<1>4. /\ st = "cancelled" => s.reason = "cancelled" /\ s.outcome = "cancelled"
      /\ st = "failed" => s.reason = "recovery_exhausted" /\ s.outcome = "failed"
      /\ st = "queued" => s.reason = "lease_expired" /\ s.outcome = ""
  BY Zenon DEF Reaped, ReapedReason, Row, Terminal
<1>5. /\ r.result = 0 /\ told <= clock /\ r.created <= clock /\ r.ws \in Workspaces
      /\ r.attempt = r.fence /\ r.attempt <= MaxLeaseAttempts
  BY Zenon DEF RowInv, StoredJobValid, States, Pending, Terminal, NoLease, Row
<1>6. /\ st # "cancelled" => ~r.cancel
      /\ st = "queued" => ~ (r.attempt >= MaxLeaseAttempts)
  BY DEF ReapedState
<1>7. st = "queued" => r.attempt < MaxLeaseAttempts
  <2>1. r.attempt \in Nat /\ MaxLeaseAttempts \in Nat
    BY QueueAssumption, Zenon DEF Row
  <2> QED BY <1>6, <2>1
<1> HIDE DEF st
<1>8. StoredJobValid(s)
  BY <1>1, <1>3, <1>4, <1>5, <1>6, Zenon DEF StoredJobValid, NoLease, States, Pending, Terminal
<1>9. /\ s.state \in {"cancelled", "failed", "queued"} /\ s.result = 0 /\ s.updated = clock
      /\ s.created <= clock /\ s.attempt = s.fence /\ s.attempt <= MaxLeaseAttempts
      /\ s.state = "queued" => s.attempt < MaxLeaseAttempts
      /\ s.ws \in Workspaces
  BY <1>1, <1>3, <1>5, <1>7
<1>10. RowInv(s, told, clock)
  BY <1>5, <1>8, <1>9 DEF RowInv, States, Pending, Terminal
<1> QED BY <1>2, <1>10

\* A row as Enqueue and CreateTask insert it.
LEMMA NewRowInv ==
  ASSUME NEW state, NEW reason, NEW k \in Keys, NEW w \in Workspaces, NEW p \in Pools,
         NEW D \in SUBSET Jobs, NEW isWorker \in BOOLEAN, NEW told \in Nat,
         clock \in Nat, told <= clock,
         state \in {"queued", "blocked", "failed"}, reason = DependencyReason(state)
  PROVE  /\ NewRow(state, reason, k, w, p, D, isWorker) \in Row
         /\ RowInv(NewRow(state, reason, k, w, p, D, isWorker), told, clock)
<1> DEFINE s == NewRow(state, reason, k, w, p, D, isWorker)
<1>1. s \in Row
  BY ZenonT(60) DEF NewRow, NoRow, DependencyReason, NoLease, Row, States, Pending, Terminal, Reasons
<1>2. /\ s.state = state /\ s.reason = reason /\ s.created = clock /\ s.updated = clock
      /\ s.cancel = FALSE /\ s.attempt = 0 /\ s.fence = 0 /\ s.lease = 0 /\ s.until = 0
      /\ s.result = 0 /\ s.ws = w
  BY DEF NewRow, NoRow, NoLease
<1>3. s.outcome = IF state = "failed" THEN "failed" ELSE ""
  BY Zenon DEF NewRow, NoRow, Terminal
<1>7. /\ state = "failed" => reason = "dependency_failed"
      /\ state = "blocked" => reason = "dependency_pending"
      /\ state = "queued" => reason = ""
  BY Zenon DEF DependencyReason
<1>4. StoredJobValid(s)
  <2>1. s.created <= s.updated /\ ~s.cancel
    BY <1>2
  <2>2. /\ s.state = "failed" => s.reason = "dependency_failed" /\ s.outcome = "failed"
        /\ s.state = "blocked" => s.reason = "dependency_pending" /\ s.outcome = ""
        /\ s.state = "queued" => s.reason = "" /\ s.outcome = ""
        /\ s.state \in {"queued", "blocked", "failed"} /\ s.lease = 0 /\ s.until = 0
    BY <1>2, <1>3, <1>7, Zenon
  <2> QED BY <2>1, <2>2, Zenon DEF StoredJobValid, NoLease, States, Pending, Terminal
<1>5. s.attempt <= MaxLeaseAttempts /\ s.attempt < MaxLeaseAttempts
  BY <1>2, QueueAssumption
<1> HIDE DEF s
<1>6. RowInv(s, told, clock)
  <2>1. s.state \in States /\ s.state \notin {"leased", "absent"}
    BY <1>2 DEF States, Pending, Terminal
  <2>2. s.created <= clock /\ s.updated <= clock /\ s.attempt = s.fence
    BY <1>2
  <2> QED BY <1>2, <1>4, <1>5, <2>1, <2>2 DEF RowInv
<1> QED BY <1>1, <1>6 DEF s

\* An id without a row: before its insert, or after CleanupTerminal.
LEMMA NoRowInv ==
  ASSUME NEW told \in Nat, clock \in Nat, NEW state \in {"absent", "deleted"},
         state = "absent" => told <= clock
  PROVE  NoRow(state) \in Row /\ RowInv(NoRow(state), told, clock)
<1>1. MaxLeaseAttempts >= 0
  BY QueueAssumption
<1> DEFINE s == NoRow(state)
<1>2. s \in Row
  BY DEF NoRow, NoLease, Row, Reasons
<1>3. /\ s.state = state /\ s.cancel = FALSE /\ s.deps = {} /\ s.attempt = 0 /\ s.fence = 0
      /\ s.result = 0 /\ s.created = 0 /\ s.updated = 0
  BY DEF NoRow
<1>4. s.state \notin States /\ s.state \notin {"queued", "blocked", "leased"}
  BY <1>3 DEF States, Pending, Terminal
<1>5. RowInv(s, told, clock)
  BY <1>1, <1>3, <1>4 DEF RowInv
<1> QED BY <1>2, <1>5

\* Time only relaxes what holds of a row.
LEMMA LaterRowInv ==
  ASSUME NEW r \in Row, NEW told \in Nat, NEW now \in Nat, NEW later \in Nat, now <= later,
         RowInv(r, told, now)
  PROVE  RowInv(r, told, later)
<1>1. r.created \in Nat /\ r.updated \in Nat
  BY Zenon DEF Row
<1>2. r.created <= later /\ r.updated <= later /\ (told <= now => told <= later)
  BY <1>1 DEF RowInv
<1>3. (r.state = "leased" => told = r.until)
  BY DEF RowInv
<1> QED BY <1>2, <1>3, Zenon DEF RowInv

-----------------------------------------------------------------------------
(* The table.                                                              *)

\* Fallen is closed under depending on a failed or fallen job, and each of its
\* members has such a dependency: it is the least closed set.
LEMMA FallenFacts ==
  ASSUME NEW t
  PROVE  /\ Fallen(t) \subseteq InState(t, "blocked")
         /\ \A j \in InState(t, "blocked") :
              t[j].deps \cap (Bad(t) \cup Fallen(t)) # {} => j \in Fallen(t)
         /\ \A j \in Fallen(t) : t[j].deps \cap (Bad(t) \cup Fallen(t)) # {}
<1> DEFINE B == InState(t, "blocked")
           F == Fallen(t)
           Closed(S) == Falls(t, S) \subseteq S
<1>1. F \subseteq B
  BY DEF Fallen
<1>2. \A S \in SUBSET B : Closed(S) => F \subseteq S
  BY DEF Fallen
<1>3. ASSUME NEW j \in B, t[j].deps \cap (Bad(t) \cup F) # {}
      PROVE  j \in F
  <2> SUFFICES ASSUME NEW S \in SUBSET B, Closed(S) PROVE j \in S
    BY DEF Fallen
  <2>1. F \subseteq S
    BY <1>2
  <2>2. j \in Falls(t, S)
    BY <1>3, <2>1 DEF Falls
  <2> QED BY <2>2
<1>4. ASSUME NEW j \in F
      PROVE  t[j].deps \cap (Bad(t) \cup F) # {}
  <2> DEFINE S == {i \in F : t[i].deps \cap (Bad(t) \cup F) # {}}
  <2>1. S \in SUBSET B
    BY <1>1
  <2>2. Closed(S)
    <3> SUFFICES ASSUME NEW i \in Falls(t, S) PROVE i \in S
      OBVIOUS
    <3>1. i \in B /\ t[i].deps \cap (Bad(t) \cup S) # {}
      BY DEF Falls
    <3>2. t[i].deps \cap (Bad(t) \cup F) # {}
      BY <3>1
    <3>3. i \in F
      BY <1>3, <3>1, <3>2
    <3> QED BY <3>2, <3>3
  <2>3. F \subseteq S
    BY <1>2, <2>1, <2>2, Zenon
  <2> QED BY <2>3
<1> QED BY <1>1, <1>3, <1>4

\* What the closed form of propagate does to one row, by the set it is in.
LEMMA PropagateRow ==
  ASSUME NEW t, NEW j \in Jobs
  PROVE  /\ j \in Fallen(t) => Propagate(t)[j] = FellRow(t[j])
         /\ j \notin Fallen(t) /\ j \in Released(t) => Propagate(t)[j] = ReleasedRow(t[j])
         /\ j \notin Fallen(t) /\ j \notin Released(t) => Propagate(t)[j] = t[j]
BY DEF Propagate, FellRow, ReleasedRow

\* propagate leaves the rows that are not blocked alone.
LEMMA PropagateKeeps ==
  ASSUME NEW t, NEW j \in Jobs, t[j].state # "blocked"
  PROVE  Propagate(t)[j] = t[j]
<1>1. j \notin Fallen(t) /\ j \notin Released(t)
  BY FallenFacts DEF Released, InState
<1> QED BY <1>1, PropagateRow

RowsInv(t, told, now) == \A j \in Jobs : RowInv(t[j], told[j], now)

\* propagate keeps every row valid.
LEMMA PropagateRowsInv ==
  ASSUME NEW t \in [Jobs -> Row], clock \in Nat, promised \in [Jobs -> Nat],
         RowsInv(t, promised, clock)
  PROVE  Propagate(t) \in [Jobs -> Row] /\ RowsInv(Propagate(t), promised, clock)
<1>1. ASSUME NEW j \in Jobs
      PROVE  Propagate(t)[j] \in Row /\ RowInv(Propagate(t)[j], promised[j], clock)
  <2>1. t[j] \in Row /\ promised[j] \in Nat /\ RowInv(t[j], promised[j], clock)
    BY DEF RowsInv
  <2>2. CASE j \in Fallen(t)
    <3>1. t[j].state = "blocked"
      BY <2>2, FallenFacts DEF InState
    <3>2. Propagate(t)[j] = FellRow(t[j])
      BY <2>2, PropagateRow
    <3> QED BY <2>1, <3>1, <3>2, FellRowInv
  <2>3. CASE j \notin Fallen(t) /\ j \in Released(t)
    <3>1. t[j].state = "blocked"
      BY <2>3 DEF Released, InState
    <3>2. Propagate(t)[j] = ReleasedRow(t[j])
      BY <2>3, PropagateRow
    <3> QED BY <2>1, <3>1, <3>2, ReleasedRowInv
  <2>4. CASE j \notin Fallen(t) /\ j \notin Released(t)
    BY <2>1, <2>4, PropagateRow
  <2> QED BY <2>2, <2>3, <2>4
<1>2. Propagate(t) = [j \in Jobs |-> Propagate(t)[j]]
  BY DEF Propagate
<1> QED BY <1>1, <1>2 DEF RowsInv

\* DependencyConsistency and the foreign keys, of any table.
Refs(t) == \A j \in Jobs : t[j].deps \subseteq Present(t)
Started(t) ==
  \A j \in Jobs : t[j].state \in {"queued", "leased", "succeeded"} =>
    t[j].deps \subseteq InState(t, "succeeded")
FailureCause(t) ==
  \A j \in InState(t, "failed") : t[j].reason = "dependency_failed" => t[j].deps \cap Bad(t) # {}
BlockedCause(t) ==
  \A j \in InState(t, "blocked") :
    t[j].deps \cap PendingJobs(t) # {} /\ t[j].deps \cap Bad(t) = {}

\* What the table satisfies when propagate starts, and when it has ended.
Ready(t) == Refs(t) /\ Started(t) /\ FailureCause(t)
Consistent(t) == Ready(t) /\ BlockedCause(t)

\* The walk restores the dependency invariant: started from a table in which
\* rows have just ended, it leaves no blocked row without an undecided
\* dependency and none with a failed one.
LEMMA PropagateConsistent ==
  ASSUME NEW t \in [Jobs -> Row], Ready(t)
  PROVE  Consistent(Propagate(t))
<1> DEFINE u == Propagate(t)
           F == Fallen(t)
           R == Released(t)
<1>1. ASSUME NEW j \in Jobs
      PROVE  /\ u[j].deps = t[j].deps
             /\ j \in F => t[j].state = "blocked" /\ u[j].state = "failed"
             /\ j \notin F /\ j \in R => t[j].state = "blocked" /\ u[j].state = "queued"
             /\ j \notin F /\ j \notin R => u[j].state = t[j].state /\ u[j].reason = t[j].reason
  <2>1. t[j] \in Row
    OBVIOUS
  <2>2. FellRow(t[j]).deps = t[j].deps /\ FellRow(t[j]).state = "failed"
    BY <2>1, Zenon DEF FellRow, Row
  <2>3. ReleasedRow(t[j]).deps = t[j].deps /\ ReleasedRow(t[j]).state = "queued"
    BY <2>1, Zenon DEF ReleasedRow, Row
  <2>4. j \in F \/ j \in R => t[j].state = "blocked"
    BY FallenFacts DEF Released, InState
  <2> QED BY <2>2, <2>3, <2>4, PropagateRow
<1> HIDE DEF u, F, R
<1>2. InState(u, "succeeded") = InState(t, "succeeded")
  BY <1>1 DEF InState
<1>3. Bad(u) = Bad(t) \cup F
  <2>1. F \subseteq Jobs
    BY FallenFacts DEF F, InState
  <2> QED BY <1>1, <2>1 DEF Bad, InState
<1>4. Present(u) = Present(t)
  BY <1>1 DEF Present, States, Pending, Terminal
<1>5. Refs(u)
  BY <1>1, <1>4 DEF Refs, Ready
<1>6. Started(u)
  <2> SUFFICES ASSUME NEW j \in Jobs, u[j].state \in {"queued", "leased", "succeeded"}
               PROVE  t[j].deps \subseteq InState(t, "succeeded")
    BY <1>1, <1>2 DEF Started
  <2>1. CASE j \notin F /\ j \in R
    BY <2>1 DEF R, Released
  <2>2. CASE j \notin F /\ j \notin R
    BY <1>1, <2>2 DEF Ready, Started
  <2> QED BY <1>1, <2>1, <2>2
<1>7. FailureCause(u)
  <2> SUFFICES ASSUME NEW j \in Jobs, u[j].state = "failed", u[j].reason = "dependency_failed"
               PROVE  t[j].deps \cap (Bad(t) \cup F) # {}
    BY <1>1, <1>3 DEF FailureCause, InState
  <2>1. CASE j \in F
    BY <2>1, FallenFacts DEF F
  <2>2. CASE j \notin F
    BY <1>1, <2>2 DEF Ready, FailureCause, InState
  <2> QED BY <2>1, <2>2
<1>8. BlockedCause(u)
  <2> SUFFICES ASSUME NEW j \in Jobs, u[j].state = "blocked"
               PROVE  t[j].deps \cap PendingJobs(u) # {} /\ t[j].deps \cap Bad(u) = {}
    BY <1>1 DEF BlockedCause, InState
  <2>1. t[j].state = "blocked" /\ j \notin F /\ j \notin R
    BY <1>1
  <2>2. t[j].deps \cap (Bad(t) \cup F) = {}
    BY <2>1, FallenFacts DEF F, InState
  <2>3. PICK d \in t[j].deps : d \notin InState(t, "succeeded")
    BY <2>1 DEF R, Released, InState
  <2>4. d \in Present(u) /\ d \notin InState(u, "succeeded") /\ d \notin Bad(u)
    BY <1>2, <1>3, <1>4, <2>2, <2>3 DEF Ready, Refs
  <2>5. d \in PendingJobs(u)
    BY <2>4 DEF Present, InState, Bad, PendingJobs, States, Terminal
  <2> QED BY <1>3, <2>2, <2>3, <2>5
<1> QED BY <1>5, <1>6, <1>7, <1>8 DEF Consistent, Ready, u

\* When the jobs of a set E end, or go back to the queue, propagate may start.
LEMMA EndedReady ==
  ASSUME NEW t \in [Jobs -> Row], NEW u \in [Jobs -> Row], Consistent(t),
         NEW E \in SUBSET PendingJobs(t),
         \A j \in Jobs : j \notin E => u[j] = t[j],
         \A j \in E :
           /\ u[j].deps = t[j].deps
           /\ u[j].state \in States \ {"blocked"} /\ u[j].reason # "dependency_failed"
           /\ u[j].state \in {"queued", "leased", "succeeded"} => t[j].state \in {"queued", "leased"}
  PROVE  Ready(u)
<1>1. \A j \in E : t[j].state \in {"blocked", "queued", "leased"}
  BY DEF PendingJobs, Pending
<1>2. E \subseteq Jobs
  BY DEF PendingJobs
<1>3. \A j \in Jobs : u[j].deps = t[j].deps
  BY <1>2
<1>4. InState(t, "succeeded") \subseteq InState(u, "succeeded")
  BY <1>1 DEF InState
<1>5. Bad(t) \subseteq Bad(u)
  BY <1>1 DEF InState, Bad
<1>6. Present(t) \subseteq Present(u)
  BY <1>2 DEF Present
<1>7. Refs(u)
  BY <1>3, <1>6 DEF Refs, Consistent, Ready
<1>8. Started(u)
  <2> SUFFICES ASSUME NEW j \in Jobs, u[j].state \in {"queued", "leased", "succeeded"}
               PROVE  u[j].deps \subseteq InState(u, "succeeded")
    BY DEF Started
  <2>1. t[j].state \in {"queued", "leased", "succeeded"}
    BY <1>2
  <2> QED BY <1>3, <1>4, <2>1 DEF Started, Consistent, Ready
<1>9. FailureCause(u)
  <2> SUFFICES ASSUME NEW j \in Jobs, u[j].state = "failed", u[j].reason = "dependency_failed"
               PROVE  u[j].deps \cap Bad(u) # {}
    BY DEF FailureCause, InState
  <2>1. t[j].state = "failed" /\ t[j].reason = "dependency_failed"
    BY <1>2
  <2>2. t[j].deps \cap Bad(t) # {}
    BY <2>1 DEF FailureCause, InState, Consistent, Ready
  <2> QED BY <1>3, <1>5, <2>2
<1> QED BY <1>7, <1>8, <1>9 DEF Ready

\* Leases, heartbeats and cancel requests leave the dependencies consistent.
LEMMA StartedConsistent ==
  ASSUME NEW t \in [Jobs -> Row], NEW u \in [Jobs -> Row], Consistent(t),
         NEW j \in Jobs, \A i \in Jobs : i # j => u[i] = t[i],
         u[j].deps = t[j].deps, t[j].state \in {"queued", "leased"}, u[j].state = "leased"
  PROVE  Consistent(u)
<1>1. /\ InState(u, "succeeded") = InState(t, "succeeded")
      /\ InState(u, "failed") = InState(t, "failed")
      /\ InState(u, "blocked") = InState(t, "blocked")
      /\ Bad(u) = Bad(t)
  BY DEF InState, Bad
<1>2. Present(u) = Present(t) /\ PendingJobs(u) = PendingJobs(t)
  BY DEF Present, PendingJobs, States, Pending
<1>3. \A i \in Jobs : u[i].deps = t[i].deps
  OBVIOUS
<1>4. \A i \in InState(u, "failed") : u[i].reason = t[i].reason
  BY DEF InState
<1>5. \A i \in Jobs : u[i].state \in {"queued", "leased", "succeeded"} =>
        t[i].state \in {"queued", "leased", "succeeded"}
  OBVIOUS
<1>6. Refs(u)
  BY <1>2, <1>3 DEF Refs, Consistent, Ready
<1>7. Started(u)
  BY <1>1, <1>3, <1>5 DEF Started, Consistent, Ready
<1>8. FailureCause(u)
  <2> SUFFICES ASSUME NEW i \in InState(u, "failed"), u[i].reason = "dependency_failed"
               PROVE  u[i].deps \cap Bad(u) # {}
    BY DEF FailureCause
  <2>1. i \in Jobs /\ i \in InState(t, "failed") /\ t[i].reason = "dependency_failed"
    BY <1>1, <1>4 DEF InState
  <2>2. FailureCause(t)
    BY DEF Consistent, Ready
  <2>3. t[i].deps \cap Bad(t) # {}
    BY <2>1, <2>2, Zenon DEF FailureCause
  <2> QED BY <1>1, <1>3, <2>1, <2>3, Zenon
<1>9. BlockedCause(u)
  BY <1>1, <1>2, <1>3 DEF BlockedCause, Consistent, InState
<1> QED BY <1>6, <1>7, <1>8, <1>9 DEF Consistent, Ready

-----------------------------------------------------------------------------
(* The inductive invariant.                                                *)

IInv == TypeOK /\ RowsInv(job, promised, clock) /\ Consistent(job)

\* The row a job gets from the loop of recoverExpired.
Swept(j) == IF j \in Expired(job) THEN Reaped(job[j]) ELSE job[j]

\* The loop of recoverExpired keeps each row valid, its fence, its dependencies
\* and its cancellation.
LEMMA SweptRow ==
  ASSUME TypeOK, RowsInv(job, promised, clock), NEW j \in Jobs
  PROVE  /\ Swept(j) \in Row /\ RowInv(Swept(j), promised[j], clock)
         /\ Swept(j).deps = job[j].deps /\ Swept(j).fence = job[j].fence
         /\ Swept(j).cancel = job[j].cancel
<1>1. job[j] \in Row /\ promised[j] \in Nat /\ clock \in Nat /\ RowInv(job[j], promised[j], clock)
  BY DEF TypeOK, RowsInv
<1>2. CASE j \in Expired(job)
  <2>1. job[j].state = "leased" /\ job[j].until <= clock
    BY <1>2 DEF Expired, InState
  <2>2. /\ Reaped(job[j]).deps = job[j].deps /\ Reaped(job[j]).fence = job[j].fence
        /\ Reaped(job[j]).cancel = job[j].cancel
    BY <1>1, Zenon DEF Reaped, Row
  <2> QED BY <1>1, <1>2, <2>1, <2>2, ReapedRowInv DEF Swept
<1>3. CASE j \notin Expired(job)
  BY <1>1, <1>3 DEF Swept
<1> QED BY <1>2, <1>3

\* recoverExpired preserves the invariant.
LEMMA RecoveredInv ==
  ASSUME IInv
  PROVE  /\ Recovered \in [Jobs -> Row] /\ RowsInv(Recovered, promised, clock)
         /\ Consistent(Recovered)
<1> DEFINE u == [j \in Jobs |-> Swept(j)]
<1>1. Recovered = Propagate(u)
  BY DEF Recovered, Swept
<1>2. u \in [Jobs -> Row] /\ RowsInv(u, promised, clock)
  BY SweptRow DEF IInv, RowsInv
<1>3. Ready(u)
  <2>1. Expired(job) \in SUBSET PendingJobs(job)
    BY DEF Expired, InState, PendingJobs, Pending
  <2>2. \A j \in Jobs : j \notin Expired(job) => u[j] = job[j]
    BY DEF Swept
  <2>3. ASSUME NEW j \in Expired(job)
        PROVE  /\ u[j].deps = job[j].deps
               /\ u[j].state \in States \ {"blocked"} /\ u[j].reason # "dependency_failed"
               /\ job[j].state \in {"queued", "leased"}
    <3>1. j \in Jobs /\ job[j].state = "leased" /\ job[j] \in Row
      BY DEF Expired, InState, IInv, TypeOK
    <3>2. u[j] = Reaped(job[j])
      BY <3>1 DEF Swept
    <3>3. Reaped(job[j]).state \in {"cancelled", "failed", "queued"}
      BY <3>1, Zenon DEF Reaped, ReapedState, Row
    <3>4. Reaped(job[j]).reason # "dependency_failed"
      BY <3>1, Zenon DEF Reaped, ReapedState, ReapedReason, Row
    <3> QED BY <3>1, <3>2, <3>3, <3>4, SweptRow DEF Swept, IInv, States, Pending, Terminal
  <2>4. job \in [Jobs -> Row] /\ Consistent(job)
    BY DEF IInv, TypeOK
  <2> QED BY <1>2, <2>1, <2>2, <2>3, <2>4, EndedReady, Zenon
<1> HIDE DEF u
<1>4. clock \in Nat /\ promised \in [Jobs -> Nat]
  BY DEF IInv, TypeOK
<1> QED BY <1>1, <1>2, <1>3, <1>4, PropagateRowsInv, PropagateConsistent

\* An empty table satisfies the invariant.
THEOREM InitInv == Init => IInv
<1> SUFFICES ASSUME Init PROVE IInv
  OBVIOUS
<1>1. clock \in Nat /\ promised = [j \in Jobs |-> 0] /\ clock = 1 /\ open = TRUE
  BY DEF Init
<1>2. NoRow("absent") \in Row /\ RowInv(NoRow("absent"), 0, clock)
  BY <1>1, NoRowInv
<1>3. \A j \in Jobs : job[j] = NoRow("absent")
  BY DEF Init
<1>4. fair \in FairState
  BY FairAssumption DEF Init, NewFairScheduler, FairState
<1>5. TypeOK
  <2>1. job \in [Jobs -> Row]
    BY <1>2 DEF Init
  <2> QED BY <1>1, <1>4, <2>1 DEF TypeOK
<1>6. RowsInv(job, promised, clock)
  BY <1>1, <1>2, <1>3 DEF RowsInv
<1>7. \A j \in Jobs : job[j].state = "absent" /\ job[j].deps = {}
  <2>1. NoRow("absent").state = "absent" /\ NoRow("absent").deps = {}
    BY DEF NoRow
  <2> QED BY <1>3, <2>1
<1>8. Consistent(job)
  BY <1>7 DEF Consistent, Ready, Refs, Started, FailureCause, BlockedCause, InState
<1> QED BY <1>5, <1>6, <1>8 DEF IInv

\* A pending job gets a terminal row and propagate runs.
LEMMA EndStep ==
  ASSUME IInv, NEW j \in Jobs, NEW r \in Row, RowInv(r, promised[j], clock),
         job[j].state \in Pending, r.deps = job[j].deps, r.state \in Terminal,
         r.reason # "dependency_failed",
         r.state = "succeeded" => job[j].state \in {"queued", "leased"},
         job' = Propagate([job EXCEPT ![j] = r]),
         UNCHANGED <<open, fair, clock, promised>>
  PROVE  IInv'
<1> DEFINE u == [job EXCEPT ![j] = r]
<1>1. job \in [Jobs -> Row] /\ u \in [Jobs -> Row] /\ clock \in Nat /\ promised \in [Jobs -> Nat]
  BY DEF IInv, TypeOK
<1>2. RowsInv(u, promised, clock)
  BY <1>1 DEF IInv, RowsInv
<1>3. Ready(u)
  <2>1. {j} \in SUBSET PendingJobs(job)
    BY DEF PendingJobs
  <2>2. \A i \in Jobs : i \notin {j} => u[i] = job[i]
    BY <1>1
  <2>3. u[j] = r
    BY <1>1
  <2>4. r.state \in States \ {"blocked"} /\ r.state \notin {"queued", "leased"}
    BY DEF States, Terminal
  <2>5. \A i \in {j} :
          /\ u[i].deps = job[i].deps
          /\ u[i].state \in States \ {"blocked"} /\ u[i].reason # "dependency_failed"
          /\ u[i].state \in {"queued", "leased", "succeeded"} => job[i].state \in {"queued", "leased"}
    BY <2>3, <2>4
  <2> HIDE DEF u
  <2> QED BY <1>1, <2>1, <2>2, <2>5, EndedReady, Zenon DEF IInv
<1> HIDE DEF u
<1>4. job' \in [Jobs -> Row] /\ RowsInv(job', promised, clock)
  BY <1>1, <1>2, PropagateRowsInv, Zenon DEF u
<1>5. Consistent(job')
  BY <1>1, <1>3, PropagateConsistent, Zenon DEF u
<1> QED BY <1>4, <1>5, Zenon DEF IInv, TypeOK

\* A job of a consistent table t gets or keeps a lease.
LEMMA LeaseStep ==
  ASSUME IInv, NEW t \in [Jobs -> Row], RowsInv(t, promised, clock), Consistent(t),
         NEW j \in Jobs, NEW r \in Row, NEW told \in Nat, RowInv(r, told, clock),
         t[j].state \in {"queued", "leased"}, r.state = "leased", r.deps = t[j].deps,
         job' = [t EXCEPT ![j] = r], promised' = [promised EXCEPT ![j] = told],
         fair' \in FairState, UNCHANGED <<open, clock>>
  PROVE  IInv'
<1>1. promised \in [Jobs -> Nat] /\ clock \in Nat
  BY DEF IInv, TypeOK
<1>2. job' \in [Jobs -> Row] /\ promised' \in [Jobs -> Nat]
  BY <1>1
<1>3. RowsInv(job', promised', clock)
  BY <1>1 DEF RowsInv
<1>4. Consistent(job')
  <2>1. job'[j] = r /\ \A i \in Jobs : i # j => job'[i] = t[i]
    OBVIOUS
  <2> QED BY <1>2, <2>1, StartedConsistent, Zenon
<1> QED BY <1>2, <1>3, <1>4 DEF IInv, TypeOK

\* Complete preserves the invariant.
LEMMA CompleteInv ==
  ASSUME IInv, NEW j \in Jobs, NEW f \in 1..job[j].fence, NEW o \in Terminal, Complete(j, f, o)
  PROVE  IInv'
<1> DEFINE r == CompletedRow(job[j], f, o)
<1>1. /\ job[j] \in Row /\ promised[j] \in Nat /\ clock \in Nat /\ job \in [Jobs -> Row]
      /\ RowInv(job[j], promised[j], clock)
  BY DEF IInv, TypeOK, RowsInv
<1>2. f \in Nat
  <2>1. job[j].fence \in Nat
    BY <1>1, Zenon DEF Row
  <2> QED BY <2>1
<1>3. job[j].state = "leased" /\ job[j].lease = f /\ job[j].fence = f
  BY Zenon DEF Complete, Holds
<1>4. job[j].cancel => o = "cancelled"
  BY Zenon DEF Complete
<1>5. r \in Row /\ RowInv(r, promised[j], clock)
  BY <1>1, <1>2, <1>3, <1>4, CompletedRowInv
<1>6. r.deps = job[j].deps /\ r.state = o /\ r.reason = ""
  BY <1>1, Zenon DEF CompletedRow, Row
<1>7. job' = Propagate([job EXCEPT ![j] = r])
  <2>1. [job EXCEPT ![j].state = o, ![j].reason = "", ![j].outcome = o, ![j].result = f,
                    ![j].updated = clock] = [job EXCEPT ![j] = r]
    BY <1>1, Zenon DEF CompletedRow
  <2> QED BY <2>1, Zenon DEF Complete
<1>8. UNCHANGED <<open, fair, clock, promised>>
  BY Zenon DEF Complete
<1> HIDE DEF r
<1> QED BY <1>3, <1>5, <1>6, <1>7, <1>8, EndStep, Zenon DEF Pending

\* Cancel preserves the invariant, for a running and for a waiting job.
LEMMA CancelInv ==
  ASSUME IInv, NEW j \in Jobs, Cancel(j)
  PROVE  IInv'
<1>1. /\ job[j] \in Row /\ promised[j] \in Nat /\ clock \in Nat /\ job \in [Jobs -> Row]
      /\ promised \in [Jobs -> Nat] /\ RowInv(job[j], promised[j], clock)
  BY DEF IInv, TypeOK, RowsInv
<1>2. UNCHANGED <<open, fair, clock, promised>>
  BY DEF Cancel
<1>3. CASE job[j].state = "leased"
  <2> DEFINE r == CancellingRow(job[j])
  <2>1. r \in Row /\ RowInv(r, promised[j], clock)
    BY <1>1, <1>3, CancellingRowInv
  <2>2. r.deps = job[j].deps /\ r.state = "leased"
    BY <1>1, <1>3, Zenon DEF CancellingRow, Row
  <2>3. job' = [job EXCEPT ![j] = r]
    <3>1. [job EXCEPT ![j].cancel = TRUE, ![j].reason = "cancel_requested", ![j].updated = clock]
            = [job EXCEPT ![j] = r]
      BY <1>1, Zenon DEF CancellingRow
    <3>2. job' = [job EXCEPT ![j].cancel = TRUE, ![j].reason = "cancel_requested",
                             ![j].updated = clock]
      BY <1>3, Zenon DEF Cancel
    <3> QED BY <3>1, <3>2
  <2>4. promised' = [promised EXCEPT ![j] = promised[j]]
    BY <1>1, <1>2
  <2> HIDE DEF r
  <2> QED BY <1>1, <1>2, <1>3, <2>1, <2>2, <2>3, <2>4, LeaseStep, Zenon DEF IInv, TypeOK
<1>4. CASE job[j].state \in {"blocked", "queued"}
  <2> DEFINE r == CancelledRow(job[j])
  <2>1. r \in Row /\ RowInv(r, promised[j], clock)
    BY <1>1, <1>4, CancelledRowInv
  <2>2. r.deps = job[j].deps /\ r.state = "cancelled" /\ r.reason = "cancelled"
    BY <1>1, Zenon DEF CancelledRow, Row
  <2>3. job' = Propagate([job EXCEPT ![j] = r])
    <3> DEFINE u == [job EXCEPT ![j].state = "cancelled", ![j].reason = "cancelled",
                                ![j].cancel = TRUE, ![j].outcome = "cancelled",
                                ![j].updated = clock]
    <3>1. u = [job EXCEPT ![j] = r]
      BY <1>1, Zenon DEF CancelledRow
    <3>2. job' = Propagate(u)
      BY <1>4 DEF Cancel
    <3> QED BY <3>1, <3>2, Zenon
  <2> HIDE DEF r
  <2> QED BY <1>2, <1>4, <2>1, <2>2, <2>3, EndStep DEF Pending, Terminal
<1> QED BY <1>3, <1>4 DEF Cancel

\* FailUnstartedTaskWorker preserves the invariant.
LEMMA FailUnstartedInv ==
  ASSUME IInv, NEW j \in Jobs, FailUnstartedTaskWorker(j)
  PROVE  IInv'
<1> DEFINE r == UnstartedRow(job[j])
<1>1. /\ job[j] \in Row /\ promised[j] \in Nat /\ clock \in Nat /\ job \in [Jobs -> Row]
      /\ RowInv(job[j], promised[j], clock)
  BY DEF IInv, TypeOK, RowsInv
<1>2. job[j].state \in {"blocked", "queued"} /\ UNCHANGED <<open, fair, clock, promised>>
  BY DEF FailUnstartedTaskWorker
<1>3. r \in Row /\ RowInv(r, promised[j], clock)
  BY <1>1, <1>2, UnstartedRowInv
<1>4. r.deps = job[j].deps /\ r.state = "failed" /\ r.reason = "task_goal_unavailable"
  BY <1>1, Zenon DEF UnstartedRow, Row
<1>5. job' = Propagate([job EXCEPT ![j] = r])
  <2> DEFINE u == [job EXCEPT ![j].state = "failed", ![j].reason = "task_goal_unavailable",
                              ![j].cancel = FALSE, ![j].outcome = "failed", ![j].result = 0,
                              ![j].updated = clock]
  <2>1. u = [job EXCEPT ![j] = r]
    BY <1>1, Zenon DEF UnstartedRow
  <2>2. job' = Propagate(u)
    BY Zenon DEF FailUnstartedTaskWorker
  <2> QED BY <2>1, <2>2, Zenon
<1> HIDE DEF r
<1> QED BY <1>2, <1>3, <1>4, <1>5, EndStep DEF Pending, Terminal

\* Heartbeat preserves the invariant: the new expiry is the one promised.
LEMMA HeartbeatInv ==
  ASSUME IInv, NEW j \in Jobs, NEW f, NEW ttl \in Ttls, Heartbeat(j, f, ttl)
  PROVE  IInv'
<1> DEFINE r == RenewedRow(job[j], ttl)
<1>1. /\ job[j] \in Row /\ promised[j] \in Nat /\ clock \in Nat /\ job \in [Jobs -> Row]
      /\ RowInv(job[j], promised[j], clock)
  BY DEF IInv, TypeOK, RowsInv
<1>2. /\ job[j].state = "leased" /\ UNCHANGED <<open, fair, clock>>
      /\ promised' = [promised EXCEPT ![j] = clock + ttl]
  BY DEF Heartbeat, Holds
<1>3. r \in Row /\ RowInv(r, clock + ttl, clock)
  BY <1>1, <1>2, RenewedRowInv
<1>4. r.deps = job[j].deps /\ r.state = "leased"
  BY <1>1, <1>2, Zenon DEF RenewedRow, Row
<1>5. job' = [job EXCEPT ![j] = r]
  <2>1. [job EXCEPT ![j].until = clock + ttl, ![j].updated = clock] = [job EXCEPT ![j] = r]
    BY <1>1, Zenon DEF RenewedRow
  <2> QED BY <2>1, Zenon DEF Heartbeat
<1>6. clock + ttl \in Nat /\ fair' \in FairState
  BY <1>1, <1>2, QueueAssumption DEF IInv, TypeOK
<1> HIDE DEF r
<1> QED BY <1>1, <1>2, <1>3, <1>4, <1>5, <1>6, LeaseStep, Zenon DEF IInv

\* A new row has the state its dependencies decide, and nothing can depend on
\* it yet.
LEMMA InsertConsistent ==
  ASSUME NEW t \in [Jobs -> Row], NEW u \in [Jobs -> Row], Consistent(t), NEW J \in SUBSET Jobs,
         \A i \in Jobs : i \notin J => u[i] = t[i],
         \A i \in J : /\ t[i].state = "absent" /\ u[i].deps \subseteq Present(t)
                      /\ u[i].state = DependencyState(t, u[i].deps)
  PROVE  Consistent(u)
<1>1. \A i \in Jobs : u[i].deps \subseteq Present(t)
  BY DEF Consistent, Ready, Refs
<1>2. ASSUME NEW d \in Present(t) PROVE d \in Jobs /\ u[d] = t[d]
  BY DEF Present, States, Pending, Terminal
<1>3. ASSUME NEW d \in Present(t)
      PROVE  /\ d \in Present(u)
             /\ d \in InState(u, "succeeded") <=> d \in InState(t, "succeeded")
             /\ d \in Bad(u) <=> d \in Bad(t)
             /\ d \in PendingJobs(u) <=> d \in PendingJobs(t)
  BY <1>2 DEF Present, InState, Bad, PendingJobs
<1>4. ASSUME NEW i \in J
      PROVE  /\ u[i].state = "failed" => u[i].deps \cap Bad(t) # {}
             /\ u[i].state = "queued" => u[i].deps \subseteq InState(t, "succeeded")
             /\ u[i].state = "blocked" =>
                  u[i].deps \cap PendingJobs(t) # {} /\ u[i].deps \cap Bad(t) = {}
             /\ u[i].state \in {"failed", "queued", "blocked"}
  <2>1. u[i].state \in {"failed", "queued", "blocked"}
    BY DEF DependencyState
  <2>2. u[i].state = "failed" => u[i].deps \cap Bad(t) # {}
    BY DEF DependencyState
  <2>3. u[i].state = "queued" => u[i].deps \subseteq InState(t, "succeeded")
    BY DEF DependencyState
  <2>4. ASSUME u[i].state = "blocked"
        PROVE  u[i].deps \cap PendingJobs(t) # {} /\ u[i].deps \cap Bad(t) = {}
    <3>1. u[i].deps \cap Bad(t) = {} /\ ~ (u[i].deps \subseteq InState(t, "succeeded"))
      BY <2>4 DEF DependencyState
    <3>2. PICK d \in u[i].deps : d \notin InState(t, "succeeded")
      BY <3>1
    <3>3. d \in PendingJobs(t)
      BY <3>1, <3>2 DEF Present, InState, Bad, PendingJobs, States, Terminal
    <3> QED BY <3>1, <3>2, <3>3
  <2> QED BY <2>1, <2>2, <2>3, <2>4
<1>5. Refs(u)
  BY <1>1, <1>3 DEF Refs
<1>6. Started(u)
  <2> SUFFICES ASSUME NEW i \in Jobs, u[i].state \in {"queued", "leased", "succeeded"}
               PROVE  u[i].deps \subseteq InState(t, "succeeded")
    BY <1>1, <1>3 DEF Started
  <2>1. CASE i \in J
    BY <1>4, <2>1
  <2>2. CASE i \notin J
    <3>1. u[i] = t[i]
      BY <2>2
    <3> QED BY <3>1 DEF Consistent, Ready, Started
  <2> QED BY <2>1, <2>2
<1>7. FailureCause(u)
  <2> SUFFICES ASSUME NEW i \in Jobs, u[i].state = "failed", u[i].reason = "dependency_failed"
               PROVE  u[i].deps \cap Bad(t) # {}
    BY <1>1, <1>3 DEF FailureCause, InState
  <2>1. CASE i \in J
    BY <1>4, <2>1
  <2>2. CASE i \notin J
    <3>1. u[i] = t[i] /\ i \in InState(t, "failed") /\ t[i].reason = "dependency_failed"
      BY <2>2 DEF InState
    <3>2. FailureCause(t)
      BY DEF Consistent, Ready
    <3> QED BY <3>1, <3>2, Zenon DEF FailureCause
  <2> QED BY <2>1, <2>2
<1>8. BlockedCause(u)
  <2> SUFFICES ASSUME NEW i \in Jobs, u[i].state = "blocked"
               PROVE  u[i].deps \cap PendingJobs(t) # {} /\ u[i].deps \cap Bad(t) = {}
    <3>1. \A i \in Jobs : u[i].deps \cap PendingJobs(t) # {} => u[i].deps \cap PendingJobs(u) # {}
      BY <1>1, <1>3
    <3>2. \A i \in Jobs : u[i].deps \cap Bad(t) = {} => u[i].deps \cap Bad(u) = {}
      BY <1>1, <1>3
    <3> QED BY <3>1, <3>2 DEF BlockedCause, InState
  <2>1. CASE i \in J
    BY <1>4, <2>1
  <2>2. CASE i \notin J
    <3>1. u[i] = t[i] /\ i \in InState(t, "blocked")
      BY <2>2 DEF InState
    <3>2. BlockedCause(t)
      BY DEF Consistent
    <3> QED BY <3>1, <3>2, Zenon DEF BlockedCause
  <2> QED BY <2>1, <2>2
<1> QED BY <1>5, <1>6, <1>7, <1>8 DEF Consistent, Ready

\* Enqueue preserves the invariant: the state it inserts is the one the
\* dependencies call for.
LEMMA EnqueueInv ==
  ASSUME IInv, NEW j \in Jobs, NEW k \in Keys, NEW w \in Workspaces, NEW p \in Pools,
         NEW D \in SUBSET Jobs, Enqueue(j, k, w, p, D)
  PROVE  IInv'
<1> DEFINE state == DependencyState(job, D)
           r == NewRow(state, DependencyReason(state), k, w, p, D, FALSE)
<1>1. /\ job \in [Jobs -> Row] /\ promised \in [Jobs -> Nat] /\ clock \in Nat
      /\ RowsInv(job, promised, clock) /\ Consistent(job)
  BY DEF IInv, TypeOK
<1>2. job[j].state = "absent" /\ D \subseteq Present(job) /\ job' = [job EXCEPT ![j] = r]
  BY DEF Enqueue
<1>3. UNCHANGED <<open, fair, clock, promised>>
  BY DEF Enqueue
<1>4. promised[j] \in Nat /\ promised[j] <= clock
  BY <1>1, <1>2, Zenon DEF RowsInv, RowInv
<1>5. state \in {"queued", "blocked", "failed"}
  BY DEF DependencyState
<1>6. r \in Row /\ RowInv(r, promised[j], clock)
  <2>1. ASSUME NEW st \in {"queued", "blocked", "failed"}
        PROVE  LET s == NewRow(st, DependencyReason(st), k, w, p, D, FALSE)
               IN  s \in Row /\ RowInv(s, promised[j], clock)
    BY <1>1, <1>4, NewRowInv, Zenon
  <2> QED BY <1>5, <2>1, Zenon
<1>7. r.state = state /\ r.deps = D
  BY DEF NewRow, NoRow
<1> HIDE DEF r
<1>8. job' \in [Jobs -> Row] /\ RowsInv(job', promised, clock)
  BY <1>1, <1>2, <1>6 DEF RowsInv
<1>9. Consistent(job')
  <2>1. \A i \in Jobs : i \notin {j} => job'[i] = job[i]
    BY <1>1, <1>2
  <2>2. job'[j] = r
    BY <1>1, <1>2
  <2>3. \A i \in {j} : /\ job[i].state = "absent" /\ job'[i].deps \subseteq Present(job)
                       /\ job'[i].state = DependencyState(job, job'[i].deps)
    BY <1>2, <1>7, <2>2
  <2>4. {j} \in SUBSET Jobs
    OBVIOUS
  <2> HIDE DEF state
  <2> QED BY <1>1, <1>8, <2>1, <2>3, <2>4, InsertConsistent, Zenon
<1> QED BY <1>3, <1>8, <1>9 DEF IInv, TypeOK

\* CreateTask preserves the invariant.
LEMMA CreateTaskInv ==
  ASSUME IInv, NEW J \in SUBSET Jobs, NEW key \in [J -> Keys], NEW w \in Workspaces, NEW p \in Pools,
         CreateTask(J, key, w, p)
  PROVE  IInv'
<1> DEFINE r(j) == NewRow("queued", "", key[j], w, p, {}, TRUE)
<1>1. /\ job \in [Jobs -> Row] /\ promised \in [Jobs -> Nat] /\ clock \in Nat
      /\ RowsInv(job, promised, clock) /\ Consistent(job)
  BY DEF IInv, TypeOK
<1>2. /\ \A j \in J : job[j].state = "absent"
      /\ job' = [j \in Jobs |-> IF j \in J THEN r(j) ELSE job[j]]
      /\ UNCHANGED <<open, fair, clock, promised>>
  BY Zenon DEF CreateTask
<1>3. ASSUME NEW j \in J
      PROVE  r(j) \in Row /\ RowInv(r(j), promised[j], clock) /\ r(j).state = "queued" /\ r(j).deps = {}
  <2>1. promised[j] \in Nat /\ promised[j] <= clock
    BY <1>1, <1>2, Zenon DEF RowsInv, RowInv
  <2>2. "" = DependencyReason("queued")
    BY DEF DependencyReason
  <2>3. r(j).state = "queued" /\ r(j).deps = {}
    BY DEF NewRow, NoRow
  <2> QED BY <1>1, <2>1, <2>2, <2>3, NewRowInv, Zenon
<1> HIDE DEF r
<1>4. job' \in [Jobs -> Row] /\ RowsInv(job', promised, clock)
  BY <1>1, <1>2, <1>3 DEF RowsInv
<1>5. Consistent(job')
  <2>1. \A i \in Jobs : i \notin J => job'[i] = job[i]
    BY <1>2
  <2>2. \A i \in J : job'[i] = r(i)
    BY <1>2
  <2>3. DependencyState(job, {}) = "queued"
    BY DEF DependencyState
  <2>4. \A i \in J : /\ job[i].state = "absent" /\ job'[i].deps \subseteq Present(job)
                     /\ job'[i].state = DependencyState(job, job'[i].deps)
    BY <1>2, <1>3, <2>2, <2>3, Zenon
  <2> QED BY <1>1, <1>4, <2>1, <2>4, InsertConsistent, Zenon
<1> QED BY <1>2, <1>4, <1>5 DEF IInv, TypeOK

\* CleanupTerminal preserves the invariant: nothing depends on what it deletes.
LEMMA CleanupInv ==
  ASSUME IInv, NEW X \in SUBSET Jobs, CleanupTerminal(X)
  PROVE  IInv'
<1>1. /\ job \in [Jobs -> Row] /\ promised \in [Jobs -> Nat] /\ clock \in Nat
      /\ RowsInv(job, promised, clock) /\ Consistent(job)
  BY DEF IInv, TypeOK
<1>2. /\ job' = [j \in Jobs |-> IF j \in X THEN NoRow("deleted") ELSE job[j]]
      /\ UNCHANGED <<open, fair, clock, promised>>
      /\ X \subseteq Removable
  BY DEF CleanupTerminal
<1>3. \A i \in Jobs : job[i].deps \cap X = {}
  BY <1>2 DEF Removable
<1>4. ASSUME NEW j \in Jobs
      PROVE  NoRow("deleted") \in Row /\ RowInv(NoRow("deleted"), promised[j], clock)
  BY <1>1, NoRowInv
<1>5. NoRow("deleted").state = "deleted" /\ NoRow("deleted").deps = {}
  BY DEF NoRow
<1>6. job' \in [Jobs -> Row] /\ RowsInv(job', promised, clock)
  BY <1>1, <1>2, <1>4 DEF RowsInv
<1>7. /\ \A i \in X : job'[i].state = "deleted" /\ job'[i].deps = {}
      /\ \A i \in Jobs : i \notin X => job'[i] = job[i]
  BY <1>2, <1>5
<1>8. ASSUME NEW i \in Jobs, i \notin X
      PROVE  /\ i \in Present(job') <=> i \in Present(job)
             /\ i \in InState(job', "succeeded") <=> i \in InState(job, "succeeded")
             /\ i \in Bad(job') <=> i \in Bad(job)
             /\ i \in PendingJobs(job') <=> i \in PendingJobs(job)
  BY <1>7, <1>8 DEF Present, InState, Bad, PendingJobs
<1>9. \A i \in Jobs : i \notin X => job[i].deps \subseteq Jobs \ X
  BY <1>1, <1>3, Zenon DEF Row
<1>10. Refs(job')
  BY <1>1, <1>7, <1>8, <1>9 DEF Refs, Consistent, Ready
<1>11. Started(job')
  <2> SUFFICES ASSUME NEW j \in Jobs, job'[j].state \in {"queued", "leased", "succeeded"}
               PROVE  job'[j].deps \subseteq InState(job', "succeeded")
    BY DEF Started
  <2>1. j \notin X /\ job'[j] = job[j]
    BY <1>7
  <2>2. job[j].deps \subseteq InState(job, "succeeded")
    BY <1>1, <2>1 DEF Started, Consistent, Ready
  <2> QED BY <1>8, <1>9, <2>1, <2>2
<1>12. FailureCause(job')
  <2> SUFFICES ASSUME NEW j \in Jobs, job'[j].state = "failed", job'[j].reason = "dependency_failed"
               PROVE  job'[j].deps \cap Bad(job') # {}
    BY DEF FailureCause, InState
  <2>1. j \notin X /\ job'[j] = job[j]
    BY <1>7
  <2>2. job[j].deps \cap Bad(job) # {}
    BY <1>1, <2>1 DEF FailureCause, Consistent, Ready, InState
  <2> QED BY <1>8, <1>9, <2>1, <2>2
<1>13. BlockedCause(job')
  <2> SUFFICES ASSUME NEW j \in Jobs, job'[j].state = "blocked"
               PROVE  job'[j].deps \cap PendingJobs(job') # {} /\ job'[j].deps \cap Bad(job') = {}
    BY DEF BlockedCause, InState
  <2>1. j \notin X /\ job'[j] = job[j]
    BY <1>7
  <2>2. job[j].deps \cap PendingJobs(job) # {} /\ job[j].deps \cap Bad(job) = {}
    BY <1>1, <2>1 DEF BlockedCause, Consistent, InState
  <2> QED BY <1>8, <1>9, <2>1, <2>2
<1> QED BY <1>2, <1>6, <1>10, <1>11, <1>12, <1>13 DEF IInv, TypeOK, Consistent, Ready

\* RecoverExpired preserves the invariant.
LEMMA RecoverExpiredInv ==
  ASSUME IInv, RecoverExpired
  PROVE  IInv'
<1>1. job' \in [Jobs -> Row] /\ RowsInv(job', promised, clock) /\ Consistent(job')
  BY RecoveredInv DEF RecoverExpired
<1> QED BY <1>1 DEF RecoverExpired, IInv, TypeOK

\* LeaseTaskWorker preserves the invariant, with a new and with a stored lease.
LEMMA LeaseTaskWorkerInv ==
  ASSUME IInv, NEW j \in Jobs, NEW ttl \in Ttls, LeaseTaskWorker(j, ttl)
  PROVE  IInv'
<1> DEFINE t == Recovered
<1>1. t \in [Jobs -> Row] /\ RowsInv(t, promised, clock) /\ Consistent(t)
  BY RecoveredInv
<1>2. clock \in Nat /\ promised \in [Jobs -> Nat] /\ fair \in FairState
  BY DEF IInv, TypeOK
<1>3. UNCHANGED <<open, fair, clock>>
  BY DEF LeaseTaskWorker
<1>4. CASE job' = t /\ UNCHANGED promised
  BY <1>1, <1>3, <1>4 DEF IInv, TypeOK
<1>5. CASE /\ t[j].state = "queued"
           /\ job' = [t EXCEPT ![j] = Granted(@, ttl)]
           /\ promised' = [promised EXCEPT ![j] = clock + ttl]
  <2> DEFINE r == Granted(t[j], ttl)
  <2>1. t[j] \in Row /\ promised[j] \in Nat /\ RowInv(t[j], promised[j], clock)
    BY <1>1, <1>2 DEF RowsInv
  <2>2. r \in Row /\ RowInv(r, clock + ttl, clock)
    BY <1>2, <1>5, <2>1, GrantedRowInv
  <2>3. r.state = "leased" /\ r.deps = t[j].deps
    BY <2>1, Zenon DEF Granted, Row
  <2>4. job' = [t EXCEPT ![j] = r]
    BY <1>5
  <2>5. clock + ttl \in Nat
    BY <1>2, QueueAssumption
  <2> HIDE DEF r, t
  <2> QED BY <1>1, <1>2, <1>3, <1>5, <2>2, <2>3, <2>4, <2>5, LeaseStep, Zenon
<1> QED BY <1>4, <1>5 DEF LeaseTaskWorker

\* LeaseNext hands out a job that recovery left in the queue.
LEMMA LeasedCandidate ==
  ASSUME IInv, NEW p \in Pools, NEW ttl \in Ttls, LeaseNext(p, ttl), Candidates(Recovered, p) # {}
  PROVE  \E j \in Jobs : /\ Recovered[j].state = "queued"
                         /\ job' = [Recovered EXCEPT ![j] = Granted(@, ttl)]
                         /\ promised' = [promised EXCEPT ![j] = clock + ttl]
                         /\ fair' \in FairState
<1> DEFINE t == Recovered
           C == Candidates(t, p)
<1>1. t \in [Jobs -> Row] /\ RowsInv(t, promised, clock)
  BY RecoveredInv
<1>2. clock \in Nat /\ promised \in [Jobs -> Nat] /\ fair \in FairState
  BY DEF IInv, TypeOK
<1>3. PICK c \in Select(fair, clock, C).picked :
        /\ job' = [t EXCEPT ![c.id] = Granted(@, ttl)]
        /\ promised' = [promised EXCEPT ![c.id] = clock + ttl]
        /\ fair' = Select(fair, clock, C).fair
  BY DEF LeaseNext
<1>4. ASSUME NEW d \in C
      PROVE  /\ d.id \in Jobs /\ t[d.id].state = "queued"
             /\ d = [id |-> d.id, ws |-> t[d.id].ws, cost |-> 1, at |-> t[d.id].updated]
  <2>1. PICK j \in InState(t, "queued") :
          d = [id |-> j, ws |-> t[j].ws, cost |-> 1, at |-> t[j].updated]
    BY Zenon DEF Candidates
  <2>2. d.id = j
    BY <2>1
  <2> QED BY <2>1, <2>2, Zenon DEF InState
<1>5. ASSUME NEW d \in C
      PROVE  d \in Candidate /\ d.at <= clock
  <2>1. t[d.id] \in Row /\ RowInv(t[d.id], promised[d.id], clock) /\ d.id \in Nat
    BY <1>1, <1>4, QueueAssumption DEF RowsInv
  <2>2. t[d.id].updated \in Nat /\ t[d.id].updated <= clock
    BY <2>1, Zenon DEF Row, RowInv
  <2>3. t[d.id].ws \in Workspaces
    BY <2>1, <1>4 DEF RowInv, States, Pending
  <2> QED BY <1>4, <2>1, <2>2, <2>3 DEF Candidate
<1>6. CandidateSet(C)
  <2>1. ASSUME NEW d \in C, NEW e \in C, d.id = e.id PROVE d = e
    <3>1. /\ d = [id |-> d.id, ws |-> t[d.id].ws, cost |-> 1, at |-> t[d.id].updated]
          /\ e = [id |-> e.id, ws |-> t[e.id].ws, cost |-> 1, at |-> t[e.id].updated]
      BY <1>4
    <3> QED BY <2>1, <3>1, Zenon
  <2> QED BY <1>5, <2>1 DEF CandidateSet
<1>7. c \in C /\ fair' \in FairState
  <2>1. C # {} /\ \A d \in C : d.at <= clock
    BY <1>5
  <2> HIDE DEF C, t
  <2>2. /\ \E d \in C : Select(fair, clock, C).picked = {d}
        /\ Select(fair, clock, C).fair \in FairState
    BY <1>2, <1>6, <2>1, SelectPicks, Zenon
  <2> QED BY <1>3, <2>2, Zenon
<1>8. c.id \in Jobs /\ t[c.id].state = "queued"
  BY <1>4, <1>7
<1> QED BY <1>3, <1>7, <1>8, Zenon

\* LeaseNext, with and without a candidate.
LEMMA LeaseNextInv ==
  ASSUME IInv, NEW p \in Pools, NEW ttl \in Ttls, LeaseNext(p, ttl)
  PROVE  IInv'
<1> DEFINE t == Recovered
           C == Candidates(t, p)
<1>1. t \in [Jobs -> Row] /\ RowsInv(t, promised, clock) /\ Consistent(t)
  BY RecoveredInv
<1>2. clock \in Nat /\ promised \in [Jobs -> Nat] /\ fair \in FairState
  BY DEF IInv, TypeOK
<1>3. UNCHANGED <<open, clock>>
  BY DEF LeaseNext
<1>4. CASE C = {}
  <2>1. job' = t /\ UNCHANGED <<fair, promised>>
    BY <1>4 DEF LeaseNext
  <2> QED BY <1>1, <1>3, <2>1 DEF IInv, TypeOK
<1>5. CASE C # {}
  <2>1. PICK j \in Jobs : /\ t[j].state = "queued"
                          /\ job' = [t EXCEPT ![j] = Granted(@, ttl)]
                          /\ promised' = [promised EXCEPT ![j] = clock + ttl]
                          /\ fair' \in FairState
    BY <1>5, LeasedCandidate
  <2> DEFINE r == Granted(t[j], ttl)
  <2>2. t[j] \in Row /\ promised[j] \in Nat /\ RowInv(t[j], promised[j], clock)
    BY <1>1, <1>2 DEF RowsInv
  <2>3. r \in Row /\ RowInv(r, clock + ttl, clock)
    BY <1>2, <2>1, <2>2, GrantedRowInv
  <2>4. r.state = "leased" /\ r.deps = t[j].deps
    BY <2>2, Zenon DEF Granted, Row
  <2>5. job' = [t EXCEPT ![j] = r]
    BY <2>1
  <2>6. clock + ttl \in Nat
    BY <1>2, QueueAssumption
  <2> HIDE DEF r, t
  <2> QED BY <1>1, <1>2, <1>3, <2>1, <2>3, <2>4, <2>5, <2>6, LeaseStep, Zenon
<1> QED BY <1>4, <1>5

\* Time passing preserves the invariant.
LEMMA TickInv ==
  ASSUME IInv, Tick
  PROVE  IInv'
<1>1. /\ clock \in Nat /\ clock' = clock + 1 /\ UNCHANGED <<job, open, fair, promised>>
      /\ job \in [Jobs -> Row] /\ promised \in [Jobs -> Nat]
  BY DEF Tick, IInv, TypeOK
<1>2. clock' \in Nat /\ clock <= clock'
  BY <1>1
<1>3. RowsInv(job, promised, clock')
  BY <1>1, <1>2, LaterRowInv DEF IInv, RowsInv
<1> QED BY <1>1, <1>2, <1>3 DEF IInv, TypeOK

\* Stopping and opening preserve the invariant: the rows are durable and the
\* new scheduler is well formed.
LEMMA StopOpenInv ==
  ASSUME IInv, Stop \/ Open
  PROVE  IInv'
<1>1. UNCHANGED <<job, clock, promised>> /\ open' \in BOOLEAN /\ fair' = NewFairScheduler
  BY Zenon DEF Stop, Open
<1>2. NewFairScheduler \in FairState
  BY FairAssumption DEF NewFairScheduler, FairState
<1> QED BY <1>1, <1>2 DEF IInv, TypeOK

\* Every operation preserves the invariant.
THEOREM NextInv == IInv /\ [Next]_vars => IInv'
<1> SUFFICES ASSUME IInv, [Next]_vars PROVE IInv'
  OBVIOUS
<1>1. ASSUME NEW j \in Jobs, NEW k \in Keys, NEW w \in Workspaces, NEW p \in Pools,
             NEW D \in SUBSET Jobs, Enqueue(j, k, w, p, D)
      PROVE  IInv'
  BY <1>1, EnqueueInv
<1>2. ASSUME NEW J \in SUBSET Jobs, NEW w \in Workspaces, NEW p \in Pools, NEW key \in [J -> Keys],
             CreateTask(J, key, w, p)
      PROVE  IInv'
  BY <1>2, CreateTaskInv
<1>3. ASSUME NEW p \in Pools, NEW ttl \in Ttls, LeaseNext(p, ttl) PROVE IInv'
  BY <1>3, LeaseNextInv
<1>4. ASSUME NEW j \in Jobs, NEW ttl \in Ttls, LeaseTaskWorker(j, ttl) PROVE IInv'
  BY <1>4, LeaseTaskWorkerInv
<1>5. CASE RecoverExpired
  BY <1>5, RecoverExpiredInv
<1>6. ASSUME NEW j \in Jobs, NEW ttl \in Ttls, NEW f \in 1..job[j].fence, Heartbeat(j, f, ttl)
      PROVE  IInv'
  BY <1>6, HeartbeatInv
<1>7. ASSUME NEW j \in Jobs, NEW o \in Terminal, NEW f \in 1..job[j].fence, Complete(j, f, o)
      PROVE  IInv'
  BY <1>7, CompleteInv
<1>8. ASSUME NEW j \in Jobs, Cancel(j) PROVE IInv'
  BY <1>8, CancelInv
<1>9. ASSUME NEW j \in Jobs, FailUnstartedTaskWorker(j) PROVE IInv'
  BY <1>9, FailUnstartedInv
<1>10. ASSUME NEW X \in SUBSET Jobs, CleanupTerminal(X) PROVE IInv'
  BY <1>10, CleanupInv
<1>11. CASE Stop \/ Open
  BY <1>11, StopOpenInv
<1>12. CASE Tick
  BY <1>12, TickInv
<1>13. CASE UNCHANGED vars
  BY <1>13 DEF vars, IInv, TypeOK, RowsInv, Consistent, Ready, Refs, Started, FailureCause,
               BlockedCause, Present, PendingJobs, InState, Bad
<1> QED BY <1>1, <1>2, <1>3, <1>4, <1>5, <1>6, <1>7, <1>8, <1>9, <1>10, <1>11, <1>12, <1>13
        DEF Next

\* The invariant holds in every reachable state.
THEOREM Invariance == Spec => []IInv
<1>1. Init => IInv
  BY InitInv
<1>2. IInv /\ [Next]_vars => IInv'
  BY NextInv
<1> QED BY <1>1, <1>2, PTL DEF Spec

\* The table always holds rows of the schema.
THEOREM TypeCorrect == Spec => []TypeOK
<1>1. IInv => TypeOK
  BY DEF IInv
<1> QED BY <1>1, Invariance, PTL

\* For any dependency graph and any order of completions, cancellations,
\* expirations and restarts: no job runs before its dependencies succeeded, no
\* job stays blocked without an undecided dependency, none fails for its
\* dependencies without a failed one.
THEOREM DependenciesConsistent == Spec => []DependencyConsistency
<1>1. IInv => DependencyConsistency
  BY Zenon DEF IInv, Consistent, Ready, Started, FailureCause, BlockedCause, DependencyConsistency,
         BlockedHasCause, StartedAfterDependencies, DependencyFailureHasCause
<1> QED BY <1>1, Invariance, PTL

\* No operation ever leaves a row that validateStoredJob refuses.
THEOREM RowsReadable == Spec => []StoredJobsValid
<1>1. IInv => StoredJobsValid
  BY Zenon DEF IInv, RowsInv, RowInv, StoredJobsValid, Present
<1> QED BY <1>1, Invariance, PTL

\* A late worker never decides the outcome of a job that was leased again.
THEOREM FencingDecides == Spec => []NewestLeaseDecides
<1>1. IInv => NewestLeaseDecides
  BY DEF IInv, RowsInv, RowInv, NewestLeaseDecides
<1> QED BY <1>1, Invariance, PTL

\* A job is leased at most MaxLeaseAttempts times.
THEOREM LeasesBounded == Spec => []AttemptsBounded
<1>1. IInv => AttemptsBounded
  BY DEF IInv, RowsInv, RowInv, AttemptsBounded
<1> QED BY <1>1, Invariance, PTL
=============================================================================
