-------------------------- MODULE EdgeWorkerProofs -------------------------
(***************************************************************************)
(* The steps of the Edge agent's workers keep the inductive invariant AInv *)
(* of EdgeAgent, provided that the journal does to its table only what     *)
(* JournalPromise says.  EdgeAgentProofs shows that it does, and draws the *)
(* conclusions.                                                            *)
(*                                                                         *)
(* The invariant speaks of each operation and what was done for it, of     *)
(* each worker, of every two workers, of each request under way, and of a  *)
(* request and a worker; Frame shows that only the workers that act and    *)
(* the requests that are sent in a step need be looked at.                 *)
(***************************************************************************)
EXTENDS EdgeAgent, TLAPS

-----------------------------------------------------------------------------
(* The requests.                                                           *)

\* The requests.
LEMMA CallFields ==
  ASSUME NEW m \in LateCalls
  PROVE  /\ m.call \in {"probe", "stamped", "progress", "complete", "cancel"}
         /\ m.call \in {"probe", "stamped"} => m.o = 0
         /\ m.call \notin {"probe", "stamped"} => m.o \in Ops
         /\ m.l \in Nat /\ m.rev \in Nat
         /\ m.call = "complete" => m.arg \in ReportCodes
         /\ m.call = "progress" => m.arg \in Phases
  BY DEF LateCalls, ReportCodes

\* A request that is handled, by what it asks for.
LEMMA ServedByCall ==
  ASSUME NEW m, op \in [Ops -> OpRow]
  PROVE  /\ ~Accepted(m) => Served(m) = op
         /\ m.call = "probe" => Served(m) = AfterLease(FALSE, CHOOSE ttl \in LeaseTtls : TRUE)
         /\ m.call = "stamped" => Served(m) = AfterLease(TRUE, CHOOSE ttl \in LeaseTtls : TRUE)
         /\ Accepted(m) /\ m.call = "progress" =>
              Served(m) = [op EXCEPT ![m.o] = ProgressRow(op[m.o], m.rev, m.arg)]
         /\ Accepted(m) /\ m.call = "complete" => Served(m) = [op EXCEPT ![m.o] = CompletedRow(op[m.o], m.arg)]
         /\ Accepted(m) /\ m.call = "cancel" => Served(m) = [op EXCEPT ![m.o] = AcknowledgedRow(op[m.o])]
<1>1. ~Accepted(m) => Served(m) = op
  BY DEF Served
<1>2. ASSUME m.call = "probe"
      PROVE  Served(m) = AfterLease(FALSE, CHOOSE ttl \in LeaseTtls : TRUE)
  <2>1. Accepted(m) /\ (m.call = "stamped") = FALSE
    BY <1>2 DEF Accepted
  <2> QED BY <1>2, <2>1, Zenon DEF Served
<1>3. ASSUME m.call = "stamped"
      PROVE  Served(m) = AfterLease(TRUE, CHOOSE ttl \in LeaseTtls : TRUE)
  <2>1. Accepted(m) /\ (m.call = "stamped") = TRUE
    BY <1>3 DEF Accepted
  <2> QED BY <1>3, <2>1, Zenon DEF Served
<1>4. ASSUME Accepted(m), m.call = "progress"
      PROVE  Served(m) = [op EXCEPT ![m.o] = ProgressRow(op[m.o], m.rev, m.arg)]
  BY <1>4 DEF Served
<1>5. ASSUME Accepted(m), m.call = "complete"
      PROVE  Served(m) = [op EXCEPT ![m.o] = CompletedRow(op[m.o], m.arg)]
  BY <1>5 DEF Served
<1>6. ASSUME Accepted(m), m.call = "cancel"
      PROVE  Served(m) = [op EXCEPT ![m.o] = AcknowledgedRow(op[m.o])]
  BY <1>6 DEF Served
<1> QED BY <1>1, <1>2, <1>3, <1>4, <1>5, <1>6, Zenon

-----------------------------------------------------------------------------
(* The rows, and what the journal promises of them.                        *)

\* The fields of a row that the workers rely on.
LEMMA RowTypes ==
  ASSUME NEW r \in OpRow
  PROVE  /\ r.state \in OpStates \cup {"absent", "pruned"} /\ r.cancel \in BOOLEAN
         /\ r.progress \in Nat /\ r.attempts \in Nat /\ r.lease \in Nat /\ r.until \in Nat
  BY DEF OpRow

\* The rows of the table are good ones.
LEMMA GoodRows ==
  ASSUME StateInv
  PROVE  /\ op \in [Ops -> OpRow] /\ clock \in Nat \ {0}
         /\ \A o \in Ops : GoodRow(op[o]) /\ op[o] \in OpRow
  BY DEF StateInv, JInv, JournalTypeOK, GoodRow

\* What a request that is handled does to the table: only a completion or an
\* acknowledgement takes a lease away, from the one who presents it, and only
\* a completion without error records a success.
HandledKindly(m) ==
  /\ TableOnward
  /\ \A p \in Ops : \/ Calm(op[p], op'[p])
                    \/ p = m.o /\ m.call \in {"complete", "cancel"} /\ Held(m.o, m.l)
  /\ \A p \in Ops : op'[p].state = "succeeded" =>
       op[p].state = "succeeded" \/ (p = m.o /\ m.call = "complete" /\ m.arg = "none")

\* What granting a lease does: its number is one that was not issued before.
LeasedFreshly(compatible) ==
  /\ TableOnward /\ \A o \in Ops : Calm(op[o], op'[o])
  /\ ~Skewed(Normalized, compatible) =>
       \A o \in NextOf(Normalized, compatible) :
         /\ o \in Ops /\ op'[o].state = "leased" /\ op'[o].attempts = Normalized[o].attempts + 1
         /\ Normalized[o].attempts \in Nat /\ op[o].attempts <= Normalized[o].attempts
         /\ op[o].state # "absent"

\* What a report does: the lease is renewed and evidence recorded.
ReportRenews(o, l) ==
  /\ TableOnward /\ \A p \in Ops : Calm(op[p], op'[p])
  /\ op'[o].state = "leased" /\ op'[o].lease = l /\ op'[o].until > clock + 1
  /\ op'[o].progress # 0 /\ op'[o].kind = op[o].kind /\ op'[o].attempts = op[o].attempts

\* The step the journal takes is one of its own.
JournalPromise ==
  /\ op' = op => TableOnward /\ \A o \in Ops : Calm(op[o], op'[o])
  /\ clock' = clock => \A m \in LateCalls : op' = Served(m) => HandledKindly(m)
  /\ clock' = clock => \A compatible \in BOOLEAN, ttl \in LeaseTtls :
       op' = AfterLease(compatible, ttl) => LeasedFreshly(compatible)
  /\ \A o \in Ops, revision \in Nat : \A l, phase :
       CanReport(o, l, revision) /\ op' = [op EXCEPT ![o] = ProgressRow(op[o], revision, phase)] => ReportRenews(o, l)
  /\ Client => TableOnward /\ (\A o \in Ops : Calm(op[o], op'[o])) /\ clock' = clock
  /\ Tick => JInv'

\* The promise for a table that is left alone.
LEMMA SamePromise ==
  ASSUME JournalPromise, op' = op
  PROVE  TableOnward /\ \A o \in Ops : Calm(op[o], op'[o])
  BY DEF JournalPromise

\* The promise for a request that is handled.
LEMMA ServedPromise ==
  ASSUME JournalPromise, NEW m \in LateCalls, op' = Served(m), clock' = clock
  PROVE  /\ TableOnward
         /\ \A p \in Ops : \/ Calm(op[p], op'[p])
                           \/ p = m.o /\ m.call \in {"complete", "cancel"} /\ Held(m.o, m.l)
         /\ \A p \in Ops : op'[p].state = "succeeded" =>
              op[p].state = "succeeded" \/ (p = m.o /\ m.call = "complete" /\ m.arg = "none")
<1>1. HandledKindly(m)
  BY Zenon DEF JournalPromise
<1> QED BY <1>1, Zenon DEF HandledKindly

\* The promise for a lease that is granted.
LEMMA LeasePromise ==
  ASSUME JournalPromise, NEW compatible \in BOOLEAN, NEW ttl \in LeaseTtls,
         op' = AfterLease(compatible, ttl), clock' = clock
  PROVE  /\ TableOnward /\ \A o \in Ops : Calm(op[o], op'[o])
         /\ ~Skewed(Normalized, compatible) =>
              \A o \in NextOf(Normalized, compatible) :
                /\ o \in Ops /\ op'[o].state = "leased" /\ op'[o].attempts = Normalized[o].attempts + 1
                /\ Normalized[o].attempts \in Nat /\ op[o].attempts <= Normalized[o].attempts
                /\ op[o].state # "absent"
<1>1. LeasedFreshly(compatible)
  BY Zenon DEF JournalPromise
<1> QED BY <1>1, Zenon DEF LeasedFreshly

\* The promise for a report.
LEMMA ReportPromise ==
  ASSUME JournalPromise, NEW o \in Ops, NEW l, NEW revision \in Nat, NEW phase, CanReport(o, l, revision),
         op' = [op EXCEPT ![o] = ProgressRow(op[o], revision, phase)]
  PROVE  /\ TableOnward /\ \A p \in Ops : Calm(op[p], op'[p])
         /\ op'[o].state = "leased" /\ op'[o].lease = l /\ op'[o].until > clock + 1
         /\ op'[o].progress # 0 /\ op'[o].kind = op[o].kind /\ op'[o].attempts = op[o].attempts
<1>1. ReportRenews(o, l)
  BY Zenon DEF JournalPromise
<1> QED BY <1>1, Zenon DEF ReportRenews

\* The promise for the calls of clients.
LEMMA ClientPromise ==
  ASSUME JournalPromise, Client
  PROVE  TableOnward /\ (\A o \in Ops : Calm(op[o], op'[o])) /\ clock' = clock
  BY Zenon DEF JournalPromise

\* The promise for the passing of time.
LEMMA TickPromise ==
  ASSUME JournalPromise, Tick
  PROVE  JInv'
  BY Zenon DEF JournalPromise


-----------------------------------------------------------------------------
(* What a step leaves alone.                                               *)

\* An operation whose row goes onward and for which nothing new is done.
LEMMA RowMono ==
  ASSUME NEW r, NEW s, NEW g, GoodRow(r), GoodRow(s), Onward(r, s), RowOK(r, g), g \in Deeds,
         s.state = "succeeded" => r.state = "succeeded" \/ r.kind \in Repeatable \/ g.earned
  PROVE  RowOK(s, g)
<1>1. /\ r.state \in OpStates \cup {"absent"} /\ s.state \in OpStates \cup {"absent"}
      /\ r.progress \in Nat /\ s.progress \in Nat /\ g.begun \in Nat
      /\ "absent" \notin OpStates /\ "queued" # "succeeded"
  BY RowTypes DEF GoodRow, Deeds, OpStates, Live, Done
<1>2. CASE r.state = "absent"
  <2>1. s.state \in {"absent", "queued"} /\ g.begun = 0
    BY <1>2 DEF Onward, RowOK
  <2> QED BY <1>1, <2>1 DEF RowOK
<1>3. CASE r.state \in OpStates
  <2>1. s.state \in OpStates /\ s.kind = r.kind /\ (r.kind \notin Repeatable /\ r.progress # 0 => s.progress # 0)
    BY <1>1, <1>3 DEF Onward
  <2> QED BY <1>1, <1>3, <2>1 DEF RowOK
<1> QED BY <1>1, <1>2, <1>3

\* A worker that presents a stored operation.
LEMMA PresentsRow ==
  ASSUME NEW p \in WorkerState, NEW t, Busy(p), Presents(p, t)
  PROVE  p.o \in Ops /\ t[p.o].state \in OpStates /\ t[p.o].state # "absent" /\ p.l \in Nat
  BY DEF Presents, Stored, WorkerState, OpStates, Live, Done

\* The rows of another table u that come after those of t: what presenting a
\* lease of a stored operation relies on.
Follows(t, u) == \A o \in Ops : Onward(t[o], u[o]) /\ t[o].attempts \in Nat /\ u[o].attempts \in Nat

\* A worker that does nothing, while its row goes onward and keeps its lease.
LEMMA WorkerMono ==
  ASSUME NEW p \in WorkerState, NEW t, NEW u, NEW h, NEW g, NEW halting, NEW halts,
         clock \in Nat, Follows(t, u), \A o \in Ops : t[o].until \in Nat /\ u[o].until \in Nat,
         WorkerOK(p, t, h, clock, halting),
         halting => halts,
         \A o \in Ops : h[o].earned => g[o].earned,
         Busy(p) /\ p.ex = "gate" /\ t[p.o].kind \notin Repeatable => g[p.o].begun = h[p.o].begun,
         p.pc = "loop" /\ ~p.stop /\ t[p.o].kind \in Timely => Renewed(t[p.o], u[p.o])
  PROVE  WorkerOK(p, u, g, clock, halts)
<1>1. Shape(p, halts)
  BY DEF WorkerOK, Shape
<1>2. CASE ~Busy(p)
  <2>1. p.pc # "loop"
    BY <1>2 DEF Busy
  <2> QED BY <1>1, <1>2, <2>1, Zenon DEF WorkerOK, Presents, GateOK, EffectOK, SuccessOK, HoldOK
<1>3. CASE Busy(p)
  <2>1. p.o \in Ops /\ t[p.o].state # "absent" /\ p.l \in Nat /\ p.l >= 1 /\ p.l <= t[p.o].attempts
    BY <1>3, PresentsRow DEF WorkerOK, Presents
  <2>2. /\ u[p.o].state \in OpStates /\ u[p.o].kind = t[p.o].kind /\ u[p.o].attempts >= t[p.o].attempts
        /\ t[p.o].kind \notin Repeatable /\ t[p.o].progress # 0 => u[p.o].progress # 0
        /\ t[p.o].attempts \in Nat /\ u[p.o].attempts \in Nat
    BY <2>1, Zenon DEF Follows, Onward
  <2>3. Presents(p, u)
    BY <2>1, <2>2 DEF Presents, Stored
  <2>4. GateOK(p, u)
    BY <2>2, Zenon DEF WorkerOK, GateOK
  <2>5. EffectOK(p, u, g)
    BY <1>3, <2>2, Zenon DEF WorkerOK, EffectOK
  <2>6. SuccessOK(p, u, g)
    BY <2>1, <2>2, Zenon DEF WorkerOK, SuccessOK
  <2>7. HoldOK(p, u, clock)
    <3>1. SUFFICES ASSUME p.pc = "loop", ~p.stop, t[p.o].kind \in Timely
                   PROVE  /\ u[p.o].state = "leased" /\ u[p.o].lease = p.l /\ u[p.o].until > clock
                          /\ p.beat => u[p.o].until > clock + 1
      BY <2>2 DEF HoldOK
    <3>2. /\ t[p.o].state = "leased" /\ t[p.o].lease = p.l /\ t[p.o].until > clock
          /\ p.beat => t[p.o].until > clock + 1
      BY <3>1 DEF WorkerOK, HoldOK
    <3>3. /\ u[p.o].state = "leased" /\ u[p.o].lease = t[p.o].lease /\ u[p.o].until > clock
          /\ u[p.o].until >= t[p.o].until \/ u[p.o].until > clock + 1
      BY <3>1, <3>2 DEF Renewed
    <3>4. t[p.o].until \in Nat /\ u[p.o].until \in Nat
      BY <2>1
    <3> QED BY <3>2, <3>3, <3>4
  <2> QED BY <1>1, <2>3, <2>4, <2>5, <2>6, <2>7 DEF WorkerOK
<1> QED BY <1>2, <1>3

\* Two workers that do nothing.
LEMMA PairMono ==
  ASSUME NEW p \in WorkerState, NEW r, NEW t, NEW u, Follows(t, u), Presents(p, t), PairOK(p, r, t)
  PROVE  PairOK(p, r, u)
<1>1. CASE ~Busy(p)
  BY <1>1 DEF PairOK
<1>2. CASE Busy(p)
  <2>1. p.o \in Ops /\ t[p.o].state # "absent"
    BY <1>2, PresentsRow
  <2>2. u[p.o].kind = t[p.o].kind
    BY <2>1 DEF Follows, Onward
  <2> QED BY <2>2 DEF PairOK
<1> QED BY <1>1, <1>2

\* A request that stays under way.
LEMMA LateMono ==
  ASSUME NEW m \in LateCalls, NEW t, NEW u, NEW h, NEW g, Follows(t, u), LateOK(m, t, h),
         \A o \in Ops : h[o].earned => g[o].earned
  PROVE  LateOK(m, u, g)
<1> SUFFICES ASSUME m.o # 0 PROVE LateOK(m, u, g)
  BY DEF LateOK
<1>1. m.o \in Ops /\ t[m.o].state \in OpStates /\ m.l >= 1 /\ m.l <= t[m.o].attempts /\ m.l \in Nat
  BY CallFields DEF LateOK, Stored
<1>2. /\ u[m.o].state \in OpStates /\ u[m.o].kind = t[m.o].kind /\ u[m.o].attempts >= t[m.o].attempts
      /\ t[m.o].attempts \in Nat /\ u[m.o].attempts \in Nat
  BY <1>1 DEF Follows, Onward, OpStates, Live, Done
<1> QED BY <1>1, <1>2 DEF LateOK, Stored

\* The parts of the invariant.
LEMMA TypedState ==
  ASSUME AInv
  PROVE  /\ StateInv /\ op \in [Ops -> OpRow] /\ clock \in Nat /\ hist \in [Ops -> Deeds]
         /\ \A o \in Ops : GoodRow(op[o]) /\ op[o].attempts \in Nat /\ op[o].until \in Nat /\ hist[o] \in Deeds
         /\ wk \in [Workers -> WorkerState] /\ \A w \in Workers : wk[w] \in WorkerState
         /\ late \subseteq LateCalls
<1>1. StateInv
  BY DEF AInv
<1>2. op \in [Ops -> OpRow] /\ clock \in Nat /\ \A o \in Ops : GoodRow(op[o]) /\ op[o] \in OpRow
  BY <1>1, GoodRows
<1>3. \A o \in Ops : op[o].attempts \in Nat /\ op[o].until \in Nat
  BY <1>2, RowTypes
<1>4. wk \in [Workers -> WorkerState] /\ late \subseteq LateCalls /\ hist \in [Ops -> Deeds]
  BY <1>1 DEF StateInv
<1> QED BY <1>1, <1>2, <1>3, <1>4

\* The table stays typed.
LEMMA NextTable ==
  ASSUME StateInv, TableOnward, clock' = clock
  PROVE  /\ JInv' /\ (\A o \in Ops : op'[o].state # "pruned")
         /\ \A o \in Ops : GoodRow(op'[o]) /\ op'[o].attempts \in Nat /\ op'[o].until \in Nat
         /\ Follows(op, op')
<1>1. clock \in Nat \ {0} /\ op' \in [Ops -> OpRow] /\ RequestInv(op')
  BY GoodRows DEF TableOnward, TableStep
<1>2. \A o \in Ops : RowInv(op'[o], clock) /\ op'[o] \in OpRow
  BY DEF TableOnward, TableStep, RowStep
<1>3. JInv'
  BY <1>1, <1>2 DEF JInv, JournalTypeOK
<1>4. \A o \in Ops : op'[o].state # "pruned" /\ Onward(op[o], op'[o])
  BY DEF TableOnward, Onward
<1>5. \A o \in Ops : op'[o].attempts \in Nat /\ op'[o].until \in Nat /\ op[o].attempts \in Nat
  BY <1>2, RowTypes, GoodRows
<1> QED BY <1>2, <1>3, <1>4, <1>5 DEF GoodRow, Follows

\* A worker that does nothing in a step is not disturbed by it.
Undisturbed(v) ==
  /\ wk'[v] = wk[v]
  /\ Busy(wk[v]) /\ wk[v].ex = "gate" /\ op[wk[v].o].kind \notin Repeatable =>
       hist'[wk[v].o].begun = hist[wk[v].o].begun
  /\ wk[v].pc = "loop" /\ ~wk[v].stop /\ op[wk[v].o].kind \in Timely => Renewed(op[wk[v].o], op'[wk[v].o])

\* A step in which the workers in W act and the requests in M are sent.
LEMMA Frame ==
  ASSUME AInv, StateInv', TableOnward, clock' = clock, stopping => stopping',
         \A o \in Ops : RowOK(op'[o], hist'[o]) /\ (hist[o].earned => hist'[o].earned),
         NEW W \in SUBSET Workers, \A v \in Workers \ W : Undisturbed(v),
         \A w \in W : /\ WorkerOK(wk'[w], op', hist', clock, stopping')
                      /\ \A v \in Workers \ {w} : PairOK(wk'[w], wk'[v], op') /\ PairOK(wk'[v], wk'[w], op'),
         NEW M, late' \subseteq late \cup M,
         \A m \in M : LateOK(m, op', hist') /\ \A v \in Workers : LatePairOK(m, wk'[v]),
         \A m \in late, w \in W : m \in late' => LatePairOK(m, wk'[w])
  PROVE  AInv'
<1>1. /\ StateInv /\ clock \in Nat /\ (\A o \in Ops : op[o].until \in Nat) /\ late \subseteq LateCalls
      /\ \A w \in Workers : wk[w] \in WorkerState
  BY TypedState, Zenon
<1>2. Follows(op, op') /\ \A o \in Ops : op'[o].until \in Nat
  BY <1>1, NextTable, Zenon
<1>3. \A w \in Workers : WorkerOK(wk[w], op, hist, clock, stopping)
  BY DEF AInv
<1>4. ASSUME NEW w \in Workers PROVE WorkerOK(wk'[w], op', hist', clock', stopping')
  <2>1. CASE w \in W
    BY <2>1
  <2>2. CASE w \notin W
    <3>1. Undisturbed(w)
      BY <2>2
    <3>2. wk'[w] = wk[w]
      BY <3>1, Zenon DEF Undisturbed
    <3>3. WorkerOK(wk[w], op', hist', clock, stopping')
      BY <1>1, <1>2, <1>3, <3>1, WorkerMono, Zenon DEF Undisturbed
    <3> QED BY <3>2, <3>3
  <2> QED BY <2>1, <2>2
<1>5. ASSUME NEW v \in Workers, NEW w \in Workers, v # w PROVE PairOK(wk'[v], wk'[w], op')
  <2>1. CASE v \in W
    BY <1>5, <2>1
  <2>2. CASE w \in W
    BY <1>5, <2>2
  <2>3. CASE v \notin W /\ w \notin W
    <3>1. wk'[v] = wk[v] /\ wk'[w] = wk[w]
      BY <2>3, Zenon DEF Undisturbed
    <3>2. PairOK(wk[v], wk[w], op) /\ Presents(wk[v], op)
      BY <1>3, <1>5, Zenon DEF AInv, WorkerOK
    <3> QED BY <1>1, <1>2, <3>1, <3>2, PairMono, Zenon
  <2> QED BY <2>1, <2>2, <2>3, Zenon
<1>6. ASSUME NEW m \in late' PROVE LateOK(m, op', hist')
  <2>1. CASE m \in M
    BY <2>1
  <2>2. CASE m \in late
    <3>1. LateOK(m, op, hist) /\ m \in LateCalls
      BY <1>1, <2>2 DEF AInv
    <3> QED BY <1>2, <3>1, LateMono, Zenon
  <2> QED BY <2>1, <2>2, Zenon
<1>7. ASSUME NEW m \in late', NEW w \in Workers PROVE LatePairOK(m, wk'[w])
  <2>1. CASE m \in M
    BY <2>1
  <2>2. CASE m \in late /\ w \in W
    BY <2>2
  <2>3. CASE m \in late /\ w \notin W
    <3>1. wk'[w] = wk[w]
      BY <2>3, Zenon DEF Undisturbed
    <3> QED BY <2>3, <3>1, Zenon DEF AInv
  <2> QED BY <2>1, <2>2, <2>3, Zenon
<1> QED BY <1>4, <1>5, <1>6, <1>7, Zenon DEF AInv

\* A step in which no worker acts and no request is sent.
LEMMA NobodyActs ==
  ASSUME AInv, StateInv', TableOnward, clock' = clock, stopping => stopping', late' \subseteq late,
         \A o \in Ops : RowOK(op'[o], hist'[o]) /\ (hist[o].earned => hist'[o].earned),
         \A v \in Workers : Undisturbed(v)
  PROVE  AInv'
<1> DEFINE W == {}
           M == {}
<1>1. /\ W \in SUBSET Workers /\ \A v \in Workers \ W : Undisturbed(v)
      /\ \A w \in W : /\ WorkerOK(wk'[w], op', hist', clock, stopping')
                      /\ \A v \in Workers \ {w} : PairOK(wk'[w], wk'[v], op') /\ PairOK(wk'[v], wk'[w], op')
      /\ late' \subseteq late \cup M
      /\ \A m \in M : LateOK(m, op', hist') /\ \A v \in Workers : LatePairOK(m, wk'[v])
      /\ \A m \in late, w \in W : m \in late' => LatePairOK(m, wk'[w])
  BY Zenon
<1> HIDE DEF W, M
<1> QED BY <1>1, Frame, Zenon

\* The files and the unit keep their types.
FilesTyped ==
  /\ receipt' \in Ops \cup {0} /\ temp' \in BOOLEAN /\ stopping' \in BOOLEAN
  /\ unit' \in [state: {"idle", "active", "failed"}, by: Ops \cup {0}]

\* A step that keeps the rows and the types of the files keeps the types.
LEMMA NextState ==
  ASSUME StateInv, TableOnward, clock' = clock, wk' \in [Workers -> WorkerState], late' \subseteq LateCalls,
         FilesTyped, hist' \in [Ops -> Deeds]
  PROVE  StateInv'
<1>1. JInv' /\ \A o \in Ops : op'[o].state # "pruned"
  BY NextTable
<1> QED BY <1>1 DEF StateInv, FilesTyped

\* Files that stay keep their types.
LEMMA SameFiles ==
  ASSUME StateInv, UNCHANGED <<receipt, temp, unit, stopping>>
  PROVE  FilesTyped
  BY DEF StateInv, FilesTyped

\* A worker without a lease.
LEMMA IdleOK ==
  ASSUME NEW p, p = Idle \/ p = [Idle EXCEPT !.pc = "stamp"]
  PROVE  /\ p \in WorkerState /\ ~Busy(p)
         /\ \A t, h, now, halting : WorkerOK(p, t, h, now, halting)
         /\ \A r, t : PairOK(p, r, t) /\ PairOK(r, p, t)
         /\ \A m : LatePairOK(m, p)
<1>1. /\ p \in WorkerState /\ ~Busy(p) /\ p.pc \in {"poll", "stamp"} /\ p.ex = "none" /\ p.gate = "free"
  <2>1. CASE p = Idle
    BY <2>1 DEF Idle, WorkerState, Pcs, Exs, Busy
  <2>2. CASE p = [Idle EXCEPT !.pc = "stamp"]
    <3>1. p = [pc |-> "stamp", ex |-> "none", o |-> 0, l |-> 0, rev |-> 0, cancel |-> FALSE, stop |-> FALSE,
               code |-> "none", gate |-> "free", beat |-> TRUE]
      BY <2>2, Zenon DEF Idle
    <3> QED BY <3>1 DEF WorkerState, Pcs, Exs, Busy
  <2> QED BY <2>1, <2>2
<1>2. \A halting : Shape(p, halting)
  BY <1>1 DEF Shape, InTheUnit
<1>3. \A t, h, now : Presents(p, t) /\ GateOK(p, t) /\ EffectOK(p, t, h) /\ SuccessOK(p, t, h) /\ HoldOK(p, t, now)
  BY <1>1 DEF Presents, GateOK, EffectOK, SuccessOK, HoldOK
<1>4. \A r, t : PairOK(p, r, t) /\ PairOK(r, p, t)
  BY <1>1 DEF PairOK
<1>5. \A m : LatePairOK(m, p)
  BY <1>1 DEF LatePairOK
<1> QED BY <1>1, <1>2, <1>3, <1>4, <1>5 DEF WorkerOK

\* A worker that goes on with its lease.
Descends(p, r) ==
  /\ Busy(r) /\ p.o = r.o /\ p.l = r.l
  /\ p.gate # "free" => p.gate = r.gate
  /\ p.ex # "none" => r.ex # "none"
  /\ p.pc \in {"start", "loop"} => r.pc \in {"start", "loop"}

\* A worker that goes on stays compatible with the others.
LEMMA DescendsPair ==
  ASSUME NEW p, NEW r, NEW q, NEW t, Descends(p, r), PairOK(r, q, t), PairOK(q, r, t)
  PROVE  PairOK(p, q, t) /\ PairOK(q, p, t)
  BY DEF Descends, PairOK

\* A worker that goes on stays compatible with the requests under way.
LEMMA DescendsLate ==
  ASSUME NEW p, NEW r, NEW m, Descends(p, r), LatePairOK(m, r)
  PROVE  LatePairOK(m, p)
  BY DEF Descends, LatePairOK

-----------------------------------------------------------------------------
(* The steps of a worker.                                                  *)

\* No other worker that counts on its lease loses it.
OthersKeep(w) ==
  \A v \in Workers \ {w} :
    wk[v].pc = "loop" /\ ~wk[v].stop /\ op[wk[v].o].kind \in Timely => Renewed(op[wk[v].o], op'[wk[v].o])

\* A success that is recorded was earned.
EarnedStep ==
  \A o \in Ops : op'[o].state = "succeeded" =>
    op[o].state = "succeeded" \/ op[o].kind \in Repeatable \/ hist[o].earned

\* A request that may be sent besides the other workers.
Sendable(w, m) ==
  m \in LateCalls /\ LateOK(m, op, hist) /\ \A v \in Workers \ {w} : LatePairOK(m, wk[v])

\* Worker w takes a step to p, with at most the request m left behind, and does
\* nothing for its operation.
LEMMA WorkerStep ==
  ASSUME AInv, NEW w \in Workers, NEW p \in WorkerState, Set(w, p),
         TableOnward, clock' = clock, stopping' = stopping, hist' = hist, FilesTyped,
         EarnedStep, OthersKeep(w),
         WorkerOK(p, op', hist, clock, stopping),
         \A v \in Workers \ {w} : PairOK(p, wk[v], op) /\ PairOK(wk[v], p, op),
         Busy(p) => p.o \in Ops /\ op[p.o].state # "absent",
         NEW m, late' \subseteq late \cup {m}, m \in late' \ late => Sendable(w, m),
         \A k \in late' : LatePairOK(k, p)
  PROVE  AInv'
<1>1. /\ StateInv /\ wk \in [Workers -> WorkerState] /\ late \subseteq LateCalls /\ hist \in [Ops -> Deeds]
      /\ \A o \in Ops : GoodRow(op[o]) /\ hist[o] \in Deeds
      /\ \A v \in Workers : wk[v] \in WorkerState
  BY TypedState
<1>2. wk'[w] = p /\ (\A v \in Workers \ {w} : wk'[v] = wk[v]) /\ wk' \in [Workers -> WorkerState]
  BY <1>1, Zenon DEF Set
<1>3. late' \subseteq LateCalls
  BY <1>1 DEF Sendable
<1>4. StateInv'
  BY <1>1, <1>2, <1>3, NextState, Zenon
<1>5. Follows(op, op') /\ \A o \in Ops : GoodRow(op'[o]) /\ Onward(op[o], op'[o])
  BY <1>1, NextTable, Zenon DEF TableOnward
<1>6. ASSUME NEW o \in Ops PROVE RowOK(op'[o], hist'[o])
  <2>1. RowOK(op[o], hist[o])
    BY Zenon DEF AInv
  <2>2. op'[o].state = "succeeded" => op[o].state = "succeeded" \/ op[o].kind \in Repeatable \/ hist[o].earned
    BY Zenon DEF EarnedStep
  <2> QED BY <1>1, <1>5, <2>1, <2>2, RowMono, Zenon
<1>7. \A v \in Workers \ {w} : Undisturbed(v)
  BY <1>2, Zenon DEF Undisturbed, OthersKeep
<1>8. ASSUME NEW v \in Workers \ {w} PROVE PairOK(p, wk[v], op') /\ PairOK(wk[v], p, op')
  <2>1. Presents(wk[v], op) /\ PairOK(wk[v], p, op) /\ PairOK(p, wk[v], op)
    BY Zenon DEF AInv, WorkerOK
  <2>2. PairOK(wk[v], p, op')
    BY <1>1, <1>5, <2>1, PairMono, Zenon
  <2>3. PairOK(p, wk[v], op')
    <3>1. CASE ~Busy(p)
      BY <3>1, Zenon DEF PairOK
    <3>2. CASE Busy(p)
      <4>1. op'[p.o].kind = op[p.o].kind
        BY <1>5, <3>2, Zenon DEF Onward
      <4> QED BY <2>1, <4>1, Zenon DEF PairOK
    <3> QED BY <3>1, <3>2, Zenon
  <2> QED BY <2>2, <2>3, Zenon
<1> DEFINE M == late' \ late
<1>9. ASSUME NEW k \in M PROVE LateOK(k, op', hist') /\ \A v \in Workers : LatePairOK(k, wk'[v])
  <2>1. k = m /\ Sendable(w, m)
    BY <1>9
  <2>2. LateOK(k, op, hist) /\ k \in LateCalls
    BY <2>1, Zenon DEF Sendable
  <2>3. LateOK(k, op', hist)
    BY <1>5, <2>2, LateMono, Zenon
  <2>4. \A v \in Workers : LatePairOK(k, wk'[v])
    BY <1>2, <1>9, <2>1, Zenon DEF Sendable
  <2> QED BY <2>3, <2>4, Zenon
<1>10. late' \subseteq late \cup M
  OBVIOUS
<1> HIDE DEF M
<1>11. /\ \A o \in Ops : RowOK(op'[o], hist'[o]) /\ (hist[o].earned => hist'[o].earned)
       /\ {w} \in SUBSET Workers /\ (\A v \in Workers \ {w} : Undisturbed(v))
       /\ \A u \in {w} : /\ WorkerOK(wk'[u], op', hist', clock, stopping')
                         /\ \A v \in Workers \ {u} : PairOK(wk'[u], wk'[v], op') /\ PairOK(wk'[v], wk'[u], op')
       /\ \A k \in late, u \in {w} : k \in late' => LatePairOK(k, wk'[u])
  BY <1>2, <1>6, <1>7, <1>8, Zenon
<1> QED BY <1>4, <1>9, <1>10, <1>11, Frame, Zenon

\* A step in which no worker acts: the server handles a request, or a client
\* calls.
LEMMA ServerStep ==
  ASSUME AInv, TableOnward, clock' = clock, UNCHANGED <<wk, receipt, temp, unit, stopping, hist>>,
         late' \subseteq late, EarnedStep,
         \A w \in Workers : wk[w].pc = "loop" /\ ~wk[w].stop /\ op[wk[w].o].kind \in Timely =>
           Renewed(op[wk[w].o], op'[wk[w].o])
  PROVE  AInv'
<1>1. /\ StateInv /\ wk \in [Workers -> WorkerState] /\ late \subseteq LateCalls /\ hist \in [Ops -> Deeds]
      /\ \A o \in Ops : GoodRow(op[o]) /\ hist[o] \in Deeds
  BY TypedState, Zenon
<1>2. StateInv'
  BY <1>1, SameFiles, NextState
<1>3. \A o \in Ops : GoodRow(op'[o]) /\ Onward(op[o], op'[o])
  BY <1>1, NextTable, Zenon DEF TableOnward
<1>4. ASSUME NEW o \in Ops PROVE RowOK(op'[o], hist'[o])
  <2>1. RowOK(op[o], hist[o])
    BY Zenon DEF AInv
  <2>2. op'[o].state = "succeeded" => op[o].state = "succeeded" \/ op[o].kind \in Repeatable \/ hist[o].earned
    BY DEF EarnedStep
  <2> QED BY <1>1, <1>3, <2>1, <2>2, RowMono
<1>5. \A w \in Workers : Undisturbed(w)
  BY DEF Undisturbed
<1>6. /\ \A o \in Ops : RowOK(op'[o], hist'[o]) /\ (hist[o].earned => hist'[o].earned)
      /\ (\A v \in Workers : Undisturbed(v)) /\ (stopping => stopping')
  BY <1>4, <1>5
<1> QED BY <1>2, <1>6, NobodyActs, Zenon

\* A busy worker in a state of the invariant.
LEMMA BusyWorker ==
  ASSUME AInv, NEW w \in Workers, Busy(wk[w])
  PROVE  /\ wk[w] \in WorkerState /\ wk[w].o \in Ops /\ wk[w].l \in Nat /\ wk[w].rev \in Nat
         /\ op[wk[w].o].state \in OpStates /\ op[wk[w].o].state # "absent"
         /\ WorkerOK(wk[w], op, hist, clock, stopping)
<1>1. wk[w] \in WorkerState
  BY TypedState
<1>2. WorkerOK(wk[w], op, hist, clock, stopping)
  BY DEF AInv
<1>3. wk[w].rev \in Nat
  BY <1>1 DEF WorkerState
<1> QED BY <1>1, <1>2, <1>3, PresentsRow, Zenon DEF WorkerOK

\* The requests of a worker are its own.
LEMMA OwnRequest ==
  ASSUME AInv, NEW w \in Workers, Busy(wk[w]), NEW m \in LateCalls, m.o = wk[w].o, m.l = wk[w].l,
         m.call = "complete" /\ m.arg = "none" => wk[w].ex = "done" /\ wk[w].code = "none"
  PROVE  Sendable(w, m)
<1>1. WorkerOK(wk[w], op, hist, clock, stopping)
  BY BusyWorker
<1>2. LateOK(m, op, hist)
  BY <1>1, Zenon DEF LateOK, WorkerOK, Presents, SuccessOK
<1>3. \A v \in Workers \ {w} : PairOK(wk[v], wk[w], op)
  BY Zenon DEF AInv
<1>4. \A v \in Workers \ {w} : LatePairOK(m, wk[v])
  BY <1>3 DEF LatePairOK, PairOK
<1> QED BY <1>2, <1>4 DEF Sendable

\* The requests of a worker that has a lease.
LEMMA RequestTypes ==
  ASSUME AInv, NEW w \in Workers, Busy(wk[w])
  PROVE  /\ \A rev \in Nat, phase \in Phases : ProgressCall(w, rev, phase) \in LateCalls
         /\ CancelCall(w) \in LateCalls
         /\ wk[w].code \in {"none", "reported"} => CompleteCall(w) \in LateCalls
<1>1. wk[w].o \in Ops /\ wk[w].l \in Nat
  BY BusyWorker
<1> QED BY <1>1 DEF ProgressCall, CancelCall, CompleteCall, LateCalls

\* A request for a lease names no operation.
LEMMA LeaseRequest ==
  ASSUME AInv, NEW w \in Workers, NEW compatible \in BOOLEAN
  PROVE  /\ LeaseCall(compatible) \in LateCalls
         /\ \A v \in Workers : LatePairOK(LeaseCall(compatible), wk[v])
         /\ Sendable(w, LeaseCall(compatible))
<1> DEFINE m == LeaseCall(compatible)
<1>1. m \in LateCalls /\ m.o = 0
  BY DEF LeaseCall, LateCalls
<1> HIDE DEF m
<1>2. 0 \notin Ops
  BY AgentAssumption
<1>3. \A v \in Workers : LatePairOK(m, wk[v])
  BY <1>1, <1>2, BusyWorker DEF LatePairOK
<1>4. LateOK(m, op, hist)
  BY <1>1 DEF LateOK
<1> QED BY <1>1, <1>3, <1>4 DEF Sendable, m

\* The call of a worker takes no lease from another one.
LEMMA OwnCallKeeps ==
  ASSUME AInv, JournalPromise, NEW w \in Workers, Busy(wk[w]), NEW m \in LateCalls, m.o = wk[w].o, m.l = wk[w].l,
         m.call = "complete" /\ m.arg = "none" => wk[w].ex = "done" /\ wk[w].code = "none",
         op' = Served(m), clock' = clock
  PROVE  TableOnward /\ OthersKeep(w) /\ EarnedStep
<1>1. StateInv
  BY TypedState
<1>2. /\ TableOnward
      /\ \A p \in Ops : \/ Calm(op[p], op'[p])
                        \/ p = m.o /\ m.call \in {"complete", "cancel"} /\ Held(m.o, m.l)
      /\ \A p \in Ops : op'[p].state = "succeeded" =>
           op[p].state = "succeeded" \/ (p = m.o /\ m.call = "complete" /\ m.arg = "none")
  BY <1>1, ServedPromise
<1>3. ASSUME NEW v \in Workers \ {w}, wk[v].pc = "loop", ~wk[v].stop, op[wk[v].o].kind \in Timely
      PROVE  Renewed(op[wk[v].o], op'[wk[v].o])
  <2>1. Busy(wk[v])
    BY <1>3 DEF Busy
  <2>2. wk[v].o \in Ops /\ WorkerOK(wk[v], op, hist, clock, stopping)
    BY <2>1, BusyWorker, Zenon
  <2>3. op[wk[v].o].lease = wk[v].l
    BY <1>3, <2>2, Zenon DEF WorkerOK, HoldOK
  <2>4. wk[v].o # wk[w].o \/ wk[v].l # wk[w].l
    BY <2>1, Zenon DEF AInv, PairOK
  <2>5. Calm(op[wk[v].o], op'[wk[v].o])
    BY <1>2, <2>2, <2>3, <2>4, Zenon DEF Held
  <2> QED BY <2>5 DEF Calm
<1>4. WorkerOK(wk[w], op, hist, clock, stopping)
  BY BusyWorker, Zenon
<1>5. EarnedStep
  BY <1>2, <1>4, Zenon DEF EarnedStep, WorkerOK, SuccessOK
<1> QED BY <1>2, <1>3, <1>5 DEF OthersKeep

\* A table that is left alone keeps every lease.
LEMMA SameKeeps ==
  ASSUME AInv, JournalPromise, op' = op
  PROVE  /\ TableOnward /\ EarnedStep /\ \A w \in Workers : OthersKeep(w)
         /\ \A w \in Workers : wk[w].pc = "loop" => Renewed(op[wk[w].o], op'[wk[w].o])
<1>1. TableOnward /\ \A o \in Ops : Calm(op[o], op'[o])
  BY TypedState, SamePromise
<1>2. ASSUME NEW w \in Workers, wk[w].pc = "loop" PROVE Renewed(op[wk[w].o], op'[wk[w].o])
  <2>1. wk[w].o \in Ops
    BY <1>2, BusyWorker DEF Busy
  <2> QED BY <1>1, <2>1 DEF Calm
<1> QED BY <1>1, <1>2, Zenon DEF OthersKeep, EarnedStep

\* A call that fails leaves the table, and perhaps the request.
LEMMA RefusedTable ==
  ASSUME AInv, JournalPromise, NEW m, Refused(m)
  PROVE  /\ op' = op /\ clock' = clock /\ TableOnward /\ EarnedStep /\ \A w \in Workers : OthersKeep(w)
         /\ late' = late \/ (~stopping /\ late' = late \cup {m})
<1>1. op \in [Ops -> OpRow]
  BY TypedState
<1>2. op' = op /\ clock' = clock /\ (late' = late \/ (~stopping /\ late' = late \cup {m}))
  BY <1>1, ServedByCall, Zenon DEF Refused, Answered, Unanswered
<1> QED BY <1>2, SameKeeps

\* A worker that goes on with its lease has the same neighbours.
LEMMA GoesOn ==
  ASSUME AInv, NEW w \in Workers, NEW p, Descends(p, wk[w])
  PROVE  /\ \A v \in Workers \ {w} : PairOK(p, wk[v], op) /\ PairOK(wk[v], p, op)
         /\ \A k \in late : LatePairOK(k, p)
         /\ p.o \in Ops /\ op[p.o].state # "absent"
<1>1. Busy(wk[w]) /\ p.o = wk[w].o
  BY Zenon DEF Descends
<1>2. wk[w].o \in Ops /\ op[wk[w].o].state # "absent"
  BY <1>1, BusyWorker
<1>3. ASSUME NEW v \in Workers \ {w} PROVE PairOK(p, wk[v], op) /\ PairOK(wk[v], p, op)
  <2>1. PairOK(wk[w], wk[v], op) /\ PairOK(wk[v], wk[w], op)
    BY DEF AInv
  <2> QED BY <2>1, DescendsPair
<1>4. ASSUME NEW k \in late PROVE LatePairOK(k, p)
  <2>1. LatePairOK(k, wk[w])
    BY DEF AInv
  <2> QED BY <2>1, DescendsLate
<1> QED BY <1>1, <1>2, <1>3, <1>4, Zenon

\* A call of a busy worker that fails.
LEMMA RefusedStep ==
  ASSUME AInv, JournalPromise, NEW w \in Workers, Busy(wk[w]), NEW p \in WorkerState, Set(w, p),
         NEW m, m.o = wk[w].o, m.l = wk[w].l, Refused(m), UNCHANGED <<receipt, temp, unit, stopping, hist>>,
         ~stopping => m \in LateCalls,
         m.call = "complete" /\ m.arg = "none" => wk[w].ex = "done" /\ wk[w].code = "none",
         p = Idle \/ (Descends(p, wk[w]) /\ p.pc \notin {"start", "loop"} /\ m.call = "progress"),
         WorkerOK(p, op, hist, clock, stopping)
  PROVE  AInv'
<1>1. StateInv /\ FilesTyped
  BY TypedState, SameFiles
<1>2. /\ op' = op /\ clock' = clock /\ TableOnward /\ EarnedStep /\ OthersKeep(w)
      /\ late' = late \/ (~stopping /\ late' = late \cup {m})
  BY <1>1, RefusedTable, Zenon
<1>3. ~stopping => Sendable(w, m)
  BY OwnRequest, Zenon
<1>4. /\ \A v \in Workers \ {w} : PairOK(p, wk[v], op) /\ PairOK(wk[v], p, op)
      /\ \A k \in late : LatePairOK(k, p)
      /\ Busy(p) => p.o \in Ops /\ op[p.o].state # "absent"
  BY GoesOn, IdleOK
<1>5. LatePairOK(m, p)
  BY IdleOK DEF LatePairOK
<1>6. late' \subseteq late \cup {m} /\ (m \in late' \ late => Sendable(w, m)) /\ \A k \in late' : LatePairOK(k, p)
  BY <1>2, <1>3, <1>4, <1>5, Zenon
<1>7. WorkerOK(p, op', hist, clock, stopping)
  BY <1>2, Zenon
<1> QED BY <1>1, <1>2, <1>4, <1>6, <1>7, WorkerStep, Zenon

\* A call of a busy worker that is answered.
LEMMA AnsweredStep ==
  ASSUME AInv, JournalPromise, NEW w \in Workers, Busy(wk[w]), NEW p \in WorkerState, Set(w, p),
         NEW m \in LateCalls, m.o = wk[w].o, m.l = wk[w].l, Answered(m), FilesTyped,
         stopping' = stopping, hist' = hist,
         m.call = "complete" /\ m.arg = "none" => wk[w].ex = "done" /\ wk[w].code = "none",
         p = Idle \/ Descends(p, wk[w]),
         WorkerOK(p, op', hist, clock, stopping)
  PROVE  AInv'
<1>1. op' = Served(m) /\ clock' = clock /\ late' = late
  BY Zenon DEF Answered
<1>2. TableOnward /\ OthersKeep(w) /\ EarnedStep
  BY <1>1, OwnCallKeeps, Zenon
<1>3. /\ \A v \in Workers \ {w} : PairOK(p, wk[v], op) /\ PairOK(wk[v], p, op)
      /\ \A k \in late : LatePairOK(k, p)
      /\ Busy(p) => p.o \in Ops /\ op[p.o].state # "absent"
  BY GoesOn, IdleOK
<1>4. late' \subseteq late \cup {m} /\ (m \in late' \ late => Sendable(w, m)) /\ \A k \in late' : LatePairOK(k, p)
  BY <1>1, <1>3, Zenon
<1> QED BY <1>1, <1>2, <1>3, <1>4, WorkerStep, Zenon

\* TakeLease: a new lease has a number nobody presents yet.
LEMMA TakeLeaseStep ==
  ASSUME AInv, JournalPromise, NEW w \in Workers, ~Busy(wk[w]), NEW compatible \in BOOLEAN, UNCHANGED untouched,
         Answered(LeaseCall(compatible)), TakeLease(w, compatible)
  PROVE  AInv'
<1> DEFINE t == Normalized
           m == LeaseCall(compatible)
<1>1. StateInv /\ FilesTyped /\ op \in [Ops -> OpRow] /\ stopping' = stopping /\ hist' = hist
  BY TypedState, SameFiles DEF untouched
<1>2. op' = Served(m) /\ clock' = clock /\ late' = late
  BY DEF Answered
<1>3. (CHOOSE ttl \in LeaseTtls : TRUE) \in LeaseTtls
  BY AgentAssumption
<1>4. op' = AfterLease(compatible, CHOOSE ttl \in LeaseTtls : TRUE)
  <2>1. CASE compatible = TRUE
    <3>1. m.call = "stamped"
      BY <2>1 DEF LeaseCall
    <3> QED BY <1>1, <1>2, <2>1, <3>1, ServedByCall, Zenon
  <2>2. CASE compatible = FALSE
    <3>1. m.call = "probe"
      BY <2>2 DEF LeaseCall
    <3> QED BY <1>1, <1>2, <2>2, <3>1, ServedByCall, Zenon
  <2> QED BY <2>1, <2>2, Zenon
<1>5. /\ TableOnward /\ \A o \in Ops : Calm(op[o], op'[o])
      /\ ~Skewed(t, compatible) =>
           \A o \in NextOf(t, compatible) :
             /\ o \in Ops /\ op'[o].state = "leased" /\ op'[o].attempts = t[o].attempts + 1
             /\ t[o].attempts \in Nat /\ op[o].attempts <= t[o].attempts
             /\ op[o].state # "absent"
  BY <1>1, <1>2, <1>3, <1>4, LeasePromise, Zenon
<1>6. EarnedStep
  BY <1>5 DEF EarnedStep, Calm, NoSuccess
<1>7. OthersKeep(w)
  <2>1. \A v \in Workers : wk[v].pc = "loop" => wk[v].o \in Ops
    BY BusyWorker DEF Busy
  <2> QED BY <1>5, <2>1 DEF OthersKeep, Calm
<1>8. CASE wk' = [wk EXCEPT ![w] = Idle] \/ wk' = [wk EXCEPT ![w] = [Idle EXCEPT !.pc = "stamp"]]
  <2>1. PICK p : Set(w, p) /\ (p = Idle \/ p = [Idle EXCEPT !.pc = "stamp"])
    BY <1>8 DEF Set
  <2>2. /\ p \in WorkerState /\ ~Busy(p) /\ WorkerOK(p, op', hist, clock, stopping)
        /\ \A v \in Workers \ {w} : PairOK(p, wk[v], op) /\ PairOK(wk[v], p, op)
        /\ \A k \in late' : LatePairOK(k, p)
    BY <2>1, IdleOK
  <2> QED BY <1>1, <1>2, <1>5, <1>6, <1>7, <2>1, <2>2, WorkerStep
<1>9. CASE ~Skewed(t, compatible) /\
           \E o \in NextOf(t, compatible) : Set(w, [Idle EXCEPT !.pc = "start", !.o = o, !.l = t[o].attempts + 1])
  <2>1. PICK o \in NextOf(t, compatible) : Set(w, [Idle EXCEPT !.pc = "start", !.o = o, !.l = t[o].attempts + 1])
    BY <1>9, Zenon
  <2>2. PICK l : l = t[o].attempts + 1
    OBVIOUS
  <2>3. /\ o \in Ops /\ op'[o].state = "leased" /\ op'[o].attempts = l /\ l \in Nat /\ l >= 1
        /\ op[o].attempts < l /\ op[o].attempts \in Nat /\ op[o].state # "absent"
    BY <1>5, <1>9, <2>2, TypedState
  <2> DEFINE p == [Idle EXCEPT !.pc = "start", !.o = o, !.l = l]
  <2>4. Set(w, p)
    BY <2>1, <2>2
  <2>5. /\ p \in WorkerState /\ p.pc = "start" /\ p.ex = "none" /\ p.o = o /\ p.l = l /\ p.gate = "free"
        /\ ~p.stop /\ ~p.cancel /\ p.beat /\ Busy(p)
    BY <2>3, Zenon DEF Idle, WorkerState, Pcs, Exs, Busy
  <2> HIDE DEF p, t, m
  <2>6. WorkerOK(p, op', hist, clock, stopping)
    <3>1. Shape(p, stopping)
      BY <2>5 DEF Shape, InTheUnit
    <3>2. Presents(p, op')
      BY <2>3, <2>5 DEF Presents, Stored, OpStates, Live
    <3>3. GateOK(p, op') /\ EffectOK(p, op', hist) /\ SuccessOK(p, op', hist) /\ HoldOK(p, op', clock)
      BY <2>5, Zenon DEF GateOK, EffectOK, SuccessOK, HoldOK, InTheUnit
    <3> QED BY <3>1, <3>2, <3>3 DEF WorkerOK
  <2>7. ASSUME NEW v \in Workers \ {w} PROVE PairOK(p, wk[v], op) /\ PairOK(wk[v], p, op)
    <3>1. CASE ~Busy(wk[v])
      BY <3>1, Zenon DEF PairOK
    <3>2. CASE Busy(wk[v])
      <4>1. wk[v].o = o => wk[v].l # l
        <5>1. Presents(wk[v], op) /\ wk[v].l \in Nat
          BY <3>2, BusyWorker, Zenon DEF WorkerOK
        <5> QED BY <2>3, <3>2, <5>1 DEF Presents
      <4> QED BY <2>5, <4>1, Zenon DEF PairOK
    <3> QED BY <3>1, <3>2
  <2>8. ASSUME NEW k \in late' PROVE LatePairOK(k, p)
    <3>1. LateOK(k, op, hist) /\ k.l \in Nat
      BY <1>2, TypedState, CallFields DEF AInv
    <3>2. o # 0
      BY <2>3, AgentAssumption, Zenon
    <3>3. k.o = o => k.l # l
      BY <2>3, <3>1, <3>2 DEF LateOK
    <3> QED BY <2>5, <3>3 DEF LatePairOK
  <2> QED BY <1>1, <1>2, <1>5, <1>6, <1>7, <2>3, <2>4, <2>5, <2>6, <2>7, <2>8, WorkerStep, Zenon
<1>10. QED
  <2>1. Idle = [Idle EXCEPT !.pc = "poll"]
    BY DEF Idle
  <2> QED BY <1>8, <1>9, <2>1, Zenon DEF TakeLease, Set

\* A lease request without an answer.
LEMMA UnansweredLease ==
  ASSUME AInv, JournalPromise, NEW w \in Workers, ~Busy(wk[w]), NEW compatible \in BOOLEAN, UNCHANGED untouched,
         Unanswered(LeaseCall(compatible)), NEW p, p = Idle \/ p = [Idle EXCEPT !.pc = "stamp"], Set(w, p)
  PROVE  AInv'
<1> DEFINE m == LeaseCall(compatible)
<1>1. StateInv /\ FilesTyped /\ stopping' = stopping /\ hist' = hist
  BY TypedState, SameFiles DEF untouched
<1>2. /\ op' = op /\ clock' = clock /\ TableOnward /\ EarnedStep /\ OthersKeep(w)
      /\ late' = late \/ (~stopping /\ late' = late \cup {m})
  BY <1>1, RefusedTable DEF Refused
<1>3. Sendable(w, m)
  BY LeaseRequest
<1>4. /\ p \in WorkerState /\ ~Busy(p) /\ WorkerOK(p, op', hist, clock, stopping)
      /\ \A v \in Workers \ {w} : PairOK(p, wk[v], op) /\ PairOK(wk[v], p, op)
      /\ \A k \in late' : LatePairOK(k, p)
  BY IdleOK
<1> HIDE DEF m
<1>5. late' \subseteq late \cup {m} /\ (m \in late' \ late => Sendable(w, m))
  BY <1>2, <1>3
<1> QED BY <1>1, <1>2, <1>4, <1>5, WorkerStep

\* The probe for a lease.
LEMMA PollStep ==
  ASSUME AInv, JournalPromise, NEW w \in Workers, Poll(w)
  PROVE  AInv'
<1>1. wk[w].pc = "poll" /\ ~Busy(wk[w]) /\ UNCHANGED untouched
  BY DEF Poll, Busy
<1>2. CASE Answered(LeaseCall(FALSE)) /\ TakeLease(w, FALSE)
  BY <1>1, <1>2, TakeLeaseStep, Zenon
<1>3. CASE Unanswered(LeaseCall(FALSE)) /\ UNCHANGED wk
  <2> DEFINE m == LeaseCall(FALSE)
  <2>1. StateInv /\ FilesTyped /\ stopping' = stopping /\ hist' = hist
    BY <1>1, TypedState, SameFiles DEF untouched
  <2>2. /\ op' = op /\ clock' = clock /\ TableOnward /\ EarnedStep /\ OthersKeep(w)
        /\ late' = late \/ (~stopping /\ late' = late \cup {m})
    BY <1>3, <2>1, RefusedTable, Zenon DEF Refused
  <2>3. Sendable(w, m) /\ \A v \in Workers : LatePairOK(m, wk[v])
    BY LeaseRequest, Zenon
  <2>4. /\ wk[w] \in WorkerState /\ Set(w, wk[w])
    BY <1>3, TypedState DEF Set
  <2> HIDE DEF m
  <2>5. /\ WorkerOK(wk[w], op', hist, clock, stopping)
        /\ \A v \in Workers \ {w} : PairOK(wk[w], wk[v], op) /\ PairOK(wk[v], wk[w], op)
        /\ \A k \in late' : LatePairOK(k, wk[w])
    BY <2>2, <2>3, Zenon DEF AInv
  <2>6. late' \subseteq late \cup {m} /\ (m \in late' \ late => Sendable(w, m))
    BY <2>2, <2>3
  <2> QED BY <1>1, <2>1, <2>2, <2>4, <2>5, <2>6, WorkerStep, Zenon
<1> QED BY <1>2, <1>3, Zenon DEF Poll

\* The repeated request with the protocol.
LEMMA StampStep ==
  ASSUME AInv, JournalPromise, NEW w \in Workers, Stamp(w)
  PROVE  AInv'
<1>1. wk[w].pc = "stamp" /\ ~Busy(wk[w]) /\ UNCHANGED untouched
  BY DEF Stamp, Busy
<1>2. CASE Answered(LeaseCall(TRUE)) /\ TakeLease(w, TRUE)
  BY <1>1, <1>2, TakeLeaseStep, Zenon
<1>3. CASE Unanswered(LeaseCall(TRUE)) /\ Set(w, Idle)
  BY <1>1, <1>3, UnansweredLease, Zenon
<1> QED BY <1>2, <1>3, Zenon DEF Stamp

-----------------------------------------------------------------------------
(* The worker with a lease.                                                *)

\* The first report: accepted, it is the first evidence, so nothing was done and
\* no other worker has an executor for the operation.
LEMMA BeginStep ==
  ASSUME AInv, JournalPromise, NEW w \in Workers, Begin(w)
  PROVE  AInv'
<1> DEFINE q == wk[w]
           m == ProgressCall(w, 1, PhaseOf(w))
           o == wk[w].o
<1>1. q.pc = "start" /\ Busy(q) /\ UNCHANGED untouched
  BY DEF Begin, Busy
<1>2. /\ q \in WorkerState /\ o \in Ops /\ q.l \in Nat /\ op[o].state \in OpStates
      /\ WorkerOK(q, op, hist, clock, stopping)
  BY <1>1, BusyWorker, Zenon
<1>3. q.ex = "none" /\ ~q.stop /\ ~q.cancel /\ q.beat /\ q.gate = "free"
  BY <1>1, <1>2, Zenon DEF WorkerOK, Shape
<1>4. StateInv /\ FilesTyped /\ stopping' = stopping /\ hist' = hist /\ op \in [Ops -> OpRow] /\ clock \in Nat
  BY <1>1, TypedState, SameFiles DEF untouched
<1>5. PhaseOf(w) \in Phases
  BY DEF PhaseOf, Phases
<1>6. m \in LateCalls /\ m.call = "progress" /\ m.o = o /\ m.l = q.l /\ m.rev = 1 /\ m.arg = PhaseOf(w)
  BY <1>1, <1>5, RequestTypes, Zenon DEF ProgressCall
<1>7. CASE Refused(m) /\ Set(w, Idle)
  <2>1. Idle \in WorkerState /\ WorkerOK(Idle, op, hist, clock, stopping)
    BY IdleOK
  <2> HIDE DEF m
  <2> QED BY <1>1, <1>4, <1>6, <1>7, <2>1, RefusedStep, Zenon DEF untouched
<1>8. CASE Accepted(m) /\ Answered(m) /\
           Set(w, IF op[o].cancel THEN [q EXCEPT !.pc = "ack", !.cancel = TRUE]
                  ELSE [q EXCEPT !.pc = "loop", !.ex = "gate", !.rev = 1])
  <2> HIDE DEF m
  <2>1. CanReport(o, q.l, 1)
    BY <1>6, <1>8 DEF Accepted
  <2>2. op' = [op EXCEPT ![o] = ProgressRow(op[o], 1, PhaseOf(w))] /\ clock' = clock /\ late' = late
    BY <1>4, <1>6, <1>8, ServedByCall, Zenon DEF Answered
  <2>3. /\ op'[o].state = "leased" /\ op'[o].lease = q.l /\ op'[o].until > clock + 1
        /\ op'[o].progress # 0 /\ op'[o].kind = op[o].kind /\ op'[o].attempts = op[o].attempts
    BY <1>2, <1>4, <2>1, <2>2, ReportPromise, Zenon
  <2>4. TableOnward /\ OthersKeep(w) /\ EarnedStep
    BY <1>1, <1>6, <1>8, OwnCallKeeps DEF Answered
  <2>5. op'[o].state \in OpStates /\ op[o].progress = 0 /\ op'[o].until > clock
    <3>1. op[o].progress \in Nat /\ 1 > op[o].progress
      BY <1>2, <1>4, <2>1, RowTypes DEF CanReport
    <3>2. op'[o].until \in Nat
      BY <1>2, <1>4, <2>2, <2>4, NextTable, Zenon
    <3>3. op'[o].state \in OpStates
      BY <2>3 DEF OpStates, Live
    <3>4. op'[o].until > clock
      BY <1>4, <2>3, <3>2
    <3> QED BY <3>1, <3>3, <3>4
  <2>6. CASE op[o].cancel
    <3> DEFINE p == [q EXCEPT !.pc = "ack", !.cancel = TRUE]
    <3>1. /\ p \in WorkerState /\ p.pc = "ack" /\ p.ex = "none" /\ p.o = o /\ p.l = q.l /\ p.gate = "free"
          /\ Set(w, p)
      BY <1>2, <1>3, <1>8, <2>6, Zenon DEF WorkerState, Pcs
    <3> HIDE DEF p
    <3>2. WorkerOK(p, op', hist, clock, stopping)
      <4>1. Shape(p, stopping)
        BY <3>1 DEF Shape, InTheUnit
      <4>2. Presents(p, op')
        BY <1>1, <1>2, <2>3, <2>5, <3>1, Zenon DEF WorkerOK, Presents, Stored
      <4>3. GateOK(p, op') /\ EffectOK(p, op', hist) /\ SuccessOK(p, op', hist) /\ HoldOK(p, op', clock)
        BY <3>1 DEF GateOK, EffectOK, SuccessOK, HoldOK, InTheUnit
      <4> QED BY <4>1, <4>2, <4>3 DEF WorkerOK
    <3>3. Descends(p, q)
      BY <1>1, <3>1 DEF Descends
    <3> QED BY <1>1, <1>4, <1>6, <1>8, <3>1, <3>2, <3>3, AnsweredStep
  <2>7. CASE ~op[o].cancel
    <3> DEFINE p == [q EXCEPT !.pc = "loop", !.ex = "gate", !.rev = 1]
    <3>1. /\ p \in WorkerState /\ p.pc = "loop" /\ p.ex = "gate" /\ p.o = o /\ p.l = q.l /\ p.gate = "free"
          /\ ~p.stop /\ Set(w, p)
      BY <1>2, <1>3, <1>8, <2>7, Zenon DEF WorkerState, Pcs, Exs
    <3> HIDE DEF p
    <3>2. WorkerOK(p, op', hist, clock, stopping)
      <4>1. Shape(p, stopping)
        BY <3>1 DEF Shape, InTheUnit
      <4>2. Presents(p, op')
        BY <1>1, <1>2, <2>3, <2>5, <3>1, Zenon DEF WorkerOK, Presents, Stored
      <4>3. EffectOK(p, op', hist)
        <5>1. RowOK(op[o], hist[o])
          BY <1>2, Zenon DEF AInv
        <5> QED BY <1>2, <2>3, <2>5, <3>1, <5>1, Zenon DEF EffectOK, RowOK
      <4>4. HoldOK(p, op', clock)
        BY <2>3, <2>5, <3>1, Zenon DEF HoldOK
      <4>5. GateOK(p, op') /\ SuccessOK(p, op', hist)
        BY <3>1, Zenon DEF GateOK, SuccessOK, InTheUnit
      <4> QED BY <4>1, <4>2, <4>3, <4>4, <4>5 DEF WorkerOK
    <3>3. ASSUME NEW v \in Workers \ {w} PROVE PairOK(p, wk[v], op) /\ PairOK(wk[v], p, op)
      <4>1. PairOK(q, wk[v], op) /\ PairOK(wk[v], q, op) /\ EffectOK(wk[v], op, hist)
        BY Zenon DEF AInv, WorkerOK
      <4>2. Busy(wk[v]) /\ wk[v].o = o /\ wk[v].ex # "none" => op[o].kind \in Repeatable
        BY <2>5, <4>1, Zenon DEF EffectOK
      <4> QED BY <1>1, <3>1, <4>1, <4>2, Zenon DEF PairOK
    <3>4. ASSUME NEW k \in late' PROVE LatePairOK(k, p)
      <4>1. LatePairOK(k, q)
        BY <2>2, Zenon DEF AInv
      <4> QED BY <1>1, <3>1, <4>1 DEF LatePairOK
    <3>5. op[o].state # "absent"
      BY <1>1, BusyWorker
    <3>6. late' \subseteq late \cup {m} /\ (m \in late' \ late => Sendable(w, m))
      BY <2>2
    <3> QED BY <1>2, <1>4, <2>2, <2>4, <3>1, <3>2, <3>3, <3>4, <3>5, <3>6, WorkerStep, Zenon
  <2> QED BY <1>8, <2>6, <2>7
<1> QED BY <1>7, <1>8 DEF Begin

\* What of a worker does not depend on its program counter.
SameExecutor(p, q) ==
  /\ p.o = q.o /\ p.l = q.l /\ p.ex = q.ex /\ p.gate = q.gate /\ Busy(p) /\ Busy(q)
  /\ p.code = "none" => q.code = "none"

\* A worker whose executor stays keeps what depends on the executor.
LEMMA SameExecutorOK ==
  ASSUME NEW p, NEW q, NEW t, NEW h, NEW now, NEW halting, NEW halts, NEW now1,
         SameExecutor(p, q), WorkerOK(q, t, h, now, halting), Shape(p, halts), HoldOK(p, t, now1)
  PROVE  WorkerOK(p, t, h, now1, halts)
<1>1. Presents(p, t) /\ GateOK(p, t) /\ EffectOK(p, t, h) /\ SuccessOK(p, t, h)
  BY Zenon DEF SameExecutor, WorkerOK, Presents, GateOK, EffectOK, SuccessOK
<1> QED BY <1>1 DEF WorkerOK

\* The worker against the table its own accepted report leaves.
LEMMA ReportedWorker ==
  ASSUME AInv, JournalPromise, NEW w \in Workers, Busy(wk[w]), wk[w].pc # "start", NEW rev \in Nat, NEW phase \in Phases,
         NEW m, m = ProgressCall(w, rev, phase), Accepted(m), Answered(m)
  PROVE  /\ WorkerOK(wk[w], op', hist, clock, stopping)
         /\ op'[wk[w].o].state = "leased" /\ op'[wk[w].o].lease = wk[w].l /\ op'[wk[w].o].until > clock + 1
         /\ op'[wk[w].o].until > clock
<1> DEFINE o == wk[w].o
<1>1. /\ wk[w] \in WorkerState /\ o \in Ops /\ wk[w].l \in Nat /\ WorkerOK(wk[w], op, hist, clock, stopping)
  BY BusyWorker, Zenon
<1>2. StateInv /\ op \in [Ops -> OpRow] /\ clock \in Nat /\ \A p \in Ops : op[p].until \in Nat
  BY TypedState
<1>3. m.call = "progress" /\ m.o = o /\ m.l = wk[w].l /\ m.rev = rev /\ m.arg = phase
  BY DEF ProgressCall
<1>4. CanReport(o, wk[w].l, rev)
  BY <1>3 DEF Accepted
<1>5. op' = [op EXCEPT ![o] = ProgressRow(op[o], rev, phase)] /\ clock' = clock
  <2>1. op' = Served(m) /\ clock' = clock
    BY DEF Answered
  <2>2. Served(m) = [op EXCEPT ![m.o] = ProgressRow(op[m.o], m.rev, m.arg)]
    BY <1>2, <1>3, ServedByCall, Zenon
  <2> QED BY <1>3, <2>1, <2>2
<1>6. /\ TableOnward /\ \A p \in Ops : Calm(op[p], op'[p])
      /\ op'[o].state = "leased" /\ op'[o].lease = wk[w].l /\ op'[o].until > clock + 1
  BY <1>1, <1>2, <1>4, <1>5, ReportPromise, Zenon
<1>7. Follows(op, op') /\ \A p \in Ops : op'[p].until \in Nat
  BY <1>2, <1>5, <1>6, NextTable, Zenon
<1>8. Renewed(op[o], op'[o])
  BY <1>1, <1>6, Zenon DEF Calm
<1>9. WorkerOK(wk[w], op', hist, clock, stopping)
  <2>1. \A x \in Ops : op[x].until \in Nat /\ op'[x].until \in Nat
    BY <1>2, <1>7, Zenon
  <2>2. Renewed(op[wk[w].o], op'[wk[w].o])
    BY <1>8
  <2> HIDE DEF o
  <2> QED BY <1>1, <1>2, <1>7, <2>1, <2>2, WorkerMono
<1>10. op'[o].until > clock
  <2> DEFINE u == op'[o].until
  <2>1. u \in Nat /\ clock \in Nat /\ u > clock + 1
    BY <1>1, <1>2, <1>6, <1>7, Zenon
  <2> HIDE DEF u
  <2>2. u > clock
    BY <2>1
  <2> QED BY <2>2, Zenon DEF u
<1> QED BY <1>6, <1>9, <1>10

\* The heartbeats.
LEMMA HeartbeatStep ==
  ASSUME AInv, JournalPromise, NEW w \in Workers, Heartbeat(w)
  PROVE  AInv'
<1> DEFINE q == wk[w]
           o == wk[w].o
<1>1. q.pc = "loop" /\ Busy(q) /\ UNCHANGED untouched
  BY DEF Heartbeat, Busy
<1>2. /\ q \in WorkerState /\ o \in Ops /\ q.l \in Nat /\ q.rev \in Nat
      /\ WorkerOK(q, op, hist, clock, stopping)
  BY <1>1, BusyWorker
<1>3. StateInv /\ FilesTyped /\ stopping' = stopping /\ hist' = hist
  BY <1>1, TypedState, SameFiles DEF untouched
<1>13. PICK phase \in Phases : \E m : /\ m = ProgressCall(w, q.rev + 1, phase)
         /\ \/ /\ Accepted(m) /\ Answered(m)
               /\ LET c == op[o].cancel
                  IN Set(w, [q EXCEPT !.rev = @ + 1, !.beat = TRUE, !.cancel = @ \/ c, !.stop = @ \/ c])
            \/ Refused(m) /\ Set(w, [q EXCEPT !.pc = "drain", !.stop = TRUE])
  BY DEF Heartbeat, PhaseOf, Phases
<1>4. PICK m : /\ m = ProgressCall(w, q.rev + 1, phase)
               /\ \/ /\ Accepted(m) /\ Answered(m)
                     /\ LET c == op[o].cancel
                        IN Set(w, [q EXCEPT !.rev = @ + 1, !.beat = TRUE, !.cancel = @ \/ c, !.stop = @ \/ c])
                  \/ Refused(m) /\ Set(w, [q EXCEPT !.pc = "drain", !.stop = TRUE])
  BY <1>13
<1>5. m \in LateCalls /\ m.call = "progress" /\ m.o = o /\ m.l = q.l
  BY <1>1, <1>2, <1>4, RequestTypes DEF ProgressCall
<1>6. CASE Refused(m) /\ Set(w, [q EXCEPT !.pc = "drain", !.stop = TRUE])
  <2> DEFINE p == [q EXCEPT !.pc = "drain", !.stop = TRUE]
  <2>1. /\ p \in WorkerState /\ p.pc = "drain" /\ p.stop /\ p.o = q.o /\ p.l = q.l /\ p.ex = q.ex
        /\ p.gate = q.gate /\ p.code = q.code /\ Set(w, p)
    BY <1>2, <1>6, Zenon DEF WorkerState, Pcs
  <2> HIDE DEF p
  <2>2. Shape(p, stopping)
    BY <1>1, <1>2, <2>1, Zenon DEF WorkerOK, Shape
  <2>3. SameExecutor(p, q) /\ HoldOK(p, op, clock)
    BY <1>1, <2>1 DEF SameExecutor, HoldOK, Busy
  <2>4. WorkerOK(p, op, hist, clock, stopping)
    BY <1>2, <2>2, <2>3, SameExecutorOK
  <2>5. Descends(p, q)
    BY <1>1, <2>1 DEF Descends
  <2> QED BY <1>1, <1>3, <1>5, <1>6, <2>1, <2>4, <2>5, RefusedStep DEF untouched
<1>7. CASE Accepted(m) /\ Answered(m) /\
           Set(w, [q EXCEPT !.rev = @ + 1, !.beat = TRUE, !.cancel = @ \/ op[o].cancel, !.stop = @ \/ op[o].cancel])
  <2> DEFINE p == [q EXCEPT !.rev = @ + 1, !.beat = TRUE, !.cancel = @ \/ op[o].cancel, !.stop = @ \/ op[o].cancel]
  <2>1. op[o].cancel \in BOOLEAN /\ q.cancel \in BOOLEAN /\ q.stop \in BOOLEAN
    BY <1>2, TypedState DEF OpRow, WorkerState
  <2> DEFINE c == q.cancel \/ op[o].cancel
             s == q.stop \/ op[o].cancel
             r == q.rev + 1
  <2>9. c \in BOOLEAN /\ s \in BOOLEAN /\ r \in Nat
    BY <1>2, <2>1
  <2>10. p = [q EXCEPT !.rev = r, !.beat = TRUE, !.cancel = c, !.stop = s]
    BY <1>2 DEF WorkerState
  <2>11. (c <=> q.cancel \/ op[o].cancel) /\ (s <=> q.stop \/ op[o].cancel)
    BY <2>1
  <2>12. m = ProgressCall(w, r, phase)
    BY <1>4
  <2> HIDE DEF c, s, r, p
  <2>2. /\ p \in WorkerState /\ p.pc = "loop" /\ p.o = q.o /\ p.l = q.l /\ p.ex = q.ex /\ p.gate = q.gate
        /\ p.code = q.code /\ (q.stop => p.stop) /\ (p.stop => q.stop \/ op[o].cancel)
        /\ (q.cancel \/ op[o].cancel => p.cancel)
    <3>1. p \in WorkerState /\ p.pc = "loop" /\ p.o = q.o /\ p.l = q.l /\ p.ex = q.ex /\ p.gate = q.gate
          /\ p.code = q.code /\ p.stop = s /\ p.cancel = c
      BY <1>1, <1>2, <2>9, <2>10, Zenon DEF WorkerState
    <3> QED BY <2>11, <3>1
  <2>3. Set(w, p)
    BY <1>7 DEF p
  <2>4. /\ WorkerOK(q, op', hist, clock, stopping)
        /\ op'[o].state = "leased" /\ op'[o].lease = q.l /\ op'[o].until > clock + 1
        /\ op'[o].until > clock
    BY <1>1, <1>2, <1>7, <2>9, <2>12, ReportedWorker
  <2>5. Shape(p, stopping)
    BY <1>1, <1>2, <2>2, Zenon DEF WorkerOK, Shape
  <2>6. SameExecutor(p, q) /\ HoldOK(p, op', clock)
    BY <1>1, <2>2, <2>4, Zenon DEF SameExecutor, HoldOK, Busy
  <2>7. WorkerOK(p, op', hist, clock, stopping)
    BY <2>4, <2>5, <2>6, SameExecutorOK
  <2>8. Descends(p, q)
    BY <1>1, <2>2 DEF Descends
  <2> QED BY <1>1, <1>3, <1>5, <1>7, <2>2, <2>3, <2>7, <2>8, AnsweredStep
<1> QED BY <1>4, <1>6, <1>7
=============================================================================
