-------------------------- MODULE EdgeStepProofs ---------------------------
(***************************************************************************)
(* The remaining steps of the Edge agent keep the inductive invariant AInv *)
(* too: a worker drains, completes and acknowledges, its executor runs,    *)
(* the unit ends, requests given up are delivered, the agent stops and     *)
(* restarts, clients call, and time passes.                                *)
(***************************************************************************)
EXTENDS EdgeWorkerProofs

-----------------------------------------------------------------------------
(* The worker after its first report.                                      *)

\* A step of a worker without a call.
LEMMA LocalStep ==
  ASSUME AInv, JournalPromise, NEW w \in Workers, NEW p \in WorkerState, Set(w, p), UNCHANGED <<op, clock, late, untouched>>,
         p = Idle \/ Descends(p, wk[w]), WorkerOK(p, op, hist, clock, stopping)
  PROVE  AInv'
<1>1. StateInv /\ FilesTyped /\ stopping' = stopping /\ hist' = hist /\ op' = op /\ clock' = clock /\ late' = late
  BY TypedState, SameFiles DEF untouched
<1>2. TableOnward /\ OthersKeep(w) /\ EarnedStep
  BY <1>1, SameKeeps
<1>4. /\ \A v \in Workers \ {w} : PairOK(p, wk[v], op) /\ PairOK(wk[v], p, op)
      /\ \A k \in late : LatePairOK(k, p)
      /\ Busy(p) => p.o \in Ops /\ op[p.o].state # "absent"
  BY GoesOn, IdleOK
<1>5. late' \subseteq late \cup {0} /\ (0 \in late' \ late => Sendable(w, 0)) /\ \A k \in late' : LatePairOK(k, p)
  BY <1>1, <1>4
<1>6. WorkerOK(p, op', hist, clock, stopping)
  BY <1>1
<1> QED BY <1>1, <1>2, <1>4, <1>5, <1>6, WorkerStep

\* A worker notices that the process is stopping.
LEMMA NoticeStopStep ==
  ASSUME AInv, JournalPromise, NEW w \in Workers, NoticeStop(w)
  PROVE  AInv'
<1> DEFINE q == wk[w]
           p == [q EXCEPT !.pc = "drain", !.stop = TRUE]
<1>1. q.pc = "loop" /\ Busy(q) /\ UNCHANGED <<op, clock, late, untouched>>
  BY DEF NoticeStop, Busy
<1>2. q \in WorkerState /\ WorkerOK(q, op, hist, clock, stopping)
  BY <1>1, BusyWorker
<1>3. /\ p \in WorkerState /\ p.pc = "drain" /\ p.stop /\ p.o = q.o /\ p.l = q.l /\ p.ex = q.ex
      /\ p.gate = q.gate /\ p.code = q.code /\ Set(w, p)
  BY <1>2, Zenon DEF WorkerState, Pcs, NoticeStop
<1> HIDE DEF p
<1>4. Shape(p, stopping)
  BY <1>1, <1>2, <1>3, Zenon DEF WorkerOK, Shape
<1>5. SameExecutor(p, q) /\ HoldOK(p, op, clock) /\ Descends(p, q)
  BY <1>1, <1>3 DEF SameExecutor, HoldOK, Busy, Descends
<1>6. WorkerOK(p, op, hist, clock, stopping)
  BY <1>2, <1>4, <1>5, SameExecutorOK
<1> QED BY <1>1, <1>3, <1>5, <1>6, LocalStep

\* A worker drops the result of a stopped executor.
LEMMA DrainedStep ==
  ASSUME AInv, JournalPromise, NEW w \in Workers, Drained(w)
  PROVE  AInv'
<1>1. Set(w, Idle) /\ UNCHANGED <<op, clock, late, untouched>>
  BY DEF Drained
<1>2. Idle \in WorkerState /\ WorkerOK(Idle, op, hist, clock, stopping)
  BY IdleOK
<1> QED BY <1>1, <1>2, LocalStep

\* A stopped executor that is not abandoned is one to cancel, so the result of
\* an executor that reaches completion is not "cancelled" unless the process is
\* stopping.
LEMMA FinalizeStep ==
  ASSUME AInv, JournalPromise, NEW w \in Workers, Finalize(w)
  PROVE  AInv'
<1> DEFINE q == wk[w]
           o == wk[w].o
           m == ProgressCall(w, q.rev + 1, "finalizing")
<1>1. q.pc = "loop" /\ q.ex = "done" /\ Busy(q) /\ UNCHANGED untouched
  BY DEF Finalize, Busy
<1>2. /\ q \in WorkerState /\ o \in Ops /\ q.l \in Nat /\ q.rev \in Nat
      /\ WorkerOK(q, op, hist, clock, stopping)
  BY <1>1, BusyWorker
<1>3. StateInv /\ FilesTyped /\ stopping' = stopping /\ hist' = hist
  BY <1>1, TypedState, SameFiles DEF untouched
<1>4. "finalizing" \in Phases /\ q.rev + 1 \in Nat
  BY <1>2 DEF Phases
<1>5. m \in LateCalls /\ m.call = "progress" /\ m.o = o /\ m.l = q.l
  BY <1>1, <1>4, RequestTypes DEF ProgressCall
<1>6. PICK p : /\ Set(w, p)
               /\ \E c \in BOOLEAN, pc \in {"ack", "register", "complete"} :
                    /\ p = [q EXCEPT !.pc = pc, !.cancel = c]
                    /\ pc # "ack" => ~q.cancel /\ ~c
                    /\ pc = "register" => q.code = "none"
               /\ (Accepted(m) /\ Answered(m)) \/ Refused(m)
  <2>1. op[o].cancel \in BOOLEAN /\ q.cancel \in BOOLEAN
    BY <1>2, TypedState DEF OpRow, WorkerState
  <2> DEFINE nx(c) == IF c THEN "ack" ELSE IF q.code = "none" /\ Kind(w) # "exec" THEN "register" ELSE "complete"
  <2>2. \A c \in BOOLEAN : /\ nx(c) \in {"ack", "register", "complete"}
                           /\ nx(c) # "ack" => ~c
                           /\ nx(c) = "register" => q.code = "none"
    OBVIOUS
  <2>3. \/ /\ Accepted(m) /\ Answered(m)
           /\ Set(w, [q EXCEPT !.pc = nx(q.cancel \/ op[o].cancel), !.cancel = q.cancel \/ op[o].cancel])
        \/ Refused(m) /\ Set(w, [q EXCEPT !.pc = nx(q.cancel)])
    BY DEF Finalize
  <2>4. CASE /\ Accepted(m) /\ Answered(m)
             /\ Set(w, [q EXCEPT !.pc = nx(q.cancel \/ op[o].cancel), !.cancel = q.cancel \/ op[o].cancel])
    <3> DEFINE c == q.cancel \/ op[o].cancel
    <3>1. c \in BOOLEAN /\ (~c => ~q.cancel)
      BY <2>1
    <3> QED BY <2>2, <2>4, <3>1, Zenon
  <2>5. CASE Refused(m) /\ Set(w, [q EXCEPT !.pc = nx(q.cancel)])
    <3>1. [q EXCEPT !.pc = nx(q.cancel)] = [q EXCEPT !.pc = nx(q.cancel), !.cancel = q.cancel]
      BY <1>2, Zenon DEF WorkerState
    <3> QED BY <2>1, <2>2, <2>5, <3>1, Zenon
  <2> QED BY <2>3, <2>4, <2>5, Zenon
<1>7. /\ p \in WorkerState /\ p.pc \in {"ack", "register", "complete"} /\ p.o = q.o /\ p.l = q.l
      /\ p.ex = "done" /\ p.gate = q.gate /\ p.code = q.code /\ p.stop = q.stop
      /\ (p.pc # "ack" => ~q.cancel) /\ (p.pc = "register" => p.code = "none")
  BY <1>1, <1>2, <1>6, Zenon DEF WorkerState, Pcs
<1>8. Shape(p, stopping)
  BY <1>1, <1>2, <1>7, Zenon DEF WorkerOK, Shape, InTheUnit
<1>9. SameExecutor(p, q) /\ Descends(p, q) /\ \A t : HoldOK(p, t, clock)
  BY <1>1, <1>7, Zenon DEF SameExecutor, HoldOK, Busy, Descends
<1> HIDE DEF m
<1>10. CASE Refused(m)
  <2>1. WorkerOK(p, op, hist, clock, stopping)
    BY <1>2, <1>8, <1>9, SameExecutorOK
  <2> QED BY <1>1, <1>3, <1>5, <1>6, <1>7, <1>9, <1>10, <2>1, RefusedStep, Zenon DEF untouched
<1>11. CASE Accepted(m) /\ Answered(m)
  <2>1. WorkerOK(q, op', hist, clock, stopping)
    BY <1>1, <1>4, <1>11, ReportedWorker DEF m
  <2>2. WorkerOK(p, op', hist, clock, stopping)
    BY <1>8, <1>9, <2>1, SameExecutorOK
  <2> QED BY <1>1, <1>3, <1>5, <1>6, <1>7, <1>9, <1>11, <2>2, AnsweredStep
<1> QED BY <1>6, <1>10, <1>11

\* The registration of workspaces before a completion.
LEMMA RegisterStep ==
  ASSUME AInv, JournalPromise, NEW w \in Workers, Register(w)
  PROVE  AInv'
<1> DEFINE q == wk[w]
<1>1. q.pc = "register" /\ Busy(q) /\ UNCHANGED <<op, clock, late, untouched>>
  BY DEF Register, Busy
<1>2. q \in WorkerState /\ WorkerOK(q, op, hist, clock, stopping)
  BY <1>1, BusyWorker
<1>3. PICK code \in {"none", "reported"} : Set(w, [q EXCEPT !.pc = "complete", !.code = code])
  BY Zenon DEF Register
<1> DEFINE p == [q EXCEPT !.pc = "complete", !.code = code]
<1>4. /\ p \in WorkerState /\ p.pc = "complete" /\ p.o = q.o /\ p.l = q.l /\ p.ex = q.ex
      /\ p.gate = q.gate /\ p.code \in {"none", "reported"} /\ p.stop = q.stop /\ Set(w, p)
  BY <1>2, <1>3, Zenon DEF WorkerState, Pcs
<1> HIDE DEF p
<1>5. q.ex = "done" /\ ~q.stop /\ q.code = "none"
  BY <1>1, <1>2 DEF WorkerOK, Shape
<1>6. Shape(p, stopping)
  BY <1>4, <1>5 DEF Shape, InTheUnit
<1>7. SameExecutor(p, q) /\ HoldOK(p, op, clock) /\ Descends(p, q)
  BY <1>1, <1>4, <1>5 DEF SameExecutor, HoldOK, Busy, Descends
<1>8. WorkerOK(p, op, hist, clock, stopping)
  BY <1>2, <1>6, <1>7, SameExecutorOK
<1> QED BY <1>1, <1>4, <1>7, <1>8, LocalStep

\* clearBundleReceipt.
LEMMA ClearedTyped ==
  ASSUME StateInv, NEW w, receipt' = receipt \/ receipt' = Cleared(w), UNCHANGED <<temp, stopping>>,
         unit' \in [state: {"idle", "active", "failed"}, by: Ops \cup {0}]
  PROVE  FilesTyped
  BY DEF StateInv, FilesTyped, Cleared

\* CompleteOperation, answered or not.
LEMMA CompleteStep ==
  ASSUME AInv, JournalPromise, NEW w \in Workers, Complete(w)
  PROVE  AInv'
<1> DEFINE q == wk[w]
           m == CompleteCall(w)
<1>1. /\ q.pc = "complete" /\ Busy(q) /\ Set(w, Idle) /\ UNCHANGED <<temp, unit, stopping, hist>>
      /\ \/ ~stopping /\ Accepted(m) /\ Answered(m) /\ receipt' = Cleared(w)
         \/ Refused(m) /\ UNCHANGED receipt
  BY DEF Complete, Busy
<1>2. q \in WorkerState /\ WorkerOK(q, op, hist, clock, stopping)
  BY <1>1, BusyWorker
<1>3. q.ex = "done" /\ (~stopping => q.code # "cancelled")
  BY <1>1, <1>2, Zenon DEF WorkerOK, Shape
<1>4. ~stopping => q.code \in {"none", "reported"}
  BY <1>2, <1>3 DEF WorkerState
<1>5. m.call = "complete" /\ m.o = q.o /\ m.l = q.l /\ m.arg = q.code /\ (~stopping => m \in LateCalls)
  BY <1>1, <1>4, RequestTypes DEF CompleteCall
<1>6. Idle \in WorkerState /\ WorkerOK(Idle, op, hist, clock, stopping) /\ WorkerOK(Idle, op', hist, clock, stopping)
  BY IdleOK
<1>7. StateInv /\ unit' \in [state: {"idle", "active", "failed"}, by: Ops \cup {0}]
  BY <1>1, TypedState DEF StateInv
<1> HIDE DEF m
<1>8. CASE Refused(m) /\ UNCHANGED receipt
  BY <1>1, <1>3, <1>5, <1>6, <1>8, RefusedStep
<1>9. CASE ~stopping /\ Accepted(m) /\ Answered(m) /\ receipt' = Cleared(w)
  <2>1. FilesTyped
    BY <1>1, <1>7, <1>9, ClearedTyped
  <2> QED BY <1>1, <1>3, <1>5, <1>6, <1>9, <2>1, AnsweredStep
<1> QED BY <1>1, <1>8, <1>9

\* The acknowledgement of a cancellation, answered or not.
LEMMA AcknowledgeStep ==
  ASSUME AInv, JournalPromise, NEW w \in Workers, Acknowledge(w)
  PROVE  AInv'
<1> DEFINE q == wk[w]
           m == CancelCall(w)
<1>1. /\ q.pc = "ack" /\ Busy(q) /\ Set(w, Idle) /\ UNCHANGED <<temp, unit, stopping, hist>>
      /\ \/ ~stopping /\ Accepted(m) /\ Answered(m) /\ receipt' = Cleared(w)
         \/ Refused(m) /\ UNCHANGED receipt
  BY DEF Acknowledge, Busy
<1>2. m.call = "cancel" /\ m.o = q.o /\ m.l = q.l /\ m \in LateCalls
  BY <1>1, RequestTypes, Zenon DEF CancelCall
<1>3. Idle \in WorkerState /\ WorkerOK(Idle, op, hist, clock, stopping) /\ WorkerOK(Idle, op', hist, clock, stopping)
  BY IdleOK
<1>4. StateInv /\ unit' \in [state: {"idle", "active", "failed"}, by: Ops \cup {0}]
  BY <1>1, TypedState DEF StateInv
<1> HIDE DEF m
<1>5. CASE Refused(m) /\ UNCHANGED receipt
  BY <1>1, <1>2, <1>3, <1>5, RefusedStep
<1>6. CASE ~stopping /\ Accepted(m) /\ Answered(m) /\ receipt' = Cleared(w)
  <2>1. FilesTyped
    BY <1>1, <1>4, <1>6, ClearedTyped
  <2> QED BY <1>1, <1>2, <1>3, <1>6, <2>1, AnsweredStep
<1> QED BY <1>1, <1>5, <1>6

-----------------------------------------------------------------------------
(* The steps of an executor.                                               *)

\* Worker w's executor takes a step to p: the history changes for its operation
\* alone, and no other executor of an operation that must not be repeated is
\* waiting.
LEMMA ExecutorStep ==
  ASSUME AInv, JournalPromise, NEW w \in Workers, NEW p \in WorkerState, Set(w, p), wk[w].ex # "none",
         UNCHANGED executorOnly, FilesTyped, hist' \in [Ops -> Deeds],
         p.pc = wk[w].pc, p.o = wk[w].o, p.l = wk[w].l, p.ex # "none",
         \/ p.gate = wk[w].gate
         \/ \A v \in Workers \ {w} : (p.gate = "exclusive" => wk[v].gate = "free") /\ wk[v].gate # "exclusive",
         \A o \in Ops \ {wk[w].o} : hist'[o] = hist[o],
         RowOK(op[wk[w].o], hist'[wk[w].o]), hist[wk[w].o].earned => hist'[wk[w].o].earned,
         WorkerOK(p, op, hist', clock, stopping)
  PROVE  AInv'
<1> DEFINE q == wk[w]
           o == wk[w].o
           M == {}
<1>1. Busy(q)
  <2>1. WorkerOK(q, op, hist, clock, stopping)
    BY DEF AInv
  <2> QED BY <2>1, Zenon DEF WorkerOK, Shape, Busy
<1>2. /\ StateInv /\ wk \in [Workers -> WorkerState] /\ late \subseteq LateCalls
      /\ op' = op /\ clock' = clock /\ late' = late /\ stopping' = stopping
  BY TypedState DEF executorOnly
<1>3. TableOnward
  BY <1>2, SameKeeps
<1>4. wk'[w] = p /\ (\A v \in Workers \ {w} : wk'[v] = wk[v]) /\ wk' \in [Workers -> WorkerState]
  BY <1>2 DEF Set
<1>5. StateInv'
  BY <1>2, <1>3, <1>4, NextState
<1>6. \A x \in Ops : RowOK(op'[x], hist'[x]) /\ (hist[x].earned => hist'[x].earned)
  BY <1>2, Zenon DEF AInv
<1>7. ASSUME NEW v \in Workers \ {w} PROVE Undisturbed(v)
  <2>1. PairOK(wk[v], q, op)
    BY Zenon DEF AInv
  <2>2. Busy(wk[v]) /\ wk[v].ex = "gate" /\ op[wk[v].o].kind \notin Repeatable => wk[v].o # o /\ wk[v].o \in Ops
    BY <1>1, <2>1, BusyWorker, Zenon DEF PairOK
  <2>3. wk'[v] = wk[v] /\ (wk[v].pc = "loop" => Renewed(op[wk[v].o], op'[wk[v].o]))
    BY <1>2, <1>4, SameKeeps, Zenon
  <2> QED BY <1>2, <2>2, <2>3, Zenon DEF Undisturbed
<1>8. ASSUME NEW v \in Workers \ {w} PROVE PairOK(p, wk[v], op) /\ PairOK(wk[v], p, op)
  <2>1. PairOK(wk[v], q, op) /\ PairOK(q, wk[v], op)
    BY Zenon DEF AInv
  <2>2. CASE p.gate = q.gate
    BY <1>1, <2>1, <2>2, Zenon DEF PairOK
  <2>3. CASE (p.gate = "exclusive" => wk[v].gate = "free") /\ wk[v].gate # "exclusive"
    BY <1>1, <2>1, <2>3, Zenon DEF PairOK
  <2> QED BY <2>2, <2>3, Zenon
<1>9. ASSUME NEW k \in late PROVE LatePairOK(k, p)
  <2>1. LatePairOK(k, q)
    BY Zenon DEF AInv
  <2> QED BY <2>1, Zenon DEF LatePairOK, Busy
<1>10. /\ {w} \in SUBSET Workers /\ (\A v \in Workers \ {w} : Undisturbed(v))
       /\ \A u \in {w} : /\ WorkerOK(wk'[u], op', hist', clock, stopping')
                         /\ \A v \in Workers \ {u} : PairOK(wk'[u], wk'[v], op') /\ PairOK(wk'[v], wk'[u], op')
       /\ \A k \in late, u \in {w} : k \in late' => LatePairOK(k, wk'[u])
       /\ late' \subseteq late \cup M /\ (stopping => stopping')
       /\ \A m \in M : LateOK(m, op', hist') /\ \A v \in Workers : LatePairOK(m, wk'[v])
  BY <1>2, <1>4, <1>7, <1>8, <1>9, Zenon
<1> HIDE DEF M
<1> QED BY <1>2, <1>3, <1>5, <1>6, <1>10, Frame, Zenon

\* An executor that is past its gate or waits for it.
LEMMA Executing ==
  ASSUME AInv, NEW w \in Workers, wk[w].ex \notin {"none", "done"}
  PROVE  /\ wk[w] \in WorkerState /\ wk[w].o \in Ops /\ Busy(wk[w]) /\ wk[w].pc \in {"loop", "drain"}
         /\ op[wk[w].o].state \in OpStates /\ op[wk[w].o].state # "absent"
         /\ WorkerOK(wk[w], op, hist, clock, stopping)
         /\ StateInv /\ hist \in [Ops -> Deeds] /\ RowOK(op[wk[w].o], hist[wk[w].o])
<1>1. wk[w] \in WorkerState /\ WorkerOK(wk[w], op, hist, clock, stopping) /\ StateInv /\ hist \in [Ops -> Deeds]
  BY TypedState DEF AInv
<1>2. wk[w].pc \in {"loop", "drain"}
  BY <1>1 DEF WorkerOK, Shape, WorkerState, Pcs
<1>3. Busy(wk[w])
  BY <1>2 DEF Busy
<1>4. wk[w].o \in Ops /\ op[wk[w].o].state \in OpStates /\ op[wk[w].o].state # "absent"
  BY <1>3, BusyWorker
<1>5. RowOK(op[wk[w].o], hist[wk[w].o])
  BY <1>4 DEF AInv
<1> QED BY <1>1, <1>2, <1>3, <1>4, <1>5

\* What an executor's step must show of the worker: its program counter, its
\* operation and its lease stay.
LEMMA ExecutorOK ==
  ASSUME NEW q, NEW p, NEW h, NEW g, WorkerOK(q, op, h, clock, stopping),
         q.pc \in {"loop", "drain"}, q.ex \notin {"none", "done"},
         p.pc = q.pc, p.o = q.o, p.l = q.l, p.stop = q.stop, p.cancel = q.cancel, p.beat = q.beat,
         p.ex \notin {"none", "gate"}, p.gate # "free" \/ p.ex = "done",
         p.ex = "done" /\ p.code = "cancelled" => q.stop \/ stopping,
         GateOK(p, op), SuccessOK(p, op, g)
  PROVE  WorkerOK(p, op, g, clock, stopping)
<1>1. Busy(q) /\ Busy(p)
  BY Zenon DEF Busy
<1>2. Shape(p, stopping)
  <2>1. Shape(q, stopping)
    BY DEF WorkerOK
  <2> QED BY <2>1, Zenon DEF Shape, InTheUnit
<1>3. Presents(p, op) /\ HoldOK(p, op, clock)
  BY <1>1, Zenon DEF WorkerOK, Presents, HoldOK
<1>4. EffectOK(p, op, g)
  BY <1>1, Zenon DEF WorkerOK, EffectOK
<1> QED BY <1>2, <1>3, <1>4 DEF WorkerOK

\* controlOperationGate.acquire; an ordinary effect begins, for the first time.
LEMMA AcquireStep ==
  ASSUME AInv, JournalPromise, NEW w \in Workers, Acquire(w)
  PROVE  AInv'
<1> DEFINE q == wk[w]
           o == wk[w].o
           mode == IF IsBundle(w) THEN "exclusive" ELSE "shared"
           p == [q EXCEPT !.gate = mode, !.ex = IF IsBundle(w) THEN "receipt" ELSE "run"]
<1>1. q.ex = "gate" /\ Free(w, mode) /\ Set(w, p) /\ UNCHANGED <<executorOnly, receipt, temp, unit>>
  BY DEF Acquire
<1>2. /\ q \in WorkerState /\ o \in Ops /\ Busy(q) /\ q.pc \in {"loop", "drain"}
      /\ op[o].state \in OpStates /\ op[o].state # "absent" /\ WorkerOK(q, op, hist, clock, stopping)
      /\ StateInv /\ hist \in [Ops -> Deeds] /\ RowOK(op[o], hist[o])
  BY <1>1, Executing
<1>3. /\ p \in WorkerState /\ p.pc = q.pc /\ p.o = q.o /\ p.l = q.l /\ p.stop = q.stop /\ p.cancel = q.cancel
      /\ p.beat = q.beat /\ p.gate = mode /\ p.ex = IF IsBundle(w) THEN "receipt" ELSE "run"
  BY <1>2, Zenon DEF WorkerState, Exs
<1>4. IsBundle(w) = (op[o].kind \in Privileged) /\ (op[o].kind \in Privileged => op[o].kind \in Repeatable)
  BY DEF IsBundle, Kind, Privileged, Repeatable
<1> HIDE DEF p
<1>5. /\ hist' \in [Ops -> Deeds] /\ \A x \in Ops \ {o} : hist'[x] = hist[x]
      /\ hist'[o].earned = hist[o].earned
      /\ hist'[o].begun = IF IsBundle(w) THEN hist[o].begun ELSE hist[o].begun + 1
  <2>1. CASE IsBundle(w)
    BY <1>2, <2>1 DEF Acquire
  <2>2. CASE ~IsBundle(w)
    <3>1. hist' = [hist EXCEPT ![o].begun = @ + 1]
      BY <2>2 DEF Acquire
    <3> QED BY <1>2, <2>2, <3>1 DEF Deeds
  <2> QED BY <2>1, <2>2, Zenon
<1>6. RowOK(op[o], hist'[o])
  <2>1. EffectOK(q, op, hist)
    BY <1>2, Zenon DEF WorkerOK
  <2>2. op[o].kind \notin Repeatable => op[o].progress # 0 /\ hist[o].begun = 0
    BY <1>1, <1>2, <2>1, Zenon DEF EffectOK
  <2>3. ASSUME op[o].kind \notin Repeatable PROVE hist'[o].begun = 1
    <3>1. ~IsBundle(w)
      BY <1>4, <2>3, Zenon
    <3>2. hist'[o].begun = hist[o].begun + 1 /\ hist[o].begun = 0
      BY <1>5, <2>2, <2>3, <3>1, Zenon
    <3> QED BY <3>2
  <2>4. op[o].kind \notin Repeatable => hist'[o].begun <= 1
    BY <2>3
  <2> QED BY <1>2, <1>5, <2>2, <2>4, Zenon DEF RowOK
<1>7. GateOK(p, op) /\ SuccessOK(p, op, hist')
  BY <1>3, <1>4, Zenon DEF GateOK, SuccessOK, InTheUnit
<1>8. WorkerOK(p, op, hist', clock, stopping)
  BY <1>1, <1>2, <1>3, <1>7, ExecutorOK, Zenon
<1>9. \A v \in Workers \ {w} : (p.gate = "exclusive" => wk[v].gate = "free") /\ wk[v].gate # "exclusive"
  BY <1>1, <1>3 DEF Free
<1>10. FilesTyped
  BY <1>1, <1>2, SameFiles, Zenon DEF executorOnly
<1> QED BY <1>1, <1>2, <1>3, <1>5, <1>6, <1>8, <1>9, <1>10, ExecutorStep, Zenon

\* An executor that goes on, or returns, without doing anything for its operation.
LEMMA QuietExecutor ==
  ASSUME AInv, JournalPromise, NEW w \in Workers, wk[w].ex \notin {"none", "done"}, UNCHANGED executorOnly, FilesTyped,
         hist' = hist,
         \/ wk[w].ex \in InTheUnit /\ \E ex \in InTheUnit : Set(w, [wk[w] EXCEPT !.ex = ex])
         \/ \E code \in {"none", "reported", "cancelled"} :
              /\ Return(w, code)
              /\ code = "none" => wk[w].ex \in InTheUnit
              /\ code = "cancelled" => Stopped(w)
  PROVE  AInv'
<1> DEFINE q == wk[w]
           o == wk[w].o
<1>1. /\ q \in WorkerState /\ o \in Ops /\ Busy(q) /\ q.pc \in {"loop", "drain"}
      /\ WorkerOK(q, op, hist, clock, stopping)
      /\ StateInv /\ hist \in [Ops -> Deeds] /\ RowOK(op[o], hist[o])
  BY Executing
<1>2. GateOK(q, op) /\ Shape(q, stopping) /\ (q.ex \in InTheUnit => op[o].kind \in Privileged)
  BY <1>1 DEF WorkerOK, GateOK
<1>3. CASE q.ex \in InTheUnit /\ \E ex \in InTheUnit : Set(w, [q EXCEPT !.ex = ex])
  <2>1. PICK ex \in InTheUnit : Set(w, [q EXCEPT !.ex = ex])
    BY <1>3
  <2> DEFINE p == [q EXCEPT !.ex = ex]
  <2>2. /\ p \in WorkerState /\ p.pc = q.pc /\ p.o = q.o /\ p.l = q.l /\ p.stop = q.stop /\ p.cancel = q.cancel
        /\ p.beat = q.beat /\ p.gate = q.gate /\ p.ex = ex /\ p.ex \notin {"none", "gate", "done", "run"}
        /\ Set(w, p)
    BY <1>1, <2>1 DEF WorkerState, Exs, InTheUnit
  <2> HIDE DEF p
  <2>3. p.gate # "free"
    BY <1>2, <1>3, <2>2 DEF Shape
  <2>4. GateOK(p, op) /\ SuccessOK(p, op, hist)
    BY <1>1, <1>2, <1>3, <2>2 DEF GateOK, SuccessOK
  <2>5. WorkerOK(p, op, hist', clock, stopping)
    BY <1>1, <2>2, <2>3, <2>4, ExecutorOK
  <2> QED BY <1>1, <2>2, <2>5, ExecutorStep
<1>4. CASE \E code \in {"none", "reported", "cancelled"} :
             /\ Return(w, code)
             /\ code = "none" => q.ex \in InTheUnit
             /\ code = "cancelled" => Stopped(w)
  <2>1. PICK code \in {"none", "reported", "cancelled"} :
             /\ Return(w, code)
             /\ code = "none" => q.ex \in InTheUnit
             /\ code = "cancelled" => Stopped(w)
    BY <1>4
  <2> DEFINE p == [q EXCEPT !.ex = "done", !.code = code]
  <2>2. /\ p \in WorkerState /\ p.pc = q.pc /\ p.o = q.o /\ p.l = q.l /\ p.stop = q.stop /\ p.cancel = q.cancel
        /\ p.beat = q.beat /\ p.gate = q.gate /\ p.ex = "done" /\ p.code = code /\ Set(w, p)
    BY <1>1, <2>1, Zenon DEF WorkerState, Exs, Return
  <2> HIDE DEF p
  <2>3. GateOK(p, op)
    BY <1>1, <1>2, <2>2 DEF GateOK, InTheUnit
  <2>4. SuccessOK(p, op, hist)
    BY <1>2, <2>1, <2>2 DEF SuccessOK, Privileged, Repeatable
  <2>5. WorkerOK(p, op, hist', clock, stopping)
    BY <1>1, <2>1, <2>2, <2>3, <2>4, ExecutorOK DEF Stopped
  <2> QED BY <1>1, <2>2, <2>5, ExecutorStep
<1> QED BY <1>3, <1>4, Zenon

\* An ordinary effect that ends.
LEMMA EffectEndsStep ==
  ASSUME AInv, JournalPromise, NEW w \in Workers, EffectEnds(w)
  PROVE  AInv'
<1> DEFINE q == wk[w]
           o == wk[w].o
<1>1. q.ex = "run" /\ UNCHANGED <<executorOnly, receipt, temp, unit>>
  BY DEF EffectEnds, Outcomes
<1>2. PICK code \in {"none", "reported", "cancelled"} :
        /\ Return(w, code) /\ (code = "cancelled" => Stopped(w))
        /\ hist' = [hist EXCEPT ![o].earned = @ \/ code = "none"]
  BY Zenon DEF EffectEnds, Outcomes
<1>3. /\ q \in WorkerState /\ o \in Ops /\ Busy(q) /\ q.pc \in {"loop", "drain"} /\ op[o].state # "absent"
      /\ WorkerOK(q, op, hist, clock, stopping)
      /\ StateInv /\ hist \in [Ops -> Deeds] /\ RowOK(op[o], hist[o])
  BY <1>1, Executing, Zenon
<1>4. /\ hist' \in [Ops -> Deeds] /\ (\A x \in Ops \ {o} : hist'[x] = hist[x])
      /\ hist'[o].begun = hist[o].begun /\ (hist[o].earned \/ code = "none" => hist'[o].earned)
  <2>1. hist[o].earned \in BOOLEAN /\ hist[o] \in Deeds
    BY <1>3, Zenon DEF Deeds
  <2> QED BY <1>2, <1>3, <2>1, Zenon DEF Deeds
<1>5. RowOK(op[o], hist'[o])
  BY <1>3, <1>4, Zenon DEF RowOK
<1> DEFINE p == [q EXCEPT !.ex = "done", !.code = code]
<1>6. /\ p \in WorkerState /\ p.pc = q.pc /\ p.o = q.o /\ p.l = q.l /\ p.stop = q.stop /\ p.cancel = q.cancel
      /\ p.beat = q.beat /\ p.gate = q.gate /\ p.ex = "done" /\ p.code = code /\ Set(w, p)
  BY <1>2, <1>3, Zenon DEF WorkerState, Exs, Return
<1> HIDE DEF p
<1>7. GateOK(p, op) /\ SuccessOK(p, op, hist')
  BY <1>3, <1>4, <1>6, Zenon DEF WorkerOK, GateOK, SuccessOK, InTheUnit
<1>8. WorkerOK(p, op, hist', clock, stopping)
  BY <1>1, <1>2, <1>3, <1>6, <1>7, ExecutorOK DEF Stopped
<1>9. FilesTyped
  BY <1>1, <1>3, SameFiles, Zenon DEF executorOnly
<1> QED BY <1>1, <1>3, <1>4, <1>5, <1>6, <1>8, <1>9, ExecutorStep, Zenon

\* The other steps of an executor do nothing for the operation, except the
\* dispatch of the unit.
LEMMA ExecuteStep ==
  ASSUME AInv, JournalPromise, NEW w \in Workers, Execute(w)
  PROVE  AInv'
<1> DEFINE q == wk[w]
           o == wk[w].o
<1>1. StateInv
  BY TypedState
<1>2. /\ receipt \in Ops \cup {0} /\ temp \in BOOLEAN /\ stopping \in BOOLEAN
      /\ unit \in [state: {"idle", "active", "failed"}, by: Ops \cup {0}]
  BY <1>1 DEF StateInv
<1>3. CASE GiveUp(w)
  <2>1. FilesTyped
    BY <1>1, <1>3, SameFiles DEF GiveUp, executorOnly
  <2> QED BY <1>3, <2>1, QuietExecutor DEF GiveUp
<1>4. CASE ReadReceipt(w)
  <2>1. FilesTyped
    BY <1>1, <1>4, SameFiles DEF ReadReceipt, executorOnly
  <2>2. q.ex \in InTheUnit /\ "open" \in InTheUnit /\ "wait" \in InTheUnit /\ q.ex \notin {"none", "done"}
    BY <1>4 DEF ReadReceipt, InTheUnit
  <2>3. \/ \E ex \in InTheUnit : Set(w, [q EXCEPT !.ex = ex])
        \/ \E code \in {"reported", "cancelled"} : Return(w, code) /\ (code = "cancelled" => Stopped(w))
    BY <1>4, <2>2 DEF ReadReceipt
  <2> QED BY <1>4, <2>1, <2>2, <2>3, QuietExecutor DEF ReadReceipt
<1>5. CASE OpenTemp(w)
  <2>1. FilesTyped
    BY <1>2, <1>5, Zenon DEF OpenTemp, executorOnly, FilesTyped
  <2>2. q.ex \in InTheUnit /\ "link" \in InTheUnit /\ q.ex \notin {"none", "done"}
    BY <1>5 DEF OpenTemp, InTheUnit
  <2>3. (\E ex \in InTheUnit : Set(w, [q EXCEPT !.ex = ex])) \/ Return(w, "reported")
    BY <1>5, <2>2 DEF OpenTemp
  <2> QED BY <1>5, <2>1, <2>2, <2>3, QuietExecutor DEF OpenTemp
<1>6. CASE LinkReceipt(w)
  <2>1. q.ex \in InTheUnit /\ "unlink" \in InTheUnit /\ q.ex \notin {"none", "done"}
    BY <1>6 DEF LinkReceipt, InTheUnit
  <2>2. FilesTyped
    BY <1>2, <1>6, <2>1, Executing DEF LinkReceipt, executorOnly, FilesTyped
  <2> QED BY <1>6, <2>1, <2>2, QuietExecutor DEF LinkReceipt
<1>7. CASE RemoveTemp(w)
  <2>1. q.ex \in InTheUnit /\ "dispatch" \in InTheUnit /\ q.ex \notin {"none", "done"}
    BY <1>7 DEF RemoveTemp, InTheUnit
  <2>2. FilesTyped
    BY <1>2, <1>7, Zenon DEF RemoveTemp, executorOnly, FilesTyped
  <2> QED BY <1>7, <2>1, <2>2, QuietExecutor DEF RemoveTemp
<1>8. CASE Dispatch(w)
  <2>1. q.ex \in InTheUnit /\ q.ex \notin {"none", "done"} /\ UNCHANGED executorOnly /\ stopping' = stopping
    BY <1>8 DEF Dispatch, InTheUnit, executorOnly
  <2>2. CASE /\ UNCHANGED unit /\ hist' = hist /\ (receipt' = receipt \/ receipt' = Cleared(w))
             /\ (Stopped(w) /\ Return(w, "cancelled")) \/ Return(w, "reported")
    <3>1. FilesTyped
      BY <1>2, <1>8, <2>1, <2>2 DEF Dispatch, FilesTyped, Cleared
    <3> QED BY <2>1, <2>2, <3>1, QuietExecutor
  <2>3. CASE /\ Set(w, [q EXCEPT !.ex = "started"])
             /\ unit' = [state |-> "active", by |-> o]
             /\ hist' = [hist EXCEPT ![o].begun = @ + 1, ![o].sent = TRUE]
             /\ UNCHANGED receipt
    <3>1. /\ q \in WorkerState /\ o \in Ops /\ Busy(q) /\ q.pc \in {"loop", "drain"} /\ op[o].state # "absent"
          /\ WorkerOK(q, op, hist, clock, stopping)
          /\ hist \in [Ops -> Deeds] /\ RowOK(op[o], hist[o])
      BY <2>1, Executing, Zenon
    <3>2. /\ hist' \in [Ops -> Deeds] /\ (\A x \in Ops \ {o} : hist'[x] = hist[x])
          /\ hist'[o].earned = hist[o].earned
      <4> DEFINE d == [hist[o] EXCEPT !.begun = @ + 1]
                 e == [d EXCEPT !.sent = TRUE]
      <4>1. d \in Deeds /\ d.earned = hist[o].earned
        BY <3>1 DEF Deeds
      <4>2. e \in Deeds /\ e.earned = d.earned
        BY <4>1, Zenon DEF Deeds
      <4>3. hist' = [hist EXCEPT ![o] = e]
        BY <2>3, <3>1, Zenon
      <4> HIDE DEF d, e
      <4> QED BY <3>1, <4>1, <4>2, <4>3, Zenon
    <3>3. op[o].kind \in Privileged /\ op[o].kind \in Repeatable /\ q.gate # "free"
      BY <2>1, <3>1, Zenon DEF WorkerOK, GateOK, Shape, Privileged, Repeatable
    <3>4. RowOK(op[o], hist'[o])
      BY <3>1, <3>3, Zenon DEF RowOK
    <3> DEFINE p == [q EXCEPT !.ex = "started"]
    <3>5. /\ p \in WorkerState /\ p.pc = q.pc /\ p.o = q.o /\ p.l = q.l /\ p.stop = q.stop /\ p.cancel = q.cancel
          /\ p.beat = q.beat /\ p.gate = q.gate /\ p.ex = "started" /\ Set(w, p)
      BY <2>3, <3>1 DEF WorkerState, Exs
    <3> HIDE DEF p
    <3>6. GateOK(p, op) /\ SuccessOK(p, op, hist')
      BY <3>1, <3>3, <3>5, Zenon DEF WorkerOK, GateOK, SuccessOK
    <3>7. WorkerOK(p, op, hist', clock, stopping)
      BY <2>1, <3>1, <3>3, <3>5, <3>6, ExecutorOK, Zenon
    <3>8. FilesTyped
      BY <1>2, <1>8, <2>1, <2>3, <3>1 DEF Dispatch, FilesTyped
    <3> QED BY <2>1, <3>1, <3>2, <3>4, <3>5, <3>7, <3>8, ExecutorStep, Zenon
  <2> QED BY <1>8, <2>2, <2>3 DEF Dispatch
<1>9. CASE StartReturns(w)
  <2>1. q.ex \in InTheUnit /\ q.ex \notin {"none", "done"} /\ UNCHANGED <<executorOnly, hist>>
    BY <1>9, Zenon DEF StartReturns, Collected, InTheUnit
  <2>2. FilesTyped
    BY <1>2, <1>9, Zenon DEF StartReturns, Collected, FilesTyped, Cleared, executorOnly
  <2>3. \E code \in {"none", "reported", "cancelled"} : Return(w, code) /\ (code = "cancelled" => Stopped(w))
    BY <1>9 DEF StartReturns, Collected
  <2> QED BY <2>1, <2>2, <2>3, QuietExecutor
<1>10. CASE WaitReturns(w)
  <2>1. q.ex \in InTheUnit /\ q.ex \notin {"none", "done"} /\ UNCHANGED <<executorOnly, hist>>
    BY <1>10 DEF WaitReturns, Collected, InTheUnit
  <2>2. FilesTyped
    BY <1>1, <1>10, SameFiles DEF WaitReturns, Collected, executorOnly
  <2>3. \E code \in {"none", "reported", "cancelled"} : Return(w, code) /\ (code = "cancelled" => Stopped(w))
    BY <1>10 DEF WaitReturns, Collected
  <2> QED BY <2>1, <2>2, <2>3, QuietExecutor
<1> QED BY <1>3, <1>4, <1>5, <1>6, <1>7, <1>8, <1>9, <1>10, AcquireStep, EffectEndsStep DEF Execute

-----------------------------------------------------------------------------
(* The steps of the environment.                                           *)

\* The server handles a request that was under way: a completion takes no lease
\* from a worker that still counts on it.
LEMMA DeliverStep ==
  ASSUME AInv, JournalPromise, NEW m \in late, Deliver(m)
  PROVE  AInv'
<1>1. StateInv /\ m \in LateCalls
  BY TypedState
<1>2. op' = Served(m) /\ clock' = clock /\ late' \subseteq late /\ UNCHANGED <<wk, receipt, temp, unit, stopping, hist>>
  BY DEF Deliver, untouched
<1>3. /\ TableOnward
      /\ \A p \in Ops : \/ Calm(op[p], op'[p])
                        \/ p = m.o /\ m.call \in {"complete", "cancel"} /\ Held(m.o, m.l)
      /\ \A p \in Ops : op'[p].state = "succeeded" =>
           op[p].state = "succeeded" \/ (p = m.o /\ m.call = "complete" /\ m.arg = "none")
  BY <1>1, <1>2, ServedPromise
<1>4. EarnedStep
  <2>1. LateOK(m, op, hist) /\ 0 \notin Ops
    BY AgentAssumption DEF AInv
  <2> QED BY <1>3, <2>1 DEF EarnedStep, LateOK
<1>5. ASSUME NEW w \in Workers, wk[w].pc = "loop", ~wk[w].stop, op[wk[w].o].kind \in Timely
      PROVE  Renewed(op[wk[w].o], op'[wk[w].o])
  <2>1. Busy(wk[w])
    BY <1>5 DEF Busy
  <2>2. wk[w].o \in Ops /\ WorkerOK(wk[w], op, hist, clock, stopping)
    BY <2>1, BusyWorker
  <2>3. op[wk[w].o].lease = wk[w].l
    BY <1>5, <2>2, Zenon DEF WorkerOK, HoldOK
  <2>4. m.o = wk[w].o /\ m.l = wk[w].l => m.call = "progress"
    BY <2>1 DEF AInv, LatePairOK
  <2>5. Calm(op[wk[w].o], op'[wk[w].o])
    BY <1>3, <2>2, <2>3, <2>4, Zenon DEF Held
  <2> QED BY <2>5 DEF Calm
<1> QED BY <1>2, <1>3, <1>4, <1>5, ServerStep

\* A client creates, cancels or lists.
LEMMA ClientStep ==
  ASSUME AInv, JournalPromise, Client
  PROVE  AInv'
<1>1. StateInv /\ UNCHANGED <<wk, late, receipt, temp, unit, stopping, hist>>
  BY TypedState DEF Client, localVars
<1>2. TableOnward /\ (\A o \in Ops : Calm(op[o], op'[o])) /\ clock' = clock
  BY <1>1, ClientPromise
<1>3. EarnedStep
  BY <1>2 DEF EarnedStep, Calm, NoSuccess
<1>4. \A w \in Workers : wk[w].pc = "loop" => Renewed(op[wk[w].o], op'[wk[w].o])
  BY <1>2, BusyWorker DEF Busy, Calm
<1> QED BY <1>1, <1>2, <1>3, <1>4, ServerStep

\* The privileged unit ends.
LEMMA UnitEndsStep ==
  ASSUME AInv, JournalPromise, NEW state \in {"idle", "failed"}, UnitEnds(state)
  PROVE  AInv'
<1>1. /\ StateInv /\ hist \in [Ops -> Deeds] /\ (\A o \in Ops : hist[o] \in Deeds) /\ late \subseteq LateCalls
      /\ wk \in [Workers -> WorkerState]
  BY TypedState
<1>2. UNCHANGED <<op, clock, wk, late, receipt, temp, stopping>>
  BY DEF UnitEnds
<1>3. /\ hist' \in [Ops -> Deeds]
      /\ \A o \in Ops : hist'[o].begun = hist[o].begun /\ hist'[o].earned = hist[o].earned
  BY <1>1, Zenon DEF UnitEnds, Deeds
<1>4. FilesTyped
  BY <1>1, <1>2 DEF UnitEnds, StateInv, FilesTyped
<1>5. TableOnward /\ \A w \in Workers : wk[w].pc = "loop" => Renewed(op[wk[w].o], op'[wk[w].o])
  BY <1>2, SameKeeps
<1>6. StateInv'
  BY <1>1, <1>2, <1>3, <1>4, <1>5, NextState
<1>7. \A o \in Ops : RowOK(op'[o], hist'[o]) /\ (hist[o].earned => hist'[o].earned)
  BY <1>2, <1>3, Zenon DEF AInv, RowOK
<1>8. \A w \in Workers : Undisturbed(w)
  BY <1>2, <1>3, <1>5, BusyWorker, Zenon DEF Undisturbed
<1> QED BY <1>2, <1>5, <1>6, <1>7, <1>8, NobodyActs

\* The process begins to stop.
LEMMA StopStep ==
  ASSUME AInv, JournalPromise, Stop
  PROVE  AInv'
<1>1. /\ StateInv /\ hist \in [Ops -> Deeds] /\ late \subseteq LateCalls /\ wk \in [Workers -> WorkerState]
  BY TypedState
<1>2. UNCHANGED <<op, clock, wk, late, receipt, temp, unit, hist>> /\ stopping' = TRUE
  BY DEF Stop
<1>3. FilesTyped
  BY <1>1, <1>2 DEF StateInv, FilesTyped
<1>4. TableOnward /\ \A w \in Workers : wk[w].pc = "loop" => Renewed(op[wk[w].o], op'[wk[w].o])
  BY <1>2, SameKeeps
<1>5. StateInv'
  BY <1>1, <1>2, <1>3, <1>4, NextState
<1>6. \A o \in Ops : RowOK(op'[o], hist'[o]) /\ (hist[o].earned => hist'[o].earned)
  BY <1>2 DEF AInv
<1>7. \A w \in Workers : Undisturbed(w)
  BY <1>2, <1>4 DEF Undisturbed
<1> QED BY <1>2, <1>4, <1>5, <1>6, <1>7, NobodyActs

\* The process ends: the requests under way and the history stay.
LEMMA RestartStep ==
  ASSUME AInv, JournalPromise, Restart
  PROVE  AInv'
<1>1. /\ StateInv /\ UNCHANGED <<op, clock, late, receipt, temp, unit, hist>> /\ stopping' = FALSE
      /\ hist \in [Ops -> Deeds] /\ late \subseteq LateCalls
  BY TypedState DEF Restart
<1>2. Idle \in WorkerState /\ wk' \in [Workers -> WorkerState] /\ \A w \in Workers : wk'[w] = Idle
  BY IdleOK DEF Restart
<1>3. FilesTyped
  BY <1>1, Zenon DEF StateInv, FilesTyped
<1>4. TableOnward
  BY <1>1, SameKeeps, Zenon
<1>5. StateInv'
  BY <1>1, <1>2, <1>3, <1>4, NextState
<1>6. /\ \A w \in Workers : WorkerOK(wk'[w], op', hist', clock', stopping')
      /\ \A v, w \in Workers : PairOK(wk'[v], wk'[w], op')
      /\ \A m \in late', w \in Workers : LatePairOK(m, wk'[w])
  BY <1>2, IdleOK
<1>7. (\A o \in Ops : RowOK(op'[o], hist'[o])) /\ \A m \in late' : LateOK(m, op', hist')
  BY <1>1 DEF AInv
<1> QED BY <1>5, <1>6, <1>7, Zenon DEF AInv

\* A tick: a worker that has reported since the last one holds its lease still.
LEMMA ClockStep ==
  ASSUME AInv, JournalPromise, Clock
  PROVE  AInv'
<1>1. /\ StateInv /\ clock \in Nat /\ (\A o \in Ops : op[o].until \in Nat) /\ late \subseteq LateCalls
      /\ wk \in [Workers -> WorkerState] /\ \A w \in Workers : wk[w] \in WorkerState
  BY TypedState
<1>2. op' = op /\ clock' = clock + 1 /\ UNCHANGED <<late, receipt, temp, unit, stopping, hist>>
  BY DEF Clock, Tick, untouched
<1>3. JInv'
  BY TickPromise DEF Clock
<1>4. ASSUME NEW w \in Workers
      PROVE  /\ wk'[w] = [wk[w] EXCEPT !.beat = wk[w].pc # "loop"] /\ wk'[w] \in WorkerState
             /\ wk'[w].pc = wk[w].pc /\ wk'[w].ex = wk[w].ex /\ wk'[w].o = wk[w].o /\ wk'[w].l = wk[w].l
             /\ wk'[w].cancel = wk[w].cancel /\ wk'[w].stop = wk[w].stop /\ wk'[w].code = wk[w].code
             /\ wk'[w].gate = wk[w].gate /\ (wk'[w].beat = (wk[w].pc # "loop"))
  BY <1>1, Zenon DEF Clock, WorkerState
<1>5. wk' \in [Workers -> WorkerState]
  BY <1>1, <1>4, Zenon DEF Clock
<1>6. StateInv'
  BY <1>1, <1>2, <1>3, <1>5 DEF StateInv
<1>7. ASSUME NEW w \in Workers PROVE WorkerOK(wk'[w], op', hist', clock', stopping')
  <2>1. WorkerOK(wk[w], op, hist, clock, stopping)
    BY DEF AInv
  <2>2. Shape(wk'[w], stopping)
    <3>1. wk[w].pc = "start" => wk'[w].beat
      BY <1>4, Zenon
    <3>2. /\ wk'[w].pc = wk[w].pc /\ wk'[w].ex = wk[w].ex /\ wk'[w].cancel = wk[w].cancel
          /\ wk'[w].stop = wk[w].stop /\ wk'[w].code = wk[w].code /\ wk'[w].gate = wk[w].gate
      BY <1>4, Zenon
    <3>3. Shape(wk[w], stopping)
      BY <2>1 DEF WorkerOK
    <3> QED BY <3>1, <3>2, <3>3, Zenon DEF Shape
  <2>3. HoldOK(wk'[w], op, clock + 1)
    <3>1. wk[w].pc = "loop" => ~wk'[w].beat
      BY <1>4, Zenon
    <3>2. wk[w].pc = "loop" /\ ~wk[w].stop /\ op[wk[w].o].kind \in Timely =>
            op[wk[w].o].state = "leased" /\ op[wk[w].o].lease = wk[w].l /\ op[wk[w].o].until > clock + 1
      <4>1. wk[w].pc = "loop" /\ ~wk[w].stop /\ op[wk[w].o].kind \in Timely => wk[w].beat
        BY DEF Clock, Kind
      <4> QED BY <2>1, <4>1, Zenon DEF WorkerOK, HoldOK
    <3>3. wk'[w].pc = wk[w].pc /\ wk'[w].o = wk[w].o /\ wk'[w].l = wk[w].l /\ wk'[w].stop = wk[w].stop
      BY <1>4, Zenon
    <3> QED BY <3>1, <3>2, <3>3 DEF HoldOK
  <2>4. WorkerOK(wk'[w], op, hist, clock + 1, stopping)
    <3>1. CASE Busy(wk[w])
      <4>1. SameExecutor(wk'[w], wk[w])
        BY <1>4, <3>1, Zenon DEF SameExecutor, Busy
      <4> QED BY <2>1, <2>2, <2>3, <4>1, SameExecutorOK
    <3>2. CASE ~Busy(wk[w])
      <4>1. ~Busy(wk'[w])
        BY <1>4, <3>2, Zenon DEF Busy
      <4> QED BY <2>2, <2>3, <4>1, Zenon DEF WorkerOK, Presents, GateOK, EffectOK, SuccessOK
    <3> QED BY <3>1, <3>2
  <2> QED BY <1>2, <2>4
<1>8. \A v, w \in Workers : v # w => PairOK(wk'[v], wk'[w], op')
  <2>1. SUFFICES ASSUME NEW v \in Workers, NEW w \in Workers, v # w
                 PROVE  PairOK(wk'[v], wk'[w], op)
    BY <1>2
  <2>2. PairOK(wk[v], wk[w], op)
    BY <2>1, Zenon DEF AInv
  <2>3. /\ wk'[v].pc = wk[v].pc /\ wk'[v].o = wk[v].o /\ wk'[v].l = wk[v].l /\ wk'[v].gate = wk[v].gate
        /\ wk'[v].ex = wk[v].ex
        /\ wk'[w].pc = wk[w].pc /\ wk'[w].o = wk[w].o /\ wk'[w].l = wk[w].l /\ wk'[w].gate = wk[w].gate
        /\ wk'[w].ex = wk[w].ex
    BY <1>4, Zenon
  <2> QED BY <2>2, <2>3 DEF PairOK, Busy
<1>9. \A m \in late', w \in Workers : LatePairOK(m, wk'[w])
  <2>1. SUFFICES ASSUME NEW m \in late, NEW w \in Workers
                 PROVE  LatePairOK(m, wk'[w])
    BY <1>2
  <2>2. LatePairOK(m, wk[w])
    BY DEF AInv
  <2>3. wk'[w].pc = wk[w].pc /\ wk'[w].o = wk[w].o /\ wk'[w].l = wk[w].l
    BY <1>4, Zenon
  <2> QED BY <2>2, <2>3 DEF LatePairOK, Busy
<1>10. (\A o \in Ops : RowOK(op'[o], hist'[o])) /\ \A m \in late' : LateOK(m, op', hist')
  BY <1>2 DEF AInv
<1> QED BY <1>6, <1>7, <1>8, <1>9, <1>10, Zenon DEF AInv
=============================================================================
