-------------------------- MODULE EdgeBundleProofs --------------------------
(***************************************************************************)
(* The steps of the agent put together: under the journal's promise every  *)
(* step keeps the invariant AInv and takes the rows of the table onward.   *)
(* Then, when the heartbeats of bundle operations are timely, what the     *)
(* receipt file says of the unit.                                          *)
(***************************************************************************)
EXTENDS EdgeStepProofs

-----------------------------------------------------------------------------
(* A step of the agent.                                                    *)

\* Every step keeps the invariant.
LEMMA NextAInv ==
  ASSUME AInv, JournalPromise, [AgentNext]_agentVars
  PROVE  AInv'
<1>1. ASSUME NEW w \in Workers, Step(w) PROVE AInv'
  BY <1>1, PollStep, StampStep, BeginStep, HeartbeatStep, NoticeStopStep, DrainedStep, FinalizeStep,
     RegisterStep, CompleteStep, AcknowledgeStep DEF Step
<1>2. CASE UNCHANGED agentVars
  BY <1>2 DEF agentVars, localVars, AInv, StateInv, JInv, JournalTypeOK
<1> QED BY <1>1, <1>2, ExecuteStep, DeliverStep, UnitEndsStep, StopStep, RestartStep, ClientStep, ClockStep
        DEF AgentNext

\* A step of a worker leaves the table, or is the server handling a request.
LEMMA StepServes ==
  ASSUME AInv, JournalPromise, NEW w \in Workers, Step(w)
  PROVE  clock' = clock /\ (op' = op \/ \E m \in LateCalls : op' = Served(m))
<1>1. op \in [Ops -> OpRow] /\ wk[w] \in WorkerState /\ WorkerOK(wk[w], op, hist, clock, stopping)
  BY TypedState DEF AInv
<1>2. ASSUME NEW m, Refused(m) PROVE clock' = clock /\ op' = op
  BY <1>2, RefusedTable
<1>3. ASSUME NEW m \in LateCalls, Answered(m)
      PROVE  clock' = clock /\ (op' = op \/ \E k \in LateCalls : op' = Served(k))
  BY <1>3 DEF Answered
<1>4. \A c \in BOOLEAN : LeaseCall(c) \in LateCalls
  BY LeaseRequest
<1>5. CASE Poll(w)
  BY <1>2, <1>3, <1>4, <1>5, Zenon DEF Poll, Refused
<1>6. CASE Stamp(w)
  BY <1>2, <1>3, <1>4, <1>6, Zenon DEF Stamp, Refused
<1>7. CASE Begin(w)
  <2>1. Busy(wk[w]) /\ PhaseOf(w) \in Phases
    BY <1>7 DEF Begin, Busy, PhaseOf, Phases
  <2>2. ProgressCall(w, 1, PhaseOf(w)) \in LateCalls
    BY <2>1, RequestTypes
  <2> QED BY <1>2, <1>3, <1>7, <2>2 DEF Begin
<1>8. CASE Heartbeat(w)
  <2>1. Busy(wk[w]) /\ PhaseOf(w) \in Phases /\ "other" \in Phases /\ wk[w].rev + 1 \in Nat
    BY <1>1, <1>8 DEF Heartbeat, Busy, PhaseOf, Phases, WorkerState
  <2>2. \A phase \in Phases : ProgressCall(w, wk[w].rev + 1, phase) \in LateCalls
    BY <2>1, RequestTypes
  <2>3. \E phase \in Phases : Answered(ProgressCall(w, wk[w].rev + 1, phase))
                               \/ Refused(ProgressCall(w, wk[w].rev + 1, phase))
    BY <1>8, <2>1 DEF Heartbeat
  <2> QED BY <1>2, <1>3, <2>2, <2>3
<1>9. CASE Finalize(w)
  <2>1. Busy(wk[w]) /\ "finalizing" \in Phases /\ wk[w].rev + 1 \in Nat
    BY <1>1, <1>9 DEF Finalize, Busy, Phases, WorkerState
  <2>2. ProgressCall(w, wk[w].rev + 1, "finalizing") \in LateCalls
    BY <2>1, RequestTypes
  <2>3. Answered(ProgressCall(w, wk[w].rev + 1, "finalizing")) \/ Refused(ProgressCall(w, wk[w].rev + 1, "finalizing"))
    BY <1>9 DEF Finalize
  <2> QED BY <1>2, <1>3, <2>2, <2>3
<1>10. CASE Complete(w)
  <2>1. Busy(wk[w]) /\ (~stopping => wk[w].code \in {"none", "reported"})
    BY <1>1, <1>10 DEF Complete, Busy, WorkerOK, Shape, WorkerState
  <2>2. ~stopping => CompleteCall(w) \in LateCalls
    BY <2>1, RequestTypes
  <2> QED BY <1>2, <1>3, <1>10, <2>2 DEF Complete
<1>11. CASE Acknowledge(w)
  <2>1. CancelCall(w) \in LateCalls
    BY <1>11, RequestTypes DEF Acknowledge, Busy
  <2> QED BY <1>2, <1>3, <1>11, <2>1 DEF Acknowledge
<1>12. CASE NoticeStop(w) \/ Drained(w) \/ Register(w)
  BY <1>12 DEF NoticeStop, Drained, Register
<1> QED BY <1>5, <1>6, <1>7, <1>8, <1>9, <1>10, <1>11, <1>12 DEF Step

\* Every step of the agent is a step of the rows.
LEMMA AgentTable ==
  ASSUME AInv, JournalPromise, [AgentNext]_agentVars
  PROVE  TableOnward
<1>2. ASSUME op' = op PROVE TableOnward
  BY <1>2, SameKeeps
<1>3. ASSUME NEW m \in LateCalls, op' = Served(m), clock' = clock PROVE TableOnward
  BY <1>3, ServedPromise
<1>4. ASSUME NEW w \in Workers, Step(w) PROVE TableOnward
  BY <1>2, <1>3, <1>4, StepServes
<1>5. ASSUME NEW w \in Workers, Execute(w) PROVE op' = op
  BY <1>5, Zenon DEF Execute, executorOnly, Acquire, GiveUp, EffectEnds, Outcomes, ReadReceipt, OpenTemp, LinkReceipt, RemoveTemp,
              Dispatch, StartReturns, Collected, WaitReturns
<1>6. ASSUME NEW m \in late, Deliver(m) PROVE TableOnward
  BY <1>3, <1>6, TypedState DEF Deliver
<1>7. ASSUME Client PROVE TableOnward
  BY <1>7, ClientPromise
<1>8. ASSUME (\E state \in {"idle", "failed"} : UnitEnds(state)) \/ Stop \/ Restart \/ Clock \/ UNCHANGED agentVars
      PROVE  op' = op
  BY <1>8 DEF UnitEnds, Stop, Restart, Clock, Tick, agentVars
<1> QED BY <1>2, <1>4, <1>5, <1>6, <1>7, <1>8 DEF AgentNext

-----------------------------------------------------------------------------
(* The receipt and the unit, when the heartbeats of bundles are timely.    *)

\* The executor writes the receipt or is about to start the unit.
Preparing == {"open", "link", "unlink", "dispatch"}

\* What a step that dispatches nothing may do: drop the receipt of an operation
\* that has ended or for which the unit was not started, and take an executor on
\* towards the unit.
OnTheWay(v) ==
  /\ wk'[v].ex = "started" => wk[v].ex = "started"
  /\ wk'[v].ex \in Preparing =>
       /\ wk'[v].o = wk[v].o
       /\ \/ wk'[v].ex = wk[v].ex
          \/ wk[v].ex = "open" /\ wk'[v].ex = "link"
          \/ wk[v].ex = "unlink" /\ wk'[v].ex = "dispatch"
          \/ wk[v].ex = "receipt" /\ wk'[v].ex = "open" /\ receipt = 0 /\ ~hist[wk[v].o].sent

ReceiptGoes ==
  \/ receipt' = receipt
  \/ /\ receipt' = 0 /\ receipt \in Ops
     /\ \/ op'[receipt].state \notin Live
        \/ ~hist[receipt].sent /\ \A v \in Workers : wk'[v].ex \notin {"unlink", "dispatch"}

\* Such a step keeps the invariant.
LEMMA ReceiptFrame ==
  ASSUME AInv, ReceiptInv, \A o \in Ops : Onward(op[o], op'[o]) /\ hist'[o].sent = hist[o].sent,
         ReceiptGoes, unit'.state = "failed" => unit.state = "failed", \A v \in Workers : OnTheWay(v)
  PROVE  ReceiptInv'
<1>1. \A o \in Ops : op[o].state \in OpStates \cup {"absent"} /\ "absent" \notin OpStates
  BY TypedState, RowTypes DEF GoodRow, OpStates, Live, Done
<1>2. ASSUME NEW o \in Ops, op[o].state # "absent" PROVE op'[o].kind = op[o].kind /\ op'[o].state # "absent"
                                                        /\ (op'[o].state \in Live => op[o].state \in Live)
  <2>1. op'[o].state \in Live /\ op[o].state \in Done => op'[o] = op[o]
    BY DEF Onward
  <2> QED BY <1>1, <1>2, <2>1 DEF Onward, OpStates
<1>3. \A v \in Workers : wk[v].ex \in Preparing \cup {"receipt"} => wk[v].o \in Ops /\ op[wk[v].o].state # "absent"
  BY Executing DEF Preparing
<1>4. \A o \in Ops : hist'[o].sent => hist[o].sent /\ op[o].kind \in Privileged /\ op[o].state # "absent"
  BY DEF ReceiptInv
<1>5. \A o \in Ops : hist'[o].sent => op'[o].kind \in Privileged /\ op'[o].state # "absent"
  BY <1>2, <1>4
<1>6. unit'.state = "failed" => \A o \in Ops : ~hist'[o].sent
  BY <1>4 DEF ReceiptInv
<1>7. ASSUME NEW o \in Ops, hist'[o].sent, op'[o].state \in Live PROVE receipt' = o
  <2>1. receipt = o
    BY <1>2, <1>4, <1>7 DEF ReceiptInv
  <2> QED BY <1>4, <1>7, <2>1 DEF ReceiptGoes
<1>8. ASSUME NEW v \in Workers, wk'[v].ex \in {"open", "link"} PROVE receipt' = 0
  <2>1. receipt = 0
    BY <1>8 DEF ReceiptInv, OnTheWay, Preparing
  <2> QED BY <2>1 DEF ReceiptGoes
<1>9. ASSUME NEW v \in Workers, wk'[v].ex \in Preparing PROVE ~hist'[wk'[v].o].sent
  <2>1. wk'[v].o = wk[v].o /\ ~hist[wk[v].o].sent /\ wk[v].ex \in Preparing \cup {"receipt"}
    BY <1>9 DEF ReceiptInv, OnTheWay, Preparing
  <2> QED BY <1>3, <1>4, <2>1
<1>10. ASSUME NEW v \in Workers, wk'[v].ex \in {"unlink", "dispatch"}
       PROVE  receipt' = wk'[v].o \/ op'[wk'[v].o].state \notin Live
  <2>1. /\ wk'[v].o = wk[v].o /\ wk[v].ex \in {"unlink", "dispatch"} /\ wk[v].o \in Ops
        /\ op[wk[v].o].state # "absent"
    BY <1>3, <1>10 DEF OnTheWay, Preparing
  <2>2. receipt = wk[v].o \/ op[wk[v].o].state \notin Live
    BY <2>1 DEF ReceiptInv
  <2> QED BY <1>2, <1>10, <2>1, <2>2 DEF ReceiptGoes
<1> QED BY <1>5, <1>6, <1>7, <1>8, <1>9, <1>10 DEF ReceiptInv, Preparing

\* Nobody else is in the unit while an executor is.
LEMMA AloneInTheUnit ==
  ASSUME AInv, NEW w \in Workers, wk[w].ex \in InTheUnit
  PROVE  \A v \in Workers \ {w} : wk[v].ex \notin InTheUnit
<1>1. WorkerOK(wk[w], op, hist, clock, stopping) /\ Busy(wk[w])
  BY Executing DEF InTheUnit
<1>2. wk[w].gate = "exclusive"
  BY <1>1 DEF WorkerOK, Shape, GateOK
<1>3. ASSUME NEW v \in Workers \ {w}, wk[v].ex \in InTheUnit PROVE FALSE
  <2>1. WorkerOK(wk[v], op, hist, clock, stopping) /\ Busy(wk[v])
    BY <1>3, Executing DEF InTheUnit
  <2>2. wk[v].gate # "free" /\ PairOK(wk[w], wk[v], op)
    BY <1>3, <2>1, Zenon DEF WorkerOK, Shape, AInv
  <2> QED BY <1>1, <1>2, <2>1, <2>2 DEF PairOK
<1> QED BY <1>3

\* An executor that reads no receipt and is not stopped holds its lease: so the
\* unit was not started for its operation.
LEMMA UnsentBeforeOpen ==
  ASSUME AInv, ReceiptInv, Privileged \cap Kinds \subseteq Timely,
         NEW w \in Workers, wk[w].ex = "receipt", receipt = 0, ~Stopped(w)
  PROVE  ~hist[wk[w].o].sent
<1> DEFINE o == wk[w].o
<1>1. /\ o \in Ops /\ Busy(wk[w]) /\ wk[w].pc \in {"loop", "drain"} /\ op[o].state # "absent"
      /\ WorkerOK(wk[w], op, hist, clock, stopping)
  BY Executing
<1>2. wk[w].pc = "loop" /\ ~wk[w].stop
  BY <1>1 DEF WorkerOK, Shape, Stopped
<1>3. op[o].kind \in Timely
  <2>1. op[o].kind \in Privileged
    BY <1>1 DEF WorkerOK, GateOK, InTheUnit
  <2>2. op[o].kind \in Kinds \cup {"none"}
    BY <1>1, TypedState DEF GoodRow, OpRow
  <2> QED BY <2>1, <2>2 DEF Privileged
<1>4. op[o].state \in Live
  BY <1>1, <1>2, <1>3 DEF WorkerOK, HoldOK, Live
<1>5. o # 0
  BY <1>1, AgentAssumption
<1> QED BY <1>1, <1>4, <1>5 DEF ReceiptInv

\* A worker's completion or acknowledgement that is accepted ends the operation.
LEMMA EndedByCall ==
  ASSUME AInv, NEW w \in Workers, Busy(wk[w]), NEW m, m \in {CompleteCall(w), CancelCall(w)},
         Accepted(m), Answered(m)
  PROVE  op'[wk[w].o].state \notin Live
<1> DEFINE o == wk[w].o
<1>1. o \in Ops /\ op \in [Ops -> OpRow] /\ op[o] \in OpRow
  BY BusyWorker, TypedState
<1>2. CASE m = CompleteCall(w)
  <2>1. m.call = "complete" /\ m.o = o
    BY <1>2 DEF CompleteCall
  <2>2. op' = [op EXCEPT ![o] = CompletedRow(op[o], m.arg)]
    BY <1>1, <2>1, ServedByCall, Zenon DEF Answered
  <2>3. op'[o].state \in {"succeeded", "failed"}
    BY <1>1, <2>2 DEF CompletedRow, OpRow
  <2> QED BY <2>3 DEF Live
<1>3. CASE m = CancelCall(w)
  <2>1. m.call = "cancel" /\ m.o = o
    BY <1>3 DEF CancelCall
  <2>2. op' = [op EXCEPT ![o] = AcknowledgedRow(op[o])]
    BY <1>1, <2>1, ServedByCall, Zenon DEF Answered
  <2>3. op'[o].state = "cancelled"
    BY <1>1, <2>2 DEF AcknowledgedRow, OpRow
  <2> QED BY <2>3 DEF Live
<1> QED BY <1>2, <1>3

\* A step of a worker's own goroutine starts no executor beyond the gate, and
\* drops the receipt only of an operation that its call has ended.
LEMMA StepGoes ==
  ASSUME AInv, NEW w \in Workers, Step(w)
  PROVE  hist' = hist /\ unit' = unit /\ ReceiptGoes /\ \A v \in Workers : OnTheWay(v)
<1> DEFINE q == wk[w]
<1>1. /\ q \in WorkerState /\ wk \in [Workers -> WorkerState] /\ receipt \in Ops \cup {0}
  BY TypedState DEF StateInv
<1>2. ASSUME NEW p, Set(w, p), p.ex \in {q.ex, "none", "gate"}, p.ex = q.ex => p.o = q.o \/ p.ex = "none"
      PROVE  \A v \in Workers : OnTheWay(v)
  <2>1. wk'[w] = p /\ \A v \in Workers \ {w} : wk'[v] = wk[v]
    BY <1>1, <1>2 DEF Set
  <2>2. OnTheWay(w)
    BY <1>2, <2>1 DEF OnTheWay, Preparing
  <2> QED BY <2>1, <2>2 DEF OnTheWay
<1>3. Set(w, Idle) \/ UNCHANGED wk => \A v \in Workers : OnTheWay(v)
  <2>1. Idle.ex = "none"
    BY DEF Idle
  <2>2. CASE UNCHANGED wk
    BY <2>2 DEF OnTheWay
  <2> QED BY <1>2, <2>1, <2>2
<1>4. ASSUME NEW pc, NEW o, NEW l, Set(w, [Idle EXCEPT !.pc = pc, !.o = o, !.l = l])
      PROVE  \A v \in Workers : OnTheWay(v)
  <2>1. [Idle EXCEPT !.pc = pc, !.o = o, !.l = l].ex = "none"
    BY DEF Idle
  <2> QED BY <1>2, <1>4, <2>1, Zenon
<1>5. ASSUME NEW pc, Set(w, [Idle EXCEPT !.pc = pc]) PROVE \A v \in Workers : OnTheWay(v)
  <2>1. [Idle EXCEPT !.pc = pc].ex = "none"
    BY DEF Idle
  <2> QED BY <1>2, <1>5, <2>1, Zenon
<1>6. ASSUME NEW c \in BOOLEAN, TakeLease(w, c) PROVE \A v \in Workers : OnTheWay(v)
  BY <1>4, <1>5, <1>6, Zenon DEF TakeLease
<1>7. ASSUME UNCHANGED untouched PROVE hist' = hist /\ unit' = unit /\ ReceiptGoes
  BY <1>7 DEF untouched, ReceiptGoes
<1>8. CASE Poll(w) \/ Stamp(w)
  BY <1>3, <1>6, <1>7, <1>8, Zenon DEF Poll, Stamp
<1>14. ASSUME NEW pc, NEW c, NEW code,
              \/ Set(w, [q EXCEPT !.pc = pc]) \/ Set(w, [q EXCEPT !.pc = pc, !.stop = c])
              \/ Set(w, [q EXCEPT !.pc = pc, !.cancel = c]) \/ Set(w, [q EXCEPT !.pc = pc, !.code = code])
       PROVE  \A v \in Workers : OnTheWay(v)
  <2>1. PICK p \in {[q EXCEPT !.pc = pc], [q EXCEPT !.pc = pc, !.stop = c], [q EXCEPT !.pc = pc, !.cancel = c],
                    [q EXCEPT !.pc = pc, !.code = code]} : Set(w, p)
    BY <1>14
  <2>2. p.ex = q.ex /\ p.o = q.o
    BY <1>1, <2>1, Zenon DEF WorkerState
  <2> QED BY <1>2, <2>1, <2>2
<1>9. CASE Begin(w)
  <2>1. q.ex = "none"
    BY <1>9 DEF Begin, AInv, WorkerOK, Shape
  <2>2. \/ Set(w, Idle) \/ Set(w, [q EXCEPT !.pc = "ack", !.cancel = TRUE])
        \/ Set(w, [q EXCEPT !.pc = "loop", !.ex = "gate", !.rev = 1])
    BY <1>9 DEF Begin
  <2>3. [q EXCEPT !.pc = "loop", !.ex = "gate", !.rev = 1].ex = "gate"
    BY <1>1 DEF WorkerState
  <2>4. Set(w, [q EXCEPT !.pc = "loop", !.ex = "gate", !.rev = 1]) => \A v \in Workers : OnTheWay(v)
    BY <1>2, <2>1, <2>3, Zenon
  <2>5. Set(w, [q EXCEPT !.pc = "ack", !.cancel = TRUE]) => \A v \in Workers : OnTheWay(v)
    BY <1>14, Zenon
  <2>6. \A v \in Workers : OnTheWay(v)
    BY <1>3, <2>2, <2>4, <2>5
  <2> QED BY <1>7, <1>9, <2>6 DEF Begin
<1>10. CASE Heartbeat(w) \/ NoticeStop(w)
  <2> DEFINE p == [q EXCEPT !.rev = @ + 1, !.beat = TRUE, !.cancel = @ \/ op[q.o].cancel, !.stop = @ \/ op[q.o].cancel]
  <2>1. Set(w, [q EXCEPT !.pc = "drain", !.stop = TRUE]) \/ Set(w, p)
    BY <1>10 DEF Heartbeat, NoticeStop
  <2>2. p.ex = q.ex /\ p.o = q.o
    BY <1>1 DEF WorkerState
  <2> HIDE DEF p
  <2>3. Set(w, p) => \A v \in Workers : OnTheWay(v)
    BY <1>2, <2>2
  <2>4. \A v \in Workers : OnTheWay(v)
    BY <1>14, <2>1, <2>3, Zenon
  <2> QED BY <1>7, <1>10, <2>4 DEF Heartbeat, NoticeStop, untouched
<1>11. CASE Finalize(w) \/ Register(w)
  <2> DEFINE nx(c) == IF c THEN "ack" ELSE IF q.code = "none" /\ Kind(w) # "exec" THEN "register" ELSE "complete"
             d == q.cancel \/ op[q.o].cancel
  <2>1. Finalize(w) => Set(w, [q EXCEPT !.pc = nx(d), !.cancel = d]) \/ Set(w, [q EXCEPT !.pc = nx(q.cancel)])
    BY DEF Finalize
  <2>2. Register(w) => \E code : Set(w, [q EXCEPT !.pc = "complete", !.code = code])
    BY Zenon DEF Register
  <2> HIDE DEF nx, d
  <2>3. \A v \in Workers : OnTheWay(v)
    BY <1>11, <1>14, <2>1, <2>2, Zenon
  <2> QED BY <1>7, <1>11, <2>3 DEF Finalize, Register, untouched
<1>12. CASE Drained(w)
  BY <1>3, <1>7, <1>12 DEF Drained, untouched
<1>13. CASE Complete(w) \/ Acknowledge(w)
  <2>1. Busy(q) /\ Set(w, Idle) /\ hist' = hist /\ unit' = unit
    BY <1>13 DEF Complete, Acknowledge, Busy
  <2>2. ReceiptGoes
    <3>1. CASE receipt' = receipt
      BY <3>1 DEF ReceiptGoes
    <3>2. CASE receipt' # receipt
      <4>1. PICK m \in {CompleteCall(w), CancelCall(w)} : Accepted(m) /\ Answered(m) /\ receipt' = Cleared(w)
        BY <1>13, <3>2 DEF Complete, Acknowledge
      <4>2. receipt' = 0 /\ receipt = q.o
        BY <3>2, <4>1 DEF Cleared
      <4>3. q.o \in Ops
        BY <2>1, BusyWorker
      <4>4. op'[q.o].state \notin Live
        BY <2>1, <4>1, EndedByCall
      <4> QED BY <4>2, <4>3, <4>4 DEF ReceiptGoes
    <3> QED BY <3>1, <3>2
  <2> QED BY <1>3, <2>1, <2>2
<1> QED BY <1>8, <1>9, <1>10, <1>11, <1>12, <1>13 DEF Step

\* The other workers keep their executors, and a worker that returned prepares
\* nothing.
LEMMA ExecutorGoes ==
  ASSUME AInv, NEW w \in Workers, NEW p, Set(w, p), p.ex # "started",
         p.ex \in Preparing => /\ p.o = wk[w].o
                               /\ \/ p.ex = wk[w].ex
                                  \/ wk[w].ex = "open" /\ p.ex = "link"
                                  \/ wk[w].ex = "unlink" /\ p.ex = "dispatch"
                                  \/ wk[w].ex = "receipt" /\ p.ex = "open" /\ receipt = 0 /\ ~hist[wk[w].o].sent
  PROVE  \A v \in Workers : OnTheWay(v)
<1>1. wk \in [Workers -> WorkerState]
  BY TypedState
<1>2. wk'[w] = p /\ \A v \in Workers \ {w} : wk'[v] = wk[v]
  BY <1>1 DEF Set
<1>3. OnTheWay(w)
  BY <1>2 DEF OnTheWay
<1> QED BY <1>2, <1>3 DEF OnTheWay

\* A return does not prepare.
LEMMA ReturnGoes ==
  ASSUME AInv, NEW w \in Workers, NEW code, Return(w, code)
  PROVE  (\A v \in Workers : OnTheWay(v)) /\ wk'[w].ex = "done" /\ \A v \in Workers \ {w} : wk'[v] = wk[v]
<1> DEFINE p == [wk[w] EXCEPT !.ex = "done", !.code = code]
<1>1. wk \in [Workers -> WorkerState] /\ wk[w] \in WorkerState
  BY TypedState
<1>2. p.ex = "done" /\ Set(w, p)
  BY <1>1 DEF WorkerState, Return
<1> HIDE DEF p
<1>3. wk'[w] = p /\ \A v \in Workers \ {w} : wk'[v] = wk[v]
  BY <1>1, <1>2 DEF Set
<1> QED BY <1>2, <1>3, ExecutorGoes DEF Preparing

\* A receipt that is removed by the executor names an operation for which the
\* unit was not started, or failed.
LEMMA ClearedGoes ==
  ASSUME AInv, ReceiptInv, NEW w \in Workers, wk[w].ex \in InTheUnit, NEW code, Return(w, code),
         receipt' = Cleared(w), ~hist[wk[w].o].sent
  PROVE  ReceiptGoes
<1>1. wk[w].o \in Ops
  BY Executing DEF InTheUnit
<1>2. \A v \in Workers : wk'[v].ex \notin {"unlink", "dispatch"}
  BY ReturnGoes, AloneInTheUnit DEF InTheUnit
<1> QED BY <1>1, <1>2 DEF ReceiptGoes, Cleared

\* The start of the unit: the receipt names the operation, or it has ended.
LEMMA DispatchReceipt ==
  ASSUME AInv, ReceiptInv, NEW w \in Workers, wk[w].ex = "dispatch", op' = op,
         Set(w, [wk[w] EXCEPT !.ex = "started"]), unit' = [state |-> "active", by |-> wk[w].o],
         hist' = [hist EXCEPT ![wk[w].o].begun = @ + 1, ![wk[w].o].sent = TRUE], receipt' = receipt
  PROVE  ReceiptInv'
<1> DEFINE o == wk[w].o
<1>1. /\ o \in Ops /\ op[o].state # "absent" /\ WorkerOK(wk[w], op, hist, clock, stopping) /\ Busy(wk[w])
      /\ hist \in [Ops -> Deeds] /\ wk[w] \in WorkerState
  BY Executing
<1>2. op[o].kind \in Privileged /\ wk[w].ex \in InTheUnit
  BY <1>1 DEF WorkerOK, GateOK, InTheUnit
<1>3. \A v \in Workers \ {w} : wk[v].ex \notin InTheUnit
  BY <1>2, AloneInTheUnit
<1>4. wk \in [Workers -> WorkerState]
  BY TypedState
<1>5. \A v \in Workers : wk'[v].ex \notin Preparing
  <2>1. [wk[w] EXCEPT !.ex = "started"].ex = "started"
    BY <1>1 DEF WorkerState
  <2>2. wk'[w].ex = "started" /\ \A v \in Workers \ {w} : wk'[v] = wk[v]
    BY <1>4, <2>1 DEF Set
  <2> QED BY <1>3, <2>2 DEF Preparing, InTheUnit
<1>6. \A x \in Ops \ {o} : hist'[x] = hist[x]
  BY <1>1
<1>7. receipt = o \/ op[o].state \notin Live
  BY DEF ReceiptInv
<1>8. \A x \in Ops : hist'[x].sent => op[x].kind \in Privileged /\ op[x].state # "absent"
  BY <1>1, <1>2, <1>6 DEF ReceiptInv
<1>9. \A x \in Ops : hist'[x].sent /\ op[x].state \in Live => receipt = x
  BY <1>6, <1>7 DEF ReceiptInv
<1>10. unit'.state # "failed"
  OBVIOUS
<1> QED BY <1>5, <1>8, <1>9, <1>10, Zenon DEF ReceiptInv, Preparing

\* The heartbeats of bundle operations are timely.
BundlesTimely == Privileged \cap Kinds \subseteq Timely

\* A step of an executor keeps the receipt's invariant.
LEMMA ExecuteReceipt ==
  ASSUME AInv, JournalPromise, ReceiptInv, BundlesTimely, NEW w \in Workers, Execute(w)
  PROVE  ReceiptInv'
<1> DEFINE q == wk[w]
           o == wk[w].o
<1>1. UNCHANGED executorOnly /\ op' = op
  BY Zenon DEF Execute, Acquire, GiveUp, EffectEnds, Outcomes, ReadReceipt, OpenTemp, LinkReceipt, RemoveTemp, Dispatch,
         StartReturns, Collected, WaitReturns, executorOnly
<1>2. \A x \in Ops : Onward(op[x], op'[x])
  BY <1>1, SameKeeps DEF TableOnward
<1>3. q \in WorkerState /\ wk \in [Workers -> WorkerState] /\ hist \in [Ops -> Deeds] /\ receipt \in Ops \cup {0}
  BY TypedState DEF StateInv
<1>4. ASSUME receipt' = receipt, unit' = unit, \A x \in Ops : hist'[x].sent = hist[x].sent,
             \A v \in Workers : OnTheWay(v)
      PROVE  ReceiptInv'
  BY <1>2, <1>4, ReceiptFrame DEF ReceiptGoes
<1>5. ASSUME NEW ex, Set(w, [q EXCEPT !.ex = ex]), ex # "started",
             \/ ex \notin Preparing
             \/ q.ex = "open" /\ ex = "link"
             \/ q.ex = "unlink" /\ ex = "dispatch"
             \/ q.ex = "receipt" /\ ex = "open" /\ receipt = 0 /\ ~hist[o].sent
      PROVE  \A v \in Workers : OnTheWay(v)
  <2> DEFINE p == [q EXCEPT !.ex = ex]
  <2>1. p.ex = ex /\ p.o = o /\ Set(w, p)
    BY <1>3, <1>5 DEF WorkerState
  <2> HIDE DEF p
  <2> QED BY <1>5, <2>1, ExecutorGoes
<1>6. CASE Acquire(w)
  <2> DEFINE p == [q EXCEPT !.gate = IF IsBundle(w) THEN "exclusive" ELSE "shared",
                            !.ex = IF IsBundle(w) THEN "receipt" ELSE "run"]
  <2>1. Set(w, p) /\ receipt' = receipt /\ unit' = unit
    BY <1>6 DEF Acquire
  <2>2. p.ex \in {"receipt", "run"}
    BY <1>3 DEF WorkerState
  <2> HIDE DEF p
  <2>3. \A v \in Workers : OnTheWay(v)
    BY <2>1, <2>2, ExecutorGoes DEF Preparing
  <2>4. o \in Ops
    BY <1>6, Executing DEF Acquire
  <2>5. \A x \in Ops : hist'[x].sent = hist[x].sent
    BY <1>3, <1>6, <2>4 DEF Acquire, Deeds
  <2> QED BY <1>4, <2>1, <2>3, <2>5
<1>7. CASE GiveUp(w) \/ WaitReturns(w)
  <2>1. \E code : Return(w, code)
    BY <1>7 DEF GiveUp, WaitReturns, Collected
  <2>2. \A v \in Workers : OnTheWay(v)
    BY <2>1, ReturnGoes
  <2> QED BY <1>4, <1>7, <2>2 DEF GiveUp, WaitReturns, Collected
<1>8. CASE EffectEnds(w)
  <2>1. PICK code : Return(w, code) /\ hist' = [hist EXCEPT ![o].earned = @ \/ code = "none"]
    BY <1>8, Zenon DEF EffectEnds, Outcomes
  <2>2. \A v \in Workers : OnTheWay(v)
    BY <2>1, ReturnGoes
  <2>3. \A x \in Ops : hist'[x].sent = hist[x].sent
    <3>1. o \in Ops
      BY <1>8, Executing DEF EffectEnds, Outcomes
    <3> DEFINE d == [hist[o] EXCEPT !.earned = @ \/ code = "none"]
    <3>2. d.sent = hist[o].sent
      BY <1>3, <3>1 DEF Deeds
    <3>3. hist' = [hist EXCEPT ![o] = d]
      BY <2>1
    <3> HIDE DEF d
    <3> QED BY <1>3, <3>1, <3>2, <3>3
  <2> QED BY <1>4, <1>8, <2>2, <2>3 DEF EffectEnds, Outcomes
<1>9. CASE ReadReceipt(w)
  <2>1. CASE receipt = 0 /\ ~Stopped(w)
    <3>1. q.ex = "receipt" /\ Set(w, [q EXCEPT !.ex = "open"])
      BY <1>9, <2>1 DEF ReadReceipt
    <3>2. ~hist[o].sent
      BY <2>1, <3>1, UnsentBeforeOpen DEF BundlesTimely
    <3>3. \A v \in Workers : OnTheWay(v)
      BY <1>5, <2>1, <3>1, <3>2
    <3> QED BY <1>4, <1>9, <3>3 DEF ReadReceipt
  <2>2. CASE ~(receipt = 0 /\ ~Stopped(w))
    <3>1. Set(w, [q EXCEPT !.ex = "wait"]) \/ \E code : Return(w, code)
      BY <1>9, <2>2 DEF ReadReceipt
    <3>2. "wait" \notin Preparing
      BY DEF Preparing
    <3>3. (\E code : Return(w, code)) => \A v \in Workers : OnTheWay(v)
      BY ReturnGoes
    <3>4. Set(w, [q EXCEPT !.ex = "wait"]) => \A v \in Workers : OnTheWay(v)
      BY <1>5, <3>2
    <3>5. \A v \in Workers : OnTheWay(v)
      BY <3>1, <3>3, <3>4
    <3> QED BY <1>4, <1>9, <3>5 DEF ReadReceipt
  <2> QED BY <2>1, <2>2
<1>10. CASE OpenTemp(w) \/ RemoveTemp(w)
  <2>1. \/ \E code : Return(w, code)
        \/ q.ex = "open" /\ Set(w, [q EXCEPT !.ex = "link"])
        \/ q.ex = "unlink" /\ Set(w, [q EXCEPT !.ex = "dispatch"])
    BY <1>10 DEF OpenTemp, RemoveTemp
  <2>3. (\E code : Return(w, code)) => \A v \in Workers : OnTheWay(v)
    BY ReturnGoes
  <2>4. q.ex = "open" /\ Set(w, [q EXCEPT !.ex = "link"]) => \A v \in Workers : OnTheWay(v)
    BY <1>5
  <2>5. q.ex = "unlink" /\ Set(w, [q EXCEPT !.ex = "dispatch"]) => \A v \in Workers : OnTheWay(v)
    BY <1>5
  <2>2. \A v \in Workers : OnTheWay(v)
    BY <2>1, <2>3, <2>4, <2>5
  <2> QED BY <1>4, <1>10, <2>2 DEF OpenTemp, RemoveTemp
<1>11. CASE LinkReceipt(w)
  <2>1. q.ex = "link" /\ Set(w, [q EXCEPT !.ex = "unlink"]) /\ receipt' = o /\ unit' = unit /\ hist' = hist
    BY <1>11 DEF LinkReceipt
  <2>2. receipt = 0 /\ ~hist[o].sent /\ o \in Ops
    BY <2>1, Executing DEF ReceiptInv
  <2>3. \A v \in Workers \ {w} : wk[v].ex \notin InTheUnit
    BY <2>1, AloneInTheUnit DEF InTheUnit
  <2>4. wk'[w].ex = "unlink" /\ wk'[w].o = o /\ \A v \in Workers \ {w} : wk'[v] = wk[v]
    BY <1>3, <2>1 DEF Set, WorkerState
  <2>5. \A x \in Ops : ~(hist[x].sent /\ op[x].state \in Live)
    BY <2>2, AgentAssumption DEF ReceiptInv
  <2> QED BY <1>1, <2>1, <2>2, <2>3, <2>4, <2>5 DEF ReceiptInv, InTheUnit
<1>12. CASE Dispatch(w)
  <2>1. q.ex = "dispatch" /\ q.ex \in InTheUnit /\ ~hist[o].sent
    BY <1>12 DEF Dispatch, InTheUnit, ReceiptInv
  <2>2. CASE /\ \E code : Return(w, code) /\ (receipt' = receipt \/ receipt' = Cleared(w))
             /\ UNCHANGED <<unit, hist>>
    <3>1. \A v \in Workers : OnTheWay(v)
      BY <2>2, ReturnGoes
    <3>2. ReceiptGoes
      BY <2>1, <2>2, ClearedGoes DEF ReceiptGoes
    <3> QED BY <1>2, <2>2, <3>1, <3>2, ReceiptFrame
  <2>3. CASE /\ Set(w, [q EXCEPT !.ex = "started"]) /\ unit' = [state |-> "active", by |-> o]
             /\ hist' = [hist EXCEPT ![o].begun = @ + 1, ![o].sent = TRUE] /\ UNCHANGED receipt
    BY <1>1, <2>1, <2>3, DispatchReceipt, Zenon
  <2>4. \/ Return(w, "cancelled") /\ UNCHANGED <<receipt, unit, hist>>
        \/ Return(w, "reported") /\ receipt' = Cleared(w) /\ UNCHANGED <<unit, hist>>
        \/ /\ Set(w, [q EXCEPT !.ex = "started"]) /\ unit' = [state |-> "active", by |-> o]
           /\ hist' = [hist EXCEPT ![o].begun = @ + 1, ![o].sent = TRUE] /\ UNCHANGED receipt
    BY <1>12 DEF Dispatch
  <2>5. CASE Return(w, "cancelled") /\ UNCHANGED <<receipt, unit, hist>>
    BY <2>2, <2>5
  <2>6. CASE Return(w, "reported") /\ receipt' = Cleared(w) /\ UNCHANGED <<unit, hist>>
    BY <2>2, <2>6
  <2> QED BY <2>3, <2>4, <2>5, <2>6
<1>13. CASE StartReturns(w)
  <2>1. UNCHANGED <<unit, hist>> /\ q.ex \in InTheUnit
    BY <1>13 DEF StartReturns, Collected, InTheUnit
  <2>2. PICK code : /\ Return(w, code)
                    /\ receipt' = receipt \/ (receipt' = Cleared(w) /\ unit.state = "failed")
    BY <1>13 DEF StartReturns, Collected
  <2>3. \A v \in Workers : OnTheWay(v)
    BY <2>2, ReturnGoes
  <2>4. o \in Ops
    BY <2>1, Executing DEF InTheUnit
  <2>5. ReceiptGoes
    BY <2>1, <2>2, <2>4, ClearedGoes DEF ReceiptGoes, ReceiptInv
  <2> QED BY <1>2, <2>1, <2>3, <2>5, ReceiptFrame
<1> QED BY <1>6, <1>7, <1>8, <1>9, <1>10, <1>11, <1>12, <1>13 DEF Execute

\* Every step keeps the receipt's invariant.
LEMMA ReceiptStep ==
  ASSUME AInv, JournalPromise, ReceiptInv, BundlesTimely, [AgentNext]_agentVars
  PROVE  ReceiptInv'
<1>1. \A o \in Ops : Onward(op[o], op'[o])
  BY AgentTable DEF TableOnward
<1>2. ASSUME receipt' = receipt, unit' = unit, hist' = hist, \A v \in Workers : OnTheWay(v)
      PROVE  ReceiptInv'
  BY <1>1, <1>2, ReceiptFrame DEF ReceiptGoes
<1>3. wk' = wk => \A v \in Workers : OnTheWay(v)
  BY DEF OnTheWay
<1>4. ASSUME NEW w \in Workers, Step(w) PROVE ReceiptInv'
  BY <1>1, <1>4, StepGoes, ReceiptFrame
<1>5. ASSUME NEW m \in late, Deliver(m) PROVE ReceiptInv'
  BY <1>2, <1>3, <1>5 DEF Deliver, untouched
<1>6. ASSUME NEW state \in {"idle", "failed"}, UnitEnds(state) PROVE ReceiptInv'
  <2>1. unit \in [state: {"idle", "active", "failed"}, by: Ops \cup {0}] /\ hist \in [Ops -> Deeds]
    BY TypedState DEF StateInv
  <2>2. unit'.state = state /\ receipt' = receipt /\ wk' = wk /\ op' = op
    BY <1>6, <2>1 DEF UnitEnds
  <2>3. CASE state = "idle"
    BY <1>1, <1>3, <1>6, <2>2, <2>3, ReceiptFrame DEF UnitEnds, ReceiptGoes
  <2>4. CASE state = "failed"
    <3>1. \A o \in Ops : ~hist'[o].sent
      BY <1>6, <2>1, <2>4 DEF UnitEnds, Deeds
    <3>2. \A w \in Workers : wk[w].ex \in {"open", "link", "unlink", "dispatch"} => wk[w].o \in Ops
      BY Executing
    <3> QED BY <2>2, <3>1, <3>2 DEF ReceiptInv
  <2> QED BY <2>3, <2>4
<1>7. CASE Stop
  BY <1>2, <1>3, <1>7 DEF Stop
<1>8. CASE Restart
  <2>1. \A v \in Workers : wk'[v].ex = "none"
    BY <1>8 DEF Restart, Idle
  <2>2. \A v \in Workers : OnTheWay(v)
    BY <2>1 DEF OnTheWay, Preparing
  <2> QED BY <1>2, <1>8, <2>2 DEF Restart
<1>9. CASE Client
  BY <1>2, <1>3, <1>9 DEF Client, localVars
<1>10. CASE Clock
  <2>1. \A v \in Workers : wk[v] \in WorkerState
    BY TypedState
  <2>2. \A v \in Workers : wk'[v].ex = wk[v].ex /\ wk'[v].o = wk[v].o
    BY <1>10, <2>1 DEF Clock, WorkerState
  <2>3. \A v \in Workers : OnTheWay(v)
    BY <2>2 DEF OnTheWay
  <2> QED BY <1>2, <1>10, <2>3 DEF Clock, untouched
<1>11. CASE UNCHANGED agentVars
  BY <1>2, <1>3, <1>11 DEF agentVars, localVars
<1> QED BY <1>4, <1>5, <1>6, <1>7, <1>8, <1>9, <1>10, <1>11, ExecuteReceipt DEF AgentNext

\* The agent begins without a receipt, a started unit or an executor.
LEMMA InitReceipt == AgentInit => ReceiptInv
<1> SUFFICES ASSUME AgentInit PROVE ReceiptInv
  OBVIOUS
<1>1. \A o \in Ops : ~hist[o].sent
  BY DEF AgentInit
<1>2. \A w \in Workers : wk[w].ex = "none"
  BY DEF AgentInit, Idle
<1>3. unit.state # "failed"
  BY DEF AgentInit
<1> QED BY <1>1, <1>2, <1>3 DEF ReceiptInv

\* An effect begins again only for an operation whose unit was not started.
LEMMA BeginsOnce ==
  ASSUME AInv, ReceiptInv, [AgentNext]_agentVars, NEW o \in Ops, hist[o].sent
  PROVE  hist'[o].begun = hist[o].begun
<1>1. hist \in [Ops -> Deeds] /\ wk \in [Workers -> WorkerState] /\ op[o].kind \in Privileged
  BY TypedState DEF ReceiptInv
<1>2. ASSUME NEW w \in Workers, Execute(w) PROVE hist'[o].begun = hist[o].begun
  <2>1. CASE hist' = hist
    BY <2>1
  <2>2. CASE Acquire(w)
    <3>1. ~IsBundle(w) => wk[w].o # o
      BY <1>1 DEF IsBundle, Kind
    <3> QED BY <1>1, <2>2, <3>1 DEF Acquire
  <2>3. CASE EffectEnds(w)
    <3>1. PICK b : hist' = [hist EXCEPT ![wk[w].o].earned = b]
      BY <1>1, <2>3, Zenon DEF EffectEnds, Outcomes
    <3>2. wk[w].o \in Ops
      BY <2>3, Executing DEF EffectEnds, Outcomes
    <3> QED BY <1>1, <3>1, <3>2 DEF Deeds
  <2>4. CASE Dispatch(w) /\ hist' # hist
    <3>1. wk[w].o # o
      BY <2>4 DEF Dispatch, ReceiptInv
    <3>2. hist' = [hist EXCEPT ![wk[w].o].begun = @ + 1, ![wk[w].o].sent = TRUE]
      BY <2>4 DEF Dispatch
    <3> QED BY <1>1, <3>1, <3>2
  <2> QED BY <1>2, <2>1, <2>2, <2>3, <2>4
          DEF Execute, GiveUp, ReadReceipt, OpenTemp, LinkReceipt, RemoveTemp, StartReturns, Collected, WaitReturns
<1>3. ASSUME NEW state \in {"idle", "failed"}, UnitEnds(state) PROVE hist'[o].begun = hist[o].begun
  BY <1>1, <1>3 DEF UnitEnds, Deeds
<1>4. ASSUME hist' = hist PROVE hist'[o].begun = hist[o].begun
  BY <1>4
<1>5. ASSUME NEW w \in Workers, Step(w) PROVE hist' = hist
  BY <1>5, StepGoes
<1>6. (\E m \in late : Deliver(m)) \/ Stop \/ Restart \/ Client \/ Clock \/ UNCHANGED agentVars => hist' = hist
  BY DEF Deliver, Stop, Restart, Client, Clock, agentVars, localVars, untouched
<1> QED BY <1>2, <1>3, <1>4, <1>5, <1>6 DEF AgentNext

\* The executor that starts the unit has not been stopped, so its worker is in
\* its loop and holds the lease.
LEMMA DispatchesHeld ==
  ASSUME AInv, BundlesTimely, [AgentNext]_agentVars, NEW w \in Workers, wk[w].ex = "dispatch", wk'[w].ex = "started"
  PROVE  Held(wk[w].o, wk[w].l)
<1>1. wk \in [Workers -> WorkerState] /\ \A v \in Workers : wk[v] \in WorkerState
  BY TypedState
<1>2. /\ wk[w].o \in Ops /\ Busy(wk[w]) /\ wk[w].pc \in {"loop", "drain"}
      /\ WorkerOK(wk[w], op, hist, clock, stopping) /\ op[wk[w].o].state # "absent"
  BY Executing
<1>3. ~Stopped(w)
  <2>1. ASSUME NEW p, NEW v \in Workers, Set(v, p), v # w \/ p.ex # "started" PROVE FALSE
    BY <1>1, <2>1 DEF Set
  <2>2. ASSUME NEW v \in Workers, NEW code, Return(v, code) PROVE FALSE
    <3>1. [wk[v] EXCEPT !.ex = "done", !.code = code].ex = "done"
      BY <1>1 DEF WorkerState
    <3> QED BY <2>1, <2>2, <3>1, Zenon DEF Return
  <2>3. ASSUME NEW v \in Workers, Execute(v) PROVE ~Stopped(w)
    <3>1. v = w
      BY <2>1, <2>3, Zenon DEF Execute, Acquire, GiveUp, EffectEnds, Outcomes, ReadReceipt, OpenTemp, LinkReceipt, RemoveTemp,
                        Dispatch, StartReturns, Collected, WaitReturns, Return
    <3>2. Dispatch(w)
      BY <2>3, <3>1 DEF Execute, Acquire, GiveUp, EffectEnds, Outcomes, ReadReceipt, OpenTemp, LinkReceipt, RemoveTemp,
                        StartReturns, Collected, WaitReturns
    <3> QED BY <2>2, <3>2 DEF Dispatch
  <2>4. ASSUME NEW v \in Workers, Step(v) PROVE FALSE
    BY <2>4, StepGoes DEF OnTheWay
  <2>5. wk' = wk => FALSE
    OBVIOUS
  <2>6. Restart => FALSE
    BY DEF Restart, Idle
  <2>7. Clock => FALSE
    BY <1>1 DEF Clock, WorkerState
  <2>8. (\E m \in late : Deliver(m)) \/ (\E s \in {"idle", "failed"} : UnitEnds(s)) \/ Stop \/ Client
          \/ UNCHANGED agentVars => wk' = wk
    BY DEF Deliver, UnitEnds, Stop, Client, agentVars, localVars
  <2> QED BY <2>3, <2>4, <2>5, <2>6, <2>7, <2>8 DEF AgentNext
<1>4. wk[w].pc = "loop" /\ ~wk[w].stop
  BY <1>2, <1>3, Zenon DEF WorkerOK, Shape, Stopped
<1>5. op[wk[w].o].kind \in Timely
  <2>1. op[wk[w].o].kind \in Privileged
    BY <1>2 DEF WorkerOK, GateOK, InTheUnit
  <2>2. op[wk[w].o].kind \in Kinds \cup {"none"}
    BY <1>2, TypedState DEF GoodRow, OpRow
  <2> QED BY <2>1, <2>2 DEF Privileged, BundlesTimely
<1> QED BY <1>2, <1>4, <1>5, Zenon DEF WorkerOK, HoldOK, Held
=============================================================================
