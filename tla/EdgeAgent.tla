----------------------------- MODULE EdgeAgent -----------------------------
(***************************************************************************)
(* The control loop of the Edge agent (cmd/mcp-edge) against the journal:  *)
(* several workers poll, report progress, run an executor goroutine behind *)
(* a shared gate and complete or acknowledge, over a network that loses and*)
(* delays calls, in a process that may stop or crash at any point.         *)
(*                                                                         *)
(* A call is one action when it is answered.  A call that is not answered  *)
(* in time is an error for the worker, and its request stays in `late`: the*)
(* server handles it at any later moment, or never.  The server's nonces   *)
(* keep it from handling one twice.                                        *)
(*                                                                         *)
(* A bundle operation starts a systemd oneshot that outlives the agent; a  *)
(* receipt file says which operation started it.  The three bundle kinds   *)
(* have a unit each; the model has one kind and one unit.                  *)
(***************************************************************************)
EXTENDS EdgeJournal

CONSTANTS
  Workers,    \* the worker goroutines of the control loop
  Timely,     \* the kinds whose heartbeats are sent on time (see Clock)
  MaxLate     \* bound of the model on requests under way

\* 0 stands for "no operation"; the Edge asks for a lease of some duration; and
\* the minute a heartbeat lasts is two ticks of the clock.
ASSUME AgentAssumption ==
  /\ Timely \subseteq Kinds /\ MaxLate \in Nat
  /\ 0 \notin Ops /\ LeaseTtls # {} /\ HeartbeatTtl >= 2

VARIABLES
  wk,        \* the workers, each with its executor goroutine
  late,      \* requests the server may still handle
  receipt,   \* the operation the receipt file names, 0 without a file
  temp,      \* the temporary file of the receipt exists
  unit,      \* ActiveState and Result of the oneshot, and who started it
  stopping,  \* the context of the process is cancelled
  hist       \* history: what was really done for each operation

localVars == <<wk, late, receipt, temp, unit, stopping, hist>>
agentVars == <<op, clock, localVars>>

Pcs == {"poll", "stamp", "start", "loop", "drain", "register", "complete", "ack"}
Exs == {"none", "gate", "run", "receipt", "open", "link", "unlink", "dispatch", "started", "wait", "done"}

WorkerState ==
  [pc: Pcs, ex: Exs, o: Ops \cup {0}, l: Nat, rev: Nat, cancel: BOOLEAN, stop: BOOLEAN,
   code: {"none", "reported", "cancelled"}, gate: {"free", "shared", "exclusive"}, beat: BOOLEAN]

Idle == [pc |-> "poll", ex |-> "none", o |-> 0, l |-> 0, rev |-> 0, cancel |-> FALSE, stop |-> FALSE,
         code |-> "none", gate |-> "free", beat |-> TRUE]

Kind(w) == op[wk[w].o].kind
IsBundle(w) == Kind(w) \in Privileged

\* The context of worker w's executor is cancelled.
Stopped(w) == wk[w].stop \/ stopping

Set(w, r) == wk' = [wk EXCEPT ![w] = r]

-----------------------------------------------------------------------------
(* Calls.                                                                  *)

LeaseCall(compatible) ==
  [call |-> IF compatible THEN "stamped" ELSE "probe", o |-> 0, l |-> 0, rev |-> 0, arg |-> "none"]
ProgressCall(w, rev, phase) ==
  [call |-> "progress", o |-> wk[w].o, l |-> wk[w].l, rev |-> rev, arg |-> phase]
CompleteCall(w) == [call |-> "complete", o |-> wk[w].o, l |-> wk[w].l, rev |-> 0, arg |-> wk[w].code]
CancelCall(w) == [call |-> "cancel", o |-> wk[w].o, l |-> wk[w].l, rev |-> 0, arg |-> "none"]

\* The server does not refuse the request.
Accepted(m) ==
  \/ m.call \in {"probe", "stamped"}
  \/ m.call = "progress" /\ CanReport(m.o, m.l, m.rev)
  \/ m.call = "complete" /\ CanComplete(m.o, m.l)
  \/ m.call = "cancel" /\ Held(m.o, m.l)

\* The journal after the request.
Served(m) ==
  IF ~Accepted(m) THEN op
  ELSE IF m.call \in {"probe", "stamped"}
  THEN AfterLease(m.call = "stamped", CHOOSE ttl \in LeaseTtls : TRUE)
  ELSE [op EXCEPT ![m.o] = CASE m.call = "progress" -> ProgressRow(@, m.rev, m.arg)
                             [] m.call = "complete" -> CompletedRow(@, m.arg)
                             [] m.call = "cancel" -> AcknowledgedRow(@)]

Answered(m) == op' = Served(m) /\ UNCHANGED <<late, clock>>

\* No answer: the request may still be under way.
Unanswered(m) ==
  /\ \/ late' = late
     \/ ~stopping /\ Cardinality(late) < MaxLate /\ late' = late \cup {m}
  /\ UNCHANGED <<op, clock>>

\* The call fails, by the server's answer or without one.
Refused(m) == (~Accepted(m) /\ Answered(m)) \/ Unanswered(m)

-----------------------------------------------------------------------------
(* runControlOperationWorker and executeControlOperationLifecycle.         *)

untouched == <<receipt, temp, unit, stopping, hist>>

\* The lease an answered call brings, if any.
TakeLease(w, compatible) ==
  LET t == Normalized
      won == IF Skewed(t, compatible) THEN {} ELSE NextOf(t, compatible)
  IN IF won = {} THEN Set(w, [Idle EXCEPT !.pc = IF Skewed(t, compatible) /\ ~compatible THEN "stamp" ELSE "poll"])
     ELSE \E o \in won : Set(w, [Idle EXCEPT !.pc = "start", !.o = o, !.l = t[o].attempts + 1])

\* Transport.LeaseOperation: a probe without the protocol first; a conflict is
\* answered by the same call with it.
Poll(w) ==
  /\ wk[w].pc = "poll" /\ ~stopping
  /\ \/ Answered(LeaseCall(FALSE)) /\ TakeLease(w, FALSE)
     \/ Unanswered(LeaseCall(FALSE)) /\ UNCHANGED wk
  /\ UNCHANGED untouched

Stamp(w) ==
  /\ wk[w].pc = "stamp"
  /\ \/ ~stopping /\ Answered(LeaseCall(TRUE)) /\ TakeLease(w, TRUE)
     \/ Unanswered(LeaseCall(TRUE)) /\ Set(w, Idle)
  /\ UNCHANGED untouched

PhaseOf(w) == IF IsBundle(w) THEN "other" ELSE "running"

\* The first report decides: nothing is executed unless it is acknowledged.
Begin(w) ==
  /\ wk[w].pc = "start"
  /\ \E m \in {ProgressCall(w, 1, PhaseOf(w))} :
       \/ /\ ~stopping /\ Accepted(m) /\ Answered(m)
          /\ Set(w, IF op[wk[w].o].cancel THEN [wk[w] EXCEPT !.pc = "ack", !.cancel = TRUE]
                    ELSE [wk[w] EXCEPT !.pc = "loop", !.ex = "gate", !.rev = 1])
       \/ Refused(m) /\ Set(w, Idle)
  /\ UNCHANGED untouched

\* Faulty variant: an error does not stop the executor.
HeartbeatNotStopping(w) ==
  /\ wk[w].pc = "loop"
  /\ \E m \in {ProgressCall(w, wk[w].rev + 1, PhaseOf(w))} :
       Refused(m) /\ Set(w, [wk[w] EXCEPT !.pc = "drain"])
  /\ UNCHANGED untouched

\* The ticker: an error stops the executor, and so does a requested
\* cancellation.
Heartbeat(w) ==
  /\ wk[w].pc = "loop"
  /\ \E m \in {ProgressCall(w, wk[w].rev + 1, IF wk[w].cancel THEN "other" ELSE PhaseOf(w))} :
       \/ /\ ~stopping /\ Accepted(m) /\ Answered(m) /\ wk[w].rev < MaxRevision
          /\ LET c == op[wk[w].o].cancel
             IN Set(w, [wk[w] EXCEPT !.rev = @ + 1, !.beat = TRUE, !.cancel = @ \/ c, !.stop = @ \/ c])
       \/ Refused(m) /\ Set(w, [wk[w] EXCEPT !.pc = "drain", !.stop = TRUE])
  /\ UNCHANGED untouched

\* The process is stopping.
NoticeStop(w) ==
  /\ wk[w].pc = "loop" /\ stopping
  /\ Set(w, [wk[w] EXCEPT !.pc = "drain", !.stop = TRUE])
  /\ UNCHANGED <<op, clock, late, untouched>>

\* <-completed after an error: the result is dropped and the gate released.
Drained(w) ==
  /\ wk[w].pc = "drain" /\ wk[w].ex = "done"
  /\ Set(w, Idle)
  /\ UNCHANGED <<op, clock, late, untouched>>

\* Faulty variant: without the acknowledgement the command is replayed.
FinalizeReplaying(w) ==
  /\ wk[w].pc = "loop" /\ wk[w].ex = "done"
  /\ Refused(ProgressCall(w, wk[w].rev + 1, "finalizing"))
  /\ Set(w, [wk[w] EXCEPT !.ex = "gate", !.gate = "free"])
  /\ UNCHANGED untouched

\* The executor has returned: report finalizing; a lost acknowledgement keeps
\* the result (controlFinalizingError).
Finalize(w) ==
  /\ wk[w].pc = "loop" /\ wk[w].ex = "done"
  /\ \E m \in {ProgressCall(w, wk[w].rev + 1, "finalizing")} :
       LET next(c) == IF c THEN "ack"
                      ELSE IF wk[w].code = "none" /\ Kind(w) # "exec" THEN "register" ELSE "complete"
       IN \/ /\ ~stopping /\ Accepted(m) /\ Answered(m)
             /\ LET c == wk[w].cancel \/ op[wk[w].o].cancel
                IN Set(w, [wk[w] EXCEPT !.pc = next(c), !.cancel = c])
          \/ Refused(m) /\ Set(w, [wk[w] EXCEPT !.pc = next(wk[w].cancel)])
  /\ UNCHANGED untouched

\* RegisterWorkspaces, not modelled beyond its success.
Register(w) ==
  /\ wk[w].pc = "register"
  /\ \E code \in {"none", "reported"} : Set(w, [wk[w] EXCEPT !.pc = "complete", !.code = code])
  /\ UNCHANGED <<op, clock, late, untouched>>

\* clearBundleReceipt.
Cleared(w) == IF IsBundle(w) /\ receipt = wk[w].o THEN 0 ELSE receipt

\* CompleteOperation; an answer clears the receipt; then the gate is released.
Complete(w) ==
  /\ wk[w].pc = "complete"
  /\ \E m \in {CompleteCall(w)} :
       \/ ~stopping /\ Accepted(m) /\ Answered(m) /\ receipt' = Cleared(w)
       \/ Refused(m) /\ UNCHANGED receipt
  /\ Set(w, Idle)
  /\ UNCHANGED <<temp, unit, stopping, hist>>

\* acknowledgeControlOperationCancellation.
Acknowledge(w) ==
  /\ wk[w].pc = "ack"
  /\ \E m \in {CancelCall(w)} :
       \/ ~stopping /\ Accepted(m) /\ Answered(m) /\ receipt' = Cleared(w)
       \/ Refused(m) /\ UNCHANGED receipt
  /\ Set(w, Idle)
  /\ UNCHANGED <<temp, unit, stopping, hist>>

-----------------------------------------------------------------------------
(* The executor goroutine: controlOperationGate.acquire, then the effect.  *)

executorOnly == <<op, clock, late, stopping>>

Free(w, mode) == \A v \in Workers \ {w} : wk[v].gate = "free" \/ (mode = "shared" /\ wk[v].gate = "shared")

\* acquire tries the lock before it looks at its context.
Acquire(w) ==
  /\ wk[w].ex = "gate"
  /\ LET mode == IF IsBundle(w) THEN "exclusive" ELSE "shared" IN
       /\ Free(w, mode)
       /\ Set(w, [wk[w] EXCEPT !.gate = mode, !.ex = IF IsBundle(w) THEN "receipt" ELSE "run"])
  /\ hist' = IF IsBundle(w) THEN hist ELSE [hist EXCEPT ![wk[w].o].begun = @ + 1]
  /\ UNCHANGED <<executorOnly, receipt, temp, unit>>

Return(w, code) == Set(w, [wk[w] EXCEPT !.ex = "done", !.code = code])

GiveUp(w) ==
  /\ wk[w].ex = "gate" /\ Stopped(w)
  /\ Return(w, "cancelled")
  /\ UNCHANGED <<executorOnly, receipt, temp, unit, hist>>

\* An ordinary effect succeeds, fails, or ends early because it was stopped.
Outcomes(w) == {"none", "reported"} \cup (IF Stopped(w) THEN {"cancelled"} ELSE {})

EffectEnds(w) ==
  /\ wk[w].ex = "run"
  /\ \E code \in Outcomes(w) :
       /\ Return(w, code)
       /\ hist' = [hist EXCEPT ![wk[w].o].earned = @ \/ code = "none"]
  /\ UNCHANGED <<executorOnly, receipt, temp, unit>>

\* executeBundleControl: the receipt decides between waiting for the unit and
\* starting it.
ReadReceipt(w) ==
  /\ wk[w].ex = "receipt"
  /\ IF receipt = 0 /\ ~Stopped(w) THEN Set(w, [wk[w] EXCEPT !.ex = "open"])
     ELSE IF receipt = wk[w].o THEN Set(w, [wk[w] EXCEPT !.ex = "wait"])
     ELSE Return(w, IF receipt = 0 THEN "cancelled" ELSE "reported")
  /\ UNCHANGED <<executorOnly, receipt, temp, unit, hist>>

\* writeBundleReceipt: exclusive creation of the temporary file, link, removal.
OpenTemp(w) ==
  /\ wk[w].ex = "open"
  /\ IF temp THEN Return(w, "reported") /\ UNCHANGED temp
     ELSE Set(w, [wk[w] EXCEPT !.ex = "link"]) /\ temp' = TRUE
  /\ UNCHANGED <<executorOnly, receipt, unit, hist>>

LinkReceipt(w) ==
  /\ wk[w].ex = "link"
  /\ Set(w, [wk[w] EXCEPT !.ex = "unlink"])
  /\ receipt' = wk[w].o
  /\ UNCHANGED <<executorOnly, temp, unit, hist>>

RemoveTemp(w) ==
  /\ wk[w].ex = "unlink"
  /\ Set(w, [wk[w] EXCEPT !.ex = "dispatch"])
  /\ temp' = FALSE
  /\ UNCHANGED <<executorOnly, receipt, unit, hist>>

\* startBundleUnit: systemctl is not run once the context is cancelled; systemd
\* may refuse; a unit that is already active is joined.
Dispatch(w) ==
  /\ wk[w].ex = "dispatch"
  /\ \/ /\ Stopped(w)
        /\ Return(w, "cancelled")
        /\ UNCHANGED <<receipt, unit, hist>>
     \/ /\ ~Stopped(w)
        /\ Return(w, "reported")
        /\ receipt' = Cleared(w)
        /\ UNCHANGED <<unit, hist>>
     \/ /\ ~Stopped(w)
        /\ Set(w, [wk[w] EXCEPT !.ex = "started"])
        /\ unit' = [state |-> "active", by |-> wk[w].o]
        /\ hist' = [hist EXCEPT ![wk[w].o].begun = @ + 1, ![wk[w].o].sent = TRUE]
        /\ UNCHANGED receipt
  /\ UNCHANGED <<executorOnly, temp>>

\* collectEdgeDiagnostic after a unit that succeeded: the installation it left is
\* sound, or is rejected.
Collected == {"none", "reported"}

\* Faulty variant: the receipt of an interrupted start is removed.
StartReturnsClearing(w) ==
  /\ wk[w].ex = "started"
  /\ \/ /\ unit.state = "idle"
        /\ \E code \in {"none", "reported"} : Return(w, code)
        /\ UNCHANGED receipt
     \/ /\ unit.state = "failed" \/ Stopped(w)
        /\ Return(w, "reported")
        /\ receipt' = Cleared(w)
  /\ UNCHANGED <<executorOnly, temp, unit, hist>>

\* systemctl start returns when the oneshot has ended, or earlier when its
\* context is cancelled; its timeout of 16 minutes is longer than the units'
\* TimeoutStartSec.  Only a start that failed removes the receipt.
StartReturns(w) ==
  /\ wk[w].ex = "started"
  /\ \/ /\ unit.state = "idle"
        /\ \E code \in Collected : Return(w, code)
        /\ UNCHANGED receipt
     \/ /\ unit.state = "failed" /\ ~Stopped(w)
        /\ Return(w, "reported")
        /\ receipt' = Cleared(w)
     \/ /\ Stopped(w)
        /\ Return(w, "cancelled")
        /\ UNCHANGED receipt
  /\ UNCHANGED <<executorOnly, temp, unit, hist>>

\* waitBundleUnitCompletion: besides the two final states of the unit, the wait
\* ends when the context does, and when systemctl show cannot be read.
WaitReturns(w) ==
  /\ wk[w].ex = "wait"
  /\ \/ unit.state = "idle" /\ ~Stopped(w) /\ \E code \in Collected : Return(w, code)
     \/ Return(w, IF Stopped(w) THEN "cancelled" ELSE "reported")
  /\ UNCHANGED <<executorOnly, receipt, temp, unit, hist>>

-----------------------------------------------------------------------------
(* The environment.                                                        *)

Deliver(m) ==
  /\ op' = Served(m)
  /\ late' = late \ {m}
  /\ UNCHANGED <<clock, wk, untouched>>

\* The oneshot ends by itself.
UnitEnds(state) ==
  /\ unit.state = "active"
  /\ unit' = [unit EXCEPT !.state = state]
  /\ hist' = IF state = "failed" THEN [o \in Ops |-> [hist[o] EXCEPT !.sent = FALSE]] ELSE hist
  /\ UNCHANGED <<op, clock, wk, late, receipt, temp, stopping>>

Stop ==
  /\ ~stopping
  /\ stopping' = TRUE
  /\ UNCHANGED <<op, clock, wk, late, receipt, temp, unit, hist>>

\* The process ends, orderly or by a crash, and systemd starts it again: the
\* files and the unit stay.
Restart ==
  /\ wk' = [w \in Workers |-> Idle]
  /\ stopping' = FALSE
  /\ UNCHANGED <<op, clock, late, receipt, temp, unit, hist>>

\* A client of the control plane creates, cancels or lists.
Client ==
  /\ \/ \E o \in Ops, kind \in Kinds, d \in Digests : CreateOperation(o, kind, d, {})
     \/ \E o \in Ops : RequestOperationCancel(o)
     \/ ActiveOperations
  /\ UNCHANGED localVars

\* A heartbeat is sent every 15 seconds and answered within 20; a tick of the
\* clock stands for half of the minute a heartbeat lasts.  No worker in
\* its loop misses one for an operation of a Timely kind.
Clock ==
  /\ \A w \in Workers : wk[w].pc = "loop" /\ Kind(w) \in Timely => wk[w].beat
  /\ Tick
  /\ wk' = [w \in Workers |-> [wk[w] EXCEPT !.beat = wk[w].pc # "loop"]]
  /\ UNCHANGED <<late, untouched>>

-----------------------------------------------------------------------------

AgentInit ==
  /\ JournalInit
  /\ wk = [w \in Workers |-> Idle]
  /\ late = {} /\ receipt = 0 /\ temp = FALSE /\ stopping = FALSE
  /\ unit = [state |-> "idle", by |-> 0]
  /\ hist = [o \in Ops |-> [begun |-> 0, earned |-> FALSE, sent |-> FALSE]]

Step(w) ==
  \/ Poll(w) \/ Stamp(w) \/ Begin(w) \/ Heartbeat(w) \/ NoticeStop(w) \/ Drained(w)
  \/ Finalize(w) \/ Register(w) \/ Complete(w) \/ Acknowledge(w)

Execute(w) ==
  \/ Acquire(w) \/ GiveUp(w) \/ EffectEnds(w)
  \/ ReadReceipt(w) \/ OpenTemp(w) \/ LinkReceipt(w) \/ RemoveTemp(w)
  \/ Dispatch(w) \/ StartReturns(w) \/ WaitReturns(w)

AgentNext ==
  \/ \E w \in Workers : Step(w)
  \/ \E w \in Workers : Execute(w)
  \/ \E m \in late : Deliver(m)
  \/ \E state \in {"idle", "failed"} : UnitEnds(state)
  \/ Stop
  \/ Restart
  \/ Client
  \/ Clock

AgentSpec == AgentInit /\ [][AgentNext]_agentVars

-----------------------------------------------------------------------------
(* Properties.                                                             *)

\* The state has its type, and a worker has at most one lease and one executor.
AgentTypeOK ==
  /\ JournalTypeOK
  /\ wk \in [Workers -> WorkerState]
  /\ receipt \in Ops \cup {0} /\ temp \in BOOLEAN /\ stopping \in BOOLEAN
  /\ unit \in [state: {"idle", "active", "failed"}, by: Ops \cup {0}]
  /\ hist \in [Ops -> [begun: Nat, earned: BOOLEAN, sent: BOOLEAN]]

Ordinary(o) == op[o].kind \in AllKinds \ Repeatable

\* An ordinary effect begins at most once, over all leases, workers, restarts,
\* lost answers and delayed requests.
EffectAtMostOnce == \A o \in Ops : Ordinary(o) => hist[o].begun <= 1

\* The journal of an ordinary operation that shows no progress tells the truth:
\* nothing was done for it.
EvidenceOfEffect == \A o \in Ops : Ordinary(o) /\ op[o].progress = 0 => hist[o].begun = 0

\* An ordinary operation is recorded as succeeded only if its effect was run to
\* the end and succeeded.
SuccessEarned == \A o \in Ops : Ordinary(o) /\ op[o].state = "succeeded" => hist[o].earned

InEffect(w) == wk[w].ex \notin {"none", "gate", "done"}

\* A bundle operation runs alone, until its completion was answered or given
\* up: no other executor is past the gate.
BundleRunsAlone ==
  \A v, w \in Workers : v # w /\ wk[v].gate = "exclusive" => ~InEffect(w) /\ wk[w].gate = "free"

\* "so the next lease observes the existing transaction instead of starting the
\* updater a second time": a unit is started again for an operation only after
\* it failed.
NoSecondDispatchStep ==
  \A o \in Ops : ~Ordinary(o) /\ hist[o].sent => hist'[o].begun = hist[o].begun
NoSecondDispatch == [][NoSecondDispatchStep]_agentVars

\* The privileged unit is started only under a lease the server still honours.
DispatchUnderLeaseStep ==
  \A w \in Workers : wk[w].ex = "dispatch" /\ wk'[w].ex = "started" => Held(wk[w].o, wk[w].l)
DispatchUnderLease == [][DispatchUnderLeaseStep]_agentVars

\* The workers and the journal in every state: the effect of an ordinary
\* operation begins at most once and never without evidence in the journal,
\* success was earned, and a bundle operation runs alone.
AgentSafe ==
  /\ AgentTypeOK
  /\ EffectAtMostOnce
  /\ EvidenceOfEffect
  /\ SuccessEarned
  /\ BundleRunsAlone

-----------------------------------------------------------------------------
(* The inductive invariant behind them.                                    *)

\* A worker with this state presents a lease.
Busy(p) == p.pc \notin {"poll", "stamp"}

\* The requests that may be under way.  A completion under way has the code of
\* an executor that was not cancelled.
LateCalls ==
  [call: {"probe", "stamped"}, o: {0}, l: Nat, rev: Nat, arg: {"none"}]
    \cup [call: {"progress"}, o: Ops, l: Nat, rev: Nat, arg: Phases]
    \cup [call: {"complete"}, o: Ops, l: Nat, rev: Nat, arg: {"none", "reported"}]
    \cup [call: {"cancel"}, o: Ops, l: Nat, rev: Nat, arg: {"none"}]

Deeds == [begun: Nat, earned: BOOLEAN, sent: BOOLEAN]

\* The types; retention prunes nothing here.
StateInv ==
  /\ JInv /\ \A o \in Ops : op[o].state # "pruned"
  /\ wk \in [Workers -> WorkerState] /\ late \subseteq LateCalls
  /\ receipt \in Ops \cup {0} /\ temp \in BOOLEAN /\ stopping \in BOOLEAN
  /\ unit \in [state: {"idle", "active", "failed"}, by: Ops \cup {0}]
  /\ hist \in [Ops -> Deeds]

InTheUnit == {"receipt", "open", "link", "unlink", "dispatch", "started", "wait"}

\* An operation r and what was done for it, g.
RowOK(r, g) ==
  /\ r.state = "absent" => g.begun = 0
  /\ r.state \in OpStates /\ r.kind \notin Repeatable =>
       /\ g.begun <= 1
       /\ r.progress = 0 => g.begun = 0
       /\ r.state = "succeeded" => g.earned

\* Where the two goroutines of a worker may be together.  A stopped executor is
\* either abandoned or cancelled, so its "cancelled" is never completed.
Shape(p, halting) ==
  /\ p.pc \in {"poll", "stamp", "start"} => p.ex = "none"
  /\ p.pc = "start" => ~p.stop /\ ~p.cancel /\ p.beat
  /\ p.pc \in {"loop", "drain"} => p.ex # "none"
  /\ p.pc \in {"register", "complete"} => p.ex = "done" /\ ~p.stop
  /\ p.pc = "register" => p.code = "none"
  /\ p.pc = "ack" => p.ex \in {"none", "done"}
  /\ p.pc = "drain" => p.stop
  /\ p.pc = "loop" /\ p.stop => p.cancel
  /\ p.ex = "done" /\ p.code = "cancelled" => p.stop \/ halting
  /\ p.ex = "run" \/ p.ex \in InTheUnit => p.gate # "free"
  /\ p.ex \in {"none", "gate"} => p.gate = "free"

\* A busy worker presents a lease that was issued.
Presents(p, t) == Busy(p) => p.o \in Stored(t) /\ p.l >= 1 /\ p.l <= t[p.o].attempts

\* It holds the gate in the mode of its operation.
GateOK(p, t) ==
  Busy(p) => /\ p.ex \in InTheUnit => t[p.o].kind \in Privileged
             /\ p.ex = "run" => t[p.o].kind \notin Privileged
             /\ p.gate # "free" => p.gate = IF t[p.o].kind \in Privileged THEN "exclusive" ELSE "shared"

\* It has an executor only after a report was recorded, and before the effect
\* nothing was done.
EffectOK(p, t, h) ==
  Busy(p) /\ p.ex # "none" /\ t[p.o].kind \notin Repeatable =>
    t[p.o].progress # 0 /\ (p.ex = "gate" => h[p.o].begun = 0)

\* It reports a success only once earned.
SuccessOK(p, t, h) ==
  Busy(p) /\ p.ex = "done" /\ p.code = "none" /\ t[p.o].kind \notin Repeatable => h[p.o].earned

\* In its loop, with timely heartbeats, it holds its lease, for a tick more when
\* it has reported since the last one.
HoldOK(p, t, now) ==
  p.pc = "loop" /\ ~p.stop /\ t[p.o].kind \in Timely =>
    /\ t[p.o].state = "leased" /\ t[p.o].lease = p.l /\ t[p.o].until > now
    /\ p.beat => t[p.o].until > now + 1

WorkerOK(p, t, h, now, halting) ==
  /\ Shape(p, halting) /\ Presents(p, t) /\ GateOK(p, t)
  /\ EffectOK(p, t, h) /\ SuccessOK(p, t, h) /\ HoldOK(p, t, now)

\* Two workers present different leases, a bundle operation has the gate alone,
\* and one of the two executors of an operation that both have may run again.
PairOK(p, r, t) ==
  Busy(p) /\ Busy(r) =>
    /\ p.o # r.o \/ p.l # r.l
    /\ p.gate = "exclusive" => r.gate = "free"
    /\ p.o = r.o /\ p.ex # "none" /\ r.ex # "none" => t[p.o].kind \in Repeatable

\* A request under way presents a lease that was issued, and an earned success.
LateOK(m, t, h) ==
  m.o # 0 => /\ m.o \in Stored(t) /\ m.l >= 1 /\ m.l <= t[m.o].attempts
             /\ m.call = "complete" /\ m.arg = "none" /\ t[m.o].kind \notin Repeatable => h[m.o].earned

\* If some worker still presents its lease, the request is a report which that
\* worker has stopped waiting for.
LatePairOK(m, p) ==
  Busy(p) /\ m.o = p.o /\ m.l = p.l => m.call = "progress" /\ p.pc \notin {"start", "loop"}

AInv ==
  /\ StateInv
  /\ \A o \in Ops : RowOK(op[o], hist[o])
  /\ \A w \in Workers : WorkerOK(wk[w], op, hist, clock, stopping)
  /\ \A v, w \in Workers : v # w => PairOK(wk[v], wk[w], op)
  /\ \A m \in late : LateOK(m, op, hist)
  /\ \A m \in late, w \in Workers : LatePairOK(m, wk[w])

\* The receipt names the operation for which the unit was started, as long as
\* that operation can be leased.
ReceiptInv ==
  /\ \A o \in Ops : hist[o].sent => op[o].kind \in Privileged /\ op[o].state # "absent"
  /\ unit.state = "failed" => \A o \in Ops : ~hist[o].sent
  /\ \A o \in Ops : hist[o].sent /\ op[o].state \in Live => receipt = o
  /\ \A w \in Workers : wk[w].ex \in {"open", "link"} => receipt = 0
  /\ \A w \in Workers : wk[w].ex \in {"open", "link", "unlink", "dispatch"} => ~hist[wk[w].o].sent
  /\ \A w \in Workers : wk[w].ex \in {"unlink", "dispatch"} => receipt = wk[w].o \/ op[wk[w].o].state \notin Live
=============================================================================
