----------------------------- MODULE ModelTurns -----------------------------
(***************************************************************************)
(* Model turns: the durable rendezvous between a driver on an Edge and the *)
(* controllers that answer it, and the long polls with which controllers   *)
(* wait for a turn. Each part has its own variables and its own            *)
(* specification.                                                          *)
(***************************************************************************)
EXTENDS FiniteSets, Integers, Sequences

-----------------------------------------------------------------------------
(***************************************************************************)
(* The durable model-turn rendezvous of one remote Edge runtime: the       *)
(* driver on the Edge asks the control plane for model turns over a signed *)
(* relay whose replies may be lost, controllers answer the turns, may hand *)
(* the right to answer over to one another, and deadlines run out under    *)
(* all of them.                                                            *)
(*                                                                         *)
(*   internal/modelturn      the store of runtimes, turns and controllers  *)
(*   internal/edge           the relay's handlers and its receipts         *)
(*   internal/edgeclient     the transport with its retries and journal    *)
(*                                                                         *)
(* Every store call is one transaction under the store's mutex, hence one  *)
(* action.  A relay handler makes several: the state it has read, or has   *)
(* written when the process stops, is visible in between.                  *)
(***************************************************************************)

CONSTANTS
  TurnBounds,    \* records [turns, moves, lost, quits, evicted, restarts]
  Controllers    \* identities that may claim the right to answer

VARIABLES
  mtBounds,      \* the bounds of this behaviour
  mrt,           \* the runtime's row
  turn,          \* the turns' rows, by sequence
  ctl,           \* the row of runtime_controls
  relay,         \* the relay's receipts and its active wait
  wire,          \* the signed call the Edge has outstanding
  drv            \* the Edge: its journal of turns and the driver's process

mtVars == <<mtBounds, mrt, turn, ctl, relay, wire, drv>>

TurnSeqs == 1 .. mtBounds.turns
Nobody == "nobody"
OpenStatus == {"awaiting_model", "disconnected"}
EndedRuntime == {"completed", "failed", "cancelled", "expired"}

NoTurn ==
  [status |-> "none", late |-> FALSE, body |-> FALSE, gen |-> 0, by |-> Nobody]
Unclaimed ==
  [phase |-> "none", owner |-> Nobody, gen |-> 0, succ |-> Nobody,
   seq |-> 0, former |-> Nobody, fgen |-> 0, pending |-> FALSE]
NoCall == [ask |-> "none", seq |-> 0, answer |-> "none"]

RuntimeAlive == mrt.state \notin EndedRuntime
HasTurn(s) == turn[s].status # "none"
LastTurn == mrt.last

-----------------------------------------------------------------------------
(* Expiry.  Deadlines pass on their own; the rows follow when some store   *)
(* call cleans up.                                                         *)

\* A turn's deadline is the earlier of its own and the runtime's, so a
\* runtime past its deadline has no turn before its own.
TurnDeadline(s) ==
  /\ HasTurn(s) /\ ~turn[s].late
  /\ turn' = [turn EXCEPT ![s].late = TRUE]
  /\ UNCHANGED <<mtBounds, mrt, ctl, relay, wire, drv>>

RuntimeDeadline ==
  /\ ~mrt.due
  /\ mrt' = [mrt EXCEPT !.due = TRUE]
  /\ turn' = [s \in TurnSeqs |-> [turn[s] EXCEPT !.late = HasTurn(s)]]
  /\ UNCHANGED <<mtBounds, ctl, relay, wire, drv>>

\* The rows after cleanupLocked: open turns past their deadline are expired
\* and the bodies of every late turn are gone.
CleanTurns ==
  [s \in TurnSeqs |->
     [turn[s] EXCEPT
        !.status = IF turn[s].late /\ @ \in OpenStatus THEN "expired" ELSE @,
        !.body = @ /\ ~turn[s].late]]

expireRuntimes == IF RuntimeAlive /\ mrt.due THEN "expired" ELSE mrt.state

TurnCleanup ==
  /\ turn' = CleanTurns
  /\ mrt' = [mrt EXCEPT !.state = expireRuntimes]
  /\ <<turn', mrt'>> # <<turn, mrt>>
  /\ UNCHANGED <<mtBounds, ctl, relay, wire, drv>>

\* Quota pressure of other runtimes evicts the bodies of finished turns.
makeRoom(s) ==
  /\ mtBounds.evicted > 0
  /\ turn[s].status \in {"consumed", "cancelled", "expired", "failed"}
  /\ turn[s].body
  /\ mtBounds' = [mtBounds EXCEPT !.evicted = @ - 1]
  /\ turn' = [turn EXCEPT ![s].body = FALSE]
  /\ UNCHANGED <<mrt, ctl, relay, wire, drv>>

-----------------------------------------------------------------------------
(* Store operations on one turn, as the rows they leave.                   *)

\* setRuntimeState: only from the allowed states, else a conflict.
RuntimeMoved(target, allowed) ==
  [mrt EXCEPT !.state = IF @ \in allowed THEN target ELSE @]

\* MarkDisconnected, ResumeRuntime.
TurnDisconnected(s) ==
  [turn EXCEPT ![s].status = IF @ = "awaiting_model" THEN "disconnected" ELSE @]
ResumeRuntime ==
  [s \in TurnSeqs |->
     [turn[s] EXCEPT !.status =
        IF @ = "disconnected" /\ ~turn[s].late THEN "awaiting_model" ELSE @]]

\* CreateTurn and CreateTurnFromReference inside their transaction: cleanup
\* first, a live runtime, the next sequence, a deadline still ahead.
CanCreate(s) == RuntimeAlive /\ ~mrt.due /\ s = LastTurn + 1
CreatedTurns(s) ==
  [CleanTurns EXCEPT ![s] = [NoTurn EXCEPT !.status = "awaiting_model"]]

\* consumeOnce on a responded turn: the compare-and-swap and the read of the
\* unexpired body commit together or not at all.
CanConsume(s) == turn[s].status = "responded" /\ turn[s].body /\ ~turn[s].late
TurnConsumed(s) == [turn EXCEPT ![s].status = "consumed"]

\* ResponseSnapshot: an unexpired response of a turn already consumed.
Replayable(s) == turn[s].status = "consumed" /\ turn[s].body /\ ~turn[s].late

-----------------------------------------------------------------------------
(* Controllers: model_turn_respond and model_runtime_control.              *)

\* requireControlledRuntimeActive.
ControlledActive == RuntimeAlive /\ ~mrt.due

\* Who may answer: the owner at the current generation when the runtime is
\* controlled, a submission without controller when it is not.
Admitted(c, g) ==
  IF ctl.phase = "none" THEN c = Nobody /\ g = 0
  ELSE /\ ControlledActive
       /\ ctl.phase = "owned" /\ ctl.owner = c /\ ctl.gen = g

\* Respond: at most one answer per turn, before its deadline.
Respond(s, c, g) ==
  /\ turn[s].status \in OpenStatus /\ ~turn[s].late
  /\ Admitted(c, g)
  /\ turn' = [turn EXCEPT ![s].status = "responded", ![s].body = TRUE,
                          ![s].gen = g, ![s].by = c]
  /\ UNCHANGED <<mtBounds, mrt, ctl, relay, wire, drv>>

\* A late answer leaves the turn expired.
RespondLate(s) ==
  /\ turn[s].status \in OpenStatus /\ turn[s].late
  /\ turn' = [turn EXCEPT ![s].status = "expired"]
  /\ UNCHANGED <<mtBounds, mrt, ctl, relay, wire, drv>>

\* The turn every transition but release must name: the newest, still open.
Rendezvous(s) ==
  s = LastTurn /\ s > 0 /\ turn[s].status \in OpenStatus /\ ~turn[s].late


Claimed(c, s) ==
  [Unclaimed EXCEPT !.phase = "owned", !.owner = c, !.gen = 1, !.seq = s]
Prepared(succ, s) ==
  [ctl EXCEPT !.phase = "prepared", !.succ = succ, !.seq = s,
              !.former = Nobody, !.fgen = 0, !.pending = FALSE]
Transferred ==
  [ctl EXCEPT !.former = ctl.owner, !.fgen = ctl.gen, !.pending = TRUE,
              !.owner = ctl.succ, !.succ = Nobody, !.phase = "owned",
              !.gen = @ + 1]
Aborted == [ctl EXCEPT !.phase = "owned", !.succ = Nobody, !.gen = @ + 1]

\* ControlRuntime by c: the accepted transitions of the protocol.
ControlTransition(c, s) ==
  \/ ctl.phase = "none" /\ ctl' = Claimed(c, s)
  \/ /\ ctl.phase = "owned" /\ ~ctl.pending /\ ctl.owner = c
     /\ \E succ \in Controllers \ {c} : ctl' = Prepared(succ, s)
  \/ /\ ctl.phase = "prepared" /\ ctl.succ = c /\ ctl.seq = s
     /\ ctl' = [ctl EXCEPT !.phase = "acknowledged"]
  \/ /\ ctl.phase = "acknowledged" /\ c \in {ctl.owner, ctl.succ}
     /\ ctl.seq = s
     /\ ctl' = Transferred
  \/ /\ ctl.phase \in {"prepared", "acknowledged"} /\ ctl.owner = c
     /\ ctl.seq = s
     /\ ctl' = Aborted

ControlRuntime(c, s) ==
  /\ mtBounds.moves > 0
  /\ ControlledActive /\ Rendezvous(s)
  /\ ControlTransition(c, s)
  /\ mtBounds' = [mtBounds EXCEPT !.moves = @ - 1]
  /\ UNCHANGED <<mrt, turn, relay, wire, drv>>

\* Release is open to the former controller whatever became of the runtime.
ReleaseControl(c) ==
  /\ ctl.phase = "owned" /\ ctl.former = c /\ ctl.pending
  /\ ctl' = [ctl EXCEPT !.pending = FALSE]
  /\ UNCHANGED <<mtBounds, mrt, turn, relay, wire, drv>>

\* model_runtime_cancel: the runtime and its open turns in one transaction.
TurnsCancelRuntime ==
  /\ RuntimeAlive
  /\ mrt' = [mrt EXCEPT !.state = "cancelled"]
  /\ turn' = [s \in TurnSeqs |->
                [turn[s] EXCEPT !.status =
                   IF @ \in OpenStatus THEN "cancelled" ELSE @]]
  /\ UNCHANGED <<mtBounds, ctl, relay, wire, drv>>

-----------------------------------------------------------------------------
(* The Edge: driver, transport and journal.                                *)

\* The provider is done with a turn that was answered or that it gave up.
DoneWith(s) == drv.row[s] = "consumed" \/ s \in drv.dropped

\* createTurn of the driver: the provider asks for one turn after the other.
ProviderAsks(s) ==
  /\ drv.run = "up" /\ wire.ask = "none"
  /\ drv.row[s] = "none"
  /\ \A p \in TurnSeqs : p < s => DoneWith(p)

\* CreateTurn on the Edge: beginTurn makes the call's identity durable.
BeginTurn(s) ==
  /\ ProviderAsks(s)
  /\ drv' = [drv EXCEPT !.row[s] = "creating"]
  /\ wire' = [ask |-> "create", seq |-> s, answer |-> "none"]
  /\ UNCHANGED <<mtBounds, mrt, turn, ctl, relay>>

\* WaitResponse: one wait identity per turn, repeated until it is answered.
WaitResponse(s) ==
  /\ drv.run = "up" /\ wire.ask = "none"
  /\ drv.row[s] = "awaiting" /\ s \notin drv.dropped
  /\ wire' = [ask |-> "wait", seq |-> s, answer |-> "none"]
  /\ UNCHANGED <<mtBounds, mrt, turn, ctl, relay, drv>>

\* Cancel: the call that repeats the cancellation until it is answered.
CancelAsked(s) == [ask |-> "cancel", seq |-> s, answer |-> "none"]

\* The provider's request is aborted: its wait is abandoned and the turn
\* cancelled, whatever the relay makes of that.
AbandonWait(s) ==
  /\ mtBounds.quits > 0
  /\ wire.ask = "wait" /\ wire.seq = s
  /\ mtBounds' = [mtBounds EXCEPT !.quits = @ - 1]
  /\ wire' = CancelAsked(s)
  /\ drv' = [drv EXCEPT !.dropped = @ \cup {s}]
  /\ UNCHANGED <<mrt, turn, ctl, relay>>

\* A lost reply: retry repeats the call under the same identity.
LoseReply ==
  /\ mtBounds.lost > 0
  /\ wire.answer # "none"
  /\ mtBounds' = [mtBounds EXCEPT !.lost = @ - 1]
  /\ wire' = [wire EXCEPT !.answer = "none"]
  /\ UNCHANGED <<mrt, turn, ctl, relay, drv>>

\* bindTurn, markConsumed and markCancelled after the reply that allows them.
JournalRow(row, answer) ==
  CASE answer = "turn" -> "awaiting"
    [] answer = "response" -> "consumed"
    [] answer = "cancelled" -> "cancelled"
    [] OTHER -> row

\* A conflict fails a create, is repeated by a wait and ends a cancel.
TakeReply ==
  /\ wire.answer # "none"
  /\ wire' = NoCall
  /\ drv' = [drv EXCEPT
       !.row[wire.seq] = JournalRow(@, wire.answer),
       !.run = IF wire.answer = "conflict" /\ wire.ask = "create" THEN "failing" ELSE @]
  /\ UNCHANGED <<mtBounds, mrt, turn, ctl, relay>>

\* The process ends and the launcher reports it: CompleteRuntime and
\* FailRuntime close a runtime that is not closed, its open turns stay open.
EndRun(outcome) ==
  /\ (drv.run = "up" /\ wire.ask = "none") \/ drv.run = "failing"
  /\ outcome = "failed" \/ drv.run = "up"
  /\ drv' = [drv EXCEPT !.run = "done"]
  /\ wire' = NoCall
  /\ mrt' = [mrt EXCEPT !.state = IF RuntimeAlive THEN outcome ELSE @]
  /\ UNCHANGED <<mtBounds, turn, ctl, relay>>

-----------------------------------------------------------------------------
(* The relay's handlers.                                                   *)

CallPending(what, s) == wire.ask = what /\ wire.seq = s /\ wire.answer = "none"
RelayReplies(answer) == wire' = [wire EXCEPT !.answer = answer]

ReadyForTurns == mrt.state \in {"awaiting_model", "executing_tools", "disconnected"}

\* handleCreateTurn.  The turn is created and its receipt recorded in two
\* stores; a restart in between leaves the turn without its receipt.
CreateRefused(s) ==
  /\ CallPending("create", s)
  /\ ~ReadyForTurns \/ (~HasTurn(s) /\ ~CanCreate(s))
  /\ RelayReplies("conflict")
  /\ UNCHANGED <<mtBounds, mrt, turn, ctl, relay, drv>>

CreateAccepted(s) ==
  /\ CallPending("create", s) /\ ReadyForTurns
  /\ ~HasTurn(s) /\ CanCreate(s)
  /\ turn' = CreatedTurns(s)
  /\ mrt' = [mrt EXCEPT !.state = "awaiting_model", !.last = s]
  /\ \/ /\ relay' = [relay EXCEPT !.creates = @ \cup {s}]
        /\ RelayReplies("turn")
        /\ UNCHANGED mtBounds
     \/ /\ mtBounds.restarts > 0
        /\ mtBounds' = [mtBounds EXCEPT !.restarts = @ - 1]
        /\ relay' = [relay EXCEPT !.wait = 0, !.got = FALSE]
        /\ UNCHANGED wire
  /\ UNCHANGED <<ctl, drv>>

CreateRepeated(s) ==
  /\ CallPending("create", s) /\ ReadyForTurns
  /\ HasTurn(s)
  /\ relay' = [relay EXCEPT !.creates = @ \cup {s}]
  /\ RelayReplies("turn")
  /\ UNCHANGED <<mtBounds, mrt, turn, ctl, drv>>

\* handleWaitTurn, first part: the receipt, one active wait per runtime, the
\* replay of a response already consumed, a disconnected runtime resumed.
WaitRefused(s) ==
  /\ CallPending("wait", s) /\ relay.wait # 0
  /\ RelayReplies("again")
  /\ UNCHANGED <<mtBounds, mrt, turn, ctl, relay, drv>>


WaitReplayed(s) ==
  /\ CallPending("wait", s) /\ relay.wait = 0
  /\ Replayable(s)
  /\ RelayReplies("response")
  /\ UNCHANGED <<mtBounds, mrt, turn, ctl, relay, drv>>

WaitBegins(s) ==
  /\ CallPending("wait", s) /\ relay.wait = 0
  /\ ~Replayable(s)
  /\ relay' = [relay EXCEPT !.wait = s]
  /\ turn' = IF mrt.state = "disconnected" THEN ResumeRuntime ELSE turn
  /\ mrt' = RuntimeMoved("awaiting_model", {"disconnected"})
  /\ UNCHANGED <<mtBounds, ctl, wire, drv>>

\* A reply reaches the Edge only while that call is still the one it waits on.
ReplyToWait(s, answer) ==
  wire' = IF CallPending("wait", s) THEN [wire EXCEPT !.answer = answer] ELSE wire

\* Second part: the response is consumed, then the runtime moves on.
WaitConsumes(s) ==
  /\ relay.wait = s /\ ~relay.got
  /\ CanConsume(s)
  /\ turn' = TurnConsumed(s)
  /\ relay' = [relay EXCEPT !.got = TRUE]
  /\ UNCHANGED <<mtBounds, mrt, ctl, wire, drv>>

WaitDelivers(s) ==
  /\ relay.wait = s /\ relay.got
  /\ mrt' = RuntimeMoved("executing_tools",
                  {"awaiting_model", "disconnected", "executing_tools"})
  /\ relay' = [relay EXCEPT !.wait = 0, !.got = FALSE]
  /\ ReplyToWait(s, "response")
  /\ UNCHANGED <<mtBounds, turn, ctl, drv>>

\* The long poll times out, or its caller is gone.
Disconnecting(s) ==
  /\ turn' = TurnDisconnected(s)
  /\ mrt' = RuntimeMoved("disconnected",
                  {"awaiting_model", "executing_tools", "disconnected"})

WaitTimesOut(s) ==
  /\ relay.wait = s /\ ~relay.got /\ turn[s].status \in OpenStatus
  /\ Disconnecting(s)
  /\ relay' = [relay EXCEPT !.wait = 0]
  /\ ReplyToWait(s, "again")
  /\ UNCHANGED <<mtBounds, ctl, drv>>

\* A turn that can no longer be answered: consumeOnce marks a late one.
WaitRejected(s) ==
  /\ relay.wait = s /\ ~relay.got /\ ~CanConsume(s)
  /\ turn[s].late \/ turn[s].status \notin OpenStatus
  /\ turn' = [turn EXCEPT ![s].status = IF @ \in OpenStatus THEN "expired" ELSE @]
  /\ relay' = [relay EXCEPT !.wait = 0]
  /\ ReplyToWait(s, "again")
  /\ UNCHANGED <<mtBounds, mrt, ctl, drv>>

\* The cancel route of handleRuntime, repeatable once it has succeeded.
CancelTurn(s) ==
  /\ CallPending("cancel", s)
  /\ \/ /\ turn[s].status = "cancelled"
        /\ RelayReplies("cancelled")
        /\ UNCHANGED <<mrt, turn>>
     \/ /\ turn[s].status \in OpenStatus
        /\ turn' = [turn EXCEPT ![s].status = "cancelled"]
        /\ mrt' = RuntimeMoved("disconnected",
                        {"awaiting_model", "executing_tools", "disconnected"})
        /\ RelayReplies("cancelled")
     \/ /\ turn[s].status \notin OpenStatus \cup {"cancelled"}
        /\ RelayReplies("conflict")
        /\ UNCHANGED <<mrt, turn>>
  /\ UNCHANGED <<mtBounds, ctl, relay, drv>>

\* The control plane restarts: active waits and unsent replies are gone.
RelayRestarts ==
  /\ mtBounds.restarts > 0
  /\ relay.wait # 0
  /\ mtBounds' = [mtBounds EXCEPT !.restarts = @ - 1]
  /\ relay' = [relay EXCEPT !.wait = 0, !.got = FALSE]
  /\ UNCHANGED <<mrt, turn, ctl, wire, drv>>

-----------------------------------------------------------------------------
\* A journal without turns, for a driver that has just been started.
FreshEdge == [row |-> [s \in TurnSeqs |-> "none"], dropped |-> {}, run |-> "up"]

MtInit ==
  /\ mtBounds \in TurnBounds
  /\ mrt = [state |-> "awaiting_model", due |-> FALSE, last |-> 0]
  /\ turn = [s \in TurnSeqs |-> NoTurn]
  /\ ctl = Unclaimed
  /\ relay = [creates |-> {}, wait |-> 0, got |-> FALSE]
  /\ wire = NoCall
  /\ drv = FreshEdge

\* What the relay does about a call that comes in, and about the wait it holds.
CallArrives ==
  \E s \in TurnSeqs :
    \/ CreateRefused(s)
    \/ CreateAccepted(s)
    \/ CreateRepeated(s)
    \/ WaitRefused(s)
    \/ WaitReplayed(s)
    \/ WaitBegins(s)
    \/ CancelTurn(s)

WaitHeld ==
  \E s \in TurnSeqs :
    \/ WaitConsumes(s)
    \/ WaitDelivers(s)
    \/ WaitRejected(s)

Generations == 0 .. (mtBounds.moves + ctl.gen)

\* Whom and which generation a submission of model_turn_respond may name.
Submissions == (Controllers \cup {Nobody}) \X Generations

MtNext ==
  \/ CallArrives
  \/ WaitHeld
  \/ RelayRestarts
  \/ TurnCleanup
  \/ RuntimeDeadline
  \/ TurnsCancelRuntime
  \/ LoseReply
  \/ TakeReply
  \/ \E o \in {"completed", "failed"} : EndRun(o)
  \/ \E c \in Controllers : ReleaseControl(c)
  \/ \E s \in TurnSeqs :
       \/ TurnDeadline(s)
       \/ makeRoom(s)
       \/ RespondLate(s)
       \/ BeginTurn(s)
       \/ WaitResponse(s)
       \/ AbandonWait(s)
       \/ WaitTimesOut(s)
       \/ \E u \in Submissions : Respond(s, u[1], u[2])
       \/ \E c \in Controllers : ControlRuntime(c, s)

\* The transport repeats its calls and the relay answers them, every poll of
\* a controller or heartbeat cleans up, a long poll is cut off in the end.
MtFairness ==
  /\ WF_mtVars(CallArrives)
  /\ WF_mtVars(WaitHeld)
  /\ WF_mtVars(TakeReply)
  /\ WF_mtVars(\E s \in TurnSeqs : WaitResponse(s))
  /\ WF_mtVars(\E s \in TurnSeqs : WaitTimesOut(s))
  /\ WF_mtVars(TurnCleanup)

MtSpec == MtInit /\ [][MtNext]_mtVars /\ MtFairness

-----------------------------------------------------------------------------
\* Type invariant.
MtTypeOK ==
  /\ mrt \in [state : {"awaiting_model", "executing_tools", "disconnected"}
                        \cup EndedRuntime,
              due : BOOLEAN, last : 0 .. mtBounds.turns]
  /\ turn \in [TurnSeqs -> [status : {"none", "responded", "consumed", "cancelled",
                                  "expired"} \cup OpenStatus,
                        late : BOOLEAN, body : BOOLEAN, gen : Nat,
                        by : Controllers \cup {Nobody}]]
  /\ ctl.phase \in {"none", "owned", "prepared", "acknowledged"}
  /\ (ctl.phase = "none") = (ctl.gen = 0)
  /\ (ctl.succ # Nobody) = (ctl.phase \in {"prepared", "acknowledged"})
  /\ ctl.owner # ctl.succ \/ ctl.phase = "none"
  /\ relay.wait \in 0 .. mrt.last /\ relay.creates \subseteq 1 .. mrt.last
  /\ drv.row \in [TurnSeqs -> {"none", "creating", "awaiting", "consumed", "cancelled"}]

\* All answers given in one generation come from one controller: a
\* controller that handed over, or an answer from before the runtime was
\* claimed, never shares its generation with another (ControlRuntime raises
\* the generation at every transfer and abort, Respond compares it).
OneVoicePerGeneration ==
  \A s, t \in TurnSeqs :
    turn[s].status \in {"responded", "consumed"} /\ turn[t].status \in {"responded", "consumed"}
      => (turn[s].gen = turn[t].gen => turn[s].by = turn[t].by)

\* While a handoff is prepared or acknowledged the turn it is bound to has
\* no answer: the successor takes over exactly the pending turn, never tool
\* work that is already under way.
HandoffTurnUnanswered ==
  ctl.phase \in {"prepared", "acknowledged"} =>
    turn[ctl.seq].status \notin {"responded", "consumed"}

\* The Edge's journal never runs ahead of the store: what it holds as
\* consumed or cancelled is so at the control plane, what it waits on exists
\* there under its receipt, and no repeated create made a second turn.
JournalAgrees ==
  \A s \in TurnSeqs :
    /\ drv.row[s] = "consumed" => turn[s].status = "consumed"
    /\ drv.row[s] = "cancelled" => turn[s].status = "cancelled"
    /\ drv.row[s] = "awaiting" => HasTurn(s) /\ s \in relay.creates
    /\ drv.row[s] = "none" => ~HasTurn(s)

\* An Edge whose runtime is alive and before its deadline is never told that
\* its create conflicts, however many replies and receipts were lost: the
\* run of a healthy runtime does not fail over a repeated create.
RetryNeverConflicts ==
  wire.ask = "create" /\ wire.answer = "conflict" => mrt.due \/ ~RuntimeAlive

\* A response that is there for a waiting driver reaches it, through lost
\* replies, timed-out waits and restarts, unless its deadline passes, its
\* body is evicted, the driver gives the turn up or its run ends.
ResponseReachesDriver ==
  \A s \in 1 .. 2 :
    []<>(s \in TurnSeqs /\ turn[s].status \in {"responded", "consumed"} =>
           \/ drv.row[s] # "awaiting" \/ s \in drv.dropped
           \/ turn[s].late \/ drv.run # "up"
           \/ turn[s].status = "consumed" /\ ~turn[s].body)

\* No turn stays open and no runtime alive once the runtime's deadline has
\* passed, whatever the Edge and the controllers stop doing.
EverythingEnds ==
  <>[](mrt.due => ~RuntimeAlive /\ \A s \in TurnSeqs : turn[s].status \notin OpenStatus)

-----------------------------------------------------------------------------
(***************************************************************************)
(* Long polls for model turns: model_turn_next and model_turn_next_any     *)
(* (internal/mcpserver/model_turn_tools.go) over WaitNextAfter and         *)
(* WaitNextAnyAfter (internal/modelturn/runtime.go).  A wait reserves its  *)
(* runtimes, takes the wake channel, polls every runtime in two reads, and *)
(* sleeps; writers commit and signal afterwards, and a writer of another   *)
(* process, or the clock, signals nothing at all.                          *)
(***************************************************************************)

CONSTANTS
  Waiters,      \* tool calls in progress at once
  WaitRuntimes, \* runtimes they may name
  WaitBounds    \* records [callers, turns, ends, calls, foreign, lapses]

VARIABLES
  twBounds,  \* what is left of the behaviour's bounds
  trun,      \* each runtime and its newest turn
  owed,      \* signals that writers of this process still owe
  waiter,    \* each tool call
  reserved   \* modelWaits: <<session key, runtime>>

twVars == <<twBounds, trun, owed, waiter, reserved>>

NoFind == [r |-> 0, seq |-> 0, born |-> 0]

NoWait == [at |-> "idle", cursors |-> <<>>, i |-> 0, open |-> FALSE, best |-> NoFind, ended |-> NoFind, late |-> FALSE,
           offer |-> NoFind, there |-> {}]

\* The cursors a call may name: one runtime, or each of them in either order.
Orders == {<<r>> : r \in WaitRuntimes} \cup {<<p[1], p[2]>> : p \in {q \in WaitRuntimes \X WaitRuntimes : q[1] # q[2]}}

Offered(t) == t.st \in {"awaiting", "disconnected"}

\* runtimeStopsWait
runtimeStopsWait(t, after) ==
  \/ ~t.open
  \/ t.seq <= after /\ t.st \in {"disconnected", "cancelled"}

WaitTurn(r) == [r |-> r, seq |-> trun[r].seq, born |-> trun[r].born]

-----------------------------------------------------------------------------
(* Writers *)

\* A writer's commit, by this process (which owes a signal) or another one.
Commit(r, t, foreign) ==
  /\ trun' = [trun EXCEPT ![r] = [t EXCEPT !.alien = foreign]]
  /\ owed' = IF foreign THEN owed ELSE owed + 1
  /\ IF foreign THEN twBounds.foreign > 0 ELSE TRUE
  /\ UNCHANGED <<waiter, reserved>>

Used(f, foreign) == [twBounds EXCEPT ![f] = @ - 1, !.foreign = IF foreign THEN @ - 1 ELSE @]

\* CreateTurn
OfferTurn(r, foreign) ==
  /\ twBounds.turns > 0
  /\ trun[r].open /\ ~Offered(trun[r])
  /\ Commit(r, [trun[r] EXCEPT !.seq = @ + 1, !.st = "awaiting", !.lapsed = FALSE, !.born = twBounds.turns], foreign)
  /\ twBounds' = Used("turns", foreign)

\* Respond and the driver's consumption
AnswerTurn(r, foreign) ==
  /\ Offered(trun[r]) /\ ~trun[r].lapsed
  /\ Commit(r, [trun[r] EXCEPT !.st = "answered"], foreign)
  /\ twBounds' = [twBounds EXCEPT !.foreign = IF foreign THEN @ - 1 ELSE @]

\* MarkDisconnected
DisconnectTurn(r, foreign) ==
  /\ trun[r].st = "awaiting"
  /\ twBounds.ends > 0
  /\ Commit(r, [trun[r] EXCEPT !.st = "disconnected"], foreign)
  /\ twBounds' = Used("ends", foreign)

\* CancelRuntime and the reports that end a runtime
EndRuntime(r, foreign) ==
  /\ trun[r].open
  /\ twBounds.ends > 0
  /\ Commit(r, [trun[r] EXCEPT !.open = FALSE, !.st = IF Offered(trun[r]) THEN "cancelled" ELSE @], foreign)
  /\ twBounds' = Used("ends", foreign)

\* A turn's expiry passes; no one writes.
TurnLapses(r) ==
  /\ twBounds.lapses > 0
  /\ Offered(trun[r]) /\ ~trun[r].lapsed
  /\ trun' = [trun EXCEPT ![r].lapsed = TRUE]
  /\ twBounds' = [twBounds EXCEPT !.lapses = @ - 1]
  /\ UNCHANGED <<owed, waiter, reserved>>

\* signal: the channel is closed, for everyone who has taken it, and a new one
\* takes its place.
signal ==
  /\ owed > 0
  /\ owed' = owed - 1
  /\ waiter' = [w \in Waiters |-> [waiter[w] EXCEPT !.open = FALSE]]
  /\ UNCHANGED <<twBounds, trun, reserved>>

-----------------------------------------------------------------------------
(* Waits *)

\* The session key a tool receives over HTTP: see SessionKey of McpSessions.
WaitKey(w) == "none"

WaitKeys(w, order) == {<<WaitKey(w), order[i]>> : i \in 1..Len(order)}

Named(w) == {waiter[w].cursors[i].r : i \in 1..Len(waiter[w].cursors)}

\* The check of beginModelWaitMany
CanReserve(w, order) == WaitKeys(w, order) \cap reserved = {}

\* handleModelTurnNext and handleModelTurnNextAny, up to the reservation
BeginWait(w, order, after) ==
  /\ waiter[w].at = "idle"
  /\ twBounds.calls > 0
  /\ CanReserve(w, order)
  /\ twBounds' = [twBounds EXCEPT !.calls = @ - 1]
  /\ reserved' = reserved \cup WaitKeys(w, order)
  /\ waiter' = [waiter EXCEPT ![w] = [NoWait EXCEPT !.at = "top",
                  !.cursors = [i \in 1..Len(order) |-> [r |-> order[i], after |-> after[order[i]]]]]]
  /\ UNCHANGED <<trun, owed>>

\* ErrTurnConflict
RefuseWait(w, order) ==
  /\ waiter[w].at = "idle"
  /\ twBounds.calls > 0
  /\ ~CanReserve(w, order)
  /\ twBounds' = [twBounds EXCEPT !.calls = @ - 1]
  /\ UNCHANGED <<trun, owed, waiter, reserved>>

Deliverable(w) ==
  {WaitTurn(c.r) : c \in {waiter[w].cursors[i] : i \in {j \in 1..Len(waiter[w].cursors) :
      LET d == waiter[w].cursors[j] IN Offered(trun[d.r]) /\ ~trun[d.r].lapsed /\ trun[d.r].seq > d.after}}}

\* waitChannel, before the poll
TakeWake(w) ==
  /\ waiter[w].at = "top"
  /\ waiter' = [waiter EXCEPT ![w] = [@ EXCEPT !.at = "next", !.i = 1, !.open = TRUE, !.best = NoFind,
                                               !.ended = NoFind, !.late = FALSE, !.there = Deliverable(w)]]
  /\ UNCHANGED <<twBounds, trun, owed, reserved>>

\* After one runtime: the next one, an answer, or sleep.
Onward(v) ==
  IF v.i < Len(v.cursors) THEN [v EXCEPT !.at = "next", !.i = @ + 1, !.offer = NoFind]
  ELSE IF v.best # NoFind \/ v.ended # NoFind \/ v.late THEN [v EXCEPT !.at = "answer", !.offer = NoFind]
  ELSE [v EXCEPT !.at = "sleep", !.offer = NoFind]

\* nextOnce, the first read of PollAfter; an expired turn gives ErrLateResponse.
nextOnce(w) ==
  LET c == waiter[w].cursors[waiter[w].i]
      t == trun[c.r]
  IN /\ waiter[w].at = "next"
     /\ waiter' = [waiter EXCEPT ![w] =
          IF Offered(t) /\ t.lapsed THEN Onward([@ EXCEPT !.late = TRUE])
          ELSE [@ EXCEPT !.offer = IF Offered(t) THEN WaitTurn(c.r) ELSE NoFind, !.at = "runtime"]]
     /\ UNCHANGED <<twBounds, trun, owed, reserved>>

\* The older of two offers (earlier turns are born with larger numbers).
Preferred(a, b) == IF a = NoFind \/ b.born > a.born THEN b ELSE a

\* The second read of PollAfter and the choice PollAnyAfter makes so far.
ReadRuntime(w) ==
  LET c == waiter[w].cursors[waiter[w].i]
      found == waiter[w].offer.seq > c.after
  IN /\ waiter[w].at = "runtime"
     /\ waiter' = [waiter EXCEPT ![w] =
          Onward([@ EXCEPT !.best = IF found THEN Preferred(@, waiter[w].offer) ELSE @,
                           !.ended = IF ~found /\ @ = NoFind /\ runtimeStopsWait(trun[c.r], c.after)
                                     THEN WaitTurn(c.r) ELSE @])]
     /\ UNCHANGED <<twBounds, trun, owed, reserved>>

\* endModelWaitMany
endModelWaitMany(w) == reserved' = reserved \ {<<WaitKey(w), r>> : r \in Named(w)}

\* The call answers and its deferred release runs.
AnswerWait(w) ==
  /\ waiter[w].at = "answer"
  /\ endModelWaitMany(w)
  /\ waiter' = [waiter EXCEPT ![w] = NoWait]
  /\ UNCHANGED <<twBounds, trun, owed>>

WakeUp(w) ==
  /\ waiter[w].at = "sleep"
  /\ ~waiter[w].open
  /\ waiter' = [waiter EXCEPT ![w].at = "top"]
  /\ UNCHANGED <<twBounds, trun, owed, reserved>>

\* time.After(time.Second)
Fallback(w) ==
  /\ waiter[w].at = "sleep"
  /\ waiter' = [waiter EXCEPT ![w].at = "top"]
  /\ UNCHANGED <<twBounds, trun, owed, reserved>>

\* The deadline of the call: no_change.
WaitWaitTimesOut(w) ==
  /\ waiter[w].at \in {"top", "sleep"}
  /\ endModelWaitMany(w)
  /\ waiter' = [waiter EXCEPT ![w] = NoWait]
  /\ UNCHANGED <<twBounds, trun, owed>>

-----------------------------------------------------------------------------

WaitInit ==
  /\ twBounds \in WaitBounds
  /\ trun = [r \in WaitRuntimes |-> [open |-> TRUE, seq |-> 0, st |-> "none", lapsed |-> FALSE, born |-> 0, alien |-> FALSE]]
  /\ owed = 0
  /\ waiter = [w \in Waiters |-> NoWait]
  /\ reserved = {}

\* A caller passes zero, or the sequence it saw last.
Cursors == {[r \in WaitRuntimes |-> 0], [r \in WaitRuntimes |-> trun[r].seq]}

WaitNext ==
  \/ \E r \in WaitRuntimes, f \in BOOLEAN : OfferTurn(r, f)
  \/ \E r \in WaitRuntimes, f \in BOOLEAN : AnswerTurn(r, f)
  \/ \E r \in WaitRuntimes, f \in BOOLEAN : DisconnectTurn(r, f)
  \/ \E r \in WaitRuntimes, f \in BOOLEAN : EndRuntime(r, f)
  \/ \E r \in WaitRuntimes : TurnLapses(r)
  \/ signal
  \/ \E w \in twBounds.callers, o \in Orders : \E after \in Cursors : BeginWait(w, o, after)
  \/ \E w \in twBounds.callers, o \in Orders : RefuseWait(w, o)
  \/ \E w \in Waiters : TakeWake(w)
  \/ \E w \in Waiters : nextOnce(w)
  \/ \E w \in Waiters : ReadRuntime(w)
  \/ \E w \in Waiters : AnswerWait(w)
  \/ \E w \in Waiters : WakeUp(w)
  \/ \E w \in Waiters : Fallback(w)
  \/ \E w \in Waiters : WaitWaitTimesOut(w)

\* A call's own goroutine runs on, timers fire and a writer signals after its
\* commit.  Nothing is assumed of deadlines or of the writers themselves.
WaitFair ==
  /\ WF_twVars(signal)
  /\ \A w \in Waiters :
       WF_twVars(TakeWake(w) \/ nextOnce(w) \/ ReadRuntime(w) \/ AnswerWait(w) \/ WakeUp(w) \/ Fallback(w))

WaitSpec == WaitInit /\ [][WaitNext]_twVars /\ WaitFair

-----------------------------------------------------------------------------
(* Properties *)

\* The reservations are exactly those of the calls in progress: a call that
\* answered, failed or timed out never keeps a runtime from being waited for.
ReservationsMatch ==
  /\ reserved = UNION {{<<WaitKey(w), r>> : r \in Named(w)} : w \in Waiters}
  /\ \A v, w \in Waiters : v # w /\ WaitKey(v) = WaitKey(w) => Named(v) \cap Named(w) = {}

\* A sleeping wait whose channel is still open has missed nothing: when every
\* signal was given and no other process wrote, no turn newer than its cursor
\* is waiting for it.
NoSleepThrough ==
  \A w \in Waiters :
    waiter[w].at = "sleep" /\ waiter[w].open /\ owed = 0
      => \A t \in Deliverable(w) : trun[t.r].alien

\* "a terminal runtime or a noisy first worker cannot hide an older pending
\* turn" (runtime.go:666): of the turns that were pending from the beginning of
\* the poll to its end, none is older than the one that is returned.
OlderNotHidden ==
  \A w \in Waiters : waiter[w].at = "answer" =>
    \A t \in waiter[w].there \cap Deliverable(w) : waiter[w].best.born >= t.born

\* A wait is answered while a turn newer than its cursor stays pending, also
\* when another process wrote it.
WaitsAnswered == \A w \in Waiters : ~<>[](waiter[w].at # "idle" /\ Deliverable(w) # {})

=============================================================================
