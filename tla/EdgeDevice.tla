----------------------------- MODULE EdgeDevice -----------------------------
(***************************************************************************)
(* An Edge as a device of the control plane: how it is paired and          *)
(* announces its workspaces, and how it runs the tasks it is given. Each   *)
(* part has its own variables and its own specification.                   *)
(***************************************************************************)
EXTENDS Integers, Sequences, FiniteSets, SequencesExt

-----------------------------------------------------------------------------
(***************************************************************************)
(* How an Edge comes to be known to the server and how the server comes to *)
(* know its workspaces: one-time pairing codes, the device table and the   *)
(* control signing key on the server (internal/edge/identity.go,           *)
(* workspaces.go), the two identity files on the Edge                      *)
(* (internal/edgeclient/identity.go, transport.go), the resident agent     *)
(* whose workers list the local workspace registry and send the list, each *)
(* on its own (cmd/mcp-edge), and the operator's commands                  *)
(* (internal/app/edge_admin.go).                                           *)
(*                                                                         *)
(* Crashes may fall between any two writes, answers may be lost.           *)
(***************************************************************************)

CONSTANTS PairingCodes,       \* pairing codes
          CodeTTL,     \* the lifetime of a code, in ticks
          PairingWorkspaces,  \* workspace ids
          PairingWorkers,     \* agent workers that announce workspaces
          PairBounds   \* records [pairs, lost, crashes, faults, revokes, changes, legacy]

VARIABLES epBounds, epDb, epOpen, epPair, epFiles, epAgent, epLocal

epVars == <<epBounds, epDb, epOpen, epPair, epFiles, epAgent, epLocal>>

(* control-signing.key: absent, created and not yet written, or key n.     *)
PairingNoKey == 0
Partial == -1

Openers == {"server", "admin"}
Closed == [at |-> "down", key |-> PairingNoKey]
NotPairing == [at |-> "idle", code |-> "none", key |-> 0, dev |-> 0, ctl |-> PairingNoKey]
NoIdentity == [dev |-> 0, ctl |-> PairingNoKey]
PairingStopped == [up |-> FALSE, dev |-> 0, key |-> 0, ctl |-> PairingNoKey,
                   lists |-> [w \in PairingWorkers |-> {}]]

(* A server older than control keys has paired the Edge: a registered      *)
(* device, an identity of schema 1.                                        *)
EpInit ==
    /\ epBounds \in PairBounds
    /\ epDb = [ctl |-> PairingNoKey, next |-> 1,
               codes |-> [c \in PairingCodes |-> [state |-> "none", left |-> 0]],
               devs |-> IF epBounds.legacy THEN <<[key |-> 1, code |-> "none", active |-> TRUE]>> ELSE <<>>,
               owner |-> [w \in PairingWorkspaces |-> 0]]
    /\ epOpen = [o \in Openers |-> Closed]
    /\ epPair = NotPairing
    /\ epFiles = [id |-> IF epBounds.legacy THEN [NoIdentity EXCEPT !.dev = 1] ELSE NoIdentity,
                  key |-> IF epBounds.legacy THEN 1 ELSE 0]
    /\ epAgent = PairingStopped
    /\ epLocal = {}

EpSpend(f) == epBounds[f] > 0 /\ epBounds' = [epBounds EXCEPT ![f] = @ - 1]

PairingServing == epOpen["server"].at = "up"
Administering == epOpen["admin"].at = "up"

-----------------------------------------------------------------------------
(* The control key.                                                        *)

(* Open: the key is read, or created exclusively and then written.  A file *)
(* of the wrong size is refused.                                           *)
OpenStore(o) ==
    /\ epOpen[o].at = "down"
    /\ epDb.ctl # Partial
    /\ IF epDb.ctl = PairingNoKey
       THEN /\ epDb' = [epDb EXCEPT !.ctl = Partial, !.next = @ + 1]
            /\ epOpen' = [epOpen EXCEPT ![o] = [at |-> "writing", key |-> epDb.next]]
       ELSE /\ epOpen' = [epOpen EXCEPT ![o] = [at |-> "up", key |-> epDb.ctl]]
            /\ UNCHANGED epDb
    /\ UNCHANGED <<epBounds, epPair, epFiles, epAgent, epLocal>>

WriteControlKey(o) ==
    /\ epOpen[o].at = "writing"
    /\ epDb' = [epDb EXCEPT !.ctl = epOpen[o].key]
    /\ epOpen' = [epOpen EXCEPT ![o].at = "up"]
    /\ UNCHANGED <<epBounds, epPair, epFiles, epAgent, epLocal>>

(* The write fails, and the file is removed.                               *)
ControlKeyFails(o) ==
    /\ epOpen[o].at = "writing"
    /\ EpSpend("faults")
    /\ epDb' = [epDb EXCEPT !.ctl = PairingNoKey]
    /\ epOpen' = [epOpen EXCEPT ![o] = Closed]
    /\ UNCHANGED <<epPair, epFiles, epAgent, epLocal>>

StoreCrashes(o) ==
    /\ epOpen[o].at # "down"
    /\ EpSpend("crashes")
    /\ epOpen' = [epOpen EXCEPT ![o] = Closed]
    /\ UNCHANGED <<epDb, epPair, epFiles, epAgent, epLocal>>

-----------------------------------------------------------------------------
(* The operator's commands.                                                *)

CreatePairing(c) ==
    /\ Administering
    /\ epDb.codes[c].state = "none"
    /\ epDb' = [epDb EXCEPT !.codes[c] = [state |-> "open", left |-> CodeTTL]]
    /\ epOpen' = [epOpen EXCEPT !["admin"] = Closed]
    /\ UNCHANGED <<epBounds, epPair, epFiles, epAgent, epLocal>>

RevokeDevice(d) ==
    /\ Administering
    /\ epDb.devs[d].active
    /\ EpSpend("revokes")
    /\ epDb' = [epDb EXCEPT !.devs[d].active = FALSE]
    /\ epOpen' = [epOpen EXCEPT !["admin"] = Closed]
    /\ UNCHANGED <<epPair, epFiles, epAgent, epLocal>>

(* The operator removes the identity of an Edge whose device is revoked,   *)
(* or one that was cut short, to pair it anew.                             *)
RemoveIdentity ==
    /\ ~epAgent.up
    /\ epPair.at = "idle"
    /\ epFiles.id.dev # 0
    /\ epFiles.key = 0 \/ ~epDb.devs[epFiles.id.dev].active
    /\ epFiles' = [id |-> NoIdentity, key |-> 0]
    /\ UNCHANGED <<epBounds, epDb, epOpen, epPair, epAgent, epLocal>>

-----------------------------------------------------------------------------
(* Pairing.                                                                *)

AlreadyPaired == epFiles.id.dev # 0 \/ epFiles.key # 0

(* Pair (edgeclient): nothing is there yet, a new key pair is made.        *)
BeginPair(c) ==
    /\ epPair.at = "idle"
    /\ ~AlreadyPaired
    /\ epDb.codes[c].state # "none"
    /\ EpSpend("pairs")
    /\ epPair' = [NotPairing EXCEPT !.at = "asking", !.code = c, !.key = epDb.next]
    /\ epDb' = [epDb EXCEPT !.next = @ + 1]
    /\ UNCHANGED <<epOpen, epFiles, epAgent, epLocal>>

CodeOpen(c) == epDb.codes[c].state = "open" /\ epDb.codes[c].left > 0

Consume(c) == [epDb.codes EXCEPT ![c].state = "used"]

(* Pair (edge): one transaction consumes the code and inserts the device.  *)
ServePair ==
    /\ epPair.at = "asking"
    /\ PairingServing
    /\ CodeOpen(epPair.code)
    /\ epDb' = [epDb EXCEPT !.codes = Consume(epPair.code),
                            !.devs = Append(@, [key |-> epPair.key, code |-> epPair.code, active |-> TRUE])]
    /\ epPair' = [epPair EXCEPT !.at = "answered", !.dev = Len(epDb.devs) + 1, !.ctl = epOpen["server"].key]
    /\ UNCHANGED <<epBounds, epOpen, epFiles, epAgent, epLocal>>

RefusePair ==
    /\ epPair.at = "asking"
    /\ ~PairingServing \/ ~CodeOpen(epPair.code)
    /\ epPair' = NotPairing
    /\ UNCHANGED <<epBounds, epDb, epOpen, epFiles, epAgent, epLocal>>

(* The answer is lost: the device is registered, the Edge knows nothing.   *)
PairAnswerLost ==
    /\ epPair.at = "answered"
    /\ EpSpend("lost")
    /\ epPair' = NotPairing
    /\ UNCHANGED <<epDb, epOpen, epFiles, epAgent, epLocal>>

(* persistIdentity: identity.json first, then device.key.                  *)
PersistIdentity ==
    /\ epPair.at = "answered"
    /\ epFiles' = [epFiles EXCEPT !.id = [dev |-> epPair.dev, ctl |-> epPair.ctl]]
    /\ epPair' = [epPair EXCEPT !.at = "half"]
    /\ UNCHANGED <<epBounds, epDb, epOpen, epAgent, epLocal>>

PersistKey ==
    /\ epPair.at = "half"
    /\ epFiles' = [epFiles EXCEPT !.key = epPair.key]
    /\ epPair' = NotPairing
    /\ UNCHANGED <<epBounds, epDb, epOpen, epAgent, epLocal>>

(* A write fails; identity.json is removed if it was written.              *)
PersistFails ==
    /\ epPair.at \in {"answered", "half"}
    /\ EpSpend("faults")
    /\ epFiles' = IF epPair.at = "half" THEN [epFiles EXCEPT !.id = NoIdentity] ELSE epFiles
    /\ epPair' = NotPairing
    /\ UNCHANGED <<epDb, epOpen, epAgent, epLocal>>

PairCrashes ==
    /\ epPair.at # "idle"
    /\ EpSpend("crashes")
    /\ epPair' = NotPairing
    /\ UNCHANGED <<epDb, epOpen, epFiles, epAgent, epLocal>>

-----------------------------------------------------------------------------
(* The agent.                                                              *)

(* LoadIdentity: both files have to be there.                              *)
Loadable == epFiles.id.dev # 0 /\ epFiles.key # 0

StartAgent ==
    /\ ~epAgent.up
    /\ Loadable
    /\ epAgent' = [PairingStopped EXCEPT !.up = TRUE, !.dev = epFiles.id.dev, !.key = epFiles.key,
                                         !.ctl = epFiles.id.ctl]
    /\ UNCHANGED <<epBounds, epDb, epOpen, epPair, epFiles, epLocal>>

(* The agent is stopped or killed.                                         *)
StopAgent ==
    /\ epAgent.up
    /\ EpSpend("crashes")
    /\ epAgent' = PairingStopped
    /\ UNCHANGED <<epDb, epOpen, epPair, epFiles, epLocal>>

(* A request of the agent passes Authenticate.                             *)
Authentic ==
    /\ epAgent.up /\ PairingServing
    /\ epDb.devs[epAgent.dev].active
    /\ epDb.devs[epAgent.dev].key = epAgent.key

(* ensureControlPublicKey: an identity of schema 1 fetches the key once,   *)
(* and is replaced as a whole.                                             *)
EnsureControlKey ==
    /\ Authentic
    /\ epAgent.ctl = PairingNoKey
    /\ epFiles' = [epFiles EXCEPT !.id.ctl = epOpen["server"].key]
    /\ epAgent' = [epAgent EXCEPT !.ctl = epOpen["server"].key]
    /\ UNCHANGED <<epBounds, epDb, epOpen, epPair, epLocal>>

(* An operation adds or removes a workspace of the local registry.         *)
ChangeWorkspaces(S) ==
    /\ epAgent.up
    /\ S # epLocal
    /\ EpSpend("changes")
    /\ epLocal' = S
    /\ UNCHANGED <<epDb, epOpen, epPair, epFiles, epAgent>>

(* A worker lists the registry ...                                         *)
ListWorkspaces(w) ==
    /\ epAgent.up
    /\ epAgent.lists[w] = {}
    /\ epAgent' = [epAgent EXCEPT !.lists[w] = {epLocal}]
    /\ UNCHANGED <<epBounds, epDb, epOpen, epPair, epFiles, epLocal>>

(* The rows once the device's list has replaced its earlier one.           *)
Registered(d, S) ==
    [x \in PairingWorkspaces |-> IF x \in S THEN d ELSE IF epDb.owner[x] = d THEN 0 ELSE epDb.owner[x]]

(* A workspace that is some other device's fails the whole registration.   *)
Foreign(d, S) == \E x \in S : epDb.owner[x] \notin {0, d}

(* ... and RegisterWorkspaces replaces what the server knows by it,        *)
(* whatever other workers have sent since.                                 *)
RegisterWorkspaces(w) ==
    /\ \E S \in epAgent.lists[w] :
          epDb' = IF Authentic /\ ~Foreign(epAgent.dev, S)
                  THEN [epDb EXCEPT !.owner = Registered(epAgent.dev, S)]
                  ELSE epDb
    /\ epAgent' = [epAgent EXCEPT !.lists[w] = {}]
    /\ UNCHANGED <<epBounds, epOpen, epPair, epFiles, epLocal>>

EpTick ==
    /\ \E c \in PairingCodes : epDb.codes[c].left > 0
    /\ epDb' = [epDb EXCEPT !.codes = [c \in PairingCodes |->
          [epDb.codes[c] EXCEPT !.left = IF @ > 0 THEN @ - 1 ELSE 0]]]
    /\ UNCHANGED <<epBounds, epOpen, epPair, epFiles, epAgent, epLocal>>

EpNext ==
    \/ \E o \in Openers : OpenStore(o)
    \/ \E o \in Openers : WriteControlKey(o)
    \/ \E o \in Openers : ControlKeyFails(o)
    \/ \E o \in Openers : StoreCrashes(o)
    \/ \E c \in PairingCodes : CreatePairing(c)
    \/ \E d \in DOMAIN epDb.devs : RevokeDevice(d)
    \/ RemoveIdentity
    \/ \E c \in PairingCodes : BeginPair(c)
    \/ ServePair
    \/ RefusePair
    \/ PairAnswerLost
    \/ PersistIdentity
    \/ PersistKey
    \/ PersistFails
    \/ PairCrashes
    \/ StartAgent
    \/ StopAgent
    \/ EnsureControlKey
    \/ \E S \in SUBSET PairingWorkspaces : ChangeWorkspaces(S)
    \/ \E w \in PairingWorkers : ListWorkspaces(w)
    \/ \E w \in PairingWorkers : RegisterWorkspaces(w)
    \/ EpTick

(* The server and the agent are resident services that are started again;  *)
(* each worker of the agent keeps polling.  Nothing obliges an operator.   *)
EpFair ==
    /\ WF_epVars(OpenStore("server")) /\ WF_epVars(WriteControlKey("server"))
    /\ WF_epVars(WriteControlKey("admin"))
    /\ WF_epVars(StartAgent)
    /\ \A w \in PairingWorkers : WF_epVars(ListWorkspaces(w)) /\ WF_epVars(RegisterWorkspaces(w))

EpSpec == EpInit /\ [][EpNext]_epVars /\ EpFair

-----------------------------------------------------------------------------
EpTypeOK ==
    /\ epDb.ctl \in Int /\ epDb.owner \in [PairingWorkspaces -> 0 .. Len(epDb.devs)]
    /\ \A c \in PairingCodes : epDb.codes[c].state \in {"none", "open", "used"} /\ epDb.codes[c].left \in 0 .. CodeTTL
    /\ \A o \in Openers : epOpen[o].at \in {"down", "writing", "up"}
    /\ epPair.at \in {"idle", "asking", "answered", "half"}
    /\ epFiles.id.dev \in 0 .. Len(epDb.devs)
    /\ epAgent.dev \in 0 .. Len(epDb.devs)
    /\ epAgent.up <=> epAgent.dev # 0

(* Pair consumes a code with the device it admits: no code admits two.     *)
CodeAdmitsOne ==
    \A c, d \in DOMAIN epDb.devs :
        (epDb.devs[c].code = epDb.devs[d].code /\ epDb.devs[c].code # "none") => c = d

(* An identity that loads belongs to one pairing: its device was           *)
(* registered with its key, whatever was cut short or failed before.       *)
IdentityWhole == Loadable => epDb.devs[epFiles.id.dev].key = epFiles.key

(* An Edge trusts the control key the server signs with, now and after a   *)
(* restart: the server and the operator's commands, which all create the   *)
(* key if there is none, agree on one.                                     *)
TrustAgrees ==
    /\ (PairingServing /\ epAgent.ctl # PairingNoKey) => epAgent.ctl = epOpen["server"].key
    /\ (epFiles.id.ctl # PairingNoKey /\ epDb.ctl > 0) => epFiles.id.ctl = epDb.ctl

(* A list read before a change may be sent after one read later, and undo  *)
(* it; the workers' next rounds repair that.  While the server runs and    *)
(* the device is active and none of its workspaces is another device's,    *)
(* the server ends up knowing exactly the workspaces of the Edge.          *)
Settling ==
    /\ epDb.ctl > 0
    /\ Loadable /\ epDb.devs[epFiles.id.dev].active
    /\ epAgent.up => epAgent.dev = epFiles.id.dev
    /\ ~Foreign(epFiles.id.dev, epLocal)

Announced == \A x \in PairingWorkspaces : epDb.owner[x] = epFiles.id.dev <=> x \in epLocal

RegistrationConverges == <>[]Settling => <>[]Announced

-----------------------------------------------------------------------------
(* The leased validation tasks of one Edge device: the task table of the     *)
(* server (internal/edge/tasks.go) and the runner that executes them on the  *)
(* workstation (internal/edgeclient/runner.go) with its durable journal      *)
(* (journal.go, journal_step4.go, journal_pending.go).                       *)
(*                                                                           *)
(* Time is relative: a lease has a number of ticks left.  A lease id is the  *)
(* number of the grant of its task, 0 stands for NULL.  Idempotency keys and *)
(* tasks correspond one to one, so a repeated EdgeTaskCreateTask changes nothing.    *)

CONSTANTS EtTasks,      \* tasks of the device
          LeaseTicks,   \* the lease the runner asks for
          Margin,       \* leaseSafetyMargin
          LeaseBudget,  \* maxTaskLeaseAttempts
          RowLimit,     \* maximumEntries of the journal
          Stages,       \* stages of a validation plan
          EtBounds      \* bounds of a behaviour, see EtInit

ASSUME EtAssumption ==
  /\ LeaseTicks \in Nat /\ Margin \in Nat /\ Margin < LeaseTicks
  /\ LeaseBudget \in Nat \ {0} /\ RowLimit \in Nat \ {0} /\ Stages \in Nat \ {0}

VARIABLES
  etBounds,  \* what is left of the budgets of this behaviour
  etask,     \* edge_tasks: one row per task
  equeue,    \* the queued tasks by updated_at
  ejrow,     \* executions: one row per idempotency key
  ern,       \* the runner process
  estop,     \* the STOP file exists
  eran       \* history: how often a task was executed, and the stages passed

etVars == <<etBounds, etask, equeue, ejrow, ern, estop, eran>>

TaskEnds == {"succeeded", "failed", "cancelled"}
EdgeTaskNoRow == [state |-> "none", lease |-> 0, result |-> "none", delivered |-> FALSE]
NoHeartbeat == [at |-> "none", left |-> 0, cancel |-> FALSE]

(* stateForOutcome: the interrupted and the offline result are failures. *)
stateForOutcome(r) == IF r \in TaskEnds THEN r ELSE "failed"

EtSpend(b) == etBounds[b] > 0 /\ etBounds' = [etBounds EXCEPT ![b] = @ - 1]

(* A runner that holds nothing. *)
EdgeTaskIdle == [pc |-> "idle", task |-> "none", lease |-> 0, left |-> 0, hb |-> NoHeartbeat,
                 ctx |-> "live", stages |-> 0, result |-> "none"]

(* A journal migrated from schema 1 may hold a completed row without lease   *)
(* id: the runner sent that result under a lease it did not store.           *)
LegacyRow == [EdgeTaskNoRow EXCEPT !.state = "completed", !.result = "succeeded"]

EtInit ==
  /\ etBounds \in EtBounds
  /\ etask = [t \in EtTasks |->
       IF t \in etBounds.legacy
       THEN [state |-> "leased", cancel |-> FALSE, attempts |-> 1, lease |-> 1, left |-> LeaseTicks, result |-> "none"]
       ELSE [state |-> "none", cancel |-> FALSE, attempts |-> 0, lease |-> 0, left |-> 0, result |-> "none"]]
  /\ equeue = <<>>
  /\ ejrow = [t \in EtTasks |-> IF t \in etBounds.legacy THEN LegacyRow ELSE EdgeTaskNoRow]
  /\ ern = [EdgeTaskIdle EXCEPT !.pc = "down"]
  /\ estop = FALSE
  /\ eran = [t \in EtTasks |-> IF t \in etBounds.legacy THEN [runs |-> 1, passed |-> Stages]
                                                        ELSE [runs |-> 0, passed |-> 0]]

-----------------------------------------------------------------------------
(* The server.                                                               *)

EdgeTaskCreateTask(t) ==
  /\ t \in etBounds.tasks /\ etask[t].state = "none"
  /\ etask' = [etask EXCEPT ![t].state = "queued"]
  /\ equeue' = Append(equeue, t)
  /\ UNCHANGED <<etBounds, ejrow, ern, estop, eran>>

CancelTask(t) ==
  /\ etask[t].state \in {"queued", "leased"} /\ ~etask[t].cancel
  /\ EtSpend("cancels")
  /\ etask' = [etask EXCEPT ![t].cancel = TRUE,
                            ![t].state = IF @ = "queued" THEN "cancelled" ELSE @,
                            ![t].result = IF etask[t].state = "queued" THEN "cancelled" ELSE @]
  /\ equeue' = SelectSeq(equeue, LAMBDA u : u # t)
  /\ UNCHANGED <<ejrow, ern, estop, eran>>


EdgeTaskLapsed == {t \in EtTasks : etask[t].state = "leased" /\ etask[t].left = 0}

AfterLapse(t) == CASE etask[t].cancel -> "cancelled"
                   [] ~etask[t].cancel /\ etask[t].attempts >= LeaseBudget -> "failed"
                   [] OTHER -> "queued"

ExpiredTasks ==
  [t \in EtTasks |->
     IF t \in EdgeTaskLapsed
     THEN [etask[t] EXCEPT !.state = AfterLapse(t), !.lease = 0,
                           !.result = IF AfterLapse(t) = "queued" THEN "none" ELSE AfterLapse(t)]
     ELSE etask[t]]

Requeued == equeue \o SetToSeq({t \in EdgeTaskLapsed : AfterLapse(t) = "queued"})

(* leaseForHolder: the device has one holder name, so its live lease is      *)
(* given again; otherwise the oldest queued task is leased.                  *)
Grants(tasks, queue) ==
  LET held == {t \in EtTasks : tasks[t].state = "leased"}
  IN IF held # {} THEN held ELSE IF queue = <<>> THEN {} ELSE {Head(queue)}

EdgeTaskGranted(tasks, t) ==
  IF tasks[t].state = "leased" THEN tasks
  ELSE [tasks EXCEPT ![t].state = "leased", ![t].lease = tasks[t].attempts + 1,
                     ![t].attempts = @ + 1, ![t].left = LeaseTicks]

(* Complete accepts a result under the live lease, or repeats its answer.    *)
LeaseLive(t, l) == etask[t].state = "leased" /\ etask[t].lease = l /\ etask[t].left > 0
Acknowledges(t, l, r) == etask[t].state \in TaskEnds /\ etask[t].lease = l /\ l # 0 /\ etask[t].result = r

Accepts(t, l, r) == LeaseLive(t, l) \/ Acknowledges(t, l, r)

EdgeTaskComplete(t, l, r) ==
  etask' = IF etask[t].state \in TaskEnds THEN etask
           ELSE [etask EXCEPT ![t].state = stateForOutcome(r), ![t].result = r, ![t].left = 0]

-----------------------------------------------------------------------------
(* The journal of the runner.                                                *)

PendingDeliveries == {t \in EtTasks : ejrow[t].state = "completed" /\ ~ejrow[t].delivered /\ ejrow[t].lease # 0}
Rows == {t \in EtTasks : ejrow[t].state # "none"}

(* Faulty variant: rows are removed once they are completed.                 *)
CleanableCompleted == {t \in EtTasks : ejrow[t].state = "completed"}

(* CleanupDelivered: any set of delivered rows may have passed retention.    *)
Cleanable == {t \in EtTasks : ejrow[t].delivered}

(* BeginLease on a task that has no row, and on one that has.                *)
BeginFresh(t, l) == [ejrow EXCEPT ![t] = [EdgeTaskNoRow EXCEPT !.state = "started", !.lease = l]]
BeginAgain(t, l) == [ejrow EXCEPT ![t].lease = l]

FinishEntry(t, r) == [ejrow EXCEPT ![t].state = "completed", ![t].result = r]

-----------------------------------------------------------------------------
(* The runner: RunOnce, one action per call it makes.                        *)

Runner(pc) == ern.pc = pc
Go(pc) == ern' = [ern EXCEPT !.pc = pc]

StartRunner ==
  /\ Runner("down") /\ ~estop
  /\ ern' = EdgeTaskIdle
  /\ UNCHANGED <<etBounds, etask, equeue, ejrow, estop, eran>>

(* killSwitchActive at the head of RunOnce ends the process.                 *)
RunnerStops ==
  /\ Runner("idle") /\ estop
  /\ Go("down")
  /\ UNCHANGED <<etBounds, etask, equeue, ejrow, estop, eran>>

(* A completion request: it is lost, or applied and answered, or applied and *)
(* its answer lost.  A rejection leaves the row pending.                     *)
SendCompletion(t, l, r, next) ==
  \/ /\ Accepts(t, l, r) /\ EdgeTaskComplete(t, l, r)
     /\ \/ ern' = [ern EXCEPT !.pc = "mark", !.task = t] /\ UNCHANGED etBounds
        \/ EtSpend("losses") /\ ern' = next
  \/ EtSpend("losses") /\ ern' = next /\ UNCHANGED etask
  \/ /\ ~Accepts(t, l, r)
     /\ ern' = next /\ UNCHANGED <<etask, etBounds>>

retryPending(t) ==
  /\ Runner("idle") /\ ~estop /\ t \in PendingDeliveries
  /\ SendCompletion(t, ejrow[t].lease, ejrow[t].result, EdgeTaskIdle)
  /\ UNCHANGED <<equeue, ejrow, estop, eran>>

(* With nothing pending the runner cleans its journal and asks for a lease.  *)
PollLease ==
  /\ Runner("idle") /\ ~estop /\ PendingDeliveries = {}
  /\ \E old \in SUBSET Cleanable : ejrow' = [t \in EtTasks |-> IF t \in old THEN EdgeTaskNoRow ELSE ejrow[t]]
  /\ LET grant == Grants(ExpiredTasks, Requeued)
     IN \/ /\ grant = {}
           /\ etask' = ExpiredTasks /\ equeue' = Requeued /\ ern' = EdgeTaskIdle /\ UNCHANGED etBounds
        \/ \E t \in grant :
             /\ etask' = EdgeTaskGranted(ExpiredTasks, t)
             /\ equeue' = SelectSeq(Requeued, LAMBDA u : u # t)
             /\ \/ /\ ern' = [EdgeTaskIdle EXCEPT !.pc = "granted", !.task = t, !.lease = etask'[t].lease, !.left = etask'[t].left]
                   /\ UNCHANGED etBounds
                \/ EtSpend("losses") /\ ern' = EdgeTaskIdle
  /\ UNCHANGED <<estop, eran>>

(* The answer: a lease inside the safety margin is not used; a new task is   *)
(* journalled before it is executed; a completed one is delivered under the  *)
(* new lease; a started one was interrupted.                                 *)
BeginLease ==
  /\ Runner("granted")
  /\ LET t == ern.task
         row == ejrow[t].state
     IN \/ ern.left <= Margin /\ ern' = EdgeTaskIdle /\ UNCHANGED <<ejrow, eran>>
        \/ /\ ern.left > Margin /\ row = "none" /\ Cardinality(Rows) >= RowLimit
           /\ ern' = EdgeTaskIdle /\ UNCHANGED <<ejrow, eran>>
        \/ /\ ern.left > Margin /\ row = "none" /\ Cardinality(Rows) < RowLimit
           /\ ejrow' = BeginFresh(t, ern.lease)
           /\ eran' = [eran EXCEPT ![t].runs = @ + 1]
           /\ ern' = [ern EXCEPT !.pc = "exec", !.stages = Stages]
        \/ /\ ern.left > Margin /\ row = "completed"
           /\ ejrow' = BeginAgain(t, ern.lease)
           /\ Go("deliver") /\ UNCHANGED eran
        \/ /\ ern.left > Margin /\ row = "started"
           /\ ejrow' = BeginAgain(t, ern.lease)
           /\ Go("interrupted") /\ UNCHANGED eran
  /\ UNCHANGED <<etBounds, etask, equeue, estop>>

FinishInterrupted ==
  /\ Runner("interrupted")
  /\ ejrow' = FinishEntry(ern.task, "interrupted")
  /\ Go("deliver")
  /\ UNCHANGED <<etBounds, etask, equeue, estop, eran>>

(* Workcell.Execute: the stages in order, each one only while the context    *)
(* lives.                                                                    *)
Executed(r) == ern' = [ern EXCEPT !.pc = "ended", !.result = r]

RunStage ==
  /\ Runner("exec") /\ ern.ctx = "live" /\ ern.stages > 0
  /\ \/ ern' = [ern EXCEPT !.stages = @ - 1] /\ eran' = [eran EXCEPT ![ern.task].passed = @ + 1]
     \/ Executed("failed") /\ UNCHANGED eran
  /\ UNCHANGED <<etBounds, etask, equeue, ejrow, estop>>

EndExecution ==
  /\ Runner("exec")
  /\ \/ ern.ctx = "live" /\ ern.stages = 0 /\ Executed("succeeded")
     \/ ern.ctx # "live" /\ Executed("cancelled")
  /\ UNCHANGED <<etBounds, etask, equeue, ejrow, estop, eran>>

(* The task's own maximum duration.                                          *)
ExecutionTimesOut ==
  /\ Runner("exec") /\ ern.ctx = "live"
  /\ Executed("cancelled")
  /\ UNCHANGED <<etBounds, etask, equeue, ejrow, estop, eran>>

(* heartbeatLoop, beside the execution: the kill switch, or a call.          *)
HeartbeatKilled ==
  /\ Runner("exec") /\ ern.ctx = "live" /\ ern.hb.at = "none" /\ estop
  /\ ern' = [ern EXCEPT !.ctx = "stop"]
  /\ UNCHANGED <<etBounds, etask, equeue, ejrow, estop, eran>>

(* The call: Heartbeat extends the live lease; a rejection, a lost request   *)
(* and a lost answer look alike to the runner.                               *)
SendHeartbeat ==
  /\ Runner("exec") /\ ern.ctx = "live" /\ ern.hb.at = "none" /\ ~estop
  /\ LET live == LeaseLive(ern.task, ern.lease)
         answer == [at |-> "answered", left |-> LeaseTicks, cancel |-> etask[ern.task].cancel]
         failed == [NoHeartbeat EXCEPT !.at = "failed"]
     IN \/ /\ live /\ etask' = [etask EXCEPT ![ern.task].left = LeaseTicks]
           /\ \/ ern' = [ern EXCEPT !.hb = answer] /\ UNCHANGED etBounds
              \/ ern' = [ern EXCEPT !.hb = failed] /\ EtSpend("losses")
        \/ EtSpend("losses") /\ ern' = [ern EXCEPT !.hb = failed] /\ UNCHANGED etask
        \/ ~live /\ ern' = [ern EXCEPT !.hb = failed] /\ UNCHANGED <<etask, etBounds>>
  /\ UNCHANGED <<equeue, ejrow, estop, eran>>

(* A failed call leaves the confirmed expiry alone; past it, less the        *)
(* margin, the execution is cancelled.                                       *)
Confirmed == IF ern.hb.at = "answered" THEN ern.hb.left ELSE ern.left

HeartbeatReturns ==
  /\ Runner("exec") /\ ern.ctx = "live" /\ ern.hb.at # "none"
  /\ ern' = [ern EXCEPT !.hb = NoHeartbeat, !.left = Confirmed,
                        !.ctx = CASE Confirmed <= Margin -> "offline"
                                  [] Confirmed > Margin /\ ern.hb.cancel -> "cancel"
                                  [] OTHER -> "live"]
  /\ UNCHANGED <<etBounds, etask, equeue, ejrow, estop, eran>>

(* The execution has returned; an answer that arrives just then still counts.*)
HeartbeatOvertakes ==
  /\ Runner("ended") /\ ern.ctx = "live" /\ ern.hb.at = "answered" /\ ern.hb.cancel
  /\ ern' = [ern EXCEPT !.hb = NoHeartbeat, !.ctx = "cancel"]
  /\ UNCHANGED <<etBounds, etask, equeue, ejrow, estop, eran>>

(* What the heartbeat loop returned outranks what the executor returned.     *)
ResultOf == CASE ern.ctx \in {"stop", "cancel"} -> "cancelled"
              [] ern.ctx = "offline" -> "offline"
              [] OTHER -> ern.result

FinishExecution ==
  /\ Runner("ended")
  /\ ejrow' = FinishEntry(ern.task, ResultOf)
  /\ Go("deliver")
  /\ UNCHANGED <<etBounds, etask, equeue, estop, eran>>

deliver ==
  /\ Runner("deliver")
  /\ SendCompletion(ern.task, ern.lease, ejrow[ern.task].result, EdgeTaskIdle)
  /\ UNCHANGED <<equeue, ejrow, estop, eran>>

MarkDelivered ==
  /\ Runner("mark")
  /\ ejrow' = [ejrow EXCEPT ![ern.task].delivered = TRUE]
  /\ ern' = EdgeTaskIdle
  /\ UNCHANGED <<etBounds, etask, equeue, estop, eran>>

-----------------------------------------------------------------------------
(* The environment.                                                          *)

RunnerCrashes ==
  /\ ~Runner("down") /\ EtSpend("crashes")
  /\ ern' = [EdgeTaskIdle EXCEPT !.pc = "down"]
  /\ UNCHANGED <<etask, equeue, ejrow, estop, eran>>

TouchStop ==
  /\ EtSpend("stops")
  /\ estop' = ~estop
  /\ UNCHANGED <<etask, equeue, ejrow, ern, eran>>

EdgeTaskDown(n) == IF n > 0 THEN n - 1 ELSE 0

(* Time passes.  The timer of the heartbeat loop fires at the authority      *)
(* deadline, so an execution does not outlast it unless a call is under way; *)
(* a call returns within the margin (clientTimeout).                         *)
InTime == Runner("exec") => ern.left > (IF ern.hb.at = "none" /\ ern.ctx = "live" THEN Margin ELSE 0)

EtTick ==
  /\ InTime
  /\ etask' = [t \in EtTasks |-> [etask[t] EXCEPT !.left = EdgeTaskDown(@)]]
  /\ ern' = [ern EXCEPT !.left = EdgeTaskDown(@), !.hb.left = EdgeTaskDown(@)]
  /\ UNCHANGED <<etBounds, equeue, ejrow, estop, eran>>

EtNext ==
  \/ \E t \in EtTasks : EdgeTaskCreateTask(t)
  \/ \E t \in EtTasks : CancelTask(t)
  \/ StartRunner
  \/ RunnerStops
  \/ \E t \in EtTasks : retryPending(t)
  \/ PollLease
  \/ BeginLease
  \/ FinishInterrupted
  \/ RunStage
  \/ EndExecution
  \/ ExecutionTimesOut
  \/ HeartbeatKilled
  \/ SendHeartbeat
  \/ HeartbeatReturns
  \/ HeartbeatOvertakes
  \/ FinishExecution
  \/ deliver
  \/ MarkDelivered
  \/ RunnerCrashes
  \/ TouchStop
  \/ EtTick

(* The runner loop runs on, its service is restarted, and time passes.       *)
RunnerStep == \/ RunnerStops \/ \E t \in EtTasks : retryPending(t)
              \/ PollLease \/ BeginLease \/ FinishInterrupted \/ FinishExecution \/ deliver \/ MarkDelivered
ExecutorStep == RunStage \/ EndExecution

EtFair == WF_etVars(StartRunner) /\ WF_etVars(RunnerStep) /\ WF_etVars(ExecutorStep)
          /\ WF_etVars(HeartbeatReturns) /\ WF_etVars(EtTick)

EtSpec == EtInit /\ [][EtNext]_etVars /\ EtFair

-----------------------------------------------------------------------------

(* Type invariant; at most one completed result waits for its delivery,      *)
(* because retryPending comes before the next lease (runner.go:54).          *)
EtTypeOK ==
  /\ \A t \in EtTasks :
       /\ etask[t].state \in TaskEnds \cup {"none", "queued", "leased"}
       /\ etask[t].attempts \in 0..LeaseBudget /\ etask[t].left \in 0..LeaseTicks
       /\ (etask[t].state = "queued") = (t \in ToSet(equeue))
       /\ etask[t].state \in TaskEnds => etask[t].result # "none"
       /\ ejrow[t].state = "completed" <=> ejrow[t].result # "none"
  /\ Len(equeue) = Cardinality(ToSet(equeue))
  /\ Cardinality(PendingDeliveries) <= 1

(* Whatever crashes, losses and lapsed leases happen, a task is executed at  *)
(* most once (docs/edge-job-journal.md: there is no blind retry).            *)
ExecutesOnce == \A t \in EtTasks : eran[t].runs <= 1

(* A task the server calls succeeded has passed every stage of its plan.     *)
SuccessRan == \A t \in EtTasks : etask[t].state = "succeeded" => eran[t].passed = Stages

(* An execution that is still allowed to go on runs under the lease the      *)
(* server holds for its task, and never outlasts it.                         *)
RunsUnderLease ==
  Runner("exec") => /\ etask[ern.task].state = "leased" /\ etask[ern.task].lease = ern.lease
                    /\ ern.left <= etask[ern.task].left

(* A row marked delivered carries the result the server stored.              *)
DeliveredStored ==
  \A t \in EtTasks : ejrow[t].delivered => etask[t].state = stateForOutcome(ejrow[t].result)

(* The oldest pending result can no longer be delivered: its lease lapsed.   *)
Wedged == \E t \in PendingDeliveries : ~Accepts(t, ejrow[t].lease, ejrow[t].result)

(* Once the STOP file stays away every task ends, or the runner waits with a *)
(* result whose lease has lapsed; nothing else can hold it up.               *)
EveryTaskEnds ==
  <>[]~estop => \A t \in EtTasks : []<>(etask[t].state = "none" \/ etask[t].state \in TaskEnds \/ Wedged)

=============================================================================
