-------------------------- MODULE ProjectProcesses --------------------------
(***************************************************************************)
(* Background processes of a project on an Edge: their life from start to  *)
(* cleanup, and the ordered standard input of one of them. Each part has   *)
(* its own variables and its own specification.                            *)
(***************************************************************************)
EXTENDS Naturals, FiniteSets, Sequences

-----------------------------------------------------------------------------
(***************************************************************************)
(* Durable background processes of an Edge (internal/edgeclient,           *)
(* project_process_unix.go and project_process_windows.go).  A manager     *)
(* inside the Edge keeps one SQLite row per process; a private worker      *)
(* process, which outlives the Edge, runs the command, owns its pipes and  *)
(* leaves files behind (identity, child identity, ready, exit receipt) from *)
(* which a restarted manager has to tell what became of the command.       *)
(*                                                                         *)
(* Four operations run at a time and only Start takes the start lock, so a *)
(* list, a status, a signal or a cleanup may meet a process between any two *)
(* steps of its start.  A reconciliation reads the row and the machine in  *)
(* one step (Look) and writes its verdict in another (Settle): what it saw *)
(* may be stale by then.                                                   *)
(***************************************************************************)

CONSTANTS
    ProcIds,    \* the process identities that may be generated, in order
    ProcKeys,       \* idempotency keys of start requests
    ProcLimit,  \* maxProcesses
    ProcBounds  \* the bounds and the machine of a behaviour

ASSUME ProcAssumption == /\ ProcIds \subseteq Nat
                         /\ ProcLimit \in Nat \ {0}

VARIABLES
    ppBounds,   \* [platform, ids, stubborn, looks, effects, crashes, faults]
    prow,       \* the journal: one row per process identity
    osp,        \* the worker, the command and the worker's files, per identity
    mgr         \* the manager's memory: see MgrInit

procVars == <<ppBounds, prow, osp, mgr>>

Unix == ppBounds.platform = "unix"
ActiveStates == {"starting", "running", "stopping"}
ProjectProcessTerminal(s) == s \in {"exited", "failed", "stopped"}

ProcNoRow == [st |-> "none", id |-> FALSE, key |-> "none", res |-> "none"]
NoLook == [p |-> 0, todo |-> "none"]
NoStart == [p |-> 0, at |-> "idle"]
MgrInit == [up |-> TRUE, todo |-> {}, start |-> NoStart, watching |-> {},
            look |-> NoLook, stop |-> [p \in ProcIds |-> "idle"]]
OsInit == [worker |-> "none", child |-> "none", pend |-> "none",
           request |-> FALSE, identity |-> FALSE, childId |-> FALSE,
           ready |-> FALSE, logs |-> FALSE, exit |-> "none", foreign |-> "no"]

ProcInit ==
    /\ ppBounds \in ProcBounds
    /\ prow = [p \in ProcIds |-> ProcNoRow]
    /\ osp = [p \in ProcIds |-> OsInit]
    /\ mgr = MgrInit

-----------------------------------------------------------------------------
(* The machine. *)

WorkerRuns(p) == osp[p].worker \in {"booting", "open", "spawned", "ready"}

\* A process of someone else was given the pid: its start time differs.
Reused(p) == osp[p].foreign # "no"

\* The platform's Alive on the worker's identity.
Alive(p) ==
    CASE Reused(p) -> "changed"
      [] ~Reused(p) /\ WorkerRuns(p) -> "yes"
      [] OTHER -> "no"

\* A worker that ends takes the command with it: Bubblewrap is bound to its
\* parent, and a Windows job closes with its last handle.
EndWorker(o) == [o EXCEPT !.worker = "gone", !.ready = FALSE,
                          !.child = IF @ = "live" THEN "dead" ELSE @]

\* What a signal does to the command: a stubborn one ignores all but KILL.
EndChild(o) == [o EXCEPT !.child = "dead"]
Struck(o, sig) ==
    IF sig = "kill" \/ ~ppBounds.stubborn THEN EndChild(o) ELSE o

\* Signal on Linux: to the group of the published command, or else to the
\* worker, which has installed no handler while it boots and relays the
\* signal once it serves.  [o |-> what is left, ok |-> no error]
SignalUnix(p, sig) ==
    LET o == osp[p] IN
    CASE Alive(p) # "yes" -> [o |-> o, ok |-> FALSE]
      [] Alive(p) = "yes" /\ o.foreign # "no" ->
           [o |-> [o EXCEPT !.foreign = "hit"], ok |-> TRUE]
      [] Alive(p) = "yes" /\ o.foreign = "no" /\ o.childId ->
           IF o.child = "live" THEN [o |-> Struck(o, sig), ok |-> TRUE]
                               ELSE [o |-> o, ok |-> FALSE]
      [] Alive(p) = "yes" /\ o.foreign = "no" /\ ~o.childId ->
           [o |-> IF o.worker = "booting" THEN EndWorker(o) ELSE [o EXCEPT !.pend = sig],
            ok |-> TRUE]

\* Signal on Windows: the worker's pipe ends the whole tree whatever the
\* signal; a kill, or a worker that does not answer yet, ends the worker too.
SignalWindows(p, sig) ==
    LET o == osp[p] IN
    CASE Alive(p) # "yes" -> [o |-> o, ok |-> FALSE]
      [] Alive(p) = "yes" /\ o.foreign # "no" ->
           [o |-> [o EXCEPT !.foreign = "hit"], ok |-> TRUE]
      [] Alive(p) = "yes" /\ o.foreign = "no" /\ o.worker = "ready" ->
           [o |-> IF sig = "kill" THEN EndWorker(o)
                  ELSE IF o.child = "live" THEN EndChild(o) ELSE o,
            ok |-> TRUE]
      [] Alive(p) = "yes" /\ o.foreign = "no" /\ o.worker # "ready" ->
           [o |-> IF sig = "interrupt" THEN o ELSE EndWorker(o), ok |-> sig # "interrupt"]

Signalled(p, sig) == IF Unix THEN SignalUnix(p, sig) ELSE SignalWindows(p, sig)

-----------------------------------------------------------------------------
(* The journal's conditional updates. *)

\* Faulty variant: the states the update accepts leave out "stopping".
FinishFailedNotStopping(p, why) ==
    IF prow[p].st \in {"starting", "running"}
      THEN [prow EXCEPT ![p].st = "failed", ![p].res = why]
      ELSE prow

\* finishFailed: only a row that has not ended yet.
ProcFinishFailed(p, why) ==
    IF prow[p].st \in ActiveStates
      THEN [prow EXCEPT ![p].st = "failed", ![p].res = why]
      ELSE prow

\* finishRecoveredExit and the watcher's update: the receipt decides, and a
\* process that was being stopped is "stopped".
Finished(p, stopping, exit) ==
    IF prow[p].st \in ActiveStates
      THEN [prow EXCEPT
              ![p].st = IF exit \in {"reason", "none"} THEN "failed"
                        ELSE IF stopping THEN "stopped" ELSE "exited",
              ![p].res = IF exit = "none" THEN "wait" ELSE "receipt"]
      ELSE prow

\* The end of reconcileRecord when nobody left a receipt.
Offline(p, stopping) ==
    IF prow[p].st \in ActiveStates
      THEN [prow EXCEPT ![p].st = IF stopping THEN "stopped" ELSE "exited",
                        ![p].res = "offline"]
      ELSE prow

\* The update that ends a start, and the recovery of an identity file.
ProcRunning(p) ==
    IF prow[p].st = "starting"
      THEN [prow EXCEPT ![p].st = "running", ![p].id = TRUE]
      ELSE prow

Stopping(p) ==
    IF prow[p].st \in {"starting", "running"}
      THEN [prow EXCEPT ![p].st = "stopping"]
      ELSE prow

\* What the manager may do: it has been opened and no other pass is running.
Serving == mgr.up /\ mgr.todo = {}
ProcSpend(field) == /\ ppBounds[field] > 0
                    /\ ppBounds' = [ppBounds EXCEPT ![field] = @ - 1]

-----------------------------------------------------------------------------
(* Start, under the start lock. *)

ProcFresh(p) == /\ \A q \in ProcIds : q < p => osp[q].worker # "none" \/ prow[q].st # "none"
                /\ osp[p].worker = "none" /\ prow[p].st = "none"

\* Rows the emergency limit counts.
ActiveRows == {p \in ProcIds : prow[p].st \in ActiveStates}

\* A key that is already in the journal returns the row and changes nothing.
StartAdmitted(k) ==
    /\ Serving /\ mgr.start = NoStart
    /\ \A q \in ProcIds : prow[q].key # k
    /\ Cardinality(ActiveRows) < ProcLimit

StartInserts(p, k) ==
    /\ StartAdmitted(k) /\ ProcFresh(p) /\ p <= ppBounds.ids
    /\ prow' = [prow EXCEPT ![p] = [st |-> "starting", id |-> FALSE, key |-> k, res |-> "none"]]
    /\ mgr' = [mgr EXCEPT !.start = [p |-> p, at |-> "inserted"]]
    /\ UNCHANGED <<ppBounds, osp>>

\* The contract is refused, the call cancelled, or the worker not spawned.
StartRefused ==
    LET p == mgr.start.p IN
    /\ mgr.start.at = "inserted"
    /\ ProcSpend("faults")
    /\ prow' = ProcFinishFailed(p, "startup")
    /\ mgr' = [mgr EXCEPT !.start = NoStart]
    /\ UNCHANGED osp

\* The request file is written and the worker spawned.  A Windows worker
\* records its identity itself and is only waited for.
StartWorker(next) ==
    /\ mgr.start.at = "inserted"
    /\ osp' = [osp EXCEPT ![mgr.start.p].request = TRUE, ![mgr.start.p].worker = "booting"]
    /\ mgr' = [mgr EXCEPT !.start.at = next]
    /\ UNCHANGED <<ppBounds, prow>>
StartSpawns == Unix /\ StartWorker("spawned")
StartSpawnsWindows == ~Unix /\ StartWorker("waiting")

\* On Linux the manager records the worker's identity.
StartIdentifies ==
    LET p == mgr.start.p IN
    /\ mgr.start.at = "spawned"
    /\ osp' = [osp EXCEPT ![p].identity = TRUE]
    /\ mgr' = [mgr EXCEPT !.start.at = "waiting"]
    /\ UNCHANGED <<ppBounds, prow>>

\* The worker announced itself.  The row becomes "running" unless somebody
\* ended it meanwhile, which goes unnoticed.
StartReady ==
    LET p == mgr.start.p IN
    /\ mgr.start.at = "waiting" /\ osp[p].ready
    /\ osp' = [osp EXCEPT ![p].ready = FALSE]
    /\ prow' = ProcRunning(p)
    /\ mgr' = [mgr EXCEPT !.start = NoStart, !.watching = @ \union {p}]
    /\ UNCHANGED ppBounds

\* The same with a journal that cannot be written: the command is killed and
\* the row stays as it is, unwatched.
StartUnrecorded ==
    LET p == mgr.start.p IN
    /\ mgr.start.at = "waiting" /\ osp[p].ready
    /\ ProcSpend("faults")
    /\ osp' = [osp EXCEPT ![p] = [Signalled(p, "kill").o EXCEPT !.ready = FALSE]]
    /\ mgr' = [mgr EXCEPT !.start = NoStart]
    /\ UNCHANGED prow

StartLost ==
    LET p == mgr.start.p IN
    /\ mgr.start.at = "waiting" /\ ~WorkerRuns(p) /\ (Unix => ~osp[p].ready)
    /\ prow' = ProcFinishFailed(p, "startup")
    /\ mgr' = [mgr EXCEPT !.start = NoStart]
    /\ UNCHANGED <<ppBounds, osp>>

StartTimesOut ==
    LET p == mgr.start.p IN
    /\ mgr.start.at = "waiting" /\ ~osp[p].ready /\ WorkerRuns(p)
    /\ ProcSpend("faults")
    /\ osp' = [osp EXCEPT ![p] = EndWorker(osp[p])]
    /\ prow' = ProcFinishFailed(p, "startup")
    /\ mgr' = [mgr EXCEPT !.start = NoStart]

-----------------------------------------------------------------------------
(* The worker. *)

\* It needs the request file, opens its stdin endpoint and the two logs.
WorkerAdmits(p) ==
    /\ Unix /\ osp[p].worker = "booting"
    /\ osp' = [osp EXCEPT ![p] =
                 IF ~@.request THEN EndWorker(@)
                 ELSE [@ EXCEPT !.request = FALSE, !.logs = TRUE, !.worker = "open"]]
    /\ UNCHANGED <<ppBounds, prow, mgr>>

\* A Windows worker records its own identity after that.
WorkerAdmitsWindows(p) ==
    /\ ~Unix /\ osp[p].worker = "booting"
    /\ osp' = [osp EXCEPT ![p] =
                 IF ~@.request THEN EndWorker(@)
                 ELSE [@ EXCEPT !.request = FALSE, !.logs = TRUE, !.worker = "open",
                                !.identity = TRUE]]
    /\ UNCHANGED <<ppBounds, prow, mgr>>

\* The workspace changed or the command cannot run: a receipt says so.
WorkerRefuses(p) ==
    /\ Unix /\ osp[p].worker \in {"open", "spawned"}
    /\ ProcSpend("faults")
    /\ osp' = [osp EXCEPT ![p] = [EndWorker(@) EXCEPT !.exit = "reason"]]
    /\ UNCHANGED <<prow, mgr>>

\* A Windows worker that refuses leaves no receipt.
WorkerRefusesWindows(p) ==
    /\ ~Unix /\ osp[p].worker \in {"open", "spawned"}
    /\ ProcSpend("faults")
    /\ osp' = [osp EXCEPT ![p] = EndWorker(@)]
    /\ UNCHANGED <<prow, mgr>>

WorkerSpawns(p) ==
    /\ osp[p].worker = "open"
    /\ osp' = [osp EXCEPT ![p].worker = "spawned", ![p].child = "live"]
    /\ UNCHANGED <<ppBounds, prow, mgr>>

\* The command's identity is published, then the worker declares itself ready
\* and relays what it was sent meanwhile.
WorkerReady(p) ==
    /\ osp[p].worker = "spawned" /\ osp[p].child = "live"
    /\ osp' = [osp EXCEPT ![p] =
                 LET o == [@ EXCEPT !.childId = TRUE, !.ready = TRUE, !.worker = "ready",
                                    !.pend = "none"]
                 IN IF @.pend = "none" THEN o ELSE Struck(o, @.pend)]
    /\ UNCHANGED <<ppBounds, prow, mgr>>

\* The command ended before it could be identified: receipt, then ready.
WorkerEndsEarly(p) ==
    /\ Unix /\ osp[p].worker = "spawned" /\ osp[p].child = "dead"
    /\ osp' = [osp EXCEPT ![p] = [@ EXCEPT !.exit = "code", !.ready = TRUE, !.worker = "gone"]]
    /\ UNCHANGED <<ppBounds, prow, mgr>>

ChildExits(p) ==
    /\ osp[p].child = "live"
    /\ osp' = [osp EXCEPT ![p] = EndChild(@)]
    /\ UNCHANGED <<ppBounds, prow, mgr>>

\* The worker has waited for the command, closes the logs and leaves the
\* receipt: only then does it end.  A ready file nobody consumed remains.
WorkerSettles(p) ==
    /\ Unix /\ osp[p].child = "dead" /\ osp[p].worker = "ready"
    /\ osp' = [osp EXCEPT ![p].exit = "code", ![p].worker = "gone"]
    /\ UNCHANGED <<ppBounds, prow, mgr>>

\* On Windows the command may have ended before the worker declared itself
\* ready: it settles the same way.
WorkerSettlesWindows(p) ==
    /\ ~Unix /\ osp[p].child = "dead" /\ osp[p].worker \in {"ready", "spawned"}
    /\ osp' = [osp EXCEPT ![p].exit = "code", ![p].worker = "gone"]
    /\ UNCHANGED <<ppBounds, prow, mgr>>

WorkerCrashes(p) ==
    /\ WorkerRuns(p)
    /\ ProcSpend("faults")
    /\ osp' = [osp EXCEPT ![p] = EndWorker(@)]
    /\ UNCHANGED <<prow, mgr>>

\* The pid of a worker that ended and was reaped is given to somebody else.
PidReused(p) ==
    /\ osp[p].worker = "gone" /\ osp[p].foreign = "no" /\ p \notin mgr.watching
    /\ ProcSpend("faults")
    /\ osp' = [osp EXCEPT ![p].foreign = "yes"]
    /\ UNCHANGED <<prow, mgr>>

-----------------------------------------------------------------------------
(* Watching and reconciling. *)

\* watch: the worker was waited for; its receipt, if there is one, settles
\* the row.  A failed update is ignored and the process is no longer watched.
Watch(p) ==
    /\ mgr.up /\ p \in mgr.watching /\ ~WorkerRuns(p)
    /\ prow' = Finished(p, prow[p].st = "stopping", osp[p].exit)
    /\ mgr' = [mgr EXCEPT !.watching = @ \ {p}]
    /\ UNCHANGED <<ppBounds, osp>>

WatchUnrecorded(p) ==
    /\ mgr.up /\ p \in mgr.watching /\ ~WorkerRuns(p)
    /\ ProcSpend("faults")
    /\ mgr' = [mgr EXCEPT !.watching = @ \ {p}]
    /\ UNCHANGED <<prow, osp>>

\* What the receipt, or its absence, says of a process that is gone.
ReceiptVerdict(p) ==
    LET stopping == prow[p].st = "stopping" IN
    IF osp[p].exit # "none" THEN IF stopping THEN "receipt stopping" ELSE "receipt"
                            ELSE IF stopping THEN "offline stopping" ELSE "offline"

\* The worker's identity is in the row or can be read from its file.
Identified(p) == prow[p].id \/ osp[p].identity

\* What the reconciliation concludes when the process is not simply gone.
PresentVerdict(p) ==
    CASE ~Identified(p) -> "metadata"
      [] Identified(p) /\ Alive(p) = "changed" -> "identity"
      [] Identified(p) /\ Alive(p) # "changed" ->
           IF ~osp[p].logs THEN "logs"
           ELSE IF prow[p].st = "stopping" THEN "term" ELSE "adopt"
Gone(p) == Identified(p) /\ Alive(p) = "no"

\* reconcileRecord: the watcher of a process owns its settlement.
ReconcileRecord(p) ==
    IF Gone(p) THEN IF p \in mgr.watching THEN "none" ELSE ReceiptVerdict(p)
               ELSE PresentVerdict(p)

\* On Windows a watcher is not waited for.
ReconcileRecordWindows(p) ==
    IF Gone(p) THEN ReceiptVerdict(p) ELSE PresentVerdict(p)
Reconciled(p) == IF Unix THEN ReconcileRecord(p) ELSE ReconcileRecordWindows(p)

\* What Status concludes: a live process is left alone.
StatusVerdict(p) ==
    IF prow[p].st \in {"running", "stopping"} /\ Alive(p) # "yes"
      THEN ReconcileRecord(p) ELSE "none"

\* On Windows a watched process that is gone for 50 ms is lost.
StatusVerdictWindows(p) ==
    IF prow[p].st \in {"running", "stopping"} /\ Alive(p) # "yes"
      THEN IF Alive(p) = "no" /\ p \in mgr.watching THEN "lost" ELSE ReconcileRecordWindows(p)
      ELSE "none"

LookAt(p, verdict) ==
    /\ verdict # "none"
    /\ mgr' = [mgr EXCEPT !.look = [p |-> p, todo |-> verdict], !.todo = @ \ {p}]

\* OpenProjectProcessManager reconciles every active row before it serves.
LookOnOpen(p) ==
    /\ mgr.up /\ p \in mgr.todo /\ mgr.look = NoLook
    /\ LookAt(p, Reconciled(p))
    /\ UNCHANGED <<ppBounds, prow, osp>>

\* List and Cleanup reconcile the active rows nobody watches.
LookOnList(p) ==
    /\ Serving /\ mgr.look = NoLook
    /\ prow[p].st \in ActiveStates /\ p \notin mgr.watching
    /\ mgr.start.p = p => ppBounds.looks > 0
    /\ ppBounds' = IF mgr.start.p = p THEN [ppBounds EXCEPT !.looks = @ - 1] ELSE ppBounds
    /\ LookAt(p, Reconciled(p))
    /\ UNCHANGED <<prow, osp>>

LookOnStatus(p) ==
    /\ Serving /\ mgr.look = NoLook
    /\ LookAt(p, IF Unix THEN StatusVerdict(p) ELSE StatusVerdictWindows(p))
    /\ UNCHANGED <<ppBounds, prow, osp>>

\* The verdict is written, whatever happened since.  A process that is being
\* stopped is sent TERM again; one whose logs are missing is killed.
Settle ==
    LET p == mgr.look.p
        v == mgr.look.todo
        term == Signalled(p, "terminate") IN
    /\ mgr.up /\ v # "none"
    /\ prow' = CASE v \in {"metadata", "identity", "logs", "lost"} -> ProcFinishFailed(p, v)
                 [] v = "adopt" -> ProcRunning(p)
                 [] v = "term" -> IF term.ok THEN prow ELSE ProcFinishFailed(p, "identity")
                 [] v \in {"receipt", "receipt stopping"} ->
                      Finished(p, v = "receipt stopping", osp[p].exit)
                 [] v \in {"offline", "offline stopping"} -> Offline(p, v = "offline stopping")
    /\ osp' = CASE v = "term" -> [osp EXCEPT ![p] = term.o]
                [] v = "logs" -> [osp EXCEPT ![p] = Signalled(p, "kill").o]
                [] OTHER -> osp
    /\ mgr' = [mgr EXCEPT !.look = NoLook]
    /\ UNCHANGED ppBounds

-----------------------------------------------------------------------------
(* Effects on a running process, under its effect lock. *)

ProcHeld(p) == mgr.stop[p] # "idle"

\* Stop: the intent is made durable, then TERM is sent.  An error leaves the
\* row "stopping".
StopBegins(p) ==
    /\ Serving /\ ~ProcHeld(p) /\ prow[p].st \in ActiveStates /\ prow[p].id
    /\ Alive(p) = "yes"
    /\ ProcSpend("effects")
    /\ prow' = Stopping(p)
    /\ osp' = [osp EXCEPT ![p] = Signalled(p, "terminate").o]
    /\ mgr' = IF Signalled(p, "terminate").ok
                THEN [mgr EXCEPT !.stop[p] = "term"] ELSE mgr

\* Stop and Signal on a process that is no longer there only reconcile; so
\* does the wait of a Stop whose process nobody watches.
LookOnEffect(p) ==
    /\ Serving /\ mgr.look = NoLook
    /\ prow[p].st \in ActiveStates /\ Alive(p) # "yes"
    /\ ProcHeld(p) => p \notin mgr.watching /\ prow[p].st = "stopping"
    /\ mgr.start.p # p
    /\ LookAt(p, Reconciled(p))
    /\ UNCHANGED <<ppBounds, prow, osp>>

StopEscalates(p) ==
    /\ mgr.up /\ mgr.stop[p] = "term" /\ ~ProjectProcessTerminal(prow[p].st)
    /\ osp' = [osp EXCEPT ![p] = Signalled(p, "kill").o]
    /\ mgr' = [mgr EXCEPT !.stop[p] = "kill"]
    /\ UNCHANGED <<ppBounds, prow>>

\* waitTerminal saw the row settled.
StopEnds(p) ==
    /\ mgr.up /\ ProcHeld(p) /\ (ProjectProcessTerminal(prow[p].st) \/ prow[p].st = "none")
    /\ mgr' = [mgr EXCEPT !.stop[p] = "idle"]
    /\ UNCHANGED <<ppBounds, prow, osp>>

\* The row once a signal was asked for: an interrupt does not mean an end.
Requested(p, sig) == IF sig = "interrupt" THEN prow ELSE Stopping(p)

SendSignal(p, sig) ==
    /\ Serving /\ ~ProcHeld(p) /\ prow[p].st \in ActiveStates /\ prow[p].id
    /\ Alive(p) = "yes"
    /\ ProcSpend("effects")
    /\ prow' = Requested(p, sig)
    /\ osp' = [osp EXCEPT ![p] = Signalled(p, sig).o]
    /\ UNCHANGED mgr

\* Cleanup forgets a row that has ended, with its files, when neither the
\* identity of the row nor one found in the worker's files is alive.
PrivateProcessActive(p) ==
    \/ Identified(p) /\ Alive(p) = "yes"
    \/ osp[p].childId /\ osp[p].child = "live"

Removable(p) == ProjectProcessTerminal(prow[p].st) /\ ~PrivateProcessActive(p)

\* removeLogs: the logs and every file of the worker.
FilesRemoved(o) ==
    [o EXCEPT !.request = FALSE, !.identity = FALSE, !.childId = FALSE,
              !.ready = FALSE, !.logs = FALSE, !.exit = "none"]

Cleanup(p) ==
    /\ Serving /\ Removable(p)
    /\ prow' = [prow EXCEPT ![p] = ProcNoRow]
    /\ osp' = [osp EXCEPT ![p] = [FilesRemoved(@) EXCEPT
                 !.worker = IF @ = "none" /\ mgr.start.p # p THEN "gone" ELSE @]]
    /\ UNCHANGED <<ppBounds, mgr>>

-----------------------------------------------------------------------------
(* The Edge stops without notice, and is started again. *)

ProcEdgeStops ==
    /\ mgr.up
    /\ ProcSpend("crashes")
    /\ mgr' = [MgrInit EXCEPT !.up = FALSE]
    /\ UNCHANGED <<prow, osp>>

EdgeOpens ==
    /\ ~mgr.up
    /\ mgr' = [mgr EXCEPT !.up = TRUE, !.todo = ActiveRows]
    /\ UNCHANGED <<ppBounds, prow, osp>>

-----------------------------------------------------------------------------
ProcStartStep == \/ StartSpawns \/ StartSpawnsWindows \/ StartIdentifies \/ StartReady \/ StartLost
WorkerStep(p) == \/ WorkerAdmits(p) \/ WorkerSpawns(p) \/ WorkerReady(p)
                 \/ WorkerEndsEarly(p) \/ WorkerSettles(p)
                 \/ WorkerAdmitsWindows(p) \/ WorkerSettlesWindows(p)

ProcNext ==
    \/ \E p \in ProcIds, k \in ProcKeys : StartInserts(p, k)
    \/ StartRefused \/ StartUnrecorded \/ StartTimesOut \/ ProcStartStep
    \/ \E p \in ProcIds :
         \/ WorkerStep(p) \/ WorkerRefuses(p) \/ WorkerRefusesWindows(p) \/ WorkerCrashes(p)
         \/ ChildExits(p) \/ PidReused(p)
         \/ Watch(p) \/ WatchUnrecorded(p)
         \/ LookOnOpen(p) \/ LookOnList(p) \/ LookOnStatus(p) \/ LookOnEffect(p)
         \/ StopBegins(p) \/ StopEscalates(p) \/ StopEnds(p) \/ Cleanup(p)
    \/ \E p \in ProcIds, s \in {"interrupt", "terminate", "kill"} : SendSignal(p, s)
    \/ Settle \/ ProcEdgeStops \/ EdgeOpens

\* The machine runs its processes and the service manager restarts the Edge;
\* a client that wants to know keeps asking for the status of its processes.
ProcFairness ==
    /\ WF_procVars(ProcStartStep)
    /\ WF_procVars(Settle)
    /\ WF_procVars(EdgeOpens)
    /\ \A p \in ProcIds :
         /\ WF_procVars(WorkerStep(p))
         /\ WF_procVars(Watch(p))
         /\ WF_procVars(LookOnOpen(p))
         /\ SF_procVars(LookOnStatus(p) \/ LookOnList(p) \/ LookOnEffect(p))
         /\ WF_procVars(StopEscalates(p) \/ StopEnds(p))

ProcSpec == ProcInit /\ [][ProcNext]_procVars /\ ProcFairness

-----------------------------------------------------------------------------
(* Properties. *)

ProcTypeOK ==
    /\ mgr.todo \subseteq ProcIds /\ mgr.watching \subseteq ProcIds
    /\ mgr.start.at \in {"idle", "inserted", "spawned", "waiting"}
    /\ \A p \in ProcIds :
         /\ prow[p].st \in ActiveStates \union {"none", "exited", "failed", "stopped"}
         /\ prow[p].st = "none" <=> prow[p].key = "none"
         /\ ProjectProcessTerminal(prow[p].st) <=> prow[p].res # "none"
         /\ prow[p].st = "running" => prow[p].id
         /\ mgr.stop[p] \in {"idle", "term", "kill"}

\* Whatever settles a row (a watcher, a list, a restart, a failed start), in
\* whatever order, the command has ended by then, or its worker holds the KILL
\* that ends it: finishFailed, watch and reconcileRecord give no verdict over
\* a command that runs on.  The one exception is "process_metadata_incomplete",
\* given to a start that has no identity yet.
VerdictsSafe ==
    \A p \in ProcIds :
        ProjectProcessTerminal(prow[p].st) /\ prow[p].res # "metadata"
            => osp[p].child # "live" \/ osp[p].pend = "kill"

\* The emergency limit of Start bounds the commands that run, stopping ones
\* included, apart from starts written off for want of an identity or logs.
LimitKept ==
    Cardinality({p \in ProcIds : osp[p].child = "live"
                                 /\ prow[p].st # "none"
                                 /\ prow[p].res \notin {"metadata", "logs"}})
        <= ProcLimit

\* reconcileRecord infers an end only where the worker left no receipt: an
\* exit status that was written down is never replaced by a guess.
ReceiptDecides ==
    \A p \in ProcIds : prow[p].res = "offline" => osp[p].exit = "none"

\* No signal reaches a process that merely inherited the pid.
ForeignUntouched == \A p \in ProcIds : osp[p].foreign # "hit"

\* A worker that ended is eventually recorded as ended, also after a restart,
\* a failed journal write or a reused pid.
RowsSettle ==
    \A p \in ProcIds :
        []<>(osp[p].worker = "gone" => prow[p].st \notin ActiveStates)

\* An accepted stop ends the command, TERM or no TERM, and its row; only a
\* crash of the Edge in between hands it back to the caller.
StopSettles ==
    \A p \in ProcIds :
        (mgr.stop[p] = "term")
            ~> (\/ osp[p].child # "live" /\ prow[p].st \notin ActiveStates
                \/ ~mgr.up)

-----------------------------------------------------------------------------
(***************************************************************************)
(* Ordered standard input of a durable process (internal/edgeclient,       *)
(* handleProjectProcessStdinConnection and handleWindowsWorkerStdin).  The *)
(* caller writes frames at exact byte offsets; the Edge may be restarted   *)
(* between a write and its receipt, so every frame may be sent again, late *)
(* or next to another caller's frame for the same offset.  The worker      *)
(* remembers the last frame it committed and its receipt.                  *)
(***************************************************************************)

CONSTANTS
    Frames,      \* frame identities (idempotency keys)
    FrameBytes,  \* bytes of a frame
    StdinBounds  \* bounds and platform of a behaviour

VARIABLES
    siBounds,  \* [platform, initial, early, sends, stalls, limit]
    frame,     \* per frame, the offset and the close flag it was created with
    inbox,     \* connections the worker has not served yet
    stdin,     \* the worker: next offset, closed, last frame and its receipt
    fed,       \* what the command can read: a sequence of <<frame, byte>>
    primed,    \* the input given with the start has been written
    told       \* per frame, the last answer its caller received

stdinVars == <<siBounds, frame, inbox, stdin, fed, primed, told>>

StdinNoReceipt == [error |-> "none", next |-> 0, accepted |-> 0, closed |-> FALSE]
Refusal(why) == [StdinNoReceipt EXCEPT !.error = why]
Unsent == [at |-> 0, close |-> FALSE, sent |-> FALSE]

StdinInit ==
    /\ siBounds \in StdinBounds
    /\ frame = [f \in Frames |-> Unsent]
    /\ inbox = {}
    /\ stdin = [next |-> siBounds.initial, closed |-> FALSE, last |-> "none",
                receipt |-> StdinNoReceipt]
    /\ fed = <<>>
    /\ primed = (siBounds.initial = 0)
    /\ told = [f \in Frames |-> StdinNoReceipt]

\* The worker writes the input that came with the start: before it reports
\* ready on Linux, in a goroutine of its own on Windows.
WriteInitial ==
    /\ ~primed
    /\ primed' = TRUE
    /\ fed' = fed \o [i \in 1 .. siBounds.initial |-> <<"initial", i>>]
    /\ UNCHANGED <<siBounds, frame, inbox, stdin, told>>

\* The worker answers as soon as it listens, and the manager admits a frame
\* once the row runs: after the ready file, or earlier when a list found the
\* identity of a worker that was still starting.
StdinAdmitted == primed \/ siBounds.early \/ siBounds.platform = "windows"

\* A frame on its way to the worker, by socket or by named pipe.
Sent(f) == inbox' = inbox \union {f}

\* A caller makes a frame; ExpectedOffset and the data stay within the total.
Compose(f, o, c) ==
    /\ ~frame[f].sent
    /\ o + FrameBytes <= siBounds.limit
    /\ frame' = [frame EXCEPT ![f] = [at |-> o, close |-> c, sent |-> TRUE]]
    /\ Sent(f)
    /\ UNCHANGED <<siBounds, stdin, fed, primed, told>>

\* WriteStdin is called again with the same frame: the operation was leased
\* again after its Edge went away.
WriteStdin(f) ==
    /\ frame[f].sent /\ f \notin inbox /\ siBounds.sends > 0
    /\ siBounds' = [siBounds EXCEPT !.sends = @ - 1]
    /\ Sent(f)
    /\ UNCHANGED <<frame, stdin, fed, primed, told>>

\* What the pipe takes of a frame: all of it, or a prefix when the command
\* does not read for four seconds, after which the pipe is closed.
Takes == {FrameBytes} \union (IF siBounds.stalls > 0 THEN 0 .. FrameBytes - 1 ELSE {})
Feed(f, n) == fed \o [i \in 1 .. n |-> <<f, i>>]

Placed(f) == frame[f].at = stdin.next

\* The frame is the last one committed, with the same offset, data and flag.
Replayed(f) == stdin.last = f

\* The bytes the receipt names: on Linux what the write returned; a Windows
\* worker that ran into back-pressure reports none.
AcceptedUnix(n) == n
AcceptedWindows(n) == IF n = FrameBytes THEN n ELSE 0
StdinAccepted(n) == IF siBounds.platform = "unix" THEN AcceptedUnix(n) ELSE AcceptedWindows(n)

StdinCommit(f, n) ==
    LET a == StdinAccepted(n)
        done == frame[f].close \/ n < FrameBytes
        r == [error |-> "none", next |-> stdin.next + a, accepted |-> a, closed |-> done]
    IN [next |-> stdin.next + a, closed |-> done, last |-> f, receipt |-> r]

\* handleProjectProcessStdinConnection, one connection at a time.  The answer
\* reaches the caller or is lost with its Edge.
Serve(f) ==
    /\ f \in inbox /\ StdinAdmitted
    /\ inbox' = inbox \ {f}
    /\ \E n \in Takes, heard \in BOOLEAN :
         LET fresh == ~Replayed(f) /\ ~stdin.closed /\ Placed(f)
             after == IF fresh THEN StdinCommit(f, n) ELSE stdin
             answer == CASE Replayed(f) \/ fresh -> after.receipt
                         [] ~Replayed(f) /\ stdin.closed -> Refusal("stdin_closed")
                         [] ~Replayed(f) /\ ~stdin.closed /\ ~Placed(f) ->
                              Refusal("offset_conflict")
         IN /\ ~fresh => n = FrameBytes
            /\ stdin' = after
            /\ fed' = IF fresh THEN Feed(f, n) ELSE fed
            /\ siBounds' = IF n < FrameBytes THEN [siBounds EXCEPT !.stalls = @ - 1]
                                             ELSE siBounds
            /\ told' = IF heard THEN [told EXCEPT ![f] = answer] ELSE told
    /\ UNCHANGED <<frame, primed>>

StdinNext ==
    \/ WriteInitial
    \/ \E f \in Frames, o \in 0 .. siBounds.limit, c \in BOOLEAN : Compose(f, o, c)
    \/ \E f \in Frames : WriteStdin(f) \/ Serve(f)

StdinSpec == StdinInit /\ [][StdinNext]_stdinVars

-----------------------------------------------------------------------------
BytesOf(f) == {i \in DOMAIN fed : fed[i][1] = f}
StartOf(f) == IF f = "initial" THEN 0 ELSE frame[f].at

StdinTypeOK ==
    /\ inbox \subseteq Frames
    /\ stdin.next \in 0 .. siBounds.limit
    /\ stdin.last # "none" => stdin.closed = stdin.receipt.closed

\* Every byte the command can read is where its frame said, once: no retry
\* repeats a byte and no frame lands behind another one's.  A Windows worker
\* writes the initial input in its own goroutine and a frame sent to a worker
\* that is still starting may overtake it, so neither is claimed.
StdinInOrder ==
    siBounds.platform = "unix" /\ ~siBounds.early =>
        \A i \in DOMAIN fed : i = StartOf(fed[i][1]) + fed[i][2]

\* A caller that holds a receipt knows exactly which prefix of its frame the
\* command was given (Linux; a Windows worker gives up the count of a frame
\* it could not finish).
ReceiptsExact ==
    siBounds.platform = "unix" =>
        \A f \in Frames : told[f].error = "none" /\ told[f] # StdinNoReceipt =>
            {fed[i][2] : i \in BytesOf(f)} = 1 .. told[f].accepted

\* A caller is refused only for a frame the worker has not taken, or after
\* another frame was committed behind it.
RefusedForCause ==
    [][\A f \in Frames : told'[f] # told[f] /\ told'[f].error # "none" =>
            stdin.last # f]_stdinVars

=============================================================================
