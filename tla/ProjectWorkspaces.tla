------------------------- MODULE ProjectWorkspaces --------------------------
(***************************************************************************)
(* What a workspace holds on an Edge: the toolbox container, and a managed *)
(* worktree with the commands in it. Each part has its own variables and   *)
(* its own specification.                                                  *)
(***************************************************************************)
EXTENDS Integers, Sequences, FiniteSets

-----------------------------------------------------------------------------
(***************************************************************************)
(* The toolbox of one workspace on an Edge: a long-lived container that a  *)
(* JSON record names, its replacement when its mounts drift, its services  *)
(* and its removal (internal/edgeclient/project_toolbox_unix.go), driven   *)
(* by operations that first look for the rootless engine that owns it      *)
(* (cmd/mcp-edge/project_toolbox_unix.go).                                 *)
(*                                                                         *)
(* Every manager operation holds the in-process workspace lock; the look   *)
(* before it takes and releases the lock by itself.  Each engine command   *)
(* and each write of the record is a step, and the Edge may stop between   *)
(* any two of them.  Containers are records; one service name stands for   *)
(* all, its process writes its identity file some time after `exec         *)
(* --detach` returned.                                                     *)
(***************************************************************************)

CONSTANTS
  TbWorkers,  \* control operations that may be in flight together
  TbEngines,  \* the rootless engines, in the order they are probed
  TbBounds    \* bounds of a behaviour, one record chosen at the start

VARIABLES
  tbBounds,   \* what is left of each bound
  box,        \* the record on disk: {} or {record}
  conts,      \* the containers of the engines
  svcs,       \* the service processes alive inside containers
  tbHost,     \* workspace path, engines up, client paths, the lock
  tbCall      \* the operations in flight

tbVars == <<tbBounds, box, conts, svcs, tbHost, tbCall>>

Engines == {TbEngines[i] : i \in DOMAIN TbEngines}
ToolboxKinds == {"create", "exec", "repair", "cleanup",
                 "service_start", "service_status", "service_stop"}
NoService == [sid |-> 0, state |-> "none"]
NoRec == [id |-> 0, gen |-> 0, eng |-> TbEngines[1], fp |-> 0, path |-> 0,
          svc |-> NoService]
NoTbCall == [kind |-> "none", pc |-> "idle", left |-> <<>>, lone |-> FALSE,
             errs |-> {}, nf |-> {}, sel |-> FALSE, eng |-> TbEngines[1],
             rec |-> NoRec, sid |-> 0, ran |-> FALSE, out |-> "none"]
ToolboxUnlocked == "nobody"

(* loadForWorkspace: the one record of the workspace.                      *)
Loaded == CHOOSE r \in box : TRUE

Spent(f) == tbBounds' = [tbBounds EXCEPT ![f] = @ - 1]

(***************************************************************************)
(* What the engine answers about a record.                                 *)
(***************************************************************************)
TbNamed(e, id, n) == {c \in conts : c.eng = e /\ c.box = id /\ c.name = n}
Labelled(e, id) == {c \in conts : c.eng = e /\ c.box = id}
ToolboxFingerprint(e) == tbHost.fp[e]
Bound(rec) == rec.path = tbHost.path
Pinned(rec, e) == rec.eng = e /\ rec.fp = ToolboxFingerprint(e)

(* The label, the image, the limits and the environment of a container.    *)
MetadataVerified(c) == c.meta

(* The mounts, in number, kind, place and mode, are the expected ones.     *)
MountsVerified(c) == c.mounts

(* Why a container that cannot be inspected is not there.                  *)
classifyInspectFailure(rec, e) ==
  IF Labelled(e, rec.id) # {} THEN "container_unavailable"
  ELSE IF Pinned(rec, e) THEN "container_missing"
  ELSE "endpoint_stale"

(* verifyOwnership of the canonical name: binding first, then the          *)
(* container's label, mounts, limits and environment.                      *)
Ownership(rec, e) ==
  CASE ~Bound(rec) -> "identity_mismatch"
    [] Bound(rec) /\ TbNamed(e, rec.id, "own") = {} ->
         classifyInspectFailure(rec, e)
    [] Bound(rec) /\ TbNamed(e, rec.id, "own") # {} ->
         LET c == CHOOSE x \in TbNamed(e, rec.id, "own") : TRUE
         IN  IF ~MountsVerified(c) THEN "mount_mismatch"
             ELSE IF ~MetadataVerified(c) THEN "resource_mismatch"
             ELSE "ok"

(* Status: load, then ownership, changing nothing.                         *)
StatusOf(e) ==
  IF e \notin tbHost.up THEN "unavailable"
  ELSE IF box = {} THEN "not_found"
  ELSE Ownership(Loaded, e)

(* The container an operation on rec and e works on.                       *)
Own(rec, e) == CHOOSE c \in TbNamed(e, rec.id, "own") : TRUE

(***************************************************************************)
(* Choosing the engine.                                                    *)
(***************************************************************************)
TbGo(w, pc) == tbCall' = [tbCall EXCEPT ![w].pc = pc]
TbEnd(w, out) ==
  tbCall' = [tbCall EXCEPT ![w] = [NoTbCall EXCEPT !.out = out]]
Release == tbHost' = [tbHost EXCEPT !.lock = ToolboxUnlocked]

(* A control operation arrives; the sockets that exist are discovered.     *)
AskToolbox(w, k, s) ==
  /\ tbCall[w].pc = "idle" /\ tbBounds.ops > 0 /\ k \in tbBounds.kinds
  /\ s \in 0..tbBounds.sid
  /\ k \in {"service_status", "service_stop"} <=> s > 0
  /\ Spent("ops")
  /\ LET found == SelectSeq(TbEngines, LAMBDA e : e \in tbHost.up)
     IN  tbCall' = [tbCall EXCEPT ![w] =
           IF found = <<>>
           THEN [NoTbCall EXCEPT !.out = "endpoint_unavailable"]
           ELSE [NoTbCall EXCEPT !.kind = k, !.pc = "select", !.left = found,
                                 !.lone = Len(found) = 1, !.sid = s]]
  /\ UNCHANGED <<box, conts, svcs, tbHost>>

Chosen(w, e) ==
  [tbCall[w] EXCEPT
     !.pc = IF tbCall[w].kind \in {"create", "exec", "repair"}
            THEN "enter" ELSE "look",
     !.eng = e]

(* One manager of the selection loop: its Status decides whether it is     *)
(* taken, passed over, or repaired on the spot.                            *)
SelectNext(w) ==
  LET c == tbCall[w]
      e == Head(c.left)
      v == StatusOf(e)
      on == [c EXCEPT !.left = Tail(@)]
      spare == c.kind = "cleanup" /\ c.lone
  IN
  /\ c.pc = "select" /\ c.left # <<>> /\ tbHost.lock = ToolboxUnlocked
  /\ tbCall' = [tbCall EXCEPT ![w] =
       CASE v = "ok" ->
              Chosen(w, IF c.kind = "create" /\ c.nf # {}
                           /\ "unavailable" \notin c.errs
                        THEN CHOOSE x \in c.nf : TRUE ELSE e)
         [] v = "not_found" ->
              [on EXCEPT !.nf = IF @ = {} THEN {e} ELSE @]
         [] v = "endpoint_stale" -> on
         [] v = "unavailable" -> [on EXCEPT !.errs = @ \cup {"unavailable"}]
         [] v = "container_missing" ->
              IF spare THEN Chosen(w, e)
              ELSE [on EXCEPT !.errs = @ \cup {"missing"}]
         [] v = "container_unavailable" ->
              IF spare THEN Chosen(w, e)
              ELSE IF c.kind = "repair"
              THEN [on EXCEPT !.pc = "enter", !.eng = e, !.sel = TRUE]
              ELSE [on EXCEPT !.errs = @ \cup {"unavailable"}]
         [] v \in {"mount_mismatch", "identity_mismatch"} ->
              IF c.kind = "repair"
              THEN [on EXCEPT !.pc = "enter", !.eng = e, !.sel = TRUE]
              ELSE [on EXCEPT !.errs = @ \cup {"last"}]
         [] v = "resource_mismatch" -> [on EXCEPT !.errs = @ \cup {"last"}]]
  /\ UNCHANGED <<tbBounds, box, conts, svcs, tbHost>>

(* No manager was taken: a failure is reported, and only when no engine    *)
(* found a record is the first of them used.                               *)
SelectEnds(w) ==
  LET c == tbCall[w] IN
  /\ c.pc = "select" /\ c.left = <<>>
  /\ IF c.errs = {} /\ c.nf # {}
     THEN tbCall' = [tbCall EXCEPT ![w] =
                       Chosen(w, CHOOSE e \in c.nf : TRUE)]
     ELSE TbEnd(w, "failed")
  /\ UNCHANGED <<tbBounds, box, conts, svcs, tbHost>>

(* Cleanup and the service operations look again, in a Status of their     *)
(* own, and a cleanup whose container is gone turns to the record alone.   *)
LookAgain(w) ==
  LET c == tbCall[w]
      v == StatusOf(c.eng)
  IN
  /\ c.pc = "look" /\ tbHost.lock = ToolboxUnlocked
  /\ CASE v = "ok" -> TbGo(w, "enter")
       [] v \in {"container_unavailable", "container_missing"}
            /\ c.kind = "cleanup" -> TbGo(w, "forget")
       [] OTHER -> TbEnd(w, v)
  /\ UNCHANGED <<tbBounds, box, conts, svcs, tbHost>>

(***************************************************************************)
(* One operation under the workspace lock.                                 *)
(***************************************************************************)
(* The operation returns; a Reconcile made while selecting goes back to    *)
(* the selection, or on to the operation proper.                           *)
Returned(w, out) ==
  LET c == tbCall[w] IN
  [tbCall EXCEPT ![w] =
     CASE ~c.sel -> [NoTbCall EXCEPT !.out = out]
       [] c.sel /\ out = "ok" -> [c EXCEPT !.pc = "enter", !.sel = FALSE]
       [] c.sel /\ out = "container_missing" ->
            [c EXCEPT !.pc = "select", !.sel = FALSE,
                      !.errs = @ \cup {"missing"}]
       [] c.sel /\ out \in {"unavailable", "container_unavailable"} ->
            [c EXCEPT !.pc = "select", !.sel = FALSE,
                      !.errs = @ \cup {"unavailable"}]
       [] c.sel /\ out = "endpoint_stale" ->
            [c EXCEPT !.pc = "select", !.sel = FALSE]
       [] OTHER -> [NoTbCall EXCEPT !.out = out]]
ToolboxReturn(w, out) == tbCall' = Returned(w, out) /\ Release

Holding(w, pc) == tbHost.lock = w /\ tbCall[w].pc = pc
ToolboxAnswers(w) == tbCall[w].eng \in tbHost.up
Saved(rec) == box' = {rec}

(* The lock is taken and the record loaded.                                *)
EnterOperation(w) ==
  LET c == tbCall[w]
      rec == Loaded
      first == CASE c.kind \in {"exec", "repair", "cleanup"} -> "retire"
                 [] OTHER -> "status"
  IN
  /\ c.pc = "enter" /\ tbHost.lock = ToolboxUnlocked
  /\ CASE box = {} /\ c.kind = "create" ->
            /\ TbGo(w, "make")
            /\ tbHost' = [tbHost EXCEPT !.lock = w]
       [] box = {} /\ c.kind # "create" ->
            tbCall' = Returned(w, "not_found") /\ UNCHANGED tbHost
       [] box # {} /\ c.sid > 0 /\ rec.svc.sid # c.sid ->
            tbCall' = Returned(w, "not_found") /\ UNCHANGED tbHost
       [] OTHER ->
            /\ tbCall' = [tbCall EXCEPT ![w].pc = first, ![w].rec = rec]
            /\ tbHost' = [tbHost EXCEPT !.lock = w]
  /\ UNCHANGED <<tbBounds, box, conts, svcs>>

(* Create makes the container before it writes the record.                 *)
Made(w, id) ==
  [eng |-> tbCall[w].eng, box |-> id, name |-> "own", mounts |-> TRUE,
   meta |-> TRUE, state |-> "created", age |-> tbBounds.ages, ret |-> 0]

MakeContainer(w) ==
  /\ Holding(w, "make") /\ ToolboxAnswers(w) /\ tbBounds.ages > 0
  /\ conts' = conts \cup {Made(w, tbBounds.ages)}
  /\ Spent("ages")
  /\ tbCall' = [tbCall EXCEPT ![w].pc = "record",
       ![w].rec = [id |-> tbBounds.ages, gen |-> 1, eng |-> tbCall[w].eng,
                   fp |-> ToolboxFingerprint(tbCall[w].eng), path |-> tbHost.path,
                   svc |-> NoService]]
  /\ UNCHANGED <<box, svcs, tbHost>>

RecordCreated(w) ==
  /\ Holding(w, "record")
  /\ Saved(tbCall[w].rec)
  /\ TbGo(w, "start")
  /\ UNCHANGED <<tbBounds, conts, svcs, tbHost>>

(* The record could not be written: the container is removed again.        *)
RecordCreatedFails(w) ==
  /\ Holding(w, "record") /\ tbBounds.faults > 0
  /\ Spent("faults")
  /\ conts' = conts \ TbNamed(tbCall[w].eng, tbCall[w].rec.id, "own")
  /\ ToolboxReturn(w, "state_unsafe")
  /\ UNCHANGED <<box, svcs>>

(* Containers this toolbox retired earlier are removed first, each after   *)
(* its metadata is verified.                                               *)
cleanupRetiring(w) ==
  LET c == tbCall[w]
      old == TbNamed(c.eng, c.rec.id, "retiring")
  IN
  /\ Holding(w, "retire") /\ ToolboxAnswers(w)
  /\ CASE ~Bound(c.rec) ->
            ToolboxReturn(w, "identity_mismatch") /\ UNCHANGED conts
       [] Bound(c.rec) /\ old = {} ->
            TbGo(w, "status") /\ UNCHANGED <<conts, tbHost>>
       [] Bound(c.rec) /\ old # {} ->
            \E x \in old :
              IF MetadataVerified(x)
              THEN conts' = conts \ {x} /\ UNCHANGED <<tbCall, tbHost>>
              ELSE ToolboxReturn(w, "resource_mismatch") /\ UNCHANGED conts
  /\ UNCHANGED <<tbBounds, box, svcs>>

(* status adopts a new endpoint fingerprint in the record it was given by  *)
(* value: the caller keeps the record as it was loaded.                    *)
AdoptEndpoint(rec, e) ==
  IF Pinned(rec, e) THEN UNCHANGED box
  ELSE Saved([rec EXCEPT !.eng = e, !.fp = ToolboxFingerprint(e), !.gen = @ + 1])

(* What an operation does with the status of its container.                *)
ToolboxOnward(kind, state) ==
  CASE kind = "repair" -> "return"
    [] kind = "cleanup" -> "remove"
    [] kind = "create" -> IF state = "running" THEN "return" ELSE "start"
    [] kind = "exec" -> IF state = "running" THEN "run"
                        ELSE IF state = "stopped" THEN "start" ELSE "refuse"
    [] kind = "service_start" -> IF state = "running" THEN "service"
                                 ELSE "start"
    [] OTHER -> IF state = "running" THEN "service" ELSE "mark"

StatusStep(w) ==
  LET c == tbCall[w]
      v == Ownership(c.rec, c.eng)
      to == ToolboxOnward(c.kind, Own(c.rec, c.eng).state)
  IN
  /\ Holding(w, "status") /\ ToolboxAnswers(w)
  /\ IF v = "ok" /\ c.kind # "cleanup"
     THEN AdoptEndpoint(c.rec, c.eng) ELSE UNCHANGED box
  /\ CASE v = "ok" /\ to = "return" -> ToolboxReturn(w, "ok")
       [] v = "ok" /\ to = "refuse" -> ToolboxReturn(w, "unavailable")
       [] v = "ok" /\ to \notin {"return", "refuse"} ->
            TbGo(w, to) /\ UNCHANGED tbHost
       [] v = "container_unavailable" /\ c.kind = "repair" ->
            TbGo(w, "recover") /\ UNCHANGED tbHost
       [] v = "mount_mismatch" /\ c.kind = "repair" ->
            TbGo(w, "halt") /\ UNCHANGED tbHost
       [] OTHER -> ToolboxReturn(w, v)
  /\ UNCHANGED <<tbBounds, conts, svcs>>

(* The status with which create, repair and service_start end or go on.    *)
FinalStatus(w) ==
  LET c == tbCall[w]
      v == Ownership(c.rec, c.eng)
  IN
  /\ Holding(w, "final") /\ ToolboxAnswers(w)
  /\ IF v = "ok" THEN AdoptEndpoint(c.rec, c.eng) ELSE UNCHANGED box
  /\ IF v = "ok" /\ c.kind = "service_start"
     THEN TbGo(w, "service") /\ UNCHANGED tbHost
     ELSE ToolboxReturn(w, v)
  /\ UNCHANGED <<tbBounds, conts, svcs>>

StateOf(x, st) == (conts \ {x}) \cup {[x EXCEPT !.state = st]}

StartContainer(w) ==
  LET c == tbCall[w] IN
  /\ Holding(w, "start") /\ ToolboxAnswers(w)
  /\ IF TbNamed(c.eng, c.rec.id, "own") = {}
     THEN ToolboxReturn(w, "unavailable") /\ UNCHANGED conts
     ELSE /\ conts' = StateOf(Own(c.rec, c.eng), "running")
          /\ TbGo(w, IF c.kind = "exec" THEN "run" ELSE "final")
          /\ UNCHANGED tbHost
  /\ UNCHANGED <<tbBounds, box, svcs>>

(* The command ran: the record loaded at the start is written back.        *)
RunCommand(w) ==
  LET c == tbCall[w] IN
  /\ Holding(w, "run") /\ ToolboxAnswers(w)
  /\ Saved(c.rec)
  /\ ToolboxReturn(w, "ok")
  /\ UNCHANGED <<tbBounds, conts, svcs>>

(* recoverOwnedContainer: exactly one container carries the label.         *)
RecoverOwned(w) ==
  LET c == tbCall[w]
      found == Labelled(c.eng, c.rec.id)
      x == CHOOSE y \in found : TRUE
  IN
  /\ Holding(w, "recover") /\ ToolboxAnswers(w)
  /\ CASE found = {} -> ToolboxReturn(w, "container_missing") /\ UNCHANGED conts
       [] Cardinality(found) > 1 ->
            ToolboxReturn(w, "state_unsafe") /\ UNCHANGED conts
       [] Cardinality(found) = 1 /\ ~MountsVerified(x) ->
            TbGo(w, "halt") /\ UNCHANGED <<conts, tbHost>>
       [] Cardinality(found) = 1 /\ MountsVerified(x) /\ ~MetadataVerified(x) ->
            ToolboxReturn(w, "resource_mismatch") /\ UNCHANGED conts
       [] Cardinality(found) = 1 /\ MountsVerified(x) /\ MetadataVerified(x) ->
            /\ conts' = (conts \ {x}) \cup {[x EXCEPT !.name = "own"]}
            /\ TbGo(w, "final")
            /\ UNCHANGED tbHost
  /\ UNCHANGED <<tbBounds, box, svcs>>

(***************************************************************************)
(* Replacing a container whose mounts drifted (recreateAfterMountMismatch).*)
(***************************************************************************)
ToolboxWithout(dead) == {p \in svcs : p.age \notin {x.age : x \in dead}}

(* The old container is verified and stopped; its processes die.           *)
HaltOld(w) ==
  LET c == tbCall[w]
      old == TbNamed(c.eng, c.rec.id, "own")
      x == CHOOSE y \in old : TRUE
  IN
  /\ Holding(w, "halt") /\ ToolboxAnswers(w)
  /\ CASE old = {} ->
            ToolboxReturn(w, "container_unavailable") /\ UNCHANGED <<conts, svcs>>
       [] old # {} /\ ~MetadataVerified(x) ->
            ToolboxReturn(w, "resource_mismatch") /\ UNCHANGED <<conts, svcs>>
       [] old # {} /\ MetadataVerified(x) ->
            /\ tbCall' = [tbCall EXCEPT ![w].pc = "rename",
                                        ![w].ran = x.state = "running"]
            /\ conts' = IF x.state = "running" THEN StateOf(x, "stopped")
                        ELSE conts
            /\ svcs' = ToolboxWithout(old)
            /\ UNCHANGED tbHost
  /\ UNCHANGED <<tbBounds, box>>

(* The retiring name carries the generation it had.                        *)
Retired(rec, e) ==
  {IF x \in TbNamed(e, rec.id, "own")
   THEN [x EXCEPT !.name = "retiring", !.ret = rec.gen] ELSE x : x \in conts}

RetireOld(w) ==
  LET c == tbCall[w] IN
  /\ Holding(w, "rename") /\ ToolboxAnswers(w)
  /\ conts' = Retired(c.rec, c.eng)
  /\ TbGo(w, "build")
  /\ UNCHANGED <<tbBounds, box, svcs, tbHost>>

BuildNew(w) ==
  /\ Holding(w, "build") /\ ToolboxAnswers(w) /\ tbBounds.ages > 0
  /\ conts' = conts \cup {Made(w, tbCall[w].rec.id)}
  /\ Spent("ages")
  /\ TbGo(w, "launch")
  /\ UNCHANGED <<box, svcs, tbHost>>

(* The replacement is verified in full and started.                        *)
LaunchNew(w) ==
  LET c == tbCall[w]
      new == TbNamed(c.eng, c.rec.id, "own")
      x == CHOOSE y \in new : TRUE
  IN
  /\ Holding(w, "launch") /\ ToolboxAnswers(w)
  /\ IF new # {} /\ MountsVerified(x) /\ MetadataVerified(x)
     THEN conts' = StateOf(x, "running") /\ TbGo(w, "commit")
     ELSE TbGo(w, "undo") /\ UNCHANGED conts
  /\ UNCHANGED <<tbBounds, box, svcs, tbHost>>

(* The record of the replacement: next generation, no services.            *)
Replacement(rec, e) ==
  [rec EXCEPT !.gen = @ + 1, !.path = tbHost.path, !.eng = e,
              !.fp = ToolboxFingerprint(e), !.svc = NoService]

CommitNew(w) ==
  LET c == tbCall[w]
      rec == Replacement(c.rec, c.eng)
  IN
  /\ Holding(w, "commit")
  /\ Saved(rec)
  /\ tbCall' = [tbCall EXCEPT ![w].pc = "drop", ![w].rec = rec]
  /\ UNCHANGED <<tbBounds, conts, svcs, tbHost>>

DropOld(w) ==
  LET c == tbCall[w] IN
  /\ Holding(w, "drop") /\ ToolboxAnswers(w)
  /\ conts' = conts \ TbNamed(c.eng, c.rec.id, "retiring")
  /\ TbGo(w, "final")
  /\ UNCHANGED <<tbBounds, box, svcs, tbHost>>

(* restoreOld: the replacement goes, the old container gets its name back  *)
(* and runs again if it ran.                                               *)
UndoNew(w) ==
  LET c == tbCall[w] IN
  /\ Holding(w, "undo") /\ ToolboxAnswers(w)
  /\ conts' = conts \ TbNamed(c.eng, c.rec.id, "own")
  /\ TbGo(w, "restore")
  /\ UNCHANGED <<tbBounds, box, svcs, tbHost>>

RestoreOld(w) ==
  LET c == tbCall[w]
      back == {[x EXCEPT !.name = "own", !.ret = 0,
                         !.state = IF c.ran THEN "running" ELSE @] :
                 x \in TbNamed(c.eng, c.rec.id, "retiring")}
  IN
  /\ Holding(w, "restore") /\ ToolboxAnswers(w)
  /\ conts' = IF TbNamed(c.eng, c.rec.id, "own") = {}
              THEN (conts \ TbNamed(c.eng, c.rec.id, "retiring")) \cup back
              ELSE conts
  /\ ToolboxReturn(w, "unavailable")
  /\ UNCHANGED <<tbBounds, box, svcs>>

(***************************************************************************)
(* Services.                                                               *)
(***************************************************************************)
Inside(w) == {x.age : x \in TbNamed(tbCall[w].eng, tbCall[w].rec.id, "own")}

(* The status script: the identity file is there and names a live process. *)
ScriptRunning(w, sid) ==
  \E p \in svcs : p.sid = sid /\ p.told /\ p.age \in Inside(w)
ScriptState(w, sid) == IF ScriptRunning(w, sid) THEN "running" ELSE "stopped"

ServiceIn(w, st) == [tbCall[w].rec EXCEPT !.svc.state = st]

(* serviceStatus records what the script said.                             *)
ServiceObserved(w) ==
  LET st == ScriptState(w, tbCall[w].rec.svc.sid) IN
  /\ \/ Holding(w, "observe")
     \/ Holding(w, "service") /\ tbCall[w].kind = "service_status"
     \/ /\ Holding(w, "service") /\ tbCall[w].kind = "service_start"
        /\ tbCall[w].rec.svc.sid # 0
  /\ ToolboxAnswers(w)
  /\ Saved(ServiceIn(w, st))
  /\ IF Holding(w, "service") /\ tbCall[w].kind = "service_start"
        /\ st = "stopped"
     THEN TbGo(w, "announce") /\ UNCHANGED tbHost
     ELSE ToolboxReturn(w, "ok")
  /\ UNCHANGED <<tbBounds, conts, svcs>>

(* A new service is recorded as starting before it is started.             *)
ServiceAnnounced(w) ==
  LET rec == [tbCall[w].rec EXCEPT
                !.svc = [sid |-> tbBounds.sid + 1, state |-> "starting"]]
  IN
  /\ \/ Holding(w, "announce")
     \/ /\ Holding(w, "service") /\ tbCall[w].kind = "service_start"
        /\ tbCall[w].rec.svc.sid = 0
  /\ tbBounds.sid < tbBounds.sids
  /\ tbBounds' = [tbBounds EXCEPT !.sid = @ + 1]
  /\ Saved(rec)
  /\ tbCall' = [tbCall EXCEPT ![w].pc = "spawn", ![w].rec = rec]
  /\ UNCHANGED <<conts, svcs, tbHost>>

(* `exec --detach` returns once the process exists.                        *)
ServiceSpawned(w) ==
  /\ Holding(w, "spawn") /\ ToolboxAnswers(w)
  /\ svcs' = svcs \cup {[age |-> a, sid |-> tbCall[w].rec.svc.sid,
                          told |-> FALSE] : a \in Inside(w)}
  /\ TbGo(w, "observe")
  /\ UNCHANGED <<tbBounds, box, conts, tbHost>>

(* The stop script ends the process its identity file names; it is not     *)
(* run for a service already recorded as stopped.                          *)
StopScript(w) ==
  {p \in svcs : p.sid = tbCall[w].rec.svc.sid /\ p.told
                /\ p.age \in Inside(w)}
ServiceKilled(w) ==
  /\ Holding(w, "service") /\ tbCall[w].kind = "service_stop" /\ ToolboxAnswers(w)
  /\ svcs' = IF tbCall[w].rec.svc.state # "stopped"
             THEN svcs \ StopScript(w) ELSE svcs
  /\ TbGo(w, "mark")
  /\ UNCHANGED <<tbBounds, box, conts, tbHost>>

ServiceMarked(w) ==
  /\ Holding(w, "mark")
  /\ Saved(ServiceIn(w, "stopped"))
  /\ ToolboxReturn(w, "ok")
  /\ UNCHANGED <<tbBounds, conts, svcs>>

(***************************************************************************)
(* Cleanup.                                                                *)
(***************************************************************************)
RemoveContainer(w) ==
  LET c == tbCall[w]
      gone == TbNamed(c.eng, c.rec.id, "own")
  IN
  /\ Holding(w, "remove") /\ ToolboxAnswers(w)
  /\ conts' = conts \ gone /\ svcs' = ToolboxWithout(gone)
  /\ TbGo(w, "erase")
  /\ UNCHANGED <<tbBounds, box, tbHost>>

EraseRecord(w) ==
  /\ Holding(w, "erase")
  /\ box' = {}
  /\ ToolboxReturn(w, "removed")
  /\ UNCHANGED <<tbBounds, conts, svcs>>

(* CleanupMissing: the record goes only if it is pinned to this endpoint   *)
(* and no container there carries its label or its name.                   *)
cleanupMissingRecord(w) ==
  LET c == tbCall[w]
      rec == Loaded
  IN
  /\ c.pc = "forget" /\ tbHost.lock = ToolboxUnlocked
  /\ CASE box = {} -> TbEnd(w, "not_found") /\ UNCHANGED box
       [] box # {} /\ ~(Bound(rec) /\ Pinned(rec, c.eng)) ->
            TbEnd(w, "identity_mismatch") /\ UNCHANGED box
       [] box # {} /\ Bound(rec) /\ Pinned(rec, c.eng) /\ ~ToolboxAnswers(w) ->
            TbEnd(w, "unavailable") /\ UNCHANGED box
       [] box # {} /\ Bound(rec) /\ Pinned(rec, c.eng) /\ ToolboxAnswers(w) ->
            IF Labelled(c.eng, rec.id) # {}
            THEN TbEnd(w, "container_unavailable") /\ UNCHANGED box
            ELSE TbEnd(w, "removed") /\ box' = {}
  /\ UNCHANGED <<tbBounds, conts, svcs, tbHost>>

(***************************************************************************)
(* Failures.                                                               *)
(***************************************************************************)
CommandPcs == {"make", "retire", "status", "final", "start", "run",
               "recover", "halt", "rename", "build", "launch", "commit",
               "drop", "undo", "restore", "service", "observe", "spawn",
               "remove"}

(* A command the engine refuses, or cannot be asked; an inspection that    *)
(* fails while the label is still listed sends a repair to recovery.       *)
CommandFails(w) ==
  LET c == tbCall[w] IN
  /\ tbHost.lock = w /\ c.pc \in CommandPcs
  /\ IF ToolboxAnswers(w) \/ c.pc = "commit"
     THEN /\ tbBounds.faults > 0
          /\ tbBounds' = [tbBounds EXCEPT !.faults = @ - 1,
                                         !.hurt = @ \/ c.pc = "restore"]
     ELSE UNCHANGED tbBounds
  /\ CASE c.pc \in {"build", "launch", "commit"} ->
            TbGo(w, "undo") /\ UNCHANGED <<box, tbHost>>
       [] c.pc = "undo" -> TbGo(w, "restore") /\ UNCHANGED <<box, tbHost>>
       [] c.pc = "spawn" ->
            /\ Saved([c.rec EXCEPT !.svc = NoService])
            /\ ToolboxReturn(w, "unavailable")
       [] c.pc = "status" /\ c.kind = "repair" /\ ToolboxAnswers(w)
            /\ Bound(c.rec) /\ Labelled(c.eng, c.rec.id) # {} ->
            TbGo(w, "recover") /\ UNCHANGED <<box, tbHost>>
       [] OTHER -> ToolboxReturn(w, "unavailable") /\ UNCHANGED box
  /\ UNCHANGED <<conts, svcs>>

(* The inspection of a cleanup's second look fails: the record-only path.  *)
LookFails(w) ==
  /\ tbCall[w].pc = "look" /\ tbCall[w].kind = "cleanup"
  /\ tbHost.lock = ToolboxUnlocked /\ StatusOf(tbCall[w].eng) = "ok"
  /\ tbBounds.faults > 0 /\ Spent("faults")
  /\ TbGo(w, "forget")
  /\ UNCHANGED <<box, conts, svcs, tbHost>>

(* The engine carried the command out but its reply was lost.              *)
ReplyLost(w) ==
  LET c == tbCall[w] IN
  /\ tbHost.lock = w /\ ToolboxAnswers(w) /\ tbBounds.lost > 0
  /\ tbBounds.ages > 0
  /\ CASE c.pc = "rename" ->
            /\ conts' = Retired(c.rec, c.eng)
            /\ tbBounds' = [tbBounds EXCEPT !.lost = @ - 1, !.hurt = TRUE]
            /\ ToolboxReturn(w, "unavailable")
       [] c.pc \in {"make", "build"} ->
            /\ conts' = conts \cup
                 {Made(w, IF c.pc = "make" THEN tbBounds.ages ELSE c.rec.id)}
            /\ tbBounds' = [tbBounds EXCEPT !.lost = @ - 1, !.ages = @ - 1,
                                         !.hurt = TRUE]
            /\ IF c.pc = "make" THEN ToolboxReturn(w, "unavailable")
               ELSE TbGo(w, "undo") /\ UNCHANGED tbHost
       [] OTHER -> FALSE
  /\ UNCHANGED <<box, svcs>>

(* The Edge stops: operations and their lock are gone.                     *)
EdgeStopsToolbox ==
  /\ tbBounds.crashes > 0
  /\ tbBounds' = [tbBounds EXCEPT !.crashes = @ - 1, !.hurt = TRUE]
  /\ \E w \in TbWorkers : tbCall[w].pc # "idle"
  /\ tbCall' = [w \in TbWorkers |-> NoTbCall]
  /\ Release
  /\ UNCHANGED <<box, conts, svcs>>

(***************************************************************************)
(* The machine around the Edge.                                            *)
(***************************************************************************)
ToolboxAtRest == tbHost.lock = ToolboxUnlocked
MayEdit(k) == k \in tbBounds.edits /\ tbBounds.turns > 0
Edited == Spent("turns")

(* Mounts drift under a container (a runtime root replaced).               *)
MountsDrift ==
  \E x \in conts :
    /\ MayEdit("mounts") /\ x.mounts /\ Edited
    /\ conts' = (conts \ {x}) \cup {[x EXCEPT !.mounts = FALSE]}
    /\ UNCHANGED <<box, svcs, tbHost, tbCall>>

(* Between operations: limits changed, container renamed or removed by     *)
(* hand, or stopped (as by a restart of the machine).                      *)
LimitsChange ==
  \E x \in conts :
    /\ MayEdit("limits") /\ ToolboxAtRest /\ x.meta /\ Edited
    /\ conts' = (conts \ {x}) \cup {[x EXCEPT !.meta = FALSE]}
    /\ UNCHANGED <<box, svcs, tbHost, tbCall>>

RenamedByHand ==
  \E x \in conts :
    /\ MayEdit("rename") /\ ToolboxAtRest /\ x.name = "own" /\ Edited
    /\ conts' = (conts \ {x}) \cup {[x EXCEPT !.name = "other"]}
    /\ UNCHANGED <<box, svcs, tbHost, tbCall>>

RemovedByHand ==
  \E x \in conts :
    /\ MayEdit("remove") /\ ToolboxAtRest
    /\ tbBounds' = [tbBounds EXCEPT !.turns = @ - 1, !.hurt = TRUE]
    /\ conts' = conts \ {x} /\ svcs' = ToolboxWithout({x})
    /\ UNCHANGED <<box, tbHost, tbCall>>

ContainerStops ==
  \E x \in conts :
    /\ MayEdit("stop") /\ ToolboxAtRest /\ x.state = "running" /\ Edited
    /\ conts' = StateOf(x, "stopped") /\ svcs' = ToolboxWithout({x})
    /\ UNCHANGED <<box, tbHost, tbCall>>

(* A service writes its identity file, later it ends.                      *)
ServiceTells ==
  \E p \in svcs :
    /\ ~p.told
    /\ svcs' = (svcs \ {p}) \cup {[p EXCEPT !.told = TRUE]}
    /\ UNCHANGED <<tbBounds, box, conts, tbHost, tbCall>>

ServiceEnds ==
  \E p \in svcs :
    /\ MayEdit("exit") /\ Edited
    /\ svcs' = svcs \ {p}
    /\ UNCHANGED <<box, conts, tbHost, tbCall>>

(* The client executable moves, the workspace moves, an engine goes down   *)
(* or comes back.                                                          *)
ClientMoves ==
  \E e \in Engines :
    /\ MayEdit("client") /\ ToolboxAtRest /\ Edited
    /\ tbHost' = [tbHost EXCEPT !.fp[e] = @ + 1]
    /\ UNCHANGED <<box, conts, svcs, tbCall>>

WorkspaceMoves ==
  /\ MayEdit("workspace") /\ ToolboxAtRest /\ Edited
  /\ tbHost' = [tbHost EXCEPT !.path = @ + 1]
  /\ UNCHANGED <<box, conts, svcs, tbCall>>

EngineFlips ==
  \E e \in Engines :
    /\ MayEdit("engine")
    /\ tbBounds' = [tbBounds EXCEPT !.turns = @ - 1, !.hurt = TRUE]
    /\ tbHost' = [tbHost EXCEPT !.up = IF e \in @ THEN @ \ {e}
                                       ELSE @ \cup {e}]
    /\ UNCHANGED <<box, conts, svcs, tbCall>>

(***************************************************************************)
(* The specification.                                                      *)
(***************************************************************************)
ReadyId == 9
ReadyAge == 9
ReadyBox ==
  [id |-> ReadyId, gen |-> 1, eng |-> TbEngines[Len(TbEngines)], fp |-> 0,
   path |-> 1, svc |-> NoService]
ReadyContainer ==
  [eng |-> TbEngines[Len(TbEngines)], box |-> ReadyId, name |-> "own",
   mounts |-> TRUE, meta |-> TRUE, state |-> "running", age |-> ReadyAge,
   ret |-> 0]

(* Nothing yet, or the toolbox an earlier create left running.             *)
ToolboxInit ==
  /\ tbBounds \in TbBounds
  /\ box = IF tbBounds.ready THEN {ReadyBox} ELSE {}
  /\ conts = IF tbBounds.ready THEN {ReadyContainer} ELSE {}
  /\ svcs = {}
  /\ tbHost = [path |-> 1, up |-> Engines, fp |-> [e \in Engines |-> 0],
               lock |-> ToolboxUnlocked]
  /\ tbCall = [w \in TbWorkers |-> NoTbCall]

OperationStep(w) ==
  \/ SelectNext(w) \/ SelectEnds(w) \/ LookAgain(w) \/ LookFails(w)
  \/ EnterOperation(w) \/ MakeContainer(w) \/ RecordCreated(w)
  \/ RecordCreatedFails(w) \/ cleanupRetiring(w) \/ StatusStep(w)
  \/ FinalStatus(w) \/ StartContainer(w) \/ RunCommand(w)
  \/ RecoverOwned(w) \/ HaltOld(w) \/ RetireOld(w) \/ BuildNew(w)
  \/ LaunchNew(w) \/ CommitNew(w) \/ DropOld(w) \/ UndoNew(w)
  \/ RestoreOld(w) \/ ServiceObserved(w) \/ ServiceAnnounced(w)
  \/ ServiceSpawned(w) \/ ServiceKilled(w) \/ ServiceMarked(w)
  \/ RemoveContainer(w) \/ EraseRecord(w) \/ cleanupMissingRecord(w)
  \/ CommandFails(w) \/ ReplyLost(w)

ToolboxNext ==
  \/ \E w \in TbWorkers, k \in ToolboxKinds, n \in 0..2 : AskToolbox(w, k, n)
  \/ \E w \in TbWorkers : OperationStep(w)
  \/ EdgeStopsToolbox
  \/ MountsDrift \/ LimitsChange \/ RenamedByHand \/ RemovedByHand
  \/ ContainerStops \/ ServiceTells \/ ServiceEnds
  \/ ClientMoves \/ WorkspaceMoves \/ EngineFlips

ToolboxSpec == ToolboxInit /\ [][ToolboxNext]_tbVars

(***************************************************************************)
(* Properties.                                                             *)
(***************************************************************************)
Locking == CommandPcs \cup {"record", "announce", "erase", "mark"}

(* Types; an operation past its load holds the workspace lock, alone; no   *)
(* two containers of one toolbox share the canonical name on an engine.    *)
TbTypeOK ==
  /\ Cardinality(box) <= 1
  /\ \A r \in box : /\ r.gen \in Nat \ {0} /\ r.eng \in Engines
                     /\ r.svc.state \in {"none", "starting", "running",
                                         "stopped"}
  /\ \A c \in conts : /\ c.eng \in Engines
                       /\ c.name \in {"own", "retiring", "other"}
                       /\ c.state \in {"created", "running", "stopped"}
  /\ \A c, d \in conts :
       c.eng = d.eng /\ c.box = d.box /\ c.name = "own" /\ d.name = "own"
         => c = d
  /\ \A w \in TbWorkers :
       tbCall[w].pc \in Locking <=> tbHost.lock = w
  /\ \A p \in svcs : p.age \in {c.age : c \in conts}

(* Two creations, on one or two engines, make one toolbox: containers of   *)
(* two toolboxes are never there together (Create loads the record again   *)
(* under the lock, and undoes its container when the record is not         *)
(* written).                                                               *)
OneToolbox ==
  ~tbBounds.hurt => Cardinality({c.box : c \in conts}) <= 1

(* A replacement that fails gives the old container its name back: a       *)
(* recorded toolbox at rest has a container that the next operation can    *)
(* use or recover, unless the Edge stopped, a reply was lost, the engine   *)
(* went down, or the restoration itself failed.                            *)
FailedReplacementRestores ==
  ToolboxAtRest /\ ~tbBounds.hurt =>
    \A r \in box : \E c \in conts :
      c.box = r.id /\ c.eng = r.eng /\ c.name \in {"own", "other"}

(* A container whose limits or image do not match the record is never      *)
(* removed by an operation, whatever its name (metadata is verified before *)
(* each removal).                                                          *)
MismatchNeverRemoved ==
  \A x \in conts :
    ~x.meta /\ ~ToolboxAtRest => \E y \in conts' : y.age = x.age

(* "removed" is reported only when no container of that toolbox is left on *)
(* any engine and the record is gone, on the ordinary path and on the      *)
(* record-only one.                                                        *)
RemovedMeansGone ==
  \A w \in TbWorkers :
    tbCall[w].pc # "idle" /\ tbCall'[w].out = "removed" =>
      /\ box' = {}
      /\ \A r \in box : \A c \in conts' : c.box # r.id

(* A service recorded as running is recorded as stopped only when its      *)
(* process is gone: by its own end, the stop script or its container.      *)
StoppedIsDead ==
  \A r \in box, q \in box' :
    /\ r.id = q.id /\ r.svc.sid = q.svc.sid
    /\ r.svc.state = "running" /\ q.svc.state = "stopped"
    => \A p \in svcs' : p.sid # q.svc.sid

(* While the workspace is not where the record says, no operation touches  *)
(* a container.                                                            *)
MovedUntouched ==
  (\E r \in box : r.path # tbHost.path) /\ ~ToolboxAtRest
    => \/ conts' = conts
       \/ {c.age : c \in conts'} = {c.age : c \in conts}
          /\ {c.name : c \in conts'} = {c.name : c \in conts}

-----------------------------------------------------------------------------
(***************************************************************************)
(* One managed worktree on the Edge, from its creation to its cleanup, and *)
(* the commands that run in it meanwhile                                   *)
(* (internal/edgeclient/project_worktree.go, project_workspace.go,         *)
(* project_runtime_lifecycle_unix.go).                                     *)
(*                                                                         *)
(* Every operation opens a manager of its own, so the manager's mutex      *)
(* orders nothing between operations: only the unique key of the journal   *)
(* and the runtime gate of the workspace do.  A command shares the gate,   *)
(* a cleanup takes it alone; a durable user leaves the gate once its own   *)
(* journal names the workspace.                                            *)
(*                                                                         *)
(* The worktree is a checkout (head, the branch's ref, tracked and ignored *)
(* changes); only commands edit it.  A worktree of a direct workspace is   *)
(* cleaned up under an expected head, one of a task without.               *)
(***************************************************************************)

CONSTANTS WrUsers,      \* commands, by name
          WrCleaners,   \* cleanup operations that may overlap
          WrBounds      \* the bounds and the kinds of a behaviour

VARIABLES wrBounds,  \* the bounds of this behaviour
          wrow,      \* the journal row of the worktree, and the create in flight
          wdisk,     \* directories and registered workspaces, by attempt to create
          wsrc,      \* the checkout of the row's worktree
          wroots,    \* the private runtime roots of its workspace
          wuse,      \* what each command does
          wclean     \* what each cleanup does

wrVars == <<wrBounds, wrow, wdisk, wsrc, wroots, wuse, wclean>>

NoCreate == [at |-> "idle", try |-> 0]
NoClean == [at |-> "idle", key |-> "none", seen |-> "none", head |-> 0, out |-> "none"]
NoUse == [at |-> "idle", gate |-> FALSE, journal |-> FALSE, live |-> FALSE]
WorktreeEnded == [NoUse EXCEPT !.at = "done"]
FreshSource == [head |-> 0, ref |-> 0, attached |-> TRUE, dirty |-> FALSE, ignored |-> FALSE, lost |-> FALSE]

WrInit ==
    /\ wrBounds \in WrBounds
    /\ wrow = [id |-> 0, state |-> "none", key |-> "none", create |-> NoCreate, hurt |-> FALSE]
    /\ wdisk = [dirs |-> {}, registered |-> {}]
    /\ wsrc = FreshSource
    /\ wroots = [there |-> FALSE, artifacts |-> "none"]
    /\ wuse = [u \in WrUsers |-> NoUse]
    /\ wclean = [c \in WrCleaners |-> NoClean]

WrFault == /\ wrBounds.faults > 0
           /\ wrBounds' = [wrBounds EXCEPT !.faults = @ - 1]

TreeThere == wrow.id \in wdisk.dirs

WorkspaceKnown == wrow.id \in wdisk.registered

-----------------------------------------------------------------------------
(***************************************************************************)
(* revalidate: both workspaces are registered at their paths and the       *)
(* worktree's .git file points into the canonical repository.              *)
(***************************************************************************)
PhysicalValid(id) == id \in wdisk.dirs

Revalidated == WorkspaceKnown /\ PhysicalValid(wrow.id)

(***************************************************************************)
(* Create: one attempt at a time, each under a fresh identity and the same *)
(* idempotency key.                                                        *)
(***************************************************************************)
CreateAt(at) == wrow' = [wrow EXCEPT !.create.at = at]

BeginCreate ==
    /\ wrow.create.at = "idle" /\ wrow.state = "none"
    /\ wrBounds.creates > 0
    /\ wrBounds' = [wrBounds EXCEPT !.creates = @ - 1]
    /\ wrow' = [wrow EXCEPT !.create = [at |-> "add", try |-> @.try + 1]]
    /\ UNCHANGED <<wdisk, wsrc, wroots, wuse, wclean>>

AddWorktree ==
    /\ wrow.create.at = "add"
    /\ wdisk' = [wdisk EXCEPT !.dirs = @ \union {wrow.create.try}]
    /\ CreateAt("register")
    /\ UNCHANGED <<wrBounds, wsrc, wroots, wuse, wclean>>

RegisterWorkspace ==
    /\ wrow.create.at = "register"
    /\ PhysicalValid(wrow.create.try)
    /\ wdisk' = [wdisk EXCEPT !.registered = @ \union {wrow.create.try}]
    /\ CreateAt("insert")
    /\ UNCHANGED <<wrBounds, wsrc, wroots, wuse, wclean>>

InsertWorktree ==
    /\ wrow.create.at = "insert"
    /\ wrow' = [wrow EXCEPT !.id = wrow.create.try, !.state = "ready", !.create.at = "idle"]
    /\ UNCHANGED <<wrBounds, wdisk, wsrc, wroots, wuse, wclean>>

(***************************************************************************)
(* The deferred undo of a create that failed: the registration first, then *)
(* the worktree (its branch stays).                                        *)
(***************************************************************************)
Undone(d, try, at) ==
    [dirs |-> IF at = "add" THEN d.dirs ELSE d.dirs \ {try},
     registered |-> IF at = "insert" THEN d.registered \ {try} ELSE d.registered]

CreateFails ==
    /\ wrow.create.at \in {"add", "register", "insert"}
    /\ WrFault
    /\ wdisk' = Undone(wdisk, wrow.create.try, wrow.create.at)
    /\ CreateAt("idle")
    /\ UNCHANGED <<wsrc, wroots, wuse, wclean>>

-----------------------------------------------------------------------------
(***************************************************************************)
(* The runtime gate of the workspace.                                      *)
(***************************************************************************)
GateExclusive == \E c \in WrCleaners : wclean[c].at \notin {"idle", "look", "gate"}

GateShared == \E u \in WrUsers : wuse[u].gate

TryRLock == ~GateExclusive

TryLock == ~GateExclusive /\ ~GateShared

(***************************************************************************)
(* A command: resolve the workspace, enter the gate, then (by kind) write  *)
(* a journal row, validate the path and prepare the private roots, launch. *)
(* A process and a toolbox keep the gate until their launch or record is   *)
(* stored, a model runtime until its row is, an exec until it ends.        *)
(***************************************************************************)
UserKind(u) == wrBounds.kinds[u]

SetUse(u, r) == wuse' = [wuse EXCEPT ![u] = r]

ResolveWorkspace(u) ==
    /\ wuse[u].at = "idle" /\ wrow.state = "ready" /\ Revalidated
    /\ UserKind(u) # "none"
    /\ SetUse(u, [NoUse EXCEPT !.at = "gate"])
    /\ UNCHANGED <<wrBounds, wrow, wdisk, wsrc, wroots, wclean>>

EnterGate(u) ==
    /\ wuse[u].at = "gate" /\ TryRLock
    /\ SetUse(u, [wuse[u] EXCEPT !.gate = TRUE, !.at = IF UserKind(u) \in {"process", "runtime"} THEN "journal" ELSE "prepare"])
    /\ UNCHANGED <<wrBounds, wrow, wdisk, wsrc, wroots, wclean>>

JournalUse(u) ==
    /\ wuse[u].at = "journal"
    /\ SetUse(u, [wuse[u] EXCEPT !.journal = TRUE, !.gate = UserKind(u) # "runtime", !.at = "prepare"])
    /\ UNCHANGED <<wrBounds, wrow, wdisk, wsrc, wroots, wclean>>

PrepareRoots(u) ==
    /\ wuse[u].at = "prepare" /\ TreeThere
    /\ SetUse(u, [wuse[u] EXCEPT !.at = "launch"])
    /\ wroots' = [there |-> TRUE, artifacts |-> IF wroots.artifacts = "none" THEN "empty" ELSE wroots.artifacts]
    /\ UNCHANGED <<wrBounds, wrow, wdisk, wsrc, wclean>>

RefuseUse(u) ==
    /\ wuse[u].at = "prepare" /\ ~TreeThere
    /\ SetUse(u, WorktreeEnded)
    /\ UNCHANGED <<wrBounds, wrow, wdisk, wsrc, wroots, wclean>>

LaunchUse(u) ==
    /\ wuse[u].at = "launch"
    /\ SetUse(u, [at |-> "run", live |-> TRUE, gate |-> UserKind(u) = "exec", journal |-> UserKind(u) # "exec"])
    /\ UNCHANGED <<wrBounds, wrow, wdisk, wsrc, wroots, wclean>>

(***************************************************************************)
(* The command has ended and its journal says so.                          *)
(***************************************************************************)
EndUse(u) ==
    /\ wuse[u].at = "run"
    /\ SetUse(u, WorktreeEnded)
    /\ UNCHANGED <<wrBounds, wrow, wdisk, wsrc, wroots, wclean>>

(***************************************************************************)
(* Rows of commands the crash ended or cut short are settled at the next   *)
(* start.                                                                  *)
(***************************************************************************)
SettleUse(u) ==
    /\ wuse[u].at = "cut"
    /\ SetUse(u, WorktreeEnded)
    /\ UNCHANGED <<wrBounds, wrow, wdisk, wsrc, wroots, wclean>>

(***************************************************************************)
(* What a live command may do to the checkout.                             *)
(***************************************************************************)
SourceEdits ==
    {[wsrc EXCEPT !.head = @ + 1, !.ref = IF wsrc.attached THEN wsrc.head + 1 ELSE @],
     [wsrc EXCEPT !.attached = FALSE], [wsrc EXCEPT !.dirty = TRUE], [wsrc EXCEPT !.ignored = TRUE]} \ {wsrc}

WorktreeEditSource(u) ==
    /\ wuse[u].live /\ TreeThere /\ wrBounds.edits > 0
    /\ wrBounds' = [wrBounds EXCEPT !.edits = @ - 1]
    /\ \/ wsrc' \in SourceEdits /\ UNCHANGED wroots
       \/ wsrc' = wsrc /\ wroots.artifacts = "empty" /\ wroots' = [wroots EXCEPT !.artifacts = "full"]
    /\ UNCHANGED <<wrow, wdisk, wuse, wclean>>

-----------------------------------------------------------------------------
(***************************************************************************)
(* Cleanup.  A direct cleanup asks for the exact status first, which       *)
(* revalidates a ready worktree.                                           *)
(***************************************************************************)
DirectKind == wrBounds.kind = "direct"

CleanAt(c, at) == wclean' = [wclean EXCEPT ![c].at = at]

CleanDone(c, out) == wclean' = [wclean EXCEPT ![c].at = "idle", ![c].out = out]

WorktreeCallCleanup(c, key) ==
    /\ wclean[c].at = "idle" /\ wrow.state # "none" /\ wrBounds.cleans > 0
    /\ wrBounds' = [wrBounds EXCEPT !.cleans = @ - 1]
    /\ wclean' = [wclean EXCEPT ![c] = [at |-> "look", key |-> key, seen |-> "none", head |-> wsrc.head, out |-> "none"]]
    /\ UNCHANGED <<wrow, wdisk, wsrc, wroots, wuse>>

StatusDirectWorkspace(c) == DirectKind /\ wrow.state = "ready" => Revalidated

LookUp(c) ==
    /\ wclean[c].at = "look"
    /\ IF StatusDirectWorkspace(c)
       THEN wclean' = [wclean EXCEPT ![c].at = "gate", ![c].seen = wrow.state]
       ELSE CleanDone(c, "unsafe")
    /\ UNCHANGED <<wrBounds, wrow, wdisk, wsrc, wroots, wuse>>

AcquireGate(c) ==
    /\ wclean[c].at = "gate" /\ TryLock
    /\ CleanAt(c, "judge")
    /\ UNCHANGED <<wrBounds, wrow, wdisk, wsrc, wroots, wuse>>

GateTimesOut(c) ==
    /\ wclean[c].at = "gate" /\ ~TryLock /\ WrFault
    /\ CleanDone(c, "unavailable")
    /\ UNCHANGED <<wrow, wdisk, wsrc, wroots, wuse>>

(***************************************************************************)
(* Judged by the row as it was read before the gate: a removed worktree    *)
(* answers its own key again, a tree already gone is only finished.        *)
(***************************************************************************)
Judge(c) ==
    /\ wclean[c].at = "judge"
    /\ CASE wclean[c].seen = "removed" -> IF wrow.key = wclean[c].key THEN CleanAt(c, "again") ELSE CleanDone(c, "conflict")
         [] wclean[c].seen = "ready" /\ ~TreeThere -> CleanAt(c, "forget")
         [] wclean[c].seen = "ready" /\ TreeThere /\ ~Revalidated -> CleanDone(c, "unsafe")
         [] wclean[c].seen = "ready" /\ TreeThere /\ Revalidated -> CleanAt(c, IF DirectKind THEN "evidence" ELSE "status")
    /\ UNCHANGED <<wrBounds, wrow, wdisk, wsrc, wroots, wuse>>

(***************************************************************************)
(* A direct cleanup: the head is the expected one, on a branch whose ref   *)
(* holds it; then nothing ignored; then no retained resource.              *)
(***************************************************************************)
HeadKept(c) == wsrc.head = wclean[c].head /\ wsrc.attached /\ wsrc.ref = wsrc.head

CheckEvidence(c) ==
    /\ wclean[c].at = "evidence"
    /\ IF HeadKept(c) THEN CleanAt(c, "ignored") ELSE CleanDone(c, "head_changed")
    /\ UNCHANGED <<wrBounds, wrow, wdisk, wsrc, wroots, wuse>>

CheckIgnored(c) ==
    /\ wclean[c].at = "ignored"
    /\ IF wsrc.ignored THEN CleanDone(c, "dirty") ELSE CleanAt(c, "retained")
    /\ UNCHANGED <<wrBounds, wrow, wdisk, wsrc, wroots, wuse>>

JournalRetains(u) == wuse[u].journal

\* Faulty variant: only toolboxes are looked up.
RuntimeRetainedToolbox == \E u \in WrUsers : JournalRetains(u) /\ UserKind(u) = "toolbox"

(***************************************************************************)
(* A toolbox record, an active process row, an active runtime row.         *)
(***************************************************************************)
RuntimeRetained == \E u \in WrUsers : JournalRetains(u)

CheckRetained(c) ==
    /\ wclean[c].at = "retained"
    /\ IF RuntimeRetained THEN CleanDone(c, "busy") ELSE CleanAt(c, "status")
    /\ UNCHANGED <<wrBounds, wrow, wdisk, wsrc, wroots, wuse>>

CheckClean(c) ==
    /\ wclean[c].at = "status"
    /\ IF wsrc.dirty THEN CleanDone(c, "dirty") ELSE CleanAt(c, "remove")
    /\ UNCHANGED <<wrBounds, wrow, wdisk, wsrc, wroots, wuse>>

(***************************************************************************)
(* git worktree remove --force.  What no branch holds is lost with it.     *)
(***************************************************************************)
SourceLost == wsrc.dirty \/ wsrc.ignored \/ wsrc.head # wsrc.ref

RemoveWorktree(c) ==
    /\ wclean[c].at = "remove"
    /\ wdisk' = [wdisk EXCEPT !.dirs = @ \ {wrow.id}]
    /\ wsrc' = [wsrc EXCEPT !.lost = SourceLost]
    /\ CleanAt(c, "unregister")
    /\ UNCHANGED <<wrBounds, wrow, wroots, wuse>>

(***************************************************************************)
(* The registration: only when the tree was gone already may it be missing.*)
(***************************************************************************)
ForgetWorkspace(c) ==
    /\ wclean[c].at \in {"unregister", "forget"}
    /\ wclean[c].at = "unregister" => WorkspaceKnown
    /\ wdisk' = [wdisk EXCEPT !.registered = @ \ {wrow.id}]
    /\ CleanAt(c, "reclaim")
    /\ UNCHANGED <<wrBounds, wrow, wsrc, wroots, wuse>>

(***************************************************************************)
(* cleanupProjectWorktreeRuntime: runtime and cache roots and an empty     *)
(* artifact root, unless a journal still names the workspace.              *)
(***************************************************************************)
Reclaimed ==
    IF RuntimeRetained THEN wroots
    ELSE [there |-> FALSE, artifacts |-> IF wroots.artifacts = "full" THEN "full" ELSE "none"]

ReclaimRuntime(c) ==
    /\ wclean[c].at \in {"reclaim", "again"}
    /\ \/ wroots' = Reclaimed /\ UNCHANGED wrBounds
       \/ wroots' = wroots /\ WrFault
    /\ IF wclean[c].at = "again" THEN CleanDone(c, "replayed") ELSE CleanAt(c, "finish")
    /\ UNCHANGED <<wrow, wdisk, wsrc, wuse>>

FinishCleanup(c) ==
    /\ wclean[c].at = "finish"
    /\ IF wrow.state = "ready"
       THEN /\ wrow' = [wrow EXCEPT !.state = "removed", !.key = wclean[c].key]
            /\ CleanDone(c, "removed")
       ELSE CleanDone(c, "stale") /\ UNCHANGED wrow
    /\ UNCHANGED <<wrBounds, wdisk, wsrc, wroots, wuse>>

-----------------------------------------------------------------------------
(***************************************************************************)
(* The Edge dies: gates, execs, model runtimes and operations die with it; *)
(* workers and toolboxes outlive it.                                       *)
(***************************************************************************)
AfterCrash(u) ==
    CASE wuse[u].live /\ UserKind(u) \in {"process", "toolbox"} -> [wuse[u] EXCEPT !.gate = FALSE]
      [] ~wuse[u].journal -> IF wuse[u].at = "idle" THEN NoUse ELSE WorktreeEnded
      [] OTHER -> [wuse[u] EXCEPT !.gate = FALSE, !.live = FALSE, !.at = "cut"]

EdgeCrashes ==
    /\ wrBounds.crashes > 0
    /\ wrBounds' = [wrBounds EXCEPT !.crashes = @ - 1]
    /\ wrow' = [wrow EXCEPT !.create.at = "idle", !.hurt = @ \/ wrow.create.at # "idle"]
    /\ wuse' = [u \in WrUsers |-> AfterCrash(u)]
    /\ wclean' = [c \in WrCleaners |-> [wclean[c] EXCEPT !.at = "idle"]]
    /\ UNCHANGED <<wdisk, wsrc, wroots>>

WrNext ==
    \/ BeginCreate
    \/ AddWorktree
    \/ RegisterWorkspace
    \/ InsertWorktree
    \/ CreateFails
    \/ \E u \in WrUsers : ResolveWorkspace(u)
    \/ \E u \in WrUsers : EnterGate(u)
    \/ \E u \in WrUsers : JournalUse(u)
    \/ \E u \in WrUsers : PrepareRoots(u)
    \/ \E u \in WrUsers : RefuseUse(u)
    \/ \E u \in WrUsers : LaunchUse(u)
    \/ \E u \in WrUsers : EndUse(u)
    \/ \E u \in WrUsers : SettleUse(u)
    \/ \E u \in WrUsers : WorktreeEditSource(u)
    \/ \E c \in WrCleaners, key \in {"k", "j"} : WorktreeCallCleanup(c, key)
    \/ \E c \in WrCleaners : LookUp(c)
    \/ \E c \in WrCleaners : AcquireGate(c)
    \/ \E c \in WrCleaners : GateTimesOut(c)
    \/ \E c \in WrCleaners : Judge(c)
    \/ \E c \in WrCleaners : CheckEvidence(c)
    \/ \E c \in WrCleaners : CheckIgnored(c)
    \/ \E c \in WrCleaners : CheckRetained(c)
    \/ \E c \in WrCleaners : CheckClean(c)
    \/ \E c \in WrCleaners : RemoveWorktree(c)
    \/ \E c \in WrCleaners : ForgetWorkspace(c)
    \/ \E c \in WrCleaners : ReclaimRuntime(c)
    \/ \E c \in WrCleaners : FinishCleanup(c)
    \/ EdgeCrashes

(***************************************************************************)
(* The Edge promises no answer while commands hold the gate, so nothing is *)
(* fair here: the properties are about what is kept.                       *)
(***************************************************************************)
WorktreeSpec == WrInit /\ [][WrNext]_wrVars

-----------------------------------------------------------------------------
\* Shape of the state: a create in flight has an attempt of its own, the gate
\* is never shared and exclusive at once, a live command that is not an exec
\* has a journal row, and the row names an attempt that was made.
WrTypeOK ==
    /\ wrow.state \in {"none", "ready", "removed"}
    /\ wrow.id \in 0 .. wrow.create.try
    /\ wdisk.registered \subseteq 1 .. wrow.create.try
    /\ wdisk.dirs \subseteq 1 .. wrow.create.try
    /\ wroots.artifacts \in {"none", "empty", "full"}
    /\ Cardinality({c \in WrCleaners : wclean[c].at \notin {"idle", "look", "gate"}}) <= 1
    /\ (\E u \in WrUsers : wuse[u].gate) => \A c \in WrCleaners : wclean[c].at \in {"idle", "look", "gate"}
    /\ \A u \in WrUsers : wuse[u].live /\ wrBounds.kinds[u] # "exec" => wuse[u].journal

\* The private runtime roots of a command are not removed under it: a cleanup
\* waits for the commands that share the gate and keeps the roots a journal
\* row still names, also those of commands that outlived a restart
\* (acquireProjectRuntimeGate, projectWorktreeRuntimeRetained).
RootsKeptForLive == \A u \in WrUsers : wuse[u].live \/ wuse[u].at = "launch" => wroots.there

\* Populated artifacts outlive the cleanup of the worktree that made them.
ArtifactsKept ==
                 wroots.artifacts = "full" => wroots'.artifacts = "full"

\* When a direct workspace is removed no command is alive in it, so that the
\* clean status read before `git worktree remove --force` is still true
\* (Cleanup asks the journals before it reads the status).
DirectRemovedQuiet ==
    wdisk.dirs \cap {wrow.id} # {} /\ wrow.id \notin wdisk'.dirs /\ wrBounds.kind = "direct"
      => ~wsrc.dirty /\ \A u \in WrUsers : ~wuse[u].live

\* At most one of the cleanups of a worktree reports that it removed it: the
\* others replay its receipt, conflict or are stale (finishCleanup).
RemovedOnce ==
    Cardinality({c \in WrCleaners : wclean[c].out = "removed"}) <= 1

\* A receipt of removal is true: the directory is gone and the workspace is no
\* longer registered.
ReceiptTrue == wrow.state = "removed" => ~TreeThere /\ ~WorkspaceKnown

\* The cleanup of a task's worktree that a crash cut after the removal is
\* finished by the next call instead of being refused (Cleanup's branch for a
\* path that does not exist).
InterruptedRemovalResumes ==
    \A c \in WrCleaners : wclean[c].out = "unsafe" /\ wrBounds.kind = "task" => TreeThere

\* A create that failed leaves neither a directory nor a registered workspace
\* (Create's deferred rollbacks); only a crash leaves one behind.
FailedCreateLeavesNothing ==
    wrow.create.at = "idle" /\ ~wrow.hurt => wdisk.registered \cup wdisk.dirs \subseteq {wrow.id}

=============================================================================
