---------------------------- MODULE SandboxRuns -----------------------------
(***************************************************************************)
(* The private sandbox executor.  A caller names a directory; its client   *)
(* splits it into a workspace scope and a relative directory and posts the *)
(* request under an idempotency key.  The executor admits it to one of a   *)
(* few slots, chooses the workspace again on its own side, attests the     *)
(* engine, marks the key as running in an exclusive file, runs one         *)
(* container and stores the completed result.  Two requests may carry one  *)
(* key; the engine's answers may be lost, and the executor may die.        *)
(***************************************************************************)
EXTENDS Naturals, Sequences, FiniteSets

CONSTANTS
  SandboxCalls,     \* HTTP requests
  SandboxKeys,      \* idempotency keys
  MaxConcurrent,    \* slots
  SandboxBounds     \* [calls, who, layout, faults, cancels, crashes, moves, probes]

VARIABLES
  sbBounds,   \* calls: what each call asks; the rest counts down
  scall,      \* each call: [at, scope, rel, where, answer]
  sslots,     \* calls that hold a slot
  srec,       \* per key [running, done]: the two receipt files; "" when absent
  sbox,       \* per key: the container, "none" | "created" | "running" | "exited"
  sready,     \* [ok, holder]: cached readiness, and who holds its mutex
  slayout,    \* "direct" | "multi": is the workspace root itself a repository
  sruns       \* per key: the digest and directory of every start

sbVars == <<sbBounds, scall, sslots, srec, sbox, sready, slayout, sruns>>

Asks(c) == sbBounds.calls[c]
Key(c) == Asks(c).key
SbGo(c, at) == scall' = [scall EXCEPT ![c].at = at]
SbEnd(c, answer) == scall' = [scall EXCEPT ![c].at = "answered", ![c].answer = answer]
SbSpend(field) == /\ sbBounds[field] > 0
                  /\ sbBounds' = [sbBounds EXCEPT ![field] = @ - 1]
Nowhere == <<>>

SandboxInit ==
  /\ sbBounds \in SandboxBounds
  /\ scall = [c \in SandboxCalls |->
                [at |-> "new", scope |-> Nowhere, rel |-> Nowhere, where |-> Nowhere, answer |-> "none"]]
  /\ sslots = {}
  /\ srec = [k \in SandboxKeys |-> [running |-> "", done |-> ""]]
  /\ sbox = [k \in SandboxKeys |-> "none"]
  /\ sready = [ok |-> FALSE, holder |-> {}]
  /\ slayout = sbBounds.layout
  /\ sruns = [k \in SandboxKeys |-> <<>>]

-----------------------------------------------------------------------------
(* Which directory: the client's split and the executor's choice.  A        *)
(* directory is the sequence of names below the configured root, and a      *)
(* scope is a sequence of at most one name.                                 *)

\* selectPrivateSandboxWorkspace; a legacy client sends the directory whole.
SandboxSelect(dir, profile) ==
  IF profile = "legacy" \/ slayout = "direct" THEN {[scope |-> Nowhere, rel |-> dir]}
  ELSE IF dir = <<>> THEN {} ELSE {[scope |-> SubSeq(dir, 1, 1), rel |-> Tail(dir)]}

\* resolveWorkspaceSelection: the directory to run in, or none.
SandboxResolve(scope, rel, profile) ==
  IF slayout = "direct" THEN IF scope # Nowhere THEN {} ELSE {rel}
  ELSE IF profile = "legacy" /\ rel # <<>> THEN {rel}
  ELSE IF scope = Nowhere THEN {} ELSE {scope \o rel}

\* The client sends one request for each call and never repeats it itself.
SendRun(c) ==
  /\ scall[c].at = "new" /\ c \in sbBounds.who
  /\ \E s \in SandboxSelect(Asks(c).dir, Asks(c).profile) :
       scall' = [scall EXCEPT ![c].at = "sent", ![c].scope = s.scope, ![c].rel = s.rel]
  /\ UNCHANGED <<sbBounds, sslots, srec, sbox, sready, slayout, sruns>>

-----------------------------------------------------------------------------
(* Execute *)

\* completedReceipt: the stored result of the same request, or a conflict.
SandboxCompleted(c) ==
  CASE srec[Key(c)].done = "" -> "none"
    [] srec[Key(c)].done = Asks(c).digest -> "completed"
    [] OTHER -> "internal"

\* The receipt is looked for before a slot is waited for.
LookBefore(c) ==
  /\ scall[c].at = "sent"
  /\ IF SandboxCompleted(c) = "none" THEN SbGo(c, "waiting") ELSE SbEnd(c, SandboxCompleted(c))
  /\ UNCHANGED <<sbBounds, sslots, srec, sbox, sready, slayout, sruns>>

Admit(c) ==
  /\ scall[c].at = "waiting" /\ Cardinality(sslots) < MaxConcurrent
  /\ sslots' = sslots \cup {c}
  /\ SbGo(c, "admitted")
  /\ UNCHANGED <<sbBounds, srec, sbox, sready, slayout, sruns>>

\* The caller is gone while its request still waits for a slot.
Abandon(c) ==
  /\ scall[c].at = "waiting" /\ SbSpend("cancels")
  /\ SbEnd(c, "unavailable")
  /\ UNCHANGED <<sslots, srec, sbox, sready, slayout, sruns>>

\* ... and again once admitted: another request may have completed the key.
LookAfter(c) ==
  /\ scall[c].at = "admitted"
  /\ IF SandboxCompleted(c) = "none" THEN SbGo(c, "clear") /\ UNCHANGED sslots
     ELSE SbEnd(c, SandboxCompleted(c)) /\ sslots' = sslots \ {c}
  /\ UNCHANGED <<sbBounds, srec, sbox, sready, slayout, sruns>>

\* The workspace is chosen and scanned on the executor's side.
SandboxPreflight(c) ==
  /\ scall[c].at = "clear"
  /\ LET found == SandboxResolve(scall[c].scope, scall[c].rel, Asks(c).profile)
     IN IF found = {} THEN SbEnd(c, "refused") /\ sslots' = sslots \ {c}
        ELSE /\ scall' = [scall EXCEPT ![c].at = "placed", ![c].where = CHOOSE d \in found : TRUE]
             /\ UNCHANGED sslots
  /\ UNCHANGED <<sbBounds, srec, sbox, sready, slayout, sruns>>

Attested(c) ==
  /\ scall[c].at = "placed"
  /\ SbGo(c, "attested")
  /\ UNCHANGED <<sbBounds, sslots, srec, sbox, sready, slayout, sruns>>

AttestFails(c) ==
  /\ scall[c].at = "placed" /\ sready.holder = {} /\ SbSpend("faults")
  /\ sready' = [sready EXCEPT !.ok = FALSE]
  /\ sslots' = sslots \ {c}
  /\ SbEnd(c, "unavailable")
  /\ UNCHANGED <<srec, sbox, slayout, sruns>>

\* ensureReady holds its mutex while a probing container runs.
EnsureReady(c) ==
  /\ scall[c].at = "attested" /\ sready.holder = {}
  /\ IF sready.ok THEN SbGo(c, "ready") /\ UNCHANGED sready
     ELSE SbGo(c, "probing") /\ sready' = [sready EXCEPT !.holder = {c}]
  /\ UNCHANGED <<sbBounds, sslots, srec, sbox, slayout, sruns>>

ProbePasses(c) ==
  /\ scall[c].at = "probing"
  /\ sready' = [ok |-> TRUE, holder |-> {}]
  /\ SbGo(c, "ready")
  /\ UNCHANGED <<sbBounds, sslots, srec, sbox, slayout, sruns>>

ProbeFails(c) ==
  /\ scall[c].at = "probing" /\ SbSpend("faults")
  /\ sready' = [ok |-> FALSE, holder |-> {}]
  /\ sslots' = sslots \ {c}
  /\ SbEnd(c, "unavailable")
  /\ UNCHANGED <<srec, sbox, slayout, sruns>>

\* Faulty variant: the marker is written over whatever marker is there.
MarkRunningOver(c) ==
  /\ scall[c].at = "ready"
  /\ srec' = [srec EXCEPT ![Key(c)].running = Asks(c).digest]
  /\ SbGo(c, "marked")
  /\ UNCHANGED <<sbBounds, sslots, sbox, sready, slayout, sruns>>

\* createExclusiveJSON makes the marker, or the request is refused: the
\* outcome of the run that made the marker is not known here.
MarkRunning(c) ==
  /\ scall[c].at = "ready"
  /\ IF srec[Key(c)].running = ""
     THEN /\ srec' = [srec EXCEPT ![Key(c)].running = Asks(c).digest]
          /\ SbGo(c, "marked") /\ UNCHANGED sslots
     ELSE SbEnd(c, "conflict") /\ sslots' = sslots \ {c} /\ UNCHANGED srec
  /\ UNCHANGED <<sbBounds, sbox, sready, slayout, sruns>>

-----------------------------------------------------------------------------
(* podmanEngine.Run *)

CreateContainer(c) ==
  /\ scall[c].at = "marked"
  /\ sbox' = [sbox EXCEPT ![Key(c)] = "created"]
  /\ SbGo(c, "created")
  /\ UNCHANGED <<sbBounds, sslots, srec, sready, slayout, sruns>>

\* An ambiguous create is cleaned up by the container's name.
SandboxCreateFails(c) ==
  /\ scall[c].at = "marked" /\ SbSpend("faults")
  /\ \E made \in BOOLEAN : sbox' = [sbox EXCEPT ![Key(c)] = IF made THEN "created" ELSE @]
  /\ SbGo(c, "failing")
  /\ UNCHANGED <<sslots, srec, sready, slayout, sruns>>

SandboxStartContainer(c) ==
  /\ scall[c].at = "created"
  /\ sbox' = [sbox EXCEPT ![Key(c)] = "running"]
  /\ sruns' = [sruns EXCEPT ![Key(c)] = Append(@, [digest |-> Asks(c).digest, where |-> scall[c].where])]
  /\ SbGo(c, "started")
  /\ UNCHANGED <<sbBounds, sslots, srec, sready, slayout>>

\* The program ends on its own.
ContainerExits(k) ==
  /\ sbox[k] = "running"
  /\ sbox' = [sbox EXCEPT ![k] = "exited"]
  /\ UNCHANGED <<sbBounds, scall, sslots, srec, sready, slayout, sruns>>

\* wait and streamLogs
CollectOutput(c) ==
  /\ scall[c].at = "started" /\ sbox[Key(c)] = "exited"
  /\ SbGo(c, "collected")
  /\ UNCHANGED <<sbBounds, sslots, srec, sbox, sready, slayout, sruns>>

\* The time limit, a caller that is gone, or an engine error while it runs.
RunBreaks(c) ==
  /\ scall[c].at \in {"created", "started"}
  /\ SbSpend("cancels")
  /\ SbGo(c, "failing")
  /\ UNCHANGED <<sslots, srec, sbox, sready, slayout, sruns>>

\* The container is removed by force, under a context of its own.
SandboxCleanup(c) ==
  /\ scall[c].at \in {"collected", "failing"}
  /\ sbox' = [sbox EXCEPT ![Key(c)] = "none"]
  /\ SbGo(c, IF scall[c].at = "collected" THEN "ran" ELSE "broken")
  /\ UNCHANGED <<sbBounds, sslots, srec, sready, slayout, sruns>>

\* A removal that fails makes the whole run fail, its result included.
CleanupFails(c) ==
  /\ scall[c].at \in {"collected", "failing"} /\ SbSpend("faults")
  /\ SbGo(c, "leaked")
  /\ UNCHANGED <<sslots, srec, sbox, sready, slayout, sruns>>

\* A failed run keeps its marker: the effect is never repeated.
EndBroken(c) ==
  /\ scall[c].at \in {"broken", "leaked"} /\ sready.holder = {}
  /\ sready' = [sready EXCEPT !.ok = FALSE]
  /\ sslots' = sslots \ {c}
  /\ SbEnd(c, IF scall[c].at = "leaked" THEN "leaked" ELSE "failed")
  /\ UNCHANGED <<sbBounds, srec, sbox, slayout, sruns>>

\* The completed receipt is stored beside the marker before the answer.
StoreCompleted(c) ==
  /\ scall[c].at = "ran" /\ sready.holder = {}
  /\ sready' = [sready EXCEPT !.ok = TRUE]
  /\ srec' = [srec EXCEPT ![Key(c)].done = Asks(c).digest]
  /\ sslots' = sslots \ {c}
  /\ SbEnd(c, "completed")
  /\ UNCHANGED <<sbBounds, sbox, slayout, sruns>>

StoreFails(c) ==
  /\ scall[c].at = "ran" /\ sready.holder = {} /\ SbSpend("faults")
  /\ sready' = [sready EXCEPT !.ok = TRUE]
  /\ sslots' = sslots \ {c}
  /\ SbEnd(c, "internal")
  /\ UNCHANGED <<srec, sbox, slayout, sruns>>

-----------------------------------------------------------------------------
(* Status, the layout, a crash *)

\* Status attests and may run a probe of its own, outside the slots.
StatusProbes ==
  /\ sready.holder = {} /\ ~sready.ok /\ SbSpend("probes")
  /\ sready' = [sready EXCEPT !.ok = TRUE]
  /\ UNCHANGED <<scall, sslots, srec, sbox, slayout, sruns>>

\* Someone creates or removes a repository at the workspace root.
LayoutMoves ==
  /\ SbSpend("moves")
  /\ slayout' = IF slayout = "direct" THEN "multi" ELSE "direct"
  /\ UNCHANGED <<scall, sslots, srec, sbox, sready, sruns>>

\* The executor dies: containers and receipts stay, calls are cut.
ExecutorDies ==
  /\ SbSpend("crashes")
  /\ scall' = [c \in SandboxCalls |->
                 IF scall[c].at \in {"new", "answered"} THEN scall[c]
                 ELSE [scall[c] EXCEPT !.at = "answered", !.answer = "cut"]]
  /\ sslots' = {}
  /\ sready' = [ok |-> FALSE, holder |-> {}]
  /\ UNCHANGED <<srec, sbox, slayout, sruns>>

-----------------------------------------------------------------------------
SandboxServe(c) ==
  \/ LookBefore(c) \/ Admit(c) \/ LookAfter(c) \/ SandboxPreflight(c) \/ Attested(c)
  \/ EnsureReady(c) \/ ProbePasses(c) \/ MarkRunning(c)
  \/ CreateContainer(c) \/ SandboxStartContainer(c) \/ CollectOutput(c) \/ SandboxCleanup(c)
  \/ EndBroken(c) \/ StoreCompleted(c)

Mishap(c) ==
  \/ Abandon(c) \/ AttestFails(c) \/ ProbeFails(c) \/ SandboxCreateFails(c)
  \/ RunBreaks(c) \/ CleanupFails(c) \/ StoreFails(c)

SandboxNext ==
  \/ \E c \in SandboxCalls : SendRun(c) \/ SandboxServe(c) \/ Mishap(c)
  \/ \E k \in SandboxKeys : ContainerExits(k)
  \/ StatusProbes \/ LayoutMoves \/ ExecutorDies

\* Every handler is a goroutine of its own; a program ends or is timed out.
SandboxFair ==
  /\ \A c \in SandboxCalls : SF_sbVars(SandboxServe(c))
  /\ \A k \in SandboxKeys : WF_sbVars(ContainerExits(k))

SandboxSpec == SandboxInit /\ [][SandboxNext]_sbVars /\ SandboxFair

-----------------------------------------------------------------------------
(* One key starts one program at most, whatever two requests with the key,  *)
(* lost engine answers and restarts of the executor do between its checks   *)
(* (Execute, createExclusiveJSON).                                          *)
KeyRunsOnce == \A k \in SandboxKeys : Len(sruns[k]) <= 1

(* A caller told of completion asked for the very command that ran: two     *)
(* requests that share a key and differ in content never share a result.    *)
CompletedAsAsked ==
  \A c \in SandboxCalls :
    scall[c].answer = "completed" =>
      Len(sruns[Key(c)]) = 1 /\ sruns[Key(c)][1].digest = Asks(c).digest

(* Every start is in the directory its caller named, or there is no start:  *)
(* client and executor split the path on their own, and a repository may    *)
(* have appeared at the root in between.                                    *)
RunsWhereAsked ==
  \A k \in SandboxKeys : \A i \in DOMAIN sruns[k] :
    \E c \in SandboxCalls : Key(c) = k /\ sruns[k][i].where = Asks(c).dir

(* An answer other than a failed removal leaves no container of its run     *)
(* behind, and none is left while no request is being served and none was   *)
(* cut: the engine is asked to remove by name even after a lost create.     *)
NoContainerLeft ==
  \A k \in SandboxKeys :
    (/\ \A c \in SandboxCalls : Key(c) = k => scall[c].at \in {"new", "answered"}
     /\ \A c \in SandboxCalls : Key(c) = k => scall[c].answer \notin {"cut", "leaked"})
    => sbox[k] = "none"

(* Every request is answered: no early return keeps a slot, and nobody who  *)
(* holds a slot waits for someone who waits for one.                        *)
EveryCallAnswered ==
  \A c \in SandboxCalls : []<>(scall[c].at # "sent")

=============================================================================
