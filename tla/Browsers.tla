------------------------------ MODULE Browsers ------------------------------
(***************************************************************************)
(* Browsers on an Edge: managed sessions, and harness runs in a toolbox    *)
(* container. Each part has its own variables and its own specification.   *)
(***************************************************************************)
EXTENDS Integers, FiniteSets

-----------------------------------------------------------------------------
(***************************************************************************)
(* The managed browser sessions of an Edge: ProjectBrowserManager of        *)
(* internal/edgeclient/project_browser.go.  A session is a row of           *)
(* browser.db, a private profile directory and the screenshots taken in it; *)
(* a browser run is one control operation, journalled by a receipt under    *)
(* its operation id.  The workers of the Edge's control loop share one      *)
(* manager.  Its mutex covers the start and the end of a run but not the    *)
(* run itself, which Chromium makes outside the lock; an Edge that dies     *)
(* takes its Chromium with it (bwrap --die-with-parent) and delivers its    *)
(* unanswered operations again when it returns.                             *)
(***************************************************************************)

CONSTANTS BrowserWorkers, \* the control loop's workers
          BrowserIds,     \* session identities, drawn in order
          BrowserOps,     \* browser run operations
          BsBounds        \* records [projects, faults, crashes, cleanups]

VARIABLES bsBounds, \* the bounds of this behaviour, less what is spent
          bdb,      \* browser.db: sessions, receipts, screenshot rows
          bfs,      \* profile directories and screenshot files on the disk
          bwork,    \* what each worker is doing
          bruns     \* how often Chromium ran each operation

bsVars == <<bsBounds, bdb, bfs, bwork, bruns>>

BsAtRest == [pc |-> "rest", s |-> 0, op |-> 0, rev |-> 0]

NoSessionRow == [state |-> "none", project |-> "", rev |-> 0]

BsInit ==
    /\ bsBounds \in BsBounds
    /\ bdb = [sess |-> [s \in BrowserIds |-> NoSessionRow],
              receipt |-> [o \in BrowserOps |-> [state |-> "none", s |-> 0]],
              shots |-> {},   \* pairs <<operation, session>>
              up |-> TRUE]
    /\ bfs = [profiles |-> {}, files |-> {}]
    /\ bwork = [w \in BrowserWorkers |-> BsAtRest]
    /\ bruns = [o \in BrowserOps |-> 0]

(***************************************************************************)
(* m.mu: held by a worker between the steps of a create, of the end of a    *)
(* run and of a cleanup, and free while Chromium runs.                      *)
(***************************************************************************)
MuHeld == \E w \in BrowserWorkers : bwork[w].pc \notin {"rest", "launch", "browse", "return"}

BsGo(w, pc) == bwork' = [bwork EXCEPT ![w].pc = pc]

BsRest(w) == bwork' = [bwork EXCEPT ![w] = BsAtRest]

BsSpend(what) ==
    /\ bsBounds[what] > 0
    /\ bsBounds' = [bsBounds EXCEPT ![what] = @ - 1]

BrowserRow(s) == bdb.sess[s]

WriteRow(s, state) ==
    bdb' = [bdb EXCEPT !.sess[s].state = state, !.sess[s].rev = @ + 1]

(***************************************************************************)
(* Create.  The caller's one key is looked up within the project; the       *)
(* profile is made before the row, and the row's key is unique in the whole *)
(* table, so a second project's create with that key fails on the insert.   *)
(***************************************************************************)
CreateProfile(w, p) ==
    /\ bdb.up /\ ~MuHeld /\ bwork[w].pc = "rest"
    /\ p \in bsBounds.projects
    /\ \A s \in BrowserIds : BrowserRow(s).state # "none" => BrowserRow(s).project # p
    /\ \E s \in BrowserIds :
          /\ s \notin bfs.profiles /\ BrowserRow(s).state = "none"
          /\ \A t \in BrowserIds : t < s => (t \in bfs.profiles \/ BrowserRow(t).rev > 0)
          /\ BrowserRow(s).rev = 0
          /\ bfs' = [bfs EXCEPT !.profiles = @ \cup {s}]
          /\ bwork' = [bwork EXCEPT ![w] = [@ EXCEPT !.pc = p, !.s = s]]
    /\ UNCHANGED <<bsBounds, bdb, bruns>>

InsertSession(w) ==
    /\ bwork[w].pc \in {"p", "q"}
    /\ bdb' = IF \E s \in BrowserIds : BrowserRow(s).state # "none"
              THEN bdb    \* idempotency_key TEXT NOT NULL UNIQUE
              ELSE [bdb EXCEPT !.sess[bwork[w].s] =
                       [state |-> "ready", project |-> bwork[w].pc, rev |-> 1]]
    /\ BsRest(w)
    /\ UNCHANGED <<bsBounds, bfs, bruns>>

(***************************************************************************)
(* Run.  An operation that has a receipt is answered from it and changes    *)
(* nothing.  Otherwise one transaction inserts the receipt and takes a      *)
(* ready session; Chromium then works outside the lock.                     *)
(***************************************************************************)
MayRun(o) == bdb.receipt[o].state = "none"

Takeable(s) == BrowserRow(s).state = "ready"

Taken(o, s) ==
    [bdb EXCEPT !.receipt[o] = [state |-> "running", s |-> s],
                !.sess[s].state = "busy",
                !.sess[s].rev = @ + 1]

BeginRun(w, o, s) ==
    /\ bdb.up /\ ~MuHeld /\ bwork[w].pc = "rest"
    /\ \A v \in BrowserWorkers : bwork[v].op # o
    /\ MayRun(o) /\ Takeable(s)
    /\ bdb' = Taken(o, s)
    /\ bwork' = [bwork EXCEPT ![w] = [pc |-> "launch", s |-> s, op |-> o,
                                      rev |-> BrowserRow(s).rev + 1]]
    /\ UNCHANGED <<bsBounds, bfs, bruns>>

\* The transaction committed but its answer was an error: the run is
\* refused, the session stays busy and the receipt running.
BeginRunUnsure(w, o, s) ==
    /\ bdb.up /\ ~MuHeld /\ bwork[w].pc = "rest"
    /\ \A v \in BrowserWorkers : bwork[v].op # o
    /\ MayRun(o) /\ Takeable(s)
    /\ BsSpend("faults")
    /\ bdb' = Taken(o, s)
    /\ UNCHANGED <<bfs, bwork, bruns>>

\* runner.Run: Chromium opens the profile and performs the steps.
Launch(w) ==
    /\ bwork[w].pc = "launch"
    /\ bruns' = [bruns EXCEPT ![bwork[w].op] = @ + 1]
    /\ BsGo(w, "browse")
    /\ UNCHANGED <<bsBounds, bdb, bfs>>

BrowserEnds(w) ==
    /\ bwork[w].pc = "browse"
    /\ BsGo(w, "return")
    /\ UNCHANGED <<bsBounds, bdb, bfs, bruns>>

(***************************************************************************)
(* The end of a run, under the lock again: either the screenshot's file and *)
(* row and then one transaction for session and receipt, or, on any         *)
(* failure, markIndeterminate's two unguarded writes.                       *)
(***************************************************************************)
RunFails(w) ==
    /\ bwork[w].pc = "return" /\ ~MuHeld
    /\ BsSpend("faults")
    /\ BsGo(w, "markSession")
    /\ UNCHANGED <<bdb, bfs, bruns>>

StoreFile(w) ==
    /\ bwork[w].pc = "return" /\ ~MuHeld
    /\ bfs' = [bfs EXCEPT !.files = @ \cup {bwork[w].op}]
    /\ BsGo(w, "shotRow")
    /\ UNCHANGED <<bsBounds, bdb, bruns>>

StoreRow(w) ==
    /\ bwork[w].pc = "shotRow"
    /\ bdb' = [bdb EXCEPT !.shots = @ \cup {<<bwork[w].op, bwork[w].s>>}]
    /\ BsGo(w, "finish")
    /\ UNCHANGED <<bsBounds, bfs, bruns>>

StoreRowFails(w) ==
    /\ bwork[w].pc = "shotRow"
    /\ BsSpend("faults")
    /\ bfs' = [bfs EXCEPT !.files = @ \ {bwork[w].op}]
    /\ BsGo(w, "markSession")
    /\ UNCHANGED <<bdb, bruns>>

FinishedRun(w) ==
    [bdb EXCEPT !.sess[bwork[w].s].state = "ready",
                !.sess[bwork[w].s].rev = bwork[w].rev + 1,
                !.receipt[bwork[w].op].state =
                    IF @ = "running" THEN "succeeded" ELSE @]

FinishRun(w) ==
    /\ bwork[w].pc = "finish"
    /\ bdb' = FinishedRun(w)
    /\ BsRest(w)
    /\ UNCHANGED <<bsBounds, bfs, bruns>>

FinishRunFails(w) ==
    /\ bwork[w].pc = "finish"
    /\ BsSpend("faults")
    /\ BsGo(w, "markSession")
    /\ UNCHANGED <<bdb, bfs, bruns>>

MarkSession(w) ==
    /\ bwork[w].pc = "markSession"
    /\ WriteRow(bwork[w].s, "ready")
    /\ BsGo(w, "markReceipt")
    /\ UNCHANGED <<bsBounds, bfs, bruns>>

\* The error of markIndeterminate's first write is ignored.
MarkSessionFails(w) ==
    /\ bwork[w].pc = "markSession"
    /\ BsSpend("faults")
    /\ BsGo(w, "markReceipt")
    /\ UNCHANGED <<bdb, bfs, bruns>>

MarkReceipt(w) ==
    /\ bwork[w].pc = "markReceipt"
    /\ bdb' = [bdb EXCEPT !.receipt[bwork[w].op].state =
                  IF @ = "running" THEN "indeterminate" ELSE @]
    /\ BsRest(w)
    /\ UNCHANGED <<bsBounds, bfs, bruns>>

(***************************************************************************)
(* CloseSession and Cleanup.  Only a session that is not busy is closed and *)
(* only closed sessions are removed: screenshots, then profile, then row.   *)
(***************************************************************************)

CloseSession(w, s) ==
    /\ bdb.up /\ ~MuHeld /\ bwork[w].pc = "rest"
    /\ BrowserRow(s).state = "ready"
    /\ WriteRow(s, "closed")
    /\ UNCHANGED <<bsBounds, bfs, bwork, bruns>>

BeginCleanup(w, s) ==
    /\ bdb.up /\ ~MuHeld /\ bwork[w].pc = "rest"
    /\ BrowserRow(s).state = "closed"
    /\ BsSpend("cleanups")
    /\ bwork' = [bwork EXCEPT ![w] = [BsAtRest EXCEPT !.pc = "cleanShots", !.s = s]]
    /\ UNCHANGED <<bdb, bfs, bruns>>

ShotsOf(s) == {o \in BrowserOps : <<o, s>> \in bdb.shots}

CleanShot(w) ==
    /\ bwork[w].pc = "cleanShots"
    /\ \E o \in ShotsOf(bwork[w].s) \cap bfs.files :
          bfs' = [bfs EXCEPT !.files = @ \ {o}]
    /\ UNCHANGED <<bsBounds, bdb, bwork, bruns>>

CleanProfile(w) ==
    /\ bwork[w].pc = "cleanShots"
    /\ ShotsOf(bwork[w].s) \cap bfs.files = {}
    /\ bfs' = [bfs EXCEPT !.profiles = @ \ {bwork[w].s}]
    /\ BsGo(w, "cleanRow")
    /\ UNCHANGED <<bsBounds, bdb, bruns>>

\* The row's screenshots go with it where foreign keys are enforced.
CleanRow(w) ==
    /\ bwork[w].pc = "cleanRow"
    /\ \E shots \in {bdb.shots, {x \in bdb.shots : x[2] # bwork[w].s}} :
          bdb' = [bdb EXCEPT !.sess[bwork[w].s] = [@ EXCEPT !.state = "none"],
                             !.shots = shots]
    /\ BsRest(w)
    /\ UNCHANGED <<bsBounds, bfs, bruns>>

\* Faulty variant: the row goes before the profile and the screenshots.
(***************************************************************************)
(* The Edge dies with every call and Chromium in it; OpenProjectBrowser-    *)
(* Manager then releases the busy sessions and settles the running          *)
(* receipts, each by an update whose error is ignored.                      *)
(***************************************************************************)
BrowserEdgeDies ==
    /\ bdb.up
    /\ BsSpend("crashes")
    /\ bdb' = [bdb EXCEPT !.up = FALSE]
    /\ bwork' = [w \in BrowserWorkers |-> BsAtRest]
    /\ UNCHANGED <<bfs, bruns>>

\* Faulty variant: a running receipt of the dead Edge is forgotten.
ReceiptReopenedForgotten(r) == IF r.state = "running" THEN [r EXCEPT !.state = "none"] ELSE r

ReceiptReopened(r) ==
    IF r.state = "running" THEN [r EXCEPT !.state = "indeterminate"] ELSE r

SessionReopened(r) ==
    IF r.state = "busy" THEN [r EXCEPT !.state = "ready", !.rev = @ + 1] ELSE r

OpenProjectBrowserManager ==
    /\ ~bdb.up
    /\ bdb' = [bdb EXCEPT !.up = TRUE,
                  !.sess = [s \in BrowserIds |-> SessionReopened(@[s])],
                  !.receipt = [o \in BrowserOps |-> ReceiptReopened(@[o])]]
    /\ UNCHANGED <<bsBounds, bfs, bwork, bruns>>

OpenWithoutReceipts ==
    /\ ~bdb.up
    /\ BsSpend("faults")
    /\ bdb' = [bdb EXCEPT !.up = TRUE,
                  !.sess = [s \in BrowserIds |-> SessionReopened(@[s])]]
    /\ UNCHANGED <<bfs, bwork, bruns>>

BrowserWork(w) ==
    \/ InsertSession(w) \/ Launch(w) \/ BrowserEnds(w)
    \/ StoreFile(w) \/ StoreRow(w) \/ FinishRun(w)
    \/ MarkSession(w) \/ MarkReceipt(w)
    \/ CleanShot(w) \/ CleanProfile(w) \/ CleanRow(w)

BsNext ==
    \/ \E w \in BrowserWorkers, p \in {"p", "q"} : CreateProfile(w, p)
    \/ \E w \in BrowserWorkers, o \in BrowserOps, s \in BrowserIds : BeginRun(w, o, s)
    \/ \E w \in BrowserWorkers, o \in BrowserOps, s \in BrowserIds : BeginRunUnsure(w, o, s)
    \/ \E w \in BrowserWorkers : BrowserWork(w)
    \/ \E w \in BrowserWorkers : RunFails(w)
    \/ \E w \in BrowserWorkers : StoreRowFails(w)
    \/ \E w \in BrowserWorkers : FinishRunFails(w)
    \/ \E w \in BrowserWorkers : MarkSessionFails(w)
    \/ \E w \in BrowserWorkers, s \in BrowserIds : CloseSession(w, s)
    \/ \E w \in BrowserWorkers, s \in BrowserIds : BeginCleanup(w, s)
    \/ BrowserEdgeDies
    \/ OpenProjectBrowserManager
    \/ OpenWithoutReceipts

\* The mutex is a Go mutex, so a worker that waits for it gets it in the
\* end; Chromium runs under the operation's own timeout.
BsFair ==
    /\ \A w \in BrowserWorkers : SF_bsVars(BrowserWork(w))
    /\ WF_bsVars(OpenProjectBrowserManager)

BsSpec == BsInit /\ [][BsNext]_bsVars /\ BsFair

-----------------------------------------------------------------------------

\* An operation's steps are performed by Chromium at most once, however
\* often a worker, a lost answer or a restarted Edge presents it again.
BrowsesOnce == \A o \in BrowserOps : bruns[o] =< 1

Browsing(w) == bwork[w].pc \in {"launch", "browse"}

\* A profile is opened by one Chromium at a time, and no create, close,
\* cleanup or restart takes the directory from under it.
ProfileAlone ==
    \A v, w \in BrowserWorkers :
        Browsing(v) => /\ bwork[v].s \in bfs.profiles
                       /\ (Browsing(w) /\ v # w => bwork[v].s # bwork[w].s)

\* The screenshot named by a succeeded receipt can be read for as long as
\* its session has not been closed: both its row and its file are there.
SucceededReadable ==
    \A o \in BrowserOps :
        LET r == bdb.receipt[o] IN
        r.state = "succeeded" /\ BrowserRow(r.s).state \in {"ready", "busy"}
            => o \in bfs.files /\ <<o, r.s>> \in bdb.shots

\* When a session's row is gone its profile and its recorded screenshots
\* are gone from the disk, wherever a crash interrupted the cleanup.
CleanedWhole ==
    \A s \in BrowserIds :
        BrowserRow(s).state = "none" /\ BrowserRow(s).rev > 0
                   => /\ s \notin bfs.profiles
                      /\ \A o \in BrowserOps : bdb.receipt[o].state = "succeeded" /\ bdb.receipt[o].s = s
                                                  => o \notin bfs.files

\* Whoever changes a session's row raises its revision, although the end of
\* a run writes a revision computed from what was read before the run.
RevisionGrows ==
    [][\A s \in BrowserIds :
          bdb.sess[s].state # bdb'.sess[s].state /\ bdb'.sess[s].state # "none"
              => bdb'.sess[s].rev > bdb.sess[s].rev]_bsVars

\* A session whose run is under way is released again once the database
\* has stopped failing: by the end of the run or by the next start.
BusyReleased ==
    \A s \in BrowserIds :
        (/\ BrowserRow(s).state = "busy" /\ bsBounds.faults = 0
         /\ \E w \in BrowserWorkers :
                bwork[w].s = s /\ bwork[w].pc \in {"launch", "browse", "return", "markSession"})
            ~> (BrowserRow(s).state # "busy")

-----------------------------------------------------------------------------
(***************************************************************************)
(* Browser harness runs: arbitrary argv in a project's toolbox container,   *)
(* internal/edgeclient/project_browser_harness_unix.go.  Each run has a     *)
(* supervisor, a shell script started by `exec --detach`, which forks the   *)
(* caller's program and writes small control files into the run's           *)
(* directory; a record in the toolbox's JSON file, written by the Edge; and *)
(* status and stop scripts that the Edge executes in the container and      *)
(* whose verdict it combines with the control files it reads itself.  The   *)
(* Edge's operations exclude each other (workspace lock and mutex), but the *)
(* supervisor and the program run beside every step of them.                *)
(***************************************************************************)

CONSTANTS HarnessRuns,  \* idempotency keys, one run each, one shared profile
          BhBounds      \* records [runs, going, calls, faults, lost, crashes, downs, limit]

VARIABLES bhBounds, \* the bounds of this behaviour, less what is spent
          brec,     \* the durable record: run -> state, "none" when absent
          bctl,     \* each run's control files
          bsup,     \* each run's supervisor: where it is in its script
          bprog,    \* each run's program
          bbox,     \* whether the container runs, whether the profile is there
          bedge     \* the Edge's operation in progress

bhVars == <<bhBounds, brec, bctl, bsup, bprog, bbox, bedge>>

NoFiles == [root |-> FALSE, state |-> "", identity |-> "", reason |-> "", exit |-> ""]

FilesOfRunning ==
    [NoFiles EXCEPT !.root = TRUE, !.state = "running", !.identity = "good"]

EdgeFree == [pc |-> "free", run |-> 0, saw |-> "", told |-> "", wipe |-> FALSE]

browserHarnessTerminal(state) ==
    state \in {"exited", "failed", "stopped", "timed_out", "storage_exceeded", "indeterminate"}

browserHarnessStateValid(state) ==
    browserHarnessTerminal(state) \/ state \in {"starting", "running"}

BhInit ==
    /\ bhBounds \in BhBounds
    /\ LET going == bhBounds.going IN
       /\ brec = [r \in HarnessRuns |-> IF r \in going THEN "running" ELSE "none"]
       /\ bctl = [r \in HarnessRuns |-> IF r \in going THEN FilesOfRunning ELSE NoFiles]
       /\ bsup = [r \in HarnessRuns |-> IF r \in going THEN "watch" ELSE "none"]
       /\ bprog = [r \in HarnessRuns |-> IF r \in going THEN "alive" ELSE "none"]
       /\ bbox = [up |-> TRUE, profile |-> going # {}]
    /\ bedge = EdgeFree

BhSpend(what) ==
    /\ bhBounds[what] > 0
    /\ bhBounds' = [bhBounds EXCEPT ![what] = @ - 1]

(***************************************************************************)
(* The supervisor script.                                                   *)
(***************************************************************************)
Announce(r) ==
    /\ bsup[r] = "ordered"
    /\ bctl' = [bctl EXCEPT ![r] = [root |-> TRUE, state |-> "starting",
                                    identity |-> @.identity, reason |-> "", exit |-> ""]]
    /\ bbox' = [bbox EXCEPT !.profile = TRUE]
    /\ bsup' = [bsup EXCEPT ![r] = "fork"]
    /\ UNCHANGED <<bhBounds, brec, bprog, bedge>>

ForkProgram(r) ==
    /\ bsup[r] = "fork"
    /\ bprog' = [bprog EXCEPT ![r] = "alive"]
    /\ bsup' = [bsup EXCEPT ![r] = "identify"]
    /\ UNCHANGED <<bhBounds, brec, bctl, bbox, bedge>>

\* The start ticks are missing when the program has already been reaped.
\* A write into a removed directory fails and the script goes on.
IdentifyProgram(r) ==
    /\ bsup[r] = "identify"
    /\ bctl' = IF bctl[r].root
               THEN [bctl EXCEPT ![r].identity = IF bprog[r] = "alive" THEN "good" ELSE "bad"]
               ELSE bctl
    /\ bsup' = [bsup EXCEPT ![r] = "declare"]
    /\ UNCHANGED <<bhBounds, brec, bprog, bbox, bedge>>

WriteState(r, state) ==
    bctl' = IF bctl[r].root THEN [bctl EXCEPT ![r].state = state] ELSE bctl

DeclareRunning(r) ==
    /\ bsup[r] = "declare"
    /\ WriteState(r, "running")
    /\ bsup' = [bsup EXCEPT ![r] = "watch"]
    /\ UNCHANGED <<bhBounds, brec, bprog, bbox, bedge>>

\* One of the two ceilings is passed: the reason is noted and terminate
\* sends TERM, waits and sends KILL.
ExceedLimit(r) ==
    /\ bsup[r] = "watch" /\ bprog[r] = "alive"
    /\ \E why \in bhBounds.limit :
          bctl' = IF bctl[r].root THEN [bctl EXCEPT ![r].reason = why] ELSE bctl
    /\ bsup' = [bsup EXCEPT ![r] = "terminate"]
    /\ UNCHANGED <<bhBounds, brec, bprog, bbox, bedge>>

TerminateProgram(r) ==
    /\ bsup[r] = "terminate"
    /\ bprog' = [bprog EXCEPT ![r] = IF @ = "alive" THEN "broke" ELSE @]
    /\ bsup' = [bsup EXCEPT ![r] = "watch"]
    /\ UNCHANGED <<bhBounds, brec, bctl, bbox, bedge>>

ReapProgram(r) ==
    /\ bsup[r] = "watch" /\ bprog[r] # "alive"
    /\ bctl' = IF bctl[r].root
               THEN [bctl EXCEPT ![r].exit = IF bprog[r] = "left" THEN "0" ELSE "1"]
               ELSE bctl
    /\ bsup' = [bsup EXCEPT ![r] = "conclude"]
    /\ UNCHANGED <<bhBounds, brec, bprog, bbox, bedge>>

Conclusion(r) ==
    IF bctl[r].reason # "" THEN bctl[r].reason
    ELSE IF bctl[r].exit = "0" THEN "exited" ELSE "failed"

\* The final state is decided, and then written: a stop may come between.
DecideState(r) ==
    /\ bsup[r] = "conclude"
    /\ bsup' = [bsup EXCEPT ![r] = Conclusion(r)]
    /\ UNCHANGED <<bhBounds, brec, bctl, bprog, bbox, bedge>>

WriteConclusion(r) ==
    /\ browserHarnessTerminal(bsup[r])
    /\ WriteState(r, bsup[r])
    /\ bsup' = [bsup EXCEPT ![r] = "done"]
    /\ UNCHANGED <<bhBounds, brec, bprog, bbox, bedge>>

Supervise(r) ==
    \/ Announce(r) \/ ForkProgram(r) \/ IdentifyProgram(r) \/ DeclareRunning(r)
    \/ TerminateProgram(r) \/ ReapProgram(r) \/ DecideState(r) \/ WriteConclusion(r)

\* The program ends by itself, well or badly.
ProgramEnds(r) ==
    /\ bprog[r] = "alive"
    /\ \E end \in {"left", "broke"} : bprog' = [bprog EXCEPT ![r] = end]
    /\ UNCHANGED <<bhBounds, brec, bctl, bsup, bbox, bedge>>

\* The container stops: everything in it dies where it is.
HarnessContainerStops ==
    /\ bbox.up
    /\ BhSpend("downs")
    /\ bbox' = [bbox EXCEPT !.up = FALSE]
    /\ bsup' = [r \in HarnessRuns |-> IF bsup[r] \in {"none", "done"} THEN bsup[r] ELSE "dead"]
    /\ bprog' = [r \in HarnessRuns |-> IF bprog[r] = "alive" THEN "broke" ELSE bprog[r]]
    /\ bedge' = IF bedge.pc \in {"free", "wipe", "wipeProfile", "forget"} THEN bedge ELSE EdgeFree
    /\ UNCHANGED <<brec, bctl>>

(***************************************************************************)
(* The Edge's operations.  Each takes the workspace lock, so one is in      *)
(* progress at a time.                                                      *)
(***************************************************************************)
EdgeTo(pc) == bedge' = [bedge EXCEPT !.pc = pc]

\* BrowserHarnessStart: the container is started if it is not running; a
\* known key is answered by a status; a new run gets its directories and
\* its durable record before anything is executed.
BrowserHarnessStart(r) ==
    /\ bedge.pc = "free" /\ BhSpend("calls") /\ r \in bhBounds.runs
    /\ bbox' = [up |-> TRUE, profile |-> bbox.profile \/ brec[r] = "none"]
    /\ IF brec[r] = "none"
       THEN /\ bsup[r] \in {"none", "done", "dead"}
            /\ bprog[r] # "alive"
            /\ bctl' = [bctl EXCEPT ![r] = [NoFiles EXCEPT !.root = TRUE]]
            /\ brec' = [brec EXCEPT ![r] = "starting"]
            /\ bedge' = [EdgeFree EXCEPT !.pc = "order", !.run = r]
       ELSE /\ bedge' = [EdgeFree EXCEPT !.pc = "look", !.run = r]
            /\ UNCHANGED <<brec, bctl>>
    /\ UNCHANGED <<bsup, bprog>>

OrderSupervisor ==
    /\ bedge.pc = "order"
    /\ bsup' = [bsup EXCEPT ![bedge.run] = "ordered"]
    /\ bprog' = [bprog EXCEPT ![bedge.run] = "none"]
    /\ EdgeTo("look")
    /\ UNCHANGED <<bhBounds, brec, bctl, bbox>>

\* The exec fails, or (lost) fails after it has started the supervisor: the
\* record and the directory go.
OrderFails ==
    /\ bedge.pc = "order"
    /\ \/ /\ BhSpend("faults")
          /\ UNCHANGED <<bsup, bprog>>
       \/ /\ BhSpend("lost")
          /\ bsup' = [bsup EXCEPT ![bedge.run] = "ordered"]
          /\ bprog' = [bprog EXCEPT ![bedge.run] = "none"]
    /\ brec' = [brec EXCEPT ![bedge.run] = "none"]
    /\ bctl' = [bctl EXCEPT ![bedge.run] = NoFiles]
    /\ bedge' = EdgeFree
    /\ UNCHANGED bbox

BrowserHarnessStatus(r) ==
    /\ bedge.pc = "free" /\ BhSpend("calls")
    /\ brec[r] # "none"
    /\ bedge' = [EdgeFree EXCEPT !.pc = "look", !.run = r]
    /\ UNCHANGED <<brec, bctl, bsup, bprog, bbox>>

\* browserHarnessStatusLocked asks the status script, which first reads the
\* state file, unless the record is terminal already or the container down.
AskState ==
    /\ bedge.pc = "look"
    /\ LET was == brec[bedge.run] IN
       bedge' = IF browserHarnessTerminal(was)
                THEN [bedge EXCEPT !.pc = "apply", !.told = was]
                ELSE IF ~bbox.up
                THEN [bedge EXCEPT !.pc = "apply", !.told = "indeterminate"]
                ELSE [bedge EXCEPT !.pc = "inspect",
                         !.saw = IF bctl[bedge.run].state = "" THEN "indeterminate"
                                 ELSE bctl[bedge.run].state]
    /\ UNCHANGED <<bhBounds, brec, bctl, bsup, bprog, bbox>>

\* The identity recorded is that of a live process of this run.
IdentityLive(r) == bctl[r].identity = "good" /\ bprog[r] = "alive"

HarnessScriptState(r, saw) ==
    IF browserHarnessTerminal(saw) THEN saw
    ELSE IF bctl[r].identity = "" /\ saw = "starting" THEN "starting"
    ELSE IF IdentityLive(r) THEN "running" ELSE "indeterminate"

InspectProgram ==
    /\ bedge.pc = "inspect"
    /\ bedge' = [bedge EXCEPT !.pc = "apply", !.saw = "",
                              !.told = HarnessScriptState(bedge.run, bedge.saw)]
    /\ UNCHANGED <<bhBounds, brec, bctl, bsup, bprog, bbox>>

\* applyProjectBrowserHarnessControlFiles: a valid state file decides.
Applied(r, told) ==
    IF browserHarnessStateValid(bctl[r].state) THEN bctl[r].state ELSE told

ApplyControlFiles ==
    /\ bedge.pc = "apply"
    /\ brec' = [brec EXCEPT ![bedge.run] = Applied(bedge.run, bedge.told)]
    /\ bedge' = EdgeFree
    /\ UNCHANGED <<bhBounds, bctl, bsup, bprog, bbox>>

BrowserHarnessStop(r) ==
    /\ bedge.pc = "free" /\ BhSpend("calls")
    /\ brec[r] # "none"
    /\ IF browserHarnessTerminal(brec[r])
       THEN bedge' = [EdgeFree EXCEPT !.pc = "look", !.run = r] /\ UNCHANGED brec
       ELSE IF ~bbox.up
       THEN brec' = [brec EXCEPT ![r] = "indeterminate"] /\ UNCHANGED bedge
       ELSE /\ bedge' = [EdgeFree EXCEPT !.pc = "stop", !.run = r,
                            !.saw = IF bctl[r].state = "" THEN "indeterminate"
                                    ELSE bctl[r].state]
            /\ UNCHANGED brec
    /\ UNCHANGED <<bctl, bsup, bprog, bbox>>

\* The stop script, after it has read the state file: a terminal state is
\* printed and makes the Edge report an error; a run without a live
\* identity is called stopped; else the reason is noted and TERM sent.
StopProgram ==
    /\ bedge.pc = "stop"
    /\ IF browserHarnessTerminal(bedge.saw)
       THEN bedge' = EdgeFree /\ UNCHANGED bctl
       ELSE IF ~IdentityLive(bedge.run)
       THEN EdgeTo("stopped") /\ UNCHANGED bctl
       ELSE /\ EdgeTo("kill")
            /\ bctl' = IF bctl[bedge.run].root
                       THEN [bctl EXCEPT ![bedge.run].reason = "stopped"] ELSE bctl
    /\ UNCHANGED <<bhBounds, brec, bsup, bprog, bbox>>

KillProgram ==
    /\ bedge.pc = "kill"
    /\ bprog' = [bprog EXCEPT ![bedge.run] = IF @ = "alive" THEN "broke" ELSE @]
    /\ WriteState(bedge.run, "stopped")
    /\ EdgeTo("stopped")
    /\ UNCHANGED <<bhBounds, brec, bsup, bbox>>

\* The record is saved as stopped and then refreshed by a status.
RecordStopped ==
    /\ bedge.pc = "stopped"
    /\ brec' = [brec EXCEPT ![bedge.run] = "stopped"]
    /\ EdgeTo("look")
    /\ UNCHANGED <<bhBounds, bctl, bsup, bprog, bbox>>

(***************************************************************************)
(* BrowserHarnessCleanup of every terminal run: directories first, then the *)
(* shared profile if it is asked for and no kept run uses it, and one save  *)
(* of the record at the end.                                                *)
(***************************************************************************)
HarnessCleanable(r) == browserHarnessTerminal(brec[r])

BrowserHarnessCleanup(wipe) ==
    /\ bedge.pc = "free" /\ BhSpend("calls")
    /\ \E r \in HarnessRuns : HarnessCleanable(r)
    /\ bedge' = [EdgeFree EXCEPT !.pc = "wipe", !.wipe = wipe]
    /\ UNCHANGED <<brec, bctl, bsup, bprog, bbox>>

RemoveRunRoots ==
    /\ bedge.pc = "wipe"
    /\ bctl' = [r \in HarnessRuns |-> IF HarnessCleanable(r) THEN NoFiles ELSE bctl[r]]
    /\ EdgeTo("wipeProfile")
    /\ UNCHANGED <<bhBounds, brec, bsup, bprog, bbox>>

ProfileUnused == \A r \in HarnessRuns : brec[r] # "none" => HarnessCleanable(r)

RemoveProfile ==
    /\ bedge.pc = "wipeProfile"
    /\ bbox' = IF bedge.wipe /\ ProfileUnused THEN [bbox EXCEPT !.profile = FALSE] ELSE bbox
    /\ EdgeTo("forget")
    /\ UNCHANGED <<bhBounds, brec, bctl, bsup, bprog>>

ForgetRuns ==
    /\ bedge.pc = "forget"
    /\ brec' = [r \in HarnessRuns |-> IF HarnessCleanable(r) THEN "none" ELSE brec[r]]
    /\ bedge' = EdgeFree
    /\ UNCHANGED <<bhBounds, bctl, bsup, bprog, bbox>>

\* The Edge dies in the middle of an operation; the container goes on.
HarnessEdgeDies ==
    /\ bedge.pc # "free"
    /\ BhSpend("crashes")
    /\ bedge' = EdgeFree
    /\ UNCHANGED <<brec, bctl, bsup, bprog, bbox>>

HarnessEdgeWorks ==
    \/ OrderSupervisor \/ AskState \/ InspectProgram \/ ApplyControlFiles
    \/ StopProgram \/ KillProgram \/ RecordStopped
    \/ RemoveRunRoots \/ RemoveProfile \/ ForgetRuns

BhNext ==
    \/ \E r \in HarnessRuns : Supervise(r)
    \/ \E r \in HarnessRuns : ExceedLimit(r)
    \/ \E r \in HarnessRuns : ProgramEnds(r)
    \/ HarnessContainerStops
    \/ \E r \in HarnessRuns : BrowserHarnessStart(r)
    \/ OrderFails
    \/ \E r \in HarnessRuns : BrowserHarnessStatus(r)
    \/ \E r \in HarnessRuns : BrowserHarnessStop(r)
    \/ \E wipe \in BOOLEAN : BrowserHarnessCleanup(wipe)
    \/ HarnessEdgeWorks
    \/ HarnessEdgeDies

\* The scripts run on their own in the container; a program that outlives
\* its timeout is ended by its supervisor.
BhFair ==
    /\ \A r \in HarnessRuns : WF_bhVars(Supervise(r)) /\ WF_bhVars(ExceedLimit(r))
    /\ WF_bhVars(HarnessEdgeWorks)

BhSpec == BhInit /\ [][BhNext]_bhVars /\ BhFair
-----------------------------------------------------------------------------

\* A record or a state file that names how the program ended (exited,
\* failed, timed out, over its storage) is only there when it has ended.
EndNamesAreTrue ==
    \A r \in HarnessRuns :
        (brec[r] \in {"exited", "failed", "timed_out", "storage_exceeded"}
            \/ browserHarnessTerminal(bctl[r].state)) => bprog[r] # "alive"

\* The profile that the runs share is never removed while the record still
\* counts one of them as going on.
ProfileKept ==
    [][bbox.profile /\ ~bbox'.profile
          => \A r \in HarnessRuns : brec[r] \notin {"starting", "running"}]_bhVars

\* A status or a stop that answers "stopped" answers the truth: a stop that
\* overtook the start of the program does not.
StoppedToldTrue ==
    [][\A r \in HarnessRuns :
          (/\ bedge.pc = "apply" /\ bedge.run = r
           /\ bedge' = EdgeFree /\ bhBounds' = bhBounds /\ brec'[r] = "stopped")
              => bprog[r] # "alive" /\ bsup[r] \notin {"ordered", "fork"}]_bhVars

\* Every program that is started comes to an end that its control file
\* names, as long as its container and its directory stay.
RunConcludes ==
    \A r \in HarnessRuns :
        (bsup[r] = "identify")
            ~> (browserHarnessTerminal(bctl[r].state) \/ ~bctl[r].root \/ bsup[r] = "dead")

=============================================================================
