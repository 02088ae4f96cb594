--------------------------- MODULE WorktreeTests ----------------------------
(***************************************************************************)
(* The test attempt of one managed worktree on the Edge                    *)
(* (internal/edgeclient/project_process_worktree.go, with the content      *)
(* digest of project_worktree_content_unix.go).                            *)
(*                                                                         *)
(* An attempt captures the source (head and digest, each read twice),      *)
(* stores a record, starts the operator's test command as a durable        *)
(* process, binds it to the record and arms a timer.  The process outlives *)
(* the Edge; the record belongs to the Edge generation that wrote it, and  *)
(* the next generation invalidates it and stops the process.  A digest is  *)
(* read file by file while others may edit.                                *)
(*                                                                         *)
(* A version of a file never comes back, so equal digests at two moments   *)
(* mean that nothing was edited between them.                              *)
(***************************************************************************)
EXTENDS Naturals

CONSTANTS WtFiles,    \* how many files the digest covers
          WtBounds    \* the bounds of a behaviour

VARIABLES wtBounds,  \* the bounds of this behaviour
          tsrc,      \* the source: file versions, head, test profile, the contents it has had
          trec,      \* the record of the attempt
          tproc,     \* the test process
          tmgr,      \* the manager in memory: generation, timer, the start in flight
          tread      \* the status call in flight

wtVars == <<wtBounds, tsrc, trec, tproc, tmgr, tread>>

Unread == [f \in 1 .. WtFiles |-> 0]

NoAttempt == [there |-> FALSE, bound |-> FALSE, gen |-> 0, invalid |-> FALSE, digest |-> Unread, head |-> 0, profile |-> 0, timedOut |-> FALSE]
NoTest == [state |-> "none", began |-> Unread, over |-> Unread]
NoCapture == [at |-> "idle", f |-> 0, head |-> 0, profile |-> 0, first |-> Unread, second |-> Unread]
NoRead == [at |-> "idle", f |-> 0, ended |-> FALSE, digest |-> Unread, out |-> "none"]

WtInit ==
    /\ wtBounds \in WtBounds
    /\ tsrc = [file |-> [f \in 1 .. WtFiles |-> 1], head |-> 1, profile |-> 1, past |-> {[f \in 1 .. WtFiles |-> 1]}]
    /\ trec = NoAttempt
    /\ tproc = NoTest
    /\ tmgr = [up |-> TRUE, gen |-> 1, timer |-> FALSE, sweep |-> "idle", start |-> NoCapture, slip |-> FALSE]
    /\ tread = NoRead

WtSpend(k) == wtBounds[k] > 0 /\ wtBounds' = [wtBounds EXCEPT ![k] = @ - 1]

TestEnded == tproc.state \notin {"none", "running", "stopping"}

-----------------------------------------------------------------------------
(***************************************************************************)
(* Edits by others, the test command itself included.                      *)
(***************************************************************************)
EditFile(f) ==
    /\ WtSpend("edits")
    /\ LET now == [tsrc.file EXCEPT ![f] = @ + 1]
       IN  tsrc' = [tsrc EXCEPT !.file = now, !.past = @ \union {now}]
    /\ UNCHANGED <<trec, tproc, tmgr, tread>>

TestCommitSource ==
    /\ WtSpend("commits")
    /\ tsrc' = [tsrc EXCEPT !.head = @ + 1]
    /\ UNCHANGED <<trec, tproc, tmgr, tread>>

(***************************************************************************)
(* The operator replaces the test profile.                                 *)
(***************************************************************************)
EditProfile ==
    /\ WtSpend("profiles")
    /\ tsrc' = [tsrc EXCEPT !.profile = @ + 1]
    /\ UNCHANGED <<trec, tproc, tmgr, tread>>

ReadProfile == tsrc.profile

TestExits ==
    /\ tproc.state = "running"
    /\ tproc' = [tproc EXCEPT !.state = "exited", !.over = tsrc.file]
    /\ UNCHANGED <<wtBounds, tsrc, trec, tmgr, tread>>

TestDies ==
    /\ tproc.state = "stopping"
    /\ tproc' = [tproc EXCEPT !.state = "stopped", !.over = tsrc.file]
    /\ UNCHANGED <<wtBounds, tsrc, trec, tmgr, tread>>

StoppedProcess == IF tproc.state = "running" THEN [tproc EXCEPT !.state = "stopping"] ELSE tproc

(***************************************************************************)
(* The next file of a digest.  A file that changes while it is read fails  *)
(* the digest, so each is read as it is at one moment.                     *)
(***************************************************************************)
OpenedFile(f) == tsrc.file[f]

Hashed(d, f) == [d EXCEPT ![f] = OpenedFile(f)]

-----------------------------------------------------------------------------
(***************************************************************************)
(* Start.                                                                  *)
(***************************************************************************)
TestReady == tmgr.up /\ tmgr.sweep = "idle"

(***************************************************************************)
(* Status and Stop are served while the manager closes.                    *)
(***************************************************************************)
Answering == tmgr.up /\ tmgr.sweep \notin {"open", "opening"}

StartAt(at) == tmgr' = [tmgr EXCEPT !.start.at = at]

StartDone == tmgr' = [tmgr EXCEPT !.start = NoCapture]

BeginStart ==
    /\ TestReady /\ tmgr.start.at = "idle" /\ ~trec.there /\ WtSpend("starts")
    /\ tmgr' = [tmgr EXCEPT !.start = [NoCapture EXCEPT !.at = "first", !.head = tsrc.head, !.profile = ReadProfile]]
    /\ UNCHANGED <<tsrc, trec, tproc, tread>>

HashFirst ==
    /\ tmgr.up /\ tmgr.start.at = "first" /\ tmgr.start.f < WtFiles
    /\ tmgr' = [tmgr EXCEPT !.start.f = @ + 1, !.start.first = Hashed(@, tmgr.start.f + 1)]
    /\ UNCHANGED <<wtBounds, tsrc, trec, tproc, tread>>

(***************************************************************************)
(* The second status: the head is still the first one.                     *)
(***************************************************************************)
SecondStatus ==
    /\ tmgr.up /\ tmgr.start.at = "first" /\ tmgr.start.f = WtFiles
    /\ IF tsrc.head = tmgr.start.head
       THEN tmgr' = [tmgr EXCEPT !.start.at = "second", !.start.f = 0]
       ELSE StartDone
    /\ UNCHANGED <<wtBounds, tsrc, trec, tproc, tread>>

HashSecond ==
    /\ tmgr.up /\ tmgr.start.at = "second" /\ tmgr.start.f < WtFiles
    /\ tmgr' = [tmgr EXCEPT !.start.f = @ + 1, !.start.second = Hashed(@, tmgr.start.f + 1)]
    /\ UNCHANGED <<wtBounds, tsrc, trec, tproc, tread>>

CaptureAgrees == tmgr.start.first = tmgr.start.second

InsertRecord ==
    /\ tmgr.up /\ tmgr.start.at = "second" /\ tmgr.start.f = WtFiles
    /\ IF CaptureAgrees
       THEN /\ trec' = [NoAttempt EXCEPT !.there = TRUE, !.gen = tmgr.gen, !.digest = tmgr.start.first, !.head = tmgr.start.head, !.profile = tmgr.start.profile]
            /\ StartAt("launch")
       ELSE StartDone /\ UNCHANGED trec
    /\ UNCHANGED <<wtBounds, tsrc, tproc, tread>>

LaunchTest ==
    /\ tmgr.up /\ tmgr.start.at = "launch"
    /\ tproc' = [state |-> "running", began |-> tsrc.file, over |-> Unread]
    /\ StartAt("bind")
    /\ UNCHANGED <<wtBounds, tsrc, trec, tread>>

LaunchFails ==
    /\ tmgr.up /\ tmgr.start.at = "launch" /\ WtSpend("faults")
    /\ tproc' = [NoTest EXCEPT !.state = "failed"]
    /\ StartDone
    /\ UNCHANGED <<tsrc, trec, tread>>

BindProcess ==
    /\ tmgr.up /\ tmgr.start.at = "bind"
    /\ trec' = [trec EXCEPT !.bound = TRUE]
    /\ StartAt("stdin")
    /\ UNCHANGED <<wtBounds, tsrc, tproc, tread>>

(***************************************************************************)
(* setProcessID or the closing of stdin failed: the process is stopped,    *)
(* unless it is known to have exited.                                      *)
(***************************************************************************)
AbandonStart ==
    /\ tmgr.up /\ tmgr.start.at \in {"bind", "stdin"} /\ WtSpend("faults")
    /\ tproc' = StoppedProcess
    /\ StartDone
    /\ UNCHANGED <<tsrc, trec, tread>>

(***************************************************************************)
(* Stdin is closed, or could not be because the test has exited.  A live   *)
(* test gets its timer; so may one whose exit has not been noticed.        *)
(***************************************************************************)
ScheduleTimeout ==
    /\ tmgr.up /\ tmgr.start.at = "stdin"
    /\ \E seen \in BOOLEAN : tmgr' = [tmgr EXCEPT !.start = NoCapture, !.timer = ~(TestEnded /\ seen)]
    /\ UNCHANGED <<wtBounds, tsrc, trec, tproc, tread>>

(***************************************************************************)
(* timeoutProcess: one shot; a failed stop is not tried again.             *)
(***************************************************************************)
TimeoutProcess ==
    /\ tmgr.up /\ tmgr.timer
    /\ tmgr' = [tmgr EXCEPT !.timer = FALSE]
    /\ IF trec.gen = tmgr.gen /\ ~trec.invalid /\ ~TestEnded
       THEN tproc' = StoppedProcess /\ trec' = [trec EXCEPT !.timedOut = TRUE]
       ELSE UNCHANGED <<tproc, trec>>
    /\ UNCHANGED <<wtBounds, tsrc, tread>>

TimeoutFails ==
    /\ tmgr.up /\ tmgr.timer /\ ~TestEnded /\ WtSpend("faults")
    /\ tmgr' = [tmgr EXCEPT !.timer = FALSE, !.slip = TRUE]
    /\ UNCHANGED <<tsrc, trec, tproc, tread>>

(***************************************************************************)
(* Stop, by the record alone: the source is not looked at.                 *)
(***************************************************************************)
TestStopTest ==
    /\ Answering /\ trec.bound /\ WtSpend("stops")
    /\ tproc' = StoppedProcess
    /\ tmgr' = [tmgr EXCEPT !.timer = FALSE]
    /\ UNCHANGED <<tsrc, trec, tread>>

-----------------------------------------------------------------------------
(***************************************************************************)
(* Status: the process first, then the evidence, read live.                *)
(***************************************************************************)
BeginStatus ==
    /\ Answering /\ tread.at = "idle" /\ trec.bound /\ WtSpend("reads")
    /\ tread' = [NoRead EXCEPT !.at = "head", !.ended = TestEnded]
    /\ UNCHANGED <<tsrc, trec, tproc, tmgr>>

ReadDone(out) == tread' = [tread EXCEPT !.at = "idle", !.out = out]

RecordStands == trec.gen = tmgr.gen /\ ~trec.invalid

StatusEvidence ==
    /\ tmgr.up /\ tread.at = "head"
    /\ \/ ~RecordStands /\ ReadDone("edge_restarted")
       \/ RecordStands /\ ReadProfile # trec.profile /\ ReadDone("profile_changed")
       \/ RecordStands /\ ReadProfile = trec.profile /\ tsrc.head # trec.head /\ ReadDone("head_changed")
       \/ RecordStands /\ ReadProfile = trec.profile /\ tsrc.head = trec.head /\ tread' = [tread EXCEPT !.at = "hash"]
    /\ UNCHANGED <<wtBounds, tsrc, trec, tproc, tmgr>>

HashStatus ==
    /\ tmgr.up /\ tread.at = "hash" /\ tread.f < WtFiles
    /\ tread' = [tread EXCEPT !.f = @ + 1, !.digest = Hashed(@, tread.f + 1)]
    /\ UNCHANGED <<wtBounds, tsrc, trec, tproc, tmgr>>


AnswerStatus ==
    /\ tmgr.up /\ tread.at = "hash" /\ tread.f = WtFiles
    /\ ReadDone(IF tread.digest = trec.digest THEN "fresh" ELSE "content_changed")
    /\ UNCHANGED <<wtBounds, tsrc, trec, tproc, tmgr>>

-----------------------------------------------------------------------------
(***************************************************************************)
(* Close waits for a start, disarms the timer, then invalidates this       *)
(* generation.  A crash does none of it.                                   *)
(***************************************************************************)

CloseTests ==
    /\ TestReady /\ tmgr.start.at = "idle" /\ WtSpend("closes")
    /\ tmgr' = [tmgr EXCEPT !.timer = FALSE, !.sweep = "close"]
    /\ UNCHANGED <<tsrc, trec, tproc, tread>>

OpenTests ==
    /\ ~tmgr.up
    /\ tmgr' = [tmgr EXCEPT !.up = TRUE, !.gen = @ + 1, !.sweep = "open"]
    /\ UNCHANGED <<wtBounds, tsrc, trec, tproc, tread>>

(***************************************************************************)
(* The records of the generation that ends, or of earlier ones, that are   *)
(* not invalid yet.                                                        *)
(***************************************************************************)
ToInvalidate == trec.there /\ ~trec.invalid /\ (tmgr.sweep = "open" => trec.gen # tmgr.gen)

SweepDone == IF tmgr.sweep \in {"close", "closing"} THEN [tmgr EXCEPT !.sweep = "idle", !.up = FALSE] ELSE [tmgr EXCEPT !.sweep = "idle"]

MarkInvalid ==
    /\ tmgr.up /\ tmgr.sweep \in {"open", "close"}
    /\ IF ToInvalidate
       THEN /\ trec' = [trec EXCEPT !.invalid = TRUE]
            /\ tmgr' = [tmgr EXCEPT !.sweep = IF @ = "open" THEN "opening" ELSE "closing"]
       ELSE tmgr' = SweepDone /\ UNCHANGED trec
    /\ tread' = IF tmgr'.up THEN tread ELSE NoRead
    /\ UNCHANGED <<wtBounds, tsrc, tproc>>

(***************************************************************************)
(* At open, an unbound attempt's process is found by its key; at close no  *)
(* start is in flight.                                                     *)
(***************************************************************************)
InvalidatedProcess == trec.bound \/ (tmgr.sweep = "opening" /\ tproc.state \notin {"none", "failed"})

StopInvalidated ==
    /\ tmgr.up /\ tmgr.sweep \in {"opening", "closing"}
    /\ tproc' = IF InvalidatedProcess THEN StoppedProcess ELSE tproc
    /\ trec' = [trec EXCEPT !.bound = @ \/ InvalidatedProcess]
    /\ tmgr' = SweepDone
    /\ tread' = IF tmgr'.up THEN tread ELSE NoRead
    /\ UNCHANGED <<wtBounds, tsrc>>

TestEdgeDies ==
    /\ tmgr.up /\ WtSpend("crashes")
    /\ tmgr' = [tmgr EXCEPT !.up = FALSE, !.timer = FALSE, !.start = NoCapture, !.sweep = "idle",
                            !.slip = @ \/ tmgr.sweep \in {"opening", "closing"}]
    /\ tread' = NoRead
    /\ UNCHANGED <<tsrc, trec, tproc>>

WtNext ==
    \/ \E f \in 1 .. WtFiles : EditFile(f)
    \/ TestCommitSource
    \/ EditProfile
    \/ TestExits
    \/ TestDies
    \/ BeginStart
    \/ HashFirst
    \/ SecondStatus
    \/ HashSecond
    \/ InsertRecord
    \/ LaunchTest
    \/ LaunchFails
    \/ BindProcess
    \/ AbandonStart
    \/ ScheduleTimeout
    \/ TimeoutProcess
    \/ TimeoutFails
    \/ TestStopTest
    \/ BeginStatus
    \/ StatusEvidence
    \/ HashStatus
    \/ AnswerStatus
    \/ CloseTests
    \/ OpenTests
    \/ MarkInvalid
    \/ StopInvalidated
    \/ TestEdgeDies

(***************************************************************************)
(* A call in flight goes on, a timer fires, the service is started again,  *)
(* a process that is killed dies.  A test need not end by itself.          *)
(***************************************************************************)
WtFair ==
    /\ WF_wtVars(LaunchTest) /\ WF_wtVars(BindProcess) /\ WF_wtVars(ScheduleTimeout)
    /\ WF_wtVars(TimeoutProcess)
    /\ WF_wtVars(OpenTests)
    /\ WF_wtVars(MarkInvalid) /\ WF_wtVars(StopInvalidated)
    /\ WF_wtVars(TestDies)

WtSpec == WtInit /\ [][WtNext]_wtVars /\ WtFair

-----------------------------------------------------------------------------
\* Shape of the state: a timer belongs to a bound, valid attempt of the
\* generation that runs, and a process has a record.
WtTypeOK ==
    /\ tproc.state \in {"none", "running", "stopping", "exited", "stopped", "failed"}
    /\ tproc.state # "none" => trec.there
    /\ tmgr.timer => tmgr.up /\ trec.bound /\ ~trec.invalid /\ trec.gen = tmgr.gen
    /\ trec.gen <= tmgr.gen

\* The digest an attempt is recorded with is one the source really had at some
\* moment, although it is read file by file beside edits
\* (captureProjectWorktreeTestInput reads it twice).
CapturedWasReal == trec.there => trec.digest \in tsrc.past

\* A status that reports an ended test as current evidence is about a test that
\* ran from its start to its end on the recorded content (Status reads the
\* process before the evidence, currentEvidence compares head and digest).
FreshMeansTested ==
    tread.out = "fresh" /\ tread.ended /\ tproc.state = "exited"
        => tproc.began = trec.digest /\ tproc.over = trec.digest

\* A test process does not run for ever: its timer, a stop, the closing
\* manager or the next generation ends it, also when the Edge died between
\* starting it and recording which process it is.  Not so when a stop failed
\* or a crash fell between the marking of a record and the stop that follows.
EveryTestEnds == []<>(tproc.state # "running" \/ tmgr.slip)

=============================================================================
