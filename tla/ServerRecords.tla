--------------------------- MODULE ServerRecords ----------------------------
(***************************************************************************)
(* What the server records about its own work: telemetry counters, event   *)
(* logs and large tool results. Each part has its own variables and its    *)
(* own specification.                                                      *)
(***************************************************************************)
EXTENDS Naturals, Sequences, FiniteSets, FiniteSetsExt, SequencesExt

-----------------------------------------------------------------------------
(***************************************************************************)
(* The content-free counters of internal/telemetry: every event the server *)
(* emits is added, in one transaction, to an hourly bucket, a daily bucket *)
(* and the all-time row (Observe); buckets past their retention are pruned *)
(* at startup and every PruneEvery events; the console reads four windows  *)
(* and the all-time row one statement after the other, while events keep   *)
(* arriving (Activity).  A database written before the all-time row        *)
(* existed gets one from the retained buckets at the next start.           *)
(*                                                                         *)
(* Time is counted in ticks, HourTicks to the hour and DayTicks to the     *)
(* day.  Of the nine counters two are kept, the requests and the tool      *)
(* calls: the others are added up in the same statements.                  *)
(***************************************************************************)

CONSTANTS
  HourTicks, DayTicks,              \* bucket lengths
  HourlyRetention, DailyRetention,  \* how long buckets are kept, in ticks
  PruneEvery,                       \* events between two prunes
  Windows,                          \* the windows of Activity, in its order
  TmBounds                          \* records [calls, kinds, ticks, faults, crashes, reads, turns, legacy]

ASSUME TmAssumption ==
  /\ {HourTicks, DayTicks, HourlyRetention, DailyRetention, PruneEvery} \subseteq Nat \ {0}
  /\ DayTicks % HourTicks = 0
  /\ \A i \in DOMAIN Windows : Windows[i] \in 1..DailyRetention

VARIABLES
  tmBounds,   \* what may still happen
  tmclock,    \* now, in ticks
  tmdb,       \* metric_buckets and lifetime_metrics
  tmrun,      \* the process: its state, its events to emit, its prune countdown
  tmread,     \* the console's Activity in progress: the snapshots read so far
  tmghost     \* what was stored and asked, kept for the properties only

tmVars == <<tmBounds, tmclock, tmdb, tmrun, tmread, tmghost>>

---------------------------------------------------------------------------
\* The counters.

NoMetric == [requests |-> 0, toolCalls |-> 0]
Plus(m, n) == [requests |-> m.requests + n.requests, toolCalls |-> m.toolCalls + n.toolCalls]
Larger(a, b) == IF a >= b THEN a ELSE b
LargerMetric(m, n) == [requests |-> Larger(m.requests, n.requests),
                       toolCalls |-> Larger(m.toolCalls, n.toolCalls)]
\* SUM over the buckets starting at the ticks of S.
Total(f, S) == [requests |-> MapThenSumSet(LAMBDA b : f[b].requests, S),
                toolCalls |-> MapThenSumSet(LAMBDA b : f[b].toolCalls, S)]
AtMost(m, n) == m.requests <= n.requests /\ m.toolCalls <= n.toolCalls

HourOf(t) == t - (t % HourTicks)
DayOf(t) == t - (t % DayTicks)

\* An over-HTTP request is counted by its http_request event, so its rpc_request
\* event is not counted again; over stdio there is only the latter.
metricFor(e) ==
  [requests |-> IF e.name = "http_request" \/ (e.name = "rpc_request" /\ e.transport # "http")
                THEN 1 ELSE 0,
   toolCalls |-> IF e.name = "rpc_request" /\ e.method = "tools/call" THEN 1 ELSE 0]

\* What serving one client request emits, in order: the message's own event, then
\* over HTTP the event of the request that carried it.
Event(n, t, m) == [name |-> n, transport |-> t, method |-> m]
RpcEvent(transport, method) == Event("rpc_request", transport, method)
HttpEvent == Event("http_request", "http", "")
EventsOf(kind) ==
  CASE kind = "httpTool"  -> <<RpcEvent("http", "tools/call"), HttpEvent>>
    [] kind = "httpGet"   -> <<HttpEvent>>
    [] kind = "stdioTool" -> <<RpcEvent("stdio", "tools/call")>>
    [] kind = "stdioPing" -> <<RpcEvent("stdio", "ping")>>
Asked(kind) == [requests |-> 1, toolCalls |-> IF kind \in {"httpTool", "stdioTool"} THEN 1 ELSE 0]
TelemetryKinds == {"httpTool", "httpGet", "stdioTool", "stdioPing"}

---------------------------------------------------------------------------
\* The statements on the database.

\* observeTransactional: both buckets and the all-time row, or nothing.
upsertMetric(buckets, b, m) == [buckets EXCEPT ![b] = Plus(@, m)]
observeTransactional(db, now, m) ==
  [db EXCEPT !.hourly = upsertMetric(@, HourOf(now), m),
             !.daily = upsertMetric(@, DayOf(now), m),
             !.life = {Plus(l, m) : l \in @}]

TelemetryBefore(buckets, cut) ==
  [b \in DOMAIN buckets |-> IF b < cut THEN NoMetric ELSE buckets[b]]
Since(now, span) == IF now < span THEN 0 ELSE now - span
pruneLocked(db, now) ==
  [db EXCEPT !.hourly = TelemetryBefore(@, Since(now, HourlyRetention)),
             !.daily = TelemetryBefore(@, Since(now, DailyRetention))]

\* backfillLifetime: per UTC day the larger of the two copies of the same events,
\* and the all-time row is only ever raised.
DayStarts(db) == {b \in DOMAIN db.daily : b = DayOf(b)}
Retained(db) ==
  LET hoursOf(d) == {b \in DOMAIN db.hourly : DayOf(b) = d}
      day == [d \in DayStarts(db) |->
                LargerMetric(Total(db.daily, hoursOf(d)), Total(db.hourly, hoursOf(d)))]
  IN  Total(day, DayStarts(db))

backfillLifetime(db) == [db EXCEPT !.life = {LargerMetric(l, Retained(db)) : l \in @}]

\* ensureLifetime: the row is created empty when it is missing, then backfilled.
ensureLifetime(db) ==
  backfillLifetime([db EXCEPT !.life = IF @ = {} THEN {NoMetric} ELSE @])

\* Window: hourly buckets while they are retained, daily ones beyond.
Window(db, now, w) ==
  IF w > HourlyRetention
  THEN Total(db.daily, {b \in DOMAIN db.daily : b >= DayOf(Since(now, w))})
  ELSE Total(db.hourly, {b \in DOMAIN db.hourly : b >= HourOf(Since(now, w))})

---------------------------------------------------------------------------
\* The process.

TelemetrySpent(field) == tmBounds' = [tmBounds EXCEPT ![field] = @ - 1]
MayFail(field) == tmBounds[field] > 0

\* A legacy database: what an earlier version stored at tick 0, without the
\* all-time row.
Empty(ticks) == [b \in {t \in 0..ticks : t = HourOf(t)} |-> NoMetric]
LegacyMetric == [requests |-> 1, toolCalls |-> 1]
FirstDb(b) ==
  IF b.legacy
  THEN [hourly |-> [Empty(b.ticks) EXCEPT ![0] = LegacyMetric],
        daily |-> [Empty(b.ticks) EXCEPT ![0] = LegacyMetric], life |-> {}]
  ELSE [hourly |-> Empty(b.ticks), daily |-> Empty(b.ticks), life |-> {}]

TmInit ==
  /\ tmBounds \in TmBounds
  /\ tmclock = 0
  /\ tmdb = FirstDb(tmBounds)
  /\ tmrun = [state |-> "down", events |-> <<>>, observed |-> 0]
  /\ tmread = <<>>
  /\ tmghost = [stored |-> IF tmBounds.legacy THEN <<[at |-> 0, m |-> LegacyMetric]>> ELSE <<>>,
                asked |-> IF tmBounds.legacy THEN LegacyMetric ELSE NoMetric, lost |-> FALSE]

\* Open: the all-time row is ensured in a transaction of its own, then pruned.
OpenTelemetry ==
  /\ tmrun.state = "down"
  /\ tmdb' = ensureLifetime(tmdb)
  /\ tmrun' = [tmrun EXCEPT !.state = "opening"]
  /\ UNCHANGED <<tmBounds, tmclock, tmread, tmghost>>

Prune ==
  /\ tmrun.state = "opening"
  /\ tmdb' = pruneLocked(tmdb, tmclock)
  /\ tmrun' = [tmrun EXCEPT !.state = "up"]
  /\ UNCHANGED <<tmBounds, tmclock, tmread, tmghost>>

\* A client's request is served; its events are emitted one by one.
ServeRequest ==
  /\ tmrun.state = "up" /\ tmrun.events = <<>> /\ MayFail("calls")
  /\ \E k \in tmBounds.kinds :
       /\ tmrun' = [tmrun EXCEPT !.events = EventsOf(k)]
       /\ tmghost' = [tmghost EXCEPT !.asked = Plus(@, Asked(k))]
  /\ TelemetrySpent("calls")
  /\ UNCHANGED <<tmclock, tmdb, tmread>>

\* Observe: the event is stored; every PruneEvery-th one prunes before the mutex is
\* released, as a statement of its own.
Observe ==
  /\ tmrun.state = "up" /\ tmrun.events # <<>>
  /\ LET m == metricFor(Head(tmrun.events))
         n == tmrun.observed + 1
     IN  /\ tmdb' = observeTransactional(tmdb, tmclock, m)
         /\ tmrun' = [state |-> IF n % PruneEvery = 0 THEN "pruning" ELSE "up",
                      events |-> Tail(tmrun.events), observed |-> n]
         /\ tmghost' = [tmghost EXCEPT !.stored = Append(@, [at |-> tmclock, m |-> m])]
  /\ UNCHANGED <<tmBounds, tmclock, tmread>>

\* The transaction fails: the event is lost, the logger only counts a failure.
TelemetryObserveFails ==
  /\ tmrun.state = "up" /\ tmrun.events # <<>> /\ MayFail("faults")
  /\ tmrun' = [tmrun EXCEPT !.events = Tail(@)]
  /\ tmghost' = [tmghost EXCEPT !.lost = TRUE]
  /\ TelemetrySpent("faults")
  /\ UNCHANGED <<tmclock, tmdb, tmread>>

PruneObserved ==
  /\ tmrun.state = "pruning"
  /\ tmrun' = [tmrun EXCEPT !.state = "up"]
  /\ \/ tmdb' = pruneLocked(tmdb, tmclock) /\ UNCHANGED tmBounds
     \/ MayFail("faults") /\ TelemetrySpent("faults") /\ UNCHANGED tmdb
  /\ UNCHANGED <<tmclock, tmread, tmghost>>

\* The process ends between two statements; a request it was serving is gone.
StopTelemetry ==
  /\ tmrun.state # "down" /\ MayFail("crashes")
  /\ tmrun' = [state |-> "down", events |-> <<>>, observed |-> 0]
  /\ tmread' = <<>>
  /\ tmghost' = [tmghost EXCEPT !.lost = @ \/ tmrun.events # <<>>]
  /\ TelemetrySpent("crashes")
  /\ UNCHANGED <<tmclock, tmdb>>

\* An hour or a day may turn while a snapshot is read or an event stored, turns times at
\* most: their statements are milliseconds apart.
TimePasses ==
  /\ tmclock < tmBounds.ticks
  /\ tmclock' = tmclock + 1
  /\ IF tmread = <<>> /\ tmrun.state \in {"down", "up"} /\ tmrun.events = <<>>
     THEN UNCHANGED tmBounds
     ELSE MayFail("turns") /\ TelemetrySpent("turns")
  /\ UNCHANGED <<tmdb, tmrun, tmread, tmghost>>

\* Activity: the windows in order, then the all-time row, none of it under the
\* store's mutex.
ActivityRead(db, now, i) ==
  IF i <= Len(Windows) THEN Window(db, now, Windows[i]) ELSE CHOOSE l \in db.life : TRUE

Activity ==
  /\ tmrun.state \in {"up", "pruning"}
  /\ Len(tmread) <= Len(Windows)
  /\ (tmread = <<>>) => MayFail("reads")
  /\ tmread' = Append(tmread, ActivityRead(tmdb, tmclock, Len(tmread) + 1))
  /\ IF tmread = <<>> THEN TelemetrySpent("reads") ELSE UNCHANGED tmBounds
  /\ UNCHANGED <<tmclock, tmdb, tmrun, tmghost>>

ActivityReturned ==
  /\ Len(tmread) > Len(Windows)
  /\ tmread' = <<>>
  /\ UNCHANGED <<tmBounds, tmclock, tmdb, tmrun, tmghost>>

TmNext ==
  \/ OpenTelemetry
  \/ Prune
  \/ ServeRequest
  \/ Observe
  \/ TelemetryObserveFails
  \/ PruneObserved
  \/ StopTelemetry
  \/ TimePasses
  \/ Activity
  \/ ActivityReturned

TmSpec == TmInit /\ [][TmNext]_tmVars

---------------------------------------------------------------------------
\* What the counters promise.

StoredWithin(from) ==
  LET S == {i \in DOMAIN tmghost.stored : tmghost.stored[i].at >= from}
      metrics == [i \in S |-> tmghost.stored[i].m]
  IN  Total(metrics, S)

\* The all-time row counts every stored event exactly once: across any number of
\* restarts, prunes and the first start on a legacy database, the backfill of
\* ensureLifetime neither misses nor repeats one (backfillLifetime's comment:
\* "without adding hourly and daily copies of the same events").
LifetimeExact ==
  tmrun.state # "down" => tmdb.life = {StoredWithin(0)}

\* While nothing was lost, the all-time row agrees with what clients asked for: a
\* request over HTTP emits two events and is still one request and one tool call.
RequestsCountedOnce ==
  (tmrun.state = "up" /\ tmrun.events = <<>> /\ ~tmghost.lost) => tmdb.life = {tmghost.asked}

\* The snapshot the console shows is ordered: a longer window never counts less
\* than a shorter one, nor more than the all-time row, although each is read by a
\* statement of its own while events, prunes and hours go by.
WindowsNest ==
  \A i \in 1..(Len(tmread) - 1) : AtMost(tmread[i], tmread[i + 1])

\* A window shorter than the retention of its buckets counts every event of its span,
\* and none older than its span rounded to the bucket.
WindowTells ==
  \A i \in DOMAIN Windows :
    (/\ Len(tmread') = i /\ Len(tmread) = i - 1
     /\ Windows[i] \notin {HourlyRetention, DailyRetention}) =>
       /\ AtMost(StoredWithin(Since(tmclock, Windows[i])), tmread'[i])
       /\ AtMost(tmread'[i],
                 StoredWithin(Since(tmclock, Windows[i] + (IF Windows[i] > HourlyRetention
                                                           THEN DayTicks ELSE HourTicks) - 1)))
    

-----------------------------------------------------------------------------
(***************************************************************************)
(* The private JSONL logs (internal/observability, also the writer of      *)
(* internal/audit): Emit folds the event into the route summary, then      *)
(* appends one line to a file that is rotated over a fixed number of       *)
(* segments by a series of removals and renames, any of which may fail or  *)
(* be cut short by the end of the process.                                 *)
(*                                                                         *)
(* A segment is a sequence of lines [id, bytes, whole]; a line that was    *)
(* only partly written is not whole.  File permissions, the normalisation  *)
(* of the fields and the encoding are left out: no step depends on them.   *)
(***************************************************************************)

CONSTANTS
  Segments,      \* segments in all, the active file included (4)
  MaxBytes,      \* rotation limit
  SampleLimit,   \* durations kept per route (256)
  LogBounds      \* records [events, sizes, durations, faults, torn, crashes]

ASSUME LogAssumption == {Segments, MaxBytes, SampleLimit} \subseteq Nat \ {0}

VARIABLES
  lgBounds,   \* what may still happen
  lgfs,       \* the files: segment 0 is the active one, {} when absent, else {lines}
  lgw,        \* the rotatingFile: process state, handle, known size, rotation step, line
  lgsum,      \* the routeAccumulator
  lgghost     \* ids acknowledged, and counts since the process started

lgVars == <<lgBounds, lgfs, lgw, lgsum, lgghost>>

---------------------------------------------------------------------------
MayLog(field) == lgBounds[field] > 0
LogSpent(field) == lgBounds' = [lgBounds EXCEPT ![field] = @ - 1]

Bytes(lines) == FoldSeq(LAMBDA l, sum : l.bytes + sum, 0, lines)
LinesOf(i) == IF lgfs[i] = {} THEN <<>> ELSE CHOOSE s \in lgfs[i] : TRUE

NoLine == [id |-> 0, bytes |-> 0, whole |-> FALSE]
NoSummary == [requests |-> 0, durations |-> <<>>, next |-> 0, all |-> <<>>]

LogInit ==
  /\ lgBounds \in LogBounds
  /\ lgfs = [i \in 0..(Segments - 1) |-> {}]
  /\ lgw = [state |-> "down", open |-> FALSE, size |-> 0, step |-> 0, line |-> NoLine]
  /\ lgsum = NoSummary
  /\ lgghost = [last |-> 0, acked |-> <<>>, emitted |-> 0, written |-> 0, failures |-> 0]

\* OpenRotatingWriter: the active file is created or appended to; its size is read.
openPrivateAppend(fs) == [fs EXCEPT ![0] = IF @ = {} THEN {<<>>} ELSE @]
OpenRotatingWriter ==
  /\ lgw.state = "down"
  /\ lgfs' = openPrivateAppend(lgfs)
  /\ lgw' = [state |-> "idle", open |-> TRUE, size |-> Bytes(LinesOf(0)), step |-> 0, line |-> NoLine]
  /\ lgsum' = NoSummary
  /\ lgghost' = [lgghost EXCEPT !.emitted = 0, !.written = 0, !.failures = 0]
  /\ UNCHANGED lgBounds

\* observeSummary: a bounded ring of the newest durations.
observeSummary(sum, d) ==
  LET full == Len(sum.durations) >= SampleLimit
  IN  [requests |-> sum.requests + 1,
       durations |-> IF full THEN [sum.durations EXCEPT ![sum.next + 1] = d]
                     ELSE Append(sum.durations, d),
       next |-> IF full THEN (sum.next + 1) % SampleLimit ELSE sum.next,
       all |-> Append(sum.all, d)]

\* Summary: the nearest rank of 95 in 100.
P95Rank(n) == (95 * n + 99) \div 100

P95(sum) ==
  LET sorted == SortSeq(sum.durations, <)
  IN  sorted[P95Rank(Len(sorted))]

\* Emit, up to the writer's lock.
Emit ==
  /\ lgw.state = "idle" /\ MayLog("events")
  /\ \E b \in lgBounds.sizes, d \in lgBounds.durations :
       /\ lgsum' = observeSummary(lgsum, d)
       /\ lgw' = [lgw EXCEPT !.state = "write",
                             !.line = [id |-> lgghost.last + 1, bytes |-> b, whole |-> TRUE]]
  /\ lgghost' = [lgghost EXCEPT !.last = @ + 1, !.emitted = @ + 1]
  /\ LogSpent("events")
  /\ UNCHANGED lgfs

\* The write returns an error; Emit counts it and goes on.
Failed(w) == [w EXCEPT !.state = "idle", !.step = 0, !.line = NoLine]
FailedWrite == lgghost' = [lgghost EXCEPT !.failures = @ + 1]

NeedsRotation == lgw.size > 0 /\ lgw.size + lgw.line.bytes > MaxBytes

\* Write, when the line does not fit: rotate closes the handle first.  A handle that an
\* earlier failed rotation left closed cannot be closed again.
BeginRotation ==
  /\ lgw.state = "write" /\ NeedsRotation
  /\ IF lgw.open
     THEN lgw' = [lgw EXCEPT !.state = "rotate", !.open = FALSE, !.step = Segments - 1]
          /\ UNCHANGED lgghost
     ELSE lgw' = Failed(lgw) /\ FailedWrite
  /\ UNCHANGED <<lgBounds, lgfs, lgsum>>

\* os.Rename(from, to), which leaves the target alone when there is nothing to move.
MoveUp(fs, k) == [fs EXCEPT ![k + 1] = IF fs[k] = {} THEN @ ELSE fs[k], ![k] = {}]

\* One removal or rename of rotate.  Step k removes segment k; then, for k below the
\* oldest, segment k moves into the place of k + 1; step 0 moves the active file.
Rotated(fs, k) ==
  IF k = Segments - 1
  THEN [fs EXCEPT ![k] = {}]
  ELSE MoveUp([fs EXCEPT ![k + 1] = {}], k)

RotateStep ==
  /\ lgw.state = "rotate"
  /\ lgfs' = Rotated(lgfs, lgw.step)
  /\ lgw' = IF lgw.step = 0 THEN [lgw EXCEPT !.state = "reopen"] ELSE [lgw EXCEPT !.step = @ - 1]
  /\ UNCHANGED <<lgBounds, lgsum, lgghost>>

\* The end of rotate: a new active file, and its size.
Reopen ==
  /\ lgw.state = "reopen"
  /\ lgfs' = openPrivateAppend(lgfs)
  /\ lgw' = [lgw EXCEPT !.state = "append", !.open = TRUE, !.size = Bytes(LinesOf(0))]
  /\ UNCHANGED <<lgBounds, lgsum, lgghost>>

\* A removal, rename or open fails: rotate returns, the handle stays closed.
RotateFails ==
  /\ lgw.state \in {"rotate", "reopen"} /\ MayLog("faults")
  /\ lgw' = Failed(lgw)
  /\ FailedWrite
  /\ LogSpent("faults")
  /\ UNCHANGED <<lgfs, lgsum>>

Fits == (lgw.state = "write" /\ ~NeedsRotation) \/ lgw.state = "append"
AppendTo(fs, line) == [fs EXCEPT ![0] = {Append(s, line) : s \in @}]

\* The line is written whole and Write returns nil.
AppendLine ==
  /\ Fits /\ lgw.open
  /\ lgfs' = AppendTo(lgfs, lgw.line)
  /\ lgw' = [Failed(lgw) EXCEPT !.size = @ + lgw.line.bytes]
  /\ lgghost' = [lgghost EXCEPT !.acked = Append(@, lgw.line.id), !.written = @ + 1]
  /\ UNCHANGED <<lgBounds, lgsum>>

\* Only the first byte is written (a full disk): the size counts it, the event is lost.
AppendPart ==
  /\ Fits /\ lgw.open /\ MayLog("torn") /\ lgw.line.bytes > 1
  /\ lgfs' = AppendTo(lgfs, [lgw.line EXCEPT !.bytes = 1, !.whole = FALSE])
  /\ lgw' = [Failed(lgw) EXCEPT !.size = @ + 1]
  /\ FailedWrite
  /\ LogSpent("torn")
  /\ UNCHANGED lgsum

\* The handle is closed: the write fails at once.
AppendClosed ==
  /\ Fits /\ ~lgw.open
  /\ lgw' = Failed(lgw)
  /\ FailedWrite
  /\ UNCHANGED <<lgBounds, lgfs, lgsum>>

\* The process ends; the operating system closes the handle.
StopLogging ==
  /\ lgw.state # "down" /\ MayLog("crashes")
  /\ lgw' = [state |-> "down", open |-> FALSE, size |-> 0, step |-> 0, line |-> NoLine]
  /\ LogSpent("crashes")
  /\ UNCHANGED <<lgfs, lgsum, lgghost>>

LogNext ==
  \/ OpenRotatingWriter
  \/ Emit
  \/ BeginRotation
  \/ RotateStep
  \/ Reopen
  \/ RotateFails
  \/ AppendLine
  \/ AppendPart
  \/ AppendClosed
  \/ StopLogging

LogSpec == LogInit /\ [][LogNext]_lgVars

---------------------------------------------------------------------------
\* Oldest to newest: the highest-numbered segment first, the active file last.
LogRetained == FlattenSeq([k \in 1..Segments |-> LinesOf(Segments - k)])

\* The log keeps an unbroken tail of what was acknowledged, in order: however rotations
\* fail or are cut short, a line is lost only together with every older one.
RetainedIsTail ==
  LET kept == SelectSeq(LogRetained, LAMBDA l : l.whole)
      ids == [i \in DOMAIN kept |-> kept[i].id]
  IN  /\ Len(ids) <= Len(lgghost.acked)
      /\ ids = SubSeq(lgghost.acked, Len(lgghost.acked) - Len(ids) + 1, Len(lgghost.acked))

\* No segment grows past the limit, a single longer line apart, and while the file is
\* open the writer knows its true size, also after a restart on a file it did not write.
SegmentsBounded ==
  /\ \A i \in DOMAIN lgfs : Bytes(LinesOf(i)) > MaxBytes => Len(LinesOf(i)) = 1
  /\ lgw.open => lgw.size = Bytes(LinesOf(0))

\* An event is in the file or in the failure counter the console shows, never in neither.
FailuresTell ==
  lgw.state = "idle" => lgghost.emitted = lgghost.written + lgghost.failures

\* The summary's ring holds exactly the newest SampleLimit durations, and its P95 is a
\* duration that at least 95 in 100 of them do not exceed.
Occurrences(s, d) == Cardinality({i \in DOMAIN s : s[i] = d})
Newest(s, n) == SubSeq(s, (IF Len(s) > n THEN Len(s) - n ELSE 0) + 1, Len(s))
SummaryRecent ==
  LET recent == Newest(lgsum.all, SampleLimit)
  IN  /\ \A d \in lgBounds.durations : Occurrences(lgsum.durations, d) = Occurrences(recent, d)
      /\ recent # <<>> =>
           100 * Cardinality({i \in DOMAIN recent : recent[i] <= P95(lgsum)}) >= 95 * Len(recent)

-----------------------------------------------------------------------------
(***************************************************************************)
(* The bounded store of large tool results (internal/resultstore): Put     *)
(* drops expired results, evicts the oldest until the new one fits in the  *)
(* quota and inserts it, statement by statement under the store's mutex;   *)
(* Read returns bounded fragments that never split a character, without    *)
(* the mutex, so results come and go between two fragments.                *)
(*                                                                         *)
(* A content is the sequence of its characters' widths in bytes: what a    *)
(* fragment must respect.  Redaction, summaries and search are left out;   *)
(* the one stage the server records spans the whole content.               *)
(***************************************************************************)

CONSTANTS
  Refs,              \* result references
  Putters,           \* concurrent tool calls
  Quota,             \* quotaBytes
  MaxFragment,       \* MaxFragmentBytes
  SuccessTTL, FailureTTL,
  ResultBounds       \* records [contents, limits, puts, ticks, faults, crashes]

ASSUME ResultAssumption ==
  {Quota, MaxFragment, SuccessTTL, FailureTTL} \subseteq Nat \ {0}

VARIABLES
  rsBounds,   \* what may still happen
  rsdb,       \* [Refs -> {} or {row}]
  rsclock,    \* the clock, in seconds
  rsput,      \* the Put of each putter
  rslock,     \* who holds the store's mutex, {} or {putter}
  rsreader    \* a client paging through one result

rsVars == <<rsBounds, rsdb, rsclock, rsput, rslock, rsreader>>

---------------------------------------------------------------------------
\* Contents and their fragments.

Width(s) == FoldSeq(LAMBDA w, n : w + n, 0, s)
\* utf8.RuneStart(data[i]) for the byte at offset i.
RuneStart(s, i) == \E k \in DOMAIN s : Width(SubSeq(s, 1, k - 1)) = i

\* boundedFragment on the whole content: the first and the last byte offset.
ResultForward(s, from, end) ==
  IF \E i \in from..end : i = end \/ RuneStart(s, i)
  THEN CHOOSE i \in from..end : /\ i = end \/ RuneStart(s, i)
                                /\ \A j \in from..(i - 1) : ~RuneStart(s, j)
  ELSE from
Backward(s, start, end) ==
  CHOOSE i \in start..end : /\ i = start \/ i = Width(s) \/ RuneStart(s, i)
                            /\ \A j \in (i + 1)..end : j < Width(s) /\ ~RuneStart(s, j)
Smaller(a, b) == IF a <= b THEN a ELSE b

\* The fragment's bounds.
boundedFragment(s, offset, limit) ==
  LET size == IF limit = 0 \/ limit > MaxFragment THEN MaxFragment ELSE limit
      cut == Smaller(offset + size, Width(s))
      start == ResultForward(s, offset, cut)
  IN  [start |-> start, end |-> Backward(s, start, cut)]

---------------------------------------------------------------------------
\* The table.

ResultRow(r) == CHOOSE row \in rsdb[r] : TRUE
ResultStored(db) == {r \in Refs : db[r] # {}}
ResultUsed(db) == MapThenSumSet(LAMBDA r : Width((CHOOSE row \in db[r] : TRUE).content), ResultStored(db))
FreshRef(r) == rsdb[r] = {} /\ \A p \in Putters : rsput[p].ref # r

cleanupLocked(db, now) ==
  [r \in Refs |-> {row \in db[r] : row.expires > now}]

\* ORDER BY created_at ASC, result_ref ASC LIMIT 1: references are random, so among
\* results of one second any may come first.
ResultEldest(db, r) ==
  r \in ResultStored(db) /\ \A q \in ResultStored(db) : (CHOOSE x \in db[r] : TRUE).created <= (CHOOSE x \in db[q] : TRUE).created

---------------------------------------------------------------------------
MayDo(field) == rsBounds[field] > 0
ResultSpent(field) == rsBounds' = [rsBounds EXCEPT ![field] = @ - 1]
NoPut == [state |-> "idle", content |-> <<>>, ttl |-> 0, now |-> 0, ref |-> ""]
NoPage == [ref |-> "", offset |-> 0, limit |-> 0, content |-> <<>>, last |-> 0]

ResultInit ==
  /\ rsBounds \in ResultBounds
  /\ rsdb = [r \in Refs |-> {}]
  /\ rsclock = 0
  /\ rsput = [p \in Putters |-> NoPut]
  /\ rslock = {}
  /\ rsreader = NoPage

\* Put, up to the mutex: the size is checked, the reference drawn and the clock read.
BeginPut(p) ==
  /\ rsput[p].state = "idle" /\ MayDo("puts")
  /\ \E s \in rsBounds.contents, ttl \in {SuccessTTL, FailureTTL}, r \in Refs :
       /\ Width(s) <= Quota
       /\ FreshRef(r) /\ r = (CHOOSE q \in Refs : FreshRef(q))
       /\ rsput' = [rsput EXCEPT ![p] = [state |-> "waiting", content |-> s, ttl |-> ttl,
                                         now |-> rsclock, ref |-> r]]
  /\ ResultSpent("puts")
  /\ UNCHANGED <<rsdb, rsclock, rslock, rsreader>>

\* The mutex is taken and the expired results are deleted, by the clock read before.
CleanFirst(p) ==
  /\ rsput[p].state = "waiting" /\ rslock = {}
  /\ rslock' = {p}
  /\ rsdb' = cleanupLocked(rsdb, rsput[p].now)
  /\ rsput' = [rsput EXCEPT ![p].state = "room"]
  /\ UNCHANGED <<rsBounds, rsclock, rsreader>>

\* Faulty variant: what is to come is not counted.
FitsAlready(db, s) == ResultUsed(db) <= Quota
\* used + incoming <= quota
ResultFits(db, s) == ResultUsed(db) + Width(s) <= Quota

\* makeRoomLocked: one eviction.
EvictOldest(p) ==
  /\ rsput[p].state = "room" /\ ~ResultFits(rsdb, rsput[p].content)
  /\ \E r \in Refs : ResultEldest(rsdb, r) /\ rsdb' = [rsdb EXCEPT ![r] = {}]
  /\ UNCHANGED <<rsBounds, rsclock, rsput, rslock, rsreader>>

\* The insertion, and the metadata with its reference to the client.
InsertResult(p) ==
  /\ rsput[p].state = "room" /\ ResultFits(rsdb, rsput[p].content)
  /\ rsdb' = [rsdb EXCEPT ![rsput[p].ref] =
                {[content |-> rsput[p].content, created |-> rsput[p].now,
                  expires |-> rsput[p].now + rsput[p].ttl]}]
  /\ rsput' = [rsput EXCEPT ![p] = NoPut]
  /\ rslock' = {}
  /\ UNCHANGED <<rsBounds, rsclock, rsreader>>

\* A statement fails: Put returns an error; what was deleted stays deleted.
PutFails(p) ==
  /\ rsput[p].state = "room" /\ MayDo("faults")
  /\ rsput' = [rsput EXCEPT ![p] = NoPut]
  /\ rslock' = {}
  /\ ResultSpent("faults")
  /\ UNCHANGED <<rsdb, rsclock, rsreader>>

\* load: only a result that is stored and has not expired.
ResultLoadable(r) == rsdb[r] # {} /\ ResultRow(r).expires > rsclock

\* Read of the first fragment, or of the next one from the offset it returned.
ReadFragment ==
  \E r \in Refs, limit \in rsBounds.limits :
    /\ ResultLoadable(r)
    /\ rsreader.ref \in {"", r}
    /\ rsreader.ref = r => limit = rsreader.limit /\ rsreader.offset < Width(rsreader.content)
    /\ LET s == ResultRow(r).content
           f == boundedFragment(s, rsreader.offset, limit)
       IN  rsreader' = [ref |-> r, offset |-> f.end, limit |-> limit, content |-> s,
                        last |-> f.end - f.start]
    /\ UNCHANGED <<rsBounds, rsdb, rsclock, rsput, rslock>>

\* The reader has all of it, or the result is gone ("result not found").
StopReading ==
  /\ rsreader.ref # ""
  /\ rsreader.offset = Width(rsreader.content) \/ ~ResultLoadable(rsreader.ref)
  /\ rsreader' = NoPage
  /\ UNCHANGED <<rsBounds, rsdb, rsclock, rsput, rslock>>

\* FindExact cleans up before it searches.
FindExact ==
  /\ rslock = {}
  /\ rsdb' = cleanupLocked(rsdb, rsclock)
  /\ UNCHANGED <<rsBounds, rsclock, rsput, rslock, rsreader>>

\* The server is replaced: calls in progress end, the start cleans up.
RestartStore ==
  /\ MayDo("crashes")
  /\ rsput' = [p \in Putters |-> NoPut]
  /\ rslock' = {}
  /\ rsdb' = cleanupLocked(rsdb, rsclock)
  /\ ResultSpent("crashes")
  /\ UNCHANGED <<rsclock, rsreader>>

SecondPasses ==
  /\ MayDo("ticks")
  /\ rsclock' = rsclock + 1
  /\ ResultSpent("ticks")
  /\ UNCHANGED <<rsdb, rsput, rslock, rsreader>>

ResultNext ==
  \/ \E p \in Putters : BeginPut(p)
  \/ \E p \in Putters : CleanFirst(p)
  \/ \E p \in Putters : EvictOldest(p)
  \/ \E p \in Putters : InsertResult(p)
  \/ \E p \in Putters : PutFails(p)
  \/ ReadFragment
  \/ StopReading
  \/ FindExact
  \/ RestartStore
  \/ SecondPasses

ResultSpec == ResultInit /\ [][ResultNext]_rsVars

---------------------------------------------------------------------------
\* The stored contents never exceed the quota, whatever Puts run at once and wherever
\* one of them fails.
QuotaKept == ResultUsed(rsdb) <= Quota

\* A result that has not expired is lost only to a newer one that needs the room, and
\* every older result goes before it (docs/result-store.md: "The oldest result is evicted
\* first when needed").
EvictsOldestFirst ==
  \A r \in ResultStored(rsdb) :
    (rsdb'[r] = {} /\ ResultRow(r).expires > rsclock) =>
       /\ \A q \in ResultStored(rsdb') : rsdb'[q] = rsdb[q] => ResultRow(r).created <= ResultRow(q).created
       /\ \E p \in Putters : ResultUsed(rsdb) + Width(rsput[p].content) > Quota

\* A reader with a limit of at least one character gets, fragment after fragment, the
\* content without a gap, a repetition or a split character, and an empty fragment
\* only at its end: paging by next_offset always gets there.
PagesExact ==
  (rsreader.ref # "" /\ \A k \in DOMAIN rsreader.content : rsreader.limit >= rsreader.content[k]) =>
     /\ RuneStart(rsreader.content, rsreader.offset) \/ rsreader.offset = Width(rsreader.content)
     /\ rsreader.last > 0

=============================================================================
