------------------------- MODULE EdgeJournalProofs -------------------------
(***************************************************************************)
(* The safety properties of the journal of Edge operations, proved for any *)
(* finite set of operations, any kinds, requests, lease durations and      *)
(* limits.  The inductive invariant has three parts: the type of the table,*)
(* what holds of each row by itself, and what holds between the rows of one*)
(* request.                                                                *)
(***************************************************************************)
EXTENDS EdgeJournal, FiniteSetTheorems, TLAPS

-----------------------------------------------------------------------------
(* One row.                                                                *)

\* The fields of a row.
LEMMA RowFields ==
  ASSUME NEW r \in OpRow
  PROVE  /\ r.state \in OpStates \cup {"absent", "pruned"} /\ r.cancel \in BOOLEAN
         /\ r.progress \in Nat /\ r.attempts \in Nat /\ r.lease \in Nat /\ r.until \in Nat
         /\ r.first \in Nat /\ r.leasedAt \in Nat /\ r.runningAt \in Nat
         /\ r.finalizingAt \in Nat /\ r.created \in Nat /\ r.updated \in Nat /\ r.rowid \in Nat
  BY DEF OpRow

\* A row that is not stored.
LEMMA NoOpInv ==
  ASSUME NEW state \in {"absent", "pruned"}, NEW now \in Nat
  PROVE  NoOp(state) \in OpRow /\ RowInv(NoOp(state), now)
<1>1. NoOp(state) \in OpRow
  BY DEF NoOp, OpRow, Codes
<1>2. RowInv(NoOp(state), now)
  <2> DEFINE r == NoOp(state)
  <2>1. /\ r.state = state /\ ~r.cancel /\ r.attempts = 0 /\ r.lease = 0
        /\ r.created = 0 /\ r.updated = 0
    BY DEF NoOp
  <2>2. r.state \notin OpStates /\ r.state # "queued" /\ r.state # "leased"
    BY <2>1 DEF OpStates, Live, Done
  <2>3. r.attempts <= MaxLeaseAttempts /\ r.created <= now /\ r.updated <= now
    BY <2>1, JournalAssumption
  <2>4. RowInv(r, now)
    <3> HIDE DEF r
    <3> QED BY <2>1, <2>2, <2>3 DEF RowInv
  <2> QED BY <2>4
<1> QED BY <1>1, <1>2

\* A lapsed lease, recovered: what the attempt left behind is kept only of a
\* cancelled or interrupted one, so a row that waits again is like new.
LEMMA RecoveredRowInv ==
  ASSUME NEW r \in OpRow, clock \in Nat, r.state = "leased", RowInv(r, clock)
  PROVE  RecoveredRow(r) \in OpRow /\ RowInv(RecoveredRow(r), clock)
<1> DEFINE s == RecoveredRow(r)
           st == RecoveredState(r)
           keep == r.cancel \/ Interrupted(r)
<1>1. st \in {"cancelled", "failed", "queued"} /\ RecoveredCode(r) \in Codes
  BY DEF RecoveredState, RecoveredCode, Codes
<1>2. s \in OpRow
  <2> DEFINE kept(v) == IF keep THEN v ELSE 0
  <2>1. PICK a \in Nat, b \in Nat, c \in Nat, d \in Nat :
          a = kept(r.progress) /\ b = kept(r.leasedAt) /\ c = kept(r.runningAt) /\ d = kept(r.finalizingAt)
    BY RowFields
  <2>2. s = [r EXCEPT !.state = st, !.code = RecoveredCode(r), !.lease = 0, !.until = 0,
                      !.progress = a, !.leasedAt = b, !.runningAt = c, !.finalizingAt = d,
                      !.updated = clock]
    BY <2>1 DEF RecoveredRow
  <2>3. st \in OpStates
    BY <1>1 DEF OpStates, Live, Done
  <2> HIDE DEF st, s
  <2> QED BY <1>1, <2>2, <2>3, Zenon DEF OpRow
<1>3. /\ s.state = st /\ s.code = RecoveredCode(r) /\ s.cancel = r.cancel
      /\ s.lease = 0 /\ s.attempts = r.attempts /\ s.created = r.created /\ s.updated = clock
      /\ s.progress = IF keep THEN r.progress ELSE 0
      /\ s.leasedAt = IF keep THEN r.leasedAt ELSE 0
      /\ s.runningAt = IF keep THEN r.runningAt ELSE 0
      /\ s.finalizingAt = IF keep THEN r.finalizingAt ELSE 0
  BY DEF RecoveredRow, OpRow
<1>4. TimingValid(r) /\ r.created <= clock /\ r.updated <= clock /\ r.attempts <= MaxLeaseAttempts
  BY DEF RowInv, OpStates, Live
<1>5. TimingValid(s)
  <2>1. CASE keep
    BY <1>3, <1>4, <2>1, RowFields DEF TimingValid
  <2>2. CASE ~keep
    BY <1>3, <1>4, <2>2, RowFields DEF TimingValid
  <2> QED BY <2>1, <2>2
<1>6. LifecycleValid(s)
  BY <1>1, <1>3 DEF LifecycleValid, RecoveredState, RecoveredCode
<1>7. st = "queued" => ~keep /\ r.attempts < MaxLeaseAttempts
  <2>1. st = "queued" => ~keep /\ ~Exhausted(r)
    BY DEF RecoveredState
  <2> QED BY <2>1, RowFields, JournalAssumption DEF Exhausted
<1>8. RowInv(s, clock)
  <2>1. /\ s.state = "queued" => /\ s.leasedAt = 0 /\ s.runningAt = 0 /\ s.finalizingAt = 0
                                 /\ s.progress = 0 /\ s.attempts < MaxLeaseAttempts
    BY <1>3, <1>7
  <2>2. s.state \in OpStates /\ s.state # "leased" /\ s.lease = 0
    BY <1>1, <1>3 DEF OpStates, Live, Done
  <2>3. s.created <= clock /\ s.updated <= clock /\ s.attempts <= MaxLeaseAttempts
    BY <1>3, <1>4
  <2> QED BY <1>5, <1>6, <2>1, <2>2, <2>3 DEF RowInv
<1> QED BY <1>2, <1>8

\* A project_exec that waited too long ends.
LEMMA ExpiredRowInv ==
  ASSUME NEW r \in OpRow, clock \in Nat, r.state = "queued", RowInv(r, clock)
  PROVE  ExpiredRow(r) \in OpRow /\ RowInv(ExpiredRow(r), clock)
<1> DEFINE s == ExpiredRow(r)
<1>1. s \in OpRow
  BY Zenon DEF ExpiredRow, OpRow, OpStates, Live, Done, Codes
<1>2. /\ s.state = "failed" /\ s.code = "operation_queue_expired" /\ s.cancel = r.cancel
      /\ s.lease = r.lease /\ s.attempts = r.attempts /\ s.created = r.created /\ s.updated = clock
      /\ s.leasedAt = r.leasedAt /\ s.runningAt = r.runningAt /\ s.finalizingAt = r.finalizingAt
  BY DEF ExpiredRow, OpRow
<1>3. /\ TimingValid(r) /\ ~r.cancel /\ r.created <= clock /\ r.updated <= clock
      /\ r.attempts <= MaxLeaseAttempts /\ r.lease = 0
  BY DEF RowInv, LifecycleValid, OpStates, Live
<1>4. TimingValid(s)
  BY <1>2, <1>3, RowFields DEF TimingValid
<1>5. LifecycleValid(s)
  BY <1>2, <1>3 DEF LifecycleValid
<1>6. RowInv(s, clock)
  <2>1. s.state \in OpStates /\ s.state # "leased" /\ s.state # "queued" /\ s.lease = 0
    BY <1>2, <1>3 DEF OpStates, Live, Done
  <2>2. s.created <= clock /\ s.updated <= clock /\ s.attempts <= MaxLeaseAttempts
    BY <1>2, <1>3
  <2> QED BY <1>4, <1>5, <2>1, <2>2 DEF RowInv
<1> QED BY <1>1, <1>6

\* RecoverRow and NormalRow keep rows valid; of the fields that tell requests
\* and their order apart they change none; a row that has ended stays as it is;
\* a row that has not ended becomes no other than waiting, leased or ended; and
\* a project_exec still waits only before its deadline.
NormalStep(r, s) ==
  /\ s.kind = r.kind /\ s.digest = r.digest /\ s.created = r.created /\ s.rowid = r.rowid
  /\ r.state \notin Live => s = r
  /\ r.state \in Live => s.state \in OpStates
  /\ s.state = "leased" => s = r
  /\ r.cancel => s.state = "cancelled" \/ s = r
  /\ r.progress = 0 => s.progress = 0

\* The recovery of one row.
LEMMA RecoverRowInv ==
  ASSUME NEW r \in OpRow, clock \in Nat, RowInv(r, clock)
  PROVE  RecoverRow(r) \in OpRow /\ RowInv(RecoverRow(r), clock) /\ NormalStep(r, RecoverRow(r))
<1>1. CASE Lapsed(r)
  <2> DEFINE s == RecoveredRow(r)
  <2>1. RecoverRow(r) = s /\ r.state = "leased"
    BY <1>1 DEF RecoverRow, Lapsed
  <2>2. s \in OpRow /\ RowInv(s, clock)
    BY <2>1, RecoveredRowInv
  <2>3. /\ s.kind = r.kind /\ s.digest = r.digest /\ s.created = r.created /\ s.rowid = r.rowid
        /\ s.state = RecoveredState(r)
        /\ r.progress = 0 => s.progress = 0
    BY DEF RecoveredRow, OpRow
  <2>4. s.state \in {"cancelled", "failed", "queued"} /\ (r.cancel => s.state = "cancelled")
    BY <2>3 DEF RecoveredState
  <2>5. NormalStep(r, s)
    <3> HIDE DEF s
    <3> QED BY <2>1, <2>3, <2>4 DEF NormalStep, OpStates, Live, Done
  <2> QED BY <2>1, <2>2, <2>5
<1>2. CASE ~Lapsed(r)
  <2>1. RecoverRow(r) = r
    BY <1>2 DEF RecoverRow
  <2>2. NormalStep(r, r)
    BY DEF NormalStep, OpStates
  <2> QED BY <2>1, <2>2
<1> QED BY <1>1, <1>2

\* The recovery and the expiry of one row.
LEMMA NormalRowInv ==
  ASSUME NEW r \in OpRow, clock \in Nat, RowInv(r, clock)
  PROVE  /\ NormalRow(r) \in OpRow /\ RowInv(NormalRow(r), clock) /\ NormalStep(r, NormalRow(r))
         /\ (NormalRow(r).state = "queued" /\ NormalRow(r).kind = "exec")
              => clock < NormalRow(r).created + QueueTtl
<1> DEFINE s == RecoverRow(r)
<1>1. s \in OpRow /\ RowInv(s, clock) /\ NormalStep(r, s)
  BY RecoverRowInv
<1>2. CASE Overdue(s)
  <2> DEFINE t == ExpiredRow(s)
  <2>1. NormalRow(r) = t /\ s.state = "queued"
    BY <1>2 DEF NormalRow, Overdue
  <2>2. t \in OpRow /\ RowInv(t, clock)
    BY <1>1, <2>1, ExpiredRowInv
  <2>3. /\ t.kind = s.kind /\ t.digest = s.digest /\ t.created = s.created /\ t.rowid = s.rowid
        /\ t.state = "failed" /\ t.progress = s.progress
    BY <1>1 DEF ExpiredRow, OpRow
  <2>4. ~s.cancel
    BY <1>1, <2>1 DEF RowInv, LifecycleValid, OpStates, Live
  <2>5. NormalStep(r, t)
    <3>1. r.state \in Live
      BY <1>1, <2>1 DEF NormalStep, Live
    <3>2. ~r.cancel
      BY <1>1, <2>1, <2>4 DEF NormalStep
    <3> HIDE DEF s, t
    <3> QED BY <1>1, <2>3, <3>1, <3>2 DEF NormalStep, OpStates, Live, Done
  <2>6. t.state # "queued"
    BY <2>3
  <2> QED BY <2>1, <2>2, <2>5, <2>6
<1>3. CASE ~Overdue(s)
  <2>1. NormalRow(r) = s
    BY <1>3 DEF NormalRow
  <2>2. (s.state = "queued" /\ s.kind = "exec") => clock < s.created + QueueTtl
    <3>1. (s.state = "queued" /\ s.kind = "exec") => ~ (s.created <= clock - QueueTtl)
      BY <1>3 DEF Overdue
    <3>2. s.created \in Nat /\ QueueTtl \in Nat
      BY <1>1, RowFields, JournalAssumption
    <3> QED BY <3>1, <3>2
  <2> QED BY <1>1, <2>1, <2>2
<1> QED BY <1>2, <1>3

\* A lease is granted to a row that waits, and to a project_exec only before
\* its deadline.
LEMMA LeasedRowInv ==
  ASSUME NEW r \in OpRow, clock \in Nat \ {0}, NEW ttl \in LeaseTtls, r.state = "queued", RowInv(r, clock),
         r.kind = "exec" => clock < r.created + QueueTtl
  PROVE  LeasedRow(r, ttl) \in OpRow /\ RowInv(LeasedRow(r, ttl), clock)
<1> DEFINE s == LeasedRow(r, ttl)
<1>1. ttl \in Nat \ {0} /\ clock + ttl \in Nat /\ r.attempts + 1 \in Nat
  BY RowFields, JournalAssumption
<1>2. s \in OpRow
  <2>1. PICK f \in Nat : f = IF r.first = 0 THEN clock ELSE r.first
    BY RowFields
  <2>2. s = [r EXCEPT !.state = "leased", !.lease = r.attempts + 1, !.attempts = r.attempts + 1,
                      !.until = clock + ttl, !.first = f, !.leasedAt = clock, !.runningAt = 0,
                      !.finalizingAt = 0, !.updated = clock]
    BY <2>1 DEF LeasedRow
  <2> HIDE DEF s
  <2> QED BY <1>1, <2>2, Zenon DEF OpRow, OpStates, Live
<1>3. /\ s.state = "leased" /\ s.code = r.code /\ s.cancel = r.cancel /\ s.progress = r.progress
      /\ s.lease = r.attempts + 1 /\ s.attempts = r.attempts + 1 /\ s.created = r.created
      /\ s.updated = clock /\ s.until = clock + ttl /\ s.kind = r.kind
      /\ s.leasedAt = clock /\ s.runningAt = 0 /\ s.finalizingAt = 0
  BY DEF LeasedRow, OpRow
<1>4. /\ TimingValid(r) /\ LifecycleValid(r) /\ r.created <= clock /\ r.attempts < MaxLeaseAttempts
  BY DEF RowInv, OpStates, Live
<1>5. TimingValid(s)
  BY <1>3, <1>4, RowFields DEF TimingValid
<1>6. LifecycleValid(s)
  BY <1>3, <1>4 DEF LifecycleValid
<1>7. s.attempts <= MaxLeaseAttempts
  BY <1>3, <1>4, RowFields, JournalAssumption
<1>8. s.kind = "exec" => s.until < s.created + QueueTtl + ttl
  BY <1>1, <1>3, RowFields, JournalAssumption
<1>9. RowInv(s, clock)
  <2>1. /\ s.state \in OpStates /\ s.state # "queued" /\ s.leasedAt # 0
        /\ s.lease = s.attempts /\ s.created <= clock /\ s.updated <= clock
    BY <1>3, <1>4 DEF OpStates, Live
  <2> HIDE DEF s
  <2> QED BY <1>3, <1>5, <1>6, <1>7, <1>8, <2>1 DEF RowInv
<1> QED BY <1>2, <1>9

\* A progress report on a leased row.
LEMMA ProgressRowInv ==
  ASSUME NEW r \in OpRow, clock \in Nat \ {0}, NEW revision \in Nat, NEW phase,
         revision > r.progress, r.state = "leased", RowInv(r, clock)
  PROVE  ProgressRow(r, revision, phase) \in OpRow /\ RowInv(ProgressRow(r, revision, phase), clock)
<1> DEFINE s == ProgressRow(r, revision, phase)
<1>1. PICK a \in Nat, b \in Nat :
        /\ a = IF phase = "running" /\ r.finalizingAt = 0 /\ r.runningAt = 0 THEN clock ELSE r.runningAt
        /\ b = IF phase = "finalizing" /\ r.runningAt # 0 /\ r.finalizingAt = 0 THEN clock ELSE r.finalizingAt
  BY RowFields
<1>2. s = [r EXCEPT !.progress = revision, !.until = clock + HeartbeatTtl, !.runningAt = a,
                    !.finalizingAt = b, !.updated = clock]
  BY <1>1 DEF ProgressRow
<1> HIDE DEF s
<1>3. s \in OpRow
  <2>1. clock + HeartbeatTtl \in Nat
    BY JournalAssumption
  <2> QED BY <1>2, <2>1, Zenon DEF OpRow
<1>4. /\ s.state = r.state /\ s.code = r.code /\ s.cancel = r.cancel /\ s.progress = revision
      /\ s.lease = r.lease /\ s.attempts = r.attempts /\ s.created = r.created
      /\ s.updated = clock /\ s.leasedAt = r.leasedAt /\ s.runningAt = a /\ s.finalizingAt = b
  BY <1>2 DEF OpRow
<1>5. /\ TimingValid(r) /\ LifecycleValid(r) /\ r.created <= clock /\ r.updated <= clock
      /\ r.attempts <= MaxLeaseAttempts /\ r.lease = r.attempts /\ r.leasedAt # 0
  BY DEF RowInv, OpStates, Live
<1>6. TimingValid(s)
  BY <1>1, <1>4, <1>5, RowFields DEF TimingValid
<1>7. LifecycleValid(s)
  BY <1>4, <1>5 DEF LifecycleValid
<1>8. RowInv(s, clock)
  <2>1. /\ s.state = "leased" /\ s.state \in OpStates /\ s.leasedAt # 0 /\ s.lease = s.attempts
        /\ s.attempts <= MaxLeaseAttempts
    BY <1>4, <1>5 DEF OpStates, Live
  <2>2. s.progress # 0 /\ s.created <= clock /\ s.updated <= clock
    BY <1>4, <1>5, RowFields
  <2> QED BY <1>6, <1>7, <2>1, <2>2 DEF RowInv
<1> QED BY <1>3, <1>8 DEF s

\* The ends CompleteOperation writes.
LEMMA CompletedRowInv ==
  ASSUME NEW r \in OpRow, clock \in Nat, NEW code \in ReportCodes,
         ~r.cancel, r.state = "leased", RowInv(r, clock)
  PROVE  CompletedRow(r, code) \in OpRow /\ RowInv(CompletedRow(r, code), clock)
<1> DEFINE s == CompletedRow(r, code)
<1>1. PICK st \in {"succeeded", "failed"} : st = IF code = "none" THEN "succeeded" ELSE "failed"
  OBVIOUS
<1>2. s = [r EXCEPT !.state = st, !.code = code, !.lease = 0, !.until = 0, !.updated = clock]
  BY <1>1 DEF CompletedRow
<1> HIDE DEF s
<1>3. s \in OpRow
  BY <1>2, Zenon DEF OpRow, OpStates, Live, Done, Codes, ReportCodes
<1>4. s.state = st /\ s.code = code /\ ~s.cancel
  BY <1>2 DEF OpRow
<1>5. /\ s.lease = 0 /\ s.attempts = r.attempts /\ s.created = r.created /\ s.updated = clock
      /\ s.leasedAt = r.leasedAt /\ s.runningAt = r.runningAt /\ s.finalizingAt = r.finalizingAt
  BY <1>2 DEF OpRow
<1>6. /\ TimingValid(r) /\ r.created <= clock /\ r.updated <= clock /\ r.attempts <= MaxLeaseAttempts
  BY DEF RowInv, OpStates, Live
<1>7. TimingValid(s)
  BY <1>6, <1>5, RowFields DEF TimingValid
<1>8. LifecycleValid(s)
  BY <1>1, <1>4 DEF LifecycleValid
<1>9. RowInv(s, clock)
  <2>1. /\ s.state \in OpStates /\ s.state # "queued" /\ s.state # "leased" /\ s.lease = 0
        /\ s.attempts <= MaxLeaseAttempts
    BY <1>4, <1>6, <1>5 DEF OpStates, Done
  <2>2. s.created <= clock /\ s.updated <= clock
    BY <1>6, <1>5
  <2> QED BY <1>7, <1>8, <2>1, <2>2 DEF RowInv
<1> QED BY <1>3, <1>9 DEF s

\* The end CancelLeasedOperation writes.
LEMMA AcknowledgedRowInv ==
  ASSUME NEW r \in OpRow, clock \in Nat, r.state = "leased", RowInv(r, clock)
  PROVE  AcknowledgedRow(r) \in OpRow /\ RowInv(AcknowledgedRow(r), clock)
<1> DEFINE s == AcknowledgedRow(r)
<1>1. s \in OpRow
  BY Zenon DEF AcknowledgedRow, OpRow, OpStates, Live, Done, Codes
<1>2. /\ s.state = "cancelled" /\ s.code = "operation_cancelled" /\ s.cancel /\ s.lease = 0
      /\ s.attempts = r.attempts /\ s.created = r.created /\ s.updated = clock
      /\ s.leasedAt = r.leasedAt /\ s.runningAt = r.runningAt /\ s.finalizingAt = r.finalizingAt
  BY DEF AcknowledgedRow, OpRow
<1> HIDE DEF s
<1>3. /\ TimingValid(r) /\ r.created <= clock /\ r.updated <= clock /\ r.attempts <= MaxLeaseAttempts
  BY DEF RowInv, OpStates, Live
<1>4. TimingValid(s)
  BY <1>2, <1>3, RowFields DEF TimingValid
<1>5. LifecycleValid(s)
  BY <1>2 DEF LifecycleValid
<1>6. RowInv(s, clock)
  <2>1. /\ s.state \in OpStates /\ s.state # "queued" /\ s.state # "leased" /\ s.lease = 0
        /\ s.attempts <= MaxLeaseAttempts
    BY <1>2, <1>3 DEF OpStates, Done
  <2>2. s.created <= clock /\ s.updated <= clock
    BY <1>2, <1>3
  <2> QED BY <1>4, <1>5, <2>1, <2>2 DEF RowInv
<1> QED BY <1>1, <1>6 DEF s

\* A cancellation of a row that waits or runs.
LEMMA CancelRowInv ==
  ASSUME NEW r \in OpRow, clock \in Nat, r.state \in Live, RowInv(r, clock)
  PROVE  CancelRow(r) \in OpRow /\ RowInv(CancelRow(r), clock)
<1> DEFINE s == CancelRow(r)
<1>1. CASE r.state = "queued"
  <2>1. s = [r EXCEPT !.cancel = TRUE, !.state = "cancelled", !.code = "operation_cancelled", !.updated = clock]
    BY <1>1 DEF CancelRow
  <2>2. s \in OpRow
    BY <2>1, Zenon DEF OpRow, OpStates, Live, Done, Codes
  <2>3. /\ s.state = "cancelled" /\ s.code = "operation_cancelled" /\ s.cancel /\ s.lease = r.lease
        /\ s.attempts = r.attempts /\ s.created = r.created /\ s.updated = clock
        /\ s.leasedAt = r.leasedAt /\ s.runningAt = r.runningAt /\ s.finalizingAt = r.finalizingAt
    BY <2>1 DEF OpRow
  <2> HIDE DEF s
  <2>4. /\ TimingValid(r) /\ r.created <= clock /\ r.updated <= clock
        /\ r.attempts <= MaxLeaseAttempts /\ r.lease = 0
    BY <1>1 DEF RowInv, OpStates, Live
  <2>5. TimingValid(s)
    BY <2>3, <2>4, RowFields DEF TimingValid
  <2>6. LifecycleValid(s)
    BY <2>3 DEF LifecycleValid
  <2>7. RowInv(s, clock)
    <3>1. /\ s.state \in OpStates /\ s.state # "queued" /\ s.state # "leased" /\ s.lease = 0
          /\ s.attempts <= MaxLeaseAttempts
      BY <2>3, <2>4 DEF OpStates, Done
    <3>2. s.created <= clock /\ s.updated <= clock
      BY <2>3, <2>4
    <3> QED BY <2>5, <2>6, <3>1, <3>2 DEF RowInv
  <2> QED BY <2>2, <2>7 DEF s
<1>2. CASE r.state = "leased"
  <2>1. s = [r EXCEPT !.cancel = TRUE, !.updated = clock]
    BY <1>2, Zenon DEF CancelRow, OpRow
  <2>2. s \in OpRow
    BY <2>1, Zenon DEF OpRow
  <2>3. /\ s.state = "leased" /\ s.code = r.code /\ s.cancel /\ s.lease = r.lease /\ s.kind = r.kind
        /\ s.attempts = r.attempts /\ s.created = r.created /\ s.updated = clock /\ s.until = r.until
        /\ s.progress = r.progress
        /\ s.leasedAt = r.leasedAt /\ s.runningAt = r.runningAt /\ s.finalizingAt = r.finalizingAt
    BY <1>2, <2>1 DEF OpRow
  <2> HIDE DEF s
  <2>4. /\ TimingValid(r) /\ LifecycleValid(r) /\ r.created <= clock /\ r.updated <= clock
        /\ r.attempts <= MaxLeaseAttempts /\ r.lease = r.attempts /\ r.leasedAt # 0
    BY <1>2 DEF RowInv, OpStates, Live
  <2>5. TimingValid(s)
    BY <2>3, <2>4, RowFields DEF TimingValid
  <2>6. LifecycleValid(s)
    BY <1>2, <2>3, <2>4 DEF LifecycleValid
  <2>7. (s.kind = "exec" /\ s.progress = 0) => \E ttl \in LeaseTtls : s.until < s.created + QueueTtl + ttl
    BY <1>2, <2>3 DEF RowInv
  <2>8. RowInv(s, clock)
    <3>1. /\ s.state \in OpStates /\ s.state # "queued" /\ s.state = "leased" /\ s.lease = s.attempts
          /\ s.attempts <= MaxLeaseAttempts /\ s.leasedAt # 0
      BY <2>3, <2>4 DEF OpStates, Live
    <3>2. s.created <= clock /\ s.updated <= clock
      BY <2>3, <2>4
    <3> QED BY <2>5, <2>6, <2>7, <3>1, <3>2 DEF RowInv
  <2> QED BY <2>2, <2>8 DEF s
<1> QED BY <1>1, <1>2 DEF Live

\* What is true of a row now is true of it later.
LEMMA LaterRowInv ==
  ASSUME NEW r \in OpRow, clock \in Nat, RowInv(r, clock)
  PROVE  RowInv(r, clock + 1)
<1>1. r.created <= clock + 1 /\ r.updated <= clock + 1
  <2>1. r.created <= clock /\ r.updated <= clock
    BY DEF RowInv
  <2> QED BY <2>1, RowFields
<1> QED BY <1>1 DEF RowInv

-----------------------------------------------------------------------------
(* Row ids.                                                                *)

\* The largest of the row ids in use exists: a set of rows without one would
\* have a smallest subset without one, and taking a row out of that leaves a
\* subset that has it.
LEMMA LargestRowid ==
  ASSUME NEW t \in [Ops -> OpRow], NEW A \in SUBSET Ops
  PROVE  LET S == {0} \cup {t[o].rowid : o \in A}
         IN  Max(S) \in Nat /\ \A o \in A : t[o].rowid <= Max(S)
<1> DEFINE Ids(B) == {0} \cup {t[o].rowid : o \in B}
           Bounded(B) == \E m \in Ids(B) : \A y \in Ids(B) : m >= y
           Bad == {B \in SUBSET Ops : ~Bounded(B)}
<1>1. \A o \in Ops : t[o].rowid \in Nat
  BY RowFields
<1>2. Bad = {}
  <2> SUFFICES ASSUME Bad # {} PROVE FALSE
    OBVIOUS
  <2>1. Bad \subseteq FiniteSubsetsOf(Ops)
    BY FS_FiniteSubsetsOfFinite, JournalAssumption
  <2>2. PICK B \in Bad : \A C \in Bad : ~ (<<C, B>> \in StrictSubsetOrdering(Ops))
    <3> HIDE DEF Bad
    <3> QED BY <2>1, WFMin, FS_StrictSubsetOrderingWellFounded
  <2>3. B # {}
    <3>1. Ids({}) = {0}
      OBVIOUS
    <3> QED BY <3>1
  <2>4. PICK x \in B : TRUE
    BY <2>3
  <2> DEFINE C == B \ {x}
  <2>5. Bounded(C)
    <3>1. C \in SUBSET Ops /\ C \subseteq B /\ C # B
      BY <2>4
    <3>2. <<C, B>> \in StrictSubsetOrdering(Ops)
      BY <3>1 DEF StrictSubsetOrdering
    <3> QED BY <2>2, <3>1, <3>2
  <2>6. PICK m \in Ids(C) : \A y \in Ids(C) : m >= y
    BY <2>5
  <2>7. Ids(B) = Ids(C) \cup {t[x].rowid}
    BY <2>4
  <2>8. m \in Nat /\ t[x].rowid \in Nat
    BY <1>1, <2>4, <2>6
  <2>9. CASE m >= t[x].rowid
    <3>1. m \in Ids(B) /\ \A y \in Ids(B) : m >= y
      BY <2>6, <2>7, <2>9
    <3> QED BY <3>1
  <2>10. CASE t[x].rowid >= m
    <3>1. \A y \in Ids(C) : y \in Nat
      BY <1>1
    <3>2. t[x].rowid \in Ids(B) /\ \A y \in Ids(B) : t[x].rowid >= y
      <4>1. t[x].rowid \in Ids(B)
        BY <2>7
      <4>2. ASSUME NEW y \in Ids(C) PROVE t[x].rowid >= y
        <5>1. m >= y /\ y \in Nat
          BY <2>6, <3>1
        <5> QED BY <2>8, <2>10, <5>1
      <4>3. t[x].rowid >= t[x].rowid
        BY <2>8
      <4> HIDE DEF Ids
      <4> QED BY <2>7, <4>1, <4>2, <4>3
    <3> QED BY <3>2, Zenon
  <2> QED BY <2>8, <2>9, <2>10
<1>3. Bounded(A)
  BY <1>2
<1>4. Max(Ids(A)) \in Ids(A) /\ \A y \in Ids(A) : Max(Ids(A)) >= y
  <2> HIDE DEF Ids
  <2> QED BY <1>3 DEF Max
<1>5. Max(Ids(A)) \in Nat
  BY <1>1, <1>4
<1> QED BY <1>1, <1>4, <1>5

\* A new row is valid and has a larger row id than every stored row.
LEMMA NewOpInv ==
  ASSUME NEW t \in [Ops -> OpRow], clock \in Nat \ {0}, NEW kind \in Kinds, NEW d \in Digests
  PROVE  /\ NewOp(t, kind, d) \in OpRow /\ RowInv(NewOp(t, kind, d), clock)
         /\ \A o \in Stored(t) : t[o].rowid < NewOp(t, kind, d).rowid
<1> DEFINE s == NewOp(t, kind, d)
<1>1. NextRowid(t) \in Nat /\ \A o \in Stored(t) : t[o].rowid < NextRowid(t)
  <2> DEFINE A == Stored(t)
             m == Max({0} \cup {t[o].rowid : o \in A})
  <2>1. A \in SUBSET Ops
    BY DEF Stored
  <2>2. m \in Nat /\ \A o \in A : t[o].rowid <= m
    <3> HIDE DEF A
    <3> QED BY <2>1, LargestRowid, Zenon
  <2>3. NextRowid(t) = m + 1
    BY DEF NextRowid
  <2>4. \A o \in A : t[o].rowid \in Nat
    BY <2>1, RowFields
  <2> HIDE DEF m, A
  <2>5. m + 1 \in Nat /\ \A o \in A : t[o].rowid < m + 1
    BY <2>2, <2>4
  <2> QED BY <2>3, <2>5 DEF A
<1>2. /\ s.state = "queued" /\ s.kind = kind /\ s.digest = d /\ s.code = "none" /\ ~s.cancel
      /\ s.rowid = NextRowid(t)
  BY DEF NewOp, NoOp
<1>3. /\ s.created = clock /\ s.updated = clock /\ s.leasedAt = 0 /\ s.runningAt = 0
      /\ s.finalizingAt = 0 /\ s.progress = 0 /\ s.attempts = 0 /\ s.lease = 0
  BY DEF NewOp, NoOp
<1>4. s \in OpRow
  BY <1>1, Zenon DEF NewOp, NoOp, OpRow, OpStates, Live, Codes
<1> HIDE DEF s
<1>5. TimingValid(s)
  BY <1>3 DEF TimingValid
<1>6. LifecycleValid(s)
  BY <1>2 DEF LifecycleValid
<1>7. RowInv(s, clock)
  <2>1. s.state \in OpStates /\ s.state = "queued" /\ s.state # "leased"
    BY <1>2 DEF OpStates, Live
  <2>2. /\ s.attempts < MaxLeaseAttempts /\ s.attempts <= MaxLeaseAttempts
        /\ s.created <= clock /\ s.updated <= clock
    BY <1>3, JournalAssumption
  <2> QED BY <1>3, <1>5, <1>6, <2>1, <2>2 DEF RowInv
<1> QED BY <1>1, <1>2, <1>4, <1>7 DEF s

-----------------------------------------------------------------------------
(* Rows of one request.                                                    *)

\* A step of a row within its request: it stays what it is, or ends, or goes.
KeptRequest(r, s) ==
  s.state \in OpStates =>
    /\ r.state \in OpStates /\ s.kind = r.kind /\ s.digest = r.digest
    /\ s.created = r.created /\ s.rowid = r.rowid
    /\ s.state \in Live => r.state \in Live

\* Steps of rows within their requests keep the order of the requests.
LEMMA KeptRequestInv ==
  ASSUME NEW t, NEW u, RequestInv(t), \A o \in Ops : KeptRequest(t[o], u[o])
  PROVE  RequestInv(u)
<1> SUFFICES ASSUME NEW o \in Stored(u), NEW p \in Stored(u), o # p, SameRequest(u[o], u[p])
             PROVE  u[o].kind \notin Idempotent /\ (u[o].state \in Live => Newer(u[o], u[p]))
  BY DEF RequestInv
<1>1. o \in Ops /\ p \in Ops /\ u[o].state \in OpStates /\ u[p].state \in OpStates
  BY DEF Stored
<1>2. /\ o \in Stored(t) /\ u[o].kind = t[o].kind /\ u[o].digest = t[o].digest
      /\ u[o].created = t[o].created /\ u[o].rowid = t[o].rowid
      /\ u[o].state \in Live => t[o].state \in Live
  BY <1>1 DEF KeptRequest, Stored
<1>3. /\ p \in Stored(t) /\ u[p].kind = t[p].kind /\ u[p].digest = t[p].digest
      /\ u[p].created = t[p].created /\ u[p].rowid = t[p].rowid
  BY <1>1 DEF KeptRequest, Stored
<1>4. SameRequest(t[o], t[p])
  BY <1>2, <1>3, Zenon DEF SameRequest
<1>5. t[o].kind \notin Idempotent /\ (t[o].state \in Live => Newer(t[o], t[p]))
  BY <1>2, <1>3, <1>4 DEF RequestInv
<1> QED BY <1>2, <1>3, <1>5 DEF Newer

\* When no answer is found, every stored row of the request has ended, and is
\* of a kind without key.
LEMMA UnansweredEnded ==
  ASSUME NEW t \in [Ops -> OpRow], RequestInv(t), NEW kind, NEW d,
         \A p \in Latest(t, kind, d) : ~Answers(t[p]),
         NEW o \in Stored(t), t[o].kind = kind, t[o].digest = d
  PROVE  kind \notin Idempotent /\ t[o].state \notin Live
<1>1. ASSUME kind \in Idempotent PROVE FALSE
  <2>1. ASSUME NEW p \in Stored(t), t[p].kind = kind, t[p].digest = d PROVE p = o
    BY <1>1, <2>1 DEF RequestInv, SameRequest
  <2>2. t[o].rowid <= t[o].rowid
    BY RowFields DEF Stored
  <2>3. o \in Latest(t, kind, d)
    BY <2>1, <2>2 DEF Latest
  <2> QED BY <1>1, <2>3 DEF Answers
<1>2. ASSUME t[o].state \in Live PROVE FALSE
  <2>1. ASSUME NEW p \in Stored(t), t[p].kind = kind, t[p].digest = d
        PROVE  t[p].created < t[o].created \/ (t[p].created = t[o].created /\ t[p].rowid <= t[o].rowid)
    <3>1. t[o].rowid \in Nat /\ t[p].rowid \in Nat
      BY RowFields DEF Stored
    <3>2. CASE p = o
      BY <3>1, <3>2
    <3>3. CASE p # o
      <4>1. Newer(t[o], t[p])
        BY <1>2, <2>1, <3>3 DEF RequestInv, SameRequest
      <4> QED BY <3>1, <4>1 DEF Newer
    <3> QED BY <3>2, <3>3
  <2>2. o \in Latest(t, kind, d)
    BY <2>1 DEF Latest
  <2> QED BY <1>2, <2>2 DEF Answers
<1> QED BY <1>1, <1>2

-----------------------------------------------------------------------------
(* Steps.                                                                  *)

\* Only a row that is leased or was cancelled is marked as cancelled.
LEMMA CancelMarked ==
  ASSUME NEW r \in OpRow, RowInv(r, clock), r.cancel
  PROVE  r.state \in {"leased", "cancelled"}
  BY RowFields DEF RowInv, LifecycleValid, OpStates, Live, Done

\* A row that is left alone.
LEMMA SameRowStep ==
  ASSUME NEW r \in OpRow, RowInv(r, clock)
  PROVE  RowStep(r, r) /\ KeptRequest(r, r)
  BY CancelMarked DEF RowStep, KeptRequest

\* A row that is normalised.
LEMMA NormalRowStep ==
  ASSUME NEW r \in OpRow, NEW s \in OpRow, RowInv(r, clock), RowInv(s, clock), NormalStep(r, s)
  PROVE  RowStep(r, s) /\ KeptRequest(r, s)
<1>1. KeptRequest(r, s)
  BY DEF NormalStep, KeptRequest, OpStates, Live, Done
<1>2. r.state \in Done => s = r
  BY DEF NormalStep, Live, Done
<1>3. r.cancel => s.state \in {"leased", "cancelled"} /\ (s.state = "leased" => s = r)
  BY CancelMarked DEF NormalStep
<1> QED BY <1>1, <1>2, <1>3 DEF RowStep, NormalStep

\* A row that is normalised and then written: what was left of it when it had
\* not ended is all the second write can change.
LEMMA NormalThen ==
  ASSUME NEW r \in OpRow, NEW s \in OpRow, NEW u \in OpRow, RowInv(r, clock), RowInv(u, clock),
         NormalStep(r, s), s.state \in Live, KeptRequest(s, u), u.progress = s.progress,
         s.cancel => u.state \in {"leased", "cancelled"} /\ (u.state = "leased" => u.lease = s.lease),
         r.cancel => s.cancel
  PROVE  RowStep(r, u) /\ KeptRequest(r, u)
<1>1. r.state \in Live
  BY DEF NormalStep, Live
<1>2. KeptRequest(r, u)
  BY <1>1 DEF NormalStep, KeptRequest, OpStates
<1>3. r.cancel => u.state \in {"leased", "cancelled"} /\ (u.state = "leased" => u.lease = r.lease)
  BY DEF NormalStep, Live
<1>4. r.state \notin Done
  BY <1>1 DEF Live, Done
<1> QED BY <1>2, <1>3, <1>4 DEF RowStep, NormalStep

\* The table after a step in which every row keeps its request.
KeptTable == \A o \in Ops : RowStep(op[o], op'[o]) /\ KeptRequest(op[o], op'[o])

\* Every row normalised.
LEMMA NormalizedTable ==
  ASSUME JInv
  PROVE  /\ Normalized \in [Ops -> OpRow]
         /\ \A o \in Ops : /\ Normalized[o] = NormalRow(op[o]) /\ RowInv(Normalized[o], clock)
                           /\ NormalStep(op[o], Normalized[o])
                           /\ RowStep(op[o], Normalized[o]) /\ KeptRequest(op[o], Normalized[o])
<1>1. ASSUME NEW o \in Ops
      PROVE  /\ Normalized[o] = NormalRow(op[o]) /\ NormalRow(op[o]) \in OpRow
             /\ RowInv(NormalRow(op[o]), clock) /\ NormalStep(op[o], NormalRow(op[o]))
  <2>1. op[o] \in OpRow /\ clock \in Nat /\ RowInv(op[o], clock)
    BY DEF JInv, JournalTypeOK
  <2>2. Normalized[o] = NormalRow(op[o])
    BY DEF Normalized
  <2> QED BY <2>1, <2>2, NormalRowInv
<1>2. Normalized \in [Ops -> OpRow]
  BY <1>1 DEF Normalized
<1>3. \A o \in Ops : op[o] \in OpRow /\ RowInv(op[o], clock)
  BY DEF JInv, JournalTypeOK
<1> QED BY <1>1, <1>2, <1>3, NormalRowStep

\* A step that writes one leased row and leaves the others alone.
LEMMA OneRowTable ==
  ASSUME JInv, NEW o \in Ops, NEW s, op' = [op EXCEPT ![o] = s],
         RowStep(op[o], s) /\ KeptRequest(op[o], s)
  PROVE  op' \in [Ops -> OpRow] /\ KeptTable
<1>1. op \in [Ops -> OpRow] /\ \A p \in Ops : RowInv(op[p], clock)
  BY DEF JInv, JournalTypeOK
<1>2. s \in OpRow
  BY DEF RowStep
<1>3. op' \in [Ops -> OpRow]
  BY <1>1, <1>2
<1>4. ASSUME NEW p \in Ops PROVE RowStep(op[p], op'[p]) /\ KeptRequest(op[p], op'[p])
  <2>1. CASE p = o
    BY <1>1, <2>1
  <2>2. CASE p # o
    <3>1. op'[p] = op[p] /\ op[p] \in OpRow /\ RowInv(op[p], clock)
      BY <1>1, <2>2
    <3> QED BY <3>1, SameRowStep
  <2> QED BY <2>1, <2>2
<1> QED BY <1>3, <1>4 DEF KeptTable

\* LeaseOperationCompatible: every row is normalised, and one that waits leased.
LEMMA LeaseTable ==
  ASSUME JInv, NEW compatible \in BOOLEAN, NEW ttl \in LeaseTtls, LeaseOperationCompatible(compatible, ttl)
  PROVE  op' \in [Ops -> OpRow] /\ KeptTable
<1> DEFINE t == Normalized
           N == NextOf(t, compatible)
<1>1. /\ op \in [Ops -> OpRow] /\ clock \in Nat \ {0} /\ \A o \in Ops : RowInv(op[o], clock)
      /\ op' = AfterLease(compatible, ttl)
  BY DEF JInv, JournalTypeOK, LeaseOperationCompatible
<1>2. CASE Skewed(t, compatible)
  <2>1. op' = op
    BY <1>1, <1>2 DEF AfterLease
  <2> QED BY <1>1, <2>1, SameRowStep DEF KeptTable
<1>3. CASE ~Skewed(t, compatible)
  <2>1. op' = [o \in Ops |-> IF o \in N THEN LeasedRow(t[o], ttl) ELSE t[o]]
    BY <1>1, <1>3 DEF AfterLease
  <2> HIDE DEF N
  <2>2. ASSUME NEW o \in Ops
        PROVE  op'[o] \in OpRow /\ RowStep(op[o], op'[o]) /\ KeptRequest(op[o], op'[o])
    <3>1. /\ t[o] \in OpRow /\ t[o] = NormalRow(op[o]) /\ RowInv(t[o], clock) /\ NormalStep(op[o], t[o])
          /\ RowStep(op[o], t[o]) /\ KeptRequest(op[o], t[o]) /\ op[o] \in OpRow /\ RowInv(op[o], clock)
      BY <1>1, NormalizedTable
    <3> HIDE DEF t
    <3>2. CASE o \notin N
      <4>1. op'[o] = t[o]
        BY <2>1, <3>2
      <4> QED BY <3>1, <4>1
    <3>3. CASE o \in N
      <4> DEFINE u == LeasedRow(t[o], ttl)
      <4>1. op'[o] = u
        BY <2>1, <3>3
      <4>2. t[o].state = "queued"
        BY <3>3 DEF N, NextOf, Queued
      <4>3. t[o].kind = "exec" => clock < t[o].created + QueueTtl
        BY <1>1, <3>1, <4>2, NormalRowInv
      <4>4. u \in OpRow /\ RowInv(u, clock)
        BY <1>1, <3>1, <4>2, <4>3, LeasedRowInv
      <4>5. /\ u.state = "leased" /\ u.kind = t[o].kind /\ u.digest = t[o].digest
            /\ u.created = t[o].created /\ u.rowid = t[o].rowid /\ u.progress = t[o].progress
        BY <3>1 DEF LeasedRow, OpRow
      <4>6. KeptRequest(t[o], u)
        <5> HIDE DEF u
        <5> QED BY <4>2, <4>5 DEF KeptRequest, OpStates, Live
      <4>7. t[o].state \in Live /\ ~t[o].cancel
        BY <3>1, <4>2, Zenon DEF RowInv, LifecycleValid, OpStates, Live
      <4>8. ~op[o].cancel
        BY <3>1, <4>2, <4>7 DEF NormalStep
      <4> HIDE DEF u
      <4>9. RowStep(op[o], u) /\ KeptRequest(op[o], u)
        BY <3>1, <4>4, <4>5, <4>6, <4>7, <4>8, NormalThen
      <4> QED BY <4>1, <4>4, <4>9
    <3> QED BY <3>2, <3>3
  <2>3. op' \in [Ops -> OpRow]
    BY <2>1, <2>2
  <2> QED BY <2>2, <2>3 DEF KeptTable
<1> QED BY <1>2, <1>3

\* ReportOperationProgress: the first report of a project_exec comes under its
\* first lease.
LEMMA ReportTable ==
  ASSUME JInv, NEW o \in Ops, NEW l, NEW revision \in Nat, NEW phase, CanReport(o, l, revision),
         op' = [op EXCEPT ![o] = ProgressRow(op[o], revision, phase)]
  PROVE  op' \in [Ops -> OpRow] /\ KeptTable
<1> DEFINE r == op[o]
           s == ProgressRow(r, revision, phase)
<1>1. /\ r \in OpRow /\ clock \in Nat \ {0} /\ RowInv(r, clock)
  BY DEF JInv, JournalTypeOK
<1>2. /\ r.state = "leased" /\ r.lease = l /\ r.until > clock /\ revision > r.progress
      /\ op' = [op EXCEPT ![o] = s]
  BY DEF CanReport, Held
<1>3. s \in OpRow /\ RowInv(s, clock)
  BY <1>1, <1>2, ProgressRowInv
<1>4. /\ s.state = r.state /\ s.kind = r.kind /\ s.digest = r.digest /\ s.created = r.created
      /\ s.rowid = r.rowid /\ s.lease = r.lease
  BY <1>1 DEF ProgressRow, OpRow
<1>5. KeptRequest(r, s)
  BY <1>2, <1>4 DEF KeptRequest, OpStates
<1>6. (r.kind = "exec" /\ r.progress = 0) => \E ttl \in LeaseTtls : clock < r.created + QueueTtl + ttl
  <2> SUFFICES ASSUME r.kind = "exec", r.progress = 0
               PROVE  \E ttl \in LeaseTtls : clock < r.created + QueueTtl + ttl
    OBVIOUS
  <2>1. PICK ttl \in LeaseTtls : r.until < r.created + QueueTtl + ttl
    BY <1>1, <1>2 DEF RowInv
  <2>2. r.until \in Nat /\ r.created \in Nat /\ QueueTtl \in Nat /\ ttl \in Nat
    BY <1>1, RowFields, JournalAssumption
  <2>3. clock < r.created + QueueTtl + ttl
    BY <1>1, <1>2, <2>1, <2>2
  <2> QED BY <2>3
<1>7. RowStep(r, s)
  <2>1. r.state \notin Done /\ s.state = "leased"
    BY <1>2, <1>4 DEF Done
  <2> HIDE DEF r, s
  <2> QED BY <1>3, <1>4, <1>6, <2>1 DEF RowStep
<1> QED BY <1>2, <1>5, <1>7, OneRowTable, Zenon

\* CompleteOperation and CancelLeasedOperation: the row was leased and ends.
LEMMA EndTable ==
  ASSUME JInv, NEW o \in Ops, NEW s, op[o].state = "leased", op' = [op EXCEPT ![o] = s],
         s \in OpRow, RowInv(s, clock), s.state \in Done,
         s.kind = op[o].kind, s.digest = op[o].digest, s.created = op[o].created, s.rowid = op[o].rowid,
         s.progress = op[o].progress, op[o].cancel => s.state = "cancelled"
  PROVE  op' \in [Ops -> OpRow] /\ KeptTable
<1>1. op[o] \in OpRow /\ RowInv(op[o], clock)
  BY DEF JInv, JournalTypeOK
<1>2. KeptRequest(op[o], s)
  BY DEF KeptRequest, OpStates, Live, Done
<1>3. op[o].state \notin Done /\ s.state # "leased"
  BY DEF Done
<1>4. RowStep(op[o], s)
  BY <1>3 DEF RowStep
<1> QED BY <1>2, <1>4, OneRowTable, Zenon

\* CompleteOperation.
LEMMA CompleteTable ==
  ASSUME JInv, NEW o \in Ops, NEW l, NEW code \in ReportCodes, CompleteOperation(o, l, code)
  PROVE  op' \in [Ops -> OpRow] /\ KeptTable
<1> DEFINE r == op[o]
           s == CompletedRow(r, code)
<1>1. /\ r \in OpRow /\ clock \in Nat /\ RowInv(r, clock)
  BY DEF JInv, JournalTypeOK
<1>2. /\ r.state = "leased" /\ ~r.cancel /\ op' = [op EXCEPT ![o] = s]
  BY DEF CompleteOperation, CanComplete, Held, JInv, JournalTypeOK
<1>3. s \in OpRow /\ RowInv(s, clock)
  BY <1>1, <1>2, CompletedRowInv
<1>4. /\ s.state \in Done /\ s.kind = r.kind /\ s.digest = r.digest /\ s.created = r.created
      /\ s.rowid = r.rowid /\ s.progress = r.progress
  BY <1>1 DEF CompletedRow, OpRow, Done
<1> HIDE DEF s
<1> QED BY <1>2, <1>3, <1>4, EndTable, Zenon

\* CancelLeasedOperation.
LEMMA AcknowledgeTable ==
  ASSUME JInv, NEW o \in Ops, NEW l, CancelLeasedOperation(o, l)
  PROVE  op' \in [Ops -> OpRow] /\ KeptTable
<1> DEFINE r == op[o]
           s == AcknowledgedRow(r)
<1>1. /\ r \in OpRow /\ clock \in Nat /\ RowInv(r, clock)
  BY DEF JInv, JournalTypeOK
<1>2. /\ r.state = "leased" /\ op' = [op EXCEPT ![o] = s]
  BY DEF CancelLeasedOperation, Held, JInv, JournalTypeOK
<1>3. s \in OpRow /\ RowInv(s, clock)
  BY <1>1, <1>2, AcknowledgedRowInv
<1>4. /\ s.state = "cancelled" /\ s.kind = r.kind /\ s.digest = r.digest /\ s.created = r.created
      /\ s.rowid = r.rowid /\ s.progress = r.progress
  BY <1>1 DEF AcknowledgedRow, OpRow
<1>5. s.state \in Done
  BY <1>4 DEF Done
<1> HIDE DEF s
<1> QED BY <1>2, <1>3, <1>4, <1>5, EndTable, Zenon

\* RequestOperationCancel: the row is recovered, then cancelled if it may be.
LEMMA CancelTable ==
  ASSUME JInv, NEW o \in Ops, RequestOperationCancel(o)
  PROVE  op' \in [Ops -> OpRow] /\ KeptTable
<1> DEFINE r == RecoverRow(op[o])
           s == IF Cancellable(r) THEN CancelRow(r) ELSE r
<1>1. /\ op[o] \in OpRow /\ clock \in Nat /\ RowInv(op[o], clock)
  BY DEF JInv, JournalTypeOK
<1>2. r \in OpRow /\ RowInv(r, clock) /\ NormalStep(op[o], r)
  BY <1>1, RecoverRowInv
<1>3. op' = [op EXCEPT ![o] = s]
  BY DEF RequestOperationCancel
<1> HIDE DEF r
<1>4. CASE ~Cancellable(r)
  <2>1. s = r /\ RowStep(op[o], r) /\ KeptRequest(op[o], r)
    BY <1>1, <1>2, <1>4, NormalRowStep
  <2> QED BY <1>3, <2>1, OneRowTable, Zenon
<1>5. CASE Cancellable(r)
  <2> DEFINE u == CancelRow(r)
  <2>1. r.state \in Live /\ s = u
    BY <1>5 DEF Cancellable, Live
  <2>2. u \in OpRow /\ RowInv(u, clock)
    BY <1>1, <1>2, <2>1, CancelRowInv
  <2>3. /\ u.kind = r.kind /\ u.digest = r.digest /\ u.created = r.created /\ u.rowid = r.rowid
        /\ u.progress = r.progress /\ u.lease = r.lease
        /\ u.state = IF r.state = "queued" THEN "cancelled" ELSE r.state
    BY <1>2 DEF CancelRow, OpRow
  <2>4. u.state \in {"leased", "cancelled"}
    BY <2>1, <2>3 DEF Live
  <2> HIDE DEF u
  <2>5. KeptRequest(r, u)
    BY <2>1, <2>3, <2>4 DEF KeptRequest, OpStates
  <2>6. op[o].cancel => r.cancel
    BY <1>2, <2>1 DEF NormalStep, Live
  <2>7. RowStep(op[o], u) /\ KeptRequest(op[o], u)
    BY <1>1, <1>2, <2>1, <2>2, <2>3, <2>4, <2>5, <2>6, NormalThen
  <2> QED BY <1>3, <2>1, <2>7, OneRowTable, Zenon
<1> QED BY <1>4, <1>5

\* OperationStatus.
LEMMA StatusTable ==
  ASSUME JInv, NEW o \in Ops, OperationStatus(o)
  PROVE  op' \in [Ops -> OpRow] /\ KeptTable
<1>1. RowStep(op[o], NormalRow(op[o])) /\ KeptRequest(op[o], NormalRow(op[o]))
  BY NormalizedTable
<1>2. op' = [op EXCEPT ![o] = NormalRow(op[o])]
  BY DEF OperationStatus
<1> QED BY <1>1, <1>2, OneRowTable, Zenon

\* OperationByIdempotency.
LEMMA LookupTable ==
  ASSUME JInv, OperationByIdempotency
  PROVE  op' \in [Ops -> OpRow] /\ KeptTable
<1>1. ASSUME NEW o \in Ops
      PROVE  /\ op'[o] = RecoverRow(op[o]) /\ op'[o] \in OpRow
             /\ RowStep(op[o], op'[o]) /\ KeptRequest(op[o], op'[o])
  <2>1. /\ op[o] \in OpRow /\ clock \in Nat /\ RowInv(op[o], clock)
    BY DEF JInv, JournalTypeOK
  <2>2. op'[o] = RecoverRow(op[o])
    BY DEF OperationByIdempotency
  <2>3. RecoverRow(op[o]) \in OpRow /\ RowInv(RecoverRow(op[o]), clock) /\ NormalStep(op[o], RecoverRow(op[o]))
    BY <2>1, RecoverRowInv
  <2> QED BY <2>1, <2>2, <2>3, NormalRowStep
<1>2. op' \in [Ops -> OpRow]
  BY <1>1 DEF OperationByIdempotency
<1> QED BY <1>1, <1>2 DEF KeptTable

\* The table after retention has pruned some ended rows of the normalised one.
LEMMA PrunedTable ==
  ASSUME JInv, NEW X, Prunable(Normalized, X)
  PROVE  LET u == Pruned(Normalized, X)
         IN  /\ u \in [Ops -> OpRow]
             /\ \A o \in Ops : /\ RowStep(op[o], u[o]) /\ KeptRequest(op[o], u[o])
                               /\ KeptRequest(Normalized[o], u[o])
<1> DEFINE t == Normalized
           u == Pruned(t, X)
<1>1. ASSUME NEW o \in Ops
      PROVE  /\ u[o] \in OpRow /\ RowStep(op[o], u[o]) /\ KeptRequest(op[o], u[o])
             /\ KeptRequest(t[o], u[o])
  <2>1. /\ t[o] \in OpRow /\ RowStep(op[o], t[o]) /\ KeptRequest(op[o], t[o])
        /\ NormalStep(op[o], t[o]) /\ op[o] \in OpRow
    BY NormalizedTable DEF JInv, JournalTypeOK
  <2>2. CASE o \notin X
    <3>1. u[o] = t[o]
      BY <2>2 DEF Pruned
    <3>2. KeptRequest(t[o], t[o])
      BY DEF KeptRequest
    <3> QED BY <2>1, <3>1, <3>2
  <2>3. CASE o \in X
    <3> DEFINE s == NoOp("pruned")
    <3>1. u[o] = s
      BY <2>3 DEF Pruned
    <3>2. clock \in Nat
      BY DEF JInv, JournalTypeOK
    <3>3. s \in OpRow /\ RowInv(s, clock)
      BY <3>2, NoOpInv
    <3>4. s.state = "pruned" /\ s.progress = 0
      BY DEF NoOp
    <3>5. s.state \notin OpStates
      BY <3>4 DEF OpStates, Live, Done
    <3> HIDE DEF s
    <3>6. KeptRequest(op[o], s) /\ KeptRequest(t[o], s)
      BY <3>5 DEF KeptRequest
    <3>7. RowStep(op[o], s)
      BY <3>3, <3>4 DEF RowStep
    <3> QED BY <3>1, <3>3, <3>6, <3>7
  <2> QED BY <2>2, <2>3
<1>2. u \in [Ops -> OpRow]
  BY <1>1 DEF Pruned
<1> QED BY <1>1, <1>2

\* Steps that create no row.
LEMMA KeptTableStep ==
  ASSUME JInv, op' \in [Ops -> OpRow], KeptTable
  PROVE  TableStep
<1>1. RequestInv(op')
  <2>1. \A o \in Ops : KeptRequest(op[o], op'[o])
    BY DEF KeptTable
  <2>2. RequestInv(op)
    BY DEF JInv
  <2> QED BY <2>1, <2>2, KeptRequestInv
<1> QED BY <1>1 DEF KeptTable, TableStep

\* A new row beside rows of the same request that have all ended.
LEMMA NewRowTable ==
  ASSUME JInv, NEW o \in Ops, NEW kind \in Kinds, NEW d \in Digests, NEW X,
         \A p \in Latest(Normalized, kind, d) : ~Answers(Normalized[p]), Prunable(Normalized, X),
         op[o].state = "absent",
         op' = [Pruned(Normalized, X) EXCEPT ![o] = NewOp(Pruned(Normalized, X), kind, d)]
  PROVE  TableStep
<1> DEFINE t == Normalized
           u == Pruned(t, X)
           s == NewOp(u, kind, d)
<1>1. /\ op[o] \in OpRow /\ clock \in Nat \ {0} /\ RowInv(op[o], clock) /\ RequestInv(op)
  BY DEF JInv, JournalTypeOK
<1>2. /\ t \in [Ops -> OpRow] /\ \A p \in Ops : KeptRequest(op[p], t[p])
  BY NormalizedTable
<1>3. /\ u \in [Ops -> OpRow]
      /\ \A p \in Ops : /\ RowStep(op[p], u[p]) /\ KeptRequest(op[p], u[p]) /\ KeptRequest(t[p], u[p])
  BY PrunedTable
<1>4. RequestInv(t) /\ RequestInv(u)
  <2> HIDE DEF t, u
  <2> QED BY <1>1, <1>2, <1>3, KeptRequestInv
<1>5. s \in OpRow /\ RowInv(s, clock) /\ \A p \in Stored(u) : u[p].rowid < s.rowid
  <2> HIDE DEF u
  <2> QED BY <1>1, <1>3, NewOpInv
<1>6. /\ s.state = "queued" /\ s.kind = kind /\ s.digest = d /\ s.created = clock /\ s.progress = 0
  BY DEF NewOp, NoOp
<1>7. op' = [u EXCEPT ![o] = s]
  OBVIOUS
<1>8. ASSUME NEW p \in Stored(u), u[p].kind = kind, u[p].digest = d
      PROVE  kind \notin Idempotent /\ u[p].state \notin Live
  <2>1. p \in Ops /\ u[p].state \in OpStates
    BY DEF Stored
  <2>2. p \in Stored(t) /\ t[p].kind = kind /\ t[p].digest = d /\ (u[p].state \in Live => t[p].state \in Live)
    BY <1>3, <1>8, <2>1, Zenon DEF KeptRequest, Stored
  <2>3. kind \notin Idempotent /\ t[p].state \notin Live
    <3> HIDE DEF t
    <3> QED BY <1>2, <1>4, <2>2, UnansweredEnded, Zenon DEF t
  <2> QED BY <2>2, <2>3
<1> HIDE DEF t, u, s
<1>9. op' \in [Ops -> OpRow] /\ op'[o] = s /\ \A p \in Ops \ {o} : op'[p] = u[p]
  BY <1>3, <1>5, <1>7, Zenon
<1>10. ASSUME NEW p \in Ops PROVE RowStep(op[p], op'[p])
  <2>1. CASE p # o
    BY <1>3, <1>9, <2>1
  <2>2. CASE p = o
    <3>1. op[o].state \notin OpStates /\ op[o].state \notin Done
      BY DEF OpStates, Live, Done
    <3>2. ~op[o].cancel
      BY <1>1, <3>1 DEF RowInv
    <3>3. RowStep(op[o], s)
      BY <1>5, <1>6, <3>1, <3>2 DEF RowStep
    <3> QED BY <1>9, <2>2, <3>3
  <2> QED BY <2>1, <2>2
<1>11. RequestInv(op')
  <2> SUFFICES ASSUME NEW a \in Stored(op'), NEW b \in Stored(op'), a # b, SameRequest(op'[a], op'[b])
               PROVE  op'[a].kind \notin Idempotent /\ (op'[a].state \in Live => Newer(op'[a], op'[b]))
    BY Zenon DEF RequestInv
  <2>1. a \in Ops /\ b \in Ops /\ op'[a].state \in OpStates /\ op'[b].state \in OpStates
    BY DEF Stored
  <2>2. CASE a = o
    <3>1. b \in Stored(u) /\ op'[b] = u[b] /\ u[b].kind = kind /\ u[b].digest = d
      BY <1>6, <1>9, <2>1, <2>2 DEF Stored, SameRequest
    <3>2. kind \notin Idempotent
      BY <1>8, <3>1
    <3>3. u[b].created <= clock /\ u[b].created \in Nat /\ u[b].rowid < s.rowid
      BY <1>3, <1>5, <2>1, <3>1, RowFields, Zenon DEF RowStep, RowInv
    <3>4. Newer(s, u[b])
      <4> DEFINE c == u[b].created
      <4>1. c \in Nat /\ clock \in Nat /\ c <= clock
        BY <1>1, <3>3
      <4> HIDE DEF c
      <4>2. c < clock \/ c = clock
        BY <4>1
      <4> QED BY <1>6, <3>3, <4>2, Zenon DEF Newer, c
    <3> QED BY <1>6, <1>9, <2>2, <3>1, <3>2, <3>4
  <2>3. CASE a # o /\ b = o
    <3>1. a \in Stored(u) /\ op'[a] = u[a] /\ u[a].kind = kind /\ u[a].digest = d
      BY <1>6, <1>9, <2>1, <2>3 DEF Stored, SameRequest
    <3> QED BY <1>8, <3>1
  <2>4. CASE a # o /\ b # o
    <3>1. a \in Stored(u) /\ op'[a] = u[a] /\ b \in Stored(u) /\ op'[b] = u[b]
      BY <1>9, <2>1, <2>4 DEF Stored
    <3> QED BY <1>4, <3>1, Zenon DEF RequestInv
  <2> QED BY <2>2, <2>3, <2>4
<1> QED BY <1>9, <1>10, <1>11 DEF TableStep

\* CreateOperation.
LEMMA CreateTable ==
  ASSUME JInv, NEW o \in Ops, NEW kind \in Kinds, NEW d \in Digests, NEW X, CreateOperation(o, kind, d, X)
  PROVE  TableStep
<1>1. CASE op' = Normalized
  <2>1. op' \in [Ops -> OpRow] /\ KeptTable
    BY <1>1, NormalizedTable DEF KeptTable
  <2> QED BY <2>1, KeptTableStep
<1>2. CASE Prunable(Normalized, X) /\ op' = Pruned(Normalized, X)
  <2>1. op' \in [Ops -> OpRow] /\ KeptTable
    BY <1>2, PrunedTable DEF KeptTable
  <2> QED BY <2>1, KeptTableStep
<1>3. CASE /\ \A p \in Latest(Normalized, kind, d) : ~Answers(Normalized[p])
           /\ Prunable(Normalized, X) /\ op[o].state = "absent"
           /\ op' = [Pruned(Normalized, X) EXCEPT ![o] = NewOp(Pruned(Normalized, X), kind, d)]
  BY <1>3, NewRowTable, Zenon
<1> QED BY <1>1, <1>2, <1>3 DEF CreateOperation

\* Every step of the store.
LEMMA StoreStep ==
  ASSUME JInv, JournalNext, ~Tick
  PROVE  TableStep /\ clock' = clock
<1>1. ASSUME NEW o \in Ops, NEW kind \in Kinds, NEW d \in Digests, NEW X \in SUBSET Ops,
             CreateOperation(o, kind, d, X)
      PROVE  TableStep /\ clock' = clock
  BY <1>1, CreateTable DEF CreateOperation
<1>2. ASSUME NEW compatible \in BOOLEAN, NEW ttl \in LeaseTtls, LeaseOperationCompatible(compatible, ttl)
      PROVE  TableStep /\ clock' = clock
  BY <1>2, LeaseTable, KeptTableStep DEF LeaseOperationCompatible
<1>3. ASSUME NEW o \in Ops, NEW revision \in 1..MaxRevision, NEW phase \in Phases, NEW l \in 1..op[o].attempts,
             ReportOperationProgress(o, l, revision, phase)
      PROVE  TableStep /\ clock' = clock
  <2>1. revision \in Nat
    BY JournalAssumption
  <2> QED BY <1>3, <2>1, ReportTable, KeptTableStep, Zenon DEF ReportOperationProgress
<1>4. ASSUME NEW o \in Ops, NEW code \in ReportCodes, NEW l \in 1..op[o].attempts, CompleteOperation(o, l, code)
      PROVE  TableStep /\ clock' = clock
  BY <1>4, CompleteTable, KeptTableStep, Zenon DEF CompleteOperation
<1>5. ASSUME NEW o \in Ops, NEW l \in 1..op[o].attempts, CancelLeasedOperation(o, l)
      PROVE  TableStep /\ clock' = clock
  BY <1>5, AcknowledgeTable, KeptTableStep, Zenon DEF CancelLeasedOperation
<1>6. ASSUME NEW o \in Ops, RequestOperationCancel(o)
      PROVE  TableStep /\ clock' = clock
  BY <1>6, CancelTable, KeptTableStep, Zenon DEF RequestOperationCancel
<1>7. ASSUME NEW o \in Ops, OperationStatus(o)
      PROVE  TableStep /\ clock' = clock
  BY <1>7, StatusTable, KeptTableStep, Zenon DEF OperationStatus
<1>8. ASSUME ActiveOperations
      PROVE  TableStep /\ clock' = clock
  <2>1. op' \in [Ops -> OpRow] /\ KeptTable
    BY <1>8, NormalizedTable DEF KeptTable, ActiveOperations
  <2> QED BY <1>8, <2>1, KeptTableStep DEF ActiveOperations
<1>9. ASSUME OperationByIdempotency
      PROVE  TableStep /\ clock' = clock
  BY <1>9, LookupTable, KeptTableStep DEF OperationByIdempotency
<1> QED BY <1>1, <1>2, <1>3, <1>4, <1>5, <1>6, <1>7, <1>8, <1>9 DEF JournalNext, ReportCodes

-----------------------------------------------------------------------------
(* The results.                                                            *)

\* An empty table.
LEMMA InitJInv == JournalInit => JInv
<1> SUFFICES ASSUME JournalInit PROVE JInv
  OBVIOUS
<1>1. clock = 1 /\ \A o \in Ops : op[o] = NoOp("absent")
  BY DEF JournalInit
<1>2. \A o \in Ops : op[o] \in OpRow /\ RowInv(op[o], clock)
  BY <1>1, NoOpInv
<1>3. op \in [Ops -> OpRow]
  BY <1>2 DEF JournalInit
<1>4. Stored(op) = {}
  <2>1. NoOp("absent").state = "absent"
    BY DEF NoOp
  <2>2. \A o \in Ops : op[o].state = "absent"
    BY <1>1, <2>1
  <2> QED BY <2>2 DEF Stored, OpStates, Live, Done
<1>5. RequestInv(op)
  BY <1>4 DEF RequestInv
<1> QED BY <1>1, <1>2, <1>3, <1>5 DEF JInv, JournalTypeOK

\* Every step keeps the invariant, and every step is a step of the rows.
LEMMA NextJInv ==
  ASSUME JInv, [JournalNext]_journalVars
  PROVE  JInv' /\ \A o \in Ops : RowStep(op[o], op'[o])
<1>1. op \in [Ops -> OpRow] /\ clock \in Nat \ {0} /\ \A o \in Ops : op[o] \in OpRow /\ RowInv(op[o], clock)
  BY DEF JInv, JournalTypeOK
<1>2. CASE JournalNext /\ ~Tick
  <2>1. TableStep /\ clock' = clock
    BY <1>2, StoreStep
  <2>2. \A o \in Ops : RowInv(op'[o], clock)
    BY <2>1 DEF TableStep, RowStep
  <2>3. JInv'
    BY <1>1, <2>1, <2>2 DEF JInv, JournalTypeOK, TableStep
  <2> QED BY <2>1, <2>3 DEF TableStep
<1>3. CASE Tick
  <2>1. op' = op /\ clock' = clock + 1
    BY <1>3 DEF Tick
  <2>2. \A o \in Ops : RowInv(op[o], clock + 1)
    BY <1>1, LaterRowInv
  <2>3. clock + 1 \in Nat /\ clock + 1 # 0
    BY <1>1
  <2>4. JInv'
    BY <2>1, <2>2, <2>3 DEF JInv, JournalTypeOK
  <2> QED BY <1>1, <2>1, <2>4, SameRowStep
<1>4. CASE UNCHANGED journalVars
  <2>1. op' = op /\ clock' = clock
    BY <1>4 DEF journalVars
  <2>2. JInv'
    BY <2>1 DEF JInv, JournalTypeOK
  <2> QED BY <1>1, <2>1, <2>2, SameRowStep
<1> QED BY <1>2, <1>3, <1>4

\* The invariant holds in every reachable state.
THEOREM JournalInvariance == JournalSpec => []JInv
<1>1. JInv /\ [JournalNext]_journalVars => JInv'
  BY NextJInv
<1> QED BY <1>1, InitJInv, PTL DEF JournalSpec

\* The table always holds rows of the schema (edge_operations).
THEOREM JournalTypeCorrect == JournalSpec => []JournalTypeOK
<1>1. JInv => JournalTypeOK
  BY DEF JInv
<1> QED BY <1>1, JournalInvariance, PTL

\* Every row any sequence of calls leaves behind is one scanOperationLifecycle
\* accepts, for any number of operations and any clock.
THEOREM RowsReadable == JournalSpec => []OperationsReadable
<1>1. JInv => OperationsReadable
  BY DEF JInv, OperationsReadable, Stored, RowInv
<1> QED BY <1>1, JournalInvariance, PTL

\* No operation is leased more often than its recovery budget allows
\* (recoverExpiredOperationLeases, LeaseOperationCompatible).
THEOREM BudgetRespected == JournalSpec => []RecoveryBudget
<1>1. JInv => RecoveryBudget
  BY DEF JInv, RecoveryBudget, RowInv
<1> QED BY <1>1, JournalInvariance, PTL

\* What the invariant says of two rows of one request.
LEMMA RowsAnswerOnce ==
  ASSUME JInv
  PROVE  OneAnswer
<1> SUFFICES ASSUME NEW o \in Stored(op), NEW p \in Stored(op),
                    o # p, op[o].kind = op[p].kind, op[o].digest = op[p].digest
             PROVE  op[o].kind \notin Idempotent /\ (op[o].state \in Done \/ op[p].state \in Done)
  BY DEF OneAnswer
<1>1. SameRequest(op[o], op[p]) /\ SameRequest(op[p], op[o])
  BY DEF SameRequest
<1>2. /\ op[o].kind \notin Idempotent
      /\ op[o].state \in Live => Newer(op[o], op[p])
      /\ op[p].state \in Live => Newer(op[p], op[o])
  BY <1>1 DEF JInv, RequestInv
<1>3. ~ (Newer(op[o], op[p]) /\ Newer(op[p], op[o]))
  <2>1. op[o] \in OpRow /\ op[p] \in OpRow
    BY DEF JInv, JournalTypeOK, Stored
  <2>2. /\ op[o].created \in Nat /\ op[o].rowid \in Nat /\ op[p].created \in Nat /\ op[p].rowid \in Nat
    BY <2>1, RowFields
  <2> QED BY <2>2 DEF Newer
<1> QED BY <1>2, <1>3 DEF Stored, OpStates

\* CreateOperation stores one operation for an idempotency key and one live
\* operation for a request body.
THEOREM RequestsAnsweredOnce == JournalSpec => []OneAnswer
<1>1. JInv => OneAnswer
  BY RowsAnswerOnce
<1> QED BY <1>1, JournalInvariance, PTL

\* A terminal operation is never written again, by any call in any order; only
\* retention removes it.
THEOREM OperationsFinal == JournalSpec => OperationFinal
<1>1. JInv /\ [JournalNext]_journalVars => OperationFinalStep
  BY NextJInv DEF OperationFinalStep, RowStep
<1> QED BY <1>1, JournalInvariance, PTL DEF JournalSpec, OperationFinal

\* An accepted cancellation is neither taken back nor overtaken by a result or
\* a new lease.
THEOREM CancelsAccepted == JournalSpec => CancelAccepted
<1>1. JInv /\ [JournalNext]_journalVars => CancelAcceptedStep
  BY NextJInv DEF CancelAcceptedStep, RowStep
<1> QED BY <1>1, JournalInvariance, PTL DEF JournalSpec, CancelAccepted

\* No project_exec is first reported as running later than its queue deadline
\* and one lease, whatever the durations are.
THEOREM ExecsInTime == JournalSpec => ExecInTime
<1>1. JInv /\ [JournalNext]_journalVars => ExecInTimeStep
  BY NextJInv DEF ExecInTimeStep, RowStep
<1> QED BY <1>1, JournalInvariance, PTL DEF JournalSpec, ExecInTime

\* JournalSafe: all the invariants of the journal, for every number of
\* operations, budget and window.
THEOREM JournalAlwaysSafe == JournalSpec => []JournalSafe
<1>1. JournalTypeOK /\ OperationsReadable /\ RecoveryBudget /\ OneAnswer => JournalSafe
  BY DEF JournalSafe
<1> QED BY <1>1, JournalTypeCorrect, RowsReadable, BudgetRespected, RequestsAnsweredOnce, PTL

\* JournalSteps: no call changes an ended operation, loses an accepted
\* cancellation or leases a project_exec whose caller no longer waits.
THEOREM JournalStepsKept == JournalSpec => JournalSteps
BY OperationsFinal, CancelsAccepted, ExecsInTime DEF JournalSteps

-----------------------------------------------------------------------------
(* The rows as the workers of an agent see them.                           *)

\* A row that is left alone.
LEMMA SameCalm ==
  ASSUME NEW r, GoodRow(r), clock \in Nat
  PROVE  Calm(r, r)
<1>1. r.state \in OpStates \cup {"absent"} /\ r.attempts \in Nat /\ r.until \in Nat
  BY RowFields DEF GoodRow
<1> QED BY <1>1 DEF Calm, Onward, Renewed, NoSuccess, GoodRow

\* Two steps of a stored row.
LEMMA CalmThen ==
  ASSUME NEW r, NEW s, NEW u, GoodRow(r), GoodRow(s), GoodRow(u), clock \in Nat, Calm(r, s), Calm(s, u),
         r.state # "absent"
  PROVE  Calm(r, u)
<1>1. /\ r.attempts \in Nat /\ s.attempts \in Nat /\ u.attempts \in Nat
      /\ r.until \in Nat /\ s.until \in Nat /\ u.until \in Nat
      /\ r.state \in OpStates \cup {"absent"} /\ s.state \in OpStates \cup {"absent"}
  BY RowFields DEF GoodRow
<1>2. Onward(r, s) /\ Onward(s, u)
  BY DEF Calm
<1>3. Onward(r, u)
  <2>1. r.state \in Done => u = r
    BY <1>2 DEF Onward
  <2>2. u.state # "pruned" /\ (u.state = "absent" => r.state = "absent")
    BY <1>2 DEF Onward
  <2>3. "absent" \notin OpStates
    BY DEF OpStates, Live, Done
  <2>5. r.state # "absent" => /\ u.state \in OpStates /\ u.kind = r.kind /\ u.attempts >= r.attempts
                              /\ r.kind \notin Repeatable /\ r.progress # 0 => u.progress # 0
    BY <1>1, <1>2, <2>3 DEF Onward
  <2> QED BY <1>1, <2>1, <2>2, <2>5 DEF Onward
<1>4. Renewed(r, u)
  BY <1>1 DEF Calm, Renewed
<1>5. NoSuccess(r, u)
  BY DEF Calm, NoSuccess
<1> QED BY <1>3, <1>4, <1>5 DEF Calm

\* A row that is recovered.
LEMMA RecoverCalm ==
  ASSUME NEW r, GoodRow(r), clock \in Nat
  PROVE  GoodRow(RecoverRow(r)) /\ Calm(r, RecoverRow(r))
<1> DEFINE s == RecoverRow(r)
<1>1. r \in OpRow /\ RowInv(r, clock) /\ r.state # "pruned" /\ r.attempts \in Nat /\ r.until \in Nat
  BY RowFields DEF GoodRow
<1>2. s \in OpRow /\ RowInv(s, clock)
  BY <1>1, RecoverRowInv
<1>3. CASE ~Lapsed(r)
  <2>1. s = r
    BY <1>3 DEF RecoverRow
  <2> QED BY <2>1, SameCalm
<1>4. CASE Lapsed(r)
  <2>1. s = RecoveredRow(r) /\ r.state = "leased" /\ r.until <= clock
    BY <1>4 DEF RecoverRow, Lapsed
  <2>2. /\ s.state = RecoveredState(r) /\ s.kind = r.kind /\ s.attempts = r.attempts
        /\ s.progress = IF r.cancel \/ Interrupted(r) THEN r.progress ELSE 0
    BY <1>1, <2>1 DEF RecoveredRow, OpRow
  <2>3. s.state \in {"cancelled", "failed", "queued"}
    BY <2>2 DEF RecoveredState
  <2>4. r.kind \notin Repeatable /\ r.progress # 0 => s.progress # 0
    BY <2>2 DEF Interrupted
  <2> HIDE DEF s
  <2>5. Onward(r, s)
    BY <1>1, <2>1, <2>2, <2>3, <2>4 DEF Onward, OpStates, Live, Done
  <2>6. Renewed(r, s) /\ NoSuccess(r, s)
    BY <1>1, <2>1, <2>3 DEF Renewed, NoSuccess
  <2>7. GoodRow(s)
    BY <1>2, <2>3 DEF GoodRow
  <2> QED BY <2>5, <2>6, <2>7 DEF Calm, s
<1> QED BY <1>3, <1>4

\* A row that is normalised.
LEMMA NormalCalm ==
  ASSUME NEW r, GoodRow(r), clock \in Nat
  PROVE  GoodRow(NormalRow(r)) /\ Calm(r, NormalRow(r))
<1> DEFINE s == RecoverRow(r)
<1>1. GoodRow(s) /\ Calm(r, s)
  BY RecoverCalm
<1>2. CASE ~Overdue(s)
  <2>1. NormalRow(r) = s
    BY <1>2 DEF NormalRow
  <2> QED BY <1>1, <2>1
<1>3. CASE Overdue(s)
  <2> DEFINE u == ExpiredRow(s)
  <2>1. NormalRow(r) = u /\ s.state = "queued" /\ s \in OpRow /\ RowInv(s, clock) /\ s.attempts \in Nat
    BY <1>1, <1>3, RowFields DEF NormalRow, Overdue, GoodRow
  <2> HIDE DEF s
  <2>2. u \in OpRow /\ RowInv(u, clock)
    BY <2>1, ExpiredRowInv
  <2>3. u.state = "failed" /\ u.kind = s.kind /\ u.attempts = s.attempts /\ u.progress = s.progress
    BY <2>1 DEF ExpiredRow, OpRow
  <2> HIDE DEF u
  <2>4. GoodRow(u)
    BY <2>2, <2>3 DEF GoodRow
  <2>5. Calm(s, u)
    BY <2>1, <2>3 DEF Calm, Onward, Renewed, NoSuccess, OpStates, Live, Done
  <2>6. r.state # "absent"
    <3>1. r.state = "absent" => s = r
      BY DEF s, RecoverRow, Lapsed
    <3> QED BY <2>1, <3>1
  <2> QED BY <1>1, <2>1, <2>4, <2>5, <2>6, CalmThen
<1> QED BY <1>2, <1>3

\* A row that is leased.
LEMMA LeasedCalm ==
  ASSUME NEW r \in OpRow, NEW ttl, r.state = "queued"
  PROVE  /\ Calm(r, LeasedRow(r, ttl))
         /\ LeasedRow(r, ttl).state = "leased" /\ LeasedRow(r, ttl).attempts = r.attempts + 1
<1> DEFINE u == LeasedRow(r, ttl)
<1>1. /\ u.state = "leased" /\ u.kind = r.kind /\ u.attempts = r.attempts + 1 /\ u.progress = r.progress
      /\ r.attempts \in Nat
  BY RowFields DEF LeasedRow, OpRow
<1> HIDE DEF u
<1>2. Calm(r, u)
  BY <1>1 DEF Calm, Onward, Renewed, NoSuccess, OpStates, Live, Done
<1> QED BY <1>1, <1>2 DEF u

\* A row that is reported on; the heartbeat lasts two ticks.
LEMMA ProgressCalm ==
  ASSUME NEW r \in OpRow, clock \in Nat, NEW revision \in Nat, NEW phase, r.state = "leased", revision > r.progress,
         HeartbeatTtl >= 2
  PROVE  LET u == ProgressRow(r, revision, phase)
         IN  Calm(r, u) /\ u.state = "leased" /\ u.lease = r.lease /\ u.until > clock + 1 /\ u.progress = revision
             /\ u.kind = r.kind /\ u.attempts = r.attempts
<1> DEFINE u == ProgressRow(r, revision, phase)
<1>1. /\ u.state = "leased" /\ u.kind = r.kind /\ u.attempts = r.attempts /\ u.progress = revision
      /\ u.lease = r.lease /\ u.until = clock + HeartbeatTtl
  BY DEF ProgressRow, OpRow
<1>2. r.attempts \in Nat /\ r.progress \in Nat /\ r.until \in Nat /\ HeartbeatTtl \in Nat /\ HeartbeatTtl >= 2
  BY RowFields, JournalAssumption
<1> HIDE DEF u
<1>3. u.until > clock + 1 /\ revision # 0
  BY <1>1, <1>2
<1>4. Onward(r, u)
  BY <1>1, <1>2, <1>3 DEF Onward, OpStates, Live, Done
<1>5. Renewed(r, u) /\ NoSuccess(r, u)
  BY <1>1, <1>2, <1>3 DEF Renewed, NoSuccess
<1> QED BY <1>1, <1>3, <1>4, <1>5, Zenon DEF Calm, u

\* A leased row that ends.
LEMMA EndOnward ==
  ASSUME NEW r \in OpRow, NEW s, r.state = "leased", s.state \in Done,
         s.kind = r.kind, s.attempts = r.attempts, s.progress = r.progress
  PROVE  Onward(r, s)
<1>1. r.attempts \in Nat
  BY RowFields
<1> QED BY <1>1 DEF Onward, OpStates, Live, Done

\* A cancellation of a row that waits or runs.
LEMMA CancelCalm ==
  ASSUME NEW r \in OpRow, clock \in Nat, r.state \in Live
  PROVE  Calm(r, CancelRow(r)) /\ CancelRow(r).state # "pruned"
<1> DEFINE u == CancelRow(r)
<1>1. /\ u.state = IF r.state = "queued" THEN "cancelled" ELSE r.state
      /\ u.kind = r.kind /\ u.attempts = r.attempts /\ u.progress = r.progress
      /\ u.lease = r.lease /\ u.until = r.until
  BY DEF CancelRow, OpRow
<1>2. r.attempts \in Nat /\ r.until \in Nat
  BY RowFields
<1>3. u.state = r.state \/ (r.state = "queued" /\ u.state = "cancelled")
  BY <1>1
<1> HIDE DEF u
<1>4. Onward(r, u)
  BY <1>1, <1>2, <1>3 DEF Onward, OpStates, Live, Done
<1>5. Renewed(r, u) /\ NoSuccess(r, u)
  BY <1>1, <1>2, <1>3 DEF Renewed, NoSuccess, Live
<1> QED BY <1>3, <1>4, <1>5 DEF Calm, u, Live

-----------------------------------------------------------------------------
(* The table as the workers of an agent see it.                            *)

\* The rows of the table.
LEMMA RowsGood ==
  ASSUME Unpruned
  PROVE  /\ op \in [Ops -> OpRow] /\ clock \in Nat \ {0}
         /\ \A o \in Ops : GoodRow(op[o]) /\ op[o] \in OpRow
  BY DEF Unpruned, JInv, JournalTypeOK, GoodRow

\* A table that is left alone.
LEMMA SameTable ==
  ASSUME Unpruned, op' = op
  PROVE  TableOnward /\ \A o \in Ops : Calm(op[o], op'[o])
<1>1. \A o \in Ops : RowStep(op[o], op'[o]) /\ Calm(op[o], op'[o])
  BY RowsGood, SameRowStep, SameCalm DEF GoodRow
<1>2. op' \in [Ops -> OpRow] /\ RequestInv(op')
  BY RowsGood DEF Unpruned, JInv
<1> QED BY <1>1, <1>2 DEF TableOnward, TableStep, Calm

\* A table of which one row is written.
LEMMA OneRowOnward ==
  ASSUME Unpruned, NEW o \in Ops, NEW s, op' = [op EXCEPT ![o] = s], Onward(op[o], s)
  PROVE  /\ \A p \in Ops : Onward(op[p], op'[p])
         /\ \A p \in Ops \ {o} : op'[p] = op[p] /\ Calm(op[p], op'[p])
         /\ op'[o] = s
<1>1. op \in [Ops -> OpRow] /\ clock \in Nat /\ \A p \in Ops : GoodRow(op[p])
  BY RowsGood
<1>2. op'[o] = s /\ \A p \in Ops \ {o} : op'[p] = op[p]
  BY <1>1
<1>3. \A p \in Ops \ {o} : Calm(op[p], op'[p])
  BY <1>1, <1>2, SameCalm
<1> QED BY <1>2, <1>3 DEF Calm

\* A table that is normalised.
LEMMA NormalTable ==
  ASSUME Unpruned, op' = Normalized
  PROVE  TableOnward /\ \A o \in Ops : Calm(op[o], op'[o])
<1>1. JInv
  BY DEF Unpruned
<1>2. op' \in [Ops -> OpRow] /\ KeptTable
  BY <1>1, NormalizedTable DEF KeptTable
<1>3. TableStep
  BY <1>1, <1>2, KeptTableStep
<1>4. ASSUME NEW o \in Ops PROVE Calm(op[o], op'[o])
  <2>1. op'[o] = NormalRow(op[o])
    BY <1>1, NormalizedTable
  <2> QED BY <2>1, RowsGood, NormalCalm
<1> QED BY <1>3, <1>4 DEF TableOnward, Calm

\* LeaseOperationCompatible: the lease it grants has a number of its own.
LEMMA LeaseOnward ==
  ASSUME Unpruned, NEW compatible \in BOOLEAN, NEW ttl \in LeaseTtls,
         op' = AfterLease(compatible, ttl), clock' = clock
  PROVE  /\ TableOnward /\ \A o \in Ops : Calm(op[o], op'[o])
         /\ ~Skewed(Normalized, compatible) =>
              \A o \in NextOf(Normalized, compatible) :
                /\ o \in Ops /\ op'[o].state = "leased" /\ op'[o].attempts = Normalized[o].attempts + 1
                /\ Normalized[o].attempts \in Nat /\ op[o].attempts <= Normalized[o].attempts
                /\ op[o].state # "absent"
<1> DEFINE t == Normalized
           N == NextOf(t, compatible)
<1>1. JInv
  BY DEF Unpruned
<1>2. TableStep
  <2>1. LeaseOperationCompatible(compatible, ttl)
    BY DEF LeaseOperationCompatible
  <2> QED BY <1>1, <2>1, LeaseTable, KeptTableStep
<1>3. CASE Skewed(t, compatible)
  <2>1. op' = op
    BY <1>3 DEF AfterLease
  <2> QED BY <1>3, <2>1, SameTable
<1>4. CASE ~Skewed(t, compatible)
  <2>1. op' = [o \in Ops |-> IF o \in N THEN LeasedRow(t[o], ttl) ELSE t[o]]
    BY <1>4 DEF AfterLease
  <2> HIDE DEF N
  <2>2. ASSUME NEW o \in Ops
        PROVE  t[o] = NormalRow(op[o]) /\ GoodRow(op[o]) /\ GoodRow(t[o]) /\ Calm(op[o], t[o]) /\ t[o] \in OpRow
    <3>1. t[o] = NormalRow(op[o]) /\ t[o] \in OpRow
      BY <1>1, NormalizedTable
    <3> QED BY <3>1, RowsGood, NormalCalm
  <2>3. ASSUME NEW o \in N
        PROVE  /\ o \in Ops /\ op'[o] = LeasedRow(t[o], ttl) /\ Calm(op[o], op'[o])
               /\ op'[o].state = "leased" /\ op'[o].attempts = t[o].attempts + 1
               /\ t[o].attempts \in Nat /\ op[o].attempts <= t[o].attempts /\ op[o].state # "absent"
    <3>1. o \in Ops /\ t[o].state = "queued"
      BY DEF N, NextOf, Queued
    <3>2. op'[o] = LeasedRow(t[o], ttl)
      BY <2>1, <3>1
    <3>3. /\ GoodRow(op[o]) /\ GoodRow(t[o]) /\ Calm(op[o], t[o]) /\ t[o] \in OpRow /\ t[o] = NormalRow(op[o])
          /\ op[o] \in OpRow /\ clock \in Nat
      BY <2>2, <3>1, RowsGood
    <3> HIDE DEF t
    <3>4. Calm(t[o], op'[o]) /\ op'[o].state = "leased" /\ op'[o].attempts = t[o].attempts + 1
      BY <3>1, <3>2, <3>3, LeasedCalm
    <3>5. op[o].state # "absent"
      <4>1. op[o].state = "absent" => NormalRow(op[o]) = op[o]
        BY DEF NormalRow, RecoverRow, Lapsed, Overdue
      <4> QED BY <3>1, <3>3, <4>1
    <3>6. GoodRow(op'[o])
      <4>1. op'[o] \in OpRow /\ RowInv(op'[o], clock)
        BY <1>2, <3>1 DEF TableStep, RowStep
      <4> QED BY <3>4, <4>1 DEF GoodRow
    <3>7. Calm(op[o], op'[o])
      BY <3>3, <3>4, <3>5, <3>6, CalmThen
    <3>8. t[o].attempts \in Nat /\ op[o].attempts \in Nat /\ op[o].attempts <= t[o].attempts
      BY <3>3, <3>5, RowFields, Zenon DEF Calm, Onward
    <3> QED BY <3>1, <3>2, <3>4, <3>5, <3>7, <3>8
  <2>4. ASSUME NEW o \in Ops PROVE Calm(op[o], op'[o])
    <3>1. CASE o \in N
      BY <2>3, <3>1
    <3>2. CASE o \notin N
      <4>1. op'[o] = t[o]
        BY <2>1, <3>2
      <4> QED BY <2>2, <4>1
    <3> QED BY <3>1, <3>2
  <2> QED BY <1>2, <2>3, <2>4, Zenon DEF TableOnward, Calm, N
<1> QED BY <1>3, <1>4, Zenon

\* ReportOperationProgress renews the lease.
LEMMA ReportOnward ==
  ASSUME Unpruned, NEW o \in Ops, NEW l, NEW revision \in Nat, NEW phase, CanReport(o, l, revision),
         op' = [op EXCEPT ![o] = ProgressRow(op[o], revision, phase)], HeartbeatTtl >= 2
  PROVE  /\ TableOnward /\ \A p \in Ops : Calm(op[p], op'[p])
         /\ op'[o].state = "leased" /\ op'[o].lease = l /\ op'[o].until > clock + 1
         /\ op'[o].progress # 0 /\ op'[o].kind = op[o].kind /\ op'[o].attempts = op[o].attempts
<1>1. JInv /\ op[o] \in OpRow /\ clock \in Nat /\ op[o].progress \in Nat
  BY RowsGood, RowFields DEF Unpruned
<1>2. TableStep
  BY <1>1, ReportTable, KeptTableStep, Zenon
<1>3. op[o].state = "leased" /\ op[o].lease = l /\ revision > op[o].progress
  BY DEF CanReport, Held
<1> DEFINE u == ProgressRow(op[o], revision, phase)
<1>4. /\ Calm(op[o], u) /\ u.state = "leased" /\ u.lease = l /\ u.until > clock + 1 /\ u.progress = revision
      /\ u.kind = op[o].kind /\ u.attempts = op[o].attempts
  BY <1>1, <1>3, ProgressCalm
<1>5. op' = [op EXCEPT ![o] = u] /\ revision # 0
  BY <1>1, <1>3
<1> HIDE DEF u
<1>6. /\ op'[o] = u /\ \A p \in Ops : Onward(op[p], op'[p])
      /\ \A p \in Ops \ {o} : Calm(op[p], op'[p])
  BY <1>4, <1>5, OneRowOnward, Zenon DEF Calm
<1>7. \A p \in Ops : Calm(op[p], op'[p])
  BY <1>4, <1>6
<1> QED BY <1>2, <1>4, <1>5, <1>6, <1>7 DEF TableOnward

\* CompleteOperation.
LEMMA CompleteOnward ==
  ASSUME Unpruned, NEW o \in Ops, NEW l, NEW code \in ReportCodes, CanComplete(o, l),
         op' = [op EXCEPT ![o] = CompletedRow(op[o], code)], clock' = clock
  PROVE  /\ TableOnward /\ \A p \in Ops \ {o} : Calm(op[p], op'[p])
         /\ op'[o].state = "succeeded" => code = "none"
<1>1. JInv /\ op[o] \in OpRow /\ op \in [Ops -> OpRow]
  BY RowsGood DEF Unpruned
<1>2. TableStep
  <2>1. CompleteOperation(o, l, code)
    BY <1>1 DEF CompleteOperation
  <2> QED BY <1>1, <2>1, CompleteTable, KeptTableStep
<1> DEFINE u == CompletedRow(op[o], code)
<1>3. op[o].state = "leased"
  BY DEF CanComplete, Held
<1>4. /\ u.state = IF code = "none" THEN "succeeded" ELSE "failed"
      /\ u.kind = op[o].kind /\ u.attempts = op[o].attempts /\ u.progress = op[o].progress
  BY <1>1 DEF CompletedRow, OpRow
<1>5. u.state \in Done
  BY <1>4 DEF Done
<1>6. op' = [op EXCEPT ![o] = u]
  OBVIOUS
<1> HIDE DEF u
<1>7. Onward(op[o], u)
  BY <1>1, <1>3, <1>4, <1>5, EndOnward
<1>8. /\ op'[o] = u /\ \A p \in Ops : Onward(op[p], op'[p])
      /\ \A p \in Ops \ {o} : Calm(op[p], op'[p])
  BY <1>6, <1>7, OneRowOnward, Zenon
<1> QED BY <1>2, <1>4, <1>8 DEF TableOnward

\* CancelLeasedOperation.
LEMMA AcknowledgeOnward ==
  ASSUME Unpruned, NEW o \in Ops, NEW l, Held(o, l),
         op' = [op EXCEPT ![o] = AcknowledgedRow(op[o])], clock' = clock
  PROVE  /\ TableOnward /\ \A p \in Ops \ {o} : Calm(op[p], op'[p])
         /\ op'[o].state # "succeeded"
<1>1. JInv /\ op[o] \in OpRow /\ op \in [Ops -> OpRow]
  BY RowsGood DEF Unpruned
<1>2. TableStep
  <2>1. CancelLeasedOperation(o, l)
    BY <1>1 DEF CancelLeasedOperation
  <2> QED BY <1>1, <2>1, AcknowledgeTable, KeptTableStep
<1> DEFINE u == AcknowledgedRow(op[o])
<1>3. op[o].state = "leased"
  BY DEF Held
<1>4. /\ u.state = "cancelled" /\ u.kind = op[o].kind /\ u.attempts = op[o].attempts
      /\ u.progress = op[o].progress
  BY <1>1 DEF AcknowledgedRow, OpRow
<1>5. u.state \in Done
  BY <1>4 DEF Done
<1>6. op' = [op EXCEPT ![o] = u]
  OBVIOUS
<1> HIDE DEF u
<1>7. Onward(op[o], u)
  BY <1>1, <1>3, <1>4, <1>5, EndOnward
<1>8. /\ op'[o] = u /\ \A p \in Ops : Onward(op[p], op'[p])
      /\ \A p \in Ops \ {o} : Calm(op[p], op'[p])
  BY <1>6, <1>7, OneRowOnward, Zenon
<1> QED BY <1>2, <1>4, <1>8 DEF TableOnward

\* CreateOperation, RequestOperationCancel and ActiveOperations.
LEMMA ClientOnward ==
  ASSUME Unpruned,
         \/ \E o \in Ops, kind \in Kinds, d \in Digests : CreateOperation(o, kind, d, {})
         \/ \E o \in Ops : RequestOperationCancel(o)
         \/ ActiveOperations
  PROVE  TableOnward /\ (\A o \in Ops : Calm(op[o], op'[o])) /\ clock' = clock
<1>1. JInv /\ op \in [Ops -> OpRow] /\ clock \in Nat /\ \A o \in Ops : GoodRow(op[o]) /\ op[o] \in OpRow
  BY RowsGood DEF Unpruned
<1>2. ASSUME NEW o \in Ops, NEW kind \in Kinds, NEW d \in Digests, CreateOperation(o, kind, d, {})
      PROVE  TableOnward /\ (\A p \in Ops : Calm(op[p], op'[p])) /\ clock' = clock
  <2>1. TableStep /\ clock' = clock
    BY <1>1, <1>2, CreateTable DEF CreateOperation
  <2>2. Pruned(Normalized, {}) = Normalized
    BY <1>1, NormalizedTable DEF Pruned
  <2>3. CASE op' = Normalized
    BY <2>1, <2>3, NormalTable
  <2>4. CASE op[o].state = "absent" /\ op' = [Normalized EXCEPT ![o] = NewOp(Normalized, kind, d)]
    <3> DEFINE n == NewOp(Normalized, kind, d)
    <3>1. n.state = "queued"
      BY DEF NewOp, NoOp
    <3> HIDE DEF n
    <3>2. ASSUME NEW p \in Ops PROVE Calm(op[p], op'[p])
      <4>1. Normalized \in [Ops -> OpRow] /\ Normalized[p] = NormalRow(op[p])
        BY <1>1, NormalizedTable
      <4>2. CASE p # o
        <5>1. op'[p] = NormalRow(op[p])
          BY <2>4, <4>1, <4>2
        <5> QED BY <1>1, <5>1, NormalCalm
      <4>3. CASE p = o
        <5>1. op'[p] = n
          BY <2>4, <4>1, <4>3 DEF n
        <5> QED BY <2>4, <3>1, <4>3, <5>1, Zenon DEF Calm, Onward, Renewed, NoSuccess, Done
      <4> QED BY <4>2, <4>3
    <3> QED BY <2>1, <3>2 DEF TableOnward, Calm
  <2> QED BY <1>2, <2>2, <2>3, <2>4, Zenon DEF CreateOperation
<1>3. ASSUME NEW o \in Ops, RequestOperationCancel(o)
      PROVE  TableOnward /\ (\A p \in Ops : Calm(op[p], op'[p])) /\ clock' = clock
  <2>1. TableStep /\ clock' = clock
    BY <1>1, <1>3, CancelTable, KeptTableStep, Zenon DEF RequestOperationCancel
  <2> DEFINE r == RecoverRow(op[o])
             u == IF Cancellable(r) THEN CancelRow(r) ELSE r
  <2>2. op' = [op EXCEPT ![o] = u] /\ op[o].state \in OpStates
    BY <1>3 DEF RequestOperationCancel, Stored
  <2>3. GoodRow(r) /\ Calm(op[o], r)
    BY <1>1, RecoverCalm
  <2>4. Calm(op[o], u)
    <3>1. CASE ~Cancellable(r)
      BY <2>3, <3>1
    <3>2. CASE Cancellable(r)
      <4>1. u = CancelRow(r) /\ r.state \in Live /\ r \in OpRow /\ RowInv(r, clock)
        BY <2>3, <3>2 DEF Cancellable, Live, GoodRow
      <4> HIDE DEF r
      <4>2. Calm(r, u) /\ u \in OpRow /\ RowInv(u, clock) /\ u.state # "pruned"
        BY <1>1, <4>1, CancelCalm, CancelRowInv
      <4>3. op[o].state # "absent" /\ GoodRow(u)
        BY <2>2, <4>2 DEF GoodRow, OpStates, Live, Done
      <4> HIDE DEF u
      <4> QED BY <1>1, <2>3, <4>2, <4>3, CalmThen
    <3> QED BY <3>1, <3>2
  <2> HIDE DEF u
  <2>5. /\ op'[o] = u /\ \A p \in Ops : Onward(op[p], op'[p])
        /\ \A p \in Ops \ {o} : Calm(op[p], op'[p])
    BY <2>2, <2>4, OneRowOnward, Zenon DEF Calm
  <2>6. \A p \in Ops : Calm(op[p], op'[p])
    BY <2>4, <2>5
  <2> QED BY <2>1, <2>5, <2>6 DEF TableOnward
<1>4. ASSUME ActiveOperations
      PROVE  TableOnward /\ (\A o \in Ops : Calm(op[o], op'[o])) /\ clock' = clock
  BY <1>4, NormalTable DEF ActiveOperations
<1> QED BY <1>2, <1>3, <1>4
=============================================================================
