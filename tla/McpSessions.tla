---------------------------- MODULE McpSessions -----------------------------
(***************************************************************************)
(* MCP sessions over HTTP (internal/mcpserver/http.go, http_sessions.go,   *)
(* http_lifecycle.go, http_listener.go): the durable session table that    *)
(* two backends share while one replaces the other, the requests that      *)
(* create, touch and revoke sessions, the capabilities each process caches *)
(* per session, and the drain of a process that is being replaced.         *)
(*                                                                         *)
(* Every store operation is one SQLite transaction and one step; a request *)
(* is several.                                                             *)
(***************************************************************************)
EXTENDS Integers, FiniteSets, Sequences

CONSTANTS
  Servers,        \* backend processes
  Conns,          \* requests in progress at once
  NewSessions,    \* ids newHTTPSessionID may draw, in the order it draws them
  LegacySessions, \* ids of sessions that predate the durable table
  Caps,           \* what a client may announce in initialize
  MaxSessions,    \* maxHTTPSessions
  McpBounds       \* records [requests, lapses, crashes, drains, legacy]

VARIABLES
  mcBounds,   \* what is left of the behaviour's bounds
  mtab,       \* the durable table
  msrv,       \* each process
  mreq        \* the request each connection carries

mcVars == <<mcBounds, mtab, msrv, mreq>>

SessionIds == NewSessions \cup LegacySessions

NoCaps == "none"

NoSession == 0

McpNoRequest == [at |-> "idle", p |-> "none", id |-> NoSession, caps |-> NoCaps]

NoRecord == [state |-> "absent", caps |-> NoCaps, adopted |-> FALSE, lapsed |-> FALSE, told |-> FALSE, ended |-> FALSE]

\* newHTTPServerLifecycle and newClientCapabilityStore
FreshServer == [up |-> TRUE, draining |-> FALSE, ready |-> TRUE, woken |-> FALSE, closed |-> FALSE,
                cache |-> [s \in SessionIds |-> NoCaps]]

DownServer == [FreshServer EXCEPT !.up = FALSE, !.ready = FALSE]

-----------------------------------------------------------------------------
(* The table *)

rows == mtab.rows

McpActive(R) == {s \in SessionIds : R[s].state = "active"}

\* The rows in the order of last_seen, this one newest.
McpSeen(order, s) == SelectSeq(order, LAMBDA t : t # s) \o <<s>>

\* expireHTTPSessions
expireHTTPSessions(R) ==
  [s \in SessionIds |-> IF R[s].state = "active" /\ R[s].lapsed
                        THEN [R[s] EXCEPT !.state = "expired", !.ended = TRUE] ELSE R[s]]

\* The active session with the smallest last_seen.
Eldest(R, order) ==
  order[CHOOSE i \in 1..Len(order) :
          /\ order[i] \in McpActive(R)
          /\ \A j \in 1..(i - 1) : order[j] \notin McpActive(R)]

\* enforceHTTPSessionBound
enforceHTTPSessionBound(R, order) ==
  IF Cardinality(McpActive(R)) < MaxSessions THEN R
  ELSE [R EXCEPT ![Eldest(R, order)].state = "revoked", ![Eldest(R, order)].ended = TRUE]

\* CreateBound for the id s
Created(s, caps) ==
  LET R == enforceHTTPSessionBound(expireHTTPSessions(rows), mtab.order)
  IN [mtab EXCEPT !.rows = [R EXCEPT ![s] = [NoRecord EXCEPT !.state = "active", !.caps = caps]],
                  !.order = McpSeen(mtab.order, s)]

\* The migration window of ValidateBound.
Adoptable(s) == mtab.adopting /\ s \in LegacySessions /\ rows[s].state = "absent"

\* ValidateBound: what it answers, and the table it leaves.
Verdict(s) ==
  CASE s = NoSession -> "missing"
    [] s # NoSession /\ Adoptable(s) -> "valid"
    [] s # NoSession /\ ~Adoptable(s) /\ rows[s].state \in {"absent", "revoked"} -> "unknown"
    [] s # NoSession /\ ~Adoptable(s) /\ rows[s].state = "active" /\ ~rows[s].lapsed -> "valid"
    [] OTHER -> "expired"

Adopted(s) == [NoRecord EXCEPT !.state = "active", !.adopted = TRUE]

Validated(s) ==
  CASE Verdict(s) = "valid" ->
         [mtab EXCEPT !.rows[s] = IF Adoptable(s) THEN Adopted(s) ELSE [@ EXCEPT !.lapsed = FALSE],
                      !.order = McpSeen(mtab.order, s)]
    [] Verdict(s) = "expired" -> [mtab EXCEPT !.rows[s].state = "expired", !.rows[s].ended = TRUE]
    [] OTHER -> mtab

-----------------------------------------------------------------------------
(* Requests *)

SetReq(k, r) == mreq' = [mreq EXCEPT ![k] = r]

McpDone(k) == SetReq(k, McpNoRequest)

Listening(p) == msrv[p].up /\ ~msrv[p].closed

\* The sessions a client can name.
Known == {s \in SessionIds : rows[s].told} \cup (IF mcBounds.legacy THEN LegacySessions ELSE {})

\* A request reaches a process whose listener is open.
Receive(k, p) ==
  /\ mreq[k] = McpNoRequest
  /\ Listening(p)
  /\ mcBounds.requests > 0
  /\ mcBounds' = [mcBounds EXCEPT !.requests = @ - 1]

\* handleHTTPPost with initialize: refused while draining; a prior session that
\* still validates is kept, and a new one is created otherwise.
PostInitialize(k, p, prior, caps) ==
  /\ Receive(k, p)
  /\ ~msrv[p].draining
  /\ mtab' = Validated(prior)
  /\ SetReq(k, [at |-> IF Verdict(prior) = "valid" THEN "update" ELSE "create",
                p |-> p, id |-> prior, caps |-> caps])
  /\ UNCHANGED msrv

\* UpdateCapabilitiesBound: 503 when the row is no longer active
UpdateCapabilitiesBound(k) ==
  LET s == mreq[k].id
  IN /\ mreq[k].at = "update"
     /\ \/ /\ rows[s].state = "active"
           /\ mtab' = [mtab EXCEPT !.rows[s].caps = mreq[k].caps]
           /\ mreq' = [mreq EXCEPT ![k].at = "record"]
        \/ /\ rows[s].state # "active"
           /\ McpDone(k)
           /\ UNCHANGED mtab
     /\ UNCHANGED <<mcBounds, msrv>>

CreateBound(k) ==
  /\ mreq[k].at = "create"
  /\ \E s \in NewSessions :
       /\ rows[s].state = "absent"
       /\ \A t \in NewSessions : rows[t].state = "absent" => s <= t
       /\ mtab' = Created(s, mreq[k].caps)
       /\ mreq' = [mreq EXCEPT ![k].at = "record", ![k].id = s]
  /\ UNCHANGED <<mcBounds, msrv>>

\* initializeResult: the process remembers the capabilities and the client has
\* its session.
initializeResult(k) ==
  LET s == mreq[k].id
  IN /\ mreq[k].at = "record"
     /\ msrv' = [msrv EXCEPT ![mreq[k].p].cache[s] = mreq[k].caps]
     /\ mtab' = [mtab EXCEPT !.rows[s].told = TRUE]
     /\ McpDone(k)
     /\ UNCHANGED mcBounds

\* validateHTTPSessionObserved, the beginning of every other request
ValidateRequest(k, p, s, kind) ==
  /\ Receive(k, p)
  /\ mtab' = Validated(s)
  /\ IF Verdict(s) = "valid"
     THEN SetReq(k, [at |-> kind, p |-> p, id |-> s, caps |-> mtab'.rows[s].caps])
     ELSE UNCHANGED mreq
  /\ UNCHANGED msrv

\* clientCapabilityStore.Put with what the validation read
PutCapabilities(k) ==
  /\ mreq[k].at \in {"post", "get"}
  /\ msrv' = [msrv EXCEPT ![mreq[k].p].cache[mreq[k].id] = mreq[k].caps]
  /\ mreq' = [mreq EXCEPT ![k].at = IF @ = "post" THEN "tool" ELSE "stream"]
  /\ UNCHANGED <<mcBounds, mtab>>

\* handleObservedSession: the tool runs and its answer is written.
AnswerPost(k) ==
  /\ mreq[k].at = "tool"
  /\ McpDone(k)
  /\ UNCHANGED <<mcBounds, mtab, msrv>>

\* DeleteBound: only an active row changes
DeleteBound(k) ==
  LET s == mreq[k].id
  IN /\ mreq[k].at = "delete"
     /\ mtab' = IF rows[s].state = "active"
                THEN [mtab EXCEPT !.rows[s].state = "revoked", !.rows[s].ended = TRUE] ELSE mtab
     /\ mreq' = [mreq EXCEPT ![k].at = "forget"]
     /\ UNCHANGED <<mcBounds, msrv>>

\* clientCapabilityStore.Delete
ForgetCapabilities(k) ==
  /\ mreq[k].at = "forget"
  /\ msrv' = [msrv EXCEPT ![mreq[k].p].cache[mreq[k].id] = NoCaps]
  /\ McpDone(k)
  /\ UNCHANGED <<mcBounds, mtab>>

\* handleHTTPGetSSE: the stream's loop sees the drain.
EndStream(k) ==
  /\ mreq[k].at = "stream"
  /\ msrv[mreq[k].p].woken
  /\ McpDone(k)
  /\ UNCHANGED <<mcBounds, mtab, msrv>>

\* The client closes its stream.
LeaveStream(k) ==
  /\ mreq[k].at = "stream"
  /\ ~msrv[mreq[k].p].woken
  /\ McpDone(k)
  /\ UNCHANGED <<mcBounds, mtab, msrv>>

-----------------------------------------------------------------------------
(* The life of a process *)

StartServer(p) ==
  /\ ~msrv[p].up
  /\ mcBounds.drains + mcBounds.crashes > 0
  /\ msrv' = [msrv EXCEPT ![p] = FreshServer]
  /\ UNCHANGED <<mcBounds, mtab, mreq>>

\* Faulty variant: the streams are not woken.
BeginDrainSilent(p) ==
  /\ Listening(p)
  /\ ~msrv[p].draining
  /\ mcBounds.drains > 0
  /\ mcBounds' = [mcBounds EXCEPT !.drains = @ - 1]
  /\ msrv' = [msrv EXCEPT ![p].draining = TRUE, ![p].ready = FALSE]
  /\ UNCHANGED <<mtab, mreq>>

\* BeginDrain: initialize is refused, then readiness drops, then streams wake.
BeginDrain(p) ==
  /\ Listening(p)
  /\ ~msrv[p].draining
  /\ mcBounds.drains > 0
  /\ mcBounds' = [mcBounds EXCEPT !.drains = @ - 1]
  /\ msrv' = [msrv EXCEPT ![p].draining = TRUE, ![p].ready = FALSE, ![p].woken = TRUE]
  /\ UNCHANGED <<mtab, mreq>>

\* http.Server.Shutdown closes the listener first.
CloseListener(p) ==
  /\ Listening(p)
  /\ msrv[p].draining
  /\ msrv' = [msrv EXCEPT ![p].closed = TRUE]
  /\ UNCHANGED <<mcBounds, mtab, mreq>>

InFlight(p) == {k \in Conns : mreq[k].p = p}

\* Faulty variant: the durable table is emptied as well.
InvalidatedAll(p) == mtab' = [mtab EXCEPT !.rows = [s \in SessionIds |-> [@[s] EXCEPT !.state = "absent"]]]

\* The invalidation of ServeHTTPWithOptions: HTTPSessionStore.Reset leaves a
\* durable table alone, and the cache dies with the process.
Invalidated(p) == UNCHANGED mtab

\* serveHTTPListener returns once the last request has ended.
FinishDrain(p) ==
  /\ msrv[p].up /\ msrv[p].closed
  /\ InFlight(p) = {}
  /\ Invalidated(p)
  /\ msrv' = [msrv EXCEPT ![p] = DownServer]
  /\ UNCHANGED <<mcBounds, mreq>>

\* The shutdown deadline, or a crash, cuts the requests that are left.
CutServer(p) ==
  /\ msrv[p].up
  /\ \/ msrv[p].closed /\ Invalidated(p) /\ UNCHANGED mcBounds
     \/ /\ mcBounds.crashes > 0
        /\ mcBounds' = [mcBounds EXCEPT !.crashes = @ - 1]
        /\ UNCHANGED mtab
  /\ InFlight(p) # {}
  /\ msrv' = [msrv EXCEPT ![p] = DownServer]
  /\ mreq' = [k \in Conns |-> IF k \in InFlight(p) THEN McpNoRequest ELSE mreq[k]]

\* A session's expiry passes without a request.
SessionLapses(s) ==
  /\ mcBounds.lapses > 0
  /\ rows[s].state = "active" /\ ~rows[s].lapsed
  /\ mcBounds' = [mcBounds EXCEPT !.lapses = @ - 1]
  /\ mtab' = [mtab EXCEPT !.rows[s].lapsed = TRUE]
  /\ UNCHANGED <<msrv, mreq>>

\* The migration window ends.
AdoptionEnds ==
  /\ mcBounds.lapses > 0
  /\ mtab.adopting
  /\ mcBounds' = [mcBounds EXCEPT !.lapses = @ - 1]
  /\ mtab' = [mtab EXCEPT !.adopting = FALSE]
  /\ UNCHANGED <<msrv, mreq>>

-----------------------------------------------------------------------------

McpInit ==
  /\ mcBounds \in McpBounds
  /\ mtab = [rows |-> [s \in SessionIds |-> NoRecord], order |-> <<>>, adopting |-> mcBounds.legacy]
  /\ msrv \in [Servers -> {FreshServer, DownServer}]
  /\ Cardinality({p \in Servers : msrv[p].up}) = 1
  /\ mreq = [k \in Conns |-> McpNoRequest]

HandlerStep ==
  \/ \E k \in Conns : UpdateCapabilitiesBound(k)
  \/ \E k \in Conns : CreateBound(k)
  \/ \E k \in Conns : initializeResult(k)
  \/ \E k \in Conns : PutCapabilities(k)
  \/ \E k \in Conns : AnswerPost(k)
  \/ \E k \in Conns : DeleteBound(k)
  \/ \E k \in Conns : ForgetCapabilities(k)
  \/ \E k \in Conns : EndStream(k)

McpNext ==
  \/ HandlerStep
  \/ \E k \in Conns, p \in Servers, s \in Known \cup {NoSession}, c \in Caps : PostInitialize(k, p, s, c)
  \/ \E k \in Conns, p \in Servers, s \in Known : ValidateRequest(k, p, s, "post")
  \/ \E k \in Conns, p \in Servers, s \in Known : ValidateRequest(k, p, s, "get")
  \/ \E k \in Conns, p \in Servers, s \in Known : ValidateRequest(k, p, s, "delete")
  \/ \E k \in Conns : LeaveStream(k)
  \/ \E p \in Servers : StartServer(p)
  \/ \E p \in Servers : BeginDrain(p)
  \/ \E p \in Servers : CloseListener(p)
  \/ \E p \in Servers : FinishDrain(p)
  \/ \E p \in Servers : CutServer(p)
  \/ \E s \in SessionIds : SessionLapses(s)
  \/ AdoptionEnds

\* Handlers run on, and the shutdown of a drained listener returns.  Nothing is
\* assumed of clients, of the deadline or of crashes.
McpFair ==
  /\ \A k \in Conns :
       /\ WF_mcVars(UpdateCapabilitiesBound(k) \/ CreateBound(k) \/ initializeResult(k) \/ PutCapabilities(k))
       /\ WF_mcVars(AnswerPost(k) \/ DeleteBound(k) \/ ForgetCapabilities(k) \/ EndStream(k))
  /\ \A p \in Servers : WF_mcVars(CloseListener(p)) /\ WF_mcVars(FinishDrain(p))

McpSpec == McpInit /\ [][McpNext]_mcVars /\ McpFair

-----------------------------------------------------------------------------
(* Properties *)

\* Only adopted sessions may exceed the bound: creating a session never leaves
\* more than maxHTTPSessions of its own kind.
SessionsBounded ==
  /\ \A s \in SessionIds : rows[s].state \in {"absent", "active", "revoked", "expired"}
  /\ \A p \in Servers : msrv[p].ready => msrv[p].up /\ ~msrv[p].draining
  /\ Cardinality(McpActive(rows)) <= MaxSessions + Cardinality({s \in SessionIds : rows[s].adopted})

\* A session that was revoked or expired is never usable again, on any backend,
\* through initialize, adoption or a request that validated it before.
EndedStaysEnded ==
  [][\A s \in SessionIds : rows[s].ended => rows'[s].ended /\ rows'[s].state = rows[s].state]_mcVars

\* A session a client was told of stays active until it is revoked, evicted or
\* expires, whatever happens to the process that created it.
ToldSessionLives ==
  \A s \in SessionIds : rows[s].told => rows[s].state = "active" \/ rows[s].ended

\* A process that is being replaced stops by itself: its streams notice the
\* drain, its requests end and the shutdown returns without its deadline.
DrainCompletes == \A p \in Servers : []<>~msrv[p].draining

=============================================================================
