---------------------------- MODULE ServerStores ----------------------------
(***************************************************************************)
(* Two stores of the server whose files several writers share: the OAuth   *)
(* grants and the Brain notes. Each part has its own variables and its own *)
(* specification.                                                          *)
(***************************************************************************)
EXTENDS Integers, FiniteSets, Sequences, SequencesExt

-----------------------------------------------------------------------------
(***************************************************************************)
(* The OAuth token store of the MCP server (internal/oauth): dynamic       *)
(* clients, authorization codes, access grants and rotating refresh        *)
(* grants.  Each backend process keeps all four in memory and the first,   *)
(* third and fourth in files of the shared state volume; during a rollout  *)
(* two backends serve at once.  Access and refresh updates take a file     *)
(* lock and reload; client updates and the console's revocation of a       *)
(* refresh grant do neither.                                               *)
(*                                                                         *)
(* A pair of tokens is a number: its access grant and its refresh grant    *)
(* carry the same one.  Every function of the store runs under the         *)
(* process's mutex and is one step, except the rotation, whose two files   *)
(* are written one after the other.                                        *)
(***************************************************************************)

CONSTANTS
  Backends,      \* backend processes that may overlap
  OaCallers,     \* request handlers that run at once
  OaClients,     \* ids registerClient may draw
  MaxClients,    \* maxClients
  MaxAccess,     \* maxAccessGrants
  MaxFailures,   \* maxPassphraseFailures
  MaxRegs,       \* maxRegistrationsPerWindow
  OaBounds       \* records [starts, logins, pairs, faults, crashes, lapses, ages,
                 \*          wrong, console, overlap]

VARIABLES
  oaBounds,   \* what is left of the behaviour's bounds, and the faults it had
  ofile,      \* the three files
  oproc,      \* the memory of each backend
  ocall,      \* the request each handler serves
  otime,      \* what the clock has carried past its time to live
  ohist       \* what clients were told

oaVars == <<oaBounds, ofile, oproc, ocall, otime, ohist>>

\* The id NewConsoleClient derives from the console's callback.
Console == "console"

AllClients == OaClients \cup {Console}

Pairs == 1..9

NoOAuthCall == [at |-> "idle", p |-> "none", c |-> "none", old |-> 0, new |-> 0]

\* newTokenStore
EmptyStore == [up |-> FALSE, clients |-> {}, active |-> {}, codes |-> {},
               access |-> {}, refresh |-> {}, fails |-> 0, regs |-> 0]

-----------------------------------------------------------------------------
(* What the clock decides *)

\* pruneAccessLocked, and what loadAccessLocked skips
LiveAccess(S) == S \ otime.access

\* What loadRefreshLocked skips.
LiveRefresh(S) == S \ otime.refresh

\* The unactivated registrations registerClient and getClient drop.
OAuthExpired(s) == {c \in s.clients \ s.active : c \in otime.clients}

OAuthPruned(s) == [s EXCEPT !.clients = @ \ OAuthExpired(s)]

-----------------------------------------------------------------------------
(* The store's files *)

\* loadAccessLocked and loadRefreshLocked
ReloadAccess(s) == [s EXCEPT !.access = LiveAccess(ofile.access)]

ReloadRefresh(s) == [s EXCEPT !.refresh = LiveRefresh(ofile.refresh)]

\* A write either reaches its rename or fails before it.
WriteOk == oaBounds' = oaBounds

OAuthWriteFails ==
  /\ oaBounds.faults > 0
  /\ oaBounds' = [oaBounds EXCEPT !.faults = @ - 1, !.lost = @ + 1]

\* persistClientsLocked: no lock, no reload
PersistClients(s) == ofile' = [ofile EXCEPT !.clients = s.clients, !.active = s.active]

\* persistAccessLocked
PersistAccess(s) == ofile' = [ofile EXCEPT !.access = LiveAccess(s.access)]

\* persistRefreshLocked
PersistRefresh(s) == ofile' = [ofile EXCEPT !.refresh = s.refresh]

Rotating == {k \in OaCallers : ocall[k].at = "rotating"}

\* tokenStore.mu: a rotation keeps its process's mutex between its two writes.
OAuthServed(p) == oproc[p].up /\ \A k \in Rotating : ocall[k].p # p

\* withAccessStoreFileLock: a rotation keeps both file locks as well.
FileFree == Rotating = {}

EndCall(k) == ocall' = [ocall EXCEPT ![k] = NoOAuthCall]

OAuthGoTo(k, at) == ocall' = [ocall EXCEPT ![k].at = at]

SetStore(p, s) == oproc' = [oproc EXCEPT ![p] = s]

-----------------------------------------------------------------------------
(* Startup and crash *)

\* enableClientPersistence, enableAccessPersistence, enableRefreshPersistence
LoadedStore ==
  [EmptyStore EXCEPT !.up = TRUE, !.clients = ofile.clients, !.active = ofile.active,
     !.access = LiveAccess(ofile.access), !.refresh = LiveRefresh(ofile.refresh)]

\* ensureFixedClient: the console's client, kept as it is when it exists.
ensureFixedClient(p, s) ==
  \/ /\ Console \in s.clients
     /\ SetStore(p, s)
     /\ UNCHANGED ofile
  \/ LET t == [s EXCEPT !.clients = @ \cup {Console}]
     IN /\ Console \notin s.clients
        /\ Cardinality(s.clients) < MaxClients
        /\ SetStore(p, t)
        /\ PersistClients(t)

\* NewProvider and NewConsoleClient; a backend that cannot store the console's
\* client does not come up.
StartBackend(p) ==
  /\ ~oproc[p].up
  /\ oaBounds.overlap \/ \A q \in Backends : ~oproc[q].up
  /\ FileFree
  /\ oaBounds.starts > 0
  /\ oaBounds' = [oaBounds EXCEPT !.starts = @ - 1]
  /\ ensureFixedClient(p, LoadedStore)
  /\ UNCHANGED <<ocall, otime, ohist>>

\* The process ends, and with it the requests it serves.
KillBackend(p) ==
  /\ oproc[p].up
  /\ oaBounds.crashes > 0
  /\ oaBounds' = [oaBounds EXCEPT !.crashes = @ - 1, !.died = TRUE]
  /\ SetStore(p, EmptyStore)
  /\ ocall' = [k \in OaCallers |-> IF ocall[k].p = p THEN NoOAuthCall ELSE ocall[k]]
  /\ UNCHANGED <<ofile, otime, ohist>>

-----------------------------------------------------------------------------
(* Clients *)

\* registerClient: drop what expired, refuse past the limits, store and persist.
registerClient(p, c) ==
  LET s == OAuthPruned(oproc[p])
      t == [s EXCEPT !.clients = @ \cup {c}, !.regs = @ + 1]
  IN /\ OAuthServed(p)
     /\ c \notin ohist.known
     /\ IF Cardinality(s.clients) >= MaxClients \/ s.regs >= MaxRegs
        THEN /\ s # oproc[p]
             /\ SetStore(p, s)
             /\ WriteOk
             /\ UNCHANGED <<ofile, ohist>>
        ELSE \/ /\ WriteOk
                /\ SetStore(p, t)
                /\ PersistClients(t)
                /\ ohist' = [ohist EXCEPT !.known = @ \cup {c}]
             \/ /\ OAuthWriteFails
                /\ SetStore(p, s)
                /\ UNCHANGED <<ofile, ohist>>
     /\ UNCHANGED <<ocall, otime>>

\* getClient drops an expired client; a lost write is ignored.
ForgetClient(p, c) ==
  LET t == [oproc[p] EXCEPT !.clients = @ \ {c}]
  IN /\ c \in OAuthExpired(oproc[p])
     /\ SetStore(p, t)
     /\ \/ WriteOk /\ PersistClients(t)
        \/ OAuthWriteFails /\ UNCHANGED ofile
     /\ UNCHANGED ocall

\* validateAuthorizeRequest
ValidateAuthorize(k, p, c) ==
  /\ OAuthServed(p)
  /\ ocall[k] = NoOAuthCall
  /\ c \in oproc[p].clients
  /\ \/ ForgetClient(p, c)
     \/ /\ c \notin OAuthExpired(oproc[p])
        /\ oaBounds.logins > 0
        /\ oaBounds' = [oaBounds EXCEPT !.logins = @ - 1]
        /\ ocall' = [ocall EXCEPT ![k] = [NoOAuthCall EXCEPT !.at = "validated", !.p = p, !.c = c]]
        /\ UNCHANGED <<ofile, oproc>>
  /\ UNCHANGED <<otime, ohist>>

\* passphraseThrottled: every failure also fills the global bucket, which a
\* success does not empty, so that bucket decides.
CheckThrottle(k) ==
  LET p == ocall[k].p
  IN /\ ocall[k].at = "validated"
     /\ OAuthServed(p)
     /\ IF oproc[p].fails >= MaxFailures THEN EndCall(k) ELSE OAuthGoTo(k, "checked")
     /\ UNCHANGED <<oaBounds, ofile, oproc, otime, ohist>>

\* handleAuthorize holds a validated form that the throttle let through.
AtPassphrase(k) == ocall[k].at = "checked" /\ OAuthServed(ocall[k].p)

\* recordPassphraseFailure
WrongPassphrase(k) ==
  LET p == ocall[k].p
  IN /\ AtPassphrase(k)
     /\ oaBounds.wrong > 0
     /\ oaBounds' = [oaBounds EXCEPT !.wrong = @ - 1]
     /\ oproc' = [oproc EXCEPT ![p].fails = @ + 1]
     /\ EndCall(k)
     /\ UNCHANGED <<ofile, otime, ohist>>

\* putCode: the client's first authorization is durable before the code exists.
\* A client holds at most one outstanding code in the model.
putCode(k) ==
  LET p == ocall[k].p
      c == ocall[k].c
      s == oproc[p]
      new == (s.clients \cap {c}) \ s.active
      t == [s EXCEPT !.active = @ \cup new, !.codes = @ \cup {c}]
  IN /\ AtPassphrase(k)
     /\ c \notin s.codes
     /\ \/ /\ WriteOk
           /\ SetStore(p, t)
           /\ IF new = {} THEN UNCHANGED ofile ELSE PersistClients(t)
           /\ ohist' = [ohist EXCEPT !.granted = @ \cup (s.clients \cap {c})]
        \/ /\ new # {}
           /\ OAuthWriteFails
           /\ UNCHANGED <<ofile, oproc, ohist>>
     /\ EndCall(k)
     /\ UNCHANGED otime

-----------------------------------------------------------------------------
(* The first pair of a client, and the console's login *)

\* consumeCode: the code is gone whatever happens to the exchange.
consumeCode(p, c) ==
  /\ c \in oproc[p].codes
  /\ oproc' = [oproc EXCEPT ![p].codes = @ \ {c}]

\* grantAuthorizationCode and Complete up to their first grant.  The code may have
\* expired, or one of its bindings may not match.
RedeemCode(k, p, c) ==
  /\ OAuthServed(p)
  /\ ocall[k] = NoOAuthCall
  /\ consumeCode(p, c)
  /\ \/ /\ oaBounds.pairs > 0
        /\ oaBounds' = [oaBounds EXCEPT !.pairs = @ - 1]
        /\ ohist' = [ohist EXCEPT !.last = @ + 1]
        /\ ocall' = [ocall EXCEPT ![k] = [at |-> "redeemed", p |-> p, c |-> c, old |-> 0, new |-> ohist.last + 1]]
     \/ UNCHANGED <<oaBounds, ohist, ocall>>
  /\ UNCHANGED <<ofile, otime>>

\* putAccess, under the file lock after a reload
putAccess(k) ==
  LET p == ocall[k].p
      s == ReloadAccess(oproc[p])
      t == [s EXCEPT !.access = @ \cup {ocall[k].new}]
  IN /\ ocall[k].at = "redeemed"
     /\ OAuthServed(p)
     /\ FileFree
     /\ \/ /\ Cardinality(s.access) >= MaxAccess
           /\ WriteOk /\ SetStore(p, s) /\ EndCall(k) /\ UNCHANGED ofile
        \/ /\ Cardinality(s.access) < MaxAccess
           /\ WriteOk /\ SetStore(p, t) /\ PersistAccess(t) /\ OAuthGoTo(k, "access")
        \/ /\ Cardinality(s.access) < MaxAccess
           /\ OAuthWriteFails /\ SetStore(p, s) /\ EndCall(k) /\ UNCHANGED ofile
     /\ UNCHANGED <<otime, ohist>>

\* The end of issueTokenPair: the client has its pair.
AnswerPair(k) ==
  /\ EndCall(k)
  /\ ohist' = [ohist EXCEPT !.held = @ \cup {ocall[k].new}]

\* ConsoleClient.Complete: the pair only proves the login and is revoked at once.
CompleteConsole(k) == OAuthGoTo(k, "revoke") /\ UNCHANGED ohist

\* putRefresh, under the file lock after a reload; the pair is answered only
\* then.  On failure the access grant is taken back.
putRefresh(k) ==
  LET p == ocall[k].p
      s == ReloadRefresh(oproc[p])
      t == [s EXCEPT !.refresh = @ \cup {ocall[k].new}]
  IN /\ ocall[k].at = "access"
     /\ OAuthServed(p)
     /\ FileFree
     /\ \/ /\ WriteOk /\ SetStore(p, t) /\ PersistRefresh(t)
           /\ IF ocall[k].c = Console THEN CompleteConsole(k) ELSE AnswerPair(k)
        \/ /\ OAuthWriteFails /\ SetStore(p, s) /\ OAuthGoTo(k, "undo") /\ UNCHANGED <<ofile, ohist>>
     /\ UNCHANGED otime

\* revokeAccess, under the file lock after a reload; a lost write is ignored.
revokeAccess(k) ==
  LET p == ocall[k].p
      t == [ReloadAccess(oproc[p]) EXCEPT !.access = @ \ {ocall[k].new}]
  IN /\ ocall[k].at \in {"undo", "revoke"}
     /\ OAuthServed(p)
     /\ FileFree
     /\ SetStore(p, t)
     /\ \/ WriteOk /\ PersistAccess(t)
        \/ OAuthWriteFails /\ UNCHANGED ofile
     /\ IF ocall[k].at = "undo" THEN EndCall(k) ELSE OAuthGoTo(k, "revoked")
     /\ UNCHANGED <<otime, ohist>>

\* revokeRefresh: no file lock, no reload
revokeRefresh(k) ==
  LET p == ocall[k].p
      t == [oproc[p] EXCEPT !.refresh = @ \ {ocall[k].new}]
  IN /\ ocall[k].at = "revoked"
     /\ OAuthServed(p)
     /\ SetStore(p, t)
     /\ \/ WriteOk /\ PersistRefresh(t)
        \/ OAuthWriteFails /\ UNCHANGED ofile
     /\ EndCall(k)
     /\ UNCHANGED <<otime, ohist>>

-----------------------------------------------------------------------------
(* Rotation *)

\* A refresh grant the client presents: one it was given, current or not.
Presented(n) == n \in ohist.held \cup ohist.spent

\* rotateRefresh up to its first write: both files are locked and reloaded, the
\* old grant is found, and the new access grant is stored.  An expired grant is
\* dropped, and a refused or failed rotation changes nothing else.
rotateRefresh(k, p, n) ==
  LET s == ReloadRefresh(ReloadAccess(oproc[p]))
      t == [s EXCEPT !.access = @ \cup {ohist.last + 1}, !.refresh = (@ \ {n}) \cup {ohist.last + 1}]
      Refused == SetStore(p, s) /\ UNCHANGED <<ofile, ocall, ohist>>
  IN /\ OAuthServed(p)
     /\ FileFree
     /\ ocall[k] = NoOAuthCall
     /\ Presented(n)
     /\ \/ /\ n \notin s.refresh \/ Cardinality(s.access) >= MaxAccess
           /\ WriteOk /\ Refused
        \/ /\ n \in s.refresh
           /\ Cardinality(s.access) < MaxAccess
           /\ \/ OAuthWriteFails /\ Refused
              \/ /\ oaBounds.pairs > 0
                 /\ oaBounds' = [oaBounds EXCEPT !.pairs = @ - 1]
                 /\ ohist' = [ohist EXCEPT !.last = @ + 1]
                 /\ PersistAccess(t)
                 /\ SetStore(p, t)
                 /\ ocall' = [ocall EXCEPT ![k] =
                      [at |-> "rotating", p |-> p, c |-> "none", old |-> n, new |-> ohist.last + 1]]
     /\ UNCHANGED otime

\* The end of grantRefreshToken: the client replaces its pair.
AnswerRotation(o, w) == ohist' = [ohist EXCEPT !.held = (@ \ {o}) \cup {w}, !.spent = @ \cup {o}]

\* The rest of rotateRefresh: the refresh file, or the access file put back; the
\* second may fail too.
finishRotation(k) ==
  LET p == ocall[k].p
      o == ocall[k].old
      w == ocall[k].new
      s == oproc[p]
      before == [s EXCEPT !.access = @ \ {w}, !.refresh = (@ \ {w}) \cup {o}]
  IN /\ ocall[k].at = "rotating"
     /\ EndCall(k)
     /\ \/ /\ WriteOk
           /\ PersistRefresh(s)
           /\ AnswerRotation(o, w)
           /\ UNCHANGED oproc
        \/ /\ OAuthWriteFails
           /\ SetStore(p, before)
           /\ PersistAccess(before)
           /\ UNCHANGED ohist
        \/ /\ oaBounds.faults > 1
           /\ oaBounds' = [oaBounds EXCEPT !.faults = @ - 2, !.lost = @ + 2]
           /\ SetStore(p, before)
           /\ UNCHANGED <<ofile, ohist>>
     /\ UNCHANGED otime

-----------------------------------------------------------------------------
(* Bearer requests *)

\* getAccess, as Principal calls it: memory first, the file when memory does
\* not know the token; an expired one is dropped and what memory holds is written.
getAccess(p, n) ==
  LET s == IF n \in oproc[p].access THEN oproc[p] ELSE ReloadAccess(oproc[p])
      t == [s EXCEPT !.access = LiveAccess(@ \ {n})]
  IN /\ OAuthServed(p)
     /\ FileFree
     /\ n \in 1..ohist.last
     /\ IF n \in s.access /\ n \in otime.access
        THEN /\ SetStore(p, t)
             /\ \/ WriteOk /\ PersistAccess(t)
                \/ OAuthWriteFails /\ UNCHANGED ofile
        ELSE /\ s # oproc[p]
             /\ SetStore(p, s)
             /\ UNCHANGED <<oaBounds, ofile>>
     /\ UNCHANGED <<ocall, otime, ohist>>

-----------------------------------------------------------------------------
(* The clock *)

AccessLapses(n) ==
  /\ oaBounds.lapses > 0
  /\ n \in ohist.held \cup ohist.spent
  /\ n \notin otime.access
  /\ oaBounds' = [oaBounds EXCEPT !.lapses = @ - 1]
  /\ otime' = [otime EXCEPT !.access = @ \cup {n}]
  /\ UNCHANGED <<ofile, oproc, ocall, ohist>>

\* A refresh grant outlives the access grant of its pair.
RefreshLapses(n) ==
  /\ oaBounds.lapses > 0
  /\ n \in otime.access \ otime.refresh
  /\ oaBounds' = [oaBounds EXCEPT !.lapses = @ - 1]
  /\ otime' = [otime EXCEPT !.refresh = @ \cup {n}]
  /\ UNCHANGED <<ofile, oproc, ocall, ohist>>

\* unactivatedClientTTL passes for a registered client.
ClientAges(c) ==
  /\ oaBounds.ages > 0
  /\ c \in ofile.clients \ otime.clients
  /\ oaBounds' = [oaBounds EXCEPT !.ages = @ - 1]
  /\ otime' = [otime EXCEPT !.clients = @ \cup {c}]
  /\ UNCHANGED <<ofile, oproc, ocall, ohist>>

\* registrationWindow and passphraseWindow pass.
WindowPasses(p) ==
  /\ oaBounds.ages > 0
  /\ oproc[p].fails + oproc[p].regs > 0
  /\ oaBounds' = [oaBounds EXCEPT !.ages = @ - 1]
  /\ oproc' = [oproc EXCEPT ![p].fails = 0, ![p].regs = 0]
  /\ UNCHANGED <<ofile, ocall, otime, ohist>>

-----------------------------------------------------------------------------

OAuthInit ==
  /\ \E b \in OaBounds :
       oaBounds = [starts |-> b.starts, logins |-> b.logins, pairs |-> b.pairs, faults |-> b.faults,
                   crashes |-> b.crashes, lapses |-> b.lapses, ages |-> b.ages, wrong |-> b.wrong,
                   console |-> b.console, overlap |-> b.overlap, lost |-> 0, died |-> FALSE]
  /\ ofile = [clients |-> {}, active |-> {}, access |-> {}, refresh |-> {}]
  /\ oproc = [p \in Backends |-> EmptyStore]
  /\ ocall = [k \in OaCallers |-> NoOAuthCall]
  /\ otime = [access |-> {}, refresh |-> {}, clients |-> {}]
  /\ ohist = [last |-> 0, held |-> {}, spent |-> {}, known |-> {}, granted |-> {}]

Logins == IF oaBounds.console THEN AllClients ELSE OaClients

OAuthNext ==
  \/ \E p \in Backends : StartBackend(p)
  \/ \E p \in Backends : KillBackend(p)
  \/ \E p \in Backends, c \in OaClients : registerClient(p, c)
  \/ \E k \in OaCallers, p \in Backends, c \in Logins : ValidateAuthorize(k, p, c)
  \/ \E k \in OaCallers : CheckThrottle(k)
  \/ \E k \in OaCallers : WrongPassphrase(k)
  \/ \E k \in OaCallers : putCode(k)
  \/ \E k \in OaCallers, p \in Backends, c \in AllClients : RedeemCode(k, p, c)
  \/ \E k \in OaCallers : putAccess(k)
  \/ \E k \in OaCallers : putRefresh(k)
  \/ \E k \in OaCallers : revokeAccess(k)
  \/ \E k \in OaCallers : revokeRefresh(k)
  \/ \E k \in OaCallers, p \in Backends, n \in Pairs : rotateRefresh(k, p, n)
  \/ \E k \in OaCallers : finishRotation(k)
  \/ \E p \in Backends, n \in Pairs : getAccess(p, n)
  \/ \E n \in Pairs : AccessLapses(n)
  \/ \E n \in Pairs : RefreshLapses(n)
  \/ \E c \in AllClients : ClientAges(c)
  \/ \E p \in Backends : WindowPasses(p)

OAuthSpec == OAuthInit /\ [][OAuthNext]_oaVars

-----------------------------------------------------------------------------
(* Properties *)

CallStates ==
  {"idle", "validated", "checked", "redeemed", "access", "undo", "revoke", "revoked", "rotating"}

\* The stores stay within the limits their loaders enforce, so that a backend
\* can always start again: loadClientsLocked and loadAccessLocked refuse a file
\* past maxClients or maxAccessGrants.
OAuthTypeOK ==
  /\ ofile \in [clients : SUBSET AllClients, active : SUBSET AllClients,
                access : SUBSET Pairs, refresh : SUBSET Pairs]
  /\ ofile.active \subseteq ofile.clients
  /\ Cardinality(ofile.clients) <= MaxClients
  /\ Cardinality(ofile.access) <= MaxAccess
  /\ \A p \in Backends : oproc[p].active \subseteq oproc[p].clients
  /\ \A k \in OaCallers : ocall[k].at \in CallStates

\* A pair a client was given and has not rotated is in the files until it
\* expires: it survives a crash of the backend, and the replacement backend
\* accepts it while both serve.  A rotation that fails leaves the old pair so.
\* Two backends keep it while neither logs the console in nor is shown an expired
\* bearer: those two write what the process remembers over the shared file.
PairKept ==
  \A n \in ohist.held :
    /\ n \in ofile.refresh \cup otime.refresh
    /\ n \in ofile.access \cup otime.access

\* A refresh grant is exchanged once, whichever backend the client asks, however
\* its requests overlap and whatever crashes between the two writes.
RotatedOnce ==
  \A n \in ohist.spent : \A k \in OaCallers :
    (ocall[k].at = "rotating" /\ ocall[k].old = n) => ohist'.spent = ohist.spent /\ ohist'.held = ohist.held

\* Without a crash every stored access grant belongs to a pair that was answered
\* or to a request that still runs: a console login takes its own back, and so do
\* an issue and a rotation that one lost write made fail.  (A console login whose
\* revocation is lost leaves a grant of one minute, whose token nobody has.)
NoLooseGrant ==
  (~oaBounds.died /\ oaBounds.lost <= IF oaBounds.console THEN 0 ELSE 1) =>
    \A n \in ofile.access :
      n \in ohist.held \cup ohist.spent \/ \E k \in OaCallers : ocall[k].new = n

\* putCode: once a registered client was sent an authorization code, no restart
\* forgets it and no expiry prunes it.  It is claimed of one backend at a time:
\* of two that overlap, each writes the clients it remembers over the other's.
AuthorizedClientKept == oaBounds.overlap \/ ohist.granted \subseteq ofile.active

-----------------------------------------------------------------------------
(***************************************************************************)
(* The Brain store: strict Markdown notes, the disposable search cache and *)
(* the local Git history that one brain_write changes together, the strict *)
(* reindex every start performs, and the key the console derives its node  *)
(* identities from.  Store.mu serialises writes and reindexes, so at most  *)
(* one of them is under way; searches, the owner's edits of curated notes, *)
(* the operator's own commits and a crash come between its steps.          *)
(***************************************************************************)

CONSTANTS
  Slugs,          \* note names
  Instances,      \* the server instances of a rolling replacement
  BrainBounds     \* [writes, faults, crashes, edits, commits, limit, instances]

VARIABLES
  bnBounds,   \* what is left of the bounds; limit stands for MaxIndexedNotes
  bsrc,       \* [curated, working : slug -> version, temp : a stray temporary file, next]
  bidx,       \* the notes table of the cache: slug -> version
  bgit,       \* [stage, log]: the repository and the commits of its branch
  bop,        \* the write or reindex that holds Store.mu
  bserver,    \* "down" | "git" | "index" | "serving": the instance that owns the store
  bkey,       \* [file, looked, keys, next]: the console identity, each instance's copy
  bghost      \* [cut, behind]: slugs a crash or a failed rollback left apart

bnVars == <<bnBounds, bsrc, bidx, bgit, bop, bserver, bkey, bghost>>

NoBrainOp == [at |-> "idle"]
NoKeys == [i \in Instances |-> 0]

\* The tip's version of a note: the newest commit that names it.
BrainHeadOf(s, log) ==
  LET named == {i \in DOMAIN log : log[i][1] = s}
  IN IF named = {} THEN 0 ELSE log[CHOOSE i \in named : \A j \in named : j <= i][2]

BrainSpent(field) == /\ bnBounds[field] > 0
                     /\ bnBounds' = [bnBounds EXCEPT ![field] = @ - 1]

BrainInit ==
  /\ bnBounds \in BrainBounds
  /\ bsrc = [curated |-> [s \in Slugs |-> 0], working |-> [s \in Slugs |-> 0],
             temp |-> FALSE, next |-> 1]
  /\ bidx = [s \in Slugs |-> 0]
  /\ bgit = [stage |-> "none", log |-> <<>>]
  /\ bop = NoBrainOp
  /\ bserver = "down"
  /\ bkey = [file |-> 0, looked |-> {}, keys |-> NoKeys, next |-> 1]
  /\ bghost = [cut |-> {}, behind |-> {}]

-----------------------------------------------------------------------------
(* Starting: the history, the cache, and the strict reindex before traffic. *)

\* InitializeGit writes .gitignore before the repository, so that a start cut
\* at any point finds the file the next one verifies.
initializeRepository ==
  /\ bserver = "down" /\ bgit.stage # "ready"
  /\ bgit' = CASE bgit.stage = "none" -> [bgit EXCEPT !.stage = "ignored"]
               [] bgit.stage = "ignored" -> [bgit EXCEPT !.stage = "created"]
               [] bgit.stage = "created" ->
                    [stage |-> "ready", log |-> Append(bgit.log, <<".gitignore", 1>>)]
  /\ UNCHANGED <<bnBounds, bsrc, bidx, bop, bserver, bkey, bghost>>

InitializeGit ==
  /\ bserver = "down" /\ bgit.stage = "ready"
  /\ bserver' = "git"
  /\ UNCHANGED <<bnBounds, bsrc, bidx, bgit, bop, bkey, bghost>>

OpenIndex ==
  /\ bserver = "git"
  /\ bserver' = "index"
  /\ UNCHANGED <<bnBounds, bsrc, bidx, bgit, bop, bkey, bghost>>

\* scanSources: the notes of both directories, or an error when one holds
\* anything else, when a slug is in both, or past the cache's bounds.
BrainWritten(trust) == {s \in Slugs : bsrc[trust][s] # 0}
Scannable == /\ ~bsrc.temp
             /\ BrainWritten("curated") \cap BrainWritten("working") = {}
             /\ Cardinality(BrainWritten("curated") \cup BrainWritten("working")) <= bnBounds.limit
Scanned == [s \in Slugs |-> IF bsrc.curated[s] # 0 THEN bsrc.curated[s] ELSE bsrc.working[s]]

\* Reindex scans and then replaces the whole cache in one transaction.
BeginReindex ==
  /\ bserver \in {"index", "serving"} /\ bop.at = "idle"
  /\ Scannable
  /\ bop' = [at |-> "scanned", sources |-> Scanned]
  /\ bghost' = [bghost EXCEPT !.behind = {}]
  /\ UNCHANGED <<bnBounds, bsrc, bidx, bgit, bserver, bkey>>

replaceAll ==
  /\ bop.at = "scanned"
  /\ bidx' = bop.sources
  /\ bop' = NoBrainOp
  /\ bserver' = "serving"
  /\ UNCHANGED <<bnBounds, bsrc, bgit, bkey, bghost>>

\* A reindex that fails leaves the previous cache; at a start it stops the server.
ReindexFails ==
  /\ \/ bop.at = "idle" /\ bserver = "index" /\ ~Scannable /\ UNCHANGED bnBounds
     \/ bop.at = "scanned" /\ BrainSpent("faults")
  /\ bop' = NoBrainOp
  /\ bserver' = IF bserver = "index" THEN "down" ELSE bserver
  /\ bghost' = [bghost EXCEPT !.behind = IF bop.at = "scanned" THEN Slugs ELSE @]
  /\ UNCHANGED <<bsrc, bidx, bgit, bkey>>

-----------------------------------------------------------------------------
(* WriteAgent *)

\* Nothing is written when the slug is curated; the prior note is read first.
BeginWrite(s) ==
  /\ bserver = "serving" /\ bop.at = "idle"
  /\ bsrc.curated[s] = 0
  /\ BrainSpent("writes")
  /\ bop' = [at |-> "render", slug |-> s, v |-> bsrc.next, prior |-> bsrc.working[s],
             head |-> <<>>, why |-> "none"]
  /\ bsrc' = [bsrc EXCEPT !.next = @ + 1]
  /\ UNCHANGED <<bidx, bgit, bserver, bkey, bghost>>

\* atomicWritePrivate: a temporary file beside the notes, then a rename.
CreateTemp ==
  /\ bop.at \in {"render", "restore"}
  /\ bop.at = "restore" => bop.prior # 0
  /\ bsrc' = [bsrc EXCEPT !.temp = TRUE]
  /\ bop' = [bop EXCEPT !.at = IF @ = "render" THEN "temp" ELSE "restoring"]
  /\ UNCHANGED <<bnBounds, bidx, bgit, bserver, bkey, bghost>>

RenameTemp ==
  /\ bop.at \in {"temp", "restoring"}
  /\ bsrc' = [bsrc EXCEPT !.temp = FALSE,
                          !.working[bop.slug] = IF bop.at = "temp" THEN bop.v ELSE bop.prior]
  /\ bop' = IF bop.at = "temp" THEN [bop EXCEPT !.at = "written"]
            ELSE [bop EXCEPT !.at = IF bop.why = "index" THEN "failed" ELSE "unindex"]
  /\ UNCHANGED <<bnBounds, bidx, bgit, bserver, bkey, bghost>>

\* The write of the source fails: the temporary file is removed again.
BrainWriteFails ==
  /\ bop.at = "temp" /\ BrainSpent("faults")
  /\ bsrc' = [bsrc EXCEPT !.temp = FALSE]
  /\ bop' = [bop EXCEPT !.at = "failed"]
  /\ UNCHANGED <<bidx, bgit, bserver, bkey, bghost>>

upsert ==
  /\ bop.at = "written"
  /\ bidx' = [bidx EXCEPT ![bop.slug] = bop.v]
  /\ bop' = [bop EXCEPT !.at = "indexed"]
  /\ UNCHANGED <<bnBounds, bsrc, bgit, bserver, bkey, bghost>>

UpsertFails ==
  /\ bop.at = "written" /\ BrainSpent("faults")
  /\ bop' = [bop EXCEPT !.at = "restore", !.why = "index"]
  /\ UNCHANGED <<bsrc, bidx, bgit, bserver, bkey, bghost>>

\* commitPath builds a commit on the head it reads ...
readHead ==
  /\ bop.at = "indexed"
  /\ bop' = [bop EXCEPT !.at = "commit", !.head = bgit.log]
  /\ UNCHANGED <<bnBounds, bsrc, bidx, bgit, bserver, bkey, bghost>>

CommitFails ==
  /\ bop.at = "commit" /\ BrainSpent("faults")
  /\ bop' = [bop EXCEPT !.at = "restore", !.why = "git"]
  /\ UNCHANGED <<bsrc, bidx, bgit, bserver, bkey, bghost>>

\* ... and moves the branch only from that head.  An error of git is checked
\* against the branch: a commit that did land counts as success.
updateRef ==
  /\ bop.at = "commit"
  /\ IF bgit.log = bop.head
     THEN /\ bgit' = [bgit EXCEPT !.log = Append(@, <<bop.slug, bop.v>>)]
          /\ bop' = [bop EXCEPT !.at = "ok"]
     ELSE /\ bop' = [bop EXCEPT !.at = "restore", !.why = "git"]
          /\ UNCHANGED bgit
  /\ UNCHANGED <<bnBounds, bsrc, bidx, bserver, bkey, bghost>>

\* The branch moved, git reported an error and the verifying read failed too.
UpdateRefUnsure ==
  /\ bop.at = "commit" /\ bgit.log = bop.head /\ BrainSpent("faults")
  /\ bgit' = [bgit EXCEPT !.log = Append(@, <<bop.slug, bop.v>>)]
  /\ bop' = [bop EXCEPT !.at = "restore", !.why = "git"]
  /\ bghost' = [bghost EXCEPT !.cut = @ \cup {bop.slug}]
  /\ UNCHANGED <<bsrc, bidx, bserver, bkey>>

\* restoreSource of a note that did not exist removes the file.
restoreRemoves ==
  /\ bop.at = "restore" /\ bop.prior = 0
  /\ bsrc' = [bsrc EXCEPT !.working[bop.slug] = 0]
  /\ bop' = [bop EXCEPT !.at = IF bop.why = "index" THEN "failed" ELSE "unindex"]
  /\ UNCHANGED <<bnBounds, bidx, bgit, bserver, bkey, bghost>>

RestoreFails ==
  /\ bop.at \in {"restore", "restoring"} /\ BrainSpent("faults")
  /\ bsrc' = [bsrc EXCEPT !.temp = FALSE]
  /\ bop' = [bop EXCEPT !.at = "stuck"]
  /\ bghost' = [cut |-> bghost.cut \cup {bop.slug}, behind |-> bghost.behind \cup {bop.slug}]
  /\ UNCHANGED <<bidx, bgit, bserver, bkey>>

\* Faulty variant: a note that existed keeps its new text in the cache.
rollbackIndexDeletesOnly ==
  /\ bop.at = "unindex"
  /\ bidx' = IF bop.prior = 0 THEN [bidx EXCEPT ![bop.slug] = 0] ELSE bidx
  /\ bop' = [bop EXCEPT !.at = "failed"]
  /\ UNCHANGED <<bnBounds, bsrc, bgit, bserver, bkey, bghost>>

\* The prior note is stored again in the cache, or the new one deleted from it.
rollbackIndex ==
  /\ bop.at = "unindex"
  /\ bidx' = [bidx EXCEPT ![bop.slug] = bop.prior]
  /\ bop' = [bop EXCEPT !.at = "failed"]
  /\ UNCHANGED <<bnBounds, bsrc, bgit, bserver, bkey, bghost>>

RollbackIndexFails ==
  /\ bop.at = "unindex" /\ BrainSpent("faults")
  /\ bop' = [bop EXCEPT !.at = "stuck"]
  /\ bghost' = [bghost EXCEPT !.behind = @ \cup {bop.slug}]
  /\ UNCHANGED <<bsrc, bidx, bgit, bserver, bkey>>

\* The answer reaches the caller and the mutex is released.
EndWrite ==
  /\ bop.at \in {"ok", "failed", "stuck"}
  /\ bop' = NoBrainOp
  /\ UNCHANGED <<bnBounds, bsrc, bidx, bgit, bserver, bkey, bghost>>

-----------------------------------------------------------------------------
(* The owner, the operator, a crash *)

\* The owner writes or removes a curated note out of band.
OwnerEdits(s) ==
  /\ BrainSpent("edits")
  /\ bsrc' = [bsrc EXCEPT !.curated[s] = IF @ = 0 THEN bsrc.next ELSE 0, !.next = @ + 1]
  /\ bghost' = [bghost EXCEPT !.behind = @ \cup {s}]
  /\ UNCHANGED <<bidx, bgit, bop, bserver, bkey>>

\* The operator removes what stops a start: a stray file of a cut write.
OwnerRemovesStray ==
  /\ bserver = "down" /\ bsrc.temp /\ BrainSpent("edits")
  /\ bsrc' = [bsrc EXCEPT !.temp = FALSE]
  /\ UNCHANGED <<bidx, bgit, bop, bserver, bkey, bghost>>

\* The operator commits curated notes to the same branch.
OwnerCommits ==
  /\ bgit.stage = "ready" /\ BrainSpent("commits")
  /\ bgit' = [bgit EXCEPT !.log = Append(@, <<"curated", Len(@) + 1>>)]
  /\ UNCHANGED <<bsrc, bidx, bop, bserver, bkey, bghost>>

\* A crash keeps the files, the committed cache and the branch.
Crash ==
  /\ bserver # "down" /\ BrainSpent("crashes")
  /\ bserver' = "down" /\ bop' = NoBrainOp
  /\ bghost' = IF bop.at \in {"idle", "scanned", "render", "temp", "ok"} THEN bghost
               ELSE [bghost EXCEPT !.cut = @ \cup {bop.slug}]
  /\ UNCHANGED <<bsrc, bidx, bgit, bkey>>

-----------------------------------------------------------------------------
(* The console identity, which the instances of a replacement share *)

\* loadOrCreateConsoleIdentity: an instance that finds no key makes one ...
LookForKey(i) ==
  /\ bkey.keys[i] = 0 /\ i \notin bkey.looked
  /\ IF bkey.file = 0 THEN bkey' = [bkey EXCEPT !.looked = @ \cup {i}]
     ELSE bkey' = [bkey EXCEPT !.keys[i] = bkey.file]
  /\ UNCHANGED <<bnBounds, bsrc, bidx, bgit, bop, bserver, bghost>>

\* ... publishes it with a link that never replaces another's, and reads back.
linkKey(i) ==
  /\ i \in bkey.looked
  /\ LET file == IF bkey.file = 0 THEN bkey.next ELSE bkey.file
     IN bkey' = [file |-> file, looked |-> bkey.looked \ {i},
                 keys |-> [bkey.keys EXCEPT ![i] = file], next |-> bkey.next + 1]
  /\ UNCHANGED <<bnBounds, bsrc, bidx, bgit, bop, bserver, bghost>>

\* An instance ends; its copy of the key goes with it.
InstanceEnds(i) ==
  /\ bkey.keys[i] # 0 /\ BrainSpent("crashes")
  /\ bkey' = [bkey EXCEPT !.keys[i] = 0]
  /\ UNCHANGED <<bsrc, bidx, bgit, bop, bserver, bghost>>

-----------------------------------------------------------------------------
WriteStep ==
  \/ CreateTemp \/ RenameTemp \/ BrainWriteFails \/ upsert \/ UpsertFails
  \/ readHead \/ CommitFails \/ updateRef \/ UpdateRefUnsure
  \/ restoreRemoves \/ RestoreFails \/ rollbackIndex \/ RollbackIndexFails
  \/ EndWrite

BrainStartStep == initializeRepository \/ InitializeGit \/ OpenIndex

BrainNext ==
  \/ BrainStartStep
  \/ BeginReindex \/ replaceAll \/ ReindexFails
  \/ \E s \in Slugs : BeginWrite(s) \/ OwnerEdits(s)
  \/ WriteStep
  \/ OwnerRemovesStray \/ OwnerCommits \/ Crash
  \/ \E i \in bnBounds.instances : LookForKey(i) \/ linkKey(i) \/ InstanceEnds(i)

BrainSpec == BrainInit /\ [][BrainNext]_bnVars

-----------------------------------------------------------------------------
(* A reported success is whole: the Markdown, the cache and the newest      *)
(* commit of the note all hold what the caller wrote, whatever the operator *)
(* committed meanwhile (WriteAgent, commitPath).                            *)
AcknowledgedWhole ==
  bop.at = "ok" => /\ bsrc.working[bop.slug] = bop.v
                   /\ bidx[bop.slug] = bop.v
                   /\ BrainHeadOf(bop.slug, bgit.log) = bop.v

(* A reported plain failure is whole too: the Markdown and the cache hold   *)
(* the note that was there before, unless an earlier failed rollback or the *)
(* owner had already set the cache apart.                                   *)
FailureRestoresPrior ==
  bop.at = "failed" => /\ bsrc.working[bop.slug] = bop.prior
                       /\ (bop.slug \notin bghost.behind => bidx[bop.slug] = bop.prior)

(* Between writes the history is up to date: every working note that no     *)
(* crash and no failed rollback cut is committed as it stands, and the      *)
(* cache of a serving store mirrors the Markdown the last scan and the      *)
(* writes since then left.                                                  *)
IdleAgrees ==
  bserver = "serving" /\ bop.at = "idle" =>
    \A s \in Slugs :
      /\ s \notin bghost.cut => bsrc.working[s] = BrainHeadOf(s, bgit.log)
      /\ s \notin bghost.behind => bidx[s] = Scanned[s]

(* No commit of the branch is ever dropped: a write that read an older head *)
(* fails instead of moving the branch back over the operator's commit.      *)
CommitsKept ==
               IsPrefix(bgit.log, bgit'.log)

(* Every instance that holds a console key holds the one of the file, so    *)
(* opaque node identities agree across a rolling replacement.               *)
OneConsoleKey == \A i \in Instances : bkey.keys[i] \in {0, bkey.file}

=============================================================================
