--------------------------- MODULE ProjectSources ---------------------------
(***************************************************************************)
(* The checkouts of projects on an Edge: the registry that binds a         *)
(* repository to a checkout, and the Git synchronisation of one. Each part *)
(* has its own variables and its own specification.                        *)
(***************************************************************************)
EXTENDS Integers, FiniteSets, FiniteSetsExt

-----------------------------------------------------------------------------
(***************************************************************************)
(* The Edge's project registry: how a repository becomes a registered      *)
(* project bound to one checkout (project_prepare: discovery, association  *)
(* or clone, workspace registration, project registration, roll back), how *)
(* a claim whose checkout changed is reconciled, and how a stale claim is  *)
(* released.  Up to four control operations run at the same time, each     *)
(* with its own connections to workspaces.db and projects.db, while the    *)
(* developer works in the checkouts.                                       *)
(*                                                                         *)
(* The model has one repository: UNIQUE(owner,repository) leaves it at     *)
(* most one claim.  A checkout is known by its inode; every directory made *)
(* during a behaviour has a new one.                                       *)
(***************************************************************************)

CONSTANTS RegWorkers,   \* operations in flight at the same time
          Aliases,      \* the names clients use for the repository
          RegBounds     \* records [start, kinds, ops, edits, crashes, clones]

VARIABLES prBounds, disk, wsdb, claim, regop, ghost

regVars == <<prBounds, disk, wsdb, claim, regop, ghost>>

Canonical == "r"                       \* <development root>/<repository>
Paths == {Canonical, "s"}              \* and one other directory beside it
Trees == {"absent", "bare", "ready", "dirty", "foreign"}
Nothing == 0

NoDir == [ino |-> Nothing, tree |-> "absent"]
RegistryNoOp == [kind |-> "none", alias |-> "none", pc |-> "idle", act |-> "none", path |-> "none",
                 ws |-> Nothing, made |-> FALSE, ino |-> Nothing, att |-> {}, plan |-> Nothing, out |-> "none"]

-----------------------------------------------------------------------------
(* What the Edge observes                                                  *)

\* The checkout inspector: boundary, .git, origin, then git status.
InspectDetailed(p) ==
  CASE disk[p].tree = "absent"  -> "unavailable"
    [] disk[p].tree = "bare"    -> "corrupt"
    [] disk[p].tree = "foreign" -> "remote_mismatch"
    [] OTHER                    -> disk[p].tree

\* The attestation fingerprint of a directory: its inode and that of its Git
\* metadata; it needs the metadata to exist and says nothing of the remote.
Fingerprint(p) == IF disk[p].tree \in {"ready", "dirty", "foreign"} THEN {disk[p].ino} ELSE {}

\* The path of a registered workspace, revalidated on the filesystem.
WorkspaceGet(id) == {p \in Paths : wsdb[p] = id /\ id # Nothing /\ disk[p].tree # "absent"}

\* The bounded identity check a listing makes: everything but git status.
RepositoryIdentity(p) == InspectDetailed(p) \in {"ready", "dirty"}

\* evaluateProjectClaimRows: the state a listing gives a stored claim.
ClaimHealthy(c) ==
  \E p \in WorkspaceGet(c.ws) :
    c.att # {} /\ Fingerprint(p) = c.att /\ RepositoryIdentity(p)

\* The checkout an alias resolves to without running Git.
ResolveRegistered(a) ==
  {p \in Paths : \E c \in claim : c.alias = a /\ p \in WorkspaceGet(c.ws)
                                  /\ c.att # {} /\ Fingerprint(p) = c.att}

\* DiscoverProjectCheckout: the canonical path decides when it exists; else
\* exactly one clean checkout of the repository beside it; else a clone.
DiscoverSiblings ==
  LET found == {p \in Paths \ {Canonical} : InspectDetailed(p) \in {"ready", "dirty"}}
  IN  CASE found = {} -> [act |-> "clone", path |-> Canonical]
        [] Cardinality(found) = 1 /\ \A p \in found : InspectDetailed(p) = "ready"
             -> [act |-> "associate", path |-> CHOOSE p \in found : TRUE]
        [] OTHER -> [act |-> "blocked", path |-> "none"]

DiscoverProjectCheckout ==
  IF disk[Canonical].tree = "absent" THEN DiscoverSiblings
  ELSE IF InspectDetailed(Canonical) = "ready" THEN [act |-> "reuse", path |-> Canonical]
       ELSE [act |-> "blocked", path |-> "none"]

\* A preparation treats a checkout found at the canonical path like any other.
projectPreparationAction(d) == [d EXCEPT !.act = IF @ = "reuse" THEN "associate" ELSE @]

\* The registry-first gate of a preparation.
PreparationRegistered(a) ==
  IF \E c \in claim : c.alias = a
  THEN IF ResolveRegistered(a) = {} THEN [act |-> "refused", path |-> "none"]
       ELSE [act |-> "registered", path |-> CHOOSE p \in ResolveRegistered(a) : TRUE]
  ELSE IF claim # {} THEN [act |-> "refused", path |-> "none"]
       ELSE [act |-> "unclaimed", path |-> "none"]

-----------------------------------------------------------------------------
(* Operations                                                              *)

RegistryAt(w, pc) == regop[w].pc = pc
Does(w, kind, pc) == regop[w].kind = kind /\ RegistryAt(w, pc)
GoOn(w, pc) == regop' = [regop EXCEPT ![w].pc = pc]
Finish(w, out) == regop' = [regop EXCEPT ![w].pc = "idle", ![w].out = out]
Files == <<prBounds, disk, wsdb, claim, ghost>>

RequestOperation(w, kind, a) ==
  /\ RegistryAt(w, "idle")
  /\ prBounds.ops > 0
  /\ kind \in prBounds.kinds
  /\ prBounds' = [prBounds EXCEPT !.ops = @ - 1]
  /\ regop' = [regop EXCEPT ![w] = [RegistryNoOp EXCEPT !.kind = kind, !.alias = a, !.pc = "queued"]]
  /\ UNCHANGED <<disk, wsdb, claim, ghost>>

\* A client reads the claims and asks for the release of the one it saw, by
\* alias and claim generation; plan remembers which registration that was.
RequestRelease(w, c) ==
  /\ RegistryAt(w, "idle")
  /\ prBounds.ops > 0
  /\ "release" \in prBounds.kinds
  /\ prBounds' = [prBounds EXCEPT !.ops = @ - 1]
  /\ regop' = [regop EXCEPT ![w] = [RegistryNoOp EXCEPT !.kind = "release", !.alias = c.alias,
                                                      !.pc = "queued", !.ws = c.gen, !.plan = c.epoch]]
  /\ UNCHANGED <<disk, wsdb, claim, ghost>>

PlanProjectPreparation(w) ==
  /\ Does(w, "prepare", "queued")
  /\ LET gate == PreparationRegistered(regop[w].alias)
         found == projectPreparationAction(DiscoverProjectCheckout)
     IN  CASE gate.act = "refused" -> Finish(w, "failed")
           [] gate.act = "registered" ->
                regop' = [regop EXCEPT ![w].pc = "apply", ![w].act = "reuse", ![w].path = gate.path]
           [] gate.act = "unclaimed" /\ found.act = "blocked" -> Finish(w, "failed")
           [] OTHER -> regop' = [regop EXCEPT ![w].pc = "apply", ![w].act = found.act,
                                              ![w].path = found.path]
  /\ UNCHANGED Files

\* ApplyProjectPreparation observes everything again and goes on only when
\* the decision is still the planned one.
ApplyProjectPreparation(w) ==
  /\ Does(w, "prepare", "apply")
  /\ LET gate == PreparationRegistered(regop[w].alias)
         found == projectPreparationAction(DiscoverProjectCheckout)
         same == found.act = regop[w].act /\ found.path = regop[w].path
     IN  CASE gate.act = "refused" -> Finish(w, "failed")
           [] gate.act = "registered" ->
                Finish(w, IF regop[w].act = "reuse" /\ gate.path = regop[w].path
                             /\ RepositoryIdentity(gate.path) THEN "ok" ELSE "failed")
           [] gate.act = "unclaimed" /\ (regop[w].act = "reuse" \/ ~same) -> Finish(w, "failed")
           [] OTHER -> GoOn(w, IF regop[w].act = "clone" THEN "reserve" ELSE "associate")
  /\ UNCHANGED Files

\* The association makes its own plan; what it finds may differ from the
\* preparation's.
PlanProjectAssociation(w) ==
  /\ Does(w, "prepare", "associate")
  /\ LET d == DiscoverProjectCheckout
     IN  IF d.act \in {"reuse", "associate"}
         THEN regop' = [regop EXCEPT ![w].pc = "associated", ![w].act = d.act, ![w].path = d.path]
         ELSE Finish(w, "failed")
  /\ UNCHANGED Files

ApplyProjectAssociation(w) ==
  /\ Does(w, "prepare", "associated")
  /\ LET d == DiscoverProjectCheckout
     IN  IF d.act = regop[w].act /\ d.path = regop[w].path THEN GoOn(w, "lookup")
         ELSE Finish(w, "failed")
  /\ UNCHANGED Files

\* A failed preparation of a clone ends by removing the reserved directory.
Fail(w) == IF regop[w].ino = Nothing THEN Finish(w, "failed") ELSE GoOn(w, "cleanup")

-----------------------------------------------------------------------------
(* The clone                                                               *)

FreshDir(p, tree) ==
  /\ disk' = [disk EXCEPT ![p] = [ino |-> ghost.ino, tree |-> tree]]
  /\ ghost' = [ghost EXCEPT !.ino = @ + 1]

\* os.Mkdir reserves the canonical path; the open directory is remembered.
ReserveClone(w) ==
  /\ Does(w, "prepare", "reserve")
  /\ IF disk[Canonical].tree = "absent"
     THEN /\ FreshDir(Canonical, "bare")
          /\ regop' = [regop EXCEPT ![w].pc = "clone", ![w].ino = ghost.ino]
     ELSE /\ Finish(w, "failed")
          /\ UNCHANGED <<disk, ghost>>
  /\ UNCHANGED <<prBounds, wsdb, claim>>

\* git clone fills an empty directory or makes a missing one; it refuses a
\* directory with content, and it may fail.
CloneSucceeds(w) ==
  /\ Does(w, "prepare", "clone")
  /\ \/ /\ disk[Canonical].tree = "bare"
        /\ disk' = [disk EXCEPT ![Canonical].tree = "ready"]
        /\ UNCHANGED ghost
     \/ /\ disk[Canonical].tree = "absent"
        /\ FreshDir(Canonical, "ready")
  /\ GoOn(w, "verify")
  /\ UNCHANGED <<prBounds, wsdb, claim>>

CloneFails(w) ==
  /\ Does(w, "prepare", "clone")
  /\ \/ disk[Canonical].tree \in {"ready", "dirty", "foreign"} /\ UNCHANGED prBounds
     \/ prBounds.clones > 0 /\ prBounds' = [prBounds EXCEPT !.clones = @ - 1]
  /\ GoOn(w, "cleanup")
  /\ UNCHANGED <<disk, wsdb, claim, ghost>>

VerifyClone(w) ==
  /\ Does(w, "prepare", "verify")
  /\ GoOn(w, IF InspectDetailed(Canonical) = "ready" THEN "lookup" ELSE "cleanup")
  /\ UNCHANGED Files

removeReservedProjectClone(w) ==
  /\ Does(w, "prepare", "cleanup")
  /\ IF disk[Canonical].tree # "absent" /\ disk[Canonical].ino = regop[w].ino
     THEN /\ disk' = [disk EXCEPT ![Canonical] = NoDir]
          /\ Finish(w, "failed")
     ELSE /\ Finish(w, "cleanup_required")
          /\ UNCHANGED disk
  /\ UNCHANGED <<prBounds, wsdb, claim, ghost>>

-----------------------------------------------------------------------------
(* Workspace registration, then project registration                       *)

\* AddProfile looks the path up ...
LookupWorkspace(w) ==
  /\ Does(w, "prepare", "lookup")
  /\ LET p == regop[w].path
     IN  CASE disk[p].tree = "absent" -> Fail(w)
           [] disk[p].tree # "absent" /\ wsdb[p] # Nothing ->
                regop' = [regop EXCEPT ![w].pc = "attest", ![w].ws = wsdb[p]]
           [] OTHER -> GoOn(w, "insert")
  /\ UNCHANGED Files

\* ... and inserts it; the path is UNIQUE.
InsertWorkspace(w) ==
  /\ Does(w, "prepare", "insert")
  /\ LET p == regop[w].path
     IN  IF wsdb[p] = Nothing
         THEN /\ wsdb' = [wsdb EXCEPT ![p] = ghost.ws]
              /\ ghost' = [ghost EXCEPT !.ws = @ + 1]
              /\ regop' = [regop EXCEPT ![w].pc = "attest", ![w].ws = ghost.ws, ![w].made = TRUE]
         ELSE Fail(w) /\ UNCHANGED <<wsdb, ghost>>
  /\ UNCHANGED <<prBounds, disk, claim>>

\* The end of a preparation whose Register failed.
RegisterFailed(w) == IF regop[w].made THEN GoOn(w, "rollback") ELSE Fail(w)

\* Register reads the workspace and its attestation, which may fail ...
RegisterAttests(w) ==
  /\ Does(w, "prepare", "attest")
  /\ IF WorkspaceGet(regop[w].ws) = {} THEN RegisterFailed(w)
     ELSE regop' = [regop EXCEPT ![w].pc = "inspect", ![w].att = Fingerprint(regop[w].path)]
  /\ UNCHANGED Files

\* ... then inspects the checkout, which must be clean ...
RegisterInspects(w) ==
  /\ Does(w, "prepare", "inspect")
  /\ IF InspectDetailed(regop[w].path) = "ready"
     THEN /\ GoOn(w, "commit")
          /\ ghost' = [ghost EXCEPT !.inspected = @ \cup {disk[regop[w].path].ino}]
     ELSE RegisterFailed(w) /\ UNCHANGED ghost
  /\ UNCHANGED <<prBounds, disk, wsdb, claim>>

NewClaim(w) == [alias |-> regop[w].alias, ws |-> regop[w].ws, att |-> regop[w].att,
                gen |-> 1, epoch |-> ghost.epoch]

\* registrationMatchesTx: a repeated registration of the same binding.
RegistrationMatches(w, c) ==
  /\ c.ws = regop[w].ws
  /\ c.att # {} /\ regop[w].att # {} => c.att = regop[w].att

\* ... and stores the claim unless the alias, the repository or the workspace
\* has one.
RegisterCommits(w) ==
  /\ Does(w, "prepare", "commit")
  /\ IF claim = {} /\ regop[w].att # {}
     THEN /\ claim' = {NewClaim(w)}
          /\ ghost' = [ghost EXCEPT !.epoch = @ + 1]
          /\ Finish(w, "ok")
     ELSE /\ IF \E c \in claim : c.alias = regop[w].alias /\ RegistrationMatches(w, c)
                                 /\ regop[w].att # {}
             THEN Finish(w, "ok") ELSE RegisterFailed(w)
          /\ UNCHANGED <<claim, ghost>>
  /\ UNCHANGED <<prBounds, disk, wsdb>>

RollbackWorkspace(w) ==
  /\ Does(w, "prepare", "rollback")
  /\ IF \E p \in Paths : wsdb[p] = regop[w].ws
     THEN /\ wsdb' = [p \in Paths |-> IF wsdb[p] = regop[w].ws THEN Nothing ELSE wsdb[p]]
          /\ Fail(w)
     ELSE Finish(w, "cleanup_required") /\ UNCHANGED wsdb
  /\ UNCHANGED <<prBounds, disk, claim, ghost>>

-----------------------------------------------------------------------------
(* Reconciliation and release                                              *)

ClaimOf(a) == {c \in claim : c.alias = a}

\* ReconcileClaim captures the attestation before it runs Git ...
ReconcileCaptures(w) ==
  /\ Does(w, "reconcile", "queued")
  /\ LET path == UNION {WorkspaceGet(c.ws) : c \in ClaimOf(regop[w].alias)}
     IN  IF path = {} \/ \E p \in path : Fingerprint(p) = {} THEN Finish(w, "failed")
         ELSE \E p \in path, c \in ClaimOf(regop[w].alias) :
                regop' = [regop EXCEPT ![w].pc = "inspect", ![w].path = p, ![w].ws = c.ws,
                                       ![w].att = Fingerprint(p)]
  /\ UNCHANGED Files

\* ... inspects the checkout ...
ReconcileInspects(w) ==
  /\ Does(w, "reconcile", "inspect")
  /\ IF RepositoryIdentity(regop[w].path)
     THEN /\ GoOn(w, "compare")
          /\ ghost' = [ghost EXCEPT !.inspected = @ \cup {disk[regop[w].path].ino}]
     ELSE Finish(w, "failed") /\ UNCHANGED ghost
  /\ UNCHANGED <<prBounds, disk, wsdb, claim>>

ReconcileCompares(w) ==
  /\ Does(w, "reconcile", "compare")
  /\ IF Fingerprint(regop[w].path) = regop[w].att THEN GoOn(w, "store") ELSE Finish(w, "failed")
  /\ UNCHANGED Files

\* The conditional UPDATE: same alias, generation and workspace binding.
ReconcileStores(w) ==
  /\ Does(w, "reconcile", "store")
  /\ IF \E c \in ClaimOf(regop[w].alias) : c.gen = 1 /\ c.ws = regop[w].ws
     THEN /\ claim' = {[c EXCEPT !.att = regop[w].att] : c \in claim}
          /\ Finish(w, "ok")
     ELSE Finish(w, "failed") /\ UNCHANGED claim
  /\ UNCHANGED <<prBounds, disk, wsdb, ghost>>

\* A release lists the claims twice and refuses an unknown or a healthy one,
\* or one of another generation (the generation asked for is in ws) ...
ReleaseLooks(w) ==
  /\ Does(w, "release", "queued")
  /\ IF \E c \in ClaimOf(regop[w].alias) : c.gen = regop[w].ws /\ ~ClaimHealthy(c)
     THEN GoOn(w, "commit") ELSE Finish(w, "failed")
  /\ UNCHANGED Files

ReleaseClaim(w) ==
  /\ Does(w, "release", "commit")
  /\ IF \E c \in ClaimOf(regop[w].alias) : c.gen = regop[w].ws /\ ~ClaimHealthy(c)
     THEN claim' = claim \ ClaimOf(regop[w].alias) /\ Finish(w, "ok")
     ELSE Finish(w, "failed") /\ UNCHANGED claim
  /\ UNCHANGED <<prBounds, disk, wsdb, ghost>>

-----------------------------------------------------------------------------
(* The developer, the operator, and a crash of the Edge                    *)

Edit(what) ==
  /\ prBounds.edits > 0
  /\ prBounds' = [prBounds EXCEPT !.edits = @ - 1]
  /\ UNCHANGED <<claim, regop>>
  /\ what

\* Ordinary work: changes, a commit, another origin.  The inode stays.
EditCheckout(p) ==
  Edit(/\ disk[p].tree \in {"ready", "dirty", "foreign"}
       /\ \E t \in {"ready", "dirty", "foreign"} \ {disk[p].tree} : disk' = [disk EXCEPT ![p].tree = t]
       /\ UNCHANGED <<wsdb, ghost>>)

\* The checkout is deleted, or another directory takes its place.
DeleteCheckout(p) ==
  Edit(/\ disk[p].tree # "absent"
       /\ disk' = [disk EXCEPT ![p] = NoDir]
       /\ UNCHANGED <<wsdb, ghost>>)

ReplaceCheckout(p) ==
  Edit((\E t \in {"ready", "foreign"} : FreshDir(p, t)) /\ UNCHANGED wsdb)

\* mcp-edge workspace remove
WorkspaceRemove(p) ==
  Edit(/\ wsdb[p] # Nothing
       /\ wsdb' = [wsdb EXCEPT ![p] = Nothing]
       /\ UNCHANGED <<disk, ghost>>)

RegistryEdgeDies ==
  /\ prBounds.crashes > 0
  /\ prBounds' = [prBounds EXCEPT !.crashes = @ - 1]
  /\ regop' = [w \in RegWorkers |-> IF RegistryAt(w, "idle") THEN regop[w] ELSE [RegistryNoOp EXCEPT !.out = "crashed"]]
  /\ UNCHANGED <<disk, wsdb, claim, ghost>>

-----------------------------------------------------------------------------
\* A behaviour starts with nothing, with a clean checkout beside the
\* canonical path, with a registered project, or with a claim of the first
\* registry version, which has no attestation.
RegistryClaimed(start) == start \in {"claimed", "legacy"}

RegInit ==
  /\ prBounds \in RegBounds
  /\ disk = [p \in Paths |-> IF (p = Canonical /\ RegistryClaimed(prBounds.start))
                                \/ (p = "s" /\ prBounds.start = "sibling")
                             THEN [ino |-> 1, tree |-> "ready"] ELSE NoDir]
  /\ wsdb = [p \in Paths |-> IF p = Canonical /\ RegistryClaimed(prBounds.start) THEN 1 ELSE Nothing]
  /\ claim = IF RegistryClaimed(prBounds.start)
             THEN {[alias |-> CHOOSE a \in Aliases : TRUE, ws |-> 1, gen |-> 1, epoch |-> 1,
                    att |-> IF prBounds.start = "legacy" THEN {} ELSE {1}]}
             ELSE {}
  /\ regop = [w \in RegWorkers |-> RegistryNoOp]
  /\ ghost = [ino |-> 2, ws |-> 2, epoch |-> 2,
              inspected |-> IF prBounds.start = "claimed" THEN {1} ELSE {}]

Prepares(w) ==
  \/ PlanProjectPreparation(w) \/ ApplyProjectPreparation(w)
  \/ PlanProjectAssociation(w) \/ ApplyProjectAssociation(w)
  \/ ReserveClone(w) \/ CloneSucceeds(w) \/ CloneFails(w) \/ VerifyClone(w)
  \/ removeReservedProjectClone(w)
  \/ LookupWorkspace(w) \/ InsertWorkspace(w)
  \/ RegisterAttests(w) \/ RegisterInspects(w) \/ RegisterCommits(w) \/ RollbackWorkspace(w)

Recovers(w) ==
  \/ ReconcileCaptures(w) \/ ReconcileInspects(w) \/ ReconcileCompares(w) \/ ReconcileStores(w)
  \/ ReleaseLooks(w) \/ ReleaseClaim(w)

RegNext ==
  \/ \E w \in RegWorkers, k \in {"prepare", "reconcile"}, a \in Aliases : RequestOperation(w, k, a)
  \/ \E w \in RegWorkers, c \in claim : RequestRelease(w, c)
  \/ \E w \in RegWorkers : Prepares(w)
  \/ \E w \in RegWorkers : Recovers(w)
  \/ \E p \in Paths : EditCheckout(p)
  \/ \E p \in Paths : DeleteCheckout(p)
  \/ \E p \in Paths : ReplaceCheckout(p)
  \/ \E p \in Paths : WorkspaceRemove(p)
  \/ RegistryEdgeDies

RegSpec == RegInit /\ [][RegNext]_regVars

-----------------------------------------------------------------------------
(* Properties                                                              *)

\* The registry is well formed: at most one claim of the repository, one
\* workspace per path, and an operation that reserved a directory or made a
\* workspace remembers a real one.
RegTypeOK ==
  /\ \A p \in Paths : disk[p].tree \in Trees /\ (disk[p].ino = Nothing <=> disk[p].tree = "absent")
  /\ \A p, q \in Paths : wsdb[p] = wsdb[q] /\ p # q => wsdb[p] = Nothing
  /\ Cardinality(claim) <= 1
  /\ \A c \in claim : c.alias \in Aliases /\ c.ws \in 1..(ghost.ws - 1) /\ Cardinality(c.att) <= 1
  /\ \A w \in RegWorkers :
       /\ regop[w].ino \in 0..(ghost.ino - 1)
       /\ regop[w].made => regop[w].ws \in 1..(ghost.ws - 1)

\* A checkout that an alias resolves to, without running Git, was inspected
\* by a registration or a reconciliation and found to be the repository's:
\* swapping the directory while one of them runs cannot bind an uninspected
\* one ("a same-user process can otherwise replace the registered checkout
\* between validation and persistence").
ResolvableInspected ==
  \A a \in Aliases : \A p \in ResolveRegistered(a) : disk[p].ino \in ghost.inspected

\* A preparation that reports an ordinary failure, not cleanup_required, has
\* left neither the workspace row it inserted nor the directory it reserved.
FailedPreparationClean ==
  \A w \in RegWorkers : regop[w].kind = "prepare" /\ regop[w].out = "failed" =>
    \A p \in Paths :
      /\ regop[w].made => wsdb[p] # regop[w].ws
      /\ regop[w].ino # Nothing => disk[p].ino # regop[w].ino

\* A release deletes a claim only when it is unhealthy at that moment, even
\* when a reconciliation repaired it after the release first looked
\* ("healthy claims are never released implicitly").
HealthyNeverReleased ==
  \A c \in claim : (\A d \in claim' : d.epoch # c.epoch) => ~ClaimHealthy(c)

\* A preparation removes no directory but the one it reserved itself ("a
\* replaced path is preserved for manual review").
RemovesOwnClone ==
  \A w \in RegWorkers : \A p \in Paths :
    regop[w].pc = "cleanup" /\ regop'[w].pc = "idle" /\ disk'[p] # disk[p]
      => disk[p].ino = regop[w].ino

\* What the documentation says of a failed preparation: it deletes no
\* existing repository.  The directory a stored claim attests is one.
RegisteredCheckoutKept ==
  [][\A w \in RegWorkers : \A c \in claim :
       regop[w].pc = "cleanup" /\ regop'[w].pc = "idle" /\ c.att = {disk[Canonical].ino}
         => disk'[Canonical] = disk[Canonical]]_regVars

-----------------------------------------------------------------------------
(***************************************************************************)
(* Git synchronisation of one project checkout by the Edge.                *)
(*                                                                         *)
(* The owner's operations fetch, fast_forward and publish run on the Edge  *)
(* against the checkout of a registered project                            *)
(* (cmd/mcp-edge/project_git_sync_unix.go, ..._windows.go).  Fast-forward  *)
(* and publication take two calls: a preview writes a plan bound to the    *)
(* heads it saw, the execution consumes the plan and acts.  A workcell     *)
(* publishes its own clone through a broker socket with plans of the same  *)
(* shape, kept in memory (internal/edgeclient/dev_git_broker*.go).         *)
(*                                                                         *)
(* A developer works in the checkout and other people push to the origin   *)
(* at the same time: nothing locks either.  A commit is the set of the     *)
(* changes it contains, so that "is an ancestor of" is inclusion; {} is an *)
(* unborn branch or a branch the origin does not have.                     *)
(***************************************************************************)

CONSTANTS GitCallers,   \* operations in flight at once
          GitPlans,     \* identities of plans
          GitBounds     \* the bounds and the starting point of a behaviour

VARIABLES gsBounds,  \* the bounds of this behaviour
          gitTree,      \* the checkout
          origin,    \* the head of the branch at the origin
          gplan,     \* the plans
          gcall      \* the operation each caller has in flight

gitVars == <<gsBounds, gitTree, origin, gplan, gcall>>

GitNoPlan == [action |-> "none", via |-> "none", head |-> {}, remote |-> {}, used |-> FALSE,
              marked |-> FALSE, lapsed |-> FALSE, times |-> 0, sent |-> {}]

GitNoCall == [kind |-> "none", plan |-> 0, at |-> "idle", out |-> "none"]

NoTree == [there |-> FALSE, head |-> {}, track |-> {}, objects |-> {}, attached |-> TRUE, clean |-> TRUE]

(***************************************************************************)
(* The checkout a behaviour starts with, and the origin beside it.         *)
(***************************************************************************)
Checkout(head, track) == [there |-> TRUE, head |-> head, track |-> track, objects |-> {head, track} \ {{}},
                          attached |-> TRUE, clean |-> TRUE]

StartTree(start) ==
    CASE start = "ahead"  -> Checkout({1, 2}, {1})
      [] start = "behind" -> Checkout({1}, {1})
      [] start = "unborn" -> Checkout({}, {})
      [] start = "new"    -> Checkout({1}, {})
      [] start = "absent" -> NoTree

StartOrigin(start) ==
    CASE start \in {"ahead", "absent"}    -> {1}
      [] start \in {"behind", "unborn"}   -> {1, 2}
      [] start = "new"                    -> {}

GitInit ==
    /\ gsBounds \in GitBounds
    /\ gitTree = StartTree(gsBounds.start)
    /\ origin = StartOrigin(gsBounds.start)
    /\ gplan = [p \in GitPlans |-> GitNoPlan]
    /\ gcall = [c \in GitCallers |-> GitNoCall]

Ancestor(a, b) == a \subseteq b

NextChange == 1 + Max({2} \cup gitTree.head \cup origin \cup UNION gitTree.objects)

-----------------------------------------------------------------------------
(***************************************************************************)
(* What an inspection reports: the origin's head is read live, the         *)
(* relation only when Git knows the origin's commit.                       *)
(***************************************************************************)
Detached == ~gitTree.attached

Unborn == gitTree.attached /\ gitTree.head = {}

Fetched == origin # {} /\ gitTree.track = origin

Related == gitTree.attached /\ ~Unborn /\ origin \in gitTree.objects

Ahead == Related /\ ~Ancestor(gitTree.head, origin)

Behind == Related /\ ~Ancestor(origin, gitTree.head)

GitInspected == [head |-> gitTree.head, remote |-> IF Detached THEN {} ELSE origin]

(***************************************************************************)
(* `git merge-base --is-ancestor`: an error when a commit is not known.    *)
(***************************************************************************)
IsAncestor(a, b) == /\ {a, b} \subseteq gitTree.objects
                    /\ Ancestor(a, b)

Move(c, at) == gcall' = [gcall EXCEPT ![c].at = at]

GitSettle(c, out) == gcall' = [gcall EXCEPT ![c].at = "idle", ![c].out = out]

GitDoing(c, kinds, at) == gcall[c].kind \in kinds /\ gcall[c].at = at

PlanOf(c) == gplan[gcall[c].plan]

-----------------------------------------------------------------------------
(***************************************************************************)
(* Calls: the owner's operations carry the plan of an earlier preview.     *)
(***************************************************************************)
Ask(c, kind) ==
    /\ gcall[c].at = "idle"
    /\ gsBounds.calls > 0
    /\ kind \in gsBounds.kinds
    /\ gsBounds' = [gsBounds EXCEPT !.calls = @ - 1]
    /\ \E p \in GitPlans \cup {0} :
         /\ (p = 0) = (kind \notin {"fast_forward", "publish", "dev_publish"})
         /\ p # 0 => gplan[p].action # "none"
         /\ gcall' = [gcall EXCEPT ![c] = [kind |-> kind, plan |-> p, at |-> "begin", out |-> "none"]]
    /\ UNCHANGED <<gitTree, origin, gplan>>

(***************************************************************************)
(* fetchProjectGitCheckout: inspect, fetch into the tracking ref (never    *)
(* forced), inspect again.                                                 *)
(***************************************************************************)
FetchPreflight(c) ==
    /\ GitDoing(c, {"fetch"}, "begin")
    /\ IF gitTree.there /\ gitTree.attached THEN Move(c, "fetch") ELSE GitSettle(c, "failed")
    /\ UNCHANGED <<gsBounds, gitTree, origin, gplan>>

FetchRef(c) ==
    /\ GitDoing(c, {"fetch"}, "fetch")
    /\ IF origin # {} /\ Ancestor(gitTree.track, origin)
       THEN gitTree' = [gitTree EXCEPT !.track = origin, !.objects = @ \cup {origin}] /\ Move(c, "verify")
       ELSE UNCHANGED gitTree /\ GitSettle(c, "failed")
    /\ UNCHANGED <<gsBounds, origin, gplan>>

FetchVerify(c) ==
    /\ GitDoing(c, {"fetch"}, "verify")
    /\ GitSettle(c, IF gitTree.attached /\ Fetched THEN "ok" ELSE "failed")
    /\ UNCHANGED <<gsBounds, gitTree, origin, gplan>>

-----------------------------------------------------------------------------
(***************************************************************************)
(* Previews.  The broker fetches the origin's branch into a transport      *)
(* repository of its own before it compares, so it needs no earlier fetch. *)
(***************************************************************************)
FastForwardable == /\ gitTree.there /\ gitTree.attached /\ gitTree.clean
                   /\ Fetched
                   /\ ~Ahead
                   /\ Unborn \/ IsAncestor(gitTree.head, origin)

Publishable == /\ gitTree.there /\ gitTree.attached /\ gitTree.clean
               /\ ~Unborn
               /\ ~Behind
               /\ origin = {} \/ IsAncestor(origin, gitTree.head)

DevPublishable == /\ gitTree.there /\ gitTree.attached /\ gitTree.clean
                  /\ ~Unborn
                  /\ Ancestor(origin, gitTree.head)

Draft(c, action, via) ==
    \E p \in GitPlans :
       /\ gplan[p].action = "none"
       /\ gplan' = [gplan EXCEPT ![p] = [GitNoPlan EXCEPT !.action = action, !.via = via,
                                             !.head = gitTree.head, !.remote = origin]]
       /\ gcall' = [gcall EXCEPT ![c].at = "idle", ![c].out = "ok", ![c].plan = p]

Refuse(c) == GitSettle(c, "failed") /\ UNCHANGED gplan

previewProjectGitFastForward(c) ==
    /\ GitDoing(c, {"preview_ff"}, "begin")
    /\ IF FastForwardable THEN Draft(c, "fast_forward", "edge") ELSE Refuse(c)
    /\ UNCHANGED <<gsBounds, gitTree, origin>>

previewProjectGitPublish(c) ==
    /\ GitDoing(c, {"preview_publish"}, "begin")
    /\ IF Publishable THEN Draft(c, "publish", "edge") ELSE Refuse(c)
    /\ UNCHANGED <<gsBounds, gitTree, origin>>

DevPreview(c) ==
    /\ GitDoing(c, {"dev_preview"}, "begin")
    /\ IF DevPublishable THEN Draft(c, "publish", "broker") ELSE Refuse(c)
    /\ UNCHANGED <<gsBounds, gitTree, origin>>

-----------------------------------------------------------------------------
(***************************************************************************)
(* Execution of a plan by the Edge: read it, inspect the checkout, create  *)
(* the consumption marker (which must not exist), write the plan as used,  *)
(* run Git, inspect again.                                                 *)
(***************************************************************************)
Executions == {"fast_forward", "publish"}

ReadPlan(c) ==
    /\ GitDoing(c, Executions, "begin")
    /\ LET p == PlanOf(c) IN
         IF p.action = gcall[c].kind /\ p.via = "edge" /\ ~p.used /\ ~p.lapsed
         THEN Move(c, "inspect") ELSE GitSettle(c, "failed")
    /\ UNCHANGED <<gsBounds, gitTree, origin, gplan>>

Unchanged(p) == /\ gitTree.there /\ gitTree.attached /\ gitTree.clean
                /\ GitInspected = [head |-> p.head, remote |-> p.remote]

StillFastForwardable(p) ==
    /\ Unchanged(p)
    /\ Unborn = (p.head = {})
    /\ Fetched
    /\ ~Ahead
    /\ gsBounds.windows => (Unborn \/ IsAncestor(gitTree.head, origin))

StillPublishable(p) == Unchanged(p) /\ Publishable

InspectForPlan(c) ==
    /\ GitDoing(c, Executions, "inspect")
    /\ IF (IF gcall[c].kind = "publish" THEN StillPublishable(PlanOf(c)) ELSE StillFastForwardable(PlanOf(c)))
       THEN Move(c, "consume") ELSE GitSettle(c, "failed")
    /\ UNCHANGED <<gsBounds, gitTree, origin, gplan>>

consumeProjectGitPlan(c) ==
    /\ GitDoing(c, Executions, "consume")
    /\ IF PlanOf(c).marked
       THEN GitSettle(c, "failed") /\ UNCHANGED gplan
       ELSE /\ gplan' = [gplan EXCEPT ![gcall[c].plan].marked = TRUE]
            /\ Move(c, "use")
    /\ UNCHANGED <<gsBounds, gitTree, origin>>

WriteUsed(c) ==
    /\ GitDoing(c, Executions, "use")
    /\ gplan' = [gplan EXCEPT ![gcall[c].plan].used = TRUE]
    /\ Move(c, "effect")
    /\ UNCHANGED <<gsBounds, gitTree, origin>>

Sent(c, commit) == gplan' = [gplan EXCEPT ![gcall[c].plan].times = @ + 1, ![gcall[c].plan].sent = commit]

(***************************************************************************)
(* `git merge --ff-only` moves whatever is checked out now, or finds       *)
(* nothing to do, or refuses.  With local changes it may go either way.    *)
(* The Windows runner refuses it.                                          *)
(***************************************************************************)
Merge(c) ==
    /\ GitDoing(c, {"fast_forward"}, "effect")
    /\ LET to == PlanOf(c).remote IN
       \/ /\ ~gsBounds.windows
          /\ Ancestor(gitTree.head, to)
          /\ gitTree' = [gitTree EXCEPT !.head = to, !.objects = @ \cup {to}]
          /\ Sent(c, to) /\ Move(c, "verify")
       \/ /\ ~gsBounds.windows
          /\ Ancestor(to, gitTree.head) /\ to # gitTree.head
          /\ Move(c, "verify") /\ UNCHANGED <<gitTree, gplan>>
       \/ /\ \/ gsBounds.windows
             \/ ~Ancestor(gitTree.head, to) /\ ~Ancestor(to, gitTree.head)
             \/ ~gitTree.clean
          /\ GitSettle(c, "failed") /\ UNCHANGED <<gitTree, gplan>>
    /\ UNCHANGED <<gsBounds, origin>>

(***************************************************************************)
(* A push without force.  The Edge pushes the branch as it is now, the     *)
(* broker the commit of the plan.                                          *)
(***************************************************************************)
Push(c, commit) ==
    IF Ancestor(origin, commit)
    THEN origin' = commit /\ Sent(c, commit) /\ Move(c, "verify")
    ELSE GitSettle(c, "failed") /\ UNCHANGED <<origin, gplan>>

PushBranch(c) ==
    /\ GitDoing(c, {"publish"}, "effect")
    /\ Push(c, gitTree.head)
    /\ UNCHANGED <<gsBounds, gitTree>>

VerifyMerge(c) ==
    /\ GitDoing(c, {"fast_forward"}, "verify")
    /\ LET to == PlanOf(c).remote IN
         GitSettle(c, IF gitTree.clean /\ GitInspected = [head |-> to, remote |-> to] THEN "ok" ELSE "failed")
    /\ UNCHANGED <<gsBounds, gitTree, origin, gplan>>

\* Faulty variant: the two heads are compared with each other only.
VerifyPushAgrees(c) ==
    /\ GitDoing(c, {"publish"}, "verify")
    /\ GitSettle(c, IF gitTree.clean /\ gitTree.attached /\ gitTree.head = origin THEN "ok" ELSE "failed")
    /\ UNCHANGED <<gsBounds, gitTree, origin, gplan>>

VerifyPush(c) ==
    /\ GitDoing(c, {"publish"}, "verify")
    /\ LET head == PlanOf(c).head IN
         GitSettle(c, IF gitTree.clean /\ gitTree.attached /\ GitInspected = [head |-> head, remote |-> head]
                      THEN "ok" ELSE "failed")
    /\ UNCHANGED <<gsBounds, gitTree, origin, gplan>>

-----------------------------------------------------------------------------
(***************************************************************************)
(* Execution of a plan by the broker: the plan is spent under the mutex    *)
(* before anything is checked.                                             *)
(***************************************************************************)
DevTakePlan(c) ==
    /\ GitDoing(c, {"dev_publish"}, "begin")
    /\ LET p == PlanOf(c) IN
       /\ gplan' = IF p.via = "broker" THEN [gplan EXCEPT ![gcall[c].plan].used = TRUE] ELSE gplan
       /\ IF p.via = "broker" /\ ~p.used /\ ~p.lapsed THEN Move(c, "inspect") ELSE GitSettle(c, "failed")
    /\ UNCHANGED <<gsBounds, gitTree, origin>>

DevRevalidate(c) ==
    /\ GitDoing(c, {"dev_publish"}, "inspect")
    /\ IF DevPublishable /\ GitInspected = [head |-> PlanOf(c).head, remote |-> PlanOf(c).remote]
       THEN Move(c, "effect") ELSE GitSettle(c, "failed")
    /\ UNCHANGED <<gsBounds, gitTree, origin, gplan>>

PublishCommit(c) ==
    /\ GitDoing(c, {"dev_publish"}, "effect")
    /\ Push(c, PlanOf(c).head)
    /\ UNCHANGED <<gsBounds, gitTree>>

DevVerify(c) ==
    /\ GitDoing(c, {"dev_publish"}, "verify")
    /\ GitSettle(c, IF origin = PlanOf(c).head THEN "ok" ELSE "failed")
    /\ UNCHANGED <<gsBounds, gitTree, origin, gplan>>

(***************************************************************************)
(* The broker's clone: an existing directory is verified, an absent one    *)
(* cloned; a clone that fails removes the directory.                       *)
(***************************************************************************)
DevCloneLook(c) ==
    /\ GitDoing(c, {"dev_clone"}, "begin")
    /\ Move(c, IF gitTree.there THEN "verify" ELSE "clone")
    /\ UNCHANGED <<gsBounds, gitTree, origin, gplan>>

DevClone(c) ==
    /\ GitDoing(c, {"dev_clone"}, "clone")
    /\ \/ /\ ~gitTree.there
          /\ gitTree' = Checkout(origin, origin)
          /\ Move(c, "verify")
          /\ UNCHANGED gsBounds
       \/ /\ gitTree.there \/ gsBounds.faults > 0
          /\ gsBounds' = IF gitTree.there THEN gsBounds ELSE [gsBounds EXCEPT !.faults = @ - 1]
          /\ gitTree' = NoTree
          /\ GitSettle(c, "failed")
    /\ UNCHANGED <<origin, gplan>>

DevCloneVerify(c) ==
    /\ GitDoing(c, {"dev_clone"}, "verify")
    /\ GitSettle(c, IF gitTree.there /\ gitTree.attached /\ ~Unborn THEN "ok" ELSE "failed")
    /\ UNCHANGED <<gsBounds, gitTree, origin, gplan>>

-----------------------------------------------------------------------------
(***************************************************************************)
(* The surroundings: the developer, other people, time, and the Edge's     *)
(* death, which ends its operations and the broker's memory.               *)
(***************************************************************************)
Works(to) == /\ gitTree.there
             /\ gsBounds.edits > 0
             /\ gsBounds' = [gsBounds EXCEPT !.edits = @ - 1]
             /\ gitTree' = to
             /\ UNCHANGED <<origin, gplan, gcall>>

Commits == LET new == gitTree.head \cup {NextChange} IN
           Works([gitTree EXCEPT !.head = new, !.clean = TRUE, !.objects = @ \cup {new}])

Dirties == Works([gitTree EXCEPT !.clean = ~@])

Detaches == gitTree.head # {} /\ Works([gitTree EXCEPT !.attached = ~@])

OthersPush ==
    /\ gsBounds.pushes > 0
    /\ gsBounds' = [gsBounds EXCEPT !.pushes = @ - 1]
    /\ \/ origin' = origin \cup {NextChange}
       \/ gsBounds.rewrites /\ origin' = {1, NextChange}
    /\ UNCHANGED <<gitTree, gplan, gcall>>

PlanLapses(p) ==
    /\ gsBounds.lapses > 0
    /\ gplan[p].action # "none" /\ ~gplan[p].lapsed
    /\ gplan' = [gplan EXCEPT ![p].lapsed = TRUE]
    /\ gsBounds' = [gsBounds EXCEPT !.lapses = @ - 1]
    /\ UNCHANGED <<gitTree, origin, gcall>>

GitEdgeDies ==
    /\ gsBounds.crashes > 0
    /\ gsBounds' = [gsBounds EXCEPT !.crashes = @ - 1]
    /\ gcall' = [c \in GitCallers |-> GitNoCall]
    /\ gplan' = [p \in GitPlans |-> IF gplan[p].via = "broker" THEN [gplan[p] EXCEPT !.lapsed = TRUE] ELSE gplan[p]]
    /\ UNCHANGED <<gitTree, origin>>

GitNext ==
    \/ \E c \in GitCallers, kind \in gsBounds.kinds : Ask(c, kind)
    \/ \E c \in GitCallers : FetchPreflight(c)
    \/ \E c \in GitCallers : FetchRef(c)
    \/ \E c \in GitCallers : FetchVerify(c)
    \/ \E c \in GitCallers : previewProjectGitFastForward(c)
    \/ \E c \in GitCallers : previewProjectGitPublish(c)
    \/ \E c \in GitCallers : DevPreview(c)
    \/ \E c \in GitCallers : ReadPlan(c)
    \/ \E c \in GitCallers : InspectForPlan(c)
    \/ \E c \in GitCallers : consumeProjectGitPlan(c)
    \/ \E c \in GitCallers : WriteUsed(c)
    \/ \E c \in GitCallers : Merge(c)
    \/ \E c \in GitCallers : PushBranch(c)
    \/ \E c \in GitCallers : VerifyMerge(c)
    \/ \E c \in GitCallers : VerifyPush(c)
    \/ \E c \in GitCallers : DevTakePlan(c)
    \/ \E c \in GitCallers : DevRevalidate(c)
    \/ \E c \in GitCallers : PublishCommit(c)
    \/ \E c \in GitCallers : DevVerify(c)
    \/ \E c \in GitCallers : DevCloneLook(c)
    \/ \E c \in GitCallers : DevClone(c)
    \/ \E c \in GitCallers : DevCloneVerify(c)
    \/ Commits
    \/ Dirties
    \/ Detaches
    \/ OthersPush
    \/ \E p \in GitPlans : PlanLapses(p)
    \/ GitEdgeDies

GitSpec == GitInit /\ [][GitNext]_gitVars

-----------------------------------------------------------------------------
(***************************************************************************)
(* Type invariant: a plan is one of a fast-forward (its head is part of    *)
(* the origin's) or of a publication (the other way round), whatever Git   *)
(* knew of the origin's commit when the preview looked.                    *)
(***************************************************************************)
GitTypeOK ==
    /\ gitTree \in [there : BOOLEAN, head : SUBSET Nat, track : SUBSET Nat, objects : SUBSET SUBSET Nat,
                    attached : BOOLEAN, clean : BOOLEAN]
    /\ origin \subseteq Nat
    /\ \A p \in GitPlans :
         /\ gplan[p].action = "fast_forward" => Ancestor(gplan[p].head, gplan[p].remote)
         /\ gplan[p].action = "publish" => Ancestor(gplan[p].remote, gplan[p].head)
    /\ \A c \in GitCallers : gcall[c].at \in {"idle", "begin", "fetch", "inspect", "consume", "use", "effect",
                                             "verify", "clone"}

(***************************************************************************)
(* A plan moves a head at most once, however many calls carry it, also     *)
(* when they run side by side and when the Edge dies between the marker    *)
(* and the plan's rewrite.                                                 *)
(***************************************************************************)
PlanSpentOnce == \A p \in GitPlans : gplan[p].times <= 1

(***************************************************************************)
(* An operation that reports success did exactly what its plan says: the   *)
(* commit it moved the other side to is the one the owner approved, with   *)
(* commits, pushes and detachments in between.                             *)
(***************************************************************************)
SuccessExact ==
    \A c \in GitCallers : gcall[c].out = "ok" /\ gcall[c].plan # 0 =>
       CASE gcall[c].kind \in {"publish", "dev_publish"} -> PlanOf(c).sent = PlanOf(c).head
         [] gcall[c].kind = "fast_forward" -> PlanOf(c).sent = PlanOf(c).remote
         [] OTHER -> TRUE

(***************************************************************************)
(* The broker publishes the approved commit and nothing committed since.   *)
(***************************************************************************)
BrokerSendsPlanned ==
    \A p \in GitPlans : gplan[p].via = "broker" /\ gplan[p].times > 0 => gplan[p].sent = gplan[p].head

(***************************************************************************)
(* No fetch, fast-forward or publication takes a commit away from the      *)
(* checkout or from the origin.                                            *)
(***************************************************************************)
HistoryKept ==
    gcall' # gcall /\ gitTree.there /\ gitTree'.there
      => Ancestor(gitTree.head, gitTree'.head) /\ Ancestor(origin, origin')

(***************************************************************************)
(* What docs/tools.md promises of a publication plan, "bound to the exact  *)
(* clean attached branch, local HEAD": what is pushed is that HEAD.        *)
(* executeProjectGitPublish pushes the branch as it is by then.            *)
(***************************************************************************)

(***************************************************************************)
(* A clone another call finished is not removed.                           *)
(***************************************************************************)

=============================================================================
