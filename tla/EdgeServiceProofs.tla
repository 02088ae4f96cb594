------------------------- MODULE EdgeServiceProofs --------------------------
(***************************************************************************)
(* Two services of the control plane to its Edges: it authenticates their  *)
(* requests, and hands out the runtimes they launch.                       *)
(*                                                                         *)
(* For every window, lifetime of a nonce and clock skew with               *)
(* NonceTTL > 2 * SigWindow, and any number of requests, Authenticate lets *)
(* no request through twice and a recent contact means a device that       *)
(* signed a request recently.  Neither follows from itself.  A request     *)
(* taken once is refused later because its nonce runs out after its        *)
(* window: the time its nonce has left exceeds its timestamp by            *)
(* NonceTTL - SigWindow at least.  And the device's last signature is no   *)
(* older than the clock skew allows for any request still in its window.   *)
(*                                                                         *)
(* The safety of runtime launches is proved for any number of pollers and  *)
(* runtimes.  It does not follow from itself: that a runtime runs once     *)
(* needs to know that no two pollers work on it, which rests on lease      *)
(* identities that are never drawn twice; that it runs alone needs the one *)
(* open row of the workspace, which a poller holds from Begin to the end   *)
(* of its process.  LaunchInv says so.  Most steps are moves of one poller *)
(* on its own runtime (PollerMoveSafe); the leases (LeaseMoveSafe), the    *)
(* process (RunSafe, StoppedSafe) and the crash (CrashSafe) are shown one  *)
(* by one.                                                                 *)
(***************************************************************************)
EXTENDS SignedRequests, RuntimeLaunch, TLAPS

-----------------------------------------------------------------------------
(* Signed requests.                                                        *)

NonceOutlives(r) ==
    /\ srMsg[r].sent
    /\ \/ srMsg[r].at < -SigWindow
       \/ /\ srNonce[r].held
          /\ srNonce[r].left >= srMsg[r].at + NonceTTL - SigWindow

TakenHeld == \A r \in Requests : srTaken[r] = 0 \/ (srTaken[r] = 1 /\ NonceOutlives(r))

SignedLately == \A r \in Requests :
    (srMsg[r].sent /\ srMsg[r].at >= -SigWindow) => srAlive + srMsg[r].at <= MaxSkew

ContactBehind ==
    (srContact.known /\ srContact.age <= ContactWindow)
        => srAlive <= srContact.age + MaxSkew + SigWindow

SrInv == SrTypeOK /\ TakenHeld /\ SignedLately /\ ContactBehind

(* The initial state satisfies the invariant.                              *)
LEMMA SrInitInv == SrInit => SrInv
  BY SrAssumption DEF SrInit, SrInv, SrTypeOK, TakenHeld, SignedLately, ContactBehind

(* The fields of a request and of a nonce have their types.                *)
LEMMA SrFields ==
  ASSUME SrTypeOK, NEW r \in Requests
  PROVE  /\ srMsg[r].sent \in BOOLEAN /\ srMsg[r].at \in Int
         /\ srNonce[r].held \in BOOLEAN /\ srNonce[r].left \in Nat
         /\ srTaken[r] \in Nat
  BY DEF SrTypeOK

(* Signing a request puts it in the network with a bounded skew.           *)
LEMMA SignKeeps ==
  ASSUME SrInv, NEW q \in Requests, NEW skew \in -MaxSkew .. MaxSkew, SignRequest(q, skew)
  PROVE  SrInv'
<1> USE SrAssumption
<1>1. SrTypeOK' BY DEF SrInv, SrTypeOK, SignRequest
<1>2. TakenHeld'
  <2> SUFFICES ASSUME NEW r \in Requests
               PROVE  srTaken'[r] = 0 \/ (srTaken'[r] = 1 /\ NonceOutlives(r)')
      BY DEF TakenHeld
  <2>1. srTaken[r] = 0 \/ (srTaken[r] = 1 /\ NonceOutlives(r)) BY DEF SrInv, TakenHeld
  <2>2. CASE r = q
    BY <2>1, <2>2 DEF SignRequest, NonceOutlives
  <2>3. CASE r # q
    <3>1. srMsg'[r] = srMsg[r] BY <2>3 DEF SrInv, SrTypeOK, SignRequest
    <3> QED BY <2>1, <3>1 DEF SignRequest, NonceOutlives
  <2> QED BY <2>2, <2>3
<1>3. SignedLately'
  <2> SUFFICES ASSUME NEW r \in Requests, srMsg'[r].sent, srMsg'[r].at >= -SigWindow
               PROVE  srAlive' + srMsg'[r].at <= MaxSkew
      BY DEF SignedLately
  <2>1. CASE r = q
    <3>1. srMsg'[r].at = skew BY <2>1 DEF SrInv, SrTypeOK, SignRequest
    <3> QED BY <3>1 DEF SignRequest
  <2>2. CASE r # q
    <3>1. srMsg'[r] = srMsg[r] BY <2>2 DEF SrInv, SrTypeOK, SignRequest
    <3>2. srAlive + srMsg[r].at <= MaxSkew BY <3>1 DEF SrInv, SignedLately
    <3>3. srMsg[r].at \in Int /\ srAlive \in Nat BY SrFields DEF SrInv, SrTypeOK
    <3> QED BY <3>1, <3>2, <3>3 DEF SignRequest
  <2> QED BY <2>1, <2>2
<1>4. ContactBehind'
  BY DEF SrInv, SrTypeOK, ContactBehind, SignRequest
<1> QED BY <1>1, <1>2, <1>3, <1>4 DEF SrInv

(* A nonce whose request is still in its window is neither expired nor     *)
(* deleted.                                                                *)
LEMMA PrunedKeeps ==
  ASSUME SrTypeOK, NEW r \in Requests, NonceOutlives(r), srMsg[r].at >= -SigWindow
  PROVE  Pruned[r].held /\ Pruned[r].left = srNonce[r].left /\ srNonce[r].left > 0
<1>1. srNonce[r].held /\ srNonce[r].left >= srMsg[r].at + NonceTTL - SigWindow
  BY SrFields, SrAssumption DEF NonceOutlives
<1>2. srNonce[r].left > 0 BY <1>1, SrFields, SrAssumption
<1> QED BY <1>1, <1>2, Zenon DEF Pruned

(* Authenticate takes a request only if it has not been taken before, and  *)
(* then holds its nonce long enough.                                       *)
LEMMA AuthenticateKeeps ==
  ASSUME SrInv, NEW q \in Requests, Authenticate(q)
  PROVE  SrInv'
<1> USE SrAssumption
<1>a. SrTypeOK BY DEF SrInv
<1>b. /\ srMsg[q].sent /\ srMsg[q].at \in Int /\ srMsg[q].at >= -SigWindow /\ srMsg[q].at <= SigWindow
      /\ ~Pruned[q].held
  BY <1>a, SrFields DEF Authenticate, InWindow
<1>c. Pruned \in [Requests -> [held : BOOLEAN, left : Nat]]
  BY <1>a, SrFields DEF Pruned
<1>d. srTaken[q] = 0
  BY <1>a, <1>b, PrunedKeeps DEF SrInv, TakenHeld
<1>e. srNonce' = [Pruned EXCEPT ![q] = [held |-> TRUE, left |-> NonceTTL]]
  BY DEF Authenticate, Remember
<1>1. SrTypeOK'
  BY <1>a, <1>c, <1>e DEF SrTypeOK, Authenticate
<1>2. TakenHeld'
  <2> SUFFICES ASSUME NEW r \in Requests
               PROVE  srTaken'[r] = 0 \/ (srTaken'[r] = 1 /\ NonceOutlives(r)')
      BY DEF TakenHeld
  <2>m. srMsg' = srMsg BY DEF Authenticate
  <2>1. CASE r = q
    <3>1. srTaken'[r] = 1 BY <1>a, <1>d, <2>1 DEF SrTypeOK, Authenticate
    <3>2. srNonce'[r] = [held |-> TRUE, left |-> NonceTTL] BY <1>c, <1>e, <2>1
    <3>3. srNonce'[r].held /\ srNonce'[r].left = NonceTTL BY <3>2
    <3>4. NonceOutlives(r)' BY <1>b, <2>1, <2>m, <3>3 DEF NonceOutlives
    <3> QED BY <3>1, <3>4
  <2>2. CASE r # q
    <3>1. srTaken'[r] = srTaken[r] BY <1>a, <2>2 DEF SrTypeOK, Authenticate
    <3>2. srNonce'[r] = Pruned[r] BY <1>c, <1>e, <2>2
    <3>3. srTaken[r] = 0 \/ (srTaken[r] = 1 /\ NonceOutlives(r)) BY DEF SrInv, TakenHeld
    <3>4. ASSUME NonceOutlives(r) PROVE NonceOutlives(r)'
      <4>1. CASE srMsg[r].at < -SigWindow BY <3>4, <4>1, <2>m DEF NonceOutlives
      <4>2. CASE srMsg[r].at >= -SigWindow
        <5>1. Pruned[r].held /\ Pruned[r].left = srNonce[r].left BY <1>a, <3>4, <4>2, PrunedKeeps
        <5>2. srNonce[r].left >= srMsg[r].at + NonceTTL - SigWindow
          BY <1>a, <3>4, <4>2, SrFields DEF NonceOutlives
        <5> QED BY <5>1, <5>2, <3>2, <3>4, <2>m DEF NonceOutlives
      <4> QED BY <1>a, SrFields, <4>1, <4>2
    <3> QED BY <3>1, <3>3, <3>4
  <2> QED BY <2>1, <2>2
<1>3. SignedLately'
  BY DEF SrInv, SignedLately, Authenticate
<1>4. ContactBehind'
  <2>1. srAlive + srMsg[q].at <= MaxSkew BY <1>b DEF SrInv, SignedLately
  <2>2. srAlive \in Nat BY <1>a DEF SrTypeOK
  <2>3. srAlive' = srAlive /\ srContact'.age = 0 BY DEF Authenticate
  <2>4. srAlive <= MaxSkew + SigWindow BY <1>b, <2>1, <2>2
  <2> QED BY <2>2, <2>3, <2>4 DEF ContactBehind
<1> QED BY <1>1, <1>2, <1>3, <1>4 DEF SrInv

(* Time brings a request out of its window before it frees its nonce.      *)
LEMMA TickKeeps ==
  ASSUME SrInv, SrTick
  PROVE  SrInv'
<1> USE SrAssumption
<1>a. SrTypeOK BY DEF SrInv
<1>f. ASSUME NEW r \in Requests
      PROVE  /\ srMsg'[r].sent = srMsg[r].sent
             /\ srMsg'[r].at = (IF srMsg[r].sent /\ srMsg[r].at >= -SigWindow
                                THEN srMsg[r].at - 1 ELSE srMsg[r].at)
             /\ srNonce'[r].held = srNonce[r].held
             /\ srNonce'[r].left = (IF srNonce[r].left > 0 THEN srNonce[r].left - 1 ELSE 0)
             /\ srTaken'[r] = srTaken[r]
  <2>1. srMsg'[r] = [srMsg[r] EXCEPT !.at = IF srMsg[r].sent /\ @ >= -SigWindow THEN @ - 1 ELSE @]
    BY DEF SrTick
  <2>2. srNonce'[r] = [srNonce[r] EXCEPT !.left = IF @ > 0 THEN @ - 1 ELSE 0]
    BY DEF SrTick
  <2> QED BY <1>a, <2>1, <2>2 DEF SrTypeOK, SrTick
<1>1. SrTypeOK'
  <2>1. srMsg' \in [Requests -> [sent : BOOLEAN, at : Int]]
    BY <1>a DEF SrTypeOK, SrTick
  <2>2. srNonce' \in [Requests -> [held : BOOLEAN, left : Nat]]
    <3>1. ASSUME NEW r \in Requests
          PROVE  [srNonce[r] EXCEPT !.left = IF @ > 0 THEN @ - 1 ELSE 0] \in [held : BOOLEAN, left : Nat]
      <4>1. srNonce[r] \in [held : BOOLEAN, left : Nat] BY <1>a DEF SrTypeOK
      <4>2. (IF srNonce[r].left > 0 THEN srNonce[r].left - 1 ELSE 0) \in Nat BY <4>1
      <4> QED BY <4>1, <4>2
    <3>2. srNonce' = [r \in Requests |-> [srNonce[r] EXCEPT !.left = IF @ > 0 THEN @ - 1 ELSE 0]]
      BY DEF SrTick
    <3> QED BY <3>1, <3>2
  <2>3. srContact' \in [known : BOOLEAN, age : Nat] /\ srAlive' \in Nat
    BY <1>a DEF SrTypeOK, SrTick, SrLongest
  <2> QED BY <1>a, <2>1, <2>2, <2>3 DEF SrTypeOK, SrTick
<1>2. TakenHeld'
  <2> SUFFICES ASSUME NEW r \in Requests
               PROVE  srTaken'[r] = 0 \/ (srTaken'[r] = 1 /\ NonceOutlives(r)')
      BY DEF TakenHeld
  <2>1. srTaken[r] = 0 \/ (srTaken[r] = 1 /\ NonceOutlives(r)) BY DEF SrInv, TakenHeld
  <2>2. srMsg[r].at \in Int /\ srNonce[r].left \in Nat BY <1>a, SrFields
  <2>3. ASSUME NonceOutlives(r) PROVE NonceOutlives(r)'
    <3>1. CASE srMsg[r].at < -SigWindow
      BY <1>f, <2>2, <2>3, <3>1 DEF NonceOutlives
    <3>2. CASE srMsg[r].at >= -SigWindow
      <4>1. /\ srMsg[r].sent /\ srNonce[r].held
            /\ srNonce[r].left >= srMsg[r].at + NonceTTL - SigWindow
        BY <2>2, <2>3, <3>2 DEF NonceOutlives
      <4>2. srNonce[r].left > 0 BY <1>a, <2>3, <3>2, PrunedKeeps
      <4>3. srMsg'[r].at = srMsg[r].at - 1 /\ srNonce'[r].left = srNonce[r].left - 1
        BY <1>f, <3>2, <4>1, <4>2
      <4>4. srMsg'[r].sent /\ srNonce'[r].held BY <1>f, <4>1
      <4>5. srNonce'[r].left >= srMsg'[r].at + NonceTTL - SigWindow
        BY <2>2, <4>1, <4>3
      <4> QED BY <4>4, <4>5 DEF NonceOutlives
    <3> QED BY <2>2, <3>1, <3>2
  <2> QED BY <1>f, <2>1, <2>3
<1>3. SignedLately'
  <2> SUFFICES ASSUME NEW r \in Requests, srMsg'[r].sent, srMsg'[r].at >= -SigWindow
               PROVE  srAlive' + srMsg'[r].at <= MaxSkew
      BY DEF SignedLately
  <2>1. srMsg[r].at \in Int /\ srAlive \in Nat BY <1>a, SrFields DEF SrTypeOK
  <2>2. srMsg[r].sent BY <1>f
  <2>3. srMsg[r].at >= -SigWindow /\ srMsg'[r].at = srMsg[r].at - 1
    BY <1>f, <2>1, <2>2
  <2>4. srAlive + srMsg[r].at <= MaxSkew BY <2>2, <2>3 DEF SrInv, SignedLately
  <2>5. srAlive' <= srAlive + 1 /\ srAlive' \in Nat BY <1>1, <2>1 DEF SrTick, SrTypeOK
  <2> QED BY <2>1, <2>3, <2>4, <2>5
<1>4. ContactBehind'
  <2> SUFFICES ASSUME srContact'.known, srContact'.age <= ContactWindow
               PROVE  srAlive' <= srContact'.age + MaxSkew + SigWindow
      BY DEF ContactBehind
  <2>1. srContact.age \in Nat /\ srAlive \in Nat BY <1>a DEF SrTypeOK
  <2>2. /\ srContact'.known = srContact.known
        /\ srContact'.age = (IF srContact.known /\ srContact.age <= ContactWindow
                             THEN srContact.age + 1 ELSE srContact.age)
    BY <1>a DEF SrTypeOK, SrTick
  <2>3. srContact.known /\ srContact.age <= ContactWindow /\ srContact'.age = srContact.age + 1
    BY <2>1, <2>2
  <2>4. srAlive <= srContact.age + MaxSkew + SigWindow BY <2>3 DEF SrInv, ContactBehind
  <2>5. srAlive' <= srAlive + 1 /\ srAlive' \in Nat BY <1>1, <2>1 DEF SrTick, SrTypeOK
  <2> QED BY <2>1, <2>3, <2>4, <2>5
<1> QED BY <1>1, <1>2, <1>3, <1>4 DEF SrInv

(* Revoking the device touches none of it.                                 *)
LEMMA RevokeKeeps ==
  ASSUME SrInv, Revoke
  PROVE  SrInv'
<1>1. SrTypeOK' BY Zenon DEF SrInv, SrTypeOK, Revoke
<1>2. TakenHeld' BY DEF SrInv, TakenHeld, NonceOutlives, Revoke
<1>3. SignedLately' BY DEF SrInv, SignedLately, Revoke
<1>4. ContactBehind' BY DEF SrInv, ContactBehind, Revoke
<1> QED BY <1>1, <1>2, <1>3, <1>4 DEF SrInv

(* The invariant is inductive.                                             *)
LEMMA SrStep == SrInv /\ [SrNext]_srVars => SrInv'
<1> SUFFICES ASSUME SrInv, [SrNext]_srVars PROVE SrInv' OBVIOUS
<1>1. CASE UNCHANGED srVars
  BY <1>1 DEF srVars, SrInv, SrTypeOK, TakenHeld, NonceOutlives, SignedLately, ContactBehind
<1>2. ASSUME NEW r \in Requests, NEW skew \in -MaxSkew .. MaxSkew, SignRequest(r, skew) PROVE SrInv'
  BY <1>2, SignKeeps
<1>3. ASSUME NEW r \in Requests, Authenticate(r) PROVE SrInv'
  BY <1>3, AuthenticateKeeps
<1>4. CASE Revoke BY <1>4, RevokeKeeps
<1>5. CASE SrTick BY <1>5, TickKeeps
<1> QED BY <1>1, <1>2, <1>3, <1>4, <1>5 DEF SrNext

(* The invariant implies both properties.                                  *)
LEMMA SrInvImplies == SrInv => TakenOnce /\ RecentMeansAlive
<1> SUFFICES ASSUME SrInv PROVE TakenOnce /\ RecentMeansAlive OBVIOUS
<1>1. TakenOnce
  <2> SUFFICES ASSUME NEW r \in Requests PROVE srTaken[r] <= 1 BY Zenon DEF TakenOnce
  <2>1. srTaken[r] = 0 \/ srTaken[r] = 1 BY Zenon DEF SrInv, TakenHeld
  <2> QED BY <2>1
<1>2. RecentMeansAlive
  <2>1. srContact.age \in Nat /\ srAlive \in Nat BY DEF SrInv, SrTypeOK
  <2> QED BY <2>1, SrAssumption DEF SrInv, ContactBehind, RecentMeansAlive, RecentContact, SrLongest
<1> QED BY <1>1, <1>2

(* Whatever the network does, Authenticate (identity.go) lets a signed     *)
(* request through at most once, for every NonceTTL > 2 * SigWindow.       *)
THEOREM RequestsTakenOnce == SrSpec => []TakenOnce
<1>1. SrInv => TakenOnce BY SrInvImplies
<1> QED BY SrInitInv, SrStep, <1>1, PTL DEF SrSpec

(* DeviceConnectivity never calls a device recently heard of that signed   *)
(* its last request longer than ContactWindow + MaxSkew + SigWindow ago.   *)
THEOREM RecentContactTrue == SrSpec => []RecentMeansAlive
<1>1. SrInv => RecentMeansAlive BY SrInvImplies
<1> QED BY SrInitInv, SrStep, <1>1, PTL DEF SrSpec

-----------------------------------------------------------------------------
(* Runtime launches.                                                       *)

-----------------------------------------------------------------------------
(* The invariant.                                                          *)

LaunchBudget == [LaunchFields -> Nat]

Waiting == {"idle", "asking"}
Early == {"prepare", "verify", "preflight", "confirm", "brokers", "driver", "spec", "launch"}
LaunchStages ==
  Waiting \cup Early \cup
  {"leased", "running", "ended", "classify", "report", "completing", "completed"}
Whys == {"none", "killed"} \cup RtEnded \cup ExitCodes
PollerRow == [at : LaunchStages, rt : Nat, id : Nat, why : Whys]
RtStates == {"none"} \cup Ongoing \cup RtEnded
RowStates == {"none", "completed", "failed", "cancelled"} \cup RowActive

LaunchTypes ==
  /\ lbBounds \in LaunchBudget
  /\ rts \in [Runtimes -> [state : RtStates, due : BOOLEAN, lease : Nat]]
  /\ row \in [Runtimes -> RowStates]
  /\ pol \in [Pollers -> PollerRow]
  /\ edge \in [killed : BOOLEAN, live : SUBSET Runtimes, runs : [Runtimes -> Nat], crashed : BOOLEAN]

\* A poller past its call for a lease works on one runtime.
PollersOnRuntimes ==
  \A p \in Pollers : IF pol[p].at \in Waiting THEN pol[p].rt = 0 ELSE pol[p].rt \in Runtimes

\* Lease identities are drawn in descending order, never twice; a runtime that
\* is leased carries the identity of the call that took it.
LeasesFresh ==
  /\ \A p \in Pollers : pol[p].at # "idle" => pol[p].id > lbBounds.leases
  /\ \A p, q \in Pollers :
       p # q /\ pol[p].at # "idle" /\ pol[q].at # "idle" => pol[p].id # pol[q].id
  /\ \A r \in Runtimes : rts[r].lease # 0 => rts[r].lease > lbBounds.leases
  /\ \A p \in Pollers : pol[p].at \notin Waiting => rts[pol[p].rt].lease = pol[p].id

\* One open row in the workspace; no run without a row, and none twice.
RowsGuard ==
  /\ \A q, r \in Runtimes : row[q] \in RowActive /\ row[r] \in RowActive => q = r
  /\ \A r \in Runtimes : edge.runs[r] <= 1 /\ (row[r] = "none" => edge.runs[r] = 0)

\* Up to its launch a poller holds the open row of a runtime that never ran;
\* while its process runs the row is open; what runs, some poller waits for.
StagesGuard ==
  /\ \A p \in Pollers :
       pol[p].at \in Early => row[pol[p].rt] \in RowActive /\ edge.runs[pol[p].rt] = 0
  /\ \A p \in Pollers : pol[p].at = "running" => row[pol[p].rt] \in RowActive
  /\ \A r \in edge.live : \E p \in Pollers : pol[p].at = "running" /\ pol[p].rt = r

\* A completion is reported first and recorded second.
CompletionFirst ==
  /\ \A p \in Pollers : pol[p].at = "completed" => rts[pol[p].rt].state = "completed"
  /\ \A r \in Runtimes : row[r] = "completed" => rts[r].state = "completed"

\* The inductive invariant.
LaunchInv ==
  /\ LaunchTypes
  /\ PollersOnRuntimes
  /\ LeasesFresh
  /\ RowsGuard
  /\ StagesGuard
  /\ CompletionFirst

\* Runtimes and lease identities left: what no step but RunNext changes.
BoundsKept ==
  /\ lbBounds' \in LaunchBudget
  /\ lbBounds'.runtimes = lbBounds.runtimes
  /\ lbBounds'.leases = lbBounds.leases

\* A poller with a runtime moves on: its record, the row and the state of its
\* runtime change, and no process starts or ends.
PollerMoves(p, m, x, s) ==
  /\ pol' = [pol EXCEPT ![p] = m]
  /\ row' = [row EXCEPT ![pol[p].rt] = x]
  /\ rts' = [rts EXCEPT ![pol[p].rt].state = s]
  /\ edge' = edge

\* What a move must respect, on the poller's side, the row's and the state's.
MoveRespects(p, m, x, s) ==
  /\ pol[p].at \notin Waiting /\ pol[p].at # "running"
  /\ m \in PollerRow /\ x \in RowStates /\ s \in RtStates
  /\ \/ m = IdlePoller
     \/ m.at \notin Waiting /\ m.at # "running" /\ m.rt = pol[p].rt /\ m.id = pol[p].id
  /\ x \in RowActive => row[pol[p].rt] \in RowActive \/ ~OthersActive(pol[p].rt)
  /\ x = "none" => row[pol[p].rt] = "none"
  /\ m.at \in Early => x \in RowActive /\ edge.runs[pol[p].rt] = 0
  /\ rts[pol[p].rt].state = "completed" => s = "completed"
  /\ x = "completed" \/ m.at = "completed" => s = "completed"

\* A fault, a crash, a kill or a cancellation uses up its own budget only.
LEMMA SpendKeeps ==
  ASSUME lbBounds \in LaunchBudget, NEW f \in LaunchFields \ {"runtimes", "leases"},
         Has(f), Spend(f)
  PROVE  BoundsKept
  BY DEF LaunchBudget, LaunchFields, Has, Spend, BoundsKept

\* A step that uses up nothing.
LEMMA BoundsSame ==
  ASSUME lbBounds \in LaunchBudget, UNCHANGED lbBounds
  PROVE  BoundsKept
  BY DEF BoundsKept

\* The runtimes there may be stay the same.
LEMMA RuntimesKept ==
  ASSUME BoundsKept
  PROVE  Runtimes' = Runtimes
  BY DEF BoundsKept, Runtimes

\* Runtimes have positive numbers: 0 is a poller without one.
LEMMA RuntimesPositive ==
  ASSUME lbBounds \in LaunchBudget, NEW r \in Runtimes
  PROVE  r \in Nat /\ r # 0
<1>1. lbBounds.runtimes \in Nat
  BY DEF LaunchBudget, LaunchFields
<1> QED BY <1>1 DEF Runtimes

\* Two pollers never work on one runtime.
LEMMA RuntimesApart ==
  ASSUME LaunchInv, NEW p \in Pollers, NEW q \in Pollers, p # q,
         pol[p].at \notin Waiting, pol[q].at \notin Waiting
  PROVE  pol[p].rt # pol[q].rt
  BY DEF LaunchInv, LeasesFresh, Waiting

\* A move that respects the rules keeps the invariant: no other poller works on
\* this runtime, so no other poller's stage depends on what is written.
LEMMA PollerMoveSafe ==
  ASSUME LaunchInv, BoundsKept, NEW p \in Pollers, NEW m, NEW x, NEW s,
         PollerMoves(p, m, x, s), MoveRespects(p, m, x, s)
  PROVE  LaunchInv'
<1> DEFINE r == pol[p].rt
<1>1. r \in Runtimes /\ r \in Nat /\ r # 0
  <2>1. r \in Runtimes
    BY DEF LaunchInv, PollersOnRuntimes, MoveRespects
  <2> QED BY <2>1, RuntimesPositive DEF LaunchInv, LaunchTypes
<1>2. Runtimes' = Runtimes
  BY RuntimesKept
<1>3. pol[p] \in PollerRow /\ rts[r] \in [state : RtStates, due : BOOLEAN, lease : Nat]
  BY <1>1 DEF LaunchInv, LaunchTypes
<1>4. /\ pol'[p] = m
      /\ \A q \in Pollers : q # p => pol'[q] = pol[q]
      /\ row'[r] = x
      /\ \A t \in Runtimes : t # r => row'[t] = row[t] /\ rts'[t] = rts[t]
      /\ rts'[r].state = s /\ rts'[r].lease = rts[r].lease
  BY <1>1, <1>3 DEF LaunchInv, LaunchTypes, PollerMoves
<1>5. \A q \in Pollers : q # p /\ pol[q].at \notin Waiting => pol[q].rt # r
  BY RuntimesApart DEF MoveRespects
<1>6. IdlePoller.at = "idle" /\ IdlePoller.rt = 0
  BY DEF IdlePoller
<1>56. \A q \in Pollers :
        q # p /\ pol[q].at \notin Waiting =>
          /\ pol'[q] = pol[q]
          /\ row'[pol[q].rt] = row[pol[q].rt]
          /\ rts'[pol[q].rt] = rts[pol[q].rt]
  <2> SUFFICES ASSUME NEW q \in Pollers, q # p, pol[q].at \notin Waiting
               PROVE  /\ pol'[q] = pol[q]
                      /\ row'[pol[q].rt] = row[pol[q].rt]
                      /\ rts'[pol[q].rt] = rts[pol[q].rt]
    OBVIOUS
  <2>1. pol[q].rt \in Runtimes
    BY DEF LaunchInv, PollersOnRuntimes
  <2> QED BY <1>4, <1>5, <2>1
<1>7. LaunchTypes'
  <2>1. pol' \in [Pollers -> PollerRow]
    BY DEF LaunchInv, LaunchTypes, PollerMoves, MoveRespects
  <2>2. row' \in [Runtimes -> RowStates]
    BY <1>1 DEF LaunchInv, LaunchTypes, PollerMoves, MoveRespects
  <2>3. rts' \in [Runtimes -> [state : RtStates, due : BOOLEAN, lease : Nat]]
    BY <1>1, <1>3, Zenon DEF LaunchInv, LaunchTypes, PollerMoves, MoveRespects
  <2> QED BY <1>2, <2>1, <2>2, <2>3 DEF LaunchInv, LaunchTypes, BoundsKept, PollerMoves
<1>8. PollersOnRuntimes'
  <2> SUFFICES ASSUME NEW q \in Pollers
               PROVE  IF pol'[q].at \in Waiting THEN pol'[q].rt = 0 ELSE pol'[q].rt \in Runtimes
    BY <1>2 DEF PollersOnRuntimes
  <2> QED BY <1>1, <1>4, <1>6 DEF LaunchInv, PollersOnRuntimes, MoveRespects, Waiting
<1>9. LeasesFresh'
  <2>1. \A q \in Pollers : pol'[q].at # "idle" => pol'[q].id > lbBounds.leases
    BY <1>4, <1>6 DEF LaunchInv, LeasesFresh, MoveRespects, Waiting
  <2>2. \A a, b \in Pollers :
          a # b /\ pol'[a].at # "idle" /\ pol'[b].at # "idle" => pol'[a].id # pol'[b].id
    BY <1>4, <1>6 DEF LaunchInv, LeasesFresh, MoveRespects, Waiting
  <2>3. \A t \in Runtimes : rts'[t].lease = rts[t].lease
    BY <1>4
  <2>4. \A q \in Pollers : pol'[q].at \notin Waiting => rts'[pol'[q].rt].lease = pol'[q].id
    <3> SUFFICES ASSUME NEW q \in Pollers, pol'[q].at \notin Waiting
                 PROVE  rts'[pol'[q].rt].lease = pol'[q].id
      OBVIOUS
    <3>1. pol'[q].rt = pol[q].rt /\ pol'[q].id = pol[q].id /\ pol[q].at \notin Waiting
      BY <1>4, <1>6 DEF MoveRespects, Waiting
    <3> QED BY <2>3, <3>1 DEF LaunchInv, LeasesFresh, PollersOnRuntimes
  <2> QED BY <1>2, <2>1, <2>2, <2>3, <2>4 DEF LaunchInv, LeasesFresh, BoundsKept
<1>10. RowsGuard'
  <2>1. \A a, b \in Runtimes : row'[a] \in RowActive /\ row'[b] \in RowActive => a = b
    BY <1>1, <1>4 DEF LaunchInv, RowsGuard, MoveRespects, OthersActive
  <2>2. \A t \in Runtimes : edge.runs[t] <= 1 /\ (row'[t] = "none" => edge.runs[t] = 0)
    BY <1>1, <1>4 DEF LaunchInv, RowsGuard, MoveRespects
  <2> QED BY <1>2, <2>1, <2>2 DEF RowsGuard, PollerMoves
<1>11. StagesGuard'
  <2>1. \A q \in Pollers : pol'[q].at \in Early => row'[pol'[q].rt] \in RowActive /\ edge.runs[pol'[q].rt] = 0
    <3> SUFFICES ASSUME NEW q \in Pollers, pol'[q].at \in Early
                 PROVE  row'[pol'[q].rt] \in RowActive /\ edge.runs[pol'[q].rt] = 0
      OBVIOUS
    <3>1. CASE q = p
      BY <3>1, <1>1, <1>4, <1>6 DEF MoveRespects, Early
    <3>2. CASE q # p
      <4>1. pol'[q] = pol[q] /\ pol[q].at \notin Waiting
        BY <3>2, <1>4 DEF Early, Waiting
      <4>2. row'[pol[q].rt] = row[pol[q].rt]
        BY <3>2, <4>1, <1>56
      <4> QED BY <4>1, <4>2 DEF LaunchInv, StagesGuard
    <3> QED BY <3>1, <3>2
  <2>2. \A q \in Pollers : pol'[q].at = "running" => row'[pol'[q].rt] \in RowActive
    <3> SUFFICES ASSUME NEW q \in Pollers, pol'[q].at = "running"
                 PROVE  row'[pol'[q].rt] \in RowActive
      OBVIOUS
    <3>1. q # p
      BY <1>4, <1>6 DEF MoveRespects
    <3>2. pol'[q] = pol[q] /\ pol[q].at \notin Waiting
      BY <3>1, <1>4 DEF Waiting
    <3>3. row'[pol[q].rt] = row[pol[q].rt]
      BY <3>1, <3>2, <1>56
    <3> QED BY <3>2, <3>3 DEF LaunchInv, StagesGuard
  <2>3. \A t \in edge.live : \E q \in Pollers : pol'[q].at = "running" /\ pol'[q].rt = t
    <3> SUFFICES ASSUME NEW t \in edge.live
                 PROVE  \E q \in Pollers : pol'[q].at = "running" /\ pol'[q].rt = t
      OBVIOUS
    <3>1. PICK q \in Pollers : pol[q].at = "running" /\ pol[q].rt = t
      BY DEF LaunchInv, StagesGuard
    <3>2. q # p
      BY <3>1 DEF MoveRespects
    <3> QED BY <3>1, <3>2, <1>4
  <2> QED BY <2>1, <2>2, <2>3 DEF StagesGuard, PollerMoves
<1>12. CompletionFirst'
  <2>1. \A q \in Pollers : pol'[q].at = "completed" => rts'[pol'[q].rt].state = "completed"
    <3> SUFFICES ASSUME NEW q \in Pollers, pol'[q].at = "completed"
                 PROVE  rts'[pol'[q].rt].state = "completed"
      OBVIOUS
    <3>1. CASE q = p
      BY <3>1, <1>4, <1>6 DEF MoveRespects
    <3>2. CASE q # p
      <4>1. pol'[q] = pol[q] /\ pol[q].at \notin Waiting
        BY <3>2, <1>4 DEF Waiting
      <4>2. rts'[pol[q].rt] = rts[pol[q].rt]
        BY <3>2, <4>1, <1>56
      <4> QED BY <4>1, <4>2 DEF LaunchInv, CompletionFirst
    <3> QED BY <3>1, <3>2
  <2>2. \A t \in Runtimes : row'[t] = "completed" => rts'[t].state = "completed"
    BY <1>1, <1>4 DEF LaunchInv, CompletionFirst, MoveRespects
  <2> QED BY <1>2, <2>1, <2>2 DEF CompletionFirst
<1> QED BY <1>7, <1>8, <1>9, <1>10, <1>11, <1>12 DEF LaunchInv

\* Leaving a row and a runtime alone is writing what they are.
LEMMA NothingWritten ==
  ASSUME LaunchInv, NEW r \in Runtimes
  PROVE  /\ rts = [rts EXCEPT ![r].state = rts[r].state]
         /\ row = [row EXCEPT ![r] = row[r]]
         /\ rts[r].state \in RtStates /\ row[r] \in RowStates
<1>1. rts \in [Runtimes -> [state : RtStates, due : BOOLEAN, lease : Nat]]
  BY DEF LaunchInv, LaunchTypes
<1>2. row \in [Runtimes -> RowStates]
  BY DEF LaunchInv, LaunchTypes
<1> QED BY <1>1, <1>2

\* A poller that holds a runtime and runs no process.
Holding(p) == pol[p].at \notin Waiting /\ pol[p].at # "running"

\* The next stage of a launch, when the row is open for it.
LEMMA StageOnSafe ==
  ASSUME LaunchInv, BoundsKept, NEW p \in Pollers, Holding(p),
         NEW to \in LaunchStages \ (Waiting \cup {"running", "completed"}),
         Stage(p, to), UNCHANGED <<row, rts, edge>>,
         to \in Early => pol[p].at \in Early
  PROVE  LaunchInv'
<1> DEFINE r == pol[p].rt
           m == [pol[p] EXCEPT !.at = to]
<1>1. r \in Runtimes /\ pol[p] \in PollerRow
  BY DEF LaunchInv, LaunchTypes, PollersOnRuntimes, Holding
<1>2. m \in PollerRow /\ m.at = to /\ m.rt = r /\ m.id = pol[p].id
  BY <1>1 DEF PollerRow
<1>3. PollerMoves(p, m, row[r], rts[r].state)
  BY <1>1, NothingWritten DEF PollerMoves, Stage
<1>4. MoveRespects(p, m, row[r], rts[r].state)
  <2>1. to \in Early => row[r] \in RowActive /\ edge.runs[r] = 0
    BY DEF LaunchInv, StagesGuard
  <2>2. row[r] = "completed" => rts[r].state = "completed"
    BY <1>1 DEF LaunchInv, CompletionFirst
  <2> QED BY <1>1, <1>2, <2>1, <2>2, NothingWritten DEF MoveRespects, Holding, Waiting
<1> QED BY <1>3, <1>4, PollerMoveSafe

\* A launch that ends on the Edge: its row is closed or left alone, its runtime
\* ended at the control plane or left alone, its poller reports or is free.
LEMMA LaunchEndsSafe ==
  ASSUME LaunchInv, BoundsKept, NEW p \in Pollers, Holding(p), UNCHANGED edge,
         \/ UNCHANGED row
         \/ \E st \in {"failed", "cancelled"} : failLocal(pol[p].rt, st),
         \/ UNCHANGED rts
         \/ \E st \in RtEnded : SetState(pol[p].rt, st, Ongoing),
         \/ pol' = [pol EXCEPT ![p] = IdlePoller]
         \/ Stage(p, "report")
  PROVE  LaunchInv'
<1> DEFINE r == pol[p].rt
<1>1. r \in Runtimes /\ pol[p] \in PollerRow
  BY DEF LaunchInv, LaunchTypes, PollersOnRuntimes, Holding
<1>2. PICK m : /\ pol' = [pol EXCEPT ![p] = m]
               /\ m \in PollerRow
               /\ m = IdlePoller \/ (m.at = "report" /\ m.rt = r /\ m.id = pol[p].id)
  <2>1. CASE pol' = [pol EXCEPT ![p] = IdlePoller]
    <3>1. IdlePoller \in PollerRow
      BY DEF IdlePoller, PollerRow, LaunchStages, Waiting, Whys
    <3> QED BY <2>1, <3>1, Zenon
  <2>2. CASE Stage(p, "report")
    <3> DEFINE n == [pol[p] EXCEPT !.at = "report"]
    <3>1. n \in PollerRow /\ n.at = "report" /\ n.rt = r /\ n.id = pol[p].id
      BY <1>1 DEF PollerRow, LaunchStages
    <3>2. pol' = [pol EXCEPT ![p] = n]
      BY <2>2 DEF Stage
    <3> QED BY <3>1, <3>2, Zenon
  <2> QED BY <2>1, <2>2
<1>3. PICK x : /\ row' = [row EXCEPT ![r] = x]
               /\ x = row[r] \/ x \in {"failed", "cancelled"}
  BY <1>1, NothingWritten DEF failLocal
<1>4. PICK s : /\ rts' = [rts EXCEPT ![r].state = s]
               /\ s = rts[r].state \/ (s \in RtEnded /\ rts[r].state \in Ongoing)
  <2>1. CASE UNCHANGED rts
    BY <1>1, <2>1, NothingWritten, Zenon
  <2>2. CASE \E st \in RtEnded : SetState(r, st, Ongoing)
    BY <1>1, <2>2, NothingWritten, Zenon DEF SetState
  <2> QED BY <2>1, <2>2, Zenon
<1>5. PollerMoves(p, m, x, s)
  BY <1>2, <1>3, <1>4 DEF PollerMoves
<1>6. MoveRespects(p, m, x, s)
  <2>1. x \in RowStates /\ s \in RtStates
    BY <1>1, <1>3, <1>4, NothingWritten DEF RowStates, RtStates
  <2>2. row[r] = "completed" => rts[r].state = "completed"
    BY <1>1 DEF LaunchInv, CompletionFirst
  <2>3. rts[r].state = "completed" => s = "completed"
    BY <1>4 DEF Ongoing
  <2>4. m.at \notin Early /\ m.at # "completed"
    BY <1>2 DEF IdlePoller, Early
  <2>5. m = IdlePoller \/ (m.at \notin Waiting /\ m.at # "running" /\ m.rt = r /\ m.id = pol[p].id)
    BY <1>2 DEF Waiting
  <2>6. x \in RowActive => row[r] \in RowActive
    BY <1>3 DEF RowActive
  <2>7. (x = "none" => row[r] = "none") /\ (x = "completed" => row[r] = "completed")
    BY <1>3
  <2> QED BY <1>2, <2>1, <2>2, <2>3, <2>4, <2>5, <2>6, <2>7 DEF MoveRespects, Holding
<1> QED BY <1>5, <1>6, PollerMoveSafe

-----------------------------------------------------------------------------
(* The stages of a launch.                                                 *)

\* A stage on the Edge alone goes on, or fails and closes the row.
LEMMA LocalStageSafe ==
  ASSUME LaunchInv, NEW p \in Pollers, NEW from \in LaunchStages \ (Waiting \cup {"running"}),
         NEW to \in LaunchStages \ (Waiting \cup {"running", "completed"}),
         to \in Early => from \in Early, LocalStage(p, from, to)
  PROVE  LaunchInv'
<1>1. Holding(p) /\ pol[p].at = from
  BY DEF LocalStage, At, Holding
<1>2. CASE LocalFault(p)
  <2>1. BoundsKept
    BY <1>2, SpendKeeps DEF LocalFault, LaunchFields, LaunchInv, LaunchTypes
  <2> QED BY <1>1, <1>2, <2>1, LaunchEndsSafe DEF LocalStage, LocalFault, StageFails
<1>3. CASE Stage(p, to) /\ UNCHANGED <<lbBounds, row>>
  <2>1. BoundsKept
    BY <1>3, BoundsSame DEF LaunchInv, LaunchTypes
  <2> QED BY <1>1, <1>3, <2>1, StageOnSafe DEF LocalStage
<1> QED BY <1>2, <1>3 DEF LocalStage

\* A lease that the Edge refuses before it has a row.
LEMMA RefuseSafe ==
  ASSUME LaunchInv, NEW p \in Pollers, RefuseLease(p)
  PROVE  LaunchInv'
<1>1. BoundsKept
  BY BoundsSame DEF LaunchInv, LaunchTypes, RefuseLease
<1>2. Holding(p)
  BY DEF RefuseLease, At, Holding, Waiting
<1> QED BY <1>1, <1>2, LaunchEndsSafe, Zenon DEF RefuseLease

\* Begin opens the row only if no other row of the workspace is open.
LEMMA BeginSafe ==
  ASSUME LaunchInv, NEW p \in Pollers, LaunchBegin(p)
  PROVE  LaunchInv'
<1> DEFINE r == pol[p].rt
<1>1. BoundsKept
  BY BoundsSame DEF LaunchInv, LaunchTypes, LaunchBegin
<1>2. Holding(p)
  BY DEF LaunchBegin, At, Holding, Waiting
<1>3. r \in Runtimes /\ pol[p] \in PollerRow
  BY <1>2 DEF LaunchInv, LaunchTypes, PollersOnRuntimes, Holding
<1>4. CASE row[r] = "none" /\ ~OthersActive(r) /\ row' = [row EXCEPT ![r] = "starting"] /\ Stage(p, "prepare")
  <2> DEFINE m == [pol[p] EXCEPT !.at = "prepare"]
  <2>1. m \in PollerRow /\ m.at = "prepare" /\ m.rt = r /\ m.id = pol[p].id
    BY <1>3 DEF PollerRow, LaunchStages, Early
  <2>2. PollerMoves(p, m, "starting", rts[r].state)
    BY <1>3, <1>4, NothingWritten DEF PollerMoves, Stage, LaunchBegin
  <2>3. edge.runs[r] = 0
    BY <1>3, <1>4 DEF LaunchInv, RowsGuard
  <2>4. "starting" \in RowActive /\ "starting" \in RowStates
    BY DEF RowActive, RowStates
  <2>5. MoveRespects(p, m, "starting", rts[r].state)
    BY <1>2, <1>3, <1>4, <2>1, <2>3, <2>4, NothingWritten DEF MoveRespects, Holding, Waiting
  <2> QED BY <1>1, <2>2, <2>5, PollerMoveSafe
<1>5. CASE UNCHANGED row /\ Stage(p, "report")
  BY <1>1, <1>2, <1>5, LaunchEndsSafe DEF LaunchBegin
<1>6. CASE failLocal(r, "failed") /\ Stage(p, "report")
  BY <1>1, <1>2, <1>6, LaunchEndsSafe DEF LaunchBegin
<1>7. CASE UNCHANGED row /\ pol' = [pol EXCEPT ![p] = IdlePoller]
  BY <1>1, <1>2, <1>7, LaunchEndsSafe, Zenon DEF LaunchBegin
<1> QED BY <1>4, <1>5, <1>6, <1>7 DEF LaunchBegin

\* The workspace is confirmed and the control plane still has the runtime starting,
\* or the launch fails.
LEMMA PreflightSafe ==
  ASSUME LaunchInv, NEW p \in Pollers, Preflight(p)
  PROVE  LaunchInv'
<1>1. Holding(p) /\ pol[p].at = "preflight"
  BY DEF Preflight, At, Holding, Waiting
<1>2. CASE LocalFault(p)
  <2>1. BoundsKept
    BY <1>2, SpendKeeps DEF LocalFault, LaunchFields, LaunchInv, LaunchTypes
  <2> QED BY <1>1, <1>2, <2>1, LaunchEndsSafe DEF Preflight, LocalFault, StageFails
<1>3. CASE Stage(p, "confirm") /\ UNCHANGED <<lbBounds, row>>
  <2>1. BoundsKept
    BY <1>3, BoundsSame DEF LaunchInv, LaunchTypes
  <2>2. "confirm" \in LaunchStages \ (Waiting \cup {"running", "completed"}) /\ pol[p].at \in Early
    BY <1>1 DEF LaunchStages, Early, Waiting
  <2> QED BY <1>1, <1>3, <2>1, <2>2, StageOnSafe DEF Preflight
<1>4. CASE StageFails(p) /\ UNCHANGED lbBounds
  <2>1. BoundsKept
    BY <1>4, BoundsSame DEF LaunchInv, LaunchTypes
  <2> QED BY <1>1, <1>4, <2>1, LaunchEndsSafe DEF Preflight, StageFails
<1> QED BY <1>2, <1>3, <1>4 DEF Preflight

\* The control plane takes the runtime as started, or rejects it and the row is
\* closed.
LEMMA StartedSafe ==
  ASSUME LaunchInv, NEW p \in Pollers, Started(p)
  PROVE  LaunchInv'
<1> DEFINE r == pol[p].rt
<1>1. BoundsKept
  BY BoundsSame DEF LaunchInv, LaunchTypes, Started
<1>2. Holding(p) /\ pol[p].at \in Early
  BY DEF Started, At, Holding, Waiting, Early
<1>3. r \in Runtimes /\ pol[p] \in PollerRow
  BY <1>2 DEF LaunchInv, LaunchTypes, PollersOnRuntimes, Holding
<1>4. CASE /\ rts[r].state \in {"starting", "awaiting_model"}
           /\ SetState(r, "awaiting_model", {"starting", "awaiting_model"})
           /\ Stage(p, "brokers") /\ UNCHANGED row
  <2> DEFINE m == [pol[p] EXCEPT !.at = "brokers"]
  <2>1. m \in PollerRow /\ m.at = "brokers" /\ m.rt = r /\ m.id = pol[p].id
    BY <1>3 DEF PollerRow, LaunchStages, Early
  <2>2. PollerMoves(p, m, row[r], "awaiting_model")
    BY <1>3, <1>4, NothingWritten DEF PollerMoves, Stage, Started, SetState
  <2>3. row[r] \in RowActive /\ edge.runs[r] = 0
    BY <1>2 DEF LaunchInv, StagesGuard
  <2>4. row[r] # "completed" /\ "awaiting_model" \in RtStates
    BY <2>3 DEF RowActive, RtStates, Ongoing
  <2>5. MoveRespects(p, m, row[r], "awaiting_model")
    BY <1>2, <1>3, <1>4, <2>1, <2>3, <2>4, NothingWritten DEF MoveRespects, Holding, Waiting
  <2> QED BY <1>1, <2>2, <2>5, PollerMoveSafe
<1>5. CASE failLocal(r, "failed") /\ pol' = [pol EXCEPT ![p] = IdlePoller] /\ UNCHANGED rts
  BY <1>1, <1>2, <1>5, LaunchEndsSafe, Zenon DEF Started
<1> QED BY <1>4, <1>5 DEF Started

\* The driver starts and the row is running, or the launch fails.
LEMMA StartDriverSafe ==
  ASSUME LaunchInv, NEW p \in Pollers, StartDriver(p)
  PROVE  LaunchInv'
<1> DEFINE r == pol[p].rt
<1>1. Holding(p) /\ pol[p].at \in Early
  BY DEF StartDriver, At, Holding, Waiting, Early
<1>2. r \in Runtimes /\ pol[p] \in PollerRow
  BY <1>1 DEF LaunchInv, LaunchTypes, PollersOnRuntimes, Holding
<1>3. CASE LocalFault(p)
  <2>1. BoundsKept
    BY <1>3, SpendKeeps DEF LocalFault, LaunchFields, LaunchInv, LaunchTypes
  <2> QED BY <1>1, <1>3, <2>1, LaunchEndsSafe DEF StartDriver, LocalFault, StageFails
<1>4. CASE row' = [row EXCEPT ![r] = "running"] /\ Stage(p, "spec") /\ UNCHANGED lbBounds
  <2> DEFINE m == [pol[p] EXCEPT !.at = "spec"]
  <2>1. m \in PollerRow /\ m.at = "spec" /\ m.rt = r /\ m.id = pol[p].id
    BY <1>2 DEF PollerRow, LaunchStages, Early
  <2>2. PollerMoves(p, m, "running", rts[r].state)
    BY <1>2, <1>4, NothingWritten DEF PollerMoves, Stage, StartDriver
  <2>3. row[r] \in RowActive /\ edge.runs[r] = 0
    BY <1>1 DEF LaunchInv, StagesGuard
  <2>4. "running" \in RowActive /\ "running" \in RowStates
    BY DEF RowActive, RowStates
  <2>5. MoveRespects(p, m, "running", rts[r].state)
    BY <1>1, <1>2, <2>1, <2>3, <2>4, NothingWritten DEF MoveRespects, Holding, Waiting
  <2>6. BoundsKept
    BY <1>4, BoundsSame DEF LaunchInv, LaunchTypes
  <2> QED BY <2>2, <2>5, <2>6, PollerMoveSafe
<1>5. CASE StageFails(p) /\ UNCHANGED lbBounds
  <2>1. BoundsKept
    BY <1>5, BoundsSame DEF LaunchInv, LaunchTypes
  <2> QED BY <1>1, <1>5, <2>1, LaunchEndsSafe DEF StartDriver, StageFails
<1> QED BY <1>3, <1>4, <1>5 DEF StartDriver

\* The exit is classified: cancelled, failed, or a completion to be reported.
LEMMA ClassifySafe ==
  ASSUME LaunchInv, NEW p \in Pollers, Classify(p)
  PROVE  LaunchInv'
<1>1. BoundsKept
  BY BoundsSame DEF LaunchInv, LaunchTypes, Classify
<1>2. Holding(p)
  BY DEF Classify, At, Holding, Waiting
<1>3. CASE failLocal(pol[p].rt, "cancelled") /\ pol' = [pol EXCEPT ![p] = IdlePoller]
  BY <1>1, <1>2, <1>3, LaunchEndsSafe, Zenon DEF Classify
<1>4. CASE failLocal(pol[p].rt, "cancelled") /\ Stage(p, "report")
  BY <1>1, <1>2, <1>4, LaunchEndsSafe DEF Classify
<1>5. CASE failLocal(pol[p].rt, "failed") /\ Stage(p, "report")
  BY <1>1, <1>2, <1>5, LaunchEndsSafe DEF Classify
<1>6. CASE Stage(p, "completing") /\ UNCHANGED row
  <2>1. "completing" \in LaunchStages \ (Waiting \cup {"running", "completed"}) /\ "completing" \notin Early
    BY DEF LaunchStages, Early, Waiting
  <2> QED BY <1>1, <1>2, <1>6, <2>1, StageOnSafe DEF Classify
<1> QED BY <1>3, <1>4, <1>5, <1>6 DEF Classify

\* A failure is reported to the control plane, whether or not it is heard.
LEMMA ReportSafe ==
  ASSUME LaunchInv, NEW p \in Pollers, Report(p)
  PROVE  LaunchInv'
<1>1. Holding(p)
  BY DEF Report, At, Holding, Waiting
<1>2. BoundsKept
  <2>1. CASE UNCHANGED lbBounds
    BY <2>1, BoundsSame DEF LaunchInv, LaunchTypes
  <2>2. CASE Unheard
    BY <2>2, SpendKeeps DEF Unheard, LaunchFields, LaunchInv, LaunchTypes
  <2> QED BY <2>1, <2>2 DEF Report
<1>3. UNCHANGED rts \/ \E st \in RtEnded : SetState(pol[p].rt, st, Ongoing)
  BY DEF Report, RtEnded
<1> QED BY <1>1, <1>2, <1>3, LaunchEndsSafe, Zenon DEF Report

\* A completion that is answered; one that is rejected or unanswered leaves a
\* failed row.
LEMMA CompletedSafe ==
  ASSUME LaunchInv, NEW p \in Pollers, LaunchCompleted(p)
  PROVE  LaunchInv'
<1> DEFINE r == pol[p].rt
<1>1. Holding(p)
  BY DEF LaunchCompleted, At, Holding, Waiting
<1>2. r \in Runtimes /\ pol[p] \in PollerRow
  BY <1>1 DEF LaunchInv, LaunchTypes, PollersOnRuntimes, Holding
<1>3. CASE /\ rts[r].state \in Ongoing \cup {"completed"}
           /\ SetState(r, "completed", Ongoing)
           /\ Stage(p, "completed")
           /\ UNCHANGED <<lbBounds, row>>
  <2> DEFINE m == [pol[p] EXCEPT !.at = "completed"]
  <2>1. m \in PollerRow /\ m.at = "completed" /\ m.rt = r /\ m.id = pol[p].id
    BY <1>2 DEF PollerRow, LaunchStages
  <2>2. PollerMoves(p, m, row[r], "completed")
    <3>1. rts' = [rts EXCEPT ![r].state = "completed"]
      BY <1>2, <1>3, NothingWritten, Zenon DEF SetState, Ongoing
    <3> QED BY <1>2, <1>3, <3>1, NothingWritten DEF PollerMoves, Stage, LaunchCompleted
  <2>3. "completed" \in RtStates /\ m.at \notin Early
    BY <2>1 DEF RtStates, RtEnded, Early
  <2>4. MoveRespects(p, m, row[r], "completed")
    BY <1>1, <1>2, <2>1, <2>3, NothingWritten DEF MoveRespects, Holding, Waiting
  <2>5. BoundsKept
    BY <1>3, BoundsSame DEF LaunchInv, LaunchTypes
  <2> QED BY <2>2, <2>4, <2>5, PollerMoveSafe
<1>4. CASE /\ Unheard
           /\ SetState(r, "completed", Ongoing) \/ UNCHANGED rts
           /\ failLocal(r, "failed")
           /\ pol' = [pol EXCEPT ![p] = IdlePoller]
  <2>1. BoundsKept
    BY <1>4, SpendKeeps DEF Unheard, LaunchFields, LaunchInv, LaunchTypes
  <2>2. UNCHANGED rts \/ \E st \in RtEnded : SetState(r, st, Ongoing)
    BY <1>4 DEF RtEnded
  <2> QED BY <1>1, <1>4, <2>1, <2>2, LaunchEndsSafe, Zenon DEF LaunchCompleted
<1>5. CASE failLocal(r, "failed") /\ pol' = [pol EXCEPT ![p] = IdlePoller] /\ UNCHANGED <<lbBounds, rts>>
  <2>1. BoundsKept
    BY <1>5, BoundsSame DEF LaunchInv, LaunchTypes
  <2> QED BY <1>1, <1>5, <2>1, LaunchEndsSafe, Zenon DEF LaunchCompleted
<1> QED BY <1>3, <1>4, <1>5 DEF LaunchCompleted

\* The row of a completed runtime is closed as completed.
LEMMA FinishSafe ==
  ASSUME LaunchInv, NEW p \in Pollers, FinishCompleted(p)
  PROVE  LaunchInv'
<1> DEFINE r == pol[p].rt
           x == IF row[r] \in RowActive THEN "completed" ELSE row[r]
<1>1. Holding(p) /\ rts[r].state = "completed"
  BY DEF FinishCompleted, At, Holding, Waiting, LaunchInv, CompletionFirst
<1>2. r \in Runtimes /\ pol[p] \in PollerRow
  BY <1>1 DEF LaunchInv, LaunchTypes, PollersOnRuntimes, Holding
<1>3. PollerMoves(p, IdlePoller, x, "completed")
  <2>1. row' = [row EXCEPT ![r] = x]
    BY <1>2, NothingWritten DEF FinishCompleted, failLocal
  <2>2. rts' = [rts EXCEPT ![r].state = "completed"]
    BY <1>1, <1>2, NothingWritten DEF FinishCompleted
  <2> QED BY <2>1, <2>2, Zenon DEF PollerMoves, FinishCompleted
<1>4. MoveRespects(p, IdlePoller, x, "completed")
  <2>1. IdlePoller \in PollerRow /\ IdlePoller.at \notin Early
    BY DEF IdlePoller, PollerRow, LaunchStages, Waiting, Whys, Early
  <2>2. x \in RowStates /\ "completed" \in RtStates
    BY <1>2, NothingWritten DEF RowStates, RtStates, RtEnded
  <2>3. x \notin RowActive
    BY DEF RowActive
  <2>4. x = "none" => row[r] = "none"
    OBVIOUS
  <2> HIDE DEF x
  <2> QED BY <1>1, <2>1, <2>2, <2>3, <2>4 DEF MoveRespects, Holding
<1>5. BoundsKept
  BY BoundsSame DEF LaunchInv, LaunchTypes, FinishCompleted
<1> QED BY <1>3, <1>4, <1>5, PollerMoveSafe

-----------------------------------------------------------------------------
(* Processes.                                                              *)

\* The process starts: the row of its runtime is open and it never ran before.
LEMMA RunSafe ==
  ASSUME LaunchInv, NEW p \in Pollers, runProcess(p)
  PROVE  LaunchInv'
<1> DEFINE r == pol[p].rt
           m == [pol[p] EXCEPT !.at = "running"]
<1>1. Holding(p) /\ pol[p].at \in Early
  BY DEF runProcess, At, Holding, Waiting, Early
<1>2. r \in Runtimes /\ pol[p] \in PollerRow
  BY <1>1 DEF LaunchInv, LaunchTypes, PollersOnRuntimes, Holding
<1>3. BoundsKept /\ Runtimes' = Runtimes /\ UNCHANGED <<lbBounds, rts, row>>
  BY BoundsSame, RuntimesKept DEF LaunchInv, LaunchTypes, runProcess
<1>4. row[r] \in RowActive /\ edge.runs[r] = 0
  BY <1>1 DEF LaunchInv, StagesGuard
<1>5. m \in PollerRow /\ m.at = "running" /\ m.rt = r /\ m.id = pol[p].id
  BY <1>2 DEF PollerRow, LaunchStages
<1>6. /\ pol' = [pol EXCEPT ![p] = m] /\ pol' \in [Pollers -> PollerRow]
      /\ pol'[p] = m /\ \A q \in Pollers : q # p => pol'[q] = pol[q]
  <2>1. pol \in [Pollers -> PollerRow]
    BY DEF LaunchInv, LaunchTypes
  <2>2. pol' = [pol EXCEPT ![p] = m]
    BY DEF runProcess, Stage
  <2> HIDE DEF m
  <2> QED BY <1>5, <2>1, <2>2
<1> HIDE DEF m
<1>7. /\ edge'.live = edge.live \cup {r} /\ edge'.runs = [edge.runs EXCEPT ![r] = 1]
      /\ edge' \in [killed : BOOLEAN, live : SUBSET Runtimes, runs : [Runtimes -> Nat], crashed : BOOLEAN]
  <2>1. edge \in [killed : BOOLEAN, live : SUBSET Runtimes, runs : [Runtimes -> Nat], crashed : BOOLEAN]
    BY DEF LaunchInv, LaunchTypes
  <2>2. edge' = [edge EXCEPT !.runs = [edge.runs EXCEPT ![r] = 1], !.live = edge.live \cup {r}]
    BY <1>2, <1>4, <2>1 DEF runProcess
  <2> QED BY <1>2, <2>1, <2>2, Zenon
<1>8. \A t \in Runtimes : edge'.runs[t] = IF t = r THEN 1 ELSE edge.runs[t]
  BY <1>7 DEF LaunchInv, LaunchTypes
<1>9. \A q \in Pollers : q # p /\ pol[q].at \notin Waiting => pol[q].rt # r /\ pol[q].rt \in Runtimes
  BY <1>1, RuntimesApart DEF Holding, LaunchInv, PollersOnRuntimes
<1>10. LaunchTypes'
  BY <1>3, <1>6, <1>7 DEF LaunchInv, LaunchTypes
<1>11. PollersOnRuntimes'
  <2>1. "running" \notin Waiting
    BY DEF Waiting
  <2> QED BY <1>2, <1>3, <1>5, <1>6, <2>1 DEF LaunchInv, PollersOnRuntimes
<1>12. LeasesFresh'
  <2>1. "running" \notin Waiting /\ pol[p].at \notin Waiting /\ pol[p].at # "idle"
    BY <1>1 DEF Holding, Waiting
  <2>2. \A q \in Pollers : /\ pol'[q].id = pol[q].id /\ pol'[q].rt = pol[q].rt
                           /\ pol'[q].at \notin Waiting => pol[q].at \notin Waiting
                           /\ pol'[q].at # "idle" => pol[q].at # "idle"
    BY <1>5, <1>6, <2>1
  <2> QED BY <1>3, <2>2 DEF LaunchInv, LeasesFresh
<1>13. RowsGuard'
  BY <1>2, <1>3, <1>4, <1>8 DEF LaunchInv, RowsGuard, RowActive
<1>14. StagesGuard'
  <2>1. \A q \in Pollers : pol'[q].at \in Early => row[pol'[q].rt] \in RowActive /\ edge'.runs[pol'[q].rt] = 0
    <3> SUFFICES ASSUME NEW q \in Pollers, pol'[q].at \in Early
                 PROVE  row[pol'[q].rt] \in RowActive /\ edge'.runs[pol'[q].rt] = 0
      OBVIOUS
    <3>1. q # p
      BY <1>5, <1>6 DEF Early
    <3>2. pol'[q] = pol[q] /\ pol[q].at \notin Waiting
      BY <1>6, <3>1 DEF Early, Waiting
    <3> QED BY <1>8, <1>9, <3>1, <3>2 DEF LaunchInv, StagesGuard
  <2>2. \A q \in Pollers : pol'[q].at = "running" => row[pol'[q].rt] \in RowActive
    BY <1>4, <1>5, <1>6 DEF LaunchInv, StagesGuard
  <2>3. \A t \in edge'.live : \E q \in Pollers : pol'[q].at = "running" /\ pol'[q].rt = t
    <3> SUFFICES ASSUME NEW t \in edge'.live
                 PROVE  \E q \in Pollers : pol'[q].at = "running" /\ pol'[q].rt = t
      OBVIOUS
    <3>1. CASE t = r
      BY <1>5, <1>6, <3>1
    <3>2. CASE t \in edge.live
      <4>1. PICK q \in Pollers : pol[q].at = "running" /\ pol[q].rt = t
        BY <3>2 DEF LaunchInv, StagesGuard
      <4>2. q # p
        BY <1>1, <4>1 DEF Holding
      <4> QED BY <1>6, <4>1, <4>2
    <3> QED BY <1>7, <3>1, <3>2
  <2> QED BY <1>3, <2>1, <2>2, <2>3 DEF StagesGuard
<1>15. CompletionFirst'
  <2>1. \A q \in Pollers : pol'[q].at = "completed" => pol'[q] = pol[q]
    BY <1>5, <1>6
  <2> QED BY <1>3, <2>1 DEF LaunchInv, CompletionFirst
<1> QED BY <1>10, <1>11, <1>12, <1>13, <1>14, <1>15 DEF LaunchInv

\* The process ends, or is stopped by its monitor.
LEMMA StoppedSafe ==
  ASSUME LaunchInv, NEW p \in Pollers, At(p, "running"), NEW why \in Whys, LaunchStopped(p, why)
  PROVE  LaunchInv'
<1> DEFINE r == pol[p].rt
           m == [pol[p] EXCEPT !.at = "ended", !.why = why]
<1>1. pol[p].at = "running" /\ pol[p].at \notin Waiting
  BY DEF At, Waiting
<1>2. r \in Runtimes /\ pol[p] \in PollerRow
  BY <1>1 DEF LaunchInv, LaunchTypes, PollersOnRuntimes
<1>3. BoundsKept /\ Runtimes' = Runtimes /\ UNCHANGED <<lbBounds, rts, row>>
  BY BoundsSame, RuntimesKept DEF LaunchInv, LaunchTypes, LaunchStopped
<1>4. m \in PollerRow /\ m.at = "ended" /\ m.rt = r /\ m.id = pol[p].id
  BY <1>2, Zenon DEF PollerRow, LaunchStages
<1>5. /\ pol' \in [Pollers -> PollerRow]
      /\ pol'[p] = m /\ \A q \in Pollers : q # p => pol'[q] = pol[q]
  <2>1. pol \in [Pollers -> PollerRow]
    BY DEF LaunchInv, LaunchTypes
  <2>2. pol' = [pol EXCEPT ![p] = m]
    BY <2>1, Zenon DEF LaunchStopped
  <2> HIDE DEF m
  <2> QED BY <1>4, <2>1, <2>2
<1> HIDE DEF m
<1>6. /\ edge'.live = edge.live \ {r} /\ edge'.runs = edge.runs
      /\ edge' \in [killed : BOOLEAN, live : SUBSET Runtimes, runs : [Runtimes -> Nat], crashed : BOOLEAN]
  BY <1>2 DEF LaunchInv, LaunchTypes, LaunchStopped
<1>7. "ended" \notin Waiting /\ "ended" \notin Early
  BY DEF Waiting, Early
<1>8. LaunchTypes'
  BY <1>3, <1>5, <1>6 DEF LaunchInv, LaunchTypes
<1>9. PollersOnRuntimes'
  BY <1>2, <1>3, <1>4, <1>5, <1>7 DEF LaunchInv, PollersOnRuntimes
<1>10. LeasesFresh'
  <2>1. \A q \in Pollers : /\ pol'[q].id = pol[q].id /\ pol'[q].rt = pol[q].rt
                           /\ pol'[q].at \notin Waiting => pol[q].at \notin Waiting
                           /\ pol'[q].at # "idle" => pol[q].at # "idle"
    BY <1>1, <1>4, <1>5
  <2> QED BY <1>3, <2>1 DEF LaunchInv, LeasesFresh
<1>11. RowsGuard'
  BY <1>3, <1>6 DEF LaunchInv, RowsGuard
<1>12. StagesGuard'
  <2>1. \A q \in Pollers : pol'[q].at \in Early \/ pol'[q].at = "running" => pol'[q] = pol[q]
    BY <1>4, <1>5, <1>7
  <2>2. \A t \in edge'.live : \E q \in Pollers : pol'[q].at = "running" /\ pol'[q].rt = t
    <3> SUFFICES ASSUME NEW t \in edge'.live
                 PROVE  \E q \in Pollers : pol'[q].at = "running" /\ pol'[q].rt = t
      OBVIOUS
    <3>1. PICK q \in Pollers : pol[q].at = "running" /\ pol[q].rt = t
      BY <1>6 DEF LaunchInv, StagesGuard
    <3>2. q # p
      BY <1>6, <3>1
    <3> QED BY <1>5, <3>1, <3>2
  <2> QED BY <1>3, <1>6, <2>1, <2>2 DEF LaunchInv, StagesGuard
<1>13. CompletionFirst'
  <2>1. \A q \in Pollers : pol'[q].at = "completed" => pol'[q] = pol[q]
    BY <1>4, <1>5
  <2> QED BY <1>3, <2>1 DEF LaunchInv, CompletionFirst
<1> QED BY <1>8, <1>9, <1>10, <1>11, <1>12, <1>13 DEF LaunchInv

-----------------------------------------------------------------------------
(* Leases and the control plane.                                           *)

RtRow == [state : RtStates, due : BOOLEAN, lease : Nat]

\* A runtime changes at the control plane and keeps its lease.
LEMMA RuntimeMoveSafe ==
  ASSUME LaunchInv, BoundsKept, NEW r \in Runtimes, NEW n \in RtRow,
         rts' = [rts EXCEPT ![r] = n], n.lease = rts[r].lease,
         rts[r].state = "completed" => n.state = "completed",
         UNCHANGED <<row, pol, edge>>
  PROVE  LaunchInv'
<1>1. Runtimes' = Runtimes
  BY RuntimesKept
<1>2. rts \in [Runtimes -> RtRow]
  BY DEF LaunchInv, LaunchTypes, RtRow
<1>3. /\ rts' \in [Runtimes -> RtRow]
      /\ \A t \in Runtimes : /\ rts'[t].lease = rts[t].lease
                             /\ rts[t].state = "completed" => rts'[t].state = "completed"
  BY <1>2
<1>4. LaunchTypes'
  BY <1>1, <1>3 DEF LaunchInv, LaunchTypes, BoundsKept, RtRow
<1>5. PollersOnRuntimes' /\ RowsGuard' /\ StagesGuard'
  BY <1>1 DEF LaunchInv, PollersOnRuntimes, RowsGuard, StagesGuard
<1>6. LeasesFresh'
  BY <1>1, <1>3 DEF LaunchInv, LeasesFresh, PollersOnRuntimes, BoundsKept
<1>7. CompletionFirst'
  <2>1. \A q \in Pollers : pol[q].at = "completed" => pol[q].rt \in Runtimes
    BY DEF LaunchInv, PollersOnRuntimes, Waiting
  <2> QED BY <1>1, <1>3, <2>1 DEF LaunchInv, CompletionFirst
<1> QED BY <1>4, <1>5, <1>6, <1>7 DEF LaunchInv

\* A poller that asks for a lease is left waiting, gets nothing, or gets the
\* runtime whose receipt carries the identity of its call.
LEMMA LeaseMoveSafe ==
  ASSUME LaunchInv, BoundsKept, NEW p \in Pollers, pol[p].at = "asking",
         NEW r \in Runtimes, NEW n \in RtRow, rts' = [rts EXCEPT ![r] = n],
         n.lease = rts[r].lease \/ (n.lease = pol[p].id /\ rts[r].lease = 0),
         rts[r].state = "completed" => n.state = "completed",
         UNCHANGED <<row, edge>>,
         \/ UNCHANGED pol
         \/ pol' = [pol EXCEPT ![p] = IdlePoller]
         \/ n.lease = pol[p].id /\ pol' = [pol EXCEPT ![p].at = "leased", ![p].rt = r]
  PROVE  LaunchInv'
<1>1. Runtimes' = Runtimes
  BY RuntimesKept
<1>2. rts \in [Runtimes -> RtRow] /\ pol \in [Pollers -> PollerRow] /\ pol[p] \in PollerRow
  BY DEF LaunchInv, LaunchTypes, RtRow
<1>3. lbBounds.leases \in Nat
  BY DEF LaunchInv, LaunchTypes, LaunchBudget, LaunchFields
<1>4. /\ rts' \in [Runtimes -> RtRow] /\ rts'[r] = n
      /\ \A t \in Runtimes : t # r => rts'[t] = rts[t]
      /\ \A t \in Runtimes : rts[t].state = "completed" => rts'[t].state = "completed"
  BY <1>2
<1>5. /\ pol[p].id > lbBounds.leases /\ pol[p].id \in Nat /\ pol[p].rt = 0
      /\ \A q \in Pollers : q # p /\ pol[q].at # "idle" => pol[q].id # pol[p].id
  BY <1>2 DEF LaunchInv, LeasesFresh, PollersOnRuntimes, Waiting, PollerRow
<1>6. /\ pol' \in [Pollers -> PollerRow] /\ \A q \in Pollers : q # p => pol'[q] = pol[q]
      /\ \/ pol'[p] = pol[p]
         \/ pol'[p] = IdlePoller
         \/ n.lease = pol[p].id /\ pol'[p].at = "leased" /\ pol'[p].rt = r /\ pol'[p].id = pol[p].id
  <2>1. CASE UNCHANGED pol
    BY <1>2, <2>1
  <2>2. CASE pol' = [pol EXCEPT ![p] = IdlePoller]
    <3>1. IdlePoller \in PollerRow
      BY DEF IdlePoller, PollerRow, LaunchStages, Waiting, Whys
    <3> QED BY <1>2, <2>2, <3>1
  <2>3. CASE n.lease = pol[p].id /\ pol' = [pol EXCEPT ![p].at = "leased", ![p].rt = r]
    <3> DEFINE m == [pol[p] EXCEPT !.at = "leased", !.rt = r]
    <3>1. r \in Nat
      BY RuntimesPositive DEF LaunchInv, LaunchTypes
    <3>2. m \in PollerRow /\ m.at = "leased" /\ m.rt = r /\ m.id = pol[p].id
      BY <1>2, <3>1, Zenon DEF PollerRow, LaunchStages
    <3>3. pol' = [pol EXCEPT ![p] = m]
      BY <1>2, <2>3, Zenon
    <3> HIDE DEF m
    <3> QED BY <1>2, <2>3, <3>2, <3>3, Zenon
  <2> QED BY <2>1, <2>2, <2>3
<1>7. IdlePoller.at = "idle" /\ IdlePoller.rt = 0 /\ "idle" \in Waiting /\ "leased" \notin Waiting /\ "asking" \in Waiting
  BY DEF IdlePoller, Waiting
<1>8. LaunchTypes'
  BY <1>1, <1>4, <1>6 DEF LaunchInv, LaunchTypes, BoundsKept, RtRow
<1>9. PollersOnRuntimes'
  BY <1>1, <1>5, <1>6, <1>7 DEF LaunchInv, PollersOnRuntimes
<1>10. LeasesFresh'
  <2>1. \A q \in Pollers : pol'[q].at # "idle" => pol'[q].id = pol[q].id /\ pol[q].at # "idle"
    BY <1>6, <1>7
  <2>2. \A t \in Runtimes : rts'[t].lease # 0 => rts'[t].lease > lbBounds.leases
    BY <1>4, <1>5 DEF LaunchInv, LeasesFresh
  <2>3. \A q \in Pollers : pol'[q].at \notin Waiting => rts'[pol'[q].rt].lease = pol'[q].id
    <3> SUFFICES ASSUME NEW q \in Pollers, pol'[q].at \notin Waiting
                 PROVE  rts'[pol'[q].rt].lease = pol'[q].id
      OBVIOUS
    <3>1. CASE q = p
      BY <1>4, <1>6, <1>7, <3>1
    <3>2. CASE q # p
      <4>1. pol'[q] = pol[q] /\ pol[q].rt \in Runtimes /\ rts[pol[q].rt].lease = pol[q].id
        BY <1>6, <3>2 DEF LaunchInv, PollersOnRuntimes, LeasesFresh
      <4>2. pol[q].id > lbBounds.leases /\ pol[q].id \in Nat
        <5>1. pol[q].at # "idle"
          BY <1>7, <4>1
        <5> QED BY <1>2, <5>1 DEF LaunchInv, LeasesFresh, PollerRow
      <4>3. rts[pol[q].rt].lease # 0
        BY <1>3, <4>1, <4>2
      <4> QED BY <1>4, <4>1, <4>3
    <3> QED BY <3>1, <3>2
  <2> QED BY <1>1, <2>1, <2>2, <2>3 DEF LaunchInv, LeasesFresh, BoundsKept
<1>11. RowsGuard'
  BY <1>1 DEF LaunchInv, RowsGuard
<1>12. StagesGuard'
  <2>1. \A q \in Pollers : pol'[q].at \in Early \/ pol'[q].at = "running" => pol'[q] = pol[q]
    BY <1>6, <1>7 DEF Early
  <2>2. \A q \in Pollers : pol[q].at = "running" => pol'[q] = pol[q]
    BY <1>6
  <2> QED BY <2>1, <2>2 DEF LaunchInv, StagesGuard
<1>13. CompletionFirst'
  <2>1. \A q \in Pollers : pol'[q].at = "completed" => pol'[q] = pol[q] /\ pol[q].rt \in Runtimes
    BY <1>6, <1>7 DEF LaunchInv, PollersOnRuntimes, Waiting
  <2> QED BY <1>1, <1>4, <2>1 DEF LaunchInv, CompletionFirst
<1> QED BY <1>8, <1>9, <1>10, <1>11, <1>12, <1>13 DEF LaunchInv

\* writeLease, for a runtime that carries the identity of the call or takes it.
LEMMA WriteLeaseSafe ==
  ASSUME LaunchInv, NEW p \in Pollers, pol[p].at = "asking", NEW r \in Runtimes, NEW held,
         \/ held = rts /\ rts[r].lease = pol[p].id
         \/ held = [rts EXCEPT ![r].lease = pol[p].id] /\ rts[r].lease = 0,
         rts[r].state # "completed", WriteLease(p, r, held), UNCHANGED <<row, edge>>
  PROVE  LaunchInv'
<1>1. rts \in [Runtimes -> RtRow] /\ pol[p].id \in Nat
  BY DEF LaunchInv, LaunchTypes, RtRow, PollerRow
<1>2. ASSUME NEW s \in RtStates, rts' = [held EXCEPT ![r].state = s]
      PROVE  \E n \in RtRow : /\ rts' = [rts EXCEPT ![r] = n] /\ n.lease = pol[p].id
                              /\ n.lease = rts[r].lease \/ rts[r].lease = 0
  <2> DEFINE n == [rts[r] EXCEPT !.state = s, !.lease = pol[p].id]
  <2>1. n \in RtRow /\ n.lease = pol[p].id
    BY <1>1, Zenon DEF RtRow
  <2>2. rts' = [rts EXCEPT ![r] = n]
    <3>1. CASE held = rts /\ rts[r].lease = pol[p].id
      <4>1. [rts[r] EXCEPT !.state = s] = n
        BY <1>1, <3>1, Zenon DEF RtRow
      <4> QED BY <1>1, <1>2, <3>1, <4>1, Zenon
    <3>2. CASE held = [rts EXCEPT ![r].lease = pol[p].id]
      <4>1. held[r] = [rts[r] EXCEPT !.lease = pol[p].id]
        BY <1>1, <3>2
      <4>2. [held[r] EXCEPT !.state = s] = n
        BY <1>1, <4>1, Zenon DEF RtRow
      <4> QED BY <1>1, <1>2, <3>2, <4>1, <4>2, Zenon
    <3> QED BY <3>1, <3>2
  <2> HIDE DEF n
  <2> QED BY <2>1, <2>2, Zenon
<1>3. "starting" \in RtStates /\ "awaiting_edge" \in RtStates /\ "failed" \in RtStates
  BY DEF RtStates, Ongoing, RtEnded
<1>4. BoundsKept
  <2>1. CASE UNCHANGED lbBounds
    BY <2>1, BoundsSame DEF LaunchInv, LaunchTypes
  <2>2. CASE Unheard
    BY <2>2, SpendKeeps DEF Unheard, LaunchFields, LaunchInv, LaunchTypes
  <2>3. CASE Has("faults") /\ Spend("faults")
    BY <2>3, SpendKeeps DEF LaunchFields, LaunchInv, LaunchTypes
  <2> QED BY <2>1, <2>2, <2>3 DEF WriteLease
<1>5. PICK s \in RtStates : rts' = [held EXCEPT ![r].state = s]
  BY <1>3 DEF WriteLease
<1>6. PICK n \in RtRow : /\ rts' = [rts EXCEPT ![r] = n] /\ n.lease = pol[p].id
                         /\ n.lease = rts[r].lease \/ rts[r].lease = 0
  BY <1>2, <1>5, Zenon
<1>7. \/ UNCHANGED pol
      \/ pol' = [pol EXCEPT ![p] = IdlePoller]
      \/ pol' = [pol EXCEPT ![p].at = "leased", ![p].rt = r]
  BY DEF WriteLease
<1> QED BY <1>4, <1>6, <1>7, LeaseMoveSafe, Zenon

\* A call for a lease that is repeated finds the runtime it took.
LEMMA LeaseAgainSafe ==
  ASSUME LaunchInv, NEW p \in Pollers, LeaseAgain(p)
  PROVE  LaunchInv'
<1>1. pol[p].at = "asking" /\ UNCHANGED <<row, edge>>
  BY DEF LeaseAgain
<1>2. PICK r \in Runtimes :
        /\ rts[r].lease = pol[p].id
        /\ \/ rts[r].state \in {"awaiting_edge", "starting"} /\ WriteLease(p, r, rts)
           \/ pol' = [pol EXCEPT ![p] = IdlePoller] /\ UNCHANGED <<lbBounds, rts>>
  BY DEF LeaseAgain, ReceiptOf
<1>3. CASE rts[r].state \in {"awaiting_edge", "starting"} /\ WriteLease(p, r, rts)
  BY <1>1, <1>2, <1>3, WriteLeaseSafe
<1>4. CASE pol' = [pol EXCEPT ![p] = IdlePoller] /\ UNCHANGED <<lbBounds, rts>>
  <2>1. BoundsKept
    BY <1>4, BoundsSame DEF LaunchInv, LaunchTypes
  <2>2. rts[r] \in RtRow /\ rts' = [rts EXCEPT ![r] = rts[r]]
    BY <1>4 DEF LaunchInv, LaunchTypes, RtRow
  <2> QED BY <1>1, <1>4, <2>1, <2>2, LeaseMoveSafe, Zenon
<1> QED BY <1>2, <1>3, <1>4

\* A call for a lease takes the first runtime that waits.
LEMMA LeaseFirstSafe ==
  ASSUME LaunchInv, NEW p \in Pollers, LeaseFirst(p)
  PROVE  LaunchInv'
<1>1. pol[p].at = "asking" /\ UNCHANGED <<row, edge>>
  BY DEF LeaseFirst
<1>2. PICK r \in Runtimes :
        /\ rts[r].state = "awaiting_edge"
        /\ \/ rts[r].lease = 0 /\ WriteLease(p, r, [rts EXCEPT ![r].lease = pol[p].id])
           \/ Unheard /\ rts' = [rts EXCEPT ![r].state = "starting"] /\ UNCHANGED pol
           \/ /\ rts' = [rts EXCEPT ![r].state = "starting"]
              /\ pol' = [pol EXCEPT ![p] = IdlePoller] /\ UNCHANGED lbBounds
  BY Zenon DEF LeaseFirst, NextLease, Leasable
<1>3. CASE rts[r].lease = 0 /\ WriteLease(p, r, [rts EXCEPT ![r].lease = pol[p].id])
  BY <1>1, <1>2, <1>3, WriteLeaseSafe
<1>4. ASSUME BoundsKept, rts' = [rts EXCEPT ![r].state = "starting"],
             UNCHANGED pol \/ pol' = [pol EXCEPT ![p] = IdlePoller]
      PROVE  LaunchInv'
  <2> DEFINE n == [rts[r] EXCEPT !.state = "starting"]
  <2>1. n \in RtRow /\ n.lease = rts[r].lease
    BY DEF LaunchInv, LaunchTypes, RtRow, RtStates, Ongoing
  <2>2. rts' = [rts EXCEPT ![r] = n]
    BY <1>4
  <2> HIDE DEF n
  <2>3. rts[r].state # "completed"
    BY <1>2
  <2>4. CASE UNCHANGED pol
    BY <1>1, <1>4, <2>1, <2>2, <2>3, <2>4, LeaseMoveSafe, Zenon
  <2>5. CASE pol' = [pol EXCEPT ![p] = IdlePoller]
    BY <1>1, <1>4, <2>1, <2>2, <2>3, <2>5, LeaseMoveSafe, Zenon
  <2> QED BY <1>4, <2>4, <2>5
<1>5. CASE Unheard /\ rts' = [rts EXCEPT ![r].state = "starting"] /\ UNCHANGED pol
  <2>1. BoundsKept
    BY <1>5, SpendKeeps DEF Unheard, LaunchFields, LaunchInv, LaunchTypes
  <2> QED BY <1>4, <1>5, <2>1
<1>6. CASE /\ rts' = [rts EXCEPT ![r].state = "starting"]
           /\ pol' = [pol EXCEPT ![p] = IdlePoller] /\ UNCHANGED lbBounds
  <2>1. BoundsKept
    BY <1>6, BoundsSame DEF LaunchInv, LaunchTypes
  <2> QED BY <1>4, <1>6, <2>1
<1> QED BY <1>2, <1>3, <1>5, <1>6

\* A call for a lease that finds nothing.
LEMMA LeaseNothingSafe ==
  ASSUME LaunchInv, NEW p \in Pollers, LeaseNothing(p)
  PROVE  LaunchInv'
<1>1. pol[p].at = "asking" /\ pol' = [pol EXCEPT ![p] = IdlePoller] /\ UNCHANGED <<lbBounds, rts, row, edge>>
  BY DEF LeaseNothing
<1>2. /\ pol' \in [Pollers -> PollerRow] /\ pol'[p] = IdlePoller
      /\ \A q \in Pollers : q # p => pol'[q] = pol[q]
  <2>1. IdlePoller \in PollerRow
    BY DEF IdlePoller, PollerRow, LaunchStages, Waiting, Whys
  <2> QED BY <1>1, <2>1 DEF LaunchInv, LaunchTypes
<1>3. IdlePoller.at = "idle" /\ IdlePoller.rt = 0 /\ "idle" \in Waiting
  BY DEF IdlePoller, Waiting
<1>4. Runtimes' = Runtimes
  BY <1>1 DEF Runtimes
<1>5. \A q \in Pollers : pol'[q].at # "idle" => pol'[q] = pol[q]
  BY <1>2, <1>3
<1>6. LaunchTypes' /\ PollersOnRuntimes' /\ RowsGuard'
  BY <1>1, <1>2, <1>3, <1>4 DEF LaunchInv, LaunchTypes, PollersOnRuntimes, RowsGuard
<1>7. LeasesFresh'
  <2>1. \A q \in Pollers : pol'[q].at \notin Waiting => pol'[q].at # "idle"
    BY <1>3
  <2> QED BY <1>1, <1>4, <1>5, <2>1 DEF LaunchInv, LeasesFresh
<1>8. StagesGuard' /\ CompletionFirst'
  <2>1. \A q \in Pollers : pol'[q].at \in Early => pol'[q] = pol[q]
    BY <1>5 DEF Early
  <2>2. \A q \in Pollers : pol[q].at = "running" => pol'[q] = pol[q]
    BY <1>1, <1>2
  <2>3. StagesGuard'
    BY <1>1, <1>4, <1>5, <2>1, <2>2 DEF LaunchInv, StagesGuard
  <2>4. CompletionFirst'
    BY <1>1, <1>4, <1>5, <2>1, <2>2 DEF LaunchInv, CompletionFirst
  <2> QED BY <2>3, <2>4
<1> QED BY <1>6, <1>7, <1>8 DEF LaunchInv

\* A new call draws the next lease identity, below all that were drawn before.
LEMMA RunNextSafe ==
  ASSUME LaunchInv, NEW p \in Pollers, RunNext(p)
  PROVE  LaunchInv'
<1> DEFINE k == lbBounds.leases
           m == [IdlePoller EXCEPT !.at = "asking", !.id = k]
<1>1. /\ pol[p].at = "idle" /\ pol' = [pol EXCEPT ![p] = m] /\ UNCHANGED <<rts, row, edge>>
      /\ k \in Nat /\ k > 0
  BY DEF RunNext, Has, LaunchInv, LaunchTypes, LaunchBudget, LaunchFields
<1>2. lbBounds' \in LaunchBudget /\ lbBounds'.leases = k - 1 /\ lbBounds'.runtimes = lbBounds.runtimes
  BY <1>1 DEF RunNext, Spend, LaunchInv, LaunchTypes, LaunchBudget, LaunchFields
<1>3. Runtimes' = Runtimes
  BY <1>2 DEF Runtimes
<1>4. m \in PollerRow /\ m.at = "asking" /\ m.rt = 0 /\ m.id = k
  BY <1>1, Zenon DEF IdlePoller, PollerRow, LaunchStages, Waiting, Whys
<1> HIDE DEF m
<1>5. /\ pol \in [Pollers -> PollerRow] /\ pol' \in [Pollers -> PollerRow] /\ pol'[p] = m
      /\ \A q \in Pollers : q # p => pol'[q] = pol[q]
  BY <1>1, <1>4 DEF LaunchInv, LaunchTypes
<1>6. "asking" \in Waiting /\ "asking" \notin Early
  BY DEF Waiting, Early
<1>7. LaunchTypes' /\ PollersOnRuntimes' /\ RowsGuard'
  BY <1>1, <1>2, <1>3, <1>4, <1>5, <1>6 DEF LaunchInv, LaunchTypes, PollersOnRuntimes, RowsGuard
<1>8. LeasesFresh'
  <2>1. \A q \in Pollers : q # p /\ pol[q].at # "idle" => pol[q].id > k /\ pol[q].id \in Nat
    BY <1>5 DEF LaunchInv, LeasesFresh, PollerRow
  <2>2. \A q \in Pollers : pol'[q].at # "idle" => pol'[q].id > k - 1
    BY <1>1, <1>4, <1>5, <2>1
  <2>3. \A a, b \in Pollers :
          a # b /\ pol'[a].at # "idle" /\ pol'[b].at # "idle" => pol'[a].id # pol'[b].id
    <3>1. \A q \in Pollers : q # p /\ pol[q].at # "idle" => pol[q].id # k
      BY <1>1, <2>1
    <3> QED BY <1>4, <1>5, <3>1 DEF LaunchInv, LeasesFresh
  <2>4. \A r \in Runtimes : rts[r].lease # 0 => rts[r].lease > k - 1
    BY <1>1 DEF LaunchInv, LeasesFresh, LaunchTypes
  <2>5. \A q \in Pollers : pol'[q].at \notin Waiting => pol'[q] = pol[q]
    BY <1>4, <1>5, <1>6
  <2> QED BY <1>1, <1>2, <1>3, <2>2, <2>3, <2>4, <2>5 DEF LaunchInv, LeasesFresh
<1>9. StagesGuard' /\ CompletionFirst'
  <2>1. \A q \in Pollers : pol'[q].at \in Early \cup {"running", "completed"} => pol'[q] = pol[q]
    BY <1>4, <1>5, <1>6
  <2>2. \A q \in Pollers : pol[q].at = "running" => pol'[q] = pol[q]
    BY <1>1, <1>5
  <2> QED BY <1>1, <1>3, <2>1, <2>2 DEF LaunchInv, StagesGuard, CompletionFirst
<1> QED BY <1>7, <1>8, <1>9 DEF LaunchInv

\* What the control plane does by itself ends or dates a runtime; a completed
\* runtime is past all of it.
LEMMA ControlPlaneSafe ==
  ASSUME LaunchInv, NEW r \in Runtimes,
         \/ LaunchStartBoundRuntime(r)
         \/ CancelRequested(r)
         \/ StartupDeadline(r)
         \/ expireRuntimesLocked(r)
  PROVE  LaunchInv'
<1>1. rts \in [Runtimes -> RtRow] /\ rts[r] \in RtRow
  BY DEF LaunchInv, LaunchTypes, RtRow
<1>2. ASSUME BoundsKept, NEW s \in RtStates, rts[r].state # "completed",
             rts' = [rts EXCEPT ![r].state = s], UNCHANGED <<row, pol, edge>>
      PROVE  LaunchInv'
  <2> DEFINE n == [rts[r] EXCEPT !.state = s]
  <2>1. n \in RtRow /\ n.lease = rts[r].lease
    BY <1>1 DEF RtRow
  <2>2. rts' = [rts EXCEPT ![r] = n]
    BY <1>2
  <2> HIDE DEF n
  <2> QED BY <1>2, <2>1, <2>2, RuntimeMoveSafe, Zenon
<1>3. UNCHANGED lbBounds => BoundsKept
  BY BoundsSame DEF LaunchInv, LaunchTypes
<1>4. /\ "awaiting_edge" \in RtStates /\ "cancelled" \in RtStates /\ "expired" \in RtStates
      /\ "completed" \notin Ongoing
  BY DEF RtStates, Ongoing, RtEnded
<1>5. CASE LaunchStartBoundRuntime(r)
  BY <1>2, <1>3, <1>4, <1>5, Zenon DEF LaunchStartBoundRuntime
<1>6. CASE CancelRequested(r)
  <2>1. BoundsKept
    BY <1>6, SpendKeeps DEF CancelRequested, LaunchFields, LaunchInv, LaunchTypes
  <2>2. rts' = [rts EXCEPT ![r].state = "cancelled"] /\ rts[r].state # "completed"
    BY <1>1, <1>4, <1>6 DEF CancelRequested, SetState
  <2> QED BY <1>2, <1>4, <1>6, <2>1, <2>2, Zenon DEF CancelRequested
<1>7. CASE StartupDeadline(r)
  <2> DEFINE n == [rts[r] EXCEPT !.due = TRUE]
  <2>1. n \in RtRow /\ n.lease = rts[r].lease /\ n.state = rts[r].state
    BY <1>1, Zenon DEF RtRow
  <2>2. rts' = [rts EXCEPT ![r] = n]
    BY <1>7 DEF StartupDeadline
  <2>3. BoundsKept /\ UNCHANGED <<row, pol, edge>>
    BY <1>3, <1>7 DEF StartupDeadline
  <2> HIDE DEF n
  <2> QED BY <2>1, <2>2, <2>3, RuntimeMoveSafe, Zenon
<1>8. CASE expireRuntimesLocked(r)
  <2>1. rts' = [rts EXCEPT ![r].state = "expired"] /\ rts[r].state # "completed"
    BY <1>1, <1>4, <1>8 DEF expireRuntimesLocked, SetState
  <2> QED BY <1>2, <1>3, <1>4, <1>8, <2>1, Zenon DEF expireRuntimesLocked
<1> QED BY <1>5, <1>6, <1>7, <1>8

\* A crash forgets the leases and keeps the rows: no poller, no process.
LEMMA CrashSafe ==
  ASSUME LaunchInv, EdgeCrash
  PROVE  LaunchInv'
<1>1. BoundsKept
  BY SpendKeeps DEF EdgeCrash, LaunchFields, LaunchInv, LaunchTypes
<1>2. Runtimes' = Runtimes /\ UNCHANGED <<rts, row>>
  BY <1>1, RuntimesKept DEF EdgeCrash
<1>3. \A p \in Pollers : pol'[p] = IdlePoller
  BY DEF EdgeCrash
<1>4. IdlePoller \in PollerRow /\ IdlePoller.at = "idle" /\ IdlePoller.rt = 0
  BY DEF IdlePoller, PollerRow, LaunchStages, Waiting, Whys
<1>5. pol' \in [Pollers -> PollerRow]
  BY <1>4 DEF EdgeCrash
<1>6. /\ edge'.live = {} /\ edge'.runs = edge.runs
      /\ edge' \in [killed : BOOLEAN, live : SUBSET Runtimes, runs : [Runtimes -> Nat], crashed : BOOLEAN]
  BY Zenon DEF EdgeCrash, LaunchInv, LaunchTypes
<1>7. LaunchTypes'
  BY <1>1, <1>2, <1>5, <1>6 DEF LaunchInv, LaunchTypes, BoundsKept
<1>8. PollersOnRuntimes' /\ StagesGuard' /\ CompletionFirst'
  <2>1. "idle" \in Waiting /\ "idle" \notin Early
    BY DEF Waiting, Early
  <2> QED BY <1>2, <1>3, <1>4, <1>6, <2>1
      DEF LaunchInv, PollersOnRuntimes, StagesGuard, CompletionFirst
<1>9. LeasesFresh'
  <2>1. "idle" \in Waiting
    BY DEF Waiting
  <2> QED BY <1>1, <1>2, <1>3, <1>4, <2>1 DEF LaunchInv, LeasesFresh, BoundsKept
<1>10. RowsGuard'
  BY <1>2, <1>6 DEF LaunchInv, RowsGuard
<1> QED BY <1>7, <1>8, <1>9, <1>10 DEF LaunchInv

\* The kill switch is turned and touches nothing else.
LEMMA KillSafe ==
  ASSUME LaunchInv, KillSwitch
  PROVE  LaunchInv'
<1>1. BoundsKept
  BY SpendKeeps DEF KillSwitch, LaunchFields, LaunchInv, LaunchTypes
<1>2. Runtimes' = Runtimes /\ UNCHANGED <<rts, row, pol>>
  BY <1>1, RuntimesKept DEF KillSwitch
<1>3. /\ edge'.live = edge.live /\ edge'.runs = edge.runs
      /\ edge' \in [killed : BOOLEAN, live : SUBSET Runtimes, runs : [Runtimes -> Nat], crashed : BOOLEAN]
  <2> DEFINE k == ~edge.killed
  <2>1. k \in BOOLEAN /\ edge' = [edge EXCEPT !.killed = k]
    BY DEF KillSwitch
  <2> HIDE DEF k
  <2> QED BY <2>1 DEF LaunchInv, LaunchTypes
<1>4. LaunchTypes'
  BY <1>1, <1>2, <1>3 DEF LaunchInv, LaunchTypes, BoundsKept
<1>5. LeasesFresh'
  BY <1>1, <1>2 DEF LaunchInv, LeasesFresh, BoundsKept
<1>6. PollersOnRuntimes' /\ RowsGuard' /\ StagesGuard' /\ CompletionFirst'
  BY <1>2, <1>3 DEF LaunchInv, PollersOnRuntimes, RowsGuard, StagesGuard, CompletionFirst
<1> QED BY <1>4, <1>5, <1>6 DEF LaunchInv

-----------------------------------------------------------------------------
(* The theorems.                                                           *)

\* Every stage of a launch keeps the invariant.
LEMMA LaunchStepSafe ==
  ASSUME LaunchInv, NEW p \in Pollers, LaunchStep(p)
  PROVE  LaunchInv'
<1>1. /\ Early \cup {"ended", "classify"} \subseteq LaunchStages \ (Waiting \cup {"running", "completed"})
      /\ "classify" \notin Early
  BY DEF LaunchStages, Early, Waiting
<1>2. CASE PrepareWorkspace(p)
  <2>1. "prepare" \in Early /\ "verify" \in Early
    BY DEF Early
  <2> QED BY <1>1, <1>2, <2>1, LocalStageSafe DEF PrepareWorkspace
<1>3. CASE verifyLocalInstallation(p)
  <2>1. "verify" \in Early /\ "preflight" \in Early
    BY DEF Early
  <2> QED BY <1>1, <1>3, <2>1, LocalStageSafe DEF verifyLocalInstallation
<1>4. CASE StartBrokers(p)
  <2>1. "brokers" \in Early /\ "driver" \in Early
    BY DEF Early
  <2> QED BY <1>1, <1>4, <2>1, LocalStageSafe DEF StartBrokers
<1>5. CASE processSpec(p)
  <2>1. "spec" \in Early /\ "launch" \in Early
    BY DEF Early
  <2> QED BY <1>1, <1>5, <2>1, LocalStageSafe DEF processSpec
<1>6. CASE CleanUp(p)
  BY <1>1, <1>6, LocalStageSafe DEF CleanUp
<1>7. CASE LeaseAgain(p) \/ LeaseFirst(p) \/ LeaseNothing(p) \/ RefuseLease(p) \/ LaunchBegin(p)
  BY <1>7, LeaseAgainSafe, LeaseFirstSafe, LeaseNothingSafe, RefuseSafe, BeginSafe
<1>8. CASE Preflight(p) \/ Started(p) \/ StartDriver(p) \/ runProcess(p) \/ Classify(p)
  BY <1>8, PreflightSafe, StartedSafe, StartDriverSafe, RunSafe, ClassifySafe
<1>9. CASE Report(p) \/ LaunchCompleted(p) \/ FinishCompleted(p)
  BY <1>9, ReportSafe, CompletedSafe, FinishSafe
<1> QED BY <1>2, <1>3, <1>4, <1>5, <1>6, <1>7, <1>8, <1>9 DEF LaunchStep

\* Every step keeps the invariant.
LEMMA NextLaunchInv ==
  ASSUME LaunchInv, [LbNext]_lbVars
  PROVE  LaunchInv'
<1>1. CASE \E p \in Pollers : LaunchStep(p)
  BY <1>1, LaunchStepSafe
<1>2. CASE \E p \in Pollers : monitorRuntime(p)
  <2>1. PICK p \in Pollers : monitorRuntime(p)
    BY <1>2
  <2>2. At(p, "running") /\ \E why \in Whys : LaunchStopped(p, why)
    BY <2>1, Zenon DEF monitorRuntime, Whys
  <2> QED BY <2>2, StoppedSafe
<1>3. CASE \E p \in Pollers : RunNext(p)
  BY <1>3, RunNextSafe
<1>4. CASE \E p \in Pollers : \E code \in ExitCodes : ProcessExits(p, code)
  <2>1. PICK p \in Pollers : \E code \in ExitCodes : ProcessExits(p, code)
    BY <1>4
  <2>2. At(p, "running") /\ \E why \in Whys : LaunchStopped(p, why)
    BY <2>1, Zenon DEF ProcessExits, Whys
  <2> QED BY <2>2, StoppedSafe
<1>5. CASE \E r \in Runtimes : \/ LaunchStartBoundRuntime(r)
                               \/ CancelRequested(r)
                               \/ StartupDeadline(r)
                               \/ expireRuntimesLocked(r)
  BY <1>5, ControlPlaneSafe
<1>6. CASE EdgeCrash \/ KillSwitch
  BY <1>6, CrashSafe, KillSafe
<1>7. CASE UNCHANGED lbVars
  <2>1. UNCHANGED <<lbBounds, rts, row, pol, edge>> /\ Runtimes' = Runtimes
    BY <1>7 DEF lbVars, Runtimes
  <2>2. LaunchTypes' /\ PollersOnRuntimes' /\ RowsGuard'
    BY <2>1 DEF LaunchInv, LaunchTypes, PollersOnRuntimes, RowsGuard
  <2>3. LeasesFresh' /\ StagesGuard' /\ CompletionFirst'
    BY <2>1 DEF LaunchInv, LeasesFresh, StagesGuard, CompletionFirst
  <2> QED BY <2>2, <2>3 DEF LaunchInv
<1> QED BY <1>1, <1>2, <1>3, <1>4, <1>5, <1>6, <1>7 DEF LbNext

\* The invariant holds at the start.
LEMMA InitLaunchInv ==
  ASSUME LbInit
  PROVE  LaunchInv
<1>1. lbBounds \in LaunchBudget
  BY LaunchAssumption DEF LbInit, LaunchBudget
<1>2. IdlePoller \in PollerRow /\ IdlePoller.at = "idle" /\ IdlePoller.rt = 0
  BY DEF IdlePoller, PollerRow, LaunchStages, Waiting, Whys
<1>3. \A p \in Pollers : pol[p] = IdlePoller
  BY DEF LbInit
<1>4. \A r \in Runtimes : rts[r] = [state |-> "none", due |-> FALSE, lease |-> 0] /\ row[r] = "none"
  BY DEF LbInit
<1>5. edge.live = {} /\ \A r \in Runtimes : edge.runs[r] = 0
  BY DEF LbInit
<1>6. "idle" \in Waiting /\ "idle" \notin Early /\ "none" \notin RowActive
  BY DEF Waiting, Early, RowActive
<1>7. LaunchTypes
  BY <1>1, <1>2 DEF LaunchTypes, LbInit, RtStates, RowStates
<1>8. PollersOnRuntimes /\ LeasesFresh
  BY <1>2, <1>3, <1>4, <1>6 DEF PollersOnRuntimes, LeasesFresh
<1>9. RowsGuard
  BY <1>4, <1>5, <1>6 DEF RowsGuard
<1>10. StagesGuard /\ CompletionFirst
  BY <1>2, <1>3, <1>4, <1>5, <1>6 DEF StagesGuard, CompletionFirst
<1> QED BY <1>7, <1>8, <1>9, <1>10 DEF LaunchInv

\* The inductive invariant of launches, for any number of pollers and runtimes,
\* of lost answers, faults, crashes, kills and cancellations.
THEOREM LaunchInvariance == LbSpec => []LaunchInv
<1>1. LbInit => LaunchInv
  BY InitLaunchInv
<1>2. LaunchInv /\ [LbNext]_lbVars => LaunchInv'
  BY NextLaunchInv
<1> QED BY <1>1, <1>2, PTL DEF LbSpec

\* A runtime is run at most once and alone in its workspace, whatever is lost and
\* wherever the Edge crashes, and what the Edge recorded as completed the control
\* plane has as completed.
THEOREM LaunchAlwaysSafe == LbSpec => []LaunchSafe
<1>1. ASSUME LaunchInv PROVE LaunchSafe
  <2>1. LaunchTypeOK
    <3>1. \A p \in Pollers : pol[p].rt \in Runtimes \cup {0}
      BY <1>1 DEF LaunchInv, PollersOnRuntimes
    <3> QED BY <1>1, <3>1 DEF LaunchInv, LaunchTypes, LaunchTypeOK, RtStates, RowStates
  <2>2. RunsOnceAlone
    <3>1. \A q, r \in edge.live : q = r
      <4>1. \A r \in edge.live : r \in Runtimes /\ row[r] \in RowActive
        BY <1>1 DEF LaunchInv, LaunchTypes, StagesGuard
      <4> QED BY <1>1, <4>1 DEF LaunchInv, RowsGuard
    <3>2. \A p, q \in Pollers : p # q /\ pol[p].rt = pol[q].rt => pol[p].rt = 0
      <4> SUFFICES ASSUME NEW p \in Pollers, NEW q \in Pollers, p # q, pol[p].rt = pol[q].rt
                   PROVE  pol[p].rt = 0
        OBVIOUS
      <4>1. pol[p].at \in Waiting \/ pol[q].at \in Waiting
        BY <1>1, RuntimesApart
      <4> QED BY <1>1, <4>1 DEF LaunchInv, PollersOnRuntimes
    <3> QED BY <1>1, <3>1, <3>2 DEF LaunchInv, RowsGuard, RunsOnceAlone
  <2>3. CompletionAgrees
    BY <1>1 DEF LaunchInv, CompletionFirst, CompletionAgrees
  <2> QED BY <2>1, <2>2, <2>3 DEF LaunchSafe
<1> QED BY <1>1, LaunchInvariance, PTL
=============================================================================
