--------------------------- MODULE SignedRequests ---------------------------
(***************************************************************************)
(* The device authentication of the Edge protocol                          *)
(* (internal/edge/identity.go, http.go; internal/edgeclient/transport.go). *)
(* Every request carries the client's clock and a fresh nonce.  The server *)
(* takes it while that clock lies within SigWindow of its own, keeps the   *)
(* nonce for NonceTTL, and records the time of the contact.  The network   *)
(* may delay a request, and may deliver it again.                          *)
(*                                                                         *)
(* Time is relative to the server's clock: a tick brings every stored      *)
(* moment one unit nearer, and moments too old to matter stay where they   *)
(* are.                                                                    *)
(***************************************************************************)
EXTENDS Integers

CONSTANTS Requests,       \* the requests one device ever sends, each with its own nonce
          SigWindow,      \* SignatureWindow
          NonceTTL,       \* NonceTTL
          ContactWindow,  \* DeviceContactWindow
          MaxSkew         \* how far the client's clock may be off

ASSUME SrAssumption ==
    /\ SigWindow \in Nat /\ NonceTTL \in Nat /\ ContactWindow \in Nat /\ MaxSkew \in Nat
    /\ NonceTTL > 2 * SigWindow

VARIABLES srMsg,      \* the requests in the network: sent, and their timestamp minus the server's clock
          srNonce,    \* the nonces table: held, and the time left
          srTaken,    \* how often a request has been let through to its handler
          srContact,  \* edge_device_contact: known, and its age
          srAlive,    \* the time since the device last signed a request
          srActive    \* the state of the device

srVars == <<srMsg, srNonce, srTaken, srContact, srAlive, srActive>>

(* A device cannot be heard of later than this after it fell silent.       *)
SrLongest == ContactWindow + MaxSkew + SigWindow

SrInit ==
    /\ srMsg = [r \in Requests |-> [sent |-> FALSE, at |-> 0]]
    /\ srNonce = [r \in Requests |-> [held |-> FALSE, left |-> 0]]
    /\ srTaken = [r \in Requests |-> 0]
    /\ srContact = [known |-> FALSE, age |-> 0]
    /\ srAlive = 0
    /\ srActive = TRUE

(* doLimitedWithClient: the client signs a request with its own clock.     *)
SignRequest(r, skew) ==
    /\ ~srMsg[r].sent
    /\ srMsg' = [srMsg EXCEPT ![r] = [sent |-> TRUE, at |-> skew]]
    /\ srAlive' = 0
    /\ UNCHANGED <<srNonce, srTaken, srContact, srActive>>

InWindow(r) == srMsg[r].at >= -SigWindow /\ srMsg[r].at <= SigWindow

(* The nonces left once the expired ones are deleted.                      *)
Pruned == [r \in Requests |-> [held |-> srNonce[r].held /\ srNonce[r].left > 0,
                               left |-> srNonce[r].left]]

(* Faulty variant: a nonce is forgotten with the window of its request.    *)
RememberForWindow(r) ==
    [Pruned EXCEPT ![r] = [held |-> TRUE, left |-> SigWindow]]

Remember(r) == [Pruned EXCEPT ![r] = [held |-> TRUE, left |-> NonceTTL]]

(* Authenticate: a copy of a request arrives and is let through; the       *)
(* nonce, the pruning and the contact are one transaction.  A refusal      *)
(* rolls all three back.                                                   *)
Authenticate(r) ==
    /\ srActive
    /\ srMsg[r].sent
    /\ InWindow(r)
    /\ ~Pruned[r].held
    /\ srNonce' = Remember(r)
    /\ srTaken' = [srTaken EXCEPT ![r] = @ + 1]
    /\ srContact' = [known |-> TRUE, age |-> 0]
    /\ UNCHANGED <<srMsg, srAlive, srActive>>

Revoke ==
    /\ srActive
    /\ srActive' = FALSE
    /\ UNCHANGED <<srMsg, srNonce, srTaken, srContact, srAlive>>

SrTick ==
    /\ srMsg' = [r \in Requests |->
          [srMsg[r] EXCEPT !.at = IF srMsg[r].sent /\ @ >= -SigWindow THEN @ - 1 ELSE @]]
    /\ srNonce' = [r \in Requests |->
          [srNonce[r] EXCEPT !.left = IF @ > 0 THEN @ - 1 ELSE 0]]
    /\ srContact' = [srContact EXCEPT !.age =
          IF srContact.known /\ @ <= ContactWindow THEN @ + 1 ELSE @]
    /\ srAlive' = (IF srAlive <= SrLongest THEN srAlive + 1 ELSE srAlive)
    /\ UNCHANGED <<srTaken, srActive>>

SrNext ==
    \/ \E r \in Requests, skew \in -MaxSkew .. MaxSkew : SignRequest(r, skew)
    \/ \E r \in Requests : Authenticate(r)
    \/ Revoke
    \/ SrTick

SrSpec == SrInit /\ [][SrNext]_srVars

-----------------------------------------------------------------------------
(* DeviceConnectivity reports a recent contact.                            *)
RecentContact == srActive /\ srContact.known /\ srContact.age <= ContactWindow

SrTypeOK ==
    /\ srMsg \in [Requests -> [sent : BOOLEAN, at : Int]]
    /\ srNonce \in [Requests -> [held : BOOLEAN, left : Nat]]
    /\ srTaken \in [Requests -> Nat]
    /\ srContact \in [known : BOOLEAN, age : Nat]
    /\ srAlive \in Nat
    /\ srActive \in BOOLEAN

(* Authenticate lets no request through twice, however often and however   *)
(* late its copies arrive: the nonce outlives the window of its request.   *)
TakenOnce == \A r \in Requests : srTaken[r] <= 1

(* A device reported as recently heard of did sign a request not much      *)
(* longer ago: neither a repeated nor an overdue delivery renews the       *)
(* contact.                                                                *)
RecentMeansAlive == RecentContact => srAlive <= SrLongest
=============================================================================
