--------------------------- MODULE AccessRequests ---------------------------
(***************************************************************************)
(* Portal users asking for access to one wg-family provider instance, the   *)
(* admins who grant and revoke it, and the accounts themselves, as          *)
(* internal/api/api_access_requests.go and api_users.go run them.  Who may  *)
(* use the VPN is spread over four stores, none of which is changed         *)
(* together with another: the users and access_request tables, peer_owner,  *)
(* and the peers on the host (with peer_secrets, their private keys).       *)
(*                                                                         *)
(* One action is one provider call or one SQL statement; a read is joined   *)
(* to the step that uses it when nothing in between depends on it.  Failing *)
(* calls are bounded by MaxFaults.  The host is a set of keys here: how its *)
(* config file and its kernel agree is WgProvider's subject, disabled       *)
(* clients are PeerLifecycle's, and addresses are left out.                 *)
(***************************************************************************)
EXTENDS Naturals

CONSTANTS
  Users,      \* portal accounts (role "user")
  Keys,       \* public keys
  Handlers,   \* HTTP requests being served at once
  MaxFaults,  \* bound on calls that fail
  NoUser,     \* no such account
  NoKey       \* no key yet

ASSUME AccessAssumption ==
  /\ MaxFaults \in Nat
  /\ NoUser \notin Users /\ NoKey \notin Keys

Granting == {"approve", "grant", "link"}
Revoking == {"revoke", "disable", "delete"}
Kinds == Granting \cup Revoking \cup {"request", "deny", "drop"}

VARIABLES
  user,      \* protean.users: "on", "off" (enabled = false) or "gone"
  req,       \* protean.access_request: the status of the user's row, if any
  owner,     \* protean.peer_owner
  host,      \* the keys of the peers on the host
  secret,    \* protean.peer_secrets
  pc, job,   \* next call of each handler, and what it works on
  made,      \* keys generated so far
  faults,
  given,     \* history: the user a peer was last given to
  last,      \* history: whether access was granted or revoked last
  disturbed  \* history: users whose grants and revocations overlapped, whose
             \* peers an admin changed directly, or for whom revoking failed

tables == <<user, req, owner>>
history == <<given, last, disturbed>>
vars == <<tables, host, secret, pc, job, made, faults, history>>

\* "row": the request with the id the handler holds still exists.  Ids are never
\* used again, so a row that is deleted is gone for the handlers that read it.
NoJob == [kind |-> "deny", user |-> NoUser, row |-> FALSE, key |-> NoKey, todo |-> {}]

Init ==
  /\ user = [u \in Users |-> "on"] /\ req = [u \in Users |-> "none"]
  /\ owner = [k \in Keys |-> NoUser] /\ given = [k \in Keys |-> NoUser]
  /\ host = {} /\ secret = {}
  /\ pc = [h \in Handlers |-> "idle"] /\ job = [h \in Handlers |-> NoJob]
  /\ made = {} /\ faults = 0
  /\ disturbed = {} /\ last = [u \in Users |-> "revoked"]

-----------------------------------------------------------------------------
(* Calls *)

Goto(h, l) == pc' = [pc EXCEPT ![h] = l]
Finish(h) == Goto(h, "idle") /\ job' = [job EXCEPT ![h] = NoJob]
Then(h, l) == Goto(h, l) /\ UNCHANGED job

Fault == faults < MaxFaults /\ faults' = faults + 1
NoFault == UNCHANGED faults

\* A call of a revocation fails, which is only logged.
RevokeFault(h) == Fault /\ disturbed' = disturbed \cup {job[h].user}
NoRevokeFault == NoFault /\ UNCHANGED disturbed

\* The error return of approveRequest's callees and of linkPeerToAccessRequest.
Fail(h) == IF job[h].kind = "link" THEN Finish(h)
           ELSE Goto(h, "fallback") /\ job' = [job EXCEPT ![h].key = NoKey]

\* SetRequestStatus updates the row with that id, if there still is one.
SetStatus(h, s) == req' = [req EXCEPT ![job[h].user] = s]

\* The rows of some accounts are deleted: the jobs whose row that was.
RowsGone(us) ==
  [q \in Handlers |-> IF job[q].user \in us THEN [job[q] EXCEPT !.row = FALSE] ELSE job[q]]

InFlight(u, kinds) == {h \in Handlers : pc[h] # "idle" /\ job[h].user = u /\ job[h].kind \in kinds}
OwnedBy(u) == {k \in Keys : owner[k] = u}

-----------------------------------------------------------------------------
(* Requests arrive; each handler first reads the row it is about *)

FirstCall(kind) ==
  CASE kind \in {"request", "grant"} -> "upsert"
    [] kind \in {"approve", "link"} -> "add"
    [] kind = "disable" -> "setoff"
    [] kind \in {"revoke", "delete"} -> "list"
    [] OTHER -> kind

Begin(h, kind, u) ==
  /\ pc[h] = "idle" /\ user[u] # "gone"
  /\ kind \in {"approve", "deny", "drop", "link"} => req[u] # "none"
  /\ kind = "drop" => req[u] = "denied"
  /\ \/ (kind \in {"request", "grant"} => OwnedBy(u) = {}) /\ NoFault
     \/ kind \in {"request", "grant"} /\ Fault  \* ListOwnedPeerKeys failed: go on
  /\ Goto(h, FirstCall(kind))
  /\ job' = [job EXCEPT ![h] = [NoJob EXCEPT !.kind = kind, !.user = u,
               !.row = kind \in {"approve", "deny", "drop", "link"}]]
  /\ last' = CASE kind \in Granting -> [last EXCEPT ![u] = "granted"]
               [] kind \in Revoking -> [last EXCEPT ![u] = "revoked"]
               [] OTHER -> last
  /\ disturbed' = IF \/ kind \in Granting /\ InFlight(u, Revoking) # {}
                     \/ kind \in Revoking /\ InFlight(u, Granting) # {}
                  THEN disturbed \cup {u} ELSE disturbed
  /\ UNCHANGED <<tables, host, secret, made, given>>

\* UpsertRequest, for apiPortalRequestAccess and for a grant from the users page.
Upsert(h) ==
  LET u == job[h].user
  IN /\ pc[h] = "upsert"
     /\ \/ /\ user[u] # "gone" /\ NoFault
           /\ req' = [req EXCEPT ![u] = "pending"]
           /\ IF job[h].kind = "grant"
              THEN Goto(h, "add") /\ job' = [job EXCEPT ![h].row = TRUE]
              ELSE Finish(h)
        \/ user[u] = "gone" /\ NoFault /\ Finish(h) /\ UNCHANGED req
        \/ Fault /\ Finish(h) /\ UNCHANGED req
     /\ UNCHANGED <<user, owner, host, secret, made, history>>

-----------------------------------------------------------------------------
(* Provisioning: autoProvisionPeer, autoProvisionAndGrant, and apiCreatePeer    *)
(* with an access_request_id                                                    *)

\* Status, ListPeers and the choice of a free address, which may fail; then
\* AddPeer, which generates a key and may leave the peer behind when it fails.
Add(h) ==
  \E k \in Keys \ made :
    /\ pc[h] = "add"
    /\ \/ /\ host' = host \cup {k} /\ made' = made \cup {k}
          /\ Goto(h, "seal") /\ job' = [job EXCEPT ![h].key = k]
          /\ NoFault
       \/ /\ host' \in {host, host \cup {k}} /\ made' = made \cup host'
          /\ Fault /\ Fail(h)
    /\ UNCHANGED <<tables, secret, history>>

\* Seal and SavePeerSecret; when they fail the peer is removed again.
Seal(h) ==
  /\ pc[h] = "seal"
  /\ \/ /\ secret' = secret \cup {job[h].key} /\ NoFault
        /\ Then(h, IF job[h].kind = "link" THEN "relink" ELSE "own")
     \/ Fault /\ Then(h, "unadd") /\ UNCHANGED secret
  /\ UNCHANGED <<tables, host, made, history>>

\* Whether that RemovePeer works or not.
Unadd(h) ==
  /\ pc[h] = "unadd" /\ Fail(h)
  /\ host' \in {host, host \ {job[h].key}}
  /\ UNCHANGED <<tables, secret, made, faults, history>>

\* GetRequest of linkPeerToAccessRequest, and its tests of the row.
Relink(h) ==
  LET open == job[h].row /\ req[job[h].user] \in {"pending", "approved"}
  IN /\ pc[h] = "relink"
     /\ \/ NoFault /\ IF open THEN Then(h, "own") ELSE Finish(h)
        \/ Fault /\ Finish(h)
     /\ UNCHANGED <<tables, host, secret, made, history>>

\* SetPeerOwner: the foreign key refuses an account that is gone.
Own(h) ==
  LET u == job[h].user
      k == job[h].key
  IN /\ pc[h] = "own"
     /\ \/ /\ user[u] # "gone" /\ NoFault
           /\ owner' = [owner EXCEPT ![k] = u]
           /\ given' = [given EXCEPT ![k] = u]
           /\ Then(h, "check")
        \/ user[u] = "gone" /\ NoFault /\ Fail(h) /\ UNCHANGED <<owner, given>>
        \/ Fault /\ Fail(h) /\ UNCHANGED <<owner, given>>
     /\ UNCHANGED <<user, req, host, secret, made, last, disturbed>>

\* Mutant: a peer that AddPeer returned is taken to be there.
CheckSkipped(h) ==
  /\ pc[h] = "check" /\ Then(h, "granted")
  /\ UNCHANGED <<tables, host, secret, made, faults, history>>

\* buildPeerDownload: the peer is on the host and its private key is stored.
Check(h) ==
  /\ pc[h] = "check"
  /\ \/ NoFault /\ IF job[h].key \in host \cap secret
                   THEN Then(h, "granted") ELSE Fail(h)
     \/ Fault /\ Fail(h)
  /\ UNCHANGED <<tables, host, secret, made, history>>

\* SetRequestStatus(granted).
Granted(h) ==
  /\ pc[h] = "granted"
  /\ \/ job[h].row /\ SetStatus(h, "granted") /\ NoFault /\ Finish(h)
     \/ ~job[h].row /\ NoFault /\ Fail(h) /\ UNCHANGED req
     \/ Fault /\ Fail(h) /\ UNCHANGED req
  /\ UNCHANGED <<user, owner, host, secret, made, history>>

\* approveRequest: SetRequestStatus(approved) after an error; its own is ignored.
Fallback(h) ==
  /\ pc[h] = "fallback" /\ Finish(h)
  /\ \/ job[h].row /\ SetStatus(h, "approved") /\ NoFault
     \/ ~job[h].row /\ NoFault /\ UNCHANGED req
     \/ Fault /\ UNCHANGED req
  /\ UNCHANGED <<user, owner, host, secret, made, history>>

-----------------------------------------------------------------------------
(* The admin queue: apiAccessRequestDeny, -Delete and -ClearDenied *)

Deny(h) ==
  /\ pc[h] = "deny" /\ Finish(h)
  /\ \/ job[h].row /\ SetStatus(h, "denied") /\ NoFault
     \/ ~job[h].row /\ NoFault /\ UNCHANGED req
     \/ Fault /\ UNCHANGED req
  /\ UNCHANGED <<user, owner, host, secret, made, history>>

\* DeleteRequest: the status was checked when the row was read.
Drop(h) ==
  LET u == job[h].user
  IN /\ pc[h] = "drop"
     /\ \/ /\ job[h].row /\ NoFault
           /\ req' = [req EXCEPT ![u] = "none"]
           /\ Goto(h, "idle") /\ job' = [RowsGone({u}) EXCEPT ![h] = NoJob]
        \/ ~job[h].row /\ NoFault /\ Finish(h) /\ UNCHANGED req
        \/ Fault /\ Finish(h) /\ UNCHANGED req
     /\ UNCHANGED <<user, owner, host, secret, made, history>>

\* One statement; the retention worker runs it too, for old rows only.
ClearDenied ==
  LET denied == {u \in Users : req[u] = "denied"}
  IN /\ req' = [u \in Users |-> IF u \in denied THEN "none" ELSE req[u]]
     /\ job' = RowsGone(denied)
     /\ UNCHANGED <<user, owner, host, secret, pc, made, faults, history>>

-----------------------------------------------------------------------------
(* Revocation: revokeUserProviderAccess, apiUsersSetEnabled(false) and           *)
(* apiUsersDelete                                                               *)

\* What follows the loop over the owned peers.
AfterPeers(h) == IF job[h].kind = "delete" THEN "deluser" ELSE "denyall"

\* UpdateUserEnabled(false).
SetOff(h) ==
  LET u == job[h].user
  IN /\ pc[h] = "setoff"
     /\ \/ /\ user[u] # "gone" /\ NoRevokeFault
           /\ user' = [user EXCEPT ![u] = "off"] /\ Then(h, "list")
        \/ user[u] = "gone" /\ NoRevokeFault /\ Finish(h) /\ UNCHANGED user
        \/ RevokeFault(h) /\ Finish(h) /\ UNCHANGED user
     /\ UNCHANGED <<req, owner, host, secret, made, given, last>>

\* Mutant: a user has one peer, so only the first row is read.
ListFirst(h) ==
  LET owned == OwnedBy(job[h].user)
  IN /\ pc[h] = "list"
     /\ IF owned = {} THEN Then(h, AfterPeers(h))
        ELSE \E k \in owned : Goto(h, "remove") /\ job' = [job EXCEPT ![h].todo = {k}]
     /\ UNCHANGED <<tables, host, secret, made, faults, history>>

\* ListOwnedPeerKeys.
List(h) ==
  LET owned == OwnedBy(job[h].user)
  IN /\ pc[h] = "list"
     /\ \/ /\ NoRevokeFault
           /\ Goto(h, IF owned = {} THEN AfterPeers(h) ELSE "remove")
           /\ job' = [job EXCEPT ![h].todo = owned]
        \/ RevokeFault(h) /\ Then(h, AfterPeers(h))
     /\ UNCHANGED <<tables, host, secret, made, given, last>>

\* RemovePeer of the next owned peer; an error, "not found" among them, is logged.
Remove(h) ==
  \E k \in job[h].todo :
    /\ pc[h] = "remove"
    /\ Goto(h, "clear") /\ job' = [job EXCEPT ![h].key = k]
    /\ \/ host' = host \ {k} /\ NoRevokeFault
       \/ RevokeFault(h) /\ UNCHANGED host
    /\ UNCHANGED <<tables, secret, made, given, last>>

\* ClearPeerOwner of that peer.
Clear(h) ==
  LET k == job[h].key
      left == job[h].todo \ {k}
  IN /\ pc[h] = "clear"
     /\ Goto(h, IF left = {} THEN AfterPeers(h) ELSE "remove")
     /\ job' = [job EXCEPT ![h].todo = left, ![h].key = NoKey]
     /\ \/ owner' = [owner EXCEPT ![k] = NoUser] /\ NoRevokeFault
        \/ RevokeFault(h) /\ UNCHANGED owner
     /\ UNCHANGED <<user, req, host, secret, made, given, last>>

\* ListRequestsForUser and SetRequestStatus(denied): the end of
\* revokeUserProviderAccess, and denyUserRequests.
DenyAll(h) ==
  LET u == job[h].user
  IN /\ pc[h] = "denyall" /\ Finish(h)
     /\ \/ req' = (IF req[u] = "none" THEN req ELSE [req EXCEPT ![u] = "denied"]) /\ NoRevokeFault
        \/ RevokeFault(h) /\ UNCHANGED req
     /\ UNCHANGED <<user, owner, host, secret, made, given, last>>

\* DeleteUser, which takes the rows of the account along (ON DELETE CASCADE).
DeleteUser(h) ==
  LET u == job[h].user
  IN /\ pc[h] = "deluser"
     /\ \/ /\ user' = [user EXCEPT ![u] = "gone"]
           /\ req' = [req EXCEPT ![u] = "none"]
           /\ owner' = [k \in Keys |-> IF owner[k] = u THEN NoUser ELSE owner[k]]
           /\ Goto(h, "idle") /\ job' = [RowsGone({u}) EXCEPT ![h] = NoJob]
           /\ NoRevokeFault
        \/ RevokeFault(h) /\ Finish(h) /\ UNCHANGED <<user, req, owner>>
     /\ UNCHANGED <<host, secret, made, given, last>>

-----------------------------------------------------------------------------
(* Operations of one statement, or whose steps other modules take apart *)

\* apiUsersSetEnabled(true).
EnableUser(u) ==
  /\ user[u] = "off"
  /\ user' = [user EXCEPT ![u] = "on"]
  /\ UNCHANGED <<req, owner, host, secret, pc, job, made, faults, history>>

\* apiPeerSetOwner, for a peer of the page: to an account, or to nobody.
SetOwner(k, u) ==
  /\ k \in host /\ u # owner[k]
  /\ u # NoUser => user[u] # "gone"
  /\ owner' = [owner EXCEPT ![k] = u]
  /\ given' = [given EXCEPT ![k] = u]
  /\ last' = IF u = NoUser THEN last ELSE [last EXCEPT ![u] = "granted"]
  /\ disturbed' = LET busy == {h \in Handlers : job[h].key = k \/ k \in job[h].todo}
                      new == IF busy # {} \/ InFlight(u, Revoking) # {} THEN {u} ELSE {}
                  IN disturbed \cup (({given[k]} \cup {job[h].user : h \in busy} \cup new) \ {NoUser})
  /\ UNCHANGED <<user, req, host, secret, pc, job, made, faults>>

\* apiDeletePeer: peer_owner keeps its row.
DeletePeer(k) ==
  /\ k \in host
  /\ host' = host \ {k} /\ secret' = secret \ {k}
  /\ disturbed' = disturbed \cup ({given[k]} \ {NoUser})
  /\ UNCHANGED <<tables, pc, job, made, faults, given, last>>

\* apiRotatePeer: the peer moves to a new key; peer_owner keeps the old one.
RotatePeer(k, n) ==
  /\ k \in host /\ n \notin made
  /\ host' = (host \ {k}) \cup {n}
  /\ secret' = (secret \ {k}) \cup {n}
  /\ made' = made \cup {n}
  /\ given' = [given EXCEPT ![n] = given[k]]
  /\ disturbed' = disturbed \cup ({given[k]} \ {NoUser})
  /\ UNCHANGED <<tables, pc, job, faults, last>>

Step(h) ==
  \/ Upsert(h) \/ Add(h) \/ Seal(h) \/ Unadd(h) \/ Relink(h) \/ Own(h)
  \/ Check(h) \/ Granted(h) \/ Fallback(h) \/ Deny(h) \/ Drop(h)
  \/ SetOff(h) \/ List(h) \/ Remove(h) \/ Clear(h) \/ DenyAll(h) \/ DeleteUser(h)

Next ==
  \/ \E h \in Handlers, kind \in Kinds, u \in Users : Begin(h, kind, u)
  \/ \E h \in Handlers : Step(h)
  \/ ClearDenied
  \/ \E u \in Users : EnableUser(u)
  \/ \E k \in Keys, u \in Users \cup {NoUser} : SetOwner(k, u)
  \/ \E k \in Keys : DeletePeer(k)
  \/ \E k \in Keys, n \in Keys : RotatePeer(k, n)

Spec == Init /\ [][Next]_vars

-----------------------------------------------------------------------------
(* Properties *)

Settled(u) == InFlight(u, Granting \cup Revoking) = {}

\* An account whose access was revoked last (the toggle of the users page, a
\* disabled or a deleted account) has no peer on the host, once the handlers
\* are done.
RevokedOff ==
  \A u \in Users : last[u] = "revoked" /\ Settled(u) /\ faults = 0
                     => \A k \in Keys : given[k] = u => k \notin host

\* The same while no revocation's call failed or overlapped a grant and no admin
\* changed the account's peers directly, whatever else fails or overlaps:
\* requests, denials, two approvals of one request, other accounts.
RevokedOffUndisturbed ==
  \A u \in Users \ disturbed : last[u] = "revoked" /\ Settled(u)
                     => \A k \in Keys : given[k] = u => k \notin host

\* A request that the portal shows as granted has a peer that works: assigned to
\* the account, on the host, and with a private key to build its config from.
\* Failing calls of the provisioning never break this.
GrantedWorks ==
  \A u \in Users \ disturbed : req[u] = "granted" /\ InFlight(u, Revoking) = {}
     => OwnedBy(u) \cap host \cap secret # {}
=============================================================================
