----------------------------- MODULE ConsoleHub -----------------------------
(***************************************************************************)
(* The web console's tickets and caps (internal/console/hub.go) and the    *)
(* upgrade request that redeems a ticket, opens a shell and gives its slot *)
(* back on whichever way it ends (serveConsoleBridge).  What happens       *)
(* while Bridge.Run runs is the module Bridge.                             *)
(*                                                                         *)
(* An expired ticket is refused by Consume and deleted by the next sweep:  *)
(* here it is gone as it expires.  Between Mint's two critical sections    *)
(* nothing depends on it, so it is one step.                               *)
(***************************************************************************)
EXTENDS Naturals, FiniteSets

CONSTANTS User, Ticket,
          Upgrade,               \* upgrade requests served at the same time
          MaxPerUser, MaxTotal,  \* 0 disables the cap
          NoUser

ASSUME HubAssumption ==
    /\ NoUser \notin User /\ MaxPerUser \in Nat /\ MaxTotal \in Nat
    /\ IsFiniteSet(Upgrade)

VARIABLES
    tickets,  \* for whom a ticket was minted, NoUser where there is none
    byUser, total,
    server,   \* "enabled", "panel" (the panel's own host) or "disabled"
    up        \* upgrade requests

hubVars == <<tickets, byUser, total, server, up>>

NoUpgrade == [pc |-> "idle", user |-> NoUser, client |-> FALSE, shell |-> FALSE]

HubInit ==
    /\ tickets = [t \in Ticket |-> NoUser]
    /\ byUser = [u \in User |-> 0] /\ total = 0
    /\ server = "enabled"
    /\ up = [q \in Upgrade |-> NoUpgrade]

checkCapacityLocked(u) ==
    /\ MaxPerUser > 0 => byUser[u] < MaxPerUser
    /\ MaxTotal > 0 => total < MaxTotal

-----------------------------------------------------------------------------
(* Tickets *)

\* apiConsoleSessionCreate: the server must be enabled or the panel's own host.
ConsoleTarget == server # "disabled"
\* The caps must leave room, but nothing is reserved.
Mint(u, t) ==
    /\ ConsoleTarget /\ checkCapacityLocked(u)
    /\ tickets[t] = NoUser /\ tickets' = [tickets EXCEPT ![t] = u]
    /\ UNCHANGED <<byUser, total, server, up>>
TicketExpires(t) ==
    /\ tickets[t] # NoUser /\ tickets' = [tickets EXCEPT ![t] = NoUser]
    /\ UNCHANGED <<byUser, total, server, up>>
Consume(q, t) ==
    /\ up[q].pc = "idle" /\ tickets[t] # NoUser
    /\ tickets' = [tickets EXCEPT ![t] = NoUser]
    /\ up' = [up EXCEPT ![q] = [NoUpgrade EXCEPT !.pc = "acquire", !.user = tickets[t]]]
    /\ UNCHANGED <<byUser, total, server>>

\* An admin enables, disables or flags the server while tickets are out.
ServerSet(e) ==
    /\ server # e /\ server' = e
    /\ UNCHANGED <<tickets, byUser, total, up>>

-----------------------------------------------------------------------------
(* The upgrade *)

UpGoto(q, pc) == up' = [up EXCEPT ![q].pc = pc]

\* The cap is enforced here, when a session starts.
Acquire(q) ==
    /\ up[q].pc = "acquire" /\ checkCapacityLocked(up[q].user)
    /\ UpGoto(q, "client")
    /\ byUser' = [byUser EXCEPT ![up[q].user] = @ + 1] /\ total' = total + 1
    /\ UNCHANGED <<tickets, server>>
AcquireRefused(q) ==
    /\ up[q].pc = "acquire" /\ ~checkCapacityLocked(up[q].user)
    /\ up' = [up EXCEPT ![q] = NoUpgrade]
    /\ UNCHANGED <<tickets, byUser, total, server>>

\* release, which sync.Once runs once, and the end of the request.
Release(q) ==
    /\ byUser' = [byUser EXCEPT ![up[q].user] = @ - 1] /\ total' = total - 1
    /\ up' = [up EXCEPT ![q] = NoUpgrade]
    /\ UNCHANGED <<tickets, server>>

\* ConsoleClient: the pooled connection, or one of this session's own.
ConsoleClient(q, own) ==
    /\ up[q].pc = "client"
    /\ up' = [up EXCEPT ![q].pc = "start", ![q].client = own]
    /\ UNCHANGED <<tickets, byUser, total, server>>
ConsoleClientFails(q) == up[q].pc = "client" /\ Release(q)
\* The shell, or the one command of updates-ws.
StartSession(q) ==
    /\ up[q].pc = "start"
    /\ up' = [up EXCEPT ![q].pc = "accept", ![q].shell = TRUE]
    /\ UNCHANGED <<tickets, byUser, total, server>>
CloseAndForget(q) ==
    /\ up[q].pc = "start" /\ up' = [up EXCEPT ![q] = NoUpgrade]
    /\ UNCHANGED <<tickets, byUser, total, server>>
StartSessionFails(q) == up[q].pc = "start" /\ Release(q)
AcceptSocket(q) ==
    /\ up[q].pc = "accept" /\ UpGoto(q, "run")
    /\ UNCHANGED <<tickets, byUser, total, server>>
AcceptSocketFails(q) == up[q].pc = "accept" /\ Release(q)
\* Bridge.Run has closed the shell and the client.
BridgeReturns(q) == up[q].pc = "run" /\ Release(q)

HubNext ==
    \/ \E u \in User, t \in Ticket : Mint(u, t)
    \/ \E t \in Ticket : TicketExpires(t)
    \/ \E e \in {"enabled", "panel", "disabled"} : ServerSet(e)
    \/ \E q \in Upgrade :
         \/ \E t \in Ticket : Consume(q, t)
         \/ Acquire(q) \/ AcquireRefused(q)
         \/ (\E own \in BOOLEAN : ConsoleClient(q, own)) \/ ConsoleClientFails(q)
         \/ StartSession(q) \/ StartSessionFails(q)
         \/ AcceptSocket(q) \/ AcceptSocketFails(q) \/ BridgeReturns(q)

HubSpec == HubInit /\ [][HubNext]_hubVars

-----------------------------------------------------------------------------
(* Properties *)

HasSlot(q) == up[q].pc \in {"client", "start", "accept", "run"}

\* Whatever way the upgrades end, the counters of the hub are the sessions that
\* hold a slot, so the caps neither leak nor drift, and no more than they allow
\* run at a time although tickets are minted beyond them.
SlotsCounted ==
    /\ total = Cardinality({q \in Upgrade : HasSlot(q)})
    /\ \A u \in User : byUser[u] = Cardinality({q \in Upgrade : HasSlot(q) /\ up[q].user = u})
    /\ MaxTotal > 0 => total <= MaxTotal
    /\ MaxPerUser > 0 => \A u \in User : byUser[u] <= MaxPerUser

=============================================================================
