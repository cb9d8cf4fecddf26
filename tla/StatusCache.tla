---------------------------- MODULE StatusCache -----------------------------
(***************************************************************************)
(* statusCache: the status and the peer list of one provider, each kept    *)
(* for a TTL, misses collapsed by singleflight, both dropped by            *)
(* invalidate after a change.  What a read returns is the version of the   *)
(* host it saw; time is a clock that a read may overlap.                   *)
(***************************************************************************)
EXTENDS Naturals

CONSTANTS TTL,        \* statusTTL, peersTTL
          MaxRead,    \* the longest a read of the host takes (SSH timeout)
          MaxClock,   \* bound: end of time
          MaxChange   \* bound: changes of the host

Cache == {"status", "peers"}
Missing == [val |-> 0, expires |-> 0, read |-> 0, crossed |-> FALSE]
NoFlight == [at |-> "none", val |-> 0, start |-> 0, read |-> 0, gen |-> 0]

ASSUME TTLAssumption == TTL \in Nat \ {0}
ASSUME MaxReadAssumption == MaxRead \in Nat

VARIABLES
    now,
    hostVer,     \* version of what the host would answer
    pending,     \* a handler has changed the host and not yet called invalidate
    entry,       \* c.status, c.peers
    flight,      \* the singleflight call of each
    cleared      \* history: the invalidates so far, and the version at the last

cacheVars == <<now, hostVer, pending, entry, flight, cleared>>

CacheInit ==
    /\ now = 0 /\ hostVer = 1 /\ pending = FALSE
    /\ entry = [c \in Cache |-> Missing]
    /\ flight = [c \in Cache |-> NoFlight]
    /\ cleared = [val |-> 1, gen |-> 0]

\* An entry that get and getPeers answer with, and no longer once it expired.
FreshForever(c) == entry[c].val # 0
Fresh(c) == entry[c].val # 0 /\ now < entry[c].expires

\* A miss joins the flight that is under way or starts one.
GetMiss(c) ==
    /\ ~Fresh(c) /\ flight[c].at = "none"
    /\ flight' = [flight EXCEPT ![c] = [NoFlight EXCEPT !.at = "read", !.start = now,
                                            !.gen = cleared.gen]]
    /\ UNCHANGED <<now, hostVer, pending, entry, cleared>>

\* prov.Status, prov.ListPeers over SSH: what the host says at some moment of it.
ReadHost(c) ==
    /\ flight[c].at = "read"
    /\ flight' = [flight EXCEPT ![c] = [@ EXCEPT !.at = "store", !.val = hostVer, !.read = now]]
    /\ UNCHANGED <<now, hostVer, pending, entry, cleared>>

\* The entry expires a TTL after the answer came.
StoreEntry(c) ==
    /\ flight[c].at = "store"
    /\ entry' = [entry EXCEPT ![c] =
         [val |-> flight[c].val, expires |-> now + TTL, read |-> flight[c].read,
          crossed |-> flight[c].gen # cleared.gen]]
    /\ flight' = [flight EXCEPT ![c] = NoFlight]
    /\ UNCHANGED <<now, hostVer, pending, cleared>>

\* A handler changes the host, and afterwards calls invalidateStatus.
ChangeHost ==
    /\ ~pending /\ hostVer <= MaxChange
    /\ hostVer' = hostVer + 1 /\ pending' = TRUE
    /\ UNCHANGED <<now, entry, flight, cleared>>

InvalidateStatusOnly ==
    /\ pending /\ pending' = FALSE
    /\ entry' = [entry EXCEPT !["status"] = Missing]
    /\ cleared' = [val |-> hostVer, gen |-> cleared.gen + 1]
    /\ UNCHANGED <<now, hostVer, flight>>
Invalidate ==
    /\ pending /\ pending' = FALSE
    /\ entry' = [c \in Cache |-> Missing]
    /\ cleared' = [val |-> hostVer, gen |-> cleared.gen + 1]
    /\ UNCHANGED <<now, hostVer, flight>>

\* A read that would outlast the SSH timeout has ended before.
Tick ==
    /\ now < MaxClock
    /\ \A c \in Cache : flight[c].at # "none" => now < flight[c].start + MaxRead
    /\ now' = now + 1
    /\ UNCHANGED <<hostVer, pending, entry, flight, cleared>>

CacheNext ==
    \/ \E c \in Cache : GetMiss(c) \/ ReadHost(c) \/ StoreEntry(c)
    \/ ChangeHost \/ Invalidate \/ Tick

CacheSpec == CacheInit /\ [][CacheNext]_cacheVars

-----------------------------------------------------------------------------
(* Properties *)

\* After invalidate the cache shows the change, with one exception: a read that
\* had begun before invalidate was called stored its result after it.
ShownAfterInvalidate ==
    \A c \in Cache : Fresh(c) /\ entry[c].val < cleared.val => entry[c].crossed

\* Whatever races, an answer is never older than the TTL and the longest read:
\* it was read from the host within that time of being given.
ServedRecent == \A c \in Cache : Fresh(c) => now <= entry[c].read + TTL + MaxRead

=============================================================================
