---------------------------- MODULE HostsProofs -----------------------------
(***************************************************************************)
(* Proofs about what the panel holds of its hosts: the status cache, the   *)
(* registry of providers and the Xray instance, each from an inductive     *)
(* invariant of its own, for any number of servers, requests and clients.  *)
(*                                                                         *)
(* StatusCache: a read's number says whether an invalidate came after its  *)
(* beginning.  Servers: the manager's mutex makes every swap of providers  *)
(* whole, and what a lone request has still to do explains where registry  *)
(* and rows differ.  Xray: a request that nothing disturbed has read what  *)
(* the rows still hold.                                                    *)
(***************************************************************************)
EXTENDS Servers, StatusCache, Xray, SequenceTheorems, TLAPS

-----------------------------------------------------------------------------
(* StatusCache *)

Entry == [val : Nat, expires : Nat, read : Nat, crossed : BOOLEAN]
Flight == [at : {"none", "read", "store"}, val : Nat, start : Nat, read : Nat, gen : Nat]

CacheTypes ==
  /\ now \in Nat /\ hostVer \in Nat /\ pending \in BOOLEAN
  /\ entry \in [Cache -> Entry] /\ flight \in [Cache -> Flight]
  /\ cleared \in [val : Nat, gen : Nat]

\* An invalidate gives every flight that is under way an older number than its own.
FlightsNumbered == \A c \in Cache : flight[c].gen <= cleared.gen

\* What was read since the last invalidate shows at least the change before it.
ReadShows ==
  /\ cleared.val <= hostVer
  /\ \A c \in Cache :
       /\ flight[c].at = "store" /\ flight[c].gen = cleared.gen => cleared.val <= flight[c].val
       /\ entry[c].val # 0 /\ ~entry[c].crossed => cleared.val <= entry[c].val

\* A read ends within its timeout, and an entry lives for a TTL from then on.
ReadTimed ==
  \A c \in Cache :
    /\ flight[c].at # "none" => now <= flight[c].start + MaxRead
    /\ flight[c].at = "store" => flight[c].start <= flight[c].read /\ flight[c].read <= now
    /\ flight[c].at = "read" => flight[c].start <= now
    /\ entry[c].val # 0 => entry[c].expires <= entry[c].read + MaxRead + TTL

CacheInv == CacheTypes /\ FlightsNumbered /\ ReadShows /\ ReadTimed

\* The cache starts empty.
LEMMA CacheInitInv == CacheInit => CacheInv
<1> SUFFICES ASSUME CacheInit PROVE CacheInv
  OBVIOUS
<1>1. CacheTypes
  BY DEF CacheInit, CacheTypes, Entry, Flight, Missing, NoFlight
<1>2. FlightsNumbered /\ ReadShows /\ ReadTimed
  BY DEF CacheInit, FlightsNumbered, ReadShows, ReadTimed, Missing, NoFlight
<1> QED
  BY <1>1, <1>2 DEF CacheInv

\* A miss starts a flight.
LEMMA GetMissInv ==
  ASSUME CacheInv, NEW c \in Cache, GetMiss(c)
  PROVE  CacheInv'
<1> USE TTLAssumption, MaxReadAssumption DEF CacheInv, CacheTypes, Entry, Flight, GetMiss, NoFlight
<1>1. CacheTypes'
  OBVIOUS
<1>2. FlightsNumbered'
  BY DEF FlightsNumbered
<1>3. ReadShows'
  BY DEF ReadShows
<1>4. ReadTimed'
  BY DEF ReadTimed
<1> QED
  BY <1>1, <1>2, <1>3, <1>4

\* The host answers it.
LEMMA ReadHostInv ==
  ASSUME CacheInv, NEW c \in Cache, ReadHost(c)
  PROVE  CacheInv'
<1> USE TTLAssumption, MaxReadAssumption DEF CacheInv, CacheTypes, Entry, Flight, ReadHost
<1>1. CacheTypes'
  <2>1. [flight[c] EXCEPT !.at = "store", !.val = hostVer, !.read = now] \in Flight
    OBVIOUS
  <2> QED
    BY <2>1
<1>2. FlightsNumbered'
  BY DEF FlightsNumbered
<1>3. ReadShows'
  BY DEF ReadShows
<1>4. ReadTimed'
  BY DEF ReadTimed
<1> QED
  BY <1>1, <1>2, <1>3, <1>4

\* The answer is stored, the flight is over.
LEMMA StoreEntryInv ==
  ASSUME CacheInv, NEW c \in Cache, StoreEntry(c)
  PROVE  CacheInv'
<1> USE TTLAssumption, MaxReadAssumption DEF CacheInv, CacheTypes, Entry, Flight, StoreEntry, NoFlight
<1>1. CacheTypes'
  OBVIOUS
<1>2. FlightsNumbered'
  BY DEF FlightsNumbered
<1>3. ReadShows'
  BY DEF ReadShows
<1>4. ReadTimed'
  BY DEF ReadTimed
<1> QED
  BY <1>1, <1>2, <1>3, <1>4

\* invalidate drops both entries.
LEMMA InvalidateInv ==
  ASSUME CacheInv, Invalidate
  PROVE  CacheInv'
<1> USE DEF CacheInv, CacheTypes, Entry, Flight, Invalidate, Missing
<1>1. CacheTypes'
  <2>1. entry' \in [Cache -> Entry] /\ cleared' \in [val : Nat, gen : Nat]
    OBVIOUS
  <2> QED
    BY <2>1
<1>2. FlightsNumbered'
  BY DEF FlightsNumbered
<1>3. ReadShows'
  BY DEF ReadShows, FlightsNumbered
<1>4. ReadTimed'
  BY TTLAssumption, MaxReadAssumption DEF ReadTimed
<1> QED
  BY <1>1, <1>2, <1>3, <1>4

\* Every step of the cache, of the host and of the clock.
LEMMA CacheStepInv == CacheInv /\ [CacheNext]_cacheVars => CacheInv'
<1> SUFFICES ASSUME CacheInv, [CacheNext]_cacheVars PROVE CacheInv'
  OBVIOUS
<1>1. CASE ChangeHost
  BY <1>1 DEF ChangeHost, CacheInv, CacheTypes, FlightsNumbered, ReadShows, ReadTimed, Entry, Flight
<1>2. CASE Tick
  BY <1>2, MaxReadAssumption
  DEF Tick, CacheInv, CacheTypes, FlightsNumbered, ReadShows, ReadTimed, Entry, Flight
<1>3. CASE UNCHANGED cacheVars
  BY <1>3 DEF cacheVars, CacheInv, CacheTypes, FlightsNumbered, ReadShows, ReadTimed
<1> QED
  BY <1>1, <1>2, <1>3, GetMissInv, ReadHostInv, StoreEntryInv, InvalidateInv DEF CacheNext

\* statusCache.invalidate: a fresh entry older than the change it announced comes
\* from a read that had begun before the call, for every TTL and every change.
THEOREM CacheShows == CacheSpec => []ShownAfterInvalidate
<1>1. CacheInv => ShownAfterInvalidate
  BY DEF CacheInv, CacheTypes, ReadShows, ShownAfterInvalidate, Fresh, Entry
<1> QED
  BY <1>1, CacheInitInv, CacheStepInv, PTL DEF CacheSpec

\* statusCache.get never answers with what was read from the host longer ago than
\* the TTL and the longest read, for every TTL.
THEOREM CacheRecent == CacheSpec => []ServedRecent
<1>1. CacheInv => ServedRecent
  BY TTLAssumption, MaxReadAssumption
  DEF CacheInv, CacheTypes, ReadTimed, ServedRecent, Fresh, Entry
<1> QED
  BY <1>1, CacheInitInv, CacheStepInv, PTL DEF CacheSpec

-----------------------------------------------------------------------------
(* Servers *)

PanelOps == {"panel", "unpanel"}

\* What may be left of a handler's program: of one that only moves the panel's
\* flag, and of one that ends in a rebuild or a removal.
PanelRest == {<<>>, <<"exists", "panelHost">>, <<"panelHost">>, <<"clearPanel">>}
RebuildRest ==
  {<<>>, <<"swap">>, <<"build", "swap">>, <<"get", "build", "swap">>,
   <<"bootstrap", "insert", "get", "build", "swap">>, <<"insert", "get", "build", "swap">>,
   <<"exists", "update", "get", "build", "swap">>, <<"update", "get", "build", "swap">>,
   <<"enable", "get", "build", "swap">>,
   <<"exists", "validate", "insertInst", "get", "build", "swap">>,
   <<"validate", "insertInst", "get", "build", "swap">>, <<"insertInst", "get", "build", "swap">>,
   <<"deleteInst", "get", "build", "swap">>, <<"patchInst", "get", "build", "swap">>,
   <<"disable", "remove">>, <<"wipe", "deleteRow", "remove">>, <<"deleteRow", "remove">>,
   <<"remove">>}

InstName == Instance \cup {""}
SrvRow == [exists : BOOLEAN, enabled : BOOLEAN, panel : BOOLEAN, ver : Nat]
SrvReq == [op : HostOps \cup InstOps \cup {"none"}, h : Host \cup {DefaultHost},
           i : InstName, rest : PanelRest \cup RebuildRest, ver : Nat,
           insts : SUBSET InstName, alone : BOOLEAN]

SrvTypes ==
  /\ srv \in [Host -> SrvRow] /\ inst \in [Host -> SUBSET InstName]
  /\ pool \in [Host -> Nat] /\ names \in [Host -> SUBSET InstName]
  /\ sreq \in [SrvProc -> SrvReq]
  /\ mixed \subseteq Host

\* A request is about a server, and runs the program of its handler.
Programmed ==
  \A q \in SrvProc :
    /\ sreq[q].op = "none" => sreq[q].rest = <<>>
    /\ sreq[q].op # "none" => sreq[q].h \in Host
    /\ sreq[q].op \in PanelOps => sreq[q].rest \in PanelRest
    /\ sreq[q].op \notin PanelOps => sreq[q].rest \in RebuildRest

\* The registry, as the manager's maps describe it.
Exact == \A e : e \in registry <=> \E h \in Host : \E i \in names[h] : e = <<h, i, pool[h]>>

Agree(h) ==
  IF Live(h) THEN pool[h] = srv[h].ver /\ names[h] = inst[h]
             ELSE pool[h] = 0 /\ names[h] = {}

\* What a request that nothing has overlapped holds of the rows is what they are.
Knows(q) ==
  LET h == sreq[q].h IN
  /\ sreq[q].op \in PanelOps /\ h \notin mixed => Agree(h)
  /\ sreq[q].op \notin PanelOps =>
       /\ sreq[q].rest = <<>> => Agree(h)
       /\ SrvHead(q) = "swap" => Live(h) /\ sreq[q].ver = srv[h].ver /\ sreq[q].insts = inst[h]
       /\ SrvHead(q) = "build" => Live(h) /\ sreq[q].ver = srv[h].ver
       /\ SrvHead(q) = "remove" => ~Live(h)

\* And it is the only one on its server.
AloneKnows ==
  \A q \in SrvProc : sreq[q].op # "none" /\ sreq[q].alone =>
    /\ \A p \in SrvProc \ {q} : sreq[p].op # "none" => sreq[p].h # sreq[q].h
    /\ Knows(q)

SrvInv == SrvTypes /\ Programmed /\ Exact /\ AloneKnows /\ Settled

\* The first statement of a program, "none" when it has ended.
First(s) == IF s = <<>> THEN "none" ELSE Head(s)

\* What follows a statement of a handler that rebuilds or removes.
RebuildTail(s) ==
  /\ Tail(s) \in RebuildRest
  /\ Head(s) \in {"swap", "remove"} <=> Tail(s) = <<>>
  /\ First(Tail(s)) = "swap" => Head(s) = "build"
  /\ First(Tail(s)) = "build" => Head(s) = "get"
  /\ First(Tail(s)) = "remove" => Head(s) \in {"disable", "deleteRow"}
  /\ Head(s) \notin {"none", "panelHost", "clearPanel"}

\* Concatenation of the statements before a rebuild.
LEMMA BeforeRebuild ==
  ASSUME NEW a, NEW b, NEW c
  PROVE  /\ <<a>> \o Rebuild = <<a, "get", "build", "swap">>
         /\ <<a, b>> \o Rebuild = <<a, b, "get", "build", "swap">>
         /\ <<a, b, c>> \o Rebuild = <<a, b, c, "get", "build", "swap">>
<1> DEFINE S == {a, b, c, "get", "build", "swap"}
           r1 == <<a, "get", "build", "swap">>
           r2 == <<a, b, "get", "build", "swap">>
           r3 == <<a, b, c, "get", "build", "swap">>
<1>1. /\ <<a>> \in Seq(S) /\ <<a, b>> \in Seq(S) /\ <<a, b, c>> \in Seq(S)
      /\ Rebuild \in Seq(S)
  BY DEF Rebuild
<1>2. r1 \in Seq(S) /\ r2 \in Seq(S) /\ r3 \in Seq(S)
  OBVIOUS
<1>3. /\ <<a>> \o Rebuild \in Seq(S) /\ <<a, b>> \o Rebuild \in Seq(S)
      /\ <<a, b, c>> \o Rebuild \in Seq(S)
  BY <1>1, ConcatProperties
<1>4. /\ Len(<<a>> \o Rebuild) = 4 /\ Len(<<a, b>> \o Rebuild) = 5
      /\ Len(<<a, b, c>> \o Rebuild) = 6
  BY <1>1, ConcatProperties DEF Rebuild
<1>5. <<a>> \o Rebuild = r1
  <2>1. \A i \in 1..4 : (<<a>> \o Rebuild)[i] = r1[i]
    BY DEF Rebuild
  <2> QED
    BY <1>2, <1>3, <1>4, <2>1, SeqEqual
<1>6. <<a, b>> \o Rebuild = r2
  <2>1. \A i \in 1..5 : (<<a, b>> \o Rebuild)[i] = r2[i]
    BY DEF Rebuild
  <2> QED
    BY <1>2, <1>3, <1>4, <2>1, SeqEqual
<1>7. <<a, b, c>> \o Rebuild = r3
  <2>1. \A i \in 1..6 : (<<a, b, c>> \o Rebuild)[i] = r3[i]
    BY DEF Rebuild
  <2> QED
    BY <1>2, <1>3, <1>4, <2>1, SeqEqual
<1> QED
  BY <1>5, <1>6, <1>7

\* Every handler's program is one of those listed, and starts before its rebuild.
LEMMA HandlerProgram ==
  ASSUME NEW op \in HostOps \cup InstOps
  PROVE  /\ op \in PanelOps => Handler(op) \in PanelRest
         /\ op \notin PanelOps => Handler(op) \in RebuildRest
         /\ First(Handler(op)) \notin {"none", "swap", "build", "remove"}
<1>a. /\ apiServersCreate = <<"bootstrap", "insert", "get", "build", "swap">>
      /\ apiServersUpdate = <<"exists", "update", "get", "build", "swap">>
      /\ apiServersEnable = <<"enable", "get", "build", "swap">>
      /\ apiServerInstancesCreate = <<"exists", "validate", "insertInst", "get", "build", "swap">>
      /\ apiServerInstancesDelete = <<"deleteInst", "get", "build", "swap">>
      /\ updateOpenVPNMTU = <<"patchInst", "get", "build", "swap">>
  <2> HIDE DEF Rebuild
  <2> QED
    BY BeforeRebuild, Zenon
    DEF apiServersCreate, apiServersUpdate, apiServersEnable, apiServerInstancesCreate,
        apiServerInstancesDelete, updateOpenVPNMTU
<1>1. CASE op = "create"
  BY <1>1, <1>a DEF Handler, RebuildRest, PanelOps, First
<1>2. CASE op = "update"
  BY <1>2, <1>a DEF Handler, RebuildRest, PanelOps, First
<1>3. CASE op = "enable"
  BY <1>3, <1>a DEF Handler, RebuildRest, PanelOps, First
<1>4. CASE op = "disable"
  BY <1>4 DEF Handler, apiServersDisable, RebuildRest, PanelOps, First
<1>5. CASE op = "delete"
  BY <1>5 DEF Handler, apiServersDelete, RebuildRest, PanelOps, First
<1>6. CASE op = "panel"
  BY <1>6 DEF Handler, apiConsolePanelHostSet, PanelRest, PanelOps, First
<1>7. CASE op = "unpanel"
  BY <1>7 DEF Handler, apiConsolePanelHostClear, PanelRest, PanelOps, First
<1>8. CASE op = "addInst"
  BY <1>8, <1>a DEF Handler, RebuildRest, PanelOps, First
<1>9. CASE op = "delInst"
  BY <1>9, <1>a DEF Handler, RebuildRest, PanelOps, First
<1>10. CASE op = "mtu"
  BY <1>10, <1>a DEF Handler, RebuildRest, PanelOps, First
<1> QED
  BY <1>1, <1>2, <1>3, <1>4, <1>5, <1>6, <1>7, <1>8, <1>9, <1>10 DEF HostOps, InstOps

\* Statement by statement.
LEMMA RebuildRestTail ==
  ASSUME NEW s \in RebuildRest, s # <<>>
  PROVE  RebuildTail(s)
<1>1. CASE s = <<"swap">>
  BY <1>1 DEF RebuildRest, RebuildTail, First
<1>2. CASE s = <<"build", "swap">>
  BY <1>2 DEF RebuildRest, RebuildTail, First
<1>3. CASE s = <<"get", "build", "swap">>
  BY <1>3 DEF RebuildRest, RebuildTail, First
<1>4. CASE s = <<"bootstrap", "insert", "get", "build", "swap">>
  BY <1>4 DEF RebuildRest, RebuildTail, First
<1>5. CASE s = <<"insert", "get", "build", "swap">>
  BY <1>5 DEF RebuildRest, RebuildTail, First
<1>6. CASE s = <<"exists", "update", "get", "build", "swap">>
  BY <1>6 DEF RebuildRest, RebuildTail, First
<1>7. CASE s = <<"update", "get", "build", "swap">>
  BY <1>7 DEF RebuildRest, RebuildTail, First
<1>8. CASE s = <<"enable", "get", "build", "swap">>
  BY <1>8 DEF RebuildRest, RebuildTail, First
<1>9. CASE s = <<"exists", "validate", "insertInst", "get", "build", "swap">>
  BY <1>9 DEF RebuildRest, RebuildTail, First
<1>10. CASE s = <<"validate", "insertInst", "get", "build", "swap">>
  BY <1>10 DEF RebuildRest, RebuildTail, First
<1>11. CASE s = <<"insertInst", "get", "build", "swap">>
  BY <1>11 DEF RebuildRest, RebuildTail, First
<1>12. CASE s = <<"deleteInst", "get", "build", "swap">>
  BY <1>12 DEF RebuildRest, RebuildTail, First
<1>13. CASE s = <<"patchInst", "get", "build", "swap">>
  BY <1>13 DEF RebuildRest, RebuildTail, First
<1>14. CASE s = <<"disable", "remove">>
  BY <1>14 DEF RebuildRest, RebuildTail, First
<1>15. CASE s = <<"wipe", "deleteRow", "remove">>
  BY <1>15 DEF RebuildRest, RebuildTail, First
<1>16. CASE s = <<"deleteRow", "remove">>
  BY <1>16 DEF RebuildRest, RebuildTail, First
<1>17. CASE s = <<"remove">>
  BY <1>17 DEF RebuildRest, RebuildTail, First
<1> QED
  <2>1. s \in RebuildRest \ {<<>>}
    OBVIOUS
  <2> QED
   BY <2>1,  <1>1, <1>2, <1>3, <1>4, <1>5, <1>6, <1>7, <1>8, <1>9, <1>10, <1>11, <1>12, <1>13, <1>14, <1>15, <1>16, <1>17 DEF RebuildRest


\* The same for the flag of the panel's host.
LEMMA PanelRestTail ==
  ASSUME NEW s \in PanelRest, s # <<>>
  PROVE  /\ Tail(s) \in PanelRest
         /\ Head(s) \in {"exists", "panelHost", "clearPanel"}
<1>1. CASE s = <<"exists", "panelHost">>
  BY <1>1 DEF PanelRest
<1>2. CASE s = <<"panelHost">>
  BY <1>2 DEF PanelRest
<1>3. CASE s = <<"clearPanel">>
  BY <1>3 DEF PanelRest
<1> QED
  BY <1>1, <1>2, <1>3 DEF PanelRest

\* A step leaves a server alone, but perhaps for the panel's flag.
Same(h) ==
  /\ srv'[h].exists = srv[h].exists /\ srv'[h].enabled = srv[h].enabled /\ srv'[h].ver = srv[h].ver
  /\ inst'[h] = inst[h] /\ pool'[h] = pool[h] /\ names'[h] = names[h]
  /\ h \in mixed' <=> h \in mixed

LEMMA SameAgree ==
  ASSUME NEW h \in Host, Same(h)
  PROVE  /\ Agree(h)' <=> Agree(h)
         /\ Live(h)' <=> Live(h)
  BY DEF Same, Agree, Live

\* What another request knows survives a step that leaves its server alone.
LEMMA SameKnows ==
  ASSUME NEW q \in SrvProc, sreq'[q] = sreq[q], Same(sreq[q].h), sreq[q].h \in Host, Knows(q)
  PROVE  Knows(q)'
  BY SameAgree DEF Knows, SrvHead, Same

\* A request goes on, with what it has to know shown of it alone.
LEMMA LocalStep ==
  ASSUME SrvInv, NEW q \in SrvProc, sreq[q].op # "none", NEW r \in SrvReq,
         r.op = sreq[q].op, r.h = sreq[q].h, r.alone = sreq[q].alone,
         IF r.op \in PanelOps THEN r.rest \in PanelRest ELSE r.rest \in RebuildRest,
         sreq' = [sreq EXCEPT ![q] = r],
         SrvTypes', Exact',
         \A h \in Host \ {sreq[q].h} : Same(h),
         sreq[q].alone => Knows(q)'
  PROVE  SrvInv'
<1>1. /\ sreq \in [SrvProc -> SrvReq] /\ sreq'[q] = r /\ \A p \in SrvProc \ {q} : sreq'[p] = sreq[p]
      /\ \A p \in SrvProc : sreq[p].op # "none" => sreq[p].h \in Host
  BY DEF SrvInv, SrvTypes, Programmed
<1>2. Programmed'
  BY <1>1 DEF SrvInv, Programmed
<1>3. AloneKnows'
  <2> SUFFICES ASSUME NEW p \in SrvProc, sreq'[p].op # "none", sreq'[p].alone
               PROVE  /\ \A o \in SrvProc \ {p} : sreq'[o].op # "none" => sreq'[o].h # sreq'[p].h
                      /\ Knows(p)'
    BY DEF AloneKnows
  <2>1. sreq[p].op # "none" /\ sreq[p].alone /\ sreq[p].h = sreq'[p].h
    BY <1>1
  <2>2. \A o \in SrvProc \ {p} : sreq[o].op # "none" => sreq[o].h # sreq[p].h
    BY <2>1 DEF SrvInv, AloneKnows
  <2>3. \A o \in SrvProc \ {p} : sreq'[o].op # "none" => sreq'[o].h # sreq'[p].h
    BY <1>1, <2>1, <2>2
  <2>4. Knows(p)'
    <3>1. CASE p = q
      BY <3>1, <2>1
    <3>2. CASE p # q
      BY <3>2, <1>1, <2>1, <2>2, SameKnows DEF SrvInv, AloneKnows
    <3> QED
      BY <3>1, <3>2
  <2> QED
    BY <2>3, <2>4
<1>4. Settled'
  <2> SUFFICES ASSUME NEW h \in Host, Busy(h)' = {}, h \notin mixed' PROVE Agree(h)'
    BY DEF Settled, Agree
  <2>1. h # sreq[q].h
    BY <1>1 DEF Busy
  <2>2. Busy(h) = {}
    BY <1>1, <2>1 DEF Busy
  <2> QED
    BY <2>1, <2>2, SameAgree DEF SrvInv, Settled, Agree, Same
<1> QED
  BY <1>2, <1>3, <1>4 DEF SrvInv

\* A request ends, its server in order or marked.
LEMMA EndStep ==
  ASSUME SrvInv, NEW q \in SrvProc, sreq[q].op # "none", NEW own \in Host, own = sreq[q].h,
         sreq' = [sreq EXCEPT ![q] = SrvIdle],
         SrvTypes', Exact',
         \A h \in Host \ {own} : Same(h),
         own \in mixed' \/ Agree(own)'
  PROVE  SrvInv'
<1>1. /\ sreq \in [SrvProc -> SrvReq] /\ sreq'[q] = SrvIdle
      /\ \A p \in SrvProc \ {q} : sreq'[p] = sreq[p]
      /\ \A p \in SrvProc : sreq[p].op # "none" => sreq[p].h \in Host
      /\ SrvIdle.op = "none" /\ SrvIdle.rest = <<>>
  BY DEF SrvInv, SrvTypes, Programmed, SrvIdle
<1>2. Programmed'
  BY <1>1 DEF SrvInv, Programmed, PanelOps, RebuildRest
<1>3. AloneKnows'
  <2> SUFFICES ASSUME NEW p \in SrvProc, sreq'[p].op # "none", sreq'[p].alone
               PROVE  /\ \A o \in SrvProc \ {p} : sreq'[o].op # "none" => sreq'[o].h # sreq'[p].h
                      /\ Knows(p)'
    BY DEF AloneKnows
  <2>1. p # q
    BY <1>1
  <2>2. \A o \in SrvProc \ {p} : sreq[o].op # "none" => sreq[o].h # sreq[p].h
    BY <1>1, <2>1 DEF SrvInv, AloneKnows
  <2>3. Knows(p)'
    BY <1>1, <2>1, <2>2, SameKnows DEF SrvInv, AloneKnows
  <2> QED
    BY <1>1, <2>1, <2>2, <2>3
<1>4. Settled'
  <2> SUFFICES ASSUME NEW h \in Host, Busy(h)' = {}, h \notin mixed' PROVE Agree(h)'
    BY DEF Settled, Agree
  <2>1. CASE h # own
    <3>1. Busy(h) = {}
      BY <1>1, <2>1 DEF Busy
    <3> QED
      BY <2>1, <3>1, SameAgree DEF SrvInv, Settled, Agree, Same
  <2>2. CASE h = own
    BY <2>2
  <2> QED
    BY <2>1, <2>2
<1> QED
  BY <1>2, <1>3, <1>4 DEF SrvInv

\* A request with a statement to run.
LEMMA AtStatement ==
  ASSUME SrvInv, NEW q \in SrvProc, SrvHead(q) # "none"
  PROVE  /\ sreq[q] \in SrvReq /\ sreq[q].op # "none" /\ sreq[q].h \in Host
         /\ sreq[q].rest # <<>> /\ SrvHead(q) = Head(sreq[q].rest)
         /\ sreq[q].op \in PanelOps => /\ Tail(sreq[q].rest) \in PanelRest
                                       /\ SrvHead(q) \in {"exists", "panelHost", "clearPanel"}
         /\ sreq[q].op \notin PanelOps => RebuildTail(sreq[q].rest)
         /\ Rest(q) \in SrvReq
         /\ Rest(q).op = sreq[q].op /\ Rest(q).h = sreq[q].h /\ Rest(q).ver = sreq[q].ver
         /\ Rest(q).insts = sreq[q].insts /\ Rest(q).alone = sreq[q].alone
         /\ Rest(q).rest = Tail(sreq[q].rest)
<1>1. sreq[q] \in SrvReq /\ sreq[q].rest # <<>> /\ SrvHead(q) = Head(sreq[q].rest)
  BY DEF SrvInv, SrvTypes, SrvHead
<1>2. sreq[q].op # "none" /\ sreq[q].h \in Host
  BY <1>1 DEF SrvInv, Programmed
<1>3. sreq[q].op \in PanelOps => /\ Tail(sreq[q].rest) \in PanelRest
                                 /\ SrvHead(q) \in {"exists", "panelHost", "clearPanel"}
  BY <1>1, PanelRestTail DEF SrvInv, Programmed
<1>4. sreq[q].op \notin PanelOps => RebuildTail(sreq[q].rest)
  BY <1>1, RebuildRestTail DEF SrvInv, Programmed
<1>5. Tail(sreq[q].rest) \in PanelRest \cup RebuildRest
  BY <1>3, <1>4 DEF RebuildTail
<1>6. ASSUME NEW x \in PanelRest \cup RebuildRest, NEW y, y = [sreq[q] EXCEPT !.rest = x]
      PROVE  /\ y \in SrvReq
             /\ y.op = sreq[q].op /\ y.h = sreq[q].h /\ y.ver = sreq[q].ver
             /\ y.insts = sreq[q].insts /\ y.alone = sreq[q].alone /\ y.rest = x
  BY <1>1, <1>6 DEF SrvReq
<1>7. Rest(q) = [sreq[q] EXCEPT !.rest = Tail(sreq[q].rest)]
  BY DEF Rest
<1>8. /\ Rest(q) \in SrvReq
      /\ Rest(q).op = sreq[q].op /\ Rest(q).h = sreq[q].h /\ Rest(q).ver = sreq[q].ver
      /\ Rest(q).insts = sreq[q].insts /\ Rest(q).alone = sreq[q].alone
      /\ Rest(q).rest = Tail(sreq[q].rest)
  BY <1>5, <1>6, <1>7, Zenon
<1> QED
  BY <1>1, <1>2, <1>3, <1>4, <1>8

\* The registry and the manager's maps are left alone.
LEMMA SameExact ==
  ASSUME SrvInv, UNCHANGED <<registry, pool, names>>
  PROVE  Exact'
  BY DEF SrvInv, Exact

\* A statement of the database.
LEMMA StatementInv ==
  ASSUME SrvInv, NEW q \in SrvProc, Go(q, Rest(q)),
         SrvHead(q) \notin {"none", "get", "build", "swap", "remove"},
         srv' \in [Host -> SrvRow], inst' \in [Host -> SUBSET InstName],
         UNCHANGED <<registry, pool, names, mixed>>,
         NEW own \in Host, own = sreq[q].h,
         \A h \in Host \ {own} : Same(h),
         sreq[q].op \in PanelOps => Same(own),
         SrvHead(q) \in {"disable", "deleteRow"} => ~Live(own)'
  PROVE  SrvInv'
<1> DEFINE r == Rest(q)
<1>1. /\ r \in SrvReq /\ sreq[q].op # "none" /\ r.op = sreq[q].op /\ r.h = own
      /\ r.alone = sreq[q].alone /\ r.rest = Tail(sreq[q].rest)
      /\ SrvHead(q) = Head(sreq[q].rest)
      /\ sreq[q].op \in PanelOps => Tail(sreq[q].rest) \in PanelRest
      /\ sreq[q].op \notin PanelOps => RebuildTail(sreq[q].rest)
  BY AtStatement
<1>2. IF r.op \in PanelOps THEN r.rest \in PanelRest ELSE r.rest \in RebuildRest
  BY <1>1 DEF RebuildTail
<1> HIDE DEF r
<1>3. sreq' = [sreq EXCEPT ![q] = r] /\ sreq'[q] = r
  BY DEF Go, SrvInv, SrvTypes, r
<1>4. SrvTypes'
  BY <1>1, <1>3 DEF SrvInv, SrvTypes
<1>5. sreq[q].alone => Knows(q)'
  <2> SUFFICES ASSUME sreq[q].alone PROVE Knows(q)'
    OBVIOUS
  <2>1. CASE sreq[q].op \in PanelOps
    <3>1. own \notin mixed => Agree(own)
      BY <1>1, <2>1 DEF SrvInv, AloneKnows, Knows
    <3>2. own \notin mixed => Agree(own)'
      BY <2>1, <3>1, SameAgree
    <3> QED
      BY <1>1, <1>3, <2>1, <3>2 DEF Knows
  <2>2. CASE sreq[q].op \notin PanelOps
    <3>1. /\ r.rest # <<>>
          /\ SrvHead(q)' \notin {"swap", "build"}
          /\ SrvHead(q)' = "remove" => ~Live(own)'
      BY <1>1, <1>3, <2>2 DEF RebuildTail, First, SrvHead
    <3> QED
      BY <1>1, <1>3, <2>2, <3>1 DEF Knows
  <2> QED
    BY <2>1, <2>2
<1>6. Exact'
  BY SameExact
<1> QED
  BY <1>1, <1>2, <1>3, <1>4, <1>5, <1>6, LocalStep

\* A handler gives up.
LEMMA AbortInv ==
  ASSUME SrvInv, NEW q \in SrvProc, SrvHead(q) # "none", SrvAbort(q)
  PROVE  SrvInv'
<1>1. sreq[q].op # "none" /\ sreq[q].h \in Host
  BY AtStatement
<1>2. SrvIdle \in SrvReq
  BY DEF SrvIdle, SrvReq, PanelRest, InstName
<1>3. SrvTypes'
  BY <1>1, <1>2 DEF SrvInv, SrvTypes, SrvAbort, Go
<1>4. \A h \in Host \ {sreq[q].h} : Same(h)
  BY DEF Same, SrvAbort
<1>5. Exact'
  BY SameExact DEF SrvAbort
<1> QED
  BY <1>1, <1>3, <1>4, <1>5, EndStep DEF SrvAbort, Go

\* The account on the host, before the row.
LEMMA BootstrapInv ==
  ASSUME SrvInv, NEW q \in SrvProc, BootstrapHost(q)
  PROVE  SrvInv'
<1>1. sreq[q].h \in Host
  BY AtStatement DEF BootstrapHost
<1>2. \A h \in Host : Same(h)
  BY DEF Same, BootstrapHost
<1>3. srv' \in [Host -> SrvRow] /\ inst' \in [Host -> SUBSET InstName]
  BY DEF SrvInv, SrvTypes, BootstrapHost
<1> QED
  BY <1>1, <1>2, <1>3, StatementInv DEF BootstrapHost

\* The row is there.
LEMMA GetServerInv ==
  ASSUME SrvInv, NEW q \in SrvProc, GetServer(q)
  PROVE  SrvInv'
<1>1. sreq[q].h \in Host
  BY AtStatement DEF GetServer
<1>2. \A h \in Host : Same(h)
  BY DEF Same, GetServer
<1>3. srv' \in [Host -> SrvRow] /\ inst' \in [Host -> SUBSET InstName]
  BY DEF SrvInv, SrvTypes, GetServer
<1> QED
  BY <1>1, <1>2, <1>3, StatementInv DEF GetServer

\* The rows keyed by the provider.
LEMMA WipeInv ==
  ASSUME SrvInv, NEW q \in SrvProc, DeleteProviderData(q)
  PROVE  SrvInv'
<1>1. sreq[q].h \in Host
  BY AtStatement DEF DeleteProviderData
<1>2. \A h \in Host : Same(h)
  BY DEF Same, DeleteProviderData
<1>3. srv' \in [Host -> SrvRow] /\ inst' \in [Host -> SUBSET InstName]
  BY DEF SrvInv, SrvTypes, DeleteProviderData
<1> QED
  BY <1>1, <1>2, <1>3, StatementInv DEF DeleteProviderData

\* A new row.
LEMMA CreateServerInv ==
  ASSUME SrvInv, NEW q \in SrvProc, CreateServer(q)
  PROVE  SrvInv'
<1> DEFINE own == sreq[q].h
<1>1. own \in Host /\ sreq[q].op \notin PanelOps
  BY AtStatement DEF CreateServer
<1>2. \A h \in Host \ {own} : Same(h)
  BY DEF Same, CreateServer, SrvInv, SrvTypes
<1>3. srv' \in [Host -> SrvRow] /\ inst' \in [Host -> SUBSET InstName]
  BY <1>1 DEF SrvInv, SrvTypes, SrvRow, CreateServer
<1> QED
  BY <1>1, <1>2, <1>3, StatementInv DEF CreateServer

\* A row of another version.
LEMMA UpdateServerInv ==
  ASSUME SrvInv, NEW q \in SrvProc, UpdateServer(q)
  PROVE  SrvInv'
<1> DEFINE own == sreq[q].h
<1>1. own \in Host /\ sreq[q].op \notin PanelOps
  BY AtStatement DEF UpdateServer
<1>2. \A h \in Host \ {own} : Same(h)
  BY DEF Same, UpdateServer, SrvInv, SrvTypes
<1>3. srv' \in [Host -> SrvRow] /\ inst' \in [Host -> SUBSET InstName]
  BY <1>1 DEF SrvInv, SrvTypes, SrvRow, UpdateServer
<1> QED
  BY <1>1, <1>2, <1>3, StatementInv DEF UpdateServer

\* The row is gone, with its instances.
LEMMA DeleteServerInv ==
  ASSUME SrvInv, NEW q \in SrvProc, DeleteServer(q)
  PROVE  SrvInv'
<1>0. PICK own \in Host : own = sreq[q].h
  BY AtStatement DEF DeleteServer
<1>1. sreq[q].op \notin PanelOps
  BY AtStatement DEF DeleteServer
<1>2. \A h \in Host \ {own} : Same(h)
  BY <1>0 DEF Same, DeleteServer, SrvInv, SrvTypes
<1>3. srv' \in [Host -> SrvRow] /\ inst' \in [Host -> SUBSET InstName]
  BY <1>0, <1>1 DEF SrvInv, SrvTypes, SrvRow, DeleteServer, NoRow
<1>4. ~Live(own)'
  BY <1>0, <1>1 DEF Live, NoRow, SrvInv, SrvTypes, DeleteServer
<1> QED
  BY <1>0, <1>1, <1>2, <1>3, <1>4, StatementInv DEF DeleteServer

\* The row of an instance is gone.
LEMMA DeleteInstanceInv ==
  ASSUME SrvInv, NEW q \in SrvProc, DeleteServerInstance(q)
  PROVE  SrvInv'
<1> DEFINE own == sreq[q].h
<1>1. own \in Host /\ sreq[q].op \notin PanelOps
  BY AtStatement DEF DeleteServerInstance
<1>2. \A h \in Host \ {own} : Same(h)
  BY DEF Same, DeleteServerInstance, SrvInv, SrvTypes
<1>3. srv' \in [Host -> SrvRow] /\ inst' \in [Host -> SUBSET InstName]
  BY <1>1 DEF SrvInv, SrvTypes, SrvRow, DeleteServerInstance
<1> QED
  BY <1>1, <1>2, <1>3, StatementInv DEF DeleteServerInstance

\* The row is enabled or disabled.
LEMMA EnabledInv ==
  ASSUME SrvInv, NEW q \in SrvProc, UpdateServerEnabled(q)
  PROVE  SrvInv'
<1>0. PICK own \in Host : own = sreq[q].h
  BY AtStatement DEF UpdateServerEnabled
<1>1. sreq[q].op \notin PanelOps
  BY AtStatement DEF UpdateServerEnabled
<1>2. \A h \in Host \ {own} : Same(h)
  BY <1>0 DEF Same, UpdateServerEnabled, SrvInv, SrvTypes
<1>3. srv' \in [Host -> SrvRow] /\ inst' \in [Host -> SUBSET InstName]
  BY <1>0, <1>1 DEF SrvInv, SrvTypes, SrvRow, UpdateServerEnabled
<1>4. SrvHead(q) = "disable" => ~Live(own)'
  BY <1>0, <1>1 DEF Live, SrvInv, SrvTypes, SrvRow, UpdateServerEnabled
<1> QED
  BY <1>0, <1>1, <1>2, <1>3, <1>4, StatementInv DEF UpdateServerEnabled

\* The panel's flag moves.
LEMMA SetPanelInv ==
  ASSUME SrvInv, NEW q \in SrvProc, SetPanelHost(q)
  PROVE  SrvInv'
<1>1. sreq[q].h \in Host
  BY AtStatement DEF SetPanelHost
<1>2. \A h \in Host : Same(h)
  BY DEF Same, SetPanelHost, SrvInv, SrvTypes, SrvRow
<1>3. srv' \in [Host -> SrvRow] /\ inst' \in [Host -> SUBSET InstName]
  BY DEF SrvInv, SrvTypes, SrvRow, SetPanelHost
<1> QED
  BY <1>1, <1>2, <1>3, StatementInv DEF SetPanelHost

\* The panel's flag is taken away.
LEMMA ClearPanelInv ==
  ASSUME SrvInv, NEW q \in SrvProc, ClearPanelHost(q)
  PROVE  SrvInv'
<1>1. sreq[q].h \in Host
  BY AtStatement DEF ClearPanelHost
<1>2. \A h \in Host : Same(h)
  BY DEF Same, ClearPanelHost, SrvInv, SrvTypes, SrvRow
<1>3. srv' \in [Host -> SrvRow] /\ inst' \in [Host -> SUBSET InstName]
  BY DEF SrvInv, SrvTypes, SrvRow, ClearPanelHost
<1> QED
  BY <1>1, <1>2, <1>3, StatementInv DEF ClearPanelHost

\* An instance is validated.
LEMMA ValidateInv ==
  ASSUME SrvInv, NEW q \in SrvProc, ValidateInstance(q)
  PROVE  SrvInv'
<1>1. sreq[q].h \in Host /\ SrvHead(q) = "validate"
  BY AtStatement DEF ValidateInstance
<1>2. CASE SrvAbort(q)
  BY <1>1, <1>2, AbortInv
<1>3. CASE Go(q, Rest(q)) /\ UNCHANGED <<srv, inst, registry, pool, names, mixed>>
  <2>1. \A h \in Host : Same(h)
    BY <1>3 DEF Same
  <2>2. srv' \in [Host -> SrvRow] /\ inst' \in [Host -> SUBSET InstName]
    BY <1>3 DEF SrvInv, SrvTypes
  <2> QED
    BY <1>1, <1>3, <2>1, <2>2, StatementInv
<1> QED
  BY <1>2, <1>3 DEF ValidateInstance

\* The row of a new instance.
LEMMA CreateInstanceInv ==
  ASSUME SrvInv, NEW q \in SrvProc, CreateServerInstance(q)
  PROVE  SrvInv'
<1> DEFINE own == sreq[q].h
<1>1. own \in Host /\ SrvHead(q) = "insertInst" /\ sreq[q].op \notin PanelOps
  BY AtStatement DEF CreateServerInstance
<1>2. CASE SrvAbort(q)
  BY <1>1, <1>2, AbortInv
<1>3. CASE ~SrvAbort(q)
  <2>1. /\ inst' = [inst EXCEPT ![own] = @ \cup {sreq[q].i}] /\ Go(q, Rest(q))
        /\ UNCHANGED <<srv, registry, pool, names, mixed>>
    BY <1>3 DEF CreateServerInstance
  <2>2. \A h \in Host \ {own} : Same(h)
    BY <2>1 DEF Same, SrvInv, SrvTypes
  <2>3. sreq[q].i \in InstName
    BY <1>1, AtStatement DEF SrvReq
  <2>4. srv' \in [Host -> SrvRow] /\ inst' \in [Host -> SUBSET InstName]
    BY <1>1, <2>1, <2>3 DEF SrvInv, SrvTypes
  <2> QED
    BY <1>1, <2>1, <2>2, <2>4, StatementInv
<1> QED
  BY <1>2, <1>3

\* An instance gets a new configuration.
LEMMA PatchInstanceInv ==
  ASSUME SrvInv, NEW q \in SrvProc, UpdateServerInstanceConfig(q)
  PROVE  SrvInv'
<1> DEFINE own == sreq[q].h
<1>1. own \in Host /\ SrvHead(q) = "patchInst" /\ sreq[q].op \notin PanelOps
  BY AtStatement DEF UpdateServerInstanceConfig
<1>2. CASE SrvAbort(q)
  BY <1>1, <1>2, AbortInv
<1>3. CASE ~SrvAbort(q)
  <2>1. /\ srv' = [srv EXCEPT ![own].ver = @ + 1] /\ Go(q, Rest(q))
        /\ UNCHANGED <<inst, registry, pool, names, mixed>>
    BY <1>3 DEF UpdateServerInstanceConfig
  <2>2. \A h \in Host \ {own} : Same(h)
    BY <2>1 DEF Same, SrvInv, SrvTypes
  <2>3. srv' \in [Host -> SrvRow] /\ inst' \in [Host -> SUBSET InstName]
    BY <1>1, <2>1 DEF SrvInv, SrvTypes, SrvRow
  <2> QED
    BY <1>1, <2>1, <2>2, <2>3, StatementInv
<1> QED
  BY <1>2, <1>3

\* The rebuild reads the row.
LEMMA RebuildGetInv ==
  ASSUME SrvInv, NEW q \in SrvProc, RebuildGet(q)
  PROVE  SrvInv'
<1>0. PICK own \in Host : own = sreq[q].h
  BY AtStatement DEF RebuildGet
<1> DEFINE r == IF srv[own].enabled THEN [Rest(q) EXCEPT !.ver = srv[own].ver]
                ELSE [Rest(q) EXCEPT !.rest = <<"remove">>]
<1>1. sreq' = [sreq EXCEPT ![q] = r] /\ UNCHANGED <<srv, inst, registry, pool, names, mixed>>
  BY <1>0 DEF RebuildGet, Go
<1>2. /\ Rest(q) \in SrvReq /\ Rest(q).op = sreq[q].op /\ Rest(q).h = own
      /\ Rest(q).alone = sreq[q].alone /\ Rest(q).rest = Tail(sreq[q].rest)
      /\ sreq[q].op # "none" /\ sreq[q].op \notin PanelOps
      /\ RebuildTail(sreq[q].rest) /\ Head(sreq[q].rest) = "get"
  BY <1>0, AtStatement DEF RebuildGet
<1>3. srv[own] \in SrvRow /\ srv[own].exists
  BY <1>0 DEF SrvInv, SrvTypes, RebuildGet
<1>4. /\ r \in SrvReq /\ r.op = sreq[q].op /\ r.h = own /\ r.alone = sreq[q].alone
      /\ r.rest = (IF srv[own].enabled THEN Tail(sreq[q].rest) ELSE <<"remove">>)
      /\ srv[own].enabled => r.ver = srv[own].ver
  <2>1. srv[own].ver \in Nat /\ <<"remove">> \in RebuildRest
    BY <1>3 DEF SrvRow, RebuildRest
  <2> QED
    BY <1>2, <2>1 DEF SrvReq
<1> HIDE DEF r
<1>5. r.rest \in RebuildRest
  BY <1>2, <1>4 DEF RebuildTail, RebuildRest
<1>6. sreq'[q] = r
  BY <1>1 DEF SrvInv, SrvTypes
<1>7. sreq[q].alone => Knows(q)'
  <2>1. CASE srv[own].enabled
    <3>1. r.rest # <<>> /\ First(r.rest) \notin {"swap", "remove"}
      BY <1>2, <1>4, <2>1 DEF RebuildTail, First
    <3>2. r.rest # <<>> /\ SrvHead(q)' \notin {"swap", "remove"}
      BY <1>6, <3>1 DEF First, SrvHead
    <3> QED
      BY <1>1, <1>2, <1>3, <1>4, <1>6, <2>1, <3>2 DEF Knows, Live
  <2>2. CASE ~srv[own].enabled
    <3>0. r.rest = <<"remove">>
      BY <1>4, <2>2
    <3>1. r.rest # <<>> /\ SrvHead(q)' = "remove"
      BY <1>6, <3>0 DEF SrvHead
    <3> QED
      BY <1>1, <1>2, <1>4, <1>6, <2>2, <3>1 DEF Knows, Live
  <2> QED
    BY <2>1, <2>2
<1>8. SrvTypes'
  BY <1>1, <1>4 DEF SrvInv, SrvTypes
<1>9. \A h \in Host : Same(h)
  BY <1>1 DEF Same
<1>10. Exact'
  BY <1>1, SameExact
<1> QED
  BY <1>0, <1>1, <1>2, <1>4, <1>5, <1>7, <1>8, <1>9, <1>10, LocalStep

\* buildProviders, with the default server's instances seeded.
LEMMA BuildInv ==
  ASSUME SrvInv, NEW q \in SrvProc, BuildProviders(q)
  PROVE  SrvInv'
<1>0. PICK own \in Host : own = sreq[q].h
  BY AtStatement DEF BuildProviders
<1>1. CASE SrvAbort(q)
  BY <1>1, AbortInv DEF BuildProviders
<1>2. CASE ~SrvAbort(q)
  <2> DEFINE r == [Rest(q) EXCEPT !.insts = inst'[own]]
  <2>1. /\ inst' = [inst EXCEPT ![own] = Seed] \/ inst' = inst
        /\ sreq' = [sreq EXCEPT ![q] = r] /\ UNCHANGED <<srv, registry, pool, names, mixed>>
    BY <1>0, <1>2 DEF BuildProviders, Go
  <2>2. /\ Rest(q) \in SrvReq /\ Rest(q).op = sreq[q].op /\ Rest(q).h = own
        /\ Rest(q).alone = sreq[q].alone /\ Rest(q).rest = Tail(sreq[q].rest)
        /\ Rest(q).ver = sreq[q].ver
        /\ sreq[q].op # "none" /\ sreq[q].op \notin PanelOps
        /\ RebuildTail(sreq[q].rest) /\ Head(sreq[q].rest) = "build"
    BY <1>0, AtStatement DEF BuildProviders
  <2>3. inst' \in [Host -> SUBSET InstName]
    BY <1>0, <2>1, SeedAssumption DEF SrvInv, SrvTypes, InstName
  <2>4. /\ r \in SrvReq /\ r.op = sreq[q].op /\ r.h = own /\ r.alone = sreq[q].alone
        /\ r.rest = Tail(sreq[q].rest) /\ r.ver = sreq[q].ver /\ r.insts = inst'[own]
    BY <2>2, <2>3 DEF SrvReq
  <2> HIDE DEF r
  <2>5. sreq'[q] = r
    BY <2>1 DEF SrvInv, SrvTypes
  <2>6. sreq[q].alone => Knows(q)'
    <3> SUFFICES ASSUME sreq[q].alone PROVE Knows(q)'
      OBVIOUS
    <3>1. Live(own) /\ sreq[q].ver = srv[own].ver
      BY <1>0, <2>2 DEF SrvInv, AloneKnows, Knows, BuildProviders
    <3>2. r.rest # <<>> /\ First(r.rest) \notin {"build", "remove"}
      BY <2>2, <2>4 DEF RebuildTail, First
    <3>3. r.rest # <<>> /\ SrvHead(q)' \notin {"build", "remove"}
      BY <2>5, <3>2 DEF First, SrvHead
    <3> QED
      BY <2>1, <2>2, <2>4, <2>5, <3>1, <3>3 DEF Knows, Live
  <2>7. SrvTypes'
    BY <2>1, <2>3, <2>4 DEF SrvInv, SrvTypes
  <2>8. \A h \in Host \ {own} : Same(h)
    BY <2>1 DEF Same, SrvInv, SrvTypes
  <2>9. Exact' /\ r.rest \in RebuildRest
    BY <2>1, <2>2, <2>4, SameExact DEF RebuildTail
  <2> QED
    BY <1>0, <2>1, <2>2, <2>4, <2>6, <2>7, <2>8, <2>9, LocalStep
<1> QED
  BY <1>1, <1>2

\* The seeding stops half-way.
LEMMA SeedFailsInv ==
  ASSUME SrvInv, NEW q \in SrvProc, SeedFails(q)
  PROVE  SrvInv'
<1>0. PICK own \in Host : own = sreq[q].h /\ own = DefaultHost
  BY AtStatement DEF SeedFails
<1>1. sreq[q].op # "none" /\ SrvIdle \in SrvReq
  BY AtStatement DEF SeedFails, SrvIdle, SrvReq, PanelRest, InstName
<1>2. PICK part \in SUBSET Seed : inst' = [inst EXCEPT ![own] = part]
  BY <1>0 DEF SeedFails
<1>3. SrvTypes'
  BY <1>0, <1>1, <1>2, SeedAssumption DEF SrvInv, SrvTypes, SeedFails, Go, InstName
<1>4. \A h \in Host \ {own} : Same(h)
  BY <1>0, <1>2 DEF Same, SeedFails, SrvInv, SrvTypes
<1>5. Exact'
  BY SameExact DEF SeedFails
<1> QED
  BY <1>0, <1>1, <1>3, <1>4, <1>5, EndStep DEF SeedFails, Go

\* The critical section takes out the old providers and puts in the new ones.
LEMMA SwappedExact ==
  ASSUME SrvInv, NEW own \in Host, NEW ver \in Nat, NEW insts \in SUBSET InstName,
         registry' = Swapped(own, ver, insts),
         pool' = [pool EXCEPT ![own] = ver], names' = [names EXCEPT ![own] = insts]
  PROVE  Exact'
<1>1. /\ \A h \in Host : pool'[h] = IF h = own THEN ver ELSE pool[h]
      /\ \A h \in Host : names'[h] = IF h = own THEN insts ELSE names[h]
  BY DEF SrvInv, SrvTypes
<1>2. ASSUME NEW e \in registry' PROVE \E h \in Host : \E i \in names'[h] : e = <<h, i, pool'[h]>>
  <2>1. CASE e \in {<<own, i, ver>> : i \in insts}
    BY <1>1, <2>1
  <2>2. CASE e \in registry /\ (e[1] # own \/ e[2] \notin names[own])
    <3>1. PICK h \in Host : \E i \in names[h] : e = <<h, i, pool[h]>>
      BY <2>2 DEF SrvInv, Exact
    <3>2. h # own
      BY <2>2, <3>1
    <3> QED
      BY <1>1, <3>1, <3>2
  <2> QED
    BY <1>2, <2>1, <2>2 DEF Swapped
<1>3. ASSUME NEW h \in Host, NEW i \in names'[h] PROVE <<h, i, pool'[h]>> \in registry'
  <2>1. CASE h = own
    BY <1>1, <2>1 DEF Swapped
  <2>2. CASE h # own
    <3>1. <<h, i, pool[h]>> \in registry
      BY <1>1, <2>2 DEF SrvInv, Exact
    <3> QED
      BY <1>1, <2>2, <3>1 DEF Swapped
  <2> QED
    BY <2>1, <2>2
<1> QED
  BY <1>2, <1>3 DEF Exact

\* The manager's swap, for a rebuild.
LEMMA SwapInv ==
  ASSUME SrvInv, NEW q \in SrvProc, RebuildSwap(q)
  PROVE  SrvInv'
<1>0. PICK own \in Host : own = sreq[q].h
  BY AtStatement DEF RebuildSwap
<1> DEFINE r == Rest(q)
<1>1. /\ r \in SrvReq /\ r.op = sreq[q].op /\ r.h = own /\ r.alone = sreq[q].alone
      /\ r.rest = Tail(sreq[q].rest) /\ sreq[q] \in SrvReq
      /\ sreq[q].op # "none" /\ sreq[q].op \notin PanelOps
      /\ RebuildTail(sreq[q].rest) /\ Head(sreq[q].rest) = "swap"
  BY <1>0, AtStatement DEF RebuildSwap
<1>2. sreq' = [sreq EXCEPT ![q] = r] /\ sreq'[q] = r
  BY DEF RebuildSwap, Go, SrvInv, SrvTypes
<1> HIDE DEF r
<1>3. r.rest = <<>> /\ r.rest \in RebuildRest
  BY <1>1 DEF RebuildTail
<1>4. sreq[q].ver \in Nat /\ sreq[q].insts \in SUBSET InstName
  BY <1>1 DEF SrvReq
<1>5. SrvTypes'
  BY <1>0, <1>1, <1>2, <1>4 DEF SrvInv, SrvTypes, RebuildSwap
<1>6. Exact'
  BY <1>0, <1>4, SwappedExact DEF RebuildSwap
<1>7. \A h \in Host \ {own} : Same(h)
  BY <1>0 DEF Same, RebuildSwap, SrvInv, SrvTypes
<1>8. sreq[q].alone => Knows(q)'
  <2> SUFFICES ASSUME sreq[q].alone PROVE Knows(q)'
    OBVIOUS
  <2>1. Live(own) /\ sreq[q].ver = srv[own].ver /\ sreq[q].insts = inst[own]
    BY <1>0, <1>1 DEF SrvInv, AloneKnows, Knows, RebuildSwap
  <2>2. Agree(own)'
    BY <1>0, <2>1 DEF Agree, Live, RebuildSwap, SrvInv, SrvTypes
  <2>3. SrvHead(q)' = "none"
    BY <1>2, <1>3 DEF SrvHead
  <2> QED
    BY <1>1, <1>2, <2>2, <2>3 DEF Knows
<1> QED
  BY <1>0, <1>1, <1>2, <1>3, <1>5, <1>6, <1>7, <1>8, LocalStep

\* And for a removal.
LEMMA RemoveInv ==
  ASSUME SrvInv, NEW q \in SrvProc, Remove(q)
  PROVE  SrvInv'
<1>0. PICK own \in Host : own = sreq[q].h
  BY AtStatement DEF Remove
<1> DEFINE r == Rest(q)
<1>1. /\ r \in SrvReq /\ r.op = sreq[q].op /\ r.h = own /\ r.alone = sreq[q].alone
      /\ r.rest = Tail(sreq[q].rest)
      /\ sreq[q].op # "none" /\ sreq[q].op \notin PanelOps
      /\ RebuildTail(sreq[q].rest) /\ Head(sreq[q].rest) = "remove"
  BY <1>0, AtStatement DEF Remove
<1>2. sreq' = [sreq EXCEPT ![q] = r] /\ sreq'[q] = r
  BY DEF Remove, Go, SrvInv, SrvTypes
<1> HIDE DEF r
<1>3. r.rest = <<>> /\ r.rest \in RebuildRest
  BY <1>1 DEF RebuildTail
<1>5. SrvTypes'
  BY <1>0, <1>1, <1>2 DEF SrvInv, SrvTypes, Remove
<1>6. Exact'
  BY <1>0, SwappedExact DEF Remove
<1>7. \A h \in Host \ {own} : Same(h)
  BY <1>0 DEF Same, Remove, SrvInv, SrvTypes
<1>8. sreq[q].alone => Knows(q)'
  <2> SUFFICES ASSUME sreq[q].alone PROVE Knows(q)'
    OBVIOUS
  <2>1. ~Live(own)
    BY <1>0, <1>1 DEF SrvInv, AloneKnows, Knows, Remove
  <2>2. Agree(own)'
    BY <1>0, <2>1 DEF Agree, Live, Remove, SrvInv, SrvTypes
  <2>3. SrvHead(q)' = "none"
    BY <1>2, <1>3 DEF SrvHead
  <2> QED
    BY <1>1, <1>2, <2>2, <2>3 DEF Knows
<1> QED
  BY <1>0, <1>1, <1>2, <1>3, <1>5, <1>6, <1>7, <1>8, LocalStep

\* A handler is done.
LEMMA DoneInv ==
  ASSUME SrvInv, NEW q \in SrvProc, Done(q)
  PROVE  SrvInv'
<1>0. PICK own \in Host : own = sreq[q].h
  BY DEF Done, SrvInv, Programmed
<1>1. SrvIdle \in SrvReq
  BY DEF SrvIdle, SrvReq, PanelRest, InstName
<1>2. /\ sreq' = [sreq EXCEPT ![q] = SrvIdle] /\ sreq[q].op # "none"
      /\ sreq[q].alone \in BOOLEAN /\ UNCHANGED <<srv, inst, registry, pool, names>>
  BY DEF Done, Go, SrvInv, SrvTypes, SrvReq
<1>3. /\ ~sreq[q].alone => mixed' = mixed \cup {own}
      /\ sreq[q].alone /\ sreq[q].op \in PanelOps => mixed' = mixed
      /\ sreq[q].alone /\ sreq[q].op \notin PanelOps => mixed' = mixed \ {own}
  <2>1. CASE ~sreq[q].alone
    BY <1>0, <2>1 DEF Done
  <2>2. CASE sreq[q].alone /\ sreq[q].op \in PanelOps
    BY <1>0, <2>2 DEF Done, PanelOps
  <2>3. CASE sreq[q].alone /\ sreq[q].op \notin PanelOps
    BY <1>0, <2>3 DEF Done, PanelOps
  <2> QED
    BY <1>2, <2>1, <2>2, <2>3
<1>4. mixed' \in {mixed, mixed \cup {own}, mixed \ {own}}
  BY <1>2, <1>3
<1>5. SrvTypes'
  BY <1>0, <1>1, <1>2, <1>4 DEF SrvInv, SrvTypes
<1>6. \A h \in Host \ {own} : Same(h)
  BY <1>2, <1>4 DEF Same
<1>7. own \in mixed' \/ Agree(own)'
  <2>1. CASE ~sreq[q].alone
    BY <1>3, <2>1
  <2>2. CASE sreq[q].alone
    <3>1. own \in mixed' \/ Agree(own)
      BY <1>0, <1>2, <1>3, <2>2 DEF SrvInv, AloneKnows, Knows, PanelOps, Done
    <3> QED
      BY <1>2, <3>1 DEF Agree, Live
  <2> QED
    BY <2>1, <2>2
<1>8. Exact'
  BY <1>2, SameExact
<1> QED
  BY <1>0, <1>2, <1>5, <1>6, <1>7, <1>8, EndStep

\* A request begins: whoever is on that server is not alone any more.
LEMMA BeginInv ==
  ASSUME SrvInv, NEW q \in SrvProc, NEW op \in HostOps \cup InstOps, NEW own \in Host,
         NEW i \in InstName, Begin(q, op, own, i)
  PROVE  SrvInv'
<1> DEFINE new == [SrvIdle EXCEPT !.op = op, !.h = own, !.i = i, !.rest = Handler(op),
                                  !.alone = (Busy(own) = {})]
<1>1. /\ sreq' = [p \in SrvProc |-> IF p = q THEN new
                                    ELSE [sreq[p] EXCEPT !.alone = @ /\ p \notin Busy(own)]]
      /\ UNCHANGED <<srv, inst, registry, pool, names, mixed>> /\ sreq[q].op = "none"
  BY DEF Begin
<1>2. /\ new \in SrvReq /\ new.op = op /\ new.h = own /\ new.rest = Handler(op)
      /\ new.alone = (Busy(own) = {})
      /\ op # "none"
      /\ op \in PanelOps => Handler(op) \in PanelRest
      /\ op \notin PanelOps => Handler(op) \in RebuildRest
      /\ First(Handler(op)) \notin {"none", "swap", "build", "remove"}
  <2>1. op # "none"
    BY DEF HostOps, InstOps
  <2>2. Handler(op) \in PanelRest \cup RebuildRest
    BY HandlerProgram
  <2>3. PICK b \in BOOLEAN : b = (Busy(own) = {})
    OBVIOUS
  <2>4. new = [SrvIdle EXCEPT !.op = op, !.h = own, !.i = i, !.rest = Handler(op), !.alone = b]
    BY <2>3
  <2> HIDE DEF new
  <2>5. /\ new \in SrvReq /\ new.op = op /\ new.h = own /\ new.rest = Handler(op)
        /\ new.alone = b
    BY <2>2, <2>4 DEF SrvIdle, SrvReq
  <2> QED
    BY <2>1, <2>3, <2>5, HandlerProgram
<1> HIDE DEF new
<1>3. ASSUME NEW p \in SrvProc, p # q
      PROVE  /\ sreq'[p] \in SrvReq /\ sreq'[p].op = sreq[p].op /\ sreq'[p].h = sreq[p].h
             /\ sreq'[p].rest = sreq[p].rest /\ sreq'[p].ver = sreq[p].ver
             /\ sreq'[p].insts = sreq[p].insts
             /\ sreq'[p].alone <=> (sreq[p].alone /\ p \notin Busy(own))
  <2>1. sreq[p] \in SrvReq /\ sreq'[p] = [sreq[p] EXCEPT !.alone = @ /\ p \notin Busy(own)]
    BY <1>1, <1>3 DEF SrvInv, SrvTypes
  <2> QED
    BY <2>1 DEF SrvReq
<1>4. sreq'[q] = new
  BY <1>1
<1>5. SrvTypes'
  <2>1. sreq' \in [SrvProc -> SrvReq]
    BY <1>1, <1>2, <1>3, <1>4
  <2> QED
    BY <1>1, <2>1 DEF SrvInv, SrvTypes
<1>6. Programmed'
  <2> SUFFICES ASSUME NEW p \in SrvProc
               PROVE  /\ sreq'[p].op = "none" => sreq'[p].rest = <<>>
                      /\ sreq'[p].op # "none" => sreq'[p].h \in Host
                      /\ sreq'[p].op \in PanelOps => sreq'[p].rest \in PanelRest
                      /\ sreq'[p].op \notin PanelOps => sreq'[p].rest \in RebuildRest
    BY DEF Programmed
  <2>1. CASE p = q
    BY <1>2, <1>4, <2>1
  <2>2. CASE p # q
    BY <1>3, <2>2 DEF SrvInv, Programmed
  <2> QED
    BY <2>1, <2>2
<1>7. Exact'
  BY <1>1, SameExact
<1>8. \A h \in Host : Same(h) /\ (Agree(h)' <=> Agree(h)) /\ (Live(h)' <=> Live(h))
  BY <1>1, SameAgree DEF Same
<1>9. AloneKnows'
  <2> SUFFICES ASSUME NEW p \in SrvProc, sreq'[p].op # "none", sreq'[p].alone
               PROVE  /\ \A o \in SrvProc \ {p} : sreq'[o].op # "none" => sreq'[o].h # sreq'[p].h
                      /\ Knows(p)'
    BY DEF AloneKnows
  <2>1. CASE p = q
    <3>1. Busy(own) = {}
      BY <1>2, <1>4, <2>1
    <3>2. \A o \in SrvProc \ {p} : sreq'[o].op # "none" => sreq'[o].h # sreq'[p].h
      BY <1>2, <1>3, <1>4, <2>1, <3>1 DEF Busy
    <3>3. own \notin mixed => Agree(own)
      BY <3>1 DEF SrvInv, Settled, Agree
    <3>4. sreq'[q].rest # <<>> /\ SrvHead(q)' \notin {"swap", "build", "remove"}
      BY <1>2, <1>4 DEF First, SrvHead
    <3> QED
      BY <1>1, <1>2, <1>4, <1>8, <2>1, <3>2, <3>3, <3>4 DEF Knows
  <2>2. CASE p # q
    <3>1. sreq[p].op # "none" /\ sreq[p].alone /\ p \notin Busy(own)
      BY <1>3, <2>2
    <3>2. sreq[p].h # own /\ sreq[p].h \in Host
      BY <3>1 DEF Busy, SrvInv, Programmed
    <3>3. Knows(p) /\ \A o \in SrvProc \ {p} : sreq[o].op # "none" => sreq[o].h # sreq[p].h
      BY <3>1 DEF SrvInv, AloneKnows
    <3>4. \A o \in SrvProc \ {p} : sreq'[o].op # "none" => sreq'[o].h # sreq'[p].h
      BY <1>2, <1>3, <1>4, <2>2, <3>2, <3>3
    <3>5. SrvHead(p)' = SrvHead(p)
      BY <1>3, <2>2 DEF SrvHead
    <3> QED
      BY <1>1, <1>3, <1>8, <2>2, <3>2, <3>3, <3>4, <3>5 DEF Knows
  <2> QED
    BY <2>1, <2>2
<1>10. Settled'
  <2> SUFFICES ASSUME NEW h \in Host, Busy(h)' = {}, h \notin mixed' PROVE Agree(h)'
    BY DEF Settled, Agree
  <2>1. Busy(h) = {}
    BY <1>1, <1>3 DEF Busy
  <2> QED
    BY <1>1, <1>8, <2>1 DEF SrvInv, Settled, Agree
<1> QED
  BY <1>5, <1>6, <1>7, <1>9, <1>10 DEF SrvInv

\* The panel starts again: LoadAll builds everything from the rows.
LEMMA RestartInv ==
  ASSUME SrvInv, SrvRestart
  PROVE  SrvInv'
<1>1. SrvIdle \in SrvReq /\ SrvIdle.op = "none" /\ SrvIdle.rest = <<>>
  BY DEF SrvIdle, SrvReq, PanelRest, InstName
<1>2. /\ inst' = [h \in Host |-> Seeded(h)] /\ UNCHANGED srv /\ mixed' = {}
      /\ sreq' = [q \in SrvProc |-> SrvIdle]
      /\ registry' = UNION {{<<h, i, srv[h].ver>> : i \in inst'[h]} : h \in {x \in Host : Live(x)}}
      /\ pool' = [h \in Host |-> IF Live(h) THEN srv[h].ver ELSE 0]
      /\ names' = [h \in Host |-> IF Live(h) THEN inst'[h] ELSE {}]
  BY DEF SrvRestart, LoadAll
<1>3. inst' \in [Host -> SUBSET InstName]
  <2>1. \A h \in Host : Seeded(h) \in SUBSET InstName
    BY SeedAssumption DEF SrvInv, SrvTypes, Seeded, InstName
  <2> QED
    BY <1>2, <2>1
<1>4. SrvTypes'
  <2>1. pool' \in [Host -> Nat]
    BY <1>2 DEF SrvInv, SrvTypes, SrvRow
  <2>2. names' \in [Host -> SUBSET InstName]
    BY <1>2, <1>3
  <2> QED
    BY <1>1, <1>2, <1>3, <2>1, <2>2 DEF SrvInv, SrvTypes
<1>5. Programmed' /\ AloneKnows'
  BY <1>1, <1>2 DEF Programmed, AloneKnows, PanelOps, RebuildRest
<1>6. Exact'
  <2>1. ASSUME NEW e \in registry' PROVE \E h \in Host : \E i \in names'[h] : e = <<h, i, pool'[h]>>
    <3>1. PICK h \in Host : Live(h) /\ \E i \in inst'[h] : e = <<h, i, srv[h].ver>>
      BY <1>2, <2>1
    <3> QED
      BY <1>2, <3>1
  <2>2. ASSUME NEW h \in Host, NEW i \in names'[h] PROVE <<h, i, pool'[h]>> \in registry'
    <3>1. Live(h) /\ i \in inst'[h] /\ pool'[h] = srv[h].ver
      BY <1>2, <2>2
    <3> QED
      BY <1>2, <3>1
  <2> QED
    BY <2>1, <2>2 DEF Exact
<1>7. Settled'
  BY <1>2 DEF Settled, Live
<1> QED
  BY <1>4, <1>5, <1>6, <1>7 DEF SrvInv

\* Nothing is configured at first.
LEMMA SrvInitInv == SrvInit => SrvInv
<1> SUFFICES ASSUME SrvInit PROVE SrvInv
  OBVIOUS
<1>1. SrvIdle \in SrvReq /\ SrvIdle.op = "none" /\ SrvIdle.rest = <<>>
  BY DEF SrvIdle, SrvReq, PanelRest, InstName
<1>2. SrvTypes
  BY <1>1 DEF SrvInit, SrvTypes, NoRow, SrvRow
<1>3. Programmed /\ AloneKnows
  BY <1>1 DEF SrvInit, Programmed, AloneKnows, PanelOps, RebuildRest
<1>4. Exact /\ Settled
  BY DEF SrvInit, Exact, Settled, Live, NoRow
<1> QED
  BY <1>2, <1>3, <1>4 DEF SrvInv

\* Every step of the requests, and a restart.
LEMMA SrvStepInv == SrvInv /\ [SrvNext]_srvVars => SrvInv'
<1> SUFFICES ASSUME SrvInv, [SrvNext]_srvVars PROVE SrvInv'
  OBVIOUS
<1>1. ASSUME NEW q \in SrvProc, FailStatement(q) PROVE SrvInv'
  BY <1>1, AbortInv DEF FailStatement
<1>2. ASSUME NEW q \in SrvProc, NoSuchServer(q) PROVE SrvInv'
  BY <1>2, AbortInv DEF NoSuchServer
<1>3. ASSUME NEW q \in SrvProc, SrvStep(q) PROVE SrvInv'
  BY <1>1, <1>2, <1>3, BootstrapInv, CreateServerInv, GetServerInv, UpdateServerInv, EnabledInv,
     SetPanelInv, ClearPanelInv, WipeInv, DeleteServerInv, ValidateInv, CreateInstanceInv,
     DeleteInstanceInv, PatchInstanceInv, RebuildGetInv, BuildInv, SeedFailsInv, SwapInv,
     RemoveInv, DoneInv
  DEF SrvStep
<1>4. ASSUME NEW q \in SrvProc, NEW op \in HostOps, NEW h \in Host, Begin(q, op, h, "") PROVE SrvInv'
  BY <1>4, BeginInv DEF InstName
<1>5. ASSUME NEW q \in SrvProc, NEW op \in InstOps, NEW h \in Host, NEW i \in Instance, Begin(q, op, h, i)
      PROVE  SrvInv'
  BY <1>5, BeginInv DEF InstName
<1>6. CASE UNCHANGED srvVars
  BY <1>6 DEF srvVars, SrvInv, SrvTypes, Programmed, Exact, AloneKnows, Knows, Agree, Live, SrvHead,
              Settled, Busy
<1> QED
  BY <1>3, <1>4, <1>5, <1>6, RestartInv DEF SrvNext

\* However requests on one server overlap or fail, the registry holds exactly
\* the providers the manager remembers, made from its one open client.
THEOREM ServersTracked == SrvSpec => []RegistryTracked
<1>1. SrvInv => RegistryTracked
  <2> SUFFICES ASSUME SrvInv, NEW h \in Host
               PROVE  {<<e[2], e[3]>> : e \in {x \in registry : x[1] = h}} =
                      {<<i, pool[h]>> : i \in names[h]}
    BY DEF RegistryTracked
  <2>1. ASSUME NEW e \in registry, e[1] = h
        PROVE  \E i \in names[h] : <<e[2], e[3]>> = <<i, pool[h]>>
    BY <2>1 DEF SrvInv, Exact
  <2>2. ASSUME NEW i \in names[h]
        PROVE  \E e \in registry : e[1] = h /\ <<e[2], e[3]>> = <<i, pool[h]>>
    <3>1. <<h, i, pool[h]>> \in registry
      BY DEF SrvInv, Exact
    <3> QED
      BY <3>1
  <2> QED
    BY <2>1, <2>2
<1> QED
  BY <1>1, SrvInitInv, SrvStepInv, PTL DEF SrvSpec

\* Once the requests on a server are done, and unless the last ones overlapped or
\* failed, what the manager holds of it is what its rows say.
THEOREM ServersSettled == SrvSpec => []Settled
<1>1. SrvInv => Settled
  BY DEF SrvInv
<1> QED
  BY <1>1, SrvInitInv, SrvStepInv, PTL DEF SrvSpec

-----------------------------------------------------------------------------
(* Xray *)

XInst == [strategy : Strategy \cup {"none"}, secret : Nat, chained : BOOLEAN]
XCred == [kind : {"none", "uuid", "password"}, n : Nat]
XConf == [inst : XInst, clients : SUBSET XCred]
XReq == [pc : {"idle", "persist", "ensure", "add", "save", "get", "list", "write", "restart"},
         strategy : Strategy \cup {"none"}, relay : {"keep", "direct", "chain"}, name : XName,
         read : XInst, list : SUBSET XCred, again : BOOLEAN, alone : BOOLEAN]

XrayTypes ==
  /\ xinst \in XInst /\ xclients \in [XName -> XCred] /\ made \in Nat
  /\ xconfig \in XConf /\ xlive \in XConf
  /\ xreq \in [XProc -> XReq] /\ unsure \in BOOLEAN

Rows == BuildInbound(xinst, ListClients)

\* A change that nothing has overlapped is the only one, and what it has read
\* and written is what the rows say.
AloneBuilds ==
  \A p \in XProc : xreq[p].pc # "idle" /\ xreq[p].alone =>
    /\ \A o \in XProc \ {p} : xreq[o].pc = "idle"
    /\ xreq[p].pc \in {"list", "write"} => xreq[p].read = xinst
    /\ xreq[p].pc = "write" => xreq[p].list = ListClients
    /\ xreq[p].pc = "restart" => xconfig = Rows

\* Overlapping changes are remembered until all of them have ended.
OverlapNoted == \A p \in XProc : xreq[p].pc # "idle" /\ ~xreq[p].alone => unsure

\* The file is in order too, not only the service: it may be restarted.
FileSettled ==
  Quiet /\ ~unsure /\ xinst # NoInst /\ ListClients # {} => xconfig = Rows /\ xlive = Rows

XrayInv == XrayTypes /\ AloneBuilds /\ OverlapNoted /\ FileSettled

\* Rows and requests have their types.
LEMMA XrayShapes ==
  /\ NoInst \in XInst /\ NoCred \in XCred /\ NoConfig \in XConf /\ XIdle \in XReq
  /\ XIdle.pc = "idle"
  /\ XrayTypes => ListClients \in SUBSET XCred
<1>1. NoInst \in XInst /\ NoCred \in XCred
  BY DEF NoInst, NoCred, XInst, XCred
<1>2. NoConfig \in XConf
  BY <1>1 DEF NoConfig, XConf
<1>3. XIdle \in XReq /\ XIdle.pc = "idle"
  BY <1>1, XrayAssumption DEF XIdle, XReq
<1>4. XrayTypes => ListClients \in SUBSET XCred
  BY DEF XrayTypes, ListClients
<1> QED
  BY <1>1, <1>2, <1>3, <1>4

\* A request of the panel begins.
LEMMA XrayStart ==
  ASSUME XrayInv, NEW p \in XProc, NEW r \in XReq,
         r.pc \in {"persist", "add", "get"}, Start(p, r), XrayTypes'
  PROVE  XrayInv'
<1> DEFINE others == {o \in XProc \ {p} : xreq[o].pc # "idle"}
<1>1. PICK b \in BOOLEAN : b = (others = {})
  OBVIOUS
<1>2. /\ xreq[p].pc = "idle" /\ unsure' = (unsure \/ ~b)
      /\ xreq' = [o \in XProc |-> IF o = p THEN [r EXCEPT !.alone = b]
                                  ELSE [xreq[o] EXCEPT !.alone = FALSE]]
  BY <1>1 DEF Start
<1>3. xreq'[p].pc = r.pc /\ xreq'[p].alone = b
  BY <1>2 DEF XReq
<1>4. \A o \in XProc \ {p} : xreq'[o].pc = xreq[o].pc /\ xreq'[o].alone = FALSE
  BY <1>2 DEF XrayInv, XrayTypes, XReq
<1>5. AloneBuilds'
  BY <1>1, <1>3, <1>4 DEF AloneBuilds
<1>6. OverlapNoted'
  BY <1>1, <1>2, <1>3, <1>4 DEF OverlapNoted
<1>7. FileSettled'
  BY <1>3 DEF FileSettled, Quiet
<1> QED
  BY <1>5, <1>6, <1>7 DEF XrayInv

\* It goes on.
LEMMA XrayLocal ==
  ASSUME XrayInv, NEW p \in XProc, NEW r \in XReq, xreq[p].pc # "idle", r.pc # "idle",
         r.alone = xreq[p].alone, xreq' = [xreq EXCEPT ![p] = r], UNCHANGED unsure, XrayTypes',
         r.alone => /\ r.pc \in {"list", "write"} => r.read = xinst'
                    /\ r.pc = "write" => r.list = ListClients'
                    /\ r.pc = "restart" => xconfig' = Rows'
  PROVE  XrayInv'
<1>1. xreq'[p] = r /\ \A o \in XProc \ {p} : xreq'[o] = xreq[o]
  BY DEF XrayInv, XrayTypes
<1>2. AloneBuilds'
  <2> SUFFICES ASSUME NEW o \in XProc, xreq'[o].pc # "idle", xreq'[o].alone
               PROVE  /\ \A q \in XProc \ {o} : xreq'[q].pc = "idle"
                      /\ xreq'[o].pc \in {"list", "write"} => xreq'[o].read = xinst'
                      /\ xreq'[o].pc = "write" => xreq'[o].list = ListClients'
                      /\ xreq'[o].pc = "restart" => xconfig' = Rows'
    BY DEF AloneBuilds
  <2>1. o = p
    BY <1>1 DEF XrayInv, AloneBuilds
  <2>2. \A q \in XProc \ {o} : xreq'[q].pc = "idle"
    BY <1>1, <2>1 DEF XrayInv, AloneBuilds
  <2> QED
    BY <1>1, <2>1, <2>2
<1>3. OverlapNoted'
  BY <1>1 DEF XrayInv, OverlapNoted
<1>4. FileSettled'
  BY <1>1 DEF FileSettled, Quiet
<1> QED
  BY <1>2, <1>3, <1>4 DEF XrayInv

\* It ends.
LEMMA XrayEnds ==
  ASSUME XrayInv, NEW p \in XProc, xreq[p].pc # "idle", NEW failed \in BOOLEAN, Ends(p, failed),
         XrayTypes', ~failed /\ xreq[p].alone => xconfig' = Rows' /\ xlive' = Rows'
  PROVE  XrayInv'
<1>1. /\ xreq'[p] = XIdle /\ \A o \in XProc \ {p} : xreq'[o] = xreq[o]
      /\ XIdle.pc = "idle" /\ xreq[p].alone \in BOOLEAN /\ unsure \in BOOLEAN
      /\ unsure' = (failed \/ (unsure /\ ~xreq[p].alone))
  BY XrayShapes DEF XrayInv, XrayTypes, XReq, Ends
<1>2. AloneBuilds'
  BY <1>1 DEF XrayInv, AloneBuilds
<1>3. OverlapNoted'
  BY <1>1 DEF XrayInv, OverlapNoted, AloneBuilds
<1>4. FileSettled'
  <2>1. CASE ~unsure'
    <3>1. ~failed /\ xreq[p].alone
      BY <1>1, <2>1 DEF XrayInv, OverlapNoted
    <3> QED
      BY <3>1 DEF FileSettled
  <2> QED
    BY <1>1, <2>1 DEF FileSettled
<1> QED
  BY <1>2, <1>3, <1>4 DEF XrayInv

\* The types, when a request begins.
LEMMA StartTypes ==
  ASSUME XrayInv, NEW p \in XProc, NEW r \in XReq, Start(p, r),
         UNCHANGED <<xinst, made, xconfig, xlive>>, xclients' \in [XName -> XCred]
  PROVE  XrayTypes'
<1> DEFINE others == {o \in XProc \ {p} : xreq[o].pc # "idle"}
<1>1. PICK b \in BOOLEAN : b = (others = {})
  OBVIOUS
<1>2. /\ unsure' \in BOOLEAN
      /\ xreq' = [o \in XProc |-> IF o = p THEN [r EXCEPT !.alone = b]
                                  ELSE [xreq[o] EXCEPT !.alone = FALSE]]
  BY <1>1 DEF Start
<1>3. [r EXCEPT !.alone = b] \in XReq
  BY DEF XReq
<1>4. \A o \in XProc : [xreq[o] EXCEPT !.alone = FALSE] \in XReq
  BY DEF XrayInv, XrayTypes, XReq
<1>5. xreq' \in [XProc -> XReq]
  BY <1>2, <1>3, <1>4
<1> QED
  BY <1>2, <1>5 DEF XrayInv, XrayTypes

\* A request that forgets what it has read.
ForgetOf(p, pc, r) ==
  /\ xreq' = [xreq EXCEPT ![p] = r] /\ r.pc = pc /\ r.alone = xreq[p].alone

LEMMA XForget ==
  ASSUME XrayInv, NEW p \in XProc, NEW pc \in {"ensure", "get", "restart"}, Forget(p, pc)
  PROVE  \E r \in XReq : ForgetOf(p, pc, r)
<1>1. xreq[p].again \in BOOLEAN /\ xreq[p].alone \in BOOLEAN
  BY DEF XrayInv, XrayTypes, XReq
<1> DEFINE r == [XIdle EXCEPT !.pc = pc, !.again = xreq[p].again, !.alone = xreq[p].alone]
<1>2. r \in XReq /\ r.pc = pc /\ r.alone = xreq[p].alone
  BY <1>1, XrayShapes DEF XReq
<1> QED
  BY <1>2 DEF Forget, ForgetOf

\* A call fails.
LEMMA XFailInv ==
  ASSUME XrayInv, NEW p \in XProc, Fail(p)
  PROVE  XrayInv'
<1>1. XrayTypes'
  BY XrayShapes DEF XrayInv, XrayTypes, Fail, Ends
<1> QED
  BY <1>1, XrayEnds DEF Fail, At

\* Apply reads the instance.
LEMMA XApplyInv ==
  ASSUME XrayInv, NEW p \in XProc, NEW s \in Strategy, NEW relay \in {"keep", "direct", "chain"},
         NEW cur \in {xinst, NoInst}, Apply(p, s, relay, cur)
  PROVE  XrayInv'
<1> DEFINE r == [XIdle EXCEPT !.pc = "persist", !.strategy = s, !.relay = relay, !.read = cur]
<1>1. r \in XReq /\ r.pc = "persist"
  BY XrayShapes, XrayAssumption DEF XrayInv, XrayTypes, XIdle, XReq
<1> HIDE DEF r
<1>2. /\ Start(p, r) /\ UNCHANGED <<xinst, made, xconfig, xlive>>
      /\ xclients' \in [XName -> XCred]
  BY DEF Apply, r, XrayInv, XrayTypes
<1>3. XrayTypes'
  BY <1>1, <1>2, StartTypes
<1> QED
  BY <1>1, <1>2, <1>3, XrayStart

\* A client is to be added.
LEMMA XAddInv ==
  ASSUME XrayInv, NEW p \in XProc, NEW n \in XName, apiXrayAddClient(p, n)
  PROVE  XrayInv'
<1> DEFINE r == [XIdle EXCEPT !.pc = "add", !.name = n]
<1>1. r \in XReq /\ r.pc = "add"
  BY XrayShapes, XrayAssumption DEF XIdle, XReq
<1> HIDE DEF r
<1>2. /\ Start(p, r) /\ UNCHANGED <<xinst, made, xconfig, xlive>>
      /\ xclients' \in [XName -> XCred]
  BY DEF apiXrayAddClient, r, XrayInv, XrayTypes
<1>3. XrayTypes'
  BY <1>1, <1>2, StartTypes
<1> QED
  BY <1>1, <1>2, <1>3, XrayStart

\* A client is removed from the table.
LEMMA XRemoveInv ==
  ASSUME XrayInv, NEW p \in XProc, NEW n \in XName, apiXrayRemoveClient(p, n)
  PROVE  XrayInv'
<1> DEFINE r == [XIdle EXCEPT !.pc = "get"]
<1>1. r \in XReq /\ r.pc = "get"
  BY XrayShapes, XrayAssumption DEF XIdle, XReq
<1> HIDE DEF r
<1>2. /\ Start(p, r) /\ UNCHANGED <<xinst, made, xconfig, xlive>>
      /\ xclients' \in [XName -> XCred]
  BY XrayShapes DEF apiXrayRemoveClient, r, XrayInv, XrayTypes
<1>3. XrayTypes'
  BY <1>1, <1>2, StartTypes
<1> QED
  BY <1>1, <1>2, <1>3, XrayStart

\* Apply stores the instance.
LEMMA XPersistInv ==
  ASSUME XrayInv, NEW p \in XProc, ApplyPersist(p)
  PROVE  XrayInv'
<1>1. PICK r \in XReq : ForgetOf(p, "ensure", r)
  BY XForget DEF ApplyPersist, At
<1>2. xreq[p] \in XReq /\ xreq[p].read \in XInst
  BY DEF XrayInv, XrayTypes, XReq
<1>3. made' \in Nat
  BY DEF ApplyPersist, XrayInv, XrayTypes
<1>4. xinst' \in XInst
  BY <1>2, <1>3 DEF ApplyPersist, XInst, XReq
<1>5. XrayTypes'
  BY <1>1, <1>3, <1>4 DEF ApplyPersist, ForgetOf, XrayInv, XrayTypes
<1> QED
  BY <1>1, <1>5, XrayLocal DEF ForgetOf, ApplyPersist, At

\* The default client, or straight on to the rebuild.
LEMMA XEnsureInv ==
  ASSUME XrayInv, NEW p \in XProc, ApplyEnsureClient(p)
  PROVE  XrayInv'
<1>1. xreq[p] \in XReq
  BY DEF XrayInv, XrayTypes
<1> DEFINE r == IF ListClients = {} THEN [xreq[p] EXCEPT !.pc = "add", !.again = TRUE]
                ELSE [xreq[p] EXCEPT !.pc = "get"]
<1>2. r \in XReq /\ r.alone = xreq[p].alone /\ r.pc \in {"add", "get"}
  BY <1>1 DEF XReq
<1>3. xreq' = [xreq EXCEPT ![p] = r]
  BY <1>1 DEF ApplyEnsureClient, XGoto, XrayInv, XrayTypes, XReq
<1> HIDE DEF r
<1>4. XrayTypes'
  BY <1>2, <1>3 DEF ApplyEnsureClient, XrayInv, XrayTypes
<1> QED
  BY <1>2, <1>3, <1>4, XrayLocal DEF ApplyEnsureClient, At

\* AddClient's checks pass.
LEMMA XCheckInv ==
  ASSUME XrayInv, NEW p \in XProc, AddClientCheck(p)
  PROVE  XrayInv'
<1>1. xreq[p] \in XReq /\ xinst \in XInst
  BY DEF XrayInv, XrayTypes
<1> DEFINE r == [xreq[p] EXCEPT !.pc = "save", !.read = xinst]
<1>2. r \in XReq /\ r.alone = xreq[p].alone /\ r.pc = "save"
  BY <1>1 DEF XReq
<1>3. xreq' = [xreq EXCEPT ![p] = r]
  BY <1>1 DEF AddClientCheck, XrayInv, XrayTypes, XReq
<1> HIDE DEF r
<1>4. XrayTypes'
  BY <1>2, <1>3 DEF AddClientCheck, XrayInv, XrayTypes
<1> QED
  BY <1>2, <1>3, <1>4, XrayLocal DEF AddClientCheck, At

\* Or do not.
LEMMA XRefusedInv ==
  ASSUME XrayInv, NEW p \in XProc, AddClientRefused(p)
  PROVE  XrayInv'
<1>1. XrayTypes'
  BY XrayShapes DEF XrayInv, XrayTypes, AddClientRefused, Ends
<1> QED
  BY <1>1, XrayEnds DEF AddClientRefused, At

\* The client is stored.
LEMMA XSaveInv ==
  ASSUME XrayInv, NEW p \in XProc, SaveXrayClient(p)
  PROVE  XrayInv'
<1>1. PICK r \in XReq : ForgetOf(p, "get", r)
  BY XForget DEF SaveXrayClient, At
<1>2. xreq[p].name \in XName /\ made' \in Nat
  BY DEF SaveXrayClient, XrayInv, XrayTypes, XReq
<1>3. [kind |-> Cred(xreq[p].read.strategy), n |-> made'] \in XCred
  BY <1>2 DEF Cred, XCred
<1>4. xclients' \in [XName -> XCred]
  BY <1>3 DEF SaveXrayClient, XrayInv, XrayTypes
<1>5. XrayTypes'
  BY <1>1, <1>2, <1>4 DEF SaveXrayClient, ForgetOf, XrayInv, XrayTypes
<1> QED
  BY <1>1, <1>5, XrayLocal DEF ForgetOf, SaveXrayClient, At

\* rebuild reads the instance.
LEMMA XInstanceInv ==
  ASSUME XrayInv, NEW p \in XProc, RebuildInstance(p)
  PROVE  XrayInv'
<1>1. xreq[p] \in XReq /\ xinst \in XInst /\ ListClients \in SUBSET XCred
  BY XrayShapes DEF XrayInv, XrayTypes
<1>2. CASE Ends(p, TRUE)
  <2>1. XrayTypes'
    BY <1>2, XrayShapes DEF XrayInv, XrayTypes, RebuildInstance, Ends
  <2> QED
    BY <1>2, <2>1, XrayEnds DEF RebuildInstance, At
<1>3. CASE ~Ends(p, TRUE)
  <2> DEFINE r == [xreq[p] EXCEPT !.pc = "list", !.read = xinst]
  <2>1. r \in XReq /\ r.alone = xreq[p].alone /\ r.pc = "list" /\ r.read = xinst
    BY <1>1 DEF XReq
  <2>2. xreq' = [xreq EXCEPT ![p] = r] /\ UNCHANGED unsure
    BY <1>1, <1>3 DEF RebuildInstance, XrayInv, XrayTypes, XReq
  <2> HIDE DEF r
  <2>3. XrayTypes'
    BY <2>1, <2>2 DEF RebuildInstance, XrayInv, XrayTypes
  <2>4. xinst' = xinst /\ ListClients' = ListClients
    BY DEF RebuildInstance, ListClients
  <2>5. xreq[p].alone /\ xreq[p].pc = "list" => xreq[p].read = xinst
    BY DEF XrayInv, AloneBuilds
  <2> QED
    BY <2>1, <2>2, <2>3, <2>4, <2>5, XrayLocal DEF RebuildInstance, At
<1> QED
  BY <1>2, <1>3

\* It reads the clients.
LEMMA XClientsInv ==
  ASSUME XrayInv, NEW p \in XProc, RebuildClients(p)
  PROVE  XrayInv'
<1>1. xreq[p] \in XReq /\ xinst \in XInst /\ ListClients \in SUBSET XCred
  BY XrayShapes DEF XrayInv, XrayTypes
<1>2. CASE Ends(p, TRUE)
  <2>1. XrayTypes'
    BY <1>2, XrayShapes DEF XrayInv, XrayTypes, RebuildClients, Ends
  <2> QED
    BY <1>2, <2>1, XrayEnds DEF RebuildClients, At
<1>3. CASE ~Ends(p, TRUE)
  <2> DEFINE r == [xreq[p] EXCEPT !.pc = "write", !.list = ListClients]
  <2>1. r \in XReq /\ r.alone = xreq[p].alone /\ r.pc = "write" /\ r.list = ListClients /\ r.read = xreq[p].read
    BY <1>1 DEF XReq
  <2>2. xreq' = [xreq EXCEPT ![p] = r] /\ UNCHANGED unsure
    BY <1>1, <1>3 DEF RebuildClients, XrayInv, XrayTypes, XReq
  <2> HIDE DEF r
  <2>3. XrayTypes'
    BY <2>1, <2>2 DEF RebuildClients, XrayInv, XrayTypes
  <2>4. xinst' = xinst /\ ListClients' = ListClients
    BY DEF RebuildClients, ListClients
  <2>5. xreq[p].alone /\ xreq[p].pc = "list" => xreq[p].read = xinst
    BY DEF XrayInv, AloneBuilds
  <2> QED
    BY <2>1, <2>2, <2>3, <2>4, <2>5, XrayLocal DEF RebuildClients, At
<1> QED
  BY <1>2, <1>3

\* The config file is written.
LEMMA XWriteInv ==
  ASSUME XrayInv, NEW p \in XProc, RebuildWrite(p)
  PROVE  XrayInv'
<1>1. PICK r \in XReq : ForgetOf(p, "restart", r)
  BY XForget DEF RebuildWrite, At
<1>2. xreq[p].read \in XInst /\ xreq[p].list \in SUBSET XCred
  BY DEF XrayInv, XrayTypes, XReq
<1>3. xconfig' \in XConf
  BY <1>2, XrayShapes DEF RebuildWrite, BuildInbound, XConf
<1>4. XrayTypes'
  BY <1>1, <1>3 DEF RebuildWrite, ForgetOf, XrayInv, XrayTypes
<1>5. xreq[p].alone => xconfig' = Rows'
  <2>1. xreq[p].alone => xreq[p].read = xinst /\ xreq[p].list = ListClients
    BY DEF RebuildWrite, XrayInv, AloneBuilds, At
  <2>2. Rows' = Rows
    BY DEF RebuildWrite, Rows, ListClients, BuildInbound
  <2> QED
    BY <2>1, <2>2 DEF RebuildWrite, Rows
<1> QED
  BY <1>1, <1>4, <1>5, XrayLocal DEF ForgetOf, RebuildWrite, At

\* The service is restarted.
LEMMA XRestartInv ==
  ASSUME XrayInv, NEW p \in XProc, RebuildRestart(p)
  PROVE  XrayInv'
<1>1. /\ xreq[p] \in XReq /\ xreq[p].again \in BOOLEAN /\ xlive' = xconfig
      /\ UNCHANGED <<xinst, xclients, made, xconfig>> /\ xreq[p].pc = "restart"
  BY DEF XrayInv, XrayTypes, RebuildRestart, At, XReq
<1>2. CASE xreq[p].again
  <2> DEFINE r == [xreq[p] EXCEPT !.pc = "get", !.again = FALSE]
  <2>1. r \in XReq /\ r.alone = xreq[p].alone /\ r.pc = "get"
    BY <1>1 DEF XReq
  <2>2. xreq' = [xreq EXCEPT ![p] = r] /\ UNCHANGED unsure
    BY <1>1, <1>2 DEF RebuildRestart, XrayInv, XrayTypes, XReq
  <2> HIDE DEF r
  <2>3. XrayTypes'
    BY <1>1, <2>1, <2>2 DEF XrayInv, XrayTypes
  <2> QED
    BY <1>1, <2>1, <2>2, <2>3, XrayLocal
<1>3. CASE ~xreq[p].again
  <2>1. Ends(p, FALSE)
    BY <1>3 DEF RebuildRestart
  <2>2. XrayTypes'
    BY <1>1, <2>1, XrayShapes DEF XrayInv, XrayTypes, XReq, Ends
  <2>3. xreq[p].alone => xconfig' = Rows' /\ xlive' = Rows'
    BY <1>1 DEF XrayInv, AloneBuilds, Rows, ListClients
  <2> QED
    BY <1>1, <2>1, <2>2, <2>3, XrayEnds
<1> QED
  BY <1>1, <1>2, <1>3

\* The service restarts by itself.
LEMMA XServiceInv ==
  ASSUME XrayInv, ServiceRestarts
  PROVE  XrayInv'
<1>1. XrayTypes' /\ OverlapNoted'
  BY DEF ServiceRestarts, XrayInv, XrayTypes, OverlapNoted
<1>2. AloneBuilds' /\ FileSettled'
  BY DEF ServiceRestarts, XrayInv, AloneBuilds, FileSettled, Rows, ListClients, Quiet
<1> QED
  BY <1>1, <1>2 DEF XrayInv

\* No instance, no clients, no request.
LEMMA XrayInitInv == XrayInit => XrayInv
<1> SUFFICES ASSUME XrayInit PROVE XrayInv
  OBVIOUS
<1>1. XrayTypes
  BY XrayShapes DEF XrayInit, XrayTypes
<1>2. AloneBuilds /\ OverlapNoted /\ FileSettled
  BY XrayShapes DEF XrayInit, AloneBuilds, OverlapNoted, FileSettled
<1> QED
  BY <1>1, <1>2 DEF XrayInv

\* Every step of the provider and of the service.
LEMMA XrayStepInv == XrayInv /\ [XrayNext]_xrayVars => XrayInv'
<1> SUFFICES ASSUME XrayInv, [XrayNext]_xrayVars PROVE XrayInv'
  OBVIOUS
<1>1. CASE UNCHANGED xrayVars
  BY <1>1 DEF xrayVars, XrayInv, XrayTypes, AloneBuilds, OverlapNoted, FileSettled, Rows,
              ListClients, Quiet
<1> QED
  BY <1>1, XServiceInv, XFailInv, XApplyInv, XAddInv, XRemoveInv, XPersistInv, XEnsureInv, XCheckInv,
     XRefusedInv, XSaveInv, XInstanceInv, XClientsInv, XWriteInv, XRestartInv
  DEF XrayNext

\* Once a change has ended that neither failed nor overlapped another, the
\* service runs this instance with exactly these clients.
THEOREM XrayInOrder == XraySpec => []XraySettled
<1>1. XrayInv => XraySettled
  BY DEF XrayInv, FileSettled, XraySettled, Rows
<1> QED
  BY <1>1, XrayInitInv, XrayStepInv, PTL DEF XraySpec

=============================================================================
