------------------------------- MODULE WebTLS -------------------------------
(***************************************************************************)
(* The certificate of the panel's own listener (internal/webtls): the      *)
(* settings row, the self-signed leaf that is kept ready in every mode as  *)
(* the fallback, the loop that renews it, and the certificate that a       *)
(* handshake gets.  Saves, forced reissues and the loop share Manager      *)
(* without a lock across their steps.                                      *)
(*                                                                         *)
(* A group of settings is the number of the save it is from, 0 before any  *)
(* (for `acme' no domains, for `manual' no certificate).  The unit of time *)
(* is the loop's interval; a request lasts less.                           *)
(***************************************************************************)
EXTENDS Naturals

CONSTANTS
    TlsProc,              \* admin requests served at the same time
    Loop,                 \* the renew loop
    Validity, RenewBefore,
    MaxTlsSave, MaxTlsFault, MaxTlsTime   \* bounds

ASSUME TlsAssumption ==
    /\ Loop \notin TlsProc
    /\ Validity \in Nat /\ RenewBefore \in Nat /\ RenewBefore < Validity

VARIABLES
    tlsRow,    \* tls_state: [mode, ss, acme, manual]
    tlsCA,     \* tls_self_signed has a CA
    leafRow,   \* its leaf: [of, exp], or NoLeaf
    phase,     \* the process: "down", "ca" (Load has the CA) or "up"
    noTLS,     \* the listener was started without TLS, behind a proxy
    mem,       \* Manager.state
    leaf, manualCert, acmeMgr,   \* what Manager serves from
    treq,      \* requests and the loop
    time, ticked, outdated,      \* the clock; the loop has run; uploads that have expired
    saves, tlsFault,
    saved,     \* history: the last save of each group
    mingled,   \* history: the last change failed or overlapped another
    crossed    \* history: two saves have overlapped

memVars == <<mem, leaf, manualCert, acmeMgr>>
histVars == <<saved, mingled, crossed>>
tlsVars == <<tlsRow, tlsCA, leafRow, phase, noTLS, memVars, treq, time, ticked, outdated,
             saves, tlsFault, histVars>>

Mode == {"self_signed", "acme", "manual", "proxy"}
defaultTLSState == [mode |-> "self_signed", ss |-> 0, acme |-> 0, manual |-> 0]
NoLeaf == [of |-> 0, exp |-> 0]
TlsIdle == [pc |-> "idle", st |-> defaultTLSState, new |-> NoLeaf, save |-> FALSE, alone |-> TRUE]
Actor == TlsProc \cup {Loop}

TlsInit ==
    /\ tlsRow = defaultTLSState /\ tlsCA = FALSE /\ leafRow = NoLeaf
    /\ phase = "down" /\ noTLS = FALSE
    /\ mem = defaultTLSState /\ leaf = NoLeaf /\ manualCert = 0 /\ acmeMgr = 0
    /\ treq = [p \in Actor |-> TlsIdle]
    /\ time = 1 /\ ticked = FALSE /\ outdated = {} /\ saves = 0 /\ tlsFault = 0
    /\ saved = [ss |-> 0, acme |-> 0, manual |-> 0] /\ mingled = FALSE /\ crossed = FALSE

IssueLeaf(st) == [of |-> st.ss, exp |-> time + Validity]
\* apply: the mode's own certificate source, if it can be built.
Wire(st) ==
    /\ mem' = st
    /\ acmeMgr' = IF st.mode = "acme" THEN st.acme ELSE 0
    /\ manualCert' = IF st.mode = "manual" THEN st.manual ELSE 0

-----------------------------------------------------------------------------
(* The process *)

\* Load: the CA is generated once ever ...
LoadCA ==
    /\ phase = "down" /\ phase' = "ca" /\ tlsCA' = TRUE
    /\ UNCHANGED <<tlsRow, leafRow, noTLS, memVars, treq, time, ticked, outdated, saves,
                   tlsFault, histVars>>
\* ... a missing or expiring leaf is issued, and the mode is wired.
LoadLeaf ==
    /\ phase = "ca" /\ phase' = "up"
    /\ leafRow' = IF leafRow = NoLeaf \/ leafRow.exp < time + RenewBefore
                  THEN IssueLeaf(tlsRow) ELSE leafRow
    /\ leaf' = leafRow' /\ Wire(tlsRow)
    /\ noTLS' = (tlsRow.mode = "proxy") /\ ticked' = FALSE
    /\ UNCHANGED <<tlsRow, tlsCA, treq, time, outdated, saves, tlsFault, histVars>>
Crash ==
    /\ phase # "down" /\ tlsFault < MaxTlsFault /\ tlsFault' = tlsFault + 1
    /\ phase' = "down" /\ treq' = [p \in Actor |-> TlsIdle]
    /\ mingled' = TRUE
    /\ UNCHANGED <<tlsRow, tlsCA, leafRow, noTLS, memVars, time, ticked, outdated, saves,
                   saved, crossed>>

Advance ==
    /\ time < MaxTlsTime /\ time' = time + 1
    /\ phase # "ca" /\ (phase = "up" => ticked)
    /\ \A p \in Actor : treq[p].pc = "idle"
    /\ ticked' = FALSE
    /\ UNCHANGED <<tlsRow, tlsCA, leafRow, phase, noTLS, memVars, treq, outdated, saves,
                   tlsFault, histVars>>
ManualExpires ==
    /\ tlsRow.manual \notin outdated \cup {0} /\ outdated' = outdated \cup {tlsRow.manual}
    /\ UNCHANGED <<tlsRow, tlsCA, leafRow, phase, noTLS, memVars, treq, time, ticked, saves,
                   tlsFault, histVars>>

-----------------------------------------------------------------------------
(* Changes *)

BeginChange(p, r) ==
    LET others == {q \in Actor \ {p} : treq[q].pc # "idle"} IN
    /\ phase = "up" /\ treq[p].pc = "idle"
    /\ treq' = [q \in Actor |-> IF q = p THEN [r EXCEPT !.alone = (others = {})]
                                ELSE [treq[q] EXCEPT !.alone = FALSE]]
    /\ mingled' = (mingled \/ others # {})
    /\ crossed' = (crossed \/ (r.save /\ \E q \in others : treq[q].save))
FinishChange(p) ==
    /\ treq' = [treq EXCEPT ![p] = TlsIdle]
    /\ mingled' = (mingled /\ ~(treq[p].alone /\ treq[p].save))
    /\ UNCHANGED <<saved, crossed>>

\* apiTLSUpdate: the group of the saved mode is replaced in the settings as they
\* were read; a manual save may keep the certificate there is.
NewStateOfRequest(existing, mode, n) ==
    [defaultTLSState EXCEPT !.mode = mode, !.ss = IF mode = "self_signed" THEN n ELSE 0,
        !.acme = IF mode = "acme" THEN n ELSE 0, !.manual = IF mode = "manual" THEN n ELSE existing.manual]
NewState(existing, mode, n) ==
    [mode |-> mode,
     ss |-> IF mode = "self_signed" THEN n ELSE existing.ss,
     acme |-> IF mode = "acme" THEN n ELSE existing.acme,
     manual |-> IF mode = "manual" THEN n ELSE existing.manual]
apiTLSUpdate(p, mode, upload) ==
    LET n == IF mode = "manual" /\ ~upload THEN tlsRow.manual ELSE saves + 1 IN
    /\ saves < MaxTlsSave /\ saves' = saves + 1
    /\ mode = "manual" => n # 0
    /\ BeginChange(p, [TlsIdle EXCEPT !.pc = "set", !.save = TRUE, !.st = NewState(tlsRow, mode, n)])
    /\ UNCHANGED <<tlsRow, tlsCA, leafRow, phase, noTLS, memVars, time, ticked, outdated,
                   tlsFault, saved>>
SetTLSState(p) ==
    LET st == treq[p].st IN
    /\ treq[p].pc = "set" /\ tlsRow' = st
    /\ saved' = CASE st.mode = "self_signed" -> [saved EXCEPT !.ss = st.ss]
                  [] st.mode = "acme" -> [saved EXCEPT !.acme = st.acme]
                  [] st.mode = "manual" -> [saved EXCEPT !.manual = st.manual]
                  [] OTHER -> saved
    /\ treq' = [treq EXCEPT ![p].pc = "issue"]
    /\ UNCHANGED <<tlsCA, leafRow, phase, noTLS, memVars, time, ticked, outdated, saves,
                   tlsFault, mingled, crossed>>
\* A forced reissue, and the loop, use the settings in memory.
ReissueSelfSigned(p) ==
    /\ BeginChange(p, [TlsIdle EXCEPT !.pc = "issue", !.st = mem])
    /\ UNCHANGED <<tlsRow, tlsCA, leafRow, phase, noTLS, memVars, time, ticked, outdated,
                   saves, tlsFault, saved>>
NotDue == leaf.exp > time + RenewBefore
RenewLoopSkips ==
    /\ phase = "up" /\ ~ticked /\ NotDue /\ ticked' = TRUE
    /\ UNCHANGED <<tlsRow, tlsCA, leafRow, phase, noTLS, memVars, treq, time, outdated, saves,
                   tlsFault, histVars>>
RenewOwnModeOnly ==
    /\ ~ticked /\ ticked' = TRUE
    /\ IF ~NotDue /\ mem.mode = "self_signed"
       THEN BeginChange(Loop, [TlsIdle EXCEPT !.pc = "issue", !.st = mem])
       ELSE phase = "up" /\ UNCHANGED <<treq, mingled, crossed>>
    /\ UNCHANGED <<tlsRow, tlsCA, leafRow, phase, noTLS, memVars, time, outdated, saves,
                   tlsFault, saved>>
RenewLoopReissues ==
    /\ ~ticked /\ ~NotDue /\ ticked' = TRUE
    /\ BeginChange(Loop, [TlsIdle EXCEPT !.pc = "issue", !.st = mem])
    /\ UNCHANGED <<tlsRow, tlsCA, leafRow, phase, noTLS, memVars, time, outdated, saves,
                   tlsFault, saved>>

\* reissueSelfSigned: the leaf is issued and saved ...
SaveLeaf(p) ==
    /\ treq[p].pc = "issue"
    /\ leafRow' = IssueLeaf(treq[p].st)
    /\ treq' = [treq EXCEPT ![p].pc = "load", ![p].new = leafRow']
    /\ UNCHANGED <<tlsRow, tlsCA, phase, noTLS, memVars, time, ticked, outdated, saves,
                   tlsFault, histVars>>
\* ... and served from then on.
SetLeaf(p) ==
    /\ treq[p].pc = "load" /\ leaf' = treq[p].new
    /\ IF treq[p].save
       THEN treq' = [treq EXCEPT ![p].pc = "apply", ![p].new = NoLeaf] /\ UNCHANGED histVars
       ELSE FinishChange(p)
    /\ UNCHANGED <<tlsRow, tlsCA, leafRow, phase, noTLS, mem, manualCert, acmeMgr, time, ticked,
                   outdated, saves, tlsFault>>
ApplyMode(p) ==
    /\ treq[p].pc = "apply" /\ Wire(treq[p].st) /\ FinishChange(p)
    /\ UNCHANGED <<tlsRow, tlsCA, leafRow, phase, noTLS, leaf, time, ticked, outdated, saves,
                   tlsFault>>
ChangeFails(p) ==
    /\ treq[p].pc \in {"set", "issue", "load"} /\ tlsFault < MaxTlsFault /\ tlsFault' = tlsFault + 1
    /\ treq' = [treq EXCEPT ![p] = TlsIdle] /\ mingled' = TRUE
    /\ UNCHANGED <<tlsRow, tlsCA, leafRow, phase, noTLS, memVars, time, ticked, outdated,
                   saves, saved, crossed>>

-----------------------------------------------------------------------------
\* GetCertificate: the mode's certificate, or the fallback.  "acme" is whatever
\* autocert answers with, which may be a certificate it has kept past its end while
\* renewals fail; or it fails.
GetCertificate(acmeWorks) ==
    CASE mem.mode = "acme" /\ acmeMgr # 0 /\ acmeWorks -> "acme"
      [] mem.mode = "manual" /\ manualCert # 0 /\ manualCert \notin outdated -> "manual"
      [] OTHER -> IF leaf # NoLeaf /\ time <= leaf.exp THEN "self_signed" ELSE "expired"

TlsNext ==
    \/ LoadCA \/ LoadLeaf \/ Crash \/ Advance \/ ManualExpires
    \/ RenewLoopSkips \/ RenewLoopReissues
    \/ \E p \in TlsProc :
         \/ \E mode \in Mode, upload \in BOOLEAN : apiTLSUpdate(p, mode, upload)
         \/ SetTLSState(p) \/ ReissueSelfSigned(p) \/ ApplyMode(p)
    \/ \E p \in Actor : SaveLeaf(p) \/ SetLeaf(p) \/ ChangeFails(p)

TlsSpec == TlsInit /\ [][TlsNext]_tlsVars

-----------------------------------------------------------------------------
(* Properties *)

\* Whatever is saved, reissued or restarted, and though one renewal may fail, no
\* handshake is given an expired certificate of the panel's own or an expired
\* upload, in any mode, as the fallback either.  What autocert serves is its own.
ServedValid ==
    phase = "up" /\ ~noTLS => \A works \in BOOLEAN : GetCertificate(works) # "expired"

\* When the last save ended without failing or overlapping another change, Manager
\* has the settings of the row and serves the leaf of the database, made from
\* them; and a save in one mode keeps the settings of the others, so that each
\* group is as it was last saved unless saves have overlapped.
TlsSettled ==
    /\ phase = "up" /\ ~mingled /\ (\A p \in Actor : treq[p].pc = "idle")
         => mem = tlsRow /\ leaf = leafRow /\ leaf.of = tlsRow.ss
    /\ ~crossed => tlsRow.ss = saved.ss /\ tlsRow.acme = saved.acme /\ tlsRow.manual = saved.manual

=============================================================================
