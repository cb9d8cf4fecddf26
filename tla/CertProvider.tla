---------------------------- MODULE CertProvider ----------------------------
(***************************************************************************)
(* The certificate based providers, OpenVPN and IKEv2: one Provider object *)
(* with its mutex and its cached CA, the rows of the database, the files   *)
(* of the host and what the VPN daemon has in force.                       *)
(*                                                                         *)
(* A method is a program: the sequence of the database statements and SSH  *)
(* commands it makes, in the order of the code.  A step action performs    *)
(* the head of a caller's program.  Every step may fail before it has an   *)
(* effect, or have its effect and lose the answer (a cut session, an       *)
(* expired context); either way the method returns the error.              *)
(*                                                                         *)
(* A certificate is the number under which it was issued, its serial.      *)
(* Left out: keys, PEM, profiles, the CRL's own number and dates, the      *)
(* read-only Status and ListPeers, and a second openvpn instance of the    *)
(* same server, whose ca.crt and crl.pem are the same files of             *)
(* /etc/openvpn/server: there is one instance on the host.                 *)
(***************************************************************************)
EXTENDS Naturals, Sequences, FiniteSets

CONSTANTS
    CN,          \* the names of clients
    CertProc,    \* requests served at the same time
    NoProc,      \* nobody holds the mutex
    MaxCA,       \* bound: CAs generated or imported
    MaxCert,     \* bound: certificates issued
    MaxCertFault,\* bound: failed steps and restarts of the panel
    CertCalls    \* the methods that are called

ASSUME NoProcAssumption == \A q \in CertProc : NoProc # q
ASSUME MaxCAAssumption == MaxCA \in Nat
ASSUME MaxCertAssumption == MaxCert \in Nat
ASSUME CertCallsAssumption ==
    CertCalls \subseteq {"add", "csr", "adopt", "update", "remove", "config", "profile", "ensure",
                         "import", "importCRL"}

VARIABLES
    kind,      \* which of the two providers this is
    caRow,     \* the row of ca_material, 0 = none
    caMem,     \* p.ca, 0 = nil
    nca,       \* CAs made so far
    cert,      \* certificates issued so far: <<[cn, ca]>>
    row,       \* client row of a name: its certificate, 0 = none
    revoked,   \* rows of revoked_certs
    routes,    \* ikev2: EnsureServer has saved the server's routes
    disk,      \* files of the host
    used,      \* what the daemon has in force
    certMu,    \* holder of p.mu
    req,       \* the requests in progress
    certFault,
    removed,   \* history: certificates whose client RemovePeer reported removed
    missed,    \* history: certificates RemovePeer did not see, its read had failed
    outrun,    \* history: certificates a CRL written later does not name, its
               \* list having been read before they were revoked
    clean      \* history: the last method that changes the clients reported success

certVars == <<kind, caRow, caMem, nca, cert, row, revoked, routes, disk, used,
              certMu, req, certFault, removed, missed, outrun, clean>>

NoCRL == [ca |-> 0, list |-> {}]
Idle == [call |-> "none", cn |-> "", rest |-> <<>>, ca |-> 0, cert |-> 0, list |-> {},
         blind |-> FALSE]

-----------------------------------------------------------------------------
(* The methods of openvpn.Provider *)

OvpnRebuildCRL == <<"list", "writeCRL">>
OvpnRevokeListFirst == <<"getCA", "list", "addRevoked", "writeCRL">>
OvpnRevoke == <<"addRevoked", "getCA">> \o OvpnRebuildCRL
OvpnAddPeer == <<"lock", "getCA", "issue", "ccd", "save">>
OvpnAddPeerFromCSR == <<"lock", "getCA", "issue", "ccd", "save">>
OvpnImportPeer == <<"lock", "getCA", "verify", "ccd", "save">>
OvpnUpdatePeer == <<"lock", "get", "ccd", "save">>
OvpnRemovePeer == <<"lock", "revoke", "rmCCD", "delete">>
OvpnClientConfigFileUnlocked == <<"getCA", "get">>
OvpnClientConfigFile == <<"lock", "getCA", "get">>
OvpnEnsureServer == <<"lock", "getCA">> \o OvpnRebuildCRL \o <<"files", "restart">>
OvpnImportCA == <<"lock", "importCA", "unlock">>

(* The methods of ikev2.Provider.  "apply" is applyClients, "conns" and    *)
(* "load" are the two halves of writeConnAndLoad.                          *)

IkeWriteConnAndLoad == <<"conns", "load">>
IkeRebuildCRL == <<"list", "writeCRL">>
IkeRevoke == <<"addRevoked", "getCA">> \o IkeRebuildCRL \o <<"tryLoad">>
IkeAddPeer == <<"lock", "getCA", "issue", "save", "apply">>
IkeAddPeerFromCSR == <<"lock", "getCA", "issue", "save", "apply">>
IkeImportPeer == <<"lock", "getCA", "verify", "save", "apply">>
IkeUpdatePeer == <<"lock", "get", "save", "apply">>
IkeRemovePeerApplyFirst == <<"lock", "revoke", "apply", "delete">>
IkeRemovePeer == <<"lock", "revoke", "delete", "apply">>
IkeClientConfigFile == <<"lock", "getCA", "get">>
IkeClientProfile == <<"lock", "getCA", "get">>
IkeEnsureServer ==
    <<"lock", "getCA", "files">> \o IkeRebuildCRL \o <<"saveRoutes">> \o IkeWriteConnAndLoad
IkeImportCA == <<"lock", "importCA", "unlock">>

IsOvpn == kind = "openvpn"
RebuildCRL == IF IsOvpn THEN OvpnRebuildCRL ELSE IkeRebuildCRL

\* POST .../ca without a CRL, and with one: the second half runs without the
\* mutex, on the Provider object alone.
apiCAImport(withCRL) ==
    (IF IsOvpn THEN OvpnImportCA ELSE IkeImportCA)
    \o (IF withCRL THEN <<"importCRL", "getCA">> \o RebuildCRL ELSE <<>>)

Program(call) ==
    CASE call = "add" -> IF IsOvpn THEN OvpnAddPeer ELSE IkeAddPeer
      [] call = "csr" -> IF IsOvpn THEN OvpnAddPeerFromCSR ELSE IkeAddPeerFromCSR
      [] call = "adopt" -> IF IsOvpn THEN OvpnImportPeer ELSE IkeImportPeer
      [] call = "update" -> IF IsOvpn THEN OvpnUpdatePeer ELSE IkeUpdatePeer
      [] call = "remove" -> IF IsOvpn THEN OvpnRemovePeer ELSE IkeRemovePeer
      [] call = "config" -> IF IsOvpn THEN OvpnClientConfigFile ELSE IkeClientConfigFile
      [] call = "profile" -> IF IsOvpn THEN OvpnClientConfigFile ELSE IkeClientProfile
      [] call = "ensure" -> IF IsOvpn THEN OvpnEnsureServer ELSE IkeEnsureServer
      [] call = "import" -> apiCAImport(FALSE)
      [] call = "importCRL" -> apiCAImport(TRUE)

Changes == {"add", "csr", "adopt", "update", "ensure"}

-----------------------------------------------------------------------------
CertInit ==
    /\ kind \in {"openvpn", "ikev2"}
    /\ caRow = 0 /\ caMem = 0 /\ nca = 0
    /\ cert = <<>> /\ row = [n \in CN |-> 0] /\ revoked = {}
    /\ routes = FALSE
    /\ disk = [ca |-> 0, crl |-> NoCRL, up |-> FALSE, conns |-> {}]
    /\ used = [ca |-> 0, crl |-> NoCRL, up |-> FALSE, conns |-> {}]
    /\ certMu = NoProc
    /\ req = [q \in CertProc |-> Idle]
    /\ certFault = 0
    /\ removed = {} /\ missed = {} /\ outrun = {}
    /\ clean = TRUE

rowVars == <<caRow, cert, row, revoked, routes, nca>>
hostVars == <<disk, used>>
ghostVars == <<removed, missed, outrun>>

Head1(q) == IF req[q].rest = <<>> THEN "none" ELSE Head(req[q].rest)

\* The caller goes on with the program `rest' and the given locals.
Goto(q, r) == req' = [req EXCEPT ![q] = r] /\ UNCHANGED certMu
Next1(q) == [req[q] EXCEPT !.rest = Tail(@)]

\* `return err': the deferred Unlock runs, the caller is done.
ReturnError(q) ==
    /\ certFault < MaxCertFault /\ certFault' = certFault + 1
    /\ req' = [req EXCEPT ![q] = Idle]
    /\ certMu' = IF certMu = q THEN NoProc ELSE certMu
    /\ clean' = (clean /\ req[q].call \notin {"change", "remove"})

\* After a step with an effect: go on, or return the error of a lost answer.
Answer(q, r) ==
    \/ Goto(q, r) /\ UNCHANGED <<certFault, clean>>
    \/ ReturnError(q)

-----------------------------------------------------------------------------
\* What the history variables ask of a call.
Class(call) == CASE call = "remove" -> "remove"
                 [] call \in Changes -> "change"
                 [] call \in {"import", "importCRL"} -> "import"
                 [] OTHER -> "read"

Running(class) == {q \in CertProc : req[q].call = class}

\* The bounds: a call starts only if the CA or certificate it may need is left.
Room(call) ==
    /\ Class(call) = "import" => nca + Cardinality(Running("import")) < MaxCA
    /\ call \in {"add", "csr", "adopt"} => Len(cert) + Cardinality(Running("change")) < MaxCert

\* A call starts once it gets the mutex; a caller that waits has done nothing.
Call(q, call, n) ==
    /\ req[q] = Idle /\ Room(call)
    /\ LET prog == Program(call)
           locks == Head(prog) = "lock"
       IN /\ locks => certMu = NoProc
          /\ certMu' = IF locks THEN q ELSE certMu
          /\ req' = [req EXCEPT ![q] = [Idle EXCEPT !.call = Class(call), !.cn = n,
                                          !.rest = IF locks THEN Tail(prog) ELSE prog]]
    /\ UNCHANGED <<kind, rowVars, hostVars, caMem, certFault, ghostVars, clean>>

Unlock(q) ==
    /\ Head1(q) = "unlock"
    /\ certMu' = NoProc
    /\ req' = [req EXCEPT ![q] = Next1(q)]
    /\ UNCHANGED <<kind, rowVars, hostVars, caMem, certFault, ghostVars, clean>>

\* getCA: the cached CA, else the stored one.  Any error of the read, a row
\* that is not there as well as a statement that failed, leads to a new CA.
GetCA(q) ==
    /\ Head1(q) = "getCA"
    /\ \/ /\ caMem # 0
          /\ Goto(q, [Next1(q) EXCEPT !.ca = caMem])
          /\ UNCHANGED <<caMem, certFault>>
       \/ /\ caMem = 0 /\ caRow # 0
          /\ caMem' = caRow
          /\ Goto(q, [Next1(q) EXCEPT !.ca = caRow])
          /\ UNCHANGED certFault
       \/ /\ caMem = 0 /\ caRow = 0
          /\ Goto(q, [req[q] EXCEPT !.rest = <<"newCA">> \o Tail(@)])
          /\ UNCHANGED <<caMem, certFault>>
       \/ /\ caMem = 0 /\ caRow # 0
          /\ certFault < MaxCertFault /\ certFault' = certFault + 1
          /\ Goto(q, [req[q] EXCEPT !.rest = <<"newCA">> \o Tail(@), !.blind = TRUE])
          /\ UNCHANGED caMem
    /\ UNCHANGED <<kind, rowVars, hostVars, ghostVars, clean>>

\* The rest of getCA: NewInternalCA, and SaveCAMaterial replaces the row.
\* p.ca is set only when the save was answered.
NewCA(q) ==
    /\ Head1(q) = "newCA"
    /\ nca' = nca + 1
    /\ caRow' = nca'
    /\ \/ /\ Goto(q, [Next1(q) EXCEPT !.ca = nca'])
          /\ caMem' = nca'
          /\ UNCHANGED <<certFault, clean>>
       \/ ReturnError(q) /\ UNCHANGED caMem
    /\ UNCHANGED <<kind, cert, row, revoked, routes, hostVars, ghostVars>>

\* ImportCA's critical section: the row first, then p.ca.
ImportCA(q) ==
    /\ Head1(q) = "importCA"
    /\ nca' = nca + 1
    /\ caRow' = nca'
    /\ \/ Goto(q, Next1(q)) /\ caMem' = nca' /\ UNCHANGED <<certFault, clean>>
       \/ ReturnError(q) /\ UNCHANGED caMem
    /\ UNCHANGED <<kind, cert, row, revoked, routes, hostVars, ghostVars>>

\* ImportRevokedCerts: the serials of the uploaded CRL, in one transaction.
ImportRevokedCerts(q) ==
    /\ Head1(q) = "importCRL"
    /\ \E s \in {{}, DOMAIN cert} : revoked' = revoked \cup s
    /\ Answer(q, Next1(q))
    /\ UNCHANGED <<kind, caRow, cert, row, routes, nca, hostVars, caMem, ghostVars>>

\* IssueClient, SignCSRWithCN: a certificate with a fresh random serial.
IssueClient(q) ==
    /\ Head1(q) = "issue"
    /\ cert' = Append(cert, [cn |-> req[q].cn, ca |-> req[q].ca])
    /\ Goto(q, [Next1(q) EXCEPT !.cert = Len(cert')])
    /\ UNCHANGED <<kind, caRow, row, revoked, routes, nca, hostVars, caMem, certFault,
                   ghostVars, clean>>

\* VerifyClientCert of ImportPeer: the certificate is one of the current CA,
\* issued here or elsewhere; whether it is revoked is not asked.
VerifyClientCert(q) ==
    /\ Head1(q) = "verify"
    /\ \/ /\ \E c \in DOMAIN cert : /\ cert[c] = [cn |-> req[q].cn, ca |-> req[q].ca]
                                    /\ Goto(q, [Next1(q) EXCEPT !.cert = c])
          /\ UNCHANGED cert
       \/ /\ cert' = Append(cert, [cn |-> req[q].cn, ca |-> req[q].ca])
          /\ Goto(q, [Next1(q) EXCEPT !.cert = Len(cert')])
    /\ UNCHANGED <<kind, caRow, row, revoked, routes, nca, hostVars, caMem, certFault,
                   ghostVars, clean>>

\* GetOpenVPNClient, GetClient: the row must be there.
GetClient(q) ==
    /\ Head1(q) = "get" /\ row[req[q].cn] # 0
    /\ Goto(q, [Next1(q) EXCEPT !.cert = row[req[q].cn]])
    /\ UNCHANGED <<kind, rowVars, hostVars, caMem, certFault, ghostVars, clean>>

\* No such client: the method returns ErrNotFound.
GetMissing(q) ==
    /\ Head1(q) = "get" /\ row[req[q].cn] = 0
    /\ req' = [req EXCEPT ![q] = Idle]
    /\ certMu' = IF certMu = q THEN NoProc ELSE certMu
    /\ UNCHANGED <<kind, rowVars, hostVars, caMem, certFault, ghostVars, clean>>

\* revoke's read: any error means `nothing stored, nothing to revoke'.
Revoke(q) ==
    /\ Head1(q) = "revoke"
    /\ LET c == row[req[q].cn]
           read == [Next1(q) EXCEPT !.cert = c,
                                    !.rest = (IF IsOvpn THEN OvpnRevoke ELSE IkeRevoke) \o @]
           skip == [Next1(q) EXCEPT !.cert = c]
       IN \/ c # 0 /\ Goto(q, read) /\ UNCHANGED <<certFault, missed>>
          \/ c = 0 /\ Goto(q, skip) /\ UNCHANGED <<certFault, missed>>
          \/ /\ c # 0 /\ certFault < MaxCertFault
             /\ certFault' = certFault + 1
             /\ missed' = missed \cup {c}
             /\ Goto(q, skip)
    /\ UNCHANGED <<kind, rowVars, hostVars, caMem, removed, outrun, clean>>

AddRevokedCert(q) ==
    /\ Head1(q) = "addRevoked"
    /\ revoked' = revoked \cup {req[q].cert}
    /\ Answer(q, Next1(q))
    /\ UNCHANGED <<kind, caRow, cert, row, routes, nca, hostVars, caMem, ghostVars>>

ListRevokedCerts(q) ==
    /\ Head1(q) = "list"
    /\ Goto(q, [Next1(q) EXCEPT !.list = revoked])
    /\ UNCHANGED <<kind, rowVars, hostVars, caMem, certFault, ghostVars, clean>>

\* CreateCRL signs the list read before, WriteFile replaces crl.pem.  OpenVPN
\* reads the file on every connection, strongSwan when it is told to load.
CreateCRL(q) ==
    /\ Head1(q) = "writeCRL"
    /\ LET crl == [ca |-> req[q].ca, list |-> req[q].list]
       IN /\ disk' = [disk EXCEPT !.crl = crl]
          /\ used' = IF IsOvpn THEN [used EXCEPT !.crl = crl] ELSE used
    /\ outrun' = outrun \cup (revoked \ (req[q].list \cup {req[q].cert}))
    /\ Answer(q, Next1(q))
    /\ UNCHANGED <<kind, rowVars, caMem, removed, missed>>

SaveClient(q) ==
    /\ Head1(q) = "save"
    /\ row' = [row EXCEPT ![req[q].cn] = req[q].cert]
    /\ Answer(q, Next1(q))
    /\ UNCHANGED <<kind, caRow, cert, revoked, routes, nca, hostVars, caMem, ghostVars>>

DeleteClient(q) ==
    /\ Head1(q) = "delete"
    /\ row' = [row EXCEPT ![req[q].cn] = 0]
    /\ Answer(q, Next1(q))
    /\ UNCHANGED <<kind, caRow, cert, revoked, routes, nca, hostVars, caMem, ghostVars>>

\* The client's ccd entry: per-client options that no property is about.
WriteCCD(q) ==
    /\ Head1(q) = "ccd"
    /\ Goto(q, Next1(q))
    /\ UNCHANGED <<kind, rowVars, hostVars, caMem, certFault, ghostVars, clean>>

\* Best effort: an error of the rm is ignored.
RemoveCCD(q) ==
    /\ Head1(q) = "rmCCD"
    /\ Goto(q, Next1(q))
    /\ UNCHANGED <<kind, rowVars, hostVars, caMem, certFault, ghostVars, clean>>

\* EnsureServer's files, written in the order of a Go map: those written
\* before a failure stay.
WriteServerFiles(q) ==
    /\ Head1(q) = "files"
    /\ disk' = [disk EXCEPT !.ca = req[q].ca]
    /\ Answer(q, Next1(q))
    /\ UNCHANGED <<kind, rowVars, used, caMem, ghostVars>>

\* The end of openvpn's EnsureServer: the restarted daemon reads its files.
RestartService(q) ==
    /\ Head1(q) = "restart"
    /\ used' = [used EXCEPT !.ca = disk.ca, !.crl = disk.crl, !.up = TRUE]
    /\ Answer(q, Next1(q))
    /\ UNCHANGED <<kind, rowVars, disk, caMem, ghostVars>>

SaveServerRoutes(q) ==
    /\ Head1(q) = "saveRoutes"
    /\ routes' = TRUE
    /\ Answer(q, Next1(q))
    /\ UNCHANGED <<kind, caRow, cert, row, revoked, nca, hostVars, caMem, ghostVars>>

\* applyClients: nothing to do before the server was provisioned.
ApplyClients(q) ==
    /\ Head1(q) = "apply"
    /\ Goto(q, [Next1(q) EXCEPT !.rest = (IF routes THEN IkeWriteConnAndLoad ELSE <<>>) \o @])
    /\ UNCHANGED <<kind, rowVars, hostVars, caMem, certFault, ghostVars, clean>>

\* writeConnAndLoad: the connections of the clients that are stored now.
WriteConns(q) ==
    /\ Head1(q) = "conns"
    /\ disk' = [disk EXCEPT !.up = TRUE, !.conns = {n \in CN : row[n] # 0}]
    /\ Answer(q, Next1(q))
    /\ UNCHANGED <<kind, rowVars, used, caMem, ghostVars>>

Loaded == [ca |-> disk.ca, crl |-> disk.crl, up |-> disk.up, conns |-> disk.conns]

\* swanctl --load-all: charon takes over everything that is on the disk.
\* Attempts that find charon not ready yet are repeated before this step.
LoadCerts(q) ==
    /\ Head1(q) = "load"
    /\ used' = Loaded
    /\ Answer(q, Next1(q))
    /\ UNCHANGED <<kind, rowVars, disk, caMem, ghostVars>>

\* revoke's own load, whose error is ignored.
TryLoad(q) ==
    /\ Head1(q) = "tryLoad"
    /\ \E done \in BOOLEAN :
         used' = IF done THEN Loaded ELSE used
    /\ Goto(q, Next1(q))
    /\ UNCHANGED <<kind, rowVars, disk, caMem, certFault, ghostVars, clean>>

\* A statement or command that failed without effect: the error is returned.
\* The reads of getCA and revoke and the best-effort commands do not return it.
FailStep(q) ==
    /\ Head1(q) \notin {"none", "unlock", "getCA", "revoke", "rmCCD", "tryLoad"}
    /\ ReturnError(q)
    /\ UNCHANGED <<kind, rowVars, hostVars, caMem, ghostVars>>

\* The method returns nil, and the deferred Unlock runs.
Return(q) ==
    /\ req[q].call # "none" /\ req[q].rest = <<>>
    /\ req' = [req EXCEPT ![q] = Idle]
    /\ certMu' = IF certMu = q THEN NoProc ELSE certMu
    /\ clean' = (clean \/ req[q].call \in {"change", "remove"})
    /\ removed' = IF req[q].call = "remove" THEN removed \cup ({req[q].cert} \ {0}) ELSE removed
    /\ UNCHANGED <<kind, rowVars, hostVars, caMem, certFault, missed, outrun>>

\* The panel stops and starts again, or Manager.Rebuild makes a new Provider
\* while no call is running: p.ca is loaded again on the next use.
Restart ==
    /\ certFault < MaxCertFault /\ certFault' = certFault + 1
    /\ caMem' = 0 /\ certMu' = NoProc
    /\ clean' = (clean /\ Running("change") \cup Running("remove") = {})
    /\ req' = [q \in CertProc |-> Idle]
    /\ UNCHANGED <<kind, rowVars, hostVars, ghostVars>>

ShellStep(q) ==
    \/ WriteCCD(q) \/ RemoveCCD(q) \/ WriteServerFiles(q) \/ RestartService(q)
    \/ WriteConns(q) \/ LoadCerts(q) \/ TryLoad(q) \/ CreateCRL(q)

StoreStep(q) ==
    \/ ImportRevokedCerts(q) \/ GetClient(q) \/ GetMissing(q) \/ Revoke(q) \/ AddRevokedCert(q)
    \/ ListRevokedCerts(q) \/ SaveClient(q) \/ DeleteClient(q) \/ SaveServerRoutes(q)
    \/ ApplyClients(q)

CertStep(q) ==
    \/ Unlock(q) \/ GetCA(q) \/ NewCA(q) \/ ImportCA(q) \/ IssueClient(q)
    \/ VerifyClientCert(q) \/ StoreStep(q) \/ ShellStep(q) \/ FailStep(q) \/ Return(q)

CertNext ==
    \/ \E q \in CertProc : CertStep(q)
    \/ \E q \in CertProc, call \in CertCalls, n \in CN : Call(q, call, n)
    \/ Restart

CertSpec == CertInit /\ [][CertNext]_certVars

-----------------------------------------------------------------------------
(* Properties *)

\* The daemon lets the holder of certificate c in: it runs, trusts the issuer,
\* and has no list of that issuer that names c.  A CRL of another issuer bars
\* nobody: OpenVPN goes on without one (2.4 and later), and swanctl's connections
\* do not ask for `revocation = strict'.
Accepted(c) ==
    /\ used.up /\ used.ca = cert[c].ca
    /\ ~(used.crl.ca = used.ca /\ c \in used.crl.list)

\* The CRL in force is not of the CA the server runs with: a CA was imported, or
\* made over the stored one, and the server is not yet set up with it.
StrayCRL == used.crl.ca # used.ca

\* A client that RemovePeer reported removed cannot connect again, whatever is
\* issued, imported, re-provisioned or restarted later, and whichever step of
\* another call fails; if it is let in after all, the list in force names it and
\* has the wrong issuer.  Two exceptions: RemovePeer's read of the client failed
\* (revoke takes that for `nothing stored'), or a CRL rebuilt from a list read
\* before the revocation was written after it (RebuildCRL takes no mutex).
RemovedRefused ==
    \A c \in removed \ (missed \cup outrun) :
        Accepted(c) => StrayCRL /\ c \in used.crl.list

\* The README's claim for both providers, for one caller and no fault: `deleting a
\* client revokes its cert ..., a revoked client can't reconnect'.
RevokedCannotReconnect == \A c \in removed : ~Accepted(c)

\* ikev2: after a change that reported success the loaded connections are those
\* of the stored clients, although rows, file and daemon change in three steps
\* of which each can fail.
ConnsCurrent ==
    kind = "ikev2" /\ clean /\ routes /\ certMu = NoProc
      => used.conns = {n \in CN : row[n] # 0}

\* The stored CA signed every certificate that is out: it is replaced only by
\* ImportCA, or by a getCA whose read of it failed.
CAKept ==
    [][caRow # 0 /\ caRow' # caRow =>
         \E q \in CertProc : \/ Head1(q) = "importCA"
                             \/ Head1(q) = "newCA" /\ req[q].blind]_certVars

=============================================================================
