----------------------------- MODULE CertProofs -----------------------------
(***************************************************************************)
(* Proofs about the certificate based providers, for any number of names,  *)
(* requests, CAs, certificates and faults: a client reported removed is    *)
(* refused, the loaded connections are the stored clients, and the stored  *)
(* CA is replaced by an import or a blind read only.                       *)
(*                                                                         *)
(* What is left of a method's program tells what it has done.  CertInv     *)
(* says so: where a removal stands with its certificate, who holds the     *)
(* mutex, and that its holder alone may have rows and connections apart.   *)
(***************************************************************************)
EXTENDS CertProvider, SequenceTheorems, TLAPS

-----------------------------------------------------------------------------
(* The inductive invariant *)

\* The statement that is next.
First(s) == IF s = <<>> THEN "none" ELSE Head(s)

\* What may be left of a method's program, by what the method does.
ReadBase == {<<>>, <<"getCA", "get">>, <<"get">>}
ImportBase ==
  {<<>>, <<"importCA", "unlock">>, <<"unlock">>,
   <<"importCA", "unlock", "importCRL", "getCA", "list", "writeCRL">>,
   <<"unlock", "importCRL", "getCA", "list", "writeCRL">>,
   <<"importCRL", "getCA", "list", "writeCRL">>, <<"getCA", "list", "writeCRL">>,
   <<"list", "writeCRL">>, <<"writeCRL">>}
OvpnChange ==
  {<<>>, <<"getCA", "issue", "ccd", "save">>, <<"issue", "ccd", "save">>,
   <<"getCA", "verify", "ccd", "save">>, <<"verify", "ccd", "save">>, <<"get", "ccd", "save">>,
   <<"ccd", "save">>, <<"save">>,
   <<"getCA", "list", "writeCRL", "files", "restart">>, <<"list", "writeCRL", "files", "restart">>,
   <<"writeCRL", "files", "restart">>, <<"files", "restart">>, <<"restart">>}
OvpnRemoval ==
  {<<>>, <<"revoke", "rmCCD", "delete">>,
   <<"addRevoked", "getCA", "list", "writeCRL", "rmCCD", "delete">>,
   <<"getCA", "list", "writeCRL", "rmCCD", "delete">>, <<"list", "writeCRL", "rmCCD", "delete">>,
   <<"writeCRL", "rmCCD", "delete">>, <<"rmCCD", "delete">>, <<"delete">>}
IkeChange ==
  {<<>>, <<"getCA", "issue", "save", "apply">>, <<"issue", "save", "apply">>,
   <<"getCA", "verify", "save", "apply">>, <<"verify", "save", "apply">>, <<"get", "save", "apply">>,
   <<"save", "apply">>, <<"apply">>, <<"conns", "load">>, <<"load">>,
   <<"getCA", "files", "list", "writeCRL", "saveRoutes", "conns", "load">>,
   <<"files", "list", "writeCRL", "saveRoutes", "conns", "load">>,
   <<"list", "writeCRL", "saveRoutes", "conns", "load">>,
   <<"writeCRL", "saveRoutes", "conns", "load">>, <<"saveRoutes", "conns", "load">>}
IkeRemoval ==
  {<<>>, <<"revoke", "delete", "apply">>,
   <<"addRevoked", "getCA", "list", "writeCRL", "tryLoad", "delete", "apply">>,
   <<"getCA", "list", "writeCRL", "tryLoad", "delete", "apply">>,
   <<"list", "writeCRL", "tryLoad", "delete", "apply">>, <<"writeCRL", "tryLoad", "delete", "apply">>,
   <<"tryLoad", "delete", "apply">>, <<"delete", "apply">>, <<"apply">>,
   <<"conns", "load">>, <<"load">>}

Base(k, c) ==
  CASE c = "read" -> ReadBase
    [] c = "import" -> ImportBase
    [] c = "change" -> IF k = "openvpn" THEN OvpnChange ELSE IkeChange
    [] c = "remove" -> IF k = "openvpn" THEN OvpnRemoval ELSE IkeRemoval
    [] OTHER -> {<<>>}

\* getCA may turn into the making of a new CA.
Renewing(k, c) == {<<"newCA">> \o Tail(s) : s \in {x \in Base(k, c) : First(x) = "getCA"}}
RestOf(k, c) == Base(k, c) \cup Renewing(k, c)

CertClass == {"none", "read", "import", "change", "remove"}
CertFiles == [ca : Nat, crl : [ca : Nat, list : SUBSET Nat], up : BOOLEAN, conns : SUBSET CN]
AnyRest == UNION {RestOf(k, c) : k \in {"openvpn", "ikev2"}, c \in CertClass}
CertReq == [call : CertClass, cn : CN \cup {""}, rest : AnyRest, ca : Nat, cert : Nat,
            list : SUBSET Nat, blind : BOOLEAN]

CertState ==
  /\ kind \in {"openvpn", "ikev2"} /\ caRow \in Nat /\ caMem \in Nat /\ nca \in Nat
  /\ cert \in Seq([cn : CN, ca : Nat]) /\ row \in [CN -> Nat] /\ revoked \in SUBSET Nat
  /\ routes \in BOOLEAN /\ disk \in CertFiles /\ used \in CertFiles
CertTypes == CertState /\ req \in [CertProc -> CertReq] /\ clean \in BOOLEAN

\* The mutex is held by the method that has locked it and not yet returned; an
\* import gives it back in the middle.
Holds(q) == req[q].call \in {"read", "change", "remove"} \/ Head1(q) \in {"importCA", "unlock"}
CertMutex == certMu \in CertProc \cup {NoProc} /\ \A q \in CertProc : Holds(q) <=> certMu = q

\* A certificate is on the list of the host; and no daemon takes it.
Listed(c) == c \in revoked /\ (c \in outrun \/ c \in disk.crl.list)
Barred(c) ==
  /\ c \in revoked
  /\ c \in outrun \/ (c \in disk.crl.list /\ (c \in used.crl.list \/ ~used.up))

Settling == {"rmCCD", "tryLoad", "delete", "apply", "conns", "load", "none"}
\* How far a removal has come with the certificate of its client.
Removal(q) ==
  LET h == Head1(q) c == req[q].cert
  IN /\ h \in {"getCA", "newCA", "list", "writeCRL"} => c \in revoked
     /\ h = "writeCRL" => c \in req[q].list
     /\ h \in Settling => c = 0 \/ c \in missed \/ Listed(c)
     /\ h = "none" => c = 0 \/ c \in missed \/ Barred(c)

Unissued == {"getCA", "newCA", "list", "writeCRL", "files", "importCRL", "importCA", "unlock"}
CertRun(q) ==
  LET h == Head1(q) c == req[q].call
  IN /\ req[q].rest \in RestOf(kind, c)
     /\ c # "none" => req[q].cn \in CN
     /\ c = "remove" => Removal(q)
     /\ c # "remove" /\ h \in Unissued => req[q].cert = 0
     /\ c = "import" /\ h # "importCA" => caRow # 0
     /\ h = "newCA" /\ ~req[q].blind => caRow = 0
     /\ h \in {"conns", "load"} => routes

RemovedBarred == \A c \in removed : c \in Nat \ {0} /\ (c \in missed \/ Barred(c))

\* ikev2 loads nothing before its routes are saved; openvpn reads its list at
\* every connection.
DaemonReads ==
  /\ kind = "ikev2" /\ (disk.up \/ used.up) => routes
  /\ kind = "openvpn" => used.crl = disk.crl

Stored == {n \in CN : row[n] # 0}
Synced == clean /\ routes => used.conns = Stored /\ disk.conns = Stored
\* Whoever holds the mutex has the connections in step with the rows, or has
\* still to write and load them.
ConnsOf(q) ==
  LET h == Head1(q)
  IN IF req[q].call \in {"change", "remove"} /\ h \in {"apply", "conns", "load", "none"}
     THEN /\ h = "load" => disk.conns = Stored
          /\ h = "none" /\ routes => used.conns = Stored /\ disk.conns = Stored
     ELSE Synced
ConnsInv ==
  kind = "ikev2" => /\ certMu = NoProc => Synced
                    /\ \A q \in CertProc : Holds(q) => ConnsOf(q)

CertInv ==
  /\ CertTypes /\ CertMutex /\ RemovedBarred /\ DaemonReads /\ ConnsInv
  /\ \A q \in CertProc : CertRun(q)

-----------------------------------------------------------------------------
(* The programs of the methods *)

\* A method of class c runs statement h, and then statement n.
Follow(k, c, h, n) ==
  /\ h \notin {"none", "newCA"} /\ n # "newCA"
  /\ c # "remove" => /\ n \in Unissued => h \in Unissued
                     /\ h \notin {"revoke", "addRevoked", "rmCCD", "tryLoad", "delete"}
  /\ c \in {"read", "import"} => h \in (Unissued \ {"files"}) \cup {"get"}
  /\ c = "import" => n # "importCA" /\ (n = "unlock" <=> h = "importCA")
  /\ c # "import" => {h, n} \cap {"importCA", "unlock", "importCRL"} = {}
  /\ c = "remove" => /\ h \in {"revoke", "addRevoked", "getCA", "list", "writeCRL"} \cup Settling
                     /\ n = "getCA" => h = "addRevoked"
                     /\ n = "list" => h = "getCA"
                     /\ n = "writeCRL" => h = "list"
                     /\ n \in Settling => h \in Settling \cup {"revoke", "writeCRL"}
  /\ k = "ikev2" => h # "restart"
  /\ n = "conns" <=> h = "saveRoutes"
  /\ n = "load" <=> h = "conns"
  /\ k = "ikev2" /\ c \in {"change", "remove"} =>
       /\ n = "none" <=> h \in {"load", "apply"}
       /\ n = "apply" <=> h \in {"save", "delete"}
  /\ k = "openvpn" => h # "apply"

Statement ==
  {"getCA", "get", "importCA", "unlock", "importCRL", "list", "writeCRL", "issue", "verify", "ccd", "save",
   "files", "restart", "revoke", "addRevoked", "rmCCD", "delete", "apply", "conns", "load",
   "saveRoutes", "tryLoad"}

\* A read goes from statement to statement of its program.
LEMMA ReadBaseNext ==
  ASSUME NEW k \in {"openvpn", "ikev2"}, NEW s \in ReadBase, s # <<>>
  PROVE  /\ Tail(s) \in ReadBase /\ (Head(s) = "getCA" => Tail(s) \in Seq(Statement))
         /\ Follow(k, "read", Head(s), First(Tail(s)))
<1>1. CASE s = <<"getCA", "get">>
  <2>1. Head(s) = "getCA" /\ Tail(s) = <<"get">> /\ First(Tail(s)) = "get"
    BY <1>1 DEF First
  <2>2. Tail(s) \in Seq(Statement)
    <3>1. "get" \in Statement
      BY DEF Statement
    <3>2. <<"get">> \in Seq(Statement)
      BY <3>1
    <3> QED
      BY <2>1, <3>2, Zenon
  <2> QED
    BY <2>1, <2>2 DEF ReadBase, Follow, Unissued, Settling
<1>2. CASE s = <<"get">>
  <2>1. Head(s) = "get" /\ Tail(s) = <<>> /\ First(Tail(s)) = "none"
    BY <1>2 DEF First
  <2> QED
    BY <2>1 DEF ReadBase, Follow, Unissued, Settling
<1> QED
  BY <1>1, <1>2 DEF ReadBase

\* So does an import of a CA, with or without a CRL.
LEMMA ImportBaseNext ==
  ASSUME NEW k \in {"openvpn", "ikev2"}, NEW s \in ImportBase, s # <<>>
  PROVE  /\ Tail(s) \in ImportBase /\ (Head(s) = "getCA" => Tail(s) \in Seq(Statement))
         /\ Follow(k, "import", Head(s), First(Tail(s)))
<1>1. CASE s = <<"importCA", "unlock">>
  <2>1. Head(s) = "importCA" /\ Tail(s) = <<"unlock">> /\ First(Tail(s)) = "unlock"
    BY <1>1 DEF First
  <2> QED
    BY <2>1 DEF ImportBase, Follow, Unissued, Settling
<1>2. CASE s = <<"unlock">>
  <2>1. Head(s) = "unlock" /\ Tail(s) = <<>> /\ First(Tail(s)) = "none"
    BY <1>2 DEF First
  <2> QED
    BY <2>1 DEF ImportBase, Follow, Unissued, Settling
<1>3. CASE s = <<"importCA", "unlock", "importCRL", "getCA", "list", "writeCRL">>
  <2>1. /\ Head(s) = "importCA" /\ Tail(s) = <<"unlock", "importCRL", "getCA", "list", "writeCRL">>
        /\ First(Tail(s)) = "unlock"
    BY <1>3 DEF First
  <2> QED
    BY <2>1 DEF ImportBase, Follow, Unissued, Settling
<1>4. CASE s = <<"unlock", "importCRL", "getCA", "list", "writeCRL">>
  <2>1. Head(s) = "unlock" /\ Tail(s) = <<"importCRL", "getCA", "list", "writeCRL">> /\ First(Tail(s)) = "importCRL"
    BY <1>4 DEF First
  <2> QED
    BY <2>1 DEF ImportBase, Follow, Unissued, Settling
<1>5. CASE s = <<"importCRL", "getCA", "list", "writeCRL">>
  <2>1. Head(s) = "importCRL" /\ Tail(s) = <<"getCA", "list", "writeCRL">> /\ First(Tail(s)) = "getCA"
    BY <1>5 DEF First
  <2> QED
    BY <2>1 DEF ImportBase, Follow, Unissued, Settling
<1>6. CASE s = <<"getCA", "list", "writeCRL">>
  <2>1. Head(s) = "getCA" /\ Tail(s) = <<"list", "writeCRL">> /\ First(Tail(s)) = "list"
    BY <1>6 DEF First
  <2>2. Tail(s) \in Seq(Statement)
    <3>1. "list" \in Statement /\ "writeCRL" \in Statement
      BY DEF Statement
    <3>2. <<"list", "writeCRL">> \in Seq(Statement)
      BY <3>1
    <3> QED
      BY <2>1, <3>2, Zenon
  <2> QED
    BY <2>1, <2>2 DEF ImportBase, Follow, Unissued, Settling
<1>7. CASE s = <<"list", "writeCRL">>
  <2>1. Head(s) = "list" /\ Tail(s) = <<"writeCRL">> /\ First(Tail(s)) = "writeCRL"
    BY <1>7 DEF First
  <2> QED
    BY <2>1 DEF ImportBase, Follow, Unissued, Settling
<1>8. CASE s = <<"writeCRL">>
  <2>1. Head(s) = "writeCRL" /\ Tail(s) = <<>> /\ First(Tail(s)) = "none"
    BY <1>8 DEF First
  <2> QED
    BY <2>1 DEF ImportBase, Follow, Unissued, Settling
<1> QED
  BY <1>1, <1>2, <1>3, <1>4, <1>5, <1>6, <1>7, <1>8 DEF ImportBase

\* So does a change of an OpenVPN server or of its clients.
LEMMA OvpnChangeNext ==
  ASSUME NEW s \in OvpnChange, s # <<>>
  PROVE  /\ Tail(s) \in OvpnChange /\ (Head(s) = "getCA" => Tail(s) \in Seq(Statement))
         /\ Follow("openvpn", "change", Head(s), First(Tail(s)))
<1>1. CASE s = <<"getCA", "issue", "ccd", "save">>
  <2>1. Head(s) = "getCA" /\ Tail(s) = <<"issue", "ccd", "save">> /\ First(Tail(s)) = "issue"
    BY <1>1 DEF First
  <2>2. Tail(s) \in Seq(Statement)
    <3>1. "issue" \in Statement /\ "ccd" \in Statement /\ "save" \in Statement
      BY DEF Statement
    <3>2. <<"issue", "ccd", "save">> \in Seq(Statement)
      BY <3>1
    <3> QED
      BY <2>1, <3>2, Zenon
  <2> QED
    BY <2>1, <2>2 DEF OvpnChange, Follow, Unissued, Settling
<1>2. CASE s = <<"issue", "ccd", "save">>
  <2>1. Head(s) = "issue" /\ Tail(s) = <<"ccd", "save">> /\ First(Tail(s)) = "ccd"
    BY <1>2 DEF First
  <2> QED
    BY <2>1 DEF OvpnChange, Follow, Unissued, Settling
<1>3. CASE s = <<"getCA", "verify", "ccd", "save">>
  <2>1. Head(s) = "getCA" /\ Tail(s) = <<"verify", "ccd", "save">> /\ First(Tail(s)) = "verify"
    BY <1>3 DEF First
  <2>2. Tail(s) \in Seq(Statement)
    <3>1. "verify" \in Statement /\ "ccd" \in Statement /\ "save" \in Statement
      BY DEF Statement
    <3>2. <<"verify", "ccd", "save">> \in Seq(Statement)
      BY <3>1
    <3> QED
      BY <2>1, <3>2, Zenon
  <2> QED
    BY <2>1, <2>2 DEF OvpnChange, Follow, Unissued, Settling
<1>4. CASE s = <<"verify", "ccd", "save">>
  <2>1. Head(s) = "verify" /\ Tail(s) = <<"ccd", "save">> /\ First(Tail(s)) = "ccd"
    BY <1>4 DEF First
  <2> QED
    BY <2>1 DEF OvpnChange, Follow, Unissued, Settling
<1>5. CASE s = <<"get", "ccd", "save">>
  <2>1. Head(s) = "get" /\ Tail(s) = <<"ccd", "save">> /\ First(Tail(s)) = "ccd"
    BY <1>5 DEF First
  <2> QED
    BY <2>1 DEF OvpnChange, Follow, Unissued, Settling
<1>6. CASE s = <<"ccd", "save">>
  <2>1. Head(s) = "ccd" /\ Tail(s) = <<"save">> /\ First(Tail(s)) = "save"
    BY <1>6 DEF First
  <2> QED
    BY <2>1 DEF OvpnChange, Follow, Unissued, Settling
<1>7. CASE s = <<"save">>
  <2>1. Head(s) = "save" /\ Tail(s) = <<>> /\ First(Tail(s)) = "none"
    BY <1>7 DEF First
  <2> QED
    BY <2>1 DEF OvpnChange, Follow, Unissued, Settling
<1>8. CASE s = <<"getCA", "list", "writeCRL", "files", "restart">>
  <2>1. Head(s) = "getCA" /\ Tail(s) = <<"list", "writeCRL", "files", "restart">> /\ First(Tail(s)) = "list"
    BY <1>8 DEF First
  <2>2. Tail(s) \in Seq(Statement)
    <3>1. "list" \in Statement /\ "writeCRL" \in Statement /\ "files" \in Statement /\ "restart" \in Statement
      BY DEF Statement
    <3>2. <<"list", "writeCRL", "files", "restart">> \in Seq(Statement)
      BY <3>1
    <3> QED
      BY <2>1, <3>2, Zenon
  <2> QED
    BY <2>1, <2>2 DEF OvpnChange, Follow, Unissued, Settling
<1>9. CASE s = <<"list", "writeCRL", "files", "restart">>
  <2>1. Head(s) = "list" /\ Tail(s) = <<"writeCRL", "files", "restart">> /\ First(Tail(s)) = "writeCRL"
    BY <1>9 DEF First
  <2> QED
    BY <2>1 DEF OvpnChange, Follow, Unissued, Settling
<1>10. CASE s = <<"writeCRL", "files", "restart">>
  <2>1. Head(s) = "writeCRL" /\ Tail(s) = <<"files", "restart">> /\ First(Tail(s)) = "files"
    BY <1>10 DEF First
  <2> QED
    BY <2>1 DEF OvpnChange, Follow, Unissued, Settling
<1>11. CASE s = <<"files", "restart">>
  <2>1. Head(s) = "files" /\ Tail(s) = <<"restart">> /\ First(Tail(s)) = "restart"
    BY <1>11 DEF First
  <2> QED
    BY <2>1 DEF OvpnChange, Follow, Unissued, Settling
<1>12. CASE s = <<"restart">>
  <2>1. Head(s) = "restart" /\ Tail(s) = <<>> /\ First(Tail(s)) = "none"
    BY <1>12 DEF First
  <2> QED
    BY <2>1 DEF OvpnChange, Follow, Unissued, Settling
<1> QED
  BY <1>1, <1>2, <1>3, <1>4, <1>5, <1>6, <1>7, <1>8, <1>9, <1>10, <1>11, <1>12 DEF OvpnChange

\* So does a removal of an OpenVPN client.
LEMMA OvpnRemovalNext ==
  ASSUME NEW s \in OvpnRemoval, s # <<>>
  PROVE  /\ Tail(s) \in OvpnRemoval /\ (Head(s) = "getCA" => Tail(s) \in Seq(Statement))
         /\ Follow("openvpn", "remove", Head(s), First(Tail(s)))
<1>1. CASE s = <<"revoke", "rmCCD", "delete">>
  <2>1. Head(s) = "revoke" /\ Tail(s) = <<"rmCCD", "delete">> /\ First(Tail(s)) = "rmCCD"
    BY <1>1 DEF First
  <2> QED
    BY <2>1 DEF OvpnRemoval, Follow, Unissued, Settling
<1>2. CASE s = <<"addRevoked", "getCA", "list", "writeCRL", "rmCCD", "delete">>
  <2>1. /\ Head(s) = "addRevoked" /\ Tail(s) = <<"getCA", "list", "writeCRL", "rmCCD", "delete">>
        /\ First(Tail(s)) = "getCA"
    BY <1>2 DEF First
  <2> QED
    BY <2>1 DEF OvpnRemoval, Follow, Unissued, Settling
<1>3. CASE s = <<"getCA", "list", "writeCRL", "rmCCD", "delete">>
  <2>1. Head(s) = "getCA" /\ Tail(s) = <<"list", "writeCRL", "rmCCD", "delete">> /\ First(Tail(s)) = "list"
    BY <1>3 DEF First
  <2>2. Tail(s) \in Seq(Statement)
    <3>1. "list" \in Statement /\ "writeCRL" \in Statement /\ "rmCCD" \in Statement /\ "delete" \in Statement
      BY DEF Statement
    <3>2. <<"list", "writeCRL", "rmCCD", "delete">> \in Seq(Statement)
      BY <3>1
    <3> QED
      BY <2>1, <3>2, Zenon
  <2> QED
    BY <2>1, <2>2 DEF OvpnRemoval, Follow, Unissued, Settling
<1>4. CASE s = <<"list", "writeCRL", "rmCCD", "delete">>
  <2>1. Head(s) = "list" /\ Tail(s) = <<"writeCRL", "rmCCD", "delete">> /\ First(Tail(s)) = "writeCRL"
    BY <1>4 DEF First
  <2> QED
    BY <2>1 DEF OvpnRemoval, Follow, Unissued, Settling
<1>5. CASE s = <<"writeCRL", "rmCCD", "delete">>
  <2>1. Head(s) = "writeCRL" /\ Tail(s) = <<"rmCCD", "delete">> /\ First(Tail(s)) = "rmCCD"
    BY <1>5 DEF First
  <2> QED
    BY <2>1 DEF OvpnRemoval, Follow, Unissued, Settling
<1>6. CASE s = <<"rmCCD", "delete">>
  <2>1. Head(s) = "rmCCD" /\ Tail(s) = <<"delete">> /\ First(Tail(s)) = "delete"
    BY <1>6 DEF First
  <2> QED
    BY <2>1 DEF OvpnRemoval, Follow, Unissued, Settling
<1>7. CASE s = <<"delete">>
  <2>1. Head(s) = "delete" /\ Tail(s) = <<>> /\ First(Tail(s)) = "none"
    BY <1>7 DEF First
  <2> QED
    BY <2>1 DEF OvpnRemoval, Follow, Unissued, Settling
<1> QED
  BY <1>1, <1>2, <1>3, <1>4, <1>5, <1>6, <1>7 DEF OvpnRemoval

\* So does a change of an IKEv2 server or of its clients.
LEMMA IkeChangeNext ==
  ASSUME NEW s \in IkeChange, s # <<>>
  PROVE  /\ Tail(s) \in IkeChange /\ (Head(s) = "getCA" => Tail(s) \in Seq(Statement))
         /\ Follow("ikev2", "change", Head(s), First(Tail(s)))
<1>1. CASE s = <<"getCA", "issue", "save", "apply">>
  <2>1. Head(s) = "getCA" /\ Tail(s) = <<"issue", "save", "apply">> /\ First(Tail(s)) = "issue"
    BY <1>1 DEF First
  <2>2. Tail(s) \in Seq(Statement)
    <3>1. "issue" \in Statement /\ "save" \in Statement /\ "apply" \in Statement
      BY DEF Statement
    <3>2. <<"issue", "save", "apply">> \in Seq(Statement)
      BY <3>1
    <3> QED
      BY <2>1, <3>2, Zenon
  <2> QED
    BY <2>1, <2>2 DEF IkeChange, Follow, Unissued, Settling
<1>2. CASE s = <<"issue", "save", "apply">>
  <2>1. Head(s) = "issue" /\ Tail(s) = <<"save", "apply">> /\ First(Tail(s)) = "save"
    BY <1>2 DEF First
  <2> QED
    BY <2>1 DEF IkeChange, Follow, Unissued, Settling
<1>3. CASE s = <<"getCA", "verify", "save", "apply">>
  <2>1. Head(s) = "getCA" /\ Tail(s) = <<"verify", "save", "apply">> /\ First(Tail(s)) = "verify"
    BY <1>3 DEF First
  <2>2. Tail(s) \in Seq(Statement)
    <3>1. "verify" \in Statement /\ "save" \in Statement /\ "apply" \in Statement
      BY DEF Statement
    <3>2. <<"verify", "save", "apply">> \in Seq(Statement)
      BY <3>1
    <3> QED
      BY <2>1, <3>2, Zenon
  <2> QED
    BY <2>1, <2>2 DEF IkeChange, Follow, Unissued, Settling
<1>4. CASE s = <<"verify", "save", "apply">>
  <2>1. Head(s) = "verify" /\ Tail(s) = <<"save", "apply">> /\ First(Tail(s)) = "save"
    BY <1>4 DEF First
  <2> QED
    BY <2>1 DEF IkeChange, Follow, Unissued, Settling
<1>5. CASE s = <<"get", "save", "apply">>
  <2>1. Head(s) = "get" /\ Tail(s) = <<"save", "apply">> /\ First(Tail(s)) = "save"
    BY <1>5 DEF First
  <2> QED
    BY <2>1 DEF IkeChange, Follow, Unissued, Settling
<1>6. CASE s = <<"save", "apply">>
  <2>1. Head(s) = "save" /\ Tail(s) = <<"apply">> /\ First(Tail(s)) = "apply"
    BY <1>6 DEF First
  <2> QED
    BY <2>1 DEF IkeChange, Follow, Unissued, Settling
<1>7. CASE s = <<"apply">>
  <2>1. Head(s) = "apply" /\ Tail(s) = <<>> /\ First(Tail(s)) = "none"
    BY <1>7 DEF First
  <2> QED
    BY <2>1 DEF IkeChange, Follow, Unissued, Settling
<1>8. CASE s = <<"conns", "load">>
  <2>1. Head(s) = "conns" /\ Tail(s) = <<"load">> /\ First(Tail(s)) = "load"
    BY <1>8 DEF First
  <2> QED
    BY <2>1 DEF IkeChange, Follow, Unissued, Settling
<1>9. CASE s = <<"load">>
  <2>1. Head(s) = "load" /\ Tail(s) = <<>> /\ First(Tail(s)) = "none"
    BY <1>9 DEF First
  <2> QED
    BY <2>1 DEF IkeChange, Follow, Unissued, Settling
<1>10. CASE s = <<"getCA", "files", "list", "writeCRL", "saveRoutes", "conns", "load">>
  <2>1. /\ Head(s) = "getCA" /\ Tail(s) = <<"files", "list", "writeCRL", "saveRoutes", "conns", "load">>
        /\ First(Tail(s)) = "files"
    BY <1>10 DEF First
  <2>2. Tail(s) \in Seq(Statement)
    <3>1. "files" \in Statement /\ "list" \in Statement /\ "writeCRL" \in Statement /\ "saveRoutes" \in Statement /\ "conns" \in Statement /\ "load" \in Statement
      BY DEF Statement
    <3>2. <<"files", "list", "writeCRL", "saveRoutes", "conns", "load">> \in Seq(Statement)
      BY <3>1
    <3> QED
      BY <2>1, <3>2, Zenon
  <2> QED
    BY <2>1, <2>2 DEF IkeChange, Follow, Unissued, Settling
<1>11. CASE s = <<"files", "list", "writeCRL", "saveRoutes", "conns", "load">>
  <2>1. /\ Head(s) = "files" /\ Tail(s) = <<"list", "writeCRL", "saveRoutes", "conns", "load">>
        /\ First(Tail(s)) = "list"
    BY <1>11 DEF First
  <2> QED
    BY <2>1 DEF IkeChange, Follow, Unissued, Settling
<1>12. CASE s = <<"list", "writeCRL", "saveRoutes", "conns", "load">>
  <2>1. Head(s) = "list" /\ Tail(s) = <<"writeCRL", "saveRoutes", "conns", "load">> /\ First(Tail(s)) = "writeCRL"
    BY <1>12 DEF First
  <2> QED
    BY <2>1 DEF IkeChange, Follow, Unissued, Settling
<1>13. CASE s = <<"writeCRL", "saveRoutes", "conns", "load">>
  <2>1. Head(s) = "writeCRL" /\ Tail(s) = <<"saveRoutes", "conns", "load">> /\ First(Tail(s)) = "saveRoutes"
    BY <1>13 DEF First
  <2> QED
    BY <2>1 DEF IkeChange, Follow, Unissued, Settling
<1>14. CASE s = <<"saveRoutes", "conns", "load">>
  <2>1. Head(s) = "saveRoutes" /\ Tail(s) = <<"conns", "load">> /\ First(Tail(s)) = "conns"
    BY <1>14 DEF First
  <2> QED
    BY <2>1 DEF IkeChange, Follow, Unissued, Settling
<1> QED
  BY <1>1, <1>2, <1>3, <1>4, <1>5, <1>6, <1>7, <1>8, <1>9, <1>10, <1>11, <1>12, <1>13, <1>14 DEF IkeChange

\* So does a removal of an IKEv2 client.
LEMMA IkeRemovalNext ==
  ASSUME NEW s \in IkeRemoval, s # <<>>
  PROVE  /\ Tail(s) \in IkeRemoval /\ (Head(s) = "getCA" => Tail(s) \in Seq(Statement))
         /\ Follow("ikev2", "remove", Head(s), First(Tail(s)))
<1>1. CASE s = <<"revoke", "delete", "apply">>
  <2>1. Head(s) = "revoke" /\ Tail(s) = <<"delete", "apply">> /\ First(Tail(s)) = "delete"
    BY <1>1 DEF First
  <2> QED
    BY <2>1 DEF IkeRemoval, Follow, Unissued, Settling
<1>2. CASE s = <<"addRevoked", "getCA", "list", "writeCRL", "tryLoad", "delete", "apply">>
  <2>1. /\ Head(s) = "addRevoked" /\ Tail(s) = <<"getCA", "list", "writeCRL", "tryLoad", "delete", "apply">>
        /\ First(Tail(s)) = "getCA"
    BY <1>2 DEF First
  <2> QED
    BY <2>1 DEF IkeRemoval, Follow, Unissued, Settling
<1>3. CASE s = <<"getCA", "list", "writeCRL", "tryLoad", "delete", "apply">>
  <2>1. Head(s) = "getCA" /\ Tail(s) = <<"list", "writeCRL", "tryLoad", "delete", "apply">> /\ First(Tail(s)) = "list"
    BY <1>3 DEF First
  <2>2. Tail(s) \in Seq(Statement)
    <3>1. "list" \in Statement /\ "writeCRL" \in Statement /\ "tryLoad" \in Statement /\ "delete" \in Statement /\ "apply" \in Statement
      BY DEF Statement
    <3>2. <<"list", "writeCRL", "tryLoad", "delete", "apply">> \in Seq(Statement)
      BY <3>1
    <3> QED
      BY <2>1, <3>2, Zenon
  <2> QED
    BY <2>1, <2>2 DEF IkeRemoval, Follow, Unissued, Settling
<1>4. CASE s = <<"list", "writeCRL", "tryLoad", "delete", "apply">>
  <2>1. Head(s) = "list" /\ Tail(s) = <<"writeCRL", "tryLoad", "delete", "apply">> /\ First(Tail(s)) = "writeCRL"
    BY <1>4 DEF First
  <2> QED
    BY <2>1 DEF IkeRemoval, Follow, Unissued, Settling
<1>5. CASE s = <<"writeCRL", "tryLoad", "delete", "apply">>
  <2>1. Head(s) = "writeCRL" /\ Tail(s) = <<"tryLoad", "delete", "apply">> /\ First(Tail(s)) = "tryLoad"
    BY <1>5 DEF First
  <2> QED
    BY <2>1 DEF IkeRemoval, Follow, Unissued, Settling
<1>6. CASE s = <<"tryLoad", "delete", "apply">>
  <2>1. Head(s) = "tryLoad" /\ Tail(s) = <<"delete", "apply">> /\ First(Tail(s)) = "delete"
    BY <1>6 DEF First
  <2> QED
    BY <2>1 DEF IkeRemoval, Follow, Unissued, Settling
<1>7. CASE s = <<"delete", "apply">>
  <2>1. Head(s) = "delete" /\ Tail(s) = <<"apply">> /\ First(Tail(s)) = "apply"
    BY <1>7 DEF First
  <2> QED
    BY <2>1 DEF IkeRemoval, Follow, Unissued, Settling
<1>8. CASE s = <<"apply">>
  <2>1. Head(s) = "apply" /\ Tail(s) = <<>> /\ First(Tail(s)) = "none"
    BY <1>8 DEF First
  <2> QED
    BY <2>1 DEF IkeRemoval, Follow, Unissued, Settling
<1>9. CASE s = <<"conns", "load">>
  <2>1. Head(s) = "conns" /\ Tail(s) = <<"load">> /\ First(Tail(s)) = "load"
    BY <1>9 DEF First
  <2> QED
    BY <2>1 DEF IkeRemoval, Follow, Unissued, Settling
<1>10. CASE s = <<"load">>
  <2>1. Head(s) = "load" /\ Tail(s) = <<>> /\ First(Tail(s)) = "none"
    BY <1>10 DEF First
  <2> QED
    BY <2>1 DEF IkeRemoval, Follow, Unissued, Settling
<1> QED
  BY <1>1, <1>2, <1>3, <1>4, <1>5, <1>6, <1>7, <1>8, <1>9, <1>10 DEF IkeRemoval

\* What a concatenation is, element by element.
LEMMA JoinIs ==
  ASSUME NEW S, NEW s \in Seq(S), NEW t \in Seq(S), NEW u \in Seq(S), Len(u) = Len(s) + Len(t),
         \A i \in 1..Len(s) : u[i] = s[i], \A i \in 1..Len(t) : u[Len(s) + i] = t[i]
  PROVE  s \o t = u
<1>1. s \o t \in Seq(S) /\ Len(s \o t) = Len(u)
  BY ConcatProperties
<1>2. ASSUME NEW i \in 1..Len(u) PROVE (s \o t)[i] = u[i]
  <2>1. CASE i <= Len(s)
    BY <2>1, ConcatProperties
  <2>2. CASE i > Len(s)
    <3>1. i - Len(s) \in 1..Len(t)
      BY <2>2
    <3>2. (s \o t)[i] = t[i - Len(s)]
      BY <2>2, ConcatProperties
    <3>3. u[Len(s) + (i - Len(s))] = t[i - Len(s)] /\ Len(s) + (i - Len(s)) = i
      BY <3>1
    <3> QED
      BY <3>2, <3>3
  <2> QED
    BY <2>1, <2>2
<1> QED
  BY <1>1, <1>2, SeqEqual

\* The concatenations of the methods' programs.
LEMMA Join22 ==
  ASSUME NEW a, NEW b, NEW c, NEW d
  PROVE  <<a, b>> \o <<c, d>> = <<a, b, c, d>>
<1> DEFINE S == {a, b, c, d}
           x == <<a, b>>
           y == <<c, d>>
           z == <<a, b, c, d>>
<1>1. x \in Seq(S) /\ y \in Seq(S) /\ z \in Seq(S) /\ Len(x) = 2 /\ Len(y) = 2 /\ Len(z) = 4
  OBVIOUS
<1>2. (\A i \in 1..2 : z[i] = x[i]) /\ \A i \in 1..2 : z[2 + i] = y[i]
  OBVIOUS
<1> HIDE DEF S, x, y, z
<1>3. /\ Len(z) = Len(x) + Len(y) /\ \A i \in 1..Len(x) : z[i] = x[i]
      /\ \A i \in 1..Len(y) : z[Len(x) + i] = y[i]
  BY <1>1, <1>2
<1>4. x \o y = z
  BY <1>1, <1>3, JoinIs
<1> QED
  BY <1>4 DEF x, y, z

\* A program of four statements and one of one.
LEMMA Join41 ==
  ASSUME NEW a, NEW b, NEW c, NEW d, NEW e
  PROVE  <<a, b, c, d>> \o <<e>> = <<a, b, c, d, e>>
<1> DEFINE S == {a, b, c, d, e}
           x == <<a, b, c, d>>
           y == <<e>>
           z == <<a, b, c, d, e>>
<1>1. x \in Seq(S) /\ y \in Seq(S) /\ z \in Seq(S) /\ Len(x) = 4 /\ Len(y) = 1 /\ Len(z) = 5
  OBVIOUS
<1>2. (\A i \in 1..4 : z[i] = x[i]) /\ \A i \in 1..1 : z[4 + i] = y[i]
  OBVIOUS
<1> HIDE DEF S, x, y, z
<1>3. /\ Len(z) = Len(x) + Len(y) /\ \A i \in 1..Len(x) : z[i] = x[i]
      /\ \A i \in 1..Len(y) : z[Len(x) + i] = y[i]
  BY <1>1, <1>2
<1>4. x \o y = z
  BY <1>1, <1>3, JoinIs
<1> QED
  BY <1>4 DEF x, y, z

\* Four statements and two.
LEMMA Join42 ==
  ASSUME NEW a, NEW b, NEW c, NEW d, NEW e, NEW f
  PROVE  <<a, b, c, d>> \o <<e, f>> = <<a, b, c, d, e, f>>
<1> DEFINE S == {a, b, c, d, e, f}
           x == <<a, b, c, d>>
           y == <<e, f>>
           z == <<a, b, c, d, e, f>>
<1>1. x \in Seq(S) /\ y \in Seq(S) /\ z \in Seq(S) /\ Len(x) = 4 /\ Len(y) = 2 /\ Len(z) = 6
  OBVIOUS
<1>2. (\A i \in 1..4 : z[i] = x[i]) /\ \A i \in 1..2 : z[4 + i] = y[i]
  OBVIOUS
<1> HIDE DEF S, x, y, z
<1>3. /\ Len(z) = Len(x) + Len(y) /\ \A i \in 1..Len(x) : z[i] = x[i]
      /\ \A i \in 1..Len(y) : z[Len(x) + i] = y[i]
  BY <1>1, <1>2
<1>4. x \o y = z
  BY <1>1, <1>3, JoinIs
<1> QED
  BY <1>4 DEF x, y, z

\* Three and two.
LEMMA Join32 ==
  ASSUME NEW a, NEW b, NEW c, NEW d, NEW e
  PROVE  <<a, b, c>> \o <<d, e>> = <<a, b, c, d, e>>
<1> DEFINE S == {a, b, c, d, e}
           x == <<a, b, c>>
           y == <<d, e>>
           z == <<a, b, c, d, e>>
<1>1. x \in Seq(S) /\ y \in Seq(S) /\ z \in Seq(S) /\ Len(x) = 3 /\ Len(y) = 2 /\ Len(z) = 5
  OBVIOUS
<1>2. (\A i \in 1..3 : z[i] = x[i]) /\ \A i \in 1..2 : z[3 + i] = y[i]
  OBVIOUS
<1> HIDE DEF S, x, y, z
<1>3. /\ Len(z) = Len(x) + Len(y) /\ \A i \in 1..Len(x) : z[i] = x[i]
      /\ \A i \in 1..Len(y) : z[Len(x) + i] = y[i]
  BY <1>1, <1>2
<1>4. x \o y = z
  BY <1>1, <1>3, JoinIs
<1> QED
  BY <1>4 DEF x, y, z

\* Five and one.
LEMMA Join51 ==
  ASSUME NEW a, NEW b, NEW c, NEW d, NEW e, NEW f
  PROVE  <<a, b, c, d, e>> \o <<f>> = <<a, b, c, d, e, f>>
<1> DEFINE S == {a, b, c, d, e, f}
           x == <<a, b, c, d, e>>
           y == <<f>>
           z == <<a, b, c, d, e, f>>
<1>1. x \in Seq(S) /\ y \in Seq(S) /\ z \in Seq(S) /\ Len(x) = 5 /\ Len(y) = 1 /\ Len(z) = 6
  OBVIOUS
<1>2. (\A i \in 1..5 : z[i] = x[i]) /\ \A i \in 1..1 : z[5 + i] = y[i]
  OBVIOUS
<1> HIDE DEF S, x, y, z
<1>3. /\ Len(z) = Len(x) + Len(y) /\ \A i \in 1..Len(x) : z[i] = x[i]
      /\ \A i \in 1..Len(y) : z[Len(x) + i] = y[i]
  BY <1>1, <1>2
<1>4. x \o y = z
  BY <1>1, <1>3, JoinIs
<1> QED
  BY <1>4 DEF x, y, z

\* Six and two.
LEMMA Join62 ==
  ASSUME NEW a, NEW b, NEW c, NEW d, NEW e, NEW f, NEW g, NEW h
  PROVE  <<a, b, c, d, e, f>> \o <<g, h>> = <<a, b, c, d, e, f, g, h>>
<1> DEFINE S == {a, b, c, d, e, f, g, h}
           x == <<a, b, c, d, e, f>>
           y == <<g, h>>
           z == <<a, b, c, d, e, f, g, h>>
<1>1. x \in Seq(S) /\ y \in Seq(S) /\ z \in Seq(S) /\ Len(x) = 6 /\ Len(y) = 2 /\ Len(z) = 8
  OBVIOUS
<1>2. (\A i \in 1..6 : z[i] = x[i]) /\ \A i \in 1..2 : z[6 + i] = y[i]
  OBVIOUS
<1> HIDE DEF S, x, y, z
<1>3. /\ Len(z) = Len(x) + Len(y) /\ \A i \in 1..Len(x) : z[i] = x[i]
      /\ \A i \in 1..Len(y) : z[Len(x) + i] = y[i]
  BY <1>1, <1>2
<1>4. x \o y = z
  BY <1>1, <1>3, JoinIs
<1> QED
  BY <1>4 DEF x, y, z

\* Five and two.
LEMMA Join52 ==
  ASSUME NEW a, NEW b, NEW c, NEW d, NEW e, NEW f, NEW g
  PROVE  <<a, b, c, d, e>> \o <<f, g>> = <<a, b, c, d, e, f, g>>
<1> DEFINE S == {a, b, c, d, e, f, g}
           x == <<a, b, c, d, e>>
           y == <<f, g>>
           z == <<a, b, c, d, e, f, g>>
<1>1. x \in Seq(S) /\ y \in Seq(S) /\ z \in Seq(S) /\ Len(x) = 5 /\ Len(y) = 2 /\ Len(z) = 7
  OBVIOUS
<1>2. (\A i \in 1..5 : z[i] = x[i]) /\ \A i \in 1..2 : z[5 + i] = y[i]
  OBVIOUS
<1> HIDE DEF S, x, y, z
<1>3. /\ Len(z) = Len(x) + Len(y) /\ \A i \in 1..Len(x) : z[i] = x[i]
      /\ \A i \in 1..Len(y) : z[Len(x) + i] = y[i]
  BY <1>1, <1>2
<1>4. x \o y = z
  BY <1>1, <1>3, JoinIs
<1> QED
  BY <1>4 DEF x, y, z

\* Three and four.
LEMMA Join34 ==
  ASSUME NEW a, NEW b, NEW c, NEW d, NEW e, NEW f, NEW g
  PROVE  <<a, b, c>> \o <<d, e, f, g>> = <<a, b, c, d, e, f, g>>
<1> DEFINE S == {a, b, c, d, e, f, g}
           x == <<a, b, c>>
           y == <<d, e, f, g>>
           z == <<a, b, c, d, e, f, g>>
<1>1. x \in Seq(S) /\ y \in Seq(S) /\ z \in Seq(S) /\ Len(x) = 3 /\ Len(y) = 4 /\ Len(z) = 7
  OBVIOUS
<1>2. (\A i \in 1..3 : z[i] = x[i]) /\ \A i \in 1..4 : z[3 + i] = y[i]
  OBVIOUS
<1> HIDE DEF S, x, y, z
<1>3. /\ Len(z) = Len(x) + Len(y) /\ \A i \in 1..Len(x) : z[i] = x[i]
      /\ \A i \in 1..Len(y) : z[Len(x) + i] = y[i]
  BY <1>1, <1>2
<1>4. x \o y = z
  BY <1>1, <1>3, JoinIs
<1> QED
  BY <1>4 DEF x, y, z

\* Before a program, and of no program.
LEMMA JoinOne ==
  ASSUME NEW S, NEW a \in S, NEW t \in Seq(S)
  PROVE  <<a>> \o t # <<>> /\ Head(<<a>> \o t) = a /\ Tail(<<a>> \o t) = t
<1>1. <<a>> \in Seq(S) /\ Len(<<a>>) = 1
  OBVIOUS
<1>2. <<a>> \o t \in Seq(S) /\ Len(<<a>> \o t) = 1 + Len(t)
  BY <1>1, ConcatProperties
<1>3. <<a>> \o t # <<>> /\ Head(<<a>> \o t) = a
  BY <1>1, <1>2, ConcatProperties
<1>4. Tail(<<a>> \o t) \in Seq(S) /\ Len(Tail(<<a>> \o t)) = Len(t)
  BY <1>2, <1>3, HeadTailProperties
<1>5. ASSUME NEW i \in 1..Len(t) PROVE Tail(<<a>> \o t)[i] = t[i]
  <2>1. Tail(<<a>> \o t)[i] = (<<a>> \o t)[i + 1]
    BY <1>2, <1>3, <1>4, HeadTailProperties
  <2>2. (<<a>> \o t)[i + 1] = t[i]
    BY <1>1, ConcatProperties
  <2> QED
    BY <2>1, <2>2
<1> QED
  BY <1>3, <1>4, <1>5, SeqEqual

\* The empty program adds nothing.
LEMMA JoinNone == ASSUME NEW S, NEW s \in Seq(S) PROVE s \o <<>> = s /\ <<>> \o s = s
  BY ConcatEmptySeq

\* Every program runs statement by statement, a new CA in place of the stored one.
LEMMA BaseNext ==
  ASSUME NEW k \in {"openvpn", "ikev2"}, NEW c \in CertClass, NEW s \in Base(k, c), s # <<>>
  PROVE  /\ Tail(s) \in Base(k, c) /\ (Head(s) = "getCA" => Tail(s) \in Seq(Statement))
         /\ Follow(k, c, Head(s), First(Tail(s)))
<1>1. CASE c = "read"
  BY <1>1, ReadBaseNext DEF Base
<1>2. CASE c = "import"
  BY <1>2, ImportBaseNext DEF Base
<1>3. CASE c = "change"
  BY <1>3, OvpnChangeNext, IkeChangeNext DEF Base
<1>4. CASE c = "remove"
  BY <1>4, OvpnRemovalNext, IkeRemovalNext DEF Base
<1>5. CASE c = "none"
  BY <1>5 DEF Base
<1> QED
  BY <1>1, <1>2, <1>3, <1>4, <1>5 DEF CertClass

\* The same when getCA has turned into the making of a CA.
LEMMA RestNext ==
  ASSUME NEW k \in {"openvpn", "ikev2"}, NEW c \in CertClass, NEW s \in RestOf(k, c), s # <<>>
  PROVE  /\ Tail(s) \in Base(k, c)
         /\ Follow(k, c, IF Head(s) = "newCA" THEN "getCA" ELSE Head(s), First(Tail(s)))
         /\ Head(s) = "getCA" => <<"newCA">> \o Tail(s) \in RestOf(k, c) /\ First(<<"newCA">> \o Tail(s)) = "newCA"
         /\ Head(s) # "newCA" => s \in Base(k, c)
<1>1. CASE s \in Base(k, c)
  <2>1. /\ Tail(s) \in Base(k, c) /\ (Head(s) = "getCA" => Tail(s) \in Seq(Statement))
        /\ Follow(k, c, Head(s), First(Tail(s)))
    BY <1>1, BaseNext
  <2>2. Head(s) # "newCA"
    BY <2>1 DEF Follow
  <2>3. ASSUME Head(s) = "getCA"
        PROVE  <<"newCA">> \o Tail(s) \in RestOf(k, c) /\ First(<<"newCA">> \o Tail(s)) = "newCA"
    <3>1. First(s) = "getCA"
      BY <2>3 DEF First
    <3>2. Tail(s) \in Seq(Statement \cup {"newCA"})
      BY <2>1, <2>3, SeqMonotonic
    <3>3. <<"newCA">> \o Tail(s) # <<>> /\ Head(<<"newCA">> \o Tail(s)) = "newCA"
      BY <3>2, JoinOne
    <3> QED
      BY <1>1, <3>1, <3>3 DEF RestOf, Renewing, First
  <2> QED
    BY <1>1, <2>1, <2>2, <2>3
<1>2. CASE s \in Renewing(k, c)
  <2>1. PICK x \in Base(k, c) : First(x) = "getCA" /\ s = <<"newCA">> \o Tail(x)
    BY <1>2 DEF Renewing
  <2>2. x # <<>> /\ Head(x) = "getCA"
    BY <2>1 DEF First
  <2>3. /\ Tail(x) \in Base(k, c) /\ Tail(x) \in Seq(Statement \cup {"newCA"})
        /\ Follow(k, c, "getCA", First(Tail(x)))
    BY <2>2, BaseNext, SeqMonotonic
  <2>4. Head(s) = "newCA" /\ Tail(s) = Tail(x)
    BY <2>1, <2>3, JoinOne
  <2> QED
    BY <2>3, <2>4
<1> QED
  BY <1>1, <1>2 DEF RestOf

\* The programs that are put together from others.
LEMMA JoinedPrograms ==
  /\ OvpnRevoke = <<"addRevoked", "getCA", "list", "writeCRL">>
  /\ OvpnEnsureServer = <<"lock", "getCA", "list", "writeCRL", "files", "restart">>
  /\ IkeRevoke = <<"addRevoked", "getCA", "list", "writeCRL", "tryLoad">>
  /\ IkeEnsureServer = <<"lock", "getCA", "files", "list", "writeCRL", "saveRoutes", "conns", "load">>
  /\ apiCAImport(FALSE) = <<"lock", "importCA", "unlock">>
  /\ apiCAImport(TRUE) = <<"lock", "importCA", "unlock", "importCRL", "getCA", "list", "writeCRL">>
<1>1. /\ OvpnRebuildCRL = <<"list", "writeCRL">> /\ IkeRebuildCRL = <<"list", "writeCRL">>
      /\ RebuildCRL = <<"list", "writeCRL">> /\ IkeWriteConnAndLoad = <<"conns", "load">>
      /\ (IF IsOvpn THEN OvpnImportCA ELSE IkeImportCA) = <<"lock", "importCA", "unlock">>
  BY Zenon DEF OvpnRebuildCRL, IkeRebuildCRL, RebuildCRL, IkeWriteConnAndLoad, OvpnImportCA, IkeImportCA
<1>2. <<"addRevoked", "getCA">> \o <<"list", "writeCRL">> = <<"addRevoked", "getCA", "list", "writeCRL">>
  BY Join22, Zenon
<1>3. <<"lock", "getCA">> \o <<"list", "writeCRL">> = <<"lock", "getCA", "list", "writeCRL">>
  BY Join22, Zenon
<1>4. <<"importCRL", "getCA">> \o <<"list", "writeCRL">> = <<"importCRL", "getCA", "list", "writeCRL">>
  BY Join22, Zenon
<1>5. <<"lock", "getCA", "list", "writeCRL">> \o <<"files", "restart">>
        = <<"lock", "getCA", "list", "writeCRL", "files", "restart">>
  BY Join42, SMT
<1>6. <<"addRevoked", "getCA", "list", "writeCRL">> \o <<"tryLoad">>
        = <<"addRevoked", "getCA", "list", "writeCRL", "tryLoad">>
  BY Join41, Zenon
<1>7. <<"lock", "getCA", "files">> \o <<"list", "writeCRL">> = <<"lock", "getCA", "files", "list", "writeCRL">>
  BY Join32, Zenon
<1>8. <<"lock", "getCA", "files", "list", "writeCRL">> \o <<"saveRoutes">>
        = <<"lock", "getCA", "files", "list", "writeCRL", "saveRoutes">>
  BY Join51, Zenon
<1>9. <<"lock", "getCA", "files", "list", "writeCRL", "saveRoutes">> \o <<"conns", "load">>
        = <<"lock", "getCA", "files", "list", "writeCRL", "saveRoutes", "conns", "load">>
  BY Join62, SMT
<1>10. <<"lock", "importCA", "unlock">> \o <<"importCRL", "getCA", "list", "writeCRL">>
        = <<"lock", "importCA", "unlock", "importCRL", "getCA", "list", "writeCRL">>
  BY Join34, SMT
<1>11. <<"lock", "importCA", "unlock">> \o <<>> = <<"lock", "importCA", "unlock">>
  <2>1. ASSUME NEW a, NEW b, NEW c PROVE <<a, b, c>> \o <<>> = <<a, b, c>>
    <3>1. <<a, b, c>> \in Seq({a, b, c})
      OBVIOUS
    <3> QED
      BY <3>1, JoinNone
  <2> QED
    BY <2>1, Zenon
<1>12. OvpnRevoke = <<"addRevoked", "getCA", "list", "writeCRL">>
  BY <1>1, <1>2, Zenon DEF OvpnRevoke
<1>13. OvpnEnsureServer = <<"lock", "getCA", "list", "writeCRL", "files", "restart">>
  BY <1>1, <1>3, <1>5, Zenon DEF OvpnEnsureServer
<1>14. IkeRevoke = <<"addRevoked", "getCA", "list", "writeCRL", "tryLoad">>
  BY <1>1, <1>2, <1>6, Zenon DEF IkeRevoke
<1>15. IkeEnsureServer = <<"lock", "getCA", "files", "list", "writeCRL", "saveRoutes", "conns", "load">>
  BY <1>1, <1>7, <1>8, <1>9, Zenon DEF IkeEnsureServer
<1>16. apiCAImport(FALSE) = <<"lock", "importCA", "unlock">>
  BY <1>1, <1>11, Zenon DEF apiCAImport
<1>17. apiCAImport(TRUE) = <<"lock", "importCA", "unlock", "importCRL", "getCA", "list", "writeCRL">>
  BY <1>1, <1>4, <1>10, Zenon DEF apiCAImport
<1> QED
  BY <1>12, <1>13, <1>14, <1>15, <1>16, <1>17

\* What a request is to do once it has the mutex.
Opening(c, s) ==
  /\ c \in CertClass \ {"none"} /\ Head(s) = "lock" /\ Tail(s) \in Base(kind, c)
  /\ First(Tail(s)) \in {"getCA", "get", "revoke", "importCA"}
  /\ c = "remove" => First(Tail(s)) = "revoke"
  /\ c = "import" <=> First(Tail(s)) = "importCA"

\* Every method takes the mutex first.
LEMMA ProgramOpens ==
  ASSUME NEW call \in CertCalls, kind \in {"openvpn", "ikev2"}
  PROVE  Opening(Class(call), Program(call))
<1>1. call \in {"add", "csr", "adopt", "update", "remove", "config", "profile", "ensure", "import", "importCRL"}
  BY CertCallsAssumption
<1>2. CASE call = "add"
  BY <1>2 DEF Opening, Class, Changes, Program, IsOvpn, OvpnAddPeer, IkeAddPeer, CertClass, Base, First, OvpnChange, IkeChange
<1>3. CASE call = "csr"
  BY <1>3 DEF Opening, Class, Changes, Program, IsOvpn, OvpnAddPeerFromCSR, IkeAddPeerFromCSR, CertClass, Base, First, OvpnChange, IkeChange
<1>4. CASE call = "adopt"
  BY <1>4 DEF Opening, Class, Changes, Program, IsOvpn, OvpnImportPeer, IkeImportPeer, CertClass, Base, First, OvpnChange, IkeChange
<1>5. CASE call = "update"
  BY <1>5 DEF Opening, Class, Changes, Program, IsOvpn, OvpnUpdatePeer, IkeUpdatePeer, CertClass, Base, First, OvpnChange, IkeChange
<1>6. CASE call = "remove"
  BY <1>6 DEF Opening, Class, Changes, Program, IsOvpn, OvpnRemovePeer, IkeRemovePeer, CertClass, Base, First, OvpnRemoval, IkeRemoval
<1>7. CASE call = "config"
  BY <1>7 DEF Opening, Class, Changes, Program, IsOvpn, OvpnClientConfigFile, IkeClientConfigFile, IkeClientProfile, CertClass, Base, First, ReadBase
<1>10. CASE call = "profile"
  BY <1>10 DEF Opening, Class, Changes, Program, IsOvpn, OvpnClientConfigFile, IkeClientConfigFile, IkeClientProfile, CertClass, Base, First, ReadBase
<1>8. CASE call = "ensure"
  BY <1>8, JoinedPrograms DEF Opening, Class, Changes, Program, IsOvpn, CertClass, Base, First, OvpnChange, IkeChange
<1>9. CASE call = "import"
  <2>1. Program(call) = apiCAImport(FALSE)
    BY <1>9 DEF Program
  <2>2. Program(call) = <<"lock", "importCA", "unlock">>
    BY <2>1, JoinedPrograms, Zenon
  <2>3. Class(call) = "import"
    BY <1>9 DEF Class, Changes
  <2> QED
    BY <2>2, <2>3 DEF Opening, CertClass, Base, First, ImportBase
<1>11. CASE call = "importCRL"
  <2>1. Program(call) = apiCAImport(TRUE)
    BY <1>11 DEF Program
  <2>2. Program(call) = <<"lock", "importCA", "unlock", "importCRL", "getCA", "list", "writeCRL">>
    BY <2>1, JoinedPrograms, Zenon
  <2>3. Class(call) = "import"
    BY <1>11 DEF Class, Changes
  <2> QED
    BY <2>2, <2>3 DEF Opening, CertClass, Base, First, ImportBase
<1> QED
  BY <1>1, <1>2, <1>3, <1>4, <1>5, <1>6, <1>7, <1>8, <1>9, <1>10, <1>11

\* Some of the programs, and where they begin.
LEMMA BaseHas ==
  /\ <<"addRevoked", "getCA", "list", "writeCRL", "rmCCD", "delete">> \in Base("openvpn", "remove")
  /\ First(<<"addRevoked", "getCA", "list", "writeCRL", "rmCCD", "delete">>) = "addRevoked"
  /\ <<"addRevoked", "getCA", "list", "writeCRL", "tryLoad", "delete", "apply">> \in Base("ikev2", "remove")
  /\ First(<<"addRevoked", "getCA", "list", "writeCRL", "tryLoad", "delete", "apply">>) = "addRevoked"
  /\ \A c \in {"change", "remove"} : {<<>>, <<"conns", "load">>} \subseteq Base("ikev2", c)
  /\ First(<<>>) = "none" /\ First(<<"conns", "load">>) = "conns"
  BY DEF Base, OvpnRemoval, IkeChange, IkeRemoval, First

\* A removal that read its client goes on with the revocation.
LEMMA RevokeOpens ==
  ASSUME kind \in {"openvpn", "ikev2"}, NEW c \in CertClass, NEW s \in RestOf(kind, c), s # <<>>, Head(s) = "revoke",
         NEW t, t = (IF IsOvpn THEN OvpnRevoke ELSE IkeRevoke) \o Tail(s)
  PROVE  t \in Base(kind, c) /\ First(t) = "addRevoked"
<1>1. s \in Base(kind, c) /\ Follow(kind, c, "revoke", First(Tail(s)))
  BY RestNext
<1>2. c = "remove"
  BY <1>1 DEF Follow
<1>3. CASE kind = "openvpn"
  <2>1. s = <<"revoke", "rmCCD", "delete">>
    BY <1>1, <1>2, <1>3 DEF Base, OvpnRemoval
  <2>2. Tail(s) = <<"rmCCD", "delete">>
    BY <2>1
  <2>3. <<"addRevoked", "getCA", "list", "writeCRL">> \o <<"rmCCD", "delete">>
          = <<"addRevoked", "getCA", "list", "writeCRL", "rmCCD", "delete">>
    BY Join42, SMT
  <2>4. t = <<"addRevoked", "getCA", "list", "writeCRL", "rmCCD", "delete">>
    BY <1>3, <2>2, <2>3, JoinedPrograms, Zenon DEF IsOvpn
  <2> QED
    BY <1>2, <1>3, <2>4, BaseHas, Zenon
<1>4. CASE kind = "ikev2"
  <2>1. s = <<"revoke", "delete", "apply">>
    BY <1>1, <1>2, <1>4 DEF Base, IkeRemoval
  <2>2. Tail(s) = <<"delete", "apply">>
    BY <2>1
  <2>3. <<"addRevoked", "getCA", "list", "writeCRL", "tryLoad">> \o <<"delete", "apply">>
          = <<"addRevoked", "getCA", "list", "writeCRL", "tryLoad", "delete", "apply">>
    BY Join52, SMT
  <2>4. ~IsOvpn
    BY <1>4 DEF IsOvpn
  <2>5. t = <<"addRevoked", "getCA", "list", "writeCRL", "tryLoad", "delete", "apply">>
    BY <2>2, <2>3, <2>4, JoinedPrograms, Zenon
  <2> QED
    BY <1>2, <1>4, <2>5, BaseHas, Zenon
<1> QED
  BY <1>3, <1>4

\* applyClients goes on with the connections, or ends.
LEMMA ApplyOpens ==
  ASSUME kind \in {"openvpn", "ikev2"}, NEW c \in CertClass, NEW s \in RestOf(kind, c), s # <<>>, Head(s) = "apply",
         NEW t, t = (IF routes THEN IkeWriteConnAndLoad ELSE <<>>) \o Tail(s)
  PROVE  /\ kind = "ikev2" /\ c \in {"change", "remove"} /\ t \in Base(kind, c)
         /\ First(t) = IF routes THEN "conns" ELSE "none"
<1>1. s \in Base(kind, c) /\ Follow(kind, c, "apply", First(Tail(s)))
  BY RestNext
<1>2. kind = "ikev2" /\ c \in {"change", "remove"}
  <2>1. kind # "openvpn" /\ c \notin {"read", "import"}
    BY <1>1 DEF Follow, Unissued
  <2>2. c # "none"
    BY <1>1 DEF Base
  <2> QED
    BY <2>1, <2>2 DEF CertClass
<1>3. Tail(s) = <<>>
  <2>1. First(Tail(s)) = "none" /\ Tail(s) \in Base(kind, c)
    BY <1>1, <1>2, RestNext DEF Follow
  <2>2. ASSUME NEW x \in IkeChange \cup IkeRemoval, x # <<>> PROVE First(x) # "none"
    BY <2>2 DEF IkeChange, IkeRemoval, First
  <2> QED
    BY <1>2, <2>1, <2>2 DEF Base
<1>4. <<"conns", "load">> \o <<>> = <<"conns", "load">>
  <2>1. ASSUME NEW a, NEW b PROVE <<a, b>> \o <<>> = <<a, b>>
    <3>1. <<a, b>> \in Seq({a, b})
      OBVIOUS
    <3> QED
      BY <3>1, JoinNone
  <2> QED
    BY <2>1, Zenon
<1>5. <<>> \o <<>> = <<>>
  <2>1. <<>> \in Seq({})
    OBVIOUS
  <2> QED
    BY <2>1, JoinNone
<1>6. CASE routes
  <2>1. t = <<"conns", "load">>
    BY <1>3, <1>4, <1>6, Zenon DEF IkeWriteConnAndLoad
  <2> QED
    BY <1>2, <1>6, <2>1, BaseHas, Zenon
<1>7. CASE ~routes
  <2>1. t = <<>>
    BY <1>3, <1>5, <1>7, Zenon
  <2> QED
    BY <1>2, <1>7, <2>1, BaseHas, Zenon
<1> QED
  BY <1>6, <1>7

-----------------------------------------------------------------------------
(* A request among others *)

\* A request that does nothing.
LEMMA IdleIs ==
  /\ Idle \in CertReq /\ Idle.call = "none" /\ Idle.rest = <<>>
  /\ \A k : Idle.rest \in RestOf(k, "none")
<1>1. \A k : <<>> \in RestOf(k, "none")
  BY DEF RestOf, Base
<1>2. <<>> \in AnyRest
  BY <1>1 DEF AnyRest, CertClass
<1>3. Idle.call = "none" /\ Idle.rest = <<>>
  BY DEF Idle
<1>4. Idle \in CertReq
  BY <1>2 DEF Idle, CertReq, CertClass
<1> QED
  BY <1>1, <1>3, <1>4

\* A request with a statement to run.
LEMMA CertAt ==
  ASSUME CertInv, NEW q \in CertProc, Head1(q) # "none"
  PROVE  /\ kind \in {"openvpn", "ikev2"} /\ CertTypes /\ CertRun(q)
         /\ req[q] \in CertReq /\ req[q].rest # <<>> /\ Head(req[q].rest) = Head1(q)
         /\ req[q].rest \in RestOf(kind, req[q].call) /\ req[q].call # "none" /\ req[q].cn \in CN
         /\ Next1(q) \in CertReq /\ Next1(q).call = req[q].call /\ Next1(q).cn = req[q].cn
         /\ Next1(q).ca = req[q].ca /\ Next1(q).cert = req[q].cert /\ Next1(q).list = req[q].list
         /\ Next1(q).blind = req[q].blind /\ Next1(q).rest = Tail(req[q].rest)
         /\ Next1(q).rest \in RestOf(kind, req[q].call)
         /\ Follow(kind, req[q].call, IF Head1(q) = "newCA" THEN "getCA" ELSE Head1(q), First(Next1(q).rest))
<1>1. /\ kind \in {"openvpn", "ikev2"} /\ CertTypes /\ CertRun(q)
      /\ req[q] \in CertReq /\ req[q].rest # <<>> /\ Head(req[q].rest) = Head1(q)
      /\ req[q].rest \in RestOf(kind, req[q].call) /\ req[q].call \in CertClass
  BY DEF CertInv, CertTypes, CertState, CertRun, Head1, CertReq
<1>2. req[q].call # "none"
  <2>1. ASSUME req[q].call = "none" PROVE FALSE
    <3>1. /\ Follow(kind, "none", IF Head(req[q].rest) = "newCA" THEN "getCA" ELSE Head(req[q].rest), First(Tail(req[q].rest)))
          /\ Base(kind, "none") = {<<>>}
      BY <1>1, <2>1, RestNext DEF Base
    <3>2. Renewing(kind, "none") = {}
      BY <3>1 DEF Renewing, First
    <3> QED
      BY <1>1, <2>1, <3>1, <3>2 DEF RestOf
  <2> QED
    BY <2>1
<1>3. req[q].cn \in CN
  BY <1>1, <1>2 DEF CertRun
<1>4. /\ Tail(req[q].rest) \in RestOf(kind, req[q].call)
      /\ Follow(kind, req[q].call, IF Head1(q) = "newCA" THEN "getCA" ELSE Head1(q), First(Tail(req[q].rest)))
  BY <1>1, RestNext DEF RestOf
<1>5. Next1(q) = [req[q] EXCEPT !.rest = Tail(req[q].rest)]
  BY DEF Next1
<1>6. /\ Next1(q) \in CertReq /\ Next1(q).call = req[q].call /\ Next1(q).cn = req[q].cn
      /\ Next1(q).ca = req[q].ca /\ Next1(q).cert = req[q].cert /\ Next1(q).list = req[q].list
      /\ Next1(q).blind = req[q].blind /\ Next1(q).rest = Tail(req[q].rest)
  <2>1. Tail(req[q].rest) \in AnyRest
    BY <1>1, <1>4 DEF AnyRest
  <2>2. ASSUME NEW t, t = [req[q] EXCEPT !.rest = Tail(req[q].rest)]
        PROVE  /\ t \in CertReq /\ t.call = req[q].call /\ t.cn = req[q].cn
               /\ t.ca = req[q].ca /\ t.cert = req[q].cert /\ t.list = req[q].list
               /\ t.blind = req[q].blind /\ t.rest = Tail(req[q].rest)
    BY <1>1, <2>1, <2>2 DEF CertReq
  <2> QED
    BY <1>5, <2>2
<1> QED
  BY <1>1, <1>2, <1>3, <1>4, <1>6

\* What the other requests rely on.
CertKept(q) ==
  /\ kind' = kind /\ (routes => routes') /\ (caRow # 0 => caRow' # 0)
  /\ revoked \subseteq revoked' /\ missed \subseteq missed'
  /\ \A c \in Nat \ {0} : (Listed(c) => Listed(c)') /\ (Barred(c) => Barred(c)')
  /\ caRow' = caRow \/ \A p \in CertProc \ {q} : Head1(p) = "newCA" => req[p].blind
ConnsSame ==
  /\ row' = row /\ routes' = routes /\ clean' = clean
  /\ used'.conns = used.conns /\ disk'.conns = disk.conns

\* A step that keeps what the others rely on keeps where they stand.
LEMMA OthersRun ==
  ASSUME CertInv, NEW q \in CertProc, CertKept(q), NEW p \in CertProc, p # q, req'[p] = req[p]
  PROVE  CertRun(p)' /\ (Holds(p)' <=> Holds(p)) /\ (ConnsSame /\ ConnsOf(p) => ConnsOf(p)')
<1>1. CertRun(p) /\ req[p].cert \in Nat
  BY DEF CertInv, CertTypes, CertReq
<1>2. Head1(p)' = Head1(p)
  BY DEF Head1
<1>3. Removal(p) => Removal(p)'
  BY <1>1, <1>2 DEF Removal, CertKept
<1>4. CertRun(p)'
  BY <1>1, <1>2, <1>3 DEF CertRun, CertKept
<1>5. Holds(p)' <=> Holds(p)
  BY <1>2 DEF Holds
<1>6. ConnsSame => (Synced <=> Synced') /\ Stored' = Stored
  BY DEF ConnsSame, Synced, Stored
<1>7. ConnsSame /\ ConnsOf(p) => ConnsOf(p)'
  BY <1>2, <1>6 DEF ConnsOf, ConnsSame
<1> QED
  BY <1>4, <1>5, <1>7

\* A step of one request, seen by the others.
LEMMA CertGoes ==
  ASSUME CertInv, NEW q \in CertProc, NEW r \in CertReq, req' = [req EXCEPT ![q] = r], certMu' = certMu,
         CertTypes', CertKept(q), RemovedBarred', DaemonReads', CertRun(q)',
         Holds(q)' <=> Holds(q),
         ~Holds(q) => ConnsSame,
         Holds(q) /\ kind = "ikev2" => ConnsOf(q)'
  PROVE  CertInv'
<1>1. req'[q] = r /\ \A p \in CertProc \ {q} : req'[p] = req[p]
  BY DEF CertInv, CertTypes
<1>2. \A p \in CertProc : CertRun(p)'
  BY <1>1, OthersRun
<1>3. \A p \in CertProc : Holds(p)' <=> Holds(p)
  BY <1>1, OthersRun
<1>4. CertMutex'
  BY <1>3 DEF CertInv, CertMutex
<1>5. ConnsInv'
  <2> SUFFICES ASSUME kind' = "ikev2" PROVE (certMu' = NoProc => Synced') /\ \A p \in CertProc : Holds(p)' => ConnsOf(p)'
    BY DEF ConnsInv
  <2>1. kind = "ikev2"
    BY DEF CertKept
  <2>2. certMu' = NoProc => Synced'
    <3>1. certMu = NoProc => ~Holds(q) /\ Synced
      BY <2>1, NoProcAssumption DEF CertInv, CertMutex, ConnsInv
    <3>2. ConnsSame => (Synced <=> Synced')
      BY DEF ConnsSame, Synced, Stored
    <3> QED
      BY <3>1, <3>2
  <2>3. ASSUME NEW p \in CertProc, p # q, Holds(p)' PROVE ConnsOf(p)'
    <3>1. Holds(p) /\ certMu = p /\ ConnsOf(p)
      BY <1>3, <2>1, <2>3 DEF CertInv, CertMutex, ConnsInv
    <3>2. ~Holds(q)
      BY <2>3, <3>1 DEF CertInv, CertMutex
    <3> QED
      BY <1>1, <2>3, <3>1, <3>2, OthersRun
  <2>4. Holds(q)' => ConnsOf(q)'
    BY <2>1
  <2> QED
    BY <2>2, <2>3, <2>4
<1> QED
  BY <1>2, <1>4, <1>5 DEF CertInv

\* A request returns, the deferred Unlock included.
LEMMA CertEnds ==
  ASSUME CertInv, NEW q \in CertProc, req' = [req EXCEPT ![q] = Idle],
         certMu' = IF certMu = q THEN NoProc ELSE certMu,
         CertTypes', CertKept(q), RemovedBarred', DaemonReads',
         ~Holds(q) => ConnsSame,
         Holds(q) /\ kind = "ikev2" => Synced'
  PROVE  CertInv'
<1>1. req'[q] = Idle /\ \A p \in CertProc \ {q} : req'[p] = req[p]
  BY DEF CertInv, CertTypes
<1>2. CertRun(q)' /\ ~Holds(q)'
  <2>1. Head1(q)' = "none"
    BY <1>1, IdleIs DEF Head1
  <2> QED
    BY <1>1, <2>1, IdleIs DEF CertRun, Holds, Unissued
<1>3. \A p \in CertProc : CertRun(p)'
  BY <1>1, <1>2, OthersRun
<1>4. \A p \in CertProc \ {q} : Holds(p)' <=> Holds(p)
  BY <1>1, OthersRun
<1>5. CertMutex'
  BY <1>2, <1>4, NoProcAssumption DEF CertInv, CertMutex
<1>6. ConnsInv'
  <2> SUFFICES ASSUME kind' = "ikev2" PROVE (certMu' = NoProc => Synced') /\ \A p \in CertProc : Holds(p)' => ConnsOf(p)'
    BY DEF ConnsInv
  <2>1. kind = "ikev2"
    BY DEF CertKept
  <2>2. certMu' = NoProc => Synced'
    <3>1. CASE Holds(q)
      BY <2>1, <3>1
    <3>2. CASE ~Holds(q)
      <4>1. certMu' = NoProc => Synced
        BY <2>1, <3>2 DEF CertInv, CertMutex, ConnsInv
      <4>2. Synced <=> Synced'
        BY <3>2 DEF ConnsSame, Synced, Stored
      <4> QED
        BY <4>1, <4>2
    <3> QED
      BY <3>1, <3>2
  <2>3. ASSUME NEW p \in CertProc, p # q, Holds(p)' PROVE ConnsOf(p)'
    <3>1. Holds(p) /\ certMu = p /\ ConnsOf(p)
      BY <1>4, <2>1, <2>3 DEF CertInv, CertMutex, ConnsInv
    <3>2. ~Holds(q)
      BY <2>3, <3>1 DEF CertInv, CertMutex
    <3> QED
      BY <1>1, <2>3, <3>1, <3>2, OthersRun
  <2> QED
    BY <1>2, <2>2, <2>3
<1> QED
  BY <1>3, <1>5, <1>6 DEF CertInv

\* Removed certificates stay barred.
LEMMA BarredKept ==
  ASSUME CertInv, NEW q \in CertProc, CertKept(q), removed' = removed
  PROVE  RemovedBarred'
  BY DEF CertInv, RemovedBarred, CertKept

\* Lists and what the daemon has of them are left alone, or only added to.
LEMMA ListsKept ==
  ASSUME NEW q \in CertProc, kind' = kind, routes => routes', caRow' = caRow, revoked \subseteq revoked',
         missed \subseteq missed', outrun \subseteq outrun', disk'.crl = disk.crl, used'.crl = used.crl,
         used'.up = used.up
  PROVE  CertKept(q)
  BY DEF CertKept, Listed, Barred

\* What a request is at after a statement.
LEMMA CertNextRun ==
  ASSUME CertInv, NEW q \in CertProc, Head1(q) \notin {"none", "unlock", "apply"}, NEW r \in CertReq,
         r.call = req[q].call, r.cn = req[q].cn, r.rest = Next1(q).rest, req' = [req EXCEPT ![q] = r],
         CertKept(q), DaemonReads',
         Head1(q) \in {"issue", "verify", "get", "revoke"} \/ r.cert = req[q].cert,
         Head1(q) = "importCA" => caRow' # 0,
         Head1(q) = "saveRoutes" => routes',
         req[q].call = "remove" =>
           /\ Head1(q) = "addRevoked" => r.cert \in revoked'
           /\ Head1(q) = "list" => r.cert \in r.list
           /\ Head1(q) \in {"revoke", "writeCRL"} => r.cert = 0 \/ r.cert \in missed' \/ Listed(r.cert)'
           /\ Head1(q) = "load" => r.cert = 0 \/ r.cert \in missed' \/ Barred(r.cert)'
  PROVE  CertRun(q)' /\ (Holds(q)' <=> Holds(q))
<1> DEFINE h == Head1(q)
           n == First(Next1(q).rest)
           k == IF h = "newCA" THEN "getCA" ELSE h
<1>1. /\ kind \in {"openvpn", "ikev2"} /\ CertRun(q) /\ req[q].call # "none" /\ req[q].cn \in CN
      /\ Next1(q).rest \in RestOf(kind, req[q].call) /\ req[q] \in CertReq
      /\ Follow(kind, req[q].call, k, n)
  BY CertAt
<1>2. req'[q] = r /\ Head1(q)' = n
  BY DEF CertInv, CertTypes, Head1, First
<1>3. kind' = kind
  BY DEF CertKept
<1>4. req[q].call # "remove" /\ n \in Unissued => r.cert = 0
  <2>1. req[q].call # "remove" /\ n \in Unissued => h \in Unissued
    BY <1>1 DEF Follow, Unissued
  <2>2. req[q].call # "remove" /\ h \in Unissued => req[q].cert = 0
    BY <1>1 DEF CertRun
  <2> QED
    BY <2>1, <2>2 DEF Unissued
<1>5. req[q].call = "import" /\ n # "importCA" => caRow' # 0
  BY <1>1 DEF CertRun, CertKept
<1>6. n # "newCA"
  BY <1>1 DEF Follow
<1>7. n \in {"conns", "load"} => routes'
  <2>1. n = "conns" => h = "saveRoutes"
    BY <1>1 DEF Follow
  <2>2. n = "load" => h = "conns"
    BY <1>1 DEF Follow
  <2> QED
    BY <1>1, <2>1, <2>2 DEF CertRun, CertKept
<1>8. req[q].call = "remove" => Removal(q)'
  <2> SUFFICES ASSUME req[q].call = "remove" PROVE Removal(q)'
    OBVIOUS
  <2>1. Removal(q) /\ req[q].cert \in Nat /\ r.cert \in Nat
    BY <1>1 DEF CertRun, CertReq
  <2>2. n \in {"getCA", "newCA", "list", "writeCRL"} => r.cert \in revoked'
    <3>1. /\ n = "getCA" => h = "addRevoked"
          /\ n = "list" => h \in {"getCA", "newCA"}
          /\ n = "writeCRL" => h = "list"
      BY <1>1 DEF Follow
    <3> QED
      BY <1>6, <2>1, <3>1 DEF Removal, CertKept
  <2>3. n = "writeCRL" => r.cert \in r.list
    BY <1>1 DEF Follow
  <2>4. n \in Settling => r.cert = 0 \/ r.cert \in missed' \/ Listed(r.cert)'
    <3>1. n \in Settling => h \in Settling \cup {"revoke", "writeCRL"}
      BY <1>1 DEF Follow, Settling
    <3>2. CASE h \in Settling
      <4>1. r.cert = req[q].cert
        BY <3>2 DEF Settling
      <4> QED
        BY <2>1, <3>2, <4>1 DEF Removal, CertKept
    <3> QED
      BY <3>1, <3>2
  <2>5. n = "none" => r.cert = 0 \/ r.cert \in missed' \/ Barred(r.cert)'
    <3>1. CASE kind = "openvpn"
      BY <1>3, <2>4, <3>1 DEF DaemonReads, Settling, Listed, Barred
    <3>2. CASE kind = "ikev2"
      BY <1>1, <3>2 DEF Follow
    <3> QED
      BY <1>1, <3>1, <3>2
  <2> QED
    BY <1>2, <2>2, <2>3, <2>4, <2>5 DEF Removal
<1>9. CertRun(q)'
  BY <1>1, <1>2, <1>3, <1>4, <1>5, <1>6, <1>7, <1>8 DEF CertRun
<1>10. Holds(q)' <=> Holds(q)
  <2>1. req[q].call \in {"read", "change", "remove"} \/ req[q].call = "import"
    BY <1>1 DEF CertReq, CertClass
  <2>2. req[q].call = "import" => (n \in {"importCA", "unlock"} <=> h \in {"importCA", "unlock"})
    BY <1>1 DEF Follow
  <2> QED
    BY <1>2, <2>1, <2>2 DEF Holds
<1> QED
  BY <1>9, <1>10

\* The connections after a statement of the one that holds the mutex.
LEMMA CertNextConns ==
  ASSUME CertInv, NEW q \in CertProc, Head1(q) \notin {"none", "unlock", "apply"}, NEW r \in CertReq,
         r.call = req[q].call, r.rest = Next1(q).rest, req' = [req EXCEPT ![q] = r],
         kind = "ikev2", Holds(q), clean' = clean,
         Head1(q) \in {"save", "delete", "saveRoutes", "conns", "load", "tryLoad"} \/ ConnsSame,
         Head1(q) = "conns" => disk'.conns = Stored',
         Head1(q) = "load" => disk' = disk /\ used'.conns = disk.conns /\ row' = row,
         Head1(q) = "tryLoad" => /\ disk' = disk /\ row' = row /\ routes' = routes
                                 /\ used'.conns \in {used.conns, disk.conns}
  PROVE  ConnsOf(q)'
<1> DEFINE h == Head1(q)
           n == First(Next1(q).rest)
           k == IF h = "newCA" THEN "getCA" ELSE h
<1>1. /\ req[q].call # "none" /\ req[q] \in CertReq /\ Follow(kind, req[q].call, k, n) /\ CertRun(q)
  BY CertAt
<1>2. req'[q] = r /\ Head1(q)' = n
  BY DEF CertInv, CertTypes, Head1, First
<1>3. ConnsOf(q)
  BY DEF CertInv, ConnsInv
<1>4. CASE req[q].call \in {"change", "remove"}
  <2>1. /\ n = "none" <=> h = "load"
        /\ n = "apply" <=> h \in {"save", "delete"}
        /\ n = "conns" <=> h = "saveRoutes"
        /\ n = "load" <=> h = "conns"
    BY <1>1, <1>4 DEF Follow
  <2>2. CASE h \in {"save", "delete", "saveRoutes"}
    BY <1>2, <1>4, <2>1, <2>2 DEF ConnsOf
  <2>3. CASE h = "conns"
    BY <1>2, <1>4, <2>1, <2>3 DEF ConnsOf
  <2>4. CASE h = "load"
    <3>1. disk.conns = Stored /\ Stored' = Stored
      BY <1>3, <1>4, <2>4 DEF ConnsOf, Stored
    <3> QED
      BY <1>2, <1>4, <2>1, <2>4, <3>1 DEF ConnsOf
  <2>5. CASE h = "tryLoad"
    <3>1. Synced
      BY <1>3, <2>5 DEF ConnsOf
    <3>2. Synced'
      BY <2>5, <3>1 DEF Synced, Stored
    <3> QED
      BY <1>2, <2>1, <2>5, <3>2 DEF ConnsOf
  <2>6. CASE ConnsSame /\ h \notin {"save", "delete", "saveRoutes", "conns", "load", "tryLoad"}
    <3>1. Synced
      BY <1>3, <2>6 DEF ConnsOf
    <3>2. Synced'
      BY <2>6, <3>1 DEF Synced, Stored, ConnsSame
    <3> QED
      BY <1>2, <2>1, <2>6, <3>2 DEF ConnsOf
  <2> QED
    BY <2>2, <2>3, <2>4, <2>5, <2>6
<1>5. CASE req[q].call \in {"read", "import"}
  <2>1. h \in (Unissued \ {"files"}) \cup {"get"}
    BY <1>1, <1>5 DEF Follow, Unissued
  <2>2. ConnsSame
    BY <2>1 DEF Unissued
  <2>3. Synced
    BY <1>3, <1>5 DEF ConnsOf
  <2>4. Synced'
    BY <2>2, <2>3 DEF Synced, Stored, ConnsSame
  <2> QED
    BY <1>2, <1>5, <2>4 DEF ConnsOf
<1> QED
  BY <1>1, <1>4, <1>5 DEF CertReq, CertClass

\* Which statements may change the connections.
LEMMA CertQuiet ==
  ASSUME CertInv, NEW q \in CertProc, Head1(q) # "none",
         ~Holds(q) \/ req[q].call \notin {"change", "remove"}
  PROVE  /\ Head1(q) \notin {"save", "delete", "saveRoutes", "conns", "load", "tryLoad", "apply"}
         /\ req[q].call \in {"read", "import"}
<1>1. /\ req[q].call # "none" /\ req[q] \in CertReq
      /\ Follow(kind, req[q].call, IF Head1(q) = "newCA" THEN "getCA" ELSE Head1(q), First(Next1(q).rest))
  BY CertAt
<1>2. req[q].call \in {"read", "import"}
  BY <1>1 DEF CertReq, CertClass, Holds
<1> QED
  BY <1>1, <1>2 DEF Follow, Unissued

\* A statement that failed, or whose answer was lost.
LEMMA CertFails ==
  ASSUME CertInv, NEW q \in CertProc, Head1(q) # "none", ReturnError(q), CertState', CertKept(q),
         removed' = removed, DaemonReads',
         \/ Head1(q) \in {"save", "delete", "saveRoutes", "conns", "load", "tryLoad"}
         \/ /\ row' = row /\ routes' = routes
            /\ used'.conns = used.conns /\ disk'.conns = disk.conns
  PROVE  CertInv'
<1>1. /\ req' = [req EXCEPT ![q] = Idle] /\ certMu' = (IF certMu = q THEN NoProc ELSE certMu)
      /\ clean' = (clean /\ req[q].call \notin {"change", "remove"})
  BY DEF ReturnError
<1>2. clean' \in BOOLEAN /\ (clean' => clean /\ req[q].call \notin {"change", "remove"})
  BY <1>1
<1>3. CertTypes'
  BY <1>1, <1>2, IdleIs DEF CertInv, CertTypes
<1>4. ASSUME ~Holds(q) \/ clean' PROVE ConnsSame
  <2>1. /\ Head1(q) \notin {"save", "delete", "saveRoutes", "conns", "load", "tryLoad", "apply"}
        /\ req[q].call \in {"read", "import"}
    BY <1>2, <1>4, CertQuiet
  <2>2. clean' = clean
    BY <1>1, <2>1 DEF CertInv, CertTypes
  <2> QED
    BY <2>1, <2>2 DEF ConnsSame
<1>5. Holds(q) /\ kind = "ikev2" => Synced'
  <2> SUFFICES ASSUME Holds(q), kind = "ikev2", clean' PROVE Synced'
    BY DEF Synced
  <2>1. ConnsSame /\ ConnsOf(q) /\ req[q].call \notin {"change", "remove"}
    BY <1>2, <1>4 DEF CertInv, ConnsInv
  <2>2. Synced
    BY <2>1 DEF ConnsOf
  <2> QED
    BY <2>1, <2>2 DEF ConnsSame, Synced, Stored
<1> QED
  BY <1>1, <1>3, <1>4, <1>5, BarredKept, CertEnds

\* A statement that was answered, or not.
LEMMA CertStepKeeps ==
  ASSUME CertInv, NEW q \in CertProc, Head1(q) \notin {"none", "unlock", "apply"}, NEW r \in CertReq,
         r.call = req[q].call, r.cn = req[q].cn, r.rest = Next1(q).rest,
         Answer(q, r) \/ (Goto(q, r) /\ clean' = clean),
         CertState', CertKept(q), removed' = removed, DaemonReads',
         Head1(q) \in {"issue", "verify", "get", "revoke"} \/ r.cert = req[q].cert,
         Head1(q) = "importCA" => caRow' # 0,
         Head1(q) = "saveRoutes" => routes',
         req[q].call = "remove" =>
           /\ Head1(q) = "addRevoked" => r.cert \in revoked'
           /\ Head1(q) = "list" => r.cert \in r.list
           /\ Head1(q) \in {"revoke", "writeCRL"} => r.cert = 0 \/ r.cert \in missed' \/ Listed(r.cert)'
           /\ Head1(q) = "load" => r.cert = 0 \/ r.cert \in missed' \/ Barred(r.cert)',
         \/ Head1(q) \in {"save", "delete", "saveRoutes", "conns", "load", "tryLoad"}
         \/ /\ row' = row /\ routes' = routes
            /\ used'.conns = used.conns /\ disk'.conns = disk.conns,
         Head1(q) = "conns" => disk'.conns = Stored',
         Head1(q) = "load" => disk' = disk /\ used'.conns = disk.conns /\ row' = row,
         Head1(q) = "tryLoad" => /\ disk' = disk /\ row' = row /\ routes' = routes
                                 /\ used'.conns \in {used.conns, disk.conns}
  PROVE  CertInv'
<1>1. CASE ReturnError(q)
  BY <1>1, CertFails
<1>2. CASE Goto(q, r) /\ clean' = clean
  <2>1. req' = [req EXCEPT ![q] = r] /\ certMu' = certMu
    BY <1>2 DEF Goto
  <2>2. CertRun(q)' /\ (Holds(q)' <=> Holds(q))
    BY <2>1, CertNextRun
  <2>3. CertTypes'
    BY <1>2, <2>1 DEF CertInv, CertTypes
  <2>4. ~Holds(q) => ConnsSame
    BY <1>2, CertQuiet DEF ConnsSame
  <2>5. Holds(q) /\ kind = "ikev2" => ConnsOf(q)'
    BY <1>2, <2>1, CertNextConns DEF ConnsSame
  <2> QED
    BY <2>1, <2>2, <2>3, <2>4, <2>5, BarredKept, CertGoes
<1> QED
  BY <1>1, <1>2 DEF Answer

-----------------------------------------------------------------------------
(* The statements *)

\* A request that has got its CA.
LEMMA ReqSetCA ==
  ASSUME NEW s \in CertReq, NEW x \in Nat, NEW t, t = [s EXCEPT !.ca = x]
  PROVE  /\ t \in CertReq /\ t.call = s.call /\ t.cn = s.cn /\ t.rest = s.rest /\ t.ca = x /\ t.cert = s.cert
         /\ t.list = s.list /\ t.blind = s.blind
  BY DEF CertReq
\* A request that has got its certificate.
LEMMA ReqSetCert ==
  ASSUME NEW s \in CertReq, NEW x \in Nat, NEW t, t = [s EXCEPT !.cert = x]
  PROVE  /\ t \in CertReq /\ t.call = s.call /\ t.cn = s.cn /\ t.rest = s.rest /\ t.ca = s.ca /\ t.cert = x
         /\ t.list = s.list /\ t.blind = s.blind
  BY DEF CertReq

\* Two requests are never about to make a CA for want of one.
LEMMA RowAlone ==
  ASSUME CertInv, NEW q \in CertProc, NEW p \in CertProc \ {q}, Head1(q) \in {"newCA", "importCA"},
         Head1(p) = "newCA"
  PROVE  req[p].blind
<1> SUFFICES ASSUME ~req[p].blind PROVE FALSE
  BY DEF CertInv, CertTypes, CertReq
<1>1. CertRun(q) /\ CertRun(p) /\ req[q].call # "none" /\ req[p].call # "none" /\ req[q] \in CertReq /\ req[p] \in CertReq
  BY CertAt
<1>2. caRow = 0
  BY <1>1 DEF CertRun
<1>3. Holds(p)
  BY <1>1, <1>2 DEF CertRun, Holds, CertReq, CertClass
<1>4. Holds(q)
  BY <1>1, <1>2 DEF CertRun, Holds, CertReq, CertClass
<1> QED
  BY <1>3, <1>4 DEF CertInv, CertMutex

\* getCA: cached, stored, missing, or unread.
LEMMA CertGetCA ==
  ASSUME CertInv, NEW q \in CertProc, GetCA(q)
  PROVE  CertInv'
<1>1. /\ Head1(q) = "getCA" /\ UNCHANGED <<kind, caRow, cert, row, revoked, routes, nca, disk, used, removed, missed, outrun, clean>>
  BY DEF GetCA, rowVars, hostVars, ghostVars
<1>2. CertTypes /\ CertRun(q) /\ kind \in {"openvpn", "ikev2"}
  BY <1>1, CertAt
<1>3. CertKept(q) /\ DaemonReads'
  <2>1. DaemonReads'
    BY <1>1 DEF CertInv, DaemonReads
  <2> QED
    BY <1>1, <2>1, ListsKept
<1>4. CertState /\ (caMem' \in Nat => CertState')
  BY <1>1, <1>2 DEF CertTypes, CertState
<1>5. ASSUME NEW x \in Nat, caMem' \in Nat, Goto(q, [Next1(q) EXCEPT !.ca = x]) PROVE CertInv'
  <2>1. PICK r : r = [Next1(q) EXCEPT !.ca = x]
    OBVIOUS
  <2>2. r \in CertReq /\ r.call = req[q].call /\ r.cn = req[q].cn /\ r.rest = Next1(q).rest /\ r.cert = req[q].cert
    BY <1>1, <2>1, CertAt, ReqSetCA
  <2> QED
    BY <1>1, <1>3, <1>4, <1>5, <2>1, <2>2, CertStepKeeps
<1>6. ASSUME NEW b \in BOOLEAN, NEW r, r = [req[q] EXCEPT !.rest = <<"newCA">> \o Tail(req[q].rest), !.blind = b],
             Goto(q, r), caMem' = caMem, ~b => caRow = 0
      PROVE  CertInv'
  <2>1. /\ req[q] \in CertReq /\ req[q].rest # <<>> /\ Head(req[q].rest) = "getCA" /\ req[q].call \in CertClass
        /\ req[q].rest \in RestOf(kind, req[q].call) /\ req[q].cn \in CN /\ req[q].call # "none"
    BY <1>1, CertAt DEF CertReq
  <2>2. PICK s : s = <<"newCA">> \o Tail(req[q].rest)
    OBVIOUS
  <2>3. s \in RestOf(kind, req[q].call) /\ First(s) = "newCA"
    BY <1>2, <2>1, <2>2, RestNext
  <2>4. s \in AnyRest
    BY <1>2, <2>1, <2>3 DEF AnyRest
  <2>5. r = [req[q] EXCEPT !.rest = s, !.blind = b]
    BY <1>6, <2>2, Zenon
  <2>6. /\ r \in CertReq /\ r.call = req[q].call /\ r.cn = req[q].cn /\ r.rest = s /\ r.cert = req[q].cert
        /\ r.blind = b
    BY <2>1, <2>4, <2>5 DEF CertReq
  <2>7. req' = [req EXCEPT ![q] = r] /\ certMu' = certMu
    BY <1>6 DEF Goto
  <2>8. req'[q] = r /\ Head1(q)' = "newCA"
    BY <1>2, <2>3, <2>6, <2>7 DEF CertTypes, Head1, First
  <2>9. CertTypes'
    BY <1>1, <1>2, <1>4, <1>6, <2>6, <2>7 DEF CertTypes, CertState
  <2>10. Removal(q) => Removal(q)'
    BY <1>1, <2>6, <2>8 DEF Removal, Settling
  <2>11. CertRun(q)'
    BY <1>1, <1>2, <1>6, <2>1, <2>3, <2>6, <2>8, <2>10 DEF CertRun, Unissued
  <2>12. Holds(q)' <=> Holds(q)
    BY <1>1, <2>6, <2>8 DEF Holds
  <2>13. ConnsSame
    BY <1>1 DEF ConnsSame
  <2>14. Holds(q) /\ kind = "ikev2" => ConnsOf(q)'
    <3> SUFFICES ASSUME Holds(q), kind = "ikev2" PROVE ConnsOf(q)'
      OBVIOUS
    <3>1. Synced
      BY <1>1 DEF CertInv, ConnsInv, ConnsOf
    <3>2. Synced'
      BY <3>1, <2>13 DEF ConnsSame, Synced, Stored
    <3> QED
      BY <2>8, <3>2 DEF ConnsOf
  <2> QED
    BY <1>1, <1>3, <2>6, <2>7, <2>9, <2>11, <2>12, <2>13, <2>14, BarredKept, CertGoes
<1>7. req[q].blind \in BOOLEAN /\ req[q] \in CertReq
  BY <1>1, CertAt DEF CertReq
<1>8. CASE caMem # 0 /\ Goto(q, [Next1(q) EXCEPT !.ca = caMem]) /\ caMem' = caMem
  BY <1>5, <1>8, <1>4 DEF CertState
<1>9. CASE caMem' = caRow /\ Goto(q, [Next1(q) EXCEPT !.ca = caRow])
  BY <1>5, <1>9, <1>4 DEF CertState
<1>10. CASE caRow = 0 /\ Goto(q, [req[q] EXCEPT !.rest = <<"newCA">> \o Tail(@)]) /\ caMem' = caMem
  <2>1. PICK r : r = [req[q] EXCEPT !.rest = <<"newCA">> \o Tail(req[q].rest), !.blind = req[q].blind]
    OBVIOUS
  <2>2. r = [req[q] EXCEPT !.rest = <<"newCA">> \o Tail(req[q].rest)]
    <3>1. ASSUME NEW z PROVE [req[q] EXCEPT !.rest = z, !.blind = req[q].blind] = [req[q] EXCEPT !.rest = z]
      BY <1>7 DEF CertReq
    <3> QED
      BY <2>1, <3>1, Zenon
  <2> QED
    BY <1>6, <1>7, <1>10, <2>1, <2>2, Zenon
<1>11. CASE Goto(q, [req[q] EXCEPT !.rest = <<"newCA">> \o Tail(@), !.blind = TRUE]) /\ caMem' = caMem
  BY <1>6, <1>11, Zenon
<1> QED
  BY <1>8, <1>9, <1>10, <1>11, Zenon DEF GetCA

\* Replacing the CA keeps what the others rely on.
LEMMA RowsKept ==
  ASSUME CertInv, NEW q \in CertProc, Head1(q) \in {"newCA", "importCA"}, caRow' # 0,
         UNCHANGED <<kind, routes, revoked, missed, outrun, disk, used>>
  PROVE  CertKept(q)
<1>1. \A p \in CertProc \ {q} : Head1(p) = "newCA" => req[p].blind
  BY RowAlone
<1> QED
  BY <1>1 DEF CertKept, Listed, Barred

\* The making of a CA.
LEMMA CertNewCA ==
  ASSUME CertInv, NEW q \in CertProc, NewCA(q)
  PROVE  CertInv'
<1>1. /\ Head1(q) = "newCA" /\ nca' = nca + 1 /\ caRow' = nca' /\ caMem' \in {nca', caMem}
      /\ UNCHANGED <<kind, cert, row, revoked, routes, disk, used, removed, missed, outrun>>
  BY DEF NewCA, hostVars, ghostVars
<1>2. CertState
  BY DEF CertInv, CertTypes
<1>3. CertState' /\ nca' \in Nat /\ caRow' # 0
  BY <1>1, <1>2 DEF CertState
<1>4. CertKept(q) /\ DaemonReads'
  <2>1. DaemonReads'
    BY <1>1 DEF CertInv, DaemonReads
  <2> QED
    BY <1>1, <1>3, <2>1, RowsKept
<1>5. PICK r : r = [Next1(q) EXCEPT !.ca = nca']
  OBVIOUS
<1>6. r \in CertReq /\ r.call = req[q].call /\ r.cn = req[q].cn /\ r.rest = Next1(q).rest /\ r.cert = req[q].cert
  BY <1>1, <1>3, <1>5, CertAt, ReqSetCA
<1>7. Answer(q, r) \/ (Goto(q, r) /\ clean' = clean)
  BY <1>5 DEF NewCA, Answer
<1> QED
  BY <1>1, <1>3, <1>4, <1>6, <1>7, CertStepKeeps

\* The import of a CA.
LEMMA CertImportCA ==
  ASSUME CertInv, NEW q \in CertProc, ImportCA(q)
  PROVE  CertInv'
<1>1. /\ Head1(q) = "importCA" /\ nca' = nca + 1 /\ caRow' = nca' /\ caMem' \in {nca', caMem}
      /\ UNCHANGED <<kind, cert, row, revoked, routes, disk, used, removed, missed, outrun>>
  BY DEF ImportCA, hostVars, ghostVars
<1>2. CertState
  BY DEF CertInv, CertTypes
<1>3. CertState' /\ nca' \in Nat /\ caRow' # 0
  BY <1>1, <1>2 DEF CertState
<1>4. CertKept(q) /\ DaemonReads'
  <2>1. DaemonReads'
    BY <1>1 DEF CertInv, DaemonReads
  <2> QED
    BY <1>1, <1>3, <2>1, RowsKept
<1>5. /\ Next1(q) \in CertReq /\ Next1(q).call = req[q].call /\ Next1(q).cn = req[q].cn
      /\ Next1(q).cert = req[q].cert
  BY <1>1, CertAt
<1>6. Answer(q, Next1(q)) \/ (Goto(q, Next1(q)) /\ clean' = clean)
  BY DEF ImportCA, Answer
<1> QED
  BY <1>1, <1>3, <1>4, <1>5, <1>6, CertStepKeeps

\* A statement that touches neither the lists nor the daemon nor the rows.
LEMMA CertPlain ==
  ASSUME CertInv, NEW q \in CertProc,
         Head1(q) \in {"issue", "verify", "get", "list", "ccd", "rmCCD", "addRevoked", "importCRL"},
         NEW r \in CertReq, r.call = req[q].call, r.cn = req[q].cn, r.rest = Next1(q).rest,
         Head1(q) \in {"issue", "verify", "get"} \/ r.cert = req[q].cert,
         Answer(q, r) \/ (Goto(q, r) /\ clean' = clean),
         cert' \in Seq([cn : CN, ca : Nat]), revoked \subseteq revoked', revoked' \subseteq Nat,
         req[q].call = "remove" => /\ Head1(q) = "addRevoked" => r.cert \in revoked'
                                   /\ Head1(q) = "list" => r.cert \in r.list,
         UNCHANGED <<kind, caRow, caMem, row, routes, nca, disk, used, removed, missed, outrun>>
  PROVE  CertInv'
<1>1. CertState'
  BY DEF CertInv, CertTypes, CertState
<1>2. DaemonReads'
  BY DEF CertInv, DaemonReads
<1>3. CertKept(q)
  BY ListsKept
<1> QED
  BY <1>1, <1>2, <1>3, CertStepKeeps

\* The import of a CRL adds revoked certificates.
LEMMA CertImportRevoked ==
  ASSUME CertInv, NEW q \in CertProc, ImportRevokedCerts(q)
  PROVE  CertInv'
<1>1. /\ Head1(q) = "importCRL" /\ \E s \in {{}, DOMAIN cert} : revoked' = revoked \cup s
      /\ Answer(q, Next1(q))
      /\ UNCHANGED <<kind, caRow, cert, caMem, row, routes, nca, disk, used, removed, missed, outrun>>
  BY DEF ImportRevokedCerts, hostVars, ghostVars
<1>2. cert \in Seq([cn : CN, ca : Nat]) /\ revoked \subseteq Nat
  BY DEF CertInv, CertTypes, CertState
<1>3. DOMAIN cert \subseteq Nat
  BY <1>2, LenProperties
<1>4. /\ Next1(q) \in CertReq /\ Next1(q).call = req[q].call /\ Next1(q).cn = req[q].cn
      /\ Next1(q).cert = req[q].cert
  BY <1>1, CertAt
<1> QED
  BY <1>1, <1>2, <1>3, <1>4, CertPlain

\* A certificate is issued, or verified and adopted.
LEMMA CertIssue ==
  ASSUME CertInv, NEW q \in CertProc, IssueClient(q) \/ VerifyClientCert(q)
  PROVE  CertInv'
<1>1. /\ Head1(q) \in {"issue", "verify"} /\ clean' = clean
      /\ UNCHANGED <<kind, caRow, caMem, row, revoked, routes, nca, disk, used, removed, missed, outrun>>
  BY DEF IssueClient, VerifyClientCert, hostVars, ghostVars
<1>2. cert \in Seq([cn : CN, ca : Nat]) /\ revoked \subseteq Nat
  BY DEF CertInv, CertTypes, CertState
<1>3. /\ Next1(q) \in CertReq /\ Next1(q).call = req[q].call /\ Next1(q).cn = req[q].cn
      /\ req[q].cn \in CN /\ req[q] \in CertReq
      /\ req[q].call # "remove"
  <2>1. Follow(kind, req[q].call, Head1(q), First(Next1(q).rest))
    BY <1>1, CertAt
  <2>2. req[q].call # "remove"
    BY <1>1, <2>1 DEF Follow, Settling
  <2> QED
    BY <1>1, <2>2, CertAt
<1>4. [cn |-> req[q].cn, ca |-> req[q].ca] \in [cn : CN, ca : Nat]
  BY <1>3 DEF CertReq
<1>5. ASSUME NEW x \in Nat, Goto(q, [Next1(q) EXCEPT !.cert = x]), cert' \in Seq([cn : CN, ca : Nat]) PROVE CertInv'
  <2>1. PICK r : r = [Next1(q) EXCEPT !.cert = x]
    OBVIOUS
  <2>2. r \in CertReq /\ r.call = req[q].call /\ r.cn = req[q].cn /\ r.rest = Next1(q).rest
    BY <1>3, <2>1, ReqSetCert
  <2> QED
    BY <1>1, <1>2, <1>3, <1>5, <2>1, <2>2, CertPlain
<1>6. CASE /\ cert' = Append(cert, [cn |-> req[q].cn, ca |-> req[q].ca])
           /\ Goto(q, [Next1(q) EXCEPT !.cert = Len(cert')])
  <2>1. cert' \in Seq([cn : CN, ca : Nat]) /\ Len(cert') \in Nat
    BY <1>2, <1>4, <1>6, AppendProperties, LenProperties
  <2> QED
    BY <1>5, <1>6, <2>1
<1>7. CASE cert' = cert /\ \E c \in DOMAIN cert : Goto(q, [Next1(q) EXCEPT !.cert = c])
  <2>1. DOMAIN cert \subseteq Nat
    BY <1>2, LenProperties
  <2> QED
    BY <1>2, <1>5, <1>7, <2>1
<1> QED
  BY <1>6, <1>7 DEF IssueClient, VerifyClientCert

\* A client is read.
LEMMA CertGet ==
  ASSUME CertInv, NEW q \in CertProc, GetClient(q)
  PROVE  CertInv'
<1>1. /\ Head1(q) = "get" /\ clean' = clean /\ Goto(q, [Next1(q) EXCEPT !.cert = row[req[q].cn]])
      /\ UNCHANGED <<kind, caRow, caMem, cert, row, revoked, routes, nca, disk, used, removed, missed, outrun>>
  BY DEF GetClient, rowVars, hostVars, ghostVars
<1>2. /\ Next1(q) \in CertReq /\ Next1(q).call = req[q].call /\ Next1(q).cn = req[q].cn
      /\ req[q].cn \in CN /\ CertTypes /\ req[q].call # "remove"
  <2>1. Follow(kind, req[q].call, Head1(q), First(Next1(q).rest))
    BY <1>1, CertAt
  <2>2. req[q].call # "remove"
    BY <1>1, <2>1 DEF Follow, Settling
  <2> QED
    BY <1>1, <2>2, CertAt
<1>3. row[req[q].cn] \in Nat /\ cert \in Seq([cn : CN, ca : Nat]) /\ revoked \subseteq Nat
  BY <1>2 DEF CertTypes, CertState
<1>4. PICK r : r = [Next1(q) EXCEPT !.cert = row[req[q].cn]]
  OBVIOUS
<1>5. r \in CertReq /\ r.call = req[q].call /\ r.cn = req[q].cn /\ r.rest = Next1(q).rest
  BY <1>2, <1>3, <1>4, ReqSetCert
<1> QED
  BY <1>1, <1>2, <1>3, <1>4, <1>5, CertPlain

\* A client that is not there: the method returns at once.
LEMMA CertGetMissing ==
  ASSUME CertInv, NEW q \in CertProc, GetMissing(q)
  PROVE  CertInv'
<1>1. /\ Head1(q) = "get" /\ req' = [req EXCEPT ![q] = Idle] /\ certMu' = (IF certMu = q THEN NoProc ELSE certMu)
      /\ UNCHANGED <<kind, caRow, caMem, cert, row, revoked, routes, nca, disk, used, removed, missed, outrun, clean>>
  BY DEF GetMissing, rowVars, hostVars, ghostVars
<1>2. CertTypes' /\ DaemonReads' /\ CertKept(q)
  <2>1. CertTypes'
    BY <1>1, IdleIs DEF CertInv, CertTypes, CertState
  <2>2. DaemonReads'
    BY <1>1 DEF CertInv, DaemonReads
  <2> QED
    BY <1>1, <2>1, <2>2, ListsKept
<1>3. ConnsSame
  BY <1>1 DEF ConnsSame
<1>4. Holds(q) /\ kind = "ikev2" => Synced'
  <2>1. Holds(q) /\ kind = "ikev2" => Synced
    BY <1>1 DEF CertInv, ConnsInv, ConnsOf
  <2> QED
    BY <1>3, <2>1 DEF ConnsSame, Synced, Stored
<1> QED
  BY <1>1, <1>2, <1>3, <1>4, BarredKept, CertEnds

\* A removal has read its client's certificate.
LEMMA CertRevokeRead ==
  ASSUME CertInv, NEW q \in CertProc, Head1(q) = "revoke", NEW c \in Nat, NEW s,
         s = (IF IsOvpn THEN OvpnRevoke ELSE IkeRevoke) \o Tail(req[q].rest),
         NEW r, r = [Next1(q) EXCEPT !.cert = c, !.rest = s], Goto(q, r),
         UNCHANGED <<kind, caRow, caMem, cert, row, revoked, routes, nca, disk, used, removed, missed, outrun, clean>>
  PROVE  CertInv'
<1>1. /\ req[q] \in CertReq /\ req[q].rest # <<>> /\ Head(req[q].rest) = "revoke" /\ req[q].call \in CertClass
      /\ req[q].rest \in RestOf(kind, req[q].call) /\ req[q].cn \in CN /\ req[q].call # "none"
      /\ Next1(q) \in CertReq /\ Next1(q).call = req[q].call /\ Next1(q).cn = req[q].cn
      /\ kind \in {"openvpn", "ikev2"} /\ CertTypes /\ CertRun(q)
      /\ Follow(kind, req[q].call, "revoke", First(Next1(q).rest))
  BY CertAt DEF CertReq
<1>2. req[q].call = "remove"
  BY <1>1 DEF Follow, Unissued
<1>3. s \in RestOf(kind, "remove") /\ First(s) = "addRevoked"
  BY <1>1, <1>2, RevokeOpens DEF RestOf
<1>4. s \in AnyRest
  BY <1>1, <1>3 DEF AnyRest, CertClass
<1>5. r \in CertReq /\ r.call = "remove" /\ r.cn \in CN /\ r.rest = s /\ r.cert = c
  BY <1>1, <1>2, <1>4 DEF CertReq
<1>6. req' = [req EXCEPT ![q] = r] /\ certMu' = certMu
  BY DEF Goto
<1>7. req'[q] = r /\ Head1(q)' = "addRevoked"
  BY <1>1, <1>3, <1>5, <1>6 DEF CertTypes, Head1, First
<1>8. CertTypes'
  BY <1>1, <1>5, <1>6 DEF CertTypes, CertState
<1>9. Removal(q)'
  BY <1>7 DEF Removal, Settling
<1>10. CertRun(q)'
  BY <1>3, <1>5, <1>7, <1>9 DEF CertRun, Unissued
<1>11. Holds(q)' /\ Holds(q)
  BY <1>2, <1>5, <1>7 DEF Holds
<1>12. kind = "ikev2" => ConnsOf(q)'
  <2>1. kind = "ikev2" => Synced
    BY <1>11 DEF CertInv, ConnsInv, ConnsOf
  <2>2. Synced <=> Synced'
    BY DEF Synced, Stored
  <2> QED
    BY <1>7, <2>1, <2>2 DEF ConnsOf
<1>13. CertKept(q) /\ DaemonReads'
  <2>1. DaemonReads'
    BY DEF CertInv, DaemonReads
  <2> QED
    BY <2>1, ListsKept
<1> QED
  BY <1>5, <1>6, <1>8, <1>10, <1>11, <1>12, <1>13, BarredKept, CertGoes

\* revoke: the certificate is read, there is none, or the read failed.
LEMMA CertRevoke ==
  ASSUME CertInv, NEW q \in CertProc, Revoke(q)
  PROVE  CertInv'
<1>1. /\ Head1(q) = "revoke"
      /\ UNCHANGED <<kind, caRow, caMem, cert, row, revoked, routes, nca, disk, used, removed, outrun, clean>>
  BY DEF Revoke, rowVars, hostVars
<1>2. /\ Next1(q) \in CertReq /\ Next1(q).call = req[q].call /\ Next1(q).cn = req[q].cn
      /\ Next1(q).rest = Tail(req[q].rest) /\ req[q].cn \in CN /\ CertTypes
  BY <1>1, CertAt
<1>3. PICK c \in Nat : c = row[req[q].cn]
  BY <1>2 DEF CertTypes, CertState
<1>4. CASE missed' = missed /\ Goto(q, [Next1(q) EXCEPT !.cert = c, !.rest = (IF IsOvpn THEN OvpnRevoke ELSE IkeRevoke) \o @])
  <2>1. PICK s : s = (IF IsOvpn THEN OvpnRevoke ELSE IkeRevoke) \o Tail(req[q].rest)
    OBVIOUS
  <2>2. PICK r : r = [Next1(q) EXCEPT !.cert = c, !.rest = s]
    OBVIOUS
  <2>3. Goto(q, r)
    BY <1>2, <1>4, <2>1, <2>2, Zenon
  <2> QED
    BY <1>1, <1>4, <2>1, <2>2, <2>3, CertRevokeRead
<1>5. CASE Goto(q, [Next1(q) EXCEPT !.cert = c]) /\ ((c = 0 /\ missed' = missed) \/ missed' = missed \cup {c})
  <2>1. PICK r : r = [Next1(q) EXCEPT !.cert = c]
    OBVIOUS
  <2>2. r \in CertReq /\ r.call = req[q].call /\ r.cn = req[q].cn /\ r.rest = Next1(q).rest /\ r.cert = c
    BY <1>2, <2>1, ReqSetCert
  <2>3. CertState' /\ DaemonReads'
    BY <1>1 DEF CertInv, CertTypes, CertState, DaemonReads
  <2>4. CertKept(q)
    BY <1>1, <1>5, ListsKept
  <2>5. c = 0 \/ c \in missed'
    BY <1>5
  <2> QED
    BY <1>1, <1>5, <2>1, <2>2, <2>3, <2>4, <2>5, CertStepKeeps
<1> QED
  BY <1>3, <1>4, <1>5, Zenon DEF Revoke

\* A certificate is recorded as revoked.
LEMMA CertAddRevoked ==
  ASSUME CertInv, NEW q \in CertProc, AddRevokedCert(q)
  PROVE  CertInv'
<1>1. /\ Head1(q) = "addRevoked" /\ revoked' = revoked \cup {req[q].cert} /\ Answer(q, Next1(q))
      /\ UNCHANGED <<kind, caRow, cert, caMem, row, routes, nca, disk, used, removed, missed, outrun>>
  BY DEF AddRevokedCert, hostVars, ghostVars
<1>2. cert \in Seq([cn : CN, ca : Nat]) /\ revoked \subseteq Nat
  BY DEF CertInv, CertTypes, CertState
<1>3. /\ Next1(q) \in CertReq /\ Next1(q).call = req[q].call /\ Next1(q).cn = req[q].cn
      /\ Next1(q).cert = req[q].cert /\ req[q] \in CertReq
  BY <1>1, CertAt
<1>4. req[q].cert \in Nat
  BY <1>3 DEF CertReq
<1> QED
  BY <1>1, <1>2, <1>3, <1>4, CertPlain

\* The list of revoked certificates is read.
LEMMA CertList ==
  ASSUME CertInv, NEW q \in CertProc, ListRevokedCerts(q)
  PROVE  CertInv'
<1>1. /\ Head1(q) = "list" /\ Goto(q, [Next1(q) EXCEPT !.list = revoked]) /\ clean' = clean
      /\ UNCHANGED <<kind, caRow, cert, caMem, row, revoked, routes, nca, disk, used, removed, missed, outrun>>
  BY DEF ListRevokedCerts, rowVars, hostVars, ghostVars
<1>2. cert \in Seq([cn : CN, ca : Nat]) /\ revoked \in SUBSET Nat
  BY DEF CertInv, CertTypes, CertState
<1>3. /\ Next1(q) \in CertReq /\ Next1(q).call = req[q].call /\ Next1(q).cn = req[q].cn
      /\ Next1(q).cert = req[q].cert /\ CertRun(q)
  BY <1>1, CertAt
<1>4. req[q].call = "remove" => req[q].cert \in revoked
  BY <1>1, <1>3 DEF CertRun, Removal
<1>5. PICK r : r = [Next1(q) EXCEPT !.list = revoked]
  OBVIOUS
<1>6. r \in CertReq /\ r.call = req[q].call /\ r.cn = req[q].cn /\ r.rest = Next1(q).rest /\ r.cert = req[q].cert /\ r.list = revoked
  <2>1. PICK s : s = Next1(q)
    OBVIOUS
  <2>2. PICK l : l = revoked
    OBVIOUS
  <2>3. s \in CertReq /\ l \in SUBSET Nat /\ r = [s EXCEPT !.list = l]
    BY <1>2, <1>3, <1>5, <2>1, <2>2
  <2>4. r \in CertReq /\ r.call = s.call /\ r.cn = s.cn /\ r.rest = s.rest /\ r.cert = s.cert /\ r.list = l
    BY <2>3 DEF CertReq
  <2> QED
    BY <1>3, <2>1, <2>2, <2>4
<1>7. /\ Goto(q, r) /\ clean' = clean /\ cert' \in Seq([cn : CN, ca : Nat])
      /\ revoked \subseteq revoked' /\ revoked' \subseteq Nat
  BY <1>1, <1>2, <1>5
<1>8. req[q].call = "remove" => /\ Head1(q) = "addRevoked" => r.cert \in revoked'
                                /\ Head1(q) = "list" => r.cert \in r.list
  BY <1>1, <1>4, <1>6
<1> QED
  BY <1>1, <1>6, <1>7, <1>8, CertPlain

\* A CRL is written: whoever is revoked is on it, or it was outrun.
LEMMA CertCreateCRL ==
  ASSUME CertInv, NEW q \in CertProc, CreateCRL(q)
  PROVE  CertInv'
<1>1. PICK x : x = [ca |-> req[q].ca, list |-> req[q].list]
  OBVIOUS
<1>2. /\ Head1(q) = "writeCRL" /\ disk' = [disk EXCEPT !.crl = x]
      /\ used' = (IF IsOvpn THEN [used EXCEPT !.crl = x] ELSE used)
      /\ outrun' = outrun \cup (revoked \ (req[q].list \cup {req[q].cert})) /\ Answer(q, Next1(q))
      /\ UNCHANGED <<kind, caRow, cert, caMem, row, revoked, routes, nca, removed, missed>>
  BY <1>1 DEF CreateCRL, rowVars
<1>3. /\ Next1(q) \in CertReq /\ Next1(q).call = req[q].call /\ Next1(q).cn = req[q].cn
      /\ Next1(q).cert = req[q].cert /\ req[q] \in CertReq /\ CertRun(q) /\ CertTypes
  BY <1>2, CertAt
<1>4. x \in [ca : Nat, list : SUBSET Nat] /\ x.list = req[q].list
  BY <1>1, <1>3 DEF CertReq
<1>5. disk \in CertFiles /\ used \in CertFiles
  BY <1>3 DEF CertTypes, CertState
<1>6. /\ disk' \in CertFiles /\ disk'.crl = x /\ disk'.conns = disk.conns /\ disk'.up = disk.up
      /\ used' \in CertFiles /\ used'.conns = used.conns /\ used'.up = used.up
      /\ used'.crl = IF IsOvpn THEN x ELSE used.crl
  BY <1>2, <1>4, <1>5 DEF CertFiles
<1>7. CertState'
  BY <1>2, <1>3, <1>6 DEF CertTypes, CertState
<1>8. DaemonReads'
  BY <1>2, <1>6 DEF CertInv, DaemonReads, IsOvpn
<1>9. req[q].cert = 0 \/ req[q].cert \in req[q].list
  BY <1>2, <1>3 DEF CertRun, Removal, Unissued
<1>10. \A c \in Nat \ {0} : c \in revoked => c \in outrun' \/ (c \in disk'.crl.list /\ (IsOvpn => c \in used'.crl.list))
  BY <1>2, <1>4, <1>6, <1>9
<1>11. CertKept(q)
  <2>1. outrun \subseteq outrun'
    BY <1>2
  <2>2. \A c \in Nat \ {0} : (Listed(c) => Listed(c)') /\ (Barred(c) => Barred(c)')
    BY <1>2, <1>6, <1>10, <2>1 DEF Listed, Barred
  <2> QED
    BY <1>2, <2>2 DEF CertKept
<1>12. PICK r : r = Next1(q)
  OBVIOUS
<1>13. req[q].call = "remove" => Listed(r.cert)'
  <2>1. req[q].call = "remove" => r.cert \in revoked /\ r.cert \in x.list
    BY <1>2, <1>3, <1>4, <1>12 DEF CertRun, Removal
  <2>2. ASSUME NEW c, c \in revoked, c \in x.list PROVE Listed(c)'
    BY <1>2, <1>6, <2>2 DEF Listed
  <2> QED
    BY <2>1, <2>2
<1>14. /\ r \in CertReq /\ r.call = req[q].call /\ r.cn = req[q].cn /\ r.rest = Next1(q).rest
       /\ r.cert = req[q].cert /\ Answer(q, r)
  BY <1>2, <1>3, <1>12
<1>15. row' = row /\ routes' = routes /\ removed' = removed
  BY <1>2
<1> QED
  BY <1>2, <1>6, <1>7, <1>8, <1>11, <1>13, <1>14, <1>15, CertStepKeeps

\* A client's row is saved or deleted.
LEMMA CertRowWrite ==
  ASSUME CertInv, NEW q \in CertProc, SaveClient(q) \/ DeleteClient(q)
  PROVE  CertInv'
<1>1. /\ Head1(q) \in {"save", "delete"} /\ Answer(q, Next1(q))
      /\ row' \in {[row EXCEPT ![req[q].cn] = req[q].cert], [row EXCEPT ![req[q].cn] = 0]}
      /\ UNCHANGED <<kind, caRow, cert, caMem, revoked, routes, nca, disk, used, removed, missed, outrun>>
  BY DEF SaveClient, DeleteClient, hostVars, ghostVars
<1>2. /\ Next1(q) \in CertReq /\ Next1(q).call = req[q].call /\ Next1(q).cn = req[q].cn
      /\ Next1(q).cert = req[q].cert /\ req[q] \in CertReq /\ req[q].cn \in CN /\ CertTypes
  BY <1>1, CertAt
<1>3. row' \in [CN -> Nat]
  <2>1. req[q].cert \in Nat /\ row \in [CN -> Nat]
    BY <1>2 DEF CertReq, CertTypes, CertState
  <2> QED
    BY <1>1, <1>2, <2>1
<1>4. CertState'
  BY <1>1, <1>2, <1>3 DEF CertTypes, CertState
<1>5. DaemonReads'
  BY <1>1 DEF CertInv, DaemonReads
<1>6. CertKept(q)
  BY <1>1, ListsKept
<1> QED
  BY <1>1, <1>2, <1>4, <1>5, <1>6, CertStepKeeps

\* The ccd entry of a client.
LEMMA CertCCD ==
  ASSUME CertInv, NEW q \in CertProc, WriteCCD(q) \/ RemoveCCD(q)
  PROVE  CertInv'
<1>1. /\ Head1(q) \in {"ccd", "rmCCD"} /\ Goto(q, Next1(q)) /\ clean' = clean
      /\ UNCHANGED <<kind, caRow, cert, caMem, row, revoked, routes, nca, disk, used, removed, missed, outrun>>
  BY DEF WriteCCD, RemoveCCD, rowVars, hostVars, ghostVars
<1>2. cert \in Seq([cn : CN, ca : Nat]) /\ revoked \subseteq Nat
  BY DEF CertInv, CertTypes, CertState
<1>3. /\ Next1(q) \in CertReq /\ Next1(q).call = req[q].call /\ Next1(q).cn = req[q].cn
      /\ Next1(q).cert = req[q].cert
  BY <1>1, CertAt
<1> QED
  BY <1>1, <1>2, <1>3, CertPlain

\* The server's files.
LEMMA CertFilesWritten ==
  ASSUME CertInv, NEW q \in CertProc, WriteServerFiles(q)
  PROVE  CertInv'
<1>1. /\ Head1(q) = "files" /\ Answer(q, Next1(q)) /\ disk' = [disk EXCEPT !.ca = req[q].ca]
      /\ UNCHANGED <<kind, caRow, cert, caMem, row, revoked, routes, nca, used, removed, missed, outrun>>
  BY DEF WriteServerFiles, rowVars, ghostVars
<1>2. /\ Next1(q) \in CertReq /\ Next1(q).call = req[q].call /\ Next1(q).cn = req[q].cn
      /\ Next1(q).cert = req[q].cert /\ req[q] \in CertReq /\ CertTypes
  BY <1>1, CertAt
<1>3. disk \in CertFiles /\ req[q].ca \in Nat
  BY <1>2 DEF CertTypes, CertState, CertReq
<1>4. disk' \in CertFiles /\ disk'.crl = disk.crl /\ disk'.conns = disk.conns /\ disk'.up = disk.up
  BY <1>1, <1>3 DEF CertFiles
<1>5. CertState'
  BY <1>1, <1>2, <1>4 DEF CertTypes, CertState
<1>6. DaemonReads'
  BY <1>1, <1>4 DEF CertInv, DaemonReads
<1>7. CertKept(q)
  BY <1>1, <1>4, ListsKept
<1> QED
  BY <1>1, <1>2, <1>4, <1>5, <1>6, <1>7, CertStepKeeps

\* OpenVPN restarts and reads its files.
LEMMA CertRestarted ==
  ASSUME CertInv, NEW q \in CertProc, RestartService(q)
  PROVE  CertInv'
<1>1. /\ Head1(q) = "restart" /\ Answer(q, Next1(q))
      /\ used' = [used EXCEPT !.ca = disk.ca, !.crl = disk.crl, !.up = TRUE]
      /\ UNCHANGED <<kind, caRow, cert, caMem, row, revoked, routes, nca, disk, removed, missed, outrun>>
  BY DEF RestartService, rowVars, ghostVars
<1>2. /\ Next1(q) \in CertReq /\ Next1(q).call = req[q].call /\ Next1(q).cn = req[q].cn
      /\ Next1(q).cert = req[q].cert /\ CertTypes
      /\ Follow(kind, req[q].call, Head1(q), First(Next1(q).rest))
  BY <1>1, CertAt
<1>3. kind # "ikev2"
  BY <1>1, <1>2 DEF Follow
<1>4. disk \in CertFiles /\ used \in CertFiles
  BY <1>2 DEF CertTypes, CertState
<1>5. used' \in CertFiles /\ used'.crl = disk.crl /\ used'.conns = used.conns
  BY <1>1, <1>4 DEF CertFiles
<1>6. CertState'
  BY <1>1, <1>2, <1>5 DEF CertTypes, CertState
<1>7. DaemonReads'
  BY <1>1, <1>3, <1>5 DEF DaemonReads
<1>8. CertKept(q)
  BY <1>1, <1>5 DEF CertKept, Listed, Barred
<1> QED
  BY <1>1, <1>2, <1>5, <1>6, <1>7, <1>8, CertStepKeeps

\* The routes of an IKEv2 server are saved.
LEMMA CertRoutes ==
  ASSUME CertInv, NEW q \in CertProc, SaveServerRoutes(q)
  PROVE  CertInv'
<1>1. /\ Head1(q) = "saveRoutes" /\ Answer(q, Next1(q)) /\ routes' = TRUE
      /\ UNCHANGED <<kind, caRow, cert, caMem, row, revoked, nca, disk, used, removed, missed, outrun>>
  BY DEF SaveServerRoutes, hostVars, ghostVars
<1>2. /\ Next1(q) \in CertReq /\ Next1(q).call = req[q].call /\ Next1(q).cn = req[q].cn
      /\ Next1(q).cert = req[q].cert /\ CertTypes
  BY <1>1, CertAt
<1>3. CertState'
  BY <1>1, <1>2 DEF CertTypes, CertState
<1>4. DaemonReads'
  BY <1>1 DEF CertInv, DaemonReads
<1>5. CertKept(q)
  BY <1>1, ListsKept
<1> QED
  BY <1>1, <1>2, <1>3, <1>4, <1>5, CertStepKeeps

\* The connections are written.
LEMMA CertWriteConns ==
  ASSUME CertInv, NEW q \in CertProc, WriteConns(q)
  PROVE  CertInv'
<1>1. /\ Head1(q) = "conns" /\ Answer(q, Next1(q)) /\ disk' = [disk EXCEPT !.up = TRUE, !.conns = Stored]
      /\ UNCHANGED <<kind, caRow, cert, caMem, row, revoked, routes, nca, used, removed, missed, outrun>>
  BY DEF WriteConns, rowVars, ghostVars, Stored
<1>2. /\ Next1(q) \in CertReq /\ Next1(q).call = req[q].call /\ Next1(q).cn = req[q].cn
      /\ Next1(q).cert = req[q].cert /\ CertTypes /\ CertRun(q)
  BY <1>1, CertAt
<1>3. disk \in CertFiles /\ Stored \subseteq CN /\ routes
  BY <1>1, <1>2 DEF CertTypes, CertState, Stored, CertRun
<1>4. disk' \in CertFiles /\ disk'.crl = disk.crl /\ disk'.conns = Stored
  <2>1. PICK s : s = Stored
    OBVIOUS
  <2>2. s \subseteq CN /\ disk' = [disk EXCEPT !.up = TRUE, !.conns = s]
    BY <1>1, <1>3, <2>1
  <2> QED
    BY <1>3, <2>1, <2>2 DEF CertFiles
<1>5. CertState'
  BY <1>1, <1>2, <1>4 DEF CertTypes, CertState
<1>6. DaemonReads'
  BY <1>1, <1>3, <1>4 DEF CertInv, DaemonReads
<1>7. CertKept(q)
  BY <1>1, <1>4, ListsKept
<1>8. Stored' = Stored
  BY <1>1 DEF Stored
<1> QED
  BY <1>1, <1>2, <1>4, <1>5, <1>6, <1>7, <1>8, CertStepKeeps

\* What a load of the files puts into force.
LEMMA LoadKeeps ==
  ASSUME CertInv, NEW q \in CertProc, used' \in {Loaded, used},
         UNCHANGED <<kind, caRow, cert, caMem, row, revoked, routes, nca, disk, removed, missed, outrun>>
  PROVE  /\ CertState' /\ DaemonReads' /\ CertKept(q) /\ used'.conns \in {used.conns, disk.conns}
         /\ used' = Loaded => used'.conns = disk.conns /\ \A c : Listed(c) => Barred(c)'
<1>1. CertTypes
  BY DEF CertInv
<1>2. disk \in CertFiles /\ used \in CertFiles
  BY <1>1 DEF CertTypes, CertState
<1>3. PICK l : l = Loaded
  OBVIOUS
<1>4. l \in CertFiles /\ l.crl = disk.crl /\ l.up = disk.up /\ l.conns = disk.conns
  BY <1>2, <1>3 DEF CertFiles, Loaded
<1>5. used' \in {l, used} /\ used' \in CertFiles
  BY <1>2, <1>3, <1>4
<1>6. CertState'
  BY <1>1, <1>5 DEF CertTypes, CertState
<1>7. DaemonReads'
  BY <1>4, <1>5 DEF CertInv, DaemonReads
<1>8. CertKept(q)
  BY <1>4, <1>5 DEF CertKept, Listed, Barred
<1>9. used' = l => \A c : Listed(c) => Barred(c)'
  BY <1>4 DEF Listed, Barred
<1> QED
  BY <1>3, <1>4, <1>5, <1>6, <1>7, <1>8, <1>9

\* charon loads the files.
LEMMA CertLoad ==
  ASSUME CertInv, NEW q \in CertProc, LoadCerts(q)
  PROVE  CertInv'
<1>1. /\ Head1(q) = "load" /\ Answer(q, Next1(q)) /\ used' = Loaded
      /\ UNCHANGED <<kind, caRow, cert, caMem, row, revoked, routes, nca, disk, removed, missed, outrun>>
  BY DEF LoadCerts, rowVars, ghostVars
<1>2. PICK r : r = Next1(q)
  OBVIOUS
<1>3. /\ r \in CertReq /\ r.call = req[q].call /\ r.cn = req[q].cn /\ r.rest = Next1(q).rest
      /\ r.cert = req[q].cert /\ Answer(q, r) /\ CertRun(q)
  BY <1>1, <1>2, CertAt
<1>4. /\ CertState' /\ DaemonReads' /\ CertKept(q)
      /\ used'.conns = disk.conns /\ \A c : Listed(c) => Barred(c)'
  BY <1>1, LoadKeeps
<1>5. req[q].call = "remove" => r.cert = 0 \/ r.cert \in missed' \/ Barred(r.cert)'
  <2>1. req[q].call = "remove" => r.cert = 0 \/ r.cert \in missed \/ Listed(r.cert)
    BY <1>1, <1>3 DEF CertRun, Removal, Settling
  <2> QED
    BY <1>1, <1>4, <2>1
<1> QED
  BY <1>1, <1>3, <1>4, <1>5, CertStepKeeps

\* A load whose error is ignored.
LEMMA CertTryLoad ==
  ASSUME CertInv, NEW q \in CertProc, TryLoad(q)
  PROVE  CertInv'
<1>1. /\ Head1(q) = "tryLoad" /\ Goto(q, Next1(q)) /\ clean' = clean /\ used' \in {Loaded, used}
      /\ UNCHANGED <<kind, caRow, cert, caMem, row, revoked, routes, nca, disk, removed, missed, outrun>>
  BY DEF TryLoad, rowVars, ghostVars
<1>2. /\ Next1(q) \in CertReq /\ Next1(q).call = req[q].call /\ Next1(q).cn = req[q].cn
      /\ Next1(q).cert = req[q].cert
  BY <1>1, CertAt
<1>3. /\ CertState' /\ DaemonReads' /\ CertKept(q) /\ used'.conns \in {used.conns, disk.conns}
  BY <1>1, LoadKeeps
<1> QED
  BY <1>1, <1>2, <1>3, CertStepKeeps

\* A statement that failed without effect.
LEMMA CertFailStep ==
  ASSUME CertInv, NEW q \in CertProc, FailStep(q)
  PROVE  CertInv'
<1>1. /\ Head1(q) # "none" /\ ReturnError(q)
      /\ UNCHANGED <<kind, caRow, cert, caMem, row, revoked, routes, nca, disk, used, removed, missed, outrun>>
  BY DEF FailStep, rowVars, hostVars, ghostVars
<1>2. CertState' /\ DaemonReads'
  BY <1>1 DEF CertInv, CertTypes, CertState, DaemonReads
<1>3. CertKept(q)
  BY <1>1, ListsKept
<1> QED
  BY <1>1, <1>2, <1>3, CertFails

\* applyClients.
LEMMA CertApply ==
  ASSUME CertInv, NEW q \in CertProc, ApplyClients(q)
  PROVE  CertInv'
<1>1. /\ Head1(q) = "apply" /\ clean' = clean
      /\ Goto(q, [Next1(q) EXCEPT !.rest = (IF routes THEN IkeWriteConnAndLoad ELSE <<>>) \o @])
      /\ UNCHANGED <<kind, caRow, cert, caMem, row, revoked, routes, nca, disk, used, removed, missed, outrun>>
  BY DEF ApplyClients, rowVars, hostVars, ghostVars
<1>2. /\ req[q] \in CertReq /\ req[q].rest # <<>> /\ Head(req[q].rest) = "apply" /\ req[q].call \in CertClass
      /\ req[q].rest \in RestOf(kind, req[q].call) /\ req[q].cn \in CN
      /\ Next1(q) \in CertReq /\ Next1(q).call = req[q].call /\ Next1(q).cn = req[q].cn
      /\ Next1(q).cert = req[q].cert /\ Next1(q).rest = Tail(req[q].rest)
      /\ kind \in {"openvpn", "ikev2"} /\ CertTypes /\ CertRun(q)
  BY <1>1, CertAt DEF CertReq
<1>3. PICK s : s = (IF routes THEN IkeWriteConnAndLoad ELSE <<>>) \o Tail(req[q].rest)
  OBVIOUS
<1>4. /\ kind = "ikev2" /\ req[q].call \in {"change", "remove"} /\ s \in RestOf(kind, req[q].call)
      /\ First(s) = IF routes THEN "conns" ELSE "none"
  BY <1>2, <1>3, ApplyOpens DEF RestOf
<1>5. s \in AnyRest
  BY <1>2, <1>4 DEF AnyRest
<1>6. PICK r : r = [Next1(q) EXCEPT !.rest = s]
  OBVIOUS
<1>7. req' = [req EXCEPT ![q] = r] /\ certMu' = certMu
  BY <1>1, <1>2, <1>3, <1>6, Zenon DEF Goto
<1>8. r \in CertReq /\ r.call = req[q].call /\ r.cn \in CN /\ r.rest = s /\ r.cert = req[q].cert
  BY <1>2, <1>5, <1>6 DEF CertReq
<1>9. req'[q] = r /\ Head1(q)' = First(s)
  BY <1>2, <1>7, <1>8 DEF CertTypes, Head1, First
<1>10. CertTypes'
  BY <1>1, <1>2, <1>7, <1>8 DEF CertTypes, CertState
<1>11. CertKept(q) /\ DaemonReads'
  <2>1. DaemonReads'
    BY <1>1 DEF CertInv, DaemonReads
  <2> QED
    BY <1>1, <2>1, ListsKept
<1>12. req[q].call = "remove" => Removal(q)'
  <2>1. req[q].call = "remove" => r.cert = 0 \/ r.cert \in missed \/ Listed(r.cert)
    BY <1>1, <1>2, <1>8 DEF CertRun, Removal, Settling
  <2>2. ~routes => ~used.up
    BY <1>4 DEF CertInv, DaemonReads
  <2>3. ASSUME NEW c PROVE (Listed(c) => Listed(c)') /\ (Listed(c) /\ ~routes => Barred(c)')
    BY <1>1, <2>2 DEF Listed, Barred
  <2> QED
    BY <1>1, <1>4, <1>9, <2>1, <2>3 DEF Removal
<1>13. CertRun(q)'
  <2>1. First(s) \notin Unissued \cup {"newCA", "load"}
    BY <1>4 DEF Unissued
  <2> QED
    BY <1>1, <1>4, <1>8, <1>9, <1>12, <2>1 DEF CertRun
<1>14. Holds(q)' /\ Holds(q)
  BY <1>4, <1>8, <1>9 DEF Holds
<1>15. ConnsOf(q)'
  BY <1>1, <1>4, <1>8, <1>9 DEF ConnsOf
<1> QED
  BY <1>1, <1>7, <1>8, <1>10, <1>11, <1>13, <1>14, <1>15, BarredKept, CertGoes

\* A method returns nil; a removal has its certificate barred.
LEMMA CertReturn ==
  ASSUME CertInv, NEW q \in CertProc, Return(q)
  PROVE  CertInv'
<1>1. /\ req[q].call # "none" /\ req[q].rest = <<>> /\ req' = [req EXCEPT ![q] = Idle]
      /\ certMu' = (IF certMu = q THEN NoProc ELSE certMu)
      /\ clean' = (clean \/ req[q].call \in {"change", "remove"})
      /\ removed' = (IF req[q].call = "remove" THEN removed \cup ({req[q].cert} \ {0}) ELSE removed)
      /\ UNCHANGED <<kind, caRow, cert, caMem, row, revoked, routes, nca, disk, used, missed, outrun>>
  BY DEF Return, rowVars, hostVars
<1>2. CertTypes /\ CertRun(q) /\ req[q] \in CertReq /\ Head1(q) = "none"
  BY <1>1 DEF CertInv, CertTypes, Head1
<1>3. clean' \in BOOLEAN /\ (req[q].call \notin {"change", "remove"} => clean' = clean)
  BY <1>1, <1>2 DEF CertTypes
<1>4. CertTypes'
  BY <1>1, <1>2, <1>3, IdleIs DEF CertTypes, CertState
<1>5. CertKept(q) /\ DaemonReads'
  <2>1. DaemonReads'
    BY <1>1 DEF CertInv, DaemonReads
  <2> QED
    BY <1>1, <2>1, ListsKept
<1>6. RemovedBarred'
  <2>1. ASSUME NEW c \in removed' PROVE c \in Nat \ {0} /\ (c \in missed \/ Barred(c))
    <3>1. CASE c \in removed
      BY <3>1 DEF CertInv, RemovedBarred
    <3>2. CASE c = req[q].cert /\ c # 0 /\ req[q].call = "remove"
      BY <1>2, <3>2 DEF CertRun, Removal, CertReq
    <3> QED
      BY <1>1, <2>1, <3>1, <3>2
  <2>2. ASSUME NEW c PROVE Barred(c)' <=> Barred(c)
    BY <1>1 DEF Barred
  <2> QED
    BY <1>1, <2>1, <2>2 DEF RemovedBarred
<1>7. ~Holds(q) => ConnsSame
  BY <1>1, <1>3 DEF Holds, ConnsSame
<1>8. Holds(q) /\ kind = "ikev2" => Synced'
  <2> SUFFICES ASSUME Holds(q), kind = "ikev2" PROVE Synced'
    OBVIOUS
  <2>1. ConnsOf(q)
    BY DEF CertInv, ConnsInv
  <2>2. CASE req[q].call \in {"change", "remove"}
    BY <1>1, <1>2, <2>1, <2>2 DEF ConnsOf, Synced, Stored
  <2>3. CASE req[q].call \notin {"change", "remove"}
    BY <1>1, <1>3, <2>1, <2>3 DEF ConnsOf, Synced, Stored
  <2> QED
    BY <2>2, <2>3
<1> QED
  BY <1>1, <1>4, <1>5, <1>6, <1>7, <1>8, CertEnds

\* An import gives the mutex back and goes on.
LEMMA CertUnlock ==
  ASSUME CertInv, NEW q \in CertProc, Unlock(q)
  PROVE  CertInv'
<1>1. /\ Head1(q) = "unlock" /\ certMu' = NoProc
      /\ UNCHANGED <<kind, caRow, cert, caMem, row, revoked, routes, nca, disk, used, removed, missed, outrun, clean>>
  BY DEF Unlock, rowVars, hostVars, ghostVars
<1>2. PICK r : r = Next1(q)
  OBVIOUS
<1>3. /\ r \in CertReq /\ r.call = req[q].call /\ r.cn \in CN /\ r.cert = req[q].cert /\ CertRun(q) /\ CertTypes
      /\ r.rest \in RestOf(kind, req[q].call) /\ Follow(kind, req[q].call, "unlock", First(r.rest))
  BY <1>1, <1>2, CertAt
<1>4. req' = [req EXCEPT ![q] = r]
  BY <1>2 DEF Unlock
<1>5. /\ req'[q] = r /\ Head1(q)' = First(r.rest) /\ \A p \in CertProc \ {q} : req'[p] = req[p]
  BY <1>3, <1>4 DEF CertTypes, Head1, First
<1>6. /\ req[q].call = "import" /\ First(r.rest) \notin {"importCA", "unlock", "newCA", "conns", "load"}
  BY <1>3 DEF Follow
<1>7. CertTypes'
  BY <1>1, <1>3, <1>4 DEF CertTypes, CertState
<1>8. CertKept(q) /\ DaemonReads'
  <2>1. DaemonReads'
    BY <1>1 DEF CertInv, DaemonReads
  <2> QED
    BY <1>1, <2>1, ListsKept
<1>9. CertRun(q)' /\ ~Holds(q)'
  <2>1. caRow # 0 /\ req[q].cert = 0
    BY <1>1, <1>3, <1>6 DEF CertRun, Unissued
  <2> QED
    BY <1>1, <1>3, <1>5, <1>6, <2>1 DEF CertRun, Holds
<1>10. Holds(q) /\ certMu = q
  BY <1>1 DEF Holds, CertInv, CertMutex
<1>11. \A p \in CertProc : CertRun(p)'
  BY <1>5, <1>8, <1>9, OthersRun
<1>12. \A p \in CertProc : ~Holds(p)'
  <2>1. ASSUME NEW p \in CertProc, p # q PROVE ~Holds(p)'
    <3>1. ~Holds(p)
      BY <1>10, <2>1 DEF CertInv, CertMutex
    <3> QED
      BY <1>5, <1>8, <2>1, <3>1, OthersRun
  <2> QED
    BY <1>9, <2>1
<1>13. CertMutex'
  BY <1>1, <1>12, NoProcAssumption DEF CertMutex
<1>14. ConnsInv'
  <2>1. kind = "ikev2" => Synced
    BY <1>6, <1>10 DEF CertInv, ConnsInv, ConnsOf
  <2>2. Synced <=> Synced'
    BY <1>1 DEF Synced, Stored
  <2> QED
    BY <1>1, <1>12, <2>1, <2>2 DEF ConnsInv
<1> QED
  BY <1>1, <1>7, <1>8, <1>11, <1>13, <1>14, BarredKept DEF CertInv

\* A method begins once it has the mutex.
LEMMA CertCall ==
  ASSUME CertInv, NEW q \in CertProc, NEW call \in CertCalls, NEW n \in CN, Call(q, call, n)
  PROVE  CertInv'
<1>1. CertTypes /\ kind \in {"openvpn", "ikev2"} /\ DaemonReads
  BY DEF CertInv, CertTypes, CertState
<1>2. Opening(Class(call), Program(call))
  BY <1>1, ProgramOpens
<1>3. PICK c : c = Class(call)
  OBVIOUS
<1>4. PICK s : s = Tail(Program(call))
  OBVIOUS
<1>5. PICK r : r = [Idle EXCEPT !.call = c, !.cn = n, !.rest = s]
  OBVIOUS
<1>6. /\ req[q] = Idle /\ certMu = NoProc /\ certMu' = q /\ req' = [req EXCEPT ![q] = r]
      /\ UNCHANGED <<kind, caRow, cert, caMem, row, revoked, routes, nca, disk, used, removed, missed, outrun, clean>>
  BY <1>2, <1>3, <1>4, <1>5, Zenon DEF Call, Opening, rowVars, hostVars, ghostVars
<1>7. /\ c \in CertClass \ {"none"} /\ s \in RestOf(kind, c)
      /\ First(s) \in {"getCA", "get", "revoke", "importCA"}
      /\ c = "remove" => First(s) = "revoke"
      /\ c = "import" <=> First(s) = "importCA"
  BY <1>2, <1>3, <1>4 DEF Opening, RestOf
<1>8. s \in AnyRest
  BY <1>1, <1>7 DEF AnyRest
<1>9. r \in CertReq /\ r.call = c /\ r.cn = n /\ r.rest = s /\ r.cert = 0
  <2>1. Idle \in CertReq /\ Idle.cert = 0
    BY IdleIs DEF Idle
  <2> QED
    BY <1>5, <1>7, <1>8, <2>1 DEF CertReq
<1>10. /\ req'[q] = r /\ Head1(q)' = First(s) /\ \A p \in CertProc \ {q} : req'[p] = req[p]
  BY <1>1, <1>6, <1>9 DEF CertTypes, Head1, First
<1>11. CertTypes'
  BY <1>1, <1>6, <1>9 DEF CertTypes, CertState
<1>12. CertKept(q) /\ DaemonReads'
  <2>1. DaemonReads'
    BY <1>1, <1>6 DEF DaemonReads
  <2> QED
    BY <1>6, <2>1, ListsKept
<1>13. c = "remove" => Removal(q)'
  BY <1>7, <1>10 DEF Removal, Settling
<1>14. CertRun(q)'
  BY <1>6, <1>7, <1>9, <1>10, <1>13 DEF CertRun
<1>15. Holds(q)'
  BY <1>7, <1>9, <1>10 DEF Holds, CertClass
<1>16. \A p \in CertProc : CertRun(p)'
  BY <1>10, <1>12, <1>14, OthersRun
<1>17. \A p \in CertProc \ {q} : ~Holds(p)'
  <2>1. \A p \in CertProc : ~Holds(p)
    BY <1>6, NoProcAssumption DEF CertInv, CertMutex
  <2> QED
    BY <1>10, <1>12, <2>1, OthersRun
<1>18. CertMutex'
  BY <1>6, <1>15, <1>17 DEF CertMutex
<1>19. ConnsInv'
  <2>1. kind = "ikev2" => Synced
    BY <1>6 DEF CertInv, ConnsInv
  <2>2. Synced <=> Synced'
    BY <1>6 DEF Synced, Stored
  <2>3. kind = "ikev2" => ConnsOf(q)'
    BY <1>7, <1>10, <2>1, <2>2 DEF ConnsOf
  <2> QED
    BY <1>6, <1>17, <2>3, NoProcAssumption DEF ConnsInv
<1> QED
  BY <1>6, <1>11, <1>12, <1>16, <1>18, <1>19, BarredKept DEF CertInv

\* The panel restarts.
LEMMA CertPanelRestart ==
  ASSUME CertInv, Restart
  PROVE  CertInv'
<1>1. /\ caMem' = 0 /\ certMu' = NoProc /\ req' = [q \in CertProc |-> Idle]
      /\ clean' = (clean /\ Running("change") \cup Running("remove") = {})
      /\ UNCHANGED <<kind, caRow, cert, row, revoked, routes, nca, disk, used, removed, missed, outrun>>
  BY DEF Restart, rowVars, hostVars, ghostVars
<1>2. clean' \in BOOLEAN /\ (clean' => clean /\ \A q \in CertProc : req[q].call \notin {"change", "remove"})
  BY <1>1 DEF Running
<1>3. CertTypes'
  <2>1. CertState'
    BY <1>1 DEF CertInv, CertTypes, CertState
  <2> QED
    BY <1>1, <1>2, <2>1, IdleIs DEF CertTypes
<1>4. DaemonReads'
  BY <1>1 DEF CertInv, DaemonReads
<1>5. RemovedBarred'
  <2>1. ASSUME NEW c PROVE Barred(c)' <=> Barred(c)
    BY <1>1 DEF Barred
  <2> QED
    BY <1>1, <2>1 DEF CertInv, RemovedBarred
<1>6. ASSUME NEW q \in CertProc PROVE CertRun(q)' /\ ~Holds(q)'
  <2>1. req'[q] = Idle /\ Head1(q)' = "none"
    BY <1>1, IdleIs DEF Head1
  <2> QED
    BY <2>1, IdleIs DEF CertRun, Holds, Unissued
<1>7. CertMutex'
  BY <1>1, <1>6, NoProcAssumption DEF CertMutex
<1>8. ConnsInv'
  <2>1. ASSUME kind = "ikev2", clean' PROVE Synced
    <3>1. CASE certMu = NoProc
      BY <2>1, <3>1 DEF CertInv, ConnsInv
    <3>2. CASE certMu \in CertProc
      <4>1. ConnsOf(certMu) /\ req[certMu].call \notin {"change", "remove"}
        BY <1>2, <2>1, <3>2 DEF CertInv, ConnsInv, CertMutex
      <4> QED
        BY <4>1 DEF ConnsOf
    <3> QED
      BY <3>1, <3>2 DEF CertInv, CertMutex
  <2>2. kind = "ikev2" => Synced'
    <3>1. Synced /\ clean' => Synced'
      BY <1>1, <1>2 DEF Synced, Stored
    <3>2. ~clean' => Synced'
      BY DEF Synced
    <3> QED
      BY <2>1, <3>1, <3>2
  <2> QED
    BY <1>1, <1>6, <2>2 DEF ConnsInv
<1> QED
  BY <1>3, <1>4, <1>5, <1>6, <1>7, <1>8 DEF CertInv

-----------------------------------------------------------------------------
(* The theorems *)

\* Nothing is stored yet.
LEMMA CertInvInit == CertInit => CertInv
<1> SUFFICES ASSUME CertInit PROVE CertInv
  OBVIOUS
<1>1. CertTypes
  <2>1. CertState
    <3>1. disk \in CertFiles /\ used \in CertFiles
      BY DEF CertInit, CertFiles, NoCRL
    <3>2. cert \in Seq([cn : CN, ca : Nat])
      BY DEF CertInit
    <3> QED
      BY <3>1, <3>2 DEF CertInit, CertState
  <2> QED
    BY <2>1, IdleIs DEF CertInit, CertTypes
<1>2. ASSUME NEW q \in CertProc PROVE CertRun(q) /\ ~Holds(q)
  <2>1. req[q] = Idle /\ Head1(q) = "none"
    BY IdleIs DEF CertInit, Head1
  <2> QED
    BY <2>1, IdleIs DEF CertRun, Holds, Unissued
<1>3. CertMutex
  BY <1>2, NoProcAssumption DEF CertInit, CertMutex
<1>4. RemovedBarred /\ DaemonReads
  BY DEF CertInit, RemovedBarred, DaemonReads
<1>5. ConnsInv
  <2>1. Synced
    BY DEF CertInit, Synced
  <2> QED
    BY <1>2, <2>1 DEF ConnsInv
<1> QED
  BY <1>1, <1>2, <1>3, <1>4, <1>5 DEF CertInv

\* Every step keeps the invariant.
LEMMA CertInvNext == CertInv /\ [CertNext]_certVars => CertInv'
<1> SUFFICES ASSUME CertInv, [CertNext]_certVars PROVE CertInv'
  OBVIOUS
<1>1. ASSUME NEW q \in CertProc, CertStep(q) PROVE CertInv'
  <2>1. ASSUME StoreStep(q) PROVE CertInv'
    BY <2>1, CertImportRevoked, CertGet, CertGetMissing, CertRevoke, CertAddRevoked, CertList, CertRowWrite,
       CertRoutes, CertApply DEF StoreStep
  <2>2. ASSUME ShellStep(q) PROVE CertInv'
    BY <2>2, CertCCD, CertFilesWritten, CertRestarted, CertWriteConns, CertLoad, CertTryLoad, CertCreateCRL
       DEF ShellStep
  <2> QED
    BY <1>1, <2>1, <2>2, CertUnlock, CertGetCA, CertNewCA, CertImportCA, CertIssue, CertFailStep, CertReturn
       DEF CertStep
<1>2. ASSUME NEW q \in CertProc, NEW call \in CertCalls, NEW n \in CN, Call(q, call, n) PROVE CertInv'
  BY <1>2, CertCall
<1>3. ASSUME Restart PROVE CertInv'
  BY <1>3, CertPanelRestart
<1>4. ASSUME UNCHANGED certVars PROVE CertInv'
  <2>1. UNCHANGED <<kind, caRow, caMem, nca, cert, row, revoked, routes, disk, used, certMu, req, removed, missed, outrun, clean>>
    BY <1>4 DEF certVars
  <2>2. CertTypes' /\ DaemonReads'
    BY <2>1 DEF CertInv, CertTypes, CertState, DaemonReads
  <2>3. ASSUME NEW c PROVE Barred(c)' = Barred(c) /\ Listed(c)' = Listed(c)
    BY <2>1 DEF Barred, Listed
  <2>4. RemovedBarred'
    BY <2>1, <2>3 DEF CertInv, RemovedBarred
  <2>5. ASSUME NEW q \in CertProc PROVE Head1(q)' = Head1(q) /\ Holds(q)' = Holds(q)
    BY <2>1 DEF Head1, Holds
  <2>6. ASSUME NEW q \in CertProc PROVE CertRun(q)'
    <3>1. CertRun(q)
      BY DEF CertInv
    <3>2. Removal(q) => Removal(q)'
      BY <2>1, <2>5 DEF Removal, Listed, Barred
    <3> QED
      BY <2>1, <2>5, <3>1, <3>2 DEF CertRun
  <2>7. CertMutex'
    BY <2>1, <2>5 DEF CertInv, CertMutex
  <2>8. ConnsInv'
    <3>1. Synced' = Synced
      BY <2>1 DEF Synced, Stored
    <3>2. ASSUME NEW q \in CertProc PROVE ConnsOf(q)' = ConnsOf(q)
      BY <2>1, <2>5, <3>1 DEF ConnsOf, Stored
    <3> QED
      BY <2>1, <2>5, <3>1, <3>2 DEF CertInv, ConnsInv
  <2> QED
    BY <2>2, <2>4, <2>6, <2>7, <2>8 DEF CertInv
<1> QED
  BY <1>1, <1>2, <1>3, <1>4 DEF CertNext

\* The inductive invariant holds always.
LEMMA CertInvHolds == CertSpec => []CertInv
<1>1. CertInit => CertInv
  BY CertInvInit
<1>2. CertInv /\ [CertNext]_certVars => CertInv'
  BY CertInvNext
<1> QED
  BY <1>1, <1>2, PTL DEF CertSpec

\* RemovePeer: once it reported success, the list in force names the client's
\* certificate, and no daemon lets it in unless that list is of another CA than the
\* server's, whatever runs beside it or later and whichever statement fails; but
\* for a removal whose read of the client failed, and a list read earlier and
\* written later.
THEOREM RemovedClientsRefused == CertSpec => []RemovedRefused
<1>1. CertInv => RemovedRefused
  BY DEF CertInv, RemovedBarred, RemovedRefused, Accepted, StrayCRL, Barred
<1> QED
  BY <1>1, CertInvHolds, PTL

\* applyClients and writeConnAndLoad: after a change that reported success, the
\* connections charon has are those of the stored clients whenever nobody holds p.mu.
THEOREM ConnectionsCurrent == CertSpec => []ConnsCurrent
<1>1. CertInv => ConnsCurrent
  BY DEF CertInv, ConnsInv, Synced, Stored, ConnsCurrent
<1> QED
  BY <1>1, CertInvHolds, PTL

\* Whether a step replaces the CA's row only as CAKept allows.
CARowStep == caRow # 0 /\ caRow' # caRow =>
               \E q \in CertProc : \/ Head1(q) = "importCA"
                                   \/ Head1(q) = "newCA" /\ req[q].blind

\* Only an import, or a getCA that could not read the row, replaces it.
LEMMA CARowStepHolds == CertInv /\ [CertNext]_certVars => CARowStep
<1> SUFFICES ASSUME CertInv, [CertNext]_certVars, caRow # 0, caRow' # caRow
             PROVE  \E q \in CertProc : Head1(q) = "importCA" \/ (Head1(q) = "newCA" /\ req[q].blind)
  BY DEF CARowStep
<1>1. PICK q \in CertProc : CertStep(q)
  <2>1. ASSUME NEW q \in CertProc, NEW call \in CertCalls, NEW n \in CN, Call(q, call, n) PROVE FALSE
    BY <2>1 DEF Call, rowVars
  <2>2. ASSUME Restart PROVE FALSE
    BY <2>2 DEF Restart, rowVars
  <2>3. ASSUME UNCHANGED certVars PROVE FALSE
    BY <2>3 DEF certVars
  <2> QED
    BY <2>1, <2>2, <2>3 DEF CertNext
<1>2. ASSUME StoreStep(q) PROVE FALSE
  BY <1>2 DEF StoreStep, ImportRevokedCerts, GetClient, GetMissing, Revoke, AddRevokedCert, ListRevokedCerts,
     SaveClient, DeleteClient, SaveServerRoutes, ApplyClients, rowVars
<1>3. ASSUME ShellStep(q) PROVE FALSE
  BY <1>3 DEF ShellStep, WriteCCD, RemoveCCD, WriteServerFiles, RestartService, WriteConns, LoadCerts, TryLoad,
     CreateCRL, rowVars
<1>4. ASSUME Unlock(q) \/ GetCA(q) \/ IssueClient(q) \/ VerifyClientCert(q) \/ FailStep(q) \/ Return(q) PROVE FALSE
  BY <1>4 DEF Unlock, GetCA, IssueClient, VerifyClientCert, FailStep, Return, rowVars
<1>5. ASSUME NewCA(q) PROVE Head1(q) = "newCA" /\ req[q].blind
  <2>1. Head1(q) = "newCA"
    BY <1>5 DEF NewCA
  <2>2. CertRun(q) /\ req[q] \in CertReq
    BY <2>1, CertAt
  <2> QED
    BY <2>1, <2>2 DEF CertRun, CertReq
<1>6. ASSUME ImportCA(q) PROVE Head1(q) = "importCA"
  BY <1>6 DEF ImportCA
<1> QED
  BY <1>1, <1>2, <1>3, <1>4, <1>5, <1>6 DEF CertStep

\* getCA: no step replaces a stored CA but ImportCA and a getCA whose read failed,
\* however many requests find no CA at the same time.
THEOREM StoredCAKept == CertSpec => CAKept
<1>1. CertInv /\ [CertNext]_certVars => [CARowStep]_certVars
  BY CARowStepHolds
<1>2. CAKept <=> [][CARowStep]_certVars
  BY PTL DEF CAKept, CARowStep
<1> QED
  BY <1>1, <1>2, CertInvHolds, PTL DEF CertSpec

=============================================================================
