---------------------------- MODULE PanelProofs -----------------------------
(***************************************************************************)
(* Proofs about the panel's own machinery, for any number of accounts,     *)
(* requests, saves, faults, cells, keys, tickets and upgrades.             *)
(*                                                                         *)
(* Accounts: what a request that takes an admin away, or a login at its    *)
(* session, knows.  WebTLS: what a save and a reissue that were alone have *)
(* made of settings and leaf.                                              *)
(*                                                                         *)
(* KeyRotate: the rotation implements Vault.  While the lock and the keys  *)
(* are what they should be (`exclusive'), a running rotation excludes the  *)
(* panel, what it has written is what the database says, and it has        *)
(* written every secret of the columns behind it; so the commit leaves one *)
(* key.                                                                    *)
(*                                                                         *)
(* ConsoleHub: the counters are the numbers of slots held, and keep to the *)
(* caps.                                                                   *)
(*                                                                         *)
(* LoginGuard: whatever the settings, the attempts in flight and the       *)
(* restarts, a password is tried no more than GuessBound says.  Every      *)
(* guess of a window is on record, is about to be, or belongs to a         *)
(* RecordResult that broke off; those since the last ban stay below the    *)
(* threshold, but for the attempts that have yet to decide on one.         *)
(***************************************************************************)
EXTENDS Accounts, WebTLS, KeyRotate, ConsoleHub, LoginGuard, FiniteSetTheorems, SequenceTheorems, TLAPS

-----------------------------------------------------------------------------
(* Accounts *)

UserRow == [row : {"none", "live", "gone"}, role : Role, enabled : BOOLEAN,
            portal : BOOLEAN, totp : BOOLEAN]
GroupRule == Method \X Role \X Group
ReqValue == {"none"} \cup Method \cup Role \cup (SUBSET Group) \cup GroupRule
AcctReq == [at : {"idle", "rules", "upsert", "session", "check", "write"},
            by : Account \cup {NoAccount}, of : Account \cup {NoAccount},
            op : {"none", "create", "methods", "rules"} \cup UserOps \cup SelfOps,
            val : ReqValue]

AcctTypes ==
    /\ user \in [Account -> UserRow]
    /\ session \in [Token -> Account \cup {NoAccount}]
    /\ req \in [AcctProc -> AcctReq]

\* What holds of a request wherever it stands: the role it is about to write is
\* one, and, while nothing has excused a lockout, whoever asks for an admin to be taken away is an enabled
\* admin, and after the check not the one that goes.
ReqOk(r) ==
    /\ r.at = "upsert" \/ r.op = "create" => r.val \in Role
    /\ ~excused /\ r.at \in {"check", "write"} /\ r.op \in RemoveOps =>
         r.by \in EnabledAdmins /\ (r.at = "write" => r.of # r.by)

AcctInv ==
    /\ AcctTypes
    /\ \A p \in AcctProc : ReqOk(req[p])
    /\ NoOrphanSession
    /\ AdminKept

\* An idle request has nothing to be checked.
LEMMA IdleOk == NoReq \in AcctReq /\ ReqOk(NoReq) /\ NoReq.at = "idle" /\ NoReq.of = NoAccount
  BY DEF NoReq, AcctReq, ReqOk, ReqValue, RemoveOps

\* An account that has been set up has an enabled admin, and no request runs.
LEMMA AcctStart == ASSUME AccountAssumption, AcctInit PROVE AcctInv
<1>1. \A a \in Account : user[a] \in {NoRow, [NoRow EXCEPT !.row = "live", !.role = "admin"]}
  BY DEF AcctInit
<1>a. NoRow \in UserRow /\ NoRow.row = "none"
  BY DEF NoRow, UserRow, Role
<1> DEFINE adm == [NoRow EXCEPT !.row = "live", !.role = "admin"]
<1>b. adm \in UserRow /\ adm.role = "admin" /\ adm.enabled
  BY DEF NoRow, UserRow, Role
<1> HIDE DEF adm
<1>c. \A a \in Account : user[a] \in {NoRow, adm}
  BY <1>1 DEF adm
<1>2. AcctTypes
  <2>2. user \in [Account -> UserRow]
    BY <1>a, <1>b DEF AcctInit, adm
  <2>3. QED
    BY <2>2, IdleOk DEF AcctTypes, AcctInit
<1>3. AdminKept
  <2>1. PICK a \in Account : Live(a)
    BY DEF AcctInit
  <2>2. user[a].role = "admin" /\ user[a].enabled
    BY <1>a, <1>b, <1>c, <2>1 DEF Live
  <2>3. QED
    BY <2>1, <2>2 DEF AdminKept, EnabledAdmins
<1>4. \A p \in AcctProc : ReqOk(req[p])
  BY IdleOk DEF AcctInit
<1>5. NoOrphanSession
  BY DEF AcctInit, NoOrphanSession
<1>6. QED
  BY <1>2, <1>3, <1>4, <1>5 DEF AcctInv

\* A step of one request that leaves the users and the sessions alone.
LEMMA AcctMove ==
  ASSUME AcctInv, NEW p \in AcctProc, NEW r \in AcctReq, ReqOk(r),
         req' = [req EXCEPT ![p] = r], UNCHANGED <<user, session, excused>>
  PROVE  AcctInv'
<1>1. AcctTypes'
  BY DEF AcctInv, AcctTypes
<1>2. ASSUME NEW q \in AcctProc PROVE ReqOk(req[q])'
  <2>1. req'[q] = req[q] \/ req'[q] = r
    BY DEF AcctInv, AcctTypes
  <2>2. ReqOk(req[q])
    BY DEF AcctInv
  <2>3. CASE req'[q] = req[q]
    BY <2>2, <2>3 DEF ReqOk, EnabledAdmins, Live
  <2>4. CASE req'[q] = r
    BY <2>4 DEF ReqOk, EnabledAdmins, Live
  <2>5. QED
    BY <2>1, <2>3, <2>4
<1>3. NoOrphanSession' /\ AdminKept'
  BY DEF AcctInv, NoOrphanSession, AdminKept, EnabledAdmins, Live
<1>4. QED
  BY <1>1, <1>2, <1>3 DEF AcctInv

\* A step that writes users and takes no account and no admin away unless that
\* is excused.
LEMMA AcctGrow ==
  ASSUME AcctInv, user' \in [Account -> UserRow], req' \in [AcctProc -> AcctReq],
         UNCHANGED session,
         \A q \in AcctProc :
            \/ ReqOk(req'[q]) /\ req'[q].at \notin {"check", "write"}
            \/ req'[q] = req[q],
         \A a \in Account : user[a].row = "live" => user'[a].row = "live",
         excused' \/ (~excused /\ \A a \in EnabledAdmins : user'[a].role = "admin" /\ user'[a].enabled)
  PROVE  AcctInv'
<1>1. AcctTypes'
  BY DEF AcctInv, AcctTypes
<1>2. excused' \/ (~excused /\ EnabledAdmins \subseteq EnabledAdmins')
  BY DEF EnabledAdmins, Live
<1>3. ASSUME NEW q \in AcctProc PROVE ReqOk(req[q])'
  <2>1. ReqOk(req[q]) /\ req[q] \in AcctReq
    BY DEF AcctInv, AcctTypes
  <2>2. CASE ReqOk(req'[q]) /\ req'[q].at \notin {"check", "write"}
    BY <2>2 DEF ReqOk
  <2>3. CASE req'[q] = req[q]
    BY <2>1, <2>3, <1>2 DEF ReqOk
  <2>4. QED
    BY <2>2, <2>3
<1>4. NoOrphanSession'
  BY DEF AcctInv, AcctTypes, NoOrphanSession, Live
<1>5. AdminKept'
  BY <1>2 DEF AcctInv, AdminKept
<1>6. QED
  BY <1>1, <1>3, <1>4, <1>5 DEF AcctInv

\* A login that passes leaves a request about to create the session.
LEMMA SessionReq ==
  ASSUME NEW a \in Account \cup {NoAccount}
  PROVE  Session(a) \in AcctReq /\ ReqOk(Session(a)) /\ Session(a).at = "session"
<1>1. Session(a) \in AcctReq /\ Session(a).at = "session" /\ Session(a).op = "none"
  BY IdleOk DEF AcctReq, Session, NoReq
<1>2. QED
  BY <1>1 DEF ReqOk

\* The logins.
LEMMA LoginStep ==
  ASSUME AcctInv, NEW p \in AcctProc, NEW a \in Account,
         \/ Login(p, a) \/ apiLogin2FA(p, a)
         \/ \E gs \in SUBSET Group : ExternalLogin(p, a, gs)
  PROVE  AcctInv'
<1>1. CASE Login(p, a)
  <2>1. CASE UNCHANGED req
    BY <1>1, <2>1 DEF Login, SameTables, AcctInv, AcctTypes, ReqOk, NoOrphanSession, AdminKept,
                      EnabledAdmins, Live
  <2>2. CASE Put(p, Session(a))
    BY <1>1, <2>2, SessionReq, AcctMove DEF Login, SameTables, Put, AcctInv
  <2>3. QED
    BY <1>1, <2>1, <2>2 DEF Login
<1>2. CASE apiLogin2FA(p, a)
  BY <1>2, SessionReq, AcctMove DEF apiLogin2FA, SameTables, Put, AcctInv
<1>3. ASSUME NEW gs \in SUBSET Group, ExternalLogin(p, a, gs) PROVE AcctInv'
  <2> DEFINE r == [NoReq EXCEPT !.at = "rules", !.of = a, !.val = gs]
  <2>1. gs \in ReqValue
    BY <1>3 DEF ReqValue
  <2>2. r \in AcctReq /\ r.at = "rules" /\ r.op = "none"
    BY <2>1, IdleOk DEF AcctReq, NoReq
  <2>3. ReqOk(r)
    BY <2>2 DEF ReqOk
  <2>4. req' = [req EXCEPT ![p] = r] /\ UNCHANGED <<user, session, excused>>
    BY <1>3 DEF ExternalLogin, Put, SameTables
  <2>5. QED
    BY <2>2, <2>3, <2>4, AcctMove
<1>4. QED
  BY <1>1, <1>2, <1>3

\* The two steps of an external login that only read.
LEMMA ResolveStep ==
  ASSUME AcctInv, NEW p \in AcctProc, ResolveRole(p) \/ UpsertOfDeleted(p)
  PROVE  AcctInv'
<1>1. CASE ResolveRole(p)
  <2> DEFINE role == resolveRole(Source[req[p].of], req[p].val)
             r == [req[p] EXCEPT !.at = "upsert", !.val = role]
  <2>1. UNCHANGED <<user, session, excused>>
    BY <1>1 DEF ResolveRole, SameTables
  <2>2. CASE role = "none"
    BY <1>1, <2>1, <2>2, IdleOk, AcctMove DEF ResolveRole, Put
  <2>3. CASE role # "none"
    <3>1. role \in Role
      BY <2>3 DEF resolveRole, Role
    <3>2. req[p] \in AcctReq
      BY DEF AcctInv, AcctTypes
    <3> HIDE DEF role
    <3>3. r \in AcctReq /\ r.at = "upsert" /\ r.val = role
      BY <3>1, <3>2 DEF AcctReq, ReqValue
    <3>4. ReqOk(r)
      BY <3>1, <3>3 DEF ReqOk
    <3>5. req' = [req EXCEPT ![p] = r]
      BY <1>1, <2>3 DEF ResolveRole, Put, role
    <3>6. QED
      BY <2>1, <3>3, <3>4, <3>5, AcctMove
  <2>4. QED
    BY <2>2, <2>3
<1>2. CASE UpsertOfDeleted(p)
  BY <1>2, IdleOk, AcctMove DEF UpsertOfDeleted, SameTables, Put
<1>3. QED
  BY <1>1, <1>2

\* UpsertExternalUser: a row that is live stays, and an admin stays one unless
\* the directory says otherwise.
LEMMA UpsertStep ==
  ASSUME AccountAssumption, AcctInv, NEW p \in AcctProc, UpsertExternalUser(p) PROVE AcctInv'
<1> DEFINE a == req[p].of
           new == [user[a] EXCEPT !.row = "live", !.role = req[p].val]
           r == Session(a)
<1>1. req[p] \in AcctReq /\ req[p].val \in Role /\ req[p].at = "upsert"
  BY DEF AcctInv, AcctTypes, ReqOk, UpsertExternalUser
<1>2. a \in Account \cup {NoAccount}
  BY <1>1 DEF AcctReq
<1>3. user' = [user EXCEPT ![a] = new] /\ UNCHANGED session
  BY DEF UpsertExternalUser
<1>4. a \in Account => new \in UserRow /\ new.row = "live" /\ new.role = req[p].val
                       /\ new.enabled = user[a].enabled
  <2> SUFFICES ASSUME a \in Account
               PROVE  new \in UserRow /\ new.row = "live" /\ new.role = req[p].val
                      /\ new.enabled = user[a].enabled
    OBVIOUS
  <2>1. PICK u \in UserRow : u = user[a]
    BY DEF AcctInv, AcctTypes
  <2>2. PICK v \in Role : v = req[p].val
    BY <1>1
  <2>3. new = [u EXCEPT !.row = "live", !.role = v]
    BY <2>1, <2>2, Zenon
  <2> HIDE DEF new
  <2>4. new \in UserRow /\ new.row = "live" /\ new.role = v
    BY <2>3 DEF UserRow
  <2>5. new.enabled = u.enabled
    BY <2>3 DEF UserRow
  <2>6. QED
    BY <2>1, <2>2, <2>4, <2>5
<1>5. excused' = (excused \/ (Live(a) /\ user[a].role = "admin" /\ req[p].val = "user"))
  BY DEF UpsertExternalUser
<1>6. PICK n \in AcctReq : /\ req' = [req EXCEPT ![p] = n] /\ n.at \notin {"check", "write"}
                           /\ ReqOk(n)
  <2>1. r \in AcctReq /\ r.at = "session" /\ ReqOk(r)
    BY <1>2, SessionReq
  <2>2. req' = [req EXCEPT ![p] = r] \/ req' = [req EXCEPT ![p] = NoReq]
    BY Zenon DEF UpsertExternalUser, Put
  <2>3. QED
    BY <2>1, <2>2, IdleOk
<1> HIDE DEF a, new, r
<1>7. user' \in [Account -> UserRow]
  BY <1>2, <1>3, <1>4 DEF AcctInv, AcctTypes
<1>8. req' \in [AcctProc -> AcctReq]
  BY <1>6 DEF AcctInv, AcctTypes
<1>9. \A q \in AcctProc : \/ ReqOk(req'[q]) /\ req'[q].at \notin {"check", "write"}
                          \/ req'[q] = req[q]
  BY <1>6 DEF AcctInv, AcctTypes
<1>10. \A b \in Account : user[b].row = "live" => user'[b].row = "live"
  BY <1>2, <1>3, <1>4 DEF AcctInv, AcctTypes
<1>11. excused' \/ (~excused /\ \A b \in EnabledAdmins : user'[b].role = "admin" /\ user'[b].enabled)
  <2> SUFFICES ASSUME ~excused', NEW b \in EnabledAdmins
               PROVE  user'[b].role = "admin" /\ user'[b].enabled
    BY <1>5
  <2>1. b \in Account /\ Live(b) /\ user[b].role = "admin" /\ user[b].enabled
    BY DEF EnabledAdmins
  <2>2. CASE b = a
    <3>1. req[p].val = "admin"
      BY <1>1, <1>5, <2>1, <2>2 DEF Role
    <3>2. QED
      BY <1>3, <1>4, <2>1, <2>2, <3>1 DEF AcctInv, AcctTypes
  <2>3. CASE b # a
    BY <1>3, <2>1, <2>3 DEF AcctInv, AcctTypes
  <2>4. QED
    BY <2>2, <2>3
<1>12. QED
  BY <1>3, <1>7, <1>8, <1>9, <1>10, <1>11, AcctGrow

\* The sessions: one is opened only for an account that is there.
LEMMA SessionStep ==
  ASSUME AcctInv,
         \/ \E p \in AcctProc : CreateSession(p)
         \/ \E t \in Token : SessionEnds(t)
         \/ TokensExpire \/ StartOIDC
  PROVE  AcctInv'
<1>1. ASSUME NEW p \in AcctProc, CreateSession(p) PROVE AcctInv'
  <2>1. UNCHANGED <<user, excused>> /\ req' = [req EXCEPT ![p] = NoReq]
    BY <1>1 DEF CreateSession, SameTables, Put
  <2>2. \/ UNCHANGED session
        \/ \E t : Live(req[p].of) /\ session' = [session EXCEPT ![t] = req[p].of]
    BY <1>1 DEF CreateSession
  <2>3. req[p].of \in Account \cup {NoAccount}
    BY DEF AcctInv, AcctTypes, AcctReq
  <2>4. AcctTypes' /\ NoOrphanSession'
    BY <2>1, <2>2, <2>3, IdleOk DEF AcctInv, AcctTypes, NoOrphanSession, Live
  <2>5. \A q \in AcctProc : ReqOk(req[q])'
    BY <2>1, IdleOk DEF AcctInv, AcctTypes, ReqOk, EnabledAdmins, Live
  <2>6. AdminKept'
    BY <2>1 DEF AcctInv, AdminKept, EnabledAdmins, Live
  <2>7. QED
    BY <2>4, <2>5, <2>6 DEF AcctInv
<1>2. ASSUME NEW t \in Token, SessionEnds(t) PROVE AcctInv'
  BY <1>2 DEF SessionEnds, SameTables, AcctInv, AcctTypes, ReqOk, NoOrphanSession, AdminKept,
              EnabledAdmins, Live
<1>3. CASE TokensExpire \/ StartOIDC
  BY <1>3 DEF TokensExpire, StartOIDC, SameTables, AcctInv, AcctTypes, ReqOk, NoOrphanSession,
              AdminKept, EnabledAdmins, Live
<1>4. QED
  BY <1>1, <1>2, <1>3

\* requireAuthAPI: what an admin asks for is asked for by an enabled admin.
LEMMA AuthStep ==
  ASSUME AcctInv, NEW p \in AcctProc, NEW t \in Token,
         NEW op \in {"create", "methods", "rules"} \cup UserOps \cup SelfOps,
         NEW of \in Account \cup {NoAccount}, NEW val \in ReqValue, op = "create" => val \in Role,
         requireAuthAPI(p, t, op, of, val)
  PROVE  AcctInv'
<1> DEFINE r == [NoReq EXCEPT !.at = "check", !.by = session[t], !.of = of, !.op = op, !.val = val]
<1>1. session[t] \in Account \cup {NoAccount}
  BY DEF AcctInv, AcctTypes
<1>2. r \in AcctReq /\ r.at = "check" /\ r.by = session[t] /\ r.op = op /\ r.val = val
  BY <1>1, IdleOk DEF AcctReq
<1>3. op \in RemoveOps => session[t] \in EnabledAdmins
  <2>1. op \in RemoveOps => op \notin SelfOps
    BY DEF RemoveOps, SelfOps
  <2>2. QED
    BY <1>1, <2>1 DEF requireAuthAPI, Authenticate, GetSession, checkAccountLoginAllowed,
                      EnabledAdmins, Live
<1>4. ReqOk(r)
  BY <1>2, <1>3 DEF ReqOk
<1>5. req' = [req EXCEPT ![p] = r] /\ UNCHANGED <<user, session, excused>>
  BY DEF requireAuthAPI, Put, SameTables
<1>6. QED
  BY <1>2, <1>4, <1>5, AcctMove

\* Every request of the pages is one of those.
LEMMA RequestsStep ==
  ASSUME AccountAssumption, AcctInv, NEW p \in AcctProc, NEW t \in Token, Requests(p, t)
  PROVE  AcctInv'
<1>1. \A v \in {"none"} \cup Method \cup Role : v \in ReqValue
  BY DEF ReqValue
<1>2. \A m \in Method, role \in Role, g \in Group : <<m, role, g>> \in ReqValue
  <2>1. GroupRule \subseteq ReqValue
    BY DEF ReqValue
  <2>2. \A m \in Method, role \in Role, g \in Group : <<m, role, g>> \in GroupRule
    BY DEF GroupRule
  <2>3. QED
    BY <2>1, <2>2
<1>3. \A op \in UserOps \cup SelfOps : op # "create"
  BY DEF UserOps, SelfOps
<1>4. session[t] \in Account \cup {NoAccount}
  BY DEF AcctInv, AcctTypes
<1>5. UsedMethods \subseteq Method
  BY DEF AccountAssumption, UsedMethods
<1>6. CASE \E op \in UserOps, a \in Account : requireAuthAPI(p, t, op, a, "none")
  BY <1>1, <1>3, <1>6, AuthStep
<1>7. CASE \E op \in SelfOps : requireAuthAPI(p, t, op, session[t], "none")
  BY <1>1, <1>3, <1>4, <1>7, AuthStep
<1>8. CASE \E a \in Account, role \in Role : requireAuthAPI(p, t, "create", a, role)
  BY <1>1, <1>8, AuthStep
<1>9. CASE \E m \in Method : requireAuthAPI(p, t, "methods", NoAccount, m)
  BY <1>1, <1>9, AuthStep
<1>10. CASE \E m \in UsedMethods \ {"local"}, role \in Role, g \in Group :
              requireAuthAPI(p, t, "rules", NoAccount, <<m, role, g>>)
  BY <1>2, <1>5, <1>10, AuthStep
<1>11. QED
  BY <1>6, <1>7, <1>8, <1>9, <1>10 DEF Requests

\* Check: what passes does not take its own author away.
LEMMA CheckStep == ASSUME AcctInv, NEW p \in AcctProc, Check(p) PROVE AcctInv'
<1> DEFINE r == [req[p] EXCEPT !.at = "write"]
<1>1. req[p] \in AcctReq /\ ReqOk(req[p]) /\ req[p].at = "check"
  BY DEF AcctInv, AcctTypes, Check
<1>2. UNCHANGED <<user, session, excused>>
  BY DEF Check, SameTables
<1>3. \/ req' = [req EXCEPT ![p] = NoReq]
      \/ /\ req' = [req EXCEPT ![p] = r]
         /\ req[p].op \in RemoveOps => req[p].of # req[p].by
  BY DEF Check, Put, MayDelete, MayDisable, RemoveOps
<1>4. r \in AcctReq /\ r.at = "write" /\ r.op = req[p].op /\ r.by = req[p].by
      /\ r.of = req[p].of /\ r.val = req[p].val
  BY <1>1 DEF AcctReq
<1>5. CASE req' = [req EXCEPT ![p] = NoReq]
  BY <1>2, <1>5, IdleOk, AcctMove
<1>6. CASE req' = [req EXCEPT ![p] = r] /\ (req[p].op \in RemoveOps => req[p].of # req[p].by)
  <2>1. ReqOk(r)
    BY <1>1, <1>4, <1>6 DEF ReqOk
  <2>2. QED
    BY <1>2, <1>4, <1>6, <2>1, AcctMove
<1>7. QED
  BY <1>3, <1>5, <1>6

\* The settings of the methods and the rules have no part in the invariant.
LEMMA SettingStep ==
  ASSUME AcctInv, NEW p \in AcctProc,
         \/ apiInternalAuthUpdate(p) \/ apiLDAPSettingsUpdate(p) \/ apiOIDCSettingsUpdate(p)
         \/ apiAuthGroupRules(p)
  PROVE  AcctInv'
<1>1. req' = [req EXCEPT ![p] = NoReq] /\ UNCHANGED <<user, session, excused>>
  BY DEF apiInternalAuthUpdate, apiLDAPSettingsUpdate, apiOIDCSettingsUpdate, apiAuthGroupRules,
         SetMethod, Put
<1>2. QED
  BY <1>1, IdleOk, AcctMove

\* Finish: the request ends, and the others go on.
LEMMA FinishReqs ==
  ASSUME AcctInv, NEW p \in AcctProc, Finish(p)
  PROVE  /\ req' \in [AcctProc -> AcctReq]
         /\ req'[p] = NoReq
         /\ \A q \in AcctProc : \/ ReqOk(req'[q]) /\ req'[q].at \notin {"check", "write"}
                                \/ req'[q] = req[q]
BY IdleOk DEF AcctInv, AcctTypes, Finish, Put

\* A statement that leaves every row's life and every enabled admin as it is.
LEMMA UpdateStep ==
  ASSUME AcctInv, NEW p \in AcctProc, Finish(p), UNCHANGED <<session, excused>>,
         user' \in [Account -> UserRow],
         \A a \in Account : user[a].row = "live" => user'[a].row = "live",
         \A a \in EnabledAdmins : user'[a].role = "admin" /\ user'[a].enabled
  PROVE  AcctInv'
<1>1. CASE excused
  BY <1>1, FinishReqs, AcctGrow
<1>2. CASE ~excused
  BY <1>2, FinishReqs, AcctGrow
<1>3. QED
  BY <1>1, <1>2

\* One field of a live row is set.
LEMMA FieldStep ==
  ASSUME AcctInv, NEW p \in AcctProc, Finish(p), UNCHANGED <<session, excused>>,
         NEW a, NEW new \in UserRow,
         user' = [user EXCEPT ![a] = new] \/ UNCHANGED user,
         a \in Account /\ user[a].row = "live" => new.row = "live",
         a \in EnabledAdmins => new.role = "admin" /\ new.enabled
  PROVE  AcctInv'
<1>1. user' \in [Account -> UserRow]
  BY DEF AcctInv, AcctTypes
<1>2. \A b \in Account : user'[b] = user[b] \/ (b = a /\ user'[b] = new)
  BY DEF AcctInv, AcctTypes
<1>3. \A b \in Account : user[b].row = "live" => user'[b].row = "live"
  BY <1>2
<1>4. \A b \in EnabledAdmins : user'[b].role = "admin" /\ user'[b].enabled
  BY <1>2 DEF EnabledAdmins
<1>5. QED
  BY <1>1, <1>3, <1>4, UpdateStep

\* The statements of the Users and Account pages that take no admin away.
LEMMA WriteStep ==
  ASSUME AccountAssumption, AcctInv, NEW p \in AcctProc,
         \/ apiUsersCreate(p) \/ apiUsersSetPortalAccess(p) \/ EnableTOTP(p) \/ DisableTOTP(p)
         \/ apiUsersSetEnabled(p) /\ Writes(p, "enable")
  PROVE  AcctInv'
<1>1. PICK a \in Account \cup {NoAccount} : a = req[p].of
  BY DEF AcctInv, AcctTypes, AcctReq
<1>2. Finish(p) /\ UNCHANGED session
  BY DEF apiUsersCreate, apiUsersSetPortalAccess, EnableTOTP, DisableTOTP, apiUsersSetEnabled
<1>3. UNCHANGED excused
  BY DEF apiUsersCreate, apiUsersSetPortalAccess, EnableTOTP, DisableTOTP, apiUsersSetEnabled,
         Writes
<1>4. CASE a = NoAccount \/ user[a] \notin UserRow
  <2>1. a \notin Account
    BY <1>4 DEF AccountAssumption, AcctInv, AcctTypes
  <2>2. UNCHANGED user
    BY <1>1, <2>1 DEF apiUsersCreate, apiUsersSetPortalAccess, EnableTOTP, DisableTOTP,
       apiUsersSetEnabled, Writes, CreateUser, Update, UpdateUserEnabled, UpdateUserPortalAccess,
       SetUserTOTP, AcctInv, AcctTypes
  <2>3. user' \in [Account -> UserRow]
    BY <2>2 DEF AcctInv, AcctTypes
  <2>4. \A b \in EnabledAdmins : user'[b].role = "admin" /\ user'[b].enabled
    BY <2>2 DEF EnabledAdmins
  <2>5. QED
    BY <1>2, <1>3, <2>2, <2>3, <2>4, UpdateStep
<1>5. CASE a \in Account
  <2>1. PICK u \in UserRow : u = user[a]
    BY <1>5 DEF AcctInv, AcctTypes
  <2>2. Live(a) <=> u.row = "live"
    BY <1>5, <2>1 DEF Live, AccountAssumption
  <2>3. a \in EnabledAdmins => u.role = "admin" /\ u.enabled
    BY <2>1 DEF EnabledAdmins
  <2>4. CASE apiUsersCreate(p)
    <3>1. PICK role \in Role : role = req[p].val
      BY <2>4 DEF apiUsersCreate, Writes, AcctInv, ReqOk
    <3> DEFINE made == [NoRow EXCEPT !.row = "live", !.role = role]
               new == IF u.row = "none" THEN made ELSE u
    <3>2. made \in UserRow /\ made.row = "live"
      BY DEF UserRow, NoRow, Role
    <3>3. user' = [user EXCEPT ![a] = new]
      BY <1>1, <2>1, <2>4, <3>1 DEF apiUsersCreate, CreateUser
    <3> HIDE DEF made
    <3>4. new \in UserRow /\ (u.row = "live" => new = u)
      BY <3>2
    <3>5. a \in EnabledAdmins => new = u
      BY <2>2, <3>4 DEF EnabledAdmins
    <3> HIDE DEF new
    <3>6. QED
      BY <1>2, <1>3, <2>1, <2>3, <3>3, <3>4, <3>5, FieldStep
  <2>5. ASSUME NEW b \in BOOLEAN, UpdateUserPortalAccess(a, b) PROVE AcctInv'
    <3> DEFINE new == [u EXCEPT !.portal = b]
    <3>1. user' = [user EXCEPT ![a] = IF Live(a) THEN new ELSE u]
      BY <2>1, <2>5 DEF UpdateUserPortalAccess, Update
    <3>2. new \in UserRow /\ new.row = u.row /\ new.role = u.role /\ new.enabled = u.enabled
      BY DEF UserRow
    <3> HIDE DEF new
    <3>3. user' = [user EXCEPT ![a] = new] \/ user' = [user EXCEPT ![a] = u]
      BY <3>1
    <3>4. QED
      BY <1>2, <1>3, <2>1, <2>3, <3>2, <3>3, FieldStep
  <2>6. ASSUME NEW b \in BOOLEAN, SetUserTOTP(a, b) PROVE AcctInv'
    <3> DEFINE new == [u EXCEPT !.totp = b]
    <3>1. user' = [user EXCEPT ![a] = IF Live(a) THEN new ELSE u]
      BY <2>1, <2>6 DEF SetUserTOTP, Update
    <3>2. new \in UserRow /\ new.row = u.row /\ new.role = u.role /\ new.enabled = u.enabled
      BY DEF UserRow
    <3> HIDE DEF new
    <3>3. user' = [user EXCEPT ![a] = new] \/ user' = [user EXCEPT ![a] = u]
      BY <3>1
    <3>4. QED
      BY <1>2, <1>3, <2>1, <2>3, <3>2, <3>3, FieldStep
  <2>7. CASE UpdateUserEnabled(a, TRUE)
    <3> DEFINE new == [u EXCEPT !.enabled = TRUE]
    <3>1. user' = [user EXCEPT ![a] = IF Live(a) THEN new ELSE u]
      BY <2>1, <2>7 DEF UpdateUserEnabled, Update
    <3>2. new \in UserRow /\ new.row = u.row /\ new.role = u.role /\ new.enabled
      BY DEF UserRow
    <3> HIDE DEF new
    <3>3. user' = [user EXCEPT ![a] = new] \/ user' = [user EXCEPT ![a] = u]
      BY <3>1
    <3>4. QED
      BY <1>2, <1>3, <2>1, <2>3, <3>2, <3>3, FieldStep
  <2>8. CASE apiUsersSetPortalAccess(p)
    BY <1>1, <2>5, <2>8 DEF apiUsersSetPortalAccess
  <2>9. CASE EnableTOTP(p) \/ DisableTOTP(p)
    BY <1>1, <2>6, <2>9 DEF EnableTOTP, DisableTOTP
  <2>10. CASE apiUsersSetEnabled(p) /\ Writes(p, "enable")
    BY <1>1, <2>7, <2>10 DEF apiUsersSetEnabled, Writes
  <2>11. QED
    BY <2>4, <2>8, <2>9, <2>10
<1>6. QED
  BY <1>1, <1>4, <1>5

\* The two statements that take an admin away: when nothing excuses it, no other
\* such request is under way, and the author of this one is an enabled admin that
\* is not the one it takes.
LEMMA RemoveStep ==
  ASSUME AccountAssumption, AcctInv, NEW p \in AcctProc, NEW a, a = req[p].of,
         req[p].at = "write", req[p].op \in RemoveOps,
         Finish(p), excused' = (excused \/ Overlapped(p)),
         user' \in [Account -> UserRow],
         \A b \in Account : b # a => user'[b] = user[b],
         session' \in [Token -> Account \cup {NoAccount}],
         NoOrphanSession'
  PROVE  AcctInv'
<1>1. /\ req' \in [AcctProc -> AcctReq] /\ req'[p] = NoReq
      /\ \A q \in AcctProc : \/ ReqOk(req'[q]) /\ req'[q].at \notin {"check", "write"}
                             \/ req'[q] = req[q]
  BY FinishReqs
<1>2. ~excused' => ~excused /\ ~Overlapped(p)
  OBVIOUS
<1>3. ASSUME NEW q \in AcctProc PROVE ReqOk(req[q])'
  <2>1. ReqOk(req[q]) /\ req[q] \in AcctReq
    BY DEF AcctInv, AcctTypes
  <2>2. CASE ReqOk(req'[q]) /\ req'[q].at \notin {"check", "write"}
    BY <2>2 DEF ReqOk
  <2>3. CASE q # p /\ req'[q] = req[q]
    <3>1. ~excused' => ~(req[q].at \in {"check", "write"} /\ req[q].op \in RemoveOps)
      BY <1>2, <2>3 DEF Overlapped
    <3>2. QED
      BY <2>1, <2>3, <3>1 DEF ReqOk
  <2>4. CASE q = p
    BY <1>1, <2>4, IdleOk DEF ReqOk
  <2>5. QED
    BY <1>1, <2>2, <2>3, <2>4
<1>4. AdminKept'
  <2>1. CASE excused'
    BY <2>1 DEF AdminKept
  <2>2. CASE ~excused'
    <3>1. ReqOk(req[p])
      BY DEF AcctInv
    <3>2. req[p].by \in EnabledAdmins /\ req[p].by # a
      BY <1>2, <2>2, <3>1 DEF ReqOk
    <3>3. req[p].by \in EnabledAdmins'
      BY <3>2 DEF EnabledAdmins, Live
    <3>4. QED
      BY <3>3 DEF AdminKept
  <2>3. QED
    BY <2>1, <2>2
<1>5. QED
  BY <1>1, <1>3, <1>4 DEF AcctInv, AcctTypes

\* apiUsersDelete, and apiUsersSetEnabled(false).
LEMMA TakeAwayStep ==
  ASSUME AccountAssumption, AcctInv, NEW p \in AcctProc,
         apiUsersDelete(p) \/ (apiUsersSetEnabled(p) /\ Writes(p, "disable"))
  PROVE  AcctInv'
<1>1. PICK a \in Account \cup {NoAccount} : a = req[p].of
  BY DEF AcctInv, AcctTypes, AcctReq
<1>2. /\ req[p].at = "write" /\ req[p].op \in RemoveOps /\ Finish(p)
      /\ excused' = (excused \/ Overlapped(p))
  BY DEF apiUsersDelete, apiUsersSetEnabled, Writes, RemoveOps
<1>3. CASE apiUsersDelete(p)
  <2> DEFINE new == [NoRow EXCEPT !.row = "gone"]
  <2>1. new \in UserRow
    BY DEF NoRow, UserRow, Role
  <2>2. /\ user' = [user EXCEPT ![a] = new]
        /\ session' = [t \in Token |-> IF session[t] = a THEN NoAccount ELSE session[t]]
    BY <1>1, <1>3 DEF apiUsersDelete, DeleteUser
  <2> HIDE DEF new
  <2>3. user' \in [Account -> UserRow] /\ \A b \in Account : b # a => user'[b] = user[b]
    BY <2>1, <2>2 DEF AcctInv, AcctTypes
  <2>4. session' \in [Token -> Account \cup {NoAccount}]
    BY <2>2 DEF AcctInv, AcctTypes
  <2>5. NoOrphanSession'
    BY <2>2, <2>3 DEF AcctInv, AcctTypes, NoOrphanSession, Live
  <2>6. QED
    BY <1>1, <1>2, <2>3, <2>4, <2>5, RemoveStep
<1>4. CASE apiUsersSetEnabled(p) /\ Writes(p, "disable")
  <2>1. UpdateUserEnabled(a, FALSE) /\ UNCHANGED session
    BY <1>1, <1>4 DEF apiUsersSetEnabled, Writes
  <2>2. CASE a \in Account
    <3>1. PICK u \in UserRow : u = user[a]
      BY <2>2 DEF AcctInv, AcctTypes
    <3> DEFINE new == [u EXCEPT !.enabled = FALSE]
    <3>2. user' = [user EXCEPT ![a] = IF Live(a) THEN new ELSE u]
      BY <2>1, <3>1 DEF UpdateUserEnabled, Update
    <3>3. new \in UserRow /\ new.row = u.row
      BY DEF UserRow
    <3> HIDE DEF new
    <3>4. user' \in [Account -> UserRow] /\ \A b \in Account : b # a => user'[b] = user[b]
      BY <3>2, <3>3 DEF AcctInv, AcctTypes
    <3>5. \A b \in Account : user'[b].row = user[b].row
      BY <3>1, <3>2, <3>3 DEF AcctInv, AcctTypes
    <3>6. NoOrphanSession'
      BY <2>1, <3>5 DEF AcctInv, AcctTypes, NoOrphanSession, Live
    <3>7. QED
      BY <1>1, <1>2, <2>1, <3>4, <3>6, RemoveStep DEF AcctInv, AcctTypes
  <2>3. CASE a \notin Account
    <3>1. UNCHANGED user
      BY <2>1, <2>3 DEF UpdateUserEnabled, Update, AcctInv, AcctTypes
    <3>2. NoOrphanSession'
      BY <2>1, <3>1 DEF AcctInv, NoOrphanSession, Live
    <3>3. user' \in [Account -> UserRow] /\ session' \in [Token -> Account \cup {NoAccount}]
      BY <2>1, <3>1 DEF AcctInv, AcctTypes
    <3>4. QED
      BY <1>1, <1>2, <3>1, <3>2, <3>3, RemoveStep
  <2>4. QED
    BY <2>2, <2>3
<1>5. QED
  BY <1>3, <1>4

\* A restart ends every request and brings the break-glass admin back.
LEMMA RestartStep == ASSUME AccountAssumption, AcctInv, AcctRestart PROVE AcctInv'
<1>1. req' = [p \in AcctProc |-> NoReq] /\ UNCHANGED <<session, excused>> /\ SeedEmergencyAdmin
  BY DEF AcctRestart
<1>2. req' \in [AcctProc -> AcctReq]
      /\ \A q \in AcctProc : ReqOk(req'[q]) /\ req'[q].at \notin {"check", "write"}
  BY <1>1, IdleOk
<1>3. /\ user' \in [Account -> UserRow]
      /\ \A a \in Account : user[a].row = "live" => user'[a].row = "live"
      /\ \A a \in EnabledAdmins : user'[a].role = "admin" /\ user'[a].enabled
  <2>1. CASE Emergency \in Account /\ user[Emergency].row # "gone"
    <3>1. PICK u \in UserRow : u = user[Emergency]
      BY <2>1 DEF AcctInv, AcctTypes
    <3> DEFINE new == [u EXCEPT !.row = "live", !.role = "admin", !.enabled = TRUE]
    <3>2. user' = [user EXCEPT ![Emergency] = new]
      BY <1>1, <2>1, <3>1 DEF SeedEmergencyAdmin
    <3>3. new \in UserRow /\ new.row = "live" /\ new.role = "admin" /\ new.enabled
      BY DEF UserRow, Role
    <3> HIDE DEF new
    <3>4. QED
      BY <2>1, <3>2, <3>3 DEF AcctInv, AcctTypes, EnabledAdmins
  <2>2. CASE ~(Emergency \in Account /\ user[Emergency].row # "gone")
    BY <1>1, <2>2 DEF SeedEmergencyAdmin, AcctInv, AcctTypes, EnabledAdmins
  <2>3. QED
    BY <2>1, <2>2
<1>4. CASE excused
  BY <1>1, <1>2, <1>3, <1>4, AcctGrow
<1>5. CASE ~excused
  BY <1>1, <1>2, <1>3, <1>5, AcctGrow
<1>6. QED
  BY <1>4, <1>5

\* No request, login, setting or restart breaks the invariant of the accounts.
LEMMA AcctKept == ASSUME AccountAssumption, AcctInv, [AcctNext]_acctVars PROVE AcctInv'
<1>1. CASE UNCHANGED acctVars
  BY <1>1 DEF acctVars, AcctInv, AcctTypes, ReqOk, NoOrphanSession, AdminKept, EnabledAdmins, Live
<1>2. CASE AcctNext
  <2>1. ASSUME NEW p \in AcctProc, NEW a \in Account,
               Login(p, a) \/ apiLogin2FA(p, a) \/ \E gs \in SUBSET Group : ExternalLogin(p, a, gs)
        PROVE  AcctInv'
    BY <2>1, LoginStep
  <2>2. ASSUME NEW p \in AcctProc,
               ResolveRole(p) \/ UpsertExternalUser(p) \/ UpsertOfDeleted(p) \/ CreateSession(p)
        PROVE  AcctInv'
    BY <2>2, ResolveStep, UpsertStep, SessionStep
  <2>3. ASSUME NEW p \in AcctProc,
               \/ Check(p) \/ apiUsersCreate(p) \/ apiUsersDelete(p) \/ apiUsersSetEnabled(p)
               \/ apiUsersSetPortalAccess(p) \/ EnableTOTP(p) \/ DisableTOTP(p)
        PROVE  AcctInv'
    <3>1. apiUsersSetEnabled(p) => Writes(p, "enable") \/ Writes(p, "disable")
      BY DEF apiUsersSetEnabled
    <3>2. QED
      BY <2>3, <3>1, CheckStep, WriteStep, TakeAwayStep
  <2>4. ASSUME NEW p \in AcctProc,
               \/ apiInternalAuthUpdate(p) \/ apiLDAPSettingsUpdate(p) \/ apiOIDCSettingsUpdate(p)
               \/ apiAuthGroupRules(p)
        PROVE  AcctInv'
    BY <2>4, SettingStep
  <2>5. ASSUME NEW p \in AcctProc, NEW t \in Token, Requests(p, t) PROVE AcctInv'
    BY <2>5, RequestsStep
  <2>6. CASE StartOIDC \/ TokensExpire \/ \E t \in Token : SessionEnds(t)
    BY <2>6, SessionStep
  <2>7. CASE AcctRestart
    BY <2>7, RestartStep
  <2>8. QED
    BY <1>2, <2>1, <2>2, <2>3, <2>4, <2>5, <2>6, <2>7 DEF AcctNext
<1>3. QED
  BY <1>1, <1>2

\* So the invariant always holds.
LEMMA AcctSafe == AcctSpec => []AcctInv
<1>1. AcctInit => AcctInv
  BY AccountAssumption, AcctStart
<1>2. AcctInv /\ [AcctNext]_acctVars => AcctInv'
  BY AccountAssumption, AcctKept
<1>3. QED
  BY <1>1, <1>2, PTL DEF AcctSpec

\* For any number of accounts and requests, nobody can be locked out from the
\* Users page: an enabled admin remains unless two removals overlapped or a
\* directory took a role away.  The argument is the author's: whoever asks is an
\* enabled admin, cannot name himself, and any other removal would overlap.
THEOREM AdminsRemain == AcctSpec => []AdminKept
<1>1. AcctInv => AdminKept
  BY DEF AcctInv
<1>2. QED
  BY <1>1, AcctSafe, PTL

\* A deleted account has no session, whatever logins were under way.
THEOREM SessionsOwned == AcctSpec => []NoOrphanSession
<1>1. AcctInv => NoOrphanSession
  BY DEF AcctInv
<1>2. QED
  BY <1>1, AcctSafe, PTL

-----------------------------------------------------------------------------
(* The listener's certificate *)

TlsState == [mode : Mode, ss : Nat, acme : Nat, manual : Nat]
Leaf == [of : Nat, exp : Nat]
TlsReq == [pc : {"idle", "set", "issue", "load", "apply"}, st : TlsState, new : Leaf,
           save : BOOLEAN, alone : BOOLEAN]

TlsTypes ==
    /\ tlsRow \in TlsState /\ mem \in TlsState
    /\ leafRow \in Leaf /\ leaf \in Leaf
    /\ phase \in {"down", "ca", "up"}
    /\ treq \in [Actor -> TlsReq]
    /\ saved \in [ss : Nat, acme : Nat, manual : Nat]
    /\ mingled \in BOOLEAN /\ crossed \in BOOLEAN
    /\ saves \in Nat /\ time \in Nat /\ tlsFault \in Nat

GroupsSaved == tlsRow.ss = saved.ss /\ tlsRow.acme = saved.acme /\ tlsRow.manual = saved.manual
\* A save that is about to be written changes the group of its mode only.
KeepsOthers(st) ==
    /\ st.mode # "self_signed" => st.ss = tlsRow.ss
    /\ st.mode # "acme" => st.acme = tlsRow.acme
    /\ st.mode # "manual" => st.manual = tlsRow.manual

\* What a change that has been alone so far has made of the settings and the leaf.
SaveKnows(r) ==
    /\ r.pc \in {"issue", "load", "apply"} => tlsRow = r.st
    /\ r.pc = "load" => leafRow = r.new /\ r.new.of = r.st.ss
    /\ r.pc = "apply" => leafRow = leaf /\ leaf.of = r.st.ss
ReissueKnows(r) ==
    /\ mem = tlsRow /\ r.st = mem
    /\ r.pc = "issue" => leaf = leafRow /\ leaf.of = tlsRow.ss
    /\ r.pc = "load" => leafRow = r.new /\ r.new.of = tlsRow.ss

OwnOk(r) ==
    /\ r.pc \in {"set", "apply"} => r.save
    /\ r.pc = "idle" => ~r.save
    /\ r.pc # "idle" => phase = "up"
    /\ r.alone /\ r.save => SaveKnows(r)
    /\ ~mingled /\ r.pc # "idle" => r.alone
    /\ ~mingled /\ r.pc # "idle" /\ ~r.save => ReissueKnows(r)
    /\ ~crossed /\ r.pc = "set" => KeepsOthers(r.st)

AloneTruly ==
    \A p, q \in Actor : p # q /\ treq[p].pc # "idle" /\ treq[p].alone => treq[q].pc = "idle"
OneSave ==
    ~crossed => \A p, q \in Actor : p # q => ~(treq[p].save /\ treq[q].save)
LoadsSettled == ~mingled /\ phase # "up" => leafRow.of = tlsRow.ss

TlsInv ==
    /\ TlsTypes
    /\ \A p \in Actor : OwnOk(treq[p])
    /\ AloneTruly
    /\ OneSave
    /\ LoadsSettled
    /\ TlsSettled

\* An actor that does nothing.
LEMMA IdleTls ==
  /\ TlsIdle \in TlsReq /\ TlsIdle.pc = "idle" /\ ~TlsIdle.save /\ OwnOk(TlsIdle)
  /\ NoLeaf \in Leaf /\ defaultTLSState \in TlsState
  BY DEF TlsIdle, TlsReq, OwnOk, NoLeaf, Leaf, defaultTLSState, TlsState, Mode

\* The database before the first start.
LEMMA TlsStart == ASSUME TlsInit PROVE TlsInv
<1>1. \A p \in Actor : treq[p] = TlsIdle
  BY DEF TlsInit
<1>2. TlsTypes
  BY IdleTls DEF TlsTypes, TlsInit
<1>3. AloneTruly /\ OneSave /\ \A p \in Actor : OwnOk(treq[p])
  BY <1>1, IdleTls DEF AloneTruly, OneSave
<1>4. LoadsSettled /\ TlsSettled
  BY DEF TlsInit, LoadsSettled, TlsSettled, NoLeaf, defaultTLSState
<1>5. QED
  BY <1>2, <1>3, <1>4 DEF TlsInv

\* A step in the middle of a change: what it writes can matter to no other
\* change that still counts as alone.
LEMMA TlsLocal ==
  ASSUME TlsInv, TlsTypes', NEW p \in Actor, NEW r \in TlsReq, treq' = [treq EXCEPT ![p] = r],
         treq[p].pc # "idle", r.pc # "idle", r.save = treq[p].save, r.alone = treq[p].alone,
         UNCHANGED <<phase, mingled, crossed>>,
         UNCHANGED tlsRow \/ treq[p].save,
         OwnOk(r)', (~crossed => GroupsSaved)'
  PROVE  TlsInv'
<1>1. treq \in [Actor -> TlsReq] /\ OwnOk(treq[p]) /\ phase = "up"
  BY DEF TlsInv, TlsTypes, OwnOk
<1>2. \A q \in Actor : q # p => treq'[q] = treq[q]
  BY <1>1
<1>3. treq'[p] = r
  BY <1>1
<1>4. ASSUME NEW q \in Actor PROVE OwnOk(treq[q])'
  <2>1. CASE q = p
    BY <1>3, <2>1
  <2>2. CASE q # p
    <3>1. OwnOk(treq[q]) /\ treq'[q] = treq[q]
      BY <1>2, <2>2 DEF TlsInv
    <3>2. treq[q].pc = "idle" \/ ~treq[q].alone
      BY <2>2 DEF TlsInv, AloneTruly
    <3>3. ~crossed /\ treq[q].pc = "set" => UNCHANGED tlsRow
      BY <2>2, <3>1 DEF TlsInv, OneSave, OwnOk
    <3>4. QED
      BY <3>1, <3>2, <3>3 DEF OwnOk, KeepsOthers
  <2>3. QED
    BY <2>1, <2>2
<1>5. AloneTruly' /\ OneSave'
  BY <1>2, <1>3 DEF TlsInv, AloneTruly, OneSave
<1>6. LoadsSettled'
  BY <1>1 DEF LoadsSettled
<1>7. TlsSettled'
  BY <1>3 DEF TlsSettled, GroupsSaved
<1>8. QED
  BY <1>4, <1>5, <1>6, <1>7 DEF TlsInv

\* The beginning of a change: the settings of a save, or those in memory.
LEMMA TlsBegin ==
  ASSUME TlsInv, NEW p \in Actor, NEW r \in TlsReq, BeginChange(p, r),
         UNCHANGED <<tlsRow, leafRow, phase, mem, leaf, saved, time, tlsFault>>, saves' \in Nat,
         \/ r.save /\ r.pc = "set" /\ KeepsOthers(r.st)
         \/ ~r.save /\ r.pc = "issue" /\ r.st = mem
  PROVE  TlsInv'
<1> DEFINE others == {q \in Actor \ {p} : treq[q].pc # "idle"}
<1>1. PICK b \in BOOLEAN : b = (others = {})
  <2>1. (others = {}) \in BOOLEAN
    OBVIOUS
  <2>2. QED
    BY <2>1, Zenon
<1> DEFINE n == [r EXCEPT !.alone = b]
<1>2. /\ phase = "up" /\ treq[p].pc = "idle"
      /\ mingled' = (mingled \/ others # {})
      /\ crossed' = (crossed \/ (r.save /\ \E q \in others : treq[q].save))
  BY DEF BeginChange
<1>3. n \in TlsReq /\ n.pc = r.pc /\ n.st = r.st /\ n.save = r.save /\ n.alone = b
  BY DEF TlsReq
<1>4. treq' = [q \in Actor |-> IF q = p THEN n ELSE [treq[q] EXCEPT !.alone = FALSE]]
  BY <1>1, Zenon DEF BeginChange
<1> HIDE DEF n
<1>5. treq'[p] = n
  BY <1>4
<1>6. ASSUME NEW q \in Actor, q # p
      PROVE  /\ treq[q] \in TlsReq /\ OwnOk(treq[q])
             /\ treq'[q] \in TlsReq /\ treq'[q].pc = treq[q].pc /\ treq'[q].st = treq[q].st
             /\ treq'[q].save = treq[q].save /\ ~treq'[q].alone
  BY <1>4, <1>6 DEF TlsInv, TlsTypes, TlsReq
<1>7. \A q \in Actor : q # p /\ treq[q].pc # "idle" => q \in others
  OBVIOUS
<1>8. \A q \in others : q \in Actor /\ q # p /\ treq[q].pc # "idle"
  OBVIOUS
<1> HIDE DEF others
<1>9. TlsTypes'
  <2>1. treq' \in [Actor -> TlsReq]
    BY <1>3, <1>4, <1>6
  <2>2. mingled' \in BOOLEAN /\ crossed' \in BOOLEAN
    BY <1>2
  <2>3. QED
    BY <2>1, <2>2 DEF TlsInv, TlsTypes
<1>10. ASSUME NEW q \in Actor PROVE OwnOk(treq[q])'
  <2>1. CASE q # p
    <3>1. treq[q].pc # "idle" => mingled'
      BY <1>2, <1>7, <2>1
    <3>2. crossed => crossed'
      BY <1>2
    <3>3. QED
      BY <1>6, <2>1, <3>1, <3>2 DEF OwnOk, KeepsOthers
  <2>2. CASE q = p
    <3>1. ~mingled' => b /\ ~mingled
      BY <1>1, <1>2
    <3>2. ~mingled' => \A x \in Actor : treq[x].pc = "idle"
      BY <1>1, <1>2, <1>7, <3>1
    <3>3. ~mingled' => mem = tlsRow /\ leaf = leafRow /\ leaf.of = tlsRow.ss
      BY <1>2, <3>1, <3>2 DEF TlsInv, TlsSettled
    <3>4. OwnOk(n)'
      BY <1>2, <1>3, <3>1, <3>3 DEF OwnOk, SaveKnows, ReissueKnows, KeepsOthers
    <3>5. QED
      BY <1>5, <2>2, <3>4
  <2>3. QED
    BY <2>1, <2>2
<1>11. AloneTruly'
  <2>1. b => \A q \in Actor : q # p => treq[q].pc = "idle"
    BY <1>1, <1>7
  <2>2. QED
    BY <1>3, <1>5, <1>6, <2>1 DEF AloneTruly
<1>12. OneSave'
  <2> SUFFICES ASSUME ~crossed', NEW x \in Actor, NEW y \in Actor, x # y,
                      treq'[x].save, treq'[y].save
               PROVE  FALSE
    BY DEF OneSave
  <2>1. ~crossed /\ ~(r.save /\ \E q \in others : treq[q].save)
    BY <1>2
  <2>2. ASSUME NEW q \in Actor, q # p, treq'[q].save PROVE q \in others /\ treq[q].save
    BY <1>6, <1>7, <2>2 DEF OwnOk
  <2>3. CASE x = p
    BY <1>3, <1>5, <2>1, <2>2, <2>3
  <2>4. CASE y = p
    BY <1>3, <1>5, <2>1, <2>2, <2>4
  <2>5. CASE x # p /\ y # p
    BY <1>6, <2>1, <2>5 DEF TlsInv, OneSave
  <2>6. QED
    BY <2>3, <2>4, <2>5
<1>13. LoadsSettled' /\ TlsSettled'
  <2>1. treq'[p].pc # "idle"
    BY <1>3, <1>5
  <2>2. crossed => crossed'
    BY <1>2
  <2>3. QED
    BY <1>2, <2>1, <2>2 DEF TlsInv, TlsSettled, LoadsSettled
<1>14. QED
  BY <1>9, <1>10, <1>11, <1>12, <1>13 DEF TlsInv

\* The end of a change.  What it leaves counts as settled only if it was alone.
LEMMA TlsEnd ==
  ASSUME TlsInv, TlsTypes', NEW p \in Actor, treq[p].pc # "idle",
         treq' = [treq EXCEPT ![p] = TlsIdle],
         UNCHANGED <<tlsRow, leafRow, phase, saved, crossed>>,
         \/ mingled'
         \/ /\ mingled' = (mingled /\ ~(treq[p].alone /\ treq[p].save))
            /\ treq[p].alone /\ treq[p].save =>
                 mem' = tlsRow /\ leaf' = leafRow /\ leaf'.of = tlsRow.ss
            /\ ~mingled /\ ~treq[p].save =>
                 mem' = tlsRow /\ leaf' = leafRow /\ leaf'.of = tlsRow.ss
  PROVE  TlsInv'
<1>1. treq \in [Actor -> TlsReq] /\ OwnOk(treq[p]) /\ phase = "up"
  BY DEF TlsInv, TlsTypes, OwnOk
<1>2. treq'[p] = TlsIdle /\ \A q \in Actor : q # p => treq'[q] = treq[q]
  BY <1>1
<1>3. ASSUME NEW q \in Actor PROVE OwnOk(treq[q])'
  <2>1. CASE q = p
    BY <1>2, <2>1, IdleTls DEF OwnOk
  <2>2. CASE q # p
    <3>1. OwnOk(treq[q]) /\ treq'[q] = treq[q]
      BY <1>2, <2>2 DEF TlsInv
    <3>2. treq[q].pc # "idle" => ~treq[q].alone /\ ~treq[p].alone
      BY <2>2 DEF TlsInv, AloneTruly
    <3>3. treq[q].pc # "idle" => mingled'
      BY <3>1, <3>2 DEF OwnOk
    <3>4. QED
      BY <3>1, <3>2, <3>3 DEF OwnOk, KeepsOthers
  <2>3. QED
    BY <2>1, <2>2
<1>4. AloneTruly' /\ OneSave'
  BY <1>2, IdleTls DEF TlsInv, AloneTruly, OneSave
<1>5. LoadsSettled'
  BY <1>1 DEF LoadsSettled
<1>6. TlsSettled'
  <2>1. ~mingled' => mem' = tlsRow /\ leaf' = leafRow /\ leaf'.of = tlsRow.ss
    BY <1>1 DEF OwnOk
  <2>2. QED
    BY <2>1 DEF TlsInv, TlsSettled
<1>7. QED
  BY <1>3, <1>4, <1>5, <1>6 DEF TlsInv

\* A leaf that is issued is one of the settings it is issued for.
LEMMA Issued ==
  ASSUME TlsAssumption, TlsTypes, NEW st \in TlsState
  PROVE  IssueLeaf(st) \in Leaf /\ IssueLeaf(st).of = st.ss /\ IssueLeaf(st).exp = time + Validity
  BY DEF TlsAssumption, TlsTypes, IssueLeaf, Leaf, TlsState

\* The process: loading, crashing, and the passing of time.
LEMMA ProcessStep ==
  ASSUME TlsAssumption, TlsInv,
         \/ LoadCA \/ LoadLeaf \/ Crash \/ Advance \/ ManualExpires \/ RenewLoopSkips
         \/ UNCHANGED tlsVars
  PROVE  TlsInv'
<1>1. CASE LoadLeaf
  <2>1. \A p \in Actor : treq[p].pc = "idle"
    BY <1>1 DEF LoadLeaf, TlsInv, OwnOk
  <2>2. /\ phase' = "up" /\ mem' = tlsRow /\ leaf' = leafRow'
        /\ leafRow' = leafRow \/ leafRow' = IssueLeaf(tlsRow)
        /\ UNCHANGED <<tlsRow, treq, time, saves, tlsFault, saved, mingled, crossed>>
    BY <1>1 DEF LoadLeaf, Wire, histVars
  <2>3. leafRow' \in Leaf /\ (~mingled => leafRow'.of = tlsRow.ss)
    BY <1>1, <2>2, Issued DEF LoadLeaf, TlsInv, TlsTypes, LoadsSettled
  <2>4. TlsTypes'
    BY <2>2, <2>3 DEF TlsInv, TlsTypes
  <2>5. \A p \in Actor : OwnOk(treq[p])'
    BY <2>1, <2>2 DEF TlsInv, OwnOk
  <2>6. AloneTruly' /\ OneSave' /\ LoadsSettled' /\ TlsSettled'
    BY <2>2, <2>3 DEF TlsInv, AloneTruly, OneSave, LoadsSettled, TlsSettled
  <2>7. QED
    BY <2>4, <2>5, <2>6 DEF TlsInv
<1>2. CASE Crash
  <2>1. /\ phase' = "down" /\ treq' = [p \in Actor |-> TlsIdle] /\ mingled'
        /\ UNCHANGED <<tlsRow, leafRow, mem, leaf, time, saves, saved, crossed>>
        /\ tlsFault' = tlsFault + 1
    BY <1>2 DEF Crash, memVars
  <2>2. \A p \in Actor : treq'[p] = TlsIdle
    BY <2>1
  <2>3. TlsTypes'
    BY <1>2, <2>1, IdleTls DEF TlsInv, TlsTypes, Crash
  <2>4. \A p \in Actor : OwnOk(treq[p])'
    BY <2>2, IdleTls DEF OwnOk
  <2>5. AloneTruly' /\ OneSave' /\ LoadsSettled' /\ TlsSettled'
    BY <2>1, <2>2, IdleTls DEF TlsInv, AloneTruly, OneSave, LoadsSettled, TlsSettled
  <2>6. QED
    BY <2>3, <2>4, <2>5 DEF TlsInv
<1>3. CASE LoadCA \/ Advance \/ ManualExpires \/ RenewLoopSkips \/ UNCHANGED tlsVars
  <2>1. /\ UNCHANGED <<tlsRow, leafRow, mem, leaf, treq, saves, tlsFault, saved, mingled, crossed>>
        /\ UNCHANGED phase \/ (phase = "down" /\ phase' = "ca")
        /\ time' = time \/ time' = time + 1
    BY <1>3 DEF LoadCA, Advance, ManualExpires, RenewLoopSkips, memVars, histVars, tlsVars
  <2>2. TlsTypes'
    BY <2>1 DEF TlsInv, TlsTypes
  <2>3. \A p \in Actor : OwnOk(treq[p])'
    BY <2>1 DEF TlsInv, OwnOk, SaveKnows, ReissueKnows, KeepsOthers
  <2>4. AloneTruly' /\ OneSave' /\ LoadsSettled' /\ TlsSettled'
    BY <2>1 DEF TlsInv, AloneTruly, OneSave, LoadsSettled, TlsSettled
  <2>5. QED
    BY <2>2, <2>3, <2>4 DEF TlsInv
<1>4. QED
  BY <1>1, <1>2, <1>3

\* The requests and the loop that begin.
LEMMA BeginStep ==
  ASSUME TlsInv, NEW p \in Actor,
         \/ \E mode \in Mode, upload \in BOOLEAN : apiTLSUpdate(p, mode, upload)
         \/ ReissueSelfSigned(p)
         \/ p = Loop /\ RenewLoopReissues
  PROVE  TlsInv'
<1>1. ASSUME NEW mode \in Mode, NEW upload \in BOOLEAN, apiTLSUpdate(p, mode, upload)
      PROVE  TlsInv'
  <2>1. PICK n \in Nat : /\ n = IF mode = "manual" /\ ~upload THEN tlsRow.manual ELSE saves + 1
    BY DEF TlsInv, TlsTypes, TlsState
  <2> DEFINE st == NewState(tlsRow, mode, n)
             rec == [TlsIdle EXCEPT !.pc = "set", !.save = TRUE, !.st = st]
  <2>2. BeginChange(p, rec) /\ saves' = saves + 1
        /\ UNCHANGED <<tlsRow, leafRow, phase, mem, leaf, saved, time, tlsFault>>
    BY <1>1, <2>1 DEF apiTLSUpdate, memVars
  <2>3. st \in TlsState /\ KeepsOthers(st)
    BY <2>1 DEF NewState, TlsState, KeepsOthers, TlsInv, TlsTypes
  <2> HIDE DEF st
  <2>4. PICK r \in TlsReq : r = rec /\ r.pc = "set" /\ r.save /\ r.st = st
    <3>1. rec \in TlsReq /\ rec.pc = "set" /\ rec.save /\ rec.st = st
      BY <2>3, IdleTls DEF TlsReq
    <3>2. QED
      BY <3>1
  <2>5. saves' \in Nat
    BY <2>2 DEF TlsInv, TlsTypes
  <2>6. KeepsOthers(r.st)
    BY <2>3, <2>4
  <2> HIDE DEF rec
  <2>7. BeginChange(p, r)
    BY <2>2, <2>4 DEF BeginChange
  <2>8. \/ r.save /\ r.pc = "set" /\ KeepsOthers(r.st)
        \/ ~r.save /\ r.pc = "issue" /\ r.st = mem
    BY <2>4, <2>6
  <2>9. UNCHANGED <<tlsRow, leafRow, phase, mem, leaf, saved, time, tlsFault>>
    BY <2>2
  <2>10. QED
    BY <2>4, <2>5, <2>7, <2>8, <2>9, TlsBegin
<1>2. CASE ReissueSelfSigned(p) \/ (p = Loop /\ RenewLoopReissues)
  <2> DEFINE r == [TlsIdle EXCEPT !.pc = "issue", !.st = mem]
  <2>1. BeginChange(p, r)
        /\ UNCHANGED <<tlsRow, leafRow, phase, mem, leaf, saved, time, tlsFault, saves>>
    BY <1>2 DEF ReissueSelfSigned, RenewLoopReissues, memVars
  <2>2. r \in TlsReq /\ r.pc = "issue" /\ ~r.save /\ r.st = mem
    BY IdleTls DEF TlsReq, TlsInv, TlsTypes
  <2>3. saves' \in Nat
    BY <2>1 DEF TlsInv, TlsTypes
  <2> HIDE DEF r
  <2>4. QED
    BY <2>1, <2>2, <2>3, TlsBegin
<1>3. QED
  BY <1>1, <1>2

\* The settings are written: the last save of that group.
LEMMA SetStateStep == ASSUME TlsInv, NEW p \in Actor, SetTLSState(p) PROVE TlsInv'
<1>1. PICK st \in TlsState : st = treq[p].st
  BY DEF TlsInv, TlsTypes, TlsReq
<1> DEFINE rec == [treq[p] EXCEPT !.pc = "issue"]
<1>2. /\ tlsRow' = st /\ treq' = [treq EXCEPT ![p] = rec] /\ treq[p].pc = "set"
      /\ UNCHANGED <<leafRow, phase, mem, leaf, time, saves, tlsFault, mingled, crossed>>
  BY <1>1 DEF SetTLSState, memVars
<1>3. treq[p] \in TlsReq /\ OwnOk(treq[p])
  BY DEF TlsInv, TlsTypes
<1>4. PICK r \in TlsReq : /\ r = rec /\ r.pc = "issue" /\ r.st = st
                          /\ r.save = treq[p].save /\ r.alone = treq[p].alone
  <2>1. /\ rec \in TlsReq /\ rec.pc = "issue" /\ rec.st = st
        /\ rec.save = treq[p].save /\ rec.alone = treq[p].alone
    BY <1>1, <1>3 DEF TlsReq
  <2>2. QED
    BY <2>1
<1> HIDE DEF rec
<1>5. saved' \in [ss : Nat, acme : Nat, manual : Nat] /\ (~crossed => GroupsSaved')
  <2>1. st.mode \in Mode /\ st.ss \in Nat /\ st.acme \in Nat /\ st.manual \in Nat
    BY DEF TlsState
  <2>2. ~crossed => KeepsOthers(st) /\ GroupsSaved
    BY <1>1, <1>2, <1>3 DEF OwnOk, TlsInv, TlsSettled, GroupsSaved
  <2>3. CASE st.mode = "self_signed"
    <3>1. saved' = [saved EXCEPT !.ss = st.ss]
      BY <1>1, <2>3 DEF SetTLSState
    <3>2. QED
      BY <1>2, <2>1, <2>2, <2>3, <3>1 DEF TlsInv, TlsTypes, KeepsOthers, GroupsSaved
  <2>4. CASE st.mode = "acme"
    <3>1. saved' = [saved EXCEPT !.acme = st.acme]
      BY <1>1, <2>4 DEF SetTLSState
    <3>2. QED
      BY <1>2, <2>1, <2>2, <2>4, <3>1 DEF TlsInv, TlsTypes, KeepsOthers, GroupsSaved
  <2>5. CASE st.mode = "manual"
    <3>1. saved' = [saved EXCEPT !.manual = st.manual]
      BY <1>1, <2>5 DEF SetTLSState
    <3>2. QED
      BY <1>2, <2>1, <2>2, <2>5, <3>1 DEF TlsInv, TlsTypes, KeepsOthers, GroupsSaved
  <2>6. CASE st.mode \notin {"self_signed", "acme", "manual"}
    <3>1. saved' = saved
      BY <1>1, <2>6 DEF SetTLSState
    <3>2. QED
      BY <1>2, <2>1, <2>2, <2>6, <3>1 DEF TlsInv, TlsTypes, KeepsOthers, GroupsSaved
  <2>7. QED
    BY <2>3, <2>4, <2>5, <2>6
<1>6. TlsTypes'
  BY <1>2, <1>4, <1>5 DEF TlsInv, TlsTypes
<1>7. treq[p].save
  BY <1>2, <1>3 DEF OwnOk
<1>8. OwnOk(r)'
  BY <1>2, <1>3, <1>4, <1>7 DEF OwnOk, SaveKnows
<1>9. QED
  BY <1>2, <1>4, <1>5, <1>6, <1>7, <1>8, TlsLocal

\* reissueSelfSigned saves the leaf.
LEMMA SaveLeafStep == ASSUME TlsAssumption, TlsInv, NEW p \in Actor, SaveLeaf(p) PROVE TlsInv'
<1>1. PICK st \in TlsState : st = treq[p].st
  BY DEF TlsInv, TlsTypes, TlsReq
<1>2. PICK new \in Leaf : new = IssueLeaf(st) /\ new.of = st.ss
  BY Issued DEF TlsInv
<1> DEFINE rec == [treq[p] EXCEPT !.pc = "load", !.new = new]
<1>3. treq[p] \in TlsReq /\ OwnOk(treq[p]) /\ treq \in [Actor -> TlsReq]
  BY DEF TlsInv, TlsTypes
<1>4. /\ leafRow' = new /\ treq[p].pc = "issue"
      /\ UNCHANGED <<tlsRow, phase, mem, leaf, time, saves, tlsFault, saved, mingled, crossed>>
  BY <1>1, <1>2 DEF SaveLeaf, memVars, histVars
<1>5. treq' = [treq EXCEPT ![p] = rec]
  BY <1>1, <1>2, <1>3 DEF SaveLeaf, TlsReq
<1>6. PICK r \in TlsReq : /\ r = rec /\ r.pc = "load" /\ r.new = new /\ r.st = st
                          /\ r.save = treq[p].save /\ r.alone = treq[p].alone
  <2>1. /\ rec \in TlsReq /\ rec.pc = "load" /\ rec.new = new /\ rec.st = st
        /\ rec.save = treq[p].save /\ rec.alone = treq[p].alone
    BY <1>1, <1>3 DEF TlsReq
  <2>2. QED
    BY <2>1
<1> HIDE DEF rec
<1>7. TlsTypes'
  BY <1>4, <1>5, <1>6 DEF TlsInv, TlsTypes
<1>8. OwnOk(r)'
  BY <1>1, <1>2, <1>3, <1>4, <1>6 DEF OwnOk, SaveKnows, ReissueKnows
<1>9. (~crossed => GroupsSaved)'
  BY <1>4 DEF TlsInv, TlsSettled, GroupsSaved
<1>10. QED
  BY <1>4, <1>5, <1>6, <1>7, <1>8, <1>9, TlsLocal

\* It is served from then on; a reissue ends with that.
LEMMA SetLeafStep == ASSUME TlsInv, NEW p \in Actor, SetLeaf(p) PROVE TlsInv'
<1>1. treq[p] \in TlsReq /\ OwnOk(treq[p]) /\ treq \in [Actor -> TlsReq]
  BY DEF TlsInv, TlsTypes
<1>2. /\ leaf' = treq[p].new /\ treq[p].pc = "load"
      /\ UNCHANGED <<tlsRow, leafRow, phase, mem, time, saves, tlsFault, saved, crossed>>
  BY DEF SetLeaf, memVars, histVars, FinishChange
<1>3. leaf' \in Leaf
  BY <1>1, <1>2 DEF TlsReq
<1>4. CASE treq[p].save
  <2> DEFINE rec == [treq[p] EXCEPT !.pc = "apply", !.new = NoLeaf]
  <2>1. treq' = [treq EXCEPT ![p] = rec] /\ UNCHANGED mingled
    BY <1>1, <1>4 DEF SetLeaf, TlsReq, histVars
  <2>2. PICK r \in TlsReq : /\ r = rec /\ r.pc = "apply" /\ r.st = treq[p].st
                            /\ r.save = treq[p].save /\ r.alone = treq[p].alone
    <3>1. /\ rec \in TlsReq /\ rec.pc = "apply" /\ rec.st = treq[p].st
          /\ rec.save = treq[p].save /\ rec.alone = treq[p].alone
      BY <1>1, IdleTls DEF TlsReq
    <3>2. QED
      BY <3>1
  <2> HIDE DEF rec
  <2>3. TlsTypes'
    BY <1>2, <1>3, <2>1, <2>2 DEF TlsInv, TlsTypes
  <2>4. OwnOk(r)'
    BY <1>1, <1>2, <1>4, <2>1, <2>2 DEF OwnOk, SaveKnows
  <2>5. (~crossed => GroupsSaved)'
    BY <1>2 DEF TlsInv, TlsSettled, GroupsSaved
  <2>6. QED
    BY <1>2, <2>1, <2>2, <2>3, <2>4, <2>5, TlsLocal
<1>5. CASE ~treq[p].save
  <2>1. /\ treq' = [treq EXCEPT ![p] = TlsIdle]
        /\ mingled' = (mingled /\ ~(treq[p].alone /\ treq[p].save))
    BY <1>5 DEF SetLeaf, FinishChange
  <2>2. TlsTypes'
    BY <1>2, <1>3, <2>1, IdleTls DEF TlsInv, TlsTypes
  <2>3. ~mingled => mem = tlsRow /\ leaf' = leafRow /\ leaf'.of = tlsRow.ss
    BY <1>1, <1>2, <1>5 DEF OwnOk, ReissueKnows
  <2>4. QED
    BY <1>2, <1>5, <2>1, <2>2, <2>3, TlsEnd
<1>6. QED
  BY <1>4, <1>5

\* A save ends by wiring the mode; any change may fail on the way.
LEMMA EndStep ==
  ASSUME TlsInv, NEW p \in Actor, ApplyMode(p) \/ ChangeFails(p) PROVE TlsInv'
<1>1. treq[p] \in TlsReq /\ OwnOk(treq[p]) /\ treq \in [Actor -> TlsReq]
  BY DEF TlsInv, TlsTypes
<1>2. CASE ApplyMode(p)
  <2>1. /\ mem' = treq[p].st /\ treq[p].pc = "apply" /\ treq' = [treq EXCEPT ![p] = TlsIdle]
        /\ mingled' = (mingled /\ ~(treq[p].alone /\ treq[p].save))
        /\ UNCHANGED <<tlsRow, leafRow, phase, leaf, time, saves, tlsFault, saved, crossed>>
    BY <1>2 DEF ApplyMode, Wire, FinishChange
  <2>2. mem' \in TlsState /\ mingled' \in BOOLEAN
    BY <1>1, <2>1 DEF TlsReq
  <2>3. TlsTypes'
    BY <2>1, <2>2, IdleTls DEF TlsInv, TlsTypes
  <2>4. treq[p].save
    BY <1>1, <2>1 DEF OwnOk
  <2>5. treq[p].alone => mem' = tlsRow /\ leaf' = leafRow /\ leaf'.of = tlsRow.ss
    BY <1>1, <2>1, <2>4 DEF OwnOk, SaveKnows
  <2>6. QED
    BY <2>1, <2>3, <2>4, <2>5, TlsEnd
<1>3. CASE ChangeFails(p)
  <2>1. /\ treq[p].pc # "idle" /\ treq' = [treq EXCEPT ![p] = TlsIdle] /\ mingled' = TRUE
        /\ tlsFault' = tlsFault + 1
        /\ UNCHANGED <<tlsRow, leafRow, phase, mem, leaf, time, saves, saved, crossed>>
    BY <1>3 DEF ChangeFails, memVars
  <2>2. TlsTypes'
    BY <2>1, IdleTls DEF TlsInv, TlsTypes
  <2>3. QED
    BY <2>1, <2>2, TlsEnd
<1>4. QED
  BY <1>2, <1>3

\* No step breaks the invariant, so it always holds.
LEMMA TlsSafe == TlsSpec => []TlsInv
<1>1. TlsInit => TlsInv
  BY TlsStart
<1>2. TlsInv /\ [TlsNext]_tlsVars => TlsInv'
  <2> SUFFICES ASSUME TlsInv, [TlsNext]_tlsVars PROVE TlsInv'
    OBVIOUS
  <2> USE TlsAssumption
  <2>1. TlsProc \subseteq Actor /\ Loop \in Actor
    BY DEF Actor
  <2>2. CASE \/ LoadCA \/ LoadLeaf \/ Crash \/ Advance \/ ManualExpires \/ RenewLoopSkips
             \/ UNCHANGED tlsVars
    BY <2>2, ProcessStep
  <2>3. CASE RenewLoopReissues
    BY <2>1, <2>3, BeginStep
  <2>4. ASSUME NEW p \in TlsProc,
               \/ \E mode \in Mode, upload \in BOOLEAN : apiTLSUpdate(p, mode, upload)
               \/ SetTLSState(p) \/ ReissueSelfSigned(p) \/ ApplyMode(p)
        PROVE  TlsInv'
    BY <2>1, <2>4, BeginStep, SetStateStep, EndStep
  <2>5. ASSUME NEW p \in Actor, SaveLeaf(p) \/ SetLeaf(p) \/ ChangeFails(p) PROVE TlsInv'
    BY <2>5, SaveLeafStep, SetLeafStep, EndStep
  <2>6. QED
    BY <2>2, <2>3, <2>4, <2>5 DEF TlsNext
<1>3. QED
  BY <1>1, <1>2, PTL DEF TlsSpec

\* For any number of admins at once: after a save that no other change overlapped
\* and that did not fail, Manager serves what the database says, and unless saves
\* overlapped each group of settings is as it was last saved.
THEOREM TlsAgrees == TlsSpec => []TlsSettled
<1>1. TlsInv => TlsSettled
  BY DEF TlsInv
<1>2. QED
  BY <1>1, TlsSafe, PTL

\* The leaf that is served outlives the renewal window, less one interval for each
\* renewal that has failed; once the loop has run, by one interval more; and a
\* leaf about to be served is as new as can be.
LeafFresh ==
    /\ time >= 1 /\ tlsFault <= MaxTlsFault
    /\ phase = "up" => leaf.exp + tlsFault >= time + RenewBefore
    /\ phase = "up" /\ ticked /\ treq[Loop].pc = "idle" =>
         leaf.exp + tlsFault >= time + RenewBefore + 1
    /\ \A p \in Actor : treq[p].pc = "load" => treq[p].new.exp = time + Validity

\* Before the first start nothing is served.
LEMMA FreshStart == ASSUME MaxTlsFault \in Nat, TlsInit PROVE LeafFresh
  BY DEF TlsInit, LeafFresh, TlsIdle, Actor

\* Starting, crashing and the clock: time passes only after the loop has run.
LEMMA FreshProcess ==
  ASSUME TlsAssumption, MaxTlsFault \in Nat, TlsInv, LeafFresh,
         \/ LoadCA \/ LoadLeaf \/ Crash \/ Advance \/ ManualExpires \/ RenewLoopSkips
         \/ UNCHANGED tlsVars
  PROVE  LeafFresh'
<1>1. time \in Nat /\ tlsFault \in Nat /\ leaf.exp \in Nat /\ leafRow.exp \in Nat
      /\ Validity \in Nat /\ RenewBefore \in Nat /\ RenewBefore < Validity
  BY DEF TlsInv, TlsTypes, Leaf, TlsAssumption
<1>2. CASE LoadLeaf
  <2>1. IssueLeaf(tlsRow).exp = time + Validity
    BY Issued DEF TlsInv, TlsTypes
  <2>2. leaf'.exp >= time + RenewBefore
    BY <1>1, <1>2, <2>1 DEF LoadLeaf
  <2>3. /\ ~ticked' /\ UNCHANGED <<treq, time, tlsFault>>
        /\ \A p \in Actor : treq[p].pc = "idle"
    BY <1>2 DEF LoadLeaf, TlsInv, OwnOk
  <2>4. leaf'.exp \in Nat
    BY <1>1, <1>2, <2>1 DEF LoadLeaf
  <2>5. QED
    BY <1>1, <2>2, <2>3, <2>4 DEF LeafFresh
<1>3. CASE Crash
  <2>1. \A p \in Actor : treq'[p].pc = "idle"
    BY <1>3, IdleTls DEF Crash
  <2>2. QED
    BY <1>1, <1>3, <2>1 DEF Crash, LeafFresh
<1>4. CASE Advance
  <2>1. /\ time' = time + 1 /\ ~ticked' /\ UNCHANGED <<leaf, phase, treq, tlsFault>>
        /\ phase = "up" => ticked
        /\ \A p \in Actor : treq[p].pc = "idle"
    BY <1>4 DEF Advance, memVars
  <2>2. treq[Loop].pc = "idle"
    BY <2>1 DEF Actor
  <2>3. QED
    BY <1>1, <2>1, <2>2 DEF LeafFresh
<1>5. CASE RenewLoopSkips
  BY <1>1, <1>5 DEF RenewLoopSkips, NotDue, LeafFresh, memVars
<1>6. CASE LoadCA \/ ManualExpires \/ UNCHANGED tlsVars
  BY <1>1, <1>6 DEF LoadCA, ManualExpires, LeafFresh, memVars, tlsVars
<1>7. QED
  BY <1>2, <1>3, <1>4, <1>5, <1>6

\* A change that begins serves nothing yet, and only the loop's own run ticks.
LEMMA FreshBegin ==
  ASSUME TlsAssumption, TlsInv, LeafFresh, NEW p \in Actor, NEW r \in TlsReq, BeginChange(p, r),
         r.pc \in {"set", "issue"}, UNCHANGED <<leaf, phase, time, tlsFault>>,
         UNCHANGED ticked \/ p = Loop
  PROVE  LeafFresh'
<1>1. treq \in [Actor -> TlsReq] /\ Loop \in Actor
  BY DEF TlsInv, TlsTypes, Actor
<1>2. ASSUME NEW q \in Actor
      PROVE  \/ q = p /\ treq'[q].pc = r.pc
             \/ q # p /\ treq'[q].pc = treq[q].pc /\ treq'[q].new = treq[q].new
  BY <1>1 DEF BeginChange, TlsReq
<1>3. treq[p].pc = "idle"
  BY DEF BeginChange
<1>4. \A q \in Actor : treq'[q].pc = "load" => treq[q].pc = "load" /\ treq'[q].new = treq[q].new
  BY <1>2
<1>5. treq'[Loop].pc = "idle" => treq[Loop].pc = "idle" /\ UNCHANGED ticked
  BY <1>1, <1>2
<1>6. QED
  BY <1>4, <1>5 DEF LeafFresh

\* Writing the settings and wiring the mode serve no leaf; the loop does neither.
LEMMA FreshSave ==
  ASSUME TlsAssumption, TlsInv, LeafFresh, NEW p \in TlsProc, SetTLSState(p) \/ ApplyMode(p)
  PROVE  LeafFresh'
<1>1. treq \in [Actor -> TlsReq] /\ Loop \in Actor /\ p \in Actor /\ p # Loop /\ treq[p] \in TlsReq
  BY DEF TlsInv, TlsTypes, Actor, TlsAssumption
<1>2. UNCHANGED <<leaf, phase, time, ticked, tlsFault>>
  BY DEF SetTLSState, ApplyMode, memVars
<1>3. \A q \in Actor : q # p => treq'[q] = treq[q]
  BY <1>1 DEF SetTLSState, ApplyMode, FinishChange
<1>4. treq'[p].pc # "load"
  BY <1>1, IdleTls DEF SetTLSState, ApplyMode, FinishChange, TlsReq
<1>5. \A q \in Actor : treq'[q].pc = "load" => treq'[q] = treq[q]
  BY <1>3, <1>4
<1>6. treq'[Loop] = treq[Loop]
  BY <1>1, <1>3
<1>7. QED
  BY <1>2, <1>5, <1>6 DEF LeafFresh

\* A leaf is served in the interval it is issued in, and a failure costs one
\* interval of the window.
LEMMA FreshChange ==
  ASSUME TlsAssumption, MaxTlsFault \in Nat, TlsInv, LeafFresh, NEW p \in Actor,
         SaveLeaf(p) \/ SetLeaf(p) \/ ChangeFails(p)
  PROVE  LeafFresh'
<1>1. time \in Nat /\ tlsFault \in Nat /\ leaf.exp \in Nat
      /\ Validity \in Nat /\ RenewBefore \in Nat /\ RenewBefore < Validity
  BY DEF TlsInv, TlsTypes, Leaf, TlsAssumption
<1>2. treq \in [Actor -> TlsReq] /\ Loop \in Actor /\ treq[p] \in TlsReq
  BY DEF TlsInv, TlsTypes, Actor
<1>3. \A q \in Actor : q # p => treq'[q] = treq[q]
  BY <1>2 DEF SaveLeaf, SetLeaf, ChangeFails, FinishChange
<1>4. UNCHANGED <<phase, time, ticked>>
  BY DEF SaveLeaf, SetLeaf, ChangeFails
<1>5. CASE SaveLeaf(p)
  <2>1. PICK st \in TlsState : st = treq[p].st
    BY <1>2 DEF TlsReq
  <2>2. PICK new \in Leaf : new = IssueLeaf(st) /\ new.exp = time + Validity
    BY Issued DEF TlsInv
  <2>3. treq'[p].pc = "load" /\ treq'[p].new = new
    BY <1>2, <1>5, <2>1, <2>2 DEF SaveLeaf, TlsReq
  <2>4. UNCHANGED <<leaf, tlsFault>>
    BY <1>5 DEF SaveLeaf, memVars
  <2>5. \A q \in Actor : treq'[q].pc = "load" => treq'[q].new.exp = time + Validity
    BY <1>3, <2>2, <2>3 DEF LeafFresh
  <2>6. treq'[Loop].pc = "idle" => treq[Loop].pc = "idle"
    BY <1>2, <1>3, <2>3
  <2>7. QED
    BY <1>4, <2>4, <2>5, <2>6 DEF LeafFresh
<1>6. CASE SetLeaf(p)
  <2>1. leaf' = treq[p].new /\ treq[p].pc = "load" /\ UNCHANGED tlsFault
    BY <1>6 DEF SetLeaf
  <2>2. leaf'.exp = time + Validity
    BY <2>1 DEF LeafFresh
  <2>3. treq'[p].pc # "load"
    BY <1>2, <1>6, IdleTls DEF SetLeaf, FinishChange, TlsReq
  <2>4. \A q \in Actor : treq'[q].pc = "load" => treq'[q].new.exp = time + Validity
    BY <1>3, <2>3 DEF LeafFresh
  <2>5. leaf'.exp + tlsFault >= time + RenewBefore + 1
    BY <1>1, <2>2
  <2>6. leaf'.exp + tlsFault >= time + RenewBefore
    BY <1>1, <2>2
  <2>7. QED
    BY <1>4, <2>1, <2>4, <2>5, <2>6 DEF LeafFresh
<1>7. CASE ChangeFails(p)
  <2>1. /\ tlsFault < MaxTlsFault /\ tlsFault' = tlsFault + 1 /\ UNCHANGED leaf
        /\ treq'[p] = TlsIdle
    BY <1>2, <1>7 DEF ChangeFails, memVars
  <2>2. \A q \in Actor : treq'[q].pc = "load" => treq'[q].new.exp = time + Validity
    BY <1>3, <2>1, IdleTls DEF LeafFresh
  <2>3. tlsFault' <= MaxTlsFault
    BY <1>1, <2>1
  <2>4. phase = "up" => leaf.exp + tlsFault' >= time + RenewBefore + 1
    BY <1>1, <2>1 DEF LeafFresh
  <2>5. phase = "up" => leaf.exp + tlsFault' >= time + RenewBefore
    BY <1>1, <2>1 DEF LeafFresh
  <2>6. QED
    BY <1>4, <2>1, <2>2, <2>3, <2>4, <2>5 DEF LeafFresh
<1>8. QED
  BY <1>5, <1>6, <1>7

\* No step lets the leaf get older than that.
LEMMA FreshKept ==
  ASSUME MaxTlsFault \in Nat, TlsInv, LeafFresh, [TlsNext]_tlsVars PROVE LeafFresh'
<1> USE TlsAssumption
<1>1. TlsProc \subseteq Actor /\ Loop \in Actor /\ mem \in TlsState
  BY DEF Actor, TlsInv, TlsTypes
<1>2. CASE \/ LoadCA \/ LoadLeaf \/ Crash \/ Advance \/ ManualExpires \/ RenewLoopSkips
           \/ UNCHANGED tlsVars
  BY <1>2, FreshProcess
<1>3. ASSUME NEW p \in Actor, ReissueSelfSigned(p) \/ (p = Loop /\ RenewLoopReissues)
      PROVE  LeafFresh'
  <2> DEFINE r == [TlsIdle EXCEPT !.pc = "issue", !.st = mem]
  <2>1. /\ BeginChange(p, r) /\ UNCHANGED <<leaf, phase, time, tlsFault>>
        /\ UNCHANGED ticked \/ p = Loop
    BY <1>3 DEF ReissueSelfSigned, RenewLoopReissues, memVars
  <2>2. r \in TlsReq /\ r.pc \in {"set", "issue"}
    BY <1>1, IdleTls DEF TlsReq
  <2> HIDE DEF r
  <2>3. QED
    BY <2>1, <2>2, FreshBegin
<1>4. ASSUME NEW p \in TlsProc, NEW mode \in Mode, NEW upload \in BOOLEAN,
             apiTLSUpdate(p, mode, upload)
      PROVE  LeafFresh'
  <2> DEFINE n == IF mode = "manual" /\ ~upload THEN tlsRow.manual ELSE saves + 1
             st == NewState(tlsRow, mode, n)
             r == [TlsIdle EXCEPT !.pc = "set", !.save = TRUE, !.st = st]
  <2>1. BeginChange(p, r) /\ UNCHANGED <<leaf, phase, time, tlsFault, ticked>>
    BY <1>4 DEF apiTLSUpdate, memVars
  <2>2. n \in Nat
    BY DEF TlsInv, TlsTypes, TlsState
  <2> HIDE DEF n
  <2>3. st \in TlsState
    BY <2>2 DEF NewState, TlsState, TlsInv, TlsTypes
  <2> HIDE DEF st
  <2>4. r \in TlsReq /\ r.pc \in {"set", "issue"}
    BY <2>3, IdleTls DEF TlsReq
  <2> HIDE DEF r
  <2>5. QED
    BY <1>1, <2>1, <2>4, FreshBegin
<1>5. ASSUME NEW p \in TlsProc, SetTLSState(p) \/ ApplyMode(p) PROVE LeafFresh'
  BY <1>5, FreshSave
<1>6. ASSUME NEW p \in Actor, SaveLeaf(p) \/ SetLeaf(p) \/ ChangeFails(p) PROVE LeafFresh'
  BY <1>6, FreshChange
<1>7. QED
  BY <1>1, <1>2, <1>3, <1>4, <1>5, <1>6 DEF TlsNext

\* As long as the faults are no more than the renewal window has intervals, no
\* handshake is given an expired certificate of the panel's own or an expired
\* upload, in any mode and for any number of saves, reissues and restarts.
THEOREM NeverExpired ==
  ASSUME MaxTlsFault \in Nat, MaxTlsFault <= RenewBefore
  PROVE  TlsSpec => []ServedValid
<1>1. TlsInit => LeafFresh
  BY FreshStart
<1>2. TlsInv /\ LeafFresh /\ [TlsNext]_tlsVars => LeafFresh'
  BY FreshKept
<1>3. TlsInv /\ LeafFresh => ServedValid
  <2> SUFFICES ASSUME TlsInv, LeafFresh, phase = "up", NEW works \in BOOLEAN
               PROVE  GetCertificate(works) # "expired"
    BY DEF ServedValid
  <2>1. time \in Nat /\ tlsFault \in Nat /\ leaf.exp \in Nat /\ RenewBefore \in Nat
    BY TlsAssumption DEF TlsInv, TlsTypes, Leaf, TlsAssumption
  <2>2. time <= leaf.exp /\ leaf.exp > 0
    BY <2>1 DEF LeafFresh
  <2>3. leaf # NoLeaf
    BY <2>2 DEF NoLeaf
  <2>4. QED
    BY <2>2, <2>3 DEF GetCertificate
<1>4. QED
  BY <1>1, <1>2, <1>3, TlsSafe, PTL DEF TlsSpec

-----------------------------------------------------------------------------
(* KeyRotate *)

RotTypeOK ==
    /\ keyOf \in [Cell -> Key \cup {Unset}]
    /\ valOf \in [Cell -> Value \cup {Unset}]
    /\ panel \in Key \cup {Unset} /\ lock \in {"none", "panel", "tool"}
    /\ at \in {"idle", "read", "update", "end"}
    /\ oldKey \in Key /\ newKey \in Key /\ column \in 1..NColumn
    /\ plain \in [Cell -> Value \cup {Unset}] /\ written \in SUBSET Cell
    /\ exclusive \in BOOLEAN

OneHolder ==
    /\ panel # Unset => lock = "panel" /\ panel \in Opens
    /\ at # "idle" => lock = "tool"
Behind(c) == ColumnOf[c] < column \/ at = "end"
Faithful ==
    IF at = "idle" THEN written = {} ELSE
      /\ \A c \in written : plain[c] = valOf[c] /\ keyOf[c] # Unset
      /\ \A c \in Cell : Behind(c) /\ keyOf[c] # Unset => c \in written
      /\ at = "update" => \A c \in InColumn : plain[c] = valOf[c]
      /\ at = "end" => column = NColumn
SealedTogether == \A c \in Cell : keyOf[c] = Unset <=> valOf[c] = Unset
RotInv == RotTypeOK /\ (exclusive => SealedTogether /\ OneHolder /\ Faithful /\ Opens # {})

-----------------------------------------------------------------------------
\* The variables keep their types, whatever step the panel or the rotation takes.
LEMMA RotTypeStep == RotTypeOK /\ [RotNext]_rotVars => RotTypeOK'
<1> USE KeyRotateAssumption DEF RotTypeOK
<1> SUFFICES ASSUME RotTypeOK, [RotNext]_rotVars PROVE RotTypeOK'
  OBVIOUS
<1>1. ASSUME NEW k \in Key, PanelStart(k) PROVE RotTypeOK'
  BY <1>1 DEF PanelStart, dbVars, toolVars
<1>2. CASE PanelStop
  BY <1>2 DEF PanelStop, dbVars, toolVars
<1>3. CASE LockConnectionLost
  BY <1>3 DEF LockConnectionLost, dbVars, toolVars
<1>4. ASSUME NEW c \in Cell, NEW v \in Value \cup {Unset}, Seal(c, v) PROVE RotTypeOK'
  BY <1>4 DEF Seal, toolVars
<1>5. ASSUME NEW old \in Key, NEW new \in Key, NEW dry \in BOOLEAN, runRotateKey(old, new, dry)
      PROVE RotTypeOK'
  BY <1>5 DEF runRotateKey, dbVars
<1>6. CASE ReadColumn
  BY <1>6 DEF ReadColumn, dbVars, InColumn
<1>7. ASSUME NEW c \in Cell, UpdateRow(c) PROVE RotTypeOK'
  BY <1>7 DEF UpdateRow, dbVars
<1>8. CASE VerifyColumn
  BY <1>8 DEF VerifyColumn, dbVars
<1>9. CASE Commit
  BY <1>9 DEF Commit, ToolExits
<1>10. CASE Rollback
  BY <1>10 DEF Rollback, ToolExits, dbVars
<1>11. CASE UNCHANGED rotVars
  BY <1>11 DEF rotVars, dbVars, toolVars
<1> QED
  BY <1>1, <1>2, <1>3, <1>4, <1>5, <1>6, <1>7, <1>8, <1>9, <1>10, <1>11 DEF RotNext

\* With the tables as they were, whatever opened them still does.
LEMMA SameOpens == UNCHANGED dbVars => Opens' = Opens /\ SealedTogether' = SealedTogether
  BY DEF dbVars, Opens, SealedTogether

\* A saved secret is sealed with a key that opened all the others.
LEMMA SealKeepsKey ==
    ASSUME NEW c \in Cell, NEW v \in Value \cup {Unset}, Seal(c, v), RotTypeOK,
           SealedTogether, panel \in Opens
    PROVE  panel \in Opens' /\ SealedTogether' /\ \A d \in Cell \ {c} : valOf'[d] = valOf[d]
  BY KeyRotateAssumption DEF Seal, Opens, RotTypeOK, SealedTogether

\* At the commit every secret has been rewritten: the new key opens all of them,
\* and none has changed.
LEMMA CommitChangesKey ==
    ASSUME Commit, RotTypeOK, SealedTogether, Faithful
    PROVE  newKey \in Opens' /\ valOf' = valOf /\ SealedTogether'
<1>1. /\ keyOf' = [c \in Cell |-> IF c \in written THEN newKey ELSE keyOf[c]]
      /\ valOf' = [c \in Cell |-> IF c \in written THEN plain[c] ELSE valOf[c]]
      /\ at = "end"
  BY DEF Commit
<1>2. \A c \in Cell : keyOf[c] # Unset => c \in written
  BY <1>1 DEF Faithful, Behind
<1>3. \A c \in written : plain[c] = valOf[c] /\ keyOf[c] # Unset
  BY <1>1 DEF Faithful
<1>4. valOf' = valOf
  BY <1>1, <1>3 DEF RotTypeOK
<1>5. \A c \in Cell : keyOf'[c] # Unset => keyOf'[c] = newKey
  BY <1>1, <1>2
<1>6. newKey \in Opens'
  BY <1>5 DEF Opens, RotTypeOK
<1>7. SealedTogether'
  BY <1>1, <1>3, <1>4, KeyRotateAssumption DEF SealedTogether, RotTypeOK
<1> QED
  BY <1>4, <1>6, <1>7

-----------------------------------------------------------------------------
\* The invariant survives every step of the panel and of the rotation.
LEMMA RotInvStep == RotInv /\ [RotNext]_rotVars => RotInv'
<1> USE KeyRotateAssumption
<1> SUFFICES ASSUME RotInv, [RotNext]_rotVars, exclusive'
             PROVE  (SealedTogether /\ OneHolder /\ Faithful /\ Opens # {})'
  BY RotTypeStep DEF RotInv
<1>0. RotTypeOK /\ RotTypeOK'
  BY RotTypeStep DEF RotInv
<1>a. exclusive
  BY <1>0 DEF RotNext, PanelStart, PanelStop, LockConnectionLost, Seal, runRotateKey, ReadColumn,
             UpdateRow, VerifyColumn, Commit, Rollback, ToolExits, rotVars, RotTypeOK
<1>b. SealedTogether /\ OneHolder /\ Faithful /\ Opens # {}
  BY <1>a DEF RotInv
<1>1. ASSUME NEW k \in Key, PanelStart(k) PROVE (SealedTogether /\ OneHolder /\ Faithful /\ Opens # {})'
  <2>1. UNCHANGED dbVars /\ k \in Opens /\ at' = at /\ at = "idle" /\ written' = written
    BY <1>1, <1>a, <1>b DEF PanelStart, OneHolder, toolVars
  <2>2. panel' = k /\ lock' = "panel"
    BY <1>1 DEF PanelStart
  <2> QED
    BY <2>1, <2>2, <1>b, SameOpens DEF OneHolder, Faithful
<1>2. CASE PanelStop
  <2>1. UNCHANGED dbVars /\ UNCHANGED toolVars
    BY <1>2 DEF PanelStop
  <2>2. OneHolder'
    BY <1>2, <1>b, <2>1 DEF PanelStop, OneHolder, toolVars
  <2>3. Faithful'
    BY <1>b, <2>1 DEF Faithful, Behind, InColumn, dbVars, toolVars
  <2> QED
    BY <2>1, <2>2, <2>3, <1>b, SameOpens
<1>3. CASE LockConnectionLost
  BY <1>3 DEF LockConnectionLost
<1>4. ASSUME NEW c \in Cell, NEW v \in Value \cup {Unset}, Seal(c, v)
      PROVE  (SealedTogether /\ OneHolder /\ Faithful /\ Opens # {})'
  <2>1. panel \in Opens /\ lock = "panel" /\ at = "idle"
    BY <1>4, <1>b DEF Seal, OneHolder
  <2>2. panel \in Opens' /\ SealedTogether'
    BY <1>4, <1>0, <1>b, <2>1, SealKeepsKey
  <2>3. panel' = panel /\ lock' = lock /\ at' = at /\ written' = written
    BY <1>4 DEF Seal, toolVars
  <2> QED
    BY <1>b, <2>1, <2>2, <2>3 DEF OneHolder, Faithful
<1>5. ASSUME NEW old \in Key, NEW new \in Key, NEW dry \in BOOLEAN, runRotateKey(old, new, dry)
      PROVE  (SealedTogether /\ OneHolder /\ Faithful /\ Opens # {})'
  <2>1. UNCHANGED dbVars /\ panel' = panel /\ panel = Unset /\ lock' = "tool"
    BY <1>5, <1>b DEF runRotateKey, OneHolder
  <2>2. Faithful'
    <3>1. at' = "read" /\ column' = 1 /\ written' = written /\ at = "idle"
      BY <1>5 DEF runRotateKey
    <3>2. written = {}
      BY <3>1, <1>b DEF Faithful
    <3>3. \A c \in Cell : ~(ColumnOf[c] < 1)
      OBVIOUS
    <3> QED
      BY <3>1, <3>2, <3>3 DEF Faithful, Behind
  <2> QED
    BY <2>1, <2>2, <1>b, SameOpens DEF OneHolder
<1>6. CASE ReadColumn
  <2>1. UNCHANGED dbVars /\ panel' = panel /\ lock' = lock /\ at = "read" /\ at' = "update"
        /\ column' = column /\ written' = written
    BY <1>6 DEF ReadColumn
  <2>2. plain' = [c \in Cell |-> IF c \in InColumn THEN valOf[c] ELSE plain[c]]
    BY <1>6 DEF ReadColumn
  <2>3. Faithful'
    BY <1>0, <1>b, <2>1, <2>2 DEF Faithful, Behind, InColumn, dbVars, RotTypeOK
  <2> QED
    BY <2>1, <2>3, <1>b, SameOpens DEF OneHolder
<1>7. ASSUME NEW c \in Cell, UpdateRow(c) PROVE (SealedTogether /\ OneHolder /\ Faithful /\ Opens # {})'
  <2>1. UNCHANGED <<dbVars, panel, lock, at, column, plain>> /\ at = "update"
        /\ c \in InColumn /\ plain[c] # Unset /\ written' = written \cup {c}
    BY <1>7 DEF UpdateRow
  <2>2. plain[c] = valOf[c] /\ keyOf[c] # Unset
    BY <2>1, <1>b DEF Faithful, SealedTogether
  <2>3. Faithful'
    BY <1>0, <1>b, <2>1, <2>2 DEF Faithful, Behind, InColumn, dbVars, RotTypeOK
  <2> QED
    BY <2>1, <2>3, <1>b, SameOpens DEF OneHolder
<1>8. CASE VerifyColumn
  <2>1. /\ UNCHANGED <<dbVars, panel, lock, plain, written>> /\ at = "update"
        /\ \A c \in InColumn : plain[c] # Unset => c \in written
        /\ at' = (IF column = NColumn THEN "end" ELSE "read")
        /\ column' = (IF column = NColumn THEN column ELSE column + 1)
    BY <1>8 DEF VerifyColumn
  <2>2. \A c \in InColumn : keyOf[c] # Unset => c \in written
    BY <2>1, <1>b DEF Faithful, SealedTogether, InColumn
  <2>3. \A c \in Cell : ColumnOf[c] \in 1..NColumn /\ column \in 1..NColumn /\ NColumn \in Nat
    BY <1>0 DEF RotTypeOK
  <2>4. \A c \in Cell : Behind(c)' => ColumnOf[c] < column \/ ColumnOf[c] = column
    <3>1. CASE column = NColumn
      BY <2>3, <3>1
    <3>2. CASE column # NColumn
      <4>1. at' = "read" /\ column' = column + 1
        BY <2>1, <3>2
      <4>2. \A c \in Cell : ColumnOf[c] < column + 1 => ColumnOf[c] < column \/ ColumnOf[c] = column
        BY <2>3
      <4> QED
        BY <4>1, <4>2 DEF Behind
    <3> QED
      BY <3>1, <3>2
  <2>5. \A c \in Cell : Behind(c)' /\ keyOf'[c] # Unset => c \in written'
    BY <1>b, <2>1, <2>2, <2>4 DEF Faithful, Behind, InColumn, dbVars
  <2>6. \A c \in written' : plain'[c] = valOf'[c] /\ keyOf'[c] # Unset
    BY <1>b, <2>1 DEF Faithful, dbVars
  <2>7. at' # "idle" /\ at' # "update" /\ (at' = "end" => column' = NColumn)
    BY <2>1
  <2>8. Faithful'
    BY <2>5, <2>6, <2>7 DEF Faithful, Behind
  <2> QED
    BY <2>1, <2>7, <2>8, <1>b, SameOpens DEF OneHolder
<1>9. CASE Commit
  <2>1. newKey \in Opens' /\ SealedTogether'
    BY <1>9, <1>0, <1>b, CommitChangesKey
  <2>2. at' = "idle" /\ written' = {} /\ panel' = panel /\ panel = Unset
    BY <1>9, <1>b DEF Commit, ToolExits, OneHolder
  <2> QED
    BY <2>1, <2>2 DEF OneHolder, Faithful
<1>10. CASE Rollback
  <2>1. UNCHANGED dbVars /\ at' = "idle" /\ written' = {} /\ panel' = panel /\ panel = Unset
    BY <1>10, <1>b DEF Rollback, ToolExits, OneHolder
  <2> QED
    BY <2>1, <1>b, SameOpens DEF OneHolder, Faithful
<1>11. CASE UNCHANGED rotVars
  BY <1>11, <1>b DEF rotVars, dbVars, toolVars, SealedTogether, OneHolder, Faithful, Behind, InColumn, Opens
<1> QED
  BY <1>1, <1>2, <1>3, <1>4, <1>5, <1>6, <1>7, <1>8, <1>9, <1>10, <1>11 DEF RotNext

\* The invariant holds at the start, when one key seals whatever is sealed.
LEMMA RotInvInit == RotInit => RotInv
<1> SUFFICES ASSUME RotInit PROVE RotInv
  OBVIOUS
<1> USE KeyRotateAssumption
<1>1. PICK k \in Key, cells \in SUBSET Cell :
         /\ keyOf = [c \in Cell |-> IF c \in cells THEN k ELSE Unset]
         /\ valOf \in [Cell -> Value \cup {Unset}]
         /\ \A c \in Cell : valOf[c] = Unset <=> c \notin cells
         /\ oldKey = k /\ newKey = k
  BY DEF RotInit
<1>2. panel = Unset /\ lock = "none" /\ at = "idle" /\ dryRun = FALSE /\ column = 1
      /\ plain = [c \in Cell |-> Unset] /\ written = {} /\ exclusive = TRUE
  BY DEF RotInit
<1>3. RotTypeOK
  BY <1>1, <1>2 DEF RotTypeOK
<1>4. k \in Opens /\ SealedTogether
  BY <1>1 DEF Opens, SealedTogether
<1> QED
  BY <1>2, <1>3, <1>4 DEF RotInv, OneHolder, Faithful

-----------------------------------------------------------------------------
\* Each step of the rotation and of the panel is a step of Vault or none.
LEMMA RotStepSimulates == RotInv /\ [RotNext]_rotVars => [V!VaultNext]_<<valOf, Opens, exclusive>>
<1> SUFFICES ASSUME RotInv, [RotNext]_rotVars, exclusive' # FALSE
             PROVE  [V!VaultNext]_<<valOf, Opens, exclusive>>
  BY DEF V!VaultNext
<1>0. RotTypeOK /\ RotInv'
  BY RotInvStep DEF RotInv
<1>1. exclusive /\ exclusive' /\ exclusive' = exclusive
  BY <1>0 DEF RotNext, PanelStart, PanelStop, LockConnectionLost, Seal, runRotateKey, ReadColumn,
             UpdateRow, VerifyColumn, Commit, Rollback, ToolExits, rotVars, RotTypeOK, RotInv
<1>2. SealedTogether /\ OneHolder /\ Faithful /\ Opens' # {}
  BY <1>0, <1>1 DEF RotInv
<1>3. CASE UNCHANGED valOf
  BY <1>1, <1>2, <1>3 DEF V!VaultNext, V!ChangeKey
<1>4. ASSUME NEW c \in Cell, NEW v \in Value \cup {Unset}, Seal(c, v)
      PROVE  V!VaultNext
  <2>1. panel \in Opens
    BY <1>4, <1>2 DEF Seal, OneHolder
  <2>2. panel \in Opens' /\ \A d \in Cell \ {c} : valOf'[d] = valOf[d]
    BY <1>4, <1>0, <1>2, <2>1, SealKeepsKey
  <2> QED
    BY <1>1, <2>1, <2>2 DEF V!VaultNext, V!SaveSecret
<1>5. CASE Commit
  BY <1>5, <1>0, <1>2, <1>3, CommitChangesKey
<1> QED
  BY <1>3, <1>4, <1>5 DEF RotNext, PanelStart, PanelStop, LockConnectionLost, runRotateKey,
       ReadColumn, UpdateRow, VerifyColumn, Rollback, rotVars, dbVars

\* Whatever fails on the way, the rotation is a change of key in one step: no
\* moment at which the database needs two keys, and no secret changed.
THEOREM RotationImplementsVault == RotSpec => RotationAtomic
<1>1. RotInit => V!VaultInit
  BY RotInvInit DEF RotInit, RotInv, V!VaultInit
<1> QED
  BY <1>1, RotInvInit, RotInvStep, RotStepSimulates, PTL DEF RotSpec, RotationAtomic, V!VaultSpec

-----------------------------------------------------------------------------
(* ConsoleHub *)

Upgrades == [pc : {"idle", "acquire", "client", "start", "accept", "run"},
             user : User \cup {NoUser}, client : BOOLEAN, shell : BOOLEAN]

HubTypes ==
  /\ tickets \in [Ticket -> User \cup {NoUser}]
  /\ byUser \in [User -> Nat] /\ total \in Nat
  /\ up \in [Upgrade -> Upgrades]
  /\ \A q \in Upgrade : up[q].pc # "idle" => up[q].user \in User

Slots == {q \in Upgrade : HasSlot(q)}
SlotsOf(u) == {q \in Upgrade : HasSlot(q) /\ up[q].user = u}

HubInv == HubTypes /\ SlotsCounted

\* Sets of upgrades can be counted.
LEMMA SlotsFinite == IsFiniteSet(Slots) /\ \A u : IsFiniteSet(SlotsOf(u))
  BY HubAssumption, FS_Subset DEF Slots, SlotsOf

\* An upgrade that keeps its slot, or the lack of one, moves on.
LEMMA UpgradeMoves ==
  ASSUME HubInv, NEW q \in Upgrade, NEW r \in Upgrades, up' = [up EXCEPT ![q] = r],
         r.pc # "idle" => r.user \in User,
         r.pc \in {"client", "start", "accept", "run"} <=> HasSlot(q),
         HasSlot(q) => r.user = up[q].user,
         tickets' \in [Ticket -> User \cup {NoUser}], UNCHANGED <<byUser, total>>
  PROVE  HubInv'
<1>1. HubTypes'
  BY DEF HubInv, HubTypes
<1>2. Slots' = Slots /\ \A u \in User : SlotsOf(u)' = SlotsOf(u)
  BY DEF HubInv, HubTypes, Slots, SlotsOf, HasSlot
<1>3. SlotsCounted'
  BY <1>2 DEF HubInv, SlotsCounted, Slots, SlotsOf
<1> QED
  BY <1>1, <1>3 DEF HubInv

\* The caps and the counters are taken together.
LEMMA AcquireInv ==
  ASSUME HubInv, NEW q \in Upgrade, Acquire(q)
  PROVE  HubInv'
<1>1. PICK v \in User : v = up[q].user
  BY DEF HubInv, HubTypes, Acquire
<1>2. /\ ~HasSlot(q) /\ byUser' = [byUser EXCEPT ![v] = @ + 1] /\ total' = total + 1
      /\ up' = [up EXCEPT ![q].pc = "client"] /\ UNCHANGED tickets
  BY <1>1 DEF Acquire, UpGoto, HasSlot
<1>3. HubTypes'
  BY <1>1, <1>2 DEF HubInv, HubTypes, Upgrades
<1>4. /\ Slots' = Slots \cup {q} /\ q \notin Slots
      /\ SlotsOf(v)' = SlotsOf(v) \cup {q} /\ q \notin SlotsOf(v)
      /\ \A u \in User \ {v} : SlotsOf(u)' = SlotsOf(u)
  BY <1>1, <1>2 DEF HubInv, HubTypes, Upgrades, Slots, SlotsOf, HasSlot
<1>5. /\ Cardinality(Slots') = Cardinality(Slots) + 1
      /\ Cardinality(SlotsOf(v)') = Cardinality(SlotsOf(v)) + 1
  BY <1>4, SlotsFinite, FS_AddElement
<1>6. /\ total = Cardinality(Slots) /\ \A u \in User : byUser[u] = Cardinality(SlotsOf(u))
      /\ MaxTotal > 0 => total < MaxTotal
      /\ MaxPerUser > 0 => byUser[v] < MaxPerUser
  BY <1>1 DEF HubInv, SlotsCounted, Slots, SlotsOf, Acquire, checkCapacityLocked
<1>7. \A u \in User : byUser'[u] = IF u = v THEN byUser[v] + 1 ELSE byUser[u]
  BY <1>1, <1>2 DEF HubInv, HubTypes
<1>8. total' = Cardinality(Slots') /\ \A u \in User : byUser'[u] = Cardinality(SlotsOf(u)')
  BY <1>1, <1>2, <1>4, <1>5, <1>6, <1>7
<1>9. /\ MaxTotal > 0 => total' <= MaxTotal
      /\ MaxPerUser > 0 => \A u \in User : byUser'[u] <= MaxPerUser
  BY <1>1, <1>2, <1>6, <1>7, HubAssumption DEF HubInv, HubTypes, SlotsCounted
<1> QED
  BY <1>3, <1>8, <1>9 DEF HubInv, SlotsCounted, Slots, SlotsOf

\* And given back together, on whichever way the upgrade ends.
LEMMA ReleaseInv ==
  ASSUME HubInv, NEW q \in Upgrade, HasSlot(q), Release(q)
  PROVE  HubInv'
<1>1. PICK v \in User : v = up[q].user
  BY DEF HubInv, HubTypes, HasSlot
<1>2. /\ byUser' = [byUser EXCEPT ![v] = @ - 1] /\ total' = total - 1
      /\ up' = [up EXCEPT ![q] = NoUpgrade] /\ UNCHANGED tickets
      /\ NoUpgrade \in Upgrades /\ NoUpgrade.pc = "idle"
  BY <1>1 DEF Release, NoUpgrade, Upgrades
<1>3. /\ Slots' = Slots \ {q} /\ q \in Slots
      /\ SlotsOf(v)' = SlotsOf(v) \ {q} /\ q \in SlotsOf(v)
      /\ \A u \in User \ {v} : SlotsOf(u)' = SlotsOf(u)
  BY <1>1, <1>2 DEF HubInv, HubTypes, Slots, SlotsOf, HasSlot
<1>4. /\ Cardinality(Slots') = Cardinality(Slots) - 1 /\ Cardinality(Slots') \in Nat
      /\ Cardinality(SlotsOf(v)') = Cardinality(SlotsOf(v)) - 1 /\ Cardinality(SlotsOf(v)') \in Nat
  BY <1>3, SlotsFinite, FS_RemoveElement, FS_CardinalityType
<1>5. total = Cardinality(Slots) /\ \A u \in User : byUser[u] = Cardinality(SlotsOf(u))
  BY DEF HubInv, SlotsCounted, Slots, SlotsOf
<1>6. \A u \in User : byUser'[u] = IF u = v THEN byUser[v] - 1 ELSE byUser[u]
  BY <1>1, <1>2 DEF HubInv, HubTypes
<1>7. total' = Cardinality(Slots') /\ \A u \in User : byUser'[u] = Cardinality(SlotsOf(u)')
  BY <1>1, <1>2, <1>3, <1>4, <1>5, <1>6
<1>8. HubTypes'
  <2>1. total' \in Nat
    BY <1>4, <1>7
  <2>2. byUser' \in [User -> Nat]
    BY <1>2, <1>4, <1>5, <1>6, <1>7 DEF HubInv, HubTypes
  <2> QED
    BY <1>2, <2>1, <2>2 DEF HubInv, HubTypes
<1>9. /\ MaxTotal > 0 => total' <= MaxTotal
      /\ MaxPerUser > 0 => \A u \in User : byUser'[u] <= MaxPerUser
  BY <1>1, <1>2, <1>6, HubAssumption DEF HubInv, HubTypes, SlotsCounted
<1> QED
  BY <1>7, <1>8, <1>9 DEF HubInv, SlotsCounted, Slots, SlotsOf

\* No ticket, no session.
LEMMA HubInitInv == HubInit => HubInv
<1> SUFFICES ASSUME HubInit PROVE HubInv
  OBVIOUS
<1>1. HubTypes
  BY DEF HubInit, HubTypes, NoUpgrade, Upgrades
<1>2. Slots = {} /\ \A u \in User : SlotsOf(u) = {}
  BY DEF HubInit, Slots, SlotsOf, HasSlot, NoUpgrade
<1>3. SlotsCounted
  BY <1>2, FS_EmptySet, HubAssumption DEF HubInit, SlotsCounted, Slots, SlotsOf
<1> QED
  BY <1>1, <1>3 DEF HubInv

\* Tickets, the server's state and the steps of an upgrade.
LEMMA HubStepInv == HubInv /\ [HubNext]_hubVars => HubInv'
<1> SUFFICES ASSUME HubInv, [HubNext]_hubVars PROVE HubInv'
  OBVIOUS
<1>1. ASSUME UNCHANGED <<byUser, total, up>>, tickets' \in [Ticket -> User \cup {NoUser}]
      PROVE  HubInv'
  BY <1>1 DEF HubInv, HubTypes, SlotsCounted, HasSlot
<1>2. ASSUME NEW u \in User, NEW t \in Ticket, Mint(u, t) PROVE HubInv'
  BY <1>1, <1>2 DEF Mint, HubInv, HubTypes
<1>3. ASSUME NEW t \in Ticket, TicketExpires(t) PROVE HubInv'
  BY <1>1, <1>3 DEF TicketExpires, HubInv, HubTypes
<1>4. ASSUME NEW e, ServerSet(e) PROVE HubInv'
  BY <1>1, <1>4 DEF ServerSet, HubInv, HubTypes
<1>5. NoUpgrade \in Upgrades /\ NoUpgrade.pc = "idle"
  BY DEF NoUpgrade, Upgrades
<1>6. ASSUME NEW q \in Upgrade, NEW t \in Ticket, Consume(q, t) PROVE HubInv'
  <2> DEFINE r == [NoUpgrade EXCEPT !.pc = "acquire", !.user = tickets[t]]
  <2>1. r \in Upgrades /\ r.pc = "acquire" /\ r.user \in User
    BY <1>6 DEF Consume, HubInv, HubTypes, Upgrades, NoUpgrade
  <2> HIDE DEF r
  <2>2. /\ up' = [up EXCEPT ![q] = r] /\ ~HasSlot(q) /\ UNCHANGED <<byUser, total>>
        /\ tickets' \in [Ticket -> User \cup {NoUser}]
    BY <1>6 DEF Consume, HasSlot, HubInv, HubTypes, r
  <2> QED
    BY <2>1, <2>2, UpgradeMoves
<1>7. ASSUME NEW q \in Upgrade, AcquireRefused(q) PROVE HubInv'
  BY <1>5, <1>7, UpgradeMoves DEF AcquireRefused, HasSlot, HubInv, HubTypes
<1>8. ASSUME NEW q \in Upgrade, NEW own \in BOOLEAN, ConsoleClient(q, own) PROVE HubInv'
  <2> DEFINE r == [up[q] EXCEPT !.pc = "start", !.client = own]
  <2>1. r \in Upgrades /\ r.pc = "start" /\ r.user = up[q].user /\ r.user \in User
    BY <1>8 DEF ConsoleClient, HubInv, HubTypes, Upgrades
  <2>2. up' = [up EXCEPT ![q] = r]
    BY <1>8 DEF ConsoleClient, HubInv, HubTypes, Upgrades
  <2> HIDE DEF r
  <2> QED
    BY <1>8, <2>1, <2>2, UpgradeMoves DEF ConsoleClient, HasSlot, HubInv, HubTypes
<1>9. ASSUME NEW q \in Upgrade, StartSession(q) PROVE HubInv'
  <2> DEFINE r == [up[q] EXCEPT !.pc = "accept", !.shell = TRUE]
  <2>1. r \in Upgrades /\ r.pc = "accept" /\ r.user = up[q].user /\ r.user \in User
    BY <1>9 DEF StartSession, HubInv, HubTypes, Upgrades
  <2>2. up' = [up EXCEPT ![q] = r]
    BY <1>9 DEF StartSession, HubInv, HubTypes, Upgrades
  <2> HIDE DEF r
  <2> QED
    BY <1>9, <2>1, <2>2, UpgradeMoves DEF StartSession, HasSlot, HubInv, HubTypes
<1>10. ASSUME NEW q \in Upgrade, AcceptSocket(q) PROVE HubInv'
  <2> DEFINE r == [up[q] EXCEPT !.pc = "run"]
  <2>1. r \in Upgrades /\ r.pc = "run" /\ r.user = up[q].user /\ r.user \in User
    BY <1>10 DEF AcceptSocket, HubInv, HubTypes, Upgrades
  <2>2. up' = [up EXCEPT ![q] = r]
    BY <1>10 DEF AcceptSocket, UpGoto, HubInv, HubTypes, Upgrades
  <2> HIDE DEF r
  <2> QED
    BY <1>10, <2>1, <2>2, UpgradeMoves DEF AcceptSocket, HasSlot, HubInv, HubTypes
<1>11. ASSUME NEW q \in Upgrade,
              ConsoleClientFails(q) \/ StartSessionFails(q) \/ AcceptSocketFails(q) \/ BridgeReturns(q)
       PROVE  HubInv'
  BY <1>11, ReleaseInv
  DEF ConsoleClientFails, StartSessionFails, AcceptSocketFails, BridgeReturns, HasSlot
<1>12. CASE UNCHANGED hubVars
  BY <1>1, <1>12 DEF hubVars, HubInv, HubTypes
<1> QED
  BY <1>2, <1>3, <1>4, <1>6, <1>7, <1>8, <1>9, <1>10, <1>11, <1>12, AcquireInv DEF HubNext

\* The hub's counters are the sessions that hold a slot, and within the caps, for
\* any number of users, tickets and upgrades at once.
THEOREM ConsoleSlots == HubSpec => []SlotsCounted
<1>1. HubInv => SlotsCounted
  BY DEF HubInv
<1> QED
  BY <1>1, HubInitInv, HubStepInv, PTL DEF HubSpec

-----------------------------------------------------------------------------
(* LoginGuard *)

\* The ages a row can have before the window loses it, and the shape of the state.
Ages == 0..CountWindow - 1
LoginReq == [at : {"idle", "check", "settings", "key", "level", "ban"}, keys : Seq(Keys),
             good : BOOLEAN, guess : BOOLEAN, level : 0..MaxLevel]

GuardTypes ==
    /\ guard \in [enabled : BOOLEAN, byIP : BOOLEAN, byUsername : BOOLEAN]
    /\ ban \in [Keys -> [left : Int, level : 0..MaxLevel, row : BOOLEAN]]
    /\ failures \in [Keys -> [Ages -> Nat]] /\ guesses \in [Keys -> [Ages -> Nat]]
    /\ login \in [LoginProc -> LoginReq]
    /\ broken \in Nat

\* The keys an attempt carries.
KeySet(l) == {l.keys[n] : n \in DOMAIN l.keys}

\* An attempt carries its address and its name until the settings are read again;
\* after that, the tracked keys it has not dealt with.
Attempt(l) ==
    /\ l.at \in {"check", "settings"} =>
         \E i \in IP, u \in Username : l.keys = << <<"ip", i>>, <<"username", u>> >>
    /\ l.at \in {"key", "level", "ban"} => l.keys # <<>>
    /\ l.at \in {"check", "level", "ban"} => ~l.good

\* The attempts that may still guess at a key, and those whose failure is recorded
\* and which have yet to decide on a ban.
TryAt(l, k) == l.at = "check" /\ l.guess /\ k \in KeySet(l)
RecAt(l, k) == l.at \in {"settings", "key", "level", "ban"} /\ ~l.good /\ k \in KeySet(l)
Trying(k) == {p \in LoginProc : TryAt(login[p], k)}
Recording(k) == {p \in LoginProc : RecAt(login[p], k)}
NTry(k) == Cardinality(Trying(k))
NRec(k) == Cardinality(Recording(k))

\* The rows that are younger than n.
Young(count, n) == {r \in RowsOf(count) : r[1] < n}
NYoung(count, n) == Cardinality(Young(count, n))

\* In every window up to now the guesses are on record, but for those whose
\* RecordResult broke off, or the threshold is reached anyway.
Recorded(k) ==
    \A n \in 0..CountWindow :
      \/ NYoung(guesses[k], n) <= NYoung(failures[k], n) + broken
      \/ NYoung(failures[k], n) >= FailThreshold

\* Since the last ban began (CountWindow - left is at most its age) there were fewer
\* guesses than the threshold, apart from those that are still being recorded.
SinceBan(k) ==
    NYoung(guesses[k], CountWindow - ban[k].left) <= FailThreshold - 1 + broken + NRec(k)

\* The guesses of the window and those that may follow.
InAll(k) ==
    SumAges(guesses[k]) + NTry(k) <= FailThreshold - 1 + Cardinality(LoginProc) + broken

\* A key that is not tracked may be guessed at freely: only its record matters.
KeyOk(k) == Recorded(k) /\ (GuardTracks(k) => SinceBan(k) /\ InAll(k))

\* The inductive invariant.
GuardInv ==
    /\ GuardTypes
    /\ \A p \in LoginProc : Attempt(login[p])
    /\ \A k \in Keys : KeyOk(k)

-----------------------------------------------------------------------------
(* Counting rows *)

\* A row is an age and a number up to the count.
LEMMA RowIs ==
  ASSUME NEW f \in [Ages -> Nat], NEW n
  PROVE  /\ \A a \in Ages, i \in Nat : <<a, i>> \in Young(f, n) <=> 1 <= i /\ i <= f[a] /\ a < n
         /\ \A r \in Young(f, n) : \E a \in Ages, i \in Nat : r = <<a, i>>
<1>1. \A a \in Ages : f[a] \in Nat
  OBVIOUS
<1>2. \A r : r \in RowsOf(f) <=> \E a \in Ages : \E i \in 1..f[a] : r = <<a, i>>
  BY DEF RowsOf
<1>3. \A a \in Ages, i \in Nat : <<a, i>> \in Young(f, n) <=> 1 <= i /\ i <= f[a] /\ a < n
  BY <1>1, <1>2 DEF Young
<1> QED
  BY <1>1, <1>2, <1>3 DEF Young

\* There are finitely many.
LEMMA RowsFinite ==
  ASSUME NEW f \in [Ages -> Nat], NEW n
  PROVE  /\ IsFiniteSet(RowsOf(f)) /\ SumAges(f) \in Nat
         /\ IsFiniteSet(Young(f, n)) /\ NYoung(f, n) \in Nat /\ NYoung(f, n) <= SumAges(f)
<1> DEFINE Col(a) == {a} \X (1..f[a])
           All == {Col(a) : a \in Ages}
<1>1. IsFiniteSet(All)
  <2>1. IsFiniteSet(Ages)
    BY GuardAssumption, FS_Interval DEF Ages
  <2> DEFINE g == [a \in Ages |-> Col(a)]
  <2>2. g \in Surjection(Ages, All)
    BY DEF Surjection
  <2> QED
    BY <2>1, <2>2, FS_Surjection
<1>2. ASSUME NEW T \in All PROVE IsFiniteSet(T)
  <2>1. PICK a \in Ages : T = {a} \X (1..f[a])
    OBVIOUS
  <2>2. IsFiniteSet({a}) /\ IsFiniteSet(1..f[a])
    <3>1. 1 \in Int /\ f[a] \in Int
      OBVIOUS
    <3> QED
      BY <3>1, FS_Singleton, FS_Interval
  <2> QED
    BY <2>1, <2>2, FS_Product
<1>3. RowsOf(f) = UNION All
  BY DEF RowsOf
<1> HIDE DEF All
<1>4. IsFiniteSet(RowsOf(f))
  BY <1>1, <1>2, <1>3, FS_UNION
<1>5. Young(f, n) \in SUBSET RowsOf(f)
  BY DEF Young
<1> QED
  BY <1>4, <1>5, FS_Subset, FS_CardinalityType DEF SumAges, NYoung

\* The whole window, an empty one, and a smaller one.
LEMMA Windows ==
  ASSUME NEW f \in [Ages -> Nat], NEW n \in Int
  PROVE  /\ n >= CountWindow => NYoung(f, n) = SumAges(f)
         /\ n <= 0 => NYoung(f, n) = 0
         /\ \A m \in Int : m <= n => NYoung(f, m) <= NYoung(f, n)
<1>1. ASSUME n >= CountWindow PROVE NYoung(f, n) = SumAges(f)
  <2>1. Young(f, n) = RowsOf(f)
    BY <1>1, GuardAssumption DEF Young, RowsOf, Ages
  <2> QED
    BY <2>1 DEF NYoung, SumAges
<1>2. ASSUME n <= 0 PROVE NYoung(f, n) = 0
  <2>1. Young(f, n) = {}
    BY <1>2, GuardAssumption, RowIs DEF Ages
  <2> QED
    BY <2>1, FS_EmptySet DEF NYoung
<1>3. ASSUME NEW m \in Int, m <= n PROVE NYoung(f, m) <= NYoung(f, n)
  <2>1. Young(f, m) \in SUBSET Young(f, n)
    BY <1>3, GuardAssumption, RowIs DEF Ages
  <2> QED
    BY <2>1, RowsFinite, FS_Subset DEF NYoung
<1> QED
  BY <1>1, <1>2, <1>3

\* A count of nothing.
LEMMA NoRows == ASSUME NEW n PROVE NYoung([a \in Ages |-> 0], n) = 0 /\ SumAges([a \in Ages |-> 0]) = 0
<1>1. RowsOf([a \in Ages |-> 0]) = {}
  BY DEF RowsOf
<1>2. Young([a \in Ages |-> 0], n) = {}
  BY <1>1 DEF Young
<1> QED
  BY <1>1, <1>2, FS_EmptySet DEF NYoung, SumAges

\* One more row of age 0.
LEMMA AddRow ==
  ASSUME NEW f \in [Ages -> Nat], NEW g \in [Ages -> Nat], NEW m \in Int, m >= 1,
         g[0] = f[0] + 1, \A a \in Ages : a # 0 => g[a] = f[a]
  PROVE  NYoung(g, m) = NYoung(f, m) + 1
<1> DEFINE x == <<0, f[0] + 1>>
<1>1. 0 \in Ages /\ f[0] \in Nat
  BY GuardAssumption DEF Ages
<1>2. x \notin Young(f, m)
  <2>1. f[0] + 1 \in Nat /\ ~(f[0] + 1 <= f[0])
    BY <1>1
  <2> QED
    BY <1>1, <2>1, RowIs
<1>3. ASSUME NEW r \in Young(g, m), r \notin Young(f, m) PROVE r = x
  <2>1. PICK a \in Ages, i \in Nat : r = <<a, i>>
    BY RowIs
  <2>2. 1 <= i /\ i <= g[a] /\ a < m /\ ~(i <= f[a])
    BY <1>3, <2>1, RowIs
  <2>3. a = 0
    BY <2>2
  <2>4. i = f[0] + 1
    BY <1>1, <2>2, <2>3
  <2> QED
    BY <2>1, <2>3, <2>4
<1>4. x \in Young(g, m)
  <2>1. f[0] + 1 \in Nat /\ 1 <= f[0] + 1 /\ f[0] + 1 <= g[0] /\ 0 < m
    BY <1>1
  <2> QED
    BY <1>1, <2>1, RowIs
<1>5. ASSUME NEW r \in Young(f, m) PROVE r \in Young(g, m)
  <2>1. PICK a \in Ages, i \in Nat : r = <<a, i>>
    BY RowIs
  <2>2. 1 <= i /\ i <= f[a] /\ a < m
    BY <2>1, RowIs
  <2>3. i <= g[a]
    BY <1>1, <2>2
  <2> QED
    BY <2>1, <2>2, <2>3, RowIs
<1> HIDE DEF x
<1>6. Young(g, m) = Young(f, m) \cup {x}
  BY <1>3, <1>4, <1>5
<1>7. IsFiniteSet(Young(f, m)) /\ Cardinality(Young(f, m)) \in Nat
  BY RowsFinite DEF NYoung
<1>8. Cardinality(Young(f, m) \cup {x}) = Cardinality(Young(f, m)) + 1
  BY <1>2, <1>7, FS_AddElement
<1> QED
  BY <1>6, <1>8 DEF NYoung

\* What counting one more failure does, up to the cap of an age.
LEMMA OneMore ==
  ASSUME NEW f \in [Ages -> Nat], NEW top \in Nat, NEW n \in Int
  PROVE  LET g == [f EXCEPT ![0] = IF f[0] < top THEN f[0] + 1 ELSE f[0]]
         IN /\ g \in [Ages -> Nat] /\ NYoung(f, n) <= NYoung(g, n) /\ NYoung(g, n) <= NYoung(f, n) + 1
            /\ n >= 1 => NYoung(g, n) = NYoung(f, n) + 1 \/ NYoung(g, n) >= top
            /\ SumAges(g) <= SumAges(f) + 1
<1> DEFINE g == [f EXCEPT ![0] = IF f[0] < top THEN f[0] + 1 ELSE f[0]]
<1>1. 0 \in Ages /\ f[0] \in Nat
  BY GuardAssumption DEF Ages
<1>2. g \in [Ages -> Nat] /\ (~(f[0] < top) => g = f)
      /\ (f[0] < top => g[0] = f[0] + 1 /\ \A a \in Ages : a # 0 => g[a] = f[a])
  BY <1>1
<1> HIDE DEF g
<1>3. ASSUME NEW m \in Int
      PROVE  NYoung(f, m) <= NYoung(g, m) /\ NYoung(g, m) <= NYoung(f, m) + 1
             /\ (m >= 1 /\ f[0] < top => NYoung(g, m) = NYoung(f, m) + 1)
  <2>1. NYoung(f, m) \in Nat /\ NYoung(g, m) \in Nat
    BY <1>2, RowsFinite
  <2>2. CASE ~(f[0] < top)
    BY <1>2, <2>1, <2>2
  <2>3. CASE m < 1
    <3>1. NYoung(f, m) = 0 /\ NYoung(g, m) = 0
      BY <1>2, <2>3, Windows
    <3> QED
      BY <2>3, <3>1
  <2>4. CASE m >= 1 /\ f[0] < top
    BY <1>2, <2>1, <2>4, AddRow
  <2> QED
    BY <2>2, <2>3, <2>4
<1>4. ASSUME n >= 1, ~(f[0] < top) PROVE NYoung(g, n) >= top
  <2>1. g = f
    BY <1>2, <1>4
  <2> DEFINE C == {0} \X (1..f[0])
  <2>2. \A r \in C : r \in Young(f, n)
    <3> SUFFICES ASSUME NEW r \in C PROVE r \in Young(f, n)
      OBVIOUS
    <3>1. PICK i \in 1..f[0] : r = <<0, i>>
      OBVIOUS
    <3>2. i \in Nat /\ 1 <= i /\ i <= f[0] /\ 0 < n
      BY <1>1, <1>4
    <3> QED
      BY <1>1, <3>1, <3>2, RowIs
  <2>3. Cardinality(C) = f[0]
    <3>1. 1 \in Int /\ f[0] \in Int
      BY <1>1
    <3>2. IsFiniteSet(1..f[0]) /\ Cardinality(1..f[0]) = f[0]
      <4>1. IsFiniteSet(1..f[0]) /\ Cardinality(1..f[0]) = IF 1 > f[0] THEN 0 ELSE f[0] - 1 + 1
        BY <3>1, FS_Interval
      <4> QED
        BY <1>1, <4>1
    <3>3. IsFiniteSet({0}) /\ Cardinality({0}) = 1
      BY FS_Singleton
    <3>4. Cardinality(C) = 1 * f[0]
      BY <3>2, <3>3, FS_Product
    <3> QED
      BY <1>1, <3>4
  <2> HIDE DEF C
  <2>4. Cardinality(C) <= Cardinality(Young(f, n))
    BY <2>2, RowsFinite, FS_Subset
  <2> QED
    BY <1>1, <1>4, <2>1, <2>3, <2>4, RowsFinite DEF NYoung
<1>5. SumAges(g) <= SumAges(f) + 1
  <2>1. CountWindow \in Int
    BY GuardAssumption
  <2> QED
    <3>1. NYoung(f, CountWindow) = SumAges(f) /\ NYoung(g, CountWindow) = SumAges(g)
      BY <1>2, <2>1, Windows
    <3> QED
      BY <1>3, <2>1, <3>1
<1> QED
  BY <1>2, <1>3, <1>4, <1>5 DEF g

\* A step of the clock: a row younger than n was younger than n - 1.
LEMMA RowsAge ==
  ASSUME NEW f \in [Ages -> Nat], NEW n \in Int
  PROVE  /\ Older(f) \in [Ages -> Nat]
         /\ NYoung(Older(f), n) <= NYoung(f, n - 1)
         /\ n <= CountWindow => NYoung(Older(f), n) = NYoung(f, n - 1)
<1> DEFINE A == Young(Older(f), n)
           B == Young(f, n - 1)
           sh == [r \in A |-> <<r[1] - 1, r[2]>>]
<1>1. Older(f) \in [Ages -> Nat] /\ Older(f)[0] = 0
      /\ \A a \in Ages : a # 0 => Older(f)[a] = f[a - 1] /\ a - 1 \in Ages
  BY GuardAssumption DEF Older, Ages
<1>2. ASSUME NEW r \in A
      PROVE  \E a \in Ages \ {0}, i \in Nat : r = <<a, i>> /\ <<a - 1, i>> \in B
  <2>1. PICK a \in Ages, i \in Nat : r = <<a, i>>
    BY <1>1, RowIs
  <2>2. 1 <= i /\ i <= Older(f)[a] /\ a < n
    BY <1>1, <2>1, RowIs
  <2>3. a # 0
    BY <1>1, <2>2
  <2>4. a - 1 \in Ages /\ i <= f[a - 1] /\ a - 1 < n - 1
    BY <1>1, <2>2, <2>3 DEF Ages
  <2> QED
    BY <2>1, <2>2, <2>3, <2>4, RowIs
<1>3. sh \in Injection(A, B)
  <2>1. sh \in [A -> B]
    <3>1. ASSUME NEW r \in A PROVE <<r[1] - 1, r[2]>> \in B
      <4>1. PICK a \in Ages \ {0}, i \in Nat : r = <<a, i>> /\ <<a - 1, i>> \in B
        BY <1>2
      <4>2. r[1] = a /\ r[2] = i
        BY <4>1
      <4> QED
        BY <4>1, <4>2
    <3> QED
      BY <3>1
  <2>2. ASSUME NEW r \in A, NEW s \in A, sh[r] = sh[s] PROVE r = s
    <3>1. PICK a \in Ages, i \in Nat : r = <<a, i>>
      BY <1>2
    <3>2. PICK b \in Ages, j \in Nat : s = <<b, j>>
      BY <1>2
    <3>3. a - 1 = b - 1 /\ i = j
      BY <2>2, <3>1, <3>2
    <3> QED
      BY <3>1, <3>2, <3>3 DEF Ages
  <2> QED
    BY <2>1, <2>2 DEF Injection, IsInjective
<1>4. IsFiniteSet(B)
  BY RowsFinite
<1>5. ASSUME n <= CountWindow PROVE sh \in Surjection(A, B)
  <2>1. ASSUME NEW t \in B PROVE \E r \in A : sh[r] = t
    <3>1. PICK a \in Ages, i \in Nat : t = <<a, i>>
      BY RowIs
    <3>2. 1 <= i /\ i <= f[a] /\ a < n - 1
      BY <3>1, RowIs
    <3>3. a \in Int /\ a + 1 \in Ages /\ a + 1 # 0 /\ a + 1 < n
      BY <1>5, <3>2, GuardAssumption DEF Ages
    <3>4. i <= Older(f)[a + 1]
      <4>1. PICK b \in Ages : b = a + 1 /\ b # 0 /\ b - 1 = a
        BY <3>3
      <4>2. Older(f)[b] = f[b - 1]
        BY <1>1, <4>1
      <4> QED
        BY <3>2, <4>1, <4>2
    <3>5. <<a + 1, i>> \in A
      BY <1>1, <3>2, <3>3, <3>4, RowIs
    <3>6. sh[<<a + 1, i>>] = <<a, i>>
      <4>1. PICK r \in A : r = <<a + 1, i>>
        BY <3>5
      <4>2. sh[r] = <<r[1] - 1, r[2]>> /\ r[1] = a + 1 /\ r[2] = i
        BY <4>1
      <4> QED
        BY <3>3, <4>1, <4>2
    <3> QED
      BY <3>1, <3>5, <3>6
  <2> QED
    BY <1>3, <2>1 DEF Surjection, Injection
<1> HIDE DEF sh, A, B
<1>6. Cardinality(A) <= Cardinality(B) /\ (n <= CountWindow => Cardinality(A) = Cardinality(B))
  BY <1>3, <1>4, <1>5, FS_Injection
<1> QED
  BY <1>1, <1>6 DEF NYoung, A, B

-----------------------------------------------------------------------------
(* Counting attempts *)

\* How much a place counts for.
One(b) == IF b THEN 1 ELSE 0

\* The numbers of attempts are numbers, and an attempt is in one place.
LEMMA Numbers ==
  ASSUME NEW k
  PROVE  /\ NTry(k) \in Nat /\ NRec(k) \in Nat /\ Cardinality(LoginProc) \in Nat
         /\ NTry(k) + NRec(k) <= Cardinality(LoginProc)
         /\ IsFiniteSet(Trying(k)) /\ IsFiniteSet(Recording(k))
<1>1. IsFiniteSet(LoginProc)
  BY GuardAssumption
<1>2. Trying(k) \in SUBSET LoginProc /\ Recording(k) \in SUBSET LoginProc
  BY DEF Trying, Recording
<1>3. IsFiniteSet(Trying(k)) /\ IsFiniteSet(Recording(k))
  BY <1>1, <1>2, FS_Subset
<1>4. Trying(k) \cap Recording(k) = {}
  BY DEF Trying, Recording, TryAt, RecAt
<1>5. Cardinality(Trying(k) \cup Recording(k)) = NTry(k) + NRec(k) - 0
  BY <1>3, <1>4, FS_Union, FS_EmptySet DEF NTry, NRec
<1>6. Cardinality(Trying(k) \cup Recording(k)) <= Cardinality(LoginProc)
  <2>1. Trying(k) \cup Recording(k) \in SUBSET LoginProc
    BY <1>2
  <2> QED
    BY <1>1, <2>1, FS_Subset
<1>7. NTry(k) \in Nat /\ NRec(k) \in Nat /\ Cardinality(LoginProc) \in Nat
  BY <1>1, <1>3, FS_CardinalityType DEF NTry, NRec
<1> QED
  BY <1>3, <1>5, <1>6, <1>7

\* The same, a step later.
LEMMA NumbersNext ==
  ASSUME NEW k
  PROVE  NTry(k)' \in Nat /\ NRec(k)' \in Nat /\ NTry(k)' + NRec(k)' <= Cardinality(LoginProc)
<1>1. IsFiniteSet(LoginProc)
  BY GuardAssumption
<1>2. Trying(k)' \in SUBSET LoginProc /\ Recording(k)' \in SUBSET LoginProc
  BY DEF Trying, Recording
<1>3. IsFiniteSet(Trying(k)') /\ IsFiniteSet(Recording(k)')
  BY <1>1, <1>2, FS_Subset
<1>4. Trying(k)' \cap Recording(k)' = {}
  BY DEF Trying, Recording, TryAt, RecAt
<1>5. Cardinality(Trying(k)' \cup Recording(k)') = NTry(k)' + NRec(k)' - 0
  BY <1>3, <1>4, FS_Union, FS_EmptySet DEF NTry, NRec
<1>6. Cardinality(Trying(k)' \cup Recording(k)') <= Cardinality(LoginProc)
  <2>1. Trying(k)' \cup Recording(k)' \in SUBSET LoginProc
    BY <1>2
  <2> QED
    BY <1>1, <2>1, FS_Subset
<1>7. NTry(k)' \in Nat /\ NRec(k)' \in Nat /\ Cardinality(LoginProc) \in Nat
  BY <1>1, <1>3, FS_CardinalityType DEF NTry, NRec
<1> QED
  BY <1>3, <1>5, <1>6, <1>7

\* Moving one member in or out of a finite set.
LEMMA OneMoved ==
  ASSUME NEW S, NEW T, NEW x, IsFiniteSet(S), S \ {x} = T \ {x}
  PROVE  Cardinality(T) = Cardinality(S) + One(x \in T) - One(x \in S)
<1>1. Cardinality(S) \in Nat
  BY FS_CardinalityType
<1>2. CASE x \in S /\ x \in T
  <2>1. T = S
    BY <1>2
  <2> QED
    BY <1>1, <1>2, <2>1 DEF One
<1>3. CASE x \notin S /\ x \notin T
  <2>1. T = S
    BY <1>3
  <2> QED
    BY <1>1, <1>3, <2>1 DEF One
<1>4. CASE x \in S /\ x \notin T
  <2>1. T = S \ {x}
    BY <1>4
  <2>2. Cardinality(S \ {x}) = Cardinality(S) - 1
    BY <1>4, FS_RemoveElement
  <2> QED
    BY <1>1, <1>4, <2>1, <2>2 DEF One
<1>5. CASE x \notin S /\ x \in T
  <2>1. T = S \cup {x}
    BY <1>5
  <2>2. Cardinality(S \cup {x}) = Cardinality(S) + 1
    BY <1>5, FS_AddElement
  <2> QED
    BY <1>1, <1>5, <2>1, <2>2 DEF One
<1> QED
  BY <1>2, <1>3, <1>4, <1>5

\* A step of one attempt.
LEMMA Moves ==
  ASSUME GuardTypes, NEW p \in LoginProc, NEW l, login' = [login EXCEPT ![p] = l], NEW k
  PROVE  /\ NTry(k)' = NTry(k) + One(TryAt(l, k)) - One(TryAt(login[p], k))
         /\ NRec(k)' = NRec(k) + One(RecAt(l, k)) - One(RecAt(login[p], k))
<1>1. login'[p] = l /\ \A q \in LoginProc \ {p} : login'[q] = login[q]
  BY DEF GuardTypes
<1>2. Trying(k)' = {q \in LoginProc : TryAt(login'[q], k)} /\ Recording(k)' = {q \in LoginProc : RecAt(login'[q], k)}
  BY DEF Trying, Recording, TryAt, RecAt, KeySet
<1>3. Trying(k) \ {p} = Trying(k)' \ {p} /\ Recording(k) \ {p} = Recording(k)' \ {p}
  BY <1>1, <1>2 DEF Trying, Recording
<1>4. /\ (p \in Trying(k)') <=> TryAt(l, k)
      /\ (p \in Recording(k)') <=> RecAt(l, k)
      /\ (p \in Trying(k)) <=> TryAt(login[p], k)
      /\ (p \in Recording(k)) <=> RecAt(login[p], k)
  BY <1>1, <1>2 DEF Trying, Recording
<1>5. Cardinality(Trying(k)') = Cardinality(Trying(k)) + One(p \in Trying(k)') - One(p \in Trying(k))
  BY <1>3, Numbers, OneMoved
<1>6. Cardinality(Recording(k)') = Cardinality(Recording(k)) + One(p \in Recording(k)') - One(p \in Recording(k))
  BY <1>3, Numbers, OneMoved
<1> QED
  BY <1>4, <1>5, <1>6 DEF NTry, NRec, One

-----------------------------------------------------------------------------
(* Steps *)

\* A step with at most d more guesses at a key, each on record or broken off.
LEMMA KeyStep ==
  ASSUME GuardTypes, GuardTypes', NEW k \in Keys, KeyOk(k), NEW d \in 0..1,
         broken <= broken', ban'[k].left = ban[k].left,
         \A n \in Int : NYoung(guesses'[k], n) <= NYoung(guesses[k], n) + d,
         \A n \in 1..CountWindow : \/ NYoung(failures[k], n) + d + broken <= NYoung(failures'[k], n) + broken'
                                   \/ NYoung(failures'[k], n) >= FailThreshold,
         \A n \in 1..CountWindow : NYoung(failures[k], n) <= NYoung(failures'[k], n),
         GuardTracks(k)' => /\ GuardTracks(k)
                            /\ NRec(k) + broken + d <= NRec(k)' + broken'
                            /\ NTry(k)' + broken + d <= NTry(k) + broken'
  PROVE  KeyOk(k)'
<1>1. /\ guesses[k] \in [Ages -> Nat] /\ guesses'[k] \in [Ages -> Nat] /\ failures[k] \in [Ages -> Nat]
      /\ failures'[k] \in [Ages -> Nat] /\ broken \in Nat /\ broken' \in Nat /\ ban[k].left \in Int
      /\ CountWindow \in Nat /\ FailThreshold \in Nat /\ CountWindow - ban[k].left \in Int
  BY GuardAssumption DEF GuardTypes
<1>2. \A n : /\ NYoung(guesses[k], n) \in Nat /\ NYoung(guesses'[k], n) \in Nat
             /\ NYoung(failures[k], n) \in Nat /\ NYoung(failures'[k], n) \in Nat
  BY <1>1, RowsFinite
<1>3. Recorded(k)'
  <2> SUFFICES ASSUME NEW n \in 0..CountWindow
               PROVE  \/ NYoung(guesses'[k], n) <= NYoung(failures'[k], n) + broken'
                      \/ NYoung(failures'[k], n) >= FailThreshold
    BY DEF Recorded
  <2>1. CASE n = 0
    <3>1. NYoung(guesses'[k], n) = 0
      BY <1>1, <2>1, Windows
    <3> QED
      BY <1>1, <1>2, <3>1
  <2>2. CASE n \in 1..CountWindow
    <3>1. \/ NYoung(guesses[k], n) <= NYoung(failures[k], n) + broken
          \/ NYoung(failures[k], n) >= FailThreshold
      BY <1>1, <2>2 DEF KeyOk, Recorded
    <3>2. NYoung(guesses'[k], n) <= NYoung(guesses[k], n) + d
      BY <1>1, <2>2
    <3> QED
      BY <1>1, <1>2, <2>2, <3>1, <3>2
  <2> QED
    BY <1>1, <2>1, <2>2
<1>4. ASSUME GuardTracks(k)' PROVE SinceBan(k)' /\ InAll(k)'
  <2>1. SinceBan(k) /\ InAll(k)
    BY <1>4 DEF KeyOk
  <2>2. NYoung(guesses'[k], CountWindow - ban'[k].left) <= NYoung(guesses[k], CountWindow - ban[k].left) + d
    BY <1>1
  <2>3. SumAges(guesses'[k]) <= SumAges(guesses[k]) + d
    <3>1. SumAges(guesses'[k]) = NYoung(guesses'[k], CountWindow) /\ SumAges(guesses[k]) = NYoung(guesses[k], CountWindow)
      BY <1>1, Windows
    <3> QED
      BY <1>1, <3>1
  <2>4. /\ SumAges(guesses'[k]) \in Nat /\ SumAges(guesses[k]) \in Nat /\ NTry(k) \in Nat /\ NRec(k) \in Nat
        /\ NTry(k)' \in Nat /\ NRec(k)' \in Nat /\ Cardinality(LoginProc) \in Nat
    BY <1>1, RowsFinite, Numbers, NumbersNext
  <2>5. /\ NYoung(guesses'[k], CountWindow - ban'[k].left) \in Nat
        /\ NYoung(guesses[k], CountWindow - ban[k].left) \in Nat
    BY <1>2
  <2>6. SinceBan(k)'
    BY <1>1, <1>4, <2>1, <2>2, <2>4, <2>5 DEF SinceBan
  <2>7. InAll(k)'
    BY <1>1, <1>4, <2>1, <2>3, <2>4 DEF InAll
  <2> QED
    BY <2>6, <2>7
<1> QED
  BY <1>3, <1>4 DEF KeyOk

\* A step that leaves the counts of a key alone.
LEMMA KeyKept ==
  ASSUME GuardTypes, GuardTypes', NEW k \in Keys, KeyOk(k), broken <= broken', ban'[k].left = ban[k].left,
         guesses'[k] = guesses[k], failures'[k] = failures[k],
         GuardTracks(k)' => /\ GuardTracks(k)
                            /\ NRec(k) + broken <= NRec(k)' + broken'
                            /\ NTry(k)' + broken <= NTry(k) + broken'
  PROVE  KeyOk(k)'
<1>1. /\ guesses[k] \in [Ages -> Nat] /\ failures[k] \in [Ages -> Nat] /\ broken \in Nat /\ broken' \in Nat
  BY DEF GuardTypes
<1>2. \A n : NYoung(guesses[k], n) \in Nat /\ NYoung(failures[k], n) \in Nat
  BY <1>1, RowsFinite
<1>3. NTry(k) \in Nat /\ NRec(k) \in Nat /\ NTry(k)' \in Nat /\ NRec(k)' \in Nat
  BY Numbers, NumbersNext
<1>4. PICK d \in 0..1 : d = 0
  OBVIOUS
<1>5. /\ \A n \in Int : NYoung(guesses'[k], n) <= NYoung(guesses[k], n) + d
      /\ \A n \in 1..CountWindow : NYoung(failures[k], n) + d + broken <= NYoung(failures'[k], n) + broken'
      /\ \A n \in 1..CountWindow : NYoung(failures[k], n) <= NYoung(failures'[k], n)
      /\ GuardTracks(k)' => /\ GuardTracks(k)
                            /\ NRec(k) + broken + d <= NRec(k)' + broken'
                            /\ NTry(k)' + broken + d <= NTry(k) + broken'
  BY <1>1, <1>2, <1>3, <1>4
<1> QED
  BY <1>5, KeyStep

\* A key whose history ends.
LEMMA KeyCleared ==
  ASSUME GuardTypes', NEW k \in Keys, guesses'[k] = [a \in Ages |-> 0]
  PROVE  KeyOk(k)'
<1>1. /\ failures'[k] \in [Ages -> Nat] /\ broken' \in Nat /\ CountWindow \in Nat /\ FailThreshold \in Nat \ {0}
  BY GuardAssumption DEF GuardTypes
<1>2. SumAges(guesses'[k]) = 0 /\ \A n : NYoung(guesses'[k], n) = 0 /\ NYoung(failures'[k], n) \in Nat
  BY <1>1, NoRows, RowsFinite
<1>3. NTry(k)' \in Nat /\ NRec(k)' \in Nat /\ NTry(k)' + NRec(k)' <= Cardinality(LoginProc) /\ Cardinality(LoginProc) \in Nat
  BY NumbersNext, Numbers
<1>4. Recorded(k)'
  BY <1>1, <1>2 DEF Recorded
<1>5. SinceBan(k)'
  BY <1>1, <1>2, <1>3 DEF SinceBan
<1>6. InAll(k)'
  BY <1>1, <1>2, <1>3 DEF InAll
<1> QED
  BY <1>4, <1>5, <1>6 DEF KeyOk

\* What Bumped does to one key.
LEMMA BumpedKey ==
  ASSUME NEW c \in [Keys -> [Ages -> Nat]], NEW ks, NEW top \in Nat, NEW k \in Keys
  PROVE  LET g == Bumped(c, ks, top)[k]
         IN /\ Bumped(c, ks, top) \in [Keys -> [Ages -> Nat]]
            /\ k \notin ks => g = c[k]
            /\ \A n \in Int : NYoung(c[k], n) <= NYoung(g, n) /\ NYoung(g, n) <= NYoung(c[k], n) + 1
            /\ k \in ks => \A n \in Int : n >= 1 => NYoung(g, n) = NYoung(c[k], n) + 1 \/ NYoung(g, n) >= top
<1> DEFINE Up(f) == [f EXCEPT ![0] = IF f[0] < top THEN f[0] + 1 ELSE f[0]]
<1>1. Bumped(c, ks, top) = [j \in Keys |-> IF j \in ks THEN Up(c[j]) ELSE c[j]]
  BY DEF Bumped
<1>2. ASSUME NEW f \in [Ages -> Nat], NEW n \in Int
      PROVE  /\ Up(f) \in [Ages -> Nat] /\ NYoung(f, n) <= NYoung(Up(f), n) /\ NYoung(Up(f), n) <= NYoung(f, n) + 1
             /\ n >= 1 => NYoung(Up(f), n) = NYoung(f, n) + 1 \/ NYoung(Up(f), n) >= top
  BY OneMore
<1>3. \A f \in [Ages -> Nat], n \in Int : NYoung(f, n) \in Nat
  BY RowsFinite
<1> HIDE DEF Up
<1>4. 0 \in Int
  OBVIOUS
<1>5. Bumped(c, ks, top) \in [Keys -> [Ages -> Nat]]
  BY <1>1, <1>2, <1>4
<1>6. CASE k \in ks
  <2>1. Bumped(c, ks, top)[k] = Up(c[k]) /\ c[k] \in [Ages -> Nat]
    BY <1>1, <1>6
  <2> QED
    BY <1>2, <1>5, <1>6, <2>1
<1>7. CASE k \notin ks
  <2>1. Bumped(c, ks, top)[k] = c[k] /\ c[k] \in [Ages -> Nat]
    BY <1>1, <1>7
  <2> QED
    BY <1>3, <1>5, <1>7, <2>1
<1> QED
  BY <1>6, <1>7

\* GuardInv after a step of one attempt: types, what it carries, and every key.
LEMMA Assemble ==
  ASSUME GuardInv, NEW p \in LoginProc, NEW l \in LoginReq, login' = [login EXCEPT ![p] = l],
         Attempt(l), GuardTypes', \A k \in Keys : KeyOk(k)'
  PROVE  GuardInv'
<1>1. login'[p] = l /\ \A q \in LoginProc \ {p} : login'[q] = login[q]
  BY DEF GuardInv, GuardTypes
<1>2. \A q \in LoginProc : Attempt(login[q])
  BY DEF GuardInv
<1>3. \A q \in LoginProc : Attempt(login'[q])
  BY <1>1, <1>2
<1>4. \A q \in LoginProc : Attempt(login[q])'
  BY <1>3 DEF Attempt
<1> QED
  BY <1>4 DEF GuardInv

\* A login the guard turns away is one more failure.
LEMMA GuardRefuses ==
  ASSUME GuardInv, NEW i, NEW u, RecordFailure(i, u), UNCHANGED login, NoBanChange, UNCHANGED <<guesses, broken>>
  PROVE  GuardInv'
<1>1. GuardTypes'
  <2>1. failures' \in [Keys -> [Ages -> Nat]]
    <3>1. CASE Keys = {}
      BY <3>1 DEF RecordFailure, Bumped
    <3>2. CASE Keys # {}
      <4>1. PICK k \in Keys : TRUE
        BY <3>2
      <4> QED
        BY <4>1, BumpedKey, GuardAssumption DEF RecordFailure, GuardInv, GuardTypes
    <3> QED
      BY <3>1, <3>2
  <2> QED
    BY <2>1 DEF GuardInv, GuardTypes, NoBanChange
<1>2. ASSUME NEW k \in Keys PROVE KeyOk(k)'
  <2>1. PICK d \in 0..1 : d = 0
    OBVIOUS
  <2>2. /\ guesses'[k] = guesses[k] /\ ban'[k].left = ban[k].left /\ broken' = broken /\ broken \in Nat
        /\ guesses[k] \in [Ages -> Nat] /\ failures[k] \in [Ages -> Nat] /\ GuardTypes /\ KeyOk(k)
    BY DEF GuardInv, GuardTypes, NoBanChange
  <2>3. \A n \in Int : NYoung(failures[k], n) <= NYoung(failures'[k], n)
    BY BumpedKey, GuardAssumption DEF GuardInv, GuardTypes, RecordFailure
  <2>4. NRec(k)' = NRec(k) /\ NTry(k)' = NTry(k) /\ (GuardTracks(k)' => GuardTracks(k)) /\ NRec(k) \in Nat /\ NTry(k) \in Nat
    BY Numbers DEF NRec, NTry, Recording, Trying, RecAt, TryAt, KeySet, GuardTracks, NoBanChange
  <2>5. failures'[k] \in [Ages -> Nat] /\ \A n : NYoung(guesses[k], n) \in Nat /\ NYoung(failures[k], n) \in Nat
    BY <1>1, <2>2, RowsFinite DEF GuardTypes
  <2>6. \A n : NYoung(failures'[k], n) \in Nat
    BY <2>5, RowsFinite
  <2>7. /\ \A n \in Int : NYoung(guesses'[k], n) <= NYoung(guesses[k], n) + d
        /\ \A n \in 1..CountWindow : NYoung(failures[k], n) + d + broken <= NYoung(failures'[k], n) + broken'
        /\ \A n \in 1..CountWindow : NYoung(failures[k], n) <= NYoung(failures'[k], n)
        /\ GuardTracks(k)' => /\ GuardTracks(k)
                              /\ NRec(k) + broken + d <= NRec(k)' + broken'
                              /\ NTry(k)' + broken + d <= NTry(k) + broken'
    BY <2>1, <2>2, <2>3, <2>4, <2>5, <2>6, GuardAssumption
  <2> QED
    BY <1>1, <2>2, <2>7, KeyStep
<1>3. \A q \in LoginProc : Attempt(login[q])'
  BY DEF GuardInv, Attempt
<1> QED
  BY <1>1, <1>2, <1>3 DEF GuardInv

\* The keys the settings have tracked.
LEMMA Pair == ASSUME NEW a, NEW b PROVE <<a>> \o <<b>> = <<a, b>>
<1> DEFINE s == <<a>> \o <<b>>
<1>1. <<a>> \in Seq({a, b}) /\ <<b>> \in Seq({a, b}) /\ Len(<<a>>) = 1 /\ Len(<<b>>) = 1
  OBVIOUS
<1>2. s \in Seq({a, b}) /\ Len(s) = 2
  BY <1>1, ConcatProperties
<1>3. s[1] = a /\ s[2] = b
  <2>1. 1 \in 1..2 /\ 2 \in 1..2 /\ 1 <= 1 /\ 2 - 1 = 1 /\ ~(2 <= 1)
    OBVIOUS
  <2>2. \A i \in 1..(Len(<<a>>) + Len(<<b>>)) : s[i] = IF i <= Len(<<a>>) THEN <<a>>[i] ELSE <<b>>[i - Len(<<a>>)]
    BY <1>1, ConcatProperties
  <2> QED
    BY <1>1, <2>1, <2>2
<1> HIDE DEF s
<1>4. s = <<a, b>>
  BY <1>2, <1>3
<1> QED
  BY <1>4 DEF s

\* The keys read for an attempt include every key of it that is tracked.
LEMMA TrackedKeys ==
  ASSUME GuardTypes, NEW i \in IP, NEW u \in Username
  PROVE  /\ Tracked(i, u) \in Seq(Keys)
         /\ \A k \in KeysOf(i, u) : GuardTracks(k) => \E n \in DOMAIN Tracked(i, u) : Tracked(i, u)[n] = k
<1> DEFINE A == <<"ip", i>>
           B == <<"username", u>>
           named == guard.byUsername /\ u # NoName
<1>1. A \in Keys /\ B \in Keys /\ A[1] = "ip" /\ B[1] = "username" /\ B[2] = u
  BY DEF Keys
<1>2. \A k \in KeysOf(i, u) : GuardTracks(k) => (k = A /\ guard.byIP) \/ (k = B /\ named)
  BY <1>1 DEF KeysOf, GuardTracks
<1>3. Tracked(i, u) = (IF guard.byIP THEN <<A>> ELSE <<>>) \o (IF named THEN <<B>> ELSE <<>>)
  BY DEF Tracked
<1> HIDE DEF A, B, named
<1>4. CASE guard.byIP /\ named
  <2>1. Tracked(i, u) = <<A, B>>
    BY <1>3, <1>4, Pair
  <2> QED
    BY <1>1, <1>2, <2>1
<1>5. CASE guard.byIP /\ ~named
  <2>1. Tracked(i, u) = <<A>>
    BY <1>3, <1>5
  <2> QED
    BY <1>1, <1>2, <1>5, <2>1
<1>6. CASE ~guard.byIP /\ named
  <2>1. Tracked(i, u) = <<B>>
    BY <1>3, <1>6
  <2> QED
    BY <1>1, <1>2, <1>6, <2>1
<1>7. CASE ~guard.byIP /\ ~named
  <2>1. Tracked(i, u) = <<>>
    BY <1>3, <1>7
  <2> QED
    BY <1>1, <1>2, <1>7, <2>1
<1> QED
  BY <1>4, <1>5, <1>6, <1>7

\* A login the guard lets through: an attempt more, on keys that are not banned, so
\* that every guess of the window came after the last ban.
LEMMA GuardAdmits ==
  ASSUME GuardInv, NEW p \in LoginProc, NEW i \in IP, NEW u \in Username, login[p].at = "idle",
         NEW l \in LoginReq, login' = [login EXCEPT ![p] = l], Attempt(l),
         l.at = "check", KeySet(l) = KeysOf(i, u), l.guess => CheckLogin(i, u) = "guarded",
         NoBanChange, UNCHANGED <<failures, guesses, broken>>
  PROVE  GuardInv'
<1>4. GuardTypes'
  BY DEF GuardInv, GuardTypes, NoBanChange
<1>5. ASSUME NEW k \in Keys PROVE KeyOk(k)'
  <2>1. /\ NTry(k)' = NTry(k) + One(TryAt(l, k)) - One(TryAt(login[p], k))
        /\ NRec(k)' = NRec(k) + One(RecAt(l, k)) - One(RecAt(login[p], k))
    BY Moves DEF GuardInv
  <2>2. ~TryAt(login[p], k) /\ ~RecAt(login[p], k) /\ ~RecAt(l, k)
    BY DEF TryAt, RecAt
  <2>3. NTry(k) \in Nat /\ NRec(k) \in Nat /\ NTry(k)' \in Nat /\ NTry(k)' + NRec(k)' <= Cardinality(LoginProc) /\ Cardinality(LoginProc) \in Nat
    BY Numbers, NumbersNext
  <2>4. /\ guesses'[k] = guesses[k] /\ failures'[k] = failures[k] /\ ban'[k] = ban[k] /\ broken' = broken /\ broken \in Nat
        /\ guesses[k] \in [Ages -> Nat] /\ GuardTypes /\ KeyOk(k) /\ ban[k].left \in Int /\ guard' = guard
    BY DEF GuardInv, GuardTypes, NoBanChange
  <2>5. CASE ~TryAt(l, k)
    <3>1. GuardTracks(k)' => /\ GuardTracks(k) /\ NRec(k) + broken <= NRec(k)' + broken'
                             /\ NTry(k)' + broken <= NTry(k) + broken'
      BY <2>1, <2>2, <2>3, <2>4, <2>5 DEF One, GuardTracks
    <3> QED
      BY <1>4, <2>4, <3>1, KeyKept
  <2>6. CASE TryAt(l, k)
    <3>1. k \in KeysOf(i, u) /\ CheckLogin(i, u) = "guarded"
      BY <2>6 DEF TryAt
    <3>2. NRec(k)' = NRec(k)
      BY <2>1, <2>2, <2>3 DEF One
    <3>3. Recorded(k)'
      BY <2>4 DEF KeyOk, Recorded
    <3>4. ASSUME GuardTracks(k)' PROVE SinceBan(k)' /\ InAll(k)'
      <4>1. GuardTracks(k) /\ SinceBan(k)
        BY <2>4, <3>4 DEF GuardTracks, KeyOk
      <4>2. ~Banned(k)
        <5>1. \A n \in DOMAIN Tracked(i, u) : ~Banned(Tracked(i, u)[n])
          BY <3>1 DEF CheckLogin
        <5>2. \E n \in DOMAIN Tracked(i, u) : Tracked(i, u)[n] = k
          BY <2>4, <3>1, <4>1, TrackedKeys
        <5> QED
          BY <5>1, <5>2
      <4>3. CountWindow - ban[k].left \in Int /\ CountWindow - ban[k].left >= CountWindow
        BY <2>4, <4>2, GuardAssumption DEF Banned
      <4>4. NYoung(guesses[k], CountWindow - ban[k].left) = SumAges(guesses[k]) /\ SumAges(guesses[k]) \in Nat
        BY <2>4, <4>3, Windows, RowsFinite
      <4>5. SinceBan(k)'
        BY <2>4, <3>2, <4>1 DEF SinceBan
      <4>6. InAll(k)'
        BY <2>3, <2>4, <3>2, <4>1, <4>4, GuardAssumption DEF SinceBan, InAll
      <4> QED
        BY <4>5, <4>6
    <3> QED
      BY <3>3, <3>4 DEF KeyOk
  <2> QED
    BY <2>5, <2>6
<1> QED
  BY <1>4, <1>5, Assemble

\* apiLogin: CheckLogin.
LEMMA GuardStarts ==
  ASSUME GuardInv, NEW p \in LoginProc, NEW i \in IP, NEW u \in Username, StartLogin(p, i, u)
  PROVE  GuardInv'
<1>1. CASE CheckLogin(i, u) = "refused"
  BY <1>1, GuardRefuses DEF StartLogin, LogRejected
<1>2. CASE CheckLogin(i, u) # "refused"
  <2>1. PICK l : l = [NoLogin EXCEPT !.at = "check", !.keys = << <<"ip", i>>, <<"username", u>> >>,
                                     !.guess = CheckLogin(i, u) = "guarded"]
    OBVIOUS
  <2>2. /\ login' = [login EXCEPT ![p] = l] /\ login[p].at = "idle" /\ NoBanChange
        /\ UNCHANGED <<failures, guesses, broken>>
    BY <1>2, <2>1 DEF StartLogin, Goto
  <2>3. /\ l.at = "check" /\ l.keys = << <<"ip", i>>, <<"username", u>> >> /\ l.good = FALSE /\ l.level = 0
        /\ l.guess = (CheckLogin(i, u) = "guarded")
        /\ l = [at |-> l.at, keys |-> l.keys, good |-> l.good, guess |-> l.guess, level |-> l.level]
    BY <2>1 DEF NoLogin
  <2>4. << <<"ip", i>>, <<"username", u>> >> \in Seq(Keys)
    <3>1. <<"ip", i>> \in Keys /\ <<"username", u>> \in Keys
      BY DEF Keys
    <3> QED
      BY <3>1
  <2>5. l.level \in 0..MaxLevel /\ l.guess \in BOOLEAN
    BY <2>3, GuardAssumption
  <2>6. l \in LoginReq
    BY <2>3, <2>4, <2>5 DEF LoginReq
  <2>7. Attempt(l)
    BY <2>3 DEF Attempt
  <2>8. KeySet(l) = KeysOf(i, u)
    <3>1. PICK a, b : a = <<"ip", i>> /\ b = <<"username", u>>
      OBVIOUS
    <3>2. {<<a, b>>[n] : n \in DOMAIN <<a, b>>} = {a, b}
      OBVIOUS
    <3> QED
      BY <2>3, <3>1, <3>2 DEF KeySet, KeysOf
  <2> QED
    BY <2>2, <2>3, <2>6, <2>7, <2>8, GuardAdmits
<1> QED
  BY <1>1, <1>2

\* A step of an attempt that counts nothing, and after which it still has the keys to
\* decide on, except for the keys of D, or has broken off.
LEMMA AttemptSteps ==
  ASSUME GuardInv, NEW p \in LoginProc, NEW l \in LoginReq, login' = [login EXCEPT ![p] = l], Attempt(l),
         UNCHANGED <<guard, ban, failures, guesses>>, broken' \in Nat, broken <= broken',
         NEW D \in SUBSET Keys,
         \A k \in Keys : TryAt(l, k) => TryAt(login[p], k),
         \A k \in Keys : k \notin D /\ GuardTracks(k) /\ RecAt(login[p], k) => RecAt(l, k) \/ broken < broken',
         \A k \in D : SumAges(failures[k]) < FailThreshold
  PROVE  GuardInv'
<1>1. GuardTypes'
  BY DEF GuardInv, GuardTypes
<1>2. ASSUME NEW k \in Keys PROVE KeyOk(k)'
  <2>1. /\ NTry(k)' = NTry(k) + One(TryAt(l, k)) - One(TryAt(login[p], k))
        /\ NRec(k)' = NRec(k) + One(RecAt(l, k)) - One(RecAt(login[p], k))
    BY Moves DEF GuardInv
  <2>2. NTry(k) \in Nat /\ NRec(k) \in Nat /\ NTry(k)' \in Nat /\ NRec(k)' \in Nat /\ Cardinality(LoginProc) \in Nat
    BY Numbers, NumbersNext
  <2>3. /\ guesses'[k] = guesses[k] /\ failures'[k] = failures[k] /\ ban'[k] = ban[k] /\ broken \in Nat
        /\ guesses[k] \in [Ages -> Nat] /\ failures[k] \in [Ages -> Nat] /\ GuardTypes /\ KeyOk(k)
        /\ ban[k].left \in Int /\ (GuardTracks(k)' <=> GuardTracks(k))
    BY DEF GuardInv, GuardTypes, GuardTracks
  <2>4. NTry(k)' <= NTry(k)
    BY <2>1, <2>2 DEF One
  <2>5. CASE k \notin D
    <3>1. GuardTracks(k) => NRec(k) + broken <= NRec(k)' + broken'
      BY <2>1, <2>2, <2>3, <2>5 DEF One
    <3>2. NTry(k)' + broken <= NTry(k) + broken'
      BY <2>2, <2>3, <2>4
    <3>3. ban'[k].left = ban[k].left
      BY <2>3
    <3> QED
      BY <1>1, <2>3, <3>1, <3>2, <3>3, KeyKept
  <2>6. CASE k \in D
    <3>1. Recorded(k)'
      <4>1. \A n : NYoung(guesses[k], n) \in Nat /\ NYoung(failures[k], n) \in Nat
        BY <2>3, RowsFinite
      <4> QED
        BY <2>3, <4>1 DEF KeyOk, Recorded
    <3>2. SumAges(guesses[k]) <= SumAges(failures[k]) + broken
      <4>1. CountWindow \in 0..CountWindow /\ CountWindow \in Int /\ FailThreshold \in Int
        BY GuardAssumption
      <4>2. SumAges(guesses[k]) = NYoung(guesses[k], CountWindow) /\ SumAges(failures[k]) = NYoung(failures[k], CountWindow)
            /\ SumAges(failures[k]) \in Nat
        BY <2>3, <4>1, Windows, RowsFinite
      <4> QED
        BY <2>3, <2>6, <4>1, <4>2 DEF KeyOk, Recorded
    <3>3. ASSUME GuardTracks(k)' PROVE SinceBan(k)' /\ InAll(k)'
      <4>1. InAll(k)
        BY <2>3, <3>3 DEF KeyOk
      <4>2. PICK n \in Int : n = CountWindow - ban[k].left
        BY <2>3, GuardAssumption
      <4>3. NYoung(guesses[k], n) <= SumAges(guesses[k]) /\ NYoung(guesses[k], n) \in Nat
            /\ SumAges(guesses[k]) \in Nat /\ SumAges(failures[k]) \in Nat
        BY <2>3, RowsFinite
      <4>4. NYoung(guesses[k], n) <= FailThreshold - 1 + broken' + NRec(k)'
        BY <2>2, <2>3, <2>6, <3>2, <4>3, GuardAssumption
      <4>5. SinceBan(k)'
        BY <2>3, <4>2, <4>4 DEF SinceBan
      <4>6. InAll(k)'
        BY <2>2, <2>3, <2>4, <4>1, <4>3, GuardAssumption DEF InAll
      <4> QED
        BY <4>5, <4>6
    <3> QED
      BY <3>1, <3>3 DEF KeyOk
  <2> QED
    BY <2>5, <2>6
<1> QED
  BY <1>1, <1>2, Assemble

\* An attempt that is over.
LEMMA NoLoginIs == NoLogin \in LoginReq /\ Attempt(NoLogin) /\ \A k : ~TryAt(NoLogin, k) /\ ~RecAt(NoLogin, k)
<1>1. <<>> \in Seq(Keys)
  OBVIOUS
<1> QED
  BY <1>1, GuardAssumption DEF NoLogin, LoginReq, Attempt, TryAt, RecAt

\* The second factor is asked for: nothing is recorded.
LEMMA GuardPending ==
  ASSUME GuardInv, NEW p \in LoginProc, NeedTOTP(p) PROVE GuardInv'
<1>1. PICK l \in LoginReq : l = NoLogin
  BY NoLoginIs
<1>2. login' = [login EXCEPT ![p] = l] /\ UNCHANGED <<guard, ban, failures, guesses>> /\ login[p].at = "check"
      /\ broken' \in Nat /\ broken <= broken'
  BY <1>1 DEF NeedTOTP, Goto, NoBanChange, GuardInv, GuardTypes
<1>3. PICK D \in SUBSET Keys : D = {}
  OBVIOUS
<1>4. \A k \in Keys : ~TryAt(l, k) /\ ~RecAt(login[p], k)
  BY <1>1, <1>2, NoLoginIs DEF RecAt
<1> QED
  BY <1>1, <1>2, <1>3, <1>4, NoLoginIs, AttemptSteps

\* The settings are read again: the keys they have tracked are left to decide on.
LEMMA GuardSettings ==
  ASSUME GuardInv, NEW p \in LoginProc, GetSettings(p) PROVE GuardInv'
<1>1. PICK r \in LoginReq : r = login[p]
  BY DEF GuardInv, GuardTypes
<1>2. r.at = "settings" /\ Attempt(r)
  BY <1>1 DEF GetSettings, GuardInv
<1>3. PICK i \in IP, u \in Username : r.keys = << <<"ip", i>>, <<"username", u>> >>
  BY <1>2 DEF Attempt
<1>4. PICK ks : ks = Tracked(i, u)
  OBVIOUS
<1>5. ks \in Seq(Keys) /\ KeySet(r) = KeysOf(i, u)
      /\ \A k \in KeysOf(i, u) : GuardTracks(k) => \E n \in DOMAIN ks : ks[n] = k
  <2>1. KeySet(r) = KeysOf(i, u)
    <3>1. PICK a, b : a = <<"ip", i>> /\ b = <<"username", u>>
      OBVIOUS
    <3>2. {<<a, b>>[n] : n \in DOMAIN <<a, b>>} = {a, b}
      OBVIOUS
    <3> QED
      BY <1>3, <3>1, <3>2 DEF KeySet, KeysOf
  <2> QED
    BY <1>4, <2>1, TrackedKeys DEF GuardInv
<1>6. Tracked(login[p].keys[1][2], login[p].keys[2][2]) = ks
  <2>1. r.keys[1][2] = i /\ r.keys[2][2] = u
    BY <1>3
  <2> QED
    BY <1>1, <1>4, <2>1
<1>7. PICK l : l = IF guard.enabled /\ ks # <<>> THEN [r EXCEPT !.at = "key", !.keys = ks] ELSE NoLogin
  OBVIOUS
<1>8. login' = [login EXCEPT ![p] = l] /\ UNCHANGED <<guard, ban, failures, guesses>>
      /\ broken' \in Nat /\ broken <= broken'
  BY <1>1, <1>6, <1>7 DEF GetSettings, Goto, NoBanChange, GuardInv, GuardTypes
<1>9. PICK D \in SUBSET Keys : D = {}
  OBVIOUS
<1>10. CASE guard.enabled /\ ks # <<>>
  <2>1. l \in LoginReq /\ l.at = "key" /\ l.keys = ks /\ l.good = r.good
    BY <1>5, <1>7, <1>10 DEF LoginReq
  <2>2. Attempt(l)
    BY <1>10, <2>1 DEF Attempt
  <2>3. \A k \in Keys : ~TryAt(l, k)
    BY <2>1 DEF TryAt
  <2>4. \A k \in Keys : GuardTracks(k) /\ RecAt(login[p], k) => RecAt(l, k)
    BY <1>1, <1>5, <2>1 DEF RecAt, KeySet
  <2> QED
    BY <1>8, <1>9, <2>1, <2>2, <2>3, <2>4, AttemptSteps
<1>11. CASE ~(guard.enabled /\ ks # <<>>)
  <2>1. l = NoLogin /\ l \in LoginReq
    BY <1>7, <1>11, NoLoginIs
  <2>2. \A k \in Keys : ~(GuardTracks(k) /\ RecAt(login[p], k))
    <3>1. ASSUME NEW k \in Keys, GuardTracks(k), RecAt(login[p], k) PROVE FALSE
      <4>1. guard.enabled /\ k \in KeysOf(i, u)
        BY <1>1, <1>5, <3>1 DEF GuardTracks, RecAt
      <4>2. PICK n \in DOMAIN ks : ks[n] = k
        BY <1>5, <3>1, <4>1
      <4> QED
        BY <1>11, <4>1, <4>2
    <3> QED
      BY <3>1
  <2> QED
    BY <1>8, <1>9, <2>1, <2>2, NoLoginIs, AttemptSteps
<1> QED
  BY <1>10, <1>11

\* The cap on the counts is a number.
LEMMA TopIs == GuessTop \in Nat
<1>1. Cardinality(LoginProc) \in Nat
  BY Numbers
<1>2. MaxUpset * Cardinality(LoginProc) \in Nat
  BY <1>1, GuardAssumption
<1> QED
  BY <1>1, <1>2, GuardAssumption DEF GuessTop

\* What an attempt carries while it is being checked.
LEMMA Carried ==
  ASSUME NEW r \in LoginReq, Attempt(r), r.at \in {"check", "settings"}
  PROVE  KeySet(r) = KeysOf(r.keys[1][2], r.keys[2][2]) /\ KeySet(r) \subseteq Keys
<1>1. PICK i \in IP, u \in Username : r.keys = << <<"ip", i>>, <<"username", u>> >>
  BY DEF Attempt
<1>2. PICK a, b : a = <<"ip", i>> /\ b = <<"username", u>>
  OBVIOUS
<1>3. {<<a, b>>[n] : n \in DOMAIN <<a, b>>} = {a, b}
  OBVIOUS
<1>4. r.keys[1][2] = i /\ r.keys[2][2] = u
  BY <1>1
<1>5. KeySet(r) = {a, b} /\ KeysOf(i, u) = {a, b}
  BY <1>1, <1>2, <1>3 DEF KeySet, KeysOf
<1>6. a \in Keys /\ b \in Keys
  BY <1>2 DEF Keys
<1> QED
  BY <1>4, <1>5, <1>6

\* A count of more guesses.
LEMMA GuessTypes ==
  ASSUME GuardTypes, NEW p \in LoginProc, CountGuess(p)
  PROVE  guesses' \in [Keys -> [Ages -> Nat]]
<1>1. CASE Keys = {} \/ ~login[p].guess
  BY <1>1 DEF CountGuess, Bumped, GuardTypes
<1>2. CASE Keys # {} /\ login[p].guess
  <2>1. PICK k \in Keys : TRUE
    BY <1>2
  <2> QED
    BY <1>2, <2>1, BumpedKey, TopIs DEF CountGuess, GuardTypes
<1> QED
  BY <1>1, <1>2

\* A key's guesses grow by one at most, and only if the attempt guesses at it.
LEMMA GuessCounts ==
  ASSUME GuardTypes, NEW p \in LoginProc, CountGuess(p), NEW k \in Keys
  PROVE  /\ k \notin KeySet(login[p]) \/ ~login[p].guess => guesses'[k] = guesses[k]
         /\ \A n \in Int : NYoung(guesses'[k], n) <= NYoung(guesses[k], n) + One(login[p].guess)
<1>1. \A n : NYoung(guesses[k], n) \in Nat
  BY RowsFinite DEF GuardTypes
<1>2. CASE ~login[p].guess
  BY <1>1, <1>2 DEF CountGuess, One
<1>3. CASE login[p].guess
  <2>1. guesses' = Bumped(guesses, KeySet(login[p]), GuessTop)
    BY <1>3 DEF CountGuess, KeySet
  <2> QED
    BY <1>3, <2>1, BumpedKey, TopIs DEF GuardTypes, One
<1> QED
  BY <1>2, <1>3

\* RecordResult of a failure: the attempt counts as recorded, and has yet to decide.
LEMMA GuardRecordsBad ==
  ASSUME GuardInv, NEW p \in LoginProc, NEW r \in LoginReq, r = login[p], r.at = "check",
         RecordFailure(r.keys[1][2], r.keys[2][2]), CountGuess(p),
         NEW l \in LoginReq, login' = [login EXCEPT ![p] = l],
         l.at = "settings", l.good = FALSE, l.keys = r.keys,
         NoBanChange, UNCHANGED broken
  PROVE  GuardInv'
<1>1. Attempt(r) /\ Attempt(l)
  BY DEF GuardInv, Attempt
<1>2. PICK i, u : i = r.keys[1][2] /\ u = r.keys[2][2]
  OBVIOUS
<1>3. KeySet(r) = KeysOf(i, u) /\ KeySet(l) = KeysOf(i, u) /\ failures' = Bumped(failures, KeysOf(i, u), FailThreshold)
  BY <1>1, <1>2, Carried DEF KeySet, RecordFailure
<1>4. GuardTypes'
  <2>1. failures' \in [Keys -> [Ages -> Nat]]
    <3>1. CASE Keys = {}
      BY <1>3, <3>1 DEF Bumped
    <3>2. CASE Keys # {}
      <4>1. PICK k \in Keys : TRUE
        BY <3>2
      <4> QED
        BY <1>3, <4>1, BumpedKey, GuardAssumption DEF GuardInv, GuardTypes
    <3> QED
      BY <3>1, <3>2
  <2>2. guesses' \in [Keys -> [Ages -> Nat]]
    BY GuessTypes DEF GuardInv
  <2> QED
    BY <2>1, <2>2 DEF GuardInv, GuardTypes, NoBanChange
<1>5. ASSUME NEW k \in Keys PROVE KeyOk(k)'
  <2>1. /\ NTry(k)' = NTry(k) + One(TryAt(l, k)) - One(TryAt(r, k))
        /\ NRec(k)' = NRec(k) + One(RecAt(l, k)) - One(RecAt(r, k))
    BY Moves DEF GuardInv
  <2>2. NTry(k) \in Nat /\ NRec(k) \in Nat /\ NTry(k)' \in Nat /\ NRec(k)' \in Nat
    BY Numbers, NumbersNext
  <2>3. /\ ban'[k] = ban[k] /\ broken \in Nat /\ broken' = broken /\ r.guess \in BOOLEAN
        /\ guesses[k] \in [Ages -> Nat] /\ failures[k] \in [Ages -> Nat] /\ GuardTypes /\ KeyOk(k)
        /\ failures'[k] \in [Ages -> Nat] /\ (GuardTracks(k)' <=> GuardTracks(k))
    BY <1>4 DEF GuardInv, GuardTypes, GuardTracks, NoBanChange, LoginReq
  <2>4. ~TryAt(l, k) /\ ~RecAt(r, k) /\ (RecAt(l, k) <=> k \in KeysOf(i, u))
        /\ (TryAt(r, k) <=> r.guess /\ k \in KeysOf(i, u))
    BY <1>3 DEF TryAt, RecAt
  <2>5. CASE k \notin KeysOf(i, u)
    <3>1. failures'[k] = failures[k] /\ guesses'[k] = guesses[k]
      BY <1>3, <2>3, <2>5, BumpedKey, GuessCounts, GuardAssumption DEF GuardTypes
    <3>2. NTry(k)' = NTry(k) /\ NRec(k)' = NRec(k)
      BY <2>1, <2>2, <2>4, <2>5 DEF One
    <3> QED
      BY <1>4, <2>2, <2>3, <3>1, <3>2, KeyKept
  <2>6. CASE k \in KeysOf(i, u)
    <3>1. PICK d \in 0..1 : d = One(r.guess)
      BY <2>3 DEF One
    <3>2. NRec(k)' = NRec(k) + 1 /\ NTry(k)' = NTry(k) - d
      BY <2>1, <2>2, <2>4, <2>6, <3>1 DEF One
    <3>3. \A n \in Int : NYoung(guesses'[k], n) <= NYoung(guesses[k], n) + d
      BY <2>3, <3>1, GuessCounts
    <3>4. /\ \A n \in Int : NYoung(failures[k], n) <= NYoung(failures'[k], n)
          /\ \A n \in Int : n >= 1 => NYoung(failures'[k], n) = NYoung(failures[k], n) + 1 \/ NYoung(failures'[k], n) >= FailThreshold
      BY <1>3, <2>3, <2>6, BumpedKey, GuardAssumption DEF GuardTypes
    <3>5. \A n : NYoung(failures[k], n) \in Nat /\ NYoung(failures'[k], n) \in Nat
      BY <2>3, RowsFinite
    <3>6. /\ \A n \in 1..CountWindow : \/ NYoung(failures[k], n) + d + broken <= NYoung(failures'[k], n) + broken'
                                       \/ NYoung(failures'[k], n) >= FailThreshold
          /\ \A n \in 1..CountWindow : NYoung(failures[k], n) <= NYoung(failures'[k], n)
      BY <2>3, <3>4, <3>5, GuardAssumption
    <3>7. /\ NRec(k) + broken + d <= NRec(k)' + broken'
          /\ NTry(k)' + broken + d <= NTry(k) + broken'
      BY <2>2, <2>3, <3>2
    <3>8. broken <= broken' /\ ban'[k].left = ban[k].left
      BY <2>3
    <3> QED
      BY <1>4, <2>3, <3>3, <3>6, <3>7, <3>8, KeyStep
  <2> QED
    BY <2>5, <2>6
<1> QED
  BY <1>1, <1>4, <1>5, Assemble

\* Login, LoginLDAP or CompleteTOTPLogin has decided.
LEMMA GuardRecords ==
  ASSUME GuardInv, NEW p \in LoginProc, NEW good \in BOOLEAN, Record(p, good) PROVE GuardInv'
<1>1. PICK r \in LoginReq : r = login[p]
  BY DEF GuardInv, GuardTypes
<1>2. PICK l : l = [r EXCEPT !.at = "settings", !.good = good, !.guess = FALSE]
  OBVIOUS
<1>3. l \in LoginReq /\ l.at = "settings" /\ l.good = good /\ l.keys = r.keys /\ l.guess = FALSE
  BY <1>2 DEF LoginReq
<1>4. /\ login' = [login EXCEPT ![p] = l] /\ r.at = "check" /\ NoBanChange /\ UNCHANGED broken
      /\ good => UNCHANGED <<failures, guesses>>
      /\ ~good => RecordFailure(r.keys[1][2], r.keys[2][2]) /\ CountGuess(p)
  BY <1>1, <1>2 DEF Record, Goto
<1>5. CASE good
  <2>1. PICK D \in SUBSET Keys : D = {}
    OBVIOUS
  <2>2. Attempt(l)
    BY <1>1, <1>3, <1>4 DEF GuardInv, Attempt
  <2>3. \A k \in Keys : ~TryAt(l, k) /\ ~RecAt(login[p], k)
    BY <1>1, <1>3, <1>4 DEF TryAt, RecAt
  <2>4. UNCHANGED <<guard, ban, failures, guesses>> /\ broken' \in Nat /\ broken <= broken'
    BY <1>4, <1>5 DEF NoBanChange, GuardInv, GuardTypes
  <2> QED
    BY <1>3, <1>4, <2>1, <2>2, <2>3, <2>4, AttemptSteps
<1>6. CASE ~good
  BY <1>1, <1>3, <1>4, <1>6, GuardRecordsBad
<1> QED
  BY <1>5, <1>6

\* RecordResult breaks off: at most one guess that is not on record, or one attempt
\* that will not decide.
LEMMA GuardBreaks ==
  ASSUME GuardInv, NEW p \in LoginProc, RecordBreaks(p) PROVE GuardInv'
<1>1. PICK r \in LoginReq : r = login[p]
  BY DEF GuardInv, GuardTypes
<1>2. PICK l \in LoginReq : l = NoLogin
  BY NoLoginIs
<1>3. /\ login' = [login EXCEPT ![p] = l] /\ UNCHANGED <<guard, ban, failures>>
      /\ broken \in Nat /\ broken' = broken + 1 /\ Attempt(r) /\ Attempt(l)
  BY <1>1, <1>2, NoLoginIs DEF RecordBreaks, Goto, NoBanChange, GuardInv, GuardTypes
<1>4. CASE r.at = "check" /\ r.guess
  <2>1. CountGuess(p)
    BY <1>1, <1>4 DEF RecordBreaks
  <2>2. GuardTypes'
    <3>1. guesses' \in [Keys -> [Ages -> Nat]]
      BY <2>1, GuessTypes DEF GuardInv
    <3> QED
      BY <1>3, <3>1 DEF GuardInv, GuardTypes
  <2>3. ASSUME NEW k \in Keys PROVE KeyOk(k)'
    <3>1. /\ NTry(k)' = NTry(k) + One(TryAt(l, k)) - One(TryAt(r, k))
          /\ NRec(k)' = NRec(k) + One(RecAt(l, k)) - One(RecAt(r, k))
      BY <1>1, <1>3, Moves DEF GuardInv
    <3>2. NTry(k) \in Nat /\ NRec(k) \in Nat /\ NTry(k)' \in Nat /\ NRec(k)' \in Nat
      BY Numbers, NumbersNext
    <3>3. /\ ban'[k].left = ban[k].left /\ failures'[k] = failures[k] /\ broken <= broken'
          /\ guesses[k] \in [Ages -> Nat] /\ failures[k] \in [Ages -> Nat] /\ GuardTypes /\ KeyOk(k)
          /\ (GuardTracks(k)' <=> GuardTracks(k))
      BY <1>3 DEF GuardInv, GuardTypes, GuardTracks
    <3>4. ~TryAt(l, k) /\ ~RecAt(r, k) /\ ~RecAt(l, k) /\ (TryAt(r, k) <=> k \in KeySet(r))
      BY <1>2, <1>4, NoLoginIs DEF TryAt, RecAt
    <3>5. \A n : NYoung(failures[k], n) \in Nat
      BY <3>3, RowsFinite
    <3>6. CASE k \notin KeySet(r)
      <4>1. guesses'[k] = guesses[k]
        BY <1>1, <2>1, <3>3, <3>6, GuessCounts
      <4>2. NTry(k)' = NTry(k) /\ NRec(k)' = NRec(k)
        BY <3>1, <3>2, <3>4, <3>6 DEF One
      <4>3. NRec(k) + broken <= NRec(k)' + broken' /\ NTry(k)' + broken <= NTry(k) + broken'
        BY <1>3, <3>2, <4>2
      <4> QED
        BY <2>2, <3>3, <4>1, <4>3, KeyKept
    <3>7. CASE k \in KeySet(r)
      <4>1. PICK d \in 0..1 : d = 1
        OBVIOUS
      <4>2. NTry(k)' = NTry(k) - d /\ NRec(k)' = NRec(k)
        BY <3>1, <3>2, <3>4, <3>7, <4>1 DEF One
      <4>3. \A n \in Int : NYoung(guesses'[k], n) <= NYoung(guesses[k], n) + d
        BY <1>1, <1>4, <2>1, <3>3, <4>1, GuessCounts DEF One
      <4>4. /\ \A n \in 1..CountWindow : NYoung(failures[k], n) + d + broken <= NYoung(failures'[k], n) + broken'
            /\ \A n \in 1..CountWindow : NYoung(failures[k], n) <= NYoung(failures'[k], n)
        BY <1>3, <3>3, <3>5, <4>1, GuardAssumption
      <4>5. /\ NRec(k) + broken + d <= NRec(k)' + broken'
            /\ NTry(k)' + broken + d <= NTry(k) + broken'
        BY <1>3, <3>2, <4>1, <4>2
      <4> QED
        BY <2>2, <3>3, <4>3, <4>4, <4>5, KeyStep
    <3> QED
      BY <3>6, <3>7
  <2> QED
    BY <1>3, <2>2, <2>3, Assemble
<1>5. CASE ~(r.at = "check" /\ r.guess)
  <2>1. PICK D \in SUBSET Keys : D = {}
    OBVIOUS
  <2>2. UNCHANGED <<guard, ban, failures, guesses>>
    BY <1>1, <1>3, <1>5 DEF RecordBreaks, CountGuess
  <2>3. \A k \in Keys : ~TryAt(l, k)
    BY <1>2, NoLoginIs
  <2>4. broken' \in Nat /\ broken <= broken' /\ broken < broken'
    BY <1>3
  <2> QED
    BY <1>3, <2>1, <2>2, <2>3, <2>4, AttemptSteps
<1> QED
  BY <1>4, <1>5

\* The next key of an attempt, or its end.
LEMMA KeyDone ==
  ASSUME GuardInv, NEW p \in LoginProc, login[p].at \in {"key", "level", "ban"}, NextKey(p)
  PROVE  \E l \in LoginReq :
           /\ login' = [login EXCEPT ![p] = l] /\ Attempt(l) /\ Head(login[p].keys) \in Keys
           /\ \A k : ~TryAt(l, k)
           /\ \A k : k # Head(login[p].keys) /\ RecAt(login[p], k) => RecAt(l, k)
           /\ login[p].good => \A k : ~RecAt(l, k)
<1>1. PICK r \in LoginReq : r = login[p]
  BY DEF GuardInv, GuardTypes
<1>2. PICK s \in Seq(Keys) : s = r.keys
  BY DEF LoginReq
<1>3. s # <<>> /\ Attempt(r) /\ r.at \in {"key", "level", "ban"}
  BY <1>1, <1>2 DEF GuardInv, Attempt
<1>4. Len(s) \in Nat /\ Len(s) >= 1 /\ Head(s) = s[1] /\ Head(s) \in Keys /\ DOMAIN s = 1..Len(s)
  BY <1>3
<1>5. CASE Len(s) > 1
  <2>1. PICK t \in Seq(Keys) : t = Tail(s)
    BY <1>3, HeadTailProperties
  <2>2. Len(t) \in Nat /\ Len(t) = Len(s) - 1 /\ DOMAIN t = 1..Len(t) /\ \A n \in 1..Len(t) : t[n] = s[n + 1]
    BY <1>3, <2>1, HeadTailProperties
  <2>3. PICK l : l = [r EXCEPT !.at = "key", !.keys = t, !.level = 0]
    OBVIOUS
  <2>4. l \in LoginReq /\ l.at = "key" /\ l.keys = t /\ l.good = r.good
    <3>1. 0 \in 0..MaxLevel
      BY GuardAssumption
    <3> QED
      BY <2>3, <3>1 DEF LoginReq
  <2>5. login' = [login EXCEPT ![p] = l] /\ Attempt(l)
    <3>1. t # <<>>
      BY <1>4, <1>5, <2>2
    <3>2. login' = [login EXCEPT ![p] = l]
      BY <1>1, <1>2, <1>5, <2>1, <2>3 DEF NextKey, Goto
    <3> QED
      BY <2>4, <3>1, <3>2 DEF Attempt
  <2>6. ASSUME NEW k, k # Head(s), k \in KeySet(r) PROVE k \in KeySet(l)
    <3>1. PICK n \in 1..Len(s) : k = s[n]
      BY <1>2, <1>4, <2>6 DEF KeySet
    <3>2. PICK m \in 1..Len(t) : m + 1 = n
      BY <1>4, <2>2, <2>6, <3>1
    <3>3. t[m] = k /\ m \in DOMAIN t
      BY <2>2, <3>1, <3>2
    <3> QED
      BY <2>4, <3>3 DEF KeySet
  <2>7. /\ (\A k : ~TryAt(l, k)) /\ (\A k : k # Head(s) /\ RecAt(r, k) => RecAt(l, k))
        /\ r.good => \A k : ~RecAt(l, k)
    BY <2>4, <2>6 DEF TryAt, RecAt
  <2> QED
    BY <1>1, <1>2, <1>4, <2>4, <2>5, <2>7
<1>6. CASE ~(Len(s) > 1)
  <2>1. PICK l \in LoginReq : l = NoLogin
    BY NoLoginIs
  <2>2. login' = [login EXCEPT ![p] = l]
    BY <1>1, <1>2, <1>6, <2>1 DEF NextKey, Goto
  <2>3. \A k \in KeySet(r) : k = Head(s)
    <3>1. DOMAIN s = {1}
      BY <1>4, <1>6
    <3> QED
      BY <1>2, <1>4, <3>1 DEF KeySet
  <2>4. \A k : k # Head(s) => ~RecAt(r, k)
    BY <2>3 DEF RecAt
  <2> QED
    BY <1>1, <1>2, <1>4, <2>1, <2>2, <2>4, NoLoginIs
<1> QED
  BY <1>5, <1>6

\* maybeEscalate counts: below the threshold the key needs no ban, and has so few
\* failures on record that its guesses are within the bound.
LEMMA GuardCounts ==
  ASSUME GuardInv, NEW p \in LoginProc, Count(p) PROVE GuardInv'
<1>1. PICK r \in LoginReq : r = login[p]
  BY DEF GuardInv, GuardTypes
<1>2. r.at = "key" /\ ~r.good /\ Attempt(r) /\ UNCHANGED <<guard, ban, failures, guesses>> /\ broken' \in Nat /\ broken <= broken'
  BY <1>1 DEF Count, NoBanChange, GuardInv, GuardTypes
<1>3. CASE CountRecentFailures(Head(r.keys)) < FailThreshold
  <2>1. NextKey(p) /\ login[p].at = "key"
    BY <1>1, <1>2, <1>3 DEF Count
  <2>2. PICK l \in LoginReq :
           /\ login' = [login EXCEPT ![p] = l] /\ Attempt(l) /\ Head(login[p].keys) \in Keys
           /\ \A k : ~TryAt(l, k)
           /\ \A k : k # Head(login[p].keys) /\ RecAt(login[p], k) => RecAt(l, k)
           /\ login[p].good => \A k : ~RecAt(l, k)
    BY <2>1, KeyDone
  <2>3. PICK D \in SUBSET Keys : D = {Head(login[p].keys)}
    BY <2>2
  <2>4. \A k \in D : SumAges(failures[k]) < FailThreshold
    BY <1>1, <1>3, <2>3 DEF CountRecentFailures
  <2> QED
    BY <1>2, <2>2, <2>3, <2>4, AttemptSteps
<1>4. CASE ~(CountRecentFailures(Head(r.keys)) < FailThreshold)
  <2>1. PICK l : l = [r EXCEPT !.at = "level"]
    OBVIOUS
  <2>2. l \in LoginReq /\ l.at = "level" /\ l.keys = r.keys /\ l.good = r.good
    BY <2>1 DEF LoginReq
  <2>3. login' = [login EXCEPT ![p] = l]
    BY <1>1, <1>4, <2>1 DEF Count, Goto
  <2>4. Attempt(l) /\ (\A k : ~TryAt(l, k)) /\ \A k : RecAt(login[p], k) => RecAt(l, k)
    BY <1>1, <1>2, <2>2 DEF Attempt, TryAt, RecAt, KeySet
  <2>5. PICK D \in SUBSET Keys : D = {}
    OBVIOUS
  <2> QED
    BY <1>2, <2>2, <2>3, <2>4, <2>5, AttemptSteps
<1> QED
  BY <1>3, <1>4

\* maybeEscalate reads the previous ban.
LEMMA GuardLevels ==
  ASSUME GuardInv, NEW p \in LoginProc, Level(p) PROVE GuardInv'
<1>1. PICK r \in LoginReq : r = login[p]
  BY DEF GuardInv, GuardTypes
<1>2. r.at = "level" /\ Attempt(r) /\ UNCHANGED <<guard, ban, failures, guesses>> /\ broken' \in Nat /\ broken <= broken'
  BY <1>1 DEF Level, NoBanChange, GuardInv, GuardTypes
<1>3. Head(r.keys) \in Keys
  <2>1. r.keys \in Seq(Keys) /\ r.keys # <<>>
    BY <1>2 DEF LoginReq, Attempt
  <2> QED
    BY <2>1
<1>4. PICK b \in [left : Int, level : 0..MaxLevel, row : BOOLEAN] : b = ban[Head(r.keys)]
  BY <1>3 DEF GuardInv, GuardTypes
<1>5. PICK v : v = IF b.row /\ -b.left <= EscalationReset
                  THEN IF b.level < MaxLevel THEN b.level + 1 ELSE MaxLevel
                  ELSE 0
  OBVIOUS
<1>6. v \in 0..MaxLevel
  BY <1>5, GuardAssumption
<1>7. PICK l : l = [r EXCEPT !.at = "ban", !.level = v]
  OBVIOUS
<1>8. l \in LoginReq /\ l.at = "ban" /\ l.keys = r.keys /\ l.good = r.good
  BY <1>6, <1>7 DEF LoginReq
<1>9. login' = [login EXCEPT ![p] = l]
  BY <1>1, <1>4, <1>5, <1>7 DEF Level, Goto
<1>10. Attempt(l) /\ (\A k : ~TryAt(l, k)) /\ \A k : RecAt(login[p], k) => RecAt(l, k)
  BY <1>1, <1>2, <1>8 DEF Attempt, TryAt, RecAt, KeySet
<1>11. PICK D \in SUBSET Keys : D = {}
  OBVIOUS
<1>12. /\ \A k \in Keys : TryAt(l, k) => TryAt(login[p], k)
       /\ \A k \in Keys : k \notin D /\ GuardTracks(k) /\ RecAt(login[p], k) => RecAt(l, k) \/ broken < broken'
       /\ \A k \in D : SumAges(failures[k]) < FailThreshold
  BY <1>10, <1>11
<1> HIDE <1>5, <1>7
<1> QED
  BY <1>2, <1>8, <1>9, <1>10, <1>12, AttemptSteps

\* A ban is no shorter than the window, whatever its level.
LEMMA BanLong ==
  ASSUME BanBase >= CountWindow, MaxBan >= CountWindow, NEW v \in 0..MaxLevel
  PROVE  BanFor(v) \in Int /\ BanFor(v) >= CountWindow
<1>1. PICK x \in Nat \ {0} : x = EscalationFactor ^ v
  BY GuardAssumption
<1>2. BanBase * x \in Nat /\ BanBase * x >= BanBase
  <2>1. BanBase \in Nat /\ x \in Nat /\ x >= 1
    BY GuardAssumption
  <2>2. PICK y \in Nat : x = y + 1
    BY <2>1
  <2>3. BanBase * (y + 1) = BanBase * y + BanBase /\ BanBase * y \in Nat
    BY <2>1
  <2> QED
    BY <2>1, <2>2, <2>3
<1>3. BanFor(v) = IF BanBase * x > MaxBan THEN MaxBan ELSE BanBase * x
  BY <1>1 DEF BanFor
<1> QED
  BY <1>2, <1>3, GuardAssumption

\* maybeEscalate writes the ban: from now on the window starts anew for the key.
LEMMA GuardBans ==
  ASSUME BanBase >= CountWindow, MaxBan >= CountWindow, GuardInv, NEW p \in LoginProc, WriteBan(p)
  PROVE  GuardInv'
<1>1. PICK h, v : h = Head(login[p].keys) /\ v = login[p].level
  OBVIOUS
<1>2. NextKey(p) /\ login[p].at = "ban" /\ v \in 0..MaxLevel
  BY <1>1 DEF WriteBan, GuardInv, GuardTypes, LoginReq
<1>3. PICK l \in LoginReq :
           /\ login' = [login EXCEPT ![p] = l] /\ Attempt(l) /\ h \in Keys
           /\ \A k : ~TryAt(l, k)
           /\ \A k : k # h /\ RecAt(login[p], k) => RecAt(l, k)
  BY <1>1, <1>2, KeyDone
<1>4. BanFor(v) \in Int /\ BanFor(v) >= CountWindow
  BY <1>2, BanLong
<1>5. /\ ban' = [ban EXCEPT ![h] = [left |-> BanFor(v), level |-> v, row |-> TRUE]]
      /\ UNCHANGED <<guard, failures, guesses, broken>>
  BY <1>1 DEF WriteBan, UpsertLoginBanState
<1>6. GuardTypes'
  <2>1. [left |-> BanFor(v), level |-> v, row |-> TRUE] \in [left : Int, level : 0..MaxLevel, row : BOOLEAN]
    BY <1>2, <1>4
  <2> QED
    BY <1>3, <1>5, <2>1 DEF GuardInv, GuardTypes
<1>7. ASSUME NEW k \in Keys PROVE KeyOk(k)'
  <2>1. /\ NTry(k)' = NTry(k) + One(TryAt(l, k)) - One(TryAt(login[p], k))
        /\ NRec(k)' = NRec(k) + One(RecAt(l, k)) - One(RecAt(login[p], k))
    BY <1>3, Moves DEF GuardInv
  <2>2. NTry(k) \in Nat /\ NRec(k) \in Nat /\ NTry(k)' \in Nat /\ NRec(k)' \in Nat /\ Cardinality(LoginProc) \in Nat
    BY Numbers, NumbersNext
  <2>3. NTry(k)' <= NTry(k)
    BY <1>3, <2>1, <2>2 DEF One
  <2>4. /\ guesses'[k] = guesses[k] /\ failures'[k] = failures[k] /\ broken' = broken /\ broken \in Nat
        /\ guesses[k] \in [Ages -> Nat] /\ GuardTypes /\ KeyOk(k) /\ (GuardTracks(k)' <=> GuardTracks(k))
    BY <1>5 DEF GuardInv, GuardTypes, GuardTracks
  <2>5. CASE k # h
    <3>1. ban'[k].left = ban[k].left
      BY <1>5, <2>4, <2>5 DEF GuardTypes
    <3>2. NRec(k) <= NRec(k)'
      BY <1>3, <2>1, <2>2, <2>5 DEF One
    <3>3. NRec(k) + broken <= NRec(k)' + broken' /\ NTry(k)' + broken <= NTry(k) + broken' /\ broken <= broken'
      BY <2>2, <2>3, <2>4, <3>2
    <3> QED
      BY <1>6, <2>4, <3>1, <3>3, KeyKept
  <2>6. CASE k = h
    <3>1. ban'[k].left = BanFor(v)
      BY <1>3, <1>5, <2>4, <2>6 DEF GuardTypes
    <3>2. Recorded(k)'
      BY <2>4 DEF KeyOk, Recorded
    <3>3. NYoung(guesses[k], CountWindow - BanFor(v)) = 0
      <4>1. PICK n \in Int : n = CountWindow - BanFor(v) /\ n <= 0
        BY <1>4, GuardAssumption
      <4> QED
        BY <2>4, <4>1, Windows
    <3>4. SinceBan(k)'
      BY <2>2, <2>4, <3>1, <3>3, GuardAssumption DEF SinceBan
    <3>5. GuardTracks(k)' => InAll(k)'
      <4>1. SumAges(guesses[k]) \in Nat
        BY <2>4, RowsFinite
      <4> QED
        BY <2>2, <2>3, <2>4, <4>1, GuardAssumption DEF KeyOk, InAll
    <3> QED
      BY <3>2, <3>4, <3>5 DEF KeyOk
  <2> QED
    BY <2>5, <2>6
<1> QED
  BY <1>3, <1>6, <1>7, Assemble

\* resetKey: a success ends the history of the key, or its statement failed.
LEMMA GuardResets ==
  ASSUME GuardInv, NEW p \in LoginProc, ResetKey(p) PROVE GuardInv'
<1>1. PICK h : h = Head(login[p].keys)
  OBVIOUS
<1>2. NextKey(p) /\ login[p].at = "key" /\ login[p].good /\ UNCHANGED <<guard, failures>>
  BY DEF ResetKey
<1>3. PICK l \in LoginReq :
           /\ login' = [login EXCEPT ![p] = l] /\ Attempt(l) /\ h \in Keys
           /\ \A k : ~TryAt(l, k)
           /\ \A k : ~RecAt(l, k)
  BY <1>1, <1>2, KeyDone
<1>4. \/ /\ ban' = [ban EXCEPT ![h] = [left |-> 0, level |-> 0, row |-> TRUE]]
         /\ guesses' = [guesses EXCEPT ![h] = [a \in DOMAIN guesses[h] |-> 0]] /\ broken' = broken
      \/ UNCHANGED <<ban, guesses>> /\ broken' = broken + 1
  BY <1>1 DEF ResetKey, UpsertLoginBanState, Forgiven
<1>5. /\ broken \in Nat /\ broken' \in Nat /\ broken <= broken' /\ GuardTypes
      /\ \A k \in Keys : k # h => ban'[k] = ban[k] /\ guesses'[k] = guesses[k]
      /\ UNCHANGED <<ban, guesses>> \/ guesses'[h] = [a \in Ages |-> 0]
  <2>1. DOMAIN guesses[h] = Ages
    BY <1>3 DEF GuardInv, GuardTypes
  <2> QED
    BY <1>3, <1>4, <2>1 DEF GuardInv, GuardTypes
<1>6. GuardTypes'
  <2>1. [left |-> 0, level |-> 0, row |-> TRUE] \in [left : Int, level : 0..MaxLevel, row : BOOLEAN]
    BY GuardAssumption
  <2>2. ban' \in [Keys -> [left : Int, level : 0..MaxLevel, row : BOOLEAN]]
    BY <1>4, <2>1 DEF GuardInv, GuardTypes
  <2>3. guesses' \in [Keys -> [Ages -> Nat]]
    <3>1. [a \in Ages |-> 0] \in [Ages -> Nat]
      OBVIOUS
    <3>2. DOMAIN guesses[h] = Ages
      BY <1>3 DEF GuardInv, GuardTypes
    <3> QED
      BY <1>3, <1>4, <3>1, <3>2 DEF GuardInv, GuardTypes
  <2> QED
    BY <1>2, <1>3, <1>5, <2>2, <2>3 DEF GuardInv, GuardTypes
<1>7. ASSUME NEW k \in Keys PROVE KeyOk(k)'
  <2>1. /\ NTry(k)' = NTry(k) + One(TryAt(l, k)) - One(TryAt(login[p], k))
        /\ NRec(k)' = NRec(k) + One(RecAt(l, k)) - One(RecAt(login[p], k))
    BY <1>3, Moves DEF GuardInv
  <2>2. NTry(k) \in Nat /\ NRec(k) \in Nat /\ NTry(k)' \in Nat /\ NRec(k)' \in Nat
    BY Numbers, NumbersNext
  <2>3. ~RecAt(login[p], k) /\ ~TryAt(login[p], k)
    BY <1>2 DEF RecAt, TryAt
  <2>4. NTry(k)' = NTry(k) /\ NRec(k)' = NRec(k)
    BY <1>3, <2>1, <2>2, <2>3 DEF One
  <2>5. NRec(k) + broken <= NRec(k)' + broken' /\ NTry(k)' + broken <= NTry(k) + broken'
    BY <1>5, <2>2, <2>4
  <2>6. KeyOk(k) /\ failures'[k] = failures[k] /\ (GuardTracks(k)' <=> GuardTracks(k))
    BY <1>2 DEF GuardInv, GuardTracks
  <2>7. CASE k # h \/ UNCHANGED <<ban, guesses>>
    <3>1. ban'[k].left = ban[k].left /\ guesses'[k] = guesses[k]
      BY <1>5, <2>7
    <3> QED
      BY <1>5, <1>6, <2>5, <2>6, <3>1, KeyKept
  <2>8. CASE k = h /\ guesses'[h] = [a \in Ages |-> 0]
    BY <1>6, <2>8, KeyCleared
  <2> QED
    BY <1>5, <2>7, <2>8
<1> QED
  BY <1>3, <1>6, <1>7, Assemble

\* The panel restarts: every attempt is gone, and counts as broken off.
LEMMA GuardRestarts ==
  ASSUME GuardInv, LoginRestart PROVE GuardInv'
<1>1. /\ login' = [p \in LoginProc |-> NoLogin] /\ UNCHANGED <<guard, ban, failures, guesses>>
      /\ broken \in Nat /\ broken' = broken + Cardinality(LoginProc) /\ Cardinality(LoginProc) \in Nat
  BY Numbers DEF LoginRestart, NoBanChange, GuardInv, GuardTypes
<1>2. GuardTypes'
  BY <1>1, NoLoginIs DEF GuardInv, GuardTypes
<1>3. ASSUME NEW k \in Keys PROVE KeyOk(k)'
  <2>1. NTry(k) \in Nat /\ NRec(k) \in Nat /\ NTry(k)' \in Nat /\ NRec(k)' \in Nat
        /\ NTry(k) + NRec(k) <= Cardinality(LoginProc) /\ NTry(k)' + NRec(k)' <= Cardinality(LoginProc)
    BY Numbers, NumbersNext
  <2>2. NRec(k) + broken <= NRec(k)' + broken' /\ NTry(k)' + broken <= NTry(k) + broken' /\ broken <= broken'
    BY <1>1, <2>1
  <2>3. KeyOk(k) /\ GuardTypes /\ failures'[k] = failures[k] /\ guesses'[k] = guesses[k] /\ ban'[k].left = ban[k].left
        /\ (GuardTracks(k)' <=> GuardTracks(k))
    BY <1>1 DEF GuardInv, GuardTracks
  <2> QED
    BY <1>2, <2>2, <2>3, KeyKept
<1>4. \A q \in LoginProc : Attempt(login[q])'
  <2>1. \A q \in LoginProc : Attempt(login'[q])
    BY <1>1, NoLoginIs
  <2> QED
    BY <2>1 DEF Attempt
<1> QED
  BY <1>2, <1>3, <1>4 DEF GuardInv

\* A step that leaves the attempts alone.
LEMMA Unattended ==
  ASSUME GuardInv, login' = login, broken' = broken, GuardTypes', \A k \in Keys : KeyOk(k)'
  PROVE  GuardInv'
<1>1. \A q \in LoginProc : Attempt(login[q])'
  BY DEF GuardInv, Attempt
<1> QED
  BY <1>1 DEF GuardInv

\* The numbers of attempts depend on the attempts alone.
LEMMA SameNumbers == ASSUME login' = login, NEW k PROVE NTry(k)' = NTry(k) /\ NRec(k)' = NRec(k)
  BY DEF NTry, NRec, Trying, Recording, TryAt, RecAt, KeySet

\* A step that changes nothing the invariant speaks of.
LEMMA GuardSame ==
  ASSUME GuardInv, UNCHANGED <<guard, ban, failures, guesses, login, broken>> PROVE GuardInv'
<1>1. GuardTypes'
  BY DEF GuardInv, GuardTypes
<1>2. ASSUME NEW k \in Keys PROVE KeyOk(k)'
  <2>1. guesses'[k] = guesses[k] /\ ban'[k].left = ban[k].left /\ failures'[k] = failures[k] /\ KeyOk(k)
        /\ (GuardTracks(k)' <=> GuardTracks(k)) /\ GuardTypes /\ broken \in Nat /\ broken' = broken
    BY DEF GuardInv, GuardTypes, GuardTracks
  <2>2. NTry(k)' = NTry(k) /\ NRec(k)' = NRec(k) /\ NTry(k) \in Nat /\ NRec(k) \in Nat
    BY SameNumbers, Numbers
  <2>3. NRec(k) + broken <= NRec(k)' + broken' /\ NTry(k)' + broken <= NTry(k) + broken' /\ broken <= broken'
    BY <2>1, <2>2
  <2> QED
    BY <1>1, <2>1, <2>3, KeyKept
<1> QED
  BY <1>1, <1>2, Unattended

\* Time passes: failures and guesses grow old together, and a ban shortens as fast.
LEMMA GuardTicks ==
  ASSUME GuardInv, LoginTick PROVE GuardInv'
<1>1. GuardTypes /\ login' = login /\ broken' = broken /\ guard' = guard /\ broken \in Nat
      /\ CountWindow \in Nat \ {0} /\ FailThreshold \in Nat \ {0} /\ EscalationReset \in Nat
  BY GuardAssumption DEF LoginTick, GuardInv, GuardTypes
<1>2. ASSUME NEW k \in Keys
      PROVE  /\ failures'[k] = Older(failures[k]) /\ guesses'[k] = Older(guesses[k])
             /\ failures[k] \in [Ages -> Nat] /\ guesses[k] \in [Ages -> Nat] /\ KeyOk(k)
             /\ Older(failures[k]) \in [Ages -> Nat] /\ Older(guesses[k]) \in [Ages -> Nat]
  <2>1. failures'[k] = Older(failures[k]) /\ guesses'[k] = Older(guesses[k]) /\ KeyOk(k)
        /\ failures[k] \in [Ages -> Nat] /\ guesses[k] \in [Ages -> Nat]
    BY DEF LoginTick, GuardInv, GuardTypes
  <2> QED
    BY <2>1, <1>1, RowsAge
<1>3. ASSUME NEW k \in Keys
      PROVE  /\ ban[k] \in [left : Int, level : 0..MaxLevel, row : BOOLEAN]
             /\ ban'[k] \in [left : Int, level : 0..MaxLevel, row : BOOLEAN]
             /\ ban'[k].left = ban[k].left - 1 \/ ban[k].left <= 0
  <2>1. PICK b \in [left : Int, level : 0..MaxLevel, row : BOOLEAN] : b = ban[k]
    BY DEF GuardInv, GuardTypes
  <2>2. NoBan.left = -EscalationReset - 1 /\ NoBan \in [left : Int, level : 0..MaxLevel, row : BOOLEAN]
    BY <1>1, GuardAssumption DEF NoBan
  <2>3. ban'[k] = IF b.left > NoBan.left + 1 THEN [b EXCEPT !.left = b.left - 1] ELSE [NoBan EXCEPT !.row = b.row]
    BY <2>1 DEF LoginTick
  <2>4. CASE b.left > NoBan.left + 1
    BY <2>1, <2>3, <2>4
  <2>5. CASE ~(b.left > NoBan.left + 1)
    <3>1. b.left <= 0
      BY <1>1, <2>2, <2>5
    <3>2. ban'[k] = [NoBan EXCEPT !.row = b.row]
      BY <2>3, <2>5
    <3> QED
      BY <2>1, <2>2, <3>1, <3>2
  <2> QED
    BY <2>4, <2>5
<1>4. GuardTypes'
  <2>1. failures' \in [Keys -> [Ages -> Nat]] /\ guesses' \in [Keys -> [Ages -> Nat]]
    BY <1>2 DEF LoginTick
  <2>2. ban' \in [Keys -> [left : Int, level : 0..MaxLevel, row : BOOLEAN]]
    <3>1. \A k \in Keys : ban'[k] \in [left : Int, level : 0..MaxLevel, row : BOOLEAN]
      BY <1>3
    <3>2. ban' = [k \in Keys |-> ban'[k]]
      BY DEF LoginTick
    <3> QED
      BY <3>1, <3>2
  <2> QED
    BY <1>1, <2>1, <2>2 DEF GuardTypes
<1>5. ASSUME NEW k \in Keys PROVE KeyOk(k)'
  <2> DEFINE g == guesses[k]
             f == failures[k]
             b == ban[k].left
             b2 == ban'[k].left
  <2>1. /\ g \in [Ages -> Nat] /\ f \in [Ages -> Nat] /\ guesses'[k] = Older(g) /\ failures'[k] = Older(f)
        /\ Older(g) \in [Ages -> Nat] /\ KeyOk(k) /\ b \in Int /\ b2 \in Int /\ (b2 = b - 1 \/ b <= 0)
        /\ SumAges(g) \in Nat /\ SumAges(Older(g)) \in Nat
    BY <1>2, <1>3, RowsFinite
  <2>2. \A n : NYoung(g, n) \in Nat /\ NYoung(f, n) \in Nat /\ NYoung(Older(g), n) \in Nat /\ NYoung(g, n) <= SumAges(g)
    BY <2>1, RowsFinite
  <2>3. \A n \in Int : NYoung(Older(g), n) <= NYoung(g, n - 1)
    BY <2>1, RowsAge
  <2>4. NTry(k)' = NTry(k) /\ NRec(k)' = NRec(k) /\ (GuardTracks(k)' <=> GuardTracks(k)) /\ NTry(k) \in Nat /\ NRec(k) \in Nat
        /\ Cardinality(LoginProc) \in Nat
    BY <1>1, SameNumbers, Numbers DEF GuardTracks
  <2> HIDE DEF g, f, b, b2
  <2>5. Recorded(k)'
    <3> SUFFICES ASSUME NEW n \in 0..CountWindow
                 PROVE  \/ NYoung(Older(g), n) <= NYoung(Older(f), n) + broken
                        \/ NYoung(Older(f), n) >= FailThreshold
      BY <1>1, <2>1 DEF Recorded
    <3>1. n \in Int /\ n <= CountWindow /\ Older(f) \in [Ages -> Nat]
      BY <1>1, <1>2 DEF f
    <3>2. CASE n = 0
      <4>1. NYoung(Older(g), n) = 0 /\ NYoung(Older(f), n) \in Nat
        BY <2>1, <3>1, <3>2, Windows, RowsFinite
      <4> QED
        BY <1>1, <4>1
    <3>3. CASE n # 0
      <4>1. NYoung(Older(g), n) = NYoung(g, n - 1) /\ NYoung(Older(f), n) = NYoung(f, n - 1)
        BY <2>1, <3>1, RowsAge
      <4>2. PICK m \in 0..CountWindow : m = n - 1
        BY <1>1, <3>1, <3>3
      <4>3. NYoung(g, m) <= NYoung(f, m) + broken \/ NYoung(f, m) >= FailThreshold
        BY <2>1 DEF KeyOk, Recorded, g, f
      <4> QED
        BY <4>1, <4>2, <4>3
    <3> QED
      BY <3>2, <3>3
  <2>6. ASSUME GuardTracks(k) PROVE SinceBan(k)' /\ InAll(k)'
    <3>1. /\ NYoung(g, CountWindow - b) <= FailThreshold - 1 + broken + NRec(k)
          /\ SumAges(g) + NTry(k) <= FailThreshold - 1 + Cardinality(LoginProc) + broken
      BY <2>1, <2>6 DEF KeyOk, SinceBan, InAll, g, b
    <3>2. NYoung(Older(g), CountWindow - b2) <= NYoung(g, CountWindow - b)
      <4>1. PICK n \in Int, m \in Int : n = CountWindow - b2 /\ m = CountWindow - b
        BY <1>1, <2>1
      <4>2. NYoung(Older(g), n) <= NYoung(g, n - 1) /\ NYoung(g, n - 1) <= SumAges(g)
        BY <2>2, <2>3
      <4>3. CASE b2 = b - 1
        <5>1. n - 1 = m
          BY <1>1, <2>1, <4>1, <4>3
        <5> QED
          BY <4>1, <4>2, <5>1
      <4>4. CASE b <= 0
        <5>1. m >= CountWindow
          BY <1>1, <2>1, <4>1, <4>4
        <5>2. NYoung(g, m) = SumAges(g)
          BY <2>1, <5>1, Windows
        <5> QED
          BY <2>1, <2>2, <4>1, <4>2, <5>2
      <4> QED
        BY <2>1, <4>3, <4>4
    <3>3. SumAges(Older(g)) <= SumAges(g)
      <4>1. CountWindow \in Int
        BY <1>1
      <4>2. SumAges(Older(g)) = NYoung(Older(g), CountWindow)
        BY <2>1, <4>1, Windows
      <4>3. NYoung(Older(g), CountWindow) <= NYoung(g, CountWindow - 1) /\ NYoung(g, CountWindow - 1) <= SumAges(g)
        BY <2>2, <2>3, <4>1
      <4> QED
        BY <2>1, <2>2, <4>2, <4>3
    <3>4. NYoung(Older(g), CountWindow - b2) <= FailThreshold - 1 + broken + NRec(k)
      BY <1>1, <2>2, <2>4, <3>1, <3>2
    <3>5. SumAges(Older(g)) + NTry(k) <= FailThreshold - 1 + Cardinality(LoginProc) + broken
      BY <1>1, <2>1, <2>4, <3>1, <3>3
    <3>6. SinceBan(k)'
      BY <1>1, <2>1, <2>4, <3>4 DEF SinceBan, b2
    <3>7. InAll(k)'
      BY <1>1, <2>1, <2>4, <3>5 DEF InAll
    <3> QED
      BY <3>6, <3>7
  <2> QED
    BY <2>4, <2>5, <2>6 DEF KeyOk
<1> QED
  BY <1>1, <1>4, <1>5, Unattended

\* The administrator: other settings and an unban end histories, rules change none.
LEMMA GuardAdmin ==
  ASSUME GuardInv,
         \/ \E s \in GuardChoices : apiLoginSecuritySettingsUpdate(s)
         \/ \E i \in IP, kind \in {"allow", "deny"} : apiLoginIPRulesAdd(i, kind) \/ apiLoginIPRulesDelete(i, kind)
         \/ \E k \in Keys : apiLoginBansUnban(k)
  PROVE  GuardInv'
<1>1. GuardTypes /\ login' = login /\ broken' = broken /\ broken \in Nat /\ failures' = failures
  BY DEF GuardInv, GuardTypes, apiLoginSecuritySettingsUpdate, apiLoginIPRulesAdd, apiLoginIPRulesDelete,
         apiLoginBansUnban, AdminChange
<1>2. ASSUME NEW s \in GuardChoices, apiLoginSecuritySettingsUpdate(s) PROVE GuardInv'
  <2>1. guard' = s /\ ban' = ban /\ guesses' = [k \in Keys |-> [a \in Ages |-> 0]]
        /\ s \in [enabled : BOOLEAN, byIP : BOOLEAN, byUsername : BOOLEAN]
    BY <1>2, GuardAssumption DEF apiLoginSecuritySettingsUpdate, SetLoginSecuritySettings, NoGuesses, Ages
  <2>2. GuardTypes'
    BY <1>1, <2>1 DEF GuardTypes
  <2>3. ASSUME NEW k \in Keys PROVE KeyOk(k)'
    <3>1. guesses'[k] = [a \in Ages |-> 0]
      BY <2>1
    <3> QED
      BY <2>2, <3>1, KeyCleared
  <2> QED
    BY <1>1, <2>2, <2>3, Unattended
<1>3. ASSUME NEW k \in Keys, apiLoginBansUnban(k) PROVE GuardInv'
  <2>1. /\ guard' = guard /\ ban' = [ban EXCEPT ![k] = [ban[k] EXCEPT !.left = 0, !.level = 0]]
        /\ guesses' = [guesses EXCEPT ![k] = [a \in DOMAIN guesses[k] |-> 0]]
    BY <1>3 DEF apiLoginBansUnban, ClearLoginBanState, Forgiven
  <2>2. PICK b \in [left : Int, level : 0..MaxLevel, row : BOOLEAN] : b = ban[k]
    BY <1>1 DEF GuardTypes
  <2>3. [b EXCEPT !.left = 0, !.level = 0] \in [left : Int, level : 0..MaxLevel, row : BOOLEAN]
    <3>1. 0 \in 0..MaxLevel /\ 0 \in Int
      BY GuardAssumption
    <3> QED
      BY <2>2, <3>1
  <2>4. DOMAIN guesses[k] = Ages
    <3>1. guesses[k] \in [Ages -> Nat]
      BY <1>1 DEF GuardTypes
    <3> QED
      BY <3>1
  <2>5. GuardTypes'
    <3>1. ban' \in [Keys -> [left : Int, level : 0..MaxLevel, row : BOOLEAN]]
      BY <1>1, <2>1, <2>2, <2>3 DEF GuardTypes
    <3>2. guesses' \in [Keys -> [Ages -> Nat]]
      BY <1>1, <2>1, <2>4 DEF GuardTypes
    <3> QED
      BY <1>1, <2>1, <3>1, <3>2 DEF GuardTypes
  <2>6. ASSUME NEW j \in Keys PROVE KeyOk(j)'
    <3>1. CASE j = k
      <4>1. guesses'[j] = [a \in Ages |-> 0]
        BY <1>1, <2>1, <2>4, <3>1 DEF GuardTypes
      <4> QED
        BY <2>5, <4>1, KeyCleared
    <3>2. CASE j # k
      <4>1. guesses'[j] = guesses[j] /\ ban'[j].left = ban[j].left /\ failures'[j] = failures[j] /\ KeyOk(j)
            /\ (GuardTracks(j)' <=> GuardTracks(j))
        BY <1>1, <2>1, <3>2 DEF GuardInv, GuardTypes, GuardTracks
      <4>2. NTry(j)' = NTry(j) /\ NRec(j)' = NRec(j) /\ NTry(j) \in Nat /\ NRec(j) \in Nat
        BY <1>1, SameNumbers, Numbers
      <4>3. NRec(j) + broken <= NRec(j)' + broken' /\ NTry(j)' + broken <= NTry(j) + broken' /\ broken <= broken'
        BY <1>1, <4>2
      <4> QED
        BY <1>1, <2>5, <4>1, <4>3, KeyKept
    <3> QED
      BY <3>1, <3>2
  <2> QED
    BY <1>1, <2>5, <2>6, Unattended
<1>4. ASSUME NEW i \in IP, NEW kind \in {"allow", "deny"}, apiLoginIPRulesAdd(i, kind) \/ apiLoginIPRulesDelete(i, kind)
      PROVE  GuardInv'
  <2>1. UNCHANGED <<guard, ban, guesses>>
    BY <1>4 DEF apiLoginIPRulesAdd, apiLoginIPRulesDelete
  <2> QED
    BY <1>1, <2>1, GuardSame
<1> QED
  BY <1>2, <1>3, <1>4

\* A fresh panel has no attempts on record.
LEMMA GuardInvInit == GuardInit => GuardInv
<1> SUFFICES ASSUME GuardInit PROVE GuardInv
  OBVIOUS
<1>1. /\ guesses = [k \in Keys |-> [a \in Ages |-> 0]] /\ failures = guesses /\ broken = 0
      /\ login = [p \in LoginProc |-> NoLogin]
  BY DEF GuardInit, Ages
<1>2. GuardTypes
  <2>1. NoBan \in [left : Int, level : 0..MaxLevel, row : BOOLEAN]
    BY GuardAssumption DEF NoBan
  <2> QED
    BY <1>1, <2>1, NoLoginIs DEF GuardInit, GuardTypes
<1>3. \A p \in LoginProc : Attempt(login[p])
  BY <1>1, NoLoginIs
<1>4. ASSUME NEW k \in Keys PROVE KeyOk(k)
  <2>1. guesses[k] = [a \in Ages |-> 0] /\ failures[k] = [a \in Ages |-> 0]
    BY <1>1
  <2>2. SumAges(guesses[k]) = 0 /\ \A n : NYoung(guesses[k], n) = 0 /\ NYoung(failures[k], n) = 0
    BY <2>1, NoRows
  <2>3. NTry(k) \in Nat /\ NRec(k) \in Nat /\ NTry(k) + NRec(k) <= Cardinality(LoginProc) /\ Cardinality(LoginProc) \in Nat
        /\ FailThreshold \in Nat \ {0}
    BY Numbers, GuardAssumption
  <2> QED
    BY <1>1, <2>2, <2>3 DEF KeyOk, Recorded, SinceBan, InAll
<1> QED
  BY <1>2, <1>3, <1>4 DEF GuardInv

\* Every step keeps the invariant, when a ban outlasts the window.
LEMMA GuardInvNext ==
  ASSUME BanBase >= CountWindow, MaxBan >= CountWindow PROVE GuardInv /\ [GuardNext]_guardVars => GuardInv'
<1> SUFFICES ASSUME GuardInv, [GuardNext]_guardVars PROVE GuardInv'
  OBVIOUS
<1>1. ASSUME NEW p \in LoginProc,
             \/ \E i \in IP, u \in Username : StartLogin(p, i, u)
             \/ NeedTOTP(p) \/ (\E good \in BOOLEAN : Record(p, good)) \/ GetSettings(p)
      PROVE  GuardInv'
  BY <1>1, GuardStarts, GuardPending, GuardRecords, GuardSettings
<1>2. ASSUME NEW p \in LoginProc, ResetKey(p) \/ Count(p) \/ Level(p) \/ WriteBan(p) \/ RecordBreaks(p)
      PROVE  GuardInv'
  BY <1>2, GuardResets, GuardCounts, GuardLevels, GuardBans, GuardBreaks
<1>3. CASE LoginRestart \/ LoginTick
  BY <1>3, GuardRestarts, GuardTicks
<1>4. CASE UNCHANGED guardVars
  BY <1>4, GuardSame DEF guardVars
<1> QED
  BY <1>1, <1>2, <1>3, <1>4, GuardAdmin DEF GuardNext

\* CheckLogin, RecordResult and maybeEscalate: for every threshold, window, ban,
\* escalation and number of parallel attempts, whoever keeps failing gets no more
\* guesses in a window than the threshold less one, one for every request there can
\* be at once, and one for every RecordResult that broke off.
THEOREM GuessesBounded == GuardSpec => []GuessBound
<1>1. CASE BanBase >= CountWindow /\ MaxBan >= CountWindow
  <2>1. GuardInv => GuessBound
    <3> SUFFICES ASSUME GuardInv, NEW k \in Keys, GuardTracks(k)
                 PROVE  SumAges(guesses[k]) <= FailThreshold - 1 + Cardinality(LoginProc) + broken
      BY DEF GuessBound
    <3>1. InAll(k) /\ guesses[k] \in [Ages -> Nat] /\ broken \in Nat
      BY DEF GuardInv, KeyOk, GuardTypes
    <3>2. SumAges(guesses[k]) \in Nat /\ NTry(k) \in Nat /\ Cardinality(LoginProc) \in Nat
      BY <3>1, RowsFinite, Numbers
    <3> QED
      BY <3>1, <3>2, GuardAssumption DEF InAll
  <2>2. GuardInv /\ [GuardNext]_guardVars => GuardInv'
    BY <1>1, GuardInvNext
  <2> QED
    BY <2>1, <2>2, GuardInvInit, PTL DEF GuardSpec
<1>2. CASE ~(BanBase >= CountWindow /\ MaxBan >= CountWindow)
  <2>1. GuessBound
    BY <1>2 DEF GuessBound
  <2>2. GuardSpec => []GuessBound
    BY <2>1, PTL
  <2> QED
    BY <2>2
<1> QED
  BY <1>1, <1>2

=============================================================================
