------------------------------ MODULE Accounts ------------------------------
(***************************************************************************)
(* Accounts, login methods and sessions: auth.Manager and the handlers of  *)
(* the Users, Account and Auth-methods pages.  Every request is            *)
(* authenticated first, then reads what it checks, then writes; two run at *)
(* once.  Passwords and codes are right or wrong by choice; the           *)
(* brute-force guard in front of the logins is LoginGuard.                 *)
(***************************************************************************)
EXTENDS Naturals, FiniteSets

CONSTANTS Account,     \* rows of users; a row that is deleted never comes back
          Source,      \* its auth_source: "local", "ldap" or "oidc"
          Emergency,   \* EMERGENCY_ADMIN_USERNAME, or NoAccount
          NoAccount, Token, Group, AcctProc,
          MaxAcctStep  \* bound: logins and requests that begin

Role == {"admin", "user"}
Method == {"local", "ldap", "oidc"}

ASSUME AccountAssumption ==
    /\ Source \in [Account -> Method] /\ \A a \in Account : NoAccount # a
    /\ Emergency \in Account \cup {NoAccount}
    /\ Emergency \in Account => Source[Emergency] = "local"

NoRow == [row |-> "none", role |-> "user", enabled |-> TRUE, portal |-> TRUE, totp |-> FALSE]
NoReq == [at |-> "idle", by |-> NoAccount, of |-> NoAccount, op |-> "none", val |-> "none"]

VARIABLES
    user,       \* users
    method,     \* internal_auth_settings, ldap_settings, oidc_settings: those enabled
    rules,      \* auth_group_rules
    session,    \* sessions: the account of a token
    waiting,    \* accounts with a pending token good for the second factor
    oidcState,  \* a signed OIDC state is out and has not expired
    req,        \* the requests under way
    excused,    \* history: two requests that take admins away overlapped, or a
                \* directory took the role away
    acctSteps

acctVars == <<user, method, rules, session, waiting, oidcState, req, excused, acctSteps>>

Live(a) == a # NoAccount /\ user[a].row = "live"
EnabledAdmins == {a \in Account : Live(a) /\ user[a].role = "admin" /\ user[a].enabled}

\* A panel that has been set up: SeedAdmin made the first local admin, there may be
\* another, and external methods and group rules may be in use.
AcctInit ==
    /\ user \in [Account -> {NoRow, [NoRow EXCEPT !.row = "live", !.role = "admin"]}]
    /\ \E a \in Account : Source[a] = "local" /\ Live(a)
    /\ \A a \in Account : Source[a] # "local" => ~Live(a)
    /\ method \in {{"local"}, Method}
    /\ rules \in {{}, {"ldap", "oidc"} \X {"admin"} \X Group}
    /\ session = [t \in Token |-> NoAccount]
    /\ waiting = {} /\ oidcState = FALSE
    /\ req = [p \in AcctProc |-> NoReq]
    /\ excused = FALSE /\ acctSteps = 0

-----------------------------------------------------------------------------
(* Logging in *)

Put(p, r) == req' = [req EXCEPT ![p] = r]
Begin(p) == req[p].at = "idle" /\ acctSteps < MaxAcctStep /\ acctSteps' = acctSteps + 1
SameTables == UNCHANGED <<user, method, rules>>

checkAccountLoginAllowed(a) ==
    user[a].enabled /\ (user[a].role = "user" => user[a].portal)

LocalAllowed(a) == "local" \in method \/ a = Emergency
Session(a) == [NoReq EXCEPT !.at = "session", !.of = a]

\* Login with the right password: a session, or a pending token if the account
\* has a second factor.  Any other outcome changes nothing here.
Login(p, a) ==
    /\ Begin(p)
    /\ Source[a] = "local" /\ LocalAllowed(a) /\ Live(a) /\ checkAccountLoginAllowed(a)
    /\ \/ user[a].totp /\ waiting' = waiting \cup {a} /\ UNCHANGED req
       \/ ~user[a].totp /\ Put(p, Session(a)) /\ UNCHANGED waiting
    /\ SameTables /\ UNCHANGED <<session, oidcState, excused>>

\* Everything about the account is looked up again.
CompleteTOTPLogin(a) == Live(a) /\ user[a].totp /\ checkAccountLoginAllowed(a)

\* A pending token may be used until it expires.
apiLogin2FA(p, a) ==
    /\ Begin(p)
    /\ a \in waiting /\ CompleteTOTPLogin(a)
    /\ Put(p, Session(a))
    /\ SameTables /\ UNCHANGED <<session, waiting, oidcState, excused>>

StartOIDC ==
    /\ "oidc" \in method /\ ~oidcState /\ oidcState' = TRUE
    /\ SameTables /\ UNCHANGED <<session, waiting, req, excused, acctSteps>>

\* The directory lets the user bind and reports the groups.
LoginLDAP == "ldap" \in method
\* The IdP vouches for the user, for a state that has not expired.
FinishOIDC == "oidc" \in method /\ oidcState

\* An external login by a member of the groups gs.
ExternalLogin(p, a, gs) ==
    /\ Begin(p)
    /\ Source[a] # "local" /\ user[a].row # "gone"
    /\ IF Source[a] = "ldap" THEN LoginLDAP ELSE FinishOIDC
    /\ Put(p, [NoReq EXCEPT !.at = "rules", !.of = a, !.val = gs])
    /\ SameTables /\ UNCHANGED <<session, waiting, oidcState, excused>>

\* Admin rules are looked at before user rules; no match denies the login.
resolveRole(m, gs) ==
    IF \E g \in gs : <<m, "admin", g>> \in rules THEN "admin"
    ELSE IF \E g \in gs : <<m, "user", g>> \in rules THEN "user" ELSE "none"

ResolveRole(p) ==
    LET role == resolveRole(Source[req[p].of], req[p].val)
    IN /\ req[p].at = "rules"
       /\ Put(p, IF role = "none" THEN NoReq ELSE [req[p] EXCEPT !.at = "upsert", !.val = role])
       /\ SameTables /\ UNCHANGED <<session, waiting, oidcState, excused, acctSteps>>

\* UpsertExternalUser creates the account or only sets its role.
UpsertExternalUser(p) ==
    LET a == req[p].of
        new == [user[a] EXCEPT !.row = "live", !.role = req[p].val]
        allowed == new.enabled /\ (new.role = "user" => new.portal)
    IN /\ req[p].at = "upsert"
       /\ user[a].row # "gone"
       /\ user' = [user EXCEPT ![a] = new]
       /\ Put(p, IF allowed THEN Session(a) ELSE NoReq)
       /\ excused' = (excused \/ (Live(a) /\ user[a].role = "admin" /\ req[p].val = "user"))
       /\ UNCHANGED <<method, rules, session, waiting, oidcState, acctSteps>>

\* An account deleted meanwhile comes back as a new row, outside this model.
UpsertOfDeleted(p) ==
    /\ req[p].at = "upsert" /\ user[req[p].of].row = "gone" /\ Put(p, NoReq)
    /\ SameTables /\ UNCHANGED <<session, waiting, oidcState, excused, acctSteps>>

\* Tokens are random, so which one is drawn does not matter.
FreeToken == CHOOSE t \in Token : session[t] = NoAccount \/ \A s \in Token : session[s] # NoAccount

CreateSessionAnyway(p) ==
    /\ req[p].at = "session"
    /\ LET t == FreeToken IN session[t] = NoAccount /\ session' = [session EXCEPT ![t] = req[p].of]
    /\ Put(p, NoReq)
    /\ SameTables /\ UNCHANGED <<waiting, oidcState, excused, acctSteps>>
\* createSession: sessions.user_id references users, so a row that is gone refuses.
CreateSession(p) ==
    /\ req[p].at = "session"
    /\ \/ /\ Live(req[p].of)
          /\ LET t == FreeToken IN session[t] = NoAccount /\ session' = [session EXCEPT ![t] = req[p].of]
       \/ ~Live(req[p].of) /\ UNCHANGED session
    /\ Put(p, NoReq)
    /\ SameTables /\ UNCHANGED <<waiting, oidcState, excused, acctSteps>>

\* Logout, and the expiry of a session or of a token.
SessionEnds(t) ==
    /\ session[t] # NoAccount /\ session' = [session EXCEPT ![t] = NoAccount]
    /\ SameTables /\ UNCHANGED <<waiting, oidcState, req, excused, acctSteps>>
TokensExpire ==
    /\ waiting # {} \/ oidcState
    /\ waiting' = {} /\ oidcState' = FALSE
    /\ SameTables /\ UNCHANGED <<session, req, excused, acctSteps>>

-----------------------------------------------------------------------------
(* Requests *)

\* The join of GetSession: a row that is enabled and, for the portal, let in.
GetSession(t) ==
    session[t] # NoAccount /\ Live(session[t]) /\ checkAccountLoginAllowed(session[t])

\* Authenticate: and whose method is still on.
Authenticate(t) ==
    LET a == session[t]
    IN GetSession(t) /\ IF Source[a] = "local" THEN LocalAllowed(a) ELSE Source[a] \in method

SelfOps == {"totpOn", "totpOff"}
RemoveOps == {"delete", "disable"}
UserOps == {"delete", "disable", "enable", "portalOn", "portalOff"}

\* requireAuthAPI; a portal account reaches only what is about itself.
requireAuthAPI(p, t, op, of, val) ==
    /\ Begin(p)
    /\ Authenticate(t)
    /\ IF op \in SelfOps THEN of = session[t] ELSE user[session[t]].role = "admin"
    /\ Put(p, [NoReq EXCEPT !.at = "check", !.by = session[t], !.of = of, !.op = op, !.val = val])
    /\ SameTables /\ UNCHANGED <<session, waiting, oidcState, excused>>

CountUsersByRole(role) == Cardinality({a \in Account : Live(a) /\ user[a].role = role})

MayDeleteSelf(p) ==
    user[req[p].of].role = "admin" => CountUsersByRole("admin") > 1
\* apiUsersDelete: never the last admin, never oneself.
MayDelete(p) ==
    /\ user[req[p].of].role = "admin" => CountUsersByRole("admin") > 1
    /\ req[p].of # req[p].by

\* apiUsersSetEnabled(false): never oneself, never the last enabled admin.
MayDisable(p) ==
    /\ req[p].of # req[p].by
    /\ user[req[p].of].role = "admin" => Cardinality(EnabledAdmins) > 1

\* What each handler reads first and refuses: an account that does not exist, and
\* what the above rules out.
Check(p) ==
    LET r == req[p]
        found == r.of # NoAccount => IF r.op = "create" THEN Source[r.of] = "local" /\ user[r.of].row = "none"
                                                       ELSE Live(r.of)
        may == /\ r.op = "delete" => MayDelete(p)
               /\ r.op = "disable" => MayDisable(p)
    IN /\ r.at = "check"
       /\ Put(p, IF found /\ may THEN [r EXCEPT !.at = "write"] ELSE NoReq)
       /\ SameTables /\ UNCHANGED <<session, waiting, oidcState, excused, acctSteps>>

\* The statements that change users; one that finds no row changes nothing.
CreateUser(a, role) ==
    user' = [user EXCEPT ![a] = IF @.row = "none" THEN [NoRow EXCEPT !.row = "live", !.role = role]
                                                  ELSE @]
Update(a, f(_)) == user' = [user EXCEPT ![a] = IF Live(a) THEN f(@) ELSE @]
UpdateUserEnabled(a, b) == LET Set(u) == [u EXCEPT !.enabled = b] IN Update(a, Set)
UpdateUserPortalAccess(a, b) == LET Set(u) == [u EXCEPT !.portal = b] IN Update(a, Set)
SetUserTOTP(a, b) == LET Set(u) == [u EXCEPT !.totp = b] IN Update(a, Set)
\* ON DELETE CASCADE takes the sessions along.
DeleteUser(a) ==
    /\ user' = [user EXCEPT ![a] = [NoRow EXCEPT !.row = "gone"]]
    /\ session' = [t \in Token |-> IF session[t] = a THEN NoAccount ELSE session[t]]

\* The last statement of request p.
Finish(p) == Put(p, NoReq) /\ UNCHANGED <<method, rules, waiting, oidcState, acctSteps>>
Writes(p, op) == req[p].at = "write" /\ req[p].op = op

Overlapped(p) == \E q \in AcctProc \ {p} : req[q].at \in {"check", "write"} /\ req[q].op \in RemoveOps

apiUsersCreate(p) ==
    /\ Writes(p, "create") /\ CreateUser(req[p].of, req[p].val)
    /\ Finish(p) /\ UNCHANGED <<session, excused>>
\* The account's clients are removed from the hosts on the way (AccessRequests).
apiUsersDelete(p) ==
    /\ Writes(p, "delete") /\ DeleteUser(req[p].of)
    /\ excused' = (excused \/ Overlapped(p))
    /\ Finish(p)
apiUsersSetEnabled(p) ==
    /\ \/ Writes(p, "enable") /\ UpdateUserEnabled(req[p].of, TRUE) /\ UNCHANGED excused
       \/ Writes(p, "disable") /\ UpdateUserEnabled(req[p].of, FALSE)
          /\ excused' = (excused \/ Overlapped(p))
    /\ Finish(p) /\ UNCHANGED session
apiUsersSetPortalAccess(p) ==
    /\ \/ Writes(p, "portalOn") /\ UpdateUserPortalAccess(req[p].of, TRUE)
       \/ Writes(p, "portalOff") /\ UpdateUserPortalAccess(req[p].of, FALSE)
    /\ Finish(p) /\ UNCHANGED <<session, excused>>
\* With a valid code of the new secret.
EnableTOTP(p) ==
    /\ Writes(p, "totpOn") /\ SetUserTOTP(req[p].of, TRUE)
    /\ Finish(p) /\ UNCHANGED <<session, excused>>
\* With the right password.
DisableTOTP(p) ==
    /\ Writes(p, "totpOff") /\ SetUserTOTP(req[p].of, FALSE)
    /\ Finish(p) /\ UNCHANGED <<session, excused>>

Toggled(set, x) == IF x \in set THEN set \ {x} ELSE set \cup {x}

\* Each method is switched by its own handler, whatever becomes of the others.
SetMethod(p, m) ==
    /\ Writes(p, "methods") /\ req[p].val = m /\ method' = Toggled(method, m)
    /\ Put(p, NoReq)
    /\ UNCHANGED <<user, rules, session, waiting, oidcState, excused, acctSteps>>
apiInternalAuthUpdate(p) == SetMethod(p, "local")
apiLDAPSettingsUpdate(p) == SetMethod(p, "ldap")
apiOIDCSettingsUpdate(p) == SetMethod(p, "oidc")

\* A group rule is added or deleted.
apiAuthGroupRules(p) ==
    /\ Writes(p, "rules") /\ rules' = Toggled(rules, req[p].val)
    /\ Put(p, NoReq)
    /\ UNCHANGED <<user, method, session, waiting, oidcState, excused, acctSteps>>

\* The break-glass admin is created, or made an enabled admin again.
SeedEmergencyAdmin ==
    user' = IF Emergency \in Account /\ user[Emergency].row # "gone"
            THEN [user EXCEPT ![Emergency] =
                    [@ EXCEPT !.row = "live", !.role = "admin", !.enabled = TRUE]]
            ELSE user

\* A restart: the requests are gone, the rows and the signed tokens are not.
AcctRestart ==
    /\ acctSteps < MaxAcctStep /\ acctSteps' = acctSteps + 1
    /\ req' = [p \in AcctProc |-> NoReq]
    /\ SeedEmergencyAdmin
    /\ UNCHANGED <<method, rules, session, waiting, oidcState, excused>>

\* Rules of a method without an account have no consequences.
UsedMethods == {Source[a] : a \in Account}

Requests(p, t) ==
    \/ \E op \in UserOps, a \in Account : requireAuthAPI(p, t, op, a, "none")
    \/ \E op \in SelfOps : requireAuthAPI(p, t, op, session[t], "none")
    \/ \E a \in Account, role \in Role : requireAuthAPI(p, t, "create", a, role)
    \/ \E m \in Method : requireAuthAPI(p, t, "methods", NoAccount, m)
    \/ \E m \in UsedMethods \ {"local"}, role \in Role, g \in Group :
         requireAuthAPI(p, t, "rules", NoAccount, <<m, role, g>>)

AcctNext ==
    \/ \E p \in AcctProc :
        \/ \E a \in Account : Login(p, a) \/ apiLogin2FA(p, a)
                              \/ \E gs \in SUBSET Group : ExternalLogin(p, a, gs)
        \/ ResolveRole(p) \/ UpsertExternalUser(p) \/ UpsertOfDeleted(p) \/ CreateSession(p)
        \/ Check(p) \/ apiUsersCreate(p) \/ apiUsersDelete(p) \/ apiUsersSetEnabled(p)
        \/ apiUsersSetPortalAccess(p) \/ EnableTOTP(p) \/ DisableTOTP(p)
        \/ apiInternalAuthUpdate(p) \/ apiLDAPSettingsUpdate(p) \/ apiOIDCSettingsUpdate(p)
        \/ apiAuthGroupRules(p)
        \/ \E t \in Token : Requests(p, t)
    \/ StartOIDC \/ TokensExpire \/ AcctRestart
    \/ \E t \in Token : SessionEnds(t)

AcctSpec == AcctInit /\ [][AcctNext]_acctVars

-----------------------------------------------------------------------------
(* Properties *)

\* Nobody can be locked out from the Users page: an enabled admin account always
\* remains, unless two requests that take admins away overlapped, or a directory
\* stopped vouching for one.
AdminKept == EnabledAdmins # {} \/ excused

\* Whatever a login that is under way and a deletion do to each other, a deleted
\* account has no session left.
NoOrphanSession == \A t \in Token : session[t] # NoAccount => Live(session[t])

=============================================================================
