----------------------------- MODULE LoginGuard -----------------------------
(***************************************************************************)
(* BruteForceGuard around /api/login and /api/login/2fa: several requests  *)
(* at once, each statement of the guard a step of its own.  What a         *)
(* password or a code is worth is decided by Accounts; here a check turns  *)
(* out good, bad or needing a second factor.  Time is relative: a row of   *)
(* login_attempts has an age, a ban the time it still runs (negative: the  *)
(* time since it ended), so that no clock grows.                           *)
(***************************************************************************)
EXTENDS Integers, FiniteSets, Sequences

CONSTANTS LoginProc, IP, Username,
          NoName,         \* the empty username, which is never tracked
          FailThreshold, CountWindow, BanBase, EscalationFactor,
          EscalationReset, MaxBan,
          MaxLevel,       \* bound: from this level on the ban is the same
          GuardChoices,   \* the settings an administrator picks from
          MaxUpset        \* bound: changes by the administrator, failed statements, restarts

ASSUME GuardAssumption ==
    /\ FailThreshold \in Nat \ {0} /\ CountWindow \in Nat \ {0}
    /\ BanBase \in Nat \ {0} /\ MaxBan \in Nat \ {0}
    /\ EscalationFactor \in Nat \ {0} /\ EscalationReset \in Nat /\ MaxLevel \in Nat
    /\ \A l \in 0..MaxLevel : EscalationFactor ^ l \in Nat \ {0}
    /\ EscalationFactor = 1 \/ MaxBan <= BanBase * EscalationFactor ^ MaxLevel
    /\ IsFiniteSet(LoginProc) /\ MaxUpset \in Nat
    /\ GuardChoices \subseteq [enabled : BOOLEAN, byIP : BOOLEAN, byUsername : BOOLEAN]

Keys == ({"ip"} \X IP) \cup ({"username"} \X Username)
NoBan == [left |-> -EscalationReset - 1, level |-> 0, row |-> FALSE]
NoLogin == [at |-> "idle", keys |-> <<>>, good |-> FALSE, guess |-> FALSE,
            level |-> 0]

VARIABLES
    guard,      \* login_security_settings
    rule,       \* login_ip_rules: the kinds of the rules that match an address
    ban,        \* login_ban_state
    failures,   \* login_attempts with success = false, per key and age
    login,      \* the requests
    guesses,    \* history: guarded credential checks that failed, per key and age
    broken,     \* history: requests whose RecordResult broke off
    guardChanges

guardVars == <<guard, rule, ban, failures, login, guesses, broken, guardChanges>>

GuardInit ==
    /\ guard = [enabled |-> TRUE, byIP |-> TRUE, byUsername |-> TRUE]
    /\ rule \in [IP -> {{}, {"deny"}}]
    /\ ban = [k \in Keys |-> NoBan]
    /\ failures = [k \in Keys |-> [a \in 0..CountWindow - 1 |-> 0]]
    /\ guesses = failures
    /\ login = [p \in LoginProc |-> NoLogin]
    /\ broken = 0 /\ guardChanges = 0

-----------------------------------------------------------------------------
(* The guard's reads *)

\* The keys that the settings have tracked, the address before the name.
Tracked(i, u) ==
    (IF guard.byIP THEN << <<"ip", i>> >> ELSE <<>>) \o
    (IF guard.byUsername /\ u # NoName THEN << <<"username", u>> >> ELSE <<>>)

Banned(k) == ban[k].left > 0

\* A deny rule comes before an allow rule.
matchIPRules(i) ==
    IF "deny" \in rule[i] THEN "deny" ELSE IF "allow" \in rule[i] THEN "allow" ELSE ""

\* CheckLogin: settings, address rules, then the bans of the tracked keys.
CheckLogin(i, u) ==
    IF ~guard.enabled \/ matchIPRules(i) = "allow" THEN "unguarded"
    ELSE IF matchIPRules(i) = "deny" \/ \E n \in DOMAIN Tracked(i, u) : Banned(Tracked(i, u)[n])
         THEN "refused" ELSE "guarded"

\* The rows a count per age stands for, and their number.
RowsOf(count) == UNION {{a} \X (1..count[a]) : a \in DOMAIN count}
SumAges(count) == Cardinality(RowsOf(count))
CountRecentFailures(k) == SumAges(failures[k])

\* One more at age 0; more than `top' of one age are not told apart.
Bumped(counts, ks, top) ==
    [k \in Keys |-> IF k \in ks THEN [counts[k] EXCEPT ![0] = IF @ < top THEN @ + 1 ELSE @]
                                ELSE counts[k]]
GuessTop == FailThreshold + Cardinality(LoginProc) + MaxUpset * Cardinality(LoginProc)
KeysOf(i, u) == {<<"ip", i>>, <<"username", u>>}

\* RecordLoginAttempt of a failure.
RecordFailure(i, u) == failures' = Bumped(failures, KeysOf(i, u), FailThreshold)

\* An attempt that was turned away is a row like that of a wrong password.
LogRejected(i, u) == RecordFailure(i, u)

-----------------------------------------------------------------------------
(* apiLogin and apiLogin2FA *)

Goto(p, l) == login' = [login EXCEPT ![p] = l]
Upsets == broken + guardChanges
NoBanChange == UNCHANGED <<guard, rule, ban, guardChanges>>

\* CheckLogin turns the attempt away, which LogRejected writes down, or lets it
\* go on to the password or the code.
StartLogin(p, i, u) ==
    /\ login[p].at = "idle"
    /\ \/ /\ CheckLogin(i, u) = "refused"
          /\ LogRejected(i, u)
          /\ UNCHANGED login
       \/ /\ CheckLogin(i, u) # "refused"
          /\ Goto(p, [NoLogin EXCEPT !.at = "check", !.keys = << <<"ip", i>>, <<"username", u>> >>,
                                     !.guess = CheckLogin(i, u) = "guarded"])
          /\ UNCHANGED failures
    /\ NoBanChange /\ UNCHANGED <<guesses, broken>>

\* A good password of an account with a second factor yields a pending token, and
\* records nothing.
NeedTOTP(p) ==
    /\ login[p].at = "check"
    /\ Goto(p, NoLogin)
    /\ NoBanChange /\ UNCHANGED <<failures, guesses, broken>>

CountGuess(p) ==
    guesses' = IF login[p].guess
               THEN Bumped(guesses, {login[p].keys[n] : n \in DOMAIN login[p].keys}, GuessTop)
               ELSE guesses

\* Login, LoginLDAP or CompleteTOTPLogin decides, and RecordResult begins: the
\* attempt, then the settings again, then each tracked key.
Record(p, good) ==
    /\ login[p].at = "check"
    /\ IF good THEN UNCHANGED <<failures, guesses>>
       ELSE RecordFailure(login[p].keys[1][2], login[p].keys[2][2]) /\ CountGuess(p)
    /\ Goto(p, [login[p] EXCEPT !.at = "settings", !.good = good, !.guess = FALSE])
    /\ NoBanChange /\ UNCHANGED <<broken>>

NextKey(p) ==
    Goto(p, IF Len(login[p].keys) > 1
            THEN [login[p] EXCEPT !.at = "key", !.keys = Tail(@), !.level = 0]
            ELSE NoLogin)

GetSettings(p) ==
    LET ks == Tracked(login[p].keys[1][2], login[p].keys[2][2])
    IN /\ login[p].at = "settings"
       /\ Goto(p, IF guard.enabled /\ ks # <<>> THEN [login[p] EXCEPT !.at = "key", !.keys = ks]
                                               ELSE NoLogin)
       /\ NoBanChange /\ UNCHANGED <<failures, guesses, broken>>

UpsertLoginBanState(k, left, level) ==
    ban' = [ban EXCEPT ![k] = [left |-> left, level |-> level, row |-> TRUE]]

\* The history a success or an unban ends.
Forgiven(k) == guesses' = [guesses EXCEPT ![k] = [a \in DOMAIN @ |-> 0]]

\* A success clears the escalation of the key (a failed statement is ignored).
ResetKey(p) ==
    LET k == Head(login[p].keys)
    IN /\ login[p].at = "key" /\ login[p].good
       /\ \/ /\ UpsertLoginBanState(k, 0, 0)
             /\ Forgiven(k) /\ UNCHANGED broken
          \/ /\ Upsets < MaxUpset /\ broken' = broken + 1
             /\ UNCHANGED <<ban, guesses>>
       /\ NextKey(p)
       /\ UNCHANGED <<guard, rule, guardChanges, failures>>

\* maybeEscalate, first half: has the key reached the threshold?
CountStrict(p) ==
    /\ login[p].at = "key" /\ ~login[p].good
    /\ IF CountRecentFailures(Head(login[p].keys)) <= FailThreshold
       THEN NextKey(p)
       ELSE Goto(p, [login[p] EXCEPT !.at = "level"])
    /\ NoBanChange /\ UNCHANGED <<failures, guesses, broken>>
Count(p) ==
    /\ login[p].at = "key" /\ ~login[p].good
    /\ IF CountRecentFailures(Head(login[p].keys)) < FailThreshold
       THEN NextKey(p)
       ELSE Goto(p, [login[p] EXCEPT !.at = "level"])
    /\ NoBanChange /\ UNCHANGED <<failures, guesses, broken>>

BanFor(level) == LET m == BanBase * EscalationFactor ^ level IN IF m > MaxBan THEN MaxBan ELSE m

\* The level follows from the previous ban.
Level(p) ==
    LET prev == ban[Head(login[p].keys)]
        level == IF prev.row /\ -prev.left <= EscalationReset
                 THEN IF prev.level < MaxLevel THEN prev.level + 1 ELSE MaxLevel
                 ELSE 0
    IN /\ login[p].at = "level"
       /\ Goto(p, [login[p] EXCEPT !.at = "ban", !.level = level])
       /\ NoBanChange /\ UNCHANGED <<failures, guesses, broken>>

\* The end of the ban is reckoned in the argument of the statement.
WriteBan(p) ==
    /\ login[p].at = "ban"
    /\ UpsertLoginBanState(Head(login[p].keys), BanFor(login[p].level), login[p].level)
    /\ NextKey(p)
    /\ UNCHANGED <<guard, rule, guardChanges, failures, guesses, broken>>

\* RecordResult returns at the first statement that fails, and its caller goes on.
RecordBreaks(p) ==
    /\ Upsets < MaxUpset
    /\ login[p].at # "idle" /\ ~login[p].good
    /\ broken' = broken + 1
    /\ IF login[p].at = "check" THEN CountGuess(p) ELSE UNCHANGED guesses
    /\ Goto(p, NoLogin)
    /\ NoBanChange /\ UNCHANGED <<failures>>

\* The panel restarts: the requests are gone, the tokens (signed) stay good.
LoginRestart ==
    /\ Upsets < MaxUpset
    /\ \E p \in LoginProc : login[p].at # "idle"
    /\ login' = [p \in LoginProc |-> NoLogin]
    /\ broken' = broken + Cardinality(LoginProc)
    /\ NoBanChange /\ UNCHANGED <<failures, guesses>>

-----------------------------------------------------------------------------
(* The administrator, and time *)

AdminChange ==
    /\ Upsets < MaxUpset /\ guardChanges' = guardChanges + 1
    /\ UNCHANGED <<failures, login, broken>>
NoGuesses == [k \in Keys |-> [a \in 0..CountWindow - 1 |-> 0]]

SetLoginSecuritySettings(s) == guard' = s
AddLoginIPRule(i, kind) == rule' = [rule EXCEPT ![i] = @ \cup {kind}]
DeleteLoginIPRule(i, kind) == kind \in rule[i] /\ rule' = [rule EXCEPT ![i] = @ \ {kind}]
\* An UPDATE: a key that was never banned has no row.
ClearLoginBanState(k) ==
    /\ ban[k].row
    /\ ban' = [ban EXCEPT ![k] = [@ EXCEPT !.left = 0, !.level = 0]]

\* The bound on guesses starts anew under other settings.
apiLoginSecuritySettingsUpdate(s) ==
    /\ AdminChange /\ SetLoginSecuritySettings(s)
    /\ guesses' = NoGuesses
    /\ UNCHANGED <<rule, ban>>

apiLoginIPRulesAdd(i, kind) ==
    /\ AdminChange /\ AddLoginIPRule(i, kind)
    /\ UNCHANGED <<guard, ban, guesses>>
apiLoginIPRulesDelete(i, kind) ==
    /\ AdminChange /\ DeleteLoginIPRule(i, kind)
    /\ UNCHANGED <<guard, ban, guesses>>

apiLoginBansUnban(k) ==
    /\ AdminChange /\ ClearLoginBanState(k)
    /\ Forgiven(k)
    /\ UNCHANGED <<guard, rule>>

Older(count) == [a \in DOMAIN count |-> IF a = 0 THEN 0 ELSE count[a - 1]]

\* Time passes.  A ban that ended longer ago than EscalationReset has no level
\* left to add to.
LoginTick ==
    /\ ban' = [k \in Keys |-> IF ban[k].left > NoBan.left + 1
                              THEN [ban[k] EXCEPT !.left = @ - 1]
                              ELSE [NoBan EXCEPT !.row = ban[k].row]]
    /\ failures' = [k \in Keys |-> Older(failures[k])]
    /\ guesses' = [k \in Keys |-> Older(guesses[k])]
    /\ UNCHANGED <<guard, login, rule, broken, guardChanges>>

GuardNext ==
    \/ \E p \in LoginProc :
        \/ \E i \in IP, u \in Username : StartLogin(p, i, u)
        \/ NeedTOTP(p) \/ (\E good \in BOOLEAN : Record(p, good)) \/ GetSettings(p) \/ ResetKey(p)
        \/ Count(p) \/ Level(p) \/ WriteBan(p) \/ RecordBreaks(p)
    \/ LoginRestart \/ LoginTick
    \/ \E s \in GuardChoices : apiLoginSecuritySettingsUpdate(s)
    \/ \E i \in IP, kind \in {"allow", "deny"} : apiLoginIPRulesAdd(i, kind) \/ apiLoginIPRulesDelete(i, kind)
    \/ \E k \in Keys : apiLoginBansUnban(k)

GuardSpec == GuardInit /\ [][GuardNext]_guardVars

-----------------------------------------------------------------------------
(* Properties *)

GuardTracks(k) == guard.enabled /\ (IF k[1] = "ip" THEN guard.byIP ELSE guard.byUsername /\ k[2] # NoName)

\* However many requests try at once, whoever keeps failing gets no more guesses
\* for one account or from one address in a counting window than the threshold,
\* one for every request that was already under way, and one for every
\* RecordResult that broke off - as long as a ban is not shorter than the window,
\* neither by BanBase nor by MaxBan, which nothing compares with it.
GuessBound ==
    BanBase >= CountWindow /\ MaxBan >= CountWindow =>
      \A k \in Keys : GuardTracks(k) =>
        SumAges(guesses[k]) <= FailThreshold - 1 + Cardinality(LoginProc) + broken

=============================================================================
