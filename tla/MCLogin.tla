------------------------------ MODULE MCLogin -------------------------------
(***************************************************************************)
(* The way into the panel in one run: the brute-force guard, the accounts  *)
(* behind it and the certificate of the listener.  What the first two      *)
(* share is the outcome of a login, which each leaves open where the other *)
(* decides it; a behaviour is of one of the three (`part').                *)
(***************************************************************************)
EXTENDS LoginGuard, Accounts, WebTLS, TLC

CONSTANTS alice, bob, ext

VARIABLE part

MCSource == alice :> "local" @@ bob :> "local" @@ ext :> "oidc"

\* Everything on, the guard off, and one kind of key alone.
MCGuardChoices ==
    {[enabled |-> e, byIP |-> TRUE, byUsername |-> TRUE] : e \in BOOLEAN} \cup
    {[enabled |-> TRUE, byIP |-> TRUE, byUsername |-> FALSE]}

MCInit ==
    /\ part \in {"guard", "accounts", "tls"} /\ GuardInit /\ AcctInit /\ TlsInit
    /\ part # "guard" => \A i \in IP : rule[i] = {}
    /\ part # "accounts" => EnabledAdmins = {alice} /\ method = {"local"} /\ rules = {}
    /\ (rules = {}) <=> (method = {"local"})   \* the external methods are set up, or not yet

MCNext ==
    \/ part = "guard" /\ GuardNext /\ UNCHANGED <<part, acctVars, tlsVars>>
    \/ part = "accounts" /\ AcctNext /\ UNCHANGED <<part, guardVars, tlsVars>>
    \/ part = "tls" /\ TlsNext /\ UNCHANGED <<part, guardVars, acctVars>>

MCSpec == MCInit /\ [][MCNext]_<<part, guardVars, acctVars, tlsVars>>

\* Requests are interchangeable.
LoginSymmetry == Permutations(LoginProc)
=============================================================================
