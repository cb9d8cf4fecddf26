------------------------------ MODULE MCHosts -------------------------------
(***************************************************************************)
(* Certificates, Xray, the registry of servers and the status cache: what  *)
(* the panel keeps on a host or in memory, in step with its rows.  The     *)
(* four share no state, so a behaviour is of one of them: `part' is chosen *)
(* in the initial state and the variables of the others do not move.       *)
(***************************************************************************)
EXTENDS CertProvider, Servers, StatusCache, Xray, TLC

VARIABLE part

MCInit ==
    /\ part \in {"certs", "servers", "cache", "xray"}
    /\ CertInit /\ SrvInit /\ CacheInit /\ XrayInit
    /\ part # "certs" => kind = "openvpn"

MCNext ==
    \/ part = "certs" /\ CertNext /\ UNCHANGED <<srvVars, cacheVars, xrayVars, part>>
    \/ part = "servers" /\ SrvNext /\ UNCHANGED <<certVars, cacheVars, xrayVars, part>>
    \/ part = "cache" /\ CacheNext /\ UNCHANGED <<certVars, srvVars, xrayVars, part>>
    \/ part = "xray" /\ XrayNext /\ UNCHANGED <<certVars, srvVars, cacheVars, part>>

MCSpec == MCInit /\ [][MCNext]_<<part, certVars, srvVars, cacheVars, xrayVars>>

\* The requests of every part are the same set, and interchangeable.
HostSymmetry == Permutations(CertProc)
=============================================================================
