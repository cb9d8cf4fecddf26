----------------------------- MODULE MCNetwork ------------------------------
(***************************************************************************)
(* Three parts in one run: the address arithmetic, the subnets built on    *)
(* it, and the provider of one WireGuard interface.  They share no state,  *)
(* so a behaviour is of one of them: `part' is chosen in the initial state *)
(* and the variables of the others do not move.                            *)
(***************************************************************************)
EXTENDS AddressCheck, Subnets, WgProvider, TLC

CONSTANTS wide, narrow

VARIABLE part

\* A site network and a smaller one within it; a tunnel beside them and one within
\* the larger.
MCNetOf == wide :> [ip |-> 4, len |-> 1] @@ narrow :> [ip |-> 6, len |-> 2]
MCTunnel == [i \in {"wg", "cert"} |-> [ip |-> IF i = "wg" THEN 0 ELSE 4, len |-> 2]]
MCPool == [ip |-> 1, len |-> 1]

AnyNet == [ip : 0..7, len : 0..3]
Bound == 0..7 \cup {NoAddr}
AnyInput == [kind |-> "none"]
MCInputs ==
    {[kind |-> "free", net |-> MCPool, first |-> f, last |-> l, used |-> u] :
              f, l \in Bound, u \in SUBSET (0..3)}
      \cup {[kind |-> "free", net |-> [ip |-> 6, len |-> 0], first |-> f, last |-> l, used |-> u] :
              f, l \in {NoAddr, 0, 4, 7}, u \in SUBSET (0..7)}
      \cup {[kind |-> "routes", net |-> t, entries |-> e, named |-> n, handled |-> h] :
              t \in {MCPool, MCTunnel["cert"]}, n, h \in BOOLEAN,
              e \in {<<>>} \cup {<<a>> : a \in AnyNet} \cup {<<a, b>> : a, b \in AnyNet}}

MCInit ==
    /\ part \in {"addresses", "subnets", "interface"} /\ SubnetsInit /\ Init
    /\ part # "subnets" => natRule = {} /\ restore = {} /\ groups = 0
    /\ restore # {} => groups = 0
    /\ IF part = "addresses" THEN AddrInit ELSE input = AnyInput

MCNext ==
    \/ part = "subnets" /\ SubnetsNext /\ UNCHANGED <<part, input, vars>>
    \/ part = "interface" /\ Next /\ UNCHANGED <<part, input, subVars>>

MCSpec == MCInit /\ [][MCNext]_<<part, input, subVars, vars>>

\* Requests are interchangeable.
NetSymmetry == Permutations(SubProc)
=============================================================================
