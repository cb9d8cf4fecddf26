------------------------------ MODULE MCNodes -------------------------------
(***************************************************************************)
(* The nodes of one interface and the access of portal users.  They share  *)
(* no state, so a behaviour is of one of them: `part' is chosen in the     *)
(* initial state and the variables of the other do not move.               *)
(*                                                                         *)
(* The pool of the nodes holds two client addresses.  An admin may type    *)
(* one of them, 10.8.0.1, and 10.8.0.12 outside the pool, whose text       *)
(* begins with the other's.                                                *)
(***************************************************************************)
EXTENDS Nodes, AccessRequests, TLC

VARIABLE part

MCPool == [ip |-> 0, len |-> 2]

MCInit == part \in {"nodes", "access"} /\ NodesInit /\ Init

MCNext ==
    \/ part = "nodes" /\ NodesNext /\ UNCHANGED <<part, vars>>
    \/ part = "access" /\ Next /\ UNCHANGED <<part, nodeVars>>

MCSpec == MCInit /\ [][MCNext]_<<part, nodeVars, vars>>

\* The requests of both parts are the same set, and interchangeable; so are the
\* keys of the access part.
NodeSymmetry == Permutations(NodeProc) \cup Permutations(Keys)
=============================================================================
