------------------------------ MODULE MCPanel -------------------------------
(***************************************************************************)
(* The firewall's safety net, the web console and the rotation of the      *)
(* panel's key in one run.  They share no state, so a behaviour is of one  *)
(* of them: `part' is chosen in the initial state and the variables of the *)
(* others do not move.                                                     *)
(***************************************************************************)
EXTENDS Firewall, ConsoleHub, Bridge, KeyRotate, TLC

CONSTANTS cell1, cell2, AnyKey

VARIABLE part

\* A row of one sealed column and one of another.
MCColumnOf == cell1 :> 1 @@ cell2 :> 2

NoRotation ==
    /\ keyOf = [c \in Cell |-> Unset] /\ valOf = keyOf /\ oldKey = AnyKey /\ newKey = AnyKey
    /\ panel = Unset /\ lock = "none" /\ at = "idle" /\ dryRun = FALSE /\ column = 1
    /\ plain = keyOf /\ written = {} /\ exclusive = TRUE

SessionOver ==
    /\ run = "returned" /\ out = "end" /\ inp = "end" /\ dog = "end" /\ errCh = 2
    /\ shell = "exited" /\ socket = "closed" /\ limit = "none" /\ limits = {}

MCInit ==
    /\ part \in {"firewall", "hub", "bridge", "rotation"}
    /\ Init /\ HubInit
    /\ IF part = "bridge" THEN BridgeInit ELSE SessionOver
    /\ IF part = "rotation" THEN RotInit ELSE NoRotation

MCNext ==
    \/ part = "firewall" /\ SerialNext /\ UNCHANGED <<hubVars, bridgeVars, rotVars, part>>
    \/ part = "hub" /\ HubNext /\ UNCHANGED <<vars, bridgeVars, rotVars, part>>
    \/ part = "bridge" /\ BridgeNext /\ UNCHANGED <<vars, hubVars, rotVars, part>>
    \/ part = "rotation" /\ RotNext /\ UNCHANGED <<vars, hubVars, bridgeVars, part>>

MCSpec ==
    /\ MCInit /\ [][MCNext]_<<part, vars, hubVars, bridgeVars, rotVars>>
    /\ RollbackFairness /\ BridgeFairness
=============================================================================
