----------------------------- MODULE NodeNetwork ------------------------------
(***************************************************************************)
(* The node and its network together: the network exists from the answer   *)
(* of yagna to its creation until the node, or the program, removes it,    *)
(* while providers are added to it.                                        *)
(***************************************************************************)
EXTENDS NodeLife, Network

CONSTANT Net

ASSUME NetAssumption == Net \in Resources /\ Kind[Net] = "network"

nodeNetVars == <<vars, alive, netVars>>

\* The network object: its creator, or somebody who found it, has it.
HasNetwork == Net \in objects

InitAll == Init /\ NetInit /\ alive = (Net \in yagna)

NextAll ==
    \/ Next /\ alive' = (Net \in yagna') /\ UNCHANGED netVars
    \/ HasNetwork /\ NetNext /\ UNCHANGED <<vars, alive>>

SpecAll == InitAll /\ [][NextAll]_nodeNetVars
=============================================================================
