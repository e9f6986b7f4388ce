------------------------------- MODULE Network --------------------------------
(***************************************************************************)
(* A Network (golem/resources/network/network.py) and the                  *)
(* SingleNetworkManager above it (golem/managers/network/single.py): each  *)
(* new agreement has its provider added to the network under the next free *)
(* address, tasks wait for the address of their provider.                  *)
(*                                                                         *)
(* The handlers of agreements run side by side, requests to yagna fail.    *)
(***************************************************************************)
EXTENDS Integers, FiniteSets, Sequences

CONSTANTS
    Hosts,        \* number of host addresses: 1, 2, ... in the order of hosts()
    Agreements,   \* agreements whose NewAgreement is handled
    Requestors,   \* calls of add_requestor_ip
    None

CONSTANTS Provider   \* the provider of an agreement

Providers == {Provider[a] : a \in Agreements}
Tasks == Agreements \cup Requestors

ASSUME NetworkAssumption ==
    /\ Hosts \in Nat
    /\ Agreements \cap Requestors = {}
    /\ None \notin Providers \cup Tasks \cup Nat

VARIABLES
    alive,         \* the network exists at yagna
    lock,          \* _create_node_lock
    at,            \* where a task is
    ip,            \* the address a task has chosen
    requestorIps,  \* _requestor_ips
    nodes,         \* _nodes of the network: address -> provider
    nodeOf,        \* _nodes of the manager: provider -> address
    waiting,       \* get_node_id: providers somebody polls for
    attached       \* addresses yagna has: <<address, provider>>

netVars == <<lock, at, ip, requestorIps, nodes, nodeOf, waiting, attached>>

NetTypeOK ==
    /\ alive \in BOOLEAN
    /\ lock \in Tasks \cup {None}
    /\ at \in [Tasks -> {"new", "data", "waits", "adding", "done", "failed"}]
    /\ ip \in [Tasks -> (1..Hosts) \cup {None}]
    /\ requestorIps \in Seq(1..Hosts)
    /\ nodes \in [1..Hosts -> Providers \cup {None}]
    /\ nodeOf \in [Providers -> (1..Hosts) \cup {None}]
    /\ waiting \subseteq Providers
    /\ attached \subseteq (1..Hosts) \X (Providers \cup {"requestor"})

NetInit ==
    /\ lock = None
    /\ at = [t \in Tasks |-> "new"] /\ ip = [t \in Tasks |-> None]
    /\ requestorIps = <<>>
    /\ nodes = [i \in 1..Hosts |-> None]
    /\ nodeOf = [p \in Providers |-> None]
    /\ waiting = {} /\ attached = {}

Goes(t, l) == at' = [at EXCEPT ![t] = l]

OwnIps == {requestorIps[i] : i \in DOMAIN requestorIps}
NodeIps == {i \in 1..Hosts : nodes[i] # None}
FreeOfNodes == (1..Hosts) \ NodeIps
Free == (1..Hosts) \ (OwnIps \cup NodeIps)
Lowest(S) == CHOOSE i \in S : \A j \in S : i <= j

\* The handler first fetches the agreement, which may fail.
NewAgreement(a) ==
    /\ at[a] = "new"
    /\ \E l \in {"waits", "failed"} : Goes(a, l)
    /\ UNCHANGED <<alive, lock, ip, requestorIps, nodes, nodeOf, waiting, attached>>

CreateNode(a) ==
    /\ at[a] = "waits" /\ lock = None
    /\ Free # {}
    /\ lock' = a
    /\ ip' = [ip EXCEPT ![a] = Lowest(Free)]
    /\ Goes(a, "adding")
    /\ UNCHANGED <<alive, requestorIps, nodes, nodeOf, waiting, attached>>

NetworkFull(a) ==
    /\ at[a] = "waits" /\ lock = None
    /\ Free = {}
    /\ Goes(a, "failed")
    /\ UNCHANGED <<alive, lock, ip, requestorIps, nodes, nodeOf, waiting, attached>>

NodeAdded(a) ==
    /\ a \in Agreements /\ at[a] = "adding" /\ alive
    /\ attached' = attached \cup {<<ip[a], Provider[a]>>}
    /\ nodes' = [nodes EXCEPT ![ip[a]] = Provider[a]]
    /\ nodeOf' = [nodeOf EXCEPT ![Provider[a]] = ip[a]]
    /\ lock' = None
    /\ Goes(a, "done")
    /\ UNCHANGED <<alive, ip, requestorIps, waiting>>

\* Executed or not, the address is free again; nobody tries a second time.
AddNodeRaises(a) ==
    /\ a \in Agreements /\ at[a] = "adding"
    /\ attached' \in {attached, IF alive THEN attached \cup {<<ip[a], Provider[a]>>}
                                ELSE attached}
    /\ lock' = None
    /\ Goes(a, "failed")
    /\ UNCHANGED <<alive, ip, requestorIps, nodes, nodeOf, waiting>>

\* The requestor's address is taken before yagna is asked, and stays taken.
AddRequestorIp(t) ==
    /\ at[t] = "new" /\ lock = None
    /\ IF Free = {}
       THEN /\ Goes(t, "failed")
            /\ UNCHANGED <<ip, requestorIps>>
       ELSE /\ ip' = [ip EXCEPT ![t] = Lowest(Free)]
            /\ requestorIps' = Append(requestorIps, Lowest(Free))
            /\ Goes(t, "adding")
    /\ UNCHANGED <<alive, lock, nodes, nodeOf, waiting, attached>>

AddressAnswered(t) ==
    /\ t \in Requestors /\ at[t] = "adding"
    /\ \E executed \in {FALSE, alive}, l \in {"done", "failed"} :
          /\ l = "done" => executed
          /\ attached' = IF executed THEN attached \cup {<<ip[t], "requestor">>}
                         ELSE attached
          /\ Goes(t, l)
    /\ UNCHANGED <<alive, lock, ip, requestorIps, nodes, nodeOf, waiting>>

GetNodeId(p) ==
    /\ p \notin waiting
    /\ waiting' = waiting \cup {p}
    /\ UNCHANGED <<alive, lock, at, ip, requestorIps, nodes, nodeOf, attached>>

\* Polled every 0.1 s.
GotNodeId(p) ==
    /\ p \in waiting /\ nodeOf[p] # None
    /\ waiting' = waiting \ {p}
    /\ UNCHANGED <<alive, lock, at, ip, requestorIps, nodes, nodeOf, attached>>

NetNext ==
    \/ \E a \in Agreements : \/ NewAgreement(a) \/ CreateNode(a) \/ NetworkFull(a)
                             \/ NodeAdded(a) \/ AddNodeRaises(a)
    \/ \E t \in Requestors : AddRequestorIp(t) \/ AddressAnswered(t)
    \/ \E p \in Providers : GetNodeId(p) \/ GotNodeId(p)

-----------------------------------------------------------------------------
(***************************************************************************)
(* AddressesDistinct: the addresses that are in use or being added, of the *)
(* requestor and of the nodes, are different ones, and the address the     *)
(* manager gives for a provider is that of a node of this provider, also   *)
(* when it has a second agreement (network.py create_node,                 *)
(* add_requestor_ip, single.py _add_provider_to_network).                  *)
(***************************************************************************)
Adding == {ip[a] : a \in {b \in Agreements : at[b] = "adding"}}

AddressesDistinct ==
    /\ \A i, j \in DOMAIN requestorIps : requestorIps[i] = requestorIps[j] => i = j
    /\ OwnIps \cap (NodeIps \cup Adding) = {}
    /\ NodeIps \cap Adding = {}
    /\ \A p \in Providers : nodeOf[p] # None => nodes[nodeOf[p]] = p

=============================================================================
