-------------------------- MODULE NodeNetworkProofs ---------------------------
(***************************************************************************)
(* A node and its network together: that aclose leaves nothing of this     *)
(* node behind, and that the addresses of the network are different ones,  *)
(* for every program, number of hosts and set of agreements.               *)
(***************************************************************************)
EXTENDS NodeNetwork, FiniteSetTheorems, TLAPS

-----------------------------------------------------------------------------
(* The network. The lock is what makes it work: one agreement at a time is *)
(* between the choice of its address and the entry in _nodes (network.py   *)
(* create_node). The proof does not look at alive: the network may come    *)
(* and go at any time.                                                     *)

\* What the proof needs of the types.
Shape ==
    /\ at \in [Tasks -> {"new", "data", "waits", "adding", "done", "failed"}]
    /\ ip \in [Tasks -> (1..Hosts) \cup {None}]
    /\ requestorIps \in Seq(1..Hosts)
    /\ nodes \in [1..Hosts -> Providers \cup {None}]
    /\ nodeOf \in [Providers -> (1..Hosts) \cup {None}]

\* An agreement that is being added holds the lock and has chosen an address.
LockHeld == \A a \in Agreements : at[a] = "adding" => lock = a /\ ip[a] \in 1..Hosts

NetInv == Shape /\ LockHeld /\ AddressesDistinct

-----------------------------------------------------------------------------

\* create_node takes one of the addresses that are left. The smallest element
\* of S is the k for which S has the fewest elements up to k.
LEMMA LowestIn ==
    ASSUME NetworkAssumption, NEW S \in SUBSET (1..Hosts), S # {}
    PROVE  Lowest(S) \in S
<1> DEFINE H == 1..Hosts
           UpTo(k) == {i \in S : i <= k}
           T == {UpTo(k) : k \in S}
<1>1. Hosts \in Nat /\ S \subseteq H /\ S \subseteq Nat
  BY DEF NetworkAssumption
<1>2. FiniteSubsetsOf(H) = SUBSET H
  <2>1. IsFiniteSet(H)
    BY <1>1, FS_Interval
  <2> QED
    BY <2>1, FS_FiniteSubsetsOfFinite
<1>3. T \subseteq FiniteSubsetsOf(H) /\ T # {}
  <2>1. T \subseteq SUBSET S /\ T # {}
    OBVIOUS
  <2>2. SUBSET S \subseteq SUBSET H
    BY <1>1
  <2> HIDE DEF T, H
  <2> QED
    BY <1>2, <2>1, <2>2
<1>4. PICK X \in T : \A Y \in T : ~(<<Y, X>> \in StrictSubsetOrdering(H))
  <2> HIDE DEF T, H
  <2> QED
    BY <1>3, FS_StrictSubsetOrderingWellFounded, WFMin
<1>5. PICK m \in S : X = UpTo(m)
  OBVIOUS
<1>6. ASSUME NEW y \in S, y < m
      PROVE  FALSE
  <2>1. UpTo(y) \in T /\ UpTo(y) \in SUBSET H /\ X \in SUBSET H
    BY <1>1, <1>5
  <2>2. UpTo(y) \subseteq X /\ UpTo(y) # X
    <3>1. m \in Nat /\ y \in Nat /\ y < m
      BY <1>1, <1>6
    <3>2. m \in UpTo(m) /\ m \notin UpTo(y)
      BY <3>1
    <3>3. UpTo(y) \subseteq UpTo(m)
      <4> SUFFICES ASSUME NEW i \in S, i <= y PROVE i <= m
        OBVIOUS
      <4> QED
        BY <1>1, <3>1
    <3> QED
      BY <1>5, <3>2, <3>3
  <2>3. <<UpTo(y), X>> \in StrictSubsetOrdering(H)
    BY <2>1, <2>2 DEF StrictSubsetOrdering
  <2> QED
    BY <1>4, <2>1, <2>3
<1>7. \A y \in S : m <= y
  BY <1>1, <1>6
<1> QED
  BY <1>7 DEF Lowest

\* The address that is taken is that of no node, of no call of
\* add_requestor_ip and of no agreement that is being added.
LEMMA FreeIsNew ==
    ASSUME NetworkAssumption, NetInv, lock = None, Free # {}
    PROVE  /\ Lowest(Free) \in 1..Hosts
           /\ Lowest(Free) \notin OwnIps /\ Lowest(Free) \notin NodeIps
           /\ Adding = {}
<1>1. Lowest(Free) \in Free
  BY LowestIn DEF Free
<1>2. \A a \in Agreements : at[a] # "adding"
  BY DEF NetInv, LockHeld, NetworkAssumption, Tasks
<1> QED
  BY <1>1, <1>2 DEF Free, Adding

-----------------------------------------------------------------------------

LEMMA NetInitInv == ASSUME NetworkAssumption, NetInit PROVE NetInv
<1>1. Shape
  BY DEF NetInit, Shape
<1>2. LockHeld
  BY DEF NetInit, LockHeld, Tasks
<1>3. AddressesDistinct
  BY DEF NetInit, AddressesDistinct, OwnIps, NodeIps, Adding, Tasks
<1> QED
  BY <1>1, <1>2, <1>3 DEF NetInv

\* Steps that touch neither addresses nor who is being added.
LEMMA SameInv ==
    ASSUME NetInv, UNCHANGED <<lock, ip, requestorIps, nodes, nodeOf>>,
           at' \in [Tasks -> {"new", "data", "waits", "adding", "done", "failed"}],
           \A a \in Agreements : at'[a] = "adding" => at[a] = "adding"
    PROVE  NetInv'
<1>1. OwnIps' = OwnIps /\ NodeIps' = NodeIps /\ Adding' \subseteq Adding
  BY DEF OwnIps, NodeIps, Adding
<1>2. Shape' /\ LockHeld'
  BY DEF NetInv, Shape, LockHeld
<1>3. AddressesDistinct'
  BY <1>1 DEF NetInv, AddressesDistinct
<1> QED
  BY <1>2, <1>3 DEF NetInv

LEMMA CreateNodeInv ==
    ASSUME NetworkAssumption, NetInv, NEW a \in Agreements, CreateNode(a)
    PROVE  NetInv'
<1>1. a \in Tasks
  BY DEF Tasks
<1>2. /\ Lowest(Free) \in 1..Hosts
      /\ Lowest(Free) \notin OwnIps /\ Lowest(Free) \notin NodeIps
      /\ Adding = {}
  BY FreeIsNew DEF CreateNode
<1>3. Shape'
  BY <1>1, <1>2 DEF CreateNode, Goes, NetInv, Shape
<1>4. at'[a] = "adding" /\ ip'[a] = Lowest(Free) /\ lock' = a
      /\ \A b \in Agreements \ {a} : at'[b] # "adding"
  <2>1. at \in [Tasks -> {"new", "data", "waits", "adding", "done", "failed"}]
        /\ ip \in [Tasks -> (1..Hosts) \cup {None}] /\ Agreements \subseteq Tasks
    BY DEF NetInv, Shape, Tasks
  <2>2. /\ at' = [at EXCEPT ![a] = "adding"]
        /\ ip' = [ip EXCEPT ![a] = Lowest(Free)] /\ lock' = a
    BY DEF CreateNode, Goes
  <2>3. \A b \in Agreements : at[b] # "adding"
    BY <1>2 DEF Adding
  <2> QED
    BY <1>1, <2>1, <2>2, <2>3
<1>5. LockHeld'
  BY <1>2, <1>4 DEF LockHeld
<1>6. Adding' = {Lowest(Free)} /\ OwnIps' = OwnIps /\ NodeIps' = NodeIps
  <2>1. Adding' = {Lowest(Free)}
    BY <1>4 DEF Adding
  <2>2. OwnIps' = OwnIps /\ NodeIps' = NodeIps
    BY DEF CreateNode, OwnIps, NodeIps
  <2> QED
    BY <2>1, <2>2
<1>7. AddressesDistinct'
  BY <1>2, <1>6 DEF CreateNode, NetInv, AddressesDistinct
<1> QED
  BY <1>3, <1>5, <1>7 DEF NetInv

LEMMA NodeAddedInv ==
    ASSUME NetworkAssumption, NetInv, NEW a \in Agreements, NodeAdded(a)
    PROVE  NetInv'
<1> DEFINE i == ip[a]
           p == Provider[a]
<1>1. a \in Tasks /\ p \in Providers /\ p # None
  BY DEF Tasks, Providers, NetworkAssumption
<1>2. i \in 1..Hosts /\ i \in Adding /\ i \notin OwnIps /\ i \notin NodeIps
  BY DEF NodeAdded, NetInv, LockHeld, AddressesDistinct, Adding
<1>3. \A b \in Agreements \ {a} : at[b] # "adding"
  BY DEF NodeAdded, NetInv, LockHeld
<1>4. Shape'
  BY <1>1, <1>2 DEF NodeAdded, Goes, NetInv, Shape
<1>5. \A b \in Agreements : at'[b] # "adding"
  BY <1>1, <1>3 DEF NodeAdded, Goes, NetInv, Shape, Tasks
<1>6. LockHeld'
  BY <1>5 DEF LockHeld
<1>7. Adding' = {} /\ OwnIps' = OwnIps /\ NodeIps' \subseteq NodeIps \cup {i}
  <2>1. Adding' = {} /\ OwnIps' = OwnIps
    BY <1>5 DEF NodeAdded, Adding, OwnIps
  <2>2. NodeIps' \subseteq NodeIps \cup {i}
    BY DEF NodeAdded, NodeIps, NetInv, Shape
  <2> QED
    BY <2>1, <2>2
<1>8. \A q \in Providers : nodeOf'[q] # None => nodes'[nodeOf'[q]] = q
  <2> SUFFICES ASSUME NEW q \in Providers, nodeOf'[q] # None
               PROVE  nodes'[nodeOf'[q]] = q
    OBVIOUS
  <2>1. CASE q = p
    BY <1>1, <1>2, <2>1 DEF NodeAdded, NetInv, Shape
  <2>2. CASE q # p
    <3>1. nodeOf'[q] = nodeOf[q] /\ nodeOf[q] \in 1..Hosts
      BY <2>2 DEF NodeAdded, NetInv, Shape
    <3>2. nodes[nodeOf[q]] = q /\ q # None
      BY <3>1 DEF NetInv, AddressesDistinct, NetworkAssumption
    <3>3. nodeOf[q] # i
      BY <1>2, <3>1, <3>2 DEF NodeIps
    <3> QED
      BY <3>1, <3>2, <3>3 DEF NodeAdded, NetInv, Shape
  <2> QED
    BY <2>1, <2>2
<1>9. AddressesDistinct'
  <2>1. OwnIps \cap NodeIps = {}
    BY DEF NetInv, AddressesDistinct
  <2>2. OwnIps' \cap (NodeIps' \cup Adding') = {} /\ NodeIps' \cap Adding' = {}
    BY <1>2, <1>7, <2>1
  <2>3. \A k, l \in DOMAIN requestorIps' : requestorIps'[k] = requestorIps'[l] => k = l
    BY DEF NodeAdded, NetInv, AddressesDistinct
  <2> QED
    BY <1>8, <2>2, <2>3 DEF AddressesDistinct
<1> QED
  BY <1>4, <1>6, <1>9 DEF NetInv

LEMMA AddNodeRaisesInv ==
    ASSUME NetworkAssumption, NetInv, NEW a \in Agreements, AddNodeRaises(a)
    PROVE  NetInv'
<1>1. \A b \in Agreements : at'[b] # "adding"
  BY DEF AddNodeRaises, Goes, NetInv, Shape, LockHeld, Tasks
<1>2. Shape' /\ LockHeld'
  BY <1>1 DEF AddNodeRaises, Goes, NetInv, Shape, LockHeld
<1>3. Adding' = {} /\ OwnIps' = OwnIps /\ NodeIps' = NodeIps
  BY <1>1 DEF AddNodeRaises, Adding, OwnIps, NodeIps
<1>4. AddressesDistinct'
  BY <1>3 DEF AddNodeRaises, NetInv, AddressesDistinct
<1> QED
  BY <1>2, <1>4 DEF NetInv

LEMMA AddRequestorIpInv ==
    ASSUME NetworkAssumption, NetInv, NEW t \in Requestors, AddRequestorIp(t)
    PROVE  NetInv'
<1> DEFINE i == Lowest(Free)
<1>1. t \in Tasks /\ t \notin Agreements
  BY DEF Tasks, NetworkAssumption
<1>2. /\ at' \in [Tasks -> {"new", "data", "waits", "adding", "done", "failed"}]
      /\ \A a \in Agreements : at'[a] = at[a]
  BY <1>1 DEF AddRequestorIp, Goes, NetInv, Shape, Tasks
<1>3. CASE Free = {}
  <2>1. UNCHANGED <<lock, ip, requestorIps, nodes, nodeOf>>
    BY <1>3 DEF AddRequestorIp
  <2> QED
    BY <1>2, <2>1, SameInv
<1>4. CASE Free # {}
  <2>1. i \in 1..Hosts /\ i \notin OwnIps /\ i \notin NodeIps /\ Adding = {}
    BY <1>4, FreeIsNew DEF AddRequestorIp
  <2>2. requestorIps' = Append(requestorIps, i) /\ ip' = [ip EXCEPT ![t] = i]
    BY <1>4 DEF AddRequestorIp
  <2>3. requestorIps \in Seq(1..Hosts)
    BY DEF NetInv, Shape
  <2>4. Shape'
    <3> HIDE DEF i
    <3>1. requestorIps' \in Seq(1..Hosts)
      BY <2>1, <2>2, <2>3
    <3>2. ip' \in [Tasks -> (1..Hosts) \cup {None}]
      BY <2>1, <2>2 DEF NetInv, Shape
    <3> QED
      BY <1>2, <3>1, <3>2 DEF AddRequestorIp, NetInv, Shape
  <2>5. LockHeld'
    <3>1. \A a \in Agreements : at'[a] # "adding"
      BY <1>2, <2>1 DEF Adding
    <3> QED
      BY <3>1 DEF LockHeld
  <2>6. /\ DOMAIN requestorIps' = 1..(Len(requestorIps) + 1)
        /\ DOMAIN requestorIps = 1..Len(requestorIps) /\ Len(requestorIps) \in Nat
        /\ \A k \in 1..Len(requestorIps) : requestorIps'[k] = requestorIps[k]
        /\ requestorIps'[Len(requestorIps) + 1] = i
    BY <2>1, <2>2, <2>3
  <2>7. \A k \in DOMAIN requestorIps : requestorIps[k] # i
    BY <2>1 DEF OwnIps
  <2>8. \A k, l \in DOMAIN requestorIps' : requestorIps'[k] = requestorIps'[l] => k = l
    <3>1. \A k, l \in DOMAIN requestorIps : requestorIps[k] = requestorIps[l] => k = l
      BY DEF NetInv, AddressesDistinct
    <3> QED
      BY <2>6, <2>7, <3>1
  <2>9. OwnIps' \subseteq OwnIps \cup {i} /\ NodeIps' = NodeIps /\ Adding' = {}
    <3>1. OwnIps' \subseteq OwnIps \cup {i}
      BY <2>6 DEF OwnIps
    <3>2. NodeIps' = NodeIps
      BY DEF AddRequestorIp, NodeIps
    <3>3. Adding' = {}
      BY <1>2, <2>1 DEF Adding
    <3> QED
      BY <3>1, <3>2, <3>3
  <2>10. AddressesDistinct'
    <3>1. \A p \in Providers : nodeOf'[p] # None => nodes'[nodeOf'[p]] = p
      BY DEF AddRequestorIp, NetInv, AddressesDistinct
    <3>2. OwnIps \cap NodeIps = {}
      BY DEF NetInv, AddressesDistinct
    <3> QED
      BY <2>1, <2>8, <2>9, <3>1, <3>2 DEF AddressesDistinct
  <2> QED
    BY <2>4, <2>5, <2>10 DEF NetInv
<1> QED
  BY <1>3, <1>4

LEMMA NetStepInv ==
    ASSUME NetworkAssumption, NetInv, [NetNext]_netVars
    PROVE  NetInv'
<1> DEFINE Places == {"new", "data", "waits", "adding", "done", "failed"}
<1>1. CASE UNCHANGED netVars
  BY <1>1, SameInv DEF netVars, NetInv, Shape
<1>2. ASSUME NEW a \in Agreements, NewAgreement(a) \/ NetworkFull(a)
      PROVE  NetInv'
  <2>1. /\ at' \in [Tasks -> Places]
        /\ \A b \in Agreements : at'[b] = "adding" => at[b] = "adding"
        /\ UNCHANGED <<lock, ip, requestorIps, nodes, nodeOf>>
    BY <1>2 DEF NewAgreement, NetworkFull, Goes, NetInv, Shape, Tasks
  <2> QED
    BY <2>1, SameInv
<1>3. ASSUME NEW t \in Requestors, AddressAnswered(t)
      PROVE  NetInv'
  <2>1. /\ at' \in [Tasks -> Places]
        /\ \A b \in Agreements : at'[b] = at[b]
        /\ UNCHANGED <<lock, ip, requestorIps, nodes, nodeOf>>
    BY <1>3 DEF AddressAnswered, Goes, NetInv, Shape, Tasks, NetworkAssumption
  <2> QED
    BY <2>1, SameInv
<1>4. ASSUME NEW p \in Providers, GetNodeId(p) \/ GotNodeId(p)
      PROVE  NetInv'
  <2>1. UNCHANGED <<lock, at, ip, requestorIps, nodes, nodeOf>>
    BY <1>4 DEF GetNodeId, GotNodeId
  <2> QED
    BY <2>1, SameInv DEF NetInv, Shape
<1>5. CASE NetNext
  <2>1. CASE \E a \in Agreements : CreateNode(a)
    BY <2>1, CreateNodeInv
  <2>2. CASE \E a \in Agreements : NodeAdded(a)
    BY <2>2, NodeAddedInv
  <2>3. CASE \E a \in Agreements : AddNodeRaises(a)
    BY <2>3, AddNodeRaisesInv
  <2>4. CASE \E t \in Requestors : AddRequestorIp(t)
    BY <2>4, AddRequestorIpInv
  <2> QED
    BY <1>2, <1>3, <1>4, <1>5, <2>1, <2>2, <2>3, <2>4 DEF NetNext
<1> QED
  BY <1>1, <1>5

\* The addresses in use or being added are different ones, and the address
\* given for a provider is that of its node, whatever fails and in whatever
\* order the handlers of agreements run (network.py create_node).
THEOREM AddressesAreDistinct == SpecAll => []AddressesDistinct
<1>1. InitAll => NetInv
  BY NetInitInv, NetworkAssumption DEF InitAll
<1>2. NetInv /\ [NextAll]_nodeNetVars => NetInv'
  BY NetStepInv, NetworkAssumption DEF NextAll, nodeNetVars
<1>3. NetInv => AddressesDistinct
  BY DEF NetInv
<1> QED
  BY <1>1, <1>2, <1>3, PTL DEF SpecAll

-----------------------------------------------------------------------------
(* The node. A resource the program has was created once and for all; when *)
(* aclose has gone past its kind it is closed, and nobody creates it anew. *)

\* Resources in the autoclose list, and those kept, are answered requests.
Registered ==
    /\ asked \in [Resources -> {"none", "asked", "made", "answered"}]
    /\ calls \in [Resources -> {"none", "running", "done", "raised"}]
    /\ group \in 1..(Len(Order) + 1)
    /\ kept \subseteq auto /\ auto \subseteq Resources
    /\ \A r \in auto : asked[r] = "answered"
    /\ \A r \in Resources : calls[r] # "none" => r \in auto
    /\ toClose \subseteq auto

\* A call that returned has closed its resource.
DoneIsClosed == \A r \in Resources : calls[r] = "done" => r \notin yagna

\* While the node is closed it takes all it kept, and is done with the kinds
\* before the one it is at.
GroupsClosed ==
    phase = "closing" =>
        /\ kept \subseteq toClose
        /\ \A r \in toClose, g \in 1..(group - 1) : Kind[r] = Order[g] => r \notin yagna

Ended == finished => phase \in {"leaving", "off"}

NodeInv == Registered /\ DoneIsClosed /\ GroupsClosed /\ Ended /\ ClosedWhenFinished

LEMMA NodeInitInv == Init => NodeInv
BY DEF Init, NodeInv, Registered, DoneIsClosed, GroupsClosed, Ended, ClosedWhenFinished, Order

LEMMA NodeStepInv == NodeInv /\ [Next]_vars => NodeInv'
<1> SUFFICES ASSUME NodeInv, [Next]_vars PROVE NodeInv'
  OBVIOUS
<1> USE DEF NodeInv, Registered, DoneIsClosed, GroupsClosed, Ended, ClosedWhenFinished
<1>1. CASE UNCHANGED vars
  BY <1>1 DEF vars
<1>2. CASE Start
  BY <1>2 DEF Start
<1>3. CASE Close
  BY <1>3 DEF Close, Order
<1>4. CASE NextGroup
  BY <1>4 DEF NextGroup, Running, InGroup, GroupReturned
<1>5. CASE GroupRaises
  BY <1>5 DEF GroupRaises
<1>6. CASE CloseApis
  <2>1. \A r \in Resources : \E g \in 1..Len(Order) : Kind[r] = Order[g]
    BY NodeAssumption DEF Kinds, Order, ToSet
  <2> QED
    BY <1>6, <2>1 DEF CloseApis, Order
<1>7. CASE StopBus
  BY <1>7 DEF StopBus
<1>8. ASSUME NEW r \in Resources, Ask(r) \/ Execute(r) PROVE NodeInv'
  BY <1>8 DEF Ask, Execute
<1>9. ASSUME NEW r \in Resources, Answer(r) \/ AnswerRaises(r) PROVE NodeInv'
  BY <1>9 DEF Answer, AnswerRaises
<1>10. ASSUME NEW r \in Resources, Lookup(r) \/ UserCloses(r) PROVE NodeInv'
  BY <1>10 DEF Lookup, UserCloses
<1>11. ASSUME NEW r \in Resources, CallEnds(r) \/ CallRaises(r) PROVE NodeInv'
  BY <1>11 DEF CallEnds, CallRaises, Ends
<1>12. ASSUME NEW k \in Kinds, GetAll(k) PROVE NodeInv'
  BY <1>12 DEF GetAll
<1> QED
  BY <1>1, <1>2, <1>3, <1>4, <1>5, <1>6, <1>7, <1>8, <1>9, <1>10, <1>11, <1>12 DEF Next

\* After ShutdownFinished nothing exists that a create call of this node had
\* returned before aclose, for every set of resources and every program that
\* creates them, whatever fails and however often the node is started again
\* (node.py aclose, _close_autoclose_resources).
THEOREM NothingLeftBehind == SpecAll => []ClosedWhenFinished
<1>1. InitAll => NodeInv
  BY NodeInitInv DEF InitAll
<1>2. NodeInv /\ [NextAll]_nodeNetVars => NodeInv'
  BY NodeStepInv DEF NextAll, nodeNetVars, vars
<1>3. NodeInv => ClosedWhenFinished
  BY DEF NodeInv
<1> QED
  BY <1>1, <1>2, <1>3, PTL DEF SpecAll

=============================================================================
