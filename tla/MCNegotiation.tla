---------------------------- MODULE MCNegotiation ----------------------------
(* Two callers; a provider that may offer anything, one that is too         *)
(* expensive, which shows after the negotiation, and one on the blacklist.  *)
EXTENDS Negotiation, TLC

CONSTANTS p1, p2, p3, u1, u2

MCChain == <<"blacklist", "whitelist", "negotiate", "costs">>
MCCost == (p1 :> 1) @@ (p2 :> 2) @@ (p3 :> 0)
MCCallers == {u1, u2}
Symmetry == Permutations(MCCallers)
MCTerms == {"interval", "timeout"}
MCMinimal == [interval |-> 2, timeout |-> 2]
MCOptimal == [interval |-> 3, timeout |-> 2]
MCOffers == (p1 :> ([interval : {1, 2}, timeout : {2}] \cup {None}))
         @@ (p2 :> [interval : {3}, timeout : {2}])
         @@ (p3 :> {None})
MCPlatforms == (p1 :> {"erc20", "zksync"}) @@ (p2 :> {"erc20"}) @@ (p3 :> {})
=============================================================================
