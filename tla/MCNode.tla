-------------------------------- MODULE MCNode --------------------------------
(* Two programs: one creates an activity, its agreement and an allocation, *)
(* and no network; the other creates a network with two host addresses and *)
(* adds the requestor and, for two agreements, their provider.             *)
EXTENDS NodeNetwork, TLC

CONSTANTS act, agr, alo, net, a1, a2, p1

MCKind == (act :> "activity") @@ (agr :> "agreement") @@ (alo :> "allocation")
          @@ (net :> "network")
MCProvider == (a1 :> p1) @@ (a2 :> p1)

MCPrograms == {{act, agr, alo}, {net}}
=============================================================================
