--------------------------- MODULE MCDemandManagers ---------------------------
(* A manager of each kind, two callers and two proposals.  The aggregator  *)
(* is stopped when it has a feed task.                                     *)
EXTENDS DemandManagers, TLC

CONSTANTS u1, u2, p1, p2

MCUsers == {u1, u2}
MCProposals == {p1, p2}
MCNext == DemandNext /\ (stops' # stops => Mapped # {})
MCSpec == DemandInit /\ [][MCNext]_demandVars

Symmetry == Permutations(MCUsers) \cup Permutations(MCProposals)
=============================================================================
