------------------------------- MODULE MCGftp -------------------------------
(* Two tasks, a file of the user and two temporary files of the same       *)
(* content: every upload and release is of the same URL.                   *)
EXTENDS Gftp, TLC

CONSTANTS c1, c2, f1, t1, t2, u1

MCUrl == [p \in {f1, t1, t2} |-> u1]
MCClients == {c1, c2}
MCTemps == {t1, t2}
Symmetry == Permutations(MCClients) \cup Permutations(MCTemps)
=============================================================================
