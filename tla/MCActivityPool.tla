--------------------------- MODULE MCActivityPool ---------------------------
(***************************************************************************)
(* Small instances of ActivityPool.  The activities are interchangeable:   *)
(* no definition names one.                                                *)
(***************************************************************************)
EXTENDS ActivityPool, TLC

ActivitySymmetry == Permutations(Activities)

=============================================================================
