--------------------------- MODULE MCPoolingBatch ---------------------------
(***************************************************************************)
(* A script of several commands, whose futures are resolved: alone, with   *)
(* everything that may go wrong, or next to a plain batch of the same      *)
(* activity, when the API answers and nobody cancels a future.             *)
(***************************************************************************)
EXTENDS PoolingBatch

CONSTANTS script, plain, ScriptLength, PlainLength

MCBatches == {script, plain}
MCScripts == {script}
MCCommands == (script :> ScriptLength) @@ (plain :> PlainLength)

VARIABLE both

Rough ==
    \/ Lose
    \/ \E b \in Batches : PollRaises(b) \/ GsbError(b) \/ CancelFuture(b)

MCInit == Init /\ both \in BOOLEAN
MCNext ==
    /\ Next
    /\ IF both THEN ~ Rough ELSE ~ Execute(plain)
    /\ UNCHANGED both
MCSpec == MCInit /\ [][MCNext]_<<vars, both>> /\ Fairness

=============================================================================
