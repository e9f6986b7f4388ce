----------------------------- MODULE BatchLife ------------------------------
(***************************************************************************)
(* What an Activity and its batches promise to the code that uses them     *)
(* (the docs of resources/activity/activity.py and of                      *)
(* resources/pooling_batch/pooling_batch.py): a batch runs once, its       *)
(* results only grow while it runs and stay as they are when it is done,   *)
(* and the activity is idle exactly when none of its batches runs.         *)
(***************************************************************************)
EXTENDS Naturals, Sequences, SequencesExt

CONSTANTS
    Batches,    \* the batches executed in one activity
    Commands    \* Commands[b]: the number of commands of b

VARIABLES
    status,     \* "new", "running" or "done"
    results,    \* results[b]: PoolingBatch.events
    idle        \* Activity.idle

lifeVars == <<status, results, idle>>

Running == {b \in Batches : status[b] = "running"}

LifeInit ==
    /\ status = [b \in Batches |-> "new"]
    /\ results = [b \in Batches |-> <<>>]
    /\ idle = TRUE

\* execute() returns the new batch.
Begin(b) ==
    /\ status[b] = "new"
    /\ status' = [status EXCEPT ![b] = "running"]
    /\ idle' = FALSE
    /\ UNCHANGED results

\* The results of b may become longer, by at most one per command.
Grow(b) ==
    \E more \in BoundedSeq({"Ok", "Error"}, Commands[b]) :
        /\ IsPrefix(results[b], more)
        /\ results' = [results EXCEPT ![b] = more]

\* More commands of b are reported.
Report(b) ==
    /\ status[b] = "running"
    /\ Grow(b)
    /\ UNCHANGED <<status, idle>>

\* b is done, perhaps with its last results.
End(b) ==
    /\ status[b] = "running"
    /\ Grow(b)
    /\ status' = [status EXCEPT ![b] = "done"]
    /\ idle' = (Running = {b})

LifeNext == \E b \in Batches : Begin(b) \/ Report(b) \/ End(b)

LifeSpec == LifeInit /\ [][LifeNext]_lifeVars

=============================================================================
