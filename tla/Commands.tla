------------------------------- MODULE Commands --------------------------------
(***************************************************************************)
(* Activity.execute_commands() with commands that transfer files           *)
(* (resources/activity/commands.py): before() of all commands at once, the *)
(* batch, and after() of all commands once the batch has ended, by a task  *)
(* that nobody waits for.                                                  *)
(***************************************************************************)

CONSTANTS
    Cmds,
    Sends,     \* those that are SendFile
    Downloads, \* those that are DownloadFile
    Raising    \* what may raise: "before", "execute", "after"

ASSUME CommandsAssumption == Sends \cup Downloads \subseteq Cmds /\ Sends \cap Downloads = {}

Transfers == Sends \cup Downloads

VARIABLES
    stage,  \* "before", "execute", "batch", "after", "done", "raised"
    before, \* commands whose before() is to return
    after,  \* commands whose after() is to return
    shared, \* transfers with a file published by their gftp server
    got,    \* downloads that were copied to their place
    broken, \* a command of the batch failed
    lost    \* an after() raised: execute_after_task fails, unheard

cmdVars == <<stage, before, after, shared, got, broken, lost>>

CmdInit ==
    /\ stage = "before" /\ before = Cmds /\ after = {} /\ shared = {} /\ got = {}
    /\ broken = FALSE /\ lost = FALSE

\* upload_file() or new_destination(); the others run on after one has raised.
Before(c) ==
    /\ c \in before
    /\ before' = before \ {c}
    /\ shared' = shared \cup ({c} \cap Transfers)
    /\ stage' = IF before' = {} /\ stage = "before" THEN "execute" ELSE stage
    /\ UNCHANGED <<after, got, broken, lost>>

BeforeRaises(c) ==
    /\ c \in before \cap Transfers /\ "before" \in Raising
    /\ before' = before \ {c}
    /\ stage' = "raised"
    /\ UNCHANGED <<after, shared, got, broken, lost>>

\* execute(), and the task of execute_after().
Execute ==
    /\ stage = "execute"
    /\ stage' = "batch"
    /\ UNCHANGED <<before, after, shared, got, broken, lost>>

ExecuteRaises ==
    /\ stage = "execute" /\ "execute" \in Raising
    /\ stage' = "raised"
    /\ UNCHANGED <<before, after, shared, got, broken, lost>>

\* Mutant: an error of the batch is not ignored.
Successful(failed) == ~failed

\* batch.wait(ignore_errors=True)
Awaited(failed) == TRUE

BatchEnds(failed) ==
    /\ stage = "batch"
    /\ broken' = failed
    /\ stage' = IF Awaited(failed) THEN "after" ELSE "done"
    /\ after' = IF Awaited(failed) THEN Cmds ELSE {}
    /\ UNCHANGED <<before, shared, got, lost>>

\* A source is released; a destination is copied, and stays published.
After(c) ==
    /\ c \in after
    /\ after' = after \ {c} /\ shared' = shared \ ({c} \cap Sends)
    /\ got' = got \cup ({c} \cap Downloads)
    /\ stage' = IF after' = {} THEN "done" ELSE stage
    /\ UNCHANGED <<before, broken, lost>>

AfterRaises(c) ==
    /\ c \in after \cap Transfers /\ "after" \in Raising
    /\ after' = after \ {c} /\ lost' = TRUE
    /\ stage' = IF after' = {} THEN "done" ELSE stage
    /\ UNCHANGED <<before, shared, got, broken>>

CmdNext ==
    \/ \E c \in Cmds : Before(c) \/ BeforeRaises(c) \/ After(c) \/ AfterRaises(c)
    \/ Execute \/ ExecuteRaises \/ \E failed \in BOOLEAN : BatchEnds(failed)

CmdSpec == CmdInit /\ [][CmdNext]_cmdVars

-----------------------------------------------------------------------------
(***************************************************************************)
(* FilesHeld: while the batch runs every file it transfers is published,   *)
(* and when the commands are done each sent one is released and each other *)
(* one copied, whether the batch failed or not, unless an after() raised   *)
(* (activity.py execute_commands).  Nothing is said of commands one of     *)
(* whose before() or whose execute() raised: what the others published     *)
(* stays published then.                                                   *)
(***************************************************************************)
FilesHeld ==
    /\ stage = "batch" => shared = Transfers
    /\ stage = "done" /\ (shared # Downloads \/ got # Downloads) => lost
=============================================================================
