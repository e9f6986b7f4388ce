-------------------------------- MODULE Gftp --------------------------------
(***************************************************************************)
(* GftpProvider (golem/utils/storage/gftp/provider.py): files published    *)
(* through one `gftp server` by several tasks.  The same content has the   *)
(* same URL, so the provider counts its sources per URL, and closes a URL  *)
(* and deletes its temporary files when the last source is released.       *)
(*                                                                         *)
(* A request to the server and its answer are one step of the task that    *)
(* waits for it; what may happen between two awaits of a task is in the    *)
(* interleaving.  Whether the server executed a request whose answer is an *)
(* error, or never came, is a choice.                                      *)
(***************************************************************************)
EXTENDS Integers, FiniteSets

CONSTANTS
    Clients,   \* tasks that upload and release
    Main,      \* the task of __aenter__ and __aexit__
    Files,     \* paths of files of the user
    Temps,     \* paths of temporary files of the provider
    Urls,
    None

\* The content of a file, hence its URL, does not change while it is published.
CONSTANT Url

Paths == Files \cup Temps

\* PublishedSource: the count of a URL and its temporary files.
Entry == [count : Nat, temps : SUBSET Temps]

ASSUME GftpAssumption ==
    /\ IsFiniteSet(Clients) /\ IsFiniteSet(Paths)
    /\ Url \in [Paths -> Urls]
    /\ Files \cap Temps = {}
    /\ Main \notin Clients
    /\ None \notin Clients \cup {Main} \cup Paths
    /\ None \notin Entry

VARIABLES
    entered,     \* used with `async with`; the file commands use it without
    phase,       \* "new", "open", "closing", "closed"
    closeUrls,   \* _close_urls: TRUE, FALSE or None
    server,      \* _process: the task that started the server, or None
    exposed,     \* the server of a task and the URLs it exposes
    published,   \* _published_sources: URL -> None or [count, temps]
    disk,        \* temporary files that exist
    lock,        \* _lock: the task that holds it, or None
    pc,
    job,         \* the call a task is in: [kind, path, temp, server]
    held,        \* paths of the sources a task has and has not released
    spilled      \* history: URLs and files that a failed call left behind

vars == <<entered, phase, closeUrls, server, exposed, published, disk, lock,
          pc, job, held, spilled>>

Kinds == {"upload", "release", "receive"}
NoJob == [kind |-> "upload", path |-> None, temp |-> FALSE, server |-> None]

TypeOK ==
    /\ entered \in BOOLEAN
    /\ phase \in {"new", "open", "closing", "closed"}
    /\ closeUrls \in BOOLEAN \cup {None}
    /\ server \in Clients \cup {Main, None}
    /\ exposed \in SUBSET ((Clients \cup {Main}) \X Urls)
    /\ published \in [Urls -> Entry \cup {None}]
    /\ disk \in SUBSET Temps
    /\ lock \in Clients \cup {None}
    /\ pc \in [Clients -> {"idle", "process", "starting", "lock", "publish",
                           "close", "receive"}]
    /\ job \in [Clients -> [kind : Kinds, path : Paths \cup {None},
                            temp : BOOLEAN, server : Clients \cup {Main, None}]]
    /\ held \in [Clients -> SUBSET Paths]
    /\ spilled \in SUBSET (Urls \cup Temps)

(***************************************************************************)
(* read_use_gftp_close_env_var and strtobool: a variable that is not set   *)
(* or not a boolean leaves _close_urls None.                               *)
(***************************************************************************)
CloseEnv == BOOLEAN \cup {None}

Init ==
    /\ entered \in BOOLEAN
    /\ phase = IF entered THEN "new" ELSE "open"
    /\ closeUrls \in CloseEnv
    /\ server = None
    /\ exposed = {}
    /\ published = [u \in Urls |-> None]
    /\ disk = {}
    /\ lock = None
    /\ pc = [c \in Clients |-> "idle"]
    /\ job = [c \in Clients |-> NoJob]
    /\ held = [c \in Clients |-> {}]
    /\ spilled = {}

\* semver >= 0.7.3, FALSE also for a version that cannot be parsed.
VersionCanClose == BOOLEAN

Enter ==
    /\ phase = "new"
    /\ server' = Main
    /\ closeUrls' \in IF closeUrls = None THEN VersionCanClose ELSE {closeUrls}
    /\ phase' = "open"
    /\ UNCHANGED <<entered, exposed, published, disk, lock, pc, job, held, spilled>>

\* A path that mkstemp may return: no file has it and nobody remembers it.
FreshTemp(t) ==
    /\ t \in Temps \ disk
    /\ \A c \in Clients : job[c].path # t /\ t \notin held[c]
    /\ \A u \in Urls : published[u] # None => t \notin published[u].temps

Goto(c, l) == pc' = [pc EXCEPT ![c] = l]

Call(c, k, p, t, l) ==
    /\ phase = "open"
    /\ pc[c] = "idle"
    /\ job' = [job EXCEPT ![c] = [kind |-> k, path |-> p, temp |-> t, server |-> None]]
    /\ Goto(c, l)

\* A file of the user, or the path of a temporary source somebody has.  A task
\* has at most one source of a path at a time; two tasks may have one each.
UploadFile(c, p) ==
    /\ p \in Files \/ \E d \in Clients : p \in held[d]
    /\ p \notin held[c]
    /\ Call(c, "upload", p, FALSE, "process")
    /\ UNCHANGED <<entered, phase, closeUrls, server, exposed, published, disk,
                   lock, held, spilled>>

\* upload_stream and upload_bytes: the content is written to a temporary file.
UploadStream(c, t) ==
    /\ FreshTemp(t)
    /\ Call(c, "upload", t, TRUE, "process")
    /\ disk' = disk \cup {t}
    /\ UNCHANGED <<entered, phase, closeUrls, server, exposed, published, lock,
                   held, spilled>>

\* The stream raises: the file stays until __aexit__.
StreamRaises(c, t) ==
    /\ phase = "open"
    /\ pc[c] = "idle"
    /\ FreshTemp(t)
    /\ disk' = disk \cup {t}
    /\ spilled' = spilled \cup {t}
    /\ UNCHANGED <<entered, phase, closeUrls, server, exposed, published, lock,
                   pc, job, held>>

\* A destination that exists already is not given to gftp, a new file is.
NewDestination(c, p) ==
    /\ IF p = None THEN UNCHANGED <<disk, spilled>>
                   ELSE /\ FreshTemp(p)
                        /\ disk' = disk \cup {p}
                        /\ spilled' = spilled \cup {p}
    /\ Call(c, "receive", p, FALSE, "process")
    /\ UNCHANGED <<entered, phase, closeUrls, server, exposed, published, lock, held>>

AfterProcess(k) == CASE k = "upload"  -> "lock"
                     [] k = "release" -> "close"
                     [] k = "receive" -> "receive"

\* __get_process: a task that finds none starts one and waits for it.
GetProcess(c) ==
    /\ pc[c] = "process"
    /\ IF server = None
         THEN /\ Goto(c, "starting")
              /\ UNCHANGED job
         ELSE /\ Goto(c, AfterProcess(job[c].kind))
              /\ job' = [job EXCEPT ![c].server = server]
    /\ UNCHANGED <<entered, phase, closeUrls, server, exposed, published, disk,
                   lock, held, spilled>>

Started(c) ==
    /\ pc[c] = "starting"
    /\ server' = IF server = None THEN c ELSE server
    /\ job' = [job EXCEPT ![c].server = c]
    /\ Goto(c, AfterProcess(job[c].kind))
    /\ UNCHANGED <<entered, phase, closeUrls, exposed, published, disk, lock,
                   held, spilled>>

JobUrl(c) == Url[job[c].path]

\* Mutant: the request is sent without waiting for the lock.
AcquireUnlocked(c) ==
    /\ pc[c] = "lock"
    /\ job[c].kind = "upload"
    /\ Goto(c, "publish")
    /\ UNCHANGED <<entered, phase, closeUrls, server, exposed, published, disk,
                   lock, job, held, spilled>>

Acquire(c) ==
    /\ pc[c] = "lock"
    /\ job[c].kind = "upload"
    /\ lock = None
    /\ lock' = c
    /\ Goto(c, "publish")
    /\ UNCHANGED <<entered, phase, closeUrls, server, exposed, published, disk,
                   job, held, spilled>>

\* The end of a call: the lock is released, whatever happened.
Finish(c) ==
    /\ lock' = None
    /\ Goto(c, "idle")
    /\ job' = [job EXCEPT ![c] = NoJob]

\* The server answers as long as the provider is not closed.
Answers == phase = "open"

\* Mutant: a URL that is published again is not counted again.
CountedOnce(e, p, temp) ==
    IF e = None
      THEN [count |-> 1, temps |-> IF temp THEN {p} ELSE {}]
      ELSE [e EXCEPT !.temps = IF temp THEN @ \cup {p} ELSE @]

\* The entry of a URL after one more upload of path p.
Counted(e, p, temp) ==
    IF e = None
      THEN [count |-> 1, temps |-> IF temp THEN {p} ELSE {}]
      ELSE [count |-> e.count + 1,
            temps |-> IF temp THEN e.temps \cup {p} ELSE e.temps]

\* "already published as temporary": raised after the file was published.
AlreadyTemporary(e, p) == e # None /\ p \in e.temps

Publish(c) ==
    LET p == job[c].path
        u == Url[p]
    IN  /\ pc[c] = "publish"
        /\ Answers
        /\ p \in Files \cup disk
        /\ exposed' = exposed \cup {<<job[c].server, u>>}
        /\ IF AlreadyTemporary(published[u], p)
             THEN UNCHANGED <<published, held>>
             ELSE /\ published' = [published EXCEPT ![u] = Counted(@, p, job[c].temp)]
                  /\ held' = [held EXCEPT ![c] = @ \cup {p}]
        /\ Finish(c)
        /\ UNCHANGED <<entered, phase, closeUrls, server, disk, spilled>>

\* The file is gone, the server reports an error or is closed, stat fails.
PublishRaises(c) ==
    /\ pc[c] = "publish"
    /\ exposed' \in {exposed} \cup
           (IF Answers THEN {exposed \cup {<<job[c].server, JobUrl(c)>>}} ELSE {})
    /\ spilled' = spilled \cup {JobUrl(c)} \cup ({job[c].path} \cap Temps)
    /\ Finish(c)
    /\ UNCHANGED <<entered, phase, closeUrls, server, published, disk, held>>

Release(c, p) ==
    /\ p \in held[c]
    /\ Call(c, "release", p, FALSE, "lock")
    /\ held' = [held EXCEPT ![c] = @ \ {p}]
    /\ UNCHANGED <<entered, phase, closeUrls, server, exposed, published, disk,
                   lock, spilled>>

\* The last source is gone: temporary files are deleted, the entry too.
Unpublish(u) ==
    /\ disk' = disk \ published[u].temps
    /\ published' = [published EXCEPT ![u] = None]

Lower(u) == published[u].count - 1

ReleaseLocked(c) ==
    LET u == JobUrl(c)
    IN  /\ pc[c] = "lock"
        /\ job[c].kind = "release"
        /\ lock = None
        /\ IF published[u] = None          \* "Trying to release an unpublished URL"
             THEN Finish(c) /\ UNCHANGED <<published, disk>>
             ELSE \/ /\ Lower(u) # 0
                     /\ published' = [published EXCEPT ![u].count = Lower(u)]
                     /\ Finish(c)
                     /\ UNCHANGED disk
                  \/ /\ Lower(u) = 0
                     /\ closeUrls # TRUE
                     /\ Unpublish(u)
                     /\ Finish(c)
                  \/ /\ Lower(u) = 0
                     /\ closeUrls = TRUE
                     /\ published' = [published EXCEPT ![u].count = 0]
                     /\ lock' = c
                     /\ Goto(c, "process")
                     /\ UNCHANGED <<disk, job>>
        /\ UNCHANGED <<entered, phase, closeUrls, server, exposed, held, spilled>>

Close(c) ==
    LET u == JobUrl(c)
    IN  /\ pc[c] = "close"
        /\ Answers
        /\ exposed' = exposed \ {<<job[c].server, u>>}
        /\ Unpublish(u)
        /\ Finish(c)
        /\ UNCHANGED <<entered, phase, closeUrls, server, held, spilled>>

\* close raises: the entry stays, with a count of 0 and its temporary files.
CloseRaises(c) ==
    LET u == JobUrl(c)
    IN  /\ pc[c] = "close"
        /\ exposed' \in {exposed, exposed \ {<<job[c].server, u>>}}
        /\ spilled' = spilled \cup {u}
        /\ Finish(c)
        /\ UNCHANGED <<entered, phase, closeUrls, server, published, disk, held>>

\* receive takes no lock; its answer is the destination or an error.
Receive(c) ==
    /\ pc[c] = "receive"
    /\ Goto(c, "idle")
    /\ job' = [job EXCEPT ![c] = NoJob]
    /\ UNCHANGED <<entered, phase, closeUrls, server, exposed, published, disk,
                   lock, held, spilled>>

\* The exit stack deletes the files in reverse order, then closes the process:
\* from here on a request raises, as the process is no longer there.
Exit ==
    /\ entered
    /\ phase = "open"
    /\ phase' = "closing"
    /\ disk' = {}
    /\ UNCHANGED <<entered, closeUrls, server, exposed, published, lock, pc, job,
                   held, spilled>>

\* __Process._close: stdin is closed, after 10 s the process is killed.
ExitEnd ==
    /\ phase = "closing"
    /\ phase' = "closed"
    /\ exposed' = {}
    /\ UNCHANGED <<entered, closeUrls, server, published, disk, lock, pc, job,
                   held, spilled>>

Step(c) ==
    \/ GetProcess(c) \/ Started(c) \/ Acquire(c) \/ Publish(c) \/ PublishRaises(c)
    \/ ReleaseLocked(c) \/ Close(c) \/ CloseRaises(c) \/ Receive(c)

Next ==
    \/ Enter \/ Exit \/ ExitEnd
    \/ \E c \in Clients :
          \/ Step(c)
          \/ \E p \in Paths : UploadFile(c, p) \/ Release(c, p)
          \/ \E t \in Temps : UploadStream(c, t) \/ StreamRaises(c, t)
          \/ \E p \in Temps \cup {None} : NewDestination(c, p)

Spec == Init /\ [][Next]_vars

-----------------------------------------------------------------------------
(***************************************************************************)
(* Properties                                                              *)
(***************************************************************************)

\* Sources of a URL that somebody has, or is about to release.
Outstanding(u) ==
    {x \in Clients \X Paths : x[2] \in held[x[1]] /\ Url[x[2]] = u}
Releasing(u) ==
    {c \in Clients : pc[c] = "lock" /\ job[c].kind = "release" /\ JobUrl(c) = u}

\* The count of a URL is that of the sources upload_file returned and nobody
\* has released, also when publish or close raised in between.
CountExact ==
    \A u \in Urls :
        (IF published[u] = None THEN 0 ELSE published[u].count)
            = Cardinality(Outstanding(u)) + Cardinality(Releasing(u))

\* As long as somebody has a source, gftp exposes its URL, and the temporary
\* file it was made from exists: no release of another source of the same
\* content, and no failed close, takes it away.  And what nobody has is given
\* back: in an entered provider that closes URLs only those with an entry or
\* touched by a failed call are exposed, a temporary file belongs to an entry,
\* to an upload, or to such a call, and a closed provider leaves nothing.
ServedExactly ==
    /\ phase = "open" =>
           \A c \in Clients : \A p \in held[c] :
               /\ \E s \in Clients \cup {Main} : <<s, Url[p]>> \in exposed
               /\ p \in Temps => p \in disk
    /\ entered /\ closeUrls = TRUE =>
           \A x \in exposed : published[x[2]] # None \/ x[2] \in spilled
    /\ \A t \in disk :
           \/ t \in spilled
           \/ \E u \in Urls : published[u] # None /\ t \in published[u].temps
           \/ \E c \in Clients : job[c].path = t
    /\ phase = "closed" => exposed = {} /\ disk = {}

=============================================================================
