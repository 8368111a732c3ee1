-------------------------- MODULE ArtifactDownload --------------------------
(* The download of a new binary (agent/download.rs, perform_upgrade in       *)
(* agent/upgrade.rs): a partial file per source, resumed by a range request  *)
(* and kept from one upgrade to the next; verified, renamed, checked again,  *)
(* tried out and handed over.  upgrade_in_progress belongs to a run_session  *)
(* and the task does not, so after a reconnection a second task may work on  *)
(* the same files as the first.  Hence names and inodes are told apart.      *)
(* The fault model: answers that fail, streams that break, writes and        *)
(* renames that fail, the deadline, reconnections, and loss of power.        *)
EXTENDS Naturals, Sequences, SequencesExt, FiniteSets

CONSTANTS Tasks,      \* upgrade tasks; one for each run_session that may have one
          Order,      \* task.sources(): the sources in the order they are tried
          Length,     \* chunks of the artifact
          Attempts,   \* attempts_per_source
          Scenes      \* what may happen: see Scene

ASSUME DownloadAssumption ==
    /\ Tasks # {} /\ IsFiniteSet(Tasks) /\ "none" \notin Tasks
    /\ Order # <<>> /\ Order \in Seq(ToSet(Order)) /\ IsInjective(Order)
    /\ {Length, Attempts} \subseteq Nat \ {0}

Sources == ToSet(Order)
Installed == "installed"        \* the path of the running binary
Verified == "verified"          \* `part`: what the installation consumes
ASSUME PathsAssumption == {Installed, Verified} \cap Sources = {}

Paths == Sources \cup {Verified, Installed}

\* Chunk i of the artifact is i; 0 is any other.
Artifact == [i \in 1..Length |-> i]
Chunks == 0..Length

Kinds == {"answer", "refused", "stream", "disk", "deadline", "power", "reconnect"}

Scene ==
    [content : [Sources -> Seq(Chunks)], ranges : [Sources -> BOOLEAN],
     size : {0, Length}, parts : [Sources -> Seq(Chunks)], runs : BOOLEAN,
     plan : {"helper", "systemd"}, kinds : SUBSET Kinds, left : Nat]
ASSUME ScenesAssumption == Scenes \subseteq Scene

VARIABLES
    scene,      \* what the sources serve, the task's size, the plan, the faults
    data,       \* the content of each inode
    name,       \* the inode at each path; 0: no file
    task,       \* the running perform_upgrades
    session,    \* upgrade_in_progress of the session that runs: its task
    process,    \* the agent: up, gone (a helper installs), replaced by the new
    faultsLeft, \* the faults left
    crowded     \* history: three tasks have run at a time

downloadVars == <<scene, data, name, task, session, process, faultsLeft, crowded>>

NoTask == "none"
Inodes == 1..(Cardinality(Paths) + Cardinality(Tasks))

Idle == [pc |-> "idle", src |-> 1, tries |-> 0, start |-> 0, body |-> <<>>,
         fd |-> 0, at |-> 0, expired |-> FALSE, spare |-> 0, trouble |-> 0]
Running(t) == task[t].pc \notin {"idle", "failed"}
Source(t) == Order[task[t].src]
Part(t) == name[Source(t)]
DataAt(p) == IF name[p] = 0 THEN <<>> ELSE data[name[p]]

\* A file that no path and no open descriptor refers to is gone.
InUse == {name[p] : p \in Paths} \cup {task[t].fd : t \in Tasks}
Keeps(d) ==
    \E used \in {InUse'} : data' = [i \in Inodes |-> IF i \in used THEN d[i] ELSE <<>>]
NewInode == CHOOSE i \in Inodes : i \notin InUse

\* Whether an undisturbed round gets the artifact from s; and with how many
\* failed attempts to spare: a part as long as the artifact, or longer while
\* the task does not say how long that is, costs one (416).
Good(s) == scene.content[s] = Artifact
Usable(s) ==
    /\ Good(s)
    /\ \/ ~scene.ranges[s] \/ IsPrefix(DataAt(s), Artifact) \/ Len(DataAt(s)) >= Length
Spare(s) ==
    IF ~Usable(s) THEN 0
    ELSE IF scene.ranges[s] /\ Len(DataAt(s)) >= Length THEN Attempts - 1 ELSE Attempts

DownloadInit ==
    /\ scene \in Scenes
    /\ data = [i \in Inodes |->
                 IF i \in 1..Len(Order) THEN scene.parts[Order[i]] ELSE <<>>]
    /\ name = [p \in Paths |->
                 IF p \in Sources /\ scene.parts[p] # <<>>
                 THEN CHOOSE i \in 1..Len(Order) : Order[i] = p ELSE 0]
    /\ task = [t \in Tasks |-> Idle] /\ session = NoTask /\ process = "up"
    /\ faultsLeft = scene.left /\ crowded = FALSE

----------------------------------------------------------------------------
(* The task.                                                                 *)

\* agent:upgrade while no upgrade of this session is in progress.  Two tasks at
\* a time disturb each other.
MaxOf(S) == CHOOSE n \in S : \A k \in S : k <= n
Trigger(t) ==
    /\ process = "up" /\ session = NoTask /\ ~Running(t)
    /\ LET trouble == IF \E u \in Tasks : Running(u) THEN Attempts ELSE 0 IN
       task' = [u \in Tasks |->
                  IF u = t THEN [Idle EXCEPT !.pc = "ask", !.trouble = trouble,
                                             !.spare = MaxOf({Spare(s) : s \in Sources})]
                  ELSE IF Running(u) THEN [task[u] EXCEPT !.trouble = Attempts]
                  ELSE Idle]
    /\ session' = t
    /\ crowded' = IF \E u, w \in Tasks : u # w /\ Running(u) /\ Running(w)
                  THEN TRUE ELSE crowded
    /\ UNCHANGED <<scene, data, name, process, faultsLeft>>

\* report_failed, and the flag is cleared.
Failed(r) == [r EXCEPT !.pc = "failed", !.fd = 0, !.body = <<>>, !.src = 1,
                       !.tries = 0, !.start = 0, !.at = 0]
\* The next source, unless the budget is used up: then the rest is skipped.
NextSource(r) ==
    IF r.src < Len(Order) /\ ~r.expired
    THEN [r EXCEPT !.pc = "ask", !.src = @ + 1, !.tries = 0, !.fd = 0, !.body = <<>>, !.at = 0]
    ELSE Failed(r)
Retry(r) ==
    IF r.tries + 1 < Attempts /\ ~r.expired
    THEN [r EXCEPT !.pc = "ask", !.tries = @ + 1, !.fd = 0, !.body = <<>>, !.at = 0]
    ELSE NextSource(r)

\* The task goes on as r; the session's flag goes with a task that has failed.
Becomes(t, r) ==
    /\ task' = [task EXCEPT ![t] = r]
    /\ session' = IF r.pc = "failed" /\ session = t THEN NoTask ELSE session
    /\ UNCHANGED <<scene, process, crowded>>
Removes(p) == name' = [name EXCEPT ![p] = 0]
\* fatal: the part is thrown away.  retryable: it is kept.
Fatal(t, r) == Removes(Source(t)) /\ Becomes(t, NextSource(r))
Retryable(t, r) == UNCHANGED name /\ Becomes(t, Retry(r))
FatalRetryable_Kept(t, r) == UNCHANGED name /\ Becomes(t, Retry(r))
FatalRetryable(t, r) == Removes(Source(t)) /\ Becomes(t, Retry(r))

\* A part that is longer than the artifact is not resumed.
Ask(t) ==
    /\ task[t].pc = "ask"
    /\ LET existing == Len(DataAt(Source(t)))
           start == IF scene.size > 0 /\ existing > scene.size THEN 0 ELSE existing IN
       IF task[t].expired THEN Becomes(t, NextSource(task[t]))
       ELSE Becomes(t, [task[t] EXCEPT !.pc = "answer", !.start = start])
    /\ UNCHANGED <<data, name, faultsLeft>>

\* 416, 206 from the byte asked for (the file is opened to append to it), or 200
\* (the file is created or emptied).  The inode an answer opens:
Total(t) == Len(scene.content[Source(t)])
Honoured(t) == task[t].start > 0 /\ scene.ranges[Source(t)]
WrongSize(t) == scene.size > 0 /\ Total(t) # scene.size

NotResumable(t) ==
    /\ Honoured(t) /\ task[t].start >= Total(t)
    /\ FatalRetryable(t, task[t])
    /\ Keeps(data) /\ UNCHANGED faultsLeft
Mismatch(t) ==
    /\ ~(Honoured(t) /\ task[t].start >= Total(t))
    /\ WrongSize(t) \/ (Honoured(t) /\ Part(t) = 0)
    /\ Fatal(t, task[t])
    /\ Keeps(data) /\ UNCHANGED faultsLeft
Resumed(t) ==
    /\ Honoured(t) /\ task[t].start < Total(t) /\ ~WrongSize(t) /\ Part(t) # 0
    /\ Becomes(t, [task[t] EXCEPT !.pc = "body", !.fd = Part(t),
                     !.body = SubSeq(scene.content[Source(t)], task[t].start + 1, Total(t))])
    /\ UNCHANGED <<data, name, faultsLeft>>
Whole(t) ==
    /\ ~Honoured(t) /\ ~WrongSize(t)
    /\ LET i == IF Part(t) = 0 THEN NewInode ELSE Part(t) IN
       /\ name' = [name EXCEPT ![Source(t)] = i]
       /\ Becomes(t, [task[t] EXCEPT !.pc = "body", !.fd = i, !.start = 0,
                                     !.body = scene.content[Source(t)]])
       /\ data' = [data EXCEPT ![i] = <<>>]
    /\ UNCHANGED faultsLeft
Answer(t) ==
    /\ task[t].pc = "answer"
    /\ NotResumable(t) \/ Mismatch(t) \/ Resumed(t) \/ Whole(t)

\* A file opened to append grows at its end, one created at its own offset,
\* with a hole if somebody has emptied it meanwhile.
Written(d, p, c) ==
    [i \in 1..(IF p + 1 > Len(d) THEN p + 1 ELSE Len(d)) |->
        IF i = p + 1 THEN c ELSE IF i <= Len(d) THEN d[i] ELSE 0]
Chunk(t) ==
    /\ task[t].pc = "body" /\ task[t].body # <<>>
    /\ LET d == data[task[t].fd]
           p == IF task[t].start > 0 THEN Len(d) ELSE task[t].at IN
       data' = [data EXCEPT ![task[t].fd] = Written(d, p, Head(task[t].body))]
    /\ Becomes(t, [task[t] EXCEPT !.body = Tail(@),
                                  !.at = IF task[t].start > 0 THEN 0 ELSE @ + 1])
    /\ UNCHANGED <<name, faultsLeft>>
BodyEnds(t) ==
    /\ task[t].pc = "body" /\ task[t].body = <<>>
    /\ Becomes(t, [task[t] EXCEPT !.pc = "verify", !.fd = 0, !.at = 0])
    /\ UNCHANGED <<name, faultsLeft>> /\ Keeps(data)

\* Length and hash.  A file that is not the artifact goes, and so does its
\* source: the same source is not asked again.
Verify(t) ==
    /\ task[t].pc = "verify"
    /\ IF DataAt(Source(t)) = Artifact
       THEN Becomes(t, [task[t] EXCEPT !.pc = "place"]) /\ UNCHANGED name
       ELSE Fatal(t, task[t])
    /\ Keeps(data) /\ UNCHANGED faultsLeft

\* A rename that fails ends the whole fetch, other sources or not.
Place(t) ==
    /\ task[t].pc = "place"
    /\ IF Part(t) = 0 THEN Becomes(t, Failed(task[t])) /\ UNCHANGED name
       ELSE /\ name' = [name EXCEPT ![Verified] = Part(t), ![Source(t)] = 0]
            /\ Becomes(t, [task[t] EXCEPT !.pc = "clean"])
    /\ Keeps(data) /\ UNCHANGED faultsLeft
CleanUp(t) ==
    /\ task[t].pc = "clean"
    /\ name' = [p \in Paths |-> IF p \in Sources \ {Source(t)} THEN 0 ELSE name[p]]
    /\ Becomes(t, [task[t] EXCEPT !.pc = "check"])
    /\ Keeps(data) /\ UNCHANGED faultsLeft

\* report_failed_cleanup.
Discards(t) == Removes(Verified) /\ Becomes(t, Failed(task[t]))
Check(t) ==
    /\ task[t].pc = "check"
    /\ IF DataAt(Verified) = Artifact
       THEN Becomes(t, [task[t] EXCEPT !.pc = "smoke"]) /\ UNCHANGED name
       ELSE Discards(t)
    /\ Keeps(data) /\ UNCHANGED faultsLeft

\* --version has to run: it cannot while somebody has the file open for writing.
Executes_NotTried(i) == i # 0 /\ scene.runs
Executes(i) == i # 0 /\ scene.runs /\ \A u \in Tasks : task[u].fd # i
Smoke(t) ==
    /\ task[t].pc = "smoke"
    /\ IF Executes(name[Verified])
       THEN Becomes(t, [task[t] EXCEPT !.pc = "swap"]) /\ UNCHANGED name
       ELSE Discards(t)
    /\ Keeps(data) /\ UNCHANGED faultsLeft

\* SystemdRestart: the agent exchanges the files itself, and puts the old binary
\* back when the new one does not verify in place.  Otherwise a helper has been
\* started.  In both cases the process lives on for EXIT_FLUSH_GRACE.
Swap(t) ==
    /\ task[t].pc = "swap"
    /\ IF scene.plan = "helper"
       THEN Becomes(t, [task[t] EXCEPT !.pc = "exits"]) /\ UNCHANGED name
       ELSE IF DataAt(Verified) = Artifact
       THEN /\ name' = [name EXCEPT ![Installed] = name[Verified], ![Verified] = 0]
            /\ Becomes(t, [task[t] EXCEPT !.pc = "exits"])
       ELSE Becomes(t, Failed(task[t])) /\ UNCHANGED name
    /\ Keeps(data) /\ UNCHANGED faultsLeft

\* All tasks end with the process.
Exit(t) ==
    /\ task[t].pc = "exits"
    /\ task' = [u \in Tasks |-> Idle] /\ session' = NoTask
    /\ process' = IF scene.plan = "helper" THEN "gone" ELSE "replaced"
    /\ UNCHANGED <<scene, name, faultsLeft, crowded>> /\ Keeps(data)

\* The helper verifies what it is about to install; if it is not the artifact,
\* it starts the old binary again.
HelperSwaps ==
    /\ process = "gone"
    /\ IF DataAt(Verified) = Artifact
       THEN /\ name' = [name EXCEPT ![Installed] = name[Verified], ![Verified] = 0]
            /\ process' = "replaced"
       ELSE process' = "up" /\ UNCHANGED name
    /\ UNCHANGED <<scene, task, session, faultsLeft, crowded>> /\ Keeps(data)

----------------------------------------------------------------------------
(* Faults.                                                                   *)

Happens(k) == k \in scene.kinds /\ faultsLeft > 0 /\ faultsLeft' = faultsLeft - 1
Troubled(r, n) ==
    [r EXCEPT !.trouble = IF @ + n > Attempts THEN Attempts ELSE @ + n]

\* No answer in time, a connection that fails, a 5xx.
AnswerFails(t) ==
    /\ task[t].pc = "answer" /\ Happens("answer")
    /\ Retryable(t, Troubled(task[t], 1)) /\ UNCHANGED data
\* A 4xx; an answer that contradicts the request.
Refused(t) ==
    /\ task[t].pc = "answer" /\ Happens("refused")
    /\ LET r == Troubled(task[t], Attempts) IN
       Fatal(t, r) \/ (UNCHANGED name /\ Becomes(t, NextSource(r)))
    /\ Keeps(data)
\* A stall or an error while bytes are due.
StreamBreaks(t) ==
    /\ task[t].pc = "body" /\ task[t].body # <<>> /\ Happens("stream")
    /\ Retryable(t, Troubled(task[t], 1)) /\ Keeps(data)
WriteFails(t) ==
    /\ task[t].pc = "body" /\ Happens("disk")
    /\ Fatal(t, Troubled(task[t], Attempts)) /\ Keeps(data)
\* The rename to `part`; the handover.  The files stay.
MoveFails(t) ==
    /\ task[t].pc \in {"place", "swap"} /\ Happens("disk")
    /\ Becomes(t, Failed(Troubled(task[t], Attempts))) /\ UNCHANGED <<data, name>>
Expires(t) ==
    /\ Running(t) /\ ~task[t].expired /\ Happens("deadline")
    /\ LET r == [Troubled(task[t], Attempts) EXCEPT !.expired = TRUE] IN
       Becomes(t, IF r.pc \in {"answer", "body"} /\ (r.pc = "answer" \/ r.body # <<>>)
                  THEN Failed(r) ELSE r)
    /\ UNCHANGED name /\ Keeps(data)

\* A new run_session; the tasks of the old one go on.
Reconnect ==
    /\ process = "up" /\ session # NoTask /\ Happens("reconnect")
    /\ session' = NoTask
    /\ UNCHANGED <<scene, data, name, task, process, crowded>>

\* Power fails: no task is left, and a part may lose its end (only a finished
\* body is synced).
PowerFails ==
    /\ process = "up" /\ name[Installed] = 0 /\ Happens("power")
    /\ task' = [t \in Tasks |-> Idle] /\ session' = NoTask
    /\ UNCHANGED <<scene, name, process, crowded>>
    /\ \E cut \in [Sources -> 0..Length] :
          Keeps([i \in Inodes |->
                   IF \E s \in Sources : name[s] = i /\ cut[s] < Len(data[i])
                   THEN SubSeq(data[i], 1, cut[CHOOSE s \in Sources : name[s] = i])
                   ELSE data[i]])

Progress(t) ==
    \/ Ask(t) \/ Answer(t) \/ Chunk(t) \/ BodyEnds(t) \/ Verify(t) \/ Place(t)
    \/ CleanUp(t) \/ Check(t) \/ Smoke(t) \/ Swap(t) \/ Exit(t)
Disturbed(t) == \/ AnswerFails(t) \/ Refused(t) \/ StreamBreaks(t) \/ WriteFails(t)
                \/ MoveFails(t) \/ Expires(t)

DownloadNext ==
    \/ \E t \in Tasks : Trigger(t) \/ Progress(t) \/ Disturbed(t)
    \/ HelperSwaps \/ Reconnect \/ PowerFails

DownloadSpec == DownloadInit /\ [][DownloadNext]_downloadVars

----------------------------------------------------------------------------
\* What is at the path of the binary after an exchange is the artifact, from the
\* rename on, though another task may have been writing to the file that was
\* renamed (fetch, perform_upgrade, systemd_restart_swap, verify_new_binary).  Of
\* three tasks at a time the second can put its file in the place of the one that
\* the first has tried, while the third still has it open.
InstalledIsArtifact ==
    ~crowded /\ name[Installed] # 0 => DataAt(Installed) = Artifact

\* A round that no other task disturbed fails only if the binary does not run,
\* no source could be used, or more attempts failed than it had to spare; and an
\* undisturbed one leaves no part that would make the next round fail at a source
\* that has the artifact (fetch, download_from, Outcome).
FailureIsDeserved ==
    \A t \in Tasks : task[t].pc = "failed" /\ (\A u \in Tasks : ~Running(u)) =>
       /\ task[t].trouble >= task[t].spare \/ ~scene.runs
       /\ task[t].trouble = 0 => \A s \in Sources : Good(s) => Usable(s)
=============================================================================
