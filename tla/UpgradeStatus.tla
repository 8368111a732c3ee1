---------------------------- MODULE UpgradeStatus ----------------------------
(***************************************************************************)
(* What the relay says of a device's upgrade.  The administrator triggers   *)
(* it, alone or for the whole fleet; the agent runs it as a task beside its *)
(* session and sends progress frames; the process exits, another one comes  *)
(* back and says how it ended.  The relay keeps one entry, agent_upgrades,  *)
(* and has to conclude from frames, from a registration, or from silence.   *)
(*                                                                          *)
(* One device, whose session exists throughout.  UpgradeSwap has what       *)
(* happens between the exit of the old process and the return of the next,  *)
(* RelayPlane what a registration and a downlink are.                       *)
(***************************************************************************)
EXTENDS Sequences, Naturals

CONSTANTS Request,   \* the administrator's upgrade requests; each that gets
                     \* through has an upgrade_id, the request itself
          MaxLosses, \* bound: how often the agent loses its connection
          Nothing

Stages == {"started", "checking", "downloading", "verifying", "swapping",
           "registered", "rolled_back", "failed"}

Frames == [stage : Stages, upgrade_id : Request \cup {Nothing}, of : Request]

Entry == [stage : Stages, upgrade_id : Request \cup {Nothing},
          at : {"none", "fresh", "stale", "expired"}, of : Request]

ASSUME StatusAssumption ==
    MaxLosses \in Nat /\ Nothing \notin Request /\ Nothing \notin Entry

VARIABLES status,   \* agent_upgrades[sid]: None, or [stage, upgrade_id, at, of];
                    \* at: how old at_unix_s is, "none" if it was never set;
                    \* of: history, the round the entry is about
          request,  \* Request -> where its handler is
          downlink, \* the sender the relay has: "none", "live", or "dead" when
                    \* the connection is gone and the relay does not know
          inbox,    \* upgrade messages the agent has not handled yet, in order
          uplink,   \* frames sent, in order, not absorbed yet
          agent,    \* the process: [pc, version, busy, report]; the
                    \* last is history: it was started by a rollback
          task,     \* Request -> its perform_upgrade: [pc, attached, tick]
          swapped,  \* the round a helper is at work for
          losses,   \* counted against MaxLosses
          succeeded \* history: rounds whose new version has registered

statusVars == <<status, request, downlink, inbox, uplink, agent, task, swapped,
          losses, succeeded>>

-----------------------------------------------------------------------------
(* Stages                                                                  *)

\* upgrade_stage_is_final
Final(stage) == stage \in {"registered", "rolled_back", "failed"}

\* upgrade_stage_awaits_handover
AwaitsHandover(stage) == stage \in {"swapping", "installing", "verifying"}

\* A frame of perform_upgrade does not name its round, one of a process that
\* was started to complete it does.
Frame(stage, id, r) == [stage |-> stage, upgrade_id |-> id, of |-> r]
Progress(stage, r) == Frame(stage, Nothing, r)

Running(r) == task[r].pc \notin {"none", "over"}

NoTask == [pc |-> "none", attached |-> FALSE, tick |-> FALSE]

-----------------------------------------------------------------------------
(* The administrator                                                       *)

SetRequest(r, pc) == request' = [request EXCEPT ![r] = pc]

\* POST /api/agent/upgrade: no look at the status.
AskOne(r) ==
    /\ request[r] = "idle"
    /\ SetRequest(r, "deliver")
    /\ UNCHANGED <<status, downlink, inbox, uplink, agent, task, swapped,
                   losses, succeeded>>

\* The fleet handler's gate.  "registered" is not among what it lets through.
GatePasses ==
    \/ status = Nothing
    \/ status.stage \in {"failed", "rolled_back"}

AskFleet(r) ==
    /\ request[r] = "idle"
    /\ SetRequest(r, IF GatePasses THEN "deliver" ELSE "over")
    /\ UNCHANGED <<status, downlink, inbox, uplink, agent, task, swapped,
                   losses, succeeded>>

\* trigger_upgrade hands agent:upgrade to the downlink, or refuses for want of
\* one.  (What it refuses for another reason changes nothing, like a request
\* that is not made.)
Deliver(r) ==
    /\ request[r] = "deliver"
    /\ SetRequest(r, IF downlink = "none" THEN "over" ELSE "insert")
    /\ inbox' = IF downlink = "live" THEN Append(inbox, r) ELSE inbox
    /\ UNCHANGED <<status, downlink, uplink, agent, task, swapped, losses,
                   succeeded>>

\* ... and only then writes the entry, without a time.
InsertStarted(r) ==
    /\ request[r] = "insert"
    /\ SetRequest(r, "over")
    /\ status' = [stage |-> "started", upgrade_id |-> r, at |-> "none", of |-> r]
    /\ UNCHANGED <<downlink, inbox, uplink, agent, task, swapped, losses,
                   succeeded>>

-----------------------------------------------------------------------------
(* The agent                                                               *)

Send(frame) == uplink' = Append(uplink, frame)

\* agent:upgrade arrives.  upgrade_in_progress lets one in; to another the
\* agent answers with an error the relay's status does not see.
StartUpgrade(r) ==
    /\ agent.pc = "up" /\ inbox # <<>> /\ r = Head(inbox)
    /\ inbox' = Tail(inbox)
    /\ IF agent.busy
       THEN UNCHANGED <<agent, task, uplink>>
       ELSE /\ agent' = [agent EXCEPT !.busy = TRUE]
            /\ task' = [task EXCEPT ![r] = [pc |-> "checking", attached |-> TRUE,
                                            tick |-> FALSE]]
            /\ Send(Progress("checking", r))
    /\ UNCHANGED <<status, request, downlink, swapped, losses, succeeded>>

\* The frame goes out if the session the task belongs to is still there.
Report(r, stage) ==
    IF task[r].attached THEN Send(Progress(stage, r)) ELSE UNCHANGED uplink

\* The downloader reports from tasks of their own: in its own time.
StartDownload(r) ==
    /\ task[r].pc = "checking"
    /\ task' = [task EXCEPT ![r].pc = "downloading", ![r].tick = TRUE]
    /\ UNCHANGED <<status, request, downlink, inbox, uplink, agent, swapped,
                   losses, succeeded>>

DownloadTick(r) ==
    /\ task[r].tick
    /\ task' = [task EXCEPT ![r].tick = FALSE]
    /\ Report(r, "downloading")
    /\ UNCHANGED <<status, request, downlink, inbox, agent, swapped, losses,
                   succeeded>>

\* Downloaded, checked, about to be handed over.
NextStage(r) ==
    /\ \/ task[r].pc = "downloading" /\ Report(r, "verifying")
          /\ task' = [task EXCEPT ![r].pc = "verifying"]
       \/ task[r].pc = "verifying" /\ Report(r, "swapping")
          /\ task' = [task EXCEPT ![r].pc = "swapping"]
    /\ UNCHANGED <<status, request, downlink, inbox, agent, swapped, losses,
                   succeeded>>

\* Mutant: the flag stays set.
TaskFails_StaysBusy(r) ==
    /\ Running(r)
    /\ Report(r, "failed")
    /\ task' = [task EXCEPT ![r].pc = "over"]
    /\ UNCHANGED <<status, request, downlink, inbox, agent, swapped, losses,
                   succeeded>>

\* Any stage can fail: the agent says so, goes on, and is free for another.
TaskFails(r) ==
    /\ Running(r)
    /\ Report(r, "failed")
    /\ task' = [task EXCEPT ![r].pc = "over"]
    /\ agent' = IF task[r].attached THEN [agent EXCEPT !.busy = FALSE] ELSE agent
    /\ UNCHANGED <<status, request, downlink, inbox, swapped, losses, succeeded>>

\* What has been posted when a connection ends still reaches the relay; what
\* waited behind it does not.
Posted == {<<>>, IF uplink = <<>> THEN <<>> ELSE <<Head(uplink)>>}

\* The files are handed over: the process exits, with everything it was doing.
Exit(r) ==
    /\ task[r].pc = "swapping" /\ swapped = Nothing
    /\ swapped' = r
    /\ agent' = [agent EXCEPT !.pc = "gone", !.busy = FALSE, !.report = Nothing]
    /\ task' = [x \in Request |->
                  IF task[x] = NoTask THEN NoTask ELSE [NoTask EXCEPT !.pc = "over"]]
    /\ uplink' \in Posted
    /\ inbox' = <<>>
    /\ downlink' = IF downlink = "live" THEN "dead" ELSE downlink
    /\ UNCHANGED <<status, request, losses, succeeded>>

\* The connection is lost, the process is not: a new session, with a flag of
\* its own, while tasks of the old one go on unheard.
LoseConnection ==
    /\ agent.pc = "up" /\ losses < MaxLosses
    /\ losses' = losses + 1
    /\ agent' = [agent EXCEPT !.pc = "register", !.busy = FALSE, !.report = Nothing]
    /\ task' = [x \in Request |-> [task[x] EXCEPT !.attached = FALSE,
                                                  !.tick = FALSE]]
    /\ uplink' \in Posted
    /\ inbox' = <<>>
    /\ downlink' = IF downlink = "live" THEN "dead" ELSE downlink
    /\ UNCHANGED <<status, request, swapped, succeeded>>

\* How an exchange of the binary ends, as far as the next process tells: the
\* new version that knows its round, the new version that does not, the old
\* one started by the helper that rolled back, the old one started by systemd
\* after the helper was killed.
Returns(version, report) ==
    /\ agent.pc = "gone" /\ swapped # Nothing
    /\ agent' = [pc |-> "register", version |-> version, busy |-> FALSE,
                 report |-> report]
    /\ swapped' = Nothing
    /\ UNCHANGED <<status, request, downlink, inbox, uplink, task, losses,
                   succeeded>>

NewReturns == Returns("target", Frame("registered", swapped, swapped))

NewReturnsSilent == Returns("target", Nothing)

\* spawn_agent_for_rollback removes SR_UPGRADE_RESTORE, and systemd starts the
\* old version without it: the old process has nothing to report.
OldReturns == Returns(agent.version, Nothing)

-----------------------------------------------------------------------------
(* The relay                                                               *)

\* Mutant: reaching the target version counts as success.
Converged_VersionIsSuccess ==
    IF status = Nothing \/ ~AwaitsHandover(status.stage) THEN Nothing
    ELSE IF agent.version = "older" THEN "failed" ELSE "registered"

\* converge_upgrade_on_reconnect: only an older version says anything.
Converged ==
    IF status # Nothing /\ AwaitsHandover(status.stage) /\ agent.version = "older"
    THEN "failed" ELSE Nothing

\* complete(), then registered_frame as the session's first message.
ComesUp(a) ==
    /\ agent' = [a EXCEPT !.pc = "up", !.report = Nothing]
    /\ downlink' = "live"
    /\ uplink' = IF a.report = Nothing THEN uplink ELSE Append(uplink, a.report)
    /\ succeeded' = IF a.report = Nothing THEN succeeded
                    ELSE succeeded \cup {a.report.of}

\* agent_send_handler's last part: it reads the status under one lock ...
RegisterReads ==
    /\ agent.pc = "register"
    /\ IF Converged = Nothing
       THEN ComesUp(agent)
       ELSE /\ agent' = [agent EXCEPT !.pc = Converged]
            /\ UNCHANGED <<downlink, uplink, succeeded>>
    /\ UNCHANGED <<status, request, inbox, task, swapped, losses>>

\* ... and writes under another, whatever the entry is by then.
RegisterConcludes ==
    /\ agent.pc \in {"failed", "registered"}
    /\ status' = IF status = Nothing THEN Nothing
                 ELSE [status EXCEPT !.stage = agent.pc, !.at = "fresh"]
    /\ ComesUp(agent)
    /\ UNCHANGED <<request, inbox, task, swapped, losses>>

\* The relay drops the old connection: AgentEventsCleanup leaves the status.
NoticeDead ==
    /\ downlink = "dead"
    /\ downlink' = "none"
    /\ UNCHANGED <<status, request, inbox, uplink, agent, task, swapped, losses,
                   succeeded>>

\* Mutant: the last frame wins.
ShouldReplace_Always(frame) == TRUE

\* should_replace_upgrade_status
ShouldReplace(frame) ==
    \/ status = Nothing
    \/ /\ status.upgrade_id # Nothing /\ frame.upgrade_id # Nothing
       /\ status.upgrade_id # frame.upgrade_id
    \/ Final(status.stage) => Final(frame.stage)

\* absorb_upgrade_progress: the frame becomes the entry, with its own id or
\* none.
Absorb ==
    /\ uplink # <<>>
    /\ uplink' = Tail(uplink)
    /\ LET frame == Head(uplink) IN
       status' = IF ~ShouldReplace(frame) THEN status
                 ELSE [stage |-> frame.stage, upgrade_id |-> frame.upgrade_id,
                       at |-> "fresh", of |-> frame.of]
    /\ UNCHANGED <<request, downlink, inbox, agent, task, swapped, losses,
                   succeeded>>

\* Half an hour after the entry was written it is stale, two hours after it is
\* expired.
TimePasses ==
    /\ status # Nothing /\ status.at \in {"fresh", "stale"}
    /\ status' = [status EXCEPT !.at = IF @ = "fresh" THEN "stale" ELSE "expired"]
    /\ UNCHANGED <<request, downlink, inbox, uplink, agent, task, swapped,
                   losses, succeeded>>

\* Mutant: an entry without a time counts as new.
Overdue_NeedsTime(s) == s.at \in {"stale", "expired"}

\* An entry without a time is as old as can be.
Overdue(s) == s.at \in {"none", "stale", "expired"}

\* sweep_stale_upgrades
Sweep ==
    /\ status # Nothing
    /\ IF Final(status.stage)
       THEN /\ status.at = "expired"
            /\ status' = Nothing
       ELSE /\ Overdue(status)
            /\ status' = [status EXCEPT !.stage = "failed", !.at = "fresh"]
    /\ UNCHANGED <<request, downlink, inbox, uplink, agent, task, swapped,
                   losses, succeeded>>

-----------------------------------------------------------------------------

\* A device that is to be upgraded; after that, one that runs the target version
\* already and can be made to install it again.
StatusInit ==
    /\ status = Nothing
    /\ request = [r \in Request |-> "idle"]
    /\ downlink = "live" /\ inbox = <<>> /\ uplink = <<>>
    /\ agent = [pc |-> "up", version |-> "older", busy |-> FALSE, report |-> Nothing]
    /\ task = [r \in Request |-> NoTask]
    /\ swapped = Nothing /\ losses = 0
    /\ succeeded = {}

HandlerNext == \E r \in Request : Deliver(r) \/ InsertStarted(r)

AgentNext == \E r \in Request :
    StartUpgrade(r) \/ StartDownload(r) \/ DownloadTick(r) \/ NextStage(r)
    \/ TaskFails(r) \/ Exit(r)

ReturnNext == NewReturns \/ NewReturnsSilent \/ OldReturns

RegisterNext == RegisterReads \/ RegisterConcludes

StatusNext ==
    \/ \E r \in Request : AskOne(r) \/ AskFleet(r)
    \/ HandlerNext \/ AgentNext \/ ReturnNext \/ RegisterNext
    \/ LoseConnection \/ NoticeDead \/ Absorb \/ TimePasses \/ Sweep

StatusSpec == StatusInit /\ [][StatusNext]_statusVars

\* Handlers and tasks go on, a device that left comes back and registers, what
\* was sent arrives, time passes, the relay sweeps every five minutes.
StatusFairSpec ==
    /\ StatusSpec
    /\ WF_statusVars(HandlerNext) /\ WF_statusVars(AgentNext) /\ WF_statusVars(ReturnNext)
    /\ WF_statusVars(RegisterNext) /\ WF_statusVars(Absorb) /\ WF_statusVars(TimePasses)
    /\ WF_statusVars(Sweep)

-----------------------------------------------------------------------------
(* Properties                                                              *)

\* Types, and the agent's flag: upgrade_in_progress is set exactly while the
\* session has an upgrade running, so that a failed one locks nobody out and
\* two never run in one session (run_session, upgrade_in_progress).
TypeOK ==
    /\ status \in Entry \cup {Nothing}
    /\ request \in [Request -> {"idle", "deliver", "insert", "over"}]
    /\ downlink \in {"none", "live", "dead"}
    /\ \A i \in 1..Len(inbox) : inbox[i] \in Request
    /\ \A i \in 1..Len(uplink) : uplink[i] \in Frames
    /\ agent.version \in {"older", "target"}
    /\ agent.busy <=> \E r \in Request : Running(r) /\ task[r].attached
    /\ \A r, x \in Request : Running(r) /\ task[r].attached
                             /\ Running(x) /\ task[x].attached => r = x
    /\ swapped \in Request \cup {Nothing} /\ losses \in 0..MaxLosses

\* The status says "registered" of a round only when the new version of that
\* round has registered: neither a version number nor a connection that comes
\* back counts (converge_upgrade_on_reconnect, "success is never inferred from
\* the version").
RegisteredIsTrue ==
    status # Nothing /\ status.stage = "registered" => status.of \in succeeded

\* A conclusion is never taken back by a late frame: it goes when it has been
\* on show for two hours, or when another upgrade is triggered
\* (should_replace_upgrade_status, sweep_stale_upgrades).
ConclusionStays ==
    [][status # Nothing /\ Final(status.stage) =>
          \/ status' = Nothing /\ status.at = "expired"
          \/ status' # Nothing /\ (Final(status'.stage) \/ status'.stage = "started")
      ]_statusVars

\* Nothing is in progress for ever: whatever is lost on the way, the status
\* comes to a conclusion (sweep_stale_upgrades, "a hanging upgrade becomes a
\* visible failure").
StatusConcludes ==
    [](status # Nothing => <>(status = Nothing \/ Final(status.stage)))
=============================================================================
