----------------------------- MODULE UpgradeSwap -----------------------------
(***************************************************************************)
(* How an agent replaces its own binary.  The new version is downloaded and *)
(* verified; what is left is to exchange two files, start the new version   *)
(* under the identity of the old one, and to go back to the old one if the  *)
(* new one does not register.  Who does that depends on what runs the agent *)
(* (systemd_helper::decide):                                                *)
(*                                                                          *)
(*   Direct          a helper process, once the old agent has exited        *)
(*   Coordinated     a helper that may stop and start the systemd unit      *)
(*   SystemdRestart  the old agent itself; systemd starts the new version,  *)
(*                   which has to roll itself back                          *)
(*                                                                          *)
(* The relay appears as the one session the upgrade is about: the tokens it *)
(* has there and whether an agent is online (RelayPlane has the rest).      *)
(***************************************************************************)
EXTENDS Naturals

CONSTANTS Probes,          \* what systemd_helper::probe may find
          NewVersions,     \* how the new version may behave
          HasKey,          \* whether the agent runs with --key
          HasSid,          \* whether the agent runs with --session-id
          OldKnowsPointer, \* whether the old version reads .restore-pending
          Weathers,        \* what may go wrong, and at most how often
          None

FaultKinds == {"io", "systemctl", "crash", "helper", "slow", "network"}

ASSUME UpgradeAssumption ==
    /\ NewVersions \subseteq {"good", "hangs", "crashes", "dead"}
    /\ HasKey \in BOOLEAN /\ HasSid \in BOOLEAN /\ OldKnowsPointer \in BOOLEAN
    /\ None \notin {"old", "new", "original", "three", "registered"}
    /\ Weathers \subseteq [kinds : SUBSET FaultKinds, left : Nat]

VARIABLES probe,      \* the facts the plan is made from
          version,    \* how the new version behaves
          disk,       \* which binary is at target, at backup, at .part
          handoff,    \* whether the handoff file is there
          pointer,    \* .restore-pending: None, "two" or "three" lines
          unit,       \* the systemd unit: "active" or "stopped"
          agent,      \* the agent process
          swap,       \* where the exchange is: the helper, or the old agent
          seen,       \* await_handoff_consumed has seen the handoff file
          marker,     \* the new agent has written its marker to the helper
          outcome,    \* how the exchange ended, as it is reported
          relay,      \* the session: its tokens, and whether it is online
          confirmed,  \* history: the new version has registered
          faults      \* what may still go wrong, and how often

files == <<disk, handoff, pointer>>
swapVars == <<swap, seen, outcome>>
vars == <<probe, version, files, unit, agent, swapVars, marker, relay, confirmed,
          faults>>

-----------------------------------------------------------------------------
(* The plan                                                                *)

\* Mutant: Restart= is not looked at.
Decide_AnyRestartPolicy(p) ==
    IF ~p.managed THEN "Direct"
    ELSE IF ~(p.unit_known /\ p.main_pid = "self" /\ ~p.shares_cgroup
              /\ p.exec_start = "same") THEN "Refuse"
    ELSE IF p.lifecycle_authorized THEN "Coordinated" ELSE "SystemdRestart"

\* systemd_helper::decide.
Decide(p) ==
    IF ~p.managed THEN "Direct"
    ELSE IF ~(p.unit_known /\ p.main_pid = "self" /\ ~p.shares_cgroup
              /\ p.exec_start = "same" /\ p.restart_policy # None)
         THEN "Refuse"
    ELSE IF p.lifecycle_authorized THEN "Coordinated"
    ELSE IF p.restart_policy = "always" THEN "SystemdRestart"
    ELSE "Refuse"

Plan == Decide(probe)

-----------------------------------------------------------------------------
(* Files and processes                                                     *)

\* Mutant: the current binary is not kept.
SetAside_NotKept(d) == [d EXCEPT !.target = None]

\* rename(target, backup), rename(.part, target), rename(backup, target).
SetAside(d) == [d EXCEPT !.backup = d.target, !.target = None]
Install(d) == [d EXCEPT !.target = d.part, !.part = None]
Restore(d) == [d EXCEPT !.target = d.backup, !.backup = None]

Fault(kind) == /\ kind \in faults.kinds /\ faults.left > 0
               /\ faults' = [faults EXCEPT !.left = @ - 1]

Gone == [image |-> None, how |-> None, pc |-> "gone", watchdog |-> "off",
         restore |-> FALSE, sid |-> None, tok |-> None]

\* how: what the process is told about its identity.  "env": the handoff file
\* (SR_UPGRADE_RESTORE); "sid": --session-id of the old session; "plain":
\* only what the command line always says.
Started(how) == [Gone EXCEPT !.image = disk.target, !.how = how, !.pc = "boot"]

Offline == [relay EXCEPT !.online = FALSE]

Killed == /\ agent' = Gone
          /\ relay' = IF agent.sid = "S" THEN Offline ELSE relay

Ended(result, identity, restored) ==
    /\ outcome' = [result |-> result, identity |-> identity,
                   restored |-> restored]
    /\ swap' = "done"

-----------------------------------------------------------------------------
(* The old agent: perform_upgrade, from "swapping" on                      *)

Original == agent.how = "original"

\* hand_over_to_helper: the plan is made while nothing has been touched yet.
HandOver ==
    /\ swap = "idle" /\ Original
    /\ IF Plan = "Refuse"
       THEN Ended("failed", None, TRUE) /\ UNCHANGED handoff
       ELSE /\ handoff' = TRUE
            /\ swap' = IF Plan = "SystemdRestart" THEN "restart.backup"
                       ELSE "checks"
            /\ UNCHANGED outcome
    /\ UNCHANGED <<probe, version, disk, pointer, unit, agent, seen, marker,
                   relay, confirmed, faults>>

\* The helper verifies .part and the directory and says that it is ready; or
\* it does not, and the old agent goes on.
HelperChecks ==
    /\ swap = "checks" /\ Original
    /\ \/ /\ swap' = "wait_exit"
          /\ agent' = [agent EXCEPT !.pc = "leaving"]
          /\ UNCHANGED <<outcome, handoff, faults>>
       \/ /\ Fault("io")
          /\ Ended("failed", None, TRUE)
          /\ handoff' = FALSE
          /\ UNCHANGED agent
    /\ UNCHANGED <<probe, version, disk, pointer, unit, seen, marker, relay,
                   confirmed>>

\* process::exit(0), when the last frame has had its time.
OldExits ==
    /\ Original /\ agent.pc = "leaving"
    /\ Killed
    /\ UNCHANGED <<probe, version, files, unit, swapVars, marker, confirmed,
                   faults>>

\* wait_for_exit: by pid, so a process systemd has started in the meantime is
\* not mistaken for the old one.
WaitExit ==
    /\ swap = "wait_exit"
    /\ IF Original
       THEN Fault("slow") /\ Ended("aborted", None, TRUE)
       ELSE /\ swap' = IF Plan = "Coordinated" THEN "unit.stop"
                       ELSE "direct.backup"
            /\ UNCHANGED <<outcome, faults>>
    /\ UNCHANGED <<probe, version, files, unit, agent, seen, marker, relay,
                   confirmed>>

-----------------------------------------------------------------------------
(* Direct: helper_main_with                                                *)

DirectBackup ==
    /\ swap = "direct.backup"
    /\ \/ /\ disk' = SetAside(disk)
          /\ swap' = "direct.install"
          /\ UNCHANGED <<outcome, faults>>
       \/ /\ Fault("io")
          /\ Ended("aborted", None, TRUE)
          /\ UNCHANGED disk
    /\ UNCHANGED <<probe, version, handoff, pointer, unit, agent, seen, marker,
                   relay, confirmed>>

DirectInstall ==
    /\ swap = "direct.install"
    /\ \/ /\ disk' = Install(disk)
          /\ swap' = "direct.spawn"
          /\ UNCHANGED faults
       \/ /\ Fault("io")
          /\ swap' = "direct.undo"
          /\ UNCHANGED disk
    /\ UNCHANGED <<probe, version, handoff, pointer, unit, agent, seen,
                   outcome, marker, relay, confirmed>>

DirectUndo ==
    /\ swap = "direct.undo"
    /\ \/ /\ disk' = Restore(disk)
          /\ Ended("aborted", None, TRUE)
          /\ UNCHANGED faults
       \/ /\ Fault("io")
          /\ Ended("aborted", None, FALSE)
          /\ UNCHANGED disk
    /\ UNCHANGED <<probe, version, handoff, pointer, unit, agent, seen, marker,
                   relay, confirmed>>

DirectSpawn ==
    /\ swap = "direct.spawn"
    /\ \/ /\ agent' = Started("env")
          /\ swap' = "direct.await"
          /\ UNCHANGED faults
       \/ /\ Fault("io")
          /\ swap' = "direct.rollback"
          /\ UNCHANGED agent
    /\ UNCHANGED <<probe, version, files, unit, seen, outcome, marker, relay,
                   confirmed>>

\* await_registration: the marker on the new process's stderr.
NewRegistered == marker

DirectRegistered ==
    /\ swap = "direct.await" /\ NewRegistered
    /\ disk' = [disk EXCEPT !.backup = None]
    /\ handoff' = FALSE
    /\ Ended("registered", None, FALSE)
    /\ UNCHANGED <<probe, version, pointer, unit, agent, seen, marker, relay,
                   confirmed, faults>>

\* The new process has exited, or its 75 s are over and the last line read was
\* not the marker: kill_process_tree, then rollback.
DirectGivesUp ==
    /\ swap = "direct.await"
    /\ Killed
    /\ swap' = "direct.rollback"
    /\ UNCHANGED <<probe, version, files, unit, seen, outcome, marker, confirmed,
                   faults>>

DirectRollback ==
    /\ swap = "direct.rollback"
    /\ \/ /\ disk' = Restore(disk)
          /\ swap' = "direct.respawn"
          /\ UNCHANGED <<outcome, faults>>
       \/ /\ Fault("io")
          /\ Ended("rolled_back", "Lost", FALSE)
          /\ UNCHANGED disk
    /\ UNCHANGED <<probe, version, handoff, pointer, unit, agent, seen, marker,
                   relay, confirmed>>

\* spawn_agent_for_rollback: the old version, told its session id only.
DirectRespawn ==
    /\ swap = "direct.respawn"
    /\ \/ /\ agent' = Started("sid")
          /\ swap' = "direct.await_old"
          /\ UNCHANGED <<outcome, faults>>
       \/ /\ Fault("io")
          /\ Ended("rolled_back", "Lost", TRUE)
          /\ UNCHANGED agent
    /\ UNCHANGED <<probe, version, files, unit, seen, marker, relay, confirmed>>

\* await_rollback_registration: the old version logs that it has registered;
\* or it exits, or its 75 s pass.
DirectAwaitOld ==
    /\ swap = "direct.await_old"
    /\ \/ agent.tok # None /\ swap' = "direct.bind"
       \/ agent.tok = None /\ swap' = "direct.bind_lost"
    /\ UNCHANGED <<probe, version, files, unit, agent, seen, outcome, marker,
                   relay, confirmed, faults>>

\* The relay's answer to a register with the old id and tokens: 409 if an
\* agent is online there under other tokens (SessionRegistry::can_reclaim).
RebindAccepted == ~relay.online \/ relay.tok = "T0"

\* bind_identity, with rollback_verdict and merge_verdict.
DirectBind ==
    /\ swap \in {"direct.bind", "direct.bind_lost"}
    /\ LET verdict(v) == IF swap = "direct.bind" THEN v ELSE "Lost" IN
       \/ /\ RebindAccepted
          /\ relay' = [relay EXCEPT !.tok = "T0"]
          /\ Ended("rolled_back", verdict("Preserved"), TRUE)
          /\ UNCHANGED faults
       \/ /\ ~RebindAccepted
          /\ Ended("rolled_back", "Lost", TRUE)
          /\ UNCHANGED <<relay, faults>>
       \/ /\ Fault("network")
          /\ Ended("rolled_back", "Lost", TRUE)
          /\ UNCHANGED relay
    /\ UNCHANGED <<probe, version, files, unit, agent, seen, marker, confirmed>>

-----------------------------------------------------------------------------
(* Coordinated: coordinated_swap_with                                      *)

Step(from, to) == swap = from /\ swap' = to

\* The continuation of every failure: fail_after_swap.
Fails(kind, from) == Fault(kind) /\ Step(from, "unit.restore")

\* systemctl stop, which also cancels a pending restart, and the wait for the
\* cgroup to drain.
UnitStop ==
    /\ \/ Step("unit.stop", "unit.backup") /\ unit' = "stopped" /\ Killed
          /\ UNCHANGED faults
       \/ Fails("systemctl", "unit.stop") /\ UNCHANGED <<unit, agent, relay>>
       \/ Fails("systemctl", "unit.stop") /\ unit' = "stopped" /\ Killed
    /\ UNCHANGED <<probe, version, files, seen, outcome, marker, confirmed>>

UnitBackup ==
    /\ \/ /\ Step("unit.backup", "unit.install")
          /\ disk' = SetAside(disk)
          /\ UNCHANGED faults
       \/ Fails("io", "unit.backup") /\ UNCHANGED disk
    /\ UNCHANGED <<probe, version, handoff, pointer, unit, agent, seen,
                   outcome, marker, relay, confirmed>>

UnitInstall ==
    /\ \/ /\ Step("unit.install", "unit.verify")
          /\ disk' = Install(disk)
          /\ UNCHANGED faults
       \/ Fails("io", "unit.install") /\ UNCHANGED disk
    /\ UNCHANGED <<probe, version, handoff, pointer, unit, agent, seen,
                   outcome, marker, relay, confirmed>>

UnitVerify ==
    /\ \/ Step("unit.verify", "unit.pointer") /\ UNCHANGED faults
       \/ Fails("io", "unit.verify")
    /\ UNCHANGED <<probe, version, files, unit, agent, seen, outcome, marker,
                   relay, confirmed>>

\* pending_restore_marker, whose failure is ignored.
UnitPointer ==
    /\ Step("unit.pointer", "unit.start")
    /\ \/ pointer' = "two" /\ UNCHANGED faults
       \/ pointer' = None /\ Fault("io")
    /\ UNCHANGED <<probe, version, disk, handoff, unit, agent, seen, outcome,
                   marker, relay, confirmed>>

\* Mutant: the unit is started although there is no binary at its path.
StartUnit_NoBinary ==
    /\ unit' = "active"
    /\ agent' = IF agent = Gone THEN Started("plain") ELSE agent

\* systemctl start: nothing to do if the unit runs.
StartUnit ==
    /\ unit' = "active"
    /\ agent' = IF agent = Gone /\ disk.target # None THEN Started("plain")
                ELSE agent

UnitStart ==
    /\ \/ Step("unit.start", "unit.await") /\ StartUnit /\ UNCHANGED faults
       \/ Fails("systemctl", "unit.start") /\ UNCHANGED <<unit, agent>>
    /\ UNCHANGED <<probe, version, files, seen, outcome, marker, relay,
                   confirmed>>

\* One look of await_handoff_consumed: the file has to have been there before
\* its absence means anything.
AwaitConsumed ==
    /\ swap = "unit.await"
    /\ \/ /\ handoff /\ ~seen
          /\ seen' = TRUE
          /\ UNCHANGED <<swap, outcome, disk>>
       \/ /\ ~handoff /\ seen
          /\ disk' = [disk EXCEPT !.backup = None]
          /\ Ended("registered", None, FALSE)
          /\ UNCHANGED seen
    /\ UNCHANGED <<probe, version, handoff, pointer, unit, agent, marker, relay,
                   confirmed, faults>>

\* The 75 s are over.  The result of this stop is not looked at.
AwaitTimesOut ==
    /\ Step("unit.await", "unit.restore")
    /\ \/ unit' = "stopped" /\ Killed /\ UNCHANGED faults
       \/ Fault("systemctl") /\ UNCHANGED <<unit, agent, relay>>
    /\ UNCHANGED <<probe, version, files, seen, outcome, marker, confirmed>>

\* fail_after_swap: put the backup back if there is one ...
UnitRestore ==
    /\ Step("unit.restore", "unit.restart")
    /\ \/ /\ disk.backup # None
          /\ disk' = Restore(disk)
          /\ UNCHANGED faults
       \/ disk.backup # None /\ Fault("io") /\ UNCHANGED disk
       \/ disk.backup = None /\ UNCHANGED <<disk, faults>>
    /\ UNCHANGED <<probe, version, handoff, pointer, unit, agent, seen,
                   outcome, marker, relay, confirmed>>

\* Mutant: what became of the rename is not looked at.
UnitRestart_AssumesRestored ==
    /\ swap = "unit.restart"
    /\ Ended("rolled_back", "Lost", TRUE)
    /\ \/ StartUnit /\ UNCHANGED faults
       \/ Fault("systemctl") /\ UNCHANGED <<unit, agent>>
    /\ UNCHANGED <<probe, version, files, seen, marker, relay, confirmed>>

\* ... start the unit whatever became of that, and say what happened.
UnitRestart ==
    /\ swap = "unit.restart"
    /\ Ended("rolled_back", "Lost", disk.backup = None)
    /\ \/ StartUnit /\ UNCHANGED faults
       \/ Fault("systemctl") /\ UNCHANGED <<unit, agent>>
    /\ UNCHANGED <<probe, version, files, seen, marker, relay, confirmed>>

-----------------------------------------------------------------------------
(* SystemdRestart: systemd_restart_swap_with, in the old agent             *)

RestartFailed(restored) ==
    /\ Ended("failed", None, restored)
    /\ handoff' = FALSE

RestartBackup ==
    /\ Original
    /\ \/ /\ Step("restart.backup", "restart.install")
          /\ disk' = SetAside(disk)
          /\ UNCHANGED <<handoff, outcome, faults>>
       \/ /\ swap = "restart.backup"
          /\ Fault("io")
          /\ RestartFailed(TRUE)
          /\ UNCHANGED disk
    /\ UNCHANGED <<probe, version, pointer, unit, agent, seen, marker, relay,
                   confirmed>>

RestartInstall ==
    /\ Original
    /\ \/ /\ Step("restart.install", "restart.verify")
          /\ disk' = Install(disk)
          /\ UNCHANGED faults
       \/ /\ Step("restart.install", "restart.undo")
          /\ Fault("io")
          /\ UNCHANGED disk
    /\ UNCHANGED <<probe, version, handoff, pointer, unit, agent, seen,
                   outcome, marker, relay, confirmed>>

RestartVerify ==
    /\ Original
    /\ \/ Step("restart.verify", "restart.pointer") /\ UNCHANGED faults
       \/ Step("restart.verify", "restart.undo") /\ Fault("io")
    /\ UNCHANGED <<probe, version, files, unit, agent, seen, outcome, marker,
                   relay, confirmed>>

\* Without its pointer the new version would be a new device that cannot roll
\* back, so here a failure to write it counts.
RestartPointer ==
    /\ Original
    /\ \/ /\ Step("restart.pointer", "restart.exit")
          /\ pointer' = "three"
          /\ agent' = [agent EXCEPT !.pc = "leaving"]
          /\ UNCHANGED faults
       \/ /\ Step("restart.pointer", "restart.undo")
          /\ Fault("io")
          /\ pointer' = None
          /\ UNCHANGED agent
    /\ UNCHANGED <<probe, version, disk, handoff, unit, seen, outcome, marker,
                   relay, confirmed>>

RestartUndo ==
    /\ Original /\ swap = "restart.undo"
    /\ \/ disk' = Restore(disk) /\ RestartFailed(TRUE) /\ UNCHANGED faults
       \/ UNCHANGED disk /\ RestartFailed(FALSE) /\ Fault("io")
    /\ UNCHANGED <<probe, version, pointer, unit, agent, seen, marker, relay,
                   confirmed>>

-----------------------------------------------------------------------------
(* systemd                                                                 *)

\* Restart=always starts the main process of the unit again, whatever its exit
\* code was.
SystemdRestarts ==
    /\ probe.managed /\ probe.restart_policy = "always"
    /\ probe.main_pid = "self" /\ probe.exec_start = "same"
    /\ unit = "active" /\ agent = Gone /\ disk.target # None
    /\ agent' = Started("plain")
    /\ UNCHANGED <<probe, version, files, unit, swapVars, marker, relay,
                   confirmed, faults>>

-----------------------------------------------------------------------------
(* An agent that starts: resolve_restore, run_session, complete            *)

KnowsPointer(image) == image = "new" \/ OldKnowsPointer

SetAgent(rec) == agent' = rec

\* take_restore_pending_in removes the pointer in reading it.  Its third line
\* is what allows the process to roll back.
Boot ==
    /\ agent.pc = "boot"
    /\ ~(agent.image = "new" /\ version = "dead")
    /\ IF agent.how = "env"
       THEN /\ SetAgent(IF handoff
                        THEN [agent EXCEPT !.pc = "connecting",
                                           !.restore = TRUE, !.tok = None]
                        ELSE Gone)
            /\ UNCHANGED pointer
       ELSE IF KnowsPointer(agent.image) /\ pointer # None
       THEN /\ pointer' = None
            /\ SetAgent([agent EXCEPT !.pc = "connecting",
                            !.restore = handoff,
                            !.watchdog =
                               IF handoff /\ pointer = "three"
                                     /\ disk.backup # None
                               THEN "armed" ELSE "off"])
       ELSE SetAgent([agent EXCEPT !.pc = "connecting"]) /\ UNCHANGED pointer
    /\ UNCHANGED <<probe, version, disk, handoff, unit, swapVars, marker, relay,
                   confirmed, faults>>

\* The id and the tokens a registration asks for: those handed over, those
\* of the last registration, or whatever the command line leads to.
Claims ==
    [sid |-> IF agent.restore \/ agent.how = "sid" \/ HasSid THEN "S"
             ELSE IF agent.sid # None THEN agent.sid ELSE "other",
     tok |-> IF agent.restore \/ HasKey THEN "T0"
             ELSE IF agent.tok # None THEN agent.tok ELSE "T1"]

\* The relay installs what is asked for, and drops another session that holds
\* the token.  (Nothing else is online under S: no 409.)
Register ==
    /\ agent.pc = "connecting"
    /\ ~(agent.image = "new" /\ version \in {"hangs", "crashes"})
    /\ SetAgent([agent EXCEPT !.pc = IF agent.restore THEN "confirm" ELSE "up",
                              !.sid = Claims.sid, !.tok = Claims.tok])
    /\ relay' = IF Claims.sid = "S"
                THEN [tok |-> Claims.tok, online |-> FALSE]
                ELSE [relay EXCEPT !.tok = IF @ = Claims.tok THEN None ELSE @]
    /\ UNCHANGED <<probe, version, files, unit, swapVars, marker, confirmed,
                   faults>>

\* The downlink: refused if the tokens have changed hands since, after which
\* the agent registers again with those it has.
Dial ==
    /\ agent.pc = "up" /\ agent.sid = "S" /\ ~relay.online /\ ~Original
    /\ IF relay.tok = agent.tok
       THEN relay' = [relay EXCEPT !.online = TRUE] /\ UNCHANGED agent
       ELSE SetAgent([agent EXCEPT !.pc = "connecting"]) /\ UNCHANGED relay
    /\ UNCHANGED <<probe, version, files, unit, swapVars, marker, confirmed,
                   faults>>

\* RestoredIdentity::complete, whose steps the watchdog thread and the helper
\* may come between: set consumed ...
CompleteConsume ==
    /\ agent.pc = "confirm"
    /\ SetAgent([agent EXCEPT !.pc = "consumed"])
    /\ confirmed' = (confirmed \/ agent.image = "new")
    /\ UNCHANGED <<probe, version, files, unit, swapVars, marker, relay, faults>>

\* ... remove the handoff file ...
CompleteRemove ==
    /\ agent.pc = "consumed"
    /\ SetAgent([agent EXCEPT !.pc = "removed"])
    /\ handoff' = FALSE
    /\ UNCHANGED <<probe, version, disk, pointer, unit, swapVars, marker, relay,
                   confirmed, faults>>

\* ... write the marker to stderr, which a helper may be reading ...
CompleteAnnounce ==
    /\ agent.pc = "removed"
    /\ SetAgent([agent EXCEPT !.pc = "announced"])
    /\ marker' = (marker \/ agent.how = "env")
    /\ UNCHANGED <<probe, version, files, unit, swapVars, relay, confirmed,
                   faults>>

\* ... remove the backup if it was this process's to roll back to.  The report
\* it sends last is UpgradeStatus's.
CompleteClean ==
    /\ agent.pc = "announced"
    /\ disk' = IF agent.watchdog # "off" THEN [disk EXCEPT !.backup = None]
               ELSE disk
    /\ SetAgent([agent EXCEPT !.pc = "up", !.restore = FALSE,
                              !.watchdog = "off"])
    /\ UNCHANGED <<probe, version, handoff, pointer, unit, swapVars, marker,
                   relay, confirmed, faults>>

-----------------------------------------------------------------------------
(* run_self_rollback_watchdog                                              *)

Consumed == agent.pc \in {"consumed", "removed", "announced", "up"}

\* The window is over and consumed() was false at the last look of the loop.
WatchdogExpires ==
    /\ agent.watchdog = "armed" /\ ~Consumed
    /\ SetAgent([agent EXCEPT !.watchdog = "due"])
    /\ UNCHANGED <<probe, version, files, unit, swapVars, marker, relay,
                   confirmed, faults>>

\* consumed() is asked once more before anything is touched.
WatchdogLooksAgain ==
    /\ agent.watchdog = "due" /\ ~Consumed
    /\ SetAgent([agent EXCEPT !.watchdog = "checked"])
    /\ UNCHANGED <<probe, version, files, unit, swapVars, marker, relay,
                   confirmed, faults>>

\* rename(backup, target), exit(1); if it cannot be renamed, exit(2) unless
\* the registration has come through.
WatchdogRollsBack ==
    /\ agent.watchdog = "checked"
    /\ \/ /\ disk.backup # None
          /\ disk' = Restore(disk)
          /\ Killed
          /\ UNCHANGED faults
       \/ /\ UNCHANGED disk
          /\ IF disk.backup = None THEN UNCHANGED faults ELSE Fault("io")
          /\ IF Consumed
             THEN SetAgent([agent EXCEPT !.watchdog = "off"]) /\ UNCHANGED relay
             ELSE Killed
    /\ UNCHANGED <<probe, version, handoff, pointer, unit, swapVars, marker,
                   confirmed>>

-----------------------------------------------------------------------------
(* What goes wrong                                                         *)

\* A new version that exits before it has read the pointer, or after.
NewVersionDies ==
    /\ agent.image = "new"
    /\ \/ version = "dead" /\ agent.pc = "boot"
       \/ version = "crashes" /\ agent.pc = "connecting"
    /\ Killed
    /\ UNCHANGED <<probe, version, files, unit, swapVars, marker, confirmed,
                   faults>>

\* The agent process is killed; an exchange it was doing itself stops there.
AgentCrashes ==
    /\ agent # Gone /\ Fault("crash")
    /\ Killed
    /\ UNCHANGED <<probe, version, files, unit, swapVars, marker, confirmed>>

HelperSteps == {"wait_exit", "direct.backup", "direct.install", "direct.undo",
                "direct.spawn", "direct.await", "direct.rollback",
                "direct.respawn", "direct.await_old", "direct.bind",
                "direct.bind_lost", "unit.stop", "unit.backup", "unit.install",
                "unit.verify", "unit.pointer", "unit.start", "unit.await",
                "unit.restore", "unit.restart"}

RestartSteps == {"restart.backup", "restart.install", "restart.verify",
                 "restart.pointer", "restart.undo", "restart.exit"}

\* The helper is killed.
HelperCrashes ==
    /\ swap \in HelperSteps /\ Fault("helper")
    /\ swap' = "dead"
    /\ UNCHANGED <<probe, version, files, unit, agent, seen, outcome, marker,
                   relay, confirmed>>

-----------------------------------------------------------------------------
(* Specification                                                           *)

Init ==
    /\ probe \in Probes /\ version \in NewVersions
    /\ disk = [target |-> "old", backup |-> None, part |-> "new"]
    /\ handoff = FALSE /\ pointer = None /\ unit = "active"
    /\ agent = [Gone EXCEPT !.image = "old", !.how = "original", !.pc = "up",
                            !.sid = "S", !.tok = "T0"]
    /\ relay = [tok |-> "T0", online |-> TRUE]
    /\ swap = "idle" /\ seen = FALSE /\ marker = FALSE
    /\ outcome = [result |-> None, identity |-> None, restored |-> FALSE]
    /\ confirmed = FALSE /\ faults \in Weathers

DirectSwap ==
    \/ DirectBackup \/ DirectInstall \/ DirectUndo \/ DirectSpawn
    \/ DirectRegistered \/ DirectRollback \/ DirectRespawn \/ DirectAwaitOld
    \/ DirectBind

CoordinatedSwap ==
    \/ UnitStop \/ UnitBackup \/ UnitInstall \/ UnitVerify \/ UnitPointer
    \/ UnitStart \/ AwaitConsumed \/ UnitRestore \/ UnitRestart

RestartSwap ==
    \/ RestartBackup \/ RestartInstall \/ RestartVerify \/ RestartPointer
    \/ RestartUndo

Complete == CompleteConsume \/ CompleteRemove \/ CompleteAnnounce
            \/ CompleteClean

Watchdog == WatchdogExpires \/ WatchdogLooksAgain \/ WatchdogRollsBack

Next ==
    \/ HandOver \/ HelperChecks \/ OldExits \/ WaitExit
    \/ DirectSwap \/ DirectGivesUp
    \/ CoordinatedSwap \/ AwaitTimesOut
    \/ RestartSwap
    \/ SystemdRestarts
    \/ Boot \/ Register \/ Dial \/ Complete \/ Watchdog
    \/ NewVersionDies \/ AgentCrashes \/ HelperCrashes

Spec == Init /\ [][Next]_vars

\* The helper, the old agent and systemd go on with what they do, a process
\* that has started goes on to register, deadlines pass.
Fairness ==
    /\ WF_vars(HandOver \/ HelperChecks \/ OldExits \/ WaitExit)
    /\ WF_vars(DirectSwap \/ DirectGivesUp)
    /\ WF_vars(CoordinatedSwap) /\ WF_vars(AwaitTimesOut)
    /\ WF_vars(RestartSwap) /\ WF_vars(SystemdRestarts)
    /\ WF_vars(Boot) /\ WF_vars(Register) /\ WF_vars(Dial)
    /\ WF_vars(Complete) /\ WF_vars(Watchdog) /\ WF_vars(NewVersionDies)

FairSpec == Spec /\ Fairness

-----------------------------------------------------------------------------
(* Properties                                                              *)

Image == {"old", "new", None}

AgentPc == {"gone", "up", "leaving", "boot", "connecting", "confirm",
            "consumed", "removed", "announced"}

\* Every variable has the type it should have; a process runs some binary.
TypeOK ==
    /\ probe \in Probes /\ version \in NewVersions
    /\ disk \in [target : Image, backup : Image, part : Image]
    /\ handoff \in BOOLEAN /\ pointer \in {None, "two", "three"}
    /\ unit \in {"active", "stopped"}
    /\ agent \in [image : Image, pc : AgentPc,
                   how : {None, "original", "plain", "env", "sid"},
                   watchdog : {"off", "armed", "due", "checked"},
                   restore : BOOLEAN, sid : {None, "S", "other"},
                   tok : {None, "T0", "T1"}]
    /\ agent.image = None <=> agent = Gone
    /\ swap \in HelperSteps \cup RestartSteps
               \cup {"idle", "checks", "done", "dead"}
    /\ seen \in BOOLEAN /\ marker \in BOOLEAN
    /\ outcome \in [result : {None, "failed", "aborted", "registered",
                              "rolled_back"},
                     identity : {None, "Preserved", "Lost"},
                     restored : BOOLEAN]
    /\ relay \in [tok : {None, "T0", "T1"}, online : BOOLEAN]
    /\ confirmed \in BOOLEAN
    /\ faults \in [kinds : {w.kinds : w \in Weathers}, left : Nat]

\* Whatever fails or is killed, and wherever: the old binary is at its path or
\* at the backup until the new version has registered (every rename of the
\* three plans, the removals of the backup, the watchdog).
OldVersionKept == confirmed \/ "old" \in {disk.target, disk.backup}

\* What is reported is true and stays true.  Success: the new version has
\* registered and is what the next start will run (await_registration,
\* await_handoff_consumed).  The old binary in place, or never touched: it is
\* (the messages of systemd_restart_swap_with, fail_after_swap, rollback and of
\* the aborts).
ReportsAreTrue ==
    /\ outcome.result = "registered" => confirmed /\ disk.target = "new"
    /\ outcome.restored => disk.target = "old"

\* Where nothing but the network and the new version fails, the device is back
\* in the end, on the new version only if that one registers.  (A new version
\* that crashes under SystemdRestart is never rolled back: its pointer went
\* with the first start.)
DeviceComesBack ==
    /\ faults.kinds \subseteq {"network"}
    /\ Plan # "SystemdRestart" \/ version \in {"good", "hangs"}
    => <>[](agent.pc = "up" /\ (version = "good" \/ agent.image = "old"))
=============================================================================
