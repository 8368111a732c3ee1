--------------------------- MODULE OverlayHandoff ---------------------------
(***************************************************************************)
(* Upgrades of an agent whose own directory it cannot write.  The new       *)
(* version goes to a directory of the user's, current.json points to it,    *)
(* and the base binary, which is never touched, decides at every start      *)
(* whether to exec the version the pointer names.  A version that does not  *)
(* register is given up after MAX_ATTEMPTS starts.                          *)
(*                                                                          *)
(* One device.  What restarts it after an upgrade is systemd with           *)
(* Restart=always ("systemd"), or a helper: in a transient unit             *)
(* ("transient"), or a child of the agent ("direct"), which inherits its    *)
(* environment.                                                             *)
(***************************************************************************)
EXTENDS Integers

CONSTANTS Restarters,   \* what may restart the agent
          Behaviours,   \* how a version may behave: "good", "crashes", "hangs"
          Versions,     \* versions upgrades may bring
          AdminBase,    \* the version an administrator may replace the base by
          MAX_ATTEMPTS,
          Faults,       \* what may go wrong: "io", "power", "damage", "slow"
          MaxFaults,    \* bound on how often
          MaxUpgrades,  \* bound on the number of upgrades
          None

\* Pointer
Pointers == [version : Versions, healthy : BOOLEAN, attempts : Int,
             rejected : BOOLEAN, rejected_reported : BOOLEAN]

ASSUME OverlayAssumption ==
    /\ Restarters \subseteq {"systemd", "transient", "direct"}
    /\ Behaviours \subseteq {"good", "crashes", "hangs"}
    /\ Versions \subseteq Nat \ {0}
    /\ AdminBase \in Nat
    /\ MAX_ATTEMPTS \in Nat \ {0}
    /\ MaxFaults \in Nat /\ MaxUpgrades \in Nat
    /\ None \notin Nat /\ None \notin Pointers

VARIABLES restarter, \* one of Restarters
          behaves,   \* how each version behaves
          base,      \* the version of the base binary
          bin,       \* the versions whose files in bin/ are intact
          pointer,   \* current.json, or None
          handoff,   \* the version a handoff file is about, or None
          pending,   \* .restore-pending names that file
          proc,      \* the agent process
          upgrade,   \* the upgrade it is at
          helper,    \* the helper that waits for it
          outcome,   \* what the last helper concluded
          execs,     \* history: starts of the pointer's version
          proven,    \* history: it has registered since it was installed
          told,      \* history: frames that said it was given up
          upgrades,  \* counted against MaxUpgrades
          faults     \* how often each kind of fault has happened

files == <<bin, pointer, handoff, pending>>
history == <<execs, proven, told>>
vars == <<restarter, behaves, base, files, proc, upgrade, helper, outcome,
          history, upgrades, faults>>

-----------------------------------------------------------------------------
(* Data                                                                    *)

Kinds == {"io", "power", "damage", "slow"}

FaultCount == faults["io"] + faults["power"] + faults["damage"] + faults["slow"]

Fault(kind) == /\ kind \in Faults /\ FaultCount < MaxFaults
               /\ faults' = [faults EXCEPT ![kind] = @ + 1]

\* Pointer::fresh
Fresh(v) == [version |-> v, healthy |-> FALSE, attempts |-> 0,
             rejected |-> FALSE, rejected_reported |-> FALSE]

Gone == [pc |-> "gone", kind |-> "base", ver |-> 0, from |-> FALSE,
         restored |-> FALSE]

\* from: SR_OVERLAY_FROM is in the environment.
\* restored: it is to take the identity in the handoff file.
BaseStarted(from, restored) ==
    [pc |-> "boot", kind |-> "base", ver |-> base, from |-> from,
     restored |-> restored]

NoUpgrade == [pc |-> "idle", ver |-> 0, previous |-> None]
NoHelper == [pc |-> "none", from |-> FALSE, marker |-> FALSE]

Online == proc.pc = "registered"

\* The pointer names the file this process runs.
IsPointed == proc.kind = "overlay" /\ pointer # None /\ pointer.version = proc.ver

-----------------------------------------------------------------------------
(* Start                                                                   *)

\* The fifth check of overlay::decide.
GivenUp(p) == ~p.healthy /\ p.attempts >= MAX_ATTEMPTS

\* The third and the fourth: owners, modes and the digest are one fact here.
Intact(p) == p.version \in bin

\* overlay::decide
Decide(p) ==
    IF proc.from \/ p.version = proc.ver THEN "skip"
    ELSE IF p.version < proc.ver THEN "prune"
    ELSE IF ~Intact(p) \/ p.rejected THEN "skip"
    ELSE IF GivenUp(p) THEN "reject" ELSE "exec"

Verdict == IF pointer = None THEN "skip" ELSE Decide(pointer)

\* handoff_on_startup in a base process that does not hand over.
StaysOnBase ==
    /\ proc.pc = "boot" /\ Verdict # "exec"
    /\ proc' = [proc EXCEPT !.pc = "starting"]
    /\ bin' = IF Verdict = "prune" THEN {v \in bin : v >= proc.ver} ELSE bin
    /\ \/ /\ pointer' = IF Verdict = "reject"
                        THEN [pointer EXCEPT !.rejected = TRUE, !.healthy = FALSE]
                        ELSE pointer
          /\ UNCHANGED faults
       \/ Verdict = "reject" /\ Fault("io") /\ UNCHANGED pointer
    /\ UNCHANGED <<restarter, behaves, base, handoff, pending, upgrade, helper,
                   outcome, history, upgrades>>

\* Mutant: the attempt is not written.
Attempted_NotWritten(p) == p

\* The pointer as it is written before the exec.
Attempted(p) == [p EXCEPT !.attempts = @ + 1]

\* The attempt is recorded first.  If that fails there is no handover.
RecordsAttempt ==
    /\ proc.pc = "boot" /\ Verdict = "exec"
    /\ \/ /\ pointer' = Attempted(pointer)
          /\ proc' = [proc EXCEPT !.pc = "exec"]
          /\ UNCHANGED faults
       \/ /\ Fault("io")
          /\ proc' = [proc EXCEPT !.pc = "starting"]
          /\ UNCHANGED pointer
    /\ UNCHANGED <<restarter, behaves, base, bin, handoff, pending, upgrade,
                   helper, outcome, history, upgrades>>

\* exec_overlay: the same process and environment, SR_OVERLAY_FROM added.
Execs ==
    /\ proc.pc = "exec"
    /\ proc' = [proc EXCEPT !.pc = "starting", !.kind = "overlay",
                            !.ver = pointer.version, !.from = TRUE]
    /\ execs' = IF execs > MAX_ATTEMPTS THEN execs ELSE execs + 1
    /\ UNCHANGED <<restarter, behaves, base, files, upgrade, helper, outcome,
                   proven, told, upgrades, faults>>

\* exec returns only when it fails; the attempt is taken back.
ExecFails ==
    /\ proc.pc = "exec" /\ Fault("io")
    /\ proc' = [proc EXCEPT !.pc = "starting"]
    /\ pointer' = [pointer EXCEPT !.attempts = @ - 1]
    /\ UNCHANGED <<restarter, behaves, base, bin, handoff, pending, upgrade,
                   helper, outcome, history, upgrades>>

\* resolve_restore: the handoff file of SR_UPGRADE_RESTORE, without which a
\* process that was told of one does not start; or else the file that
\* .restore-pending names, once.
TakesIdentity ==
    /\ proc.pc = "starting"
    /\ IF proc.restored
       THEN /\ proc' = IF handoff = None THEN Gone
                       ELSE [proc EXCEPT !.pc = "connecting"]
            /\ UNCHANGED pending
       ELSE /\ proc' = [proc EXCEPT !.pc = "connecting",
                                    !.restored = IF handoff = None THEN FALSE
                                                 ELSE pending]
            /\ pending' = FALSE
    /\ UNCHANGED <<restarter, behaves, base, bin, pointer, handoff, upgrade,
                   helper, outcome, history, upgrades, faults>>

\* A version that crashes does so before it has registered.
Crashes ==
    /\ proc.kind = "overlay" /\ behaves[proc.ver] = "crashes"
    /\ proc.pc \in {"starting", "connecting"}
    /\ proc' = Gone
    /\ UNCHANGED <<restarter, behaves, base, files, upgrade, helper, outcome,
                   history, upgrades, faults>>

-----------------------------------------------------------------------------
(* Registration                                                            *)

\* Mutant: an overlay process does not look whether it is the pointer's.
MarksHealthy_Any == proc.from /\ pointer # None

\* after_registration, in a process that was handed the exec.
MarksHealthy == proc.from /\ IsPointed

\* Mutant: it is not remembered that it was said.
Reported_Forgotten(p) == p

\* The pointer once the relay has been told that its version was given up.
Reported(p) == [p EXCEPT !.rejected_reported = TRUE]

\* after_registration, in a process that was not.
Tells == /\ ~proc.from
         /\ pointer # None /\ pointer.rejected /\ ~pointer.rejected_reported

\* overlay::after_registration.  If the pointer cannot be written the frame
\* goes out all the same.
AfterRegistration ==
    /\ \/ /\ pointer' = IF MarksHealthy
                        THEN [Fresh(pointer.version) EXCEPT !.healthy = TRUE]
                        ELSE IF Tells THEN Reported(pointer) ELSE pointer
          /\ UNCHANGED faults
       \/ (MarksHealthy \/ Tells) /\ Fault("io") /\ UNCHANGED pointer
    /\ told' = IF Tells /\ told <= MaxFaults THEN told + 1 ELSE told
    /\ proven' = (proven \/ IsPointed)
    /\ UNCHANGED execs

\* The relay accepts the process.  One that took the identity of an upgrade
\* removes the file and writes its marker, which a helper may be reading;
\* whether it is the version the upgrade was about is not looked at.
Registers ==
    /\ proc.pc = "connecting"
    /\ proc.kind = "overlay" => behaves[proc.ver] = "good"
    /\ proc' = [proc EXCEPT !.pc = "registered"]
    /\ IF proc.restored
       THEN /\ handoff' = None
            /\ helper' = [helper EXCEPT !.marker = (helper.pc = "await")]
       ELSE UNCHANGED <<handoff, helper>>
    /\ AfterRegistration
    /\ UNCHANGED <<restarter, behaves, base, bin, pending, upgrade, outcome,
                   upgrades>>

\* The session is lost and the process, whatever upgrade it is at, registers
\* again.
Reconnects ==
    /\ Online
    /\ AfterRegistration
    /\ UNCHANGED <<restarter, behaves, base, bin, handoff, pending, proc,
                   upgrade, helper, outcome, upgrades>>

-----------------------------------------------------------------------------
(* Upgrade                                                                 *)

UpgradeAt(pc) == Online /\ upgrade.pc = pc
Step(pc) == upgrade' = [upgrade EXCEPT !.pc = pc]

\* report_failed: the agent goes on as it is.
Fails == upgrade' = NoUpgrade

\* perform_upgrade has downloaded and verified v; install reads which version
\* the pointer names.
UpgradeBegins(v) ==
    /\ UpgradeAt("idle") /\ v # proc.ver /\ upgrades < MaxUpgrades
    /\ upgrades' = upgrades + 1
    /\ upgrade' = [pc |-> "place", ver |-> v,
                   previous |-> IF pointer = None \/ pointer.version = v THEN None
                                ELSE pointer.version]
    /\ UNCHANGED <<restarter, behaves, base, files, proc, helper, outcome,
                   history, faults>>

\* place_binary: a file of that name which is not intact is removed first.
PlacesBinary ==
    /\ UpgradeAt("place")
    /\ \/ bin' = bin \cup {upgrade.ver} /\ Step("point") /\ UNCHANGED faults
       \/ Fault("io") /\ Fails /\ UNCHANGED bin
    /\ UNCHANGED <<restarter, behaves, base, pointer, handoff, pending, proc,
                   helper, outcome, history, upgrades>>

WritesPointer ==
    /\ UpgradeAt("point")
    /\ \/ /\ pointer' = Fresh(upgrade.ver)
          /\ execs' = 0 /\ proven' = FALSE /\ told' = 0
          /\ Step("prune") /\ UNCHANGED faults
       \/ Fault("io") /\ Fails /\ UNCHANGED <<pointer, history>>
    /\ UNCHANGED <<restarter, behaves, base, bin, handoff, pending, proc,
                   helper, outcome, upgrades>>

\* prune_versions: the current version and the one before it.
Kept == {upgrade.ver, upgrade.previous}

Prunes ==
    /\ UpgradeAt("prune")
    /\ bin' = bin \cap Kept
    /\ Step("handover")
    /\ UNCHANGED <<restarter, behaves, base, pointer, handoff, pending, proc,
                   helper, outcome, history, upgrades, faults>>

\* verify_overlay_artifact
Verified(v) == v \in bin

\* hand_over_overlay.  systemd will start the base again; or a helper is
\* started, checks the file and says that it is ready.
HandsOver ==
    /\ UpgradeAt("handover") /\ helper.pc = "none"
    /\ \/ /\ restarter = "systemd"
          /\ handoff' = upgrade.ver /\ pending' = TRUE
          /\ Step("leaving") /\ UNCHANGED <<helper, faults>>
       \/ /\ restarter # "systemd" /\ Verified(upgrade.ver)
          /\ handoff' = upgrade.ver
          /\ helper' = [pc |-> "wait_exit", marker |-> FALSE,
                        from |-> restarter = "direct" /\ proc.from]
          /\ Step("leaving") /\ UNCHANGED <<pending, faults>>
       \/ /\ restarter # "systemd" /\ ~Verified(upgrade.ver)
          /\ handoff' = None
          /\ Fails /\ UNCHANGED <<helper, pending, faults>>
       \/ Fault("io") /\ Fails /\ UNCHANGED <<handoff, pending, helper>>
    /\ UNCHANGED <<restarter, behaves, base, bin, pointer, proc, outcome,
                   history, upgrades>>

\* process::exit(0)
Exits ==
    /\ UpgradeAt("leaving")
    /\ proc' = Gone /\ upgrade' = NoUpgrade
    /\ UNCHANGED <<restarter, behaves, base, files, helper, outcome, history,
                   upgrades, faults>>

-----------------------------------------------------------------------------
(* Restart                                                                 *)

SystemdStarts ==
    /\ restarter = "systemd" /\ proc.pc = "gone"
    /\ proc' = BaseStarted(FALSE, FALSE)
    /\ UNCHANGED <<restarter, behaves, base, files, upgrade, helper, outcome,
                   history, upgrades, faults>>

\* Somebody starts the agent by hand.
OperatorStarts ==
    /\ restarter # "systemd" /\ proc.pc = "gone" /\ helper.pc = "none"
    /\ proc' = BaseStarted(FALSE, FALSE)
    /\ UNCHANGED <<restarter, behaves, base, files, upgrade, helper, outcome,
                   history, upgrades, faults>>

\* overlay_restart: the old process has exited; spawn_agent starts the base
\* with the environment the helper has.
HelperStartsBase ==
    /\ helper.pc = "wait_exit" /\ proc.pc = "gone"
    /\ \/ /\ proc' = BaseStarted(helper.from, TRUE)
          /\ helper' = [helper EXCEPT !.pc = "await"]
          /\ UNCHANGED <<outcome, faults>>
       \/ /\ Fault("io")
          /\ helper' = NoHelper /\ outcome' = "aborted"
          /\ UNCHANGED proc
    /\ UNCHANGED <<restarter, behaves, base, files, upgrade, history, upgrades>>

\* await_registration reads the marker.
HelperSeesMarker ==
    /\ helper.pc = "await" /\ helper.marker
    /\ helper' = NoHelper /\ handoff' = None
    /\ outcome' = IF proc.kind = "overlay" THEN "new version" ELSE "registered"
    /\ UNCHANGED <<restarter, behaves, base, bin, pointer, pending, proc,
                   upgrade, history, upgrades, faults>>

\* The process has ended, or the time is over ("slow": too early for one that
\* would have registered).  It is killed; nobody starts another.
HelperGivesUp ==
    /\ helper.pc = "await" /\ ~helper.marker
    /\ \/ /\ \/ proc.pc = "gone"
             \/ /\ proc.kind = "overlay" /\ behaves[proc.ver] = "hangs"
                /\ proc.pc = "connecting"
          /\ UNCHANGED faults
       \/ Fault("slow")
    /\ proc' = Gone /\ upgrade' = NoUpgrade
    /\ helper' = NoHelper /\ outcome' = "aborted"
    /\ UNCHANGED <<restarter, behaves, base, files, history, upgrades>>

\* The machine goes down with every process on it.
PowerFails ==
    /\ Fault("power")
    /\ proc' = Gone /\ helper' = NoHelper /\ upgrade' = NoUpgrade
    /\ UNCHANGED <<restarter, behaves, base, files, outcome, history, upgrades>>

\* A file of bin/ is removed, changed, or made writable by others.
FileDamaged(v) ==
    /\ v \in bin /\ Fault("damage")
    /\ bin' = bin \ {v}
    /\ UNCHANGED <<restarter, behaves, base, pointer, handoff, pending, proc,
                   upgrade, helper, outcome, history, upgrades>>

\* The administrator puts another base binary into place.
BaseReplaced ==
    /\ base < AdminBase
    /\ base' = AdminBase
    /\ UNCHANGED <<restarter, behaves, files, proc, upgrade, helper, outcome,
                   history, upgrades, faults>>

-----------------------------------------------------------------------------
(* Specification                                                           *)

Init ==
    /\ restarter \in Restarters
    /\ behaves \in [Versions -> Behaviours]
    /\ base = 0 /\ bin = {} /\ pointer = None
    /\ handoff = None /\ pending = FALSE
    /\ proc = BaseStarted(FALSE, FALSE)
    /\ upgrade = NoUpgrade /\ helper = NoHelper /\ outcome = "none"
    /\ execs = 0 /\ proven = FALSE /\ told = 0
    /\ upgrades = 0 /\ faults = [k \in Kinds |-> 0]

Start == StaysOnBase \/ RecordsAttempt \/ Execs \/ ExecFails \/ TakesIdentity
         \/ Crashes \/ Registers

Upgrade == (\E v \in Versions : UpgradeBegins(v)) \/ PlacesBinary
           \/ WritesPointer \/ Prunes \/ HandsOver \/ Exits

Next ==
    \/ Start \/ Reconnects \/ Upgrade
    \/ SystemdStarts \/ OperatorStarts
    \/ HelperStartsBase \/ HelperSeesMarker \/ HelperGivesUp
    \/ PowerFails \/ (\E v \in Versions : FileDamaged(v)) \/ BaseReplaced

Spec == Init /\ [][Next]_vars

\* What the machine does by itself: a process goes through its start, systemd
\* starts another, a helper does its work.  Nobody is sure to start an agent by
\* hand, or to upgrade.
FairSpec == /\ Spec
            /\ WF_vars(StaysOnBase) /\ WF_vars(RecordsAttempt) /\ WF_vars(Execs)
            /\ WF_vars(TakesIdentity) /\ WF_vars(Crashes \/ Registers)
            /\ WF_vars(SystemdStarts)
            /\ WF_vars(HelperStartsBase) /\ WF_vars(HelperSeesMarker)
            /\ WF_vars(HelperGivesUp)

-----------------------------------------------------------------------------
(* Properties                                                              *)

\* The pointer calls a version healthy only if that version has registered
\* since it was installed, also when an older one registers meanwhile
\* (after_registration).  And the file it names is there, at any point of an
\* installation, unless somebody has damaged a file or the base is not older
\* (install, prune_versions, prune_older_than).
PointerIsTrue ==
    /\ pointer # None /\ pointer.healthy => proven
    /\ pointer # None /\ pointer.version > base /\ faults["damage"] = 0
          => pointer.version \in bin

\* A version is given up only after MAX_ATTEMPTS starts or faults, one that
\* would have registered only for as many faults, and the relay is told of
\* nothing else, and once unless the pointer could not be written (decide,
\* after_registration).
RejectedIsDeserved ==
    /\ pointer # None /\ pointer.rejected =>
          /\ execs + FaultCount >= MAX_ATTEMPTS
          /\ behaves[pointer.version] = "good" => FaultCount >= MAX_ATTEMPTS
    /\ told > 0 => pointer # None /\ pointer.rejected
    /\ told <= 1 + faults["io"]

\* Where systemd restarts the agent, and no version hangs, the device comes
\* back, on the new version or on the base.
DeviceReturns ==
    (restarter = "systemd" /\ "hangs" \notin {behaves[v] : v \in Versions})
        => []<>Online
=============================================================================
