--------------------------- MODULE UpgradeProofs ---------------------------
(***************************************************************************)
(* Proofs about two accounts of an upgrade that have to be true: the       *)
(* agent's own, on its pointer (OverlayHandoff), and the relay's, in its   *)
(* status (UpgradeStatus).                                                 *)
(***************************************************************************)
EXTENDS OverlayHandoff, UpgradeStatus, SequenceTheorems, TLAPS

-----------------------------------------------------------------------------
(* What the pointer says is true, and what is given up deserves it, for any    *)
(* versions, restarters, faults and number of attempts.  The argument is an    *)
(* account of the attempts: each is a start, or was lost to a fault; and one   *)
(* of a version that works was lost to a fault, or is still on its way to a    *)
(* registration, which wipes it out.                                           *)

ProcType ==
    proc \in [pc : {"gone", "boot", "exec", "starting", "connecting", "registered"},
              kind : {"base", "overlay"}, ver : Nat, from : BOOLEAN, restored : BOOLEAN]
UpgradeType ==
    upgrade \in [pc : {"idle", "place", "point", "prune", "handover", "leaving"},
                 ver : Nat, previous : Nat \cup {None}]
HelperType ==
    helper \in [pc : {"none", "wait_exit", "await"}, from : BOOLEAN, marker : BOOLEAN]

Types ==
    /\ behaves \in [Versions -> Behaviours]
    /\ base \in Nat /\ pointer \in Pointers \cup {None} /\ pending \in BOOLEAN
    /\ ProcType /\ UpgradeType /\ HelperType
    /\ execs \in Nat /\ told \in Nat /\ proven \in BOOLEAN
    /\ faults \in [Kinds -> Nat]

(* A base process decides; an overlay process was handed the exec.  Only a     *)
(* registered process is at an upgrade.                                        *)
Processes ==
    /\ proc.kind = "base" => proc.ver <= base
    /\ proc.kind = "overlay" => /\ proc.from
                                /\ proc.pc \in {"starting", "connecting", "registered"}
    /\ proc.pc = "exec" => pointer # None
    /\ upgrade.pc # "idle" => Online /\ upgrade.ver \in Versions

(* What a helper waits for, and the identity its process is to take.           *)
Helpers ==
    /\ helper.pc = "wait_exit" => /\ handoff # None /\ ~helper.marker
                                  /\ proc.pc \in {"registered", "gone"}
    /\ helper.pc = "await" /\ helper.marker => Online
    /\ upgrade.pc = "leaving" => helper.pc # "await"
    /\ helper.pc # "none" => restarter # "systemd"
    /\ proc.restored /\ proc.pc \in {"boot", "exec", "starting"} => handoff # None

Placed ==
    /\ upgrade.pc = "point" /\ faults["damage"] = 0 => upgrade.ver \in bin
    /\ upgrade.pc = "prune" => pointer # None /\ pointer.version = upgrade.ver

(* A start of the pointer's version that may still end in a registration.      *)
Flying ==
    \/ proc.pc = "exec"
    \/ IsPointed /\ proc.pc \in {"starting", "connecting"}

(* Every attempt is a start, or a fault; one of a version that works is a      *)
(* fault, or on its way.                                                       *)
Counted ==
    pointer # None =>
        /\ \/ pointer.attempts <= execs + FaultCount + (IF proc.pc = "exec" THEN 1 ELSE 0)
           \/ execs > MAX_ATTEMPTS
        /\ ~pointer.healthy /\ behaves[pointer.version] = "good" =>
              pointer.attempts <= FaultCount + (IF Flying THEN 1 ELSE 0)

(* Nothing runs of a version that was given up, and the relay is told of it    *)
(* again only while the pointer does not say so.                               *)
Silenced ==
    /\ pointer # None /\ pointer.rejected => ~IsPointed /\ proc.pc # "exec"
    /\ told <= (IF pointer # None /\ pointer.rejected_reported THEN 1 ELSE 0) + faults["io"]

IInv ==
    /\ Types /\ Processes /\ Helpers /\ Placed /\ Counted /\ Silenced
    /\ PointerIsTrue /\ RejectedIsDeserved

-----------------------------------------------------------------------------
(* Faults are counted.                                                         *)
FaultsGrow ==
    /\ FaultCount \in Nat /\ FaultCount' \in Nat /\ FaultCount' >= FaultCount
    /\ faults \in [Kinds -> Nat] /\ faults' \in [Kinds -> Nat]
    /\ faults'["io"] >= faults["io"] /\ faults["io"] \in Nat /\ faults'["io"] \in Nat
    /\ faults'["damage"] = 0 => faults["damage"] = 0

LEMMA NoFault ==
    ASSUME Types, UNCHANGED faults
    PROVE  FaultsGrow /\ FaultCount' = FaultCount
BY DEF Types, FaultCount, Kinds, FaultsGrow

LEMMA FaultIsCounted ==
    ASSUME Types, NEW kind \in Kinds, Fault(kind)
    PROVE  /\ FaultsGrow /\ FaultCount' = FaultCount + 1
           /\ faults'[kind] = faults[kind] + 1 /\ faults'[kind] > 0
<1>1. faults \in [Kinds -> Nat] /\ faults' = [faults EXCEPT ![kind] = @ + 1]
  BY DEF Types, Fault
<1>2. faults' \in [Kinds -> Nat] /\ faults'[kind] = faults[kind] + 1
      /\ \A k \in Kinds : faults'[k] = IF k = kind THEN faults[k] + 1 ELSE faults[k]
  BY <1>1
<1>3. FaultCount \in Nat /\ FaultCount' = FaultCount + 1
  BY <1>1, <1>2 DEF FaultCount, Kinds
<1> QED BY <1>1, <1>2, <1>3 DEF FaultsGrow, Kinds

LEMMA KindsAre == "io" \in Kinds /\ "power" \in Kinds /\ "damage" \in Kinds /\ "slow" \in Kinds
BY DEF Kinds

(* What a process is, and what is not on its way.                              *)
LEMMA ProcIs ==
    ASSUME Types
    PROVE  proc \in [pc : {"gone", "boot", "exec", "starting", "connecting", "registered"},
                     kind : {"base", "overlay"}, ver : Nat, from : BOOLEAN, restored : BOOLEAN]
           /\ upgrade \in [pc : {"idle", "place", "point", "prune", "handover", "leaving"},
                           ver : Nat, previous : Nat \cup {None}]
           /\ helper \in [pc : {"none", "wait_exit", "await"}, from : BOOLEAN, marker : BOOLEAN]
BY DEF Types, ProcType, UpgradeType, HelperType

LEMMA PointerIs ==
    ASSUME Types, pointer # None
    PROVE  /\ pointer \in [version : Versions, healthy : BOOLEAN, attempts : Int,
                           rejected : BOOLEAN, rejected_reported : BOOLEAN]
           /\ pointer.version \in Nat /\ pointer.attempts \in Int
           /\ MAX_ATTEMPTS \in Nat
BY OverlayAssumption DEF Types, Pointers

LEMMA FreshIs ==
    ASSUME NEW v \in Versions
    PROVE  /\ Fresh(v) \in [version : Versions, healthy : BOOLEAN, attempts : Int,
                            rejected : BOOLEAN, rejected_reported : BOOLEAN]
           /\ Fresh(v).version = v /\ Fresh(v).attempts = 0 /\ ~Fresh(v).healthy
           /\ ~Fresh(v).rejected /\ ~Fresh(v).rejected_reported
BY DEF Fresh

(* A step that leaves the pointer alone keeps the account, if a start that it  *)
(* ends is counted as a fault, no file is removed that the pointer names, and  *)
(* the relay is told again only when that could not be written down.           *)
LEMMA PointerKept ==
    ASSUME IInv, UNCHANGED <<pointer, behaves, execs>>, FaultsGrow,
           proven' \in BOOLEAN, proven => proven',
           \/ told' = told
           \/ /\ told' = told + 1 /\ faults'["io"] > faults["io"]
              /\ pointer # None /\ pointer.rejected /\ ~pointer.rejected_reported,
           proc.pc = "exec" => proc'.pc = "exec" \/ FaultCount' > FaultCount,
           Flying => \/ Flying' \/ FaultCount' > FaultCount
                     \/ behaves[pointer.version] # "good",
           pointer # None /\ pointer.rejected => ~IsPointed' /\ proc'.pc # "exec",
           base' >= base, base' \in Nat,
           pointer # None /\ pointer.version > base' /\ faults'["damage"] = 0
              => pointer.version \in bin'
    PROVE  Counted' /\ Silenced' /\ PointerIsTrue' /\ RejectedIsDeserved'
<1>1. Types
  BY DEF IInv
<1>2. execs \in Nat /\ told \in Nat /\ MAX_ATTEMPTS \in Nat
  BY <1>1, OverlayAssumption DEF Types
<1>3. Counted'
  <2> SUFFICES ASSUME pointer # None
               PROVE  /\ \/ pointer.attempts
                              <= execs + FaultCount' + (IF proc'.pc = "exec" THEN 1 ELSE 0)
                         \/ execs > MAX_ATTEMPTS
                      /\ ~pointer.healthy /\ behaves[pointer.version] = "good" =>
                            pointer.attempts <= FaultCount' + (IF Flying' THEN 1 ELSE 0)
    BY DEF Counted
  <2>1. pointer.attempts \in Int
    BY <1>1, PointerIs
  <2> QED BY <1>2, <2>1 DEF IInv, Counted, FaultsGrow
<1>4. Silenced'
  <2>1. told <= (IF pointer # None /\ pointer.rejected_reported THEN 1 ELSE 0) + faults["io"]
    BY DEF IInv, Silenced
  <2>2. told' <= (IF pointer # None /\ pointer.rejected_reported THEN 1 ELSE 0) + faults'["io"]
    BY <1>2, <2>1 DEF FaultsGrow
  <2> QED BY <2>2 DEF Silenced
<1>5. PointerIsTrue'
  BY DEF IInv, PointerIsTrue
<1>6. RejectedIsDeserved'
  <2>1. RejectedIsDeserved
    BY DEF IInv
  <2>2. pointer # None /\ pointer.rejected => execs + FaultCount' >= MAX_ATTEMPTS
    <3> SUFFICES ASSUME pointer # None, pointer.rejected
                 PROVE  execs + FaultCount' >= MAX_ATTEMPTS
      OBVIOUS
    <3>1. execs + FaultCount >= MAX_ATTEMPTS
      BY <2>1 DEF RejectedIsDeserved
    <3>2. \A f, g \in Nat : g >= f /\ execs + f >= MAX_ATTEMPTS => execs + g >= MAX_ATTEMPTS
      BY <1>2
    <3> QED BY <3>1, <3>2 DEF FaultsGrow
  <2>3. pointer # None /\ pointer.rejected /\ behaves[pointer.version] = "good"
           => FaultCount' >= MAX_ATTEMPTS
    BY <1>2, <2>1 DEF RejectedIsDeserved, FaultsGrow
  <2>4. (told' > 0 => pointer # None /\ pointer.rejected) /\ told' <= 1 + faults'["io"]
    BY <1>2, <2>1 DEF RejectedIsDeserved, FaultsGrow
  <2> QED BY <2>2, <2>3, <2>4 DEF RejectedIsDeserved
<1> QED BY <1>3, <1>4, <1>5, <1>6

-----------------------------------------------------------------------------
LEMMA InitIInv == Init => IInv
<1> SUFFICES ASSUME Init PROVE IInv
  OBVIOUS
<1>1. Types
  BY OverlayAssumption DEF Init, Types, ProcType, UpgradeType, HelperType, BaseStarted, NoUpgrade, NoHelper, Kinds
<1>2. Processes /\ Helpers /\ Placed
  BY DEF Init, Processes, Helpers, Placed, BaseStarted, NoUpgrade, NoHelper, Online
<1>3. Counted /\ Silenced /\ PointerIsTrue /\ RejectedIsDeserved
  BY DEF Init, Counted, Silenced, PointerIsTrue, RejectedIsDeserved, Kinds
<1> QED BY <1>1, <1>2, <1>3 DEF IInv

LEMMA StaysOnBaseIInv == IInv /\ StaysOnBase => IInv'
<1> SUFFICES ASSUME IInv, StaysOnBase PROVE IInv'
  OBVIOUS
<1>0. Types /\ FaultsGrow
  BY NoFault, FaultIsCounted, KindsAre DEF IInv, StaysOnBase
<1>1. /\ proc.pc = "boot" /\ proc.kind = "base" /\ proc.ver <= base /\ base \in Nat
      /\ proc' = [proc EXCEPT !.pc = "starting"]
      /\ proc'.pc = "starting" /\ proc'.kind = "base" /\ proc'.ver = proc.ver
      /\ proc'.restored = proc.restored
  BY <1>0, ProcIs DEF IInv, StaysOnBase, Types, Processes
<1>2. ~Flying /\ ~Flying' /\ ~IsPointed'
  BY <1>1 DEF Flying, IsPointed
<1>3. UNCHANGED <<behaves, execs, proven, told, base>>
  BY DEF StaysOnBase, history
<1>4. pointer # None /\ pointer.version > base /\ pointer.version \in bin => pointer.version \in bin'
  BY <1>0, <1>1, PointerIs, ProcIs DEF StaysOnBase, Verdict, Decide
<1>5. Processes' /\ Helpers' /\ Placed'
  BY <1>0, <1>1 DEF IInv, StaysOnBase, Processes, Helpers, Placed, Online
<1>6. CASE pointer' = pointer
  <2>1. Types'
    BY <1>0, <1>1, <1>6, ProcIs DEF StaysOnBase, Types, ProcType, UpgradeType, HelperType, history, FaultsGrow
  <2>2. Counted' /\ Silenced' /\ PointerIsTrue' /\ RejectedIsDeserved'
    <3>1. pointer # None /\ pointer.version > base /\ faults'["damage"] = 0
             => pointer.version \in bin'
      BY <1>0, <1>4 DEF IInv, PointerIsTrue, FaultsGrow
    <3>2. base' >= base /\ base' \in Nat /\ proven' \in BOOLEAN
      BY <1>0, <1>1, <1>3 DEF Types
    <3> QED BY <1>0, <1>1, <1>2, <1>3, <1>6, <3>1, <3>2, PointerKept
  <2> QED BY <1>5, <2>1, <2>2 DEF IInv
<1>7. CASE pointer' # pointer
  <2>1. /\ pointer # None /\ pointer' = [pointer EXCEPT !.rejected = TRUE, !.healthy = FALSE]
        /\ ~pointer.healthy /\ pointer.attempts >= MAX_ATTEMPTS
    BY <1>7 DEF StaysOnBase, Verdict, Decide, GivenUp
  <2>2. /\ pointer' \in Pointers /\ pointer' # None
        /\ pointer'.version = pointer.version /\ pointer'.attempts = pointer.attempts
        /\ pointer'.rejected_reported = pointer.rejected_reported
        /\ ~pointer'.healthy /\ pointer'.rejected
    BY <1>0, <2>1, PointerIs, OverlayAssumption DEF Pointers
  <2>3. /\ pointer.version \in Nat /\ pointer.attempts \in Int /\ MAX_ATTEMPTS \in Nat
        /\ execs \in Nat /\ told \in Nat
    BY <1>0, <2>1, PointerIs DEF Types
  <2>4. Types'
    BY <1>0, <1>1, <2>2, ProcIs DEF StaysOnBase, Types, ProcType, UpgradeType, HelperType, history, FaultsGrow
  <2>5. /\ pointer.attempts <= execs + FaultCount \/ execs > MAX_ATTEMPTS
        /\ behaves[pointer.version] = "good" => pointer.attempts <= FaultCount
    BY <1>0, <1>1, <1>2, <2>1, <2>3 DEF IInv, Counted, FaultsGrow
  <2>6. Counted'
    BY <1>0, <1>1, <1>2, <1>3, <2>2, <2>3, <2>5 DEF Counted, FaultsGrow
  <2>7. Silenced'
    BY <1>0, <1>1, <1>2, <1>3, <2>1, <2>2, <2>3 DEF IInv, Silenced, FaultsGrow
  <2>8. PointerIsTrue'
    BY <1>0, <1>3, <1>4, <2>1, <2>2 DEF IInv, PointerIsTrue, FaultsGrow
  <2>9. RejectedIsDeserved'
    BY <1>0, <1>3, <2>1, <2>2, <2>3, <2>5 DEF IInv, RejectedIsDeserved, FaultsGrow
  <2> QED BY <1>5, <2>4, <2>6, <2>7, <2>8, <2>9 DEF IInv
<1> QED BY <1>6, <1>7

(* The start of a process, up to its registration.                             *)
LEMMA RecordsAttemptIInv == IInv /\ RecordsAttempt => IInv'
<1> SUFFICES ASSUME IInv, RecordsAttempt PROVE IInv'
  OBVIOUS
<1>0. Types /\ FaultsGrow
  BY NoFault, FaultIsCounted, KindsAre DEF IInv, RecordsAttempt
<1>1. /\ proc.pc = "boot" /\ proc.kind = "base" /\ proc.ver <= base
      /\ ~Flying /\ pointer # None /\ ~pointer.rejected
      /\ UNCHANGED <<restarter, behaves, base, bin, handoff, pending, upgrade, helper, execs, proven, told>>
  BY <1>0, ProcIs DEF IInv, RecordsAttempt, Processes, Flying, IsPointed, Verdict, Decide, history
<1>2. /\ pointer.version \in Nat /\ pointer.attempts \in Int /\ MAX_ATTEMPTS \in Nat
      /\ execs \in Nat /\ told \in Nat /\ base \in Nat
  BY <1>0, <1>1, PointerIs DEF Types
<1>3. CASE proc' = [proc EXCEPT !.pc = "exec"] /\ pointer' = Attempted(pointer) /\ UNCHANGED faults
  <2>1. /\ pointer' \in Pointers /\ pointer' # None
        /\ pointer'.version = pointer.version /\ pointer'.attempts = pointer.attempts + 1
        /\ pointer'.rejected_reported = pointer.rejected_reported
        /\ pointer'.healthy = pointer.healthy /\ ~pointer'.rejected
    BY <1>0, <1>1, <1>3, PointerIs, OverlayAssumption DEF Attempted, Pointers
  <2>2. proc'.pc = "exec" /\ proc'.kind = "base" /\ proc'.ver = proc.ver /\ proc'.restored = proc.restored
    BY <1>0, <1>1, <1>3, ProcIs
  <2>3. Types'
    BY <1>0, <1>1, <1>3, <2>1, ProcIs DEF Types, ProcType, UpgradeType, HelperType, FaultsGrow
  <2>4. Processes' /\ Helpers' /\ Placed'
    BY <1>0, <1>1, <1>3, <2>1, <2>2 DEF IInv, Processes, Helpers, Placed, Online
  <2>5. FaultCount' = FaultCount /\ Flying'
    BY <1>0, <1>3, <2>2, NoFault DEF Flying
  <2>6. Counted'
    <3>1. /\ pointer.attempts <= execs + FaultCount \/ execs > MAX_ATTEMPTS
          /\ ~pointer.healthy /\ behaves[pointer.version] = "good" => pointer.attempts <= FaultCount
      BY <1>0, <1>1, <1>2 DEF IInv, Counted, FaultsGrow
    <3> QED BY <1>0, <1>1, <1>2, <2>1, <2>2, <2>5, <3>1 DEF Counted, FaultsGrow
  <2>7. Silenced' /\ PointerIsTrue' /\ RejectedIsDeserved'
    BY <1>0, <1>1, <1>2, <1>3, <2>1, <2>2 DEF IInv, Silenced, PointerIsTrue, RejectedIsDeserved, FaultsGrow
  <2> QED BY <2>3, <2>4, <2>6, <2>7 DEF IInv
<1>4. CASE proc' = [proc EXCEPT !.pc = "starting"] /\ UNCHANGED pointer /\ Fault("io")
  <2>1. proc'.pc = "starting" /\ proc'.kind = "base" /\ proc'.ver = proc.ver /\ proc'.restored = proc.restored
    BY <1>0, <1>1, <1>4, ProcIs
  <2>2. Types'
    BY <1>0, <1>1, <1>4, ProcIs DEF Types, ProcType, UpgradeType, HelperType, FaultsGrow
  <2>3. Processes' /\ Helpers' /\ Placed'
    BY <1>0, <1>1, <1>4, <2>1 DEF IInv, Processes, Helpers, Placed, Online, FaultsGrow
  <2>4. ~IsPointed'
    BY <2>1 DEF IsPointed
  <2>5. pointer # None /\ pointer.version > base /\ faults'["damage"] = 0 => pointer.version \in bin
    BY <1>0 DEF IInv, PointerIsTrue, FaultsGrow
  <2>6. Counted' /\ Silenced' /\ PointerIsTrue' /\ RejectedIsDeserved'
    <3>1. base' >= base /\ base' \in Nat /\ proven' \in BOOLEAN
      BY <1>0, <1>1, <1>2 DEF Types
    <3> QED BY <1>0, <1>1, <1>2, <1>4, <2>1, <2>4, <2>5, <3>1, PointerKept
  <2> QED BY <2>2, <2>3, <2>6 DEF IInv
<1> QED BY <1>3, <1>4 DEF RecordsAttempt

LEMMA ExecsIInv == IInv /\ Execs => IInv'
<1> SUFFICES ASSUME IInv, Execs PROVE IInv'
  OBVIOUS
<1>0. Types /\ FaultsGrow /\ FaultCount' = FaultCount
  BY NoFault DEF IInv, Execs
<1>1. /\ proc.pc = "exec" /\ pointer # None /\ ~pointer.rejected /\ Flying
      /\ UNCHANGED <<restarter, behaves, base, bin, pointer, handoff, pending, upgrade, helper, proven, told>>
  BY <1>0 DEF IInv, Execs, Processes, Flying, Silenced, files
<1>2. /\ pointer.version \in Nat /\ pointer.attempts \in Int /\ MAX_ATTEMPTS \in Nat
      /\ execs \in Nat /\ told \in Nat
  BY <1>0, <1>1, PointerIs DEF Types
<1>3. execs' \in Nat /\ (execs' = execs + 1 \/ (execs' = execs /\ execs > MAX_ATTEMPTS))
  BY <1>2 DEF Execs
<1>4. /\ proc' = [proc EXCEPT !.pc = "starting", !.kind = "overlay", !.ver = pointer.version, !.from = TRUE]
      /\ proc'.pc = "starting" /\ proc'.kind = "overlay" /\ proc'.ver = pointer.version /\ proc'.from
      /\ proc'.restored = proc.restored
  BY <1>0, ProcIs DEF Execs
<1>5. Flying' /\ IsPointed'
  BY <1>1, <1>4 DEF Flying, IsPointed
<1>6. Types'
  BY <1>0, <1>1, <1>2, <1>3, <1>4, ProcIs DEF Types, ProcType, UpgradeType, HelperType, FaultsGrow
<1>7. Processes' /\ Helpers' /\ Placed'
  BY <1>0, <1>1, <1>4 DEF IInv, Execs, Processes, Helpers, Placed, Online
<1>8. Counted'
  <2>1. /\ pointer.attempts <= execs + FaultCount + 1 \/ execs > MAX_ATTEMPTS
        /\ ~pointer.healthy /\ behaves[pointer.version] = "good" => pointer.attempts <= FaultCount + 1
    BY <1>1 DEF IInv, Counted
  <2> QED BY <1>0, <1>1, <1>2, <1>3, <1>4, <1>5, <2>1 DEF Counted, FaultsGrow
<1>9. Silenced' /\ PointerIsTrue'
  BY <1>0, <1>1 DEF IInv, Execs, Silenced, PointerIsTrue
<1>10. RejectedIsDeserved'
  <2>1. told' = told /\ pointer' = pointer /\ told <= 1 + faults'["io"] /\ told = 0
    BY <1>0, <1>1, <1>2 DEF IInv, FaultsGrow, RejectedIsDeserved
  <2> QED BY <1>1, <1>2, <2>1 DEF RejectedIsDeserved
<1> QED BY <1>6, <1>7, <1>8, <1>9, <1>10 DEF IInv

LEMMA ExecFailsIInv == IInv /\ ExecFails => IInv'
<1> SUFFICES ASSUME IInv, ExecFails PROVE IInv'
  OBVIOUS
<1>0. Types /\ FaultsGrow /\ FaultCount' = FaultCount + 1
  BY FaultIsCounted, KindsAre DEF IInv, ExecFails
<1>1. /\ proc.pc = "exec" /\ proc.kind = "base" /\ pointer # None /\ ~pointer.rejected /\ Flying
      /\ UNCHANGED <<restarter, behaves, base, bin, handoff, pending, upgrade, helper, execs, proven, told>>
  BY <1>0, ProcIs DEF IInv, ExecFails, Processes, Flying, Silenced, history
<1>2. /\ pointer.version \in Nat /\ pointer.attempts \in Int /\ MAX_ATTEMPTS \in Nat
      /\ execs \in Nat /\ told \in Nat
  BY <1>0, <1>1, PointerIs DEF Types
<1>3. /\ proc' = [proc EXCEPT !.pc = "starting"]
      /\ proc'.pc = "starting" /\ proc'.kind = "base" /\ proc'.ver = proc.ver /\ proc'.restored = proc.restored
  BY <1>0, <1>1, ProcIs DEF ExecFails
<1>4. /\ pointer' \in Pointers /\ pointer' # None
      /\ pointer'.version = pointer.version /\ pointer'.attempts = pointer.attempts - 1
      /\ pointer'.rejected_reported = pointer.rejected_reported
      /\ pointer'.healthy = pointer.healthy /\ ~pointer'.rejected
  BY <1>0, <1>1, PointerIs, OverlayAssumption DEF ExecFails, Pointers
<1>5. ~Flying' /\ ~IsPointed'
  BY <1>3 DEF Flying, IsPointed
<1>6. Types'
  BY <1>0, <1>1, <1>3, <1>4, ProcIs DEF Types, ProcType, UpgradeType, HelperType, FaultsGrow
<1>7. Processes' /\ Helpers' /\ Placed'
  BY <1>0, <1>1, <1>3, <1>4 DEF IInv, Processes, Helpers, Placed, Online, FaultsGrow
<1>8. Counted'
  <2>1. /\ pointer.attempts <= execs + FaultCount + 1 \/ execs > MAX_ATTEMPTS
        /\ ~pointer.healthy /\ behaves[pointer.version] = "good" => pointer.attempts <= FaultCount + 1
    BY <1>1 DEF IInv, Counted
  <2> QED BY <1>0, <1>1, <1>2, <1>3, <1>4, <1>5, <2>1 DEF Counted, FaultsGrow
<1>9. Silenced' /\ PointerIsTrue' /\ RejectedIsDeserved'
  BY <1>0, <1>1, <1>2, <1>3, <1>4, <1>5 DEF IInv, Silenced, PointerIsTrue, RejectedIsDeserved, FaultsGrow
<1> QED BY <1>6, <1>7, <1>8, <1>9 DEF IInv

LEMMA TakesIdentityIInv == IInv /\ TakesIdentity => IInv'
<1> SUFFICES ASSUME IInv, TakesIdentity PROVE IInv'
  OBVIOUS
<1>1. Types /\ FaultsGrow /\ proc.pc = "starting"
  BY NoFault DEF IInv, TakesIdentity
<1>2. UNCHANGED <<behaves, base, bin, pointer, handoff, upgrade, helper, execs, proven, told, faults, restarter>>
  BY DEF TakesIdentity, history
<1>3. /\ proc' \in [pc : {"connecting"}, kind : {"base", "overlay"}, ver : Nat,
                    from : BOOLEAN, restored : BOOLEAN]
      /\ proc'.kind = proc.kind /\ proc'.ver = proc.ver /\ proc'.from = proc.from
      /\ pending' \in BOOLEAN
  <2>1. proc.restored => handoff # None
    BY <1>1 DEF IInv, Helpers
  <2>2. pending' \in BOOLEAN
    <3>1. pending' = pending \/ pending' = FALSE
      BY DEF TakesIdentity
    <3> QED BY <1>1, <3>1 DEF Types
  <2>3. CASE proc.restored
    <3>1. proc' = [proc EXCEPT !.pc = "connecting"]
      BY <2>1, <2>3 DEF TakesIdentity
    <3> QED BY <1>1, <2>2, <3>1, ProcIs
  <2>4. CASE ~proc.restored
    <3>1. proc' = [proc EXCEPT !.pc = "connecting",
                                !.restored = IF handoff = None THEN FALSE ELSE pending]
          /\ pending \in BOOLEAN
      BY <1>1, <2>4 DEF TakesIdentity, Types
    <3> QED BY <1>1, <2>2, <3>1, ProcIs
  <2> QED BY <2>3, <2>4
<1>4. (Flying => Flying') /\ (IsPointed' <=> IsPointed) /\ proc'.pc = "connecting"
  BY <1>1, <1>2, <1>3 DEF Flying, IsPointed
<1>5. Types'
  BY <1>1, <1>2, <1>3, ProcIs DEF Types, ProcType, UpgradeType, HelperType
<1>6. Processes' /\ Helpers' /\ Placed'
  BY <1>1, <1>2, <1>3, <1>4 DEF IInv, Processes, Helpers, Placed, Online
<1>7. Counted' /\ Silenced' /\ PointerIsTrue' /\ RejectedIsDeserved'
  <2>1. pointer # None /\ pointer.rejected => ~IsPointed' /\ proc'.pc # "exec"
    BY <1>4 DEF IInv, Silenced
  <2>2. pointer # None /\ pointer.version > base' /\ faults'["damage"] = 0
           => pointer.version \in bin'
    BY <1>2 DEF IInv, PointerIsTrue
  <2>3. base' >= base /\ base' \in Nat /\ proven' \in BOOLEAN /\ proc.pc # "exec"
    BY <1>1, <1>2 DEF Types
  <2> QED BY <1>1, <1>2, <1>4, <2>1, <2>2, <2>3, PointerKept
<1> QED BY <1>5, <1>6, <1>7 DEF IInv

(* A process that ends takes no registration with it that was on its way, but  *)
(* for a fault or because its version does not work.                           *)
LEMMA EndsIInv ==
    ASSUME IInv, proc' = Gone, FaultsGrow,
           UNCHANGED <<restarter, behaves, base, files, history>>,
           proc.pc = "exec" => FaultCount' > FaultCount,
           Flying => FaultCount' > FaultCount \/ behaves[pointer.version] # "good",
           upgrade' = NoUpgrade \/ (UNCHANGED upgrade /\ ~Online),
           UNCHANGED helper \/ helper' = NoHelper,
           helper.pc = "await" /\ helper.marker => helper' = NoHelper
    PROVE  IInv'
<1>1. Types
  BY DEF IInv
<1>2. UNCHANGED <<behaves, base, bin, pointer, handoff, pending, execs, proven, told, restarter>>
  BY DEF files, history
<1>3. /\ proc' \in [pc : {"gone"}, kind : {"base"}, ver : {0}, from : BOOLEAN, restored : BOOLEAN]
      /\ proc'.pc = "gone" /\ proc'.kind = "base" /\ proc'.ver = 0 /\ ~proc'.restored
  BY DEF Gone
<1>4. ~Flying' /\ ~IsPointed'
  BY <1>3 DEF Flying, IsPointed
<1>5. /\ upgrade' \in [pc : {"idle"}, ver : Nat, previous : Nat \cup {None}]
      /\ upgrade'.pc = "idle"
  <2>1. ~Online => upgrade.pc = "idle"
    BY DEF IInv, Processes
  <2> QED BY <1>1, <2>1, ProcIs DEF NoUpgrade
<1>6. /\ helper' \in [pc : {"none", "wait_exit", "await"}, from : BOOLEAN, marker : BOOLEAN]
      /\ helper' = helper \/ (helper'.pc = "none" /\ ~helper'.marker)
  <2>1. /\ NoHelper \in [pc : {"none", "wait_exit", "await"}, from : BOOLEAN, marker : BOOLEAN]
        /\ NoHelper.pc = "none" /\ ~NoHelper.marker
    BY DEF NoHelper
  <2> QED BY <1>1, <2>1, ProcIs
<1>7. Types'
  BY <1>1, <1>2, <1>3, <1>5, <1>6 DEF Types, ProcType, UpgradeType, HelperType, FaultsGrow
<1>8. Processes' /\ Placed'
  BY <1>1, <1>2, <1>3, <1>5 DEF IInv, Types, Processes, Placed, Online
<1>9. Helpers'
  <2>1. helper.pc = "await" /\ helper.marker => helper'.pc = "none"
    BY DEF NoHelper
  <2> QED BY <1>2, <1>3, <1>5, <1>6, <2>1 DEF IInv, Helpers
<1>10. Counted' /\ Silenced' /\ PointerIsTrue' /\ RejectedIsDeserved'
  <2>1. pointer # None /\ pointer.version > base' /\ faults'["damage"] = 0
           => pointer.version \in bin'
    BY <1>2 DEF IInv, PointerIsTrue, FaultsGrow
  <2>2. base' >= base /\ base' \in Nat /\ proven' \in BOOLEAN
    BY <1>1, <1>2 DEF Types
  <2> QED BY <1>2, <1>3, <1>4, <2>1, <2>2, PointerKept
<1> QED BY <1>7, <1>8, <1>9, <1>10 DEF IInv

LEMMA CrashesIInv == IInv /\ Crashes => IInv'
<1> SUFFICES ASSUME IInv, Crashes PROVE IInv'
  OBVIOUS
<1>1. Types /\ FaultsGrow
  BY NoFault DEF IInv, Crashes
<1>2. ~Online /\ proc.pc # "exec"
  BY DEF Crashes, Online
<1>3. Flying => behaves[pointer.version] # "good"
  BY <1>2 DEF Crashes, Flying, IsPointed
<1>4. ~(helper.pc = "await" /\ helper.marker)
  BY <1>2 DEF IInv, Helpers
<1> QED BY <1>1, <1>2, <1>3, <1>4, EndsIInv DEF Crashes

LEMMA ExitsIInv == IInv /\ Exits => IInv'
<1> SUFFICES ASSUME IInv, Exits PROVE IInv'
  OBVIOUS
<1>1. Types /\ FaultsGrow
  BY NoFault DEF IInv, Exits
<1>2. proc.pc = "registered"
  BY DEF Exits, UpgradeAt, Online
<1>3. ~Flying /\ proc.pc # "exec"
  BY <1>2 DEF Flying
<1>4. helper.pc # "await"
  BY DEF IInv, Helpers, Exits, UpgradeAt
<1> QED BY <1>1, <1>3, <1>4, EndsIInv DEF Exits

LEMMA PowerFailsIInv == IInv /\ PowerFails => IInv'
<1> SUFFICES ASSUME IInv, PowerFails PROVE IInv'
  OBVIOUS
<1>1. Types /\ FaultsGrow /\ FaultCount' > FaultCount
  BY FaultIsCounted, KindsAre DEF IInv, PowerFails, FaultsGrow
<1> QED BY <1>1, EndsIInv DEF PowerFails

LEMMA HelperGivesUpIInv == IInv /\ HelperGivesUp => IInv'
<1> SUFFICES ASSUME IInv, HelperGivesUp PROVE IInv'
  OBVIOUS
<1>1. Types
  BY DEF IInv
<1>2. CASE UNCHANGED faults
  <2>1. FaultsGrow
    BY <1>1, <1>2, NoFault
  <2>2. CASE proc.pc = "gone"
    <3>1. ~Flying /\ proc.pc # "exec"
      BY <2>2 DEF Flying
    <3> QED BY <2>1, <3>1, EndsIInv DEF HelperGivesUp
  <2>3. CASE proc.kind = "overlay" /\ behaves[proc.ver] = "hangs" /\ proc.pc = "connecting"
    <3>1. proc.pc # "exec" /\ (Flying => behaves[pointer.version] # "good")
      BY <2>3 DEF Flying, IsPointed
    <3> QED BY <2>1, <3>1, EndsIInv DEF HelperGivesUp
  <2>4. \A k \in Kinds : ~Fault(k)
    <3> SUFFICES ASSUME NEW k \in Kinds, Fault(k) PROVE FALSE
      OBVIOUS
    <3>1. faults'[k] = faults[k] + 1 /\ faults[k] \in Nat
      BY <1>1, FaultIsCounted DEF Types
    <3> QED BY <1>2, <3>1
  <2> QED BY <2>2, <2>3, <2>4, KindsAre DEF HelperGivesUp
<1>3. CASE Fault("slow")
  <2>1. FaultsGrow /\ FaultCount' > FaultCount
    BY <1>1, <1>3, FaultIsCounted, KindsAre DEF FaultsGrow
  <2> QED BY <2>1, EndsIInv DEF HelperGivesUp
<1> QED BY <1>2, <1>3 DEF HelperGivesUp

-----------------------------------------------------------------------------
(* A start of the base.                                                        *)
LEMMA StartsIInv ==
    ASSUME IInv, proc.pc = "gone", FaultsGrow, NEW restored \in BOOLEAN, NEW from \in BOOLEAN,
           proc' = BaseStarted(from, restored), restored => handoff # None,
           UNCHANGED <<restarter, behaves, base, files, upgrade, history>>,
           \/ UNCHANGED helper /\ helper.pc # "wait_exit"
           \/ helper.pc = "wait_exit" /\ helper' = [helper EXCEPT !.pc = "await"]
    PROVE  IInv'
<1>1. Types
  BY DEF IInv
<1>2. UNCHANGED <<behaves, base, bin, pointer, handoff, pending, execs, proven, told, restarter>>
  BY DEF files, history
<1>3. base \in Nat
  BY <1>1 DEF Types
<1>4. /\ proc' \in [pc : {"boot"}, kind : {"base"}, ver : Nat, from : BOOLEAN, restored : BOOLEAN]
      /\ proc'.pc = "boot" /\ proc'.kind = "base" /\ proc'.ver = base
      /\ proc'.restored => handoff # None
  BY <1>3 DEF BaseStarted
<1>5. ~Flying /\ ~Flying' /\ ~IsPointed' /\ upgrade.pc = "idle"
  BY <1>4 DEF Flying, IsPointed, IInv, Processes, Online
<1>6. /\ helper' \in [pc : {"none", "wait_exit", "await"}, from : BOOLEAN, marker : BOOLEAN]
      /\ helper'.pc # "wait_exit" /\ (helper'.pc # "none" => restarter # "systemd")
      /\ ~(helper'.pc = "await" /\ helper'.marker)
  <2>1. CASE UNCHANGED helper /\ helper.pc # "wait_exit"
    BY <1>1, <2>1, ProcIs DEF IInv, Helpers, Online
  <2>2. CASE helper.pc = "wait_exit" /\ helper' = [helper EXCEPT !.pc = "await"]
    <3>1. ~helper.marker /\ restarter # "systemd"
      BY <2>2 DEF IInv, Helpers
    <3> QED BY <1>1, <2>2, <3>1, ProcIs
  <2> QED BY <2>1, <2>2
<1>7. Types'
  BY <1>1, <1>2, <1>4, <1>6, ProcIs DEF Types, ProcType, UpgradeType, HelperType, FaultsGrow
<1>8. Processes' /\ Placed'
  BY <1>2, <1>3, <1>4, <1>5 DEF IInv, Processes, Placed, Online
<1>9. Helpers'
  BY <1>2, <1>4, <1>5, <1>6 DEF Helpers
<1>10. Counted' /\ Silenced' /\ PointerIsTrue' /\ RejectedIsDeserved'
  <2>1. pointer # None /\ pointer.version > base' /\ faults'["damage"] = 0
           => pointer.version \in bin'
    BY <1>2 DEF IInv, PointerIsTrue, FaultsGrow
  <2>2. base' >= base /\ base' \in Nat /\ proven' \in BOOLEAN
    BY <1>1, <1>2 DEF Types
  <2> QED BY <1>2, <1>4, <1>5, <2>1, <2>2, PointerKept
<1> QED BY <1>7, <1>8, <1>9, <1>10 DEF IInv

LEMMA OthersStartIInv == IInv /\ (SystemdStarts \/ OperatorStarts) => IInv'
<1> SUFFICES ASSUME IInv, SystemdStarts \/ OperatorStarts PROVE IInv'
  OBVIOUS
<1>1. Types /\ FaultsGrow /\ TRUE \in BOOLEAN /\ FALSE \in BOOLEAN
  BY NoFault DEF IInv, SystemdStarts, OperatorStarts
<1>2. helper.pc # "wait_exit"
  BY DEF IInv, Helpers, SystemdStarts, OperatorStarts
<1> QED BY <1>1, <1>2, StartsIInv DEF SystemdStarts, OperatorStarts

(* Steps that concern neither the pointer nor the process.                     *)
LEMMA AsideIInv ==
    ASSUME IInv, FaultsGrow, Types', Processes', Helpers', Placed',
           UNCHANGED <<pointer, behaves, base, proc, history>>,
           pointer # None /\ pointer.version > base /\ faults'["damage"] = 0
              => pointer.version \in bin'
    PROVE  IInv'
<1>1. UNCHANGED <<execs, proven, told>>
  BY DEF history
<1>2. (Flying => Flying') /\ (IsPointed' <=> IsPointed)
  BY DEF Flying, IsPointed
<1>3. base' >= base /\ base' \in Nat /\ proven' \in BOOLEAN
  BY <1>1 DEF IInv, Types
<1>4. pointer # None /\ pointer.rejected => ~IsPointed' /\ proc'.pc # "exec"
  BY <1>2 DEF IInv, Silenced
<1> QED BY <1>1, <1>2, <1>3, <1>4, PointerKept DEF IInv

LEMMA HelperStartsBaseIInv == IInv /\ HelperStartsBase => IInv'
<1> SUFFICES ASSUME IInv, HelperStartsBase PROVE IInv'
  OBVIOUS
<1>1. Types /\ FaultsGrow /\ helper.from \in BOOLEAN /\ TRUE \in BOOLEAN
  BY NoFault, FaultIsCounted, KindsAre, ProcIs DEF IInv, HelperStartsBase
<1>2. helper.pc = "wait_exit" /\ proc.pc = "gone" /\ handoff # None
  BY DEF IInv, Helpers, HelperStartsBase
<1>3. CASE proc' = BaseStarted(helper.from, TRUE) /\ helper' = [helper EXCEPT !.pc = "await"]
  BY <1>1, <1>2, <1>3, StartsIInv DEF HelperStartsBase
<1>4. CASE helper' = NoHelper /\ UNCHANGED proc
  <2>1. UNCHANGED <<restarter, behaves, base, pointer, bin, handoff, pending, proc, upgrade, history>>
    BY <1>4 DEF HelperStartsBase, files
  <2>2. helper'.pc = "none" /\ helper' \in [pc : {"none"}, from : BOOLEAN, marker : BOOLEAN]
    BY <1>4 DEF NoHelper
  <2>3. Types'
    BY <1>1, <2>1, <2>2, ProcIs DEF Types, ProcType, UpgradeType, HelperType, FaultsGrow, history
  <2>4. Processes' /\ Helpers' /\ Placed'
    BY <1>1, <2>1, <2>2 DEF IInv, Processes, Helpers, Placed, Online, FaultsGrow
  <2>5. pointer # None /\ pointer.version > base /\ faults'["damage"] = 0
           => pointer.version \in bin'
    BY <1>1, <2>1 DEF IInv, PointerIsTrue, FaultsGrow
  <2> QED BY <1>1, <2>1, <2>3, <2>4, <2>5, AsideIInv
<1> QED BY <1>3, <1>4 DEF HelperStartsBase

LEMMA HelperSeesMarkerIInv == IInv /\ HelperSeesMarker => IInv'
<1> SUFFICES ASSUME IInv, HelperSeesMarker PROVE IInv'
  OBVIOUS
<1>1. Types /\ FaultsGrow /\ Online
  BY NoFault DEF IInv, HelperSeesMarker, Helpers
<1>2. UNCHANGED <<restarter, behaves, base, pointer, bin, pending, proc, upgrade, history, faults>>
  BY DEF HelperSeesMarker
<1>3. helper'.pc = "none" /\ helper' \in [pc : {"none"}, from : BOOLEAN, marker : BOOLEAN]
  BY DEF HelperSeesMarker, NoHelper
<1>4. Types'
  BY <1>1, <1>2, <1>3, ProcIs DEF Types, ProcType, UpgradeType, HelperType, FaultsGrow, history
<1>5. Processes' /\ Helpers' /\ Placed'
  BY <1>1, <1>2, <1>3 DEF IInv, Processes, Helpers, Placed, Online
<1>6. pointer # None /\ pointer.version > base /\ faults'["damage"] = 0
         => pointer.version \in bin'
  BY <1>2 DEF IInv, PointerIsTrue
<1> QED BY <1>1, <1>2, <1>4, <1>5, <1>6, AsideIInv

-----------------------------------------------------------------------------
(* Registration, the first or another one.                                     *)
LEMMA RegistrationKeeps ==
    ASSUME IInv, AfterRegistration, proc.pc \in {"connecting", "registered"},
           proc'.pc = "registered", proc'.kind = proc.kind, proc'.ver = proc.ver,
           UNCHANGED <<behaves, base, bin>>
    PROVE  /\ Counted' /\ Silenced' /\ PointerIsTrue' /\ RejectedIsDeserved' /\ FaultsGrow
           /\ pointer' \in Pointers \cup {None} /\ (pointer' = None <=> pointer = None)
           /\ pointer # None => pointer'.version = pointer.version
           /\ execs' \in Nat /\ told' \in Nat /\ proven' \in BOOLEAN
<1>1. /\ Types /\ FaultsGrow
      /\ UNCHANGED faults \/ (FaultCount' = FaultCount + 1 /\ faults'["io"] = faults["io"] + 1)
  BY NoFault, FaultIsCounted, KindsAre DEF IInv, AfterRegistration
<1>2. /\ MAX_ATTEMPTS \in Nat /\ execs \in Nat /\ told \in Nat /\ MaxFaults \in Nat
      /\ proven \in BOOLEAN /\ base \in Nat /\ execs' = execs
      /\ base' = base /\ bin' = bin /\ behaves' = behaves
  BY <1>1, OverlayAssumption DEF Types, AfterRegistration
<1>3. /\ told' \in Nat /\ (told' = told \/ (told' = told + 1 /\ Tells))
      /\ proven' \in BOOLEAN /\ (proven => proven')
  BY <1>2 DEF AfterRegistration
<1>4. ~Flying' /\ proc'.pc # "exec" /\ proc.pc # "exec"
      /\ (Flying => MarksHealthy) /\ (MarksHealthy => IsPointed /\ ~Tells)
  BY DEF Flying, MarksHealthy, IInv, Processes, IsPointed, Tells
<1>5. pointer # None /\ pointer.rejected => ~IsPointed /\ ~MarksHealthy
  BY DEF IInv, Silenced, MarksHealthy
<1>6. pointer' = pointer => IsPointed' = IsPointed
  BY DEF IsPointed
<1>7. CASE UNCHANGED <<pointer, faults>> /\ ~MarksHealthy /\ ~Tells
  <2>1. told' = told
    BY <1>3, <1>7
  <2>2. pointer # None /\ pointer.rejected => ~IsPointed' /\ proc'.pc # "exec"
    BY <1>4, <1>5, <1>6, <1>7
  <2>3. pointer # None /\ pointer.version > base' /\ faults'["damage"] = 0
           => pointer.version \in bin'
    BY <1>7 DEF IInv, PointerIsTrue
  <2>4. Counted' /\ Silenced' /\ PointerIsTrue' /\ RejectedIsDeserved'
    BY <1>1, <1>2, <1>3, <1>4, <1>7, <2>1, <2>2, <2>3, PointerKept
  <2> QED BY <1>1, <1>2, <1>3, <1>7, <2>4 DEF Types
<1>8. CASE UNCHANGED pointer /\ (MarksHealthy \/ Tells) /\ Fault("io")
  <2>1. FaultCount' > FaultCount /\ faults'["io"] > faults["io"]
    BY <1>1, <1>8, FaultIsCounted, KindsAre DEF FaultsGrow
  <2>2. pointer # None /\ pointer.rejected => ~IsPointed' /\ proc'.pc # "exec"
    BY <1>4, <1>5, <1>6, <1>8
  <2>3. pointer # None /\ pointer.version > base' /\ faults'["damage"] = 0
           => pointer.version \in bin'
    BY <1>1, <1>2, <1>8 DEF IInv, PointerIsTrue, FaultsGrow
  <2>4. Counted' /\ Silenced' /\ PointerIsTrue' /\ RejectedIsDeserved'
    <3>1. \/ told' = told
          \/ /\ told' = told + 1 /\ faults'["io"] > faults["io"]
             /\ pointer # None /\ pointer.rejected /\ ~pointer.rejected_reported
      BY <1>3, <2>1 DEF Tells
    <3> QED BY <1>1, <1>2, <1>3, <1>4, <1>8, <2>1, <2>2, <2>3, <3>1, PointerKept
  <2> QED BY <1>1, <1>2, <1>3, <1>8, <2>4 DEF Types
<1>9. CASE MarksHealthy /\ UNCHANGED faults
           /\ pointer' = [Fresh(pointer.version) EXCEPT !.healthy = TRUE]
  <2>1. IsPointed /\ ~Tells /\ told' = told /\ pointer # None /\ ~pointer.rejected
    BY <1>3, <1>4, <1>5, <1>9 DEF IsPointed
  <2>2. pointer.version \in Versions
    BY <1>1, <2>1, PointerIs
  <2>3. /\ pointer' \in Pointers /\ pointer' # None /\ pointer'.version = pointer.version
        /\ pointer'.attempts = 0 /\ pointer'.healthy /\ ~pointer'.rejected
        /\ ~pointer'.rejected_reported
    <3>1. /\ pointer' \in [version : Versions, healthy : BOOLEAN, attempts : Int,
                           rejected : BOOLEAN, rejected_reported : BOOLEAN]
          /\ pointer'.version = pointer.version /\ pointer'.attempts = 0 /\ pointer'.healthy
          /\ ~pointer'.rejected /\ ~pointer'.rejected_reported
      BY <1>9, <2>2, FreshIs
    <3> QED BY <3>1, OverlayAssumption DEF Pointers
  <2>4. proven' = TRUE
    BY <2>1 DEF AfterRegistration
  <2>5. told = 0
    BY <1>2, <2>1 DEF IInv, RejectedIsDeserved
  <2>6. Counted'
    <3>1. 0 <= execs' + FaultCount' + 0
      <4>1. execs' \in Nat /\ FaultCount' \in Nat
        BY <1>1, <1>2 DEF FaultsGrow
      <4> DEFINE e == execs'
                 f == FaultCount'
      <4>2. e \in Nat /\ f \in Nat
        BY <4>1
      <4> HIDE DEF e, f
      <4>3. 0 <= e + f + 0
        BY <4>2
      <4> QED BY <4>3 DEF e, f
    <3> QED BY <1>4, <2>3, <3>1 DEF Counted
  <2>7. Silenced'
    BY <1>1, <2>1, <2>3, <2>5 DEF Silenced, FaultsGrow
  <2>8. PointerIsTrue'
    BY <1>2, <1>9, <2>1, <2>3, <2>4 DEF IInv, PointerIsTrue
  <2>9. RejectedIsDeserved'
    BY <1>1, <2>1, <2>3, <2>5 DEF RejectedIsDeserved, FaultsGrow
  <2> QED BY <1>1, <1>2, <1>3, <2>1, <2>3, <2>6, <2>7, <2>8, <2>9
<1>10. CASE ~MarksHealthy /\ Tells /\ UNCHANGED faults /\ pointer' = Reported(pointer)
  <2>1. pointer # None /\ pointer.rejected /\ ~pointer.rejected_reported /\ ~Flying
    BY <1>4, <1>10 DEF Tells
  <2>2. pointer.version \in Nat /\ pointer.attempts \in Int
    BY <1>1, <2>1, PointerIs
  <2>3. /\ pointer' \in Pointers /\ pointer' # None /\ pointer'.version = pointer.version
        /\ pointer'.attempts = pointer.attempts /\ pointer'.healthy = pointer.healthy
        /\ pointer'.rejected /\ pointer'.rejected_reported
    BY <1>1, <1>10, <2>1, PointerIs, OverlayAssumption DEF Reported, Pointers
  <2>4. ~IsPointed /\ ~IsPointed'
    BY <1>5, <2>1, <2>3 DEF IsPointed
  <2>5. FaultCount' = FaultCount
    BY <1>1, <1>10, NoFault
  <2>6. Counted'
    <3>1. /\ pointer.attempts <= execs + FaultCount \/ execs > MAX_ATTEMPTS
          /\ ~pointer.healthy /\ behaves[pointer.version] = "good" => pointer.attempts <= FaultCount
      BY <1>1, <1>2, <1>4, <2>1, <2>2 DEF IInv, Counted, FaultsGrow
    <3> QED BY <1>1, <1>2, <1>4, <2>2, <2>3, <2>5, <3>1 DEF Counted, FaultsGrow
  <2>7. Silenced'
    <3>1. told <= faults["io"]
      BY <1>1, <1>2, <2>1 DEF IInv, Silenced, FaultsGrow
    <3> QED BY <1>1, <1>2, <1>3, <1>4, <1>10, <2>3, <2>4, <3>1 DEF Silenced, FaultsGrow
  <2>8. PointerIsTrue'
    BY <1>2, <1>3, <1>10, <2>1, <2>3 DEF IInv, PointerIsTrue
  <2>9. RejectedIsDeserved'
    <3>1. /\ execs + FaultCount >= MAX_ATTEMPTS
          /\ behaves[pointer.version] = "good" => FaultCount >= MAX_ATTEMPTS
      BY <2>1 DEF IInv, RejectedIsDeserved
    <3>2. told' <= 1 + faults'["io"]
      BY <1>1, <1>2, <1>3, <2>1 DEF IInv, Silenced, FaultsGrow
    <3> QED BY <1>2, <2>3, <2>5, <3>1, <3>2 DEF RejectedIsDeserved
  <2> QED BY <1>1, <1>2, <1>3, <2>1, <2>3, <2>6, <2>7, <2>8, <2>9
<1>11. \/ UNCHANGED <<pointer, faults>> /\ ~MarksHealthy /\ ~Tells
       \/ UNCHANGED pointer /\ (MarksHealthy \/ Tells) /\ Fault("io")
       \/ MarksHealthy /\ UNCHANGED faults
            /\ pointer' = [Fresh(pointer.version) EXCEPT !.healthy = TRUE]
       \/ ~MarksHealthy /\ Tells /\ UNCHANGED faults /\ pointer' = Reported(pointer)
  BY DEF AfterRegistration
<1> QED BY <1>7, <1>8, <1>9, <1>10, <1>11

LEMMA RegistersIInv == IInv /\ Registers => IInv'
<1> SUFFICES ASSUME IInv, Registers PROVE IInv'
  OBVIOUS
<1>1. Types /\ proc.pc = "connecting" /\ AfterRegistration
      /\ UNCHANGED <<restarter, behaves, base, bin, pending, upgrade>>
  BY DEF IInv, Registers
<1>2. /\ proc' \in [pc : {"registered"}, kind : {"base", "overlay"}, ver : Nat,
                    from : BOOLEAN, restored : BOOLEAN]
      /\ proc'.pc = "registered" /\ proc'.kind = proc.kind /\ proc'.ver = proc.ver
      /\ proc'.from = proc.from
  BY <1>1, ProcIs DEF Registers
<1>3. /\ Counted' /\ Silenced' /\ PointerIsTrue' /\ RejectedIsDeserved' /\ FaultsGrow
      /\ pointer' \in Pointers \cup {None} /\ (pointer' = None <=> pointer = None)
      /\ pointer # None => pointer'.version = pointer.version
      /\ execs' \in Nat /\ told' \in Nat /\ proven' \in BOOLEAN
  BY <1>1, <1>2, RegistrationKeeps
<1>4. /\ helper' \in [pc : {"none", "wait_exit", "await"}, from : BOOLEAN, marker : BOOLEAN]
      /\ helper'.pc = helper.pc /\ helper.pc # "wait_exit" /\ upgrade.pc = "idle"
  <2>1. helper.pc # "wait_exit" /\ upgrade.pc = "idle"
    BY <1>1 DEF IInv, Helpers, Processes, Online
  <2> QED BY <1>1, <2>1, ProcIs DEF Registers
<1>5. Types'
  BY <1>1, <1>2, <1>3, <1>4, ProcIs DEF Types, ProcType, UpgradeType, HelperType, FaultsGrow
<1>6. Processes' /\ Helpers' /\ Placed'
  BY <1>1, <1>2, <1>3, <1>4 DEF IInv, Processes, Helpers, Placed, Online
<1> QED BY <1>3, <1>5, <1>6 DEF IInv

LEMMA ReconnectsIInv == IInv /\ Reconnects => IInv'
<1> SUFFICES ASSUME IInv, Reconnects PROVE IInv'
  OBVIOUS
<1>1. Types /\ proc.pc = "registered" /\ AfterRegistration
      /\ UNCHANGED <<restarter, behaves, base, bin, handoff, pending, proc, upgrade, helper>>
  BY DEF IInv, Reconnects, Online
<1>2. /\ Counted' /\ Silenced' /\ PointerIsTrue' /\ RejectedIsDeserved' /\ FaultsGrow
      /\ pointer' \in Pointers \cup {None} /\ (pointer' = None <=> pointer = None)
      /\ pointer # None => pointer'.version = pointer.version
      /\ execs' \in Nat /\ told' \in Nat /\ proven' \in BOOLEAN
  BY <1>1, RegistrationKeeps
<1>3. Types'
  BY <1>1, <1>2, ProcIs DEF Types, ProcType, UpgradeType, HelperType, FaultsGrow
<1>4. Processes' /\ Helpers' /\ Placed'
  BY <1>1, <1>2 DEF IInv, Processes, Helpers, Placed, Online, FaultsGrow
<1> QED BY <1>2, <1>3, <1>4 DEF IInv

-----------------------------------------------------------------------------
(* An upgrade.                                                                 *)
LEMMA UpgradeIs ==
    ASSUME IInv, upgrade.pc # "idle"
    PROVE  /\ upgrade.ver \in Versions /\ upgrade.ver \in Nat /\ proc.pc = "registered"
           /\ helper.pc = "await" => upgrade.pc # "leaving"
BY OverlayAssumption DEF IInv, Processes, Helpers, Online

LEMMA UpgradeBeginsIInv ==
    ASSUME IInv, NEW v \in Versions, UpgradeBegins(v)
    PROVE  IInv'
<1>1. Types /\ FaultsGrow /\ v \in Nat
  BY NoFault, OverlayAssumption DEF IInv, UpgradeBegins
<1>2. UNCHANGED <<restarter, behaves, base, bin, pointer, handoff, pending, proc, helper,
                  history, faults>>
  BY DEF UpgradeBegins, files
<1>3. /\ upgrade' \in [pc : {"place"}, ver : Nat, previous : Nat \cup {None}]
      /\ upgrade'.ver = v /\ upgrade'.pc = "place" /\ Online
  BY <1>1, PointerIs DEF UpgradeBegins, UpgradeAt
<1>4. Types'
  BY <1>1, <1>2, <1>3, ProcIs DEF Types, ProcType, UpgradeType, HelperType, history
<1>5. Processes' /\ Helpers' /\ Placed'
  BY <1>2, <1>3 DEF IInv, Processes, Helpers, Placed, Online
<1>6. pointer # None /\ pointer.version > base /\ faults'["damage"] = 0
         => pointer.version \in bin'
  BY <1>2 DEF IInv, PointerIsTrue
<1> QED BY <1>1, <1>2, <1>4, <1>5, <1>6, AsideIInv

(* The upgrade goes on to another step, or is given up.                        *)
LEMMA StepIs ==
    ASSUME Types, NEW pc \in {"point", "prune", "handover", "leaving"}
    PROVE  /\ Step(pc) => /\ upgrade' \in [pc : {pc}, ver : Nat, previous : Nat \cup {None}]
                          /\ upgrade'.pc = pc /\ upgrade'.ver = upgrade.ver
           /\ Fails => /\ upgrade' \in [pc : {"idle"}, ver : Nat, previous : Nat \cup {None}]
                       /\ upgrade'.pc = "idle"
BY ProcIs DEF Step, Fails, NoUpgrade

LEMMA PlacesBinaryIInv == IInv /\ PlacesBinary => IInv'
<1> SUFFICES ASSUME IInv, PlacesBinary PROVE IInv'
  OBVIOUS
<1>1. Types /\ FaultsGrow /\ upgrade.pc = "place" /\ upgrade.ver \in Versions /\ Online
  BY NoFault, FaultIsCounted, KindsAre, UpgradeIs DEF IInv, PlacesBinary, UpgradeAt
<1>2. UNCHANGED <<restarter, behaves, base, pointer, handoff, pending, proc, helper, history>>
  BY DEF PlacesBinary
<1>3. /\ upgrade' \in [pc : {"idle", "point"}, ver : Nat, previous : Nat \cup {None}]
      /\ upgrade'.pc = "idle" \/ (/\ upgrade'.pc = "point" /\ upgrade'.ver = upgrade.ver
                                  /\ upgrade.ver \in bin')
      /\ bin \subseteq bin'
  BY <1>1, StepIs DEF PlacesBinary
<1>4. Types'
  BY <1>1, <1>2, <1>3, ProcIs DEF Types, ProcType, UpgradeType, HelperType, history, FaultsGrow
<1>5. Processes' /\ Helpers' /\ Placed'
  BY <1>1, <1>2, <1>3 DEF IInv, Processes, Helpers, Placed, Online
<1>6. pointer # None /\ pointer.version > base /\ faults'["damage"] = 0
         => pointer.version \in bin'
  BY <1>1, <1>3 DEF IInv, PointerIsTrue, FaultsGrow
<1> QED BY <1>1, <1>2, <1>4, <1>5, <1>6, AsideIInv

LEMMA WritesPointerIInv == IInv /\ WritesPointer => IInv'
<1> SUFFICES ASSUME IInv, WritesPointer PROVE IInv'
  OBVIOUS
<1>1. /\ Types /\ FaultsGrow /\ upgrade.pc = "point" /\ proc.pc = "registered"
      /\ upgrade.ver \in Versions /\ MAX_ATTEMPTS \in Nat
  BY NoFault, FaultIsCounted, KindsAre, UpgradeIs, OverlayAssumption DEF IInv, WritesPointer, UpgradeAt
<1>2. UNCHANGED <<restarter, behaves, base, bin, handoff, pending, proc, helper>>
  BY DEF WritesPointer
<1>3. CASE UNCHANGED <<pointer, history>> /\ Fails
  <2>1. /\ upgrade' \in [pc : {"idle"}, ver : Nat, previous : Nat \cup {None}]
        /\ upgrade'.pc = "idle"
    BY <1>1, <1>3, StepIs
  <2>2. Types'
    BY <1>1, <1>2, <1>3, <2>1, ProcIs DEF Types, ProcType, UpgradeType, HelperType, history, FaultsGrow
  <2>3. Processes' /\ Helpers' /\ Placed'
    BY <1>1, <1>2, <1>3, <2>1 DEF IInv, Processes, Helpers, Placed, Online
  <2>4. pointer # None /\ pointer.version > base /\ faults'["damage"] = 0
           => pointer.version \in bin'
    BY <1>1, <1>2 DEF IInv, PointerIsTrue, FaultsGrow
  <2> QED BY <1>1, <1>2, <1>3, <2>2, <2>3, <2>4, AsideIInv
<1>4. CASE /\ pointer' = Fresh(upgrade.ver) /\ UNCHANGED faults
           /\ execs' = 0 /\ proven' = FALSE /\ told' = 0 /\ Step("prune")
  <2>1. /\ pointer' \in [version : Versions, healthy : BOOLEAN, attempts : Int,
                         rejected : BOOLEAN, rejected_reported : BOOLEAN]
        /\ pointer'.version = upgrade.ver /\ pointer'.attempts = 0 /\ ~pointer'.healthy
        /\ ~pointer'.rejected /\ ~pointer'.rejected_reported
    BY <1>1, <1>4, FreshIs
  <2>2. pointer' \in Pointers /\ pointer' # None
    BY <2>1, OverlayAssumption DEF Pointers
  <2>3. /\ upgrade' \in [pc : {"prune"}, ver : Nat, previous : Nat \cup {None}]
        /\ upgrade'.pc = "prune" /\ upgrade'.ver = upgrade.ver
    BY <1>1, <1>4, StepIs
  <2>4. Types'
    BY <1>1, <1>2, <1>4, <2>2, <2>3, ProcIs DEF Types, ProcType, UpgradeType, HelperType, FaultsGrow
  <2>5. Processes' /\ Helpers' /\ Placed'
    BY <1>1, <1>2, <2>1, <2>2, <2>3 DEF IInv, Processes, Helpers, Placed, Online
  <2>6. Counted'
    <3>1. FaultCount' \in Nat /\ execs' = 0
      BY <1>1, <1>4 DEF FaultsGrow
    <3>2. \A f \in Nat : 0 <= 0 + f + 0 /\ 0 <= 0 + f + 1 /\ 0 <= f + 0 /\ 0 <= f + 1
      OBVIOUS
    <3> QED BY <2>1, <3>1, <3>2 DEF Counted
  <2>7. Silenced'
    BY <1>1, <1>4, <2>1, <2>2 DEF Silenced, FaultsGrow
  <2>8. PointerIsTrue'
    BY <1>1, <1>2, <1>4, <2>1 DEF IInv, Placed, PointerIsTrue
  <2>9. RejectedIsDeserved'
    <3>1. 0 <= 1 + faults'["io"] /\ ~(0 > 0)
      BY <1>1 DEF FaultsGrow
    <3> QED BY <1>4, <2>1, <3>1 DEF RejectedIsDeserved
  <2> QED BY <2>4, <2>5, <2>6, <2>7, <2>8, <2>9 DEF IInv
<1> QED BY <1>3, <1>4 DEF WritesPointer

LEMMA PrunesIInv == IInv /\ Prunes => IInv'
<1> SUFFICES ASSUME IInv, Prunes PROVE IInv'
  OBVIOUS
<1>1. Types /\ FaultsGrow /\ upgrade.pc = "prune" /\ upgrade.ver \in Versions /\ Online
  BY NoFault, UpgradeIs DEF IInv, Prunes, UpgradeAt
<1>2. UNCHANGED <<restarter, behaves, base, pointer, handoff, pending, proc, helper,
                  history, faults>>
  BY DEF Prunes
<1>3. /\ upgrade' \in [pc : {"handover"}, ver : Nat, previous : Nat \cup {None}]
      /\ upgrade'.pc = "handover" /\ upgrade'.ver = upgrade.ver
  BY <1>1, StepIs DEF Prunes
<1>4. Types'
  BY <1>1, <1>2, <1>3, ProcIs DEF Types, ProcType, UpgradeType, HelperType, history, FaultsGrow
<1>5. Processes' /\ Helpers' /\ Placed'
  BY <1>1, <1>2, <1>3 DEF IInv, Processes, Helpers, Placed, Online
<1>6. pointer # None /\ pointer.version > base /\ faults'["damage"] = 0
         => pointer.version \in bin'
  <2>1. pointer # None => pointer.version = upgrade.ver
    BY <1>1 DEF IInv, Placed
  <2> QED BY <1>2, <2>1 DEF IInv, PointerIsTrue, Prunes, Kept
<1> QED BY <1>1, <1>2, <1>4, <1>5, <1>6, AsideIInv

LEMMA HandsOverIInv == IInv /\ HandsOver => IInv'
<1> SUFFICES ASSUME IInv, HandsOver PROVE IInv'
  OBVIOUS
<1>1. /\ Types /\ FaultsGrow /\ upgrade.pc = "handover" /\ upgrade.ver \in Versions
      /\ upgrade.ver \in Nat /\ proc.pc = "registered" /\ helper.pc = "none"
  BY NoFault, FaultIsCounted, KindsAre, UpgradeIs DEF IInv, HandsOver, UpgradeAt
<1>2. UNCHANGED <<restarter, behaves, base, bin, pointer, proc, history>>
  BY DEF HandsOver
<1>3. upgrade.ver # None
  BY <1>1, OverlayAssumption
<1>4. /\ upgrade' \in [pc : {"idle", "leaving"}, ver : Nat, previous : Nat \cup {None}]
      /\ upgrade'.pc = "leaving" => upgrade'.ver = upgrade.ver
  BY <1>1, StepIs DEF HandsOver
<1>5. /\ helper' \in [pc : {"none", "wait_exit"}, from : BOOLEAN, marker : BOOLEAN]
      /\ helper'.pc = "wait_exit" => /\ handoff' # None /\ ~helper'.marker
                                     /\ restarter # "systemd"
      /\ pending' \in BOOLEAN
  <2>1. CASE UNCHANGED helper
    BY <1>1, <2>1, ProcIs DEF HandsOver, Types
  <2>2. CASE helper' # helper
    <3>1. /\ helper' = [pc |-> "wait_exit", marker |-> FALSE,
                        from |-> restarter = "direct" /\ proc.from]
          /\ handoff' = upgrade.ver /\ restarter # "systemd" /\ pending' = pending
      BY <2>2 DEF HandsOver
    <3>2. (restarter = "direct" /\ proc.from) \in BOOLEAN
      OBVIOUS
    <3> QED BY <1>1, <1>3, <3>1, <3>2 DEF Types
  <2> QED BY <2>1, <2>2
<1>6. Types'
  BY <1>1, <1>2, <1>4, <1>5, ProcIs DEF Types, ProcType, UpgradeType, HelperType, history, FaultsGrow
<1>7. Processes' /\ Helpers' /\ Placed'
  BY <1>1, <1>2, <1>4, <1>5 DEF IInv, Processes, Helpers, Placed, Online
<1>8. pointer # None /\ pointer.version > base /\ faults'["damage"] = 0
         => pointer.version \in bin'
  BY <1>1, <1>2 DEF IInv, PointerIsTrue, FaultsGrow
<1> QED BY <1>1, <1>2, <1>6, <1>7, <1>8, AsideIInv

-----------------------------------------------------------------------------
(* The surroundings.                                                           *)
LEMMA FileDamagedIInv ==
    ASSUME IInv, NEW v \in Versions, FileDamaged(v)
    PROVE  IInv'
<1>1. Types /\ FaultsGrow /\ faults'["damage"] > 0 /\ faults'["damage"] \in Nat
  BY FaultIsCounted, KindsAre DEF IInv, FileDamaged, FaultsGrow
<1>2. UNCHANGED <<restarter, behaves, base, pointer, handoff, pending, proc, upgrade, helper,
                  history>>
  BY DEF FileDamaged
<1>3. Types'
  BY <1>1, <1>2, ProcIs DEF Types, ProcType, UpgradeType, HelperType, history, FaultsGrow
<1>4. Processes' /\ Helpers' /\ Placed'
  BY <1>1, <1>2 DEF IInv, Processes, Helpers, Placed, Online
<1> QED BY <1>1, <1>2, <1>3, <1>4, AsideIInv

LEMMA BaseReplacedIInv == IInv /\ BaseReplaced => IInv'
<1> SUFFICES ASSUME IInv, BaseReplaced PROVE IInv'
  OBVIOUS
<1>1. Types /\ FaultsGrow /\ base \in Nat /\ base' \in Nat /\ base' > base
      /\ proven' \in BOOLEAN
  BY NoFault, OverlayAssumption DEF IInv, BaseReplaced, Types, history
<1>2. UNCHANGED <<restarter, behaves, bin, pointer, handoff, pending, proc, upgrade, helper,
                  execs, proven, told, faults>>
  BY DEF BaseReplaced, files, history
<1>3. Types'
  BY <1>1, <1>2 DEF Types, ProcType, UpgradeType, HelperType
<1>4. Processes' /\ Helpers' /\ Placed'
  BY <1>1, <1>2, ProcIs DEF IInv, Processes, Helpers, Placed, Online
<1>5. (Flying => Flying') /\ (IsPointed' <=> IsPointed)
  BY <1>2 DEF Flying, IsPointed
<1>6. pointer # None /\ pointer.rejected => ~IsPointed' /\ proc'.pc # "exec"
  BY <1>2, <1>5 DEF IInv, Silenced
<1>7. pointer # None /\ pointer.version > base' /\ faults'["damage"] = 0
         => pointer.version \in bin'
  BY <1>1, <1>2, PointerIs DEF IInv, PointerIsTrue
<1> QED BY <1>1, <1>2, <1>3, <1>4, <1>5, <1>6, <1>7, PointerKept DEF IInv

LEMMA StutterIInv == IInv /\ UNCHANGED vars => IInv'
<1> SUFFICES ASSUME IInv, UNCHANGED vars PROVE IInv'
  OBVIOUS
<1>1. Types /\ FaultsGrow
  BY NoFault DEF IInv, vars
<1>2. UNCHANGED <<restarter, behaves, base, bin, pointer, handoff, pending, proc, upgrade,
                  helper, history, faults>>
  BY DEF vars, files
<1>3. Types'
  BY <1>1, <1>2 DEF Types, ProcType, UpgradeType, HelperType, history
<1>4. Processes' /\ Helpers' /\ Placed'
  BY <1>2 DEF IInv, Processes, Helpers, Placed, Online
<1>5. pointer # None /\ pointer.version > base /\ faults'["damage"] = 0
         => pointer.version \in bin'
  BY <1>2 DEF IInv, PointerIsTrue
<1> QED BY <1>1, <1>2, <1>3, <1>4, <1>5, AsideIInv

-----------------------------------------------------------------------------
(* The account is kept by every step (OverlayHandoff: decide, install,         *)
(* after_registration, overlay_restart and what may happen to the machine).    *)
THEOREM AccountIsKept == Spec => []IInv
<1>1. IInv /\ [Next]_vars => IInv'
  <2> SUFFICES ASSUME IInv, [Next]_vars PROVE IInv'
    OBVIOUS
  <2>1. CASE Start
    BY <2>1, StaysOnBaseIInv, RecordsAttemptIInv, ExecsIInv, ExecFailsIInv,
       TakesIdentityIInv, CrashesIInv, RegistersIInv DEF Start
  <2>2. CASE Reconnects
    BY <2>2, ReconnectsIInv
  <2>3. CASE Upgrade
    BY <2>3, UpgradeBeginsIInv, PlacesBinaryIInv, WritesPointerIInv, PrunesIInv,
       HandsOverIInv, ExitsIInv DEF Upgrade
  <2>4. CASE SystemdStarts \/ OperatorStarts \/ HelperStartsBase \/ HelperSeesMarker
             \/ HelperGivesUp
    BY <2>4, OthersStartIInv, HelperStartsBaseIInv, HelperSeesMarkerIInv, HelperGivesUpIInv
  <2>5. CASE PowerFails \/ (\E v \in Versions : FileDamaged(v)) \/ BaseReplaced
    BY <2>5, PowerFailsIInv, FileDamagedIInv, BaseReplacedIInv
  <2>6. CASE UNCHANGED vars
    BY <2>6, StutterIInv
  <2> QED BY <2>1, <2>2, <2>3, <2>4, <2>5, <2>6 DEF Next
<1> QED BY InitIInv, <1>1, PTL DEF Spec

(* The pointer calls only a version healthy that has registered, and names a   *)
(* file that is there unless somebody damaged one (install, prune_versions,    *)
(* after_registration).                                                        *)
THEOREM PointerStaysTrue == Spec => []PointerIsTrue
<1>1. IInv => PointerIsTrue
  BY DEF IInv
<1> QED BY AccountIsKept, <1>1, PTL

(* A version is given up after MAX_ATTEMPTS starts or faults, one that works   *)
(* only for as many faults; the relay hears of no other, and once (decide,     *)
(* after_registration).                                                        *)
THEOREM RejectionIsDeserved == Spec => []RejectedIsDeserved
<1>1. IInv => RejectedIsDeserved
  BY DEF IInv
<1> QED BY AccountIsKept, <1>1, PTL

-----------------------------------------------------------------------------
(***************************************************************************)
(* Proofs about UpgradeStatus, for any number of requests and losses.      *)
(*                                                                         *)
(* What makes the relay's conclusions true is not in the relay: it takes   *)
(* every frame at its word.  The argument is therefore about the frames    *)
(* that can be on their way: one that says "registered" was sent by a      *)
(* process that came up as the new version of that round, and only such a  *)
(* frame names its round, so only a conclusion can displace a conclusion   *)
(* by naming another one.                                                  *)
(***************************************************************************)

-----------------------------------------------------------------------------
(* The inductive invariant                                                 *)

\* What can be on its way to the relay.
TrueFrame(f) ==
    /\ f.stage = "registered" => f.of \in succeeded
    /\ f.upgrade_id # Nothing => Final(f.stage)

TrueFrames == {f \in Frames : TrueFrame(f)}

\* What a process that was started to complete a round has to say.
Confirmations == {Frame("registered", r, r) : r \in Request}

Tasks == [pc : {"none", "checking", "downloading", "verifying", "swapping", "over"},
          attached : BOOLEAN, tick : BOOLEAN]

Agents == [pc : {"up", "gone", "register", "failed"}, version : {"older", "target"},
           busy : BOOLEAN, report : Confirmations \cup {Nothing}]

StatusTypes ==
    /\ status \in Entry \cup {Nothing}
    /\ request \in [Request -> {"idle", "deliver", "insert", "over"}]
    /\ downlink \in {"none", "live", "dead"}
    /\ inbox \in Seq(Request)
    /\ agent \in Agents
    /\ task \in [Request -> Tasks]
    /\ swapped \in Request \cup {Nothing}
    /\ losses \in 0..MaxLosses

\* The session's own upgrades.
Attached(r) == Running(r) /\ task[r].attached

\* The flag is the session's: it is down while there is none.
Flag ==
    /\ agent.busy <=> \E r \in Request : Attached(r)
    /\ \A r, x \in Request : Attached(r) /\ Attached(x) => r = x
    /\ agent.busy => agent.pc = "up"

Truth ==
    /\ uplink \in Seq(TrueFrames)
    /\ RegisteredIsTrue

StatusIInv == StatusTypes /\ Flag /\ Truth

-----------------------------------------------------------------------------
(* Lemmas about the model's operators                                      *)

\* What perform_upgrade sends before its end is true whatever has happened.
LEMMA ProgressIsTrue ==
    ASSUME NEW r \in Request, NEW stage \in Stages \ {"registered"}
    PROVE  Progress(stage, r) \in TrueFrames
BY DEF Progress, Frame, TrueFrames, TrueFrame, Frames

\* Frames stay true: rounds are only ever added to those that succeeded.
LEMMA TruthGrows ==
    ASSUME NEW q \in Seq(TrueFrames), succeeded \subseteq succeeded'
    PROVE  q \in Seq(TrueFrames')
<1>1. TrueFrames \subseteq TrueFrames'
  BY DEF TrueFrames, TrueFrame
<1> QED BY <1>1, SeqMonotonic

\* What survives of the uplink when a connection ends.
LEMMA PostedIsTrue ==
    ASSUME uplink \in Seq(TrueFrames), NEW q \in Posted
    PROVE  q \in Seq(TrueFrames)
<1>1. CASE q = <<>>
  BY <1>1, EmptySeq
<1>2. CASE uplink # <<>> /\ q = <<Head(uplink)>>
  <2>1. Head(uplink) \in TrueFrames
    BY <1>2, HeadTailProperties
  <2> QED BY <1>2, <2>1
<1> QED BY <1>1, <1>2 DEF Posted

\* A report is sent by an attached task or not at all.
LEMMA ReportIsTrue ==
    ASSUME NEW r \in Request, NEW stage \in Stages \ {"registered"},
           Report(r, stage), uplink \in Seq(TrueFrames)
    PROVE  uplink' \in Seq(TrueFrames)
BY ProgressIsTrue, AppendProperties DEF Report, Send

\* The fields of an agent; a task that is none.
LEMMA AgentIs ==
    ASSUME NEW a \in Agents
    PROVE  /\ a.pc \in {"up", "gone", "register", "failed"}
           /\ a.version \in {"older", "target"} /\ a.busy \in BOOLEAN
           /\ a.report \in Confirmations \cup {Nothing}
           /\ \A b \in BOOLEAN : [a EXCEPT !.busy = b] \in Agents
BY DEF Agents

LEMMA NoTaskIs == NoTask \in Tasks /\ [NoTask EXCEPT !.pc = "over"] \in Tasks
BY DEF Tasks, NoTask

\* A step that moves neither the flag nor who is attached.
LEMMA FlagKept ==
    ASSUME Flag, agent' = agent, \A r \in Request : Attached(r)' <=> Attached(r)
    PROVE  Flag'
BY DEF Flag

\* Nobody attached, nobody busy.
LEMMA FlagDown ==
    ASSUME ~agent'.busy, \A r \in Request : ~Attached(r)'
    PROVE  Flag'
BY DEF Flag

-----------------------------------------------------------------------------
(* The first state, and the steps                                          *)

LEMMA InitStatusIInv == StatusInit => StatusIInv
<1> SUFFICES ASSUME StatusInit PROVE StatusIInv
  OBVIOUS
<1>1. StatusTypes
  <2>1. agent \in Agents
    BY DEF StatusInit, Agents
  <2>2. inbox \in Seq(Request)
    BY EmptySeq DEF StatusInit
  <2>3. task \in [Request -> Tasks]
    BY NoTaskIs DEF StatusInit
  <2> QED BY <2>1, <2>2, <2>3, StatusAssumption DEF StatusInit, StatusTypes
<1>2. Flag
  BY DEF StatusInit, Flag, Attached, Running, NoTask
<1>3. Truth
  BY EmptySeq DEF StatusInit, Truth, RegisteredIsTrue
<1> QED BY <1>1, <1>2, <1>3 DEF StatusIInv

\* The administrator and its handlers: no frame moves, and what a handler
\* writes is "started".
LEMMA AskIInv ==
    ASSUME StatusIInv, NEW r \in Request, AskOne(r) \/ AskFleet(r)
    PROVE  StatusIInv'
<1>1. StatusTypes'
  BY DEF StatusIInv, StatusTypes, AskOne, AskFleet, SetRequest
<1>2. Flag'
  BY FlagKept DEF StatusIInv, AskOne, AskFleet, Attached, Running
<1>3. Truth'
  BY DEF StatusIInv, Truth, RegisteredIsTrue, AskOne, AskFleet, TrueFrames, TrueFrame
<1> QED BY <1>1, <1>2, <1>3 DEF StatusIInv

LEMMA DeliverIInv ==
    ASSUME StatusIInv, NEW r \in Request, Deliver(r)
    PROVE  StatusIInv'
<1>1. StatusTypes'
  <2>1. inbox' \in Seq(Request)
    BY AppendProperties DEF StatusIInv, StatusTypes, Deliver
  <2> QED BY <2>1 DEF StatusIInv, StatusTypes, Deliver, SetRequest
<1>2. Flag'
  BY FlagKept DEF StatusIInv, Deliver, Attached, Running
<1>3. Truth'
  BY DEF StatusIInv, Truth, RegisteredIsTrue, Deliver, TrueFrames, TrueFrame
<1> QED BY <1>1, <1>2, <1>3 DEF StatusIInv

LEMMA InsertStartedIInv ==
    ASSUME StatusIInv, NEW r \in Request, InsertStarted(r)
    PROVE  StatusIInv'
<1>1. StatusTypes'
  <2>1. status' \in Entry
    BY DEF InsertStarted, Entry, Stages
  <2> QED BY <2>1 DEF StatusIInv, StatusTypes, InsertStarted, SetRequest
<1>2. Flag'
  BY FlagKept DEF StatusIInv, InsertStarted, Attached, Running
<1>3. Truth'
  BY DEF StatusIInv, Truth, RegisteredIsTrue, InsertStarted, TrueFrames, TrueFrame
<1> QED BY <1>1, <1>2, <1>3 DEF StatusIInv

\* The agent lets one upgrade in: until then none is attached.
LEMMA StartUpgradeIInv ==
    ASSUME StatusIInv, NEW r \in Request, StartUpgrade(r)
    PROVE  StatusIInv'
<1> DEFINE t == [pc |-> "checking", attached |-> TRUE, tick |-> FALSE]
<1>1. inbox' \in Seq(Request)
  BY HeadTailProperties DEF StatusIInv, StatusTypes, StartUpgrade
<1>2. CASE agent.busy
  <2>1. StatusTypes'
    BY <1>1, <1>2 DEF StatusIInv, StatusTypes, StartUpgrade
  <2>2. Flag'
    BY <1>2, FlagKept DEF StatusIInv, StartUpgrade, Attached, Running
  <2>3. Truth'
    BY <1>2 DEF StatusIInv, Truth, RegisteredIsTrue, StartUpgrade, TrueFrames, TrueFrame
  <2> QED BY <2>1, <2>2, <2>3 DEF StatusIInv
<1>3. CASE ~agent.busy
  <2>1. agent' = [agent EXCEPT !.busy = TRUE] /\ agent' \in Agents
    BY <1>3, AgentIs DEF StatusIInv, StatusTypes, StartUpgrade
  <2>2. task' = [task EXCEPT ![r] = t] /\ task' \in [Request -> Tasks]
    <3>1. t \in Tasks
      BY DEF Tasks
    <3> QED BY <1>3, <3>1 DEF StatusIInv, StatusTypes, StartUpgrade
  <2>3. StatusTypes'
    BY <1>1, <1>3, <2>1, <2>2 DEF StatusIInv, StatusTypes, StartUpgrade
  <2>4. Flag'
    <3>1. \A x \in Request : Attached(x)' <=> x = r
      BY <1>3, <2>2 DEF StatusIInv, StatusTypes, Flag, Attached, Running
    <3>2. agent'.busy /\ agent'.pc = "up"
      BY <2>1 DEF StatusIInv, StatusTypes, Agents, StartUpgrade
    <3> QED BY <3>1, <3>2 DEF Flag
  <2>5. Truth'
    <3>1. uplink' \in Seq(TrueFrames)
      BY <1>3, ProgressIsTrue, AppendProperties
         DEF StatusIInv, Truth, StartUpgrade, Send, Stages
    <3> QED BY <3>1 DEF StatusIInv, Truth, RegisteredIsTrue, StartUpgrade, TrueFrames,
               TrueFrame
  <2> QED BY <2>3, <2>4, <2>5 DEF StatusIInv
<1> QED BY <1>2, <1>3

\* A task's own steps: it stays as attached as it was, and a frame of it is
\* progress.
LEMMA StartDownloadIInv ==
    ASSUME StatusIInv, NEW r \in Request, StartDownload(r)
    PROVE  StatusIInv'
<1>1. StatusTypes'
  <2>1. task' \in [Request -> Tasks]
    <3>1. \A x \in Request : task'[x] \in Tasks
      BY DEF StatusIInv, StatusTypes, StartDownload, Tasks
    <3>2. task' = [x \in Request |-> task'[x]]
      BY DEF StatusIInv, StatusTypes, StartDownload
    <3> QED BY <3>1, <3>2
  <2> QED BY <2>1 DEF StatusIInv, StatusTypes, StartDownload
<1>2. Flag'
  <2>1. \A x \in Request : Attached(x)' <=> Attached(x)
    BY DEF StatusIInv, StatusTypes, StartDownload, Attached, Running, Tasks
  <2> QED BY <2>1, FlagKept DEF StatusIInv, StartDownload
<1>3. Truth'
  BY DEF StatusIInv, Truth, RegisteredIsTrue, StartDownload, TrueFrames, TrueFrame
<1> QED BY <1>1, <1>2, <1>3 DEF StatusIInv

LEMMA DownloadTickIInv ==
    ASSUME StatusIInv, NEW r \in Request, DownloadTick(r)
    PROVE  StatusIInv'
<1>1. StatusTypes'
  <2>1. task' \in [Request -> Tasks]
    BY DEF StatusIInv, StatusTypes, DownloadTick, Tasks
  <2> QED BY <2>1 DEF StatusIInv, StatusTypes, DownloadTick
<1>2. Flag'
  <2>1. \A x \in Request : Attached(x)' <=> Attached(x)
    BY DEF StatusIInv, StatusTypes, DownloadTick, Attached, Running, Tasks
  <2> QED BY <2>1, FlagKept DEF StatusIInv, DownloadTick
<1>3. Truth'
  <2>1. uplink' \in Seq(TrueFrames)
    BY ReportIsTrue DEF StatusIInv, Truth, DownloadTick, Stages
  <2> QED BY <2>1 DEF StatusIInv, Truth, RegisteredIsTrue, DownloadTick, TrueFrames,
             TrueFrame
<1> QED BY <1>1, <1>2, <1>3 DEF StatusIInv

LEMMA NextStageIInv ==
    ASSUME StatusIInv, NEW r \in Request, NextStage(r)
    PROVE  StatusIInv'
<1>1. PICK stage \in {"verifying", "swapping"} :
         /\ task[r].pc \in {"downloading", "verifying"}
         /\ Report(r, stage) /\ task' = [task EXCEPT ![r].pc = stage]
  BY DEF NextStage
<1>2. StatusTypes'
  <2>1. task' \in [Request -> Tasks]
    BY <1>1 DEF StatusIInv, StatusTypes, Tasks
  <2> QED BY <2>1 DEF StatusIInv, StatusTypes, NextStage
<1>3. Flag'
  <2>1. \A x \in Request : Attached(x)' <=> Attached(x)
    BY <1>1 DEF StatusIInv, StatusTypes, Attached, Running, Tasks
  <2> QED BY <2>1, FlagKept DEF StatusIInv, NextStage
<1>4. Truth'
  <2>1. uplink' \in Seq(TrueFrames)
    BY <1>1, ReportIsTrue DEF StatusIInv, Truth, Stages
  <2> QED BY <2>1 DEF StatusIInv, Truth, RegisteredIsTrue, NextStage, TrueFrames,
             TrueFrame
<1> QED BY <1>2, <1>3, <1>4 DEF StatusIInv

\* A task that fails takes the flag down if the session is its own: it was the
\* one that held it.
LEMMA TaskFailsIInv ==
    ASSUME StatusIInv, NEW r \in Request, TaskFails(r)
    PROVE  StatusIInv'
<1>1. task' = [task EXCEPT ![r].pc = "over"] /\ task' \in [Request -> Tasks]
  BY DEF StatusIInv, StatusTypes, TaskFails, Tasks
<1>2. agent' \in Agents
  BY AgentIs DEF StatusIInv, StatusTypes, TaskFails
<1>3. StatusTypes'
  BY <1>1, <1>2 DEF StatusIInv, StatusTypes, TaskFails
<1>4. Flag'
  <2>1. \A x \in Request : Attached(x)' <=> Attached(x) /\ x # r
    BY <1>1 DEF StatusIInv, StatusTypes, Attached, Running, Tasks
  <2>2. CASE task[r].attached
    <3>1. Attached(r)
      BY <2>2 DEF TaskFails, Attached
    <3>2. ~agent'.busy
      BY <2>2 DEF TaskFails, StatusIInv, StatusTypes, Agents
    <3> QED BY <2>1, <3>1, <3>2, FlagDown DEF StatusIInv, Flag
  <2>3. CASE ~task[r].attached
    BY <2>1, <2>3, FlagKept DEF TaskFails, StatusIInv, Attached
  <2> QED BY <2>2, <2>3
<1>5. Truth'
  <2>1. uplink' \in Seq(TrueFrames)
    BY ReportIsTrue DEF StatusIInv, Truth, TaskFails, Stages
  <2> QED BY <2>1 DEF StatusIInv, Truth, RegisteredIsTrue, TaskFails, TrueFrames,
             TrueFrame
<1> QED BY <1>3, <1>4, <1>5 DEF StatusIInv

\* The process exits, or its connection is lost: no task is attached any more.
LEMMA ExitIInv ==
    ASSUME StatusIInv, NEW r \in Request, Exit(r)
    PROVE  StatusIInv'
<1>1. task' \in [Request -> Tasks] /\ \A x \in Request : ~Attached(x)'
  <2>1. \A x \in Request : task'[x] \in {NoTask, [NoTask EXCEPT !.pc = "over"]}
    BY DEF Exit
  <2>2. task' \in [Request -> Tasks]
    BY <2>1, NoTaskIs DEF Exit
  <2>3. \A x \in Request : ~task'[x].attached
    BY <2>1 DEF NoTask
  <2> QED BY <2>2, <2>3 DEF Attached
<1>2. agent' \in Agents /\ ~agent'.busy
  BY DEF StatusIInv, StatusTypes, Exit, Agents
<1>3. StatusTypes'
  BY <1>1, <1>2, EmptySeq DEF StatusIInv, StatusTypes, Exit
<1>4. Flag'
  BY <1>1, <1>2, FlagDown
<1>5. Truth'
  <2>1. uplink' \in Seq(TrueFrames)
    BY PostedIsTrue DEF StatusIInv, Truth, Exit
  <2> QED BY <2>1 DEF StatusIInv, Truth, RegisteredIsTrue, Exit, TrueFrames, TrueFrame
<1> QED BY <1>3, <1>4, <1>5 DEF StatusIInv

LEMMA LoseConnectionIInv ==
    ASSUME StatusIInv, LoseConnection
    PROVE  StatusIInv'
<1>1. task' \in [Request -> Tasks] /\ \A x \in Request : ~Attached(x)'
  <2>1. \A x \in Request :
           task'[x] = [task[x] EXCEPT !.attached = FALSE, !.tick = FALSE]
    BY DEF LoseConnection
  <2>2. \A x \in Request : task'[x] \in Tasks /\ ~task'[x].attached
    <3> SUFFICES ASSUME NEW x \in Request
                 PROVE  task'[x] \in Tasks /\ ~task'[x].attached
      OBVIOUS
    <3>1. task[x] \in Tasks BY DEF StatusIInv, StatusTypes
    <3>2. \A t \in Tasks : LET u == [t EXCEPT !.attached = FALSE, !.tick = FALSE]
                           IN  u \in Tasks /\ u.attached = FALSE
      BY ONLY DEF Tasks
    <3> QED BY ONLY <2>1, <3>1, <3>2, x \in Request
  <2> QED BY <2>2 DEF LoseConnection, Attached
<1>2. agent' \in Agents /\ ~agent'.busy
  BY DEF StatusIInv, StatusTypes, LoseConnection, Agents
<1>3. StatusTypes'
  <2>1. inbox' \in Seq(Request)
    BY EmptySeq DEF LoseConnection
  <2>2. losses' \in 0..MaxLosses
    <3>1. losses \in 0..MaxLosses /\ losses < MaxLosses /\ losses' = losses + 1
      BY DEF StatusIInv, StatusTypes, LoseConnection
    <3> QED BY <3>1, StatusAssumption
  <2> QED BY <1>1, <1>2, <2>1, <2>2 DEF StatusIInv, StatusTypes, LoseConnection
<1>4. Flag'
  BY <1>1, <1>2, FlagDown
<1>5. Truth'
  <2>1. uplink' \in Seq(TrueFrames)
    BY PostedIsTrue DEF StatusIInv, Truth, LoseConnection
  <2> QED BY <2>1 DEF StatusIInv, Truth, RegisteredIsTrue, LoseConnection, TrueFrames,
             TrueFrame
<1> QED BY <1>3, <1>4, <1>5 DEF StatusIInv

\* The next process starts with a report of the round the helper was at work
\* for, or with none.
LEMMA ReturnsIInv ==
    ASSUME StatusIInv, ReturnNext
    PROVE  StatusIInv'
<1>1. PICK version \in {"older", "target"}, report \in Confirmations \cup {Nothing} :
         Returns(version, report)
  <2>1. agent.version \in {"older", "target"}
    BY AgentIs DEF StatusIInv, StatusTypes
  <2>2. CASE NewReturns
    <3>1. Frame("registered", swapped, swapped) \in Confirmations
      BY <2>2 DEF NewReturns, Returns, StatusIInv, StatusTypes, Confirmations
    <3> QED BY <2>2, <3>1 DEF NewReturns
  <2>3. CASE NewReturnsSilent
    BY <2>3 DEF NewReturnsSilent
  <2>4. CASE OldReturns
    BY <2>1, <2>4 DEF OldReturns
  <2> QED BY <2>2, <2>3, <2>4 DEF ReturnNext
<1>2. agent' \in Agents /\ ~agent'.busy
  BY <1>1 DEF Returns, Agents
<1>3. StatusTypes'
  BY <1>1, <1>2 DEF Returns, StatusIInv, StatusTypes
<1>4. Flag'
  <2>1. \A x \in Request : ~Attached(x)
    BY <1>1 DEF Returns, StatusIInv, Flag
  <2>2. \A x \in Request : ~Attached(x)'
    BY <1>1, <2>1 DEF Returns, Attached, Running
  <2> QED BY <1>2, <2>2, FlagDown
<1>5. Truth'
  BY <1>1 DEF StatusIInv, Truth, RegisteredIsTrue, Returns, TrueFrames, TrueFrame
<1> QED BY <1>3, <1>4, <1>5 DEF StatusIInv

\* A process comes up: what it reports has succeeded by then.
LEMMA ComesUpIsTrue ==
    ASSUME StatusTypes, Truth, NEW a \in Agents, ComesUp(a)
    PROVE  uplink' \in Seq(TrueFrames') /\ succeeded \subseteq succeeded'
<1>1. CASE a.report = Nothing
  <2>1. succeeded' = succeeded /\ uplink' = uplink
    BY <1>1 DEF ComesUp
  <2> QED BY <2>1 DEF Truth, TrueFrames, TrueFrame
<1>2. CASE a.report # Nothing
  <2>1. PICK r \in Request : a.report = Frame("registered", r, r)
    BY <1>2, AgentIs DEF Confirmations
  <2>2. succeeded' = succeeded \cup {r}
    BY <1>2, <2>1 DEF ComesUp, Frame
  <2>3. a.report \in TrueFrames'
    BY <2>1, <2>2 DEF Frame, TrueFrames, TrueFrame, Frames, Stages, Final
  <2>4. uplink \in Seq(TrueFrames')
    BY <2>2, TruthGrows DEF Truth
  <2> QED BY <1>2, <2>2, <2>3, <2>4, AppendProperties DEF ComesUp
<1> QED BY <1>1, <1>2

LEMMA ComesUpFlag ==
    ASSUME StatusTypes, Flag, NEW a \in Agents, ComesUp(a), a = agent, UNCHANGED task,
           agent.pc # "up"
    PROVE  Flag' /\ agent' \in Agents
<1>1. agent' \in Agents /\ ~agent'.busy
  BY DEF ComesUp, Agents, Flag
<1>2. \A x \in Request : ~Attached(x)'
  BY DEF Flag, Attached, Running
<1> QED BY <1>1, <1>2, FlagDown

\* The registration, in its two halves.
LEMMA RegisterReadsIInv ==
    ASSUME StatusIInv, RegisterReads
    PROVE  StatusIInv'
<1>1. CASE Converged = Nothing
  <2>1. ComesUp(agent) /\ agent \in Agents /\ StatusTypes /\ Flag /\ Truth
    BY <1>1 DEF RegisterReads, StatusIInv, StatusTypes
  <2>2. Flag' /\ agent' \in Agents
    BY <2>1, ComesUpFlag DEF RegisterReads
  <2>3. uplink' \in Seq(TrueFrames') /\ succeeded \subseteq succeeded'
    BY <2>1, ComesUpIsTrue
  <2>4. StatusTypes'
    BY <2>1, <2>2 DEF StatusTypes, RegisterReads, ComesUp
  <2>5. Truth'
    BY <2>1, <2>3 DEF Truth, RegisteredIsTrue, RegisterReads
  <2> QED BY <2>2, <2>4, <2>5 DEF StatusIInv
<1>2. CASE Converged # Nothing
  <2>1. agent' = [agent EXCEPT !.pc = "failed"]
    BY <1>2 DEF RegisterReads, Converged
  <2>2. agent' \in Agents
    BY <2>1 DEF StatusIInv, StatusTypes, Agents
  <2>3. StatusTypes'
    BY <1>2, <2>2 DEF StatusIInv, StatusTypes, RegisterReads
  <2>4. Flag'
    <3>1. \A x \in Request : ~Attached(x)
      BY DEF StatusIInv, Flag, RegisterReads
    <3>2. \A x \in Request : ~Attached(x)'
      BY <3>1 DEF RegisterReads, Attached, Running
    <3>3. ~agent'.busy
      BY <2>1 DEF StatusIInv, StatusTypes, Agents, Flag, RegisterReads
    <3> QED BY <3>2, <3>3, FlagDown
  <2>5. Truth'
    BY <1>2 DEF StatusIInv, Truth, RegisteredIsTrue, RegisterReads, TrueFrames, TrueFrame
  <2> QED BY <2>3, <2>4, <2>5 DEF StatusIInv
<1> QED BY <1>1, <1>2

LEMMA RegisterConcludesIInv ==
    ASSUME StatusIInv, RegisterConcludes
    PROVE  StatusIInv'
<1>1. ComesUp(agent) /\ agent \in Agents /\ StatusTypes /\ Flag /\ Truth
  BY DEF RegisterConcludes, StatusIInv, StatusTypes
<1>2. agent.pc = "failed"
  BY <1>1 DEF RegisterConcludes, Agents
<1>3. Flag' /\ agent' \in Agents
  BY <1>1, <1>2, ComesUpFlag DEF RegisterConcludes
<1>4. uplink' \in Seq(TrueFrames') /\ succeeded \subseteq succeeded'
  BY <1>1, ComesUpIsTrue
<1>5. status' \in Entry \cup {Nothing}
  BY <1>1, <1>2 DEF RegisterConcludes, StatusTypes, Entry, Stages
<1>6. StatusTypes'
  BY <1>1, <1>3, <1>5 DEF StatusTypes, RegisterConcludes, ComesUp
<1>7. RegisteredIsTrue'
  BY <1>1, <1>2 DEF RegisteredIsTrue, RegisterConcludes, StatusTypes, Entry
<1> QED BY <1>3, <1>4, <1>6, <1>7 DEF StatusIInv, Truth

\* The relay takes a frame at its word, and the frame is true.
LEMMA AbsorbIInv ==
    ASSUME StatusIInv, Absorb
    PROVE  StatusIInv'
<1> DEFINE frame == Head(uplink)
<1>1. frame \in TrueFrames /\ uplink' \in Seq(TrueFrames)
  BY HeadTailProperties DEF StatusIInv, Truth, Absorb
<1>2. \/ status' = status
      \/ status' = [stage |-> frame.stage, upgrade_id |-> frame.upgrade_id,
                    at |-> "fresh", of |-> frame.of]
  BY DEF Absorb
<1>3. status' \in Entry \cup {Nothing}
  BY <1>1, <1>2 DEF StatusIInv, StatusTypes, Entry, TrueFrames, Frames
<1>4. StatusTypes'
  BY <1>3 DEF StatusIInv, StatusTypes, Absorb
<1>5. Flag'
  BY FlagKept DEF StatusIInv, Absorb, Attached, Running
<1>6. RegisteredIsTrue'
  <2>1. CASE status' = status
    BY <2>1 DEF StatusIInv, Truth, RegisteredIsTrue, Absorb
  <2>2. CASE status' # status
    <3>1. status'.stage = frame.stage /\ status'.of = frame.of
      BY <1>2, <2>2
    <3> HIDE DEF frame
    <3> QED BY <1>1, <3>1 DEF RegisteredIsTrue, Absorb, TrueFrames, TrueFrame
  <2> QED BY <2>1, <2>2
<1> QED BY <1>1, <1>4, <1>5, <1>6 DEF StatusIInv, Truth, Absorb, TrueFrames, TrueFrame

LEMMA TimePassesIInv ==
    ASSUME StatusIInv, TimePasses
    PROVE  StatusIInv'
<1>1. status' \in Entry /\ status'.stage = status.stage /\ status'.of = status.of
  BY DEF StatusIInv, StatusTypes, TimePasses, Entry
<1>2. StatusTypes'
  BY <1>1 DEF StatusIInv, StatusTypes, TimePasses
<1>3. Flag'
  BY FlagKept DEF StatusIInv, TimePasses, Attached, Running
<1>4. Truth'
  BY <1>1 DEF StatusIInv, Truth, RegisteredIsTrue, TimePasses, TrueFrames, TrueFrame
<1> QED BY <1>2, <1>3, <1>4 DEF StatusIInv

LEMMA SweepIInv ==
    ASSUME StatusIInv, Sweep
    PROVE  StatusIInv'
<1>1. \/ status' = Nothing
      \/ status' \in Entry /\ status'.stage = "failed"
  BY DEF StatusIInv, StatusTypes, Sweep, Entry, Stages
<1>2. StatusTypes'
  BY <1>1 DEF StatusIInv, StatusTypes, Sweep
<1>3. Flag'
  BY FlagKept DEF StatusIInv, Sweep, Attached, Running
<1>4. Truth'
  BY <1>1 DEF StatusIInv, Truth, RegisteredIsTrue, Sweep, TrueFrames, TrueFrame
<1> QED BY <1>2, <1>3, <1>4 DEF StatusIInv

LEMMA NoticeDeadIInv ==
    ASSUME StatusIInv, NoticeDead
    PROVE  StatusIInv'
<1>1. StatusTypes'
  BY DEF StatusIInv, StatusTypes, NoticeDead
<1>2. Flag'
  BY FlagKept DEF StatusIInv, NoticeDead, Attached, Running
<1>3. Truth'
  BY DEF StatusIInv, Truth, RegisteredIsTrue, NoticeDead, TrueFrames, TrueFrame
<1> QED BY <1>1, <1>2, <1>3 DEF StatusIInv

LEMMA StutterStatusIInv ==
    ASSUME StatusIInv, UNCHANGED statusVars
    PROVE  StatusIInv'
<1>1. StatusTypes'
  BY DEF StatusIInv, StatusTypes, statusVars
<1>2. Flag'
  BY FlagKept DEF StatusIInv, statusVars, Attached, Running
<1>3. Truth'
  BY DEF StatusIInv, Truth, RegisteredIsTrue, statusVars, TrueFrames, TrueFrame
<1> QED BY <1>1, <1>2, <1>3 DEF StatusIInv

\* Every step keeps the invariant.
LEMMA NextIInv == StatusIInv /\ [StatusNext]_statusVars => StatusIInv'
<1> SUFFICES ASSUME StatusIInv, [StatusNext]_statusVars PROVE StatusIInv'
  OBVIOUS
<1>1. CASE \E r \in Request : AskOne(r) \/ AskFleet(r)
  BY <1>1, AskIInv
<1>2. CASE HandlerNext
  BY <1>2, DeliverIInv, InsertStartedIInv DEF HandlerNext
<1>3. CASE AgentNext
  BY <1>3, StartUpgradeIInv, StartDownloadIInv, DownloadTickIInv, NextStageIInv,
     TaskFailsIInv, ExitIInv DEF AgentNext
<1>4. CASE ReturnNext
  BY <1>4, ReturnsIInv
<1>5. CASE RegisterNext
  BY <1>5, RegisterReadsIInv, RegisterConcludesIInv DEF RegisterNext
<1>6. CASE LoseConnection \/ NoticeDead \/ Absorb \/ TimePasses \/ Sweep
  BY <1>6, LoseConnectionIInv, NoticeDeadIInv, AbsorbIInv, TimePassesIInv, SweepIInv
<1>7. CASE UNCHANGED statusVars
  BY <1>7, StutterStatusIInv
<1> QED BY <1>1, <1>2, <1>3, <1>4, <1>5, <1>6, <1>7 DEF StatusNext

\* The invariant has the two the run checks as consequences.
LEMMA IInvImplies == StatusIInv => TypeOK /\ RegisteredIsTrue
<1> SUFFICES ASSUME StatusIInv PROVE TypeOK /\ RegisteredIsTrue
  OBVIOUS
<1>1. \A i \in 1..Len(inbox) : inbox[i] \in Request
  BY ElementOfSeq DEF StatusIInv, StatusTypes
<1>2. \A i \in 1..Len(uplink) : uplink[i] \in Frames
  <2>1. \A i \in 1..Len(uplink) : uplink[i] \in TrueFrames
    BY ElementOfSeq DEF StatusIInv, Truth
  <2> QED BY <2>1 DEF TrueFrames
<1>3. agent.version \in {"older", "target"}
  BY AgentIs DEF StatusIInv, StatusTypes
<1> QED BY <1>1, <1>2, <1>3 DEF StatusIInv, StatusTypes, Flag, Truth, TypeOK, Attached

\* A step from a conclusion leaves it, puts another conclusion or "started" in
\* its place, or takes it away when it is old.
LEMMA ConclusionKept ==
    ASSUME StatusIInv, [StatusNext]_statusVars, status # Nothing, Final(status.stage)
    PROVE  \/ status' = Nothing /\ status.at = "expired"
           \/ status' # Nothing /\ (Final(status'.stage) \/ status'.stage = "started")
<1>1. CASE status' = status
  BY <1>1
<1>2. CASE \E r \in Request : InsertStarted(r)
  <2>1. status' \in Entry /\ status'.stage = "started"
    BY <1>2 DEF InsertStarted, Entry, Stages
  <2> QED BY <2>1, StatusAssumption
<1>3. CASE RegisterConcludes
  <2>1. agent.pc = "failed"
    BY <1>3 DEF RegisterConcludes, StatusIInv, StatusTypes, Agents
  <2>2. status' \in Entry /\ status'.stage = "failed"
    BY <1>3, <2>1 DEF RegisterConcludes, StatusIInv, StatusTypes, Entry, Stages
  <2> QED BY <2>2, StatusAssumption DEF Final
<1>4. CASE Absorb
  <2> DEFINE frame == Head(uplink)
  <2>1. frame \in TrueFrames
    BY <1>4, HeadTailProperties DEF StatusIInv, Truth, Absorb
  <2>2. CASE ShouldReplace(frame)
    <3>1. status' \in Entry /\ status'.stage = frame.stage
      BY <1>4, <2>1, <2>2 DEF Absorb, TrueFrames, Frames, Entry
    <3>2. Final(frame.stage)
      BY <2>1, <2>2 DEF ShouldReplace, TrueFrames, TrueFrame
    <3> QED BY <3>1, <3>2, StatusAssumption
  <2>3. CASE ~ShouldReplace(frame)
    BY <1>4, <2>3 DEF Absorb
  <2> QED BY <2>2, <2>3
<1>5. CASE TimePasses
  <2>1. status' \in Entry /\ status'.stage = status.stage
    BY <1>5 DEF StatusIInv, StatusTypes, TimePasses, Entry
  <2> QED BY <2>1, StatusAssumption
<1>6. CASE Sweep
  BY <1>6 DEF Sweep
<1>7. status' = status \/ (\E r \in Request : InsertStarted(r))
      \/ RegisterConcludes \/ Absorb \/ TimePasses \/ Sweep
  <2>1. CASE \E r \in Request : AskOne(r) \/ AskFleet(r)
    BY <2>1 DEF AskOne, AskFleet
  <2>2. CASE HandlerNext
    BY <2>2 DEF HandlerNext, Deliver
  <2>3. CASE AgentNext
    BY <2>3 DEF AgentNext, StartUpgrade, StartDownload, DownloadTick, NextStage,
                TaskFails, Exit
  <2>4. CASE ReturnNext
    BY <2>4 DEF ReturnNext, NewReturns, NewReturnsSilent, OldReturns, Returns
  <2>5. CASE RegisterNext
    BY <2>5 DEF RegisterNext, RegisterReads
  <2>6. CASE LoseConnection \/ NoticeDead \/ UNCHANGED statusVars
    BY <2>6 DEF LoseConnection, NoticeDead, statusVars
  <2> QED BY <2>1, <2>2, <2>3, <2>4, <2>5, <2>6 DEF StatusNext
<1> QED BY <1>1, <1>2, <1>3, <1>4, <1>5, <1>6, <1>7

-----------------------------------------------------------------------------
(* The theorems                                                            *)

LEMMA Invariance == StatusSpec => []StatusIInv
BY InitStatusIInv, NextIInv, PTL DEF StatusSpec

\* upgrade_in_progress is set exactly while the session has an upgrade running,
\* and two never run in one session: a failed upgrade locks nobody out.
THEOREM FlagIsUpgrade == StatusSpec => []TypeOK
BY Invariance, IInvImplies, PTL

\* "registered" is said of a round only when its new version has registered.
THEOREM RegisteredStandsForNewVersion == StatusSpec => []RegisteredIsTrue
BY Invariance, IInvImplies, PTL

\* A conclusion is not taken back by a frame that comes late.
THEOREM ConclusionsStay == StatusSpec => ConclusionStays
<1>1. StatusIInv /\ [StatusNext]_statusVars =>
        [status # Nothing /\ Final(status.stage) =>
          \/ status' = Nothing /\ status.at = "expired"
          \/ status' # Nothing /\ (Final(status'.stage) \/ status'.stage = "started")
        ]_statusVars
  BY ConclusionKept
<1> QED BY <1>1, Invariance, PTL DEF StatusSpec, ConclusionStays
=============================================================================
