--------------------------- MODULE MCUpgradeFiles ---------------------------
(* What an upgrade does with files, for model checking: ArtifactDownload (a  *)
(* CDN and the relay, an artifact of two chunks) and UpgradeSwap (every       *)
(* probe, every kind of new version).  A behaviour is about one of them; in    *)
(* the scene NoDownload it is the swap.                                       *)
EXTENDS ArtifactDownload, UpgradeSwap

\* A process of its own, and whatever systemd may say of a service.
Unmanaged == [managed |-> FALSE, unit_known |-> TRUE, main_pid |-> "self",
              shares_cgroup |-> FALSE, exec_start |-> "same",
              restart_policy |-> None, lifecycle_authorized |-> FALSE]
Managed == [managed : {TRUE}, unit_known : BOOLEAN,
            main_pid : {"self", "other", None}, shares_cgroup : BOOLEAN,
            exec_start : {"same", "other", None},
            restart_policy : {"always", "on-failure", None},
            lifecycle_authorized : BOOLEAN]
AllProbes == Managed \cup {Unmanaged}

AllVersions == {"good", "hangs", "crashes", "dead"}

\* Two failures of any kind, or one lost connection.
AllWeathers == {[kinds |-> FaultKinds, left |-> 2],
                [kinds |-> {"network"}, left |-> 1]}

-----------------------------------------------------------------------------
CdnThenRelay == <<"cdn", "relay">>

Whole2 == <<1, 2>>
\* The artifact, other bytes of its length, less, more.
Contents == {Whole2, <<1, 0>>, <<1>>, <<1, 2, 0>>}
\* Nothing, a prefix, a prefix of something else, all, too much.
Leftovers == {<<>>, <<1>>, <<0>>, Whole2, <<1, 2, 0>>}

\* What the relay's source is left with beside a leftover of the CDN's.
Other(l) == IF l = <<>> THEN <<0>> ELSE <<>>

Both(a, b) == [s \in {"cdn", "relay"} |-> IF s = "cdn" THEN a ELSE b]

Base == [content |-> Both(Whole2, Whole2), ranges |-> Both(TRUE, TRUE), size |-> 2,
         parts |-> Both(<<>>, <<>>), runs |-> TRUE, plan |-> "systemd",
         kinds |-> {}, left |-> 0]

\* One task, whatever was left behind; faults of every kind but reconnections.
Alone == {[Base EXCEPT !.content = Both(c, Whole2), !.ranges = Both(g, TRUE),
                       !.size = n, !.parts = Both(l, k), !.runs = r,
                       !.kinds = Kinds \ {"reconnect"}, !.left = 2] :
            c \in Contents, g \in BOOLEAN, n \in {0, 2}, l \in Leftovers,
            k \in {<<>>, <<0>>}, r \in BOOLEAN}
\* The relay is no better, or the CDN alone.
NoneGood == {[Base EXCEPT !.content = Both(c, d), !.size = n, !.parts = Both(l, <<>>),
                          !.kinds = {"stream"}, !.left = 1] :
               c \in Contents, d \in {<<1, 0>>, <<1>>}, n \in {0, 2}, l \in Leftovers}
\* Two tasks after a reconnection.
Overlapping == {[Base EXCEPT !.content = Both(c, Whole2), !.ranges = Both(g, TRUE),
                             !.size = n, !.plan = p, !.kinds = {"reconnect", k},
                             !.left = 2] :
                  c \in {Whole2, <<1, 0>>}, g \in BOOLEAN, n \in {0, 2},
                  p \in {"helper", "systemd"}, k \in {"stream", "answer"}}
\* The artifact is there: the swap is what happens.
NoDownload == [Base EXCEPT !.plan = "helper", !.runs = FALSE]
AllScenes == Alone \cup NoneGood \cup Overlapping \cup {NoDownload}

Swapping == scene = NoDownload
FilesInit ==
  /\ Init /\ DownloadInit
  /\ ~Swapping => probe = Unmanaged /\ version = "good" /\ faults.left = 1
FilesNext == \/ Swapping /\ Next /\ UNCHANGED downloadVars
             \/ ~Swapping /\ DownloadNext /\ UNCHANGED vars
FilesSpec == FilesInit /\ [][FilesNext]_<<vars, downloadVars>> /\ Fairness
=============================================================================
