------------------------- MODULE UpgradeFilesProofs -------------------------
(* Proofs about the files of an upgrade: their download (ArtifactDownload)     *)
(* and their exchange (UpgradeSwap).                                           *)
EXTENDS ArtifactDownload, UpgradeSwap, FiniteSetTheorems, TLAPS

-----------------------------------------------------------------------------
(* The download, for any sources, answers, leftovers, faults and number of     *)
(* tasks: what is installed is the artifact, as long as no three tasks run at  *)
(* a time; and a round that failed undisturbed had its reason.                 *)

Pcs == {"idle", "ask", "answer", "body", "verify", "place", "clean", "check", "smoke",
        "swap", "exits", "failed"}
Fds == {0} \cup Inodes

Records ==
    [pc : Pcs, src : 1..Len(Order), tries : Nat, start : Nat, body : Seq(Chunks), fd : Fds,
     at : Nat, expired : BOOLEAN, spare : 0..Attempts, trouble : 0..Attempts]
DownloadTypes ==
    /\ scene \in Scene
    /\ data \in [Inodes -> Seq(Chunks)]
    /\ name \in [Paths -> Fds]
    /\ task \in [Tasks -> Records]
    /\ process \in {"up", "gone", "replaced"}

(* A file has one name, and only a task that reads an answer has one open.    *)
Distinct == \A p, q \in Paths : name[p] = name[q] => p = q \/ name[p] = 0
Closed == \A t \in Tasks : task[t].pc # "body" => task[t].fd = 0
AllEnded == process # "up" => \A t \in Tasks : task[t].pc = "idle"

AtMostTwo ==
    \A t, u, w \in Tasks : Running(t) /\ Running(u) /\ Running(w) => t = u \/ u = w \/ t = w
(* Who is about to install has tried the file: nobody has it open, nor does   *)
(* anybody open it from then on.                                              *)
Tried == \A t, u \in Tasks : task[t].pc = "swap" /\ name[Verified] # 0 => task[u].fd # name[Verified]
Sealed ==
    name[Installed] # 0 =>
        DataAt(Installed) = Artifact /\ \A u \in Tasks : task[u].fd # name[Installed]

DownloadInv ==
    /\ DownloadTypes /\ Distinct /\ Closed /\ AllEnded
    /\ ~crowded => AtMostTwo /\ Tried /\ Sealed

----------------------------------------------------------------------------
(* Names and inodes.                                                          *)

LEMMA SourceIs == ASSUME DownloadTypes, NEW t \in Tasks PROVE Source(t) \in Sources
<1>1. DOMAIN Order = 1..Len(Order) /\ task[t].src \in 1..Len(Order)
  BY DownloadAssumption DEF DownloadTypes, Records
<1> QED BY <1>1 DEF Source, Sources, ToSet

LEMMA NamesDiffer ==
    /\ Installed \in Paths /\ Verified \in Paths /\ Installed # Verified
    /\ \A s \in Sources : s \in Paths /\ s # Installed /\ s # Verified
BY PathsAssumption DEF Paths, Installed, Verified

(* The image of a finite set has no more members.                             *)
LEMMA ImageBound ==
    ASSUME NEW S, IsFiniteSet(S), NEW f, NEW T, T = {f[x] : x \in S}
    PROVE  IsFiniteSet(T) /\ Cardinality(T) <= Cardinality(S)
<1> DEFINE g == [x \in S |-> f[x]]
<1>1. g \in Surjection(S, T) BY DEF Surjection
<1> QED BY <1>1, FS_Surjection

LEMMA PathsFinite == IsFiniteSet(Sources) /\ IsFiniteSet(Paths)
<1>1. Len(Order) \in Nat /\ DOMAIN Order = 1..Len(Order) BY DownloadAssumption
<1>2. IsFiniteSet(1..Len(Order)) BY <1>1, FS_Interval
<1>3. Sources = {Order[i] : i \in 1..Len(Order)} BY <1>1 DEF Sources, ToSet
<1>4. IsFiniteSet(Sources) BY <1>2, <1>3, ImageBound
<1>5. IsFiniteSet({Verified, Installed})
  <2>1. IsFiniteSet({Verified}) BY FS_Singleton
  <2>2. IsFiniteSet({Verified} \cup {Installed}) BY <2>1, FS_AddElement
  <2>3. {Verified, Installed} = {Verified} \cup {Installed} OBVIOUS
  <2> QED BY <2>2, <2>3
<1> QED BY <1>4, <1>5, FS_Union DEF Paths

(* There is an inode for a task that has no file open and a path without one.  *)
LEMMA InodeFree ==
    ASSUME DownloadTypes, NEW t \in Tasks, task[t].fd = 0, NEW p \in Paths, name[p] = 0
    PROVE  NewInode \in Inodes /\ NewInode \notin InUse
<1> DEFINE P == Paths \ {p}
           U == Tasks \ {t}
           fd == [u \in Tasks |-> task[u].fd]
           A == {name[q] : q \in P}
           B == {fd[u] : u \in U}
<1>1. IsFiniteSet(P) /\ Cardinality(P) = Cardinality(Paths) - 1
  BY PathsFinite, FS_RemoveElement
<1>2. IsFiniteSet(U) /\ Cardinality(U) = Cardinality(Tasks) - 1
  BY DownloadAssumption, FS_RemoveElement
<1>3. IsFiniteSet(A) /\ Cardinality(A) <= Cardinality(P) BY <1>1, ImageBound
<1>4. IsFiniteSet(B) /\ Cardinality(B) <= Cardinality(U) BY <1>2, ImageBound
<1>5. /\ Cardinality(Paths) \in Nat /\ Cardinality(Tasks) \in Nat
      /\ Cardinality(A) \in Nat /\ Cardinality(B) \in Nat
  BY <1>3, <1>4, PathsFinite, DownloadAssumption, FS_CardinalityType
<1>6. IsFiniteSet(A \cup B) /\ Cardinality(A \cup B) <= Cardinality(A) + Cardinality(B)
  <2>1. Cardinality(A \cap B) \in Nat BY <1>3, FS_Intersection, FS_CardinalityType
  <2> HIDE DEF A, B
  <2>2. /\ IsFiniteSet(A \cup B)
        /\ Cardinality(A \cup B) = Cardinality(A) + Cardinality(B) - Cardinality(A \cap B)
    BY <1>3, <1>4, FS_Union
  <2> QED BY <1>5, <2>1, <2>2
<1>7. InUse \ {0} \subseteq A \cup B
  BY DEF InUse, DownloadTypes
<1>8. ~(Inodes \subseteq InUse)
  <2> SUFFICES ASSUME Inodes \subseteq InUse PROVE FALSE OBVIOUS
  <2>1. Inodes \in SUBSET (A \cup B) BY <1>5, <1>7 DEF Inodes
  <2>2. Cardinality(Inodes) <= Cardinality(A \cup B) BY <2>1, <1>6, FS_Subset
  <2>3. Cardinality(Inodes) = Cardinality(Paths) + Cardinality(Tasks)
    <3> DEFINE n == Cardinality(Paths) + Cardinality(Tasks)
    <3>1. n \in Nat BY <1>5
    <3> HIDE DEF n
    <3>2. Cardinality(1..n) = n BY <3>1, FS_Interval
    <3> QED BY <3>2 DEF n, Inodes
  <2>4. Cardinality(A \cup B) \in Nat BY <1>6, FS_CardinalityType
  <2> HIDE DEF A, B, P, U
  <2> QED BY <1>1, <1>2, <1>3, <1>4, <1>5, <1>6, <2>2, <2>3, <2>4
<1>9. \E i \in Inodes : i \notin InUse BY <1>8
<1> QED BY <1>9 DEF NewInode

----------------------------------------------------------------------------
(* The steps.                                                                 *)

LEMMA SourcesFit == Len(Order) \in Nat \ {0} /\ 1..Len(Order) \subseteq Inodes
<1>1. Len(Order) \in Nat \ {0} /\ DOMAIN Order = 1..Len(Order) BY DownloadAssumption
<1>2. IsFiniteSet(1..Len(Order)) /\ Cardinality(1..Len(Order)) = Len(Order) BY <1>1, FS_Interval
<1>3. Order \in Injection(1..Len(Order), Sources)
  BY <1>1, DownloadAssumption DEF Injection, Sources, ToSet, IsInjective
<1>4. Len(Order) <= Cardinality(Sources) BY <1>2, <1>3, PathsFinite, FS_Injection
<1>5. Sources \in SUBSET Paths BY DEF Paths
<1>6. Cardinality(Sources) <= Cardinality(Paths) BY <1>5, PathsFinite, FS_Subset
<1>7. Cardinality(Sources) \in Nat /\ Cardinality(Paths) \in Nat /\ Cardinality(Tasks) \in Nat
  BY PathsFinite, DownloadAssumption, FS_CardinalityType
<1> QED BY <1>1, <1>4, <1>6, <1>7 DEF Inodes

(* A round begins with the most that any source gives it to spare.             *)
LEMMA MostSpare ==
    LET m == MaxOf({Spare(s) : s \in Sources}) IN
    m \in 0..Attempts /\ \E i \in 1..Len(Order) : Spare(Order[i]) = m
<1> DEFINE S == {Spare(s) : s \in Sources}
<1>1. S \subseteq {0, Attempts - 1, Attempts} BY DEF Spare
<1>2. DOMAIN Order = 1..Len(Order) /\ 1 \in 1..Len(Order) BY DownloadAssumption, SourcesFit
<1>3. S # {}
  <2>1. Order[1] \in Sources BY <1>2 DEF Sources, ToSet
  <2> QED BY <2>1
<1>4. \E n \in S : \A k \in S : k <= n
  <2> HIDE DEF S
  <2>1. Attempts \in Nat \ {0} BY DownloadAssumption
  <2>2. CASE Attempts \in S BY <1>1, <2>1, <2>2
  <2>3. CASE Attempts \notin S /\ Attempts - 1 \in S BY <1>1, <2>1, <2>3
  <2>4. CASE Attempts \notin S /\ Attempts - 1 \notin S
    <3>1. S = {0} BY <1>1, <1>3, <2>4
    <3> QED BY <3>1
  <2> QED BY <2>2, <2>3, <2>4
<1>5. MaxOf(S) \in S
  <2> HIDE DEF S
  <2> QED BY <1>4 DEF MaxOf
<1>6. PICK s \in Sources : Spare(s) = MaxOf(S) BY <1>5
<1>7. \E i \in 1..Len(Order) : Order[i] = s BY <1>2 DEF Sources, ToSet
<1>8. MaxOf(S) \in 0..Attempts BY <1>1, <1>5, DownloadAssumption
<1> QED BY <1>6, <1>7, <1>8

LEMMA Begins == DownloadInit => DownloadInv
<1> SUFFICES ASSUME DownloadInit PROVE DownloadInv OBVIOUS
<1>1. \A p \in Sources : (CHOOSE i \in 1..Len(Order) : Order[i] = p) \in 1..Len(Order)
                          /\ Order[CHOOSE i \in 1..Len(Order) : Order[i] = p] = p
  <2>1. DOMAIN Order = 1..Len(Order) BY DownloadAssumption
  <2> QED BY <2>1 DEF Sources, ToSet
<1>2. \A p \in Paths : name[p] \in Fds BY <1>1, SourcesFit DEF DownloadInit, Fds
<1>3. name \in [Paths -> Fds] BY <1>2 DEF DownloadInit
<1>4. \A t \in Tasks : task[t] = Idle BY DEF DownloadInit
<1>5. DownloadTypes
  <2>1. scene \in Scene BY ScenesAssumption DEF DownloadInit
  <2>2. /\ scene.parts \in [Sources -> Seq(Chunks)]
        /\ \A i \in 1..Len(Order) : Order[i] \in Sources
    <3>1. DOMAIN Order = 1..Len(Order) BY DownloadAssumption
    <3> QED BY <2>1, <3>1 DEF Scene, Sources, ToSet
  <2>3. <<>> \in Seq(Chunks) OBVIOUS
  <2>4. data \in [Inodes -> Seq(Chunks)] BY <2>2, <2>3 DEF DownloadInit
  <2>5. Idle \in Records
    BY <2>3, SourcesFit, DownloadAssumption DEF Idle, Records, Pcs, Fds
  <2>6. task \in [Tasks -> Records] BY <1>4, <2>5 DEF DownloadInit
  <2> QED BY <1>3, <2>1, <2>4, <2>6 DEF DownloadInit, DownloadTypes
<1>6. Distinct
  <2> SUFFICES ASSUME NEW p \in Paths, NEW q \in Paths, name[p] = name[q], name[p] # 0
               PROVE  p = q
    BY DEF Distinct
  <2>1. /\ p \in Sources /\ name[p] = CHOOSE i \in 1..Len(Order) : Order[i] = p
        /\ q \in Sources /\ name[q] = CHOOSE i \in 1..Len(Order) : Order[i] = q
    BY DEF DownloadInit
  <2> QED BY <1>1, <2>1
<1>7. Closed /\ AtMostTwo /\ Tried BY <1>4 DEF Closed, AtMostTwo, Tried, Running, Idle
<1>8. name[Installed] = 0 BY NamesDiffer DEF DownloadInit
<1> QED BY <1>5, <1>6, <1>7, <1>8 DEF DownloadInv, AllEnded, DownloadInit, Sealed

(* What a failed attempt makes of a task: it asks again, or has failed.        *)
LEMMA Returns ==
    ASSUME NEW r \in Records
    PROVE  \A q \in {Failed(r), NextSource(r), Retry(r)} :
              /\ q \in Records /\ q.pc \in {"ask", "failed"} /\ q.fd = 0
              /\ q.spare = r.spare /\ q.trouble = r.trouble
<1>1. <<>> \in Seq(Chunks) /\ 0 \in Fds /\ 1 \in 1..Len(Order) BY SourcesFit DEF Fds
<1>2. \A p \in {"ask", "failed"} : p \in Pcs BY DEF Pcs
<1>3. r.src \in 1..Len(Order) /\ r.tries \in Nat BY DEF Records
<1>4. /\ Failed(r) \in Records /\ Failed(r).pc = "failed" /\ Failed(r).fd = 0
      /\ Failed(r).spare = r.spare /\ Failed(r).trouble = r.trouble
  BY <1>1, <1>2 DEF Records, Failed
<1>5. /\ NextSource(r) \in Records /\ NextSource(r).pc \in {"ask", "failed"} /\ NextSource(r).fd = 0
      /\ NextSource(r).spare = r.spare /\ NextSource(r).trouble = r.trouble
  <2>1. CASE r.src < Len(Order) /\ ~r.expired
    <3>1. r.src + 1 \in 1..Len(Order) BY <1>3, <2>1, SourcesFit
    <3> QED BY <1>1, <1>2, <2>1, <3>1 DEF NextSource, Records
  <2> QED BY <1>4, <2>1 DEF NextSource
<1>6. /\ Retry(r) \in Records /\ Retry(r).pc \in {"ask", "failed"} /\ Retry(r).fd = 0
      /\ Retry(r).spare = r.spare /\ Retry(r).trouble = r.trouble
  <2>1. CASE r.tries + 1 < Attempts /\ ~r.expired
    <3> DEFINE q == [r EXCEPT !.pc = "ask", !.tries = @ + 1, !.fd = 0, !.body = <<>>, !.at = 0]
    <3>1. r.tries + 1 \in Nat /\ 0 \in Nat BY <1>3
    <3>2. q \in Records BY <1>1, <1>2, <3>1 DEF Records
    <3>3. q.pc = "ask" /\ q.fd = 0 /\ q.spare = r.spare /\ q.trouble = r.trouble BY DEF Records
    <3> QED BY <2>1, <3>2, <3>3 DEF Retry
  <2> QED BY <1>5, <2>1 DEF Retry
<1> QED BY <1>4, <1>5, <1>6

LEMMA Troubles ==
    ASSUME NEW r \in Records, NEW n \in {1, Attempts}
    PROVE  /\ Troubled(r, n) \in Records
           /\ \A f \in {"pc", "src", "tries", "start", "body", "fd", "at", "expired", "spare"} :
                 Troubled(r, n)[f] = r[f]
           /\ Troubled(r, n).trouble = IF r.trouble + n > Attempts THEN Attempts ELSE r.trouble + n
<1>1. (IF r.trouble + n > Attempts THEN Attempts ELSE r.trouble + n) \in 0..Attempts
  BY DownloadAssumption DEF Records
<1> QED BY <1>1 DEF Troubled, Records

(* What is at a path or open stays what it is.                                 *)
LEMMA KeptFiles ==
    ASSUME NEW d \in [Inodes -> Seq(Chunks)], Keeps(d)
    PROVE  /\ data' \in [Inodes -> Seq(Chunks)]
           /\ \A p \in Paths : name'[p] \in Inodes => data'[name'[p]] = d[name'[p]]
<1>1. <<>> \in Seq(Chunks) OBVIOUS
<1>2. data' = [i \in Inodes |-> IF i \in InUse' THEN d[i] ELSE <<>>] BY DEF Keeps
<1>3. \A p \in Paths : name'[p] \in InUse' BY DEF InUse
<1> QED BY <1>1, <1>2, <1>3

(* Files lose their names at most, and what is installed stays what it is.     *)
Spared ==
    /\ data' \in [Inodes -> Seq(Chunks)] /\ name' \in [Paths -> Fds]
    /\ \A p \in Paths : name'[p] \in {0, name[p]}
    /\ name'[Installed] = name[Installed]
    /\ ~crowded /\ name[Installed] # 0 => data'[name[Installed]] = data[name[Installed]]

LEMMA Spares ==
    ASSUME DownloadInv, NEW s \in Paths, s # Installed, name' = name \/ name' = [name EXCEPT ![s] = 0],
           data' = data \/ Keeps(data)
    PROVE  Spared
<1>1. 0 \in Fds BY DEF Fds
<1>2. /\ name' \in [Paths -> Fds] /\ \A p \in Paths : name'[p] \in {0, name[p]}
      /\ name'[Installed] = name[Installed]
  BY <1>1, NamesDiffer DEF DownloadInv, DownloadTypes
<1>3. name[Installed] # 0 => name[Installed] \in Inodes BY NamesDiffer DEF DownloadInv, DownloadTypes, Fds
<1>4. CASE data' = data BY <1>2, <1>4 DEF DownloadInv, DownloadTypes, Spared
<1>5. CASE Keeps(data)
  <2>1. data \in [Inodes -> Seq(Chunks)] BY DEF DownloadInv, DownloadTypes
  <2> QED BY <1>2, <1>3, <1>5, <2>1, NamesDiffer, KeptFiles DEF Spared
<1> QED BY <1>4, <1>5

(* A step of one task that opens nothing, puts nothing at a path and does not  *)
(* come to the installation.                                                   *)
LEMMA OneMoves ==
    ASSUME DownloadInv, NEW t \in Tasks, Running(t), NEW r \in Records,
           task' = [task EXCEPT ![t] = r],
           r.fd \in {0, task[t].fd}, r.pc # "body" => r.fd = 0,
           r.pc = "swap" => task[t].pc = "swap", Spared,
           scene' = scene, process' = process, crowded' = crowded
    PROVE  DownloadInv'
<1>1. DownloadTypes' BY DEF DownloadInv, DownloadTypes, Spared
<1>2. Distinct' BY DEF DownloadInv, DownloadTypes, Distinct, Spared
<1>3. /\ task'[t] = r
      /\ \A u \in Tasks : u # t => task'[u] = task[u]
  BY DEF DownloadInv, DownloadTypes
<1>4. Closed' BY <1>3 DEF DownloadInv, Closed
<1>5. AllEnded' BY DEF DownloadInv, AllEnded, Running
<1>6. ASSUME ~crowded PROVE (AtMostTwo /\ Tried /\ Sealed)'
  <2>1. AtMostTwo'
    <3>1. \A u \in Tasks : Running(u)' => Running(u) BY <1>3 DEF Running
    <3> QED BY <1>6, <3>1 DEF DownloadInv, AtMostTwo
  <2>2. Tried'
    <3>1. \A u \in Tasks : task'[u].pc = "swap" => task[u].pc = "swap" BY <1>3
    <3>2. \A u \in Tasks : task'[u].fd \in {0, task[u].fd} BY <1>3
    <3> QED BY <1>6, <3>1, <3>2, NamesDiffer DEF DownloadInv, Tried, Spared
  <2>3. Sealed'
    <3>1. \A u \in Tasks : task'[u].fd \in {0, task[u].fd} BY <1>3
    <3> QED BY <1>6, <3>1 DEF DownloadInv, Sealed, DataAt, Spared
  <2> QED BY <2>1, <2>2, <2>3
<1> QED BY <1>1, <1>2, <1>4, <1>5, <1>6 DEF DownloadInv

LEMMA Opens ==
    ASSUME DownloadInv, NEW t \in Tasks, Running(t), task[t].pc # "swap", NEW r \in Records,
           task' = [task EXCEPT ![t] = r], r.pc = "body",
           NEW s \in Sources, r.fd \in Inodes,
           r.fd = name[s] \/ (name[s] = 0 /\ r.fd \notin InUse),
           name' = [name EXCEPT ![s] = r.fd],
           data' \in [Inodes -> Seq(Chunks)],
           \A i \in Inodes : i # r.fd => data'[i] = data[i],
           scene' = scene, process' = process, crowded' = crowded
    PROVE  DownloadInv'
<1>0. s \in Paths /\ s # Installed /\ s # Verified BY NamesDiffer
<1>1. DownloadTypes' BY <1>0 DEF DownloadInv, DownloadTypes, Fds
<1>2. \A p \in Paths : p # s => name'[p] = name[p] /\ name[p] # r.fd
  <2>1. \A p \in Paths : p # s => name'[p] = name[p] BY DEF DownloadInv, DownloadTypes
  <2>2. \A p \in Paths : name[p] \in InUse BY DEF InUse
  <2>3. r.fd # 0 BY DEF Inodes
  <2> QED BY <1>0, <2>1, <2>2, <2>3 DEF DownloadInv, Distinct
<1>3. Distinct' BY <1>0, <1>2 DEF DownloadInv, DownloadTypes, Distinct
<1>4. /\ task'[t] = r
      /\ \A u \in Tasks : u # t => task'[u] = task[u]
  BY DEF DownloadInv, DownloadTypes
<1>5. Closed' /\ AllEnded' BY <1>4 DEF DownloadInv, Closed, AllEnded, Running
<1>6. ASSUME ~crowded PROVE (AtMostTwo /\ Tried /\ Sealed)'
  <2>1. AtMostTwo'
    <3>1. \A u \in Tasks : Running(u)' => Running(u) BY <1>4 DEF Running
    <3> QED BY <1>6, <3>1 DEF DownloadInv, AtMostTwo
  <2>2. Tried' BY <1>0, <1>2, <1>4, <1>6, NamesDiffer DEF DownloadInv, Tried
  <2>3. Sealed'
    <3>1. name'[Installed] = name[Installed] /\ r.fd # name[Installed]
      BY <1>0, <1>2, NamesDiffer
    <3>2. name[Installed] # 0 => name[Installed] \in Inodes
      BY NamesDiffer DEF DownloadInv, DownloadTypes, Fds
    <3>3. name[Installed] # 0 => data'[name[Installed]] = data[name[Installed]]
      BY <3>1, <3>2
    <3> QED BY <1>4, <1>6, <3>1, <3>3 DEF DownloadInv, Sealed, DataAt
  <2> QED BY <2>1, <2>2, <2>3
<1> QED BY <1>1, <1>3, <1>5, <1>6 DEF DownloadInv

----------------------------------------------------------------------------
(* The steps of a task.                                                       *)

LEMMA TriggerIInv == ASSUME DownloadInv, NEW t \in Tasks, Trigger(t) PROVE DownloadInv'
<1> DEFINE trouble == IF \E u \in Tasks : Running(u) THEN Attempts ELSE 0
           new == [Idle EXCEPT !.pc = "ask", !.trouble = trouble,
                               !.spare = MaxOf({Spare(s) : s \in Sources})]
<1>1. MaxOf({Spare(s) : s \in Sources}) \in 0..Attempts BY MostSpare
<1>2. trouble \in 0..Attempts BY DownloadAssumption
<1>3. Idle \in Records
  <2>1. <<>> \in Seq(Chunks) OBVIOUS
  <2> QED BY <2>1, SourcesFit, DownloadAssumption DEF Idle, Records, Pcs, Fds
<1>4. new \in Records /\ new.fd = 0 /\ new.pc = "ask"
  <2>1. "ask" \in Pcs BY DEF Pcs
  <2>2. Idle.fd = 0 BY DEF Idle
  <2> HIDE DEF trouble
  <2> QED BY <1>1, <1>2, <1>3, <2>1, <2>2 DEF Records
<1>5. \A u \in Tasks : task'[u] = IF u = t THEN new
                                 ELSE IF Running(u) THEN [task[u] EXCEPT !.trouble = Attempts]
                                 ELSE Idle
  BY DEF Trigger
<1>6. \A u \in Tasks : task'[u] \in Records
  <2>1. \A u \in Tasks : [task[u] EXCEPT !.trouble = Attempts] \in Records
    <3>1. \A u \in Tasks : task[u] \in Records BY DEF DownloadInv, DownloadTypes
    <3>2. Attempts \in 0..Attempts BY DownloadAssumption
    <3> QED BY <3>1, <3>2 DEF Records
  <2> HIDE DEF new
  <2> QED BY <1>3, <1>4, <1>5, <2>1
<1>7. DownloadTypes'
  <2>1. task' \in [Tasks -> Records]
    <3>1. \E f : task' = [u \in Tasks |-> f[u]]
      <4>1. task' = [u \in Tasks |->
                  IF u = t THEN new ELSE IF Running(u) THEN [task[u] EXCEPT !.trouble = Attempts]
                  ELSE Idle]
        BY DEF Trigger
      <4>2. task' = [u \in Tasks |-> task'[u]] BY <4>1
      <4> QED BY <4>2
    <3> QED BY <1>6, <3>1
  <2> QED BY <2>1 DEF Trigger, DownloadInv, DownloadTypes
<1>8. \A u \in Tasks : /\ task'[u].fd = 0 \/ (task'[u].fd = task[u].fd /\ task'[u].pc = task[u].pc)
                       /\ task'[u].pc \in {"idle", "ask"} => task'[u].fd = 0
                       /\ task'[u].pc \in {"idle", "ask", task[u].pc}
                       /\ u = t \/ Running(u) \/ task'[u].pc = "idle"
  <2> SUFFICES ASSUME NEW u \in Tasks
               PROVE  /\ task'[u].fd = 0 \/ (task'[u].fd = task[u].fd /\ task'[u].pc = task[u].pc)
                      /\ task'[u].pc \in {"idle", "ask"} => task'[u].fd = 0
                      /\ task'[u].pc \in {"idle", "ask", task[u].pc}
                      /\ u = t \/ Running(u) \/ task'[u].pc = "idle"
    OBVIOUS
  <2>1. CASE u = t BY <1>4, <1>5, <2>1
  <2>2. CASE u # t /\ Running(u)
    <3>1. task'[u] = [task[u] EXCEPT !.trouble = Attempts] BY <1>5, <2>2
    <3>2. task'[u].fd = task[u].fd /\ task'[u].pc = task[u].pc
      BY <3>1 DEF DownloadInv, DownloadTypes, Records
    <3>3. task[u].pc # "body" => task[u].fd = 0 BY DEF DownloadInv, Closed
    <3> QED BY <2>2, <3>2, <3>3
  <2>3. CASE u # t /\ ~Running(u)
    <3>1. task'[u] = Idle BY <1>5, <2>3
    <3>2. task'[u].fd = 0 /\ task'[u].pc = "idle" BY <3>1 DEF Idle
    <3> QED BY <3>2
  <2> QED BY <2>1, <2>2, <2>3
<1>9. Distinct' BY DEF Trigger, DownloadInv, Distinct
<1>10. Closed' BY <1>8 DEF DownloadInv, Closed
<1>11. AllEnded' BY DEF Trigger, AllEnded
<1>12. ASSUME ~crowded' PROVE (AtMostTwo /\ Tried /\ Sealed)'
  <2>1. ~crowded /\ ~\E u, w \in Tasks : u # w /\ Running(u) /\ Running(w)
    BY <1>12 DEF Trigger
  <2>2. AtMostTwo'
    <3>1. \A u \in Tasks : Running(u)' => u = t \/ Running(u) BY <1>8 DEF Running
    <3> QED BY <2>1, <3>1 DEF AtMostTwo
  <2>3. Tried'
    <3>1. \A u \in Tasks : task'[u].pc = "swap" => task[u].pc = "swap" BY <1>8
    <3>2. \A u \in Tasks : task'[u].fd \in {0, task[u].fd} BY <1>8
    <3>3. name' = name BY DEF Trigger
    <3> QED BY <2>1, <3>1, <3>2, <3>3 DEF DownloadInv, Tried
  <2>4. Sealed'
    <3>2. \A u \in Tasks : task'[u].fd \in {0, task[u].fd} BY <1>8
    <3>3. name' = name /\ data' = data BY DEF Trigger
    <3> QED BY <2>1, <3>2, <3>3 DEF DownloadInv, Sealed, DataAt
  <2> QED BY <2>2, <2>3, <2>4
<1> QED BY <1>7, <1>9, <1>10, <1>11, <1>12 DEF DownloadInv

LEMMA AskIInv == ASSUME DownloadInv, NEW t \in Tasks, Ask(t) PROVE DownloadInv'
<1>1. task[t] \in Records /\ Running(t) /\ task[t].fd = 0
  BY DEF Ask, DownloadInv, DownloadTypes, Closed, Running
<1>2. Spared BY NamesDiffer, Spares DEF Ask
<1>3. CASE Becomes(t, NextSource(task[t]))
  BY <1>1, <1>2, <1>3, Returns, OneMoves DEF Becomes
<1>4. ASSUME NEW k \in Nat, Becomes(t, [task[t] EXCEPT !.pc = "answer", !.start = k]) PROVE DownloadInv'
  <2> DEFINE r == [task[t] EXCEPT !.pc = "answer", !.start = k]
  <2>1. "answer" \in Pcs BY DEF Pcs
  <2>2. r \in Records /\ r.pc = "answer" /\ r.fd = 0 BY <1>1, <2>1 DEF Records
  <2> HIDE DEF r
  <2> QED BY <1>1, <1>2, <1>4, <2>2, OneMoves DEF Becomes, r
<1>5. DataAt(Source(t)) \in Seq(Chunks)
  <2>1. <<>> \in Seq(Chunks) /\ Source(t) \in Paths BY SourceIs, NamesDiffer DEF DownloadInv
  <2> QED BY <2>1 DEF DataAt, DownloadInv, DownloadTypes, Fds
<1>6. Len(DataAt(Source(t))) \in Nat BY <1>5
<1> QED BY <1>3, <1>4, <1>6 DEF Ask

(* Every other way back.                                                       *)
LEMMA GivesUp ==
    ASSUME DownloadInv, NEW t \in Tasks, Running(t), NEW q \in Records, q.fd \in {0, task[t].fd},
           NEW r \in {Failed(q), NextSource(q), Retry(q)}, Becomes(t, r), Spared
    PROVE  DownloadInv'
<1>1. r \in Records /\ r.pc \in {"ask", "failed"} /\ r.fd = 0 BY Returns
<1> QED BY <1>1, OneMoves DEF Becomes

LEMMA AnswerIInv == ASSUME DownloadInv, NEW t \in Tasks, Answer(t) PROVE DownloadInv'
<1>1. /\ task[t] \in Records /\ Running(t) /\ task[t].fd = 0
      /\ task[t].pc # "swap" /\ Source(t) \in Sources /\ Source(t) \in Paths /\ Source(t) # Installed
  BY SourceIs, NamesDiffer DEF Answer, DownloadInv, DownloadTypes, Closed, Running
<1>2. CASE NotResumable(t)
  BY <1>1, <1>2, Spares, GivesUp DEF NotResumable, FatalRetryable, Removes
<1>3. CASE Mismatch(t)
  BY <1>1, <1>3, Spares, GivesUp DEF Mismatch, Fatal, Removes
<1>4. /\ scene.content[Source(t)] \in Seq(Chunks) /\ Len(scene.content[Source(t)]) \in Nat
  <2>1. scene.content \in [Sources -> Seq(Chunks)] BY DEF DownloadInv, DownloadTypes, Scene
  <2> QED BY <1>1, <2>1
<1>5. name[Source(t)] # 0 => name[Source(t)] \in Inodes BY <1>1 DEF DownloadInv, DownloadTypes, Fds
<1>6. "body" \in Pcs /\ \A i \in Inodes : i \in Fds BY DEF Pcs, Fds
<1>7. CASE Resumed(t)
  <2> DEFINE b == SubSeq(scene.content[Source(t)], task[t].start + 1, Total(t))
             r == [task[t] EXCEPT !.pc = "body", !.fd = Part(t), !.body = b]
  <2>1. b \in Seq(Chunks)
    <3>1. Total(t) = Len(scene.content[Source(t)]) /\ task[t].start + 1 \in Nat \ {0}
      BY <1>1 DEF Total, Records
    <3>2. \A c \in Seq(Chunks), m \in Nat \ {0} : SubSeq(c, m, Len(c)) \in Seq(Chunks) OBVIOUS
    <3> QED BY <1>4, <3>1, <3>2
  <2>2. Part(t) \in Inodes BY <1>5, <1>7 DEF Resumed, Part
  <2> HIDE DEF b
  <2>3. r \in Records /\ r.pc = "body" /\ r.fd = name[Source(t)]
    BY <1>1, <1>6, <2>1, <2>2 DEF Records, Part
  <2>4. task' = [task EXCEPT ![t] = r] /\ UNCHANGED <<data, name, scene, process, crowded>>
    BY <1>7 DEF Resumed, Becomes, b
  <2>5. name' = [name EXCEPT ![Source(t)] = r.fd] BY <1>1, <2>3, <2>4 DEF DownloadInv, DownloadTypes
  <2>6. data' \in [Inodes -> Seq(Chunks)] /\ r.fd \in Inodes
    BY <2>2, <2>3, <2>4 DEF DownloadInv, DownloadTypes, Part
  <2> HIDE DEF r
  <2> QED BY <1>1, <2>3, <2>4, <2>5, <2>6, Opens
<1>8. CASE Whole(t)
  <2> DEFINE i == IF Part(t) = 0 THEN NewInode ELSE Part(t)
             r == [task[t] EXCEPT !.pc = "body", !.fd = i, !.start = 0,
                                  !.body = scene.content[Source(t)]]
  <2>1. i \in Inodes /\ (i = name[Source(t)] \/ (name[Source(t)] = 0 /\ i \notin InUse))
    BY <1>1, <1>5, InodeFree DEF Part, DownloadInv
  <2>2. /\ task' = [task EXCEPT ![t] = r] /\ UNCHANGED <<scene, process, crowded>>
        /\ name' = [name EXCEPT ![Source(t)] = i] /\ data' = [data EXCEPT ![i] = <<>>]
    BY <1>8 DEF Whole, Becomes
  <2> HIDE DEF i
  <2>3. r \in Records /\ r.pc = "body" /\ r.fd = i BY <1>1, <1>4, <1>6, <2>1 DEF Records
  <2>4. /\ data' \in [Inodes -> Seq(Chunks)]
        /\ \A k \in Inodes : k # i => data'[k] = data[k]
    <3>1. <<>> \in Seq(Chunks) OBVIOUS
    <3> QED BY <2>2, <3>1 DEF DownloadInv, DownloadTypes
  <2> HIDE DEF r
  <2> QED BY <1>1, <2>1, <2>2, <2>3, <2>4, Opens
<1> QED BY <1>2, <1>3, <1>7, <1>8 DEF Answer

LEMMA WrittenType ==
    ASSUME NEW d \in Seq(Chunks), NEW p \in Nat, NEW c \in Chunks
    PROVE  Written(d, p, c) \in Seq(Chunks)
<1> DEFINE n == IF p + 1 > Len(d) THEN p + 1 ELSE Len(d)
<1>1. n \in Nat OBVIOUS
<1>2. 0 \in Chunks /\ \A i \in 1..Len(d) : d[i] \in Chunks BY DownloadAssumption DEF Chunks
<1>3. \A i \in 1..n : (IF i = p + 1 THEN c ELSE IF i <= Len(d) THEN d[i] ELSE 0) \in Chunks
  BY <1>2
<1>4. Written(d, p, c) \in [1..n -> Chunks] BY <1>3 DEF Written
<1> QED BY <1>1, <1>4

LEMMA ChunkIInv == ASSUME DownloadInv, NEW t \in Tasks, Chunk(t) PROVE DownloadInv'
<1> DEFINE f == task[t].fd
           r == [task[t] EXCEPT !.body = Tail(@), !.at = IF task[t].start > 0 THEN 0 ELSE @ + 1]
<1>1. task[t] \in Records /\ Running(t) /\ task[t].pc = "body" /\ task[t].body # <<>>
  BY DEF Chunk, DownloadInv, DownloadTypes, Running
<1>2. /\ Tail(task[t].body) \in Seq(Chunks) /\ Head(task[t].body) \in Chunks
      /\ task[t].at \in Nat /\ (IF task[t].start > 0 THEN 0 ELSE task[t].at + 1) \in Nat
  BY <1>1 DEF Records
<1>3. r \in Records /\ r.pc = "body" /\ r.fd = f BY <1>1, <1>2 DEF Records
<1>4. ASSUME NEW d, data' = [data EXCEPT ![f] = d], d \in Seq(Chunks) PROVE Spared
  <2>1. data' \in [Inodes -> Seq(Chunks)] BY <1>4 DEF DownloadInv, DownloadTypes
  <2>2. name' = name BY DEF Chunk
  <2>3. ASSUME ~crowded, name[Installed] # 0 PROVE data'[name[Installed]] = data[name[Installed]]
    <3>1. f # name[Installed] BY <2>3 DEF DownloadInv, Sealed
    <3>2. name[Installed] \in Inodes BY <2>3, NamesDiffer DEF DownloadInv, DownloadTypes, Fds
    <3> QED BY <1>4, <3>1, <3>2 DEF DownloadInv, DownloadTypes
  <2> QED BY <2>1, <2>2, <2>3 DEF Spared, DownloadInv, DownloadTypes
<1>5. data' = [data EXCEPT ![f] = data'[f]] /\ (f \in Inodes => data'[f] \in Seq(Chunks))
  <2> DEFINE p == IF task[t].start > 0 THEN Len(data[f]) ELSE task[t].at
             w == Written(data[f], p, Head(task[t].body))
  <2>1. data' = [data EXCEPT ![f] = w] BY DEF Chunk
  <2>2. ASSUME f \in Inodes PROVE data'[f] = w /\ w \in Seq(Chunks)
    <3>1. data[f] \in Seq(Chunks) /\ data'[f] = w BY <2>1, <2>2 DEF DownloadInv, DownloadTypes
    <3>2. p \in Nat BY <1>2, <3>1
    <3> QED BY <1>2, <3>1, <3>2, WrittenType
  <2>3. f \notin Inodes => data' = data BY <2>1 DEF DownloadInv, DownloadTypes
  <2> QED BY <2>1, <2>2, <2>3 DEF DownloadInv, DownloadTypes
<1>6. Spared
  <2>1. CASE f \in Inodes BY <1>4, <1>5, <2>1
  <2>2. CASE f \notin Inodes
    <3>1. data' = data BY <1>5, <2>2 DEF DownloadInv, DownloadTypes
    <3>2. name' = name BY DEF Chunk
    <3> QED BY <3>1, <3>2, NamesDiffer, Spares
  <2> QED BY <2>1, <2>2
<1>7. Becomes(t, r) BY DEF Chunk
<1> HIDE DEF r
<1> QED BY <1>1, <1>3, <1>6, <1>7, OneMoves DEF Becomes

LEMMA BodyEndsIInv == ASSUME DownloadInv, NEW t \in Tasks, BodyEnds(t) PROVE DownloadInv'
<1> DEFINE r == [task[t] EXCEPT !.pc = "verify", !.fd = 0, !.at = 0]
<1>1. task[t] \in Records /\ Running(t) BY DEF BodyEnds, DownloadInv, DownloadTypes, Running
<1>2. "verify" \in Pcs /\ 0 \in Fds BY DEF Pcs, Fds
<1>3. r \in Records /\ r.pc = "verify" /\ r.fd = 0 BY <1>1, <1>2 DEF Records
<1>4. Spared BY NamesDiffer, Spares DEF BodyEnds
<1>5. Becomes(t, r) BY DEF BodyEnds
<1> HIDE DEF r
<1> QED BY <1>1, <1>3, <1>4, <1>5, OneMoves DEF Becomes

(* A step on from one stage to the next.                                       *)
LEMMA GoesOn ==
    ASSUME DownloadInv, NEW t \in Tasks, Running(t), task[t].fd = 0, Spared,
           NEW p \in Pcs \ {"swap", "body"}, Becomes(t, [task[t] EXCEPT !.pc = p])
    PROVE  DownloadInv'
<1> DEFINE r == [task[t] EXCEPT !.pc = p]
<1>1. r \in Records /\ r.pc = p /\ r.fd = 0
  <2>1. task[t] \in Records BY DEF DownloadInv, DownloadTypes
  <2> QED BY <2>1 DEF Records
<1> HIDE DEF r
<1> QED BY <1>1, OneMoves DEF Becomes, r

LEMMA VerifyIInv == ASSUME DownloadInv, NEW t \in Tasks, Verify(t) PROVE DownloadInv'
<1>1. /\ task[t] \in Records /\ Running(t) /\ task[t].fd = 0
      /\ Source(t) \in Paths /\ Source(t) # Installed
  BY SourceIs, NamesDiffer DEF Verify, DownloadInv, DownloadTypes, Closed, Running
<1>2. Spared BY <1>1, NamesDiffer, Spares DEF Verify, Fatal, Removes
<1>3. CASE DataAt(Source(t)) = Artifact
  <2>1. "place" \in Pcs \ {"swap", "body"} BY DEF Pcs
  <2> QED BY <1>1, <1>2, <1>3, <2>1, GoesOn DEF Verify
<1>4. CASE DataAt(Source(t)) # Artifact BY <1>1, <1>2, <1>4, GivesUp DEF Verify, Fatal
<1> QED BY <1>3, <1>4

LEMMA PlaceIInv == ASSUME DownloadInv, NEW t \in Tasks, Place(t) PROVE DownloadInv'
<1>1. /\ task[t] \in Records /\ Running(t) /\ task[t].fd = 0 /\ task[t].pc = "place"
      /\ Source(t) \in Paths /\ Source(t) # Installed /\ Source(t) # Verified
  BY SourceIs, NamesDiffer DEF Place, DownloadInv, DownloadTypes, Closed, Running
<1>2. CASE Part(t) = 0
  <2>1. Spared BY <1>2, NamesDiffer, Spares DEF Place
  <2> QED BY <1>1, <1>2, <2>1, GivesUp DEF Place
<1>3. CASE Part(t) # 0
  <2> DEFINE r == [task[t] EXCEPT !.pc = "clean"]
  <2>1. "clean" \in Pcs /\ 0 \in Fds BY DEF Pcs, Fds
  <2>2. r \in Records /\ r.pc = "clean" /\ r.fd = 0 BY <1>1, <2>1 DEF Records
  <2>3. /\ name' = [name EXCEPT ![Verified] = name[Source(t)], ![Source(t)] = 0]
        /\ task' = [task EXCEPT ![t] = r] /\ UNCHANGED <<scene, process, crowded>> /\ Keeps(data)
    BY <1>3 DEF Place, Becomes, Part
  <2>4. name' \in [Paths -> Fds] /\ name'[Installed] = name[Installed]
    BY <1>1, <2>1, <2>3, NamesDiffer DEF DownloadInv, DownloadTypes
  <2>5. data' \in [Inodes -> Seq(Chunks)]
        /\ (name[Installed] # 0 => data'[name[Installed]] = data[name[Installed]])
    <3>1. name[Installed] # 0 => name[Installed] \in Inodes BY NamesDiffer DEF DownloadInv, DownloadTypes, Fds
    <3> QED BY <2>3, <2>4, <3>1, NamesDiffer, KeptFiles DEF DownloadInv, DownloadTypes
  <2> HIDE DEF r
  <2>6. DownloadTypes' BY <2>2, <2>3, <2>4, <2>5 DEF DownloadInv, DownloadTypes
  <2>7. Distinct' BY <1>1, <2>3, NamesDiffer DEF DownloadInv, DownloadTypes, Distinct
  <2>8. /\ task'[t] = r
        /\ \A u \in Tasks : u # t => task'[u] = task[u]
    BY <2>3 DEF DownloadInv, DownloadTypes
  <2>9. Closed' /\ AllEnded' BY <1>1, <2>2, <2>3, <2>8 DEF DownloadInv, Closed, AllEnded, Running
  <2>10. ASSUME ~crowded PROVE (AtMostTwo /\ Tried /\ Sealed)'
    <3>1. AtMostTwo'
      <4>1. \A u \in Tasks : Running(u)' => Running(u) BY <1>1, <2>8 DEF Running
      <4> QED BY <2>10, <4>1 DEF DownloadInv, AtMostTwo
    <3>2. Tried'
      <4> SUFFICES ASSUME NEW u \in Tasks, NEW w \in Tasks, task'[u].pc = "swap", name'[Verified] # 0
                   PROVE  task'[w].fd # name'[Verified]
        BY DEF Tried
      <4>1. u # t /\ Running(u) /\ task[u].fd = 0
        BY <2>2, <2>8 DEF Running, DownloadInv, Closed
      <4>2. w = t \/ w = u \/ ~Running(w) BY <1>1, <2>10, <4>1 DEF DownloadInv, AtMostTwo
      <4>3. w # t => task[w].fd = 0 BY <4>1, <4>2 DEF Running, DownloadInv, Closed
      <4> QED BY <2>2, <2>8, <4>3
    <3>3. Sealed'
      <4>1. \A u \in Tasks : task'[u].fd \in {0, task[u].fd} BY <2>2, <2>8
      <4> QED BY <2>4, <2>5, <2>10, <4>1 DEF DownloadInv, Sealed, DataAt
    <3> QED BY <3>1, <3>2, <3>3
  <2> QED BY <2>6, <2>7, <2>9, <2>10, <2>3 DEF DownloadInv
<1> QED BY <1>2, <1>3

LEMMA CleanUpIInv == ASSUME DownloadInv, NEW t \in Tasks, CleanUp(t) PROVE DownloadInv'
<1>1. Running(t) /\ task[t].fd = 0 /\ Source(t) \in Sources
  BY SourceIs DEF CleanUp, DownloadInv, DownloadTypes, Closed, Running
<1>2. /\ name' \in [Paths -> Fds] /\ \A p \in Paths : name'[p] \in {0, name[p]}
      /\ name'[Installed] = name[Installed]
  <2>1. 0 \in Fds BY DEF Fds
  <2> QED BY <2>1, NamesDiffer DEF CleanUp, DownloadInv, DownloadTypes
<1>3. Spared
  <2>1. name[Installed] # 0 => name[Installed] \in Inodes BY NamesDiffer DEF DownloadInv, DownloadTypes, Fds
  <2>2. data \in [Inodes -> Seq(Chunks)] /\ Keeps(data) BY DEF DownloadInv, DownloadTypes, CleanUp
  <2> QED BY <1>2, <2>1, <2>2, NamesDiffer, KeptFiles DEF Spared
<1>4. "check" \in Pcs \ {"swap", "body"} BY DEF Pcs
<1> QED BY <1>1, <1>3, <1>4, GoesOn DEF CleanUp

LEMMA CheckIInv == ASSUME DownloadInv, NEW t \in Tasks, Check(t) PROVE DownloadInv'
<1>1. task[t] \in Records /\ Running(t) /\ task[t].fd = 0
  BY DEF Check, DownloadInv, DownloadTypes, Closed, Running
<1>2. Spared BY NamesDiffer, Spares DEF Check, Discards, Removes
<1>3. "smoke" \in Pcs \ {"swap", "body"} BY DEF Pcs
<1> QED BY <1>1, <1>2, <1>3, GoesOn, GivesUp DEF Check, Discards

(* Who has tried a file may install it: no task has it open.                   *)
LEMMA SmokeIInv == ASSUME DownloadInv, NEW t \in Tasks, Smoke(t) PROVE DownloadInv'
<1>1. task[t] \in Records /\ Running(t) /\ task[t].fd = 0
  BY DEF Smoke, DownloadInv, DownloadTypes, Closed, Running
<1>2. CASE ~Executes(name[Verified])
  <2>1. Spared BY <1>2, NamesDiffer, Spares DEF Smoke, Discards, Removes
  <2> QED BY <1>1, <1>2, <2>1, GivesUp DEF Smoke, Discards
<1>3. CASE Executes(name[Verified])
  <2> DEFINE r == [task[t] EXCEPT !.pc = "swap"]
  <2>1. "swap" \in Pcs BY DEF Pcs
  <2>2. r \in Records /\ r.pc = "swap" /\ r.fd = 0 BY <1>1, <2>1 DEF Records
  <2>3. /\ task' = [task EXCEPT ![t] = r] /\ UNCHANGED <<name, scene, process, crowded>>
        /\ Keeps(data)
    BY <1>3 DEF Smoke, Becomes
  <2>4. Spared BY <2>3, NamesDiffer, Spares
  <2> HIDE DEF r
  <2>5. DownloadTypes' BY <2>2, <2>3, <2>4 DEF DownloadInv, DownloadTypes, Spared
  <2>6. /\ task'[t] = r
        /\ \A u \in Tasks : u # t => task'[u] = task[u]
    BY <2>3 DEF DownloadInv, DownloadTypes
  <2>7. Distinct' /\ Closed' /\ AllEnded'
    BY <1>1, <2>2, <2>3, <2>6 DEF DownloadInv, Distinct, Closed, AllEnded, Running
  <2>8. ASSUME ~crowded PROVE (AtMostTwo /\ Tried /\ Sealed)'
    <3>1. AtMostTwo'
      <4>1. \A u \in Tasks : Running(u)' => Running(u) BY <1>1, <2>6 DEF Running
      <4> QED BY <2>8, <4>1 DEF DownloadInv, AtMostTwo
    <3>2. \A u \in Tasks : task'[u].fd = task[u].fd BY <1>1, <2>2, <2>6
    <3>3. Tried'
      <4>1. \A u \in Tasks : task[u].fd # name[Verified] BY <1>3 DEF Executes
      <4> QED BY <2>3, <3>2, <4>1 DEF Tried
    <3>4. Sealed' BY <2>3, <2>4, <2>8, <3>2 DEF DownloadInv, Sealed, DataAt, Spared
    <3> QED BY <3>1, <3>3, <3>4
  <2> QED BY <2>3, <2>5, <2>7, <2>8 DEF DownloadInv
<1> QED BY <1>2, <1>3

(* The exchange: of whoever makes it, what it installs is the artifact, and    *)
(* nobody has it open.                                                         *)
LEMMA Exchanges ==
    ASSUME DownloadInv, name' = [name EXCEPT ![Installed] = name[Verified], ![Verified] = 0],
           Keeps(data), DataAt(Verified) = Artifact
    PROVE  /\ name' \in [Paths -> Fds] /\ data' \in [Inodes -> Seq(Chunks)] /\ Distinct'
           /\ name'[Installed] = name[Verified] /\ name'[Verified] = 0
           /\ name'[Installed] # 0 => DataAt(Installed)' = Artifact
<1>1. 0 \in Fds BY DEF Fds
<1>2. /\ name' \in [Paths -> Fds] /\ name'[Installed] = name[Verified] /\ name'[Verified] = 0
      /\ Distinct'
  BY <1>1, NamesDiffer DEF DownloadInv, DownloadTypes, Distinct
<1>3. data \in [Inodes -> Seq(Chunks)] BY DEF DownloadInv, DownloadTypes
<1>4. name'[Installed] # 0 => name'[Installed] \in Inodes BY <1>2, NamesDiffer DEF Fds
<1> QED BY <1>2, <1>3, <1>4, NamesDiffer, KeptFiles DEF DataAt

LEMMA SwapIInv == ASSUME DownloadInv, NEW t \in Tasks, Swap(t) PROVE DownloadInv'
<1>1. task[t] \in Records /\ Running(t) /\ task[t].fd = 0 /\ task[t].pc = "swap"
  BY DEF Swap, DownloadInv, DownloadTypes, Closed, Running
<1>2. "exits" \in Pcs \ {"swap", "body"} BY DEF Pcs
<1>3. CASE name' = name
  <2>1. Spared BY <1>3, NamesDiffer, Spares DEF Swap
  <2>2. Becomes(t, [task[t] EXCEPT !.pc = "exits"]) \/ Becomes(t, Failed(task[t])) BY DEF Swap
  <2> QED BY <1>1, <1>2, <2>1, <2>2, GoesOn, GivesUp
<1>4. CASE /\ DataAt(Verified) = Artifact
           /\ name' = [name EXCEPT ![Installed] = name[Verified], ![Verified] = 0]
           /\ Becomes(t, [task[t] EXCEPT !.pc = "exits"])
  <2> DEFINE r == [task[t] EXCEPT !.pc = "exits"]
  <2>1. Keeps(data) BY DEF Swap
  <2>2. r \in Records /\ r.pc = "exits" /\ r.fd = 0 BY <1>1, <1>2 DEF Records
  <2>3. task' = [task EXCEPT ![t] = r] /\ UNCHANGED <<scene, process, crowded>>
    BY <1>4 DEF Becomes
  <2>4. /\ name' \in [Paths -> Fds] /\ data' \in [Inodes -> Seq(Chunks)] /\ Distinct'
        /\ name'[Installed] = name[Verified] /\ name'[Verified] = 0
        /\ name'[Installed] # 0 => DataAt(Installed)' = Artifact
    BY <1>4, <2>1, Exchanges
  <2> HIDE DEF r
  <2>5. DownloadTypes' BY <2>2, <2>3, <2>4 DEF DownloadInv, DownloadTypes
  <2>6. /\ task'[t] = r
        /\ \A u \in Tasks : u # t => task'[u] = task[u]
    BY <2>3 DEF DownloadInv, DownloadTypes
  <2>7. Closed' /\ AllEnded' BY <1>1, <2>2, <2>3, <2>6 DEF DownloadInv, Closed, AllEnded, Running
  <2>8. ASSUME ~crowded PROVE (AtMostTwo /\ Tried /\ Sealed)'
    <3>1. AtMostTwo'
      <4>1. \A u \in Tasks : Running(u)' => Running(u) BY <1>1, <2>6 DEF Running
      <4> QED BY <2>8, <4>1 DEF DownloadInv, AtMostTwo
    <3>2. \A u \in Tasks : task'[u].fd = task[u].fd BY <1>1, <2>2, <2>6
    <3>3. Tried' BY <2>4 DEF Tried
    <3>4. Sealed' BY <1>1, <2>4, <2>8, <3>2 DEF DownloadInv, Tried, Sealed
    <3> QED BY <3>1, <3>3, <3>4
  <2> QED BY <2>3, <2>4, <2>5, <2>7, <2>8 DEF DownloadInv
<1> QED BY <1>3, <1>4 DEF Swap

(* All tasks end with the process.                                             *)
LEMMA AllEnd ==
    ASSUME DownloadInv, task' = [u \in Tasks |-> Idle], process' \in {"up", "gone", "replaced"},
           UNCHANGED <<scene, name, crowded>>, data' \in [Inodes -> Seq(Chunks)],
           name[Installed] # 0 => data'[name[Installed]] = data[name[Installed]]
    PROVE  DownloadInv'
<1>1. Idle \in Records
  <2>1. <<>> \in Seq(Chunks) OBVIOUS
  <2> QED BY <2>1, SourcesFit, DownloadAssumption DEF Idle, Records, Pcs, Fds
<1>2. task' \in [Tasks -> Records] /\ \A u \in Tasks : task'[u].pc = "idle" /\ task'[u].fd = 0
  BY <1>1 DEF Idle
<1>3. DownloadTypes' BY <1>2 DEF DownloadInv, DownloadTypes
<1>4. Distinct' /\ Closed' /\ AllEnded' BY <1>2 DEF DownloadInv, Distinct, Closed, AllEnded
<1>5. AtMostTwo' /\ Tried' BY <1>2 DEF AtMostTwo, Tried, Running
<1>6. ~crowded => Sealed' BY <1>2 DEF DownloadInv, Sealed, DataAt
<1> QED BY <1>3, <1>4, <1>5, <1>6 DEF DownloadInv

LEMMA ExitIInv == ASSUME DownloadInv, NEW t \in Tasks, Exit(t) PROVE DownloadInv'
<1>1. Spared BY NamesDiffer, Spares DEF Exit
<1>2. data' \in [Inodes -> Seq(Chunks)] BY <1>1 DEF Spared
<1>3. name[Installed] # 0 => data'[name[Installed]] = data[name[Installed]]
  <2>1. name[Installed] # 0 => name[Installed] \in Inodes BY NamesDiffer DEF DownloadInv, DownloadTypes, Fds
  <2>2. data \in [Inodes -> Seq(Chunks)] /\ Keeps(data) /\ name' = name BY DEF DownloadInv, DownloadTypes, Exit
  <2> QED BY <2>1, <2>2, NamesDiffer, KeptFiles
<1> QED BY <1>2, <1>3, AllEnd DEF Exit

LEMMA HelperSwapsIInv == ASSUME DownloadInv, HelperSwaps PROVE DownloadInv'
<1>1. \A u \in Tasks : task[u].pc = "idle" /\ task[u].fd = 0
  BY DEF HelperSwaps, DownloadInv, AllEnded, Closed
<1>2. task' = task /\ scene' = scene /\ crowded' = crowded /\ Keeps(data)
      /\ process' \in {"up", "replaced"}
  BY DEF HelperSwaps
<1>3. CASE name' = name
  <2>1. Spared BY <1>2, <1>3, NamesDiffer, Spares
  <2>2. DownloadTypes' BY <1>2, <1>3, <2>1 DEF DownloadInv, DownloadTypes, Spared
  <2>3. Distinct' /\ Closed' /\ AllEnded' BY <1>1, <1>2, <1>3 DEF DownloadInv, Distinct, Closed, AllEnded
  <2>4. ASSUME ~crowded PROVE (AtMostTwo /\ Tried /\ Sealed)'
    BY <1>1, <1>2, <1>3, <2>1, <2>4 DEF DownloadInv, AtMostTwo, Tried, Sealed, DataAt, Running, Spared
  <2> QED BY <1>2, <2>2, <2>3, <2>4 DEF DownloadInv
<1>4. CASE /\ DataAt(Verified) = Artifact
           /\ name' = [name EXCEPT ![Installed] = name[Verified], ![Verified] = 0]
  <2>1. /\ name' \in [Paths -> Fds] /\ data' \in [Inodes -> Seq(Chunks)] /\ Distinct'
        /\ name'[Installed] # 0 => DataAt(Installed)' = Artifact
    BY <1>2, <1>4, Exchanges
  <2>2. DownloadTypes' BY <1>2, <2>1 DEF DownloadInv, DownloadTypes
  <2>3. Closed' /\ AllEnded' BY <1>1, <1>2 DEF DownloadInv, Closed, AllEnded
  <2>4. ASSUME ~crowded PROVE (AtMostTwo /\ Tried /\ Sealed)'
    BY <1>1, <1>2, <2>1, <2>4 DEF DownloadInv, AtMostTwo, Tried, Sealed, Running
  <2> QED BY <1>2, <2>1, <2>2, <2>3, <2>4 DEF DownloadInv
<1> QED BY <1>3, <1>4 DEF HelperSwaps

LEMMA DisturbedIInv == ASSUME DownloadInv, NEW t \in Tasks, Disturbed(t) PROVE DownloadInv'
<1>1. /\ task[t] \in Records /\ Running(t)
      /\ Source(t) \in Paths /\ Source(t) # Installed
  BY SourceIs, NamesDiffer
  DEF Disturbed, AnswerFails, Refused, StreamBreaks, WriteFails, MoveFails, Expires, DownloadInv, DownloadTypes, Running
<1>2. \A n \in {1, Attempts} : LET q == Troubled(task[t], n) IN
         q \in Records /\ q.fd = task[t].fd /\ q.pc = task[t].pc /\ q.body = task[t].body
  BY <1>1, Troubles
<1>3. CASE AnswerFails(t)
  <2>1. Spared BY <1>3, NamesDiffer, Spares DEF AnswerFails, Retryable
  <2> QED BY <1>1, <1>2, <1>3, <2>1, GivesUp DEF AnswerFails, Retryable
<1>4. CASE Refused(t)
  <2>1. Spared BY <1>1, <1>4, NamesDiffer, Spares DEF Refused, Fatal, Removes
  <2>2. Becomes(t, NextSource(Troubled(task[t], Attempts))) BY <1>4 DEF Refused, Fatal
  <2> QED BY <1>1, <1>2, <2>1, <2>2, GivesUp
<1>5. CASE StreamBreaks(t)
  <2>1. Spared BY <1>5, NamesDiffer, Spares DEF StreamBreaks, Retryable
  <2> QED BY <1>1, <1>2, <1>5, <2>1, GivesUp DEF StreamBreaks, Retryable
<1>6. CASE WriteFails(t)
  <2>1. Spared BY <1>1, <1>6, Spares DEF WriteFails, Fatal, Removes
  <2> QED BY <1>1, <1>2, <1>6, <2>1, GivesUp DEF WriteFails, Fatal
<1>7. CASE MoveFails(t)
  <2>1. Spared BY <1>7, NamesDiffer, Spares DEF MoveFails
  <2> QED BY <1>1, <1>2, <1>7, <2>1, GivesUp DEF MoveFails
<1>8. CASE Expires(t)
  <2> DEFINE q == Troubled(task[t], Attempts)
             r == [q EXCEPT !.expired = TRUE]
  <2>1. Spared BY <1>8, NamesDiffer, Spares DEF Expires
  <2>2. q \in Records /\ q.fd = task[t].fd /\ q.pc = task[t].pc BY <1>2
  <2> HIDE DEF q
  <2>3. r \in Records /\ r.fd = task[t].fd /\ r.pc = task[t].pc BY <2>2 DEF Records
  <2>4. Becomes(t, r) \/ Becomes(t, Failed(r)) BY <1>8 DEF Expires, q
  <2>5. r.pc # "body" => r.fd = 0 BY <2>3 DEF DownloadInv, Closed
  <2> HIDE DEF r
  <2>6. CASE Becomes(t, r) BY <1>1, <2>1, <2>3, <2>5, <2>6, OneMoves DEF Becomes
  <2>7. CASE Becomes(t, Failed(r)) BY <1>1, <2>1, <2>3, <2>7, GivesUp
  <2> QED BY <2>4, <2>6, <2>7
<1> QED BY <1>3, <1>4, <1>5, <1>6, <1>7, <1>8 DEF Disturbed

LEMMA PowerFailsIInv == ASSUME DownloadInv, PowerFails PROVE DownloadInv'
<1>1. \A d \in Seq(Chunks), n \in Nat : n < Len(d) => SubSeq(d, 1, n) \in Seq(Chunks) OBVIOUS
<1>2. PICK cut \in [Sources -> 0..Length] :
        Keeps([i \in Inodes |->
                 IF \E s \in Sources : name[s] = i /\ cut[s] < Len(data[i])
                 THEN SubSeq(data[i], 1, cut[CHOOSE s \in Sources : name[s] = i])
                 ELSE data[i]])
  BY DEF PowerFails
<1> DEFINE d == [i \in Inodes |->
                   IF \E s \in Sources : name[s] = i /\ cut[s] < Len(data[i])
                   THEN SubSeq(data[i], 1, cut[CHOOSE s \in Sources : name[s] = i])
                   ELSE data[i]]
<1>3. ASSUME NEW i \in Inodes PROVE d[i] \in Seq(Chunks)
  <2>1. data[i] \in Seq(Chunks) BY DEF DownloadInv, DownloadTypes
  <2>2. CASE \E s \in Sources : name[s] = i /\ cut[s] < Len(data[i])
    <3> DEFINE o == CHOOSE s \in Sources : name[s] = i
    <3>1. PICK s \in Sources : name[s] = i /\ cut[s] < Len(data[i]) BY <2>2
    <3>2. o \in Sources /\ name[o] = i BY <3>1
    <3>3. i # 0 BY DEF Inodes
    <3>4. o = s BY <3>1, <3>2, <3>3, NamesDiffer DEF DownloadInv, Distinct
    <3>5. cut[o] \in Nat /\ cut[o] < Len(data[i])
      <4>1. cut[s] \in 0..Length BY <1>2
      <4> HIDE DEF o
      <4> QED BY <3>1, <3>4, <4>1
    <3> HIDE DEF o
    <3>6. SubSeq(data[i], 1, cut[o]) \in Seq(Chunks) BY <1>1, <2>1, <3>5
    <3> QED BY <2>2, <3>6 DEF o
  <2> QED BY <2>1, <2>2
<1>4. d \in [Inodes -> Seq(Chunks)] BY <1>3
<1> HIDE DEF d
<1>5. Keeps(d) BY <1>2 DEF d
<1>6. data' \in [Inodes -> Seq(Chunks)] BY <1>4, <1>5, KeptFiles
<1> QED BY <1>6, AllEnd DEF PowerFails, DownloadInv, DownloadTypes

LEMMA StepIInv == DownloadInv /\ [DownloadNext]_downloadVars => DownloadInv'
<1> SUFFICES ASSUME DownloadInv, [DownloadNext]_downloadVars PROVE DownloadInv' OBVIOUS
<1>1. ASSUME NEW t \in Tasks, Progress(t) PROVE DownloadInv'
  BY <1>1, AskIInv, AnswerIInv, ChunkIInv, BodyEndsIInv, VerifyIInv, PlaceIInv, CleanUpIInv,
     CheckIInv, SmokeIInv, SwapIInv, ExitIInv
  DEF Progress
<1>2. CASE Reconnect
  BY <1>2 DEF Reconnect, DownloadInv, DownloadTypes, Distinct, Closed, AllEnded, AtMostTwo, Tried, Sealed, DataAt, Running
<1>3. CASE UNCHANGED downloadVars
  BY <1>3 DEF downloadVars, DownloadInv, DownloadTypes, Distinct, Closed, AllEnded, AtMostTwo, Tried, Sealed, DataAt, Running
<1> QED BY <1>1, <1>2, <1>3, TriggerIInv, DisturbedIInv, HelperSwapsIInv, PowerFailsIInv DEF DownloadNext

----------------------------------------------------------------------------
(* What is installed is the artifact and stays it, whatever other tasks have   *)
(* open when it is put in place, as long as no three of them run at a time     *)
(* (fetch, perform_upgrade, systemd_restart_swap, verify_new_binary).          *)
THEOREM InstallationIsTrue == DownloadSpec => []InstalledIsArtifact
<1>1. DownloadInv => InstalledIsArtifact BY DEF DownloadInv, Sealed, InstalledIsArtifact
<1> QED BY <1>1, Begins, StepIInv, PTL DEF DownloadSpec

----------------------------------------------------------------------------
(* Rounds.  The account of a round that nobody disturbed and that met no      *)
(* fault but failed attempts: as long as it may fail undeservedly, either a   *)
(* source that it has not come to yet has as many attempts to spare as it had *)
(* at the beginning, or the one it is at has, less the attempts that failed.  *)
Calm(t) == task[t].pc # "idle" /\ task[t].trouble < Attempts
Alone(t) == \A u \in Tasks : u # t => task[u].pc = "idle"

Begun(d) == Len(d) <= Length /\ \A i \in 1..Len(d) : d[i] = i

(* What the answer still brings is what the file lacks.                        *)
Ending(t) ==
    LET d == DataAt(Source(t))
        b == task[t].body
    IN  /\ Begun(d) /\ Len(d) + Len(b) = Length
        /\ \A j \in 1..Len(b) : b[j] = Len(d) + j
        /\ task[t].start = 0 => task[t].at = Len(d)

(* The attempts that are used up here: those that failed, and one more if the  *)
(* part will be refused as too long.                                           *)
Used(t) ==
    task[t].tries + IF /\ task[t].pc \in {"ask", "answer"} /\ scene.ranges[Source(t)]
                       /\ Len(DataAt(Source(t))) >= Length
                    THEN 1 ELSE 0
Chance(t) ==
    /\ Good(Source(t)) /\ task[t].spare + Used(t) <= task[t].trouble + Attempts
    /\ task[t].pc \in {"ask", "answer"} => Usable(Source(t))
    /\ task[t].pc = "body" => Ending(t)
    /\ task[t].pc = "verify" => DataAt(Source(t)) = Artifact
Ahead(t, m) == \E i \in 1..Len(Order) : i > task[t].src /\ Spare(Order[i]) >= m
Hope(t) == task[t].spare <= task[t].trouble \/ Ahead(t, task[t].spare) \/ Chance(t)

Account(t) ==
    /\ ~task[t].expired /\ (task[t].pc \in {"ask", "answer"} => task[t].at = 0)
    /\ task[t].pc = "answer" =>
          LET n == Len(DataAt(Source(t))) IN
          task[t].start = IF scene.size > 0 /\ n > scene.size THEN 0 ELSE n
    /\ task[t].pc = "body" => task[t].fd = Part(t) /\ Part(t) # 0
    /\ task[t].pc \in {"ask", "answer", "body", "verify"} =>
          Hope(t)
    /\ task[t].pc = "place" => DataAt(Source(t)) = Artifact
    /\ task[t].pc \in {"clean", "check", "smoke", "swap"} => DataAt(Verified) = Artifact
    /\ task[t].pc = "failed" => task[t].spare <= task[t].trouble \/ ~scene.runs

(* What an undisturbed round leaves at the sources that it has done with.      *)
Serves(s) == Good(s) => Usable(s)
Leaves(t) ==
    task[t].trouble = 0 =>
       /\ task[t].pc \in {"ask", "answer", "body", "verify", "place"} =>
             \A i \in 1..Len(Order) : i < task[t].src => Serves(Order[i])
       /\ task[t].pc \in {"check", "smoke", "swap"} => \A s \in Sources : name[s] = 0
       /\ task[t].pc = "clean" => name[Source(t)] = 0
       /\ task[t].pc = "failed" => \A s \in Sources : Serves(s)

Told(t) == Alone(t) /\ Account(t) /\ Leaves(t)
Round == \A t \in Tasks : Calm(t) => Told(t)

----------------------------------------------------------------------------
(* Files and the artifact.                                                     *)

LEMMA ArtifactIs ==
    /\ Artifact \in Seq(Chunks) /\ Len(Artifact) = Length /\ Artifact # <<>>
    /\ \A d \in Seq(Chunks) : d = Artifact <=> Len(d) = Length /\ Begun(d)
<1>1. Length \in Nat \ {0} BY DownloadAssumption
<1>2. Artifact \in Seq(Chunks) /\ Len(Artifact) = Length BY <1>1 DEF Artifact, Chunks
<1>3. \A i \in 1..Length : Artifact[i] = i BY DEF Artifact
<1>4. ASSUME NEW d \in Seq(Chunks), Len(d) = Length, Begun(d) PROVE d = Artifact
  BY <1>1, <1>4 DEF Begun, Artifact
<1> QED BY <1>1, <1>2, <1>3, <1>4 DEF Begun

LEMMA PrefixIs ==
    ASSUME NEW d \in Seq(Chunks)
    PROVE  IsPrefix(d, Artifact) <=> Begun(d)
<1>1. Length \in Nat /\ Artifact \in Seq(Chunks) /\ Len(Artifact) = Length
      /\ \A i \in 1..Length : Artifact[i] = i
  BY DownloadAssumption, ArtifactIs DEF Artifact
<1>2. SubSeq(d, 1, Len(d)) = d OBVIOUS
<1>3. ASSUME Len(d) <= Length
      PROVE  d = SubSeq(Artifact, 1, Len(d)) <=> \A i \in 1..Len(d) : d[i] = i
  <2> DEFINE a == SubSeq(Artifact, 1, Len(d))
  <2>1. a \in Seq(Chunks) /\ Len(a) = Len(d) /\ \A i \in 1..Len(d) : a[i] = i
    BY <1>1, <1>3
  <2> HIDE DEF a
  <2>2. (\A i \in 1..Len(d) : d[i] = i) => d = a BY <2>1
  <2> QED BY <2>1, <2>2 DEF a
<1> QED BY <1>1, <1>2, <1>3 DEF IsPrefix, Begun

LEMMA PartType == ASSUME DownloadTypes, NEW p \in Paths PROVE DataAt(p) \in Seq(Chunks)
<1>1. <<>> \in Seq(Chunks) OBVIOUS
<1> QED BY <1>1 DEF DataAt, DownloadTypes, Fds

LEMMA SpareIs ==
    ASSUME DownloadTypes, NEW s \in Sources
    PROVE  /\ Spare(s) \in 0..Attempts
           /\ Spare(s) > 0 => Usable(s) /\ Good(s)
           /\ Spare(s) + (IF scene.ranges[s] /\ Len(DataAt(s)) >= Length THEN 1 ELSE 0) <= Attempts
BY DownloadAssumption DEF Spare, Usable

LEMMA Elsewhere ==
    ASSUME DownloadTypes, NEW t \in Tasks, NEW i \in 1..Len(Order)
    PROVE  Order[i] \in Sources /\ (i # task[t].src => Order[i] # Source(t))
<1>1. DOMAIN Order = 1..Len(Order) /\ task[t].src \in 1..Len(Order)
  BY DownloadAssumption DEF DownloadTypes, Records
<1> QED BY <1>1, DownloadAssumption DEF Source, Sources, ToSet, IsInjective

(* What a path has as long as its name and the data stay.                      *)
LEMMA Stays ==
    ASSUME DownloadTypes, name' \in [Paths -> Fds], data' = data \/ Keeps(data), NEW p \in Paths,
           name'[p] = name[p]
    PROVE  DataAt(p)' = DataAt(p)
<1>1. CASE data' = data BY <1>1 DEF DataAt
<1>2. CASE Keeps(data)
  <2>1. data \in [Inodes -> Seq(Chunks)] /\ name'[p] \in {0} \cup Inodes BY DEF DownloadTypes, Fds
  <2>2. name'[p] # 0 => data'[name'[p]] = data[name[p]] BY <1>2, <2>1, KeptFiles
  <2> QED BY <2>2 DEF DataAt
<1> QED BY <1>1, <1>2

LEMMA Same ==
    ASSUME scene' = scene, NEW s, DataAt(s)' = DataAt(s)
    PROVE  /\ Spare(s)' = Spare(s) /\ (Usable(s)' <=> Usable(s)) /\ (Good(s)' <=> Good(s))
           /\ Serves(s)' <=> Serves(s)
BY DEF Spare, Usable, Good, Serves

(* A part that the artifact begins with is as good as any.                     *)
LEMMA BegunServes ==
    ASSUME DownloadTypes, NEW s \in Sources, Begun(DataAt(s))
    PROVE  (Good(s) => Usable(s)) /\ Serves(s)
<1>1. DataAt(s) \in Seq(Chunks) BY PartType, NamesDiffer
<1> QED BY <1>1, PrefixIs DEF Usable, Serves

LEMMA EmptyBegun == Begun(<<>>) BY DownloadAssumption DEF Begun

----------------------------------------------------------------------------
(* The steps of a round.                                                       *)

Aside(t) == \A s \in Sources : s # Source(t) => DataAt(s)' = DataAt(s)

(* A task comes to a source with as many attempts to spare, or with one ahead. *)
LEMMA Comes ==
    ASSUME DownloadTypes', NEW t \in Tasks, task'[t].pc = "ask", task'[t].tries = 0,
           \/ task'[t].spare <= task'[t].trouble
           \/ \E i \in 1..Len(Order) : i >= task'[t].src /\ Spare(Order[i])' >= task'[t].spare
    PROVE  Hope(t)'
<1>0. task'[t] \in Records BY DEF DownloadTypes
<1>1. /\ task'[t].spare \in Nat /\ task'[t].trouble \in Nat /\ task'[t].src \in 1..Len(Order)
  BY <1>0, DownloadAssumption DEF Records
<1>2. ASSUME NEW i \in 1..Len(Order), i >= task'[t].src, Spare(Order[i])' >= task'[t].spare,
             task'[t].spare > task'[t].trouble
      PROVE  Hope(t)'
  <2>1. CASE i > task'[t].src BY <1>2, <2>1 DEF Hope, Ahead
  <2>2. CASE i = task'[t].src
    <3>1. Source(t)' = Order[i] /\ Order[i] \in Sources
      <4>1. DOMAIN Order = 1..Len(Order) BY DownloadAssumption
      <4> QED BY <2>2, <4>1 DEF Source, Sources, ToSet
    <3>2. /\ Spare(Order[i])' \in 0..Attempts
          /\ Spare(Order[i])' > 0 => Usable(Order[i])' /\ Good(Order[i])'
          /\ Spare(Order[i])' + (IF scene'.ranges[Order[i]] /\ Len(DataAt(Order[i])') >= Length
                                 THEN 1 ELSE 0) <= Attempts
      BY <3>1, DownloadAssumption DEF Spare, Usable
    <3>3. Usable(Source(t))' /\ Good(Source(t))' BY <1>1, <1>2, <3>1, <3>2
    <3>4. Used(t)' = IF scene'.ranges[Order[i]] /\ Len(DataAt(Order[i])') >= Length THEN 1 ELSE 0
      BY <3>1 DEF Used
    <3>5. task'[t].spare + Used(t)' <= task'[t].trouble + Attempts
      <4> DEFINE one == Used(t)'
                 a == Spare(Order[i])'
                 b == task'[t].spare
      <4>1. /\ a \in Nat /\ b \in Nat /\ task'[t].trouble \in Nat /\ Attempts \in Nat
            /\ one \in Nat
        BY <1>1, <3>2, <3>4, DownloadAssumption
      <4>2. a >= b /\ a + one <= Attempts BY <1>2, <3>2, <3>4
      <4> HIDE DEF one, a, b
      <4>3. b + one <= task'[t].trouble + Attempts BY <4>1, <4>2
      <4> QED BY <4>3 DEF one, b
    <3> QED BY <3>3, <3>5 DEF Hope, Chance
  <2> QED BY <1>1, <1>2, <2>1, <2>2
<1> QED BY <1>1, <1>2 DEF Hope

(* A step at the same source: what is ahead stays.                             *)
LEMMA Remains ==
    ASSUME DownloadTypes, DownloadTypes', NEW t \in Tasks, scene' = scene, Aside(t),
           task'[t].src = task[t].src, task'[t].spare = task[t].spare,
           task'[t].trouble >= task[t].trouble, Hope(t), Chance(t) => Hope(t)'
    PROVE  Hope(t)'
<1>0. task[t] \in Records /\ task'[t] \in Records BY DEF DownloadTypes
<1>1. /\ task[t].spare \in Nat /\ task[t].trouble \in Nat /\ task'[t].trouble \in Nat
      /\ task[t].src \in 1..Len(Order) /\ Len(Order) \in Nat
  BY <1>0, DownloadAssumption DEF Records
<1>2. CASE task[t].spare <= task[t].trouble BY <1>1, <1>2 DEF Hope
<1>3. CASE Ahead(t, task[t].spare)
  <2>1. PICK i \in 1..Len(Order) : i > task[t].src /\ Spare(Order[i]) >= task[t].spare
    BY <1>3 DEF Ahead
  <2>2. DataAt(Order[i])' = DataAt(Order[i]) BY <1>1, <2>1, Elsewhere DEF Aside
  <2>3. Spare(Order[i])' = Spare(Order[i]) BY <2>2, Same
  <2> QED BY <2>1, <2>3 DEF Hope, Ahead
<1> QED BY <1>2, <1>3 DEF Hope

(* A task gives a source up.                                                   *)
LEMMA Abandons ==
    ASSUME DownloadInv, DownloadTypes', NEW t \in Tasks, scene' = scene, Aside(t), NEW r \in Records,
           task'[t] = NextSource(r), r.src = task[t].src, ~r.expired,
           r.spare <= r.trouble \/ Ahead(t, r.spare),
           r.trouble = 0 => \A i \in 1..Len(Order) :
              /\ i < task[t].src => Serves(Order[i])
              /\ i = task[t].src => Serves(Order[i])'
    PROVE  Account(t)' /\ Leaves(t)'
<1>0. DownloadTypes BY DEF DownloadInv
<1>1. /\ r.spare \in Nat /\ r.trouble \in Nat /\ r.src \in 1..Len(Order)
      /\ Len(Order) \in Nat \ {0}
  BY DownloadAssumption, SourcesFit DEF Records
<1>2. \A i \in 1..Len(Order) : i # task[t].src =>
         Spare(Order[i])' = Spare(Order[i]) /\ (Serves(Order[i])' <=> Serves(Order[i]))
  BY <1>0, Elsewhere, Same DEF Aside
<1>3. r.trouble = 0 => \A i \in 1..Len(Order) : i <= r.src => Serves(Order[i])'
  BY <1>1, <1>2
<1>4. CASE r.src < Len(Order)
  <2> DEFINE q == [r EXCEPT !.pc = "ask", !.src = @ + 1, !.tries = 0, !.fd = 0, !.body = <<>>,
                            !.at = 0]
  <2>1. task'[t] = q BY <1>4 DEF NextSource
  <2>2. /\ q.pc = "ask" /\ q.src = r.src + 1 /\ q.tries = 0 /\ q.at = 0 /\ ~q.expired
        /\ q.spare = r.spare /\ q.trouble = r.trouble
    BY DEF Records
  <2> HIDE DEF q
  <2>3. r.spare <= r.trouble \/ \E i \in 1..Len(Order) : i >= q.src /\ Spare(Order[i])' >= r.spare
    <3>1. CASE Ahead(t, r.spare)
      <4>1. PICK i \in 1..Len(Order) : i > r.src /\ Spare(Order[i]) >= r.spare BY <3>1 DEF Ahead
      <4> QED BY <1>1, <1>2, <2>2, <4>1
    <3> QED BY <3>1
  <2>4. Hope(t)' BY <2>1, <2>2, <2>3, Comes
  <2>5. Account(t)' BY <2>1, <2>2, <2>4 DEF Account
  <2>6. Leaves(t)'
    <3>1. /\ task'[t].trouble = r.trouble /\ task'[t].pc = "ask"
          /\ task'[t].src = r.src + 1
      BY <2>1, <2>2
    <3>2. ASSUME r.trouble = 0, NEW i \in 1..Len(Order), i < r.src + 1
          PROVE  Serves(Order[i])'
      <4>1. i <= r.src BY <1>1, <3>2
      <4> QED BY <1>3, <3>2, <4>1
    <3> QED BY <3>1, <3>2 DEF Leaves
  <2> QED BY <2>5, <2>6
<1>5. CASE ~(r.src < Len(Order))
  <2>1. task'[t] = Failed(r) BY <1>5 DEF NextSource
  <2>2. /\ task'[t].pc = "failed" /\ task'[t].at = 0 /\ ~task'[t].expired
        /\ task'[t].spare = r.spare /\ task'[t].trouble = r.trouble
    BY <2>1 DEF Failed, Records
  <2>3. r.spare <= r.trouble BY <1>1, <1>5 DEF Ahead
  <2>4. r.trouble = 0 => \A s \in Sources : Serves(s)'
    <3>1. \A s \in Sources : \E i \in 1..Len(Order) : s = Order[i]
      <4>1. DOMAIN Order = 1..Len(Order) BY DownloadAssumption
      <4> QED BY <4>1 DEF Sources, ToSet
    <3> QED BY <1>1, <1>3, <1>5, <3>1
  <2>5. Account(t)' BY <2>2, <2>3 DEF Account
  <2>6. Leaves(t)' BY <2>2, <2>4 DEF Leaves
  <2> QED BY <2>5, <2>6
<1> QED BY <1>4, <1>5

LEMMA RoundStep ==
    ASSUME DownloadInv, Round, NEW t \in Tasks, Running(t), NEW r \in Records,
           Becomes(t, r), r.trouble >= task[t].trouble,
           r.trouble < Attempts /\ Told(t) => Account(t)' /\ Leaves(t)'
    PROVE  Round'
<1>1. /\ task'[t] = r /\ task[t].trouble \in Nat /\ r.trouble \in Nat /\ Attempts \in Nat
      /\ \A u \in Tasks : u # t => task'[u] = task[u]
  BY DownloadAssumption DEF Becomes, DownloadInv, DownloadTypes, Records
<1>2. ASSUME Calm(t)' PROVE Told(t)'
  <2>1. r.trouble < Attempts BY <1>1, <1>2 DEF Calm
  <2>2. Calm(t) BY <1>1, <2>1 DEF Calm, Running
  <2>3. Told(t) BY <2>2 DEF Round
  <2>4. Alone(t)' BY <1>1, <2>3 DEF Told, Alone
  <2> QED BY <2>1, <2>3, <2>4 DEF Told
<1>3. ASSUME NEW u \in Tasks, u # t, Calm(u)' PROVE Told(u)'
  <2>1. Told(u) BY <1>1, <1>3 DEF Calm, Round
  <2> QED BY <1>3, <2>1 DEF Told, Alone, Running
<1> QED BY <1>2, <1>3 DEF Round

LEMMA NamesStay ==
    ASSUME DownloadInv, DownloadInv', NEW t \in Tasks, data' = data \/ Keeps(data),
           \A s \in Sources : s # Source(t) => name'[s] = name[s]
    PROVE  Aside(t)
BY NamesDiffer, Stays DEF DownloadInv, DownloadTypes, Aside

(* A step on at the same source.                                               *)
LEMMA Onward ==
    ASSUME DownloadInv, DownloadInv', NEW t \in Tasks, scene' = scene, Aside(t), Told(t),
           task'[t].src = task[t].src, task'[t].spare = task[t].spare,
           task'[t].trouble >= task[t].trouble, ~task'[t].expired,
           task[t].pc \in {"ask", "answer", "body", "verify"},
           task'[t].pc \in {"ask", "answer", "body", "verify", "place"},
           task'[t].pc \in {"ask", "answer"} => task'[t].at = 0,
           task'[t].pc = "answer" =>
              LET n == Len(DataAt(Source(t))') IN
              task'[t].start = IF scene.size > 0 /\ n > scene.size THEN 0 ELSE n,
           task'[t].pc = "body" => task'[t].fd = Part(t)' /\ Part(t)' # 0,
           task'[t].pc = "place" => DataAt(Source(t))' = Artifact,
           Chance(t) => Hope(t)'
    PROVE  Account(t)' /\ Leaves(t)'
<1>1. Hope(t)' BY Remains DEF DownloadInv, Told, Account
<1>2. Account(t)' BY <1>1 DEF Account
<1>3. task[t].trouble \in Nat /\ task'[t].trouble \in Nat /\ task[t].src \in 1..Len(Order)
      /\ Len(Order) \in Nat
  <2>1. task[t] \in Records /\ task'[t] \in Records BY DEF DownloadInv, DownloadTypes
  <2> QED BY <2>1, DownloadAssumption DEF Records
<1>4. ASSUME task'[t].trouble = 0, NEW i \in 1..Len(Order), i < task[t].src
      PROVE  Serves(Order[i])'
  <2>1. Serves(Order[i]) BY <1>3, <1>4 DEF Told, Leaves
  <2> QED BY <1>3, <1>4, <2>1, Elsewhere, Same DEF Aside, DownloadInv
<1> QED BY <1>2, <1>4 DEF Leaves

(* An attempt fails.                                                           *)
LEMMA Retries ==
    ASSUME DownloadInv, DownloadInv', NEW t \in Tasks, NEW s, s = Source(t), scene' = scene, Aside(t), Told(t),
           NEW q \in Records, q.src = task[t].src, q.spare = task[t].spare, ~q.expired,
           q.trouble >= task[t].trouble, task'[t] = Retry(q), task[t].pc \in {"answer", "body"},
           Chance(t) =>
              /\ Usable(s)'
              /\ q.spare + q.tries + 1
                 + (IF scene.ranges[s] /\ Len(DataAt(s)') >= Length THEN 1 ELSE 0)
                 <= q.trouble + Attempts,
           q.trouble = 0 => Serves(s)'
    PROVE  Account(t)' /\ Leaves(t)'
<1>1. /\ q.spare \in Nat /\ q.trouble \in Nat /\ q.tries \in Nat /\ Attempts \in Nat
      /\ task[t].trouble \in Nat /\ task[t].spare \in Nat
      /\ task[t].src \in 1..Len(Order) /\ Len(Order) \in Nat
  <2>1. task[t] \in Records BY DEF DownloadInv, DownloadTypes
  <2> QED BY <2>1, DownloadAssumption DEF Records
<1>2. CASE q.tries + 1 < Attempts
  <2> DEFINE r == [q EXCEPT !.pc = "ask", !.tries = @ + 1, !.fd = 0, !.body = <<>>, !.at = 0]
  <2>1. task'[t] = r BY <1>2 DEF Retry
  <2>2. /\ r.pc = "ask" /\ r.src = q.src /\ r.tries = q.tries + 1 /\ r.at = 0 /\ ~r.expired
        /\ r.spare = q.spare /\ r.trouble = q.trouble
    BY DEF Records
  <2> HIDE DEF r
  <2>3. ASSUME Chance(t) PROVE Hope(t)'
    <3>1. Source(t)' = s BY <2>1, <2>2 DEF Source
    <3>2. Good(s)' BY <2>3 DEF Chance, Good
    <3>3. Used(t)' = q.tries + 1
                     + (IF scene.ranges[s] /\ Len(DataAt(s)') >= Length THEN 1 ELSE 0)
      BY <2>1, <2>2, <3>1 DEF Used
    <3>4. task'[t].spare + Used(t)' <= task'[t].trouble + Attempts
      <4>1. task'[t].spare = q.spare /\ task'[t].trouble = q.trouble BY <2>1, <2>2
      <4> DEFINE one == IF scene.ranges[s] /\ Len(DataAt(s)') >= Length THEN 1 ELSE 0
      <4>2. one \in Nat /\ q.spare + q.tries + 1 + one <= q.trouble + Attempts BY <2>3
      <4>3. Used(t)' = q.tries + 1 + one BY <3>3
      <4> HIDE DEF one
      <4>4. q.spare + (q.tries + 1 + one) <= q.trouble + Attempts BY <1>1, <4>2
      <4> QED BY <4>1, <4>3, <4>4
    <3> QED BY <2>1, <2>2, <2>3, <3>1, <3>2, <3>4 DEF Hope, Chance
  <2> QED BY <2>1, <2>2, <2>3, Onward
<1>3. CASE ~(q.tries + 1 < Attempts)
  <2>1. task'[t] = NextSource(q) BY <1>3 DEF Retry
  <2>2. q.spare <= q.trouble \/ Ahead(t, q.spare)
    <3>1. Hope(t) BY DEF Told, Account
    <3>2. CASE Chance(t)
      <4> DEFINE one == IF scene.ranges[s] /\ Len(DataAt(s)') >= Length THEN 1 ELSE 0
      <4>1. one \in Nat /\ q.spare + q.tries + 1 + one <= q.trouble + Attempts BY <3>2
      <4> HIDE DEF one
      <4>2. Attempts <= q.tries + 1 BY <1>1, <1>3
      <4> QED BY <1>1, <4>1, <4>2
    <3> QED BY <1>1, <3>1, <3>2 DEF Hope
  <2>3. q.trouble = 0 => \A i \in 1..Len(Order) : i < task[t].src => Serves(Order[i])
    BY <1>1 DEF Told, Leaves
  <2>4. q.trouble = 0 => \A i \in 1..Len(Order) : i = task[t].src => Serves(Order[i])'
    BY DEF Source
  <2>5. DownloadTypes' BY DEF DownloadInv
  <2> QED BY <1>1, <2>1, <2>2, <2>3, <2>4, <2>5, Abandons
<1> QED BY <1>2, <1>3

LEMMA AskRound == ASSUME DownloadInv, DownloadInv', Round, NEW t \in Tasks, Ask(t) PROVE Round'
<1> DEFINE n == Len(DataAt(Source(t)))
           k == IF scene.size > 0 /\ n > scene.size THEN 0 ELSE n
           r == [task[t] EXCEPT !.pc = "answer", !.start = k]
<1>1. task[t] \in Records /\ Running(t) /\ task[t].pc = "ask" /\ "answer" \in Pcs
  BY DEF Ask, DownloadInv, DownloadTypes, Running, Pcs
<1>2. Aside(t) /\ scene' = scene /\ name' = name /\ data' = data
  BY NamesStay DEF Ask, Becomes
<1>3. CASE Becomes(t, NextSource(task[t])) /\ task[t].expired
  <2>1. ~Told(t) BY <1>3 DEF Told, Account
  <2>2. NextSource(task[t]) \in Records /\ NextSource(task[t]).trouble = task[t].trouble
        /\ task[t].trouble \in Nat
    BY <1>1, Returns DEF Records
  <2> QED BY <1>1, <1>3, <2>1, <2>2, RoundStep
<1>4. CASE Becomes(t, r)
  <2>1. /\ r.pc = "answer" /\ r.start = k /\ r.src = task[t].src /\ r.tries = task[t].tries
        /\ r.at = task[t].at /\ r.expired = task[t].expired
        /\ r.spare = task[t].spare /\ r.trouble = task[t].trouble /\ task[t].trouble \in Nat
    BY <1>1, DownloadAssumption DEF Records
  <2>a. r \in Records
    <3>1. k \in Nat
      <4>1. DataAt(Source(t)) \in Seq(Chunks) BY SourceIs, NamesDiffer, PartType DEF DownloadInv
      <4> QED BY <4>1
    <3> HIDE DEF k
    <3> QED BY <1>1, <3>1 DEF Records
  <2> HIDE DEF r
  <2>2. task'[t] = r BY <1>4 DEF Becomes, DownloadInv, DownloadTypes
  <2>3. Source(t)' = Source(t) BY <2>1, <2>2 DEF Source
  <2>4. DataAt(Source(t))' = DataAt(Source(t)) BY <1>2, <2>3 DEF DataAt
  <2>5. ASSUME Told(t) PROVE Account(t)' /\ Leaves(t)'
    <3>1. task[t].at = 0 /\ ~task[t].expired BY <1>1, <2>5 DEF Told, Account
    <3>2. Chance(t) => Chance(t)'
      BY <1>1, <1>2, <2>1, <2>2, <2>3, <2>4 DEF Chance, Used, Good, Usable
    <3> QED BY <1>1, <1>2, <2>1, <2>2, <2>4, <2>5, <3>1, <3>2, Onward DEF Hope
  <2> QED BY <1>1, <1>4, <2>a, <2>1, <2>5, RoundStep
<1> QED BY <1>3, <1>4 DEF Ask

(* The answer.                                                                 *)
LEMMA Goes ==
    ASSUME DownloadInv, DownloadInv', NEW t \in Tasks, NEW s \in Sources, s = Source(t), scene' = scene,
           name' = [name EXCEPT ![s] = 0], Keeps(data)
    PROVE  Aside(t) /\ DataAt(s)' = <<>> /\ Serves(s)' /\ (Good(s) => Usable(s)')
<1>1. Aside(t) BY NamesStay DEF DownloadInv, DownloadTypes
<1>2. DataAt(s)' = <<>> BY NamesDiffer DEF DataAt, DownloadInv, DownloadTypes
<1>3. /\ <<>> \in Seq(Chunks) /\ IsPrefix(<<>>, Artifact)
  <2>1. <<>> \in Seq(Chunks) OBVIOUS
  <2> QED BY <2>1, EmptyBegun, PrefixIs
<1> QED BY <1>1, <1>2, <1>3 DEF Serves, Usable, Good

LEMMA NotResumableRound ==
    ASSUME DownloadInv, DownloadInv', Round, NEW t \in Tasks, NEW s, s = Source(t), task[t].pc = "answer",
           NotResumable(t)
    PROVE  Round'
<1>1. task[t] \in Records /\ Running(t) /\ s \in Sources
  BY SourceIs DEF DownloadInv, DownloadTypes, Running
<1>2. /\ scene' = scene /\ name' = [name EXCEPT ![s] = 0] /\ Keeps(data)
      /\ Becomes(t, Retry(task[t]))
  BY DEF NotResumable, FatalRetryable, Removes, Becomes
<1>3. /\ task[t].trouble \in Nat /\ task[t].tries \in Nat /\ task[t].spare \in Nat
      /\ task[t].start \in Nat /\ Attempts \in Nat /\ Length \in Nat \ {0}
  BY <1>1, DownloadAssumption DEF Records
<1>4. Retry(task[t]) \in Records /\ Retry(task[t]).trouble = task[t].trouble BY <1>1, Returns
<1>5. ASSUME Told(t) PROVE Account(t)' /\ Leaves(t)'
  <2> DEFINE n == Len(DataAt(s))
  <2>1. task'[t] = Retry(task[t]) BY <1>2 DEF Becomes, DownloadInv, DownloadTypes
  <2>2. Aside(t) /\ DataAt(s)' = <<>> /\ Serves(s)' /\ (Good(s) => Usable(s)')
    BY <1>1, <1>2, Goes
  <2>3. n \in Nat
    <3>1. DataAt(s) \in Seq(Chunks) BY <1>1, PartType, NamesDiffer DEF DownloadInv
    <3> QED BY <3>1
  <2>4. ~task[t].expired /\ task[t].start = IF scene.size > 0 /\ n > scene.size THEN 0 ELSE n
    BY <1>5 DEF Told, Account
  <2>5. ASSUME Chance(t)
        PROVE  Usable(s)' /\ task[t].spare + task[t].tries + 1 <= task[t].trouble + Attempts
    <3>1. Good(s) BY <2>5 DEF Chance
    <3>2. Total(t) = Length BY <3>1, ArtifactIs DEF Total, Good
    <3>3. scene.ranges[s] /\ task[t].start > 0 /\ task[t].start >= Length
      BY <3>2 DEF NotResumable, Honoured
    <3>4. n >= Length BY <1>3, <2>3, <2>4, <3>3
    <3>5. Used(t) = task[t].tries + 1 BY <3>3, <3>4 DEF Used
    <3> QED BY <1>3, <2>2, <2>5, <3>1, <3>5 DEF Chance
  <2>6. Len(DataAt(s)') = 0 BY <2>2
  <2>7. Chance(t) =>
              /\ Usable(s)'
              /\ task[t].spare + task[t].tries + 1
                 + (IF scene.ranges[s] /\ Len(DataAt(s)') >= Length THEN 1 ELSE 0)
                 <= task[t].trouble + Attempts
    BY <1>3, <2>5, <2>6
  <2> HIDE DEF n
  <2> QED BY <1>1, <1>2, <1>3, <1>5, <2>1, <2>2, <2>4, <2>7, Retries
<1> QED BY <1>1, <1>2, <1>3, <1>4, <1>5, RoundStep

LEMMA MismatchRound ==
    ASSUME DownloadInv, DownloadInv', Round, NEW t \in Tasks, NEW s, s = Source(t), task[t].pc = "answer",
           Mismatch(t)
    PROVE  Round'
<1>1. task[t] \in Records /\ Running(t) /\ s \in Sources
  BY SourceIs DEF DownloadInv, DownloadTypes, Running
<1>2. /\ scene' = scene /\ name' = [name EXCEPT ![s] = 0] /\ Keeps(data)
      /\ Becomes(t, NextSource(task[t]))
  BY DEF Mismatch, Fatal, Removes, Becomes
<1>3. task[t].trouble \in Nat BY <1>1, DownloadAssumption DEF Records
<1>4. NextSource(task[t]) \in Records /\ NextSource(task[t]).trouble = task[t].trouble BY <1>1, Returns
<1>5. ASSUME Told(t) PROVE Account(t)' /\ Leaves(t)'
  <2>1. task'[t] = NextSource(task[t]) BY <1>2 DEF Becomes, DownloadInv, DownloadTypes
  <2>2. Aside(t) /\ Serves(s)' BY <1>1, <1>2, Goes
  <2>3. ~Chance(t)
    <3> SUFFICES ASSUME Chance(t) PROVE FALSE OBVIOUS
    <3>1. Total(t) = Length BY ArtifactIs DEF Total, Good, Chance
    <3>2. scene.size \in {0, Length} BY DEF DownloadInv, DownloadTypes, Scene
    <3>3. Honoured(t) /\ Part(t) = 0 BY <3>1, <3>2 DEF Mismatch, WrongSize
    <3>4. Len(DataAt(s)) = 0 BY <3>3 DEF DataAt, Part
    <3>5. task[t].start = 0 BY <1>5, <3>4 DEF Told, Account
    <3> QED BY <3>3, <3>5 DEF Honoured
  <2>4. task[t].spare <= task[t].trouble \/ Ahead(t, task[t].spare)
    BY <1>5, <2>3 DEF Told, Account, Hope
  <2>5. task[t].trouble = 0 => \A i \in 1..Len(Order) :
              /\ i < task[t].src => Serves(Order[i])
              /\ i = task[t].src => Serves(Order[i])'
    BY <1>5, <2>2 DEF Told, Leaves, Source
  <2>6. ~task[t].expired /\ DownloadTypes' BY <1>5 DEF Told, Account, DownloadInv
  <2> QED BY <1>1, <1>2, <2>1, <2>2, <2>4, <2>5, <2>6, Abandons
<1> QED BY <1>1, <1>2, <1>3, <1>4, <1>5, RoundStep

(* The file is what the answer goes on from.                                   *)
LEMMA Opened ==
    ASSUME DownloadInv, DownloadInv', NEW t \in Tasks, NEW s, s = Source(t), scene' = scene, Aside(t), Told(t),
           task[t].pc = "answer", NEW r \in Records, task'[t] = r, r.pc = "body", ~r.expired,
           r.src = task[t].src, r.tries = task[t].tries, r.spare = task[t].spare,
           r.trouble = task[t].trouble, r.fd = Part(t)', Part(t)' # 0,
           Chance(t) => Ending(t)'
    PROVE  Account(t)' /\ Leaves(t)'
<1>1. /\ task[t].trouble \in Nat /\ task[t].tries \in Nat /\ task[t].spare \in Nat
      /\ Attempts \in Nat
  <2>1. task[t] \in Records BY DEF DownloadInv, DownloadTypes
  <2> QED BY <2>1, DownloadAssumption DEF Records
<1>2. Chance(t) => Chance(t)'
  <2>1. Source(t)' = s BY DEF Source
  <2>2. Used(t)' = task[t].tries BY <1>1 DEF Used
  <2>3. Used(t) = task[t].tries \/ Used(t) = task[t].tries + 1 BY <1>1 DEF Used
  <2> QED BY <1>1, <2>1, <2>2, <2>3 DEF Chance, Good
<1> QED BY <1>1, <1>2, Onward DEF Hope

LEMMA ResumedRound ==
    ASSUME DownloadInv, DownloadInv', Round, NEW t \in Tasks, NEW s, s = Source(t), task[t].pc = "answer",
           Resumed(t)
    PROVE  Round'
<1> DEFINE b == SubSeq(scene.content[s], task[t].start + 1, Total(t))
           r == [task[t] EXCEPT !.pc = "body", !.fd = Part(t), !.body = b]
<1>1. task[t] \in Records /\ Running(t) /\ s \in Sources
  BY SourceIs DEF DownloadInv, DownloadTypes, Running
<1>2. task[t].trouble \in Nat /\ task[t].start \in Nat /\ Length \in Nat
  BY <1>1, DownloadAssumption DEF Records
<1>3. scene' = scene /\ name' = name /\ data' = data /\ Becomes(t, r)
  BY DEF Resumed, Becomes
<1>4. task'[t] = r BY <1>3 DEF Becomes, DownloadInv, DownloadTypes
<1>5. /\ r.pc = "body" /\ r.fd = Part(t) /\ r.body = b /\ r.start = task[t].start
      /\ r.src = task[t].src /\ r.tries = task[t].tries /\ r.expired = task[t].expired
      /\ r.spare = task[t].spare /\ r.trouble = task[t].trouble
  BY <1>1 DEF Records
<1>6. r \in Records BY <1>4 DEF DownloadInv, DownloadTypes
<1> HIDE DEF r
<1>7. ASSUME Told(t) PROVE Account(t)' /\ Leaves(t)'
  <2>1. Aside(t) BY <1>3, NamesStay
  <2>2. Source(t)' = s BY <1>4, <1>5 DEF Source
  <2>3. DataAt(s)' = DataAt(s) BY <1>3 DEF DataAt
  <2>4. Part(t)' = Part(t) /\ Part(t) # 0 BY <1>3, <2>2 DEF Part, Resumed
  <2>5. DataAt(s) \in Seq(Chunks) BY <1>1, PartType, NamesDiffer DEF DownloadInv
  <2>6. /\ ~task[t].expired /\ task[t].start > 0
        /\ task[t].start = IF scene.size > 0 /\ Len(DataAt(s)) > scene.size THEN 0
                           ELSE Len(DataAt(s))
    BY <1>7 DEF Told, Account, Resumed, Honoured
  <2>7. ASSUME Chance(t) PROVE Ending(t)'
    <3>1. scene.content[s] = Artifact BY <2>7 DEF Chance, Good
    <3>2. Total(t) = Length BY <3>1, ArtifactIs DEF Total
    <3>3. Len(DataAt(s)) = task[t].start /\ task[t].start < Length
      BY <2>6, <3>2 DEF Resumed
    <3>4. Begun(DataAt(s))
      <4>1. Usable(s) /\ scene.ranges[s] BY <2>7 DEF Chance, Resumed, Honoured
      <4> QED BY <1>2, <2>5, <3>3, <4>1, PrefixIs DEF Usable
    <3>5. Len(b) = Length - task[t].start /\ \A j \in 1..Len(b) : b[j] = task[t].start + j
      <4>1. \A i \in 1..Length : Artifact[i] = i BY DEF Artifact
      <4>2. Artifact \in Seq(Chunks) /\ Len(Artifact) = Length BY ArtifactIs
      <4>3. \A m \in Nat : m < Len(Artifact) =>
               LET c == SubSeq(Artifact, m + 1, Len(Artifact)) IN
               Len(c) = Len(Artifact) - m /\ \A j \in 1..Len(c) : c[j] = Artifact[m + j]
        BY <1>2, <4>2
      <4>4. b = SubSeq(Artifact, task[t].start + 1, Len(Artifact)) BY <3>1, <3>2, <4>2
      <4>5. Len(b) = Length - task[t].start /\ \A j \in 1..Len(b) : b[j] = Artifact[task[t].start + j]
        BY <1>2, <3>3, <4>2, <4>3, <4>4
      <4> HIDE DEF b
      <4>6. ASSUME NEW j \in 1..Len(b) PROVE task[t].start + j \in 1..Length
        BY <1>2, <3>3, <4>5
      <4> QED BY <4>1, <4>5, <4>6
    <3> HIDE DEF b
    <3> QED BY <1>2, <1>4, <1>5, <2>2, <2>3, <2>6, <3>3, <3>4, <3>5 DEF Ending
  <2> QED BY <1>3, <1>4, <1>5, <1>6, <1>7, <2>1, <2>4, <2>6, <2>7, Opened
<1> QED BY <1>1, <1>2, <1>3, <1>5, <1>6, <1>7, RoundStep

LEMMA WholeRound ==
    ASSUME DownloadInv, DownloadInv', Round, NEW t \in Tasks, NEW s, s = Source(t), task[t].pc = "answer",
           Whole(t)
    PROVE  Round'
<1> DEFINE i == IF Part(t) = 0 THEN NewInode ELSE Part(t)
           r == [task[t] EXCEPT !.pc = "body", !.fd = i, !.start = 0, !.body = scene.content[s]]
<1>1. task[t] \in Records /\ Running(t) /\ s \in Sources /\ s \in Paths /\ task[t].fd = 0
  BY SourceIs, NamesDiffer DEF DownloadInv, DownloadTypes, Running, Closed
<1>2. task[t].trouble \in Nat /\ Length \in Nat BY <1>1, DownloadAssumption DEF Records
<1>3. /\ scene' = scene /\ name' = [name EXCEPT ![s] = i] /\ data' = [data EXCEPT ![i] = <<>>]
      /\ Becomes(t, r)
  BY DEF Whole, Becomes
<1>4. i \in Inodes /\ (i = name[s] \/ i \notin InUse)
  <2>1. name[s] # 0 => name[s] \in Inodes BY <1>1 DEF DownloadInv, DownloadTypes, Fds
  <2> QED BY <1>1, <2>1, InodeFree DEF Part, DownloadInv
<1> HIDE DEF i
<1>5. task'[t] = r BY <1>3 DEF Becomes, DownloadInv, DownloadTypes
<1>6. /\ r.pc = "body" /\ r.fd = i /\ r.body = scene.content[s] /\ r.start = 0
      /\ r.src = task[t].src /\ r.tries = task[t].tries /\ r.expired = task[t].expired
      /\ r.spare = task[t].spare /\ r.trouble = task[t].trouble /\ r.at = task[t].at
  BY <1>1 DEF Records
<1>7. r \in Records BY <1>5 DEF DownloadInv, DownloadTypes
<1> HIDE DEF r
<1>8. ASSUME Told(t) PROVE Account(t)' /\ Leaves(t)'
  <2>1. Aside(t)
    <3> SUFFICES ASSUME NEW p \in Sources, p # s PROVE DataAt(p)' = DataAt(p) BY DEF Aside
    <3>1. p \in Paths /\ name'[p] = name[p] /\ name[p] \in InUse
      BY <1>3, NamesDiffer DEF DownloadInv, DownloadTypes, InUse
    <3>2. name[p] # i
      <4>1. i # 0 BY <1>4 DEF Inodes
      <4> QED BY <1>1, <1>4, <3>1, <4>1 DEF DownloadInv, Distinct
    <3>3. name[p] # 0 => name[p] \in Inodes BY <3>1 DEF DownloadInv, DownloadTypes, Fds
    <3> QED BY <1>3, <3>1, <3>2, <3>3 DEF DataAt, DownloadInv, DownloadTypes
  <2>2. Source(t)' = s BY <1>5, <1>6 DEF Source
  <2>3. name'[s] = i /\ i # 0 BY <1>1, <1>3, <1>4 DEF DownloadInv, DownloadTypes, Inodes
  <2>4. DataAt(s)' = <<>> BY <1>3, <1>4, <2>3 DEF DataAt, DownloadInv, DownloadTypes
  <2>5. Part(t)' = i BY <2>2, <2>3 DEF Part
  <2>6. ~task[t].expired /\ task[t].at = 0 BY <1>8 DEF Told, Account
  <2>7. ASSUME Chance(t) PROVE Ending(t)'
    <3>1. r.body = Artifact BY <1>6, <2>7 DEF Chance, Good
    <3>2. Len(Artifact) = Length /\ \A j \in 1..Length : Artifact[j] = j
      BY ArtifactIs DEF Artifact
    <3>3. Len(<<>>) = 0 OBVIOUS
    <3>4. Begun(DataAt(s)') BY <2>4, EmptyBegun
    <3> QED BY <1>2, <1>5, <1>6, <2>2, <2>4, <2>6, <3>1, <3>2, <3>3, <3>4 DEF Ending
  <2> QED BY <1>3, <1>5, <1>6, <1>7, <1>8, <2>1, <2>3, <2>5, <2>6, <2>7, Opened
<1> QED BY <1>1, <1>2, <1>3, <1>6, <1>7, <1>8, RoundStep

(* The body.                                                                   *)
LEMMA WrittenAtEnd ==
    ASSUME NEW d \in Seq(Chunks), Begun(d), NEW b \in Seq(Chunks), b # <<>>,
           Len(d) + Len(b) = Length, \A j \in 1..Len(b) : b[j] = Len(d) + j
    PROVE  LET w == Written(d, Len(d), Head(b)) IN
           /\ Begun(w) /\ Len(w) = Len(d) + 1 /\ Len(w) + Len(Tail(b)) = Length
           /\ \A j \in 1..Len(Tail(b)) : Tail(b)[j] = Len(w) + j
<1> DEFINE w == Written(d, Len(d), Head(b))
<1>1. Len(d) \in Nat /\ Len(b) \in Nat \ {0} /\ Length \in Nat BY DownloadAssumption
<1>2. Head(b) = Len(d) + 1 BY <1>1
<1>3. w = [i \in 1..(Len(d) + 1) |-> IF i = Len(d) + 1 THEN Len(d) + 1 ELSE d[i]]
  BY <1>1, <1>2 DEF Written
<1>4. \A i \in 1..Len(d) : d[i] = i BY DEF Begun
<1>5. w \in Seq(Nat) /\ Len(w) = Len(d) + 1
  <2>1. \A i \in 1..(Len(d) + 1) : (IF i = Len(d) + 1 THEN Len(d) + 1 ELSE d[i]) \in Nat
    BY <1>1, <1>4
  <2>2. w \in [1..(Len(d) + 1) -> Nat] BY <1>3, <2>1
  <2>3. Len(d) + 1 \in Nat BY <1>1
  <2> HIDE DEF w
  <2> QED BY <2>2, <2>3
<1>6. \A i \in 1..Len(w) : w[i] = i
  <2> SUFFICES ASSUME NEW i \in 1..(Len(d) + 1) PROVE w[i] = i BY <1>5
  <2>1. w[i] = IF i = Len(d) + 1 THEN Len(d) + 1 ELSE d[i] BY <1>3
  <2>2. i # Len(d) + 1 => i \in 1..Len(d) BY <1>1
  <2> QED BY <1>4, <2>1, <2>2
<1>7. Len(Tail(b)) = Len(b) - 1 /\ \A j \in 1..Len(Tail(b)) : Tail(b)[j] = b[j + 1]
  BY <1>1
<1> HIDE DEF w
<1>8. \A j \in 1..Len(Tail(b)) : Tail(b)[j] = Len(w) + j
  <2> SUFFICES ASSUME NEW j \in 1..Len(Tail(b)) PROVE Tail(b)[j] = Len(w) + j OBVIOUS
  <2>1. j + 1 \in 1..Len(b) BY <1>1, <1>7
  <2>2. b[j + 1] = Len(d) + (j + 1) BY <2>1
  <2> QED BY <1>1, <1>5, <1>7, <2>2
<1>9. Begun(w) /\ Len(w) + Len(Tail(b)) = Length BY <1>1, <1>5, <1>6, <1>7 DEF Begun
<1> QED BY <1>5, <1>8, <1>9 DEF w

LEMMA ChunkRound ==
    ASSUME DownloadInv, DownloadInv', Round, NEW t \in Tasks, NEW s, s = Source(t), Chunk(t)
    PROVE  Round'
<1> DEFINE f == task[t].fd
           w == Written(data[f], IF task[t].start > 0 THEN Len(data[f]) ELSE task[t].at,
                        Head(task[t].body))
           r == [task[t] EXCEPT !.body = Tail(@), !.at = IF task[t].start > 0 THEN 0 ELSE @ + 1]
<1>1. /\ task[t] \in Records /\ Running(t) /\ task[t].pc = "body" /\ task[t].body # <<>>
      /\ s \in Sources /\ s \in Paths
  BY SourceIs, NamesDiffer DEF Chunk, DownloadInv, DownloadTypes, Running
<1>2. /\ task[t].trouble \in Nat /\ task[t].body \in Seq(Chunks) /\ Length \in Nat
      /\ task[t].start \in Nat
  BY <1>1, DownloadAssumption DEF Records
<1>3. /\ scene' = scene /\ name' = name /\ data' = [data EXCEPT ![f] = w] /\ Becomes(t, r)
  BY DEF Chunk, Becomes
<1>4. task'[t] = r BY <1>3 DEF Becomes, DownloadInv, DownloadTypes
<1>5. /\ r.pc = "body" /\ r.fd = f /\ r.body = Tail(task[t].body) /\ r.start = task[t].start
      /\ r.src = task[t].src /\ r.tries = task[t].tries /\ r.expired = task[t].expired
      /\ r.spare = task[t].spare /\ r.trouble = task[t].trouble
      /\ r.at = IF task[t].start > 0 THEN 0 ELSE task[t].at + 1
  BY <1>1 DEF Records
<1>6. r \in Records BY <1>4 DEF DownloadInv, DownloadTypes
<1> HIDE DEF r, w
<1>7. ASSUME Told(t) PROVE Account(t)' /\ Leaves(t)'
  <2>1. ~task[t].expired /\ f = name[s] /\ f # 0 BY <1>1, <1>7 DEF Told, Account, Part
  <2>2. f \in Inodes BY <1>1, <2>1 DEF DownloadInv, DownloadTypes, Fds
  <2>3. Aside(t)
    <3> SUFFICES ASSUME NEW p \in Sources, p # s PROVE DataAt(p)' = DataAt(p) BY DEF Aside
    <3>1. p \in Paths BY NamesDiffer
    <3>2. name[p] # f BY <1>1, <2>1, <3>1 DEF DownloadInv, Distinct
    <3>3. name[p] # 0 => name[p] \in Inodes BY <3>1 DEF DownloadInv, DownloadTypes, Fds
    <3> QED BY <1>3, <3>2, <3>3 DEF DataAt, DownloadInv, DownloadTypes
  <2>4. Source(t)' = s BY <1>4, <1>5 DEF Source
  <2>5. DataAt(s) = data[f] /\ DataAt(s)' = w /\ data[f] \in Seq(Chunks)
    BY <1>3, <2>1, <2>2 DEF DataAt, DownloadInv, DownloadTypes
  <2>6. Part(t)' = f BY <1>3, <2>1, <2>4 DEF Part
  <2>7. ASSUME Chance(t) PROVE Chance(t)'
    <3>1. Ending(t) BY <1>1, <2>7 DEF Chance
    <3>a. /\ Begun(data[f]) /\ Len(data[f]) + Len(task[t].body) = Length
          /\ \A j \in 1..Len(task[t].body) : task[t].body[j] = Len(data[f]) + j
          /\ task[t].start = 0 => task[t].at = Len(data[f])
      BY <2>5, <3>1 DEF Ending
    <3>2. w = Written(data[f], Len(data[f]), Head(task[t].body))
      <4>1. (IF task[t].start > 0 THEN Len(data[f]) ELSE task[t].at) = Len(data[f])
        BY <1>2, <3>a
      <4> QED BY <4>1 DEF w
    <3>3. /\ Begun(w) /\ Len(w) = Len(data[f]) + 1 /\ Len(w) + Len(r.body) = Length
          /\ \A j \in 1..Len(r.body) : r.body[j] = Len(w) + j
      <4> DEFINE d == data[f]
                 b == task[t].body
      <4>1. d \in Seq(Chunks) /\ b \in Seq(Chunks) /\ b # <<>> /\ r.body = Tail(b)
        BY <1>1, <1>2, <1>5, <2>5
      <4>2. w = Written(d, Len(d), Head(b)) BY <3>2
      <4>3. /\ Begun(d) /\ Len(d) + Len(b) = Length
            /\ \A j \in 1..Len(b) : b[j] = Len(d) + j
        BY <3>a
      <4> HIDE DEF d, b
      <4>4. /\ Begun(w) /\ Len(w) = Len(d) + 1 /\ Len(w) + Len(Tail(b)) = Length
            /\ \A j \in 1..Len(Tail(b)) : Tail(b)[j] = Len(w) + j
        BY <4>1, <4>2, <4>3, WrittenAtEnd
      <4> QED BY <4>1, <4>4 DEF d
    <3>4. r.start = 0 => r.at = Len(w) BY <1>2, <1>5, <3>a, <3>3
    <3>5. Ending(t)' BY <1>4, <2>4, <2>5, <3>3, <3>4 DEF Ending
    <3>6. Used(t)' = task[t].tries /\ Used(t) = task[t].tries
      <4>1. task[t].tries \in Nat BY <1>1 DEF Records
      <4> QED BY <1>1, <1>4, <1>5, <4>1 DEF Used
    <3> QED BY <1>3, <1>4, <1>5, <2>4, <2>7, <3>5, <3>6 DEF Chance, Good
  <2> QED BY <1>1, <1>2, <1>3, <1>4, <1>5, <1>7, <2>1, <2>3, <2>6, <2>7, Onward DEF Hope
<1> QED BY <1>1, <1>2, <1>3, <1>5, <1>6, <1>7, RoundStep

LEMMA BodyEndsRound ==
    ASSUME DownloadInv, DownloadInv', Round, NEW t \in Tasks, NEW s, s = Source(t), BodyEnds(t)
    PROVE  Round'
<1> DEFINE r == [task[t] EXCEPT !.pc = "verify", !.fd = 0, !.at = 0]
<1>1. /\ task[t] \in Records /\ Running(t) /\ task[t].pc = "body" /\ task[t].body = <<>>
      /\ s \in Paths /\ s \in Sources
  BY SourceIs, NamesDiffer DEF BodyEnds, DownloadInv, DownloadTypes, Running
<1>2. task[t].trouble \in Nat BY <1>1, DownloadAssumption DEF Records
<1>3. scene' = scene /\ name' = name /\ Keeps(data) /\ Becomes(t, r)
  BY DEF BodyEnds, Becomes
<1>4. task'[t] = r BY <1>3 DEF Becomes, DownloadInv, DownloadTypes
<1>5. /\ r.pc = "verify" /\ r.src = task[t].src /\ r.tries = task[t].tries
      /\ r.expired = task[t].expired /\ r.spare = task[t].spare /\ r.trouble = task[t].trouble
  BY <1>1 DEF Records
<1>6. r \in Records BY <1>4 DEF DownloadInv, DownloadTypes
<1> HIDE DEF r
<1>7. ASSUME Told(t) PROVE Account(t)' /\ Leaves(t)'
  <2>1. Aside(t) /\ DataAt(s)' = DataAt(s)
    BY <1>1, <1>3, NamesStay, Stays DEF DownloadInv, DownloadTypes
  <2>2. Source(t)' = s BY <1>4, <1>5 DEF Source
  <2>3. ~task[t].expired BY <1>7 DEF Told, Account
  <2>4. ASSUME Chance(t) PROVE Chance(t)'
    <3>1. Ending(t) BY <1>1, <2>4 DEF Chance
    <3>2. DataAt(s) \in Seq(Chunks) BY <1>1, PartType DEF DownloadInv
    <3>3. Len(task[t].body) = 0 BY <1>1
    <3>4. DataAt(s) = Artifact BY <3>1, <3>2, <3>3, ArtifactIs DEF Ending
    <3>5. Used(t)' = task[t].tries /\ Used(t) = task[t].tries
      <4>1. task[t].tries \in Nat BY <1>1 DEF Records
      <4> QED BY <1>1, <1>4, <1>5, <4>1 DEF Used
    <3> QED BY <1>3, <1>4, <1>5, <2>1, <2>2, <2>4, <3>4, <3>5 DEF Chance, Good
  <2> QED BY <1>1, <1>2, <1>3, <1>4, <1>5, <1>7, <2>1, <2>3, <2>4, Onward DEF Hope
<1> QED BY <1>1, <1>2, <1>3, <1>5, <1>6, <1>7, RoundStep

(* A step from one stage to the next changes nothing but the stage.            *)
LEMMA Moved ==
    ASSUME DownloadInv, NEW t \in Tasks, NEW p \in Pcs, Becomes(t, [task[t] EXCEPT !.pc = p])
    PROVE  /\ task'[t] = [task[t] EXCEPT !.pc = p] /\ [task[t] EXCEPT !.pc = p] \in Records
           /\ task'[t].pc = p /\ task'[t].src = task[t].src /\ task'[t].tries = task[t].tries
           /\ task'[t].expired = task[t].expired /\ task'[t].spare = task[t].spare
           /\ task'[t].trouble = task[t].trouble /\ task[t].trouble \in Nat
           /\ Source(t)' = Source(t) /\ scene' = scene
<1>1. task[t] \in Records /\ task'[t] = [task[t] EXCEPT !.pc = p] /\ scene' = scene
  BY DEF Becomes, DownloadInv, DownloadTypes
<1>2. [task[t] EXCEPT !.pc = p] \in Records BY <1>1 DEF Records
<1>3. /\ task'[t].pc = p /\ task'[t].src = task[t].src /\ task'[t].tries = task[t].tries
      /\ task'[t].expired = task[t].expired /\ task'[t].spare = task[t].spare
      /\ task'[t].trouble = task[t].trouble /\ task[t].trouble \in Nat
  BY <1>1, DownloadAssumption DEF Records
<1> QED BY <1>1, <1>2, <1>3 DEF Source

LEMMA MovedRound ==
    ASSUME DownloadInv, Round, NEW t \in Tasks, Running(t), NEW p \in Pcs,
           Becomes(t, [task[t] EXCEPT !.pc = p]), Told(t) => Account(t)' /\ Leaves(t)'
    PROVE  Round'
<1> DEFINE r == [task[t] EXCEPT !.pc = p]
<1>1. r \in Records /\ task'[t] = r /\ task'[t].trouble = task[t].trouble /\ task[t].trouble \in Nat
  BY Moved
<1>2. Becomes(t, r) OBVIOUS
<1> HIDE DEF r
<1> QED BY <1>1, <1>2, RoundStep

(* No undisturbed round comes to this.                                         *)
LEMMA NotTold ==
    ASSUME DownloadInv, Round, NEW t \in Tasks, Running(t), ~Told(t),
           NEW r \in {Failed(task[t]), NextSource(task[t])}, Becomes(t, r)
    PROVE  Round'
<1>1. task[t] \in Records BY DEF DownloadInv, DownloadTypes
<1>2. r \in Records /\ r.trouble = task[t].trouble BY <1>1, Returns
<1>3. task[t].trouble \in Nat BY <1>1, DownloadAssumption DEF Records
<1> QED BY <1>2, <1>3, RoundStep

LEMMA VerifyRound ==
    ASSUME DownloadInv, DownloadInv', Round, NEW t \in Tasks, NEW s, s = Source(t), Verify(t)
    PROVE  Round'
<1>1. /\ task[t] \in Records /\ Running(t) /\ task[t].pc = "verify" /\ "place" \in Pcs
      /\ s \in Paths /\ s \in Sources
  BY SourceIs, NamesDiffer DEF Verify, DownloadInv, DownloadTypes, Running, Pcs
<1>2. task[t].trouble \in Nat /\ task[t].tries \in Nat BY <1>1, DownloadAssumption DEF Records
<1>3. CASE /\ DataAt(s) = Artifact /\ name' = name /\ Keeps(data)
           /\ Becomes(t, [task[t] EXCEPT !.pc = "place"])
  <2>1. ASSUME Told(t) PROVE Account(t)' /\ Leaves(t)'
    <3>1. Aside(t) /\ DataAt(s)' = DataAt(s)
      BY <1>1, <1>3, NamesStay, Stays DEF DownloadInv, DownloadTypes
    <3>2. /\ task'[t].pc = "place" /\ task'[t].src = task[t].src /\ task'[t].tries = task[t].tries
          /\ task'[t].expired = task[t].expired /\ task'[t].spare = task[t].spare
          /\ task'[t].trouble = task[t].trouble /\ Source(t)' = s /\ scene' = scene
      BY <1>1, <1>3, Moved
    <3>3. ~task[t].expired BY <2>1 DEF Told, Account
    <3>4. Chance(t) => Chance(t)' BY <1>1, <1>2, <3>1, <3>2 DEF Chance, Used, Good
    <3> QED BY <1>1, <1>2, <1>3, <2>1, <3>1, <3>2, <3>3, <3>4, Onward DEF Hope
  <2> QED BY <1>1, <1>3, <2>1, MovedRound
<1>4. CASE /\ DataAt(s) # Artifact /\ name' = [name EXCEPT ![s] = 0] /\ Keeps(data)
           /\ Becomes(t, NextSource(task[t]))
  <2>1. ASSUME Told(t) PROVE Account(t)' /\ Leaves(t)'
    <3>1. task'[t] = NextSource(task[t]) /\ scene' = scene BY <1>4 DEF Becomes, DownloadInv, DownloadTypes
    <3>2. Aside(t) /\ Serves(s)' BY <1>1, <1>4, <3>1, Goes
    <3>3. task[t].spare <= task[t].trouble \/ Ahead(t, task[t].spare)
      BY <1>1, <1>4, <2>1 DEF Told, Account, Hope, Chance
    <3>4. task[t].trouble = 0 => \A i \in 1..Len(Order) :
              /\ i < task[t].src => Serves(Order[i])
              /\ i = task[t].src => Serves(Order[i])'
      BY <1>1, <2>1, <3>2 DEF Told, Leaves, Source
    <3>5. ~task[t].expired /\ DownloadTypes' BY <2>1 DEF Told, Account, DownloadInv
    <3> QED BY <1>1, <3>1, <3>2, <3>3, <3>4, <3>5, Abandons
  <2>2. NextSource(task[t]) \in Records /\ NextSource(task[t]).trouble = task[t].trouble
    BY <1>1, Returns
  <2> QED BY <1>1, <1>2, <1>4, <2>1, <2>2, RoundStep
<1> QED BY <1>3, <1>4 DEF Verify, Fatal, Removes

LEMMA PlaceRound ==
    ASSUME DownloadInv, DownloadInv', Round, NEW t \in Tasks, NEW s, s = Source(t), Place(t)
    PROVE  Round'
<1>1. /\ task[t] \in Records /\ Running(t) /\ task[t].pc = "place" /\ "clean" \in Pcs
      /\ s \in Paths /\ s # Verified
  BY SourceIs, NamesDiffer DEF Place, DownloadInv, DownloadTypes, Running, Pcs
<1>2. Told(t) => DataAt(s) = Artifact BY <1>1 DEF Told, Account
<1>3. CASE name[s] = 0
  <2>1. ~Told(t) BY <1>2, <1>3, ArtifactIs DEF DataAt
  <2> QED BY <1>1, <1>3, <2>1, NotTold DEF Place, Part
<1>4. CASE /\ name[s] # 0 /\ name' = [name EXCEPT ![Verified] = name[s], ![s] = 0] /\ Keeps(data)
           /\ Becomes(t, [task[t] EXCEPT !.pc = "clean"])
  <2>1. ASSUME Told(t) PROVE Account(t)' /\ Leaves(t)'
    <3>1. /\ task'[t].pc = "clean" /\ task'[t].expired = task[t].expired /\ Source(t)' = s
      BY <1>1, <1>4, Moved
    <3>2. ~task[t].expired BY <2>1 DEF Told, Account
    <3>3. name'[Verified] = name[s] /\ name'[s] = 0 BY <1>1, <1>4, NamesDiffer DEF DownloadInv, DownloadTypes
    <3>4. name[s] \in Inodes /\ data \in [Inodes -> Seq(Chunks)]
      BY <1>1, <1>4 DEF DownloadInv, DownloadTypes, Fds
    <3>5. data'[name[s]] = data[name[s]]
      <4>1. name'[Verified] \in Inodes /\ Verified \in Paths BY <3>3, <3>4, NamesDiffer
      <4>2. Keeps(data) BY <1>4
      <4>3. data'[name'[Verified]] = data[name'[Verified]] BY <3>4, <4>1, <4>2, KeptFiles
      <4> QED BY <3>3, <4>3
    <3>6. DataAt(Verified)' = Artifact BY <1>2, <1>4, <2>1, <3>3, <3>5 DEF DataAt
    <3> QED BY <3>1, <3>2, <3>3, <3>6 DEF Account, Leaves
  <2> QED BY <1>1, <1>4, <2>1, MovedRound
<1> QED BY <1>3, <1>4 DEF Place, Part

LEMMA CleanUpRound == ASSUME DownloadInv, DownloadInv', Round, NEW t \in Tasks, CleanUp(t) PROVE Round'
<1>1. Running(t) /\ task[t].pc = "clean" /\ "check" \in Pcs
  BY DEF CleanUp, Running, Pcs
<1>2. /\ name' = [p \in Paths |-> IF p \in Sources \ {Source(t)} THEN 0 ELSE name[p]]
      /\ Keeps(data) /\ Becomes(t, [task[t] EXCEPT !.pc = "check"])
  BY DEF CleanUp
<1>3. ASSUME Told(t) PROVE Account(t)' /\ Leaves(t)'
  <2>1. /\ task'[t].pc = "check" /\ task'[t].expired = task[t].expired
        /\ task'[t].trouble = task[t].trouble
    BY <1>1, <1>2, Moved
  <2>2. ~task[t].expired /\ DataAt(Verified) = Artifact BY <1>1, <1>3 DEF Told, Account
  <2>3. DataAt(Verified)' = DataAt(Verified)
    <3>1. name'[Verified] = name[Verified] BY <1>2, NamesDiffer
    <3> QED BY <1>2, <3>1, NamesDiffer, Stays DEF DownloadInv, DownloadTypes
  <2>4. task[t].trouble = 0 => \A p \in Sources : name'[p] = 0
    BY <1>1, <1>2, <1>3, NamesDiffer DEF Told, Leaves
  <2> QED BY <2>1, <2>2, <2>3, <2>4 DEF Account, Leaves
<1> QED BY <1>1, <1>2, <1>3, MovedRound

LEMMA CheckRound == ASSUME DownloadInv, DownloadInv', Round, NEW t \in Tasks, Check(t) PROVE Round'
<1>1. Running(t) /\ task[t].pc = "check" /\ "smoke" \in Pcs /\ Keeps(data)
  BY DEF Check, Running, Pcs
<1>2. CASE DataAt(Verified) # Artifact
  <2>1. ~Told(t) BY <1>1, <1>2 DEF Told, Account
  <2> QED BY <1>1, <1>2, <2>1, NotTold DEF Check, Discards
<1>3. CASE name' = name /\ Becomes(t, [task[t] EXCEPT !.pc = "smoke"])
  <2>1. ASSUME Told(t) PROVE Account(t)' /\ Leaves(t)'
    <3>1. /\ task'[t].pc = "smoke" /\ task'[t].expired = task[t].expired
          /\ task'[t].trouble = task[t].trouble
      BY <1>1, <1>3, Moved
    <3>2. ~task[t].expired /\ DataAt(Verified) = Artifact BY <1>1, <2>1 DEF Told, Account
    <3>3. DataAt(Verified)' = DataAt(Verified)
      BY <1>1, <1>3, NamesDiffer, Stays DEF DownloadInv, DownloadTypes
    <3> QED BY <1>1, <1>3, <2>1, <3>1, <3>2, <3>3 DEF Account, Leaves, Told
  <2> QED BY <1>1, <1>3, <2>1, MovedRound
<1> QED BY <1>2, <1>3 DEF Check

(* Nobody else has the file open, so only a binary that does not run fails.    *)
LEMMA SmokeRound == ASSUME DownloadInv, DownloadInv', Round, NEW t \in Tasks, Smoke(t) PROVE Round'
<1>1. /\ task[t] \in Records /\ Running(t) /\ task[t].pc = "smoke" /\ "swap" \in Pcs
      /\ Keeps(data) /\ Verified \in Paths
  BY NamesDiffer DEF Smoke, Running, Pcs, DownloadInv, DownloadTypes
<1>2. Told(t) => ~task[t].expired /\ DataAt(Verified) = Artifact
  BY <1>1 DEF Told, Account
<1>3. CASE ~Executes(name[Verified]) /\ Removes(Verified) /\ Becomes(t, Failed(task[t]))
  <2>1. ASSUME Told(t) PROVE Account(t)' /\ Leaves(t)'
    <3>1. ~scene.runs
      <4>1. name[Verified] # 0 BY <1>2, <2>1, ArtifactIs DEF DataAt
      <4>2. \A u \in Tasks : task[u].fd = 0
        BY <1>1, <2>1 DEF Told, Alone, DownloadInv, Closed
      <4> QED BY <1>3, <4>1, <4>2 DEF Executes
    <3>2. task'[t] = Failed(task[t]) /\ scene' = scene BY <1>3 DEF Becomes, DownloadInv, DownloadTypes
    <3>3. /\ task'[t].pc = "failed" /\ task'[t].expired = task[t].expired
          /\ task'[t].trouble = task[t].trouble
      BY <1>1, <3>2 DEF Failed, Records
    <3>4. Account(t)' BY <1>2, <2>1, <3>1, <3>2, <3>3 DEF Account
    <3>5. ASSUME task[t].trouble = 0, NEW p \in Sources PROVE Serves(p)'
      <4>1. name'[p] = 0
        BY <1>1, <1>3, <2>1, <3>5, NamesDiffer DEF Told, Leaves, Removes, DownloadInv, DownloadTypes
      <4>2. DataAt(p)' = <<>> BY <4>1 DEF DataAt
      <4>3. IsPrefix(<<>>, Artifact)
        <5>1. <<>> \in Seq(Chunks) OBVIOUS
        <5> QED BY <5>1, EmptyBegun, PrefixIs
      <4> QED BY <4>2, <4>3 DEF Serves, Usable
    <3>6. Leaves(t)' BY <3>3, <3>5 DEF Leaves
    <3> QED BY <3>4, <3>6
  <2>2. Failed(task[t]) \in Records /\ Failed(task[t]).trouble = task[t].trouble
    BY <1>1, Returns
  <2>3. task[t].trouble \in Nat BY <1>1, DownloadAssumption DEF Records
  <2> QED BY <1>1, <1>3, <2>1, <2>2, <2>3, RoundStep
<1>4. CASE name' = name /\ Becomes(t, [task[t] EXCEPT !.pc = "swap"])
  <2>1. ASSUME Told(t) PROVE Account(t)' /\ Leaves(t)'
    <3>1. /\ task'[t].pc = "swap" /\ task'[t].expired = task[t].expired
          /\ task'[t].trouble = task[t].trouble
      BY <1>1, <1>4, Moved
    <3>2. DataAt(Verified)' = DataAt(Verified)
      BY <1>1, <1>4, Stays DEF DownloadInv, DownloadTypes
    <3> QED BY <1>1, <1>2, <1>4, <2>1, <3>1, <3>2 DEF Account, Leaves, Told
  <2> QED BY <1>1, <1>4, <2>1, MovedRound
<1> QED BY <1>3, <1>4 DEF Smoke, Discards

LEMMA SwapRound == ASSUME DownloadInv, DownloadInv', Round, NEW t \in Tasks, Swap(t) PROVE Round'
<1>1. Running(t) /\ task[t].pc = "swap" /\ "exits" \in Pcs
  BY DEF Swap, Running, Pcs
<1>2. CASE Becomes(t, [task[t] EXCEPT !.pc = "exits"])
  <2>1. ASSUME Told(t) PROVE Account(t)' /\ Leaves(t)'
    <3>1. task'[t].pc = "exits" /\ task'[t].expired = task[t].expired BY <1>1, <1>2, Moved
    <3>2. ~task[t].expired BY <2>1 DEF Told, Account
    <3> QED BY <3>1, <3>2 DEF Account, Leaves
  <2> QED BY <1>1, <1>2, <2>1, MovedRound
<1>3. CASE DataAt(Verified) # Artifact /\ Becomes(t, Failed(task[t]))
  <2>1. ~Told(t) BY <1>1, <1>3 DEF Told, Account
  <2> QED BY <1>1, <1>3, <2>1, NotTold
<1> QED BY <1>2, <1>3 DEF Swap

(* Faults: an attempt that fails, or one that leaves the round its excuse.     *)
LEMMA ExcusedRound ==
    ASSUME DownloadInv, Round, NEW t \in Tasks, Running(t), NEW r \in Records, r.trouble = Attempts,
           Becomes(t, r)
    PROVE  Round'
<1>1. task[t] \in Records BY DEF DownloadInv, DownloadTypes
<1>2. task[t].trouble \in 0..Attempts /\ Attempts \in Nat
  BY <1>1, DownloadAssumption DEF Records
<1>3. ~(r.trouble < Attempts) /\ r.trouble >= task[t].trouble BY <1>2
<1> QED BY <1>3, RoundStep

LEMMA AttemptFailsRound ==
    ASSUME DownloadInv, DownloadInv', Round, NEW t \in Tasks, NEW s, s = Source(t),
           task[t].pc = "answer" \/ (task[t].pc = "body" /\ task[t].body # <<>>),
           Retryable(t, Troubled(task[t], 1)), data' = data \/ Keeps(data)
    PROVE  Round'
<1> DEFINE q == Troubled(task[t], 1)
<1>1. /\ task[t] \in Records /\ Running(t) /\ s \in Paths /\ s \in Sources
      /\ task[t].trouble \in 0..Attempts /\ Attempts \in Nat \ {0} /\ task[t].tries \in Nat
      /\ task[t].spare \in Nat /\ Length \in Nat /\ task[t].body \in Seq(Chunks)
  <2>1. task[t] \in Records BY DEF DownloadInv, DownloadTypes
  <2> QED BY <2>1, SourceIs, NamesDiffer, DownloadAssumption DEF DownloadInv, Running, Records
<1>2. /\ q \in Records /\ q.pc = task[t].pc /\ q.src = task[t].src /\ q.tries = task[t].tries
      /\ q.expired = task[t].expired /\ q.spare = task[t].spare
      /\ q.trouble = IF task[t].trouble + 1 > Attempts THEN Attempts ELSE task[t].trouble + 1
  BY <1>1, Troubles
<1>3. scene' = scene /\ name' = name /\ Becomes(t, Retry(q)) BY DEF Retryable, Becomes
<1> HIDE DEF q
<1>4. Retry(q) \in Records /\ Retry(q).trouble = q.trouble BY <1>2, Returns
<1>5. ASSUME Told(t), q.trouble < Attempts PROVE Account(t)' /\ Leaves(t)'
  <2>1. task'[t] = Retry(q) BY <1>3 DEF Becomes, DownloadInv, DownloadTypes
  <2>2. Aside(t) /\ DataAt(s)' = DataAt(s) BY <1>1, <1>3, NamesStay, Stays DEF DownloadInv, DownloadTypes
  <2>3. ~q.expired /\ q.trouble = task[t].trouble + 1
    BY <1>1, <1>2, <1>5 DEF Told, Account
  <2>4. ASSUME Chance(t)
        PROVE  /\ Usable(s)'
               /\ q.spare + q.tries + 1
                  + (IF scene.ranges[s] /\ Len(DataAt(s)') >= Length THEN 1 ELSE 0)
                  <= q.trouble + Attempts
    <3>1. CASE task[t].pc = "answer"
      <4>1. Usable(s) BY <2>4, <3>1 DEF Chance
      <4> DEFINE long == IF scene.ranges[s] /\ Len(DataAt(s)) >= Length THEN 1 ELSE 0
      <4>2. Used(t) = task[t].tries + long /\ long \in {0, 1} BY <3>1 DEF Used
      <4>3. Usable(s)' BY <1>3, <2>2, <4>1, Same
      <4>4. task[t].spare + Used(t) <= task[t].trouble + Attempts BY <2>4 DEF Chance
      <4>5. (IF scene.ranges[s] /\ Len(DataAt(s)') >= Length THEN 1 ELSE 0) = long
        BY <2>2
      <4> HIDE DEF long
      <4>6. q.spare + q.tries + 1 + long <= q.trouble + Attempts
        <5>1. \A a, b, c, d, e \in Nat : a + (b + c) <= d + e => a + b + 1 + c <= (d + 1) + e
          OBVIOUS
        <5>2. task[t].spare + (task[t].tries + long) <= task[t].trouble + Attempts
          BY <4>2, <4>4
        <5>3. task[t].trouble \in Nat /\ Attempts \in Nat /\ long \in Nat BY <1>1, <4>2
        <5>4. task[t].spare + task[t].tries + 1 + long <= (task[t].trouble + 1) + Attempts
          BY <1>1, <5>1, <5>2, <5>3
        <5> QED BY <1>2, <2>3, <5>4
      <4> QED BY <4>3, <4>5, <4>6
    <3>2. CASE task[t].pc = "body" /\ task[t].body # <<>>
      <4>1. Begun(DataAt(s)) /\ Len(DataAt(s)) + Len(task[t].body) = Length
        BY <2>4, <3>2 DEF Chance, Ending
      <4>2. DataAt(s) \in Seq(Chunks) BY <1>1, PartType DEF DownloadInv
      <4>3. Len(DataAt(s)) < Length
        <5>1. Len(task[t].body) \in Nat \ {0} /\ Len(DataAt(s)) \in Nat BY <1>1, <3>2, <4>2
        <5> QED BY <1>1, <4>1, <5>1
      <4>4. Usable(s) BY <1>1, <2>4, <4>1, BegunServes DEF Chance, DownloadInv
      <4>5. Used(t) = task[t].tries BY <1>1, <3>2 DEF Used
      <4>6. ~(Len(DataAt(s)) >= Length) BY <1>1, <4>2, <4>3
      <4>7. Usable(s)' BY <1>3, <2>2, <4>4, Same
      <4>8. q.spare + q.tries + 1 <= q.trouble + Attempts
        BY <1>1, <1>2, <2>3, <2>4, <4>5 DEF Chance
      <4> QED BY <1>1, <1>2, <2>2, <4>6, <4>7, <4>8
    <3> QED BY <3>1, <3>2
  <2>5. q.trouble # 0 /\ q.trouble >= task[t].trouble BY <1>1, <2>3
  <2> QED BY <1>2, <1>3, <1>5, <2>1, <2>2, <2>3, <2>4, <2>5, Retries
<1>6. Retry(q).trouble >= task[t].trouble BY <1>1, <1>2, <1>4
<1> QED BY <1>1, <1>3, <1>4, <1>5, <1>6, RoundStep

LEMMA DisturbedRound ==
    ASSUME DownloadInv, DownloadInv', Round, NEW t \in Tasks, Disturbed(t) PROVE Round'
<1> DEFINE q == Troubled(task[t], Attempts)
<1>1. task[t] \in Records /\ Running(t)
  BY DEF Disturbed, AnswerFails, Refused, StreamBreaks, WriteFails, MoveFails, Expires, DownloadInv,
         DownloadTypes, Running
<1>2. q \in Records /\ q.trouble = Attempts
  <2>1. task[t].trouble \in 0..Attempts /\ Attempts \in Nat \ {0}
    BY <1>1, DownloadAssumption DEF Records
  <2> QED BY <1>1, <2>1, Troubles
<1> HIDE DEF q
<1>3. \A r \in {Failed(q), NextSource(q)} : r \in Records /\ r.trouble = Attempts
  BY <1>2, Returns
<1>4. CASE AnswerFails(t) \/ StreamBreaks(t)
  BY <1>4, AttemptFailsRound DEF AnswerFails, StreamBreaks
<1>5. CASE Refused(t) \/ WriteFails(t)
  <2>1. Becomes(t, NextSource(q)) BY <1>5 DEF Refused, WriteFails, Fatal, q
  <2> QED BY <1>1, <1>3, <2>1, ExcusedRound
<1>6. CASE MoveFails(t)
  <2>1. Becomes(t, Failed(q)) BY <1>6 DEF MoveFails, q
  <2> QED BY <1>1, <1>3, <2>1, ExcusedRound
<1>7. CASE Expires(t)
  <2> DEFINE r == [q EXCEPT !.expired = TRUE]
  <2>1. r \in Records /\ r.trouble = Attempts BY <1>2 DEF Records
  <2>2. Becomes(t, r) \/ Becomes(t, Failed(r)) BY <1>7 DEF Expires, q
  <2> HIDE DEF r
  <2>3. Failed(r) \in Records /\ Failed(r).trouble = Attempts BY <2>1, Returns
  <2> QED BY <1>1, <2>1, <2>2, <2>3, ExcusedRound
<1> QED BY <1>4, <1>5, <1>6, <1>7 DEF Disturbed

LEMMA TriggerRound == ASSUME DownloadInv, DownloadInv', Round, NEW t \in Tasks, Trigger(t) PROVE Round'
<1> DEFINE trouble == IF \E u \in Tasks : Running(u) THEN Attempts ELSE 0
           m == MaxOf({Spare(s) : s \in Sources})
           new == [Idle EXCEPT !.pc = "ask", !.trouble = trouble, !.spare = m]
<1>1. \A u \in Tasks : task'[u] = IF u = t THEN new
                                 ELSE IF Running(u) THEN [task[u] EXCEPT !.trouble = Attempts]
                                 ELSE Idle
  BY DEF Trigger
<1>2. PICK i \in 1..Len(Order) : Spare(Order[i]) = m BY MostSpare
<1>3. scene' = scene /\ name' = name /\ data' = data BY DEF Trigger
<1>4. /\ new.pc = "ask" /\ new.tries = 0 /\ new.src = 1 /\ new.at = 0 /\ ~new.expired
      /\ new.spare = m /\ new.trouble = trouble
  BY DEF Idle
<1> HIDE DEF new
<1>5. m \in Nat
  <2>1. m \in 0..Attempts BY MostSpare
  <2> QED BY <2>1, DownloadAssumption
<1> HIDE DEF m
<1>6. ASSUME NEW u \in Tasks, u # t, Calm(u)' PROVE FALSE
  <2>1. CASE Running(u)
    <3>1. task[u] \in Records /\ task'[u] = [task[u] EXCEPT !.trouble = Attempts]
      BY <1>1, <1>6, <2>1 DEF DownloadInv, DownloadTypes
    <3>2. task'[u].trouble = Attempts BY <3>1 DEF Records
    <3> QED BY <1>6, <3>2, DownloadAssumption DEF Calm
  <2>2. CASE ~Running(u)
    <3>1. task'[u] = Idle BY <1>1, <1>6, <2>2
    <3> QED BY <1>6, <3>1 DEF Calm, Idle
  <2> QED BY <2>1, <2>2
<1>7. ASSUME Calm(t)' PROVE Told(t)'
  <2>1. task'[t] = new BY <1>1
  <2>2. ~\E u \in Tasks : Running(u)
    <3>1. trouble < Attempts BY <1>4, <1>7, <2>1 DEF Calm
    <3> QED BY <3>1, DownloadAssumption
  <2>3. Alone(t)'
    <3>1. \A u \in Tasks : u # t => task'[u] = Idle BY <1>1, <2>2
    <3>2. Idle.pc = "idle" BY DEF Idle
    <3> QED BY <3>1, <3>2 DEF Alone
  <2>4. Spare(Order[i])' = m
    <3>1. DataAt(Order[i])' = DataAt(Order[i]) BY <1>3 DEF DataAt
    <3> QED BY <1>2, <1>3, <3>1, Same
  <2>5. i >= 1 /\ m >= m BY <1>5
  <2>6. Hope(t)' BY <1>4, <2>1, <2>4, <2>5, Comes DEF DownloadInv
  <2>7. Account(t)' BY <1>4, <2>1, <2>6 DEF Account
  <2>8. Leaves(t)' BY <1>4, <2>1 DEF Leaves
  <2> QED BY <2>3, <2>7, <2>8 DEF Told
<1> QED BY <1>6, <1>7 DEF Round

LEMMA NextRound == DownloadInv /\ DownloadInv' /\ Round /\ [DownloadNext]_downloadVars => Round'
<1> SUFFICES ASSUME DownloadInv, DownloadInv', Round, [DownloadNext]_downloadVars PROVE Round' OBVIOUS
<1>1. ASSUME NEW t \in Tasks, Progress(t), ~Exit(t) PROVE Round'
  BY <1>1, AskRound, NotResumableRound, MismatchRound, ResumedRound, WholeRound, ChunkRound,
     BodyEndsRound, VerifyRound, PlaceRound, CleanUpRound, CheckRound, SmokeRound, SwapRound
  DEF Progress, Answer
<1>2. ASSUME task' = [u \in Tasks |-> Idle] PROVE Round' BY <1>2 DEF Round, Calm, Idle
<1>3. CASE HelperSwaps
  BY <1>3 DEF HelperSwaps, DownloadInv, AllEnded, Round, Calm
<1>4. ASSUME UNCHANGED <<scene, data, name, task>> PROVE Round'
  <2>1. \A s : DataAt(s)' = DataAt(s) BY <1>4 DEF DataAt
  <2>2. \A s : Spare(s)' = Spare(s) /\ (Usable(s)' <=> Usable(s)) /\ (Serves(s)' <=> Serves(s))
               /\ (Good(s)' <=> Good(s))
    BY <1>4, <2>1, Same
  <2>3. \A t \in Tasks : Source(t)' = Source(t) /\ Part(t)' = Part(t) BY <1>4 DEF Source, Part
  <2>4. ASSUME NEW t \in Tasks, Told(t) PROVE Told(t)'
    <3>1. Chance(t) => Chance(t)'
      BY <1>4, <2>1, <2>2, <2>3 DEF Chance, Used, Ending
    <3>2. Hope(t) => Hope(t)' BY <1>4, <2>2, <3>1 DEF Hope, Ahead
    <3>3. Account(t)' BY <1>4, <2>1, <2>3, <2>4, <3>2 DEF Told, Account
    <3>4. Leaves(t)' BY <1>4, <2>2, <2>3, <2>4 DEF Told, Leaves
    <3> QED BY <1>4, <2>4, <3>3, <3>4 DEF Told, Alone
  <2> QED BY <1>4, <2>4 DEF Round, Calm
<1> QED BY <1>1, <1>2, <1>3, <1>4, TriggerRound, DisturbedRound
    DEF DownloadNext, Exit, PowerFails, Reconnect, downloadVars

----------------------------------------------------------------------------
(* A round that failed undisturbed had its reason, and an undisturbed one      *)
(* leaves every source that has the artifact usable (fetch, download_from,     *)
(* Outcome).                                                                   *)
THEOREM FailureIsTrue == DownloadSpec => []FailureIsDeserved
<1>1. DownloadInit => DownloadInv /\ Round BY Begins DEF DownloadInit, Round, Calm, Idle
<1>2. (DownloadInv /\ Round) /\ [DownloadNext]_downloadVars => (DownloadInv /\ Round)' BY StepIInv, NextRound
<1>3. DownloadInv /\ Round => FailureIsDeserved
  <2> SUFFICES ASSUME DownloadInv, Round, NEW t \in Tasks, task[t].pc = "failed"
               PROVE  /\ task[t].trouble >= task[t].spare \/ ~scene.runs
                      /\ task[t].trouble = 0 => \A s \in Sources : Good(s) => Usable(s)
    BY DEF FailureIsDeserved
  <2>1. /\ task[t].trouble \in 0..Attempts /\ task[t].spare \in 0..Attempts
        /\ Attempts \in Nat \ {0}
    <3>1. task[t] \in Records BY DEF DownloadInv, DownloadTypes
    <3> QED BY <3>1, DownloadAssumption DEF Records
  <2>2. CASE Calm(t)
    <3>1. Told(t) BY <2>2 DEF Round
    <3>2. task[t].spare <= task[t].trouble \/ ~scene.runs BY <3>1 DEF Told, Account
    <3>3. task[t].trouble = 0 => \A s \in Sources : Serves(s) BY <3>1 DEF Told, Leaves
    <3> QED BY <2>1, <3>2, <3>3 DEF Serves
  <2>3. CASE ~Calm(t) BY <2>1, <2>3 DEF Calm
  <2> QED BY <2>2, <2>3
<1> QED BY <1>1, <1>2, <1>3, PTL DEF DownloadSpec

-----------------------------------------------------------------------------
(* The exchange.  Whatever fails and however often, an upgrade does not lose   *)
(* the version that works, and its report is true.  The argument is where the  *)
(* two files are at every step of the exchange, and why nobody else moves      *)
(* them: the watchdog can only be armed after the last step of SystemdRestart, *)
(* and a backup is only removed by who has seen the new version register.      *)

\* TypeOK, in parts.
DiskType == disk \in [target : Image, backup : Image, part : Image]
AgentRecord == [image : Image, pc : AgentPc,
                how : {None, "original", "plain", "env", "sid"},
                watchdog : {"off", "armed", "due", "checked"},
                restore : BOOLEAN, sid : {None, "S", "other"},
                tok : {None, "T0", "T1"}]
AgentType == agent \in AgentRecord /\ (agent.image = None <=> agent = Gone)
RelayType == relay \in [tok : {None, "T0", "T1"}, online : BOOLEAN]
OutcomeType ==
    outcome \in [result : {None, "failed", "aborted", "registered",
                           "rolled_back"},
                 identity : {None, "Preserved", "Lost"}, restored : BOOLEAN]
FaultsType == faults \in [kinds : {w.kinds : w \in Weathers}, left : Nat]
FlagsType ==
    /\ probe \in Probes /\ version \in NewVersions
    /\ handoff \in BOOLEAN /\ pointer \in {None, "two", "three"}
    /\ unit \in {"active", "stopped"} /\ seen \in BOOLEAN
    /\ marker \in BOOLEAN /\ confirmed \in BOOLEAN
    /\ swap \in HelperSteps \cup RestartSteps
               \cup {"idle", "checks", "done", "dead"}
Types == /\ DiskType /\ AgentType /\ RelayType /\ OutcomeType /\ FaultsType
         /\ FlagsType

\* Steps before which nothing has been moved, between the two renames, after
\* both, and after the way back.
Before == {"idle", "checks", "wait_exit", "direct.backup", "unit.stop",
           "unit.backup", "restart.backup"}
Between == {"direct.install", "direct.undo", "unit.install",
            "restart.install"}
After == {"direct.spawn", "direct.await", "direct.rollback", "unit.verify",
          "unit.pointer", "unit.start", "unit.await", "restart.verify",
          "restart.pointer"}
Back == {"direct.respawn", "direct.await_old", "direct.bind",
         "direct.bind_lost"}
Undoing == {"unit.restore", "unit.restart"}

\* Where the two files are.
Files ==
    /\ disk.part # "old" /\ disk.backup \in {"old", None}
    /\ swap \in Before => disk.target = "old" /\ disk.part = "new"
    /\ swap \in Between => disk.backup = "old" /\ disk.part = "new"
    /\ swap \in After => disk.target = "new" /\ disk.backup = "old"
    /\ swap \in Back => disk.target = "old"
    /\ swap \in Undoing => "old" \in {disk.target, disk.backup}
    /\ swap = "restart.undo" => disk.backup = "old"
    /\ swap = "restart.exit" =>
          disk.target = "new" \/ (disk.target = "old" /\ disk.backup = None)

\* Who else moves them: only a process with a watchdog.
Watching ==
    /\ pointer = "three" \/ agent.watchdog # "off" => swap = "restart.exit"

\* While the unit is stopped, no agent runs.
Stopped ==
    /\ swap \in {"unit.backup", "unit.install", "unit.verify", "unit.pointer",
                 "unit.start"} => agent = Gone /\ unit = "stopped"
    /\ seen => swap \in {"unit.await", "done", "dead"} \cup Undoing

\* What has not been reported yet.
Reporting == swap # "done" => outcome.result # "registered" /\ ~outcome.restored

\* As long as the new version has not registered: what would be taken for its
\* registration is not there, and the processes that are watched are not of
\* the old version.
Unconfirmed ==
    /\ ~marker
    /\ agent.how = "env" => agent.image # "old"
    /\ agent.pc \in {"consumed", "removed", "announced"} => agent.image = "old"
    /\ swap = "unit.await" => agent.image # "old" /\ (seen => handoff)
    /\ agent.watchdog # "off" => agent.image # "old"
    /\ pointer = "three" /\ disk.backup # None /\ agent.pc = "boot"
          => agent.image # "old"

IInv ==
    /\ Types /\ Files /\ Watching /\ Stopped /\ Reporting /\ OldVersionKept
    /\ ReportsAreTrue
    /\ confirmed \/ Unconfirmed

-----------------------------------------------------------------------------
(* Processes and reports                                                   *)

\* No process.
LEMMA GoneAgent ==
    /\ Gone \in AgentRecord /\ Gone.image = None /\ Gone.how = None
    /\ Gone.pc = "gone" /\ Gone.watchdog = "off"
BY DEF Gone, AgentRecord, Image, AgentPc

\* A process that is started runs what is at the path.
LEMMA StartedAgent ==
    ASSUME DiskType, disk.target # None, NEW how \in {"plain", "env", "sid"}
    PROVE  /\ Started(how) \in AgentRecord /\ Started(how) # Gone
           /\ Started(how).image = disk.target /\ Started(how).how = how
           /\ Started(how).pc = "boot" /\ Started(how).watchdog = "off"
BY DEF DiskType, Started, Gone, AgentRecord, Image, AgentPc

\* Everything that is reported.
Reports ==
    \/ UNCHANGED outcome
    \/ Ended("failed", None, TRUE) \/ Ended("failed", None, FALSE)
    \/ Ended("aborted", None, TRUE) \/ Ended("aborted", None, FALSE)
    \/ Ended("registered", None, FALSE)
    \/ Ended("rolled_back", "Preserved", TRUE)
    \/ Ended("rolled_back", "Lost", TRUE)
    \/ Ended("rolled_back", "Lost", FALSE)

LEMMA ReportsTyped == ASSUME OutcomeType, Reports PROVE OutcomeType'
<1>1. CASE UNCHANGED outcome
  BY <1>1 DEF OutcomeType
<1>2. CASE Ended("failed", None, TRUE)
  BY <1>2 DEF OutcomeType, Ended
<1>3. CASE Ended("failed", None, FALSE)
  BY <1>3 DEF OutcomeType, Ended
<1>4. CASE Ended("aborted", None, TRUE)
  BY <1>4 DEF OutcomeType, Ended
<1>5. CASE Ended("aborted", None, FALSE)
  BY <1>5 DEF OutcomeType, Ended
<1>6. CASE Ended("registered", None, FALSE)
  BY <1>6 DEF OutcomeType, Ended
<1>7. CASE Ended("rolled_back", "Preserved", TRUE)
  BY <1>7 DEF OutcomeType, Ended
<1>8. CASE Ended("rolled_back", "Lost", TRUE)
  BY <1>8 DEF OutcomeType, Ended
<1>9. CASE Ended("rolled_back", "Lost", FALSE)
  BY <1>9 DEF OutcomeType, Ended
<1> QED BY <1>1, <1>2, <1>3, <1>4, <1>5, <1>6, <1>7, <1>8, <1>9, Zenon
     DEF Reports

\* What an action makes of the process has the right type.
LEMMA KilledTyped == ASSUME Killed PROVE AgentType'
BY DEF Killed, AgentType, Gone, AgentRecord, Image, AgentPc

LEMMA AliveTyped ==
    ASSUME agent' \in AgentRecord, agent'.image # None PROVE AgentType'
BY DEF AgentType, Gone

LEMMA SameTyped == ASSUME AgentType, UNCHANGED agent PROVE AgentType'
BY DEF AgentType, AgentRecord, Gone

\* A process that does something runs some binary.
LEMMA AliveAgent ==
    ASSUME AgentType, agent.pc # "gone"
    PROVE  agent \in AgentRecord /\ agent.image \in {"old", "new"}
BY DEF AgentType, AgentRecord, Image, Gone

\* A start ends, or goes on to connect; it arms the watchdog only where there
\* is a backup and the pointer says so.
LEMMA BootResult ==
    ASSUME AgentType, DiskType, handoff \in BOOLEAN, Boot
    PROVE  /\ \/ agent' = Gone
              \/ /\ agent' \in AgentRecord /\ agent'.image = agent.image
                 /\ agent'.how = agent.how /\ agent'.pc = "connecting"
                 /\ \/ agent'.watchdog \in {agent.watchdog, "off"}
                    \/ pointer = "three" /\ disk.backup # None
           /\ pointer' \in {pointer, None}
<1>1. agent \in AgentRecord /\ agent.image \in {"old", "new"}
  BY AliveAgent DEF Boot
<1>2. CASE agent.how = "env"
  <2>1. agent' = Gone \/ agent' = [agent EXCEPT !.pc = "connecting",
                                       !.restore = TRUE, !.tok = None]
    BY <1>2, Zenon DEF Boot, SetAgent
  <2>2. UNCHANGED pointer
    BY <1>2 DEF Boot
  <2>3. CASE agent' # Gone
    BY <1>1, <2>1, <2>2, <2>3 DEF AgentRecord, AgentPc
  <2> QED BY <2>2, <2>3
<1>3. CASE agent.how # "env" /\ KnowsPointer(agent.image) /\ pointer # None
  <2> DEFINE arms == handoff /\ pointer = "three" /\ disk.backup # None
             w == IF arms THEN "armed" ELSE "off"
  <2>1. agent' = [agent EXCEPT !.pc = "connecting", !.restore = handoff,
                               !.watchdog = w]
        /\ pointer' = None
    BY <1>3, Zenon DEF Boot, SetAgent
  <2>2. w \in {"off", "armed"} /\ (w = "armed" => arms)
    OBVIOUS
  <2>3. /\ agent' \in AgentRecord /\ agent'.image = agent.image
        /\ agent'.how = agent.how /\ agent'.pc = "connecting"
        /\ agent'.watchdog = w
    <3> HIDE DEF w
    <3> QED BY <1>1, <2>1, <2>2 DEF AgentRecord, AgentPc
  <2> HIDE DEF w
  <2> QED BY <2>1, <2>2, <2>3
<1>4. CASE agent.how # "env" /\ ~(KnowsPointer(agent.image) /\ pointer # None)
  <2>1. agent' = [agent EXCEPT !.pc = "connecting"] /\ UNCHANGED pointer
    BY <1>4, Zenon DEF Boot, SetAgent
  <2> QED BY <1>1, <2>1 DEF AgentRecord, AgentPc
<1> QED BY <1>2, <1>3, <1>4

-----------------------------------------------------------------------------
(* The old agent                                                           *)

LEMMA HandOverIInv == ASSUME IInv, HandOver PROVE IInv'
<1>1. DiskType' /\ AgentType' /\ RelayType' /\ FaultsType' /\
      OldVersionKept'
  BY DEF IInv, Types, DiskType, AgentType, RelayType, FaultsType,
     OldVersionKept, HandOver
<1>2. FlagsType'
  BY UpgradeAssumption DEF IInv, Types, FlagsType, HelperSteps, RestartSteps,
     HandOver, Ended
<1>3. OutcomeType'
  <2>1. Reports
    BY Zenon DEF HandOver, Reports
  <2> QED BY <2>1, ReportsTyped DEF IInv, Types
<1>4. Files' /\ Watching' /\ Stopped' /\ Reporting'
  BY UpgradeAssumption DEF IInv, Types, Files, Before, Between, After, Back,
     Undoing, Watching, Stopped, Reporting, HandOver, Ended, Original
<1>5. ReportsAreTrue'
  BY UpgradeAssumption DEF IInv, Types, ReportsAreTrue, DiskType, Files,
     Reporting, Before, OldVersionKept, HandOver, Ended
<1>6. (confirmed \/ Unconfirmed)'
  BY UpgradeAssumption DEF IInv, Types, Unconfirmed, HandOver, Ended,
     Original
<1> QED
  BY <1>1, <1>2, <1>3, <1>4, <1>5, <1>6 DEF IInv, Types

LEMMA HelperChecksIInv == ASSUME IInv, HelperChecks PROVE IInv'
<1>1. DiskType' /\ RelayType' /\ OldVersionKept'
  BY DEF IInv, Types, DiskType, RelayType, OldVersionKept, HelperChecks
<1>2. FaultsType'
  BY UpgradeAssumption DEF IInv, Types, FaultsType, HelperChecks, Fault,
     Ended
<1>3. FlagsType'
  BY UpgradeAssumption DEF IInv, Types, FlagsType, HelperSteps, RestartSteps,
     HelperChecks, Ended
<1>4. AgentType'
  BY UpgradeAssumption DEF IInv, Types, AgentType, AgentRecord, AgentPc,
     Image, Gone, HelperChecks, Ended, Original
<1>5. OutcomeType'
  <2>1. Reports
    BY Zenon DEF HelperChecks, Reports
  <2> QED BY <2>1, ReportsTyped DEF IInv, Types
<1>6. Files' /\ Watching' /\ Stopped' /\ Reporting'
  BY UpgradeAssumption DEF IInv, Types, Files, Before, Between, After, Back,
     Undoing, Watching, AgentType, AgentRecord, Gone, Stopped, Reporting,
     HelperChecks, Ended, Original
<1>7. ReportsAreTrue'
  BY UpgradeAssumption DEF IInv, Types, ReportsAreTrue, DiskType, Files,
     Reporting, Before, OldVersionKept, HelperChecks, Ended
<1>8. (confirmed \/ Unconfirmed)'
  BY UpgradeAssumption DEF IInv, Types, Unconfirmed, AgentType, AgentRecord,
     HelperChecks, Ended, Original
<1> QED
  BY <1>1, <1>2, <1>3, <1>4, <1>5, <1>6, <1>7, <1>8 DEF IInv, Types

LEMMA OldExitsIInv == ASSUME IInv, OldExits PROVE IInv'
<1>1. DiskType' /\ OutcomeType' /\ FaultsType' /\ FlagsType' /\ Files' /\
      Reporting' /\ OldVersionKept' /\ ReportsAreTrue'
  BY DEF IInv, Types, DiskType, OutcomeType, FaultsType, FlagsType, Files,
     Reporting, OldVersionKept, ReportsAreTrue, OldExits, files, swapVars
<1>2. RelayType'
  BY UpgradeAssumption DEF IInv, Types, RelayType, OldExits, Killed, Offline,
     files, swapVars
<1>3. AgentType'
  BY UpgradeAssumption DEF IInv, Types, AgentType, AgentRecord, AgentPc,
     Image, Gone, OldExits, Killed, Original, files, swapVars
<1>4. Watching' /\ Stopped'
  BY UpgradeAssumption DEF IInv, Types, Watching, AgentType, AgentRecord,
     Gone, Stopped, Undoing, OldExits, Killed, Original, files, swapVars
<1>5. (confirmed \/ Unconfirmed)'
  BY UpgradeAssumption DEF IInv, Types, Unconfirmed, AgentType, AgentRecord,
     Gone, OldExits, Killed, Original, files, swapVars
<1> QED
  BY <1>1, <1>2, <1>3, <1>4, <1>5 DEF IInv, Types

LEMMA WaitExitIInv == ASSUME IInv, WaitExit PROVE IInv'
<1>1. DiskType' /\ AgentType' /\ RelayType' /\ OldVersionKept'
  BY DEF IInv, Types, DiskType, AgentType, RelayType, OldVersionKept,
     WaitExit, files
<1>2. FaultsType' /\ FlagsType'
  BY UpgradeAssumption DEF IInv, Types, FaultsType, FlagsType, HelperSteps,
     RestartSteps, WaitExit, Fault, Ended, files
<1>3. OutcomeType'
  <2>1. Reports
    BY Zenon DEF WaitExit, Reports, files
  <2> QED BY <2>1, ReportsTyped DEF IInv, Types
<1>4. Files' /\ Watching' /\ Stopped' /\ Reporting'
  BY UpgradeAssumption DEF IInv, Types, Files, Before, Between, After, Back,
     Undoing, Watching, Stopped, Reporting, WaitExit, Ended, Original, files
<1>5. ReportsAreTrue'
  BY UpgradeAssumption DEF IInv, Types, ReportsAreTrue, DiskType, Files,
     Reporting, Before, OldVersionKept, WaitExit, Ended, files
<1>6. (confirmed \/ Unconfirmed)'
  BY UpgradeAssumption DEF IInv, Types, Unconfirmed, WaitExit, Ended,
     Original, files
<1> QED
  BY <1>1, <1>2, <1>3, <1>4, <1>5, <1>6 DEF IInv, Types

-----------------------------------------------------------------------------
(* Direct                                                                  *)

LEMMA DirectBackupIInv == ASSUME IInv, DirectBackup PROVE IInv'
<1>1. AgentType' /\ RelayType'
  BY DEF IInv, Types, AgentType, RelayType, DirectBackup
<1>2. DiskType'
  BY UpgradeAssumption DEF IInv, Types, DiskType, Image, DirectBackup,
     SetAside, Ended
<1>3. FaultsType'
  BY UpgradeAssumption DEF IInv, Types, FaultsType, DirectBackup, Fault,
     Ended
<1>4. FlagsType'
  BY UpgradeAssumption DEF IInv, Types, FlagsType, HelperSteps, RestartSteps,
     DirectBackup, Ended
<1>5. OutcomeType'
  <2>1. Reports
    BY Zenon DEF DirectBackup, Reports
  <2> QED BY <2>1, ReportsTyped DEF IInv, Types
<1>6. Files' /\ Watching' /\ Stopped' /\ Reporting'
  BY UpgradeAssumption DEF IInv, Types, Files, Before, Between, After, Back,
     Undoing, DiskType, Watching, Stopped, Reporting, DirectBackup, SetAside,
     Ended
<1>7. OldVersionKept'
  BY UpgradeAssumption DEF IInv, Types, OldVersionKept, DiskType, Files,
     Before, Between, DirectBackup, SetAside, Ended
<1>8. ReportsAreTrue'
  BY UpgradeAssumption DEF IInv, Types, ReportsAreTrue, DiskType, Files,
     Reporting, Before, Between, OldVersionKept, DirectBackup, SetAside,
     Ended
<1>9. (confirmed \/ Unconfirmed)'
  BY UpgradeAssumption DEF IInv, Types, Unconfirmed, Files, After, Watching,
     DiskType, DirectBackup, SetAside, Ended
<1> QED
  BY <1>1, <1>2, <1>3, <1>4, <1>5, <1>6, <1>7, <1>8, <1>9 DEF IInv, Types

LEMMA DirectInstallIInv == ASSUME IInv, DirectInstall PROVE IInv'
<1>1. AgentType' /\ RelayType' /\ OutcomeType'
  BY DEF IInv, Types, AgentType, RelayType, OutcomeType, DirectInstall
<1>2. DiskType'
  BY UpgradeAssumption DEF IInv, Types, DiskType, Image, DirectInstall,
     Install
<1>3. FaultsType'
  BY UpgradeAssumption DEF IInv, Types, FaultsType, DirectInstall, Fault
<1>4. FlagsType'
  BY UpgradeAssumption DEF IInv, Types, FlagsType, HelperSteps, RestartSteps,
     DirectInstall
<1>5. Files' /\ Watching' /\ Stopped' /\ Reporting'
  BY UpgradeAssumption DEF IInv, Types, Files, Before, Between, After, Back,
     Undoing, DiskType, Watching, Stopped, Reporting, DirectInstall, Install
<1>6. OldVersionKept' /\ ReportsAreTrue'
  BY UpgradeAssumption DEF IInv, Types, OldVersionKept, DiskType, Files,
     Between, After, ReportsAreTrue, Reporting, DirectInstall, Install
<1>7. (confirmed \/ Unconfirmed)'
  BY UpgradeAssumption DEF IInv, Types, Unconfirmed, Files, After, Watching,
     DiskType, DirectInstall, Install
<1> QED
  BY <1>1, <1>2, <1>3, <1>4, <1>5, <1>6, <1>7 DEF IInv, Types

LEMMA DirectUndoIInv == ASSUME IInv, DirectUndo PROVE IInv'
<1>1. AgentType' /\ RelayType'
  BY DEF IInv, Types, AgentType, RelayType, DirectUndo
<1>2. DiskType'
  BY UpgradeAssumption DEF IInv, Types, DiskType, Image, DirectUndo, Restore,
     Ended
<1>3. FaultsType'
  BY UpgradeAssumption DEF IInv, Types, FaultsType, DirectUndo, Fault, Ended
<1>4. FlagsType'
  BY UpgradeAssumption DEF IInv, Types, FlagsType, HelperSteps, RestartSteps,
     DirectUndo, Ended
<1>5. OutcomeType'
  <2>1. Reports
    BY Zenon DEF DirectUndo, Reports
  <2> QED BY <2>1, ReportsTyped DEF IInv, Types
<1>6. Files' /\ Watching' /\ Stopped' /\ Reporting'
  BY UpgradeAssumption DEF IInv, Types, Files, Before, Between, After, Back,
     Undoing, DiskType, Watching, Stopped, Reporting, DirectUndo, Restore,
     Ended
<1>7. OldVersionKept'
  BY UpgradeAssumption DEF IInv, Types, OldVersionKept, DiskType, Files,
     Between, DirectUndo, Restore, Ended
<1>8. ReportsAreTrue'
  <2>1. swap = "direct.undo" /\ disk.backup = "old" /\ DiskType
    BY DEF IInv, Types, Files, Between, DirectUndo
  <2>2. CASE disk' = Restore(disk) /\ Ended("aborted", None, TRUE)
    BY <2>1, <2>2 DEF ReportsAreTrue, DiskType, Restore, Ended
  <2>3. CASE Ended("aborted", None, FALSE)
    BY <2>3 DEF ReportsAreTrue, Ended
  <2> QED BY <2>2, <2>3 DEF DirectUndo
<1>9. (confirmed \/ Unconfirmed)'
  BY UpgradeAssumption DEF IInv, Types, Unconfirmed, Files, After, Watching,
     DiskType, DirectUndo, Restore, Ended
<1> QED
  BY <1>1, <1>2, <1>3, <1>4, <1>5, <1>6, <1>7, <1>8, <1>9 DEF IInv, Types

LEMMA DirectSpawnIInv == ASSUME IInv, DirectSpawn PROVE IInv'
<1>1. DiskType' /\ RelayType' /\ OutcomeType' /\ OldVersionKept' /\
      ReportsAreTrue'
  BY DEF IInv, Types, DiskType, RelayType, OutcomeType, OldVersionKept,
     ReportsAreTrue, DirectSpawn, files
<1>2. FaultsType' /\ FlagsType'
  BY UpgradeAssumption DEF IInv, Types, FaultsType, FlagsType, HelperSteps,
     RestartSteps, DirectSpawn, Fault, files
<1>3. AgentType'
  <2>1. disk.target # None /\ DiskType /\ AgentType
    BY UpgradeAssumption DEF IInv, Types, Files, After, DirectSpawn
  <2>2. CASE agent' = Started("env")
    BY <2>1, <2>2, StartedAgent, AliveTyped
  <2>3. CASE UNCHANGED agent
    BY <2>1, <2>3, SameTyped
  <2> QED BY <2>2, <2>3 DEF DirectSpawn
<1>4. Files' /\ Watching' /\ Stopped' /\ Reporting'
  BY UpgradeAssumption DEF IInv, Types, Files, Before, Between, After, Back,
     Undoing, Watching, AgentType, AgentRecord, Gone, Stopped, Reporting,
     DirectSpawn, Started, files
<1>5. (confirmed \/ Unconfirmed)'
  BY UpgradeAssumption DEF IInv, Types, Unconfirmed, AgentType, AgentRecord,
     Gone, Files, After, Watching, DirectSpawn, Started, files
<1> QED
  BY <1>1, <1>2, <1>3, <1>4, <1>5 DEF IInv, Types

LEMMA DirectRegisteredIInv == ASSUME IInv, DirectRegistered PROVE IInv'
<1>1. AgentType' /\ RelayType' /\ FaultsType'
  BY DEF IInv, Types, AgentType, RelayType, FaultsType, DirectRegistered
<1>2. DiskType' /\ FlagsType'
  BY UpgradeAssumption DEF IInv, Types, DiskType, Image, FlagsType,
     HelperSteps, RestartSteps, DirectRegistered, Ended, NewRegistered
<1>3. OutcomeType'
  <2>1. Reports
    BY Zenon DEF DirectRegistered, Reports
  <2> QED BY <2>1, ReportsTyped DEF IInv, Types
<1>4. Files' /\ Watching' /\ Stopped' /\ Reporting'
  BY UpgradeAssumption DEF IInv, Types, Files, Before, Between, After, Back,
     Undoing, DiskType, Watching, Stopped, Reporting, DirectRegistered,
     Ended, NewRegistered
<1>5. OldVersionKept'
  BY UpgradeAssumption DEF IInv, Types, OldVersionKept, DiskType, Files,
     After, Watching, Unconfirmed, AgentType, DirectRegistered, Ended,
     NewRegistered
<1>6. ReportsAreTrue'
  BY UpgradeAssumption DEF IInv, Types, ReportsAreTrue, DiskType, Files,
     Reporting, After, Watching, Unconfirmed, OldVersionKept,
     DirectRegistered, Ended, NewRegistered
<1>7. (confirmed \/ Unconfirmed)'
  BY UpgradeAssumption DEF IInv, Types, Unconfirmed, Files, After, Watching,
     DiskType, DirectRegistered, Ended, NewRegistered
<1> QED
  BY <1>1, <1>2, <1>3, <1>4, <1>5, <1>6, <1>7 DEF IInv, Types

LEMMA DirectGivesUpIInv == ASSUME IInv, DirectGivesUp PROVE IInv'
<1>1. DiskType' /\ OutcomeType' /\ FaultsType' /\ OldVersionKept' /\
      ReportsAreTrue'
  BY DEF IInv, Types, DiskType, OutcomeType, FaultsType, OldVersionKept,
     ReportsAreTrue, DirectGivesUp, files
<1>2. RelayType' /\ FlagsType'
  BY UpgradeAssumption DEF IInv, Types, RelayType, FlagsType, HelperSteps,
     RestartSteps, DirectGivesUp, Killed, Offline, files
<1>3. AgentType'
  BY UpgradeAssumption DEF IInv, Types, AgentType, AgentRecord, AgentPc,
     Image, Gone, After, DirectGivesUp, Killed, files
<1>4. Files' /\ Watching' /\ Stopped' /\ Reporting'
  BY UpgradeAssumption DEF IInv, Types, Files, Before, Between, After, Back,
     Undoing, Watching, AgentType, AgentRecord, Gone, Stopped, Reporting,
     DirectGivesUp, Killed, files
<1>5. (confirmed \/ Unconfirmed)'
  BY UpgradeAssumption DEF IInv, Types, Unconfirmed, AgentType, AgentRecord,
     Gone, DirectGivesUp, Killed, files
<1> QED
  BY <1>1, <1>2, <1>3, <1>4, <1>5 DEF IInv, Types

LEMMA DirectRollbackIInv == ASSUME IInv, DirectRollback PROVE IInv'
<1>1. AgentType' /\ RelayType'
  BY DEF IInv, Types, AgentType, RelayType, DirectRollback
<1>2. DiskType'
  BY UpgradeAssumption DEF IInv, Types, DiskType, Image, DirectRollback,
     Restore, Ended
<1>3. FaultsType'
  BY UpgradeAssumption DEF IInv, Types, FaultsType, DirectRollback, Fault,
     Ended
<1>4. FlagsType'
  BY UpgradeAssumption DEF IInv, Types, FlagsType, HelperSteps, RestartSteps,
     DirectRollback, Ended
<1>5. OutcomeType'
  <2>1. Reports
    BY Zenon DEF DirectRollback, Reports
  <2> QED BY <2>1, ReportsTyped DEF IInv, Types
<1>6. Files' /\ Watching' /\ Stopped' /\ Reporting'
  BY UpgradeAssumption DEF IInv, Types, Files, Before, Between, After, Back,
     Undoing, DiskType, Watching, Stopped, Reporting, DirectRollback,
     Restore, Ended
<1>7. OldVersionKept'
  BY UpgradeAssumption DEF IInv, Types, OldVersionKept, DiskType, Files,
     After, Back, DirectRollback, Restore, Ended
<1>8. ReportsAreTrue'
  BY UpgradeAssumption DEF IInv, Types, ReportsAreTrue, DiskType, Files,
     Reporting, After, Back, OldVersionKept, DirectRollback, Restore, Ended
<1>9. (confirmed \/ Unconfirmed)'
  BY UpgradeAssumption DEF IInv, Types, Unconfirmed, Files, After, Watching,
     DiskType, DirectRollback, Restore, Ended
<1> QED
  BY <1>1, <1>2, <1>3, <1>4, <1>5, <1>6, <1>7, <1>8, <1>9 DEF IInv, Types

LEMMA DirectRespawnIInv == ASSUME IInv, DirectRespawn PROVE IInv'
<1>1. DiskType' /\ RelayType' /\ OldVersionKept'
  BY DEF IInv, Types, DiskType, RelayType, OldVersionKept, DirectRespawn,
     files
<1>2. FaultsType' /\ FlagsType'
  BY UpgradeAssumption DEF IInv, Types, FaultsType, FlagsType, HelperSteps,
     RestartSteps, DirectRespawn, Fault, Ended, files
<1>3. AgentType'
  <2>1. disk.target # None /\ DiskType /\ AgentType
    BY UpgradeAssumption DEF IInv, Types, Files, Back, DirectRespawn
  <2>2. CASE agent' = Started("sid")
    BY <2>1, <2>2, StartedAgent, AliveTyped
  <2>3. CASE UNCHANGED agent
    BY <2>1, <2>3, SameTyped
  <2> QED BY <2>2, <2>3 DEF DirectRespawn
<1>4. OutcomeType'
  <2>1. Reports
    BY Zenon DEF DirectRespawn, Reports, files
  <2> QED BY <2>1, ReportsTyped DEF IInv, Types
<1>5. Files' /\ Watching' /\ Stopped' /\ Reporting'
  BY UpgradeAssumption DEF IInv, Types, Files, Before, Between, After, Back,
     Undoing, Watching, AgentType, AgentRecord, Gone, Stopped, Reporting,
     DirectRespawn, Started, Ended, files
<1>6. ReportsAreTrue'
  BY UpgradeAssumption DEF IInv, Types, ReportsAreTrue, DiskType, Files,
     Reporting, Back, OldVersionKept, DirectRespawn, Ended, files
<1>7. (confirmed \/ Unconfirmed)'
  BY UpgradeAssumption, ZenonT(60) DEF IInv, Types, Unconfirmed, AgentType,
     AgentRecord, Gone, Files, After, Watching, DirectRespawn, Started, Ended, files
<1> QED
  BY <1>1, <1>2, <1>3, <1>4, <1>5, <1>6, <1>7 DEF IInv, Types

LEMMA DirectAwaitOldIInv == ASSUME IInv, DirectAwaitOld PROVE IInv'
<1>1. DiskType' /\ AgentType' /\ RelayType' /\ OutcomeType' /\ FaultsType'
      /\ OldVersionKept' /\ ReportsAreTrue'
  BY DEF IInv, Types, DiskType, AgentType, RelayType, OutcomeType,
     FaultsType, OldVersionKept, ReportsAreTrue, DirectAwaitOld, files
<1>2. FlagsType'
  BY UpgradeAssumption DEF IInv, Types, FlagsType, HelperSteps, RestartSteps,
     DirectAwaitOld, files
<1>3. Files' /\ Watching' /\ Stopped' /\ Reporting'
  BY UpgradeAssumption DEF IInv, Types, Files, Before, Between, After, Back,
     Undoing, Watching, Stopped, Reporting, DirectAwaitOld, files
<1>4. (confirmed \/ Unconfirmed)'
  BY UpgradeAssumption DEF IInv, Types, Unconfirmed, DirectAwaitOld, files
<1> QED
  BY <1>1, <1>2, <1>3, <1>4 DEF IInv, Types

LEMMA DirectBindIInv == ASSUME IInv, DirectBind PROVE IInv'
<1>1. DiskType' /\ AgentType' /\ OldVersionKept'
  BY DEF IInv, Types, DiskType, AgentType, OldVersionKept, DirectBind, files
<1>2. RelayType' /\ FaultsType' /\ FlagsType'
  BY UpgradeAssumption DEF IInv, Types, RelayType, FaultsType, FlagsType,
     HelperSteps, RestartSteps, DirectBind, Fault, Ended, files
<1>3. OutcomeType'
  <2>1. Reports
    BY Zenon DEF DirectBind, Reports, files
  <2> QED BY <2>1, ReportsTyped DEF IInv, Types
<1>4. Files' /\ Watching' /\ Stopped' /\ Reporting'
  BY UpgradeAssumption DEF IInv, Types, Files, Before, Between, After, Back,
     Undoing, Watching, Stopped, Reporting, DirectBind, Ended, files
<1>5. ReportsAreTrue'
  BY UpgradeAssumption DEF IInv, Types, ReportsAreTrue, DiskType, Files,
     Reporting, Back, OldVersionKept, DirectBind, Ended, files
<1>6. (confirmed \/ Unconfirmed)'
  BY UpgradeAssumption DEF IInv, Types, Unconfirmed, DirectBind, Ended, files
<1> QED
  BY <1>1, <1>2, <1>3, <1>4, <1>5, <1>6 DEF IInv, Types

-----------------------------------------------------------------------------
(* Coordinated                                                             *)

LEMMA UnitStopIInv == ASSUME IInv, UnitStop PROVE IInv'
<1>1. DiskType' /\ OutcomeType' /\ OldVersionKept' /\ ReportsAreTrue'
  BY DEF IInv, Types, DiskType, OutcomeType, OldVersionKept, ReportsAreTrue,
     UnitStop, files
<1>2. RelayType'
  BY UpgradeAssumption DEF IInv, Types, RelayType, UnitStop, Killed, Offline,
     files
<1>3. FaultsType'
  BY UpgradeAssumption DEF IInv, Types, FaultsType, UnitStop, Fails, Fault,
     files
<1>4. FlagsType'
  BY UpgradeAssumption DEF IInv, Types, FlagsType, HelperSteps, RestartSteps,
     UnitStop, Step, Fails, files
<1>5. AgentType'
  <2>1. CASE Killed
    BY <2>1, KilledTyped
  <2>2. CASE UNCHANGED agent
    BY <2>2, SameTyped DEF IInv, Types
  <2> QED BY <2>1, <2>2 DEF UnitStop
<1>6. Files' /\ Watching' /\ Stopped' /\ Reporting'
  BY UpgradeAssumption DEF IInv, Types, Files, Before, Between, After, Back,
     Undoing, Watching, AgentType, AgentRecord, Gone, Stopped, Reporting,
     UnitStop, Killed, Step, Fails, files
<1>7. (confirmed \/ Unconfirmed)'
  BY UpgradeAssumption DEF IInv, Types, Unconfirmed, AgentType, AgentRecord,
     Gone, UnitStop, Killed, Step, Fails, files
<1> QED
  BY <1>1, <1>2, <1>3, <1>4, <1>5, <1>6, <1>7 DEF IInv, Types

LEMMA UnitBackupIInv == ASSUME IInv, UnitBackup PROVE IInv'
<1>1. AgentType' /\ RelayType' /\ OutcomeType'
  BY DEF IInv, Types, AgentType, RelayType, OutcomeType, UnitBackup
<1>2. DiskType'
  BY UpgradeAssumption DEF IInv, Types, DiskType, Image, UnitBackup, SetAside
<1>3. FaultsType'
  BY UpgradeAssumption DEF IInv, Types, FaultsType, UnitBackup, Fails, Fault
<1>4. FlagsType'
  BY UpgradeAssumption DEF IInv, Types, FlagsType, HelperSteps, RestartSteps,
     UnitBackup, Step, Fails
<1>5. Files' /\ Watching' /\ Stopped' /\ Reporting'
  BY UpgradeAssumption DEF IInv, Types, Files, Before, Between, After, Back,
     Undoing, DiskType, Watching, Stopped, Reporting, UnitBackup, SetAside,
     Step, Fails
<1>6. OldVersionKept' /\ ReportsAreTrue'
  BY UpgradeAssumption DEF IInv, Types, OldVersionKept, DiskType, Files,
     Before, Between, ReportsAreTrue, Reporting, UnitBackup, SetAside, Step,
     Fails
<1>7. (confirmed \/ Unconfirmed)'
  BY UpgradeAssumption DEF IInv, Types, Unconfirmed, Files, After, Watching,
     DiskType, UnitBackup, SetAside, Step, Fails
<1> QED
  BY <1>1, <1>2, <1>3, <1>4, <1>5, <1>6, <1>7 DEF IInv, Types

LEMMA UnitInstallIInv == ASSUME IInv, UnitInstall PROVE IInv'
<1>1. AgentType' /\ RelayType' /\ OutcomeType'
  BY DEF IInv, Types, AgentType, RelayType, OutcomeType, UnitInstall
<1>2. DiskType'
  BY UpgradeAssumption DEF IInv, Types, DiskType, Image, UnitInstall, Install
<1>3. FaultsType'
  BY UpgradeAssumption DEF IInv, Types, FaultsType, UnitInstall, Fails, Fault
<1>4. FlagsType'
  BY UpgradeAssumption DEF IInv, Types, FlagsType, HelperSteps, RestartSteps,
     UnitInstall, Step, Fails
<1>5. Files' /\ Watching' /\ Stopped' /\ Reporting'
  BY UpgradeAssumption DEF IInv, Types, Files, Before, Between, After, Back,
     Undoing, DiskType, Watching, Stopped, Reporting, UnitInstall, Install,
     Step, Fails
<1>6. OldVersionKept' /\ ReportsAreTrue'
  BY UpgradeAssumption DEF IInv, Types, OldVersionKept, DiskType, Files,
     Between, After, ReportsAreTrue, Reporting, UnitInstall, Install, Step,
     Fails
<1>7. (confirmed \/ Unconfirmed)'
  BY UpgradeAssumption DEF IInv, Types, Unconfirmed, Files, After, Watching,
     DiskType, UnitInstall, Install, Step, Fails
<1> QED
  BY <1>1, <1>2, <1>3, <1>4, <1>5, <1>6, <1>7 DEF IInv, Types

LEMMA UnitVerifyIInv == ASSUME IInv, UnitVerify PROVE IInv'
<1>1. DiskType' /\ AgentType' /\ RelayType' /\ OutcomeType' /\
      OldVersionKept' /\ ReportsAreTrue'
  BY DEF IInv, Types, DiskType, AgentType, RelayType, OutcomeType,
     OldVersionKept, ReportsAreTrue, UnitVerify, files
<1>2. FaultsType' /\ FlagsType'
  BY UpgradeAssumption DEF IInv, Types, FaultsType, FlagsType, HelperSteps,
     RestartSteps, UnitVerify, Step, Fails, Fault, files
<1>3. Files' /\ Watching' /\ Stopped' /\ Reporting'
  BY UpgradeAssumption DEF IInv, Types, Files, Before, Between, After, Back,
     Undoing, Watching, Stopped, Reporting, UnitVerify, Step, Fails, files
<1>4. (confirmed \/ Unconfirmed)'
  BY UpgradeAssumption DEF IInv, Types, Unconfirmed, UnitVerify, Step, Fails,
     files
<1> QED
  BY <1>1, <1>2, <1>3, <1>4 DEF IInv, Types

LEMMA UnitPointerIInv == ASSUME IInv, UnitPointer PROVE IInv'
<1>1. DiskType' /\ AgentType' /\ RelayType' /\ OutcomeType' /\
      OldVersionKept' /\ ReportsAreTrue'
  BY DEF IInv, Types, DiskType, AgentType, RelayType, OutcomeType,
     OldVersionKept, ReportsAreTrue, UnitPointer
<1>2. FaultsType' /\ FlagsType'
  BY UpgradeAssumption DEF IInv, Types, FaultsType, FlagsType, HelperSteps,
     RestartSteps, UnitPointer, Fault, Step
<1>3. Files' /\ Watching' /\ Stopped' /\ Reporting'
  BY UpgradeAssumption DEF IInv, Types, Files, Before, Between, After, Back,
     Undoing, Watching, Stopped, Reporting, UnitPointer, Step
<1>4. (confirmed \/ Unconfirmed)'
  BY UpgradeAssumption DEF IInv, Types, Unconfirmed, Stopped, Undoing, Files,
     After, Watching, UnitPointer, Step
<1> QED
  BY <1>1, <1>2, <1>3, <1>4 DEF IInv, Types

LEMMA UnitStartIInv == ASSUME IInv, UnitStart PROVE IInv'
<1>1. DiskType' /\ RelayType' /\ OutcomeType' /\ OldVersionKept' /\
      ReportsAreTrue'
  BY DEF IInv, Types, DiskType, RelayType, OutcomeType, OldVersionKept,
     ReportsAreTrue, UnitStart, files
<1>2. FaultsType' /\ FlagsType'
  BY UpgradeAssumption DEF IInv, Types, FaultsType, FlagsType, HelperSteps,
     RestartSteps, UnitStart, Step, Fails, Fault, StartUnit, files
<1>3. AgentType'
  <2>1. CASE disk.target # None /\ agent' = Started("plain")
    BY <2>1, StartedAgent, AliveTyped DEF IInv, Types
  <2>2. CASE UNCHANGED agent
    BY <2>2, SameTyped DEF IInv, Types
  <2> QED BY <2>1, <2>2 DEF UnitStart, StartUnit
<1>4. Files' /\ Watching' /\ Stopped' /\ Reporting'
  BY UpgradeAssumption DEF IInv, Types, Files, Before, Between, After, Back,
     Undoing, Watching, AgentType, AgentRecord, Gone, Stopped, Reporting,
     UnitStart, Step, Fails, StartUnit, Started, files
<1>5. (confirmed \/ Unconfirmed)'
  BY UpgradeAssumption, ZenonT(60) DEF IInv, Types, Unconfirmed, AgentType, AgentRecord,
     Gone, Files, After, Watching, Stopped, Undoing, UnitStart, Step, Fails,
     StartUnit, Started, files
<1> QED
  BY <1>1, <1>2, <1>3, <1>4, <1>5 DEF IInv, Types

LEMMA AwaitConsumedIInv == ASSUME IInv, AwaitConsumed PROVE IInv'
<1>1. AgentType' /\ RelayType' /\ FaultsType'
  BY DEF IInv, Types, AgentType, RelayType, FaultsType, AwaitConsumed
<1>2. DiskType' /\ FlagsType'
  BY UpgradeAssumption DEF IInv, Types, DiskType, Image, FlagsType,
     HelperSteps, RestartSteps, AwaitConsumed, Ended
<1>3. OutcomeType'
  <2>1. Reports
    BY Zenon DEF AwaitConsumed, Reports
  <2> QED BY <2>1, ReportsTyped DEF IInv, Types
<1>4. Files' /\ Watching' /\ Stopped' /\ Reporting'
  BY UpgradeAssumption DEF IInv, Types, Files, Before, Between, After, Back,
     Undoing, DiskType, Watching, Stopped, Reporting, AwaitConsumed, Ended
<1>5. OldVersionKept' /\ ReportsAreTrue'
  BY UpgradeAssumption DEF IInv, Types, OldVersionKept, DiskType, Files,
     After, Watching, Unconfirmed, AgentType, ReportsAreTrue, Reporting,
     AwaitConsumed, Ended
<1>6. (confirmed \/ Unconfirmed)'
  BY UpgradeAssumption DEF IInv, Types, Unconfirmed, Files, After, Watching,
     DiskType, Stopped, Undoing, AwaitConsumed, Ended
<1> QED
  BY <1>1, <1>2, <1>3, <1>4, <1>5, <1>6 DEF IInv, Types

LEMMA AwaitTimesOutIInv == ASSUME IInv, AwaitTimesOut PROVE IInv'
<1>1. DiskType' /\ OutcomeType' /\ OldVersionKept' /\ ReportsAreTrue'
  BY DEF IInv, Types, DiskType, OutcomeType, OldVersionKept, ReportsAreTrue,
     AwaitTimesOut, files
<1>2. RelayType'
  BY UpgradeAssumption DEF IInv, Types, RelayType, AwaitTimesOut, Killed,
     Offline, files
<1>3. FaultsType'
  BY UpgradeAssumption DEF IInv, Types, FaultsType, AwaitTimesOut, Fault,
     files
<1>4. FlagsType'
  BY UpgradeAssumption DEF IInv, Types, FlagsType, HelperSteps, RestartSteps,
     AwaitTimesOut, Step, files
<1>5. AgentType'
  <2>1. CASE Killed
    BY <2>1, KilledTyped
  <2>2. CASE UNCHANGED agent
    BY <2>2, SameTyped DEF IInv, Types
  <2> QED BY <2>1, <2>2 DEF AwaitTimesOut
<1>6. Files' /\ Watching' /\ Stopped' /\ Reporting'
  BY UpgradeAssumption DEF IInv, Types, Files, Before, Between, After, Back,
     Undoing, Watching, AgentType, AgentRecord, Gone, Stopped, Reporting,
     AwaitTimesOut, Killed, Step, files
<1>7. (confirmed \/ Unconfirmed)'
  BY UpgradeAssumption DEF IInv, Types, Unconfirmed, AgentType, AgentRecord,
     Gone, Stopped, Undoing, Files, After, AwaitTimesOut, Killed, Step, files
<1> QED
  BY <1>1, <1>2, <1>3, <1>4, <1>5, <1>6, <1>7 DEF IInv, Types

LEMMA UnitRestoreIInv == ASSUME IInv, UnitRestore PROVE IInv'
<1>1. AgentType' /\ RelayType' /\ OutcomeType'
  BY DEF IInv, Types, AgentType, RelayType, OutcomeType, UnitRestore
<1>2. DiskType'
  BY UpgradeAssumption DEF IInv, Types, DiskType, Image, UnitRestore, Restore
<1>3. FaultsType'
  BY UpgradeAssumption DEF IInv, Types, FaultsType, UnitRestore, Fault
<1>4. FlagsType'
  BY UpgradeAssumption DEF IInv, Types, FlagsType, HelperSteps, RestartSteps,
     UnitRestore, Step
<1>5. Files' /\ Watching' /\ Stopped' /\ Reporting'
  BY UpgradeAssumption DEF IInv, Types, Files, Before, Between, After, Back,
     Undoing, DiskType, Watching, Stopped, Reporting, UnitRestore, Restore,
     Step
<1>6. OldVersionKept' /\ ReportsAreTrue'
  BY UpgradeAssumption DEF IInv, Types, OldVersionKept, DiskType, Files,
     Undoing, ReportsAreTrue, Reporting, UnitRestore, Restore, Step
<1>7. (confirmed \/ Unconfirmed)'
  BY UpgradeAssumption DEF IInv, Types, Unconfirmed, Files, After, Watching,
     DiskType, UnitRestore, Restore, Step
<1> QED
  BY <1>1, <1>2, <1>3, <1>4, <1>5, <1>6, <1>7 DEF IInv, Types

LEMMA UnitRestartIInv == ASSUME IInv, UnitRestart PROVE IInv'
<1>1. DiskType' /\ RelayType' /\ OldVersionKept'
  BY DEF IInv, Types, DiskType, RelayType, OldVersionKept, UnitRestart, files
<1>2. FaultsType' /\ FlagsType'
  BY UpgradeAssumption DEF IInv, Types, FaultsType, FlagsType, HelperSteps,
     RestartSteps, UnitRestart, Fault, Ended, StartUnit, files
<1>3. AgentType'
  <2>1. CASE disk.target # None /\ agent' = Started("plain")
    BY <2>1, StartedAgent, AliveTyped DEF IInv, Types
  <2>2. CASE UNCHANGED agent
    BY <2>2, SameTyped DEF IInv, Types
  <2> QED BY <2>1, <2>2, Zenon DEF UnitRestart, StartUnit
<1>4. OutcomeType'
  <2>1. Reports
    BY Zenon DEF UnitRestart, Reports, files
  <2> QED BY <2>1, ReportsTyped DEF IInv, Types
<1>5. Files' /\ Watching' /\ Stopped' /\ Reporting'
  BY UpgradeAssumption DEF IInv, Types, Files, Before, Between, After, Back,
     Undoing, Watching, AgentType, AgentRecord, Gone, Stopped, Reporting,
     UnitRestart, Ended, StartUnit, Started, files
<1>6. ReportsAreTrue'
  BY UpgradeAssumption DEF IInv, Types, ReportsAreTrue, DiskType, Files,
     Reporting, Undoing, OldVersionKept, UnitRestart, Ended, files
<1>7. (confirmed \/ Unconfirmed)'
  BY UpgradeAssumption, ZenonT(60) DEF IInv, Types, Unconfirmed, AgentType,
     AgentRecord, Gone, Files, After, Watching, UnitRestart, Ended, StartUnit,
     Started, files
<1> QED
  BY <1>1, <1>2, <1>3, <1>4, <1>5, <1>6, <1>7 DEF IInv, Types

-----------------------------------------------------------------------------
(* SystemdRestart                                                          *)

LEMMA RestartBackupIInv == ASSUME IInv, RestartBackup PROVE IInv'
<1>1. AgentType' /\ RelayType'
  BY DEF IInv, Types, AgentType, RelayType, RestartBackup
<1>2. DiskType'
  BY UpgradeAssumption DEF IInv, Types, DiskType, Image, RestartBackup,
     SetAside, RestartFailed, Ended
<1>3. FaultsType'
  BY UpgradeAssumption DEF IInv, Types, FaultsType, RestartBackup, Fault,
     RestartFailed, Ended
<1>4. FlagsType'
  BY UpgradeAssumption DEF IInv, Types, FlagsType, HelperSteps, RestartSteps,
     RestartBackup, Step, RestartFailed, Ended
<1>5. OutcomeType'
  <2>1. Reports
    BY Zenon DEF RestartBackup, Reports, RestartFailed
  <2> QED BY <2>1, ReportsTyped DEF IInv, Types
<1>6. Files' /\ Watching' /\ Stopped' /\ Reporting'
  BY UpgradeAssumption DEF IInv, Types, Files, Before, Between, After, Back,
     Undoing, DiskType, Watching, Stopped, Reporting, RestartBackup,
     SetAside, Original, Step, RestartFailed, Ended
<1>7. OldVersionKept'
  BY UpgradeAssumption DEF IInv, Types, OldVersionKept, DiskType, Files,
     Before, Between, RestartBackup, SetAside, Step, RestartFailed, Ended
<1>8. ReportsAreTrue'
  BY UpgradeAssumption DEF IInv, Types, ReportsAreTrue, DiskType, Files,
     Reporting, Before, Between, OldVersionKept, RestartBackup, SetAside,
     Step, RestartFailed, Ended
<1>9. (confirmed \/ Unconfirmed)'
  BY UpgradeAssumption DEF IInv, Types, Unconfirmed, Files, After, Watching,
     DiskType, RestartBackup, SetAside, Original, Step, RestartFailed, Ended
<1> QED
  BY <1>1, <1>2, <1>3, <1>4, <1>5, <1>6, <1>7, <1>8, <1>9 DEF IInv, Types

LEMMA RestartInstallIInv == ASSUME IInv, RestartInstall PROVE IInv'
<1>1. AgentType' /\ RelayType' /\ OutcomeType'
  BY DEF IInv, Types, AgentType, RelayType, OutcomeType, RestartInstall
<1>2. DiskType'
  BY UpgradeAssumption DEF IInv, Types, DiskType, Image, RestartInstall,
     Install
<1>3. FaultsType'
  BY UpgradeAssumption DEF IInv, Types, FaultsType, RestartInstall, Fault
<1>4. FlagsType'
  BY UpgradeAssumption DEF IInv, Types, FlagsType, HelperSteps, RestartSteps,
     RestartInstall, Step
<1>5. Files' /\ Watching' /\ Stopped' /\ Reporting'
  BY UpgradeAssumption DEF IInv, Types, Files, Before, Between, After, Back,
     Undoing, DiskType, Watching, Stopped, Reporting, RestartInstall,
     Install, Original, Step
<1>6. OldVersionKept' /\ ReportsAreTrue'
  BY UpgradeAssumption DEF IInv, Types, OldVersionKept, DiskType, Files,
     Between, After, ReportsAreTrue, Reporting, RestartInstall, Install, Step
<1>7. (confirmed \/ Unconfirmed)'
  BY UpgradeAssumption DEF IInv, Types, Unconfirmed, Files, After, Watching,
     DiskType, RestartInstall, Install, Original, Step
<1> QED
  BY <1>1, <1>2, <1>3, <1>4, <1>5, <1>6, <1>7 DEF IInv, Types

LEMMA RestartVerifyIInv == ASSUME IInv, RestartVerify PROVE IInv'
<1>1. DiskType' /\ AgentType' /\ RelayType' /\ OutcomeType' /\
      OldVersionKept' /\ ReportsAreTrue'
  BY DEF IInv, Types, DiskType, AgentType, RelayType, OutcomeType,
     OldVersionKept, ReportsAreTrue, RestartVerify, files
<1>2. FaultsType' /\ FlagsType'
  BY UpgradeAssumption DEF IInv, Types, FaultsType, FlagsType, HelperSteps,
     RestartSteps, RestartVerify, Fault, Step, files
<1>3. Files' /\ Watching' /\ Stopped' /\ Reporting'
  BY UpgradeAssumption DEF IInv, Types, Files, Before, Between, After, Back,
     Undoing, Watching, Stopped, Reporting, RestartVerify, Original, Step,
     files
<1>4. (confirmed \/ Unconfirmed)'
  BY UpgradeAssumption DEF IInv, Types, Unconfirmed, RestartVerify, Original,
     Step, files
<1> QED
  BY <1>1, <1>2, <1>3, <1>4 DEF IInv, Types

LEMMA RestartPointerIInv == ASSUME IInv, RestartPointer PROVE IInv'
<1>1. DiskType' /\ RelayType' /\ OutcomeType' /\ OldVersionKept' /\
      ReportsAreTrue'
  BY DEF IInv, Types, DiskType, RelayType, OutcomeType, OldVersionKept,
     ReportsAreTrue, RestartPointer
<1>2. FaultsType' /\ FlagsType'
  BY UpgradeAssumption DEF IInv, Types, FaultsType, FlagsType, HelperSteps,
     RestartSteps, RestartPointer, Fault, Step
<1>3. AgentType'
  BY UpgradeAssumption DEF IInv, Types, AgentType, AgentRecord, AgentPc,
     Image, Gone, After, RestartPointer, Original, Step
<1>4. Files' /\ Watching' /\ Stopped' /\ Reporting'
  BY UpgradeAssumption DEF IInv, Types, Files, Before, Between, After, Back,
     Undoing, Watching, AgentType, AgentRecord, Gone, Stopped, Reporting,
     RestartPointer, Original, Step
<1>5. (confirmed \/ Unconfirmed)'
  BY UpgradeAssumption DEF IInv, Types, Unconfirmed, AgentType, AgentRecord,
     Watching, RestartPointer, Original, Step
<1> QED
  BY <1>1, <1>2, <1>3, <1>4, <1>5 DEF IInv, Types

LEMMA RestartUndoIInv == ASSUME IInv, RestartUndo PROVE IInv'
<1>1. AgentType' /\ RelayType'
  BY DEF IInv, Types, AgentType, RelayType, RestartUndo
<1>2. DiskType'
  BY UpgradeAssumption DEF IInv, Types, DiskType, Image, RestartUndo,
     Restore, RestartFailed, Ended
<1>3. FaultsType'
  BY UpgradeAssumption DEF IInv, Types, FaultsType, RestartUndo, Fault,
     RestartFailed, Ended
<1>4. FlagsType'
  BY UpgradeAssumption DEF IInv, Types, FlagsType, HelperSteps, RestartSteps,
     RestartUndo, RestartFailed, Ended
<1>5. OutcomeType'
  <2>1. Reports
    BY Zenon DEF RestartUndo, Reports, RestartFailed
  <2> QED BY <2>1, ReportsTyped DEF IInv, Types
<1>6. Files' /\ Watching' /\ Stopped' /\ Reporting'
  BY UpgradeAssumption DEF IInv, Types, Files, Before, Between, After, Back,
     Undoing, DiskType, Watching, Stopped, Reporting, RestartUndo, Restore,
     Original, RestartFailed, Ended
<1>7. OldVersionKept'
  BY UpgradeAssumption DEF IInv, Types, OldVersionKept, DiskType, Files,
     RestartUndo, Restore, RestartFailed, Ended
<1>8. ReportsAreTrue'
  <2>1. swap = "restart.undo" /\ disk.backup = "old" /\ DiskType
    BY DEF IInv, Types, Files, RestartUndo
  <2>2. CASE disk' = Restore(disk) /\ Ended("failed", None, TRUE)
    BY <2>1, <2>2 DEF ReportsAreTrue, DiskType, Restore, Ended
  <2>3. CASE Ended("failed", None, FALSE)
    BY <2>3 DEF ReportsAreTrue, Ended
  <2> QED BY <2>2, <2>3, Zenon DEF RestartUndo, RestartFailed
<1>9. (confirmed \/ Unconfirmed)'
  BY UpgradeAssumption DEF IInv, Types, Unconfirmed, Files, After, Watching,
     DiskType, RestartUndo, Restore, Original, RestartFailed, Ended
<1> QED
  BY <1>1, <1>2, <1>3, <1>4, <1>5, <1>6, <1>7, <1>8, <1>9 DEF IInv, Types

-----------------------------------------------------------------------------
(* An agent that starts                                                    *)

LEMMA SystemdRestartsIInv == ASSUME IInv, SystemdRestarts PROVE IInv'
<1>1. DiskType' /\ RelayType' /\ OutcomeType' /\ FaultsType' /\ FlagsType'
      /\ Files' /\ Reporting' /\ OldVersionKept' /\ ReportsAreTrue'
  BY DEF IInv, Types, DiskType, RelayType, OutcomeType, FaultsType,
     FlagsType, Files, Reporting, OldVersionKept, ReportsAreTrue,
     SystemdRestarts, files, swapVars
<1>2. AgentType'
  BY UpgradeAssumption DEF IInv, Types, AgentType, AgentRecord, AgentPc,
     Image, Gone, Files, DiskType, SystemdRestarts, Started, files, swapVars
<1>3. Watching' /\ Stopped'
  BY UpgradeAssumption DEF IInv, Types, Watching, AgentType, AgentRecord,
     Gone, Stopped, Undoing, SystemdRestarts, Started, files, swapVars
<1>4. (confirmed \/ Unconfirmed)'
  BY UpgradeAssumption DEF IInv, Types, Unconfirmed, AgentType, AgentRecord,
     Gone, Files, After, Watching, SystemdRestarts, Started, files, swapVars
<1> QED
  BY <1>1, <1>2, <1>3, <1>4 DEF IInv, Types

LEMMA BootIInv == ASSUME IInv, Boot PROVE IInv'
<1>1. DiskType' /\ RelayType' /\ OutcomeType' /\ FaultsType' /\ Files' /\
      Reporting' /\ OldVersionKept' /\ ReportsAreTrue'
  BY DEF IInv, Types, DiskType, RelayType, OutcomeType, FaultsType, Files,
     Reporting, OldVersionKept, ReportsAreTrue, Boot, swapVars
<1>2. FlagsType'
  BY UpgradeAssumption DEF IInv, Types, FlagsType, HelperSteps, RestartSteps,
     Boot, KnowsPointer, swapVars
<1>3. AgentType'
  <2>1. AgentType /\ DiskType /\ handoff \in BOOLEAN
    BY DEF IInv, Types, FlagsType
  <2>2. agent.image # None
    BY UpgradeAssumption, <2>1, AliveAgent DEF Boot
  <2>3. CASE agent' = Gone
    BY <2>3, GoneAgent DEF AgentType, Gone
  <2>4. CASE agent' # Gone
    BY <2>1, <2>2, <2>4, BootResult, AliveTyped
  <2> QED BY <2>3, <2>4
<1>4. Watching' /\ Stopped'
  <2>1. AgentType /\ DiskType /\ handoff \in BOOLEAN /\ Watching /\ Stopped
    BY DEF IInv, Types, FlagsType
  <2>2. agent # Gone /\ UNCHANGED <<swap, unit, seen>>
    BY GoneAgent DEF Boot, swapVars
  <2> QED BY <2>1, <2>2, BootResult, GoneAgent, UpgradeAssumption
          DEF Watching, Stopped, Undoing
<1>5. (confirmed \/ Unconfirmed)'
  <2>1. AgentType /\ DiskType /\ handoff \in BOOLEAN
        /\ (confirmed \/ Unconfirmed)
    BY DEF IInv, Types, FlagsType
  <2>2. agent.pc = "boot"
        /\ UNCHANGED <<disk, handoff, swap, seen, marker, confirmed>>
    BY DEF Boot, swapVars
  <2> QED BY <2>1, <2>2, BootResult, GoneAgent, UpgradeAssumption
          DEF Unconfirmed
<1> QED
  BY <1>1, <1>2, <1>3, <1>4, <1>5 DEF IInv, Types

LEMMA RegisterIInv == ASSUME IInv, Register PROVE IInv'
<1>1. DiskType' /\ OutcomeType' /\ FaultsType' /\ FlagsType' /\ Files' /\
      Reporting' /\ OldVersionKept' /\ ReportsAreTrue'
  BY DEF IInv, Types, DiskType, OutcomeType, FaultsType, FlagsType, Files,
     Reporting, OldVersionKept, ReportsAreTrue, Register, files, swapVars
<1>2. RelayType'
  <2>1. Claims.tok \in {None, "T0", "T1"}
    BY AliveAgent DEF IInv, Types, AgentRecord, Register, Claims
  <2>2. RelayType
    BY DEF IInv, Types
  <2>3. CASE relay' = [tok |-> Claims.tok, online |-> FALSE]
    BY <2>1, <2>3 DEF RelayType
  <2>4. CASE relay' = [relay EXCEPT !.tok = IF @ = Claims.tok THEN None ELSE @]
    BY <2>2, <2>4 DEF RelayType
  <2> QED BY <2>3, <2>4 DEF Register
<1>3. AgentType'
  <2>1. agent \in AgentRecord /\ agent.image \in {"old", "new"}
    BY AliveAgent DEF IInv, Types, Register
  <2>2. Claims.tok \in {None, "T0", "T1"} /\ Claims.sid \in {None, "S", "other"}
    BY <2>1 DEF AgentRecord, Claims
  <2>3. \A pc \in {"confirm", "up"}, s \in {None, "S", "other"},
           t \in {None, "T0", "T1"} :
           LET a == [agent EXCEPT !.pc = pc, !.sid = s, !.tok = t] IN
           a \in AgentRecord /\ a.image = agent.image
    <3> SUFFICES ASSUME NEW pc \in {"confirm", "up"}, NEW s \in {None, "S", "other"},
                        NEW t \in {None, "T0", "T1"}
                 PROVE  LET a == [agent EXCEPT !.pc = pc, !.sid = s, !.tok = t] IN
                        a \in AgentRecord /\ a.image = agent.image
      OBVIOUS
    <3>1. pc \in AgentPc BY DEF AgentPc
    <3> QED BY <2>1, <3>1 DEF AgentRecord
  <2>4. PICK pc \in {"confirm", "up"} :
           agent' = [agent EXCEPT !.pc = pc, !.sid = Claims.sid,
                                  !.tok = Claims.tok]
    BY DEF Register, SetAgent
  <2>5. agent' \in AgentRecord /\ agent'.image = agent.image
    BY <2>2, <2>3, <2>4
  <2> QED BY UpgradeAssumption, <2>1, <2>5, AliveTyped
<1>4. Watching' /\ Stopped'
  BY UpgradeAssumption DEF IInv, Types, Watching, AgentType, AgentRecord,
     Gone, Stopped, Undoing, Register, SetAgent, Claims, files, swapVars
<1>5. (confirmed \/ Unconfirmed)'
  BY UpgradeAssumption DEF IInv, Types, Unconfirmed, AgentType, AgentRecord,
     Register, SetAgent, Claims, files, swapVars
<1> QED
  BY <1>1, <1>2, <1>3, <1>4, <1>5 DEF IInv, Types

LEMMA DialIInv == ASSUME IInv, Dial PROVE IInv'
<1>1. DiskType' /\ OutcomeType' /\ FaultsType' /\ FlagsType' /\ Files' /\
      Reporting' /\ OldVersionKept' /\ ReportsAreTrue'
  BY DEF IInv, Types, DiskType, OutcomeType, FaultsType, FlagsType, Files,
     Reporting, OldVersionKept, ReportsAreTrue, Dial, files, swapVars
<1>2. RelayType'
  BY UpgradeAssumption DEF IInv, Types, RelayType, Dial, files, swapVars
<1>3. AgentType'
  BY UpgradeAssumption DEF IInv, Types, AgentType, AgentRecord, AgentPc,
     Image, Gone, Dial, Original, SetAgent, files, swapVars
<1>4. Watching' /\ Stopped'
  BY UpgradeAssumption DEF IInv, Types, Watching, AgentType, AgentRecord,
     Gone, Stopped, Undoing, Dial, Original, SetAgent, files, swapVars
<1>5. (confirmed \/ Unconfirmed)'
  BY UpgradeAssumption DEF IInv, Types, Unconfirmed, AgentType, AgentRecord,
     Dial, Original, SetAgent, files, swapVars
<1> QED
  BY <1>1, <1>2, <1>3, <1>4, <1>5 DEF IInv, Types

LEMMA CompleteConsumeIInv == ASSUME IInv, CompleteConsume PROVE IInv'
<1>1. DiskType' /\ RelayType' /\ OutcomeType' /\ FaultsType' /\ Files' /\
      Reporting'
  BY DEF IInv, Types, DiskType, RelayType, OutcomeType, FaultsType, Files,
     Reporting, CompleteConsume, files, swapVars
<1>2. FlagsType'
  BY UpgradeAssumption DEF IInv, Types, FlagsType, HelperSteps, RestartSteps,
     CompleteConsume, files, swapVars
<1>3. AgentType'
  BY UpgradeAssumption DEF IInv, Types, AgentType, AgentRecord, AgentPc,
     Image, Gone, CompleteConsume, SetAgent, files, swapVars
<1>4. Watching' /\ Stopped'
  BY UpgradeAssumption DEF IInv, Types, Watching, AgentType, AgentRecord,
     Gone, Stopped, Undoing, CompleteConsume, SetAgent, files, swapVars
<1>5. OldVersionKept' /\ ReportsAreTrue'
  BY UpgradeAssumption DEF IInv, Types, OldVersionKept, DiskType, Files,
     ReportsAreTrue, Reporting, CompleteConsume, files, swapVars
<1>6. (confirmed \/ Unconfirmed)'
  <2>1. agent.image \in {"old", "new"} /\ agent \in AgentRecord
    BY AliveAgent DEF IInv, Types, CompleteConsume
  <2>2. /\ agent' = [agent EXCEPT !.pc = "consumed"]
        /\ UNCHANGED <<disk, handoff, pointer, swap, seen, marker>>
    BY DEF CompleteConsume, SetAgent, files, swapVars
  <2>3. CASE confirmed \/ agent.image = "new"
    BY <2>3 DEF CompleteConsume
  <2>4. CASE ~confirmed /\ agent.image = "old"
    BY <2>1, <2>2, <2>4 DEF IInv, Unconfirmed, AgentRecord
  <2> QED BY <2>1, <2>3, <2>4
<1> QED
  BY <1>1, <1>2, <1>3, <1>4, <1>5, <1>6 DEF IInv, Types

LEMMA CompleteRemoveIInv == ASSUME IInv, CompleteRemove PROVE IInv'
<1>1. DiskType' /\ RelayType' /\ OutcomeType' /\ FaultsType' /\ Files' /\
      Reporting' /\ OldVersionKept' /\ ReportsAreTrue'
  BY DEF IInv, Types, DiskType, RelayType, OutcomeType, FaultsType, Files,
     Reporting, OldVersionKept, ReportsAreTrue, CompleteRemove, swapVars
<1>2. FlagsType'
  BY UpgradeAssumption, ZenonT(60) DEF IInv, Types, FlagsType, HelperSteps,
     RestartSteps, CompleteRemove, swapVars
<1>3. AgentType'
  BY UpgradeAssumption DEF IInv, Types, AgentType, AgentRecord, AgentPc,
     Image, Gone, CompleteRemove, SetAgent, swapVars
<1>4. Watching' /\ Stopped'
  BY UpgradeAssumption DEF IInv, Types, Watching, AgentType, AgentRecord,
     Gone, Stopped, Undoing, CompleteRemove, SetAgent, swapVars
<1>5. (confirmed \/ Unconfirmed)'
  BY UpgradeAssumption DEF IInv, Types, Unconfirmed, AgentType, AgentRecord,
     CompleteRemove, SetAgent, swapVars
<1> QED
  BY <1>1, <1>2, <1>3, <1>4, <1>5 DEF IInv, Types

LEMMA CompleteAnnounceIInv == ASSUME IInv, CompleteAnnounce PROVE IInv'
<1>1. DiskType' /\ RelayType' /\ OutcomeType' /\ FaultsType' /\ Files' /\
      Reporting' /\ OldVersionKept' /\ ReportsAreTrue'
  BY DEF IInv, Types, DiskType, RelayType, OutcomeType, FaultsType, Files,
     Reporting, OldVersionKept, ReportsAreTrue, CompleteAnnounce, files,
     swapVars
<1>2. FlagsType'
  BY UpgradeAssumption DEF IInv, Types, FlagsType, HelperSteps, RestartSteps,
     CompleteAnnounce, files, swapVars
<1>3. AgentType'
  BY UpgradeAssumption DEF IInv, Types, AgentType, AgentRecord, AgentPc,
     Image, Gone, CompleteAnnounce, SetAgent, files, swapVars
<1>4. Watching' /\ Stopped'
  BY UpgradeAssumption DEF IInv, Types, Watching, AgentType, AgentRecord,
     Gone, Stopped, Undoing, CompleteAnnounce, SetAgent, files, swapVars
<1>5. (confirmed \/ Unconfirmed)'
  BY UpgradeAssumption DEF IInv, Types, Unconfirmed, AgentType, AgentRecord,
     CompleteAnnounce, SetAgent, files, swapVars
<1> QED
  BY <1>1, <1>2, <1>3, <1>4, <1>5 DEF IInv, Types

LEMMA CompleteCleanIInv == ASSUME IInv, CompleteClean PROVE IInv'
<1>1. RelayType' /\ OutcomeType' /\ FaultsType' /\ FlagsType' /\ Reporting'
  BY DEF IInv, Types, RelayType, OutcomeType, FaultsType, FlagsType,
     Reporting, CompleteClean, swapVars
<1>2. DiskType'
  BY UpgradeAssumption DEF IInv, Types, DiskType, Image, CompleteClean,
     swapVars
<1>3. AgentType'
  <2>1. agent \in AgentRecord /\ agent.image \in {"old", "new"}
    BY AliveAgent DEF IInv, Types, CompleteClean
  <2>2. agent' = [agent EXCEPT !.pc = "up", !.restore = FALSE,
                               !.watchdog = "off"]
    BY DEF CompleteClean, SetAgent
  <2>3. agent' \in AgentRecord /\ agent'.image = agent.image
    BY <2>1, <2>2 DEF AgentRecord, AgentPc
  <2> QED BY UpgradeAssumption, <2>1, <2>3, AliveTyped
<1>4. Files' /\ Watching' /\ Stopped'
  BY UpgradeAssumption DEF IInv, Types, Files, Before, Between, After, Back,
     Undoing, DiskType, Watching, AgentType, AgentRecord, Gone, Stopped,
     CompleteClean, SetAgent, swapVars
<1>5. OldVersionKept' /\ ReportsAreTrue'
  BY UpgradeAssumption DEF IInv, Types, OldVersionKept, DiskType, Files,
     Watching, Unconfirmed, AgentType, ReportsAreTrue, Reporting,
     CompleteClean, swapVars
<1>6. (confirmed \/ Unconfirmed)'
  BY UpgradeAssumption DEF IInv, Types, Unconfirmed, AgentType, AgentRecord,
     Files, After, Watching, DiskType, CompleteClean, SetAgent, swapVars
<1> QED
  BY <1>1, <1>2, <1>3, <1>4, <1>5, <1>6 DEF IInv, Types

-----------------------------------------------------------------------------
(* The watchdog                                                            *)

LEMMA WatchdogExpiresIInv == ASSUME IInv, WatchdogExpires PROVE IInv'
<1>1. DiskType' /\ RelayType' /\ OutcomeType' /\ FaultsType' /\ FlagsType'
      /\ Files' /\ Reporting' /\ OldVersionKept' /\ ReportsAreTrue'
  BY DEF IInv, Types, DiskType, RelayType, OutcomeType, FaultsType,
     FlagsType, Files, Reporting, OldVersionKept, ReportsAreTrue,
     WatchdogExpires, files, swapVars
<1>2. AgentType'
  BY UpgradeAssumption DEF IInv, Types, AgentType, AgentRecord, AgentPc,
     Image, Gone, WatchdogExpires, SetAgent, Consumed, files, swapVars
<1>3. Watching' /\ Stopped'
  BY UpgradeAssumption DEF IInv, Types, Watching, AgentType, AgentRecord,
     Gone, Stopped, Undoing, WatchdogExpires, SetAgent, Consumed, files,
     swapVars
<1>4. (confirmed \/ Unconfirmed)'
  BY UpgradeAssumption DEF IInv, Types, Unconfirmed, AgentType, AgentRecord,
     WatchdogExpires, SetAgent, Consumed, files, swapVars
<1> QED
  BY <1>1, <1>2, <1>3, <1>4 DEF IInv, Types

LEMMA WatchdogLooksAgainIInv == ASSUME IInv, WatchdogLooksAgain PROVE IInv'
<1>1. DiskType' /\ RelayType' /\ OutcomeType' /\ FaultsType' /\ FlagsType'
      /\ Files' /\ Reporting' /\ OldVersionKept' /\ ReportsAreTrue'
  BY DEF IInv, Types, DiskType, RelayType, OutcomeType, FaultsType,
     FlagsType, Files, Reporting, OldVersionKept, ReportsAreTrue,
     WatchdogLooksAgain, files, swapVars
<1>2. AgentType'
  BY UpgradeAssumption DEF IInv, Types, AgentType, AgentRecord, AgentPc,
     Image, Gone, WatchdogLooksAgain, SetAgent, Consumed, files, swapVars
<1>3. Watching' /\ Stopped'
  BY UpgradeAssumption DEF IInv, Types, Watching, AgentType, AgentRecord,
     Gone, Stopped, Undoing, WatchdogLooksAgain, SetAgent, Consumed, files,
     swapVars
<1>4. (confirmed \/ Unconfirmed)'
  BY UpgradeAssumption DEF IInv, Types, Unconfirmed, AgentType, AgentRecord,
     WatchdogLooksAgain, SetAgent, Consumed, files, swapVars
<1> QED
  BY <1>1, <1>2, <1>3, <1>4 DEF IInv, Types

LEMMA WatchdogRollsBackIInv == ASSUME IInv, WatchdogRollsBack PROVE IInv'
<1>1. OutcomeType' /\ FlagsType' /\ Reporting'
  BY DEF IInv, Types, OutcomeType, FlagsType, Reporting, WatchdogRollsBack,
     swapVars
<1>2. DiskType'
  BY UpgradeAssumption DEF IInv, Types, DiskType, Image, WatchdogRollsBack,
     Restore, swapVars
<1>3. RelayType'
  BY UpgradeAssumption DEF IInv, Types, RelayType, WatchdogRollsBack, Killed,
     Offline, swapVars
<1>4. FaultsType'
  BY UpgradeAssumption DEF IInv, Types, FaultsType, WatchdogRollsBack, Fault,
     swapVars
<1>5. AgentType'
  <2>1. CASE Killed
    BY <2>1, KilledTyped
  <2>2. CASE Consumed /\ agent' = [agent EXCEPT !.watchdog = "off"]
    <3>1. agent \in AgentRecord /\ agent.image \in {"old", "new"}
      BY <2>2, AliveAgent DEF IInv, Types, Consumed
    <3>2. agent' \in AgentRecord /\ agent'.image = agent.image
      BY <2>2, <3>1 DEF AgentRecord
    <3> QED BY UpgradeAssumption, <3>1, <3>2, AliveTyped
  <2> QED BY <2>1, <2>2 DEF WatchdogRollsBack, SetAgent
<1>6. Files' /\ Watching' /\ Stopped'
  BY UpgradeAssumption DEF IInv, Types, Files, Before, Between, After, Back,
     Undoing, DiskType, Watching, AgentType, AgentRecord, Gone, Stopped,
     WatchdogRollsBack, Restore, Killed, SetAgent, Consumed, swapVars
<1>7. OldVersionKept' /\ ReportsAreTrue'
  BY UpgradeAssumption DEF IInv, Types, OldVersionKept, DiskType, Files,
     Watching, Unconfirmed, AgentType, ReportsAreTrue, Reporting,
     WatchdogRollsBack, Restore, swapVars
<1>8. (confirmed \/ Unconfirmed)'
  BY UpgradeAssumption DEF IInv, Types, Unconfirmed, AgentType, AgentRecord,
     Gone, Files, After, Watching, DiskType, WatchdogRollsBack, Restore,
     Killed, SetAgent, Consumed, swapVars
<1> QED
  BY <1>1, <1>2, <1>3, <1>4, <1>5, <1>6, <1>7, <1>8 DEF IInv, Types

-----------------------------------------------------------------------------
(* What goes wrong                                                         *)

LEMMA NewVersionDiesIInv == ASSUME IInv, NewVersionDies PROVE IInv'
<1>1. DiskType' /\ OutcomeType' /\ FaultsType' /\ FlagsType' /\ Files' /\
      Reporting' /\ OldVersionKept' /\ ReportsAreTrue'
  BY DEF IInv, Types, DiskType, OutcomeType, FaultsType, FlagsType, Files,
     Reporting, OldVersionKept, ReportsAreTrue, NewVersionDies, files,
     swapVars
<1>2. RelayType'
  BY UpgradeAssumption DEF IInv, Types, RelayType, NewVersionDies, Killed,
     Offline, files, swapVars
<1>3. AgentType'
  BY UpgradeAssumption DEF IInv, Types, AgentType, AgentRecord, AgentPc,
     Image, Gone, NewVersionDies, Killed, files, swapVars
<1>4. Watching' /\ Stopped'
  BY UpgradeAssumption DEF IInv, Types, Watching, AgentType, AgentRecord,
     Gone, Stopped, Undoing, NewVersionDies, Killed, files, swapVars
<1>5. (confirmed \/ Unconfirmed)'
  BY UpgradeAssumption DEF IInv, Types, Unconfirmed, AgentType, AgentRecord,
     Gone, NewVersionDies, Killed, files, swapVars
<1> QED
  BY <1>1, <1>2, <1>3, <1>4, <1>5 DEF IInv, Types

LEMMA AgentCrashesIInv == ASSUME IInv, AgentCrashes PROVE IInv'
<1>1. DiskType' /\ OutcomeType' /\ FlagsType' /\ Files' /\ Reporting' /\
      OldVersionKept' /\ ReportsAreTrue'
  BY DEF IInv, Types, DiskType, OutcomeType, FlagsType, Files, Reporting,
     OldVersionKept, ReportsAreTrue, AgentCrashes, files, swapVars
<1>2. RelayType'
  BY UpgradeAssumption DEF IInv, Types, RelayType, AgentCrashes, Killed,
     Offline, files, swapVars
<1>3. FaultsType'
  BY UpgradeAssumption DEF IInv, Types, FaultsType, AgentCrashes, Fault,
     files, swapVars
<1>4. AgentType'
  BY UpgradeAssumption DEF IInv, Types, AgentType, AgentRecord, AgentPc,
     Image, Gone, AgentCrashes, Killed, files, swapVars
<1>5. Watching' /\ Stopped'
  BY UpgradeAssumption DEF IInv, Types, Watching, AgentType, AgentRecord,
     Gone, Stopped, Undoing, AgentCrashes, Killed, files, swapVars
<1>6. (confirmed \/ Unconfirmed)'
  BY UpgradeAssumption DEF IInv, Types, Unconfirmed, AgentType, AgentRecord,
     Gone, AgentCrashes, Killed, files, swapVars
<1> QED
  BY <1>1, <1>2, <1>3, <1>4, <1>5, <1>6 DEF IInv, Types

LEMMA HelperCrashesIInv == ASSUME IInv, HelperCrashes PROVE IInv'
<1>1. DiskType' /\ AgentType' /\ RelayType' /\ OutcomeType' /\
      OldVersionKept' /\ ReportsAreTrue'
  BY DEF IInv, Types, DiskType, AgentType, RelayType, OutcomeType,
     OldVersionKept, ReportsAreTrue, HelperCrashes, files
<1>2. FaultsType' /\ FlagsType'
  BY UpgradeAssumption DEF IInv, Types, FaultsType, FlagsType, HelperSteps,
     RestartSteps, HelperCrashes, Fault, files
<1>3. Files' /\ Watching' /\ Stopped' /\ Reporting'
  BY UpgradeAssumption DEF IInv, Types, Files, Before, Between, After, Back,
     Undoing, Watching, Stopped, Reporting, HelperCrashes, HelperSteps, files
<1>4. (confirmed \/ Unconfirmed)'
  BY UpgradeAssumption DEF IInv, Types, Unconfirmed, HelperCrashes,
     HelperSteps, files
<1> QED
  BY <1>1, <1>2, <1>3, <1>4 DEF IInv, Types

-----------------------------------------------------------------------------
(* The specification                                                       *)

LEMMA InitIInv == Init => IInv
<1> SUFFICES ASSUME Init PROVE IInv
  OBVIOUS
<1>1. /\ probe \in Probes /\ version \in NewVersions /\ faults \in Weathers
      /\ disk = [target |-> "old", backup |-> None, part |-> "new"]
      /\ handoff = FALSE /\ pointer = None /\ unit = "active"
      /\ swap = "idle" /\ seen = FALSE /\ marker = FALSE /\ confirmed = FALSE
  BY DEF Init
<1>2. agent \in AgentRecord /\ agent.image = "old" /\ agent.how = "original"
      /\ agent.pc = "up" /\ agent.watchdog = "off"
  <2>1. agent = [Gone EXCEPT !.image = "old", !.how = "original", !.pc = "up",
                             !.sid = "S", !.tok = "T0"]
    BY DEF Init
  <2> QED BY <2>1 DEF Gone, AgentRecord, Image, AgentPc
<1>3. outcome = [result |-> None, identity |-> None, restored |-> FALSE]
  BY DEF Init
<1>4. DiskType /\ FlagsType
  BY <1>1 DEF DiskType, FlagsType, Image, HelperSteps, RestartSteps
<1>5. FaultsType
  BY <1>1, UpgradeAssumption DEF FaultsType
<1>6. RelayType
  BY DEF Init, RelayType
<1>7. OutcomeType
  BY <1>3 DEF OutcomeType
<1>8. AgentType
  BY UpgradeAssumption, <1>2 DEF AgentType, Gone
<1>9. Files /\ Watching /\ Stopped
  BY <1>1, <1>2, UpgradeAssumption
     DEF Files, Watching, Stopped, Before, Between, After, Back, Undoing
<1>10. Reporting /\ ReportsAreTrue
  BY <1>3, UpgradeAssumption DEF Reporting, ReportsAreTrue
<1>11. OldVersionKept /\ Unconfirmed
  BY <1>1, <1>2, UpgradeAssumption DEF OldVersionKept, Unconfirmed
<1> QED
  BY <1>4, <1>5, <1>6, <1>7, <1>8, <1>9, <1>10, <1>11 DEF IInv, Types

LEMMA SameIInv == ASSUME IInv, UNCHANGED vars PROVE IInv'
BY DEF IInv, Types, DiskType, AgentType, RelayType, OutcomeType, FaultsType,
   FlagsType, Files, Watching, Stopped, Reporting, OldVersionKept,
   ReportsAreTrue, Unconfirmed, vars, files, swapVars

LEMMA NextIInv == IInv /\ [Next]_vars => IInv'
<1> SUFFICES ASSUME IInv, [Next]_vars PROVE IInv'
  OBVIOUS
<1>1. CASE UNCHANGED vars
  BY <1>1, SameIInv
<1>2. CASE HandOver \/ HelperChecks \/ OldExits \/ WaitExit
  BY <1>2, HandOverIInv, HelperChecksIInv, OldExitsIInv, WaitExitIInv
<1>3. CASE DirectSwap \/ DirectGivesUp
  BY <1>3, DirectBackupIInv, DirectInstallIInv, DirectUndoIInv,
     DirectSpawnIInv, DirectRegisteredIInv, DirectRollbackIInv,
     DirectRespawnIInv, DirectAwaitOldIInv, DirectBindIInv, DirectGivesUpIInv
     DEF DirectSwap
<1>4. CASE CoordinatedSwap \/ AwaitTimesOut
  BY <1>4, UnitStopIInv, UnitBackupIInv, UnitInstallIInv, UnitVerifyIInv,
     UnitPointerIInv, UnitStartIInv, AwaitConsumedIInv, UnitRestoreIInv,
     UnitRestartIInv, AwaitTimesOutIInv DEF CoordinatedSwap
<1>5. CASE RestartSwap \/ SystemdRestarts
  BY <1>5, RestartBackupIInv, RestartInstallIInv, RestartVerifyIInv,
     RestartPointerIInv, RestartUndoIInv, SystemdRestartsIInv DEF RestartSwap
<1>6. CASE Boot \/ Register \/ Dial \/ Complete
  BY <1>6, BootIInv, RegisterIInv, DialIInv, CompleteConsumeIInv,
     CompleteRemoveIInv, CompleteAnnounceIInv, CompleteCleanIInv DEF Complete
<1>7. CASE Watchdog
  BY <1>7, WatchdogExpiresIInv, WatchdogLooksAgainIInv, WatchdogRollsBackIInv
     DEF Watchdog
<1>8. CASE NewVersionDies \/ AgentCrashes \/ HelperCrashes
  BY <1>8, NewVersionDiesIInv, AgentCrashesIInv, HelperCrashesIInv
<1> QED
  BY <1>1, <1>2, <1>3, <1>4, <1>5, <1>6, <1>7, <1>8 DEF Next

\* In every state there is a value of the right type in every variable, and a
\* process that runs runs some binary.
THEOREM TypeCorrect == Spec => []TypeOK
<1>1. IInv => TypeOK
  BY DEF IInv, Types, DiskType, AgentType, RelayType, OutcomeType, FaultsType,
     FlagsType, AgentRecord, TypeOK
<1>2. Spec => []IInv
  BY InitIInv, NextIInv, PTL DEF Spec
<1> QED BY <1>1, <1>2, PTL

\* However many renames, removals, starts and calls of systemctl fail, and
\* whoever is killed whenever and how often: the old binary is there until the
\* new version has registered (helper_main_with, coordinated_swap_with,
\* systemd_restart_swap_with, run_self_rollback_watchdog, complete).
THEOREM OldVersionNotLost == Spec => []OldVersionKept
<1>1. IInv => OldVersionKept
  BY DEF IInv
<1>2. Spec => []IInv
  BY InitIInv, NextIInv, PTL DEF Spec
<1> QED BY <1>1, <1>2, PTL

\* Nor does any of that make a report false, when it is sent or later (the
\* ends of the three plans, fail_after_swap).
THEOREM ReportsHold == Spec => []ReportsAreTrue
<1>1. IInv => ReportsAreTrue
  BY DEF IInv
<1>2. Spec => []IInv
  BY InitIInv, NextIInv, PTL DEF Spec
<1> QED BY <1>1, <1>2, PTL
=============================================================================
