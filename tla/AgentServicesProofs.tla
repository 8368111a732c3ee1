---- MODULE AgentServicesProofs ----
(* Proofs about AgentServices: what each service promises holds for any        *)
(* number of requests, any capacities and any faults.                          *)
(* The services share the two channels to the agent, the results on their way  *)
(* back and the table of pending requests; of everything else each is the only *)
(* writer.  So every invariant has two parts: what lies in the channel for the *)
(* service (a request is there once, before it was begun), and the service's   *)
(* own state.                                                                  *)
EXTENDS AgentServices, SequenceTheorems, TLAPS

----------------------------------------------------------------------------
(* The channels.                                                               *)

BulkKinds == {"read", "cancel", "chunk", "abort", "web", "webcancel"}
InterKinds == {"exec", "exec_start", "exec_input", "exec_close", "chunk"}
Ids == Gets \union Uploads \union Pages \union Calls \union Execs
Messages(kinds) == [kind : kinds, id : Ids, index : Nat]

LinkTypes ==
    bulk \in Seq(Messages(BulkKinds)) /\ inter \in Seq(Messages(InterKinds)) /\ gen \in Nat

(* A channel has a message of a kind for a request, and no two.                *)
Carries(q, kind, id) == \E i \in DOMAIN q : q[i].kind = kind /\ q[i].id = id
Once(q, kind) ==
    \A i, j \in DOMAIN q : q[i].kind = kind /\ q[j].kind = kind /\ q[i].id = q[j].id => i = j

(* What one service sees of another's step: a message left the channel, all of *)
(* them did, or one of another kind came.                                      *)
Quiet(q, r, kind) ==
    \/ r = q \/ r = <<>> \/ (q # <<>> /\ r = Tail(q))
    \/ \E m : m.kind # kind /\ r = Append(q, m)

LEMMA QuietKeeps ==
    ASSUME NEW S, NEW q \in Seq(S), NEW r, NEW kind, Quiet(q, r, kind)
    PROVE  /\ Once(q, kind) => Once(r, kind)
           /\ \A id : Carries(r, kind, id) => Carries(q, kind, id)
<1>1. CASE r = q BY <1>1
<1>2. CASE r = <<>> BY <1>2 DEF Once, Carries
<1>3. CASE q # <<>> /\ r = Tail(q)
  <2>1. Len(r) = Len(q) - 1 /\ \A i \in 1 .. Len(r) : r[i] = q[i + 1] BY <1>3
  <2>2. DOMAIN q = 1 .. Len(q) /\ DOMAIN r = 1 .. Len(r) /\ Len(q) \in Nat BY <1>3
  <2>3. \A i \in DOMAIN r : i + 1 \in DOMAIN q /\ r[i] = q[i + 1] BY <2>1, <2>2
  <2>4. Once(q, kind) => Once(r, kind) BY <2>2, <2>3 DEF Once
  <2> QED BY <2>3, <2>4 DEF Carries
<1>4. CASE \E m : m.kind # kind /\ r = Append(q, m)
  <2>1. PICK m : m.kind # kind /\ r = Append(q, m) BY <1>4
  <2>2. DOMAIN q = 1 .. Len(q) /\ Len(q) \in Nat OBVIOUS
  <2>3. DOMAIN r = 1 .. Len(q) + 1 /\ r[Len(q) + 1] = m /\ \A i \in 1 .. Len(q) : r[i] = q[i]
    BY <2>1
  <2> QED BY <2>1, <2>2, <2>3 DEF Once, Carries
<1> QED BY <1>1, <1>2, <1>3, <1>4 DEF Quiet

LEMMA TakenIsGone ==
    ASSUME NEW S, NEW q \in Seq(S), q # <<>>, NEW kind, Head(q).kind = kind, Once(q, kind)
    PROVE  /\ Once(Tail(q), kind)
           /\ Carries(q, kind, Head(q).id) /\ ~Carries(Tail(q), kind, Head(q).id)
           /\ \A id : Carries(Tail(q), kind, id) => Carries(q, kind, id)
<1>1. Len(Tail(q)) = Len(q) - 1 /\ \A i \in 1 .. Len(Tail(q)) : Tail(q)[i] = q[i + 1]
  OBVIOUS
<1>2. DOMAIN q = 1 .. Len(q) /\ DOMAIN Tail(q) = 1 .. Len(Tail(q)) /\ Len(q) \in Nat \ {0}
  OBVIOUS
<1>3. Head(q) = q[1] OBVIOUS
<1> QED BY <1>1, <1>2, <1>3 DEF Once, Carries

LEMMA SentIsThere ==
    ASSUME NEW S, NEW q \in Seq(S), NEW m, NEW kind, m.kind = kind, Once(q, kind),
           ~Carries(q, kind, m.id)
    PROVE  /\ Once(Append(q, m), kind)
           /\ \A id : Carries(Append(q, m), kind, id) => Carries(q, kind, id) \/ id = m.id
<1> DEFINE r == Append(q, m)
<1>1. DOMAIN q = 1 .. Len(q) /\ Len(q) \in Nat OBVIOUS
<1>2. DOMAIN r = 1 .. Len(q) + 1 /\ r[Len(q) + 1] = m /\ \A i \in 1 .. Len(q) : r[i] = q[i]
  OBVIOUS
<1>3. Once(r, kind)
  BY <1>1, <1>2 DEF Once, Carries
<1>4. \A id : Carries(r, kind, id) => Carries(q, kind, id) \/ id = m.id
  BY <1>1, <1>2 DEF Carries
<1> QED BY <1>3, <1>4

(* What a step does to a channel, and whose messages it adds.                  *)
Flows(q, r, kinds, ids) ==
    \/ r = q \/ r = <<>> \/ (q # <<>> /\ r = Tail(q))
    \/ \E k \in kinds, i \in ids, n \in Nat : r = Append(q, [kind |-> k, id |-> i, index |-> n])

LEMMA FlowTyped ==
    ASSUME NEW kinds, NEW q \in Seq(Messages(kinds)), NEW r, NEW some \in SUBSET kinds,
           NEW ids \in SUBSET Ids, Flows(q, r, some, ids)
    PROVE  r \in Seq(Messages(kinds))
<1>1. <<>> \in Seq(Messages(kinds)) /\ (q # <<>> => Tail(q) \in Seq(Messages(kinds)))
  <2> DEFINE S == Messages(kinds)
  <2>1. q \in Seq(S) OBVIOUS
  <2> HIDE DEF S
  <2>2. <<>> \in Seq(S) /\ (q # <<>> => Tail(q) \in Seq(S)) BY <2>1
  <2> QED BY <2>2 DEF S
<1>2. CASE \E k \in some, i \in ids, n \in Nat : r = Append(q, [kind |-> k, id |-> i, index |-> n])
  <2>1. PICK k \in some, i \in ids, n \in Nat : r = Append(q, [kind |-> k, id |-> i, index |-> n])
    BY <1>2
  <2>2. [kind |-> k, id |-> i, index |-> n] \in Messages(kinds) BY DEF Messages
  <2> QED BY <2>1, <2>2
<1>3. CASE r = q \/ r = <<>> \/ (q # <<>> /\ r = Tail(q)) BY <1>1, <1>3
<1> QED BY <1>2, <1>3 DEF Flows

LEMMA FlowQuiet ==
    ASSUME NEW q, NEW r, NEW some, NEW ids, NEW kind, kind \notin some, Flows(q, r, some, ids)
    PROVE  Quiet(q, r, kind)
<1>1. CASE \E k \in some, i \in ids, n \in Nat : r = Append(q, [kind |-> k, id |-> i, index |-> n])
  <2>1. PICK k \in some, i \in ids, n \in Nat : r = Append(q, [kind |-> k, id |-> i, index |-> n])
    BY <1>1
  <2>2. [kind |-> k, id |-> i, index |-> n].kind # kind OBVIOUS
  <2> QED BY <2>1, <2>2 DEF Quiet
<1> QED BY <1>1 DEF Flows, Quiet

PutStates == {"none", "sending", "refused", "waiting", "aborted", "gone", "queued", "failed", "ok",
              "timeout"}
PutTypes == put \in [Uploads -> [at : PutStates, idx : Nat, gen : Nat]]

ReadKinds == {"read", "cancel"}
StoreKinds == {"chunk", "abort"}
WebKinds == {"web", "webcancel"}
ExecKinds == {"exec_start", "exec_input", "exec_close"}

(* Which messages come from which service.                                     *)
LEMMA DownloadLink ==
    ASSUME DownloadNext PROVE Flows(bulk, bulk', ReadKinds, Gets) /\ inter' = inter /\ gen' = gen
<1>1. ASSUME NEW g \in Gets, GetAsks(g)
      PROVE  Flows(bulk, bulk', ReadKinds, Gets) /\ inter' = inter /\ gen' = gen
  BY <1>1 DEF GetAsks, Tell, Flows, butBulk, ReadKinds
<1>2. ASSUME NEW g \in Gets, GetTellsAgent(g) \/ RouteCancels(g)
      PROVE  Flows(bulk, bulk', ReadKinds, Gets) /\ inter' = inter /\ gen' = gen
  BY <1>2 DEF GetTellsAgent, RouteCancels, Tell, Flows, butBulk, ReadKinds
<1>3. ASSUME NEW g \in Gets, AgentTakesRead(g) \/ AgentTakesCancel(g)
      PROVE  Flows(bulk, bulk', ReadKinds, Gets) /\ inter' = inter /\ gen' = gen
  BY <1>3 DEF AgentTakesRead, AgentTakesCancel, Takes, IsNext, Flows, butBulk
<1>4. ASSUME NEW g \in Gets, \/ GetFirst(g) \/ GetNext(g) \/ GetClientLeaves(g) \/ ReapSink(g)
                             \/ ReaderPosts(g) \/ RouteFinds(g) \/ RouteSends(g) \/ RouteDone(g)
                             \/ RouteStalls(g) \/ PostFails(g)
      PROVE  Flows(bulk, bulk', ReadKinds, Gets) /\ inter' = inter /\ gen' = gen
  BY <1>4 DEF GetFirst, GetNext, GetClientLeaves, ReapSink, ReaderPosts, RouteFinds, RouteSends,
              RouteDone, RouteStalls, PostFails, link, Flows
<1>5. CASE FileShrinks BY <1>5 DEF FileShrinks, link, Flows
<1> QED BY <1>1, <1>2, <1>3, <1>4, <1>5 DEF DownloadNext

LEMMA UploadLink ==
    ASSUME UploadNext, PutTypes
    PROVE  /\ Flows(bulk, bulk', StoreKinds, Uploads) /\ Flows(inter, inter', {"chunk"}, Uploads)
           /\ gen' = gen
<1> DEFINE Goal == /\ Flows(bulk, bulk', StoreKinds, Uploads)
                   /\ Flows(inter, inter', {"chunk"}, Uploads)
                   /\ gen' = gen
<1>1. ASSUME NEW u \in Uploads, PutSends(u) PROVE Goal
  <2>1. put[u].idx \in Nat BY DEF PutTypes
  <2> QED BY <1>1, <2>1 DEF PutSends, Tell, Flows, butBulk, StoreKinds
<1>2. ASSUME NEW u \in Uploads, PutClientCloses(u) PROVE Goal
  BY <1>2 DEF PutClientCloses, Tell, Flows, butBulk, StoreKinds
<1>3. ASSUME NEW u \in Uploads, BrowserSends(u) PROVE Goal
  <2>1. put[u].idx \in Nat BY DEF PutTypes
  <2> QED BY <1>3, <2>1 DEF BrowserSends, Flows, butInter
<1>4. ASSUME NEW u \in Uploads, AgentTakesChunk(u) \/ AgentTakesAbort(u) PROVE Goal
  BY <1>4 DEF AgentTakesChunk, AgentTakesAbort, Takes, TakesInter, IsNext, Flows, butBulk
<1>5. ASSUME NEW u \in Uploads, \/ PutStarts(u) \/ PutClientLeaves(u) \/ ResultArrives(u)
                                \/ ResultLost(u) \/ PutTimesOut(u) \/ CleanupTick(u)
      PROVE  Goal
  BY <1>5 DEF PutStarts, PutClientLeaves, ResultArrives, ResultLost, PutTimesOut, CleanupTick,
              link, Flows
<1> QED BY <1>1, <1>2, <1>3, <1>4, <1>5 DEF UploadNext

LEMMA ToolLink ==
    ASSUME ToolNext PROVE bulk' = bulk /\ Flows(inter, inter', {"exec"}, Calls) /\ gen' = gen
<1> DEFINE Goal == bulk' = bulk /\ Flows(inter, inter', {"exec"}, Calls) /\ gen' = gen
<1>1. ASSUME NEW c \in Calls, CallSends(c) PROVE Goal
  BY <1>1 DEF CallSends, Deliver, Flows, butInter
<1>2. ASSUME NEW c \in Calls, TakesExec(c) PROVE Goal
  BY <1>2 DEF TakesExec, TakesInter, IsNext, Flows, butInter
<1>3. ASSUME NEW c \in Calls, \/ CallRegisters(c) \/ CallAnswered(c) \/ CallTimesOut(c)
                              \/ CommandEnds(c) \/ CallAnswerLost(c)
      PROVE  Goal
  BY <1>3 DEF CallRegisters, CallAnswered, CallTimesOut, CommandEnds, CallAnswerLost, link, Flows
<1> QED BY <1>1, <1>2, <1>3 DEF ToolNext

LEMMA ExecLink ==
    ASSUME ExecNext PROVE bulk' = bulk /\ Flows(inter, inter', ExecKinds, Execs) /\ gen' = gen
<1> DEFINE Goal == bulk' = bulk /\ Flows(inter, inter', ExecKinds, Execs) /\ gen' = gen
<1>1. ASSUME NEW e \in Execs, ClientStarts(e) \/ ClientWrites(e) \/ ClientCloses(e) PROVE Goal
  BY <1>1 DEF ClientStarts, ClientWrites, ClientCloses, Deliver, Flows, butInter, ExecKinds
<1>2. ASSUME NEW e \in Execs, TakesStart(e) PROVE Goal
  BY <1>2 DEF TakesStart, TakesInter, IsNext, Flows, butInter
<1>3. ASSUME NEW e \in Execs, TakesInput(e) \/ TakesClose(e) PROVE Goal
  BY <1>3 DEF TakesInput, TakesClose, TakesInter, IsNext, Flows
<1>4. ASSUME NEW e \in Execs, InputQueued(e) \/ CloseSettles(e) \/ CloseEnds(e) \/ ShutdownCloses(e)
      PROVE  Goal
  BY <1>4 DEF InputQueued, CloseSettles, CloseEnds, ShutdownCloses, Flows
<1>5. ASSUME NEW e \in Execs, Watcher(e) \/ IdleTimeout(e) PROVE Goal
  BY <1>5 DEF Watcher, IdleTimeout, ReadsOutput, ReadsEof, ReaderCancelled, ReaderEnds, Stops, link,
              Flows
<1>6. ASSUME NEW e \in Execs, \/ Writer(e) \/ ChildReads(e) \/ ChildWrites(e) \/ ChildCloses(e)
                              \/ ChildEnds(e)
      PROVE  Goal
  BY <1>6 DEF Writer, WriterReceives, WriteFailsClosed, ChildReads, ChildWrites, ChildCloses,
              ChildEnds, link, Flows
<1> QED BY <1>1, <1>2, <1>3, <1>4, <1>5, <1>6 DEF ExecNext, MainLoop

LEMMA WebLink ==
    ASSUME WebNext PROVE Flows(bulk, bulk', WebKinds, Pages) /\ inter' = inter /\ gen' = gen
<1> DEFINE Goal == Flows(bulk, bulk', WebKinds, Pages) /\ inter' = inter /\ gen' = gen
<1>1. ASSUME NEW w \in Pages, WebSends(w) PROVE Goal
  BY <1>1 DEF WebSends, Tell, Flows, butBulk, WebKinds
<1>2. ASSUME NEW w \in Pages, GuardTask(w) \/ CancelWaits(w) \/ FrameRouted(w) PROVE Goal
  BY <1>2 DEF GuardTask, CancelWaits, FrameRouted, SendsCancel, Tell, Flows, butBulk, WebKinds
<1>3. ASSUME NEW w \in Pages, AgentTakesWeb(w) \/ AgentTakesWebCancel(w) PROVE Goal
  BY <1>3 DEF AgentTakesWeb, AgentTakesWebCancel, Takes, IsNext, Flows, butBulk
<1>4. ASSUME NEW w \in Pages, \/ WebAsks(w) \/ WebClientLeaves(w) \/ WebRegisters(w) \/ WebFirst(w)
                              \/ WebBody(w) \/ SweepStream(w) \/ AgentRefuses(w)
      PROVE  Goal
  BY <1>4 DEF WebAsks, WebClientLeaves, WebRegisters, WebFirst, WebBody, SweepStream, AgentRefuses,
              link, Flows
<1>5. ASSUME NEW w \in Pages, FetchGoes(w) \/ FetchStops(w) \/ FetchUnlisted(w) \/ FetchFails(w)
      PROVE  Goal
  BY <1>5 DEF FetchGoes, FetchStops, FetchUnlisted, FetchFails, link, Flows
<1>6. CASE FrameArrives \/ FrameLost BY <1>6 DEF FrameArrives, FrameLost, link, Flows
<1> QED BY <1>1, <1>2, <1>3, <1>4, <1>5, <1>6 DEF WebNext, WebRuns

LEMMA BesideLink == ASSUME Beside PROVE UNCHANGED link
<1>1. CASE MapsNext
  <2>1. ASSUME NEW m \in Maps, MapOpens(m) \/ MapExpires(m) PROVE UNCHANGED link
    BY <2>1 DEF MapOpens, MapExpires
  <2>2. ASSUME NEW v \in Visits, VisitLooks(v) \/ VisitLeft(v) \/ SocketEnds(v) PROVE UNCHANGED link
    BY <2>2 DEF VisitLooks, VisitLeft, SocketEnds, mapsElse
  <2>3. ASSUME NEW v \in Visits, VisitRuns(v) PROVE UNCHANGED link
    BY <2>3 DEF VisitRuns, VisitQueues, VisitAdmitted, VisitTooLate, VisitTakes, VisitOpens,
                VisitSends, VisitFails, VisitTimesOut, VisitAnswered, VisitReads, VisitEnds,
                VisitKeeps, SocketCut, SocketEnds, mapsElse
  <2>4. ASSUME NEW c \in Visits, TargetCloses(c) \/ CloseNoticed(c) \/ PipeAges(c)
        PROVE  UNCHANGED link
    BY <2>4 DEF TargetCloses, CloseNoticed, PipeAges, mapsElse
  <2>5. CASE RuntimesSwept BY <2>5 DEF RuntimesSwept
  <2> QED BY <1>1, <2>1, <2>2, <2>3, <2>4, <2>5 DEF MapsNext
<1> QED BY <1>1 DEF Beside

(* What a step of the agent's whole does to the channels.                      *)
LEMMA LinkSteps ==
    ASSUME [Next]_vars, PutTypes
    PROVE  \/ bulk' = bulk /\ inter' = inter /\ gen' = gen
           \/ bulk' = <<>> /\ inter' = <<>> /\ gen' = gen
           \/ bulk' = bulk /\ inter' = inter /\ gen' = gen + 1
           \/ Flows(bulk, bulk', ReadKinds, Gets) /\ inter' = inter /\ gen' = gen
           \/ /\ Flows(bulk, bulk', StoreKinds, Uploads) /\ Flows(inter, inter', {"chunk"}, Uploads)
              /\ gen' = gen
           \/ bulk' = bulk /\ Flows(inter, inter', {"exec"}, Calls) /\ gen' = gen
           \/ bulk' = bulk /\ Flows(inter, inter', ExecKinds, Execs) /\ gen' = gen
           \/ Flows(bulk, bulk', WebKinds, Pages) /\ inter' = inter /\ gen' = gen
<1>1. CASE AgentDrops BY <1>1 DEF AgentDrops, Drops
<1>2. CASE AgentReturns BY <1>2 DEF AgentReturns, Returns
<1>3. CASE Beside BY <1>3, BesideLink DEF link
<1>4. CASE UNCHANGED vars BY <1>4 DEF vars, link
<1>5. CASE DownloadNext BY <1>5, DownloadLink
<1>6. CASE UploadNext BY <1>6, UploadLink
<1>7. CASE ToolNext BY <1>7, ToolLink
<1>8. CASE ExecNext BY <1>8, ExecLink
<1>9. CASE WebNext BY <1>9, WebLink
<1> QED BY <1>1, <1>2, <1>3, <1>4, <1>5, <1>6, <1>7, <1>8, <1>9 DEF Next

LEMMA PutTypesStep == ASSUME [Next]_vars, PutTypes, gen \in Nat PROVE PutTypes'
<1>1. CASE UNCHANGED put BY <1>1 DEF PutTypes
<1>2. CASE UploadNext
  <2>1. PICK u \in Uploads :
            \/ PutStarts(u) \/ PutSends(u) \/ PutClientCloses(u) \/ PutClientLeaves(u)
            \/ BrowserSends(u)
            \/ ResultArrives(u) \/ ResultLost(u) \/ PutTimesOut(u)
            \/ AgentTakesChunk(u) \/ AgentTakesAbort(u) \/ CleanupTick(u)
    BY <1>2 DEF UploadNext
  <2>2. put[u].idx \in Nat /\ put[u].gen \in Nat /\ put[u].at \in PutStates BY DEF PutTypes
  <2>3. CASE PutStarts(u)
    <3>1. PICK a \in PutStates : put' = [put EXCEPT ![u].at = a, ![u].gen = gen]
      BY <2>3 DEF PutStarts, PutStates
    <3> QED BY <2>2, <3>1 DEF PutTypes
  <2>4. CASE PutSends(u) BY <2>2, <2>4 DEF PutSends, PutTypes, PutStates
  <2>5. CASE PutClientCloses(u) \/ PutClientLeaves(u) \/ PutTimesOut(u)
    BY <2>2, <2>5 DEF PutClientCloses, PutClientLeaves, PutTimesOut, PutTypes, PutStates
  <2>6. CASE BrowserSends(u)
    <3>1. CASE Alive(put[u].gen)
      <4>1. put' = [put EXCEPT ![u] = [at |-> put'[u].at, idx |-> put[u].idx + 1,
                                       gen |-> put[u].gen]]
        BY <2>2, <2>6, <3>1 DEF BrowserSends, PutTypes
      <4>2. put'[u].at \in PutStates BY <2>2, <2>6, <3>1 DEF BrowserSends, PutTypes, PutStates
      <4> QED BY <2>2, <4>1, <4>2 DEF PutTypes
    <3>2. CASE ~Alive(put[u].gen) BY <2>2, <2>6, <3>2 DEF BrowserSends, PutTypes, PutStates
    <3> QED BY <3>1, <3>2
  <2>7. CASE ResultArrives(u) BY <2>2, <2>7 DEF ResultArrives, PutTypes, PutStates
  <2>8. CASE ResultLost(u) \/ AgentTakesChunk(u) \/ AgentTakesAbort(u) \/ CleanupTick(u)
    BY <2>8 DEF ResultLost, AgentTakesChunk, AgentTakesAbort, CleanupTick, PutTypes
  <2> QED BY <2>1, <2>3, <2>4, <2>5, <2>6, <2>7, <2>8
<1>3. UNCHANGED put \/ UploadNext
  BY DEF Next, AgentDrops, AgentReturns, Beside, vars, up
<1> QED BY <1>1, <1>2, <1>3

LEMMA LinkStep == ASSUME [Next]_vars, PutTypes, LinkTypes PROVE LinkTypes'
<1>1. ReadKinds \in SUBSET BulkKinds /\ StoreKinds \in SUBSET BulkKinds /\ WebKinds \in SUBSET BulkKinds
  BY DEF ReadKinds, StoreKinds, WebKinds, BulkKinds
<1>2. {"chunk"} \in SUBSET InterKinds /\ {"exec"} \in SUBSET InterKinds /\ ExecKinds \in SUBSET InterKinds
  BY DEF ExecKinds, InterKinds
<1>3. /\ Gets \in SUBSET Ids /\ Uploads \in SUBSET Ids /\ Pages \in SUBSET Ids
      /\ Calls \in SUBSET Ids /\ Execs \in SUBSET Ids
  BY DEF Ids
<1>4. bulk \in Seq(Messages(BulkKinds)) /\ inter \in Seq(Messages(InterKinds)) /\ gen \in Nat
  BY DEF LinkTypes
<1> /\ <<>> \in Seq(Messages(BulkKinds)) /\ <<>> \in Seq(Messages(InterKinds))
  <2>1. Flows(bulk, <<>>, {}, {}) /\ Flows(inter, <<>>, {}, {}) BY DEF Flows
  <2> QED BY <1>4, <2>1, FlowTyped
<1>5. bulk' \in Seq(Messages(BulkKinds))
  <2>1. CASE bulk' = bulk \/ bulk' = <<>> BY <1>4, <2>1
  <2>2. CASE Flows(bulk, bulk', ReadKinds, Gets) BY <1>1, <1>3, <1>4, <2>2, FlowTyped
  <2>3. CASE Flows(bulk, bulk', StoreKinds, Uploads) BY <1>1, <1>3, <1>4, <2>3, FlowTyped
  <2>4. CASE Flows(bulk, bulk', WebKinds, Pages) BY <1>1, <1>3, <1>4, <2>4, FlowTyped
  <2> QED BY <2>1, <2>2, <2>3, <2>4, LinkSteps
<1>6. inter' \in Seq(Messages(InterKinds))
  <2>1. CASE inter' = inter \/ inter' = <<>> BY <1>4, <2>1
  <2>2. CASE Flows(inter, inter', {"chunk"}, Uploads) BY <1>2, <1>3, <1>4, <2>2, FlowTyped
  <2>3. CASE Flows(inter, inter', {"exec"}, Calls) BY <1>2, <1>3, <1>4, <2>3, FlowTyped
  <2>4. CASE Flows(inter, inter', ExecKinds, Execs) BY <1>2, <1>3, <1>4, <2>4, FlowTyped
  <2> QED BY <2>1, <2>2, <2>3, <2>4, LinkSteps
<1>7. gen' \in Nat BY <1>4, LinkSteps
<1> QED BY <1>5, <1>6, <1>7 DEF LinkTypes

LEMMA LinkInits == ASSUME Init PROVE LinkTypes /\ PutTypes
BY DEF Init, LinkInit, UploadInit, LinkTypes, PutTypes, PutStates

----------------------------------------------------------------------------
(* Long-running commands.                                                      *)

Statuses == {"none", "running", "exited", "killed", "timeout"}
ExecTypes ==
    /\ client \in [Execs -> [asked : {"none", "started", "closed"}, inputs : Nat, told : Statuses]]
    /\ entry \in [Execs -> [listed : BOOLEAN, status : Statuses, permit : BOOLEAN, queue : Int,
                            sender : BOOLEAN]]
    /\ watcher \in [Execs -> [at : {"none", "reading", "waiting", "over"}, eof : SUBSET Outputs]]
    /\ proc \in [Execs -> [alive : BOOLEAN, open : SUBSET Outputs, unread : SUBSET Outputs]]

(* Nothing has happened to a command before its start is taken.                *)
Unborn(e) ==
    watcher[e].at = "none" =>
        /\ entry[e].status = "none" /\ client[e].told = "none"
        /\ ~proc[e].alive /\ proc[e].open = {} /\ proc[e].unread = {} /\ watcher[e].eof = {}

(* An output whose end has been read is closed and empty; after the reading    *)
(* both are.                                                                   *)
Drains(e) ==
    /\ watcher[e].eof \cap (proc[e].open \union proc[e].unread) = {}
    /\ watcher[e].at \in {"waiting", "over"} => proc[e].open = {} /\ proc[e].unread = {}
    /\ watcher[e].at = "over" => ~proc[e].alive

(* Only the reading task says that a command exited, at its own end.           *)
Verdict(e) ==
    /\ entry[e].status = "exited" => watcher[e].at = "over"
    /\ client[e].told = "exited" => entry[e].status = "exited"

(* A start is under way once, and not for a command that was started.          *)
StartsOnce ==
    /\ Once(inter, "exec_start")
    /\ \A e \in Execs :
          /\ client[e].asked = "none" => ~Carries(inter, "exec_start", e)
          /\ Carries(inter, "exec_start", e) \/ client[e].asked = "none" => watcher[e].at = "none"

ExecInv ==
    /\ ExecTypes /\ StartsOnce
    /\ \A e \in Execs : Unborn(e) /\ Drains(e) /\ Verdict(e)

LEMMA ExecSteps ==
    ASSUME [Next]_vars, PutTypes
    PROVE  \/ UNCHANGED exec /\ Quiet(inter, inter', "exec_start")
           \/ \E e \in Execs :
                 \/ ClientStarts(e) \/ ClientWrites(e) \/ ClientCloses(e)
                 \/ MainLoop(e) \/ Watcher(e) \/ Writer(e)
                 \/ IdleTimeout(e)
                 \/ ChildReads(e) \/ ChildWrites(e) \/ ChildCloses(e) \/ ChildEnds(e)
<1>1. CASE ExecNext BY <1>1 DEF ExecNext
<1>2. CASE ~ExecNext
  <2>1. UNCHANGED exec
    BY <1>2 DEF Next, AgentDrops, AgentReturns, Beside, vars, exec
  <2>2. \/ inter' = inter \/ inter' = <<>>
        \/ Flows(inter, inter', {"chunk"}, Uploads) \/ Flows(inter, inter', {"exec"}, Calls)
    <3>1. CASE AgentDrops BY <3>1 DEF AgentDrops, Drops
    <3>2. CASE AgentReturns BY <3>2 DEF AgentReturns, Returns
    <3>3. CASE Beside BY <3>3, BesideLink DEF link
    <3>4. CASE UNCHANGED vars BY <3>4 DEF vars, link
    <3>5. CASE DownloadNext \/ WebNext BY <3>5, DownloadLink, WebLink
    <3>6. CASE UploadNext BY <3>6, UploadLink
    <3>7. CASE ToolNext BY <3>7, ToolLink
    <3> QED BY <1>2, <3>1, <3>2, <3>3, <3>4, <3>5, <3>6, <3>7 DEF Next
  <2>3. "exec_start" \notin {"chunk"} /\ "exec_start" \notin {"exec"} OBVIOUS
  <2>4. CASE inter' = inter \/ inter' = <<>> BY <2>1, <2>4 DEF Quiet
  <2>5. CASE Flows(inter, inter', {"chunk"}, Uploads) BY <2>1, <2>3, <2>5, FlowQuiet
  <2>6. CASE Flows(inter, inter', {"exec"}, Calls) BY <2>1, <2>3, <2>6, FlowQuiet
  <2> QED BY <2>2, <2>4, <2>5, <2>6
<1> QED BY <1>1, <1>2

LEMMA StartsQuiet ==
    ASSUME LinkTypes, StartsOnce, Quiet(inter, inter', "exec_start"),
           \A e \in Execs : client'[e].asked = "none" <=> client[e].asked = "none",
           \A e \in Execs : watcher'[e].at = "none" <=> watcher[e].at = "none"
    PROVE  StartsOnce'
<1>1. inter \in Seq(Messages(InterKinds)) BY DEF LinkTypes
<1>2. /\ Once(inter', "exec_start")
      /\ \A e : Carries(inter', "exec_start", e) => Carries(inter, "exec_start", e)
  BY <1>1, QuietKeeps DEF StartsOnce
<1> QED BY <1>2 DEF StartsOnce

(* A message of the client other than a start, or a message taken.             *)
LEMMA DeliverQuiet ==
    ASSUME NEW kind, NEW id, kind # "exec_start", Deliver(kind, id)
    PROVE  Quiet(inter, inter', "exec_start")
<1>1. [kind |-> kind, id |-> id, index |-> 0].kind # "exec_start" OBVIOUS
<1> QED BY <1>1 DEF Deliver, Quiet

LEMMA ClientStartsStep ==
    ASSUME NEW e \in Execs, ClientStarts(e), LinkTypes, ExecInv PROVE ExecInv'
<1>1. /\ client \in [Execs -> [asked : {"none", "started", "closed"}, inputs : Nat, told : Statuses]]
      /\ client' = [client EXCEPT ![e].asked = "started"] /\ client[e].asked = "none"
      /\ UNCHANGED <<entry, watcher, writer, proc>>
  BY DEF ExecInv, ExecTypes, ClientStarts
<1>2. /\ client'[e].asked = "started" /\ client'[e].told = client[e].told
      /\ \A f \in Execs \ {e} : client'[f] = client[f]
  BY <1>1
<1>3. ExecTypes' BY <1>1 DEF ExecInv, ExecTypes
<1>4. \A f \in Execs : Unborn(f)' /\ Drains(f)' /\ Verdict(f)'
  <2>1. \A f \in Execs : client'[f].told = client[f].told BY <1>2
  <2> QED BY <1>1, <2>1 DEF ExecInv, Unborn, Drains, Verdict
<1>5. StartsOnce'
  <2>1. inter \in Seq(Messages(InterKinds)) /\ Once(inter, "exec_start")
        /\ ~Carries(inter, "exec_start", e)
    BY <1>1 DEF LinkTypes, ExecInv, StartsOnce
  <2> DEFINE m == [kind |-> "exec_start", id |-> e, index |-> 0]
  <2>2. inter' = inter \/ inter' = Append(inter, m) BY DEF ClientStarts, Deliver
  <2>3. m.kind = "exec_start" /\ m.id = e OBVIOUS
  <2> HIDE DEF m
  <2>4. /\ Once(inter', "exec_start")
        /\ \A id : Carries(inter', "exec_start", id) => Carries(inter, "exec_start", id) \/ id = e
    <3>1. CASE inter' = inter BY <2>1, <3>1
    <3>2. CASE inter' = Append(inter, m) BY <2>1, <2>3, <3>2, SentIsThere
    <3> QED BY <2>2, <3>1, <3>2
  <2> QED BY <1>1, <1>2, <2>4 DEF ExecInv, StartsOnce
<1> QED BY <1>3, <1>4, <1>5 DEF ExecInv

LEMMA TakesStartStep ==
    ASSUME NEW e \in Execs, TakesStart(e), LinkTypes, ExecInv PROVE ExecInv'
<1>1. /\ inter \in Seq(Messages(InterKinds)) /\ Once(inter, "exec_start")
      /\ inter # <<>> /\ Head(inter).kind = "exec_start" /\ Head(inter).id = e
      /\ inter' = Tail(inter)
  BY DEF LinkTypes, ExecInv, StartsOnce, TakesStart, TakesInter, IsNext
<1>2. /\ Once(inter', "exec_start")
      /\ Carries(inter, "exec_start", e) /\ ~Carries(inter', "exec_start", e)
      /\ \A id : Carries(inter', "exec_start", id) => Carries(inter, "exec_start", id)
  BY <1>1, TakenIsGone
<1>3. CASE UNCHANGED exec
  <2>1. StartsOnce' BY <1>2, <1>3 DEF ExecInv, StartsOnce, exec
  <2> QED BY <1>3, <2>1 DEF ExecInv, ExecTypes, Unborn, Drains, Verdict, exec
<1>4. CASE ~UNCHANGED exec
  <2>1. /\ entry' = [f \in Execs |->
                        IF f = e THEN [listed |-> TRUE, status |-> "running", permit |-> FALSE,
                                       queue |-> 0, sender |-> TRUE]
                        ELSE IF entry[f].status = "running" THEN entry[f]
                        ELSE [entry[f] EXCEPT !.listed = FALSE, !.sender = FALSE]]
        /\ watcher' = [watcher EXCEPT ![e].at = "reading"]
        /\ proc' = [proc EXCEPT ![e].alive = TRUE, ![e].open = Outputs]
        /\ client' = [client EXCEPT ![e].told = "running"]
    BY <1>4 DEF TakesStart, exec
  <2>2. watcher[e].at = "none" /\ Unborn(e) /\ client[e].asked # "none"
    BY <1>2 DEF ExecInv, StartsOnce
  <2>3. ExecTypes BY DEF ExecInv
  <2>4. watcher'[e] = [at |-> "reading", eof |-> {}]
    <3>1. watcher[e].eof = {} BY <2>2 DEF Unborn
    <3>2. watcher \in [Execs -> [at : {"none", "reading", "waiting", "over"}, eof : SUBSET Outputs]]
      BY <2>3 DEF ExecTypes
    <3>3. watcher' = [watcher EXCEPT ![e].at = "reading"] BY <2>1
    <3> QED BY <3>1, <3>2, <3>3
  <2>9. proc'[e] = [alive |-> TRUE, open |-> Outputs, unread |-> {}]
    <3>1. proc[e].unread = {} BY <2>2 DEF Unborn
    <3>2. proc \in [Execs -> [alive : BOOLEAN, open : SUBSET Outputs, unread : SUBSET Outputs]]
      BY <2>3 DEF ExecTypes
    <3>3. proc' = [proc EXCEPT ![e].alive = TRUE, ![e].open = Outputs] BY <2>1
    <3> QED BY <3>1, <3>2, <3>3
  <2>10. /\ client' \in [Execs -> [asked : {"none", "started", "closed"}, inputs : Nat, told : Statuses]]
         /\ client'[e].told = "running" /\ client'[e].asked = client[e].asked
         /\ \A f \in Execs \ {e} : client'[f] = client[f]
    <3>1. client' = [client EXCEPT ![e].told = "running"] BY <2>1
    <3>2. client \in [Execs -> [asked : {"none", "started", "closed"}, inputs : Nat, told : Statuses]]
      BY <2>3 DEF ExecTypes
    <3>3. "running" \in Statuses BY DEF Statuses
    <3> QED BY <3>1, <3>2, <3>3
  <2>11. /\ entry'[e].status = "running"
         /\ \A f \in Execs \ {e} : entry'[f].status = entry[f].status
    <3>1. entry \in [Execs -> [listed : BOOLEAN, status : Statuses, permit : BOOLEAN, queue : Int,
                               sender : BOOLEAN]]
      BY <2>3 DEF ExecTypes
    <3> QED BY <2>1, <3>1
  <2>5. \A f \in Execs \ {e} : watcher'[f] = watcher[f] /\ proc'[f] = proc[f]
    BY <2>1, <2>3 DEF ExecTypes
  <2>6. ExecTypes'
    <3>2. \A f \in Execs : entry'[f] \in [listed : BOOLEAN, status : Statuses, permit : BOOLEAN,
                                          queue : Int, sender : BOOLEAN]
      <4>1. ASSUME NEW f \in Execs
            PROVE  entry'[f] \in [listed : BOOLEAN, status : Statuses, permit : BOOLEAN,
                                  queue : Int, sender : BOOLEAN]
        <5>1. entry[f] \in [listed : BOOLEAN, status : Statuses, permit : BOOLEAN, queue : Int,
                            sender : BOOLEAN]
          BY <2>3 DEF ExecTypes
        <5>2. entry'[f] = IF f = e THEN [listed |-> TRUE, status |-> "running", permit |-> FALSE,
                                         queue |-> 0, sender |-> TRUE]
                          ELSE IF entry[f].status = "running" THEN entry[f]
                          ELSE [entry[f] EXCEPT !.listed = FALSE, !.sender = FALSE]
          BY <2>1
        <5>3. CASE f = e BY <5>2, <5>3 DEF Statuses
        <5>4. CASE f # e /\ entry[f].status = "running" BY <5>1, <5>2, <5>4
        <5>5. CASE f # e /\ entry[f].status # "running"
          <6>1. entry'[f] = [entry[f] EXCEPT !.listed = FALSE, !.sender = FALSE] BY <5>2, <5>5
          <6> QED BY <5>1, <6>1
        <5> QED BY <5>3, <5>4, <5>5
      <4> QED BY <4>1
    <3>3. entry' \in [Execs -> [listed : BOOLEAN, status : Statuses, permit : BOOLEAN, queue : Int,
                                sender : BOOLEAN]]
      BY <2>1, <3>2
    <3>4. watcher' \in [Execs -> [at : {"none", "reading", "waiting", "over"}, eof : SUBSET Outputs]]
      BY <2>1, <2>3 DEF ExecTypes
    <3>5. proc' \in [Execs -> [alive : BOOLEAN, open : SUBSET Outputs, unread : SUBSET Outputs]]
      BY <2>1, <2>3 DEF ExecTypes
    <3> QED BY <2>10, <3>3, <3>4, <3>5 DEF ExecTypes
  <2>7. StartsOnce'
    BY <1>2, <2>2, <2>4, <2>5, <2>10 DEF ExecInv, StartsOnce
  <2>8. \A f \in Execs : Unborn(f)' /\ Drains(f)' /\ Verdict(f)'
    BY <2>4, <2>5, <2>9, <2>10, <2>11 DEF ExecInv, Unborn, Drains, Verdict
  <2> QED BY <2>6, <2>7, <2>8 DEF ExecInv
<1> QED BY <1>3, <1>4

ExecClients == [asked : {"none", "started", "closed"}, inputs : Nat, told : Statuses]
ExecEntries == [listed : BOOLEAN, status : Statuses, permit : BOOLEAN, queue : Int, sender : BOOLEAN]

(* Steps that leave the reading task and the child alone.                      *)
LEMMA BesideWatcher ==
    ASSUME LinkTypes, ExecInv, Quiet(inter, inter', "exec_start"), UNCHANGED <<watcher, proc>>,
           client' \in [Execs -> ExecClients], entry' \in [Execs -> ExecEntries],
           \A e \in Execs :
              /\ client'[e].asked = "none" <=> client[e].asked = "none"
              /\ client'[e].told \in {client[e].told, entry[e].status, "killed"}
              /\ client'[e].told # client[e].told => watcher[e].at # "none"
              /\ \/ entry'[e].status = entry[e].status
                 \/ entry'[e].status = "killed" /\ entry[e].status = "running"
    PROVE  ExecInv'
<1>1. ExecTypes' BY DEF ExecInv, ExecTypes, ExecClients, ExecEntries
<1>2. StartsOnce' BY StartsQuiet DEF ExecInv
<1>3. ASSUME NEW e \in Execs PROVE Unborn(e)' /\ Drains(e)' /\ Verdict(e)'
  <2>1. Unborn(e) /\ Drains(e) /\ Verdict(e) /\ watcher'[e] = watcher[e] /\ proc'[e] = proc[e]
    BY DEF ExecInv
  <2> QED BY <2>1 DEF Unborn, Drains, Verdict
<1> QED BY <1>1, <1>2, <1>3 DEF ExecInv

(* Steps of the reading task and the child.                                    *)
LEMMA BesideClient ==
    ASSUME LinkTypes, ExecInv, UNCHANGED <<client, inter>>, NEW e \in Execs,
           watcher' \in [Execs -> [at : {"none", "reading", "waiting", "over"}, eof : SUBSET Outputs]],
           proc' \in [Execs -> [alive : BOOLEAN, open : SUBSET Outputs, unread : SUBSET Outputs]],
           entry' \in [Execs -> ExecEntries],
           \A f \in Execs \ {e} : watcher'[f] = watcher[f] /\ proc'[f] = proc[f]
                                  /\ entry'[f].status = entry[f].status,
           watcher'[e].at = "none" <=> watcher[e].at = "none",
           Unborn(e)' /\ Drains(e)' /\ Verdict(e)'
    PROVE  ExecInv'
<1>1. ExecTypes' BY DEF ExecInv, ExecTypes, ExecClients, ExecEntries
<1>2. Quiet(inter, inter', "exec_start") BY DEF Quiet
<1>3. StartsOnce' BY <1>2, StartsQuiet DEF ExecInv
<1>4. ASSUME NEW f \in Execs \ {e} PROVE Unborn(f)' /\ Drains(f)' /\ Verdict(f)'
  BY <1>4 DEF ExecInv, Unborn, Drains, Verdict
<1> QED BY <1>1, <1>3, <1>4 DEF ExecInv

LEMMA ClientAsksStep ==
    ASSUME NEW e \in Execs, ClientWrites(e) \/ ClientCloses(e), LinkTypes, ExecInv PROVE ExecInv'
<1>1. client \in [Execs -> ExecClients] /\ entry \in [Execs -> ExecEntries]
  BY DEF ExecInv, ExecTypes, ExecClients, ExecEntries
<1>2. Quiet(inter, inter', "exec_start")
  BY DeliverQuiet DEF ClientWrites, ClientCloses
<1>3. client[e].asked = "started" /\ UNCHANGED <<entry, watcher, proc>>
  BY DEF ClientWrites, ClientCloses
<1>4. /\ client' \in [Execs -> ExecClients]
      /\ \A f \in Execs : /\ client'[f].asked = "none" <=> client[f].asked = "none"
                          /\ client'[f].told = client[f].told
  BY <1>1, <1>3 DEF ClientWrites, ClientCloses, ExecClients
<1> QED BY <1>1, <1>2, <1>3, <1>4, BesideWatcher

LEMMA MainLoopStep ==
    ASSUME NEW e \in Execs, MainLoop(e), ~TakesStart(e), LinkTypes, ExecInv PROVE ExecInv'
<1>1. client \in [Execs -> ExecClients] /\ entry \in [Execs -> ExecEntries]
  BY DEF ExecInv, ExecTypes, ExecClients, ExecEntries
<1>2. Quiet(inter, inter', "exec_start")
  <2>1. CASE TakesInput(e) \/ TakesClose(e)
    BY <2>1 DEF TakesInput, TakesClose, TakesInter, IsNext, Quiet
  <2>2. CASE InputQueued(e) \/ CloseSettles(e) \/ CloseEnds(e) \/ ShutdownCloses(e)
    BY <2>2 DEF InputQueued, CloseSettles, CloseEnds, ShutdownCloses, Quiet
  <2> QED BY <2>1, <2>2 DEF MainLoop
<1>3. UNCHANGED <<watcher, proc>>
  BY DEF MainLoop, TakesInput, InputQueued, TakesClose, CloseSettles, CloseEnds, ShutdownCloses, exec
<1>4. CASE TakesInput(e) BY <1>1, <1>2, <1>3, <1>4, BesideWatcher DEF TakesInput, exec
<1>5. CASE InputQueued(e) \/ TakesClose(e) \/ ShutdownCloses(e)
  <2>1. UNCHANGED client BY <1>5 DEF InputQueued, TakesClose, ShutdownCloses
  <2>2. /\ entry' \in [Execs -> ExecEntries]
        /\ \A f \in Execs : entry'[f].status = entry[f].status
    <3>1. \/ entry' = entry \/ entry' = [entry EXCEPT ![e].queue = @ + 1]
          \/ entry' = [entry EXCEPT ![e].listed = FALSE, ![e].sender = FALSE]
      BY <1>5 DEF InputQueued, TakesClose, ShutdownCloses, Closes
    <3>2. CASE entry' = entry BY <1>1, <3>2
    <3>3. CASE entry' = [entry EXCEPT ![e].queue = @ + 1] BY <1>1, <3>3 DEF ExecEntries
    <3>4. CASE entry' = [entry EXCEPT ![e].listed = FALSE, ![e].sender = FALSE]
      BY <1>1, <3>4 DEF ExecEntries
    <3> QED BY <3>1, <3>2, <3>3, <3>4
  <2> QED BY <1>1, <1>2, <1>3, <2>1, <2>2, BesideWatcher
<1>6. CASE CloseSettles(e) \/ CloseEnds(e)
  <2>1. \/ entry[e].status # "running" /\ UNCHANGED entry /\ Told(e, entry[e].status)
        \/ entry[e].status = "running" /\ entry' = [entry EXCEPT ![e].permit = TRUE] /\ UNCHANGED client
        \/ /\ entry[e].status = "running" /\ entry' = [entry EXCEPT ![e].status = "killed"]
           /\ Told(e, "killed")
    BY <1>6 DEF CloseSettles, CloseEnds
  <2>2. CASE entry[e].status # "running" /\ UNCHANGED entry /\ Told(e, entry[e].status)
    <3>1. client' = [client EXCEPT ![e].told = entry[e].status] BY <2>2 DEF Told
    <3>2. /\ client' \in [Execs -> ExecClients] /\ client'[e].told = entry[e].status
          /\ \A f \in Execs : client'[f].asked = client[f].asked
          /\ \A f \in Execs \ {e} : client'[f].told = client[f].told
      BY <1>1, <3>1 DEF ExecClients, ExecEntries
    <3>3. client'[e].told # client[e].told => watcher[e].at # "none"
      BY <3>2 DEF ExecInv, Unborn
    <3> QED BY <1>1, <1>2, <1>3, <2>2, <3>2, <3>3, BesideWatcher
  <2>3. CASE /\ entry[e].status = "running" /\ entry' = [entry EXCEPT ![e].permit = TRUE]
             /\ UNCHANGED client
    <3>1. entry' \in [Execs -> ExecEntries] /\ \A f \in Execs : entry'[f].status = entry[f].status
      BY <1>1, <2>3 DEF ExecEntries
    <3> QED BY <1>1, <1>2, <1>3, <2>3, <3>1, BesideWatcher
  <2>4. CASE /\ entry[e].status = "running" /\ entry' = [entry EXCEPT ![e].status = "killed"]
             /\ Told(e, "killed")
    <3>1. client' = [client EXCEPT ![e].told = "killed"] BY <2>4 DEF Told
    <3>2. /\ client' \in [Execs -> ExecClients] /\ client'[e].told = "killed"
          /\ \A f \in Execs : client'[f].asked = client[f].asked
          /\ \A f \in Execs \ {e} : client'[f].told = client[f].told
      BY <1>1, <3>1 DEF ExecClients, Statuses
    <3>3. /\ entry' \in [Execs -> ExecEntries] /\ entry'[e].status = "killed"
          /\ \A f \in Execs \ {e} : entry'[f].status = entry[f].status
      BY <1>1, <2>4 DEF ExecEntries, Statuses
    <3>4. watcher[e].at # "none" BY <2>4 DEF ExecInv, Unborn
    <3> QED BY <1>1, <1>2, <1>3, <2>4, <3>2, <3>3, <3>4, BesideWatcher
  <2> QED BY <2>1, <2>2, <2>3, <2>4
<1> QED BY <1>4, <1>5, <1>6 DEF MainLoop

ExecWatchers == [at : {"none", "reading", "waiting", "over"}, eof : SUBSET Outputs]
ExecChildren == [alive : BOOLEAN, open : SUBSET Outputs, unread : SUBSET Outputs]

LEMMA WatcherStep ==
    ASSUME NEW e \in Execs, Watcher(e) \/ IdleTimeout(e), LinkTypes, ExecInv PROVE ExecInv'
<1>1. /\ entry \in [Execs -> ExecEntries] /\ watcher \in [Execs -> ExecWatchers]
      /\ proc \in [Execs -> ExecChildren]
      /\ Unborn(e) /\ Drains(e) /\ Verdict(e)
  BY DEF ExecInv, ExecTypes, ExecEntries, ExecWatchers, ExecChildren
<1> DEFINE Rest == /\ watcher' \in [Execs -> ExecWatchers] /\ proc' \in [Execs -> ExecChildren]
                   /\ entry' \in [Execs -> ExecEntries]
                   /\ \A f \in Execs \ {e} : watcher'[f] = watcher[f] /\ proc'[f] = proc[f]
                                             /\ entry'[f].status = entry[f].status
<1>2. UNCHANGED <<client, inter>>
  BY DEF Watcher, IdleTimeout, ReadsOutput, ReadsEof, ReaderCancelled, ReaderEnds, Stops, link
<1>3. CASE ReadsOutput(e)
  <2>1. PICK p \in proc[e].unread : proc' = [proc EXCEPT ![e].unread = @ \ {p}] BY <1>3 DEF ReadsOutput
  <2>2. UNCHANGED <<entry, watcher>> /\ watcher[e].at = "reading" BY <1>3 DEF ReadsOutput
  <2>3. proc'[e] = [proc[e] EXCEPT !.unread = @ \ {p}] BY <1>1, <2>1
  <2>4. Rest BY <1>1, <2>1, <2>2 DEF ExecChildren
  <2>5. Unborn(e)' /\ Drains(e)' /\ Verdict(e)'
    BY <1>1, <1>2, <2>2, <2>3 DEF Unborn, Drains, Verdict, ExecChildren
  <2> QED BY <1>2, <2>2, <2>4, <2>5, BesideClient DEF ExecWatchers, ExecChildren
<1>4. CASE ReadsEof(e)
  <2>1. PICK p \in Outputs \ (proc[e].open \union proc[e].unread \union watcher[e].eof) :
          watcher' = [watcher EXCEPT ![e].eof = @ \union {p},
                        ![e].at = IF watcher[e].eof \union {p} = Outputs THEN "waiting" ELSE @]
    BY <1>4 DEF ReadsEof
  <2>2. UNCHANGED <<entry, proc>> /\ watcher[e].at = "reading" BY <1>4 DEF ReadsEof
  <2>3. /\ watcher'[e].eof = watcher[e].eof \union {p}
        /\ watcher'[e].at = IF watcher[e].eof \union {p} = Outputs THEN "waiting" ELSE "reading"
        /\ \A f \in Execs \ {e} : watcher'[f] = watcher[f]
    BY <1>1, <2>1, <2>2 DEF ExecWatchers
  <2>4. watcher' \in [Execs -> ExecWatchers]
    <3>1. watcher[e].eof \union {p} \in SUBSET Outputs BY <1>1, <2>1 DEF ExecWatchers
    <3>2. CASE watcher[e].eof \union {p} = Outputs
      <4>1. watcher' = [watcher EXCEPT ![e] = [watcher[e] EXCEPT !.eof = @ \union {p}, !.at = "waiting"]]
        BY <1>1, <2>1, <3>2
      <4>2. [watcher[e] EXCEPT !.eof = @ \union {p}, !.at = "waiting"] \in ExecWatchers
        BY <1>1, <3>1 DEF ExecWatchers
      <4> QED BY <1>1, <4>1, <4>2
    <3>3. CASE watcher[e].eof \union {p} # Outputs
      <4>1. watcher' = [watcher EXCEPT ![e].eof = @ \union {p}, ![e].at = @] BY <2>1, <3>3
      <4> QED BY <1>1, <3>1, <4>1 DEF ExecWatchers
    <3> QED BY <3>2, <3>3
  <2>5. Unborn(e)' /\ Drains(e)' /\ Verdict(e)'
    <3>1. /\ watcher'[e].eof \cap (proc[e].open \union proc[e].unread) = {}
          /\ proc[e].open \subseteq Outputs /\ proc[e].unread \subseteq Outputs
      BY <1>1, <2>1, <2>3 DEF Drains, ExecChildren
    <3>2. watcher'[e].at = "waiting" => proc[e].open = {} /\ proc[e].unread = {}
      BY <2>3, <3>1
    <3>3. watcher'[e].at \in {"reading", "waiting"} BY <2>3
    <3> QED BY <1>1, <1>2, <2>2, <3>1, <3>2, <3>3 DEF Unborn, Drains, Verdict
  <2> QED BY <1>1, <1>2, <2>2, <2>3, <2>4, <2>5, BesideClient DEF ExecWatchers, ExecChildren
<1>5. CASE ReaderCancelled(e) \/ IdleTimeout(e)
  <2>1. PICK s \in {"killed", "timeout"} : Stops(e, s) BY <1>5 DEF ReaderCancelled, IdleTimeout
  <2>2. /\ watcher' = [watcher EXCEPT ![e] = [at |-> "waiting", eof |-> {}]]
        /\ proc' = [proc EXCEPT ![e] = [alive |-> FALSE, open |-> {}, unread |-> {}]]
        /\ watcher[e].at = "reading"
    BY <2>1 DEF Stops
  <2>3. entry' \in [Execs -> ExecEntries] /\ entry'[e].status = s
        /\ \A f \in Execs \ {e} : entry'[f] = entry[f]
    <3>1. entry' = [entry EXCEPT ![e].permit = IF s = "timeout" THEN @ ELSE FALSE, ![e].status = s]
      BY <2>1 DEF Stops
    <3>2. PICK p : entry' = [entry EXCEPT ![e].permit = p, ![e].status = s]
                   /\ p \in {entry[e].permit, FALSE}
      BY <3>1
    <3>3. s \in Statuses BY DEF Statuses
    <3>4. entry \in [Execs -> ExecEntries] /\ entry[e] \in ExecEntries BY <1>1
    <3>5. [entry[e] EXCEPT !.permit = p, !.status = s] \in ExecEntries
      BY <3>2, <3>3, <3>4 DEF ExecEntries
    <3>6. entry' = [entry EXCEPT ![e] = [entry[e] EXCEPT !.permit = p, !.status = s]]
      BY <3>2, <3>4 DEF ExecEntries
    <3> QED BY <3>4, <3>5, <3>6 DEF ExecEntries
  <2>4. /\ watcher'[e] = [at |-> "waiting", eof |-> {}]
        /\ proc'[e] = [alive |-> FALSE, open |-> {}, unread |-> {}]
    BY <1>1, <2>2
  <2>5. Rest BY <1>1, <2>2, <2>3 DEF ExecWatchers, ExecChildren
  <2>6. Unborn(e)' /\ Drains(e)' /\ Verdict(e)'
    BY <1>1, <1>2, <2>2, <2>3, <2>4 DEF Unborn, Drains, Verdict
  <2> QED BY <1>2, <2>2, <2>4, <2>5, <2>6, BesideClient DEF ExecWatchers, ExecChildren
<1>6. CASE ReaderEnds(e)
  <2>1. /\ watcher' = [watcher EXCEPT ![e] = [at |-> "over", eof |-> {}]]
        /\ entry' = [entry EXCEPT ![e].status = IF @ = "running" THEN "exited" ELSE @]
        /\ watcher[e].at = "waiting" /\ ~proc[e].alive /\ UNCHANGED proc
    BY <1>6 DEF ReaderEnds
  <2>2. watcher'[e] = [at |-> "over", eof |-> {}] BY <1>1, <2>1
  <2>3. /\ entry' \in [Execs -> ExecEntries]
        /\ \A f \in Execs \ {e} : entry'[f] = entry[f]
        /\ entry'[e].status = IF entry[e].status = "running" THEN "exited" ELSE entry[e].status
    BY <1>1, <2>1 DEF ExecEntries, Statuses
  <2>4. Rest BY <1>1, <2>1, <2>3 DEF ExecWatchers
  <2>5. Unborn(e)' /\ Drains(e)' /\ Verdict(e)'
    BY <1>1, <1>2, <2>1, <2>2, <2>3 DEF Unborn, Drains, Verdict
  <2> QED BY <1>2, <2>1, <2>2, <2>4, <2>5, BesideClient DEF ExecWatchers, ExecChildren
<1> QED BY <1>3, <1>4, <1>5, <1>6 DEF Watcher

LEMMA WriterStep ==
    ASSUME NEW e \in Execs, Writer(e) \/ ChildReads(e), LinkTypes, ExecInv PROVE ExecInv'
<1>1. /\ entry \in [Execs -> ExecEntries] /\ watcher \in [Execs -> ExecWatchers]
      /\ proc \in [Execs -> ExecChildren]
      /\ Unborn(e) /\ Drains(e) /\ Verdict(e)
  BY DEF ExecInv, ExecTypes, ExecEntries, ExecWatchers, ExecChildren
<1>2. UNCHANGED <<client, inter, watcher, proc>>
  BY DEF Writer, WriterReceives, WriteFailsClosed, ChildReads, link
<1>3. \/ entry' = entry \/ entry' = [entry EXCEPT ![e].queue = @ - 1]
      \/ entry' = [entry EXCEPT ![e].permit = FALSE]
  BY DEF Writer, WriterReceives, WriteFailsClosed, ChildReads
<1>4. entry' \in [Execs -> ExecEntries] /\ \A f \in Execs : entry'[f].status = entry[f].status
  <2>1. CASE entry' = entry BY <1>1, <2>1
  <2>2. CASE entry' = [entry EXCEPT ![e].queue = @ - 1] BY <1>1, <2>2 DEF ExecEntries
  <2>3. CASE entry' = [entry EXCEPT ![e].permit = FALSE] BY <1>1, <2>3 DEF ExecEntries
  <2> QED BY <1>3, <2>1, <2>2, <2>3
<1>5. Unborn(e)' /\ Drains(e)' /\ Verdict(e)' BY <1>1, <1>2, <1>4 DEF Unborn, Drains, Verdict
<1> QED BY <1>1, <1>2, <1>4, <1>5, BesideClient DEF ExecWatchers, ExecChildren

LEMMA ChildStep ==
    ASSUME NEW e \in Execs, ChildWrites(e) \/ ChildCloses(e) \/ ChildEnds(e), LinkTypes, ExecInv
    PROVE  ExecInv'
<1>1. /\ entry \in [Execs -> ExecEntries] /\ watcher \in [Execs -> ExecWatchers]
      /\ proc \in [Execs -> ExecChildren]
      /\ Unborn(e) /\ Drains(e) /\ Verdict(e)
  BY DEF ExecInv, ExecTypes, ExecEntries, ExecWatchers, ExecChildren
<1>2. UNCHANGED <<client, inter, watcher, entry>> /\ proc[e].alive
  BY DEF ChildWrites, ChildCloses, ChildEnds, link
<1>3. /\ proc' \in [Execs -> ExecChildren]
      /\ \A f \in Execs \ {e} : proc'[f] = proc[f]
      /\ proc'[e].open \subseteq proc[e].open
      /\ proc'[e].unread \subseteq proc[e].unread \union proc[e].open
  <2>1. CASE ChildWrites(e)
    <3>1. PICK p \in proc[e].open : proc' = [proc EXCEPT ![e].unread = @ \union {p}]
      BY <2>1 DEF ChildWrites
    <3>2. proc[e].unread \union {p} \in SUBSET Outputs BY <1>1, <3>1 DEF ExecChildren
    <3> QED BY <1>1, <3>1, <3>2 DEF ExecChildren
  <2>2. CASE ChildCloses(e)
    <3>1. PICK p \in proc[e].open : proc' = [proc EXCEPT ![e].open = @ \ {p}]
      BY <2>2 DEF ChildCloses
    <3> QED BY <1>1, <3>1 DEF ExecChildren
  <2>3. CASE ChildEnds(e) BY <1>1, <2>3 DEF ChildEnds, ExecChildren
  <2> QED BY <2>1, <2>2, <2>3
<1>4. Unborn(e)' /\ Drains(e)' /\ Verdict(e)'
  <2>1. watcher[e].at = "reading" \/ (proc[e].open = {} /\ proc[e].unread = {} /\ watcher[e].at = "waiting")
    BY <1>1, <1>2 DEF Unborn, Drains, ExecWatchers
  <2> QED BY <1>1, <1>2, <1>3, <2>1 DEF Unborn, Drains, Verdict
<1> QED BY <1>1, <1>2, <1>3, <1>4, BesideClient DEF ExecWatchers, ExecChildren

LEMMA ExecStep == ASSUME [Next]_vars, PutTypes, LinkTypes, ExecInv PROVE ExecInv'
<1>1. CASE UNCHANGED exec /\ Quiet(inter, inter', "exec_start")
  <2>1. StartsOnce' BY <1>1, StartsQuiet DEF ExecInv, exec
  <2> QED BY <1>1, <2>1 DEF ExecInv, ExecTypes, Unborn, Drains, Verdict, exec
<1>2. ASSUME NEW e \in Execs, ClientStarts(e) PROVE ExecInv' BY <1>2, ClientStartsStep
<1>3. ASSUME NEW e \in Execs, ClientWrites(e) \/ ClientCloses(e) PROVE ExecInv'
  BY <1>3, ClientAsksStep
<1>4. ASSUME NEW e \in Execs, TakesStart(e) PROVE ExecInv' BY <1>4, TakesStartStep
<1>5. ASSUME NEW e \in Execs, MainLoop(e), ~TakesStart(e) PROVE ExecInv' BY <1>5, MainLoopStep
<1>6. ASSUME NEW e \in Execs, Watcher(e) \/ IdleTimeout(e) PROVE ExecInv' BY <1>6, WatcherStep
<1>7. ASSUME NEW e \in Execs, Writer(e) \/ ChildReads(e) PROVE ExecInv' BY <1>7, WriterStep
<1>8. ASSUME NEW e \in Execs, ChildWrites(e) \/ ChildCloses(e) \/ ChildEnds(e) PROVE ExecInv'
  BY <1>8, ChildStep
<1> QED BY <1>1, <1>2, <1>3, <1>4, <1>5, <1>6, <1>7, <1>8, ExecSteps

LEMMA ExecInits == ASSUME Init PROVE ExecInv
<1>1. inter = <<>> /\ ExecInit BY DEF Init, LinkInit
<1>2. ExecTypes BY <1>1 DEF ExecInit, ExecTypes, Statuses
<1>3. StartsOnce BY <1>1 DEF ExecInit, StartsOnce, Once, Carries
<1>4. \A e \in Execs : Unborn(e) /\ Drains(e) /\ Verdict(e)
  BY <1>1 DEF ExecInit, Unborn, Drains, Verdict
<1> QED BY <1>2, <1>3, <1>4 DEF ExecInv

LEMMA Channels == Spec => [](LinkTypes /\ PutTypes)
<1>1. LinkTypes /\ PutTypes /\ [Next]_vars => (LinkTypes /\ PutTypes)'
  BY LinkStep, PutTypesStep DEF LinkTypes
<1> QED BY <1>1, LinkInits, PTL DEF Spec

(* A command that is said to have exited has ended, and what it wrote has been *)
(* read to the end.                                                            *)
THEOREM CommandsAreWhole == Spec => []ExitedIsWhole
<1>1. ExecInv /\ LinkTypes /\ PutTypes /\ [Next]_vars => ExecInv' BY ExecStep
<1>2. ExecInv => ExitedIsWhole BY DEF ExecInv, Drains, Verdict, ExitedIsWhole
<1> QED BY <1>1, <1>2, ExecInits, Channels, PTL DEF Spec

----------------------------------------------------------------------------
(* Uploads.                                                                    *)

StoreTypes ==
    /\ reasm \in [Uploads -> {None} \union [file : Uploads, next : 1 .. PutLen - 1]]
    /\ path \in Uploads \union {None}
    /\ disk \in [Uploads -> [0 .. PutLen - 1 -> Uploads \union {None}]]
    /\ met \in [Uploads -> SUBSET Uploads]

(* The last chunk has not been sent, or never will be.                         *)
Unsent(u) == put[u].at \in {"none", "sending", "aborted", "refused"}
Done(u) == <<u, TRUE>> \in results \/ put[u].at = "ok"
Begun(u) == reasm[u] # None \/ Done(u)
Alone(u) == met[u] = {}
OthersClosed(u) == \A w \in Uploads \ {u} : reasm[w] = None

PutInv(u) ==
    /\ put[u].at = "none" => put[u].idx = 0
    /\ Unsent(u) => put[u].idx <= PutLen - 1 /\ ~Done(u)
    /\ u \in pending => put[u].at \in {"waiting", "gone"}
    /\ Begun(u) => put[u].at # "none" /\ ~(put[u].at = "sending" /\ put[u].idx = 0)

(* The chunks on their way: in order, each once, none after the abort, not the *)
(* first once it has been taken.                                               *)
IsChunk(m, u) == m.kind = "chunk" /\ m.id = u
ChunksInv(u) ==
    /\ \A i \in DOMAIN bulk :
          /\ IsChunk(bulk[i], u) =>
                /\ bulk[i].index <= PutLen - 1
                /\ bulk[i].index <= put[u].idx /\ (Unsent(u) => bulk[i].index < put[u].idx)
                /\ Begun(u) => bulk[i].index > 0
          /\ bulk[i].kind = "abort" /\ bulk[i].id = u => put[u].at = "aborted"
    /\ \A i, j \in DOMAIN bulk :
          i < j /\ IsChunk(bulk[i], u) /\ IsChunk(bulk[j], u) => bulk[i].index < bulk[j].index

(* What an upload that met no other has written so far is in the file the path *)
(* names.                                                                      *)
FileInv(u) ==
    /\ reasm[u] # None /\ Alone(u) =>
          /\ OthersClosed(u) /\ path # None /\ path = reasm[u].file
          /\ \A i \in 0 .. PutLen - 1 : i < reasm[u].next => disk[path][i] = u
    /\ Done(u) => reasm[u] = None
    /\ Done(u) /\ Alone(u) => OthersClosed(u) /\ Holds(path, u)

UploadInv ==
    /\ StoreTypes
    /\ \A i \in DOMAIN inter : inter[i].kind = "chunk" => inter[i].id \in Browsers
    /\ \A u \in Puts : PutInv(u) /\ ChunksInv(u) /\ FileInv(u)

(* Where the messages of other kinds are after a step.                         *)
Shift(q, r, kinds) ==
    \E d \in {0, 1} :
       \A i \in DOMAIN r : r[i].kind \in kinds => i + d \in DOMAIN q /\ r[i] = q[i + d]

LEMMA FlowShift ==
    ASSUME NEW S, NEW q \in Seq(S), NEW r, NEW some, NEW ids, NEW kinds, some \cap kinds = {},
           Flows(q, r, some, ids)
    PROVE  Shift(q, r, kinds)
<1>1. CASE r = q
  <2>1. \A i \in DOMAIN r : i + 0 \in DOMAIN q /\ r[i] = q[i + 0]
    <3>1. DOMAIN q = 1 .. Len(q) /\ Len(q) \in Nat OBVIOUS
    <3> QED BY <1>1, <3>1
  <2> QED BY <2>1 DEF Shift
<1>2. CASE r = <<>>
  <2>1. \A i \in DOMAIN r : FALSE BY <1>2
  <2> QED BY <2>1 DEF Shift
<1>3. CASE q # <<>> /\ r = Tail(q)
  <2>1. Len(r) = Len(q) - 1 /\ \A i \in 1 .. Len(r) : r[i] = q[i + 1] BY <1>3
  <2>2. DOMAIN q = 1 .. Len(q) /\ DOMAIN r = 1 .. Len(r) /\ Len(q) \in Nat BY <1>3
  <2>3. \A i \in DOMAIN r : i + 1 \in DOMAIN q /\ r[i] = q[i + 1] BY <2>1, <2>2
  <2> QED BY <2>3 DEF Shift
<1>4. CASE \E k \in some, i \in ids, n \in Nat : r = Append(q, [kind |-> k, id |-> i, index |-> n])
  <2>1. PICK k \in some, id \in ids, n \in Nat : r = Append(q, [kind |-> k, id |-> id, index |-> n])
    BY <1>4
  <2> DEFINE m == [kind |-> k, id |-> id, index |-> n]
  <2>2. m.kind \notin kinds OBVIOUS
  <2> HIDE DEF m
  <2>3. r = Append(q, m) BY <2>1 DEF m
  <2>4. DOMAIN q = 1 .. Len(q) /\ Len(q) \in Nat OBVIOUS
  <2>5. DOMAIN r = 1 .. Len(q) + 1 /\ r[Len(q) + 1] = m /\ \A i \in 1 .. Len(q) : r[i] = q[i]
    BY <2>3
  <2>6. \A i \in DOMAIN r : r[i].kind \in kinds => i + 0 \in DOMAIN q /\ r[i] = q[i + 0]
    BY <2>2, <2>4, <2>5
  <2> QED BY <2>6 DEF Shift
<1> QED BY <1>1, <1>2, <1>3, <1>4 DEF Flows

(* Steps that send nothing for an upload.                                      *)
LEMMA ChunksShift ==
    ASSUME NEW u \in Puts, ChunksInv(u), Shift(bulk, bulk', StoreKinds), LinkTypes, LinkTypes',
           put'[u].idx = put[u].idx, Unsent(u)' => Unsent(u),
           Begun(u)' => Begun(u), put[u].at = "aborted" => put'[u].at = "aborted"
    PROVE  ChunksInv(u)'
<1>1. PICK d \in {0, 1} : \A i \in DOMAIN bulk' :
         bulk'[i].kind \in StoreKinds => i + d \in DOMAIN bulk /\ bulk'[i] = bulk[i + d]
  BY DEF Shift
<1>2. DOMAIN bulk \subseteq Int /\ DOMAIN bulk' \subseteq Int BY DEF LinkTypes
<1>3. \A i, j \in DOMAIN bulk' :
         i < j /\ IsChunk(bulk'[i], u) /\ IsChunk(bulk'[j], u) => bulk'[i].index < bulk'[j].index
  <2>1. SUFFICES ASSUME NEW i \in DOMAIN bulk', NEW j \in DOMAIN bulk', i < j,
                        IsChunk(bulk'[i], u), IsChunk(bulk'[j], u)
                 PROVE  bulk'[i].index < bulk'[j].index
    OBVIOUS
  <2>2. /\ i + d \in DOMAIN bulk /\ bulk'[i] = bulk[i + d]
        /\ j + d \in DOMAIN bulk /\ bulk'[j] = bulk[j + d]
    BY <1>1, <2>1 DEF IsChunk, StoreKinds
  <2>3. i + d < j + d
    <3>1. i \in Int /\ j \in Int BY <1>2
    <3> QED BY <2>1, <3>1
  <2> QED BY <2>1, <2>2, <2>3 DEF ChunksInv
<1>4. ASSUME NEW i \in DOMAIN bulk'
      PROVE  /\ IsChunk(bulk'[i], u) =>
                   /\ bulk'[i].index <= PutLen - 1
                   /\ bulk'[i].index <= put'[u].idx /\ (Unsent(u)' => bulk'[i].index < put'[u].idx)
                   /\ Begun(u)' => bulk'[i].index > 0
             /\ bulk'[i].kind = "abort" /\ bulk'[i].id = u => put'[u].at = "aborted"
  BY <1>1, <1>4 DEF ChunksInv, IsChunk, StoreKinds
<1> QED BY <1>3, <1>4 DEF ChunksInv

LEMMA UploadSteps ==
    ASSUME [Next]_vars, PutTypes, LinkTypes
    PROVE  \/ /\ UNCHANGED up /\ Shift(bulk, bulk', StoreKinds)
              /\ inter' = inter \/ inter' = <<>> \/ \E some, ids : "chunk" \notin some /\ Flows(inter, inter', some, ids)
              /\ \A u \in Puts : /\ <<u, TRUE>> \in results' => <<u, TRUE>> \in results
                                 /\ u \in pending' => u \in pending
           \/ /\ UNCHANGED <<put, path, disk, met, answers>> /\ HandlesDropped
              /\ bulk' = <<>> /\ inter' = <<>>
           \/ \E u \in Uploads :
                 \/ PutStarts(u) \/ PutSends(u) \/ PutClientCloses(u) \/ PutClientLeaves(u)
                 \/ BrowserSends(u)
                 \/ ResultArrives(u) \/ ResultLost(u) \/ PutTimesOut(u)
                 \/ AgentTakesChunk(u) \/ AgentTakesAbort(u) \/ CleanupTick(u)
<1>1. CASE UploadNext BY <1>1 DEF UploadNext
<1>2. CASE AgentDrops BY <1>2 DEF AgentDrops, Drops
<1>3. CASE ~UploadNext /\ ~AgentDrops
  <2>1. UNCHANGED up BY <1>3 DEF Next, AgentReturns, Beside, vars, up
  <2>2. Shift(bulk, bulk', StoreKinds)
    <3>1. \/ bulk' = bulk \/ Flows(bulk, bulk', ReadKinds, Gets) \/ Flows(bulk, bulk', WebKinds, Pages)
      <4>1. CASE AgentReturns BY <4>1 DEF AgentReturns, Returns
      <4>2. CASE Beside BY <4>2, BesideLink DEF link
      <4>3. CASE UNCHANGED vars BY <4>3 DEF vars, link
      <4>4. CASE DownloadNext BY <4>4, DownloadLink
      <4>5. CASE ToolNext BY <4>5, ToolLink
      <4>6. CASE ExecNext BY <4>6, ExecLink
      <4>7. CASE WebNext BY <4>7, WebLink
      <4> QED BY <1>3, <4>1, <4>2, <4>3, <4>4, <4>5, <4>6, <4>7 DEF Next
    <3>2. ReadKinds \cap StoreKinds = {} /\ WebKinds \cap StoreKinds = {}
      BY DEF ReadKinds, WebKinds, StoreKinds
    <3>3. bulk \in Seq(Messages(BulkKinds)) BY DEF LinkTypes
    <3>4. CASE bulk' = bulk
      <4>1. Flows(bulk, bulk', {}, {}) BY <3>4 DEF Flows
      <4> QED BY <3>3, <4>1, FlowShift
    <3>5. CASE Flows(bulk, bulk', ReadKinds, Gets) BY <3>2, <3>3, <3>5, FlowShift
    <3>6. CASE Flows(bulk, bulk', WebKinds, Pages) BY <3>2, <3>3, <3>6, FlowShift
    <3> QED BY <3>1, <3>4, <3>5, <3>6
  <2>3. inter' = inter \/ inter' = <<>> \/ \E some, ids : "chunk" \notin some /\ Flows(inter, inter', some, ids)
    <3>1. CASE AgentReturns BY <3>1 DEF AgentReturns, Returns
    <3>2. CASE Beside BY <3>2, BesideLink DEF link
    <3>3. CASE UNCHANGED vars BY <3>3 DEF vars, link
    <3>4. CASE DownloadNext \/ WebNext BY <3>4, DownloadLink, WebLink
    <3>5. CASE ToolNext
      <4>1. "chunk" \notin {"exec"} OBVIOUS
      <4> QED BY <3>5, <4>1, ToolLink
    <3>6. CASE ExecNext
      <4>1. "chunk" \notin ExecKinds BY DEF ExecKinds
      <4> QED BY <3>6, <4>1, ExecLink
    <3> QED BY <1>3, <3>1, <3>2, <3>3, <3>4, <3>5, <3>6 DEF Next
  <2>4. ASSUME NEW u \in Puts
        PROVE  /\ <<u, TRUE>> \in results' => <<u, TRUE>> \in results
               /\ u \in pending' => u \in pending
    <3>1. u \notin Calls BY IdentifiersAssumption DEF Uploads
    <3>2. CASE UNCHANGED answers BY <3>2 DEF answers
    <3>3. CASE ToolNext
      <4>1. PICK c \in Calls : \/ CallRegisters(c) \/ CallSends(c) \/ CallAnswered(c) \/ CallTimesOut(c)
                               \/ TakesExec(c) \/ CommandEnds(c) \/ CallAnswerLost(c)
        BY <3>3 DEF ToolNext
      <4>2. results' \subseteq results \union {<<c, TRUE>>} /\ pending' \subseteq pending \union {c}
        BY <4>1 DEF CallRegisters, CallSends, CallAnswered, CallTimesOut, TakesExec, CommandEnds,
                    CallAnswerLost, Arrives, Loses, answers
      <4> QED BY <3>1, <4>2
    <3>4. UNCHANGED answers \/ ToolNext
      <4>1. CASE DownloadNext
        BY <4>1 DEF DownloadNext, GetAsks, GetFirst, GetNext, GetTellsAgent, GetClientLeaves, ReapSink,
              AgentTakesRead, AgentTakesCancel, ReaderPosts, RouteFinds, RouteSends, RouteDone,
              RouteStalls, RouteCancels, PostFails, FileShrinks
      <4>2. CASE ExecNext
        <5>1. PICK e \in Execs :
                 \/ ClientStarts(e) \/ ClientWrites(e) \/ ClientCloses(e)
                 \/ MainLoop(e) \/ Watcher(e) \/ Writer(e)
                 \/ IdleTimeout(e)
                 \/ ChildReads(e) \/ ChildWrites(e) \/ ChildCloses(e) \/ ChildEnds(e)
          BY <4>2 DEF ExecNext
        <5>2. CASE ClientStarts(e) \/ ClientWrites(e) \/ ClientCloses(e)
          BY <5>2 DEF ClientStarts, ClientWrites, ClientCloses
        <5>3. CASE MainLoop(e)
          BY <5>3 DEF MainLoop, TakesStart, TakesInput, InputQueued, TakesClose, CloseSettles, CloseEnds,
                ShutdownCloses
        <5>4. CASE Watcher(e) \/ IdleTimeout(e)
          BY <5>4 DEF Watcher, IdleTimeout, ReadsOutput, ReadsEof, ReaderCancelled, ReaderEnds, Stops
        <5>5. CASE Writer(e) \/ ChildReads(e) \/ ChildWrites(e) \/ ChildCloses(e) \/ ChildEnds(e)
          BY <5>5 DEF Writer, WriterReceives, WriteFailsClosed, ChildReads, ChildWrites, ChildCloses,
                ChildEnds
        <5> QED BY <5>1, <5>2, <5>3, <5>4, <5>5
      <4>3. CASE WebNext
        BY <4>3 DEF WebNext, WebRuns, WebAsks, WebClientLeaves, WebRegisters, WebSends, WebFirst, WebBody,
              GuardTask, CancelWaits, SweepStream, FrameRouted, AgentTakesWeb, AgentRefuses,
              AgentTakesWebCancel, FetchGoes, FetchStops, FetchUnlisted, FetchFails, FrameArrives,
              FrameLost
      <4>4. CASE Beside
        <5>1. CASE MapsNext
          <6>1. ASSUME NEW m \in Maps, MapOpens(m) \/ MapExpires(m) PROVE UNCHANGED answers
            BY <6>1 DEF MapOpens, MapExpires
          <6>2. ASSUME NEW v \in Visits, VisitLooks(v) \/ VisitLeft(v) \/ SocketEnds(v)
                PROVE  UNCHANGED answers
            BY <6>2 DEF VisitLooks, VisitLeft, SocketEnds, mapsElse
          <6>3. ASSUME NEW v \in Visits, VisitRuns(v) PROVE UNCHANGED answers
            BY <6>3 DEF VisitRuns, VisitQueues, VisitAdmitted, VisitTooLate, VisitTakes, VisitOpens,
                  VisitSends, VisitFails, VisitTimesOut, VisitAnswered, VisitReads, VisitEnds,
                  VisitKeeps, SocketCut, SocketEnds, mapsElse
          <6>4. ASSUME NEW c \in Visits, TargetCloses(c) \/ CloseNoticed(c) \/ PipeAges(c)
                PROVE  UNCHANGED answers
            BY <6>4 DEF TargetCloses, CloseNoticed, PipeAges, mapsElse
          <6>5. CASE RuntimesSwept BY <6>5 DEF RuntimesSwept
          <6> QED BY <5>1, <6>1, <6>2, <6>3, <6>4, <6>5 DEF MapsNext
        <5> QED BY <4>4, <5>1 DEF Beside
      <4>5. CASE AgentReturns BY <4>5 DEF AgentReturns
      <4>6. CASE UNCHANGED vars BY <4>6 DEF vars
      <4> QED BY <1>3, <4>1, <4>2, <4>3, <4>4, <4>5, <4>6 DEF Next
    <3> QED BY <3>2, <3>3, <3>4
  <2> QED BY <2>1, <2>2, <2>3, <2>4
<1> QED BY <1>1, <1>2, <1>3

BrowserChunks == \A i \in DOMAIN inter : inter[i].kind = "chunk" => inter[i].id \in Browsers

LEMMA BrowserChunksKept ==
    ASSUME LinkTypes, BrowserChunks,
           \/ inter' = inter \/ inter' = <<>> \/ (inter # <<>> /\ inter' = Tail(inter))
           \/ \E some, ids : "chunk" \notin some /\ Flows(inter, inter', some, ids)
    PROVE  BrowserChunks'
<1>1. inter \in Seq(Messages(InterKinds)) BY DEF LinkTypes
<1>2. PICK some, ids : "chunk" \notin some /\ Flows(inter, inter', some, ids)
  <2>1. Flows(inter, inter', {}, {}) \/ \E some, ids : "chunk" \notin some /\ Flows(inter, inter', some, ids)
    BY DEF Flows
  <2>2. "chunk" \notin {} OBVIOUS
  <2> QED BY <2>1, <2>2
<1>3. some \cap {"chunk"} = {} BY <1>2
<1>4. Shift(inter, inter', {"chunk"}) BY <1>1, <1>2, <1>3, FlowShift
<1> QED BY <1>4 DEF Shift, BrowserChunks

(* Steps that do not write what the agent stores.                              *)
LEMMA RelaySide ==
    ASSUME UploadInv, UNCHANGED <<reasm, path, disk, met>>, BrowserChunks',
           \A u \in Puts : (Done(u)' => Done(u)) /\ PutInv(u)' /\ ChunksInv(u)'
    PROVE  UploadInv'
<1>1. StoreTypes' BY DEF UploadInv, StoreTypes
<1>2. ASSUME NEW u \in Puts PROVE FileInv(u)'
  <2>1. FileInv(u) /\ (Done(u)' => Done(u)) BY <1>2 DEF UploadInv
  <2>2. /\ OthersClosed(u)' <=> OthersClosed(u)
        /\ Holds(path, u)' <=> Holds(path, u)
        /\ Alone(u)' <=> Alone(u)
    BY DEF OthersClosed, Holds, Alone
  <2> QED BY <2>1, <2>2 DEF FileInv
<1> QED BY <1>1, <1>2 DEF UploadInv, BrowserChunks

LEMMA UploadQuiet ==
    ASSUME UploadInv, LinkTypes, LinkTypes', UNCHANGED up, Shift(bulk, bulk', StoreKinds),
           \/ inter' = inter \/ inter' = <<>>
           \/ \E some, ids : "chunk" \notin some /\ Flows(inter, inter', some, ids),
           \A u \in Puts : /\ <<u, TRUE>> \in results' => <<u, TRUE>> \in results
                           /\ u \in pending' => u \in pending
    PROVE  UploadInv'
<1>1. BrowserChunks' BY BrowserChunksKept DEF UploadInv, BrowserChunks
<1>2. ASSUME NEW u \in Puts PROVE (Done(u)' => Done(u)) /\ PutInv(u)' /\ ChunksInv(u)'
  <2>1. /\ PutInv(u) /\ ChunksInv(u) /\ u \in Uploads BY <1>2 DEF UploadInv, Uploads
  <2>2. put' = put /\ reasm' = reasm BY DEF up
  <2>3. (Done(u)' => Done(u)) /\ (Begun(u)' => Begun(u)) /\ (Unsent(u)' <=> Unsent(u))
    BY <2>2 DEF Done, Begun, Unsent
  <2>4. PutInv(u)' BY <2>1, <2>2, <2>3 DEF PutInv
  <2>5. ChunksInv(u)' BY <2>1, <2>2, <2>3, ChunksShift
  <2> QED BY <2>3, <2>4, <2>5
<1> QED BY <1>1, <1>2, RelaySide DEF up

LEMMA UploadDrop ==
    ASSUME UploadInv, UNCHANGED <<put, path, disk, met, answers>>, HandlesDropped, bulk' = <<>>,
           inter' = <<>>
    PROVE  UploadInv'
<1>1. \A u \in Uploads : reasm'[u] = None BY DEF HandlesDropped
<1>2. StoreTypes' BY DEF UploadInv, StoreTypes, HandlesDropped
<1>3. ASSUME NEW u \in Puts PROVE PutInv(u)' /\ ChunksInv(u)' /\ FileInv(u)'
  <2>1. PutInv(u) /\ FileInv(u) /\ u \in Uploads BY <1>3 DEF UploadInv, Uploads
  <2>2. (Done(u)' <=> Done(u)) /\ (Unsent(u)' <=> Unsent(u)) /\ (Begun(u)' => Begun(u)) /\ OthersClosed(u)'
    BY <1>1, <2>1 DEF Done, Unsent, Begun, OthersClosed, answers
  <2>3. (Alone(u)' <=> Alone(u)) /\ (Holds(path, u)' <=> Holds(path, u))
    BY DEF Alone, Holds
  <2>4. PutInv(u)' BY <2>1, <2>2 DEF PutInv, answers
  <2>5. ChunksInv(u)' BY DEF ChunksInv
  <2>6. FileInv(u)' BY <1>1, <2>1, <2>2, <2>3 DEF FileInv
  <2> QED BY <2>4, <2>5, <2>6
<1>4. BrowserChunks' BY DEF BrowserChunks
<1> QED BY <1>2, <1>3, <1>4 DEF UploadInv, BrowserChunks

(* A handler's own steps that send nothing: of put only this one's state.      *)
LEMMA HandlerMoves ==
    ASSUME UploadInv, PutTypes, LinkTypes, LinkTypes', NEW u \in Uploads, NEW a \in PutStates, NEW n \in Nat,
           put' = [put EXCEPT ![u].at = a, ![u].gen = n],
           UNCHANGED <<reasm, path, disk, met, bulk, inter>>,
           results' \subseteq results, pending' \subseteq pending,
           u \in Puts =>
              /\ put[u].at # "aborted" \/ a = put[u].at
              /\ a \in {"none", "aborted"} => a = put[u].at
              /\ a \in {"sending", "refused"} => put[u].at \in {"none", a}
              /\ u \in pending' => a \in {"waiting", "gone"}
              /\ a = "ok" => Done(u)
    PROVE  UploadInv'
<1>1. BrowserChunks' BY BrowserChunksKept DEF UploadInv, BrowserChunks
<1>2. /\ put'[u].at = a /\ put'[u].idx = put[u].idx
      /\ \A w \in Uploads \ {u} : put'[w] = put[w]
  BY DEF PutTypes
<1>3. Flows(bulk, bulk', {}, {}) BY DEF Flows
<1>4. Shift(bulk, bulk', StoreKinds) BY <1>3, FlowShift DEF LinkTypes
<1>5. ASSUME NEW w \in Puts PROVE (Done(w)' => Done(w)) /\ PutInv(w)' /\ ChunksInv(w)'
  <2>1. PutInv(w) /\ ChunksInv(w) /\ w \in Uploads BY <1>5 DEF UploadInv, Uploads
  <2>2. Done(w)' => Done(w) BY <1>2, <2>1 DEF Done
  <2>3. Begun(w)' => Begun(w) BY <2>2 DEF Begun
  <2>4. (Unsent(w)' => Unsent(w)) /\ put'[w].idx = put[w].idx
        /\ (put[w].at = "aborted" => put'[w].at = "aborted")
    BY <1>2, <2>1 DEF Unsent
  <2>5. PutInv(w)'
    <3>1. CASE w = u BY <1>2, <2>1, <2>2, <2>3, <2>4, <3>1 DEF PutInv
    <3>2. CASE w # u
      <4>1. put'[w] = put[w] BY <1>2, <2>1, <3>2
      <4> QED BY <2>1, <2>2, <2>3, <2>4, <4>1 DEF PutInv
    <3> QED BY <3>1, <3>2
  <2>6. ChunksInv(w)' BY <1>4, <2>1, <2>3, <2>4, ChunksShift
  <2> QED BY <2>2, <2>5, <2>6
<1> QED BY <1>1, <1>5, RelaySide

LEMMA SmallMovesStep ==
    ASSUME UploadInv, PutTypes, LinkTypes, LinkTypes', NEW u \in Uploads,
           PutStarts(u) \/ PutClientLeaves(u) \/ ResultArrives(u) \/ ResultLost(u) \/ PutTimesOut(u)
    PROVE  UploadInv'
<1>1. put[u].at \in PutStates /\ put[u].gen \in Nat /\ gen \in Nat BY DEF PutTypes, LinkTypes
<1>2. ASSUME NEW a, put' = [put EXCEPT ![u].at = a]
      PROVE  put' = [put EXCEPT ![u].at = a, ![u].gen = put[u].gen]
  BY <1>2 DEF PutTypes
<1>3. UNCHANGED <<reasm, path, disk, met, bulk, inter>>
  BY DEF PutStarts, PutClientLeaves, ResultArrives, ResultLost, PutTimesOut, link
<1>4. u \in Puts => PutInv(u) BY DEF UploadInv
<1>5. CASE PutStarts(u)
  <2>1. /\ put' = [put EXCEPT ![u].at = IF online THEN "sending" ELSE "refused", ![u].gen = gen]
        /\ put[u].at = "none" /\ UNCHANGED answers
    BY <1>5 DEF PutStarts
  <2>2. PICK a \in {"sending", "refused"} : put' = [put EXCEPT ![u].at = a, ![u].gen = gen]
    BY <2>1
  <2>3. a \in PutStates BY DEF PutStates
  <2>4. u \in Puts => ~(u \in pending) BY <1>4, <2>1 DEF PutInv
  <2>5. /\ results' = results /\ pending' = pending
        /\ UNCHANGED <<reasm, path, disk, met, bulk, inter>>
    BY <1>3, <2>1 DEF answers
  <2>6. /\ put[u].at # "aborted" \/ a = put[u].at
        /\ a \in {"none", "aborted"} => a = put[u].at
        /\ a \in {"sending", "refused"} => put[u].at \in {"none", a}
        /\ a # "ok"
    BY <2>1
  <2> QED BY <1>1, <2>2, <2>3, <2>4, <2>5, <2>6, HandlerMoves
<1>6. CASE PutClientLeaves(u)
  <2>1. /\ put' = [put EXCEPT ![u].at = "gone"] /\ put[u].at \in {"sending", "waiting"}
        /\ UNCHANGED answers
    BY <1>6 DEF PutClientLeaves
  <2>2. "gone" \in PutStates BY DEF PutStates
  <2> QED BY <1>1, <1>2, <1>3, <2>1, <2>2, HandlerMoves DEF answers
<1>7. CASE PutTimesOut(u)
  <2>1. /\ put' = [put EXCEPT ![u].at = "timeout"] /\ put[u].at = "waiting"
        /\ pending' = pending \ {u} /\ UNCHANGED results
    BY <1>7 DEF PutTimesOut
  <2>2. "timeout" \in PutStates BY DEF PutStates
  <2> QED BY <1>1, <1>2, <1>3, <2>1, <2>2, HandlerMoves
<1>8. CASE ResultArrives(u)
  <2>1. PICK ok \in BOOLEAN :
          /\ Arrives(u, ok)
          /\ put' = [put EXCEPT ![u].at = CASE u \notin pending \/ @ = "gone" -> @
                                            [] OTHER -> IF ok THEN "ok" ELSE "failed"]
    BY <1>8 DEF ResultArrives
  <2>2. <<u, ok>> \in results /\ results' = results \ {<<u, ok>>} /\ pending' = pending \ {u}
    BY <2>1 DEF Arrives
  <2>3. CASE u \notin pending \/ put[u].at = "gone"
    <3>1. put' = [put EXCEPT ![u].at = put[u].at] BY <2>1, <2>3
    <3>2. put[u].at = "ok" => Done(u) BY DEF Done
    <3> QED BY <1>1, <1>2, <1>3, <2>2, <3>1, <3>2, HandlerMoves
  <2>4. CASE u \in pending /\ put[u].at # "gone"
    <3>1. put' = [put EXCEPT ![u].at = IF ok THEN "ok" ELSE "failed"] BY <2>1, <2>4
    <3>2. PICK a \in {"ok", "failed"} : put' = [put EXCEPT ![u].at = a] /\ (a = "ok" => ok = TRUE)
      <4>1. CASE ok = TRUE BY <3>1, <4>1
      <4>2. CASE ok = FALSE BY <3>1, <4>2
      <4> QED BY <4>1, <4>2
    <3>3. a \in PutStates BY DEF PutStates
    <3>4. a = "ok" => Done(u) BY <2>2, <3>2 DEF Done
    <3>5. u \in Puts => put[u].at = "waiting" BY <1>4, <2>4 DEF PutInv
    <3> QED BY <1>1, <1>2, <1>3, <2>2, <3>2, <3>3, <3>4, <3>5, HandlerMoves
  <2> QED BY <2>3, <2>4
<1>9. CASE ResultLost(u)
  <2>1. put' = [put EXCEPT ![u].at = put[u].at] BY <1>9 DEF ResultLost, PutTypes
  <2>2. results' \subseteq results /\ pending' = pending BY <1>9 DEF ResultLost, Loses
  <2>3. put[u].at = "ok" => Done(u) BY DEF Done
  <2>4. u \in Puts /\ u \in pending' => put[u].at \in {"waiting", "gone"} BY <1>4, <2>2 DEF PutInv
  <2> QED BY <1>1, <1>2, <1>3, <2>1, <2>2, <2>3, <2>4, HandlerMoves
<1> QED BY <1>5, <1>6, <1>7, <1>8, <1>9

LEMMA BulkMessages ==
    ASSUME LinkTypes
    PROVE  /\ DOMAIN bulk = 1 .. Len(bulk) /\ Len(bulk) \in Nat
           /\ \A i \in DOMAIN bulk : bulk[i].index \in Nat
<1>1. \A i \in DOMAIN bulk : bulk[i] \in Messages(BulkKinds) BY DEF LinkTypes
<1>2. \A m \in Messages(BulkKinds) : m.index \in Nat BY DEF Messages
<1> QED BY <1>1, <1>2 DEF LinkTypes

(* A message of one upload is none of another's.                               *)
LEMMA OthersChunks ==
    ASSUME NEW u \in Puts, ChunksInv(u), LinkTypes, LinkTypes',
           NEW w \in Uploads \ {u}, NEW kind, NEW index,
           bulk' = bulk \/ bulk' = Append(bulk, [kind |-> kind, id |-> w, index |-> index]),
           put'[u] = put[u], Begun(u)' => Begun(u)
    PROVE  ChunksInv(u)'
<1> DEFINE m == [kind |-> kind, id |-> w, index |-> index]
<1>1. DOMAIN bulk = 1 .. Len(bulk) /\ Len(bulk) \in Nat BY DEF LinkTypes
<1>2. \A i \in DOMAIN bulk' : bulk'[i].id = u => i \in DOMAIN bulk /\ bulk'[i] = bulk[i]
  <2>1. CASE bulk' = bulk BY <2>1
  <2>2. CASE bulk' = Append(bulk, m)
    <3>1. m.id # u OBVIOUS
    <3> HIDE DEF m
    <3>2. /\ DOMAIN bulk' = 1 .. Len(bulk) + 1 /\ bulk'[Len(bulk) + 1] = m
          /\ \A i \in 1 .. Len(bulk) : bulk'[i] = bulk[i]
      BY <2>2 DEF LinkTypes
    <3> QED BY <1>1, <3>1, <3>2
  <2> QED BY <2>1, <2>2
<1>3. Unsent(u)' <=> Unsent(u) BY DEF Unsent
<1> QED BY <1>2, <1>3 DEF ChunksInv, IsChunk

LEMMA PutSendsStep ==
    ASSUME UploadInv, PutTypes, LinkTypes, LinkTypes', NEW u \in Uploads, PutSends(u)
    PROVE  UploadInv'
<1>1. /\ u \in Puts /\ put[u].at = "sending" /\ put[u].idx \in Nat
      /\ UNCHANGED <<reasm, path, disk, met, results, inter>>
      /\ PutInv(u) /\ ChunksInv(u)
  BY DEF PutSends, butBulk, PutTypes, UploadInv
<1> DEFINE m == [kind |-> "chunk", id |-> u, index |-> put[u].idx]
<1>2. bulk' = bulk \/ bulk' = Append(bulk, m) BY DEF PutSends, Tell
<1>3. /\ \A w \in Uploads \ {u} : put'[w] = put[w]
      /\ \/ /\ put[u].idx + 1 >= PutLen /\ put'[u].at = "waiting" /\ put'[u].idx = put[u].idx
            /\ pending' = pending \union {u}
         \/ /\ put[u].idx + 1 < PutLen /\ put'[u].at = "sending" /\ put'[u].idx = put[u].idx + 1
            /\ pending' = pending
  <2>1. CASE put[u].idx + 1 >= PutLen
    <3>1. put' = [put EXCEPT ![u].at = "waiting"] /\ pending' = pending \union {u}
      BY <2>1 DEF PutSends
    <3> QED BY <2>1, <3>1 DEF PutTypes
  <2>2. CASE ~(put[u].idx + 1 >= PutLen)
    <3>1. put' = [put EXCEPT ![u].idx = @ + 1] /\ pending' = pending BY <2>2 DEF PutSends
    <3>2. put[u].idx + 1 < PutLen BY <1>1, <2>2, UploadAssumption
    <3> QED BY <1>1, <3>1, <3>2 DEF PutTypes
  <2> QED BY <2>1, <2>2
<1>4. BrowserChunks' BY <1>1, BrowserChunksKept DEF UploadInv, BrowserChunks
<1>5. \A w \in Puts : (Done(w)' => Done(w)) /\ (Begun(w)' => Begun(w))
  BY <1>1, <1>3 DEF Done, Begun, Uploads
<1>6. ASSUME NEW w \in Puts \ {u} PROVE PutInv(w)' /\ ChunksInv(w)'
  <2>1. PutInv(w) /\ ChunksInv(w) /\ w \in Uploads /\ put'[w] = put[w]
    BY <1>3, <1>6 DEF UploadInv, Uploads
  <2>2. PutInv(w)' BY <1>3, <1>5, <2>1, <1>6 DEF PutInv, Unsent
  <2>3. u \in Uploads \ {w} BY <1>6
  <2>4. ChunksInv(w)' BY <1>2, <1>5, <1>6, <2>1, <2>3, OthersChunks
  <2> QED BY <2>2, <2>4
<1>7. PutInv(u)'
  BY <1>1, <1>3, <1>5, UploadAssumption DEF PutInv, Unsent
<1>8. ChunksInv(u)'
  <2>1. /\ put[u].idx <= PutLen - 1
        /\ Begun(u)' => put[u].idx > 0
        /\ \A i \in DOMAIN bulk : IsChunk(bulk[i], u) => bulk[i].index < put[u].idx
        /\ \A i \in DOMAIN bulk : ~(bulk[i].kind = "abort" /\ bulk[i].id = u)
    BY <1>1, <1>5 DEF PutInv, ChunksInv, Unsent
  <2>2. put[u].idx <= put'[u].idx /\ (Unsent(u)' => put[u].idx < put'[u].idx)
    BY <1>1, <1>3 DEF Unsent
  <2>3. DOMAIN bulk = 1 .. Len(bulk) /\ Len(bulk) \in Nat
        /\ \A i \in DOMAIN bulk : bulk[i].index \in Nat
    BY BulkMessages
  <2>4. CASE bulk' = bulk
    <3>1. \A i \in DOMAIN bulk : IsChunk(bulk[i], u) =>
             /\ bulk[i].index <= PutLen - 1
             /\ bulk[i].index <= put'[u].idx /\ (Unsent(u)' => bulk[i].index < put'[u].idx)
             /\ Begun(u)' => bulk[i].index > 0
      BY <1>1, <1>3, <1>5, <2>1, <2>2, <2>3 DEF ChunksInv
    <3> QED BY <1>1, <2>1, <2>4, <3>1 DEF ChunksInv
  <2>5. CASE bulk' = Append(bulk, m)
    <3>1. m.kind = "chunk" /\ m.id = u /\ m.index = put[u].idx OBVIOUS
    <3> HIDE DEF m
    <3>2. /\ DOMAIN bulk' = 1 .. Len(bulk) + 1 /\ bulk'[Len(bulk) + 1] = m
          /\ \A i \in 1 .. Len(bulk) : bulk'[i] = bulk[i]
      BY <2>5 DEF LinkTypes
    <3>3. \A i \in DOMAIN bulk' :
             /\ IsChunk(bulk'[i], u) =>
                  /\ bulk'[i].index <= PutLen - 1
                  /\ bulk'[i].index <= put'[u].idx /\ (Unsent(u)' => bulk'[i].index < put'[u].idx)
                  /\ Begun(u)' => bulk'[i].index > 0
             /\ bulk'[i].kind = "abort" /\ bulk'[i].id = u => put'[u].at = "aborted"
      <4>1. ASSUME NEW i \in 1 .. Len(bulk)
            PROVE  /\ IsChunk(bulk'[i], u) =>
                        /\ bulk'[i].index <= PutLen - 1
                        /\ bulk'[i].index <= put'[u].idx /\ (Unsent(u)' => bulk'[i].index < put'[u].idx)
                        /\ Begun(u)' => bulk'[i].index > 0
                   /\ bulk'[i].kind = "abort" /\ bulk'[i].id = u => put'[u].at = "aborted"
        <5>1. bulk'[i] = bulk[i] /\ i \in DOMAIN bulk BY <2>3, <3>2
        <5>2. IsChunk(bulk[i], u) =>
                /\ bulk[i].index \in Nat /\ bulk[i].index < put[u].idx
                /\ bulk[i].index <= PutLen - 1 /\ (Begun(u) => bulk[i].index > 0)
          BY <1>1, <2>1, <2>3, <5>1 DEF ChunksInv
        <5> QED BY <1>1, <1>3, <1>5, <2>1, <2>2, <5>1, <5>2
      <4> QED BY <1>1, <2>1, <2>2, <2>3, <3>1, <3>2, <4>1
    <3>4. \A i, j \in DOMAIN bulk' :
             i < j /\ IsChunk(bulk'[i], u) /\ IsChunk(bulk'[j], u) => bulk'[i].index < bulk'[j].index
      <4>1. ASSUME NEW i \in DOMAIN bulk', NEW j \in DOMAIN bulk', i < j,
                   IsChunk(bulk'[i], u), IsChunk(bulk'[j], u)
            PROVE  bulk'[i].index < bulk'[j].index
        <5>1. i \in DOMAIN bulk /\ bulk'[i] = bulk[i] BY <2>3, <3>2, <4>1
        <5>2. CASE j = Len(bulk) + 1 BY <2>1, <3>1, <3>2, <4>1, <5>1, <5>2
        <5>3. CASE j # Len(bulk) + 1
          <6>1. j \in DOMAIN bulk /\ bulk'[j] = bulk[j] BY <2>3, <3>2, <4>1, <5>3
          <6> QED BY <1>1, <4>1, <5>1, <6>1 DEF ChunksInv
        <5> QED BY <5>2, <5>3
      <4> QED BY <4>1
    <3> QED BY <3>3, <3>4 DEF ChunksInv
  <2> QED BY <1>2, <2>4, <2>5
<1> QED BY <1>1, <1>4, <1>5, <1>6, <1>7, <1>8, RelaySide

LEMMA PutClosesStep ==
    ASSUME UploadInv, PutTypes, LinkTypes, LinkTypes', NEW u \in Uploads, PutClientCloses(u)
    PROVE  UploadInv'
<1>1. /\ u \in Puts /\ put[u].at = "sending" /\ put' = [put EXCEPT ![u].at = "aborted"]
      /\ UNCHANGED <<reasm, path, disk, met, results, pending, inter>>
      /\ PutInv(u) /\ ChunksInv(u)
  BY DEF PutClientCloses, butBulk, answers, UploadInv
<1> DEFINE m == [kind |-> "abort", id |-> u, index |-> 0]
<1>2. bulk' = bulk \/ bulk' = Append(bulk, m) BY DEF PutClientCloses, Tell
<1>3. /\ \A w \in Uploads \ {u} : put'[w] = put[w]
      /\ put'[u].at = "aborted" /\ put'[u].idx = put[u].idx
  BY <1>1 DEF PutTypes
<1>4. BrowserChunks' BY <1>1, BrowserChunksKept DEF UploadInv, BrowserChunks
<1>5. \A w \in Puts : (Done(w)' => Done(w)) /\ (Begun(w)' => Begun(w))
  BY <1>1, <1>3 DEF Done, Begun, Uploads
<1>6. ASSUME NEW w \in Puts \ {u} PROVE PutInv(w)' /\ ChunksInv(w)'
  <2>1. PutInv(w) /\ ChunksInv(w) /\ w \in Uploads /\ put'[w] = put[w]
    BY <1>3, <1>6 DEF UploadInv, Uploads
  <2>2. PutInv(w)' BY <1>1, <1>5, <2>1, <1>6 DEF PutInv, Unsent
  <2>3. u \in Uploads \ {w} BY <1>6
  <2>4. ChunksInv(w)' BY <1>2, <1>5, <1>6, <2>1, <2>3, OthersChunks
  <2> QED BY <2>2, <2>4
<1>7. PutInv(u)' BY <1>1, <1>3, <1>5 DEF PutInv, Unsent
<1>8. ChunksInv(u)'
  <2>1. Unsent(u) /\ DOMAIN bulk = 1 .. Len(bulk) /\ Len(bulk) \in Nat
    BY <1>1, BulkMessages DEF Unsent
  <2>2. \A i \in DOMAIN bulk' : IsChunk(bulk'[i], u) => i \in DOMAIN bulk /\ bulk'[i] = bulk[i]
    <3>1. CASE bulk' = bulk BY <3>1
    <3>2. CASE bulk' = Append(bulk, m)
      <4>1. m.kind = "abort" OBVIOUS
      <4> HIDE DEF m
      <4>2. /\ DOMAIN bulk' = 1 .. Len(bulk) + 1 /\ bulk'[Len(bulk) + 1] = m
            /\ \A i \in 1 .. Len(bulk) : bulk'[i] = bulk[i]
        BY <3>2 DEF LinkTypes
      <4> QED BY <2>1, <4>1, <4>2 DEF IsChunk
    <3> QED BY <1>2, <3>1, <3>2
  <2> QED BY <1>1, <1>3, <1>5, <2>1, <2>2 DEF ChunksInv
<1> QED BY <1>1, <1>4, <1>5, <1>6, <1>7, <1>8, RelaySide

LEMMA BrowserSendsStep ==
    ASSUME UploadInv, PutTypes, LinkTypes, LinkTypes', NEW u \in Uploads, BrowserSends(u)
    PROVE  UploadInv'
<1>1. /\ u \in Browsers /\ UNCHANGED <<reasm, path, disk, met, results, pending, bulk>>
      /\ \A w \in Uploads \ {u} : put'[w] = put[w]
  <2>1. CASE Alive(put[u].gen)
    <3>1. put' = [put EXCEPT ![u].idx = @ + 1,
                             ![u].at = IF put[u].idx + 1 = PutLen THEN "queued" ELSE @]
      BY <2>1 DEF BrowserSends
    <3> QED BY <3>1 DEF BrowserSends, butInter, answers, PutTypes
  <2>2. CASE ~Alive(put[u].gen) BY <2>2 DEF BrowserSends, butInter, answers, PutTypes
  <2> QED BY <2>1, <2>2
<1>2. \A w \in Puts : w \in Uploads /\ w # u /\ put'[w] = put[w]
  BY <1>1, IdentifiersAssumption DEF Uploads
<1>3. \A w \in Puts : (Done(w)' <=> Done(w)) /\ (Begun(w)' <=> Begun(w)) /\ (Unsent(w)' <=> Unsent(w))
  BY <1>1, <1>2 DEF Done, Begun, Unsent
<1>4. \A w \in Puts : PutInv(w)' /\ ChunksInv(w)'
  BY <1>1, <1>2, <1>3 DEF UploadInv, PutInv, ChunksInv, IsChunk
<1>5. BrowserChunks'
  <2>1. CASE inter' = inter BY <2>1, BrowserChunksKept DEF UploadInv, BrowserChunks
  <2>2. CASE inter' = Append(inter, [kind |-> "chunk", id |-> u, index |-> put[u].idx])
    <3>1. /\ DOMAIN inter' = 1 .. Len(inter) + 1 /\ inter'[Len(inter) + 1].id = u
          /\ \A i \in 1 .. Len(inter) : inter'[i] = inter[i]
          /\ DOMAIN inter = 1 .. Len(inter) /\ Len(inter) \in Nat
      <4> DEFINE m == [kind |-> "chunk", id |-> u, index |-> put[u].idx]
      <4>1. m.id = u OBVIOUS
      <4>2. inter' = Append(inter, m) BY <2>2
      <4> HIDE DEF m
      <4> QED BY <4>1, <4>2 DEF LinkTypes
    <3> QED BY <1>1, <3>1 DEF UploadInv, BrowserChunks
  <2> QED BY <2>1, <2>2 DEF BrowserSends
<1> QED BY <1>1, <1>3, <1>4, <1>5, RelaySide

LEMMA NotAlone ==
    ASSUME NEW u \in Puts, FileInv(u), reasm'[u] = reasm[u], Done(u)' => Done(u), met'[u] # {}
    PROVE  FileInv(u)'
BY DEF FileInv, Alone

(* remove_file by another upload.                                              *)
LEMMA RemovesTyped ==
    ASSUME NEW w \in Uploads, Removes(w), StoreTypes
    PROVE  /\ path' \in Uploads \union {None}
           /\ met' \in [Uploads -> SUBSET Uploads]
           /\ met'[w] = met[w] /\ \A u \in Uploads \ {w} : met'[u] # {}
BY DEF Removes, StoreTypes

LEMMA TakesShift ==
    ASSUME LinkTypes, bulk' = bulk \/ (bulk # <<>> /\ bulk' = Tail(bulk))
    PROVE  Shift(bulk, bulk', StoreKinds)
<1>1. Flows(bulk, bulk', {}, {}) BY DEF Flows
<1>2. {} \cap StoreKinds = {} OBVIOUS
<1> QED BY <1>1, <1>2, FlowShift DEF LinkTypes

(* An upload is given up: by its abort or by the clean-up.                     *)
LEMMA GivenUpStep ==
    ASSUME UploadInv, PutTypes, LinkTypes, LinkTypes', NEW w \in Uploads,
           AgentTakesAbort(w) \/ CleanupTick(w)
    PROVE  UploadInv'
<1>1. /\ reasm' = [reasm EXCEPT ![w] = None] /\ Removes(w) /\ UNCHANGED <<put, disk, inter, answers>>
      /\ bulk' = bulk \/ (bulk # <<>> /\ bulk' = Tail(bulk))
  BY DEF AgentTakesAbort, CleanupTick, Takes, IsNext, butBulk, link
<1>2. StoreTypes /\ StoreTypes' BY <1>1, RemovesTyped DEF UploadInv, StoreTypes
<1>3. BrowserChunks' BY <1>1, BrowserChunksKept DEF UploadInv, BrowserChunks
<1>4. Shift(bulk, bulk', StoreKinds) BY <1>1, TakesShift
<1>5. w \in Puts => ~Done(w)
  <2>1. CASE AgentTakesAbort(w) /\ w \in Puts
    <3>1. bulk # <<>> /\ Head(bulk).kind = "abort" /\ Head(bulk).id = w
      BY <2>1 DEF AgentTakesAbort, Takes, IsNext
    <3>2. 1 \in DOMAIN bulk /\ bulk[1] = Head(bulk) BY <3>1 DEF LinkTypes
    <3>3. put[w].at = "aborted" BY <2>1, <3>1, <3>2 DEF UploadInv, ChunksInv
    <3> QED BY <2>1, <3>3 DEF UploadInv, PutInv, Unsent
  <2>2. CASE CleanupTick(w) /\ w \in Puts
    <3>1. reasm[w] # None BY <2>2 DEF CleanupTick
    <3> QED BY <2>2, <3>1 DEF UploadInv, FileInv
  <2> QED BY <2>1, <2>2
<1>6. ASSUME NEW u \in Puts PROVE PutInv(u)' /\ ChunksInv(u)' /\ FileInv(u)'
  <2>1. PutInv(u) /\ ChunksInv(u) /\ FileInv(u) /\ u \in Uploads BY <1>6 DEF UploadInv, Uploads
  <2>2. (Done(u)' <=> Done(u)) /\ (Unsent(u)' <=> Unsent(u)) BY <1>1 DEF Done, Unsent, answers
  <2>3. reasm'[u] = reasm[u] \/ (u = w /\ reasm'[u] = None)
    BY <1>1, <1>2, <2>1 DEF StoreTypes
  <2>4. Begun(u)' => Begun(u) BY <2>2, <2>3 DEF Begun
  <2>5. PutInv(u)' BY <1>1, <2>1, <2>2, <2>4 DEF PutInv, answers
  <2>6. ChunksInv(u)' BY <1>1, <1>4, <2>1, <2>2, <2>4, ChunksShift
  <2>7. FileInv(u)'
    <3>1. CASE u = w
      <4>1. reasm'[u] = None BY <1>1, <1>2, <2>1, <3>1 DEF StoreTypes
      <4> QED BY <1>5, <2>2, <3>1, <4>1 DEF FileInv
    <3>2. CASE u # w
      <4>1. met'[u] # {} /\ reasm'[u] = reasm[u] BY <1>1, <1>2, <2>1, <2>3, <3>2, RemovesTyped
      <4> QED BY <2>1, <2>2, <4>1, NotAlone
    <3> QED BY <3>1, <3>2
  <2> QED BY <2>5, <2>6, <2>7
<1> QED BY <1>2, <1>3, <1>6 DEF UploadInv, BrowserChunks

(* What a chunk does to the others' uploads, and what it is for its own.       *)
LEMMA ChunkTaken ==
    ASSUME NEW w \in Uploads, AgentTakesChunk(w), UploadInv, LinkTypes
    PROVE  \E k \in Nat :
              /\ Assembles(w, k)
              /\ bulk' = bulk \/ (bulk # <<>> /\ bulk' = Tail(bulk))
              /\ inter' = inter \/ (inter # <<>> /\ inter' = Tail(inter))
              /\ w \in Puts => bulk # <<>> /\ bulk' = Tail(bulk) /\ IsChunk(bulk[1], w)
                               /\ bulk[1].index = k
<1>1. CASE Takes("chunk", w) /\ Assembles(w, Head(bulk).index) /\ UNCHANGED inter
  <2>1. bulk # <<>> /\ bulk' = Tail(bulk) /\ Head(bulk).kind = "chunk" /\ Head(bulk).id = w
    BY <1>1 DEF Takes, IsNext
  <2>2. 1 \in DOMAIN bulk /\ bulk[1] = Head(bulk) BY <2>1 DEF LinkTypes
  <2>3. Head(bulk).index \in Nat BY <2>2, BulkMessages
  <2> QED BY <1>1, <2>1, <2>2, <2>3 DEF IsChunk
<1>2. CASE TakesInter("chunk", w) /\ Assembles(w, Head(inter).index) /\ UNCHANGED bulk
  <2>1. inter # <<>> /\ inter' = Tail(inter) /\ Head(inter).kind = "chunk" /\ Head(inter).id = w
    BY <1>2 DEF TakesInter, IsNext
  <2>2. 1 \in DOMAIN inter /\ inter[1] = Head(inter) /\ inter[1] \in Messages(InterKinds)
    BY <2>1 DEF LinkTypes
  <2>3. Head(inter).index \in Nat BY <2>2 DEF Messages
  <2>4. w \in Browsers BY <2>1, <2>2 DEF UploadInv
  <2> QED BY <1>2, <2>1, <2>3, <2>4, IdentifiersAssumption
<1> QED BY <1>1, <1>2 DEF AgentTakesChunk

LEMMA NextIndex ==
    ASSUME NEW w \in Uploads, NEW k \in Nat, StoreTypes, reasm[w] # None, Appends(w, k),
           ~(k + 1 >= PutLen)
    PROVE  reasm' = [reasm EXCEPT ![w] = [reasm[w] EXCEPT !.next = IF k = reasm[w].next THEN k + 1
                                                                   ELSE reasm[w].next]]
BY DEF Appends

LEMMA AssembledTyped ==
    ASSUME NEW w \in Uploads, NEW k \in Nat, Assembles(w, k), StoreTypes
    PROVE  StoreTypes'
<1> USE UploadAssumption
<1>1. ASSUME k = 0, FirstChunk(w) PROVE StoreTypes'
  <2> DEFINE f == IF path = None THEN w ELSE path
  <2>1. f \in Uploads BY DEF StoreTypes
  <2> HIDE DEF f
  <2>2. Empty \in [0 .. PutLen - 1 -> Uploads \union {None}] BY DEF Empty
  <2>3. 0 \in 0 .. PutLen - 1 OBVIOUS
  <2>4. [Empty EXCEPT ![0] = w] \in [0 .. PutLen - 1 -> Uploads \union {None}] BY <2>2, <2>3
  <2>5. CASE /\ path' = f
             /\ disk' = [disk EXCEPT ![f] = [Empty EXCEPT ![0] = w]]
             /\ reasm' = [reasm EXCEPT ![w] = IF PutLen = 1 THEN None ELSE [file |-> f, next |-> 1]]
             /\ met' = [v \in Uploads |-> IF v = w THEN {x \in Uploads \ {w} : reasm[x] # None}
                                          ELSE met[v] \union {w}]
    <3>1. disk' \in [Uploads -> [0 .. PutLen - 1 -> Uploads \union {None}]]
      BY <2>1, <2>4, <2>5 DEF StoreTypes
    <3>2. met' \in [Uploads -> SUBSET Uploads] BY <2>5 DEF StoreTypes
    <3>3. reasm' \in [Uploads -> {None} \union [file : Uploads, next : 1 .. PutLen - 1]]
      <4>1. CASE PutLen = 1
        <5>1. reasm' = [reasm EXCEPT ![w] = None] BY <2>5, <4>1
        <5> QED BY <5>1 DEF StoreTypes
      <4>2. CASE PutLen # 1
        <5>1. reasm' = [reasm EXCEPT ![w] = [file |-> f, next |-> 1]] BY <2>5, <4>2
        <5>2. [file |-> f, next |-> 1] \in [file : Uploads, next : 1 .. PutLen - 1] BY <2>1, <4>2
        <5> QED BY <5>1, <5>2 DEF StoreTypes
      <4> QED BY <4>1, <4>2
    <3> QED BY <2>1, <2>5, <3>1, <3>2, <3>3 DEF StoreTypes
  <2>6. CASE disk' = [disk EXCEPT ![f] = Empty] /\ UNCHANGED reasm /\ Removes(w)
    <3>1. disk' \in [Uploads -> [0 .. PutLen - 1 -> Uploads \union {None}]]
      BY <2>1, <2>2, <2>6 DEF StoreTypes
    <3> QED BY <2>6, <3>1, RemovesTyped DEF StoreTypes
  <2> QED BY <1>1, <2>5, <2>6 DEF FirstChunk, f
<1>2. ASSUME reasm[w] # None, Appends(w, k) PROVE StoreTypes'
  <2>1. reasm[w].file \in Uploads /\ reasm[w].next \in 1 .. PutLen - 1 BY <1>2 DEF StoreTypes
  <2>2. disk' \in [Uploads -> [0 .. PutLen - 1 -> Uploads \union {None}]]
    <3>1. CASE k = reasm[w].next
      <4>1. disk' = [disk EXCEPT ![reasm[w].file][k] = w] BY <1>2, <3>1 DEF Appends
      <4> QED BY <2>1, <3>1, <4>1 DEF StoreTypes
    <3>2. CASE k # reasm[w].next
      <4>1. disk' = disk BY <1>2, <3>2 DEF Appends
      <4> QED BY <4>1 DEF StoreTypes
    <3> QED BY <3>1, <3>2
  <2>3. reasm' \in [Uploads -> {None} \union [file : Uploads, next : 1 .. PutLen - 1]]
    <3>1. CASE k + 1 >= PutLen
      <4>1. reasm' = [reasm EXCEPT ![w] = None] BY <1>2, <3>1 DEF Appends
      <4> QED BY <4>1 DEF StoreTypes
    <3>2. CASE ~(k + 1 >= PutLen)
      <4> DEFINE n == IF k = reasm[w].next THEN k + 1 ELSE reasm[w].next
      <4>1. n \in 1 .. PutLen - 1 BY <2>1, <3>2
      <4>2. reasm[w] \in [file : Uploads, next : 1 .. PutLen - 1] BY <1>2 DEF StoreTypes
      <4>3. [reasm[w] EXCEPT !.next = n] \in [file : Uploads, next : 1 .. PutLen - 1]
        <5> HIDE DEF n
        <5> QED BY <4>1, <4>2
      <4>4. reasm' = [reasm EXCEPT ![w] = [reasm[w] EXCEPT !.next = n]]
        BY <1>2, <3>2, NextIndex
      <4> HIDE DEF n
      <4> QED BY <4>3, <4>4 DEF StoreTypes
    <3> QED BY <3>1, <3>2
  <2> QED BY <1>2, <2>2, <2>3 DEF Appends, StoreTypes
<1>3. ASSUME DropsUpload(w, k) PROVE StoreTypes'
  <2>1. reasm' = [reasm EXCEPT ![w] = None] /\ Removes(w) /\ disk' = disk BY <1>3 DEF DropsUpload
  <2>2. reasm' \in [Uploads -> {None} \union [file : Uploads, next : 1 .. PutLen - 1]]
    BY <2>1 DEF StoreTypes
  <2> QED BY <2>1, <2>2, RemovesTyped DEF StoreTypes
<1>4. ASSUME UNCHANGED <<reasm, path, disk, met>> PROVE StoreTypes'
  BY <1>4 DEF StoreTypes
<1> QED BY <1>1, <1>2, <1>3, <1>4 DEF Assembles, LaterChunk

(* Another upload's chunk.                                                     *)
LEMMA OthersAssembled ==
    ASSUME NEW w \in Uploads, NEW k \in Nat, Assembles(w, k), StoreTypes, NEW u \in Puts, u # w
    PROVE  /\ reasm'[u] = reasm[u] /\ (<<u, TRUE>> \in results' => <<u, TRUE>> \in results)
           /\ \/ met'[u] # {}
              \/ UNCHANGED <<reasm, path, disk, met>>
              \/ reasm[w] # None /\ met' = met
<1>1. u \in Uploads BY DEF Uploads
<1>2. reasm'[u] = reasm[u]
  BY <1>1 DEF Assembles, LaterChunk, FirstChunk, Appends, DropsUpload, StoreTypes
<1>3. <<u, TRUE>> \in results' => <<u, TRUE>> \in results
  <2>1. ASSUME Answers(w, k, TRUE) PROVE <<u, TRUE>> \in results' => <<u, TRUE>> \in results
    BY <2>1 DEF Answers
  <2>2. ASSUME Answers(w, k, FALSE) PROVE <<u, TRUE>> \in results' => <<u, TRUE>> \in results
    BY <2>2 DEF Answers
  <2> QED BY <2>1, <2>2 DEF Assembles, LaterChunk, FirstChunk, Appends, DropsUpload
<1> DEFINE Apart == \/ met'[u] # {}
                    \/ UNCHANGED <<reasm, path, disk, met>>
                    \/ reasm[w] # None /\ met' = met
<1>4. ASSUME FirstChunk(w) PROVE Apart
  <2>1. CASE met' = [v \in Uploads |-> IF v = w THEN {x \in Uploads \ {w} : reasm[x] # None}
                                       ELSE met[v] \union {w}]
    <3>1. met'[u] = met[u] \union {w} BY <1>1, <2>1
    <3> QED BY <3>1
  <2>2. CASE Removes(w) BY <1>1, <2>2, RemovesTyped
  <2> QED BY <1>4, <2>1, <2>2 DEF FirstChunk
<1>5. ASSUME reasm[w] # None, Appends(w, k) PROVE Apart BY <1>5 DEF Appends
<1>6. ASSUME DropsUpload(w, k) PROVE Apart BY <1>1, <1>6, RemovesTyped DEF DropsUpload
<1>7. ASSUME UNCHANGED <<reasm, path, disk, met>> PROVE Apart BY <1>7
<1>8. Apart
  <2> HIDE DEF Apart
  <2> QED BY <1>4, <1>5, <1>6, <1>7 DEF Assembles, LaterChunk
<1> QED BY <1>2, <1>3, <1>8

(* The upload's own chunk.                                                     *)
LEMMA OwnAssembled ==
    ASSUME NEW w \in Puts, NEW k \in Nat, Assembles(w, k), StoreTypes, UNCHANGED put,
           FileInv(w), Unsent(w) => ~Done(w), k <= PutLen - 1, Begun(w) => k > 0
    PROVE  /\ FileInv(w)'
           /\ Done(w)' => Done(w) \/ k = PutLen - 1
<1> USE UploadAssumption
<1>w. w \in Uploads BY DEF Uploads
<1>1. CASE k = 0 /\ FirstChunk(w)
  <2> DEFINE f == IF path = None THEN w ELSE path
  <2>1. f \in Uploads BY <1>w DEF StoreTypes
  <2> HIDE DEF f
  <2>2. reasm[w] = None /\ ~Done(w) BY <1>1 DEF Begun
  <2>3. CASE /\ path' = f
             /\ disk' = [disk EXCEPT ![f] = [Empty EXCEPT ![0] = w]]
             /\ reasm' = [reasm EXCEPT ![w] = IF PutLen = 1 THEN None ELSE [file |-> f, next |-> 1]]
             /\ met' = [v \in Uploads |-> IF v = w THEN {x \in Uploads \ {w} : reasm[x] # None}
                                          ELSE met[v] \union {w}]
             /\ Answers(w, 0, TRUE)
    <3>1. Alone(w)' => OthersClosed(w)'
      <4>1. met'[w] = {x \in Uploads \ {w} : reasm[x] # None} BY <1>w, <2>3
      <4>2. \A x \in Uploads \ {w} : reasm'[x] = reasm[x] BY <1>w, <2>3 DEF StoreTypes
      <4> QED BY <4>1, <4>2 DEF Alone, OthersClosed
    <3>2. disk'[f][0] = w /\ f # None
      <4>1. disk'[f] = [Empty EXCEPT ![0] = w] BY <2>1, <2>3 DEF StoreTypes
      <4>2. 0 \in DOMAIN Empty BY DEF Empty
      <4>3. f # None BY <2>1
      <4> QED BY <4>1, <4>2, <4>3
    <3>3. CASE PutLen = 1
      <4>1. reasm'[w] = None BY <1>w, <2>3, <3>3 DEF StoreTypes
      <4>2. Holds(path, w)' BY <2>3, <3>2, <3>3 DEF Holds
      <4> QED BY <1>1, <3>1, <3>3, <4>1, <4>2 DEF FileInv
    <3>4. CASE PutLen # 1
      <4>1. reasm' = [reasm EXCEPT ![w] = [file |-> f, next |-> 1]] BY <2>3, <3>4
      <4>2. reasm'[w] = [file |-> f, next |-> 1] BY <1>w, <4>1 DEF StoreTypes
      <4>3. results' = results
        <5>1. ~(0 + 1 >= PutLen) BY <3>4
        <5> QED BY <2>3, <5>1 DEF Answers
      <4>4. ~Done(w)' BY <2>2, <4>3 DEF Done
      <4>5. \A i \in 0 .. PutLen - 1 : i < 1 => disk'[f][i] = w
        <5>1. \A i \in 0 .. PutLen - 1 : i < 1 => i = 0 OBVIOUS
        <5> QED BY <3>2, <5>1
      <4>6. path' = f BY <2>3
      <4> QED BY <3>1, <3>2, <4>2, <4>4, <4>5, <4>6 DEF FileInv
    <3> QED BY <3>3, <3>4
  <2>4. CASE UNCHANGED reasm /\ Answers(w, 0, FALSE)
    <3>1. ~Done(w)' BY <2>2, <2>4 DEF Done, Answers
    <3> QED BY <2>2, <2>4, <3>1 DEF FileInv
  <2> QED BY <1>1, <2>3, <2>4 DEF FirstChunk, f
<1>2. CASE k # 0 /\ reasm[w] # None /\ Appends(w, k)
  <2>1. reasm[w].file \in Uploads /\ reasm[w].next \in 1 .. PutLen - 1 /\ k <= reasm[w].next
    BY <1>w, <1>2 DEF StoreTypes, Appends
  <2>2. ~Done(w) BY <1>2 DEF FileInv
  <2>3. UNCHANGED <<path, met>> /\ Answers(w, k, TRUE) BY <1>2 DEF Appends
  <2>4. \A x \in Uploads \ {w} : reasm'[x] = reasm[x] BY <1>2 DEF Appends, StoreTypes
  <2>5. Alone(w)' => Alone(w) /\ OthersClosed(w)' /\ path # None /\ path = reasm[w].file
    BY <1>2, <2>3, <2>4 DEF FileInv, Alone, OthersClosed
  <2>6. Alone(w) => \A i \in 0 .. PutLen - 1 : i < reasm[w].next \/ i = k => disk'[path][i] = w
                                            \/ (i = k /\ k # reasm[w].next)
    <3>1. SUFFICES ASSUME Alone(w), NEW i \in 0 .. PutLen - 1, i < reasm[w].next \/ i = k,
                          ~(i = k /\ k # reasm[w].next)
                   PROVE  disk'[path][i] = w
      OBVIOUS
    <3>2. path = reasm[w].file /\ (i < reasm[w].next => disk[path][i] = w)
      BY <1>2, <3>1 DEF FileInv
    <3>3. CASE k = reasm[w].next
      <4>1. disk' = [disk EXCEPT ![path][k] = w] BY <1>2, <3>2, <3>3 DEF Appends
      <4>2. path \in Uploads /\ DOMAIN disk = Uploads /\ DOMAIN disk[path] = 0 .. PutLen - 1
        BY <2>1, <3>2 DEF StoreTypes
      <4>3. disk'[path] = [disk[path] EXCEPT ![k] = w] BY <4>1, <4>2
      <4> QED BY <2>1, <3>1, <3>2, <3>3, <4>2, <4>3
    <3>4. CASE k # reasm[w].next
      <4>1. disk' = disk BY <1>2, <3>4 DEF Appends
      <4> QED BY <2>1, <3>1, <3>2, <3>4, <4>1
    <3> QED BY <3>3, <3>4
  <2>7. CASE k + 1 >= PutLen
    <3>1. k = PutLen - 1 /\ reasm[w].next = k BY <2>1, <2>7
    <3>2. reasm'[w] = None BY <1>w, <1>2, <2>7 DEF Appends, StoreTypes
    <3>3. Alone(w)' => Holds(path, w)'
      <4>1. SUFFICES ASSUME Alone(w)' PROVE path # None /\ \A i \in 0 .. PutLen - 1 : disk'[path][i] = w
        BY <2>3 DEF Holds
      <4>2. \A i \in 0 .. PutLen - 1 : i < reasm[w].next \/ i = k BY <3>1
      <4> QED BY <2>5, <2>6, <3>1, <4>1, <4>2
    <3> QED BY <2>5, <3>1, <3>2, <3>3 DEF FileInv
  <2>8. CASE ~(k + 1 >= PutLen)
    <3>1. results' = results BY <2>3, <2>8 DEF Answers
    <3>2. ~Done(w)' BY <2>2, <3>1 DEF Done
    <3> DEFINE n == IF k = reasm[w].next THEN k + 1 ELSE reasm[w].next
    <3>3. reasm[w] \in [file : Uploads, next : 1 .. PutLen - 1] BY <1>w, <1>2 DEF StoreTypes
    <3>4. reasm' = [reasm EXCEPT ![w] = [reasm[w] EXCEPT !.next = n]]
      BY <1>w, <1>2, <2>8, NextIndex
    <3>5. reasm'[w].next = n /\ reasm'[w].file = reasm[w].file
      <4>1. reasm'[w] = [reasm[w] EXCEPT !.next = n] BY <1>w, <3>4 DEF StoreTypes
      <4> HIDE DEF n
      <4> QED BY <3>3, <4>1
    <3>6. Alone(w) => \A i \in 0 .. PutLen - 1 : i < n => disk'[path][i] = w
      <4>1. CASE k = reasm[w].next
        <5>1. \A i \in 0 .. PutLen - 1 : i < n => i < reasm[w].next \/ i = k BY <2>1, <4>1
        <5> QED BY <2>6, <4>1, <5>1
      <4>2. CASE k # reasm[w].next
        <5>1. disk' = disk /\ n = reasm[w].next BY <1>2, <4>2 DEF Appends
        <5> QED BY <1>2, <5>1 DEF FileInv
      <4> QED BY <4>1, <4>2
    <3> HIDE DEF n
    <3>7. path' = path BY <2>3
    <3> QED BY <2>5, <3>2, <3>5, <3>6, <3>7 DEF FileInv
  <2> QED BY <2>7, <2>8
<1>3. CASE reasm[w] # None /\ DropsUpload(w, k)
  <2>1. reasm'[w] = None BY <1>w, <1>3 DEF DropsUpload, StoreTypes
  <2>2. ~Done(w)' BY <1>3 DEF DropsUpload, Answers, FileInv, Done
  <2> QED BY <2>1, <2>2 DEF FileInv
<1>4. CASE Answers(w, k, FALSE) /\ UNCHANGED <<reasm, path, disk, met, faults>>
  <2>1. Done(w)' <=> Done(w) BY <1>4 DEF Done, Answers
  <2>2. (Alone(w)' <=> Alone(w)) /\ (OthersClosed(w)' <=> OthersClosed(w)) /\ (Holds(path, w)' <=> Holds(path, w))
    BY <1>4 DEF Alone, OthersClosed, Holds
  <2> QED BY <1>4, <2>1, <2>2 DEF FileInv
<1> QED BY <1>1, <1>2, <1>3, <1>4 DEF Assembles, LaterChunk

(* After the next chunk has been taken.                                        *)
LEMMA RestOfChunks ==
    ASSUME NEW w \in Puts, ChunksInv(w), LinkTypes, LinkTypes', bulk # <<>>, bulk' = Tail(bulk),
           IsChunk(bulk[1], w), UNCHANGED put
    PROVE  ChunksInv(w)'
<1>1. /\ DOMAIN bulk = 1 .. Len(bulk) /\ Len(bulk) \in Nat /\ \A i \in DOMAIN bulk : bulk[i].index \in Nat
  BY BulkMessages
<1>2. \A i \in DOMAIN bulk' : i \in Nat \ {0} /\ i + 1 \in DOMAIN bulk /\ bulk'[i] = bulk[i + 1]
  BY <1>1 DEF LinkTypes
<1>3. 1 \in DOMAIN bulk BY <1>1
<1>4. Unsent(w)' <=> Unsent(w) BY DEF Unsent
<1>5. ASSUME NEW i \in DOMAIN bulk', IsChunk(bulk'[i], w)
      PROVE  /\ bulk'[i].index <= PutLen - 1
             /\ bulk'[i].index <= put'[w].idx /\ (Unsent(w)' => bulk'[i].index < put'[w].idx)
             /\ bulk'[i].index > 0
  <2>1. i \in Nat \ {0} /\ i + 1 \in DOMAIN bulk /\ bulk'[i] = bulk[i + 1] BY <1>2
  <2>2. 1 < i + 1 BY <2>1
  <2>3. bulk[1].index < bulk[i + 1].index BY <1>3, <1>5, <2>1, <2>2 DEF ChunksInv
  <2>4. bulk[1].index \in Nat /\ bulk[i + 1].index \in Nat BY <1>1, <1>3, <2>1
  <2>5. bulk'[i].index > 0 BY <2>1, <2>3, <2>4
  <2> QED BY <1>4, <1>5, <2>1, <2>5 DEF ChunksInv
<1>6. ASSUME NEW i \in DOMAIN bulk', bulk'[i].kind = "abort", bulk'[i].id = w
      PROVE  put'[w].at = "aborted"
  BY <1>2, <1>6 DEF ChunksInv
<1>7. ASSUME NEW i \in DOMAIN bulk', NEW j \in DOMAIN bulk', i < j,
             IsChunk(bulk'[i], w), IsChunk(bulk'[j], w)
      PROVE  bulk'[i].index < bulk'[j].index
  <2>1. i + 1 < j + 1 BY <1>2, <1>7
  <2> QED BY <1>2, <1>7, <2>1 DEF ChunksInv
<1> QED BY <1>5, <1>6, <1>7 DEF ChunksInv

LEMMA TakesChunkStep ==
    ASSUME UploadInv, PutTypes, LinkTypes, LinkTypes', NEW w \in Uploads, AgentTakesChunk(w)
    PROVE  UploadInv'
<1> USE UploadAssumption
<1>1. PICK k \in Nat :
         /\ Assembles(w, k)
         /\ bulk' = bulk \/ (bulk # <<>> /\ bulk' = Tail(bulk))
         /\ inter' = inter \/ (inter # <<>> /\ inter' = Tail(inter))
         /\ w \in Puts => bulk # <<>> /\ bulk' = Tail(bulk) /\ IsChunk(bulk[1], w)
                          /\ bulk[1].index = k
  BY ChunkTaken
<1>2. put' = put /\ pending' = pending BY DEF AgentTakesChunk
<1>3. StoreTypes /\ StoreTypes' BY <1>1, AssembledTyped DEF UploadInv
<1>4. BrowserChunks' BY <1>1, BrowserChunksKept DEF UploadInv, BrowserChunks
<1>5. ASSUME NEW u \in Puts, u # w PROVE PutInv(u)' /\ ChunksInv(u)' /\ FileInv(u)'
  <2>1. PutInv(u) /\ ChunksInv(u) /\ FileInv(u) /\ u \in Uploads BY <1>5 DEF UploadInv, Uploads
  <2>2. /\ reasm'[u] = reasm[u] /\ (<<u, TRUE>> \in results' => <<u, TRUE>> \in results)
        /\ \/ met'[u] # {}
           \/ UNCHANGED <<reasm, path, disk, met>>
           \/ reasm[w] # None /\ met' = met
    BY <1>1, <1>3, <1>5, OthersAssembled
  <2>3. (Done(u)' => Done(u)) /\ (Begun(u)' => Begun(u)) /\ (Unsent(u)' <=> Unsent(u))
    BY <1>2, <2>2 DEF Done, Begun, Unsent
  <2>4. PutInv(u)' BY <1>2, <2>1, <2>3 DEF PutInv
  <2>5. ChunksInv(u)'
    <3>1. Shift(bulk, bulk', StoreKinds) BY <1>1, TakesShift
    <3> QED BY <1>2, <2>1, <2>3, <3>1, ChunksShift
  <2>6. FileInv(u)'
    <3>1. CASE met'[u] # {} BY <2>1, <2>2, <2>3, <3>1, NotAlone
    <3>2. CASE UNCHANGED <<reasm, path, disk, met>>
      <4>1. (Alone(u)' <=> Alone(u)) /\ (OthersClosed(u)' <=> OthersClosed(u)) /\ (Holds(path, u)' <=> Holds(path, u))
        BY <3>2 DEF Alone, OthersClosed, Holds
      <4> QED BY <2>1, <2>3, <3>2, <4>1 DEF FileInv
    <3>3. CASE reasm[w] # None /\ met' = met
      <4>1. ~OthersClosed(u) BY <1>5, <3>3 DEF OthersClosed
      <4>2. (Alone(u)' <=> Alone(u)) BY <3>3 DEF Alone
      <4> QED BY <2>1, <2>2, <2>3, <4>1, <4>2 DEF FileInv
    <3> QED BY <2>2, <3>1, <3>2, <3>3
  <2> QED BY <2>4, <2>5, <2>6
<1>6. ASSUME w \in Puts PROVE PutInv(w)' /\ ChunksInv(w)' /\ FileInv(w)'
  <2>1. PutInv(w) /\ ChunksInv(w) /\ FileInv(w) BY <1>6 DEF UploadInv
  <2>2. 1 \in DOMAIN bulk BY <1>1, <1>6, BulkMessages DEF LinkTypes
  <2>3. /\ k <= PutLen - 1 /\ k <= put[w].idx /\ (Unsent(w) => k < put[w].idx)
        /\ Begun(w) => k > 0
    BY <1>1, <1>6, <2>1, <2>2 DEF ChunksInv
  <2>4. /\ FileInv(w)'
        /\ Done(w)' => Done(w) \/ k = PutLen - 1
    <3>1. Unsent(w) => ~Done(w) BY <2>1 DEF PutInv
    <3> QED BY <1>1, <1>2, <1>3, <1>6, <2>1, <2>3, <3>1, OwnAssembled
  <2>5. ChunksInv(w)' BY <1>1, <1>2, <1>6, <2>1, RestOfChunks
  <2>6. PutInv(w)'
    <3>1. put[w].idx \in Nat BY DEF PutTypes
    <3>2. Unsent(w)' <=> Unsent(w) BY <1>2 DEF Unsent
    <3>3. Unsent(w) => ~Done(w)'
      <4>1. Unsent(w) => put[w].idx <= PutLen - 1 /\ ~Done(w) BY <2>1 DEF PutInv
      <4> QED BY <2>3, <2>4, <3>1, <4>1
    <3>4. put[w].at # "none" /\ ~(put[w].at = "sending" /\ put[w].idx = 0)
      BY <2>1, <2>3, <3>1 DEF PutInv, Unsent
    <3> QED BY <1>2, <2>1, <3>2, <3>3, <3>4 DEF PutInv
  <2> QED BY <2>4, <2>5, <2>6
<1> QED BY <1>3, <1>4, <1>5, <1>6 DEF UploadInv, BrowserChunks

LEMMA UploadStep == ASSUME [Next]_vars, PutTypes, LinkTypes, LinkTypes', UploadInv PROVE UploadInv'
<1>1. CASE /\ UNCHANGED up /\ Shift(bulk, bulk', StoreKinds)
           /\ inter' = inter \/ inter' = <<>> \/ \E some, ids : "chunk" \notin some /\ Flows(inter, inter', some, ids)
           /\ \A u \in Puts : /\ <<u, TRUE>> \in results' => <<u, TRUE>> \in results
                              /\ u \in pending' => u \in pending
  BY <1>1, UploadQuiet
<1>2. CASE /\ UNCHANGED <<put, path, disk, met, answers>> /\ HandlesDropped
           /\ bulk' = <<>> /\ inter' = <<>>
  BY <1>2, UploadDrop
<1>3. ASSUME NEW u \in Uploads,
             \/ PutStarts(u) \/ PutClientLeaves(u) \/ ResultArrives(u) \/ ResultLost(u) \/ PutTimesOut(u)
      PROVE  UploadInv'
  BY <1>3, SmallMovesStep
<1>4. ASSUME NEW u \in Uploads, PutSends(u) PROVE UploadInv' BY <1>4, PutSendsStep
<1>5. ASSUME NEW u \in Uploads, PutClientCloses(u) PROVE UploadInv' BY <1>5, PutClosesStep
<1>6. ASSUME NEW u \in Uploads, BrowserSends(u) PROVE UploadInv' BY <1>6, BrowserSendsStep
<1>7. ASSUME NEW u \in Uploads, AgentTakesAbort(u) \/ CleanupTick(u) PROVE UploadInv'
  BY <1>7, GivenUpStep
<1>8. ASSUME NEW u \in Uploads, AgentTakesChunk(u) PROVE UploadInv' BY <1>8, TakesChunkStep
<1> QED BY <1>1, <1>2, <1>3, <1>4, <1>5, <1>6, <1>7, <1>8, UploadSteps

LEMMA UploadInits == ASSUME Init PROVE UploadInv
<1> USE UploadAssumption
<1>1. bulk = <<>> /\ inter = <<>> /\ results = {} /\ pending = {} /\ UploadInit BY DEF Init, LinkInit
<1>2. StoreTypes
  <2>1. Empty \in [0 .. PutLen - 1 -> Uploads \union {None}] BY DEF Empty
  <2> QED BY <1>1, <2>1 DEF UploadInit, StoreTypes
<1>3. ASSUME NEW u \in Puts PROVE PutInv(u) /\ ChunksInv(u) /\ FileInv(u)
  <2>1. u \in Uploads BY DEF Uploads
  <2>2. put[u].at = "none" /\ put[u].idx = 0 /\ reasm[u] = None BY <1>1, <2>1 DEF UploadInit
  <2>3. ~Done(u) /\ ~Begun(u) BY <1>1, <2>2 DEF Done, Begun
  <2>4. PutInv(u) BY <1>1, <2>2, <2>3 DEF PutInv
  <2>5. ChunksInv(u) BY <1>1 DEF ChunksInv
  <2>6. FileInv(u) BY <2>2, <2>3 DEF FileInv
  <2> QED BY <2>4, <2>5, <2>6
<1>4. \A i \in DOMAIN inter : FALSE BY <1>1
<1> QED BY <1>2, <1>3, <1>4 DEF UploadInv

(* An upload that was answered with success and met no other on its path is in *)
(* the file, whole.                                                            *)
THEOREM UploadsAreWritten == Spec => []AnsweredIsWritten
<1>1. UploadInv /\ LinkTypes /\ PutTypes /\ LinkTypes' /\ [Next]_vars => UploadInv' BY UploadStep
<1>2. UploadInv => AnsweredIsWritten
  BY DEF UploadInv, FileInv, Done, Alone, AnsweredIsWritten
<1> QED BY <1>1, <1>2, UploadInits, Channels, PTL DEF Spec

----------------------------------------------------------------------------
(* Maps.  The invariant is one of visits, pools and connections, whichever     *)
(* step of an action they stand for.                                           *)

VisitStates == Over \union {"found", "queued", "taking", "opening", "sending", "sent", "body",
                            "upgraded", "kept"}
Chunks == [visit : Visits, chunk : Nat]
VisitRecords == [at : VisitStates, runtime : Visits \union {"none"}, conn : Visits \union {"none"},
                 reused : BOOLEAN, tries : 0 .. 1, hits : Nat, body : Seq(Chunks)]
PipeRecords == [at : {"none", "open", "cut", "closed"}, due : Seq(Chunks), old : BOOLEAN]

(* How often the target has had the request.                                   *)
NotSent == {"none", "found", "queued", "taking", "opening", "sending"}
Sendings(v, x) ==
    /\ x.tries = 1 => VisitKind[v] = "plain"
    /\ x.at \in NotSent => x.hits <= x.tries
    /\ x.hits <= 1 + x.tries

(* What a visit holds in each of its states, and when its own connection is    *)
(* still to be opened.                                                         *)
Holding == {"sending", "sent", "body", "upgraded", "kept"}
Unopened == {"none", "found", "queued", "taking", "opening"}
Held(x, own) ==
    /\ x.at \in {"queued", "taking", "opening"} \union Holding => x.runtime \in Visits
    /\ x.at \in Holding <=> x.conn # "none"
    /\ x.at \in Unopened \/ (x.at \in {"sending", "sent"} /\ x.reused) => own.at = "none"

(* What it has got of its answer, and what its connection is still to carry.   *)
Carried(v, x, p) ==
    /\ Len(x.body) <= AnswerLen[v]
    /\ \A i \in DOMAIN x.body : x.body[i] = [visit |-> v, chunk |-> i]
    /\ x.at \in Unopened \union {"sending", "sent"} => x.body = <<>>
    /\ x.at \in {"sending", "kept"} => p.due = <<>>
    /\ x.at \in {"sent", "body"} =>
          \/ p.due = <<>> /\ p.at # "open"
          \/ /\ Len(p.due) = AnswerLen[v] - Len(x.body)
             /\ \A i \in DOMAIN p.due : p.due[i] = [visit |-> v, chunk |-> Len(x.body) + i]

(* A connection is held by one visit, or is in one place of one pool.          *)
HeldOnce(vs, pools) ==
    /\ \A v, w \in Visits : vs[v].conn = vs[w].conn /\ vs[v].conn # "none" => v = w
    /\ \A v, r \in Visits : \A i \in DOMAIN pools[r] : vs[v].conn # pools[r][i]
    /\ \A r, s \in Visits : \A i \in DOMAIN pools[r], j \in DOMAIN pools[s] :
          pools[r][i] = pools[s][j] => r = s /\ i = j

Linked(vs, pools, pipes) ==
    /\ vs \in [Visits -> VisitRecords]
    /\ pools \in [Visits -> Seq(Visits)]
    /\ pipes \in [Visits -> PipeRecords]
    /\ \A v \in Visits :
          Sendings(v, vs[v]) /\ Held(vs[v], pipes[v]) /\ Carried(v, vs[v], pipes[vs[v].conn])
    /\ HeldOnce(vs, pools)
    /\ \A c \in Visits : pipes[c].at # "open" => pipes[c].due = <<>>
    /\ \A v \in Visits : vs[v].conn # "none" => pipes[vs[v].conn].at # "none"
    /\ \A r \in Visits : \A i \in DOMAIN pools[r] :
          pipes[pools[r][i]].at # "none" /\ pipes[pools[r][i]].due = <<>>

MapInv ==
    /\ runtime \in [Maps -> Visits \union {"none"}]
    /\ Linked(visit, idle, pipe)

(* Connections that stay or are lost.                                          *)
PipesLost(pipes, after) ==
    /\ after \in [Visits -> PipeRecords]
    /\ \A c \in Visits :
          \/ after[c].at = pipes[c].at /\ after[c].due = pipes[c].due
          \/ pipes[c].at # "none" /\ after[c].at \in {"cut", "closed"} /\ after[c].due = <<>>

LEMMA LosingPipes ==
    ASSUME NEW vs, NEW pools, NEW pipes, NEW after, Linked(vs, pools, pipes), PipesLost(pipes, after)
    PROVE  Linked(vs, pools, after)
<1> USE MapsAssumption
<1>1. ASSUME NEW v \in Visits PROVE Held(vs[v], after[v]) /\ Carried(v, vs[v], after[vs[v].conn])
  <2>1. Held(vs[v], pipes[v]) /\ Carried(v, vs[v], pipes[vs[v].conn]) /\ vs[v] \in VisitRecords
    BY <1>1 DEF Linked
  <2>2. after[v].at = pipes[v].at \/ (pipes[v].at # "none" /\ after[v].at # "none")
    BY <1>1 DEF PipesLost
  <2>3. Held(vs[v], after[v]) BY <2>1, <2>2 DEF Held
  <2>4. vs[v].conn \in Visits \union {"none"} BY <2>1 DEF VisitRecords
  <2>5. CASE vs[v].conn \in Visits
    <3>1. \/ after[vs[v].conn].at = pipes[vs[v].conn].at /\ after[vs[v].conn].due = pipes[vs[v].conn].due
          \/ after[vs[v].conn].at # "open" /\ after[vs[v].conn].due = <<>>
      BY <2>5 DEF PipesLost
    <3> QED BY <2>1, <2>3, <3>1 DEF Carried
  <2>6. CASE vs[v].conn = "none"
    <3>1. vs[v].at \notin Holding BY <2>1, <2>6 DEF Held
    <3>2. vs[v].at \notin {"sending", "kept"} /\ vs[v].at \notin {"sent", "body"} BY <3>1 DEF Holding
    <3> QED BY <2>1, <2>3, <3>2 DEF Carried
  <2> QED BY <2>4, <2>5, <2>6
<1>2. \A c \in Visits : after[c].at # "open" => after[c].due = <<>> BY DEF Linked, PipesLost
<1>3. \A v \in Visits : vs[v].conn # "none" => after[vs[v].conn].at # "none"
  <2>1. \A v \in Visits : vs[v].conn # "none" => vs[v].conn \in Visits BY DEF Linked, VisitRecords
  <2> QED BY <2>1 DEF Linked, PipesLost
<1>4. ASSUME NEW r \in Visits, NEW i \in DOMAIN pools[r]
      PROVE  after[pools[r][i]].at # "none" /\ after[pools[r][i]].due = <<>>
  <2>1. pools[r][i] \in Visits BY <1>4 DEF Linked
  <2> QED BY <1>4, <2>1 DEF Linked, PipesLost
<1> QED BY <1>1, <1>2, <1>3, <1>4 DEF Linked, PipesLost

(* Pools that lose what they hold.                                             *)
LEMMA LosingPools ==
    ASSUME NEW vs, NEW pools, NEW pipes, NEW after, Linked(vs, pools, pipes),
           after \in [Visits -> Seq(Visits)], \A r \in Visits : after[r] = pools[r] \/ after[r] = <<>>
    PROVE  Linked(vs, after, pipes)
<1>1. \A r \in Visits : \A i \in DOMAIN after[r] : i \in DOMAIN pools[r] /\ after[r][i] = pools[r][i]
  <2>1. \A i \in DOMAIN <<>> : FALSE OBVIOUS
  <2> QED BY <2>1
<1>2. HeldOnce(vs, after) BY <1>1 DEF Linked, HeldOnce
<1> QED BY <1>1, <1>2 DEF Linked

LEMMA ShutLoses ==
    ASSUME NEW pipes \in [Visits -> PipeRecords], NEW cs, \A c \in cs \cap Visits : pipes[c].at # "none"
    PROVE  PipesLost(pipes, Shut(pipes, cs))
<1>1. ASSUME NEW c \in Visits, c \in cs
      PROVE  /\ Shut(pipes, cs)[c] \in PipeRecords
             /\ Shut(pipes, cs)[c].at = "closed" /\ Shut(pipes, cs)[c].due = <<>>
  <2>1. Shut(pipes, cs)[c] = [pipes[c] EXCEPT !.at = "closed", !.due = <<>>] BY <1>1 DEF Shut
  <2>2. pipes[c] \in PipeRecords /\ <<>> \in Seq(Chunks) OBVIOUS
  <2> QED BY <2>1, <2>2 DEF PipeRecords
<1>2. ASSUME NEW c \in Visits, c \notin cs PROVE Shut(pipes, cs)[c] = pipes[c] BY <1>2 DEF Shut
<1>3. Shut(pipes, cs) = [c \in Visits |-> Shut(pipes, cs)[c]] BY DEF Shut
<1> QED BY <1>1, <1>2, <1>3 DEF PipesLost

(* The end of a step: what pools without a runtime hold is closed.             *)
LEMMA PoolsStep ==
    ASSUME NEW rt, NEW vs, NEW pools, NEW pipes, Linked(vs, pools, pipes), visit' = vs,
           Pools(rt, vs, pools, pipes), runtime' \in [Maps -> Visits \union {"none"}]
    PROVE  MapInv'
<1> DEFINE gone == Visits \ Referred(rt, vs)
           cs == UNION {ToSet(pools[r]) : r \in gone}
<1>1. idle' = [r \in Visits |-> IF r \in gone THEN <<>> ELSE pools[r]] /\ pipe' = Shut(pipes, cs)
  BY DEF Pools
<1>2. \A c \in cs \cap Visits : pipes[c].at # "none"
  <2>1. SUFFICES ASSUME NEW r \in gone, NEW c \in ToSet(pools[r]) PROVE pipes[c].at # "none" OBVIOUS
  <2> QED BY DEF Linked, ToSet
<1> HIDE DEF gone, cs
<1>3. Linked(vs, pools, pipe')
  <2>1. pipes \in [Visits -> PipeRecords] BY DEF Linked
  <2>2. PipesLost(pipes, pipe') BY <1>1, <1>2, <2>1, ShutLoses
  <2> QED BY <2>2, LosingPipes
<1>4. idle' \in [Visits -> Seq(Visits)] /\ \A r \in Visits : idle'[r] = pools[r] \/ idle'[r] = <<>>
  <2>1. <<>> \in Seq(Visits) OBVIOUS
  <2>2. \A r \in Visits : pools[r] \in Seq(Visits) BY DEF Linked
  <2> QED BY <1>1, <2>1, <2>2
<1>5. Linked(vs, idle', pipe') BY <1>3, <1>4, LosingPools
<1> QED BY <1>5 DEF MapInv

(* A visit that takes no other connection than it has.                         *)
LEMMA VisitMoves ==
    ASSUME NEW vs, NEW pools, NEW pipes, Linked(vs, pools, pipes), NEW v \in Visits,
           NEW x \in VisitRecords, x.conn = vs[v].conn \/ x.conn = "none",
           Sendings(v, x), Held(x, pipes[v]), Carried(v, x, pipes[x.conn])
    PROVE  Linked([vs EXCEPT ![v] = x], pools, pipes)
<1> DEFINE now == [vs EXCEPT ![v] = x]
<1>1. now \in [Visits -> VisitRecords] /\ now[v] = x /\ \A w \in Visits \ {v} : now[w] = vs[w]
  BY DEF Linked
<1> HIDE DEF now
<1>2. "none" \notin Visits BY MapsAssumption
<1>3. \A r \in Visits : \A i \in DOMAIN pools[r] : pools[r][i] \in Visits BY DEF Linked
<1>4. HeldOnce(now, pools)
  <2>1. HeldOnce(vs, pools) BY DEF Linked
  <2>2. \A w \in Visits : now[w].conn = vs[w].conn \/ now[w].conn = "none" BY <1>1
  <2> QED BY <1>2, <1>3, <2>1, <2>2 DEF HeldOnce
<1>5. \A w \in Visits :
         Sendings(w, now[w]) /\ Held(now[w], pipes[w]) /\ Carried(w, now[w], pipes[now[w].conn])
  BY <1>1 DEF Linked
<1>6. \A w \in Visits : now[w].conn # "none" => pipes[now[w].conn].at # "none" BY <1>1 DEF Linked
<1>7. Linked(now, pools, pipes) BY <1>1, <1>4, <1>5, <1>6 DEF Linked
<1> QED BY <1>7 DEF now

(* A visit that sends or reads over its connection, or opens it.               *)
LEMMA VisitCarries ==
    ASSUME NEW vs, NEW pools, NEW pipes, Linked(vs, pools, pipes), NEW v \in Visits,
           NEW x \in VisitRecords, NEW c \in Visits, NEW p \in PipeRecords, x.conn = c,
           vs[v].conn = c \/ (c = v /\ pipes[c].at = "none"),
           p.at # "none", p.at # "open" => p.due = <<>>,
           Sendings(v, x), Held(x, [pipes EXCEPT ![c] = p][v]), Carried(v, x, p)
    PROVE  Linked([vs EXCEPT ![v] = x], pools, [pipes EXCEPT ![c] = p])
<1> DEFINE now == [vs EXCEPT ![v] = x]
           after == [pipes EXCEPT ![c] = p]
<1>1. now \in [Visits -> VisitRecords] /\ now[v] = x /\ \A w \in Visits \ {v} : now[w] = vs[w]
  BY DEF Linked
<1>2. after \in [Visits -> PipeRecords] /\ after[c] = p /\ \A d \in Visits \ {c} : after[d] = pipes[d]
  BY DEF Linked
<1> HIDE DEF now, after
<1>3. "none" \notin Visits BY MapsAssumption
<1>4. ASSUME NEW w \in Visits PROVE vs[w].conn \in Visits \union {"none"}
  <2>1. vs[w] \in VisitRecords BY DEF Linked
  <2> QED BY <2>1 DEF VisitRecords
<1>5. \A r \in Visits : \A i \in DOMAIN pools[r] : pools[r][i] \in Visits BY DEF Linked
<1>5a. HeldOnce(vs, pools) BY DEF Linked
<1>6. ASSUME NEW w \in Visits \ {v} PROVE vs[w].conn # c
  <2>1. CASE vs[v].conn = c BY <1>3, <1>5a, <2>1 DEF HeldOnce
  <2>2. CASE c = v /\ pipes[c].at = "none"
    <3>1. vs[w].conn # "none" => pipes[vs[w].conn].at # "none" BY DEF Linked
    <3> QED BY <1>3, <2>2, <3>1
  <2> QED BY <2>1, <2>2
<1>7. ASSUME NEW r \in Visits, NEW i \in DOMAIN pools[r] PROVE pools[r][i] # c
  <2>1. CASE vs[v].conn = c BY <1>5a, <2>1 DEF HeldOnce
  <2>2. CASE c = v /\ pipes[c].at = "none"
    <3>1. pipes[pools[r][i]].at # "none" BY DEF Linked
    <3> QED BY <2>2, <3>1
  <2> QED BY <2>1, <2>2
<1>8. HeldOnce(now, pools)
  <2>1. HeldOnce(vs, pools) BY <1>5a
  <2> QED BY <1>1, <1>6, <1>7, <2>1 DEF HeldOnce
<1>9. ASSUME NEW w \in Visits \ {v}
      PROVE  Sendings(w, now[w]) /\ Held(now[w], after[w]) /\ Carried(w, now[w], after[now[w].conn])
  <2>1. now[w] = vs[w] /\ Sendings(w, vs[w]) /\ Held(vs[w], pipes[w]) /\ Carried(w, vs[w], pipes[vs[w].conn])
    BY <1>1 DEF Linked
  <2>2. Held(now[w], after[w])
    <3>1. CASE w # c BY <1>2, <2>1, <3>1
    <3>2. CASE w = c
      <4>1. pipes[w].at # "none" BY <1>3, <3>2 DEF Linked
      <4> QED BY <2>1, <4>1 DEF Held
    <3> QED BY <3>1, <3>2
  <2>3. Carried(w, now[w], after[now[w].conn])
    <3>1. CASE vs[w].conn \in Visits BY <1>2, <1>6, <2>1, <3>1
    <3>2. CASE vs[w].conn = "none"
      <4>1. vs[w].at \notin Holding BY <2>1, <3>2 DEF Held
      <4>2. vs[w].at \notin {"sending", "kept"} /\ vs[w].at \notin {"sent", "body"} BY <4>1 DEF Holding
      <4> QED BY <2>1, <4>2 DEF Carried
    <3> QED BY <1>4, <3>1, <3>2
  <2> QED BY <2>1, <2>2, <2>3
<1>10. Sendings(v, now[v]) /\ Held(now[v], after[v]) /\ Carried(v, now[v], after[now[v].conn])
  BY <1>1, <1>2 DEF after
<1>11. \A d \in Visits : after[d].at # "open" => after[d].due = <<>>
  <2> SUFFICES ASSUME NEW d \in Visits, after[d].at # "open" PROVE after[d].due = <<>> OBVIOUS
  <2>1. CASE d = c BY <1>2, <2>1
  <2>2. CASE d # c
    <3>1. after[d] = pipes[d] BY <1>2, <2>2
    <3>2. pipes[d].at # "open" => pipes[d].due = <<>> BY DEF Linked
    <3> QED BY <3>1, <3>2
  <2> QED BY <2>1, <2>2
<1>12. ASSUME NEW w \in Visits, now[w].conn # "none" PROVE after[now[w].conn].at # "none"
  <2>1. CASE w = v BY <1>1, <1>2, <2>1
  <2>2. CASE w # v
    <3>1. now[w].conn = vs[w].conn /\ vs[w].conn \in Visits /\ vs[w].conn # c BY <1>1, <1>4, <1>6, <1>12, <2>2
    <3> QED BY <1>2, <1>3, <3>1 DEF Linked
  <2> QED BY <2>1, <2>2
<1>13. \A r \in Visits : \A i \in DOMAIN pools[r] :
          after[pools[r][i]].at # "none" /\ after[pools[r][i]].due = <<>>
  BY <1>2, <1>5, <1>7 DEF Linked
<1>14. \A w \in Visits : Sendings(w, now[w]) /\ Held(now[w], after[w]) /\ Carried(w, now[w], after[now[w].conn])
  BY <1>9, <1>10
<1>15. Linked(now, pools, after) BY <1>1, <1>2, <1>8, <1>11, <1>12, <1>13, <1>14 DEF Linked
<1> QED BY <1>15 DEF now, after

(* take_idle: a connection leaves the pool with those above it.                *)
LEMMA PoolCut ==
    ASSUME NEW pools \in [Visits -> Seq(Visits)], NEW r \in Visits, NEW n \in Nat, n <= Len(pools[r]) + 1
    PROVE  LET after == [pools EXCEPT ![r] = SubSeq(@, 1, n - 1)] IN
           /\ after \in [Visits -> Seq(Visits)]
           /\ \A s \in Visits : \A i \in DOMAIN after[s] :
                 i \in DOMAIN pools[s] /\ after[s][i] = pools[s][i] /\ (s = r => i < n)
<1> DEFINE q == SubSeq(pools[r], 1, n - 1)
<1>1. pools[r] \in Seq(Visits) OBVIOUS
<1>2. q \in Seq(Visits) /\ \A i \in DOMAIN q : i \in DOMAIN pools[r] /\ q[i] = pools[r][i] /\ i < n
  <2>1. Len(pools[r]) \in Nat /\ DOMAIN pools[r] = 1 .. Len(pools[r]) BY <1>1
  <2>2. n - 1 \in Int /\ \A i \in 1 .. n - 1 : i \in 1 .. Len(pools[r]) /\ pools[r][i] \in Visits
    BY <1>1, <2>1
  <2>3. q \in Seq(Visits) /\ Len(q) = (IF 1 <= n - 1 THEN n - 1 ELSE 0)
        /\ \A i \in 1 .. n - 1 : q[i] = pools[r][i]
    BY <1>1, <2>1, <2>2
  <2>4. DOMAIN q = 1 .. n - 1 BY <2>3, <2>2
  <2> QED BY <2>1, <2>2, <2>3, <2>4
<1> HIDE DEF q
<1>3. [pools EXCEPT ![r] = q] \in [Visits -> Seq(Visits)] BY <1>2
<1>4. \A s \in Visits : [pools EXCEPT ![r] = q][s] = IF s = r THEN q ELSE pools[s] OBVIOUS
<1> QED BY <1>2, <1>3, <1>4 DEF q

LEMMA PoolCutLinked ==
    ASSUME NEW vs, NEW pools, NEW pipes, Linked(vs, pools, pipes), NEW r \in Visits, NEW n \in Nat,
           n <= Len(pools[r]) + 1
    PROVE  /\ Linked(vs, [pools EXCEPT ![r] = SubSeq(@, 1, n - 1)], pipes)
           /\ n \in 1 .. Len(pools[r]) =>
                 /\ pools[r][n] \in Visits
                 /\ \A v \in Visits : vs[v].conn # pools[r][n]
                 /\ \A s \in Visits : \A i \in DOMAIN [pools EXCEPT ![r] = SubSeq(@, 1, n - 1)][s] :
                       [pools EXCEPT ![r] = SubSeq(@, 1, n - 1)][s][i] # pools[r][n]
<1> DEFINE after == [pools EXCEPT ![r] = SubSeq(@, 1, n - 1)]
<1>0. pools \in [Visits -> Seq(Visits)] BY DEF Linked
<1>1. /\ after \in [Visits -> Seq(Visits)]
      /\ \A s \in Visits : \A i \in DOMAIN after[s] :
            i \in DOMAIN pools[s] /\ after[s][i] = pools[s][i] /\ (s = r => i < n)
  BY <1>0, PoolCut
<1> HIDE DEF after
<1>2. HeldOnce(vs, after)
  <2>1. HeldOnce(vs, pools) BY DEF Linked
  <2>2. \A s \in Visits : \A i \in DOMAIN after[s] : i \in DOMAIN pools[s] /\ after[s][i] = pools[s][i]
    BY <1>1
  <2> QED BY <2>1, <2>2 DEF HeldOnce
<1>3. Linked(vs, after, pipes)
  <2>1. \A s \in Visits : \A i \in DOMAIN after[s] :
           pipes[after[s][i]].at # "none" /\ pipes[after[s][i]].due = <<>>
    <3>1. \A s \in Visits : \A i \in DOMAIN pools[s] :
             pipes[pools[s][i]].at # "none" /\ pipes[pools[s][i]].due = <<>>
      BY DEF Linked
    <3> QED
      <4>1. ASSUME NEW s \in Visits, NEW i \in DOMAIN after[s]
            PROVE  pipes[after[s][i]].at # "none" /\ pipes[after[s][i]].due = <<>>
        <5>1. i \in DOMAIN pools[s] /\ after[s][i] = pools[s][i] BY <1>1
        <5> QED BY <3>1, <5>1
      <4> QED BY <4>1
  <2> QED BY <1>1, <1>2, <2>1 DEF Linked
<1>4. ASSUME n \in 1 .. Len(pools[r])
      PROVE  /\ pools[r][n] \in Visits
             /\ \A v \in Visits : vs[v].conn # pools[r][n]
             /\ \A s \in Visits : \A i \in DOMAIN after[s] : after[s][i] # pools[r][n]
  <2>1. n \in DOMAIN pools[r] /\ pools[r] \in Seq(Visits) BY <1>0, <1>4
  <2>2. \A s \in Visits : \A i \in DOMAIN after[s] : after[s][i] = pools[r][n] => s = r /\ i = n
    BY <1>1, <2>1 DEF Linked, HeldOnce
  <2>3. \A i \in DOMAIN after[r] : i < n BY <1>1
  <2>4. \A v \in Visits : vs[v].conn # pools[r][n] BY <2>1 DEF Linked, HeldOnce
  <2> QED BY <2>1, <2>2, <2>3, <2>4
<1> QED BY <1>3, <1>4 DEF after

(* A visit takes a connection that nobody holds.                               *)
LEMMA VisitGains ==
    ASSUME NEW vs, NEW pools, NEW pipes, Linked(vs, pools, pipes), NEW v \in Visits,
           NEW x \in VisitRecords, NEW c \in Visits, x.conn = c, pipes[c].at # "none",
           \A w \in Visits : vs[w].conn # c,
           \A r \in Visits : \A i \in DOMAIN pools[r] : pools[r][i] # c,
           Sendings(v, x), Held(x, pipes[v]), Carried(v, x, pipes[c])
    PROVE  Linked([vs EXCEPT ![v] = x], pools, pipes)
<1> DEFINE now == [vs EXCEPT ![v] = x]
<1>1. now \in [Visits -> VisitRecords] /\ now[v] = x /\ \A w \in Visits \ {v} : now[w] = vs[w]
  BY DEF Linked
<1> HIDE DEF now
<1>2. HeldOnce(now, pools)
  <2>1. HeldOnce(vs, pools) BY DEF Linked
  <2> QED BY <1>1, <2>1 DEF HeldOnce
<1>3. \A w \in Visits :
         Sendings(w, now[w]) /\ Held(now[w], pipes[w]) /\ Carried(w, now[w], pipes[now[w].conn])
  BY <1>1 DEF Linked
<1>4. \A w \in Visits : now[w].conn # "none" => pipes[now[w].conn].at # "none"
  <2>1. \A w \in Visits : vs[w].conn # "none" => pipes[vs[w].conn].at # "none" BY DEF Linked
  <2> QED BY <1>1, <2>1
<1>5. Linked(now, pools, pipes) BY <1>1, <1>2, <1>3, <1>4 DEF Linked
<1> QED BY <1>5 DEF now

(* put_idle: a visit gives its connection to what is left of a pool.           *)
LEMMA PoolGrows ==
    ASSUME NEW vs, NEW pools, NEW pipes, Linked(vs, pools, pipes), NEW v \in Visits,
           vs[v].conn \in Visits, pipes[vs[v].conn].due = <<>>, NEW r \in Visits,
           NEW left \in Seq(Visits), \A i \in DOMAIN left : \E k \in DOMAIN pools[r] : left[i] = pools[r][k],
           \A i, j \in DOMAIN left : left[i] = left[j] => i = j,
           NEW x \in VisitRecords, x.conn = "none",
           Sendings(v, x), Held(x, pipes[v]), Carried(v, x, pipes[x.conn])
    PROVE  Linked([vs EXCEPT ![v] = x], [pools EXCEPT ![r] = Append(left, vs[v].conn)], pipes)
<1> DEFINE c == vs[v].conn
           now == [vs EXCEPT ![v] = x]
           q == Append(left, c)
           after == [pools EXCEPT ![r] = q]
<1>1. Linked(now, pools, pipes) BY VisitMoves
<1>2. now[v] = x /\ \A w \in Visits \ {v} : now[w] = vs[w] BY DEF Linked
<1>3. /\ c \in Visits /\ pipes[c].at # "none" /\ pipes[c].due = <<>>
      /\ \A s \in Visits : \A i \in DOMAIN pools[s] : pools[s][i] # c
      /\ \A w \in Visits : now[w].conn # c
  <2>1. "none" \notin Visits BY MapsAssumption
  <2> QED BY <1>2, <2>1 DEF Linked, HeldOnce
<1> HIDE DEF now, c
<1>4. /\ q \in Seq(Visits) /\ DOMAIN q = 1 .. Len(left) + 1 /\ q[Len(left) + 1] = c
      /\ DOMAIN left = 1 .. Len(left) /\ Len(left) \in Nat /\ \A i \in 1 .. Len(left) : q[i] = left[i]
  BY <1>3
<1> HIDE DEF q
<1>5. after \in [Visits -> Seq(Visits)] /\ after[r] = q /\ \A s \in Visits \ {r} : after[s] = pools[s]
  BY <1>4 DEF Linked
<1> HIDE DEF after
<1>6. \A i \in DOMAIN q : q[i] = c \/ \E k \in DOMAIN pools[r] : q[i] = pools[r][k]
  BY <1>4
<1>7. \A i, j \in DOMAIN q : q[i] = q[j] => i = j
  <2>1. SUFFICES ASSUME NEW i \in DOMAIN q, NEW j \in DOMAIN q, q[i] = q[j] PROVE i = j OBVIOUS
  <2>2. \A k \in DOMAIN left : left[k] # c BY <1>3
  <2>3. i \in DOMAIN left \/ i = Len(left) + 1 BY <1>4
  <2>4. j \in DOMAIN left \/ j = Len(left) + 1 BY <1>4
  <2> QED BY <1>4, <2>1, <2>2, <2>3, <2>4
<1>11. ASSUME NEW s \in Visits, NEW i \in DOMAIN after[s]
       PROVE  \/ s = r /\ after[s][i] = c
              \/ \E k \in DOMAIN pools[s] : after[s][i] = pools[s][k] /\ (s # r => k = i)
  <2>1. CASE s = r BY <1>5, <1>6, <1>11, <2>1
  <2>2. CASE s # r
    <3>1. after[s] = pools[s] BY <1>5, <2>2
    <3>2. i \in DOMAIN pools[s] /\ after[s][i] = pools[s][i] BY <1>11, <3>1
    <3> QED BY <3>2
  <2> QED BY <2>1, <2>2
<1>8. HeldOnce(now, after)
  <2>1. HeldOnce(now, pools) BY <1>1 DEF Linked
  <2>2. \A w, s \in Visits : \A i \in DOMAIN after[s] : now[w].conn # after[s][i]
    <3>1. \A w, s \in Visits : \A i \in DOMAIN pools[s] : now[w].conn # pools[s][i] BY <2>1 DEF HeldOnce
    <3>2. SUFFICES ASSUME NEW w \in Visits, NEW s \in Visits, NEW i \in DOMAIN after[s]
                   PROVE  now[w].conn # after[s][i]
      OBVIOUS
    <3>3. after[s][i] = c \/ \E k \in DOMAIN pools[s] : after[s][i] = pools[s][k] BY <1>11
    <3> QED BY <1>3, <3>1, <3>3
  <2>3. \A s, t \in Visits : \A i \in DOMAIN pools[s], j \in DOMAIN pools[t] :
          pools[s][i] = pools[t][j] => s = t /\ i = j
    BY <2>1 DEF HeldOnce
  <2>4. ASSUME NEW s \in Visits, NEW t \in Visits, NEW i \in DOMAIN after[s], NEW j \in DOMAIN after[t],
               after[s][i] = after[t][j]
        PROVE  s = t /\ i = j
    <3>1. CASE s = r /\ t = r BY <1>5, <1>7, <2>4, <3>1
    <3>2. \/ s = r /\ after[s][i] = c
          \/ \E k \in DOMAIN pools[s] : after[s][i] = pools[s][k] /\ (s # r => k = i)
      BY <1>11
    <3>3. \/ t = r /\ after[t][j] = c
          \/ \E k \in DOMAIN pools[t] : after[t][j] = pools[t][k] /\ (t # r => k = j)
      BY <1>11
    <3>4. CASE s # r \/ t # r BY <1>3, <2>3, <2>4, <3>2, <3>3, <3>4
    <3> QED BY <3>1, <3>4
  <2>5. \A w, u \in Visits : now[w].conn = now[u].conn /\ now[w].conn # "none" => w = u
    BY <2>1 DEF HeldOnce
  <2> QED BY <2>2, <2>4, <2>5 DEF HeldOnce
<1>9. \A s \in Visits : \A i \in DOMAIN after[s] :
         pipes[after[s][i]].at # "none" /\ pipes[after[s][i]].due = <<>>
  <2>1. \A s \in Visits : \A i \in DOMAIN pools[s] :
          pipes[pools[s][i]].at # "none" /\ pipes[pools[s][i]].due = <<>>
    BY DEF Linked
  <2>2. SUFFICES ASSUME NEW s \in Visits, NEW i \in DOMAIN after[s]
                 PROVE  pipes[after[s][i]].at # "none" /\ pipes[after[s][i]].due = <<>>
    OBVIOUS
  <2>3. after[s][i] = c \/ \E k \in DOMAIN pools[s] : after[s][i] = pools[s][k] BY <1>11
  <2> QED BY <1>3, <2>1, <2>3
<1>10. Linked(now, after, pipes) BY <1>1, <1>5, <1>8, <1>9 DEF Linked
<1> QED BY <1>10 DEF now, after, q, c

----------------------------------------------------------------------------
(* The steps.                                                                  *)

(* What a visit in its present state knows.                                    *)
LEMMA VisitKnows ==
    ASSUME MapInv, NEW v \in Visits
    PROVE  /\ visit[v] \in VisitRecords /\ visit[v].hits \in Nat /\ visit[v].tries \in 0 .. 1
           /\ visit[v].body \in Seq(Chunks)
           /\ Sendings(v, visit[v]) /\ Held(visit[v], pipe[v])
           /\ Carried(v, visit[v], pipe[visit[v].conn])
           /\ visit[v].at \in Holding => visit[v].conn \in Visits
                                         /\ pipe[visit[v].conn].at # "none"
                                         /\ pipe[visit[v].conn] \in PipeRecords
<1>1. visit[v] \in VisitRecords /\ pipe \in [Visits -> PipeRecords] BY DEF MapInv, Linked
<1>2. \A x \in VisitRecords : /\ x.hits \in Nat /\ x.tries \in 0 .. 1 /\ x.body \in Seq(Chunks)
                              /\ x.conn \in Visits \union {"none"}
  BY DEF VisitRecords
<1>3. Sendings(v, visit[v]) /\ Held(visit[v], pipe[v]) /\ Carried(v, visit[v], pipe[visit[v].conn])
  BY DEF MapInv, Linked
<1>4. visit[v].at \in Holding => visit[v].conn \in Visits BY <1>1, <1>2, <1>3 DEF Held
<1>5. visit[v].conn # "none" => pipe[visit[v].conn].at # "none" BY DEF MapInv, Linked
<1> QED BY <1>1, <1>2, <1>3, <1>4, <1>5 DEF Held

LEMMA OutcomeRecord ==
    ASSUME MapInv, NEW v \in Visits, NEW outcome \in Over \ {"none"}
    PROVE  LET x == Returned(v, outcome) IN
           /\ x \in VisitRecords /\ x.conn = "none"
           /\ Sendings(v, x) /\ Held(x, pipe[v]) /\ Carried(v, x, pipe[x.conn])
<1> DEFINE x == Returned(v, outcome)
<1>1. x = [visit[v] EXCEPT !.at = outcome, !.runtime = "none", !.conn = "none"] BY DEF Returned
<1>2. visit[v] \in VisitRecords /\ Sendings(v, visit[v]) /\ Carried(v, visit[v], pipe[visit[v].conn])
  BY VisitKnows
<1> HIDE DEF x
<1>3. /\ x.at = outcome /\ x.runtime = "none" /\ x.conn = "none" /\ x.tries = visit[v].tries
      /\ x.hits = visit[v].hits /\ x.body = visit[v].body
  BY <1>1, <1>2 DEF VisitRecords
<1>4. x \in VisitRecords
  <2>1. outcome \in VisitStates BY DEF VisitStates
  <2> QED BY <1>1, <1>2, <2>1 DEF VisitRecords
<1>5. /\ x.at \notin NotSent /\ x.at \notin Holding /\ x.at \notin Unopened
      /\ x.at \notin {"queued", "taking", "opening"} \union Holding
      /\ x.at \notin {"sending", "sent"} /\ x.at \notin Unopened \union {"sending", "sent"}
      /\ x.at \notin {"sending", "kept"} /\ x.at \notin {"sent", "body"}
  BY <1>3 DEF Over, NotSent, Holding, Unopened
<1>6. Sendings(v, x) BY <1>2, <1>3, <1>5 DEF Sendings
<1>7. Held(x, pipe[v]) BY <1>3, <1>5 DEF Held
<1>8. Carried(v, x, pipe[x.conn]) BY <1>2, <1>3, <1>5 DEF Carried
<1> QED BY <1>3, <1>4, <1>6, <1>7, <1>8 DEF x

LEMMA LetsStep ==
    ASSUME MapInv, NEW v \in Visits, NEW outcome \in Over \ {"none"}, Lets(v, outcome),
           runtime' \in [Maps -> Visits \union {"none"}]
    PROVE  MapInv'
<1> DEFINE vs == [visit EXCEPT ![v] = Returned(v, outcome)]
<1>1. visit' = vs /\ Pools(runtime, vs, idle, Shut(pipe, {visit[v].conn})) BY DEF Lets
<1>2. Linked(vs, idle, pipe) BY OutcomeRecord, VisitMoves DEF MapInv
<1>3. Linked(vs, idle, Shut(pipe, {visit[v].conn}))
  <2>1. pipe \in [Visits -> PipeRecords] BY DEF MapInv, Linked
  <2>2. \A c \in {visit[v].conn} \cap Visits : pipe[c].at # "none"
    <3>1. "none" \notin Visits BY MapsAssumption
    <3> QED BY <3>1 DEF MapInv, Linked
  <2>3. PipesLost(pipe, Shut(pipe, {visit[v].conn})) BY <2>1, <2>2, ShutLoses
  <2> QED BY <1>2, <2>3, LosingPipes
<1> HIDE DEF vs
<1> QED BY <1>1, <1>3, PoolsStep

(* Steps of a visit that keep to its connection.                               *)
LEMMA MovesStep ==
    ASSUME MapInv, NEW v \in Visits, NEW x \in VisitRecords, Moves(v, x), UNCHANGED <<idle, pipe>>,
           x.conn = visit[v].conn \/ x.conn = "none",
           Sendings(v, x), Held(x, pipe[v]), Carried(v, x, pipe[x.conn]),
           runtime' \in [Maps -> Visits \union {"none"}]
    PROVE  MapInv'
<1>1. Linked([visit EXCEPT ![v] = x], idle, pipe) BY VisitMoves DEF MapInv
<1> QED BY <1>1 DEF MapInv, Moves

LEMMA PipesStep ==
    ASSUME MapInv, PipesLost(pipe, pipe'), UNCHANGED <<visit, idle, runtime>>
    PROVE  MapInv'
BY LosingPipes DEF MapInv

(* A visit's way to the target.                                                *)
LEMMA LooksStep ==
    ASSUME MapInv, NEW v \in Visits, VisitLooks(v) PROVE MapInv'
<1>1. visit[v].at = "none" /\ UNCHANGED <<runtime, idle, pipe>> BY DEF VisitLooks
<1>2. pipe[v].at = "none" BY <1>1, VisitKnows DEF Held, Unopened
<1>3. ASSUME NEW a \in {"found", "unknown"}, Moves(v, [NoVisit EXCEPT !.at = a]) PROVE MapInv'
  <2> DEFINE x == [NoVisit EXCEPT !.at = a]
  <2>1. NoVisit \in VisitRecords
    <3>1. "none" \in VisitStates BY DEF VisitStates, Over
    <3>2. <<>> \in Seq(Chunks) OBVIOUS
    <3> QED BY <3>1, <3>2 DEF NoVisit, VisitRecords
  <2>2. /\ x.at = a /\ x.runtime = "none" /\ x.conn = "none" /\ x.tries = 0 /\ x.hits = 0 /\ x.body = <<>>
    <3>1. /\ NoVisit.runtime = "none" /\ NoVisit.conn = "none" /\ NoVisit.tries = 0 /\ NoVisit.hits = 0
          /\ NoVisit.body = <<>>
      BY DEF NoVisit
    <3> QED BY <2>1, <3>1 DEF VisitRecords
  <2>3. x \in VisitRecords
    <3>1. a \in VisitStates BY DEF VisitStates, Over
    <3> QED BY <2>1, <3>1 DEF VisitRecords
  <2> HIDE DEF x
  <2>4. Sendings(v, x) BY <2>2 DEF Sendings
  <2>5. Held(x, pipe[v]) BY <1>2, <2>2 DEF Held, Holding, Unopened
  <2>6. Carried(v, x, pipe[x.conn])
    <3>1. AnswerLen[v] \in Nat BY MapsAssumption
    <3> QED BY <2>2, <3>1 DEF Carried
  <2> QED BY <1>1, <1>3, <2>2, <2>3, <2>4, <2>5, <2>6, MovesStep DEF x, MapInv
<1> QED BY <1>3 DEF VisitLooks

LEMMA QueuesStep ==
    ASSUME MapInv, NEW v \in Visits, VisitQueues(v) PROVE MapInv'
<1>1. visit[v].at = "found" /\ UNCHANGED <<idle, pipe>> BY DEF VisitQueues
<1>2. runtime \in [Maps -> Visits \union {"none"}] BY DEF MapInv
<1>3. CASE ~online
  <2>1. Moves(v, Returned(v, "offline")) /\ runtime' = runtime BY <1>3 DEF VisitQueues
  <2>2. "offline" \in Over \ {"none"} BY DEF Over
  <2> QED BY <1>1, <1>2, <2>1, <2>2, OutcomeRecord, MovesStep
<1>4. CASE online
  <2> DEFINE m == VisitMap[v]
             r == IF runtime[m] = "none" THEN v ELSE runtime[m]
             x == [visit[v] EXCEPT !.at = "queued", !.runtime = r]
  <2>1. runtime' = [runtime EXCEPT ![m] = r] /\ Moves(v, x) BY <1>4 DEF VisitQueues
  <2>2. r \in Visits
    <3>1. m \in Maps BY MapsAssumption
    <3> QED BY <1>2, <3>1
  <2>3. runtime' \in [Maps -> Visits \union {"none"}] BY <1>2, <2>1, <2>2
  <2> HIDE DEF r
  <2>4. visit[v] \in VisitRecords BY VisitKnows
  <2>5. /\ x.at = "queued" /\ x.runtime = r /\ x.conn = visit[v].conn /\ x.tries = visit[v].tries
        /\ x.hits = visit[v].hits /\ x.body = visit[v].body /\ x.reused = visit[v].reused
    BY <2>4 DEF VisitRecords
  <2>6. x \in VisitRecords
    <3>1. "queued" \in VisitStates BY DEF VisitStates
    <3> QED BY <2>2, <2>4, <3>1 DEF VisitRecords
  <2> HIDE DEF x
  <2>7. Sendings(v, x) BY <1>1, <2>5, VisitKnows DEF Sendings, NotSent
  <2>8. Held(x, pipe[v]) BY <1>1, <2>2, <2>5, VisitKnows DEF Held, Holding, Unopened
  <2>9. Carried(v, x, pipe[x.conn]) BY <1>1, <2>5, VisitKnows DEF Carried, Unopened
  <2> QED BY <1>1, <2>1, <2>3, <2>5, <2>6, <2>7, <2>8, <2>9, MovesStep
<1> QED BY <1>3, <1>4

(* Changes of state only.                                                      *)
LEMMA StatesStep ==
    ASSUME MapInv, NEW v \in Visits, NEW a \in {"taking", "opening"}, NEW b \in {"queued", "taking"},
           visit[v].at = b, Moves(v, [visit[v] EXCEPT !.at = a]), UNCHANGED <<runtime, idle, pipe>>
    PROVE  MapInv'
<1> DEFINE x == [visit[v] EXCEPT !.at = a]
<1>1. visit[v] \in VisitRecords BY VisitKnows
<1>2. /\ x.at = a /\ x.runtime = visit[v].runtime /\ x.conn = visit[v].conn /\ x.tries = visit[v].tries
      /\ x.hits = visit[v].hits /\ x.body = visit[v].body /\ x.reused = visit[v].reused
  BY <1>1 DEF VisitRecords
<1>3. x \in VisitRecords
  <2>1. a \in VisitStates BY DEF VisitStates
  <2> QED BY <1>1, <2>1 DEF VisitRecords
<1> HIDE DEF x
<1>4. Sendings(v, x) BY <1>2, VisitKnows DEF Sendings, NotSent
<1>5. Held(x, pipe[v]) BY <1>2, VisitKnows DEF Held, Holding, Unopened
<1>6. Carried(v, x, pipe[x.conn]) BY <1>2, VisitKnows DEF Carried, Unopened
<1>7. runtime' \in [Maps -> Visits \union {"none"}] BY DEF MapInv
<1> QED BY <1>2, <1>3, <1>4, <1>5, <1>6, <1>7, MovesStep DEF x

LEMMA TakesIdleStep ==
    ASSUME MapInv, NEW v \in Visits, VisitTakes(v) PROVE MapInv'
<1>1. visit[v].at = "taking" /\ runtime' = runtime BY DEF VisitTakes
<1>2. CASE VisitKind[v] = "upgrade" BY <1>1, <1>2, StatesStep DEF VisitTakes
<1>3. CASE VisitKind[v] # "upgrade"
  <2> DEFINE r == visit[v].runtime
  <2>1. PICK last \in 0 .. Len(idle[r]) :
          /\ idle' = [idle EXCEPT ![r] = SubSeq(@, 1, last - 1)]
          /\ pipe' = Shut(pipe, {idle[r][i] : i \in last + 1 .. Len(idle[r])})
          /\ Moves(v, IF last = 0 THEN [visit[v] EXCEPT !.at = "opening"]
                      ELSE [visit[v] EXCEPT !.at = "sending", !.conn = idle[r][last], !.reused = TRUE])
    BY <1>3 DEF VisitTakes
  <2>2. /\ Linked(visit, idle, pipe) /\ visit[v] \in VisitRecords /\ r \in Visits /\ visit[v].conn = "none"
        /\ pipe[v].at = "none"
    BY <1>1, VisitKnows DEF MapInv, Held, Holding, Unopened
  <2>3. last \in Nat /\ Len(idle[r]) \in Nat /\ last <= Len(idle[r]) + 1 /\ idle[r] \in Seq(Visits)
    <3>1. idle[r] \in Seq(Visits) BY <2>2 DEF Linked
    <3> QED BY <3>1
  <2>4. PipesLost(pipe, pipe')
    <3>1. \A i \in last + 1 .. Len(idle[r]) : i \in DOMAIN idle[r] BY <2>3
    <3>2. \A i \in DOMAIN idle[r] : pipe[idle[r][i]].at # "none" BY <2>2 DEF Linked
    <3>3. \A c \in {idle[r][i] : i \in last + 1 .. Len(idle[r])} \cap Visits : pipe[c].at # "none"
      BY <3>1, <3>2
    <3>4. pipe \in [Visits -> PipeRecords] BY <2>2 DEF Linked
    <3> QED BY <2>1, <3>3, <3>4, ShutLoses
  <2>5. Linked(visit, idle, pipe') BY <2>2, <2>4, LosingPipes
  <2>6. /\ Linked(visit, idle', pipe')
        /\ last \in 1 .. Len(idle[r]) =>
              /\ idle[r][last] \in Visits
              /\ \A w \in Visits : visit[w].conn # idle[r][last]
              /\ \A s \in Visits : \A i \in DOMAIN idle'[s] : idle'[s][i] # idle[r][last]
    <3>1. /\ Linked(visit, [idle EXCEPT ![r] = SubSeq(@, 1, last - 1)], pipe')
          /\ last \in 1 .. Len(idle[r]) =>
                /\ idle[r][last] \in Visits
                /\ \A w \in Visits : visit[w].conn # idle[r][last]
                /\ \A s \in Visits : \A i \in DOMAIN [idle EXCEPT ![r] = SubSeq(@, 1, last - 1)][s] :
                      [idle EXCEPT ![r] = SubSeq(@, 1, last - 1)][s][i] # idle[r][last]
      <4> HIDE DEF r
      <4> QED BY <2>2, <2>3, <2>5, PoolCutLinked
    <3> QED BY <2>1, <3>1
  <2>7. pipe'[v].at = "none" BY <2>2, <2>4 DEF PipesLost
  <2>8. CASE last = 0
    <3> DEFINE x == [visit[v] EXCEPT !.at = "opening"]
    <3>1. /\ x.at = "opening" /\ x.runtime = visit[v].runtime /\ x.conn = "none" /\ x.tries = visit[v].tries
          /\ x.hits = visit[v].hits /\ x.body = visit[v].body /\ x.reused = visit[v].reused
      BY <2>2 DEF VisitRecords
    <3>2. x \in VisitRecords
      <4>1. "opening" \in VisitStates BY DEF VisitStates
      <4> QED BY <2>2, <4>1 DEF VisitRecords
    <3> HIDE DEF x
    <3>4. Sendings(v, x) BY <1>1, <3>1, VisitKnows DEF Sendings, NotSent
    <3>5. Held(x, pipe'[v]) BY <2>2, <2>7, <3>1 DEF Held, Holding, Unopened
    <3>6. Carried(v, x, pipe'[x.conn]) BY <1>1, <3>1, VisitKnows DEF Carried, Unopened
    <3>7. Linked([visit EXCEPT ![v] = x], idle', pipe') BY <2>6, <3>1, <3>2, <3>4, <3>5, <3>6, VisitMoves
    <3> QED BY <1>1, <2>1, <2>8, <3>7 DEF x, Moves, MapInv
  <2>9. CASE last # 0
    <3> DEFINE c == idle[r][last]
               x == [visit[v] EXCEPT !.at = "sending", !.conn = c, !.reused = TRUE]
    <3>1. last \in 1 .. Len(idle[r]) /\ last \in DOMAIN idle[r] BY <2>3, <2>9
    <3>2. c \in Visits /\ pipe'[c].at # "none" /\ pipe'[c].due = <<>>
      BY <2>2, <2>5, <2>6, <3>1 DEF Linked
    <3>3. \A s \in Visits : \A i \in DOMAIN idle'[s] : idle'[s][i] # c BY <2>6, <3>1
    <3>3a. \A w \in Visits : visit[w].conn # c BY <2>6, <3>1
    <3> HIDE DEF c
    <3>4. /\ x.at = "sending" /\ x.runtime = visit[v].runtime /\ x.conn = c /\ x.tries = visit[v].tries
          /\ x.hits = visit[v].hits /\ x.body = visit[v].body
      BY <2>2 DEF VisitRecords
    <3>5. x \in VisitRecords
      <4>1. "sending" \in VisitStates /\ TRUE \in BOOLEAN BY DEF VisitStates
      <4> QED BY <2>2, <3>2, <4>1 DEF VisitRecords
    <3> HIDE DEF x
    <3>6. Sendings(v, x) BY <1>1, <3>4, VisitKnows DEF Sendings, NotSent
    <3>7. Held(x, pipe'[v])
      <4>1. "none" \notin Visits BY MapsAssumption
      <4> QED BY <2>2, <2>7, <3>2, <3>4, <4>1 DEF Held, Holding, Unopened
    <3>8. Carried(v, x, pipe'[c]) BY <1>1, <3>2, <3>4, VisitKnows DEF Carried, Unopened
    <3>9. Linked([visit EXCEPT ![v] = x], idle', pipe')
      BY <2>6, <3>2, <3>3, <3>3a, <3>4, <3>5, <3>6, <3>7, <3>8, VisitGains
    <3> QED BY <1>1, <2>1, <2>9, <3>9 DEF x, c, Moves, MapInv
  <2> QED BY <2>8, <2>9
<1> QED BY <1>2, <1>3

LEMMA OpensStep ==
    ASSUME MapInv, NEW v \in Visits, VisitOpens(v) PROVE MapInv'
<1>1. visit[v].at = "opening" /\ runtime' = runtime BY DEF VisitOpens
<1>2. CASE Lets(v, "no tunnel")
  <2>1. "no tunnel" \in Over \ {"none"} BY DEF Over
  <2> QED BY <1>1, <1>2, <2>1, LetsStep DEF MapInv
<1>3. CASE /\ pipe' = [pipe EXCEPT ![v] = [NoPipe EXCEPT !.at = "open"]]
           /\ Moves(v, [visit[v] EXCEPT !.at = "sending", !.conn = v, !.reused = FALSE])
           /\ UNCHANGED idle
  <2> DEFINE x == [visit[v] EXCEPT !.at = "sending", !.conn = v, !.reused = FALSE]
             p == [NoPipe EXCEPT !.at = "open"]
  <2>1. /\ Linked(visit, idle, pipe) /\ visit[v] \in VisitRecords /\ visit[v].conn = "none"
        /\ pipe[v].at = "none" /\ visit[v].runtime \in Visits
    BY <1>1, VisitKnows DEF MapInv, Held, Holding, Unopened
  <2>2. NoPipe \in PipeRecords /\ NoPipe.due = <<>>
    <3>1. <<>> \in Seq(Chunks) OBVIOUS
    <3> QED BY <3>1 DEF NoPipe, PipeRecords
  <2>3. p.at = "open" /\ p.due = <<>> BY <2>2 DEF PipeRecords
  <2>4. p \in PipeRecords BY <2>2 DEF PipeRecords
  <2> HIDE DEF p
  <2>5. /\ x.at = "sending" /\ x.runtime = visit[v].runtime /\ x.conn = v /\ x.tries = visit[v].tries
        /\ x.hits = visit[v].hits /\ x.body = visit[v].body /\ ~x.reused
    BY <2>1 DEF VisitRecords
  <2>6. x \in VisitRecords
    <3>1. "sending" \in VisitStates /\ FALSE \in BOOLEAN BY DEF VisitStates
    <3> QED BY <2>1, <3>1 DEF VisitRecords
  <2> HIDE DEF x
  <2>7. Sendings(v, x) BY <1>1, <2>5, VisitKnows DEF Sendings, NotSent
  <2>8. Held(x, [pipe EXCEPT ![v] = p][v])
    <3>1. "none" \notin Visits BY MapsAssumption
    <3> QED BY <2>1, <2>5, <3>1 DEF Held, Holding, Unopened
  <2>9. Carried(v, x, p) BY <1>1, <2>3, <2>5, VisitKnows DEF Carried, Unopened
  <2>10. Linked([visit EXCEPT ![v] = x], idle, [pipe EXCEPT ![v] = p])
    BY <2>1, <2>3, <2>4, <2>5, <2>6, <2>7, <2>8, <2>9, VisitCarries
  <2> QED BY <1>1, <1>3, <2>10 DEF x, p, Moves, MapInv
<1> QED BY <1>2, <1>3 DEF VisitOpens

LEMMA SendsStep ==
    ASSUME MapInv, NEW v \in Visits, VisitSends(v) PROVE MapInv'
<1> DEFINE c == visit[v].conn
           due == pipe[c].due \o Answer(v)
           x == [visit[v] EXCEPT !.at = "sent", !.hits = visit[v].hits + 1]
           p == [pipe[c] EXCEPT !.due = due]
<1>1. /\ visit[v].at = "sending" /\ pipe[c].at = "open" /\ UNCHANGED <<runtime, idle>>
      /\ visit' = [visit EXCEPT ![v] = x] /\ pipe' = [pipe EXCEPT ![c].due = due]
  BY DEF VisitSends, Moves
<1>2. /\ Linked(visit, idle, pipe) /\ visit[v] \in VisitRecords /\ c \in Visits /\ pipe[c] \in PipeRecords
      /\ pipe \in [Visits -> PipeRecords] /\ visit[v].runtime \in Visits
  BY <1>1, VisitKnows DEF MapInv, Linked, Holding, Held
<1>3. pipe[c].due = <<>> /\ visit[v].body = <<>> BY <1>1, VisitKnows DEF Carried
<1>4. /\ due \in Seq(Chunks) /\ Len(due) = AnswerLen[v]
      /\ \A i \in DOMAIN due : due[i] = [visit |-> v, chunk |-> i]
  <2>1. AnswerLen[v] \in Nat BY MapsAssumption
  <2>2. Answer(v) \in Seq(Chunks) /\ Len(Answer(v)) = AnswerLen[v]
        /\ \A i \in DOMAIN Answer(v) : Answer(v)[i] = [visit |-> v, chunk |-> i]
    <3>1. \A i \in 1 .. AnswerLen[v] : [visit |-> v, chunk |-> i] \in Chunks BY <2>1 DEF Chunks
    <3> QED BY <2>1, <3>1 DEF Answer
  <2>3. due = Answer(v) BY <1>3, <2>2
  <2> QED BY <2>2, <2>3
<1> HIDE DEF due
<1>5. p.at = "open" /\ p.due = due /\ p \in PipeRecords BY <1>1, <1>2, <1>4 DEF PipeRecords
<1>6. pipe' = [pipe EXCEPT ![c] = p] BY <1>1, <1>2
<1> HIDE DEF p
<1>7. /\ x.at = "sent" /\ x.runtime = visit[v].runtime /\ x.conn = c /\ x.tries = visit[v].tries
      /\ x.hits = visit[v].hits + 1 /\ x.body = visit[v].body /\ x.reused = visit[v].reused
  BY <1>2 DEF VisitRecords
<1>8. x \in VisitRecords
  <2>1. "sent" \in VisitStates /\ visit[v].hits + 1 \in Nat BY <1>2 DEF VisitStates, VisitRecords
  <2> QED BY <1>2, <2>1 DEF VisitRecords
<1> HIDE DEF x
<1>9. Sendings(v, x) BY <1>1, <1>7, VisitKnows DEF Sendings, NotSent
<1>10. Held(x, [pipe EXCEPT ![c] = p][v])
  <2>1. [pipe EXCEPT ![c] = p][v].at = pipe[v].at BY <1>1, <1>2, <1>5
  <2>2. "none" \notin Visits BY MapsAssumption
  <2> QED BY <1>1, <1>2, <1>7, <2>1, <2>2, VisitKnows DEF Held, Holding, Unopened
<1>11. Carried(v, x, p)
  <2>1. AnswerLen[v] \in Nat BY MapsAssumption
  <2>2. Len(x.body) = 0 /\ x.body = <<>> BY <1>3, <1>7
  <2>3. \A i \in DOMAIN due : i \in Nat /\ 0 + i = i BY <1>4
  <2> QED BY <1>4, <1>5, <1>7, <2>1, <2>2, <2>3 DEF Carried
<1>12. Linked([visit EXCEPT ![v] = x], idle, [pipe EXCEPT ![c] = p])
  <2> HIDE DEF c
  <2>1. visit[v].conn = c BY DEF c
  <2>2. p.at # "none" /\ (p.at # "open" => p.due = <<>>) BY <1>5
  <2> QED BY <1>2, <1>5, <1>7, <1>8, <1>9, <1>10, <1>11, <2>1, <2>2, VisitCarries
<1> QED BY <1>1, <1>6, <1>12 DEF MapInv

LEMMA FailsStep ==
    ASSUME MapInv, NEW v \in Visits, VisitFails(v) PROVE MapInv'
<1> DEFINE c == visit[v].conn
<1>1. visit[v].at \in {"sending", "sent"} /\ pipe[c].at = "cut" /\ runtime' = runtime
  BY DEF VisitFails
<1>2. CASE Lets(v, "failed")
  <2>1. "failed" \in Over \ {"none"} BY DEF Over
  <2> QED BY <1>1, <1>2, <2>1, LetsStep DEF MapInv
<1>3. CASE /\ visit[v].reused /\ MayRepeat(v) /\ visit[v].tries = 0
           /\ Moves(v, [visit[v] EXCEPT !.at = "taking", !.conn = "none", !.tries = 1])
           /\ pipe' = Shut(pipe, {c})
           /\ UNCHANGED idle
  <2> DEFINE x == [visit[v] EXCEPT !.at = "taking", !.conn = "none", !.tries = 1]
  <2>1. /\ Linked(visit, idle, pipe) /\ visit[v] \in VisitRecords /\ c \in Visits
        /\ pipe[v].at = "none" /\ visit[v].runtime \in Visits /\ visit[v].body = <<>>
    BY <1>1, <1>3, VisitKnows DEF MapInv, Held, Holding, Carried
  <2>2. /\ x.at = "taking" /\ x.runtime = visit[v].runtime /\ x.conn = "none" /\ x.tries = 1
        /\ x.hits = visit[v].hits /\ x.body = visit[v].body
    BY <2>1 DEF VisitRecords
  <2>3. x \in VisitRecords
    <3>1. "taking" \in VisitStates BY DEF VisitStates
    <3>2. "none" \in Visits \union {"none"} /\ 1 \in 0 .. 1 OBVIOUS
    <3> QED BY <2>1, <3>1, <3>2 DEF VisitRecords
  <2> HIDE DEF x
  <2>4. Sendings(v, x) BY <1>3, <2>1, <2>2, VisitKnows DEF Sendings, MayRepeat
  <2>5. Held(x, pipe[v]) BY <2>1, <2>2 DEF Held, Holding, Unopened
  <2>6. Carried(v, x, pipe[x.conn]) BY <2>1, <2>2, VisitKnows DEF Carried
  <2>7. Linked([visit EXCEPT ![v] = x], idle, pipe) BY <2>1, <2>2, <2>3, <2>4, <2>5, <2>6, VisitMoves
  <2>8. PipesLost(pipe, pipe')
    <3>1. \A d \in {c} \cap Visits : pipe[d].at # "none" BY <1>1
    <3>2. pipe \in [Visits -> PipeRecords] BY <2>1 DEF Linked
    <3> QED BY <1>3, <3>1, <3>2, ShutLoses
  <2>9. Linked([visit EXCEPT ![v] = x], idle, pipe') BY <2>7, <2>8, LosingPipes
  <2> QED BY <1>1, <1>3, <2>9 DEF x, Moves, MapInv
<1> QED BY <1>2, <1>3 DEF VisitFails

(* Its answer.                                                                 *)
LEMMA AnsweredStep ==
    ASSUME MapInv, NEW v \in Visits, VisitAnswered(v) PROVE MapInv'
<1>1. /\ visit[v].at = "sent" /\ runtime' = runtime
      /\ \E a \in {"body", "upgraded"} : Moves(v, [visit[v] EXCEPT !.at = a])
      /\ Pools(runtime, visit', idle, pipe)
  BY DEF VisitAnswered
<1>2. PICK a \in {"body", "upgraded"} : Moves(v, [visit[v] EXCEPT !.at = a]) BY <1>1
<1> DEFINE x == [visit[v] EXCEPT !.at = a]
<1>3. visit[v] \in VisitRecords BY VisitKnows
<1>4. /\ x.at = a /\ x.runtime = visit[v].runtime /\ x.conn = visit[v].conn /\ x.tries = visit[v].tries
      /\ x.hits = visit[v].hits /\ x.body = visit[v].body
  BY <1>3 DEF VisitRecords
<1>5. x \in VisitRecords
  <2>1. a \in VisitStates BY DEF VisitStates
  <2> QED BY <1>3, <2>1 DEF VisitRecords
<1> HIDE DEF x
<1>6. Sendings(v, x) BY <1>1, <1>4, VisitKnows DEF Sendings, NotSent
<1>7. Held(x, pipe[v]) BY <1>1, <1>4, VisitKnows DEF Held, Holding, Unopened
<1>8. Carried(v, x, pipe[x.conn]) BY <1>1, <1>4, VisitKnows DEF Carried, Unopened
<1>9. Linked([visit EXCEPT ![v] = x], idle, pipe) BY <1>4, <1>5, <1>6, <1>7, <1>8, VisitMoves DEF MapInv
<1>10. visit' = [visit EXCEPT ![v] = x] BY <1>2 DEF x, Moves
<1> QED BY <1>1, <1>9, <1>10, PoolsStep DEF MapInv

LEMMA ReadsStep ==
    ASSUME MapInv, NEW v \in Visits, VisitReads(v) PROVE MapInv'
<1> DEFINE c == visit[v].conn
           due == pipe[c].due
           x == [visit[v] EXCEPT !.body = Append(visit[v].body, Head(due))]
           p == [pipe[c] EXCEPT !.due = Tail(due)]
<1>1. /\ visit[v].at = "body" /\ due # <<>> /\ UNCHANGED <<runtime, idle>>
      /\ Len(visit[v].body) < AnswerLen[v]
      /\ visit' = [visit EXCEPT ![v] = x] /\ pipe' = [pipe EXCEPT ![c].due = Tail(@)]
  BY DEF VisitReads, Moves
<1>2. /\ Linked(visit, idle, pipe) /\ visit[v] \in VisitRecords /\ c \in Visits /\ pipe[c] \in PipeRecords
      /\ pipe \in [Visits -> PipeRecords] /\ visit[v].body \in Seq(Chunks) /\ pipe[c].at # "none"
      /\ visit[v].runtime \in Visits
  BY <1>1, VisitKnows DEF MapInv, Linked, Holding, Held
<1>3. due \in Seq(Chunks) /\ pipe[c].at = "open" BY <1>1, <1>2 DEF PipeRecords, Linked
<1>4. /\ Len(due) = AnswerLen[v] - Len(visit[v].body)
      /\ \A i \in DOMAIN due : due[i] = [visit |-> v, chunk |-> Len(visit[v].body) + i]
  BY <1>1, VisitKnows DEF Carried
<1>5. p.at = "open" /\ p.due = Tail(due) /\ p \in PipeRecords
  <2>1. Tail(due) \in Seq(Chunks) BY <1>1, <1>3
  <2> HIDE DEF due
  <2> QED BY <1>2, <1>3, <2>1 DEF PipeRecords
<1>6. pipe' = [pipe EXCEPT ![c] = p] BY <1>1, <1>2
<1> HIDE DEF p
<1>7. Append(visit[v].body, Head(due)) \in Seq(Chunks) BY <1>1, <1>2, <1>3
<1>8. /\ x.at = "body" /\ x.runtime = visit[v].runtime /\ x.conn = c /\ x.tries = visit[v].tries
      /\ x.hits = visit[v].hits /\ x.body = Append(visit[v].body, Head(due))
  BY <1>1, <1>2 DEF VisitRecords
<1>9. x \in VisitRecords BY <1>2, <1>7 DEF VisitRecords
<1> HIDE DEF x
<1>10. Sendings(v, x) BY <1>1, <1>8, VisitKnows DEF Sendings, NotSent
<1>11. Held(x, [pipe EXCEPT ![c] = p][v])
  <2>1. "none" \notin Visits BY MapsAssumption
  <2> QED BY <1>2, <1>8, <2>1 DEF Held, Holding, Unopened
<1>12. Carried(v, x, p)
  <2> HIDE DEF due
  <2>1. AnswerLen[v] \in Nat BY MapsAssumption
  <2>2. /\ Head(due) = due[1] /\ 1 \in DOMAIN due /\ Len(due) \in Nat /\ Len(due) > 0
        /\ Len(Tail(due)) = Len(due) - 1 /\ DOMAIN due = 1 .. Len(due)
        /\ DOMAIN Tail(due) = 1 .. Len(due) - 1 /\ \A i \in 1 .. Len(due) - 1 : Tail(due)[i] = due[i + 1]
    BY <1>1, <1>3
  <2>3. Head(due) = [visit |-> v, chunk |-> Len(visit[v].body) + 1] BY <1>4, <2>2
  <2> DEFINE body == visit[v].body
             m == Head(due)
  <2>4. Len(body) \in Nat /\ DOMAIN body = 1 .. Len(body) /\ body \in Seq(Chunks) BY <1>2
  <2>5. \A i \in DOMAIN body : body[i] = [visit |-> v, chunk |-> i] BY VisitKnows DEF Carried
  <2> HIDE DEF body, m
  <2>6. /\ Len(Append(body, m)) = Len(body) + 1 /\ DOMAIN Append(body, m) = 1 .. Len(body) + 1
        /\ Append(body, m)[Len(body) + 1] = m /\ \A i \in 1 .. Len(body) : Append(body, m)[i] = body[i]
    BY <2>4
  <2>7. x.body = Append(body, m) BY <1>8 DEF body, m
  <2>8. \A i \in DOMAIN x.body : x.body[i] = [visit |-> v, chunk |-> i]
    <3>1. m = [visit |-> v, chunk |-> Len(body) + 1] BY <2>3 DEF body, m
    <3> QED BY <2>4, <2>5, <2>6, <2>7, <3>1
  <2>9. Len(x.body) = Len(body) + 1 /\ Len(x.body) <= AnswerLen[v]
    BY <1>1, <2>1, <2>4, <2>6, <2>7 DEF body
  <2>10. Len(p.due) = AnswerLen[v] - Len(x.body)
    BY <1>4, <1>5, <2>1, <2>2, <2>4, <2>9 DEF body
  <2>11. \A i \in DOMAIN p.due : p.due[i] = [visit |-> v, chunk |-> Len(x.body) + i]
    <3>1. SUFFICES ASSUME NEW i \in DOMAIN p.due PROVE p.due[i] = [visit |-> v, chunk |-> Len(x.body) + i]
      OBVIOUS
    <3>2. i \in 1 .. Len(due) - 1 /\ p.due[i] = due[i + 1] /\ i + 1 \in DOMAIN due BY <1>5, <2>2
    <3>3. due[i + 1] = [visit |-> v, chunk |-> Len(body) + (i + 1)] BY <1>4, <3>2 DEF body
    <3>4. Len(body) + (i + 1) = Len(x.body) + i BY <2>4, <2>9, <3>2
    <3> QED BY <3>2, <3>3, <3>4
  <2> QED BY <1>8, <2>8, <2>9, <2>10, <2>11 DEF Carried, Unopened
<1>13. Linked([visit EXCEPT ![v] = x], idle, [pipe EXCEPT ![c] = p])
  <2>1. visit[v].conn = c OBVIOUS
  <2> HIDE DEF c, due
  <2>2. p.at # "none" /\ (p.at # "open" => p.due = <<>>) BY <1>5
  <2> QED BY <1>2, <1>5, <1>8, <1>9, <1>10, <1>11, <1>12, <2>1, <2>2, VisitCarries
<1> QED BY <1>1, <1>6, <1>13 DEF MapInv

LEMMA EndsStep ==
    ASSUME MapInv, NEW v \in Visits, VisitEnds(v) PROVE MapInv'
<1> DEFINE x == [visit[v] EXCEPT !.at = "kept"]
           p == pipe[visit[v].conn]
<1>1. /\ visit[v].at = "body" /\ Moves(v, x) /\ UNCHANGED <<runtime, idle, pipe>>
      /\ Len(visit[v].body) = AnswerLen[v] \/ p.at = "cut"
  BY DEF VisitEnds
<1>2. visit[v] \in VisitRecords /\ p \in PipeRecords BY <1>1, VisitKnows DEF Holding
<1>3. /\ x.at = "kept" /\ x.runtime = visit[v].runtime /\ x.conn = visit[v].conn /\ x.tries = visit[v].tries
      /\ x.hits = visit[v].hits /\ x.body = visit[v].body
  BY <1>2 DEF VisitRecords
<1>4. x \in VisitRecords
  <2>1. "kept" \in VisitStates BY DEF VisitStates
  <2> QED BY <1>2, <2>1 DEF VisitRecords
<1> HIDE DEF x
<1>5. Sendings(v, x) BY <1>1, <1>3, VisitKnows DEF Sendings, NotSent
<1>6. Held(x, pipe[v]) BY <1>1, <1>3, VisitKnows DEF Held, Holding, Unopened
<1>7. p.due = <<>>
  <2>1. CASE p.at = "cut" BY <1>1, <2>1, VisitKnows DEF MapInv, Linked, Holding
  <2>2. CASE Len(visit[v].body) = AnswerLen[v]
    <3>1. AnswerLen[v] \in Nat BY MapsAssumption
    <3>2. p.due = <<>> \/ Len(p.due) = AnswerLen[v] - AnswerLen[v] BY <1>1, <2>2, VisitKnows DEF Carried
    <3>3. p.due \in Seq(Chunks) BY <1>2 DEF PipeRecords
    <3> HIDE DEF p
    <3> QED BY <3>1, <3>2, <3>3
  <2> QED BY <1>1, <2>1, <2>2
<1>8. Carried(v, x, pipe[x.conn])
  <2>1. Carried(v, visit[v], p) BY VisitKnows
  <2> QED BY <1>1, <1>3, <1>7, <2>1 DEF Carried, Unopened
<1>9. runtime' \in [Maps -> Visits \union {"none"}] BY <1>1 DEF MapInv
<1> QED BY <1>1, <1>3, <1>4, <1>5, <1>6, <1>8, <1>9, MovesStep

LEMMA KeepsStep ==
    ASSUME MapInv, NEW v \in Visits, VisitKeeps(v) PROVE MapInv'
<1> DEFINE c == visit[v].conn
           r == visit[v].runtime
           outcome == IF Len(visit[v].body) = AnswerLen[v] THEN "whole" ELSE "cut"
           x == Returned(v, outcome)
<1>1. visit[v].at = "kept" /\ runtime' = runtime /\ outcome \in Over \ {"none"} BY DEF VisitKeeps, Over
<1>2. /\ Linked(visit, idle, pipe) /\ visit[v] \in VisitRecords /\ c \in Visits /\ r \in Visits
      /\ pipe[c].due = <<>> /\ idle[r] \in Seq(Visits) /\ pipe \in [Visits -> PipeRecords]
  BY <1>1, VisitKnows DEF MapInv, Linked, Holding, Held, Carried
<1>3. PICK left \in Retained(idle[r]) :
         IF VisitKind[v] # "upgrade" /\ Usable(c) /\ Len(left) < PoolSize
         THEN /\ Moves(v, x)
              /\ Pools(runtime, visit', [idle EXCEPT ![r] = Append(left, c)],
                       Shut(pipe, ToSet(idle[r]) \ ToSet(left)))
         ELSE Lets(v, outcome)
  BY DEF VisitKeeps
<1>4. CASE Lets(v, outcome)
  <2> HIDE DEF outcome
  <2> QED BY <1>1, <1>4, LetsStep DEF MapInv
<1>5. CASE /\ Moves(v, x)
           /\ Pools(runtime, visit', [idle EXCEPT ![r] = Append(left, c)],
                    Shut(pipe, ToSet(idle[r]) \ ToSet(left)))
  <2> DEFINE after == Shut(pipe, ToSet(idle[r]) \ ToSet(left))
  <2>1. PipesLost(pipe, after)
    <3>1. \A d \in (ToSet(idle[r]) \ ToSet(left)) \cap Visits : pipe[d].at # "none"
      BY <1>2 DEF Linked, ToSet
    <3> QED BY <1>2, <3>1, ShutLoses
  <2> HIDE DEF after
  <2>2. Linked(visit, idle, after) BY <1>2, <2>1, LosingPipes
  <2>3. /\ left \in Seq(Visits)
        /\ \A i \in DOMAIN left : \E k \in DOMAIN idle[r] : left[i] = idle[r][k]
    <3>1. PICK n \in 0 .. Len(idle[r]) : left \in [1 .. n -> ToSet(idle[r])] BY <1>3 DEF Retained
    <3>2. n \in Nat /\ DOMAIN left = 1 .. n BY <1>2, <3>1
    <3>3. \A d \in ToSet(idle[r]) : \E k \in DOMAIN idle[r] : d = idle[r][k] BY DEF ToSet
    <3>4. \A i \in 1 .. n : left[i] \in ToSet(idle[r]) BY <3>1
    <3>5. \A i \in 1 .. n : left[i] \in Visits BY <1>2, <3>3, <3>4
    <3>6. left = [i \in 1 .. n |-> left[i]] BY <3>1
    <3>7. left \in Seq(Visits) BY <3>2, <3>5, <3>6
    <3> QED BY <3>2, <3>3, <3>4, <3>7
  <2>4. \A i, j \in DOMAIN left : left[i] = left[j] => i = j
    <3>1. SUFFICES ASSUME NEW i \in DOMAIN left, NEW j \in DOMAIN left, left[i] = left[j], i < j PROVE FALSE
      <4>1. DOMAIN left \subseteq Int BY <2>3
      <4> QED BY <3>1, <4>1
    <3>2. PICK k \in DOMAIN idle[r], l \in DOMAIN idle[r] : k < l /\ idle[r][k] = left[i] /\ idle[r][l] = left[j]
      BY <1>3, <3>1 DEF Retained
    <3>3. k = l BY <1>2, <3>1, <3>2 DEF Linked, HeldOnce
    <3>4. k \in Int BY <1>2
    <3> QED BY <3>2, <3>3, <3>4
  <2>5. after[c].due = <<>> BY <1>2, <2>1 DEF PipesLost
  <2>6. /\ x \in VisitRecords /\ x.conn = "none"
        /\ Sendings(v, x) /\ Held(x, after[v]) /\ Carried(v, x, after[x.conn])
    <3> HIDE DEF outcome
    <3>1. /\ x \in VisitRecords /\ x.conn = "none" /\ x.at = outcome
          /\ Sendings(v, x) /\ Held(x, pipe[v]) /\ Carried(v, x, pipe[x.conn])
      <4>1. x.at = outcome BY <1>2 DEF Returned, VisitRecords
      <4> QED BY <1>1, <4>1, OutcomeRecord
    <3> HIDE DEF x
    <3>2. /\ x.at \notin Unopened /\ x.at \notin {"sending", "sent"} /\ x.at \notin {"sending", "kept"}
          /\ x.at \notin {"sent", "body"}
      BY <1>1, <3>1 DEF Over, Unopened
    <3> QED BY <3>1, <3>2 DEF Held, Carried
  <2> HIDE DEF x, c, r
  <2>7. Linked([visit EXCEPT ![v] = x], [idle EXCEPT ![r] = Append(left, c)], after)
    <3>1. visit[v].conn = c BY DEF c
    <3> QED BY <1>2, <2>2, <2>3, <2>4, <2>5, <2>6, <3>1, PoolGrows
  <2>8. visit' = [visit EXCEPT ![v] = x]
        /\ Pools(runtime, visit', [idle EXCEPT ![r] = Append(left, c)], after)
    BY <1>5 DEF Moves, after
  <2>9. runtime' \in [Maps -> Visits \union {"none"}] BY <1>1 DEF MapInv
  <2> QED BY <2>7, <2>8, <2>9, PoolsStep
<1> QED BY <1>3, <1>4, <1>5

(* The connections by themselves, and what ends them all.                      *)
LEMMA ConnectionsStep ==
    ASSUME MapInv, NEW c \in Visits, TargetCloses(c) \/ CloseNoticed(c) \/ PipeAges(c) PROVE MapInv'
<1>1. UNCHANGED <<visit, idle, runtime>> BY DEF TargetCloses, CloseNoticed, PipeAges
<1>2. pipe \in [Visits -> PipeRecords] /\ pipe[c] \in PipeRecords
      /\ \A d \in Visits : pipe[d].at # "open" => pipe[d].due = <<>>
  BY DEF MapInv, Linked
<1>3. CASE TargetCloses(c)
  <2>1. pipe[c].at = "open" /\ pipe' = [pipe EXCEPT ![c] = [pipe[c] EXCEPT !.at = "cut", !.due = <<>>]]
    BY <1>2, <1>3 DEF TargetCloses
  <2> DEFINE p == [pipe[c] EXCEPT !.at = "cut", !.due = <<>>]
  <2>2. p \in PipeRecords /\ p.at = "cut" /\ p.due = <<>>
    <3>1. <<>> \in Seq(Chunks) OBVIOUS
    <3> QED BY <1>2, <3>1 DEF PipeRecords
  <2> HIDE DEF p
  <2>3. pipe' = [pipe EXCEPT ![c] = p] BY <2>1 DEF p
  <2>4. PipesLost(pipe, pipe') BY <1>2, <2>1, <2>2, <2>3 DEF PipesLost
  <2> QED BY <1>1, <2>4, PipesStep
<1>4. CASE CloseNoticed(c)
  <2>1. pipe[c].at = "cut" /\ pipe' = [pipe EXCEPT ![c] = [pipe[c] EXCEPT !.at = "closed"]]
    BY <1>2, <1>4 DEF CloseNoticed
  <2> DEFINE p == [pipe[c] EXCEPT !.at = "closed"]
  <2>2. p \in PipeRecords /\ p.at = "closed" /\ p.due = <<>> BY <1>2, <2>1 DEF PipeRecords
  <2> HIDE DEF p
  <2>3. pipe' = [pipe EXCEPT ![c] = p] BY <2>1 DEF p
  <2>4. PipesLost(pipe, pipe') BY <1>2, <2>1, <2>2, <2>3 DEF PipesLost
  <2> QED BY <1>1, <2>4, PipesStep
<1>5. CASE PipeAges(c)
  <2>1. pipe' = [pipe EXCEPT ![c] = [pipe[c] EXCEPT !.old = TRUE]] BY <1>2, <1>5 DEF PipeAges
  <2> DEFINE p == [pipe[c] EXCEPT !.old = TRUE]
  <2>2. p \in PipeRecords /\ p.at = pipe[c].at /\ p.due = pipe[c].due BY <1>2 DEF PipeRecords
  <2> HIDE DEF p
  <2>3. pipe' = [pipe EXCEPT ![c] = p] BY <2>1 DEF p
  <2>4. PipesLost(pipe, pipe') BY <1>2, <2>2, <2>3 DEF PipesLost
  <2> QED BY <1>1, <2>4, PipesStep
<1> QED BY <1>3, <1>4, <1>5

LEMMA SweepStep ==
    ASSUME MapInv, RuntimesSwept PROVE MapInv'
<1>1. /\ runtime' = [m \in Maps |-> IF m \in ToSet(recent) THEN runtime[m] ELSE "none"]
      /\ Pools(runtime', visit, idle, pipe) /\ visit' = visit
  BY DEF RuntimesSwept
<1>2. runtime' \in [Maps -> Visits \union {"none"}] BY <1>1 DEF MapInv
<1>3. Linked(visit, idle, pipe) BY DEF MapInv
<1> QED BY <1>1, <1>2, <1>3, PoolsStep

LEMMA RevokedStep ==
    ASSUME MapInv, MapsRevoked, visit' = visit PROVE MapInv'
<1> DEFINE after == [c \in Visits |-> IF pipe[c].at = "open" THEN [pipe[c] EXCEPT !.at = "cut", !.due = <<>>]
                                                             ELSE pipe[c]]
<1>1. runtime' = [m \in Maps |-> IF m \in ToSet(recent) THEN "none" ELSE runtime[m]]
      /\ Pools(runtime', visit, idle, after)
  BY DEF MapsRevoked
<1>2. runtime' \in [Maps -> Visits \union {"none"}] BY <1>1 DEF MapInv
<1>3. Linked(visit, idle, pipe) BY DEF MapInv
<1>4. PipesLost(pipe, after)
  <2>1. ASSUME NEW c \in Visits
        PROVE  /\ after[c] \in PipeRecords
               /\ \/ after[c].at = pipe[c].at /\ after[c].due = pipe[c].due
                  \/ pipe[c].at # "none" /\ after[c].at \in {"cut", "closed"} /\ after[c].due = <<>>
    <3>1. pipe[c] \in PipeRecords BY <1>3 DEF Linked
    <3>2. <<>> \in Seq(Chunks) OBVIOUS
    <3>3. CASE pipe[c].at = "open"
      <4>1. after[c] = [pipe[c] EXCEPT !.at = "cut", !.due = <<>>] BY <3>3
      <4> QED BY <3>1, <3>2, <3>3, <4>1 DEF PipeRecords
    <3>4. CASE pipe[c].at # "open" BY <3>1, <3>4
    <3> QED BY <3>3, <3>4
  <2>2. after = [c \in Visits |-> after[c]] OBVIOUS
  <2> HIDE DEF after
  <2> QED BY <2>1, <2>2 DEF PipesLost
<1> HIDE DEF after
<1>5. Linked(visit, idle, after) BY <1>3, <1>4, LosingPipes
<1> QED BY <1>1, <1>2, <1>5, PoolsStep

LEMMA MapSteps ==
    ASSUME [Next]_vars
    PROVE  UNCHANGED <<runtime, idle, visit, pipe>> \/ (MapsRevoked /\ visit' = visit) \/ MapsNext
<1>1. UNCHANGED mapped => UNCHANGED <<runtime, idle, visit, pipe>> BY DEF mapped
<1>2. CASE AgentDrops BY <1>2 DEF AgentDrops
<1>3. CASE ~AgentDrops BY <1>1, <1>3 DEF Next, Beside, AgentReturns, vars
<1> QED BY <1>2, <1>3

LEMMA MapStep == ASSUME [Next]_vars, MapInv PROVE MapInv'
<1>1. CASE UNCHANGED <<runtime, idle, visit, pipe>> BY <1>1 DEF MapInv
<1>2. CASE MapsRevoked /\ visit' = visit BY <1>2, RevokedStep
<1>3. ASSUME NEW m \in Maps, MapOpens(m) \/ MapExpires(m) PROVE MapInv'
  BY <1>3 DEF MapOpens, MapExpires, MapInv
<1>4. CASE RuntimesSwept BY <1>4, SweepStep
<1>5. ASSUME NEW c \in Visits, TargetCloses(c) \/ CloseNoticed(c) \/ PipeAges(c) PROVE MapInv'
  BY <1>5, ConnectionsStep
<1>6. ASSUME NEW v \in Visits, VisitLooks(v) \/ VisitRuns(v) \/ VisitLeft(v) \/ SocketEnds(v)
      PROVE  MapInv'
  <2>1. ASSUME NEW outcome \in {"busy", "timeout", "gone", "whole"}, Lets(v, outcome), runtime' = runtime
        PROVE  MapInv'
    <3>1. outcome \in Over \ {"none"} BY DEF Over
    <3> QED BY <2>1, <3>1, LetsStep DEF MapInv
  <2>2. CASE VisitLooks(v) BY <2>2, LooksStep
  <2>3. CASE VisitLeft(v) BY <2>1, <2>3 DEF VisitLeft
  <2>4. CASE SocketEnds(v) \/ SocketCut(v) BY <2>1, <2>4 DEF SocketEnds, SocketCut
  <2>5. CASE VisitQueues(v) BY <2>5, QueuesStep
  <2>6. CASE VisitAdmitted(v) BY <2>6, StatesStep DEF VisitAdmitted
  <2>7. CASE VisitTooLate(v) BY <2>1, <2>7 DEF VisitTooLate
  <2>8. CASE VisitTakes(v) BY <2>8, TakesIdleStep
  <2>9. CASE VisitOpens(v) BY <2>9, OpensStep
  <2>10. CASE VisitSends(v) BY <2>10, SendsStep
  <2>11. CASE VisitFails(v) BY <2>11, FailsStep
  <2>12. CASE VisitTimesOut(v) BY <2>1, <2>12 DEF VisitTimesOut
  <2>13. CASE VisitAnswered(v) BY <2>13, AnsweredStep
  <2>14. CASE VisitReads(v) BY <2>14, ReadsStep
  <2>15. CASE VisitEnds(v) BY <2>15, EndsStep
  <2>16. CASE VisitKeeps(v) BY <2>16, KeepsStep
  <2> QED BY <1>6, <2>2, <2>3, <2>4, <2>5, <2>6, <2>7, <2>8, <2>9, <2>10, <2>11, <2>12, <2>13, <2>14,
             <2>15, <2>16 DEF VisitRuns
<1> QED BY <1>1, <1>2, <1>3, <1>4, <1>5, <1>6, MapSteps DEF MapsNext

LEMMA MapInits == ASSUME Init PROVE MapInv
<1>1. MapsInit BY DEF Init
<1>2. runtime \in [Maps -> Visits \union {"none"}] BY <1>1 DEF MapsInit
<1>3. NoVisit \in VisitRecords
  <2>1. "none" \in VisitStates BY DEF VisitStates, Over
  <2>2. <<>> \in Seq(Chunks) OBVIOUS
  <2> QED BY <2>1, <2>2 DEF NoVisit, VisitRecords
<1>4. /\ NoVisit.at = "none" /\ NoVisit.conn = "none" /\ NoVisit.tries = 0 /\ NoVisit.hits = 0
      /\ NoVisit.body = <<>>
  BY DEF NoVisit
<1>5. NoPipe \in PipeRecords /\ NoPipe.due = <<>> /\ NoPipe.at = "none"
  <2>1. <<>> \in Seq(Chunks) OBVIOUS
  <2> QED BY <2>1 DEF NoPipe, PipeRecords
<1>6. /\ visit = [v \in Visits |-> NoVisit] /\ pipe = [c \in Visits |-> NoPipe]
      /\ idle = [r \in Visits |-> <<>>]
  BY <1>1 DEF MapsInit
<1>7. idle \in [Visits -> Seq(Visits)]
  <2>1. <<>> \in Seq(Visits) OBVIOUS
  <2> QED BY <1>6, <2>1
<1>8. \A r \in Visits : \A i \in DOMAIN idle[r] : FALSE BY <1>6
<1>9. ASSUME NEW v \in Visits
      PROVE  Sendings(v, visit[v]) /\ Held(visit[v], pipe[v]) /\ Carried(v, visit[v], pipe[visit[v].conn])
  <2>1. visit[v] = NoVisit /\ pipe[v] = NoPipe /\ AnswerLen[v] \in Nat BY <1>6, MapsAssumption
  <2>2. Sendings(v, visit[v]) BY <1>4, <2>1 DEF Sendings
  <2>3. Held(visit[v], pipe[v]) BY <1>4, <1>5, <2>1 DEF Held, Holding, Unopened
  <2>4. Carried(v, visit[v], pipe[visit[v].conn]) BY <1>4, <2>1 DEF Carried
  <2> QED BY <2>2, <2>3, <2>4
<1>10. HeldOnce(visit, idle) BY <1>4, <1>6, <1>8 DEF HeldOnce
<1>11. Linked(visit, idle, pipe) BY <1>3, <1>4, <1>5, <1>6, <1>7, <1>8, <1>9, <1>10 DEF Linked
<1> QED BY <1>2, <1>11 DEF MapInv

LEMMA MapInvariant == Spec => []MapInv
<1>1. MapInv /\ [Next]_vars => MapInv' BY MapStep
<1> QED BY <1>1, MapInits, PTL DEF Spec

(* What a browser reads under a map is the answer to its own request.          *)
THEOREM AnswersAreOnesOwn == Spec => []OwnAnswer
<1>1. ASSUME MapInv, NEW v \in Visits PROVE visit[v].body = SubSeq(Answer(v), 1, Len(visit[v].body))
  <2> DEFINE body == visit[v].body
  <2>1. body \in Seq(Chunks) /\ AnswerLen[v] \in Nat /\ Len(body) <= AnswerLen[v]
        /\ \A i \in DOMAIN body : body[i] = [visit |-> v, chunk |-> i]
    BY <1>1, VisitKnows, MapsAssumption DEF Carried
  <2>2. Answer(v) \in Seq(Chunks) /\ Len(Answer(v)) = AnswerLen[v]
        /\ \A i \in 1 .. AnswerLen[v] : Answer(v)[i] = [visit |-> v, chunk |-> i]
    <3>1. \A i \in 1 .. AnswerLen[v] : [visit |-> v, chunk |-> i] \in Chunks BY <2>1 DEF Chunks
    <3> QED BY <2>1, <3>1 DEF Answer
  <2> DEFINE q == SubSeq(Answer(v), 1, Len(body))
  <2> HIDE DEF body
  <2>3. Len(body) \in Nat /\ DOMAIN body = 1 .. Len(body) BY <2>1
  <2>4. /\ q \in Seq(Chunks) /\ Len(q) = Len(body)
        /\ \A i \in 1 .. Len(body) : q[i] = Answer(v)[i]
    BY <2>1, <2>2, <2>3
  <2>5. \A i \in 1 .. Len(body) : q[i] = body[i] BY <2>1, <2>2, <2>3, <2>4
  <2> HIDE DEF q
  <2>6. q = body BY <2>1, <2>3, <2>4, <2>5
  <2> QED BY <2>6 DEF q, body
<1>2. MapInv => OwnAnswer BY <1>1 DEF OwnAnswer
<1> QED BY <1>2, MapInvariant, PTL

(* A request that carries a body or asks for a WebSocket gets to the target    *)
(* once at most, another one twice at most.                                    *)
THEOREM RequestsAreSentOnce == Spec => []SentOnce
<1>1. ASSUME MapInv, NEW v \in Visits
      PROVE  visit[v].hits <= IF VisitKind[v] = "plain" THEN 1 + visit[v].tries ELSE 1
  <2>1. /\ visit[v].tries = 1 => VisitKind[v] = "plain"
        /\ visit[v].hits <= 1 + visit[v].tries /\ visit[v].tries \in 0 .. 1 /\ visit[v].hits \in Nat
    BY <1>1, VisitKnows DEF Sendings
  <2> QED BY <2>1
<1>2. MapInv => SentOnce BY <1>1 DEF SentOnce
<1> QED BY <1>2, MapInvariant, PTL


----------------------------------------------------------------------------
(* Pages.  A frame has a position in its page: the head, the chunks, the end.  *)
(* As long as no post was lost, what is on its way to a request that reads     *)
(* follows what it has read, up to what the fetch comes to next.               *)

PageFrames == [kind : {"head", "chunk", "end", "error"}, id : Pages, seq : Nat]
ViewStates == {"none", "asking", "offline", "too many", "sending", "busy", "waiting", "body",
               "whole", "cut", "error", "timeout", "gone"}
FetchStates == {"none", "head", "body", "ended", "stopped", "failed", "over"}
ViewRecords == [at : ViewStates, gen : Nat, body : Seq(Nat)]
StreamRecords == [listed : BOOLEAN, open : BOOLEAN, q : Seq(PageFrames), dropped : BOOLEAN,
                  cancel : {"none", "waits", "given up"}]
FetchRecords == [at : FetchStates, seq : Nat, listed : BOOLEAN, cancelled : BOOLEAN]
PageTypes ==
    /\ view \in [Pages -> ViewRecords]
    /\ stream \in [Pages -> StreamRecords]
    /\ fetch \in [Pages -> FetchRecords]
    /\ uplink \in Seq(PageFrames)
    /\ routing \in PageFrames \union {NoFrame}
    /\ faults \in Nat

Pos(w, ev) == IF ev.kind = "head" THEN 0 ELSE IF ev.kind = "chunk" THEN ev.seq + 1 ELSE PageLen[w] + 1
Part(w, ev) == ev.id = w /\ ev.kind # "error"

(* A queue holds the parts of a page from a to b - 1, in their order.          *)
Flight(u, w, a, b) ==
    /\ a <= b
    /\ \A i \in DOMAIN u : Part(w, u[i]) => a <= Pos(w, u[i]) /\ Pos(w, u[i]) < b
    /\ \A n \in a .. b - 1 : \E i \in DOMAIN u : Part(w, u[i]) /\ Pos(w, u[i]) = n
    /\ \A i, j \in DOMAIN u : i < j /\ Part(w, u[i]) /\ Part(w, u[j]) => Pos(w, u[i]) < Pos(w, u[j])

LEMMA PosTyped == ASSUME NEW w \in Pages, NEW ev \in PageFrames PROVE Pos(w, ev) \in Nat
BY PagesAssumption DEF Pos, PageFrames

LEMMA FlightNone ==
    ASSUME NEW u \in Seq(PageFrames), NEW w \in Pages, \A i \in DOMAIN u : u[i].id # w
    PROVE  Flight(u, w, 0, 0)
BY DEF Flight, Part

(* A part is sent, or another frame is.                                        *)
LEMMA FlightGrows ==
    ASSUME NEW u \in Seq(PageFrames), NEW w \in Pages, NEW a \in Nat, NEW b \in Nat, Flight(u, w, a, b),
           NEW ev \in PageFrames
    PROVE  /\ Part(w, ev) /\ Pos(w, ev) = b => Flight(Append(u, ev), w, a, b + 1)
           /\ ~Part(w, ev) => Flight(Append(u, ev), w, a, b)
<1> DEFINE r == Append(u, ev)
<1>1. DOMAIN u = 1 .. Len(u) /\ Len(u) \in Nat /\ \A i \in 1 .. Len(u) : u[i] \in PageFrames OBVIOUS
<1>2. DOMAIN r = 1 .. Len(u) + 1 /\ r[Len(u) + 1] = ev /\ \A i \in 1 .. Len(u) : r[i] = u[i]
  OBVIOUS
<1>3. \A i \in 1 .. Len(u) : Pos(w, u[i]) \in Nat BY <1>1, PosTyped
<1> HIDE DEF r
<1>4. ASSUME Part(w, ev), Pos(w, ev) = b PROVE Flight(r, w, a, b + 1)
  <2>1. \A n \in a .. b : \E i \in DOMAIN r : Part(w, r[i]) /\ Pos(w, r[i]) = n
    <3> SUFFICES ASSUME NEW n \in a .. b PROVE \E i \in DOMAIN r : Part(w, r[i]) /\ Pos(w, r[i]) = n
      OBVIOUS
    <3>1. CASE n = b BY <1>1, <1>2, <1>4, <3>1
    <3>2. CASE n # b
      <4>1. n \in a .. b - 1 BY <3>2
      <4>2. PICK i \in DOMAIN u : Part(w, u[i]) /\ Pos(w, u[i]) = n BY <4>1 DEF Flight
      <4> QED BY <1>1, <1>2, <4>2
    <3> QED BY <3>1, <3>2
  <2>2. \A i \in DOMAIN r : Part(w, r[i]) => a <= Pos(w, r[i]) /\ Pos(w, r[i]) < b + 1
    BY <1>1, <1>2, <1>3, <1>4 DEF Flight
  <2>3. \A i, j \in DOMAIN r : i < j /\ Part(w, r[i]) /\ Part(w, r[j]) => Pos(w, r[i]) < Pos(w, r[j])
    BY <1>1, <1>2, <1>3, <1>4 DEF Flight
  <2>4. a <= b + 1 /\ a .. (b + 1) - 1 = a .. b BY DEF Flight
  <2> QED BY <2>1, <2>2, <2>3, <2>4 DEF Flight
<1>5. ASSUME ~Part(w, ev) PROVE Flight(r, w, a, b)
  <2>1. \A i \in DOMAIN r : Part(w, r[i]) => i \in DOMAIN u /\ u[i] = r[i] BY <1>1, <1>2, <1>5
  <2>2. \A i \in DOMAIN u : i \in DOMAIN r /\ u[i] = r[i] BY <1>1, <1>2
  <2> QED BY <2>1, <2>2 DEF Flight
<1> QED BY <1>4, <1>5 DEF r

(* The first frame of the queue is taken.  If it is a part, it is the one      *)
(* that is next.                                                               *)
LEMMA FlightShrinks ==
    ASSUME NEW u \in Seq(PageFrames), u # <<>>, NEW w \in Pages, NEW a \in Nat, NEW b \in Nat,
           Flight(u, w, a, b)
    PROVE  /\ Part(w, Head(u)) => Pos(w, Head(u)) = a /\ Flight(Tail(u), w, a + 1, b)
           /\ ~Part(w, Head(u)) => Flight(Tail(u), w, a, b)
<1> DEFINE r == Tail(u)
<1>1. DOMAIN u = 1 .. Len(u) /\ Len(u) \in Nat \ {0} /\ \A i \in 1 .. Len(u) : u[i] \in PageFrames OBVIOUS
<1>2. DOMAIN r = 1 .. Len(u) - 1 /\ Head(u) = u[1] /\ \A i \in 1 .. Len(u) - 1 : r[i] = u[i + 1]
  OBVIOUS
<1>3. \A i \in 1 .. Len(u) : Pos(w, u[i]) \in Nat BY <1>1, PosTyped
<1> HIDE DEF r
<1>4. \A i \in DOMAIN r : i + 1 \in DOMAIN u /\ u[i + 1] = r[i] BY <1>1, <1>2
<1>5. \A i \in DOMAIN u : i = 1 \/ (i - 1 \in DOMAIN r /\ r[i - 1] = u[i]) BY <1>1, <1>2
<1>6. \A i, j \in DOMAIN r : i < j /\ Part(w, r[i]) /\ Part(w, r[j]) => Pos(w, r[i]) < Pos(w, r[j])
  <2> SUFFICES ASSUME NEW i \in DOMAIN r, NEW j \in DOMAIN r, i < j, Part(w, r[i]), Part(w, r[j])
               PROVE  Pos(w, r[i]) < Pos(w, r[j])
    OBVIOUS
  <2>1. i \in Nat /\ j \in Nat /\ i + 1 < j + 1 BY <1>1, <1>2
  <2> QED BY <1>4, <2>1 DEF Flight
<1>7. ASSUME ~Part(w, u[1]) PROVE Flight(r, w, a, b)
  <2>1. \A n \in a .. b - 1 : \E i \in DOMAIN r : Part(w, r[i]) /\ Pos(w, r[i]) = n
    BY <1>5, <1>7 DEF Flight
  <2>2. \A i \in DOMAIN r : Part(w, r[i]) => a <= Pos(w, r[i]) /\ Pos(w, r[i]) < b
    BY <1>4 DEF Flight
  <2> QED BY <1>6, <2>1, <2>2 DEF Flight
<1>8. ASSUME Part(w, u[1]) PROVE Pos(w, u[1]) = a /\ Flight(r, w, a + 1, b)
  <2>1. \A i \in DOMAIN r : Part(w, r[i]) => Pos(w, u[1]) < Pos(w, r[i]) /\ Pos(w, r[i]) < b
    <3> SUFFICES ASSUME NEW i \in DOMAIN r, Part(w, r[i])
                 PROVE  Pos(w, u[1]) < Pos(w, r[i]) /\ Pos(w, r[i]) < b
      OBVIOUS
    <3>1. 1 \in DOMAIN u /\ i + 1 \in DOMAIN u /\ 1 < i + 1 BY <1>1, <1>2
    <3> QED BY <1>4, <1>8, <3>1 DEF Flight
  <2>2. Pos(w, u[1]) \in a .. b - 1 BY <1>1, <1>3, <1>8 DEF Flight
  <2>3. Pos(w, u[1]) = a
    <3>1. a \in a .. b - 1 BY <2>2, <1>1, <1>3
    <3>2. PICK i \in DOMAIN u : Part(w, u[i]) /\ Pos(w, u[i]) = a BY <3>1 DEF Flight
    <3>3. CASE i = 1 BY <3>2, <3>3
    <3>4. CASE i # 1
      <4>1. i - 1 \in DOMAIN r /\ r[i - 1] = u[i] BY <1>5, <3>4
      <4>2. Pos(w, u[1]) < a BY <2>1, <3>2, <4>1
      <4> QED BY <2>2, <4>2
    <3> QED BY <3>3, <3>4
  <2>4. \A n \in a + 1 .. b - 1 : \E i \in DOMAIN r : Part(w, r[i]) /\ Pos(w, r[i]) = n
    <3> SUFFICES ASSUME NEW n \in a + 1 .. b - 1 PROVE \E i \in DOMAIN r : Part(w, r[i]) /\ Pos(w, r[i]) = n
      OBVIOUS
    <3>1. n \in a .. b - 1 /\ n # a OBVIOUS
    <3>2. PICK i \in DOMAIN u : Part(w, u[i]) /\ Pos(w, u[i]) = n BY <3>1 DEF Flight
    <3> QED BY <1>5, <2>3, <3>1, <3>2
  <2>5. \A i \in DOMAIN r : Part(w, r[i]) => a + 1 <= Pos(w, r[i]) /\ Pos(w, r[i]) < b
    <3> SUFFICES ASSUME NEW i \in DOMAIN r, Part(w, r[i]) PROVE a + 1 <= Pos(w, r[i]) /\ Pos(w, r[i]) < b
      OBVIOUS
    <3>1. Pos(w, r[i]) \in Nat BY <1>1, <1>2, <1>3
    <3> QED BY <2>1, <2>3, <3>1
  <2>6. a + 1 <= b BY <2>2, <2>3
  <2> QED BY <1>6, <2>3, <2>4, <2>5, <2>6 DEF Flight
<1> QED BY <1>2, <1>7, <1>8 DEF r

Early(w) == view[w].at \in {"none", "asking", "sending"}
Reads(x) == x.at \in {"waiting", "body"}
Refusing(w) == loop.op = "refuse" /\ loop.id = w
On(w, r) == r # NoFrame /\ r.id = w
Sound(q) == \A i \in DOMAIN q : q[i].kind # "error"

(* The position that is read next, the one that comes next out of the uplink,  *)
(* and the one the fetch emits next.                                           *)
Read(x) == IF x.at = "body" THEN 1 + Len(x.body) ELSE 0
Base(w, x, q, r) == Read(x) + Len(q) + IF On(w, r) THEN 1 ELSE 0
Coming(f) == IF f.at = "body" THEN f.seq + 1 ELSE 0

(* What is in the sink and what is being put in it follows what was read.      *)
Follows(w, x, q, r) ==
    /\ \A i \in DOMAIN q : (\A j \in 1 .. i : q[j].kind # "error") => Pos(w, q[i]) = Read(x) + i - 1
    /\ On(w, r) /\ r.kind # "error" /\ Sound(q) => Pos(w, r) = Read(x) + Len(q)

(* And what waits in the uplink follows that.                                  *)
Leads(w, x, q, r, u, f) ==
    Sound(q) /\ (On(w, r) => r.kind # "error") =>
        \E b \in Nat : /\ Flight(u, w, Base(w, x, q, r), b)
                       /\ f.at \in {"none", "head", "body"} => b = Coming(f)

Untold(w) ==
    /\ Early(w) =>
          /\ fetch[w].at = "none" /\ view[w].body = <<>> /\ stream[w].q = <<>>
          /\ ~Carries(bulk, "web", w) /\ ~Refusing(w) /\ ~On(w, routing)
          /\ \A i \in DOMAIN uplink : uplink[i].id # w
    /\ Carries(bulk, "web", w) => fetch[w].at = "none"
Written(w) ==
    /\ \A i \in DOMAIN view[w].body : view[w].body[i] = i - 1
    /\ view[w].at = "waiting" => view[w].body = <<>>
    /\ view[w].at = "whole" /\ faults = 0 => Len(view[w].body) = PageLen[w]
Fetched(w) ==
    /\ fetch[w].at \in {"none", "head"} => fetch[w].seq = 0
    /\ ~online /\ fetch[w].at # "none" => ~stream[w].listed
Flowing(w) ==
    faults = 0 /\ Reads(view[w]) =>
        /\ Follows(w, view[w], stream[w].q, routing)
        /\ stream[w].listed => Leads(w, view[w], stream[w].q, routing, uplink, fetch[w])

PageInv ==
    /\ PageTypes /\ Once(bulk, "web") /\ (~online => bulk = <<>>)
    /\ \A w \in Pages : Untold(w) /\ Written(w) /\ Fetched(w) /\ Flowing(w)

(* What a step that is not the reading of a page, nor a frame's next hop, does *)
(* to a page.                                                                  *)
Stays(w) ==
    /\ view'[w].body = view[w].body
    /\ \/ view'[w] = view[w] /\ stream'[w].q = stream[w].q /\ (stream'[w].listed => stream[w].listed)
       \/ Early(w) /\ Early(w)' /\ stream'[w].q = <<>> /\ (~online' => ~online \/ ~stream'[w].listed)
       \/ ~Early(w)' /\ ~Reads(view'[w]) /\ view'[w].at # "whole" /\ (stream'[w].listed => stream[w].listed)
    /\ ~online' => ~online \/ ~stream'[w].listed
    /\ \/ fetch'[w].at = fetch[w].at /\ fetch'[w].seq = fetch[w].seq
       \/ fetch[w].at # "none" /\ fetch'[w].at \in {"ended", "stopped", "failed", "over"}
    /\ Carries(bulk', "web", w) => Carries(bulk, "web", w)
    /\ Refusing(w)' => Refusing(w)
    /\ faults' = 0 => faults = 0
    /\ routing' = routing \/ (~On(w, routing) /\ ~On(w, routing'))
    /\ \/ uplink' = uplink
       \/ \E ev \in PageFrames : uplink' = Append(uplink, ev) /\ ~Part(w, ev) /\ (Early(w) => ev.id # w)
       \/ uplink # <<>> /\ uplink' = Tail(uplink) /\ (~Part(w, Head(uplink)) \/ faults' # 0)

LEMMA BaseTyped ==
    ASSUME PageTypes, NEW w \in Pages
    PROVE  Read(view[w]) \in Nat /\ Base(w, view[w], stream[w].q, routing) \in Nat
<1>1. view[w].body \in Seq(Nat) /\ stream[w].q \in Seq(PageFrames) BY DEF PageTypes, ViewRecords, StreamRecords
<1>2. Len(view[w].body) \in Nat /\ Len(stream[w].q) \in Nat BY <1>1
<1>3. Read(view[w]) \in Nat BY <1>2 DEF Read
<1>4. CASE On(w, routing) BY <1>2, <1>3, <1>4 DEF Base
<1>5. CASE ~On(w, routing) BY <1>2, <1>3, <1>5 DEF Base
<1> QED BY <1>3, <1>4, <1>5

LEMMA StaysKeeps ==
    ASSUME PageInv, NEW w \in Pages, Stays(w)
    PROVE  Untold(w)' /\ Written(w)' /\ Fetched(w)' /\ Flowing(w)'
<1>1. PageTypes /\ Untold(w) /\ Written(w) /\ Fetched(w) /\ Flowing(w) BY DEF PageInv
<1>2. uplink \in Seq(PageFrames) BY <1>1 DEF PageTypes
<1>3. Untold(w)'
  <2>1. Early(w)' => Early(w) BY DEF Stays, Early
  <2>2. ASSUME Early(w)' PROVE \A i \in DOMAIN uplink' : uplink'[i].id # w
    <3>1. \A i \in DOMAIN uplink : uplink[i].id # w BY <1>1, <2>1, <2>2 DEF Untold
    <3>2. CASE uplink' = uplink BY <3>1, <3>2
    <3>3. CASE uplink # <<>> /\ uplink' = Tail(uplink)
      <4>1. DOMAIN uplink' = 1 .. Len(uplink) - 1 /\ DOMAIN uplink = 1 .. Len(uplink)
            /\ \A i \in 1 .. Len(uplink) - 1 : uplink'[i] = uplink[i + 1]
        BY <1>2, <3>3
      <4> QED BY <1>2, <3>1, <4>1
    <3>4. ASSUME NEW ev \in PageFrames, uplink' = Append(uplink, ev), ev.id # w
          PROVE  \A i \in DOMAIN uplink' : uplink'[i].id # w
      <4>1. DOMAIN uplink' = 1 .. Len(uplink) + 1 /\ uplink'[Len(uplink) + 1] = ev
            /\ \A i \in 1 .. Len(uplink) : uplink'[i] = uplink[i]
        BY <1>2, <3>4
      <4> QED BY <1>2, <3>1, <3>4, <4>1
    <3> QED BY <2>1, <2>2, <3>2, <3>3, <3>4 DEF Stays
  <2>3. ASSUME Early(w)'
        PROVE  /\ fetch'[w].at = "none" /\ view'[w].body = <<>> /\ stream'[w].q = <<>>
               /\ ~Carries(bulk', "web", w) /\ ~Refusing(w)' /\ ~On(w, routing')
    BY <1>1, <2>1, <2>3 DEF Stays, Untold
  <2>4. Carries(bulk', "web", w) => fetch'[w].at = "none" BY <1>1 DEF Stays, Untold
  <2> QED BY <2>2, <2>3, <2>4 DEF Untold
<1>4. Written(w)' BY <1>1 DEF Stays, Written, Early, Reads
<1>5. Fetched(w)' BY <1>1 DEF Stays, Fetched, Untold
<1>6. Flowing(w)'
  <2> SUFFICES ASSUME faults' = 0, Reads(view'[w])
               PROVE  /\ Follows(w, view'[w], stream'[w].q, routing')
                      /\ stream'[w].listed => Leads(w, view'[w], stream'[w].q, routing', uplink', fetch'[w])
    BY DEF Flowing
  <2>1. ~Early(w)' BY DEF Early, Reads
  <2>2. view'[w] = view[w] /\ stream'[w].q = stream[w].q /\ (stream'[w].listed => stream[w].listed)
    BY <2>1 DEF Stays
  <2>3. Reads(view[w]) /\ faults = 0 BY <2>2 DEF Stays
  <2>4. On(w, routing') <=> On(w, routing) BY DEF Stays
  <2>5. On(w, routing') => routing' = routing BY <2>4 DEF Stays
  <2>6. Follows(w, view'[w], stream'[w].q, routing') BY <1>1, <2>2, <2>3, <2>4, <2>5 DEF Flowing, Follows
  <2>7. ASSUME stream'[w].listed PROVE Leads(w, view'[w], stream'[w].q, routing', uplink', fetch'[w])
    <3> SUFFICES ASSUME Sound(stream'[w].q), On(w, routing') => routing'.kind # "error"
                 PROVE  \E b \in Nat : /\ Flight(uplink', w, Base(w, view'[w], stream'[w].q, routing'), b)
                                       /\ fetch'[w].at \in {"none", "head", "body"} => b = Coming(fetch'[w])
      BY DEF Leads
    <3> DEFINE a == Base(w, view[w], stream[w].q, routing)
    <3>1. PICK b \in Nat : Flight(uplink, w, a, b)
                          /\ (fetch[w].at \in {"none", "head", "body"} => b = Coming(fetch[w]))
      BY <1>1, <2>2, <2>3, <2>4, <2>5, <2>7 DEF Flowing, Leads
    <3>2. Base(w, view'[w], stream'[w].q, routing') = a BY <2>2, <2>4 DEF Base
    <3>3. a \in Nat BY <1>1, BaseTyped
    <3> HIDE DEF a
    <3>4. Flight(uplink', w, a, b)
      <4>1. CASE uplink' = uplink BY <3>1, <4>1
      <4>2. CASE \E ev \in PageFrames : uplink' = Append(uplink, ev) /\ ~Part(w, ev)
        BY <1>2, <3>1, <3>3, <4>2, FlightGrows
      <4>3. CASE uplink # <<>> /\ uplink' = Tail(uplink) /\ ~Part(w, Head(uplink))
        BY <1>2, <3>1, <3>3, <4>3, FlightShrinks
      <4> QED BY <4>1, <4>2, <4>3 DEF Stays
    <3>5. fetch'[w].at \in {"none", "head", "body"} => fetch'[w].at = fetch[w].at /\ Coming(fetch'[w]) = Coming(fetch[w])
      BY DEF Stays, Coming
    <3> QED BY <3>1, <3>2, <3>4, <3>5
  <2> QED BY <2>6, <2>7
<1> QED BY <1>3, <1>4, <1>5, <1>6

(* What the other services do to what pages use.                               *)
OtherTraffic ==
    /\ Quiet(bulk, bulk', "web") /\ online' = online
    /\ ~online /\ bulk = <<>> => bulk' = <<>>
    /\ loop' = loop \/ loop'.op # "refuse"
    /\ faults' = faults \/ faults' = faults + 1

LEMMA DownloadTraffic == ASSUME DownloadNext PROVE OtherTraffic
<1> DEFINE Goal == /\ online' = online /\ loop' = loop
                   /\ ~online /\ bulk = <<>> => bulk' = <<>>
                   /\ faults' = faults \/ faults' = faults + 1
<1>1. ASSUME NEW g \in Gets, GetAsks(g) PROVE Goal
  BY <1>1 DEF GetAsks, butBulk
<1>2. ASSUME NEW g \in Gets, GetTellsAgent(g) \/ RouteCancels(g) PROVE Goal
  BY <1>2 DEF GetTellsAgent, RouteCancels, Tell, Alive, butBulk
<1>3. ASSUME NEW g \in Gets, AgentTakesRead(g) \/ AgentTakesCancel(g) PROVE Goal
  BY <1>3 DEF AgentTakesRead, AgentTakesCancel, Takes, IsNext, butBulk
<1>4. ASSUME NEW g \in Gets, \/ GetFirst(g) \/ GetNext(g) \/ GetClientLeaves(g) \/ ReapSink(g)
                             \/ ReaderPosts(g) \/ RouteFinds(g) \/ RouteSends(g) \/ RouteDone(g)
                             \/ RouteStalls(g) \/ PostFails(g)
      PROVE  Goal
  BY <1>4 DEF GetFirst, GetNext, GetClientLeaves, ReapSink, ReaderPosts, RouteFinds, RouteSends,
              RouteDone, RouteStalls, PostFails, link
<1>5. ASSUME FileShrinks PROVE Goal BY <1>5 DEF FileShrinks, link
<1>6. Goal BY <1>1, <1>2, <1>3, <1>4, <1>5 DEF DownloadNext
<1>7. Quiet(bulk, bulk', "web")
  <2>1. "web" \notin ReadKinds BY DEF ReadKinds
  <2> QED BY <2>1, DownloadLink, FlowQuiet
<1> QED BY <1>6, <1>7 DEF OtherTraffic

LEMMA UploadTraffic == ASSUME UploadNext, PutTypes PROVE OtherTraffic
<1> DEFINE Goal == /\ online' = online /\ loop' = loop
                   /\ ~online /\ bulk = <<>> => bulk' = <<>>
                   /\ faults' = faults \/ faults' = faults + 1
<1>1. ASSUME NEW u \in Uploads, PutSends(u) \/ PutClientCloses(u) PROVE Goal
  BY <1>1 DEF PutSends, PutClientCloses, Tell, Alive, butBulk
<1>2. ASSUME NEW u \in Uploads, BrowserSends(u) PROVE Goal
  BY <1>2 DEF BrowserSends, butInter
<1>3. ASSUME NEW u \in Uploads, AgentTakesChunk(u) \/ AgentTakesAbort(u) PROVE Goal
  <2>1. CASE AgentTakesAbort(u) BY <2>1 DEF AgentTakesAbort, Takes, IsNext, butBulk
  <2>2. CASE AgentTakesChunk(u)
    <3>1. \A n : Assembles(u, n) => faults' = faults \/ faults' = faults + 1
      BY DEF Assembles, FirstChunk, LaterChunk, Appends, DropsUpload, WriteFails
    <3> QED BY <2>2, <3>1 DEF AgentTakesChunk, Takes, TakesInter, IsNext
  <2> QED BY <1>3, <2>1, <2>2
<1>4. ASSUME NEW u \in Uploads, \/ PutStarts(u) \/ PutClientLeaves(u) \/ ResultArrives(u)
                                \/ ResultLost(u) \/ PutTimesOut(u) \/ CleanupTick(u)
      PROVE  Goal
  BY <1>4 DEF PutStarts, PutClientLeaves, ResultArrives, ResultLost, PutTimesOut, CleanupTick,
              Loses, link
<1>5. Goal BY <1>1, <1>2, <1>3, <1>4 DEF UploadNext
<1>6. Quiet(bulk, bulk', "web")
  <2>1. "web" \notin StoreKinds BY DEF StoreKinds
  <2> QED BY <2>1, UploadLink, FlowQuiet
<1> QED BY <1>5, <1>6 DEF OtherTraffic

LEMMA ToolTraffic == ASSUME ToolNext PROVE OtherTraffic
<1> DEFINE Goal == /\ online' = online /\ loop' = loop /\ bulk' = bulk
                   /\ faults' = faults \/ faults' = faults + 1
<1>1. ASSUME NEW c \in Calls, CallSends(c) \/ TakesExec(c) PROVE Goal
  BY <1>1 DEF CallSends, TakesExec, TakesInter, IsNext, butInter
<1>2. ASSUME NEW c \in Calls, \/ CallRegisters(c) \/ CallAnswered(c) \/ CallTimesOut(c)
                              \/ CommandEnds(c) \/ CallAnswerLost(c)
      PROVE  Goal
  BY <1>2 DEF CallRegisters, CallAnswered, CallTimesOut, CommandEnds, CallAnswerLost, Loses, link
<1> QED BY <1>1, <1>2 DEF ToolNext, OtherTraffic, Quiet

LEMMA ExecTraffic == ASSUME ExecNext PROVE OtherTraffic
<1> DEFINE Goal == /\ online' = online /\ bulk' = bulk /\ faults' = faults
                   /\ loop' = loop \/ loop'.op # "refuse"
<1>1. ASSUME NEW e \in Execs, ClientStarts(e) \/ ClientWrites(e) \/ ClientCloses(e) PROVE Goal
  BY <1>1 DEF ClientStarts, ClientWrites, ClientCloses, butInter
<1>2. ASSUME NEW e \in Execs, TakesStart(e) \/ TakesInput(e) \/ TakesClose(e) PROVE Goal
  <2>1. CASE TakesStart(e) BY <2>1 DEF TakesStart, butInter
  <2>2. CASE TakesInput(e) BY <2>2 DEF TakesInput, Idle
  <2>3. CASE TakesClose(e) BY <2>3 DEF TakesClose, Closes
  <2> QED BY <1>2, <2>1, <2>2, <2>3
<1>3. ASSUME NEW e \in Execs, InputQueued(e) \/ CloseSettles(e) \/ CloseEnds(e) \/ ShutdownCloses(e)
      PROVE  Goal
  BY <1>3 DEF InputQueued, CloseSettles, CloseEnds, ShutdownCloses, Closes, Idle
<1>4. ASSUME NEW e \in Execs, Watcher(e) \/ IdleTimeout(e) PROVE Goal
  BY <1>4 DEF Watcher, IdleTimeout, ReadsOutput, ReadsEof, ReaderCancelled, ReaderEnds, Stops, link
<1>5. ASSUME NEW e \in Execs, \/ Writer(e) \/ ChildReads(e) \/ ChildWrites(e) \/ ChildCloses(e)
                              \/ ChildEnds(e)
      PROVE  Goal
  BY <1>5 DEF Writer, WriterReceives, WriteFailsClosed, ChildReads, ChildWrites, ChildCloses,
              ChildEnds, link
<1>6. Goal BY <1>1, <1>2, <1>3, <1>4, <1>5 DEF ExecNext, MainLoop
<1> QED BY <1>6 DEF OtherTraffic, Quiet

LEMMA BesideTraffic == ASSUME Beside PROVE OtherTraffic
<1>1. UNCHANGED link BY BesideLink
<1>2. faults' = faults \/ faults' = faults + 1
  <2>1. CASE UNCHANGED faults BY <2>1
  <2>2. CASE MapsNext
    <3>1. ASSUME NEW m \in Maps, MapOpens(m) \/ MapExpires(m) PROVE UNCHANGED faults
      BY <3>1 DEF MapOpens, MapExpires
    <3>2. ASSUME NEW v \in Visits, VisitLooks(v) \/ VisitLeft(v) \/ SocketEnds(v)
          PROVE  UNCHANGED faults
      BY <3>2 DEF VisitLooks, VisitLeft, SocketEnds, mapsElse
    <3>3. ASSUME NEW v \in Visits, VisitRuns(v) PROVE UNCHANGED faults
      BY <3>3 DEF VisitRuns, VisitQueues, VisitAdmitted, VisitTooLate, VisitTakes, VisitOpens,
                  VisitSends, VisitFails, VisitTimesOut, VisitAnswered, VisitReads, VisitEnds,
                  VisitKeeps, SocketCut, SocketEnds, mapsElse
    <3>4. ASSUME NEW c \in Visits, TargetCloses(c) \/ CloseNoticed(c) \/ PipeAges(c)
          PROVE  faults' = faults \/ faults' = faults + 1
      BY <3>4 DEF TargetCloses, CloseNoticed, PipeAges, mapsElse
    <3>5. CASE RuntimesSwept BY <3>5 DEF RuntimesSwept
    <3> QED BY <2>2, <3>1, <3>2, <3>3, <3>4, <3>5 DEF MapsNext
  <2> QED BY <2>1, <2>2 DEF Beside
<1> QED BY <1>1, <1>2 DEF OtherTraffic, link, Quiet

LEMMA PageSteps ==
    ASSUME [Next]_vars, PutTypes
    PROVE  WebNext \/ AgentDrops \/ AgentReturns \/ (UNCHANGED pages /\ OtherTraffic)
<1>1. CASE DownloadNext BY <1>1, DownloadTraffic DEF Next, vars, pages, AgentDrops, AgentReturns
<1>2. CASE UploadNext BY <1>2, UploadTraffic DEF Next, vars, pages, AgentDrops, AgentReturns
<1>3. CASE ToolNext BY <1>3, ToolTraffic DEF Next, vars, pages, AgentDrops, AgentReturns
<1>4. CASE ExecNext BY <1>4, ExecTraffic DEF Next, vars, pages, AgentDrops, AgentReturns
<1>5. CASE Beside BY <1>5, BesideTraffic DEF Next, vars, pages, AgentDrops, AgentReturns
<1>6. CASE UNCHANGED vars BY <1>6 DEF vars, pages, link, OtherTraffic, Quiet
<1> QED BY <1>1, <1>2, <1>3, <1>4, <1>5, <1>6 DEF Next

(* A step of one request.                                                      *)
LEMMA OwnStep ==
    ASSUME PageInv, PageTypes', NEW v \in Pages, online' = online, faults' = faults,
           Once(bulk', "web"), ~online => bulk' = <<>>,
           \A w \in Pages \ {v} :
              /\ view'[w] = view[w] /\ stream'[w] = stream[w] /\ fetch'[w] = fetch[w]
              /\ Carries(bulk', "web", w) => Carries(bulk, "web", w)
              /\ Refusing(w)' => Refusing(w),
           \/ routing' = routing
           \/ \A w \in Pages \ {v} : ~On(w, routing) /\ ~On(w, routing'),
           uplink' = uplink \/ \E ev \in PageFrames : ev.id = v /\ uplink' = Append(uplink, ev),
           Stays(v) \/ (Untold(v)' /\ Written(v)' /\ Fetched(v)' /\ Flowing(v)')
    PROVE  PageInv'
<1>1. ASSUME NEW w \in Pages \ {v} PROVE Stays(w)
  <2>1. \/ uplink' = uplink
        \/ \E ev \in PageFrames : uplink' = Append(uplink, ev) /\ ~Part(w, ev) /\ (Early(w) => ev.id # w)
    BY DEF Part
  <2>2. routing' = routing \/ (~On(w, routing) /\ ~On(w, routing')) OBVIOUS
  <2>3. view'[w] = view[w] /\ stream'[w] = stream[w] /\ fetch'[w] = fetch[w] OBVIOUS
  <2>4. Carries(bulk', "web", w) => Carries(bulk, "web", w) OBVIOUS
  <2>5. Refusing(w)' => Refusing(w) OBVIOUS
  <2> QED BY <2>1, <2>2, <2>3, <2>4, <2>5 DEF Stays
<1>2. ASSUME NEW w \in Pages PROVE Untold(w)' /\ Written(w)' /\ Fetched(w)' /\ Flowing(w)'
  <2>1. Stays(w) \/ (w = v /\ Untold(v)' /\ Written(v)' /\ Fetched(v)' /\ Flowing(v)')
    BY <1>1
  <2> QED BY <2>1, StaysKeeps
<1> QED BY <1>2 DEF PageInv

(* A step that is nobody's.                                                    *)
LEMMA AllStay ==
    ASSUME PageInv, PageTypes', Once(bulk', "web"), ~online' => bulk' = <<>>,
           \A w \in Pages : Stays(w)
    PROVE  PageInv'
BY StaysKeeps DEF PageInv

LEMMA OthersSteps ==
    ASSUME PageInv, UNCHANGED pages, OtherTraffic, LinkTypes
    PROVE  PageInv'
<1>1. bulk \in Seq(Messages(BulkKinds)) BY DEF LinkTypes
<1>2. Once(bulk', "web") /\ \A w : Carries(bulk', "web", w) => Carries(bulk, "web", w)
  BY <1>1, QuietKeeps DEF OtherTraffic, PageInv
<1>3. PageTypes' BY DEF PageInv, PageTypes, pages, OtherTraffic
<1>4. ~online' => bulk' = <<>> BY DEF OtherTraffic, PageInv
<1>5. faults \in Nat /\ (faults' = 0 => faults = 0) BY DEF PageInv, PageTypes, OtherTraffic
<1>6. ASSUME NEW w \in Pages PROVE Stays(w)
  <2>1. Refusing(w)' => Refusing(w) BY DEF OtherTraffic, Refusing
  <2> QED BY <1>2, <1>5, <2>1 DEF Stays, pages, OtherTraffic
<1> QED BY <1>2, <1>3, <1>4, <1>6, AllStay

(* Steps of the handler and the guard that only leave the page.                *)
LEMMA HandlerSteps ==
    ASSUME PageInv, NEW v \in Pages,
           WebAsks(v) \/ WebRegisters(v) \/ WebClientLeaves(v) \/ SweepStream(v), gen \in Nat
    PROVE  PageInv'
<1>1. view[v] \in ViewRecords /\ stream[v] \in StreamRecords BY DEF PageInv, PageTypes
<1>2. NoStream \in StreamRecords BY DEF NoStream, StreamRecords
<1>3. UNCHANGED <<fetch, uplink, routing, link, faults>>
  BY DEF WebAsks, WebRegisters, WebClientLeaves, SweepStream
<1>4. /\ view' \in [Pages -> ViewRecords] /\ stream' \in [Pages -> StreamRecords]
      /\ \A w \in Pages \ {v} : view'[w] = view[w] /\ stream'[w] = stream[w]
      /\ view'[v].body = view[v].body
      /\ \/ view'[v] = view[v] /\ stream'[v].q = stream[v].q /\ (stream'[v].listed => stream[v].listed)
         \/ Early(v) /\ Early(v)' /\ stream'[v].q = <<>> /\ fetch[v].at = "none"
         \/ ~Early(v)' /\ ~Reads(view'[v]) /\ view'[v].at # "whole" /\ (stream'[v].listed => stream[v].listed)
  <2>1. CASE WebAsks(v)
    <3>1. view' = [view EXCEPT ![v].at = IF online THEN "asking" ELSE "offline", ![v].gen = gen]
          /\ stream' = stream /\ Early(v)
      BY <2>1 DEF WebAsks, Early
    <3>2. stream[v].q = <<>> /\ fetch[v].at = "none" BY <3>1 DEF PageInv, Untold
    <3> QED BY <1>1, <3>1, <3>2 DEF PageInv, PageTypes, ViewRecords, ViewStates, Early, Reads
  <2>2. CASE WebRegisters(v)
    <3>1. Early(v) BY <2>2 DEF WebRegisters, Early
    <3>2. stream[v].q = <<>> /\ fetch[v].at = "none" BY <3>1 DEF PageInv, Untold
    <3>3. CASE view' = [view EXCEPT ![v].at = "too many"] /\ stream' = stream
      BY <1>1, <3>1, <3>2, <3>3 DEF PageInv, PageTypes, ViewRecords, ViewStates, Early, Reads
    <3>4. CASE /\ view' = [view EXCEPT ![v].at = "sending"]
               /\ stream' = [stream EXCEPT ![v] = [NoStream EXCEPT !.listed = TRUE, !.open = TRUE]]
      <4> DEFINE x == [NoStream EXCEPT !.listed = TRUE, !.open = TRUE]
      <4>1. x \in StreamRecords /\ x.q = <<>> BY <1>2 DEF StreamRecords, NoStream
      <4> HIDE DEF x
      <4>2. stream' \in [Pages -> StreamRecords] /\ stream'[v] = x /\ \A w \in Pages \ {v} : stream'[w] = stream[w]
        BY <3>4, <4>1 DEF x, PageInv, PageTypes
      <4>3. view' \in [Pages -> ViewRecords] /\ \A w \in Pages \ {v} : view'[w] = view[w]
        BY <1>1, <3>4 DEF PageInv, PageTypes, ViewRecords, ViewStates
      <4>4. view'[v].at = "sending" /\ view'[v].body = view[v].body
        BY <1>1, <3>4 DEF PageInv, PageTypes, ViewRecords
      <4> QED BY <3>1, <3>2, <4>1, <4>2, <4>3, <4>4 DEF Early
    <3> QED BY <2>2, <3>3, <3>4 DEF WebRegisters
  <2>3. CASE WebClientLeaves(v)
    <3>1. /\ view' = [view EXCEPT ![v].at = "gone"]
          /\ stream' = [stream EXCEPT ![v].dropped = TRUE, ![v].open = FALSE, ![v].q = <<>>]
      BY <2>3 DEF WebClientLeaves, GuardDropped
    <3>2. <<>> \in Seq(PageFrames) OBVIOUS
    <3> QED BY <1>1, <3>1, <3>2 DEF PageInv, PageTypes, ViewRecords, ViewStates, StreamRecords, Early, Reads
  <2>4. CASE SweepStream(v)
    BY <1>1, <2>4 DEF SweepStream, PageInv, PageTypes, StreamRecords
  <2> QED BY <2>1, <2>2, <2>3, <2>4
<1>5. PageTypes' BY <1>3, <1>4 DEF PageInv, PageTypes
<1>6. Stays(v) BY <1>3, <1>4 DEF Stays, link, Refusing
<1>7. ~online => bulk' = <<>> BY <1>3 DEF PageInv, link
<1> QED BY <1>3, <1>4, <1>5, <1>6, <1>7, OwnStep DEF link, PageInv, Refusing

(* A cancel tells the agent of no new request.                                 *)
LEMMA CancelQuiet ==
    ASSUME PageInv, LinkTypes, NEW v, bulk' = bulk \/ (online /\ Tell(gen, "webcancel", v, 0))
    PROVE  /\ Once(bulk', "web") /\ \A w : Carries(bulk', "web", w) => Carries(bulk, "web", w)
           /\ ~online => bulk' = <<>>
<1>1. bulk \in Seq(Messages(BulkKinds)) BY DEF LinkTypes
<1>2. Quiet(bulk, bulk', "web")
  <2> DEFINE m == [kind |-> "webcancel", id |-> v, index |-> 0]
  <2>1. bulk' = bulk \/ bulk' = Append(bulk, m) BY DEF Tell
  <2>2. m.kind # "web" OBVIOUS
  <2> QED BY <2>1, <2>2 DEF Quiet
<1> QED BY <1>1, <1>2, QuietKeeps DEF PageInv

LEMMA SendsCancelKinds ==
    ASSUME PageInv, NEW v \in Pages, NEW x \in StreamRecords, SendsCancel(v, x)
    PROVE  /\ stream' \in [Pages -> StreamRecords] /\ \A w \in Pages \ {v} : stream'[w] = stream[w]
           /\ stream'[v].q = x.q /\ stream'[v].listed = x.listed
           /\ bulk' = bulk \/ (online /\ Tell(gen, "webcancel", v, 0))
<1>1. \E c \in {"none", "waits", "given up"} : stream' = [stream EXCEPT ![v] = [x EXCEPT !.cancel = c]]
  <2>1. x.cancel \in {"none", "waits", "given up"} BY DEF StreamRecords
  <2>2. CASE online /\ ~Room(gen) BY <2>2 DEF SendsCancel
  <2>3. CASE ~(online /\ ~Room(gen)) BY <2>1, <2>3 DEF SendsCancel
  <2> QED BY <2>2, <2>3
<1>2. PICK c \in {"none", "waits", "given up"} : stream' = [stream EXCEPT ![v] = [x EXCEPT !.cancel = c]]
  BY <1>1
<1>3. [x EXCEPT !.cancel = c] \in StreamRecords BY DEF StreamRecords
<1>4. [x EXCEPT !.cancel = c].q = x.q /\ [x EXCEPT !.cancel = c].listed = x.listed BY DEF StreamRecords
<1>5. bulk' = bulk \/ (online /\ Tell(gen, "webcancel", v, 0)) BY DEF SendsCancel
<1> HIDE DEF SendsCancel
<1> QED BY <1>2, <1>3, <1>4, <1>5 DEF PageInv, PageTypes

LEMMA CancelSteps ==
    ASSUME PageInv, LinkTypes, NEW v \in Pages, GuardTask(v) \/ CancelWaits(v)
    PROVE  PageInv'
<1>1. stream[v] \in StreamRecords BY DEF PageInv, PageTypes
<1>2. UNCHANGED <<view, fetch, uplink, routing, butBulk, faults>>
  BY DEF GuardTask, CancelWaits
<1>3. /\ stream' \in [Pages -> StreamRecords] /\ \A w \in Pages \ {v} : stream'[w] = stream[w]
      /\ stream'[v].q = stream[v].q /\ (stream'[v].listed => stream[v].listed)
      /\ bulk' = bulk \/ (online /\ Tell(gen, "webcancel", v, 0))
  <2>1. CASE GuardTask(v)
    <3> DEFINE x == [stream[v] EXCEPT !.dropped = FALSE, !.listed = FALSE]
    <3>1. x \in StreamRecords /\ x.q = stream[v].q /\ ~x.listed BY <1>1 DEF StreamRecords
    <3>2. SendsCancel(v, x) \/ (stream' = [stream EXCEPT ![v] = x] /\ UNCHANGED bulk)
      BY <2>1 DEF GuardTask
    <3> HIDE DEF x
    <3>3. CASE SendsCancel(v, x) BY <3>1, <3>3, SendsCancelKinds
    <3>4. CASE stream' = [stream EXCEPT ![v] = x] /\ UNCHANGED bulk
      BY <3>1, <3>4 DEF PageInv, PageTypes
    <3> QED BY <3>2, <3>3, <3>4
  <2>2. CASE CancelWaits(v)
    <3>1. \E c \in {"none", "given up"} : stream' = [stream EXCEPT ![v].cancel = c]
      BY <2>2 DEF CancelWaits
    <3>2. bulk' = bulk \/ (online /\ Tell(gen, "webcancel", v, 0)) BY <2>2 DEF CancelWaits, Tell, Alive
    <3>3. PICK c \in {"none", "given up"} : stream' = [stream EXCEPT ![v] = [stream[v] EXCEPT !.cancel = c]]
      BY <1>1, <3>1 DEF PageInv, PageTypes
    <3> DEFINE x == [stream[v] EXCEPT !.cancel = c]
    <3>4. x \in StreamRecords /\ x.q = stream[v].q /\ x.listed = stream[v].listed
      BY <1>1 DEF StreamRecords
    <3> HIDE DEF x
    <3>5. stream' = [stream EXCEPT ![v] = x] BY <3>3 DEF x
    <3> QED BY <3>2, <3>4, <3>5 DEF PageInv, PageTypes
  <2> QED BY <2>1, <2>2
<1>4. /\ Once(bulk', "web") /\ \A w : Carries(bulk', "web", w) => Carries(bulk, "web", w)
      /\ ~online => bulk' = <<>>
  BY <1>3, CancelQuiet
<1>5. PageTypes' BY <1>2, <1>3 DEF PageInv, PageTypes
<1>6. Stays(v) BY <1>2, <1>3, <1>4 DEF Stays, butBulk, Refusing
<1> QED BY <1>2, <1>3, <1>4, <1>5, <1>6, OwnStep DEF butBulk, Refusing

(* The request is sent: nothing of the page is anywhere yet.                   *)
LEMMA SendsStepWeb ==
    ASSUME PageInv, LinkTypes, NEW v \in Pages, WebSends(v)
    PROVE  PageInv'
<1>1. view[v] \in ViewRecords /\ stream[v] \in StreamRecords BY DEF PageInv, PageTypes
<1>2. Early(v) /\ UNCHANGED <<fetch, uplink, routing, butBulk, faults>> BY DEF WebSends, Early
<1>3. Untold(v) BY DEF PageInv
<1>4. CASE Finishes(v, "busy") /\ UNCHANGED bulk
  <2>1. /\ view' = [view EXCEPT ![v].at = "busy"]
        /\ stream' = [stream EXCEPT ![v].listed = FALSE, ![v].open = FALSE, ![v].q = <<>>]
    BY <1>4 DEF Finishes
  <2>2. <<>> \in Seq(PageFrames) OBVIOUS
  <2>3. PageTypes' BY <1>1, <1>2, <2>1, <2>2 DEF PageInv, PageTypes, ViewRecords, ViewStates, StreamRecords
  <2>4. view'[v].body = view[v].body /\ view'[v].at = "busy" /\ ~stream'[v].listed
    BY <1>1, <2>1 DEF PageInv, PageTypes, ViewRecords, StreamRecords
  <2>5. Stays(v) BY <1>2, <1>4, <2>4 DEF Stays, butBulk, Refusing, Early, Reads
  <2>6. \A w \in Pages \ {v} : view'[w] = view[w] /\ stream'[w] = stream[w] BY <2>1 DEF PageInv, PageTypes
  <2>7. Once(bulk', "web") /\ (~online => bulk' = <<>>) BY <1>4 DEF PageInv
  <2> QED BY <1>2, <1>4, <2>3, <2>5, <2>6, <2>7, OwnStep DEF butBulk, Refusing
<1>5. CASE /\ Tell(view[v].gen, "web", v, 0)
           /\ view' = [view EXCEPT ![v].at = "waiting"]
           /\ UNCHANGED stream
  <2> DEFINE m == [kind |-> "web", id |-> v, index |-> 0]
  <2>1. bulk \in Seq(Messages(BulkKinds)) BY DEF LinkTypes
  <2>2. bulk' = bulk \/ (online /\ bulk' = Append(bulk, m)) BY <1>5 DEF Tell, Alive
  <2>3. /\ Once(bulk', "web")
        /\ \A w : Carries(bulk', "web", w) => Carries(bulk, "web", w) \/ w = v
    <3>1. m.kind = "web" /\ m.id = v /\ ~Carries(bulk, "web", v) /\ Once(bulk, "web")
      BY <1>2, <1>3 DEF Untold, PageInv
    <3> HIDE DEF m
    <3>2. CASE bulk' = bulk BY <3>1, <3>2
    <3>3. CASE bulk' = Append(bulk, m) BY <2>1, <3>1, <3>3, SentIsThere
    <3> QED BY <2>2, <3>2, <3>3
  <2>4. ~online => bulk' = <<>> BY <2>2 DEF PageInv
  <2>5. PageTypes' BY <1>1, <1>2, <1>5 DEF PageInv, PageTypes, ViewRecords, ViewStates
  <2>6. \A w \in Pages \ {v} : view'[w] = view[w] BY <1>5 DEF PageInv, PageTypes
  <2>7. view'[v].at = "waiting" /\ view'[v].body = <<>>
    BY <1>1, <1>2, <1>3, <1>5 DEF PageInv, PageTypes, ViewRecords, Untold
  <2>8. /\ fetch[v].at = "none" /\ stream[v].q = <<>> /\ ~On(v, routing)
        /\ \A i \in DOMAIN uplink : uplink[i].id # v
    BY <1>2, <1>3 DEF Untold
  <2>9. Untold(v)' /\ Written(v)' /\ Fetched(v)'
    <3>1. Fetched(v) BY DEF PageInv
    <3> QED BY <1>2, <1>5, <2>7, <2>8, <3>1 DEF Untold, Written, Fetched, Early, butBulk
  <2>10. Flowing(v)'
    <3>1. Read(view'[v]) = 0 /\ Coming(fetch'[v]) = 0 /\ stream'[v].q = <<>> /\ ~On(v, routing')
      BY <1>2, <1>5, <2>7, <2>8 DEF Read, Coming
    <3>2. Base(v, view'[v], stream'[v].q, routing') = 0 BY <3>1 DEF Base
    <3>3. Flight(uplink', v, 0, 0)
      <4>1. uplink \in Seq(PageFrames) BY DEF PageInv, PageTypes
      <4> QED BY <1>2, <2>8, <4>1, FlightNone
    <3>4. Follows(v, view'[v], stream'[v].q, routing') BY <3>1 DEF Follows
    <3>5. Leads(v, view'[v], stream'[v].q, routing', uplink', fetch'[v]) BY <3>1, <3>2, <3>3 DEF Leads
    <3> QED BY <3>4, <3>5 DEF Flowing
  <2> QED BY <1>2, <1>5, <2>3, <2>4, <2>5, <2>6, <2>9, <2>10, OwnStep DEF butBulk, Refusing
<1> QED BY <1>4, <1>5 DEF WebSends

(* The first event of a sink is read.                                          *)
LEMMA TakenEvent ==
    ASSUME NEW w \in Pages, NEW q \in Seq(PageFrames), q # <<>>
    PROVE  /\ Head(q) \in PageFrames /\ Tail(q) \in Seq(PageFrames) /\ Len(Tail(q)) = Len(q) - 1
           /\ Head(q) = q[1] /\ \A i \in DOMAIN Tail(q) : i + 1 \in DOMAIN q /\ Tail(q)[i] = q[i + 1]
           /\ Head(q).kind # "error" /\ Sound(Tail(q)) => Sound(q)
<1>1. DOMAIN q = 1 .. Len(q) /\ Len(q) \in Nat \ {0} /\ \A i \in 1 .. Len(q) : q[i] \in PageFrames OBVIOUS
<1>2. /\ DOMAIN Tail(q) = 1 .. Len(q) - 1 /\ Head(q) = q[1] /\ Tail(q) \in Seq(PageFrames)
      /\ Len(Tail(q)) = Len(q) - 1 /\ \A i \in 1 .. Len(q) - 1 : Tail(q)[i] = q[i + 1]
  OBVIOUS
<1>3. ASSUME q[1].kind # "error", Sound(Tail(q)), NEW i \in DOMAIN q PROVE q[i].kind # "error"
  <2>1. CASE i = 1 BY <1>3, <2>1
  <2>2. CASE i # 1
    <3>1. i - 1 \in DOMAIN Tail(q) /\ Tail(q)[i - 1] = q[i] BY <1>1, <1>2, <2>2
    <3> QED BY <1>3, <3>1 DEF Sound
  <2> QED BY <2>1, <2>2
<1> QED BY <1>1, <1>2, <1>3 DEF Sound

(* What was read is one more, and the sink holds one less.                     *)
LEMMA ReadingOn ==
    ASSUME NEW w \in Pages, NEW x \in ViewRecords, NEW y \in ViewRecords, NEW q \in Seq(PageFrames),
           q # <<>>, Head(q).kind # "error", Read(x) \in Nat, Read(y) = Read(x) + 1,
           NEW r \in PageFrames \union {NoFrame}, NEW u, NEW f
    PROVE  /\ Follows(w, x, q, r) => Follows(w, y, Tail(q), r)
           /\ Leads(w, x, q, r, u, f) => Leads(w, y, Tail(q), r, u, f)
<1>1. Len(q) \in Nat \ {0} OBVIOUS
<1>2. /\ Len(Tail(q)) = Len(q) - 1
      /\ Head(q) = q[1] /\ \A i \in DOMAIN Tail(q) : i + 1 \in DOMAIN q /\ Tail(q)[i] = q[i + 1]
      /\ Sound(Tail(q)) => Sound(q)
  BY TakenEvent
<1>3. DOMAIN Tail(q) = 1 .. Len(q) - 1 /\ DOMAIN q = 1 .. Len(q) OBVIOUS
<1>4. ASSUME Follows(w, x, q, r) PROVE Follows(w, y, Tail(q), r)
  <2>1. ASSUME NEW i \in DOMAIN Tail(q), \A j \in 1 .. i : Tail(q)[j].kind # "error"
        PROVE  Pos(w, Tail(q)[i]) = Read(y) + i - 1
    <3>1. \A j \in 1 .. i + 1 : q[j].kind # "error"
      <4> SUFFICES ASSUME NEW j \in 1 .. i + 1 PROVE q[j].kind # "error" OBVIOUS
      <4>1. CASE j = 1 BY <1>2, <4>1
      <4>2. CASE j # 1
        <5>1. j - 1 \in 1 .. i /\ j - 1 \in DOMAIN Tail(q) BY <1>3, <4>2
        <5>2. Tail(q)[j - 1] = q[j] BY <1>2, <5>1
        <5> QED BY <2>1, <5>1, <5>2
      <4> QED BY <4>1, <4>2
    <3>2. i + 1 \in DOMAIN q /\ Tail(q)[i] = q[i + 1] BY <1>2
    <3>3. Pos(w, q[i + 1]) = Read(x) + (i + 1) - 1 BY <1>4, <3>1, <3>2 DEF Follows
    <3> QED BY <1>3, <3>2, <3>3
  <2>2. On(w, r) /\ r.kind # "error" /\ Sound(Tail(q)) => Pos(w, r) = Read(y) + Len(Tail(q))
    BY <1>1, <1>2, <1>4 DEF Follows
  <2> QED BY <2>1, <2>2 DEF Follows
<1>5. Base(w, y, Tail(q), r) = Base(w, x, q, r)
  <2>1. CASE On(w, r) BY <1>1, <1>2, <2>1 DEF Base
  <2>2. CASE ~On(w, r) BY <1>1, <1>2, <2>2 DEF Base
  <2> QED BY <2>1, <2>2
<1>6. ASSUME Leads(w, x, q, r, u, f) PROVE Leads(w, y, Tail(q), r, u, f)
  BY <1>2, <1>5, <1>6 DEF Leads
<1> QED BY <1>4, <1>6

(* The request is over: the receiving end goes, and with it what it held.      *)
LEMMA LeftKinds ==
    ASSUME PageTypes, NEW v \in Pages, NEW outcome \in ViewStates,
           Finishes(v, outcome) \/ GuardDropped(v, outcome)
    PROVE  /\ view' \in [Pages -> ViewRecords] /\ view'[v].body = view[v].body /\ view'[v].at = outcome
           /\ stream' \in [Pages -> StreamRecords] /\ (stream'[v].listed => stream[v].listed)
           /\ \A w \in Pages \ {v} : view'[w] = view[w] /\ stream'[w] = stream[w]
<1>1. <<>> \in Seq(PageFrames) OBVIOUS
<1>2. view[v] \in ViewRecords /\ stream[v] \in StreamRecords BY DEF PageTypes
<1>3. view' = [view EXCEPT ![v].at = outcome] BY DEF Finishes, GuardDropped
<1>4. /\ view' \in [Pages -> ViewRecords] /\ view'[v].body = view[v].body /\ view'[v].at = outcome
      /\ \A w \in Pages \ {v} : view'[w] = view[w]
  BY <1>2, <1>3 DEF PageTypes, ViewRecords
<1>5. CASE stream' = [stream EXCEPT ![v].listed = FALSE, ![v].open = FALSE, ![v].q = <<>>]
  BY <1>1, <1>2, <1>4, <1>5 DEF PageTypes, StreamRecords
<1>6. CASE stream' = [stream EXCEPT ![v].dropped = TRUE, ![v].open = FALSE, ![v].q = <<>>]
  BY <1>1, <1>2, <1>4, <1>6 DEF PageTypes, StreamRecords
<1> QED BY <1>5, <1>6 DEF Finishes, GuardDropped

LEMMA FirstStep ==
    ASSUME PageInv, NEW v \in Pages, WebFirst(v)
    PROVE  PageInv'
<1>1. /\ view[v] \in ViewRecords /\ stream[v] \in StreamRecords /\ fetch[v] \in FetchRecords
      /\ view[v].at = "waiting"
  BY DEF PageInv, PageTypes, WebFirst
<1>2. UNCHANGED <<fetch, uplink, routing, link, faults>> BY DEF WebFirst
<1>3. Once(bulk', "web") /\ (~online => bulk' = <<>>) BY <1>2 DEF link, PageInv
<1>4. CASE \E outcome \in {"error", "timeout"} : Finishes(v, outcome) \/ GuardDropped(v, outcome)
  <2>1. PICK outcome \in {"error", "timeout"} : Finishes(v, outcome) \/ GuardDropped(v, outcome) BY <1>4
  <2>2. outcome \in ViewStates /\ PageTypes BY DEF ViewStates, PageInv
  <2>3. /\ view' \in [Pages -> ViewRecords] /\ view'[v].body = view[v].body /\ view'[v].at = outcome
        /\ \A w \in Pages \ {v} : view'[w] = view[w]
    BY <2>1, <2>2, LeftKinds
  <2>4. /\ stream' \in [Pages -> StreamRecords] /\ (stream'[v].listed => stream[v].listed)
        /\ \A w \in Pages \ {v} : stream'[w] = stream[w]
    BY <2>1, <2>2, LeftKinds
  <2>5. PageTypes' BY <1>2, <2>3, <2>4 DEF PageInv, PageTypes
  <2>6. Stays(v) BY <1>2, <2>3, <2>4 DEF Stays, link, Refusing, Early, Reads
  <2> QED BY <1>2, <1>3, <2>3, <2>4, <2>5, <2>6, OwnStep DEF link, Refusing
<1>5. CASE /\ stream[v].q # <<>> /\ Head(stream[v].q).kind = "head"
           /\ view' = [view EXCEPT ![v].at = "body"] /\ Received(v)
  <2> DEFINE q == stream[v].q
  <2>1. q \in Seq(PageFrames) /\ view[v].body \in Seq(Nat) BY <1>1 DEF StreamRecords, ViewRecords
  <2>2. Tail(q) \in Seq(PageFrames) BY <1>5, <2>1
  <2>3. /\ stream' \in [Pages -> StreamRecords] /\ stream'[v].q = Tail(q)
        /\ stream'[v].listed = stream[v].listed /\ \A w \in Pages \ {v} : stream'[w] = stream[w]
    BY <1>1, <1>5, <2>2 DEF Received, PageInv, PageTypes, StreamRecords
  <2>4. /\ view' \in [Pages -> ViewRecords] /\ view'[v].body = view[v].body /\ view'[v].at = "body"
        /\ \A w \in Pages \ {v} : view'[w] = view[w]
    BY <1>1, <1>5 DEF PageInv, PageTypes, ViewRecords, ViewStates
  <2>5. PageTypes' BY <1>2, <2>3, <2>4 DEF PageInv, PageTypes
  <2>6. Untold(v) /\ Written(v) /\ Fetched(v) /\ Flowing(v) BY DEF PageInv
  <2>7. Untold(v)' /\ Written(v)' /\ Fetched(v)'
    BY <1>1, <1>2, <2>3, <2>4, <2>6 DEF Untold, Written, Fetched, Early, link
  <2>8. Flowing(v)'
    <3>1. view[v].body = <<>> BY <1>1, <2>6 DEF Written
    <3>2. Read(view[v]) \in Nat /\ Read(view'[v]) = Read(view[v]) + 1 BY <1>1, <2>4, <3>1 DEF Read
    <3>3. faults' = 0 => Follows(v, view[v], q, routing)
                         /\ (stream[v].listed => Leads(v, view[v], q, routing, uplink, fetch[v]))
      BY <1>1, <1>2, <2>6 DEF Flowing, Reads
    <3>4. routing \in PageFrames \union {NoFrame} /\ view'[v] \in ViewRecords
      BY <2>4 DEF PageInv, PageTypes
    <3>5. Head(q).kind # "error" BY <1>5
    <3> HIDE DEF q
    <3>6. q # <<>> BY <1>5 DEF q
    <3>7. stream'[v].q = Tail(q) BY <2>3
    <3>8. faults' = 0 => Follows(v, view'[v], Tail(q), routing)
                         /\ (stream[v].listed => Leads(v, view'[v], Tail(q), routing, uplink, fetch[v]))
      BY <1>1, <2>1, <3>2, <3>3, <3>4, <3>5, <3>6, ReadingOn
    <3> QED BY <1>2, <2>3, <3>7, <3>8 DEF Flowing
  <2> QED BY <1>2, <1>3, <2>3, <2>4, <2>5, <2>7, <2>8, OwnStep DEF link, Refusing
<1> QED BY <1>4, <1>5 DEF WebFirst, NoEvent

LEMMA BodyStep ==
    ASSUME PageInv, NEW v \in Pages, WebBody(v)
    PROVE  PageInv'
<1>1. /\ view[v] \in ViewRecords /\ stream[v] \in StreamRecords /\ fetch[v] \in FetchRecords
      /\ view[v].at = "body"
  BY DEF PageInv, PageTypes, WebBody
<1>2. UNCHANGED <<fetch, uplink, routing, link, faults>> BY DEF WebBody
<1>3. Once(bulk', "web") /\ (~online => bulk' = <<>>) BY <1>2 DEF link, PageInv
<1>4. Untold(v) /\ Written(v) /\ Fetched(v) /\ Flowing(v) BY DEF PageInv
<1> DEFINE q == stream[v].q
<1>5. q \in Seq(PageFrames) /\ view[v].body \in Seq(Nat) BY <1>1 DEF StreamRecords, ViewRecords
<1>6. Read(view[v]) = 1 + Len(view[v].body) /\ Len(view[v].body) \in Nat BY <1>1, <1>5 DEF Read
<1>7. ASSUME q # <<>>, Head(q).kind # "error", faults = 0 PROVE Pos(v, Head(q)) = 1 + Len(view[v].body)
  <2>1. Follows(v, view[v], q, routing) BY <1>1, <1>4, <1>7 DEF Flowing, Reads
  <2>2. Head(q) = q[1] /\ 1 \in DOMAIN q BY <1>5, <1>7
  <2>3. \A j \in 1 .. 1 : q[j].kind # "error" BY <1>7, <2>2
  <2>4. Pos(v, q[1]) = Read(view[v]) + 1 - 1 BY <2>1, <2>2, <2>3 DEF Follows
  <2> QED BY <1>6, <2>2, <2>4
<1>8. ASSUME NEW outcome \in {"cut", "whole"}, Finishes(v, outcome) \/ GuardDropped(v, outcome),
             outcome = "whole" => q # <<>> /\ Head(q).kind = "end"
      PROVE  PageInv'
  <2>1. outcome \in ViewStates /\ PageTypes BY DEF ViewStates, PageInv
  <2>2. /\ view' \in [Pages -> ViewRecords] /\ view'[v].body = view[v].body /\ view'[v].at = outcome
        /\ \A w \in Pages \ {v} : view'[w] = view[w]
    BY <1>8, <2>1, LeftKinds
  <2>3. /\ stream' \in [Pages -> StreamRecords] /\ (stream'[v].listed => stream[v].listed)
        /\ \A w \in Pages \ {v} : stream'[w] = stream[w]
    BY <1>8, <2>1, LeftKinds
  <2>4. PageTypes' BY <1>2, <2>2, <2>3 DEF PageInv, PageTypes
  <2>5. Written(v)'
    <3>1. outcome = "whole" /\ faults = 0 => Len(view[v].body) = PageLen[v]
      <4> SUFFICES ASSUME outcome = "whole", faults = 0 PROVE Len(view[v].body) = PageLen[v] OBVIOUS
      <4>1. Pos(v, Head(q)) = PageLen[v] + 1 BY <1>8 DEF Pos
      <4>2. Pos(v, Head(q)) = 1 + Len(view[v].body) BY <1>7, <1>8
      <4>3. PageLen[v] \in Nat BY PagesAssumption
      <4> QED BY <1>6, <4>1, <4>2, <4>3
    <3> QED BY <1>2, <1>4, <2>2, <3>1 DEF Written
  <2>6. Untold(v)' /\ Fetched(v)' /\ Flowing(v)'
    BY <1>1, <1>2, <1>4, <2>2, <2>3 DEF Untold, Fetched, Flowing, Early, Reads, link
  <2> QED BY <1>2, <1>3, <2>2, <2>3, <2>4, <2>5, <2>6, OwnStep DEF link, Refusing
<1>9. ASSUME q # <<>>, Head(q).kind = "chunk", InOrder(v, Head(q)), Received(v),
             view' = [view EXCEPT ![v].body = Append(view[v].body, Head(q).seq)]
      PROVE  PageInv'
  <2> DEFINE body == view[v].body
             n == Head(q).seq
  <2>1. Head(q) \in PageFrames /\ Tail(q) \in Seq(PageFrames) BY <1>5, <1>9
  <2>2. n \in Nat /\ n = Len(body) BY <1>9, <2>1 DEF PageFrames, InOrder
  <2>3. Append(body, n) \in Seq(Nat) /\ Len(Append(body, n)) = Len(body) + 1
        /\ DOMAIN Append(body, n) = 1 .. Len(body) + 1
        /\ \A i \in 1 .. Len(body) : Append(body, n)[i] = body[i] /\ i \in DOMAIN body
        /\ Append(body, n)[Len(body) + 1] = n
    BY <1>5, <2>2
  <2>4. /\ stream' \in [Pages -> StreamRecords] /\ stream'[v].q = Tail(q)
        /\ stream'[v].listed = stream[v].listed /\ \A w \in Pages \ {v} : stream'[w] = stream[w]
    BY <1>1, <1>9, <2>1 DEF Received, PageInv, PageTypes, StreamRecords
  <2>5. /\ view' \in [Pages -> ViewRecords] /\ view'[v].body = Append(body, n) /\ view'[v].at = "body"
        /\ \A w \in Pages \ {v} : view'[w] = view[w]
    BY <1>1, <1>9, <2>3 DEF PageInv, PageTypes, ViewRecords, ViewStates
  <2>6. PageTypes' BY <1>2, <2>4, <2>5 DEF PageInv, PageTypes
  <2>7. Written(v)'
    <3>1. \A i \in DOMAIN body : body[i] = i - 1 BY <1>4 DEF Written
    <3>2. \A i \in DOMAIN Append(body, n) : Append(body, n)[i] = i - 1
      <4> SUFFICES ASSUME NEW i \in 1 .. Len(body) + 1 PROVE Append(body, n)[i] = i - 1 BY <2>3
      <4>1. CASE i = Len(body) + 1 BY <1>6, <2>2, <2>3, <4>1
      <4>2. CASE i # Len(body) + 1
        <5>1. i \in 1 .. Len(body) BY <1>6, <4>2
        <5> QED BY <2>3, <3>1, <5>1
      <4> QED BY <4>1, <4>2
    <3> QED BY <2>5, <3>2 DEF Written
  <2>8. Untold(v)' /\ Fetched(v)'
    BY <1>1, <1>2, <1>4, <2>4, <2>5 DEF Untold, Fetched, Early, link
  <2>9. Flowing(v)'
    <3>1. Read(view'[v]) = Read(view[v]) + 1 BY <1>6, <2>3, <2>5 DEF Read
    <3>2. faults' = 0 => Follows(v, view[v], q, routing)
                         /\ (stream[v].listed => Leads(v, view[v], q, routing, uplink, fetch[v]))
      BY <1>1, <1>2, <1>4 DEF Flowing, Reads
    <3>3. routing \in PageFrames \union {NoFrame} /\ view'[v] \in ViewRecords
      BY <2>5 DEF PageInv, PageTypes
    <3>4. Head(q).kind # "error" /\ Read(view[v]) \in Nat BY <1>6, <1>9
    <3>5. q # <<>> /\ q \in Seq(PageFrames) BY <1>5, <1>9
    <3> HIDE DEF q
    <3>6. stream'[v].q = Tail(q) BY <2>4
    <3>7. faults' = 0 => Follows(v, view'[v], Tail(q), routing)
                         /\ (stream[v].listed => Leads(v, view'[v], Tail(q), routing, uplink, fetch[v]))
      BY <1>1, <3>1, <3>2, <3>3, <3>4, <3>5, ReadingOn
    <3> QED BY <1>2, <2>4, <3>6, <3>7 DEF Flowing
  <2> QED BY <1>2, <1>3, <2>4, <2>5, <2>6, <2>7, <2>8, <2>9, OwnStep DEF link, Refusing
<1> QED BY <1>8, <1>9 DEF WebBody, NoEvent

(* The frame the relay has found a sink for is put in it.                      *)
LEMMA RoutedOn ==
    ASSUME NEW w \in Pages, NEW x \in ViewRecords, Read(x) \in Nat, NEW q \in Seq(PageFrames),
           NEW r \in PageFrames, r.id = w, NEW u, NEW f, NoFrame \notin PageFrames
    PROVE  /\ Follows(w, x, q, r) => Follows(w, x, Append(q, r), NoFrame)
           /\ Leads(w, x, q, r, u, f) => Leads(w, x, Append(q, r), NoFrame, u, f)
<1> DEFINE t == Append(q, r)
<1>1. /\ Len(q) \in Nat /\ DOMAIN q = 1 .. Len(q) /\ DOMAIN t = 1 .. Len(q) + 1 /\ Len(t) = Len(q) + 1
      /\ t[Len(q) + 1] = r /\ \A i \in 1 .. Len(q) : t[i] = q[i]
  OBVIOUS
<1> HIDE DEF t
<1>2. On(w, r) /\ ~On(w, NoFrame) BY DEF On
<1>3. Sound(t) => Sound(q) /\ r.kind # "error" BY <1>1 DEF Sound
<1>4. ASSUME Follows(w, x, q, r), NEW i \in DOMAIN t, \A j \in 1 .. i : t[j].kind # "error"
      PROVE  Pos(w, t[i]) = Read(x) + i - 1
  <2>1. CASE i \in 1 .. Len(q)
    <3>1. \A j \in 1 .. i : q[j].kind # "error" BY <1>1, <1>4, <2>1
    <3> QED BY <1>1, <1>4, <2>1, <3>1 DEF Follows
  <2>2. CASE i = Len(q) + 1
    <3>1. \A j \in 1 .. Len(q) + 1 : t[j].kind # "error" BY <1>4, <2>2
    <3>2. Sound(q) BY <1>1, <3>1 DEF Sound
    <3>3. r.kind # "error" BY <1>1, <3>1
    <3>4. Pos(w, r) = Read(x) + Len(q) BY <1>2, <1>4, <3>2, <3>3 DEF Follows
    <3> QED BY <1>1, <2>2, <3>4
  <2> QED BY <1>1, <2>1, <2>2
<1>5. Follows(w, x, q, r) => Follows(w, x, t, NoFrame) BY <1>2, <1>4 DEF Follows
<1>6. Base(w, x, t, NoFrame) = Base(w, x, q, r) BY <1>1, <1>2 DEF Base
<1>7. Leads(w, x, q, r, u, f) => Leads(w, x, t, NoFrame, u, f) BY <1>2, <1>3, <1>6 DEF Leads
<1> QED BY <1>5, <1>7 DEF t

LEMMA NoFrameApart == NoFrame \notin PageFrames
BY DEF NoFrame, PageFrames

LEMMA RoutedStep ==
    ASSUME PageInv, LinkTypes, NEW v \in Pages, FrameRouted(v)
    PROVE  PageInv'
<1>1. /\ view[v] \in ViewRecords /\ stream[v] \in StreamRecords /\ fetch[v] \in FetchRecords
      /\ routing \in PageFrames /\ routing.id = v /\ On(v, routing)
  BY DEF PageInv, PageTypes, FrameRouted, On
<1>2. UNCHANGED <<view, fetch, uplink, butBulk, faults>> /\ routing' = NoFrame BY DEF FrameRouted
<1>3. Untold(v) /\ Written(v) /\ Fetched(v) /\ Flowing(v) BY DEF PageInv
<1>4. ~Early(v) BY <1>1, <1>3 DEF Untold
<1>5. ~On(v, NoFrame) BY DEF On
<1>6. ASSUME /\ stream' \in [Pages -> StreamRecords] /\ \A w \in Pages \ {v} : stream'[w] = stream[w],
             bulk' = bulk \/ (online /\ Tell(gen, "webcancel", v, 0)),
             \/ stream'[v].q = stream[v].q /\ ~stream'[v].listed
             \/ stream'[v].q = Append(stream[v].q, routing) /\ stream'[v].listed = stream[v].listed
      PROVE  PageInv'
  <2>1. /\ Once(bulk', "web") /\ \A w : Carries(bulk', "web", w) => Carries(bulk, "web", w)
        /\ ~online => bulk' = <<>>
    BY <1>6, CancelQuiet
  <2>2. PageTypes' BY <1>2, <1>6 DEF PageInv, PageTypes
  <2>3. Untold(v)' /\ Written(v)'
    BY <1>2, <1>3, <1>4, <2>1 DEF Untold, Written, Early
  <2>4. Fetched(v)' BY <1>2, <1>3, <1>6 DEF Fetched, butBulk
  <2>5. Flowing(v)'
    <3> SUFFICES ASSUME faults = 0, Reads(view[v])
                 PROVE  /\ Follows(v, view[v], stream'[v].q, NoFrame)
                        /\ stream'[v].listed => Leads(v, view[v], stream'[v].q, NoFrame, uplink, fetch[v])
      BY <1>2 DEF Flowing
    <3>1. /\ Follows(v, view[v], stream[v].q, routing)
          /\ stream[v].listed => Leads(v, view[v], stream[v].q, routing, uplink, fetch[v])
      BY <1>3 DEF Flowing
    <3>2. Read(view[v]) \in Nat BY BaseTyped DEF PageInv
    <3>3. stream[v].q \in Seq(PageFrames) BY <1>1 DEF StreamRecords
    <3>4. CASE stream'[v].q = stream[v].q /\ ~stream'[v].listed
      BY <1>5, <3>1, <3>4 DEF Follows
    <3>5. CASE stream'[v].q = Append(stream[v].q, routing) /\ stream'[v].listed = stream[v].listed
      BY <1>1, <3>1, <3>2, <3>3, <3>5, NoFrameApart, RoutedOn
    <3> QED BY <1>6, <3>4, <3>5
  <2>6. \A w \in Pages \ {v} : ~On(w, routing) /\ ~On(w, routing')
    BY <1>1, <1>2 DEF On
  <2> QED BY <1>2, <1>6, <2>1, <2>2, <2>3, <2>4, <2>5, <2>6, OwnStep DEF butBulk, Refusing
<1>7. CASE stream' = [stream EXCEPT ![v].listed = FALSE] /\ UNCHANGED bulk
  <2>1. /\ stream' \in [Pages -> StreamRecords] /\ \A w \in Pages \ {v} : stream'[w] = stream[w]
        /\ stream'[v].q = stream[v].q /\ ~stream'[v].listed
    BY <1>1, <1>7 DEF PageInv, PageTypes, StreamRecords
  <2> QED BY <1>6, <1>7, <2>1
<1>8. CASE SendsCancel(v, [stream[v] EXCEPT !.listed = FALSE])
  <2> DEFINE x == [stream[v] EXCEPT !.listed = FALSE]
  <2>1. x \in StreamRecords /\ x.q = stream[v].q /\ x.listed = FALSE BY <1>1 DEF StreamRecords
  <2> HIDE DEF x
  <2>2. SendsCancel(v, x) BY <1>8 DEF x
  <2>3. /\ stream' \in [Pages -> StreamRecords] /\ \A w \in Pages \ {v} : stream'[w] = stream[w]
        /\ stream'[v].q = stream[v].q /\ ~stream'[v].listed
        /\ bulk' = bulk \/ (online /\ Tell(gen, "webcancel", v, 0))
    BY <2>1, <2>2, SendsCancelKinds
  <2> QED BY <1>6, <2>3
<1>9. CASE stream' = [stream EXCEPT ![v].q = Append(@, routing)] /\ UNCHANGED bulk
  <2>1. Append(stream[v].q, routing) \in Seq(PageFrames)
    <3>1. stream[v].q \in Seq(PageFrames) BY <1>1 DEF StreamRecords
    <3> QED BY <1>1, <3>1
  <2>2. /\ stream' \in [Pages -> StreamRecords] /\ \A w \in Pages \ {v} : stream'[w] = stream[w]
        /\ stream'[v].q = Append(stream[v].q, routing) /\ stream'[v].listed = stream[v].listed
    BY <1>1, <1>9, <2>1 DEF PageInv, PageTypes, StreamRecords
  <2> QED BY <1>6, <1>9, <2>2
<1> QED BY <1>7, <1>8, <1>9 DEF FrameRouted

(* The agent takes a request: it was sent once, so there has been no fetch.    *)
LEMMA TakesWebStep ==
    ASSUME PageInv, LinkTypes, NEW v \in Pages, AgentTakesWeb(v)
    PROVE  PageInv'
<1>1. /\ view[v] \in ViewRecords /\ fetch[v] \in FetchRecords
      /\ bulk \in Seq(Messages(BulkKinds)) /\ bulk # <<>>
      /\ Head(bulk).kind = "web" /\ Head(bulk).id = v /\ bulk' = Tail(bulk) /\ loop = Idle
  BY DEF PageInv, PageTypes, LinkTypes, AgentTakesWeb, Takes, IsNext
<1>2. UNCHANGED <<view, stream, uplink, routing, inter, gen, online, faults>> BY DEF AgentTakesWeb
<1>3. Untold(v) /\ Written(v) /\ Fetched(v) /\ Flowing(v) BY DEF PageInv
<1>4. /\ Once(bulk', "web") /\ Carries(bulk, "web", v) /\ ~Carries(bulk', "web", v)
      /\ \A w : Carries(bulk', "web", w) => Carries(bulk, "web", w)
  BY <1>1, TakenIsGone DEF PageInv
<1>5. fetch[v].at = "none" /\ ~Early(v) BY <1>3, <1>4 DEF Untold
<1>6. online BY <1>1 DEF PageInv
<1>7. /\ fetch' \in [Pages -> FetchRecords] /\ \A w \in Pages \ {v} : fetch'[w] = fetch[w]
      /\ fetch'[v].at \in {"none", "head"} /\ fetch'[v].seq = fetch[v].seq
  <2>1. CASE fetch' = [fetch EXCEPT ![v].at = "head", ![v].listed = TRUE]
    BY <1>1, <2>1 DEF PageInv, PageTypes, FetchRecords, FetchStates
  <2>2. CASE UNCHANGED fetch BY <1>5, <2>2 DEF PageInv, PageTypes
  <2> QED BY <2>1, <2>2 DEF AgentTakesWeb
<1>8. \A w \in Pages \ {v} : Refusing(w)' => Refusing(w)
  <2> SUFFICES ASSUME NEW w \in Pages, w # v PROVE ~Refusing(w)' OBVIOUS
  <2>1. loop' = Idle \/ loop' = [op |-> "refuse", id |-> v] BY <1>1 DEF AgentTakesWeb
  <2> QED BY <2>1 DEF Refusing, Idle
<1>9. PageTypes' BY <1>2, <1>7 DEF PageInv, PageTypes
<1>10. Untold(v)' /\ Written(v)' /\ Fetched(v)'
  BY <1>2, <1>3, <1>4, <1>5, <1>6, <1>7 DEF Untold, Written, Fetched, Early
<1>11. Flowing(v)'
  <2>1. fetch'[v].at \in {"none", "head", "body"} /\ Coming(fetch'[v]) = Coming(fetch[v])
    BY <1>5, <1>7 DEF Coming
  <2> QED BY <1>2, <1>3, <1>5, <2>1 DEF Flowing, Leads
<1> QED BY <1>2, <1>4, <1>6, <1>7, <1>8, <1>9, <1>10, <1>11, OwnStep

LEMMA TakesWebCancelStep ==
    ASSUME PageInv, LinkTypes, NEW v \in Pages, AgentTakesWebCancel(v)
    PROVE  PageInv'
<1>1. fetch[v] \in FetchRecords /\ bulk \in Seq(Messages(BulkKinds)) /\ bulk # <<>> /\ bulk' = Tail(bulk)
  BY DEF PageInv, PageTypes, LinkTypes, AgentTakesWebCancel, Takes, IsNext
<1>2. UNCHANGED <<view, stream, uplink, routing, butBulk, faults>> BY DEF AgentTakesWebCancel
<1>3. Quiet(bulk, bulk', "web") BY <1>1 DEF Quiet
<1>4. Once(bulk', "web") /\ \A w : Carries(bulk', "web", w) => Carries(bulk, "web", w)
  BY <1>1, <1>3, QuietKeeps DEF PageInv
<1>5. online BY <1>1 DEF PageInv
<1>6. /\ fetch' \in [Pages -> FetchRecords] /\ \A w \in Pages \ {v} : fetch'[w] = fetch[w]
      /\ fetch'[v].at = fetch[v].at /\ fetch'[v].seq = fetch[v].seq
  BY <1>1 DEF AgentTakesWebCancel, PageInv, PageTypes, FetchRecords
<1>7. PageTypes' BY <1>2, <1>6 DEF PageInv, PageTypes
<1>8. Stays(v) BY <1>2, <1>4, <1>5, <1>6 DEF Stays, butBulk, Refusing
<1> QED BY <1>2, <1>4, <1>5, <1>6, <1>7, <1>8, OwnStep DEF butBulk, Refusing

(* Frames that are no part of the page, and steps of a fetch that emits none.  *)
LEMMA RefusesStep ==
    ASSUME PageInv, NEW v \in Pages, AgentRefuses(v)
    PROVE  PageInv'
<1> DEFINE ev == [kind |-> "error", id |-> v, seq |-> 0]
<1>1. ev \in PageFrames /\ ev.id = v /\ ~Part(v, ev) BY DEF PageFrames, Part
<1>2. uplink' = Append(uplink, ev) BY DEF AgentRefuses, Emits
<1> HIDE DEF ev
<1>3. UNCHANGED <<view, stream, fetch, routing, bulk, inter, gen, online, faults>> /\ loop' = Idle
  BY DEF AgentRefuses
<1>4. uplink' \in Seq(PageFrames)
  <2>1. uplink \in Seq(PageFrames) BY DEF PageInv, PageTypes
  <2> QED BY <1>1, <1>2, <2>1
<1>5. PageTypes' BY <1>3, <1>4 DEF PageInv, PageTypes
<1>6. \A w \in Pages : ~Refusing(w)' BY <1>3 DEF Refusing, Idle
<1>7. ~Early(v) BY DEF AgentRefuses, Refusing, PageInv, Untold
<1>8. Stays(v) BY <1>1, <1>2, <1>3, <1>6, <1>7 DEF Stays
<1>9. Once(bulk', "web") /\ (~online => bulk' = <<>>) BY <1>3 DEF PageInv
<1> QED BY <1>1, <1>2, <1>3, <1>5, <1>6, <1>8, <1>9, OwnStep

LEMMA FetchEndsStep ==
    ASSUME PageInv, NEW v \in Pages, FetchStops(v) \/ FetchUnlisted(v) \/ FetchFails(v)
    PROVE  PageInv'
<1>1. fetch[v] \in FetchRecords BY DEF PageInv, PageTypes
<1>2. UNCHANGED <<view, stream, routing, link, faults>> BY DEF FetchStops, FetchUnlisted, FetchFails
<1>3. /\ fetch' \in [Pages -> FetchRecords] /\ \A w \in Pages \ {v} : fetch'[w] = fetch[w]
      /\ fetch[v].at # "none" /\ fetch'[v].at \in {"ended", "stopped", "failed", "over"}
  <2>1. CASE FetchStops(v) BY <1>1, <2>1 DEF FetchStops, PageInv, PageTypes, FetchRecords, FetchStates
  <2>2. CASE FetchUnlisted(v)
    <3>1. PICK s \in {"over", "failed"} : fetch' = [fetch EXCEPT ![v].listed = FALSE, ![v].at = s]
      BY <1>1, <2>2 DEF FetchUnlisted, PageInv, PageTypes
    <3>2. fetch[v].at # "none" BY <2>2 DEF FetchUnlisted
    <3> QED BY <1>1, <3>1, <3>2 DEF PageInv, PageTypes, FetchRecords, FetchStates
  <2>3. CASE FetchFails(v) BY <1>1, <2>3 DEF FetchFails, PageInv, PageTypes, FetchRecords, FetchStates
  <2> QED BY <2>1, <2>2, <2>3
<1> DEFINE ev == [kind |-> "error", id |-> v, seq |-> 0]
<1>4. ev \in PageFrames /\ ev.id = v /\ ~Part(v, ev) BY DEF PageFrames, Part
<1>5. uplink' = uplink \/ uplink' = Append(uplink, ev) BY DEF FetchStops, FetchUnlisted, FetchFails, Emits
<1> HIDE DEF ev
<1>6. uplink' \in Seq(PageFrames)
  <2>1. uplink \in Seq(PageFrames) BY DEF PageInv, PageTypes
  <2> QED BY <1>4, <1>5, <2>1
<1>7. PageTypes' BY <1>2, <1>3, <1>6 DEF PageInv, PageTypes
<1>8. ~Early(v) BY <1>3 DEF PageInv, Untold
<1>9. Stays(v) BY <1>2, <1>3, <1>4, <1>5, <1>8 DEF Stays, link, Refusing
<1>10. Once(bulk', "web") /\ (~online => bulk' = <<>>) BY <1>2 DEF PageInv, link
<1> QED BY <1>2, <1>3, <1>4, <1>5, <1>7, <1>9, <1>10, OwnStep DEF link, Refusing

(* The fetch emits the part that is next.                                      *)
LEMMA FetchGoesStep ==
    ASSUME PageInv, NEW v \in Pages, FetchGoes(v)
    PROVE  PageInv'
<1>1. /\ view[v] \in ViewRecords /\ stream[v] \in StreamRecords /\ fetch[v] \in FetchRecords
      /\ uplink \in Seq(PageFrames)
  BY DEF PageInv, PageTypes
<1>2. UNCHANGED <<view, stream, routing, link, faults>> BY DEF FetchGoes
<1>3. Untold(v) /\ Written(v) /\ Fetched(v) /\ Flowing(v) BY DEF PageInv
<1>4. fetch[v].seq \in Nat /\ PageLen[v] \in Nat BY <1>1, PagesAssumption DEF FetchRecords
<1>5. \E ev \in PageFrames :
         /\ ev.id = v /\ Part(v, ev) /\ uplink' = Append(uplink, ev) /\ Pos(v, ev) = Coming(fetch[v])
         /\ fetch[v].at \in {"head", "body"}
         /\ fetch' \in [Pages -> FetchRecords] /\ \A w \in Pages \ {v} : fetch'[w] = fetch[w]
         /\ fetch'[v].at = "ended" \/ (fetch'[v].at = "body" /\ Coming(fetch'[v]) = Coming(fetch[v]) + 1)
  <2>1. CASE /\ fetch[v].at = "head" /\ Emits("head", v, 0)
             /\ fetch' = [fetch EXCEPT ![v].at = "body"]
    <3> DEFINE ev == [kind |-> "head", id |-> v, seq |-> 0]
    <3>1. ev \in PageFrames /\ ev.id = v /\ Part(v, ev) /\ Pos(v, ev) = 0 BY DEF PageFrames, Part, Pos
    <3>2. uplink' = Append(uplink, ev) BY <2>1 DEF Emits
    <3> HIDE DEF ev
    <3>3. fetch[v].seq = 0 BY <1>3, <2>1 DEF Fetched
    <3>4. /\ fetch' \in [Pages -> FetchRecords] /\ \A w \in Pages \ {v} : fetch'[w] = fetch[w]
          /\ fetch'[v].at = "body" /\ fetch'[v].seq = 0
      BY <1>1, <2>1, <3>3 DEF PageInv, PageTypes, FetchRecords, FetchStates
    <3>5. Coming(fetch[v]) = 0 /\ Coming(fetch'[v]) = 1 BY <2>1, <3>4 DEF Coming
    <3> QED BY <2>1, <3>1, <3>2, <3>4, <3>5
  <2>2. CASE /\ fetch[v].at = "body" /\ Emits("chunk", v, fetch[v].seq)
             /\ fetch' = [fetch EXCEPT ![v].seq = @ + 1]
    <3> DEFINE ev == [kind |-> "chunk", id |-> v, seq |-> fetch[v].seq]
    <3>1. ev \in PageFrames /\ ev.id = v /\ Part(v, ev) /\ Pos(v, ev) = fetch[v].seq + 1
      BY <1>4 DEF PageFrames, Part, Pos
    <3>2. uplink' = Append(uplink, ev) BY <2>2 DEF Emits
    <3> HIDE DEF ev
    <3>3. fetch[v].seq + 1 \in Nat BY <1>4
    <3>4. /\ fetch' \in [Pages -> FetchRecords] /\ \A w \in Pages \ {v} : fetch'[w] = fetch[w]
          /\ fetch'[v].at = "body" /\ fetch'[v].seq = fetch[v].seq + 1
      BY <1>1, <2>2, <3>3 DEF PageInv, PageTypes, FetchRecords
    <3>5. Coming(fetch[v]) = fetch[v].seq + 1 /\ Coming(fetch'[v]) = fetch[v].seq + 1 + 1
      BY <2>2, <3>4 DEF Coming
    <3> QED BY <2>2, <3>1, <3>2, <3>4, <3>5
  <2>3. CASE /\ fetch[v].at = "body" /\ fetch[v].seq = PageLen[v] /\ Emits("end", v, 0)
             /\ fetch' = [fetch EXCEPT ![v].at = "ended"]
    <3> DEFINE ev == [kind |-> "end", id |-> v, seq |-> 0]
    <3>1. ev \in PageFrames /\ ev.id = v /\ Part(v, ev) /\ Pos(v, ev) = PageLen[v] + 1
      BY DEF PageFrames, Part, Pos
    <3>2. uplink' = Append(uplink, ev) BY <2>3 DEF Emits
    <3> HIDE DEF ev
    <3>3. /\ fetch' \in [Pages -> FetchRecords] /\ \A w \in Pages \ {v} : fetch'[w] = fetch[w]
          /\ fetch'[v].at = "ended"
      BY <1>1, <2>3 DEF PageInv, PageTypes, FetchRecords, FetchStates
    <3>4. Coming(fetch[v]) = PageLen[v] + 1 BY <2>3 DEF Coming
    <3> QED BY <2>3, <3>1, <3>2, <3>3, <3>4
  <2> QED BY <2>1, <2>2, <2>3 DEF FetchGoes
<1>6. PICK ev \in PageFrames :
         /\ ev.id = v /\ Part(v, ev) /\ uplink' = Append(uplink, ev) /\ Pos(v, ev) = Coming(fetch[v])
         /\ fetch[v].at \in {"head", "body"}
         /\ fetch' \in [Pages -> FetchRecords] /\ \A w \in Pages \ {v} : fetch'[w] = fetch[w]
         /\ fetch'[v].at = "ended" \/ (fetch'[v].at = "body" /\ Coming(fetch'[v]) = Coming(fetch[v]) + 1)
  BY <1>5
<1>7. PageTypes'
  <2>1. uplink' \in Seq(PageFrames) BY <1>1, <1>6
  <2> QED BY <1>2, <1>6, <2>1 DEF PageInv, PageTypes
<1>8. ~Early(v) BY <1>3, <1>6 DEF Untold
<1>9. Untold(v)' /\ Written(v)' /\ Fetched(v)'
  BY <1>2, <1>3, <1>6, <1>8 DEF Untold, Written, Fetched, Early, link
<1>10. Flowing(v)'
  <2> SUFFICES ASSUME faults = 0, Reads(view[v])
               PROVE  /\ Follows(v, view[v], stream[v].q, routing)
                      /\ stream[v].listed => Leads(v, view[v], stream[v].q, routing, uplink', fetch'[v])
    BY <1>2 DEF Flowing
  <2> SUFFICES ASSUME stream[v].listed, Sound(stream[v].q), On(v, routing) => routing.kind # "error"
               PROVE  \E b \in Nat : /\ Flight(uplink', v, Base(v, view[v], stream[v].q, routing), b)
                                     /\ fetch'[v].at \in {"none", "head", "body"} => b = Coming(fetch'[v])
    BY <1>3 DEF Flowing, Leads
  <2> DEFINE a == Base(v, view[v], stream[v].q, routing)
  <2>1. PICK b \in Nat : Flight(uplink, v, a, b) /\ b = Coming(fetch[v])
    BY <1>3, <1>6 DEF Flowing, Leads
  <2>2. a \in Nat BY BaseTyped DEF PageInv
  <2> HIDE DEF a
  <2>3. Flight(uplink', v, a, b + 1) BY <1>1, <1>6, <2>1, <2>2, FlightGrows
  <2>4. fetch'[v].at \in {"none", "head", "body"} => b + 1 = Coming(fetch'[v]) BY <1>6, <2>1
  <2>5. b + 1 \in Nat OBVIOUS
  <2> QED BY <2>3, <2>4, <2>5 DEF a
<1>11. Once(bulk', "web") /\ (~online => bulk' = <<>>) BY <1>2 DEF PageInv, link
<1> QED BY <1>2, <1>6, <1>7, <1>9, <1>10, <1>11, OwnStep DEF link, Refusing

(* A frame leaves the uplink: for a sink, or lost on its way.                  *)
LEMMA LostStep ==
    ASSUME PageInv, FrameLost
    PROVE  PageInv'
<1>1. uplink \in Seq(PageFrames) /\ uplink # <<>> /\ uplink' = Tail(uplink) /\ faults \in Nat
      /\ faults' = faults + 1
  BY DEF PageInv, PageTypes, FrameLost
<1>2. UNCHANGED <<view, stream, fetch, routing, link>> BY DEF FrameLost
<1>3. uplink' \in Seq(PageFrames) /\ faults' # 0 /\ faults' \in Nat BY <1>1
<1>4. PageTypes' BY <1>2, <1>3 DEF PageInv, PageTypes
<1>5. \A w \in Pages : Stays(w) BY <1>1, <1>2, <1>3 DEF Stays, link, Refusing
<1>6. Once(bulk', "web") /\ (~online' => bulk' = <<>>) BY <1>2 DEF PageInv, link
<1> QED BY <1>4, <1>5, <1>6, AllStay

LEMMA ArrivesStep ==
    ASSUME PageInv, FrameArrives
    PROVE  PageInv'
<1> DEFINE ev == Head(uplink)
<1>1. uplink \in Seq(PageFrames) /\ uplink # <<>> /\ uplink' = Tail(uplink) /\ routing = NoFrame
      /\ routing' = IF stream[ev.id].listed THEN ev ELSE NoFrame
  BY DEF PageInv, PageTypes, FrameArrives
<1>2. UNCHANGED <<view, stream, fetch, link, faults>> BY DEF FrameArrives
<1>3. ev \in PageFrames /\ uplink' \in Seq(PageFrames) BY <1>1
<1>4. ev.id \in Pages /\ ev # NoFrame BY <1>3, NoFrameApart DEF PageFrames
<1> HIDE DEF ev
<1>5. PageTypes' BY <1>1, <1>2, <1>3 DEF PageInv, PageTypes
<1>6. ASSUME NEW w \in Pages, ev.id # w \/ ~stream[w].listed
      PROVE  Untold(w)' /\ Written(w)' /\ Fetched(w)' /\ Flowing(w)'
  <2>1. ~On(w, routing) /\ ~On(w, routing') BY <1>1, <1>6 DEF On
  <2>2. Untold(w) /\ Written(w) /\ Fetched(w) /\ Flowing(w) BY DEF PageInv
  <2>3. CASE ev.id # w
    <3>1. ~Part(w, ev) BY <2>3 DEF Part
    <3>2. Stays(w) BY <1>1, <1>2, <2>1, <3>1 DEF Stays, link, Refusing, ev
    <3> QED BY <3>2, StaysKeeps
  <2>4. CASE ~stream[w].listed
    <3>1. Written(w)' /\ Fetched(w)' BY <1>2, <2>2 DEF Written, Fetched, link
    <3>2. Flowing(w)' BY <1>2, <2>1, <2>2, <2>4 DEF Flowing, Follows
    <3>3. Untold(w)'
      <4>1. \A i \in DOMAIN uplink' : i + 1 \in DOMAIN uplink /\ uplink'[i] = uplink[i + 1]
        BY <1>1, TakenEvent
      <4> QED BY <1>2, <2>1, <2>2, <4>1 DEF Untold, Early, link, Refusing
    <3> QED BY <3>1, <3>2, <3>3
  <2> QED BY <1>6, <2>3, <2>4
<1>7. ASSUME NEW w \in Pages, ev.id = w, stream[w].listed
      PROVE  Untold(w)' /\ Written(w)' /\ Fetched(w)' /\ Flowing(w)'
  <2>1. Untold(w) /\ Written(w) /\ Fetched(w) /\ Flowing(w) BY DEF PageInv
  <2>2. routing' = ev /\ On(w, ev) /\ ~On(w, NoFrame) BY <1>1, <1>4, <1>7 DEF On
  <2>3. ~Early(w)
    <3>1. 1 \in DOMAIN uplink /\ uplink[1].id = w BY <1>1, <1>7 DEF ev
    <3> QED BY <2>1, <3>1 DEF Untold
  <2>4. Untold(w)' /\ Written(w)' /\ Fetched(w)'
    BY <1>2, <2>1, <2>3 DEF Untold, Written, Fetched, Early, link
  <2>5. Flowing(w)'
    <3> SUFFICES ASSUME faults = 0, Reads(view[w])
                 PROVE  /\ Follows(w, view[w], stream[w].q, ev)
                        /\ Leads(w, view[w], stream[w].q, ev, uplink', fetch[w])
      BY <1>2, <2>2 DEF Flowing
    <3> DEFINE q == stream[w].q
               a == Base(w, view[w], q, NoFrame)
    <3>1. Follows(w, view[w], q, NoFrame) /\ Leads(w, view[w], q, NoFrame, uplink, fetch[w])
      BY <1>1, <1>7, <2>1 DEF Flowing
    <3>2. a \in Nat /\ a = Read(view[w]) + Len(q)
      <4>1. Read(view[w]) \in Nat BY BaseTyped DEF PageInv
      <4>2. stream[w] \in StreamRecords BY DEF PageInv, PageTypes
      <4>3. q \in Seq(PageFrames) BY <4>2 DEF StreamRecords
      <4> HIDE DEF q
      <4>4. Len(q) \in Nat BY <4>3
      <4> QED BY <2>2, <4>1, <4>4 DEF Base
    <3>3. Base(w, view[w], q, ev) = a + 1
      <4>1. Read(view[w]) \in Nat BY BaseTyped DEF PageInv
      <4> QED BY <2>2, <3>2, <4>1 DEF Base
    <3>4. ASSUME Sound(q), ev.kind # "error"
          PROVE  /\ Pos(w, ev) = a
                 /\ \E b \in Nat : /\ Flight(uplink', w, a + 1, b)
                                   /\ fetch[w].at \in {"none", "head", "body"} => b = Coming(fetch[w])
      <4>1. PICK b \in Nat : Flight(uplink, w, a, b)
                            /\ (fetch[w].at \in {"none", "head", "body"} => b = Coming(fetch[w]))
        BY <2>2, <3>1, <3>4 DEF Leads
      <4>2. Part(w, ev) BY <1>7, <3>4 DEF Part
      <4> HIDE DEF a
      <4>3. Pos(w, ev) = a /\ Flight(uplink', w, a + 1, b)
        BY <1>1, <3>2, <4>1, <4>2, FlightShrinks DEF ev
      <4> QED BY <4>1, <4>3
    <3>5. Follows(w, view[w], q, ev) BY <3>1, <3>2, <3>4 DEF Follows
    <3>6. Leads(w, view[w], q, ev, uplink', fetch[w])
      <4> HIDE DEF a, q
      <4>1. ASSUME Sound(q), ev.kind # "error"
            PROVE  \E b \in Nat : /\ Flight(uplink', w, Base(w, view[w], q, ev), b)
                                  /\ fetch[w].at \in {"none", "head", "body"} => b = Coming(fetch[w])
        BY <3>3, <3>4, <4>1
      <4> QED BY <2>2, <4>1 DEF Leads
    <3> QED BY <3>5, <3>6
  <2> QED BY <2>4, <2>5
<1>8. Once(bulk', "web") /\ (~online' => bulk' = <<>>) BY <1>2 DEF PageInv, link
<1> QED BY <1>5, <1>6, <1>7, <1>8 DEF PageInv

(* The agent's connection ends and comes back.                                 *)
LEMMA DropsStep ==
    ASSUME PageInv, AgentDrops
    PROVE  PageInv'
<1>1. UNCHANGED <<view, fetch, uplink, routing, faults, loop>> /\ bulk' = <<>> BY DEF AgentDrops, Drops
<1>2. ASSUME NEW w \in Pages
      PROVE  /\ stream'[w] \in StreamRecords /\ stream'[w].q = stream[w].q /\ stream'[w].listed = FALSE
  <2>1. stream[w] \in StreamRecords BY DEF PageInv, PageTypes
  <2>2. \E c \in {"none", "waits", "given up"} :
           stream'[w] = [stream[w] EXCEPT !.listed = FALSE, !.cancel = c]
    BY <2>1 DEF AgentDrops, CancelSession, StreamRecords
  <2> QED BY <2>1, <2>2 DEF StreamRecords
<1>3. stream' \in [Pages -> StreamRecords]
  <2>1. stream' = [w \in Pages |-> stream'[w]] BY DEF AgentDrops, CancelSession
  <2> QED BY <1>2, <2>1
<1>4. PageTypes' BY <1>1, <1>3 DEF PageInv, PageTypes
<1>5. Once(bulk', "web") /\ \A w : ~Carries(bulk', "web", w) BY <1>1 DEF Once, Carries
<1>6. \A w \in Pages : Stays(w) BY <1>1, <1>2, <1>5 DEF Stays, Refusing
<1> QED BY <1>1, <1>4, <1>5, <1>6, AllStay

LEMMA ReturnsStep ==
    ASSUME PageInv, AgentReturns
    PROVE  PageInv'
<1>1. UNCHANGED <<view, stream, routing, faults, bulk, loop>> /\ ~online /\ online' /\ uplink' = <<>>
  BY DEF AgentReturns, Returns, WebShutdown
<1>2. bulk = <<>> BY <1>1 DEF PageInv
<1>3. ASSUME NEW w \in Pages
      PROVE  /\ fetch'[w] \in FetchRecords /\ fetch'[w].seq = fetch[w].seq
             /\ fetch'[w].at = IF fetch[w].at = "none" THEN "none" ELSE "over"
  <2>1. fetch[w] \in FetchRecords BY DEF PageInv, PageTypes
  <2>2. \E s \in FetchStates : /\ fetch'[w] = [fetch[w] EXCEPT !.listed = FALSE, !.at = s]
                              /\ s = IF fetch[w].at = "none" THEN "none" ELSE "over"
    BY <2>1 DEF AgentReturns, WebShutdown, FetchRecords, FetchStates
  <2>3. PICK s \in FetchStates : /\ fetch'[w] = [fetch[w] EXCEPT !.listed = FALSE, !.at = s]
                                  /\ s = IF fetch[w].at = "none" THEN "none" ELSE "over"
    BY <2>2
  <2>4. [fetch[w] EXCEPT !.listed = FALSE, !.at = s] \in FetchRecords BY <2>1 DEF FetchRecords
  <2>5. /\ [fetch[w] EXCEPT !.listed = FALSE, !.at = s].at = s
        /\ [fetch[w] EXCEPT !.listed = FALSE, !.at = s].seq = fetch[w].seq
    BY <2>1 DEF FetchRecords
  <2> QED BY <2>3, <2>4, <2>5
<1>4. fetch' \in [Pages -> FetchRecords]
  <2>1. fetch' = [w \in Pages |-> fetch'[w]] BY DEF AgentReturns, WebShutdown
  <2> QED BY <1>3, <2>1
<1>5. <<>> \in Seq(PageFrames) OBVIOUS
<1>6. PageTypes' BY <1>1, <1>4, <1>5 DEF PageInv, PageTypes
<1>7. ASSUME NEW w \in Pages PROVE Untold(w)' /\ Written(w)' /\ Fetched(w)' /\ Flowing(w)'
  <2>1. Untold(w) /\ Written(w) /\ Fetched(w) /\ Flowing(w) BY DEF PageInv
  <2>2. Untold(w)' BY <1>1, <1>3, <2>1 DEF Untold, Early, Refusing
  <2>3. Written(w)' /\ Fetched(w)' BY <1>1, <1>3, <2>1 DEF Written, Fetched
  <2>4. Flowing(w)'
    <3> SUFFICES ASSUME faults = 0, Reads(view[w]), stream[w].listed
                 PROVE  Leads(w, view[w], stream[w].q, routing, <<>>, fetch'[w])
      BY <1>1, <2>1 DEF Flowing
    <3>1. fetch[w].at = "none" /\ fetch'[w].at = "none" BY <1>1, <1>3, <2>1 DEF Fetched
    <3> DEFINE a == Base(w, view[w], stream[w].q, routing)
    <3>2. a \in Nat BY BaseTyped DEF PageInv
    <3>3. Leads(w, view[w], stream[w].q, routing, uplink, fetch[w]) BY <2>1 DEF Flowing
    <3>4. Coming(fetch[w]) = 0 /\ Coming(fetch'[w]) = 0 BY <3>1 DEF Coming
    <3>5. ASSUME Sound(stream[w].q), On(w, routing) => routing.kind # "error" PROVE a = 0
      <4>1. Flight(uplink, w, a, 0) BY <3>1, <3>3, <3>4, <3>5 DEF Leads
      <4> HIDE DEF a
      <4> QED BY <3>2, <4>1 DEF Flight
    <3>6. Flight(<<>>, w, 0, 0)
      <4> DEFINE u == <<>>
      <4>1. u \in Seq(PageFrames) /\ \A i \in DOMAIN u : u[i].id # w BY <1>5
      <4> HIDE DEF u
      <4>2. Flight(u, w, 0, 0) BY <4>1, FlightNone
      <4> QED BY <4>2 DEF u
    <3> QED BY <3>4, <3>5, <3>6 DEF Leads
  <2> QED BY <2>2, <2>3, <2>4
<1>8. Once(bulk', "web") BY <1>1 DEF PageInv
<1> QED BY <1>1, <1>6, <1>7, <1>8 DEF PageInv

LEMMA PageStep == ASSUME [Next]_vars, PutTypes, LinkTypes, PageInv PROVE PageInv'
<1>1. gen \in Nat BY DEF LinkTypes
<1>2. ASSUME NEW v \in Pages, WebAsks(v) \/ WebRuns(v) \/ WebClientLeaves(v) PROVE PageInv'
  BY <1>1, <1>2, HandlerSteps, CancelSteps, SendsStepWeb, FirstStep, BodyStep, RoutedStep,
     TakesWebStep, TakesWebCancelStep, RefusesStep, FetchEndsStep, FetchGoesStep DEF WebRuns
<1>3. CASE WebNext BY <1>2, <1>3, ArrivesStep, LostStep DEF WebNext
<1>4. CASE UNCHANGED pages /\ OtherTraffic BY <1>4, OthersSteps
<1> QED BY <1>3, <1>4, DropsStep, ReturnsStep, PageSteps

LEMMA PageInits == ASSUME Init PROVE PageInv
<1>1. bulk = <<>> /\ online /\ loop = Idle /\ faults = 0 /\ WebInit BY DEF Init, LinkInit
<1>2. <<>> \in Seq(PageFrames) /\ <<>> \in Seq(Nat) OBVIOUS
<1>3. NoStream \in StreamRecords BY <1>2 DEF NoStream, StreamRecords
<1>4. PageTypes
  <2>1. view \in [Pages -> ViewRecords] BY <1>1, <1>2 DEF WebInit, ViewRecords, ViewStates
  <2>2. stream \in [Pages -> StreamRecords] BY <1>1, <1>3 DEF WebInit
  <2>3. fetch \in [Pages -> FetchRecords] BY <1>1 DEF WebInit, FetchRecords, FetchStates
  <2> QED BY <1>1, <1>2, <2>1, <2>2, <2>3 DEF WebInit, PageTypes
<1>5. ASSUME NEW w \in Pages PROVE Untold(w) /\ Written(w) /\ Fetched(w) /\ Flowing(w)
  <2>1. /\ view[w].at = "none" /\ view[w].body = <<>> /\ stream[w] = NoStream
        /\ fetch[w].at = "none" /\ fetch[w].seq = 0 /\ uplink = <<>> /\ routing = NoFrame
    BY <1>1 DEF WebInit
  <2>2. stream[w].q = <<>> /\ ~On(w, routing) /\ ~Carries(bulk, "web", w) /\ ~Refusing(w)
    BY <1>1, <2>1 DEF NoStream, On, Carries, Refusing, Idle
  <2> QED BY <1>1, <2>1, <2>2 DEF Untold, Written, Fetched, Flowing, Reads
<1> QED BY <1>1, <1>4, <1>5 DEF PageInv, Once

(* A page reaches the browser in order and without a gap, whatever posts are   *)
(* lost; one that was finished when none was is the whole page.                *)
THEOREM PagesAreWhole == Spec => []PageIsPrefix
<1>1. PageInv /\ LinkTypes /\ PutTypes /\ [Next]_vars => PageInv' BY PageStep
<1>2. PageInv => PageIsPrefix BY DEF PageInv, Written, PageIsPrefix
<1> QED BY <1>1, <1>2, PageInits, Channels, PTL DEF Spec

----------------------------------------------------------------------------
(* Downloads.  What is on its way to a handler, in its sink and in the post    *)
(* that is being routed to it, goes on where the handler's body ends; and the  *)
(* reader counts on from there, for as long as it may send another chunk.      *)

Events == [kind : {"chunk", "end", "error"}, data : Seq(Nat)]
GetStates == {"none", "refused", "waiting", "streaming", "stopping", "complete", "failed",
              "timeout", "error", "unsatisfiable", "gone"}
GetRecords == [at : GetStates, range : Ranges \union {Whole}, gen : Nat, body : Seq(Nat),
               budget : Nat, outcome : GetStates]
SinkRecords == [live : BOOLEAN, open : BOOLEAN, q : Seq(Events)]
ReaderRecords == [at : {"none", "reading", "posting", "sending", "stalled", "over"}, idx : Nat,
                  evs : Seq(Events), last : BOOLEAN, stop : BOOLEAN, cancelled : BOOLEAN,
                  listed : BOOLEAN]
GetTypes ==
    /\ get \in [Gets -> GetRecords] /\ sink \in [Gets -> SinkRecords]
    /\ reader \in [Gets -> ReaderRecords] /\ shrunk \in BOOLEAN

Outcomes == {"complete", "failed", "timeout", "error", "unsatisfiable"}

(* The chunks of a range that starts in the file.                              *)
Size(r) ==
    IF r = Whole \/ r.to - r.from + 1 > FileLen - From(r) THEN FileLen - From(r)
    ELSE r.to - r.from + 1

(* The events c, the first of them at place n of the range.                    *)
Course(c, r, n, cut) ==
    \A i \in DOMAIN c :
        /\ c[i].data # <<>> =>
              /\ c[i].kind = "chunk" /\ c[i].data = <<From(r) + n + i - 1>> /\ n + i <= Size(r)
              /\ \A j \in 1 .. i - 1 : c[j].data # <<>>
        /\ c[i].kind = "end" /\ ~cut =>
              n + i - 1 = Size(r) /\ \A j \in 1 .. i - 1 : c[j].data # <<>>
Filled(c) == \A i \in DOMAIN c : c[i].data # <<>>

Sending(s, x) == x.at = "sending" \/ (x.at = "posting" /\ s.live)
Way(s, x) == s.q \o (IF Sending(s, x) THEN x.evs ELSE <<>>)

Within(r, x) ==
    /\ x.at = "reading" => x.idx < Size(r)
    /\ x.at \in {"posting", "sending", "stalled"} /\ ~x.stop => x.idx + 1 < Size(r)
Begins(y, s, x) ==
    /\ From(y.range) < FileLen => Within(y.range, x)
    /\ y.at \in {"none", "refused"} => x.at = "none" /\ ~s.live
    /\ x.at = "none" => s.q = <<>> /\ x.idx = 0 /\ y.body = <<>>
    /\ x.at = "stalled" => ~s.live
Delivered(y, cut) ==
    /\ \A i \in DOMAIN y.body : y.body[i] = From(y.range) + i - 1
    /\ y.body # <<>> => From(y.range) < FileLen /\ Len(y.body) <= Size(y.range)
    /\ y.at \in {"none", "refused", "waiting"} => y.body = <<>>
    /\ y.at = "streaming" => From(y.range) < FileLen /\ y.budget + Len(y.body) = Budget(y.range)
    /\ y.at = "stopping" => y.outcome \in Outcomes
    /\ (y.at = "complete" \/ (y.at = "stopping" /\ y.outcome = "complete")) /\ ~cut =>
          Len(y.body) = Size(y.range)
Counted(s, x, n) ==
    /\ x.at \in {"none", "reading"} /\ s.live => Filled(s.q) /\ n + Len(s.q) = x.idx
    /\ Sending(s, x) /\ ~x.stop => Filled(Way(s, x)) /\ n + Len(Way(s, x)) = x.idx + 1
Ordered(y, s, x, cut) ==
    y.at \in {"waiting", "streaming"} /\ From(y.range) < FileLen =>
        Course(Way(s, x), y.range, Len(y.body), cut) /\ Counted(s, x, Len(y.body))

Download(y, s, x, cut) == Begins(y, s, x) /\ Delivered(y, cut) /\ Ordered(y, s, x, cut)
Read1(g) ==
    Carries(bulk, "read", g) => reader[g].at = "none" /\ get[g].at \notin {"none", "refused"}
DownloadInv ==
    /\ GetTypes /\ Once(bulk, "read")
    /\ \A g \in Gets : Read1(g) /\ Download(get[g], sink[g], reader[g], shrunk)

LEMMA RangeTyped ==
    ASSUME NEW r \in Ranges \union {Whole}
    PROVE  /\ From(r) \in Nat
           /\ From(r) < FileLen => /\ Size(r) \in Nat \ {0} /\ Budget(r) \in Nat \ {0}
                                   /\ Budget(r) = IF r = Whole THEN FileLen + 1 ELSE Size(r)
<1>1. FileLen \in Nat \ {0} BY DownloadAssumption
<1>2. CASE r = Whole BY <1>1, <1>2 DEF From, Size, Budget
<1>3. CASE r # Whole
  <2>1. r.from \in Nat /\ r.to \in Nat /\ r.from <= r.to BY <1>3, DownloadAssumption
  <2>2. From(r) = r.from BY <1>3 DEF From
  <2>3. Size(r) = IF r.to - r.from + 1 > FileLen - r.from THEN FileLen - r.from ELSE r.to - r.from + 1
    BY <1>3, <2>2 DEF Size
  <2>4. Budget(r) = (IF r.to < FileLen THEN r.to + 1 ELSE FileLen) - r.from BY <1>3 DEF Budget
  <2> QED BY <1>1, <1>3, <2>1, <2>2, <2>3, <2>4
<1> QED BY <1>2, <1>3

(* What the reading task reads, for a range that starts in the file.           *)
LEMMA ReadsRange ==
    ASSUME ~AgentIgnoresRange, NEW g \in Gets, get[g].range \in Ranges \union {Whole},
           From(get[g].range) < FileLen
    PROVE  Offset(g) = From(get[g].range) /\ ToRead(g) = Size(get[g].range)
<1> DEFINE r == get[g].range
<1>1. Offset(g) = From(r) BY DEF Offset
<1>2. From(r) \in Nat /\ FileLen \in Nat BY RangeTyped, DownloadAssumption
<1>3. CASE r = Whole BY <1>1, <1>2, <1>3 DEF ToRead, Size
<1>4. CASE r # Whole
  <2>1. r.from \in Nat /\ r.to \in Nat /\ From(r) = r.from BY <1>4, DownloadAssumption DEF From
  <2> QED BY <1>1, <1>2, <1>4, <2>1 DEF ToRead, Size
<1> QED BY <1>1, <1>3, <1>4

(* Fewer events on the way, one less in front, and more behind.                *)
LEMMA CourseShortens ==
    ASSUME NEW q \in Seq(Events), NEW e \in Seq(Events), NEW r, NEW n, NEW cut, Course(q \o e, r, n, cut)
    PROVE  Course(q, r, n, cut)
<1>1. /\ DOMAIN q = 1 .. Len(q) /\ DOMAIN (q \o e) = 1 .. Len(q) + Len(e) /\ Len(q) \in Nat /\ Len(e) \in Nat
      /\ \A i \in 1 .. Len(q) : (q \o e)[i] = q[i]
  OBVIOUS
<1> DEFINE c == q \o e
<1>2. Course(c, r, n, cut) OBVIOUS
<1>3. DOMAIN c = 1 .. Len(q) + Len(e) /\ \A i \in 1 .. Len(q) : c[i] = q[i] BY <1>1
<1> HIDE DEF c
<1>4. ASSUME NEW i \in DOMAIN q PROVE i \in DOMAIN c /\ c[i] = q[i] /\ \A j \in 1 .. i - 1 : c[j] = q[j]
  BY <1>1, <1>3
<1> QED BY <1>2, <1>4 DEF Course

LEMMA CourseMoves ==
    ASSUME NEW c \in Seq(Events), c # <<>>, NEW r \in Ranges \union {Whole}, NEW n \in Nat, NEW cut,
           Course(c, r, n, cut), From(r) < FileLen
    PROVE  /\ Head(c).data # <<>> => Course(Tail(c), r, n + 1, cut)
           /\ Head(c).data = <<>> => Course(Tail(c), r, n, cut)
           /\ Filled(c) => Head(c).data # <<>> /\ Filled(Tail(c))
<1> DEFINE t == Tail(c)
<1>1. /\ DOMAIN c = 1 .. Len(c) /\ Len(c) \in Nat \ {0} /\ DOMAIN t = 1 .. Len(c) - 1
      /\ Head(c) = c[1] /\ \A i \in 1 .. Len(c) - 1 : t[i] = c[i + 1]
  OBVIOUS
<1>2. From(r) \in Nat /\ Size(r) \in Nat BY RangeTyped
<1> HIDE DEF t
<1>3. ASSUME NEW i \in DOMAIN t
      PROVE  /\ i \in Nat \ {0} /\ i + 1 \in DOMAIN c /\ t[i] = c[i + 1]
             /\ \A j \in 1 .. i - 1 : t[j] = c[j + 1] /\ j + 1 \in 1 .. i
             /\ 1 \in 1 .. i
  <2>1. i \in 1 .. Len(c) - 1 BY <1>1
  <2>2. \A j \in 1 .. i - 1 : j \in 1 .. Len(c) - 1 /\ j + 1 \in 1 .. i BY <1>1, <2>1
  <2> QED BY <1>1, <2>1, <2>2
<1>4. ASSUME c[1].data # <<>> PROVE Course(t, r, n + 1, cut)
  <2> SUFFICES ASSUME NEW i \in DOMAIN t
               PROVE  /\ t[i].data # <<>> =>
                            /\ t[i].kind = "chunk" /\ t[i].data = <<From(r) + (n + 1) + i - 1>>
                            /\ (n + 1) + i <= Size(r) /\ \A j \in 1 .. i - 1 : t[j].data # <<>>
                      /\ t[i].kind = "end" /\ ~cut =>
                            (n + 1) + i - 1 = Size(r) /\ \A j \in 1 .. i - 1 : t[j].data # <<>>
    BY DEF Course
  <2>1. /\ c[i + 1].data # <<>> =>
              /\ c[i + 1].kind = "chunk" /\ c[i + 1].data = <<From(r) + n + (i + 1) - 1>>
              /\ n + (i + 1) <= Size(r) /\ \A j \in 1 .. (i + 1) - 1 : c[j].data # <<>>
        /\ c[i + 1].kind = "end" /\ ~cut =>
              n + (i + 1) - 1 = Size(r) /\ \A j \in 1 .. (i + 1) - 1 : c[j].data # <<>>
    BY <1>3 DEF Course
  <2>2. From(r) + n + (i + 1) - 1 = From(r) + (n + 1) + i - 1 /\ n + (i + 1) = (n + 1) + i
        /\ n + (i + 1) - 1 = (n + 1) + i - 1 /\ (i + 1) - 1 = i
    <3>1. \A f, a, b \in Nat : f + a + (b + 1) - 1 = f + (a + 1) + b - 1 /\ a + (b + 1) = (a + 1) + b
                              /\ a + (b + 1) - 1 = (a + 1) + b - 1 /\ (b + 1) - 1 = b
      OBVIOUS
    <3>2. i \in Nat BY <1>3
    <3> QED BY <1>2, <3>1, <3>2
  <2> QED BY <1>3, <2>1, <2>2
<1>5. ASSUME c[1].data = <<>> PROVE Course(t, r, n, cut)
  <2> SUFFICES ASSUME NEW i \in DOMAIN t PROVE t[i].data = <<>> /\ ~(t[i].kind = "end" /\ ~cut)
    BY DEF Course
  <2>1. /\ c[i + 1].data # <<>> => \A j \in 1 .. (i + 1) - 1 : c[j].data # <<>>
        /\ c[i + 1].kind = "end" /\ ~cut => \A j \in 1 .. (i + 1) - 1 : c[j].data # <<>>
    BY <1>3 DEF Course
  <2>2. 1 \in 1 .. (i + 1) - 1 BY <1>3
  <2> QED BY <1>3, <1>5, <2>1, <2>2
<1>6. ASSUME Filled(c) PROVE c[1].data # <<>> /\ Filled(t)
  <2>1. 1 \in DOMAIN c BY <1>1
  <2> QED BY <1>3, <1>6, <2>1 DEF Filled
<1> QED BY <1>1, <1>4, <1>5, <1>6 DEF t

LEMMA CourseGrows ==
    ASSUME NEW q \in Seq(Events), NEW e \in Seq(Events), NEW r \in Ranges \union {Whole}, NEW n \in Nat,
           NEW cut, From(r) < FileLen, Course(q, r, n, cut), Filled(q), Course(e, r, n + Len(q), cut)
    PROVE  Course(q \o e, r, n, cut) /\ (Filled(e) => Filled(q \o e))
<1> DEFINE c == q \o e
           m == Len(q)
<1>1. /\ DOMAIN q = 1 .. m /\ DOMAIN e = 1 .. Len(e) /\ DOMAIN c = 1 .. m + Len(e)
      /\ m \in Nat /\ Len(e) \in Nat
      /\ \A i \in 1 .. m : c[i] = q[i]
      /\ \A i \in m + 1 .. m + Len(e) : c[i] = e[i - m]
  OBVIOUS
<1>2. From(r) \in Nat /\ Size(r) \in Nat BY RangeTyped
<1>3. Course(e, r, n + m, cut) OBVIOUS
<1> HIDE DEF c, m
<1>4. ASSUME NEW i \in DOMAIN c
      PROVE  /\ c[i].data # <<>> =>
                  /\ c[i].kind = "chunk" /\ c[i].data = <<From(r) + n + i - 1>> /\ n + i <= Size(r)
                  /\ \A j \in 1 .. i - 1 : c[j].data # <<>>
             /\ c[i].kind = "end" /\ ~cut =>
                  n + i - 1 = Size(r) /\ \A j \in 1 .. i - 1 : c[j].data # <<>>
  <2>1. CASE i \in 1 .. m
    <3>1. i \in DOMAIN q /\ c[i] = q[i] /\ \A j \in 1 .. i - 1 : c[j] = q[j] BY <1>1, <2>1
    <3> QED BY <3>1 DEF Course
  <2>2. CASE i \notin 1 .. m
    <3> DEFINE k == i - m
    <3>1. k \in DOMAIN e /\ k \in Nat /\ c[i] = e[k] /\ i = m + k BY <1>1, <2>2
    <3>2. \A j \in 1 .. i - 1 : (j \in DOMAIN q /\ c[j] = q[j]) \/ (j - m \in 1 .. k - 1 /\ c[j] = e[j - m])
      BY <1>1, <2>2, <3>1
    <3> HIDE DEF k
    <3>3. /\ e[k].data # <<>> =>
                  /\ e[k].kind = "chunk" /\ e[k].data = <<From(r) + (n + m) + k - 1>> /\ (n + m) + k <= Size(r)
                  /\ \A j \in 1 .. k - 1 : e[j].data # <<>>
          /\ e[k].kind = "end" /\ ~cut =>
                  (n + m) + k - 1 = Size(r) /\ \A j \in 1 .. k - 1 : e[j].data # <<>>
      BY <1>3, <3>1 DEF Course
    <3>4. From(r) + (n + m) + k - 1 = From(r) + n + i - 1 /\ (n + m) + k = n + i /\ (n + m) + k - 1 = n + i - 1
      <4>1. \A f, a, b, d \in Nat : f + (a + b) + d - 1 = f + a + (b + d) - 1 /\ (a + b) + d = a + (b + d)
                                   /\ (a + b) + d - 1 = a + (b + d) - 1
        OBVIOUS
      <4>2. m \in Nat /\ k \in Nat /\ i = m + k BY <1>1, <3>1
      <4> QED BY <1>2, <4>1, <4>2
    <3>5. (\A j \in 1 .. k - 1 : e[j].data # <<>>) => \A j \in 1 .. i - 1 : c[j].data # <<>>
      BY <3>2 DEF Filled
    <3> QED BY <3>1, <3>3, <3>4, <3>5
  <2> QED BY <2>1, <2>2
<1>5. ASSUME Filled(e), NEW i \in DOMAIN c PROVE c[i].data # <<>>
  <2>1. CASE i \in 1 .. m BY <1>1, <2>1 DEF Filled
  <2>2. CASE i \notin 1 .. m
    <3>1. i - m \in DOMAIN e /\ c[i] = e[i - m] BY <1>1, <2>2
    <3> QED BY <1>5, <3>1 DEF Filled
  <2> QED BY <2>1, <2>2
<1>6. Course(c, r, n, cut) BY <1>4 DEF Course
<1>7. Filled(e) => Filled(c) BY <1>5 DEF Filled
<1> QED BY <1>6, <1>7 DEF c

LEMMA NoCourse ==
    ASSUME NEW r, NEW n, NEW cut
    PROVE  Course(<<>>, r, n, cut) /\ Filled(<<>>)
BY DEF Course, Filled

(* A step of one download.                                                     *)
LEMMA OneDownload ==
    ASSUME DownloadInv, NEW g \in Gets, GetTypes', shrunk' = shrunk, Once(bulk', "read"), Read1(g)',
           \A h \in Gets \ {g} :
               /\ get'[h] = get[h] /\ sink'[h] = sink[h] /\ reader'[h] = reader[h]
               /\ Carries(bulk', "read", h) => Carries(bulk, "read", h),
           Download(get'[g], sink'[g], reader'[g], shrunk)
    PROVE  DownloadInv'
<1>1. ASSUME NEW h \in Gets PROVE Read1(h)' /\ Download(get'[h], sink'[h], reader'[h], shrunk')
  <2>1. CASE h = g BY <2>1
  <2>2. CASE h # g
    <3>1. Read1(h) /\ Download(get[h], sink[h], reader[h], shrunk) BY DEF DownloadInv
    <3>2. get'[h] = get[h] /\ sink'[h] = sink[h] /\ reader'[h] = reader[h]
          /\ (Carries(bulk', "read", h) => Carries(bulk, "read", h))
      BY <2>2
    <3>3. Read1(h)' BY <3>1, <3>2 DEF Read1
    <3> QED BY <3>1, <3>2, <3>3
  <2> QED BY <2>1, <2>2
<1> QED BY <1>1 DEF DownloadInv

LEMMA OwnDownload ==
    ASSUME DownloadInv, NEW g \in Gets
    PROVE  /\ get[g] \in GetRecords /\ sink[g] \in SinkRecords /\ reader[g] \in ReaderRecords
           /\ Begins(get[g], sink[g], reader[g]) /\ Delivered(get[g], shrunk)
           /\ Ordered(get[g], sink[g], reader[g], shrunk)
           /\ Read1(g) /\ Once(bulk, "read")
BY DEF DownloadInv, GetTypes, Download

(* Without one in its hands the handler reads no more of the sink.             *)
LEMMA Stopped ==
    ASSUME DownloadInv, NEW g \in Gets, NEW y, NEW s,
           y.body = get[g].body, y.range = get[g].range, y.at \notin {"none", "refused", "waiting", "streaming"},
           get[g].at \notin {"none", "refused"}, y.at = "stopping" => y.outcome \in Outcomes,
           (y.at = "complete" \/ (y.at = "stopping" /\ y.outcome = "complete")) /\ ~shrunk =>
               Len(y.body) = Size(y.range),
           s.live => sink[g].live, s.q = sink[g].q \/ s.q = <<>>
    PROVE  Download(y, s, reader[g], shrunk)
<1>1. Begins(get[g], sink[g], reader[g]) /\ Delivered(get[g], shrunk) BY OwnDownload
<1>2. Begins(y, s, reader[g]) BY <1>1 DEF Begins
<1>3. Delivered(y, shrunk) BY <1>1 DEF Delivered
<1>4. Ordered(y, s, reader[g], shrunk) BY DEF Ordered
<1> QED BY <1>2, <1>3, <1>4 DEF Download

LEMMA AsksStep ==
    ASSUME DownloadInv, LinkTypes, NEW g \in Gets, GetAsks(g)
    PROVE  DownloadInv'
<1>1. /\ get[g] \in GetRecords /\ sink[g] \in SinkRecords /\ reader[g] \in ReaderRecords
      /\ Begins(get[g], sink[g], reader[g]) /\ Delivered(get[g], shrunk) /\ Read1(g) /\ Once(bulk, "read")
  BY OwnDownload
<1>2. get[g].at = "none" /\ UNCHANGED <<reader, shrunk, butBulk>> BY DEF GetAsks
<1>3. reader[g].at = "none" /\ ~sink[g].live /\ get[g].body = <<>> /\ sink[g].q = <<>> /\ reader[g].idx = 0
  BY <1>1, <1>2 DEF Begins, Delivered
<1>4. ~Carries(bulk, "read", g) BY <1>1, <1>2 DEF Read1
<1>5. CASE get' = [get EXCEPT ![g].at = "refused"] /\ UNCHANGED <<sink, bulk>>
  <2>1. /\ get' \in [Gets -> GetRecords] /\ \A h \in Gets \ {g} : get'[h] = get[h]
        /\ get'[g].at = "refused" /\ get'[g].body = <<>>
    BY <1>1, <1>3, <1>5 DEF DownloadInv, GetTypes, GetRecords, GetStates
  <2>2. GetTypes' BY <1>2, <1>5, <2>1 DEF DownloadInv, GetTypes
  <2>3. Download(get'[g], sink'[g], reader'[g], shrunk)
    BY <1>2, <1>3, <1>5, <2>1 DEF Download, Begins, Within, Delivered, Ordered
  <2>4. Read1(g)' BY <1>4, <1>5 DEF Read1
  <2> QED BY <1>1, <1>2, <1>5, <2>1, <2>2, <2>3, <2>4, OneDownload
<1>6. CASE /\ online
           /\ \E r \in Ranges :
                 get' = [get EXCEPT ![g].at = "waiting", ![g].range = r, ![g].gen = gen]
           /\ sink' = [sink EXCEPT ![g] = [live |-> TRUE, open |-> TRUE, q |-> <<>>]]
           /\ Tell(gen, "read", g, 0)
  <2>1. gen \in Nat /\ bulk \in Seq(Messages(BulkKinds)) BY DEF LinkTypes
  <2>2. PICK r \in Ranges : get' = [get EXCEPT ![g].at = "waiting", ![g].range = r, ![g].gen = gen]
    BY <1>6
  <2>3. /\ get' \in [Gets -> GetRecords] /\ \A h \in Gets \ {g} : get'[h] = get[h]
        /\ get'[g].at = "waiting" /\ get'[g].body = <<>> /\ get'[g].range = r
    BY <1>1, <1>3, <2>1, <2>2 DEF DownloadInv, GetTypes, GetRecords, GetStates
  <2> DEFINE s == [live |-> TRUE, open |-> TRUE, q |-> <<>>]
  <2>4. s \in SinkRecords
    <3>1. <<>> \in Seq(Events) OBVIOUS
    <3> QED BY <3>1 DEF SinkRecords
  <2>5. s.q = <<>> OBVIOUS
  <2> HIDE DEF s
  <2>6. sink' \in [Gets -> SinkRecords] /\ sink'[g] = s /\ \A h \in Gets \ {g} : sink'[h] = sink[h]
    BY <1>6, <2>4 DEF s, DownloadInv, GetTypes
  <2>7. GetTypes' BY <1>2, <2>3, <2>6 DEF DownloadInv, GetTypes
  <2> DEFINE m == [kind |-> "read", id |-> g, index |-> 0]
  <2>8. bulk' = Append(bulk, m) /\ m.kind = "read" /\ m.id = g BY <1>6 DEF Tell, Alive
  <2> HIDE DEF m
  <2>9. Once(bulk', "read") /\ \A h : Carries(bulk', "read", h) => Carries(bulk, "read", h) \/ h = g
    BY <1>1, <1>4, <2>1, <2>8, SentIsThere
  <2>10. Read1(g)' BY <1>2, <1>3, <2>3 DEF Read1
  <2>11. Way(s, reader[g]) = <<>>
    <3>1. ~Sending(s, reader[g]) BY <1>3 DEF Sending
    <3>2. <<>> \o <<>> = <<>> OBVIOUS
    <3> QED BY <2>5, <3>1, <3>2 DEF Way
  <2>12. Ordered(get'[g], s, reader[g], shrunk)
    <3>1. Len(<<>>) = 0 /\ 0 + 0 = 0 OBVIOUS
    <3>2. ~Sending(s, reader[g]) BY <1>3 DEF Sending
    <3>3. Counted(s, reader[g], Len(<<>>)) BY <1>3, <2>5, <3>1, <3>2, NoCourse DEF Counted
    <3> QED BY <2>3, <2>11, <3>3, NoCourse DEF Ordered
  <2>13. Begins(get'[g], s, reader[g]) /\ Delivered(get'[g], shrunk)
    BY <1>3, <2>3, <2>5 DEF Begins, Within, Delivered
  <2>14. Download(get'[g], sink'[g], reader'[g], shrunk)
    BY <1>2, <2>6, <2>12, <2>13 DEF Download
  <2> QED BY <1>2, <2>3, <2>6, <2>7, <2>9, <2>10, <2>14, OneDownload
<1> QED BY <1>5, <1>6 DEF GetAsks

(* The handler gives up, or its client does.                                   *)
LEMMA LeavesStep ==
    ASSUME DownloadInv, NEW g \in Gets, get[g].at \in {"waiting", "streaming"},
           UNCHANGED <<reader, shrunk, link>>,
           get' \in [Gets -> GetRecords], sink' \in [Gets -> SinkRecords],
           \A h \in Gets \ {g} : get'[h] = get[h] /\ sink'[h] = sink[h],
           get'[g].body = get[g].body, get'[g].range = get[g].range,
           get'[g].at \in {"stopping", "complete", "gone"},
           get'[g].at = "stopping" => get'[g].outcome \in Outcomes,
           (get'[g].at = "complete" \/ (get'[g].at = "stopping" /\ get'[g].outcome = "complete")) /\ ~shrunk =>
               Len(get[g].body) = Size(get[g].range),
           sink'[g].live => sink[g].live, sink'[g].q = sink[g].q \/ sink'[g].q = <<>>
    PROVE  DownloadInv'
<1>1. bulk' = bulk BY DEF link
<1>2. GetTypes' BY DEF DownloadInv, GetTypes
<1>3. Download(get'[g], sink'[g], reader'[g], shrunk)
  <2>1. get'[g].at \notin {"none", "refused", "waiting", "streaming"} /\ get[g].at \notin {"none", "refused"}
    OBVIOUS
  <2>2. Download(get'[g], sink'[g], reader[g], shrunk) BY <2>1, Stopped
  <2> QED BY <2>2
<1>4. Read1(g)' BY <1>1, OwnDownload DEF Read1
<1> QED BY <1>1, <1>2, <1>3, <1>4, OwnDownload, OneDownload

LEMMA GivesUpStep ==
    ASSUME DownloadInv, NEW g \in Gets, get[g].at \in {"waiting", "streaming"},
           UNCHANGED <<reader, shrunk, link>>, NEW o \in {"timeout", "error", "unsatisfiable", "failed"},
           GivesUp(g, o)
    PROVE  DownloadInv'
<1>1. get[g] \in GetRecords /\ sink[g] \in SinkRecords BY OwnDownload
<1>2. o \in GetStates /\ o \in Outcomes /\ o # "complete" BY DEF GetStates, Outcomes
<1>3. /\ get' \in [Gets -> GetRecords] /\ \A h \in Gets \ {g} : get'[h] = get[h]
      /\ get'[g].at = "stopping" /\ get'[g].outcome = o
      /\ get'[g].body = get[g].body /\ get'[g].range = get[g].range
  BY <1>1, <1>2 DEF GivesUp, DownloadInv, GetTypes, GetRecords, GetStates
<1>4. /\ sink' \in [Gets -> SinkRecords] /\ \A h \in Gets \ {g} : sink'[h] = sink[h]
      /\ ~sink'[g].live /\ sink'[g].q = sink[g].q
  BY <1>1 DEF GivesUp, DownloadInv, GetTypes, SinkRecords
<1> QED BY <1>2, <1>3, <1>4, LeavesStep

(* The next event goes into the body: a chunk where it belongs, or nothing.    *)
LEMMA WayAhead ==
    ASSUME NEW s \in SinkRecords, NEW x \in ReaderRecords, NEW t \in SinkRecords, s.q # <<>>,
           t.q = Tail(s.q), t.live = s.live
    PROVE  /\ Way(s, x) \in Seq(Events) /\ Way(s, x) # <<>> /\ Head(Way(s, x)) = Head(s.q)
           /\ Way(t, x) = Tail(Way(s, x)) /\ Len(Way(s, x)) = Len(Way(t, x)) + 1
           /\ Sending(t, x) <=> Sending(s, x)
<1> DEFINE e == IF Sending(s, x) THEN x.evs ELSE <<>>
           q == s.q
<1>1. q \in Seq(Events) /\ x.evs \in Seq(Events) /\ <<>> \in Seq(Events)
  BY DEF SinkRecords, ReaderRecords
<1>2. e \in Seq(Events) BY <1>1
<1>3. (Sending(t, x) <=> Sending(s, x)) /\ Way(s, x) = q \o e /\ Way(t, x) = Tail(q) \o e
  BY DEF Sending, Way
<1>4. q # <<>> OBVIOUS
<1> HIDE DEF e, q
<1>5. Tail(q) \in Seq(Events) /\ Len(Tail(q)) = Len(q) - 1 /\ \A i \in 1 .. Len(q) - 1 : Tail(q)[i] = q[i + 1]
  BY <1>1, <1>4
<1>6. Len(q) \in Nat \ {0} /\ Len(e) \in Nat BY <1>1, <1>2, <1>4
<1> DEFINE c == q \o e
           d == Tail(q) \o e
<1>7. /\ c \in Seq(Events) /\ Len(c) = Len(q) + Len(e)
      /\ \A i \in 1 .. Len(q) + Len(e) : c[i] = IF i <= Len(q) THEN q[i] ELSE e[i - Len(q)]
  BY <1>1, <1>2, ConcatProperties
<1>8. /\ d \in Seq(Events) /\ Len(d) = Len(q) - 1 + Len(e)
      /\ \A i \in 1 .. Len(q) - 1 + Len(e) :
            d[i] = IF i <= Len(q) - 1 THEN Tail(q)[i] ELSE e[i - (Len(q) - 1)]
  BY <1>2, <1>5, ConcatProperties
<1> HIDE DEF c, d
<1>9. Len(c) \in Nat \ {0} BY <1>6, <1>7
<1>10. c # <<>> BY <1>9
<1>11. Tail(c) \in Seq(Events) /\ Len(Tail(c)) = Len(c) - 1 /\ \A i \in 1 .. Len(c) - 1 : Tail(c)[i] = c[i + 1]
  BY <1>7, <1>10
<1>12. ASSUME NEW i \in 1 .. Len(d) PROVE d[i] = Tail(c)[i]
  <2>1. i \in 1 .. Len(q) - 1 + Len(e) /\ i \in 1 .. Len(c) - 1 /\ i + 1 \in 1 .. Len(q) + Len(e)
    BY <1>6, <1>7, <1>8
  <2>2. Tail(c)[i] = IF i + 1 <= Len(q) THEN q[i + 1] ELSE e[i + 1 - Len(q)] BY <1>7, <1>11, <2>1
  <2>3. d[i] = IF i <= Len(q) - 1 THEN Tail(q)[i] ELSE e[i - (Len(q) - 1)] BY <1>8, <2>1
  <2>4. CASE i <= Len(q) - 1
    <3>1. i \in 1 .. Len(q) - 1 /\ i + 1 <= Len(q) BY <1>6, <2>1, <2>4
    <3> QED BY <1>5, <2>2, <2>3, <2>4, <3>1
  <2>5. CASE ~(i <= Len(q) - 1)
    <3>1. ~(i + 1 <= Len(q)) /\ i + 1 - Len(q) = i - (Len(q) - 1) BY <1>6, <2>1, <2>5
    <3> QED BY <2>2, <2>3, <2>5, <3>1
  <2> QED BY <2>4, <2>5
<1>13. d = Tail(c)
  <2>1. Len(d) = Len(Tail(c)) BY <1>6, <1>7, <1>8, <1>11
  <2> QED BY <1>8, <1>11, <1>12, <2>1, SeqEqual
<1>14. Head(c) = Head(q)
  <2>1. c[1] = q[1] BY <1>6, <1>7
  <2> QED BY <1>1, <1>4, <1>7, <1>10, <2>1
<1>15. Len(c) = Len(d) + 1 BY <1>6, <1>7, <1>8
<1> QED BY <1>3, <1>7, <1>10, <1>13, <1>14, <1>15 DEF c, d, q

(* A sequence with one element more.                                           *)
LEMMA OneMore ==
    ASSUME NEW p \in Seq(Nat), NEW q \in Seq(Nat), NEW n \in Nat, Len(p) = n, Len(q) = 1
    PROVE  /\ p \o q \in Seq(Nat) /\ Len(p \o q) = n + 1
           /\ \A i \in 1 .. n + 1 : (p \o q)[i] = IF i <= n THEN p[i] ELSE q[i - n]
<1>1. /\ p \o q \in Seq(Nat) /\ Len(p \o q) = Len(p) + Len(q)
      /\ \A i \in 1 .. Len(p) + Len(q) : (p \o q)[i] = IF i <= Len(p) THEN p[i] ELSE q[i - Len(p)]
  BY ConcatProperties
<1> QED BY <1>1

LEMMA ServesStep ==
    ASSUME DownloadInv, NEW g \in Gets, get[g].at \in {"waiting", "streaming"},
           From(get[g].range) < FileLen, sink[g].q # <<>>, UNCHANGED <<reader, shrunk, link>>,
           NEW b \in Nat, b + Len(get[g].body) = Budget(get[g].range),
           Head(sink[g].q).data # <<>> => b # 0,
           Serves(g, Head(sink[g].q).data, b)
    PROVE  DownloadInv'
<1> DEFINE y == get[g]
           s == sink[g]
           x == reader[g]
           data == Head(sink[g].q).data
           n == Len(get[g].body)
<1>1. /\ y \in GetRecords /\ s \in SinkRecords /\ x \in ReaderRecords
      /\ Begins(y, s, x) /\ Delivered(y, shrunk) /\ Ordered(y, s, x, shrunk) /\ Read1(g) /\ Once(bulk, "read")
  BY OwnDownload
<1>2. y.range \in Ranges \union {Whole} /\ y.body \in Seq(Nat) /\ y.gen \in Nat /\ s.q \in Seq(Events)
  BY <1>1 DEF GetRecords, SinkRecords
<1>3. n \in Nat /\ Size(y.range) \in Nat \ {0} /\ From(y.range) \in Nat BY <1>2, RangeTyped
<1>4. data \in Seq(Nat)
  <2>1. Head(s.q) \in Events BY <1>2, HeadTailProperties
  <2> QED BY <2>1 DEF Events
<1>5. Course(Way(s, x), y.range, n, shrunk) /\ Counted(s, x, n) BY <1>1 DEF Ordered
<1>6. sink' = [sink EXCEPT ![g].q = Tail(@)] BY DEF Serves
<1> DEFINE t == sink'[g]
<1>7. /\ sink' \in [Gets -> SinkRecords] /\ \A h \in Gets \ {g} : sink'[h] = sink[h]
      /\ t.q = Tail(s.q) /\ t.live = s.live
  <2>1. Tail(s.q) \in Seq(Events) BY <1>2, HeadTailProperties
  <2> QED BY <1>1, <1>6, <2>1 DEF DownloadInv, GetTypes, SinkRecords
<1>8. t \in SinkRecords BY <1>7
<1>9. /\ Way(s, x) \in Seq(Events) /\ Way(s, x) # <<>> /\ Head(Way(s, x)) = Head(s.q)
      /\ Way(t, x) = Tail(Way(s, x)) /\ Len(Way(s, x)) = Len(Way(t, x)) + 1
      /\ Sending(t, x) <=> Sending(s, x)
  BY <1>1, <1>7, <1>8, WayAhead
<1>10. /\ data # <<>> => Course(Way(t, x), y.range, n + 1, shrunk)
       /\ data = <<>> => Course(Way(t, x), y.range, n, shrunk)
       /\ Filled(Way(s, x)) => data # <<>> /\ Filled(Way(t, x))
  BY <1>2, <1>3, <1>5, <1>9, CourseMoves
<1>11. data # <<>> => data = <<From(y.range) + n>> /\ n + 1 <= Size(y.range)
  <2> DEFINE c == Way(s, x)
  <2>1. c \in Seq(Events) /\ c # <<>> /\ Head(c).data = data /\ Course(c, y.range, n, shrunk) BY <1>5, <1>9
  <2> HIDE DEF c, data
  <2>2. 1 \in DOMAIN c /\ c[1].data = data BY <2>1
  <2>3. data # <<>> => c[1].data = <<From(y.range) + n + 1 - 1>> /\ n + 1 <= Size(y.range)
    BY <2>1, <2>2 DEF Course
  <2>4. From(y.range) + n + 1 - 1 = From(y.range) + n BY <1>3
  <2> QED BY <2>2, <2>3, <2>4
<1>12. /\ Begins(y, t, x) /\ x.at # "none"
  <2>1. Tail(s.q) = <<>> \/ x.at # "none" BY <1>1 DEF Begins
  <2> QED BY <1>1, <1>7 DEF Begins
<1>13. ASSUME NEW body \in Seq(Nat), NEW c \in Nat, NEW k \in Nat, Len(body) = n + k, c + n + k = Budget(y.range),
              get' = [get EXCEPT ![g].at = "streaming", ![g].body = body, ![g].budget = c],
              \A i \in DOMAIN body : body[i] = From(y.range) + i - 1, Len(body) <= Size(y.range),
              Course(Way(t, x), y.range, n + k, shrunk), Filled(Way(s, x)) => k = 1
       PROVE  DownloadInv'
  <2>1. /\ get' \in [Gets -> GetRecords] /\ \A h \in Gets \ {g} : get'[h] = get[h]
        /\ get'[g].at = "streaming" /\ get'[g].body = body /\ get'[g].budget = c /\ get'[g].range = y.range
    BY <1>1, <1>13 DEF DownloadInv, GetTypes, GetRecords, GetStates
  <2>2. GetTypes' BY <1>7, <2>1 DEF DownloadInv, GetTypes
  <2>3. Begins(get'[g], t, x) BY <1>12, <2>1 DEF Begins
  <2>4. Delivered(get'[g], shrunk)
    <3>1. c + Len(body) = Budget(y.range) BY <1>3, <1>13
    <3> QED BY <1>13, <2>1, <3>1 DEF Delivered
  <2>5. Counted(t, x, n + k)
    <3>1. Len(Way(t, x)) \in Nat BY <1>8, <1>9, <1>1
    <3>2. ASSUME x.at = "reading", t.live PROVE Filled(t.q) /\ n + k + Len(t.q) = x.idx
      <4>1. ~Sending(s, x) /\ ~Sending(t, x) BY <3>2 DEF Sending
      <4>2. Way(s, x) = s.q /\ Way(t, x) = t.q
        <5>1. t.q \in Seq(Events) BY <1>8 DEF SinkRecords
        <5> QED BY <1>2, <4>1, <5>1, ConcatEmptySeq DEF Way
      <4>3. Filled(Way(s, x)) /\ n + Len(Way(s, x)) = x.idx BY <1>5, <1>7, <3>2, <4>2 DEF Counted
      <4>4. Filled(Way(t, x)) /\ k = 1 BY <1>10, <1>13, <4>3
      <4>5. \A m, a \in Nat : m + (a + 1) = m + 1 + a OBVIOUS
      <4>6. n + 1 + Len(Way(t, x)) = x.idx
        <5> DEFINE u == Len(Way(t, x))
        <5>1. n + (u + 1) = x.idx BY <1>9, <4>3
        <5>2. n \in Nat /\ u \in Nat BY <1>3, <3>1
        <5> HIDE DEF n, u
        <5>3. n + 1 + u = x.idx BY <4>5, <5>1, <5>2
        <5> QED BY <5>3 DEF n, u
      <4> QED BY <4>2, <4>4, <4>6
    <3>3. ASSUME Sending(t, x), ~x.stop PROVE Filled(Way(t, x)) /\ n + k + Len(Way(t, x)) = x.idx + 1
      <4>1. Filled(Way(s, x)) /\ n + Len(Way(s, x)) = x.idx + 1 BY <1>5, <1>9, <3>3 DEF Counted
      <4>2. Filled(Way(t, x)) /\ k = 1 BY <1>10, <1>13, <4>1
      <4>3. \A m, a \in Nat : m + (a + 1) = m + 1 + a OBVIOUS
      <4>4. n + 1 + Len(Way(t, x)) = x.idx + 1
        <5> DEFINE u == Len(Way(t, x))
        <5>1. n + (u + 1) = x.idx + 1 BY <1>9, <4>1
        <5>2. n \in Nat /\ u \in Nat BY <1>3, <3>1
        <5> HIDE DEF n, u
        <5>3. n + 1 + u = x.idx + 1 BY <4>3, <5>1, <5>2
        <5> QED BY <5>3 DEF n, u
      <4> QED BY <4>2, <4>4
    <3> QED BY <1>12, <3>2, <3>3 DEF Counted
  <2>6. Ordered(get'[g], t, x, shrunk) BY <1>13, <2>1, <2>5 DEF Ordered
  <2>7. Download(get'[g], sink'[g], reader'[g], shrunk) BY <2>3, <2>4, <2>6 DEF Download
  <2>8. Read1(g)' BY <1>1, <1>12 DEF Read1, link
  <2> QED BY <1>1, <1>7, <2>1, <2>2, <2>7, <2>8, OneDownload DEF link
<1>14. CASE data = <<>>
  <2> DEFINE body == y.body \o <<>>
  <2>1. Len(data) <= b /\ b - Len(data) = b BY <1>14
  <2>2. get' = [get EXCEPT ![g].at = "streaming", ![g].body = @ \o data, ![g].budget = b - Len(data)]
    BY <2>1 DEF Serves
  <2>3. y.body \o data = y.body BY <1>2, <1>14, ConcatEmptySeq
  <2>4. get' = [get EXCEPT ![g].at = "streaming", ![g].body = y.body, ![g].budget = b]
    BY <2>1, <2>2, <2>3
  <2>5. \A i \in DOMAIN y.body : y.body[i] = From(y.range) + i - 1 BY <1>1 DEF Delivered
  <2>6. Len(y.body) <= Size(y.range)
    <3>1. CASE y.body # <<>> BY <1>1, <3>1 DEF Delivered
    <3>2. CASE y.body = <<>> BY <1>3, <3>2
    <3> QED BY <3>1, <3>2
  <2>7. n + 0 = n /\ b + n + 0 = Budget(y.range) BY <1>3
  <2> QED BY <1>2, <1>10, <1>13, <1>14, <2>4, <2>5, <2>6, <2>7
<1>15. CASE data # <<>>
  <2>1. data = <<From(y.range) + n>> /\ n + 1 <= Size(y.range) /\ Len(data) = 1 BY <1>11, <1>15
  <2>2. b # 0 BY <1>15
  <2> HIDE DEF data
  <2>7. Len(data) <= b /\ b - 1 \in Nat /\ b - Len(data) = b - 1 BY <2>1, <2>2
  <2> DEFINE body == y.body \o data
  <2>3. get' = [get EXCEPT ![g].at = "streaming", ![g].body = body, ![g].budget = b - 1]
    BY <2>7 DEF Serves, data
  <2>4. /\ body \in Seq(Nat) /\ Len(body) = n + 1
        /\ \A i \in 1 .. n + 1 : body[i] = IF i <= n THEN y.body[i] ELSE data[i - n]
    <3>1. y.body \in Seq(Nat) /\ Len(y.body) = n BY <1>2
    <3>2. Len(data) = 1 BY <2>1
    <3> HIDE DEF y, n
    <3> QED BY <1>3, <1>4, <3>1, <3>2, OneMore DEF body
  <2> HIDE DEF body
  <2>5. ASSUME NEW i \in DOMAIN body PROVE body[i] = From(y.range) + i - 1
    <3>1. i \in 1 .. n + 1 BY <2>4
    <3>2. CASE i <= n
      <4>1. i \in DOMAIN y.body BY <1>2, <3>1, <3>2
      <4>2. y.body[i] = From(y.range) + i - 1 BY <1>1, <4>1 DEF Delivered
      <4> QED BY <2>4, <3>1, <3>2, <4>2
    <3>3. CASE ~(i <= n)
      <4>1. i = n + 1 /\ i - n = 1 BY <1>3, <3>1, <3>3
      <4>2. data[1] = From(y.range) + n BY <2>1
      <4>3. From(y.range) + (n + 1) - 1 = From(y.range) + n BY <1>3
      <4> QED BY <2>4, <3>1, <3>3, <4>1, <4>2, <4>3
    <3> QED BY <3>2, <3>3
  <2>6. (b - 1) + n + 1 = Budget(y.range) BY <1>3
  <2> QED BY <1>10, <1>13, <1>15, <2>1, <2>7, <2>3, <2>4, <2>5, <2>6
<1> QED BY <1>14, <1>15

LEMMA FirstEventStep ==
    ASSUME DownloadInv, NEW g \in Gets, GetFirst(g)
    PROVE  DownloadInv'
<1>1. /\ get[g] \in GetRecords /\ sink[g] \in SinkRecords /\ Delivered(get[g], shrunk)
      /\ get[g].at = "waiting" /\ UNCHANGED <<reader, shrunk, link>>
  BY OwnDownload DEF GetFirst
<1>2. CASE Drained(g) /\ GivesUp(g, "timeout") BY <1>1, <1>2, GivesUpStep
<1>3. ASSUME sink[g].q # <<>>, Head(sink[g].q).kind = "error", GivesUp(g, "error") PROVE DownloadInv'
  BY <1>1, <1>3, GivesUpStep
<1>4. ASSUME GivesUp(g, "unsatisfiable") PROVE DownloadInv' BY <1>1, <1>4, GivesUpStep
<1>5. ASSUME sink[g].q # <<>>, ~(From(get[g].range) >= FileLen),
             Serves(g, Head(sink[g].q).data, Budget(get[g].range))
      PROVE  DownloadInv'
  <2>1. get[g].range \in Ranges \union {Whole} /\ get[g].body = <<>> BY <1>1 DEF GetRecords, Delivered
  <2>2. From(get[g].range) < FileLen BY <1>5, <2>1, RangeTyped, DownloadAssumption
  <2>3. Budget(get[g].range) \in Nat \ {0} BY <2>1, <2>2, RangeTyped
  <2>4. Len(get[g].body) = 0 BY <2>1
  <2>5. Budget(get[g].range) + Len(get[g].body) = Budget(get[g].range) /\ Budget(get[g].range) # 0
    BY <2>3, <2>4
  <2> QED BY <1>1, <1>5, <2>2, <2>3, <2>5, ServesStep
<1> QED BY <1>2, <1>3, <1>4, <1>5 DEF GetFirst

LEMMA NextEventStep ==
    ASSUME DownloadInv, NEW g \in Gets, GetNext(g)
    PROVE  DownloadInv'
<1> DEFINE y == get[g]
           s == sink[g]
           ev == Head(sink[g].q)
<1>1. /\ y \in GetRecords /\ s \in SinkRecords /\ reader[g] \in ReaderRecords
      /\ Delivered(y, shrunk) /\ Ordered(y, s, reader[g], shrunk)
      /\ y.at = "streaming" /\ UNCHANGED <<reader, shrunk, link>>
  BY OwnDownload DEF GetNext
<1>2. /\ y.range \in Ranges \union {Whole} /\ y.body \in Seq(Nat) /\ y.budget \in Nat /\ s.q \in Seq(Events)
  BY <1>1 DEF GetRecords, SinkRecords
<1>3. From(y.range) < FileLen /\ y.budget + Len(y.body) = Budget(y.range) BY <1>1 DEF Delivered
<1>4. /\ Len(y.body) \in Nat /\ Size(y.range) \in Nat \ {0} /\ From(y.range) \in Nat
      /\ Budget(y.range) = IF y.range = Whole THEN FileLen + 1 ELSE Size(y.range)
  BY <1>2, <1>3, RangeTyped
<1>5. Len(y.body) <= Size(y.range)
  <2>1. CASE y.body # <<>> BY <1>1, <2>1 DEF Delivered
  <2>2. CASE y.body = <<>>
    <3>1. Len(y.body) = 0 BY <2>2
    <3> QED BY <1>4, <3>1
  <2> QED BY <2>1, <2>2
<1>6. ASSUME s.q # <<>>
      PROVE  /\ ev \in Events
             /\ ev.data # <<>> => ev.kind = "chunk"
             /\ ev.kind = "end" /\ ~shrunk => Len(y.body) = Size(y.range)
  <2> DEFINE c == Way(s, reader[g])
             t == [s EXCEPT !.q = Tail(@)]
             n == Len(y.body)
  <2>1. t \in SinkRecords /\ t.q = Tail(s.q) /\ t.live = s.live
    <3>1. Tail(s.q) \in Seq(Events) BY <1>2, <1>6, HeadTailProperties
    <3> QED BY <1>1, <3>1 DEF SinkRecords
  <2> HIDE DEF t
  <2>2. c \in Seq(Events) /\ c # <<>> /\ Head(c) = ev BY <1>1, <1>6, <2>1, WayAhead
  <2>3. Course(c, y.range, n, shrunk) BY <1>1, <1>3 DEF Ordered
  <2>4. ev \in Events BY <1>2, <1>6, HeadTailProperties
  <2> HIDE DEF c, ev
  <2>5. 1 \in DOMAIN c /\ c[1] = ev BY <2>2
  <2>6. ev.data # <<>> => ev.kind = "chunk" BY <2>3, <2>5 DEF Course
  <2>7. ev.kind = "end" /\ ~shrunk => n + 1 - 1 = Size(y.range) BY <2>3, <2>5 DEF Course
  <2>8. n + 1 - 1 = n BY <1>4
  <2> QED BY <2>4, <2>6, <2>7, <2>8
<1>7. CASE Drained(g) /\ GivesUp(g, "failed") BY <1>1, <1>7, GivesUpStep
<1>8. CASE s.q # <<>> /\ GivesUp(g, "failed") BY <1>1, <1>8, GivesUpStep
<1>9. CASE /\ s.q # <<>> /\ ev.kind = "end"
           /\ get' = [get EXCEPT ![g].at = "complete"]
           /\ sink' = [sink EXCEPT ![g] = [live |-> FALSE, open |-> FALSE, q |-> <<>>]]
  <2>1. /\ get' \in [Gets -> GetRecords] /\ \A h \in Gets \ {g} : get'[h] = get[h]
        /\ get'[g].at = "complete" /\ get'[g].body = y.body /\ get'[g].range = y.range
    BY <1>1, <1>9 DEF DownloadInv, GetTypes, GetRecords, GetStates
  <2>2. /\ sink' \in [Gets -> SinkRecords] /\ \A h \in Gets \ {g} : sink'[h] = sink[h]
        /\ ~sink'[g].live /\ sink'[g].q = <<>>
    <3> DEFINE z == [live |-> FALSE, open |-> FALSE, q |-> <<>>]
    <3>1. <<>> \in Seq(Events) OBVIOUS
    <3>2. z \in SinkRecords /\ ~z.live /\ z.q = <<>> BY <3>1 DEF SinkRecords
    <3> HIDE DEF z
    <3>3. sink' = [sink EXCEPT ![g] = z] BY <1>9 DEF z
    <3> QED BY <3>2, <3>3 DEF DownloadInv, GetTypes
  <2> QED BY <1>1, <1>6, <1>9, <2>1, <2>2, LeavesStep
<1>10. CASE /\ s.q # <<>> /\ y.budget = 0
            /\ get' = [get EXCEPT ![g].at = "stopping", ![g].outcome = "complete"]
            /\ UNCHANGED sink
  <2>1. /\ get' \in [Gets -> GetRecords] /\ \A h \in Gets \ {g} : get'[h] = get[h]
        /\ get'[g].at = "stopping" /\ get'[g].body = y.body /\ get'[g].range = y.range
        /\ get'[g].outcome \in Outcomes
    BY <1>1, <1>10 DEF DownloadInv, GetTypes, GetRecords, GetStates, Outcomes
  <2>2. Len(y.body) = Size(y.range)
    <3>1. Len(y.body) = Budget(y.range) BY <1>3, <1>4, <1>10
    <3>2. y.range # Whole
      <4>1. y.range = Whole => Size(y.range) = FileLen /\ FileLen \in Nat
        BY <1>2, DownloadAssumption DEF Size, From
      <4> QED BY <1>4, <1>5, <3>1, <4>1
    <3> QED BY <1>4, <3>1, <3>2
  <2>3. sink' \in [Gets -> SinkRecords] BY <1>10 DEF DownloadInv, GetTypes
  <2> QED BY <1>1, <1>10, <2>1, <2>2, <2>3, LeavesStep
<1>11. CASE /\ s.q # <<>> /\ ev.kind # "error" /\ ev.kind # "end" /\ ~(ev.kind = "chunk" /\ y.budget = 0)
            /\ Serves(g, ev.data, y.budget)
  <2>1. ev.data # <<>> => y.budget # 0 BY <1>6, <1>11
  <2> QED BY <1>1, <1>2, <1>3, <1>11, <2>1, ServesStep
<1>12. Drained(g) \/ s.q # <<>> BY DEF GetNext
<1>13. \/ Drained(g) /\ GivesUp(g, "failed")
       \/ s.q # <<>> /\ GivesUp(g, "failed")
       \/ /\ s.q # <<>> /\ ev.kind = "end"
          /\ get' = [get EXCEPT ![g].at = "complete"]
          /\ sink' = [sink EXCEPT ![g] = [live |-> FALSE, open |-> FALSE, q |-> <<>>]]
       \/ /\ s.q # <<>> /\ y.budget = 0
          /\ get' = [get EXCEPT ![g].at = "stopping", ![g].outcome = "complete"]
          /\ UNCHANGED sink
       \/ /\ s.q # <<>> /\ ev.kind # "error" /\ ev.kind # "end" /\ ~(ev.kind = "chunk" /\ y.budget = 0)
          /\ Serves(g, ev.data, y.budget)
  BY Zenon DEF GetNext
<1> QED BY <1>7, <1>8, <1>9, <1>10, <1>11, <1>13

LEMMA TellsStep ==
    ASSUME DownloadInv, LinkTypes, NEW g \in Gets, GetTellsAgent(g)
    PROVE  DownloadInv'
<1> DEFINE y == get[g]
<1>1. /\ y \in GetRecords /\ reader[g] \in ReaderRecords /\ Delivered(y, shrunk) /\ Read1(g) /\ Once(bulk, "read")
  BY OwnDownload
<1>2. /\ y.at = "stopping" /\ UNCHANGED <<reader, shrunk>>
      /\ get' = [get EXCEPT ![g].at = get[g].outcome]
      /\ sink' = [sink EXCEPT ![g] = [live |-> FALSE, open |-> FALSE, q |-> <<>>]]
      /\ Tell(get[g].gen, "cancel", g, 0)
  BY DEF GetTellsAgent
<1>3. y.outcome \in Outcomes BY <1>1, <1>2 DEF Delivered
<1>4. y.outcome \in GetStates BY <1>3 DEF Outcomes, GetStates
<1>5. /\ get' \in [Gets -> GetRecords] /\ \A h \in Gets \ {g} : get'[h] = get[h]
      /\ get'[g].at = y.outcome /\ get'[g].body = y.body /\ get'[g].range = y.range
  BY <1>1, <1>2, <1>4 DEF DownloadInv, GetTypes, GetRecords
<1>6. /\ sink' \in [Gets -> SinkRecords] /\ \A h \in Gets \ {g} : sink'[h] = sink[h]
      /\ ~sink'[g].live /\ sink'[g].q = <<>>
  <2> DEFINE z == [live |-> FALSE, open |-> FALSE, q |-> <<>>]
  <2>1. <<>> \in Seq(Events) OBVIOUS
  <2>2. z \in SinkRecords /\ ~z.live /\ z.q = <<>> BY <2>1 DEF SinkRecords
  <2> HIDE DEF z
  <2>3. sink' = [sink EXCEPT ![g] = z] BY <1>2 DEF z
  <2> QED BY <2>2, <2>3 DEF DownloadInv, GetTypes
<1>7. Once(bulk', "read") /\ \A h : Carries(bulk', "read", h) => Carries(bulk, "read", h)
  <2> DEFINE m == [kind |-> "cancel", id |-> g, index |-> 0]
  <2>1. bulk' = bulk \/ bulk' = Append(bulk, m) BY <1>2 DEF Tell
  <2>2. m.kind # "read" OBVIOUS
  <2>3. Quiet(bulk, bulk', "read") BY <2>1, <2>2 DEF Quiet
  <2>4. bulk \in Seq(Messages(BulkKinds)) BY DEF LinkTypes
  <2> QED BY <1>1, <2>3, <2>4, QuietKeeps
<1>8. GetTypes' BY <1>2, <1>5, <1>6 DEF DownloadInv, GetTypes
<1>9. Download(get'[g], sink'[g], reader'[g], shrunk)
  <2>1. /\ get'[g].at \notin {"none", "refused", "waiting", "streaming", "stopping"}
        /\ get'[g].at = "complete" => y.outcome = "complete"
    BY <1>3, <1>5 DEF Outcomes
  <2>2. get'[g].at = "complete" /\ ~shrunk => Len(y.body) = Size(y.range)
    BY <1>1, <1>2, <2>1 DEF Delivered
  <2>3. y.at \notin {"none", "refused"} BY <1>2
  <2>4. get'[g].body = y.body /\ get'[g].range = y.range /\ ~sink'[g].live /\ sink'[g].q = <<>>
    BY <1>5, <1>6
  <2>5. Download(get'[g], sink'[g], reader[g], shrunk)
    BY <2>1, <2>2, <2>3, <2>4, Stopped
  <2> QED BY <1>2, <2>5
<1>10. Read1(g)' BY <1>1, <1>2, <1>3, <1>5, <1>7 DEF Read1, Outcomes
<1> QED BY <1>2, <1>5, <1>6, <1>7, <1>8, <1>9, <1>10, OneDownload

LEMMA ClientLeavesStep ==
    ASSUME DownloadInv, NEW g \in Gets, GetClientLeaves(g)
    PROVE  DownloadInv'
<1>1. get[g] \in GetRecords /\ sink[g] \in SinkRecords /\ UNCHANGED <<reader, shrunk, link>>
  BY OwnDownload DEF GetClientLeaves
<1>2. CASE /\ get[g].at = "waiting"
           /\ get' = [get EXCEPT ![g].at = "gone"]
           /\ sink' = [sink EXCEPT ![g].open = FALSE, ![g].q = <<>>]
  <2>1. /\ get' \in [Gets -> GetRecords] /\ \A h \in Gets \ {g} : get'[h] = get[h]
        /\ get'[g].at = "gone" /\ get'[g].body = get[g].body /\ get'[g].range = get[g].range
    BY <1>1, <1>2 DEF DownloadInv, GetTypes, GetRecords, GetStates
  <2>2. /\ sink' \in [Gets -> SinkRecords] /\ \A h \in Gets \ {g} : sink'[h] = sink[h]
        /\ sink'[g].live = sink[g].live /\ sink'[g].q = <<>>
    <3>1. <<>> \in Seq(Events) OBVIOUS
    <3> QED BY <1>1, <1>2, <3>1 DEF DownloadInv, GetTypes, SinkRecords
  <2> QED BY <1>1, <1>2, <2>1, <2>2, LeavesStep
<1>3. CASE get[g].at = "streaming" /\ GivesUp(g, "failed") BY <1>1, <1>3, GivesUpStep
<1> QED BY <1>2, <1>3 DEF GetClientLeaves

(* A step of the sink's map, the reader or the routing, which may shorten what *)
(* is on its way.                                                              *)
LEMMA ReaderMoves ==
    ASSUME DownloadInv, NEW g \in Gets, UNCHANGED <<get, shrunk>>,
           sink' \in [Gets -> SinkRecords], reader' \in [Gets -> ReaderRecords],
           \A h \in Gets \ {g} :
               /\ sink'[h] = sink[h] /\ reader'[h] = reader[h]
               /\ Carries(bulk', "read", h) => Carries(bulk, "read", h),
           Once(bulk', "read"), ~Carries(bulk', "read", g) \/ (Carries(bulk, "read", g) /\ reader'[g].at = "none"),
           Begins(get[g], sink'[g], reader'[g]), Ordered(get[g], sink'[g], reader'[g], shrunk)
    PROVE  DownloadInv'
<1>1. Delivered(get[g], shrunk) /\ Read1(g) BY OwnDownload
<1>2. GetTypes' BY DEF DownloadInv, GetTypes
<1>3. Read1(g)' BY <1>1 DEF Read1
<1>4. Download(get'[g], sink'[g], reader'[g], shrunk) BY <1>1 DEF Download
<1>5. \A h \in Gets \ {g} : get'[h] = get[h] OBVIOUS
<1> QED BY <1>2, <1>3, <1>4, <1>5, OneDownload

LEMMA ReapStep ==
    ASSUME DownloadInv, NEW g \in Gets, ReapSink(g)
    PROVE  DownloadInv'
<1>1. /\ sink[g] \in SinkRecords /\ reader[g] \in ReaderRecords /\ Begins(get[g], sink[g], reader[g])
      /\ Ordered(get[g], sink[g], reader[g], shrunk) /\ Read1(g) /\ Once(bulk, "read")
  BY OwnDownload
<1>2. /\ reader[g].at \in {"none", "over"} /\ sink' = [sink EXCEPT ![g].live = FALSE]
      /\ UNCHANGED <<get, reader, shrunk>> /\ bulk' = bulk
  BY DEF ReapSink, link
<1>3. /\ sink' \in [Gets -> SinkRecords] /\ \A h \in Gets \ {g} : sink'[h] = sink[h]
      /\ ~sink'[g].live /\ sink'[g].q = sink[g].q
  BY <1>1, <1>2 DEF DownloadInv, GetTypes, SinkRecords
<1>4. ~Sending(sink[g], reader[g]) /\ ~Sending(sink'[g], reader[g]) BY <1>2 DEF Sending
<1>5. Way(sink'[g], reader[g]) = Way(sink[g], reader[g]) BY <1>3, <1>4 DEF Way
<1>6. Begins(get[g], sink'[g], reader[g]) BY <1>1, <1>3 DEF Begins
<1>7. Ordered(get[g], sink'[g], reader[g], shrunk) BY <1>1, <1>3, <1>4, <1>5 DEF Ordered, Counted
<1>8. reader' \in [Gets -> ReaderRecords] BY <1>2 DEF DownloadInv, GetTypes
<1>9. ~Carries(bulk', "read", g) \/ (Carries(bulk, "read", g) /\ reader'[g].at = "none")
  BY <1>1, <1>2 DEF Read1
<1> QED BY <1>1, <1>2, <1>3, <1>6, <1>7, <1>8, <1>9, ReaderMoves

LEMMA TakesReadStep ==
    ASSUME DownloadInv, LinkTypes, NEW g \in Gets, AgentTakesRead(g)
    PROVE  DownloadInv'
<1>1. /\ sink[g] \in SinkRecords /\ reader[g] \in ReaderRecords /\ Begins(get[g], sink[g], reader[g])
      /\ Ordered(get[g], sink[g], reader[g], shrunk) /\ Read1(g) /\ Once(bulk, "read")
  BY OwnDownload
<1>2. /\ reader' = [reader EXCEPT ![g].at = "reading", ![g].listed = TRUE]
      /\ UNCHANGED <<get, sink, shrunk>>
      /\ bulk # <<>> /\ Head(bulk).kind = "read" /\ Head(bulk).id = g /\ bulk' = Tail(bulk)
  BY DEF AgentTakesRead, Takes, IsNext
<1>3. bulk \in Seq(Messages(BulkKinds)) BY DEF LinkTypes
<1>4. /\ Once(bulk', "read") /\ Carries(bulk, "read", g) /\ ~Carries(bulk', "read", g)
      /\ \A h : Carries(bulk', "read", h) => Carries(bulk, "read", h)
  BY <1>1, <1>2, <1>3, TakenIsGone
<1>5. reader[g].at = "none" /\ get[g].at \notin {"none", "refused"} BY <1>1, <1>4 DEF Read1
<1>6. /\ reader' \in [Gets -> ReaderRecords] /\ \A h \in Gets \ {g} : reader'[h] = reader[h]
      /\ reader'[g].at = "reading" /\ reader'[g].idx = reader[g].idx
  BY <1>1, <1>2 DEF DownloadInv, GetTypes, ReaderRecords
<1>7. ~Sending(sink[g], reader[g]) /\ ~Sending(sink[g], reader'[g]) BY <1>5, <1>6 DEF Sending
<1>8. Way(sink[g], reader'[g]) = Way(sink[g], reader[g]) BY <1>7 DEF Way
<1>9. Begins(get[g], sink[g], reader'[g])
  <2>1. reader[g].idx = 0 BY <1>1, <1>5 DEF Begins
  <2>2. ASSUME From(get[g].range) < FileLen PROVE Within(get[g].range, reader'[g])
    <3>1. get[g].range \in Ranges \union {Whole} BY OwnDownload DEF GetRecords
    <3>2. Size(get[g].range) \in Nat \ {0} BY <2>2, <3>1, RangeTyped
    <3> QED BY <1>6, <2>1, <3>2 DEF Within
  <2> QED BY <1>5, <1>6, <2>2 DEF Begins
<1>10. Ordered(get[g], sink[g], reader'[g], shrunk)
  BY <1>1, <1>5, <1>6, <1>7, <1>8 DEF Ordered, Counted
<1>11. sink' \in [Gets -> SinkRecords] BY <1>2 DEF DownloadInv, GetTypes
<1> QED BY <1>2, <1>4, <1>6, <1>9, <1>10, <1>11, ReaderMoves

(* Two states of a reader that the handler cannot tell apart.                  *)
LEMMA ReaderAlike ==
    ASSUME NEW y, NEW s, NEW x, NEW z, NEW cut, Begins(y, s, x), Ordered(y, s, x, cut),
           z.at = x.at, z.idx = x.idx, z.evs = x.evs, z.stop = x.stop
    PROVE  Begins(y, s, z) /\ Ordered(y, s, z, cut)
<1>1. Sending(s, z) <=> Sending(s, x) BY DEF Sending
<1>2. Way(s, z) = Way(s, x) BY <1>1 DEF Way
<1> QED BY <1>1, <1>2 DEF Begins, Within, Ordered, Counted

LEMMA TakesCancelStep ==
    ASSUME DownloadInv, LinkTypes, NEW g \in Gets, AgentTakesCancel(g)
    PROVE  DownloadInv'
<1>1. /\ reader[g] \in ReaderRecords /\ Begins(get[g], sink[g], reader[g])
      /\ Ordered(get[g], sink[g], reader[g], shrunk) /\ Read1(g) /\ Once(bulk, "read")
  BY OwnDownload
<1>2. /\ reader' = [reader EXCEPT ![g].listed = FALSE,
                                  ![g].cancelled = IF reader[g].listed THEN TRUE ELSE @]
      /\ UNCHANGED <<get, sink, shrunk>> /\ bulk # <<>> /\ bulk' = Tail(bulk)
  BY DEF AgentTakesCancel, Takes, IsNext
<1>3. bulk \in Seq(Messages(BulkKinds)) BY DEF LinkTypes
<1>4. Once(bulk', "read") /\ \A h : Carries(bulk', "read", h) => Carries(bulk, "read", h)
  BY <1>1, <1>2, <1>3, QuietKeeps DEF Quiet
<1>5. /\ reader' \in [Gets -> ReaderRecords] /\ \A h \in Gets \ {g} : reader'[h] = reader[h]
      /\ reader'[g].at = reader[g].at /\ reader'[g].idx = reader[g].idx
      /\ reader'[g].evs = reader[g].evs /\ reader'[g].stop = reader[g].stop
  BY <1>1, <1>2 DEF DownloadInv, GetTypes, ReaderRecords
<1>6. Begins(get[g], sink[g], reader'[g]) /\ Ordered(get[g], sink[g], reader'[g], shrunk)
  BY <1>1, <1>5, ReaderAlike
<1>7. sink' \in [Gets -> SinkRecords] BY <1>2 DEF DownloadInv, GetTypes
<1>8. ~Carries(bulk', "read", g) \/ (Carries(bulk, "read", g) /\ reader'[g].at = "none")
  BY <1>1, <1>4, <1>5 DEF Read1
<1> QED BY <1>2, <1>4, <1>5, <1>6, <1>7, <1>8, ReaderMoves

(* The end of a reader, or of a post that nobody waited for.                   *)
LEMMA EndsQuietly ==
    ASSUME NEW y \in GetRecords, NEW s \in SinkRecords, NEW x \in ReaderRecords, NEW t \in SinkRecords,
           NEW z \in ReaderRecords, NEW cut,
           Begins(y, s, x), Ordered(y, s, x, cut), x.at # "none",
           t.q = s.q, t.live => s.live, z.at \in {"over", "stalled"} \/ (z.at = "reading" /\ ~t.live),
           z.at = "stalled" => ~t.live, From(y.range) < FileLen => Within(y.range, z)
    PROVE  Begins(y, t, z) /\ Ordered(y, t, z, cut)
<1>1. ~Sending(t, z) BY DEF Sending
<1>2. s.q \in Seq(Events) /\ x.evs \in Seq(Events) /\ <<>> \in Seq(Events) BY DEF SinkRecords, ReaderRecords
<1>3. Way(t, z) = s.q BY <1>1, <1>2, ConcatEmptySeq DEF Way
<1>4. Begins(y, t, z) BY DEF Begins
<1>5. ASSUME y.at \in {"waiting", "streaming"}, From(y.range) < FileLen
      PROVE  Course(s.q, y.range, Len(y.body), cut)
  <2>1. Course(Way(s, x), y.range, Len(y.body), cut) BY <1>5 DEF Ordered
  <2>2. CASE Sending(s, x)
    <3>1. Way(s, x) = s.q \o x.evs BY <2>2 DEF Way
    <3> QED BY <1>2, <2>1, <3>1, CourseShortens
  <2>3. CASE ~Sending(s, x)
    <3>1. Way(s, x) = s.q \o <<>> BY <2>3 DEF Way
    <3> QED BY <1>2, <2>1, <3>1, CourseShortens
  <2> QED BY <2>2, <2>3
<1>6. Counted(t, z, Len(y.body)) BY <1>1 DEF Counted
<1>7. Ordered(y, t, z, cut) BY <1>3, <1>5, <1>6 DEF Ordered
<1> QED BY <1>4, <1>7

LEMMA EndedRecord ==
    ASSUME NEW x \in ReaderRecords
    PROVE  Ended(x) \in ReaderRecords /\ Ended(x).at = "over"
<1>1. <<>> \in Seq(Events) OBVIOUS
<1> QED BY <1>1 DEF Ended, ReaderRecords

LEMMA AckedRecord ==
    ASSUME NEW x \in ReaderRecords
    PROVE  /\ Acked(x) \in ReaderRecords
           /\ \A r : x.at \in {"posting", "sending", "stalled"} /\ Within(r, x) => Within(r, Acked(x))
           /\ x.stop => Acked(x).at = "over"
           /\ ~x.stop => Acked(x).at = "reading" /\ Acked(x).idx = x.idx + 1
<1>1. <<>> \in Seq(Events) /\ x.idx + 1 \in Nat BY DEF ReaderRecords
<1>2. CASE x.stop
  <2>1. Acked(x) = Ended(x) BY <1>2 DEF Acked
  <2> QED BY <1>2, <2>1, EndedRecord DEF Within
<1>3. CASE ~x.stop
  <2>1. Acked(x) = [x EXCEPT !.at = "reading", !.idx = x.idx + 1, !.evs = <<>>] BY <1>3 DEF Acked
  <2>2. Acked(x) \in ReaderRecords /\ Acked(x).at = "reading" /\ Acked(x).idx = x.idx + 1
    BY <1>1, <2>1 DEF ReaderRecords
  <2> QED BY <1>3, <2>2 DEF Within
<1> QED BY <1>2, <1>3

LEMMA EndingSteps ==
    ASSUME DownloadInv, LinkTypes, NEW g \in Gets,
           \/ PostFails(g) \/ RouteStalls(g) \/ RouteCancels(g)
           \/ reader[g].at = "reading" /\ reader' = [reader EXCEPT ![g] = Ended(@)]
              /\ UNCHANGED <<get, sink, shrunk, link>>
           \/ RouteFinds(g) /\ ~sink[g].live
    PROVE  DownloadInv'
<1>1. /\ get[g] \in GetRecords /\ sink[g] \in SinkRecords /\ reader[g] \in ReaderRecords
      /\ Begins(get[g], sink[g], reader[g]) /\ Ordered(get[g], sink[g], reader[g], shrunk)
      /\ Read1(g) /\ Once(bulk, "read")
  BY OwnDownload
<1>2. ASSUME NEW t \in SinkRecords, NEW z \in ReaderRecords, reader[g].at # "none",
             UNCHANGED <<get, shrunk>>, Once(bulk', "read"), \A h : Carries(bulk', "read", h) => Carries(bulk, "read", h),
             sink' = [sink EXCEPT ![g] = t], reader' = [reader EXCEPT ![g] = z],
             t.q = sink[g].q, t.live => sink[g].live,
             z.at \in {"over", "stalled"} \/ (z.at = "reading" /\ ~t.live), z.at = "stalled" => ~t.live,
             From(get[g].range) < FileLen => Within(get[g].range, z)
      PROVE  DownloadInv'
  <2>1. /\ sink' \in [Gets -> SinkRecords] /\ sink'[g] = t /\ \A h \in Gets \ {g} : sink'[h] = sink[h]
        /\ reader' \in [Gets -> ReaderRecords] /\ reader'[g] = z /\ \A h \in Gets \ {g} : reader'[h] = reader[h]
    BY <1>2 DEF DownloadInv, GetTypes
  <2>2. Begins(get[g], t, z) /\ Ordered(get[g], t, z, shrunk) BY <1>1, <1>2, EndsQuietly
  <2>3. ~Carries(bulk', "read", g) BY <1>1, <1>2 DEF Read1
  <2> QED BY <1>2, <2>1, <2>2, <2>3, ReaderMoves
<1>3. sink' = sink => sink' = [sink EXCEPT ![g] = sink[g]] BY DEF DownloadInv, GetTypes
<1>4. /\ Ended(reader[g]) \in ReaderRecords /\ Ended(reader[g]).at = "over"
      /\ Within(get[g].range, Ended(reader[g]))
  BY <1>1, EndedRecord DEF Within
<1>5. /\ Acked(reader[g]) \in ReaderRecords /\ Acked(reader[g]).at \in {"over", "reading"}
      /\ reader[g].at \in {"posting", "sending", "stalled"} /\ From(get[g].range) < FileLen =>
            Within(get[g].range, Acked(reader[g]))
  BY <1>1, AckedRecord DEF Begins
<1>6. CASE PostFails(g)
  <2>1. /\ reader[g].at # "none" /\ UNCHANGED <<get, sink, shrunk>> /\ bulk' = bulk
        /\ reader' = [reader EXCEPT ![g] = Ended(reader[g])]
    BY <1>6 DEF PostFails, link
  <2> QED BY <1>1, <1>2, <1>3, <1>4, <2>1
<1>7. CASE RouteStalls(g)
  <2> DEFINE t == [sink[g] EXCEPT !.live = FALSE]
             z == [reader[g] EXCEPT !.at = "stalled"]
  <2>1. /\ reader[g].at # "none" /\ UNCHANGED <<get, shrunk>> /\ bulk' = bulk
        /\ sink' = [sink EXCEPT ![g] = t] /\ reader' = [reader EXCEPT ![g] = z]
    BY <1>7 DEF RouteStalls, link
  <2>2. /\ t \in SinkRecords /\ t.q = sink[g].q /\ ~t.live
        /\ z \in ReaderRecords /\ z.at = "stalled" /\ z.idx = reader[g].idx /\ z.stop = reader[g].stop
    BY <1>1 DEF SinkRecords, ReaderRecords
  <2> HIDE DEF t, z
  <2>3. reader[g].at = "sending" BY <1>7 DEF RouteStalls
  <2>4. From(get[g].range) < FileLen => Within(get[g].range, z) BY <1>1, <2>2, <2>3 DEF Begins, Within
  <2> QED BY <1>1, <1>2, <2>1, <2>2, <2>4
<1>8. CASE RouteCancels(g)
  <2>1. /\ reader[g].at = "stalled" /\ UNCHANGED <<get, sink, shrunk>> /\ Tell(gen, "cancel", g, 0)
        /\ reader' = [reader EXCEPT ![g] = Acked(reader[g])]
    BY <1>8 DEF RouteCancels
  <2>2. ~sink[g].live BY <1>1, <2>1 DEF Begins
  <2>3. Once(bulk', "read") /\ \A h : Carries(bulk', "read", h) => Carries(bulk, "read", h)
    <3> DEFINE m == [kind |-> "cancel", id |-> g, index |-> 0]
    <3>1. bulk' = bulk \/ bulk' = Append(bulk, m) BY <2>1 DEF Tell
    <3>2. m.kind # "read" OBVIOUS
    <3>3. Quiet(bulk, bulk', "read") BY <3>1, <3>2 DEF Quiet
    <3>4. bulk \in Seq(Messages(BulkKinds)) BY DEF LinkTypes
    <3> QED BY <1>1, <3>3, <3>4, QuietKeeps
  <2> QED BY <1>1, <1>2, <1>3, <1>5, <2>1, <2>2, <2>3
<1>9. CASE /\ reader[g].at = "reading" /\ reader' = [reader EXCEPT ![g] = Ended(@)]
           /\ UNCHANGED <<get, sink, shrunk, link>>
  <2>1. bulk' = bulk BY <1>9 DEF link
  <2> QED BY <1>1, <1>2, <1>3, <1>4, <1>9, <2>1
<1>10. CASE RouteFinds(g) /\ ~sink[g].live
  <2>1. /\ reader[g].at = "posting" /\ UNCHANGED <<get, sink, shrunk>> /\ bulk' = bulk
        /\ reader' = [reader EXCEPT ![g] = Acked(reader[g])]
    BY <1>10 DEF RouteFinds, link
  <2> QED BY <1>1, <1>2, <1>3, <1>5, <1>10, <2>1
<1> QED BY <1>6, <1>7, <1>8, <1>9, <1>10

(* A post goes out with the events that come next.                             *)
LEMMA PostsStep ==
    ASSUME DownloadInv, NEW g \in Gets, reader[g].at = "reading", UNCHANGED <<get, sink, shrunk, link>>,
           NEW evs \in Seq(Events), NEW last \in BOOLEAN, NEW stop \in BOOLEAN, Posts(g, evs, last, stop),
           From(get[g].range) < FileLen =>
               /\ Course(evs, get[g].range, reader[g].idx, shrunk)
               /\ ~stop => Filled(evs) /\ Len(evs) = 1 /\ reader[g].idx + 1 < Size(get[g].range)
    PROVE  DownloadInv'
<1> DEFINE y == get[g]
           s == sink[g]
           x == reader[g]
           n == Len(get[g].body)
<1>1. /\ y \in GetRecords /\ s \in SinkRecords /\ x \in ReaderRecords
      /\ Begins(y, s, x) /\ Ordered(y, s, x, shrunk) /\ Read1(g) /\ Once(bulk, "read")
  BY OwnDownload
<1>2. bulk' = bulk BY DEF link
<1> DEFINE z == reader'[g]
<1>3. /\ reader' \in [Gets -> ReaderRecords] /\ \A h \in Gets \ {g} : reader'[h] = reader[h]
      /\ z.at = "posting" /\ z.idx = x.idx /\ z.evs = evs /\ z.stop = stop
  BY <1>1 DEF Posts, DownloadInv, GetTypes, ReaderRecords
<1>4. y.range \in Ranges \union {Whole} /\ y.body \in Seq(Nat) /\ s.q \in Seq(Events) /\ n \in Nat
      /\ x.idx \in Nat
  BY <1>1 DEF GetRecords, SinkRecords, ReaderRecords
<1>5. Begins(y, s, z) BY <1>1, <1>3 DEF Begins, Within
<1>6. Way(s, x) = s.q
  <2>1. ~Sending(s, x) BY DEF Sending
  <2> QED BY <1>4, <2>1, ConcatEmptySeq DEF Way
<1>7. ASSUME y.at \in {"waiting", "streaming"}, From(y.range) < FileLen
      PROVE  Course(Way(s, z), y.range, n, shrunk) /\ Counted(s, z, n)
  <2>1. Course(s.q, y.range, n, shrunk) /\ Counted(s, x, n) BY <1>1, <1>6, <1>7 DEF Ordered
  <2>2. CASE s.live
    <3>1. Filled(s.q) /\ n + Len(s.q) = x.idx BY <2>1, <2>2 DEF Counted
    <3>2. Sending(s, z) /\ Way(s, z) = s.q \o evs BY <1>3, <2>2 DEF Sending, Way
    <3>3. Course(evs, y.range, n + Len(s.q), shrunk) BY <1>7, <3>1
    <3>4. Course(s.q \o evs, y.range, n, shrunk) /\ (Filled(evs) => Filled(s.q \o evs))
      BY <1>4, <1>7, <2>1, <3>1, <3>3, CourseGrows
    <3>5. ~stop => n + Len(s.q \o evs) = x.idx + 1
      <4>1. Len(s.q \o evs) = Len(s.q) + Len(evs) /\ Len(s.q) \in Nat BY <1>4, ConcatProperties
      <4>2. \A a, b \in Nat : a + (b + 1) = a + b + 1 OBVIOUS
      <4>3. n + (Len(s.q) + 1) = n + Len(s.q) + 1 BY <1>4, <4>1, <4>2
      <4> QED BY <1>7, <3>1, <4>1, <4>3
    <3>6. Counted(s, z, n) BY <1>3, <1>7, <3>2, <3>4, <3>5 DEF Counted
    <3> QED BY <3>2, <3>4, <3>6
  <2>3. CASE ~s.live
    <3>1. ~Sending(s, z) BY <1>3, <2>3 DEF Sending
    <3>2. Way(s, z) = s.q BY <1>4, <3>1, ConcatEmptySeq DEF Way
    <3>3. Counted(s, z, n) BY <1>3, <3>1 DEF Counted
    <3> QED BY <2>1, <3>2, <3>3
  <2> QED BY <2>2, <2>3
<1>8. Ordered(y, s, z, shrunk) BY <1>7 DEF Ordered
<1>9. ~Carries(bulk', "read", g) BY <1>1, <1>2 DEF Read1
<1>10. sink' \in [Gets -> SinkRecords] BY DEF DownloadInv, GetTypes
<1> QED BY <1>1, <1>2, <1>3, <1>5, <1>8, <1>9, <1>10, ReaderMoves

LEMMA OneEvent ==
    ASSUME NEW e \in Events
    PROVE  /\ <<e>> \in Seq(Events) /\ Len(<<e>>) = 1 /\ DOMAIN <<e>> = {1} /\ <<e>>[1] = e
           /\ Filled(<<e>>) <=> e.data # <<>>
<1>1. <<e>> \in Seq(Events) /\ Len(<<e>>) = 1 /\ DOMAIN <<e>> = {1} /\ <<e>>[1] = e OBVIOUS
<1> QED BY <1>1 DEF Filled

LEMMA ReaderPostsStep ==
    ASSUME ~AgentIgnoresRange, DownloadInv, LinkTypes, NEW g \in Gets, ReaderPosts(g)
    PROVE  DownloadInv'
<1> DEFINE r == get[g].range
           k == reader[g].idx
           data == IF shrunk \/ ToRead(g) = 0 THEN <<>> ELSE <<Offset(g) + reader[g].idx>>
           chunk == [kind |-> "chunk", data |-> data]
           end == [kind |-> "end", data |-> <<>>]
           error == [kind |-> "error", data |-> <<>>]
<1>1. /\ get[g] \in GetRecords /\ reader[g] \in ReaderRecords
      /\ reader[g].at = "reading" /\ UNCHANGED <<get, sink, shrunk, link>>
  BY OwnDownload DEF ReaderPosts
<1>2. r \in Ranges \union {Whole} /\ k \in Nat BY <1>1 DEF GetRecords, ReaderRecords
<1>3. From(r) \in Nat BY <1>2, RangeTyped
<1>4. Offset(g) \in Nat
  <2>1. Offset(g) = From(r) BY DEF Offset
  <2> QED BY <1>3, <2>1
<1>5. data \in Seq(Nat)
  <2>1. Offset(g) + k \in Nat BY <1>2, <1>4
  <2>2. <<Offset(g) + k>> \in Seq(Nat) /\ <<>> \in Seq(Nat) BY <2>1
  <2> QED BY <2>2
<1>6. chunk \in Events /\ end \in Events /\ error \in Events
  <2>1. <<>> \in Seq(Nat) OBVIOUS
  <2> QED BY <1>5, <2>1 DEF Events
<1>7. ASSUME From(r) < FileLen
      PROVE  /\ Size(r) \in Nat \ {0} /\ ToRead(g) = Size(r)
             /\ data # <<>> => data = <<From(r) + k>> /\ ~shrunk
             /\ ~shrunk => data # <<>>
             /\ IsLast(g) <=> k + 1 >= Size(r)
  <2>1. Size(r) \in Nat \ {0} /\ ToRead(g) = Size(r) /\ Offset(g) = From(r)
    BY <1>2, <1>7, RangeTyped, ReadsRange
  <2>2. IsLast(g) <=> k + 1 >= Size(r) BY <2>1 DEF IsLast
  <2>3. <<From(r) + k>> # <<>> OBVIOUS
  <2> QED BY <2>1, <2>2, <2>3
<1>8. Course(<<error>>, r, k, shrunk)
  <2>1. error.data = <<>> /\ error.kind = "error" OBVIOUS
  <2> HIDE DEF error
  <2> QED BY <1>6, <2>1, OneEvent DEF Course
<1>9. chunk.kind = "chunk" /\ chunk.data = data /\ end.kind = "end" /\ end.data = <<>> OBVIOUS
<1> HIDE DEF data, chunk, end, error
<1>10. From(r) < FileLen => k < Size(r) /\ k + 1 <= Size(r)
  <2>1. Begins(get[g], sink[g], reader[g]) BY OwnDownload
  <2>2. From(r) < FileLen => k < Size(r) BY <1>1, <2>1 DEF Begins, Within
  <2> QED BY <1>2, <1>7, <2>2
<1>11. ASSUME From(r) < FileLen PROVE Course(<<chunk>>, r, k, shrunk)
  <2>1. data # <<>> => data = <<From(r) + k + 1 - 1>> /\ k + 1 <= Size(r)
    <3>1. From(r) + k + 1 - 1 = From(r) + k BY <1>2, <1>3
    <3> QED BY <1>7, <1>10, <1>11, <3>1
  <2>2. 1 .. 1 - 1 = {} OBVIOUS
  <2> QED BY <1>6, <1>9, <2>1, <2>2, OneEvent DEF Course
<1>12. ASSUME From(r) < FileLen, IsLast(g) PROVE Course(<<chunk, end>>, r, k, shrunk)
  <2> DEFINE c == <<chunk, end>>
  <2>1. DOMAIN c = {1, 2} /\ c[1] = chunk /\ c[2] = end OBVIOUS
  <2> HIDE DEF c
  <2>2. data # <<>> => data = <<From(r) + k + 1 - 1>> /\ k + 1 <= Size(r)
    <3>1. From(r) + k + 1 - 1 = From(r) + k BY <1>2, <1>3
    <3> QED BY <1>7, <1>10, <1>12, <3>1
  <2>3. k + 2 - 1 = Size(r)
    <3>1. k + 1 >= Size(r) /\ k < Size(r) /\ Size(r) \in Nat BY <1>7, <1>10, <1>12
    <3> QED BY <1>2, <3>1
  <2>4. 1 .. 1 - 1 = {} /\ 1 .. 2 - 1 = {1} OBVIOUS
  <2>5. ~shrunk => data # <<>> BY <1>7, <1>12
  <2> QED BY <1>9, <2>1, <2>2, <2>3, <2>4, <2>5 DEF Course, c
<1>13. <<chunk, end>> \in Seq(Events) BY <1>6
<1>14. CASE reader[g].cancelled /\ reader' = [reader EXCEPT ![g] = Ended(@)] BY <1>1, <1>14, EndingSteps
<1>15. CASE IsLast(g) /\ Posts(g, <<chunk, end>>, TRUE, TRUE)
  BY <1>1, <1>12, <1>13, <1>15, PostsStep
<1>16. CASE ~IsLast(g) /\ data # <<>> /\ Posts(g, <<chunk>>, FALSE, FALSE)
  <2>1. <<chunk>> \in Seq(Events) /\ Filled(<<chunk>>) /\ Len(<<chunk>>) = 1
    BY <1>6, <1>9, <1>16, OneEvent
  <2>2. From(r) < FileLen => k + 1 < Size(r)
    <3>1. ASSUME From(r) < FileLen PROVE k + 1 < Size(r)
      <4>1. ~(k + 1 >= Size(r)) /\ Size(r) \in Nat BY <1>7, <1>16, <3>1
      <4> QED BY <1>2, <4>1
    <3> QED BY <3>1
  <2> QED BY <1>1, <1>11, <1>16, <2>1, <2>2, PostsStep
<1>17. CASE ~IsLast(g) /\ data = <<>> /\ Posts(g, <<chunk>>, FALSE, TRUE)
  <2>1. <<chunk>> \in Seq(Events) BY <1>6, OneEvent
  <2> QED BY <1>1, <1>11, <1>17, <2>1, PostsStep
<1>18. CASE Posts(g, <<error>>, TRUE, TRUE)
  <2>1. <<error>> \in Seq(Events) BY <1>6, OneEvent
  <2> QED BY <1>1, <1>8, <1>18, <2>1, PostsStep
<1>19. \/ reader[g].cancelled /\ reader' = [reader EXCEPT ![g] = Ended(@)]
       \/ IsLast(g) /\ Posts(g, <<chunk, end>>, TRUE, TRUE)
       \/ ~IsLast(g) /\ data # <<>> /\ Posts(g, <<chunk>>, FALSE, FALSE)
       \/ ~IsLast(g) /\ data = <<>> /\ Posts(g, <<chunk>>, FALSE, TRUE)
       \/ Posts(g, <<error>>, TRUE, TRUE)
  BY DEF ReaderPosts, data, chunk, end, error
<1> QED BY <1>14, <1>15, <1>16, <1>17, <1>18, <1>19

(* A post finds its sink, its events go in, and it is answered.                *)
LEMMA FindsStep ==
    ASSUME DownloadInv, NEW g \in Gets, RouteFinds(g), sink[g].live
    PROVE  DownloadInv'
<1>1. /\ get[g] \in GetRecords /\ sink[g] \in SinkRecords /\ reader[g] \in ReaderRecords
      /\ Begins(get[g], sink[g], reader[g]) /\ Ordered(get[g], sink[g], reader[g], shrunk)
      /\ Read1(g) /\ Once(bulk, "read")
  BY OwnDownload
<1> DEFINE z == [reader[g] EXCEPT !.at = "sending"]
<1>2. /\ reader[g].at = "posting" /\ UNCHANGED <<get, sink, shrunk>> /\ bulk' = bulk
      /\ reader' = [reader EXCEPT ![g] = z]
  BY DEF RouteFinds, link
<1>3. /\ z \in ReaderRecords /\ z.at = "sending" /\ z.idx = reader[g].idx /\ z.evs = reader[g].evs
      /\ z.stop = reader[g].stop
  BY <1>1 DEF ReaderRecords
<1> HIDE DEF z
<1>4. Sending(sink[g], z) /\ Sending(sink[g], reader[g]) BY <1>2, <1>3 DEF Sending
<1>5. Way(sink[g], z) = Way(sink[g], reader[g]) BY <1>3, <1>4 DEF Way
<1>6. Begins(get[g], sink[g], z) BY <1>1, <1>2, <1>3 DEF Begins, Within
<1>7. Ordered(get[g], sink[g], z, shrunk) BY <1>1, <1>2, <1>3, <1>4, <1>5 DEF Ordered, Counted
<1>8. /\ reader' \in [Gets -> ReaderRecords] /\ reader'[g] = z /\ \A h \in Gets \ {g} : reader'[h] = reader[h]
      /\ sink' \in [Gets -> SinkRecords]
  BY <1>2, <1>3 DEF DownloadInv, GetTypes
<1>9. ~Carries(bulk', "read", g) BY <1>1, <1>2 DEF Read1
<1> QED BY <1>1, <1>2, <1>6, <1>7, <1>8, <1>9, ReaderMoves

LEMMA HeadMoves ==
    ASSUME NEW q \in Seq(Events), NEW e \in Seq(Events), e # <<>>
    PROVE  /\ Append(q, Head(e)) \in Seq(Events) /\ Tail(e) \in Seq(Events)
           /\ Append(q, Head(e)) \o Tail(e) = q \o e
<1>1. Head(e) \in Events /\ Tail(e) \in Seq(Events) /\ Len(Tail(e)) = Len(e) - 1 /\ Head(e) = e[1]
      /\ \A i \in 1 .. Len(e) - 1 : Tail(e)[i] = e[i + 1]
  OBVIOUS
<1> DEFINE p == Append(q, Head(e))
           t == Tail(e)
<1>2. p \in Seq(Events) /\ Len(p) = Len(q) + 1 /\ p[Len(q) + 1] = e[1] /\ \A i \in 1 .. Len(q) : p[i] = q[i]
  BY <1>1
<1>3. Len(q) \in Nat /\ Len(e) \in Nat \ {0} BY HeadTailProperties
<1>4. t \in Seq(Events) /\ Len(t) = Len(e) - 1 /\ \A i \in 1 .. Len(e) - 1 : t[i] = e[i + 1] BY <1>1
<1> HIDE DEF p, t
<1> DEFINE c == p \o t
           d == q \o e
<1>5. /\ c \in Seq(Events) /\ Len(c) = Len(p) + Len(t)
      /\ \A i \in 1 .. Len(p) + Len(t) : c[i] = IF i <= Len(p) THEN p[i] ELSE t[i - Len(p)]
  BY <1>2, <1>4, ConcatProperties
<1>6. /\ d \in Seq(Events) /\ Len(d) = Len(q) + Len(e)
      /\ \A i \in 1 .. Len(q) + Len(e) : d[i] = IF i <= Len(q) THEN q[i] ELSE e[i - Len(q)]
  BY ConcatProperties
<1> HIDE DEF c, d
<1>7. Len(c) = Len(d) BY <1>2, <1>3, <1>4, <1>5, <1>6
<1>8. ASSUME NEW i \in 1 .. Len(c) PROVE c[i] = d[i]
  <2>1. i \in 1 .. Len(p) + Len(t) /\ i \in 1 .. Len(q) + Len(e) /\ i \in Nat BY <1>3, <1>5, <1>6, <1>7
  <2>2. c[i] = IF i <= Len(p) THEN p[i] ELSE t[i - Len(p)] BY <1>5, <2>1
  <2>3. d[i] = IF i <= Len(q) THEN q[i] ELSE e[i - Len(q)] BY <1>6, <2>1
  <2>4. CASE i <= Len(q)
    <3>1. i <= Len(p) /\ i \in 1 .. Len(q) BY <1>2, <1>3, <2>1, <2>4
    <3> QED BY <1>2, <2>2, <2>3, <2>4, <3>1
  <2>5. CASE i = Len(q) + 1
    <3>1. i <= Len(p) /\ ~(i <= Len(q)) /\ i - Len(q) = 1 BY <1>2, <1>3, <2>5
    <3> QED BY <1>2, <2>2, <2>3, <2>5, <3>1
  <2>6. CASE i > Len(q) + 1
    <3>1. /\ ~(i <= Len(p)) /\ ~(i <= Len(q)) /\ i - Len(p) \in 1 .. Len(e) - 1
          /\ (i - Len(p)) + 1 = i - Len(q)
      BY <1>2, <1>3, <2>1, <2>6
    <3> QED BY <1>4, <2>2, <2>3, <3>1
  <2> QED BY <1>3, <2>1, <2>4, <2>5, <2>6
<1>9. c = d BY <1>5, <1>6, <1>7, <1>8, SeqEqual
<1> QED BY <1>1, <1>2, <1>9 DEF c, d, p, t

LEMMA EventGoesIn ==
    ASSUME DownloadInv, NEW g \in Gets, RouteSends(g)
    PROVE  DownloadInv'
<1>1. /\ get[g] \in GetRecords /\ sink[g] \in SinkRecords /\ reader[g] \in ReaderRecords
      /\ Begins(get[g], sink[g], reader[g]) /\ Ordered(get[g], sink[g], reader[g], shrunk)
      /\ Read1(g) /\ Once(bulk, "read")
  BY OwnDownload
<1>2. sink[g].q \in Seq(Events) /\ reader[g].evs \in Seq(Events) BY <1>1 DEF SinkRecords, ReaderRecords
<1> DEFINE t == [sink[g] EXCEPT !.q = Append(@, Head(reader[g].evs))]
           z == [reader[g] EXCEPT !.evs = Tail(@)]
<1>3. /\ reader[g].at = "sending" /\ reader[g].evs # <<>> /\ UNCHANGED <<get, shrunk>> /\ bulk' = bulk
      /\ sink' = [sink EXCEPT ![g] = t] /\ reader' = [reader EXCEPT ![g] = z]
  BY DEF RouteSends, link
<1>4. /\ Append(sink[g].q, Head(reader[g].evs)) \in Seq(Events) /\ Tail(reader[g].evs) \in Seq(Events)
      /\ Append(sink[g].q, Head(reader[g].evs)) \o Tail(reader[g].evs) = sink[g].q \o reader[g].evs
  BY <1>2, <1>3, HeadMoves
<1>5. /\ t \in SinkRecords /\ t.live = sink[g].live /\ t.q = Append(sink[g].q, Head(reader[g].evs))
      /\ z \in ReaderRecords /\ z.at = "sending" /\ z.idx = reader[g].idx /\ z.stop = reader[g].stop
      /\ z.evs = Tail(reader[g].evs)
  BY <1>1, <1>3, <1>4 DEF SinkRecords, ReaderRecords
<1> HIDE DEF t, z
<1>6. Sending(t, z) /\ Sending(sink[g], reader[g]) BY <1>3, <1>5 DEF Sending
<1>7. Way(t, z) = Way(sink[g], reader[g]) BY <1>4, <1>5, <1>6 DEF Way
<1>8. Begins(get[g], t, z) BY <1>1, <1>3, <1>5 DEF Begins, Within
<1>9. Ordered(get[g], t, z, shrunk) BY <1>1, <1>3, <1>5, <1>6, <1>7 DEF Ordered, Counted
<1>10. /\ sink' \in [Gets -> SinkRecords] /\ sink'[g] = t /\ \A h \in Gets \ {g} : sink'[h] = sink[h]
       /\ reader' \in [Gets -> ReaderRecords] /\ reader'[g] = z /\ \A h \in Gets \ {g} : reader'[h] = reader[h]
  BY <1>3, <1>5 DEF DownloadInv, GetTypes
<1>11. ~Carries(bulk', "read", g) BY <1>1, <1>3 DEF Read1
<1> QED BY <1>1, <1>3, <1>8, <1>9, <1>10, <1>11, ReaderMoves

LEMMA DoneStep ==
    ASSUME DownloadInv, NEW g \in Gets, RouteDone(g)
    PROVE  DownloadInv'
<1>1. /\ get[g] \in GetRecords /\ sink[g] \in SinkRecords /\ reader[g] \in ReaderRecords
      /\ Begins(get[g], sink[g], reader[g]) /\ Ordered(get[g], sink[g], reader[g], shrunk)
      /\ Read1(g) /\ Once(bulk, "read")
  BY OwnDownload
<1> DEFINE t == IF reader[g].last THEN [sink[g] EXCEPT !.live = FALSE] ELSE sink[g]
           z == Acked(reader[g])
<1>2. /\ reader[g].at = "sending" /\ reader[g].evs = <<>> /\ UNCHANGED <<get, shrunk>> /\ bulk' = bulk
      /\ reader' = [reader EXCEPT ![g] = z]
  BY DEF RouteDone, link
<1>3. sink' = [sink EXCEPT ![g] = t]
  <2>1. sink' = IF reader[g].last THEN [sink EXCEPT ![g].live = FALSE] ELSE sink BY DEF RouteDone
  <2>2. sink = [sink EXCEPT ![g] = sink[g]] BY DEF DownloadInv, GetTypes
  <2> QED BY <2>1, <2>2
<1>4. t \in SinkRecords /\ t.q = sink[g].q /\ (t.live => sink[g].live) BY <1>1 DEF SinkRecords
<1>5. /\ z \in ReaderRecords
      /\ reader[g].stop => z.at = "over"
      /\ ~reader[g].stop => z.at = "reading" /\ z.idx = reader[g].idx + 1
      /\ \A r : Within(r, reader[g]) => Within(r, z)
  BY <1>1, <1>2, AckedRecord
<1> HIDE DEF t, z
<1>6. ~Sending(t, z) BY <1>5 DEF Sending
<1>7. Sending(sink[g], reader[g]) BY <1>2 DEF Sending
<1>8. Way(t, z) = Way(sink[g], reader[g]) BY <1>2, <1>4, <1>6, <1>7 DEF Way
<1>9. Way(t, z) = t.q
  <2>1. t.q \in Seq(Events) BY <1>4 DEF SinkRecords
  <2> QED BY <1>6, <2>1, ConcatEmptySeq DEF Way
<1>10. Begins(get[g], t, z) BY <1>1, <1>2, <1>4, <1>5 DEF Begins
<1>11. ASSUME get[g].at \in {"waiting", "streaming"}, From(get[g].range) < FileLen
       PROVE  Course(Way(t, z), get[g].range, Len(get[g].body), shrunk) /\ Counted(t, z, Len(get[g].body))
  <2>1. /\ Course(Way(sink[g], reader[g]), get[g].range, Len(get[g].body), shrunk)
        /\ Counted(sink[g], reader[g], Len(get[g].body))
    BY <1>1, <1>11 DEF Ordered
  <2>2. Counted(t, z, Len(get[g].body))
    BY <1>2, <1>5, <1>6, <1>7, <1>8, <1>9, <2>1 DEF Counted
  <2> QED BY <1>8, <2>1, <2>2
<1>12. Ordered(get[g], t, z, shrunk) BY <1>11 DEF Ordered
<1>13. /\ sink' \in [Gets -> SinkRecords] /\ sink'[g] = t /\ \A h \in Gets \ {g} : sink'[h] = sink[h]
       /\ reader' \in [Gets -> ReaderRecords] /\ reader'[g] = z /\ \A h \in Gets \ {g} : reader'[h] = reader[h]
  BY <1>2, <1>3, <1>4, <1>5 DEF DownloadInv, GetTypes
<1>14. ~Carries(bulk', "read", g) BY <1>1, <1>2 DEF Read1
<1> QED BY <1>1, <1>2, <1>10, <1>12, <1>13, <1>14, ReaderMoves

(* The file is cut: less is asked of what is on its way, and of a body.        *)
LEMMA ShrinksStep ==
    ASSUME DownloadInv, FileShrinks
    PROVE  DownloadInv'
<1>1. UNCHANGED <<get, sink, reader>> /\ bulk' = bulk /\ shrunk' = TRUE BY DEF FileShrinks, link
<1>2. ASSUME NEW c, NEW r, NEW n, Course(c, r, n, shrunk) PROVE Course(c, r, n, TRUE)
  BY <1>2 DEF Course
<1>3. ASSUME NEW g \in Gets PROVE Download(get[g], sink[g], reader[g], TRUE)
  <2>1. /\ Begins(get[g], sink[g], reader[g]) /\ Delivered(get[g], shrunk)
        /\ Ordered(get[g], sink[g], reader[g], shrunk)
    BY OwnDownload
  <2>2. Delivered(get[g], TRUE) BY <2>1 DEF Delivered
  <2>3. Ordered(get[g], sink[g], reader[g], TRUE) BY <1>2, <2>1 DEF Ordered
  <2> QED BY <2>1, <2>2, <2>3 DEF Download
<1>4. GetTypes' BY <1>1 DEF DownloadInv, GetTypes
<1> QED BY <1>1, <1>3, <1>4 DEF DownloadInv, Read1

LEMMA UnlistedStep ==
    ASSUME DownloadInv, AgentDrops
    PROVE  DownloadInv'
<1>1. UNCHANGED <<get, sink, shrunk>> /\ bulk' = <<>> /\ ReadersUnlisted BY DEF AgentDrops, Drops
<1>2. ASSUME NEW g \in Gets
      PROVE  /\ reader'[g] \in ReaderRecords
             /\ reader'[g].at = reader[g].at /\ reader'[g].idx = reader[g].idx
             /\ reader'[g].evs = reader[g].evs /\ reader'[g].stop = reader[g].stop
  BY <1>1, OwnDownload DEF ReadersUnlisted, ReaderRecords
<1>3. reader' \in [Gets -> ReaderRecords]
  <2>1. reader' = [g \in Gets |-> reader'[g]] BY <1>1 DEF ReadersUnlisted
  <2> QED BY <1>2, <2>1
<1>4. ASSUME NEW g \in Gets PROVE Download(get[g], sink[g], reader'[g], shrunk)
  <2>1. /\ Begins(get[g], sink[g], reader[g]) /\ Delivered(get[g], shrunk)
        /\ Ordered(get[g], sink[g], reader[g], shrunk)
    BY OwnDownload
  <2> QED BY <1>2, <2>1, ReaderAlike DEF Download
<1>5. Once(bulk', "read") /\ \A g \in Gets : Read1(g)' BY <1>1 DEF Once, Read1, Carries
<1>6. GetTypes' BY <1>1, <1>3 DEF DownloadInv, GetTypes
<1> QED BY <1>1, <1>4, <1>5, <1>6 DEF DownloadInv

(* Steps of the other services.                                                *)
LEMMA DownloadsAside ==
    ASSUME DownloadInv, LinkTypes, UNCHANGED down, Quiet(bulk, bulk', "read")
    PROVE  DownloadInv'
<1>1. bulk \in Seq(Messages(BulkKinds)) BY DEF LinkTypes
<1>2. Once(bulk', "read") /\ \A g : Carries(bulk', "read", g) => Carries(bulk, "read", g)
  BY <1>1, QuietKeeps DEF DownloadInv
<1>3. GetTypes' BY DEF down, DownloadInv, GetTypes
<1>4. \A g \in Gets : Read1(g)' BY <1>2 DEF DownloadInv, Read1, down
<1> QED BY <1>2, <1>3, <1>4 DEF DownloadInv, down

LEMMA DownloadSteps ==
    ASSUME [Next]_vars, PutTypes
    PROVE  DownloadNext \/ AgentDrops \/ (UNCHANGED down /\ Quiet(bulk, bulk', "read"))
<1>1. "read" \notin StoreKinds /\ "read" \notin WebKinds BY DEF StoreKinds, WebKinds
<1>2. CASE UploadNext
  <2>1. Quiet(bulk, bulk', "read") BY <1>1, <1>2, UploadLink, FlowQuiet
  <2> QED BY <1>2, <2>1 DEF Next, vars, down, AgentDrops, AgentReturns
<1>3. CASE ToolNext BY <1>3, ToolLink DEF Next, vars, down, AgentDrops, AgentReturns, Quiet
<1>4. CASE ExecNext BY <1>4, ExecLink DEF Next, vars, down, AgentDrops, AgentReturns, Quiet
<1>5. CASE WebNext
  <2>1. Quiet(bulk, bulk', "read") BY <1>1, <1>5, WebLink, FlowQuiet
  <2> QED BY <1>5, <2>1 DEF Next, vars, down, AgentDrops, AgentReturns
<1>6. CASE Beside BY <1>6, BesideLink DEF Next, vars, down, AgentDrops, AgentReturns, Quiet, link
<1>7. CASE AgentReturns BY <1>7 DEF AgentReturns, Returns, down, Quiet
<1>8. CASE UNCHANGED vars BY <1>8 DEF vars, down, link, Quiet
<1> QED BY <1>2, <1>3, <1>4, <1>5, <1>6, <1>7, <1>8 DEF Next

LEMMA DownloadStep ==
    ASSUME ~AgentIgnoresRange, [Next]_vars, PutTypes, LinkTypes, DownloadInv
    PROVE  DownloadInv'
<1>1. ASSUME NEW g \in Gets,
             \/ GetAsks(g) \/ GetFirst(g) \/ GetNext(g) \/ GetTellsAgent(g) \/ GetClientLeaves(g)
             \/ ReapSink(g)
             \/ AgentTakesRead(g) \/ AgentTakesCancel(g) \/ ReaderPosts(g)
             \/ RouteFinds(g) \/ RouteSends(g) \/ RouteDone(g) \/ RouteStalls(g) \/ RouteCancels(g)
             \/ PostFails(g)
      PROVE  DownloadInv'
  BY <1>1, AsksStep, FirstEventStep, NextEventStep, TellsStep, ClientLeavesStep, ReapStep,
     TakesReadStep, TakesCancelStep, ReaderPostsStep, FindsStep, EventGoesIn, DoneStep, EndingSteps
<1>2. CASE DownloadNext BY <1>1, <1>2, ShrinksStep DEF DownloadNext
<1> QED BY <1>2, UnlistedStep, DownloadSteps, DownloadsAside

LEMMA DownloadInits == ASSUME Init PROVE DownloadInv
<1>1. bulk = <<>> /\ DownloadInit BY DEF Init, LinkInit
<1>2. <<>> \in Seq(Events) /\ <<>> \in Seq(Nat) OBVIOUS
<1>3. GetTypes
  <2>1. get \in [Gets -> GetRecords] BY <1>1, <1>2 DEF DownloadInit, GetRecords, GetStates
  <2>2. sink \in [Gets -> SinkRecords] BY <1>1, <1>2 DEF DownloadInit, SinkRecords
  <2>3. reader \in [Gets -> ReaderRecords] BY <1>1, <1>2 DEF DownloadInit, ReaderRecords
  <2> QED BY <1>1, <2>1, <2>2, <2>3 DEF DownloadInit, GetTypes
<1>4. ASSUME NEW g \in Gets PROVE Read1(g) /\ Download(get[g], sink[g], reader[g], shrunk)
  <2>1. /\ get[g].at = "none" /\ get[g].body = <<>> /\ reader[g].at = "none" /\ reader[g].idx = 0
        /\ ~sink[g].live /\ sink[g].q = <<>>
    BY <1>1 DEF DownloadInit
  <2>2. Begins(get[g], sink[g], reader[g]) /\ Delivered(get[g], shrunk)
    BY <2>1 DEF Begins, Within, Delivered
  <2>3. Ordered(get[g], sink[g], reader[g], shrunk) BY <2>1 DEF Ordered
  <2>4. Read1(g) BY <1>1 DEF Read1, Carries
  <2> QED BY <2>2, <2>3, <2>4 DEF Download
<1> QED BY <1>1, <1>3, <1>4 DEF DownloadInv, Once

(* A body that goes on from the first chunk of its range is a beginning of it. *)
LEMMA BodyIsPrefix ==
    ASSUME NEW g \in Gets, get[g] \in GetRecords, Delivered(get[g], shrunk), get[g].body # <<>>
    PROVE  /\ IsPrefix(get[g].body, Wanted(g))
           /\ get[g].at = "complete" /\ ~shrunk => get[g].body = Wanted(g)
<1> DEFINE r == get[g].range
           b == get[g].body
           w == Wanted(g)
<1>1. r \in Ranges \union {Whole} /\ b \in Seq(Nat) BY DEF GetRecords
<1>2. From(r) < FileLen /\ Len(b) <= Size(r) /\ \A i \in DOMAIN b : b[i] = From(r) + i - 1 BY DEF Delivered
<1>3. /\ From(r) \in Nat /\ Size(r) \in Nat \ {0}
      /\ Budget(r) = IF r = Whole THEN FileLen + 1 ELSE Size(r)
  BY <1>1, <1>2, RangeTyped
<1>4. FileLen \in Nat BY DownloadAssumption
<1>5. w = [i \in 1 .. Size(r) |-> From(r) + i - 1]
  <2>1. CASE r = Whole
    <3>1. From(r) = 0 BY <2>1 DEF From
    <3>2. Size(r) = FileLen BY <1>4, <2>1, <3>1 DEF Size
    <3>3. w = [i \in 1 .. FileLen |-> i - 1] BY <2>1 DEF Wanted
    <3>4. \A i \in 1 .. FileLen : 0 + i - 1 = i - 1 BY <1>4
    <3> QED BY <3>1, <3>2, <3>3, <3>4
  <2>2. CASE r # Whole BY <1>3, <2>2 DEF Wanted, From
  <2> QED BY <2>1, <2>2
<1> HIDE DEF w
<1>6. ASSUME NEW i \in 1 .. Size(r) PROVE From(r) + i - 1 \in Nat BY <1>3
<1>7. w \in Seq(Nat) /\ Len(w) = Size(r) /\ \A i \in 1 .. Size(r) : w[i] = From(r) + i - 1
  <2>1. w \in [1 .. Size(r) -> Nat] BY <1>5, <1>6
  <2> QED BY <1>3, <1>5, <2>1
<1>8. Len(b) \in Nat /\ Len(b) <= Len(w) BY <1>1, <1>2, <1>7
<1>9. b = SubSeq(w, 1, Len(b))
  <2> DEFINE u == SubSeq(w, 1, Len(b))
  <2>1. u \in Seq(Nat) /\ Len(u) = Len(b) /\ \A i \in 1 .. Len(b) : u[i] = w[i]
    BY <1>7, <1>8
  <2> HIDE DEF u
  <2>2. ASSUME NEW i \in 1 .. Len(b) PROVE b[i] = u[i]
    <3>1. i \in DOMAIN b BY <1>1
    <3>2. i \in 1 .. Size(r) BY <1>3, <1>7, <1>8
    <3> QED BY <1>2, <1>7, <2>1, <3>1, <3>2
  <2>3. b = u BY <1>1, <2>1, <2>2, SeqEqual
  <2> QED BY <2>3 DEF u
<1>10. IsPrefix(b, w) BY <1>8, <1>9 DEF IsPrefix
<1>11. ASSUME get[g].at = "complete", ~shrunk PROVE b = w
  <2>1. Len(b) = Size(r) BY <1>11 DEF Delivered
  <2>2. \A i \in 1 .. Len(b) : b[i] = w[i] BY <1>1, <1>2, <1>7, <2>1
  <2> QED BY <1>1, <1>7, <2>1, <2>2, SeqEqual
<1> QED BY <1>10, <1>11 DEF w

(* What the client of a download has is always a beginning of what it asked    *)
(* for, and a download that is recorded as complete is all of it, unless the   *)
(* file was cut; of an agent that knows the range fields.                      *)
THEOREM BodiesAreRanges == ASSUME ~AgentIgnoresRange PROVE Spec => []BodyIsRange
<1>1. DownloadInv /\ LinkTypes /\ PutTypes /\ [Next]_vars => DownloadInv' BY DownloadStep
<1>2. DownloadInv => BodyIsRange
  <2> SUFFICES ASSUME DownloadInv, NEW g \in Gets, get[g].body # <<>>
               PROVE  /\ IsPrefix(get[g].body, Wanted(g))
                      /\ get[g].at = "complete" /\ ~shrunk => get[g].body = Wanted(g)
    BY DEF BodyIsRange
  <2>1. get[g] \in GetRecords /\ Delivered(get[g], shrunk) BY OwnDownload
  <2> QED BY <2>1, BodyIsPrefix
<1> QED BY <1>1, <1>2, DownloadInits, Channels, PTL DEF Spec

----------------------------------------------------------------------------
(* The limit, of which no other service knows.  The argument is about what the *)
(* bucket would hold if it were asked now: with what has passed in excess of   *)
(* the rate it never makes more than one full bucket, a tick adds to the one   *)
(* what it takes from the other, and whoever passes takes from the one what it *)
(* adds to the other.  Only a frame passes without having all its tokens.      *)

FullBucket == Max({Burst(bucket.rate), MaxNeed})
Claimed == bucket.tokens + bucket.since * bucket.rate
LimitOn == setting.old = Settled /\ bucket.rate # 0

LimitTypes ==
    /\ bucket \in [rate : Nat, tokens : Int, since : Nat]
    /\ passed \in [messages : Nat, frames : Nat, excess : Nat]
    /\ setting \in [old : Nat \union {Settled}, count : Nat]

(* What is in the bucket is no more than it may hold; with what has passed it  *)
(* is no more than that, either; and what has passed is bounded by itself,     *)
(* since the bucket may be in debt.                                            *)
LimitBalanced ==
    /\ bucket.tokens <= FullBucket
    /\ passed.excess + Min({Claimed, FullBucket}) <= FullBucket
    /\ passed.excess <= FullBucket + Max({MaxFrame - Burst(bucket.rate), 0})

LimitInv == LimitTypes /\ (LimitOn => LimitBalanced)

----------------------------------------------------------------------------
(* Arithmetic.                                                                 *)

(* Max of the community modules, for two numbers.                              *)
LEMMA MaxOfTwo ==
    ASSUME NEW x \in Int, NEW y \in Int
    PROVE  Max({x, y}) = IF x >= y THEN x ELSE y
<1> DEFINE m == IF x >= y THEN x ELSE y
           P(n) == n \in {x, y} /\ \A z \in {x, y} : n >= z
<1>1. P(m)
  OBVIOUS
<1>2. \A n : P(n) => n = m
  OBVIOUS
<1>3. (CHOOSE n : P(n)) = m
  <2> HIDE DEF P, m
  <2> QED BY <1>1, <1>2
<1>4. Max({x, y}) = CHOOSE n : P(n)
  BY DEF Max
<1> QED BY <1>3, <1>4

LEMMA MinOfTwo ==
    ASSUME NEW x \in Int, NEW y \in Int
    PROVE  Min({x, y}) = IF x <= y THEN x ELSE y
<1> DEFINE m == IF x <= y THEN x ELSE y
           P(n) == n \in {x, y} /\ \A z \in {x, y} : n <= z
<1>1. P(m)
  OBVIOUS
<1>2. \A n : P(n) => n = m
  OBVIOUS
<1>3. (CHOOSE n : P(n)) = m
  <2> HIDE DEF P, m
  <2> QED BY <1>1, <1>2
<1>4. Min({x, y}) = CHOOSE n : P(n)
  BY DEF Min
<1> QED BY <1>3, <1>4

(* A bucket of any rate holds something, and a larger one no less.             *)
LEMMA BurstIsPositive ==
    ASSUME NEW rate \in Nat
    PROVE  Burst(rate) \in Nat /\ Burst(rate) > 0
<1>1. rate * BurstTicks \in Nat /\ BurstTicks \in Nat /\ MinBurst \in Nat /\ MinBurst > 0
  BY BucketAssumption
<1> QED BY <1>1, MaxOfTwo DEF Burst

(* FullBucket is the larger of the two.                                              *)
LEMMA FullIsNat ==
    ASSUME LimitTypes
    PROVE  FullBucket \in Nat /\ Burst(bucket.rate) <= FullBucket /\ MaxNeed <= FullBucket /\ bucket.rate \in Nat
<1>1. bucket.rate \in Nat /\ MaxNeed \in Nat
  BY BucketAssumption DEF LimitTypes
<1>2. Burst(bucket.rate) \in Nat
  BY <1>1, BurstIsPositive
<1>3. FullBucket = IF Burst(bucket.rate) >= MaxNeed THEN Burst(bucket.rate) ELSE MaxNeed
  BY <1>1, <1>2, MaxOfTwo DEF FullBucket
<1> QED BY <1>1, <1>2, <1>3

(* A bucket that has been asked with a capacity of at most FullBucket holds no more  *)
(* than it would have held before.                                             *)
LEMMA Asking ==
    ASSUME LimitTypes, NEW cap \in Nat, cap <= FullBucket
    PROVE  /\ Asked(cap) \in [rate : Nat, tokens : Int, since : Nat]
           /\ Asked(cap).rate = bucket.rate /\ Asked(cap).since = 0
           /\ LimitOn /\ LimitBalanced =>
                 /\ Asked(cap).tokens <= FullBucket
                 /\ passed.excess + Asked(cap).tokens <= FullBucket
<1> DEFINE gained == bucket.since * bucket.rate
<1>1. /\ bucket \in [rate : Nat, tokens : Int, since : Nat] /\ passed.excess \in Nat
      /\ gained \in Nat /\ (bucket.since = 0 => gained = 0)
  BY DEF LimitTypes
<1>2. FullBucket \in Nat
  BY FullIsNat
<1>3. CASE bucket.since = 0
  <2>1. Asked(cap) = bucket
    BY <1>3 DEF Asked, Refilled
  <2>2. Claimed = bucket.tokens
    BY <1>1, <1>3 DEF Claimed
  <2>3. LimitBalanced => passed.excess + bucket.tokens <= FullBucket
    BY <1>1, <1>2, <2>2, MinOfTwo DEF LimitBalanced
  <2> QED BY <1>1, <1>3, <2>1, <2>3 DEF LimitBalanced
<1>4. CASE bucket.since # 0
  <2>1. Min({Claimed, cap}) = (IF Claimed <= cap THEN Claimed ELSE cap) /\ Claimed \in Int
    BY <1>1, MinOfTwo DEF Claimed
  <2>2. Asked(cap) = [bucket EXCEPT !.tokens = Min({Claimed, cap}), !.since = 0]
    BY <1>4 DEF Asked, Refilled, Claimed
  <2>3. /\ Asked(cap).rate = bucket.rate /\ Asked(cap).since = 0
        /\ Asked(cap).tokens = Min({Claimed, cap})
        /\ Asked(cap) \in [rate : Nat, tokens : Int, since : Nat]
    <3> DEFINE m == Min({Claimed, cap})
    <3>1. m \in Int
      BY <2>1
    <3> HIDE DEF m
    <3>2. [bucket EXCEPT !.tokens = m, !.since = 0] \in [rate : Nat, tokens : Int, since : Nat]
      BY <1>1, <3>1
    <3>3. /\ [bucket EXCEPT !.tokens = m, !.since = 0].rate = bucket.rate
          /\ [bucket EXCEPT !.tokens = m, !.since = 0].since = 0
          /\ [bucket EXCEPT !.tokens = m, !.since = 0].tokens = m
      BY <1>1
    <3>4. Asked(cap) = [bucket EXCEPT !.tokens = m, !.since = 0]
      BY <2>2 DEF m
    <3>5. /\ Asked(cap).rate = bucket.rate /\ Asked(cap).since = 0 /\ Asked(cap).tokens = m
          /\ Asked(cap) \in [rate : Nat, tokens : Int, since : Nat]
      BY <3>2, <3>3, <3>4, Zenon
    <3> QED BY <3>5 DEF m
  <2>4. Min({Claimed, cap}) <= Min({Claimed, FullBucket})
    BY <1>2, <2>1, MinOfTwo
  <2>5. Min({Claimed, FullBucket}) <= FullBucket /\ Min({Claimed, FullBucket}) \in Int
    BY <1>2, <2>1, MinOfTwo
  <2> HIDE DEF gained
  <2> QED BY <1>1, <1>2, <2>1, <2>3, <2>4, <2>5 DEF LimitBalanced
<1> QED BY <1>1, <1>3, <1>4

(* What follows a call that has been served, or not: the tokens went down by   *)
(* as much as the excess went up, or by more, and no further than to nothing   *)
(* where it went up, but for what a frame borrows.                             *)
LEMMA Spending ==
    ASSUME LimitInv, NEW cap \in Nat, cap <= FullBucket, NEW n \in Nat, NEW counted \in Nat,
           counted <= n,
           bucket' = [Asked(cap) EXCEPT !.tokens = @ - n],
           passed' \in [messages : Nat, frames : Nat, excess : Nat],
           passed'.excess = passed.excess + counted,
           counted = 0 \/ counted - Max({MaxFrame - Burst(bucket.rate), 0}) <= Asked(cap).tokens,
           UNCHANGED setting
    PROVE  LimitInv'
<1> DEFINE b == Asked(cap)
           lent == Max({MaxFrame - Burst(bucket.rate), 0})
<1>1. /\ b \in [rate : Nat, tokens : Int, since : Nat]
      /\ b.rate = bucket.rate /\ b.since = 0
      /\ LimitOn => b.tokens <= FullBucket /\ passed.excess + b.tokens <= FullBucket
  BY Asking DEF LimitInv
<1>2. /\ bucket'.rate = bucket.rate /\ bucket'.tokens = b.tokens - n /\ bucket'.since = 0
      /\ bucket' \in [rate : Nat, tokens : Int, since : Nat]
  <2>1. \A x \in [rate : Nat, tokens : Int, since : Nat] : LET y == [x EXCEPT !.tokens = @ - n] IN
           /\ y.rate = x.rate /\ y.tokens = x.tokens - n /\ y.since = x.since
           /\ y \in [rate : Nat, tokens : Int, since : Nat]
    OBVIOUS
  <2> QED BY <1>1, <2>1
<1>3. FullBucket \in Nat /\ lent \in Nat /\ passed.excess \in Nat
  <2>1. FullBucket \in Nat /\ Burst(bucket.rate) \in Nat /\ MaxFrame \in Nat
    BY FullIsNat, BurstIsPositive, BucketAssumption DEF LimitInv
  <2>2. lent = IF MaxFrame - Burst(bucket.rate) >= 0 THEN MaxFrame - Burst(bucket.rate) ELSE 0
    BY <2>1, MaxOfTwo
  <2> QED BY <2>1, <2>2 DEF LimitInv, LimitTypes
<1>4. FullBucket' = FullBucket /\ LimitOn' = LimitOn
  BY <1>2 DEF FullBucket, LimitOn
<1>5. Claimed' = b.tokens - n
  BY <1>1, <1>2 DEF Claimed
<1>6. LimitTypes'
  BY <1>2 DEF LimitTypes, LimitInv
<1>7. ASSUME LimitOn PROVE LimitBalanced'
  <2>1. passed.excess <= FullBucket + lent
    BY <1>7 DEF LimitInv, LimitBalanced
  <2>2. b.tokens \in Int
    BY <1>1
  <2>3. bucket'.tokens <= FullBucket
    BY <1>1, <1>2, <1>3, <1>7, <2>2
  <2>4. passed'.excess + (b.tokens - n) <= FullBucket
    BY <1>1, <1>3, <1>7, <2>2
  <2>5. Min({Claimed', FullBucket}) <= b.tokens - n /\ Min({Claimed', FullBucket}) \in Int
    <3>1. Min({b.tokens - n, FullBucket}) = IF b.tokens - n <= FullBucket THEN b.tokens - n ELSE FullBucket
      <4> DEFINE e == b.tokens - n
      <4>1. e \in Int /\ FullBucket \in Int
        BY <1>3, <2>2
      <4> HIDE DEF e
      <4>2. Min({e, FullBucket}) = IF e <= FullBucket THEN e ELSE FullBucket
        BY <4>1, MinOfTwo
      <4> QED BY <4>2 DEF e
    <3> QED BY <1>3, <1>5, <2>2, <3>1
  <2>6. passed'.excess + Min({Claimed', FullBucket}) <= FullBucket
    BY <1>3, <2>2, <2>4, <2>5
  <2>7. passed'.excess <= FullBucket + lent
    <3>1. CASE counted = 0
      BY <1>3, <2>1, <3>1
    <3>2. CASE counted - lent <= b.tokens
      BY <1>1, <1>3, <1>7, <2>2, <3>2
    <3> QED BY <3>1, <3>2
  <2> QED BY <1>2, <1>4, <2>3, <2>6, <2>7 DEF LimitBalanced
<1> QED BY <1>4, <1>6, <1>7 DEF LimitInv

(* Nothing is passed and no tokens are taken.                                  *)
LEMMA Refilling ==
    ASSUME LimitInv, NEW cap \in Nat, cap <= FullBucket, bucket' = Asked(cap),
           UNCHANGED <<passed, setting>>
    PROVE  LimitInv'
<1>1. Asked(cap) \in [rate : Nat, tokens : Int, since : Nat] /\ passed.excess \in Nat
  BY Asking DEF LimitInv, LimitTypes
<1>2. Asked(cap) = [Asked(cap) EXCEPT !.tokens = @ - 0]
  BY <1>1
<1>3. passed'.excess = passed.excess + 0
  BY <1>1
<1> QED BY <1>2, <1>3, Spending DEF LimitInv, LimitTypes

(* All of it is passed on, and no more is lent than a frame may borrow.        *)
LEMMA Lending ==
    ASSUME LimitInv, NEW cap \in Nat, cap <= FullBucket, NEW n \in Nat,
           n - Max({MaxFrame - Burst(bucket.rate), 0}) <= Asked(cap).tokens,
           bucket' = [Asked(cap) EXCEPT !.tokens = @ - n],
           passed' \in [messages : Nat, frames : Nat, excess : Nat],
           passed'.excess = passed.excess + n,
           UNCHANGED setting
    PROVE  LimitInv'
<1>1. n <= n
  OBVIOUS
<1> QED BY <1>1, Spending, Zenon

(* All of it is passed on with its tokens at hand.                             *)
LEMMA Paying ==
    ASSUME LimitInv, NEW cap \in Nat, cap <= FullBucket, NEW n \in Nat, Asked(cap).tokens >= n,
           bucket' = [Asked(cap) EXCEPT !.tokens = @ - n], Passes(n), UNCHANGED setting
    PROVE  LimitInv'
<1>1. passed' \in [messages : Nat, frames : Nat, excess : Nat] /\ passed'.excess = passed.excess + n
  <2>1. passed \in [messages : Nat, frames : Nat, excess : Nat]
    BY DEF LimitInv, LimitTypes
  <2>2. passed.excess + n \in Nat
    BY <2>1
  <2>3. passed' = [passed EXCEPT !.excess = @ + n]
    BY DEF Passes
  <2> QED BY <2>1, <2>2, <2>3
<1>2. MaxFrame \in Int /\ Burst(bucket.rate) \in Nat
  BY FullIsNat, BurstIsPositive, BucketAssumption DEF LimitInv
<1>3. Max({MaxFrame - Burst(bucket.rate), 0}) >= 0 /\ Max({MaxFrame - Burst(bucket.rate), 0}) \in Int
  <2> DEFINE d == MaxFrame - Burst(bucket.rate)
  <2>1. d \in Int
    BY <1>2
  <2> HIDE DEF d
  <2>2. Max({d, 0}) = IF d >= 0 THEN d ELSE 0
    BY <2>1, MaxOfTwo
  <2>3. Max({d, 0}) >= 0 /\ Max({d, 0}) \in Int
    BY <2>1, <2>2
  <2> QED BY <2>3 DEF d
<1>4. Asked(cap).tokens \in Int
  BY Asking DEF LimitInv
<1>5. n - Max({MaxFrame - Burst(bucket.rate), 0}) <= Asked(cap).tokens
  BY <1>3, <1>4
<1> QED BY <1>1, <1>5, Lending, Zenon

----------------------------------------------------------------------------
(* The actions.                                                                *)

LEMMA NeedIsBounded ==
    ASSUME NEW a \in Acquirers PROVE Need[a] \in Nat /\ Need[a] <= MaxNeed
BY BucketAssumption

LEMMA LimitInits == BucketInit => LimitInv
<1> SUFFICES ASSUME BucketInit PROVE LimitInv
  OBVIOUS
<1>1. PICK r \in Rates : bucket = [rate |-> r, tokens |-> Burst(r), since |-> 0]
  BY DEF BucketInit
<1>2. r \in Nat /\ Burst(r) \in Nat
  BY BucketAssumption, BurstIsPositive
<1>3. LimitTypes /\ passed.excess = 0
  BY <1>1, <1>2 DEF BucketInit, LimitTypes
<1>4. FullBucket \in Nat /\ Burst(r) <= FullBucket
  BY <1>1, <1>3, FullIsNat
<1>5. Claimed = Burst(r)
  BY <1>1, <1>2 DEF Claimed
<1>6. Min({Claimed, FullBucket}) = Burst(r)
  BY <1>2, <1>4, <1>5, MinOfTwo
<1>7. MaxFrame - Burst(r) \in Int
  BY <1>2, BucketAssumption
<1>8. Max({MaxFrame - Burst(r), 0}) >= 0 /\ Max({MaxFrame - Burst(r), 0}) \in Int
  BY <1>7, MaxOfTwo
<1>9. LimitBalanced
  BY <1>1, <1>2, <1>3, <1>4, <1>6, <1>8 DEF LimitBalanced
<1> QED BY <1>3, <1>9 DEF LimitInv

(* Whatever leaves the bucket, what has passed and the setting alone.          *)
LEMMA ElsewhereLimit ==
    ASSUME LimitInv, UNCHANGED <<bucket, passed, setting>> PROVE LimitInv'
BY DEF LimitInv, LimitTypes, LimitOn, LimitBalanced, Claimed, FullBucket

LEMMA FastTakeLimit ==
    ASSUME LimitInv, NEW a \in Acquirers, FastTake(a) PROVE LimitInv'
<1> DEFINE cap == Burst(bucket.rate)
<1>1. cap \in Nat /\ cap <= FullBucket
  BY FullIsNat, BurstIsPositive DEF LimitInv
<1>2. CASE UNCHANGED <<bucket, passed>>
  BY <1>2, ElsewhereLimit DEF FastTake
<1>3. CASE Asked(cap).tokens >= Need[a] /\ Passes(Need[a])
           /\ bucket' = [Asked(cap) EXCEPT !.tokens = @ - Need[a]]
  BY <1>1, <1>3, NeedIsBounded, Paying DEF FastTake
<1>4. CASE bucket' = Asked(cap) /\ UNCHANGED passed
  BY <1>1, <1>4, Refilling DEF FastTake
<1> QED BY <1>2, <1>3, <1>4 DEF FastTake

LEMMA PollsLimit ==
    ASSUME LimitInv, NEW a \in Acquirers, Polls(a) PROVE LimitInv'
<1> DEFINE cap == Max({Burst(bucket.rate), Need[a]})
<1>1. cap \in Nat /\ cap <= FullBucket
  <2>1. Burst(bucket.rate) \in Nat /\ Burst(bucket.rate) <= FullBucket /\ MaxNeed <= FullBucket
        /\ FullBucket \in Nat /\ MaxNeed \in Nat
    BY FullIsNat, BurstIsPositive, BucketAssumption DEF LimitInv
  <2>2. cap = IF Burst(bucket.rate) >= Need[a] THEN Burst(bucket.rate) ELSE Need[a]
    BY <2>1, NeedIsBounded, MaxOfTwo
  <2> QED BY <2>1, <2>2, NeedIsBounded
<1>2. CASE UNCHANGED <<bucket, passed>>
  BY <1>2, ElsewhereLimit DEF Polls
<1>3. CASE Asked(cap).tokens >= Need[a] /\ Passes(Need[a])
           /\ bucket' = [Asked(cap) EXCEPT !.tokens = @ - Need[a]]
  BY <1>1, <1>3, NeedIsBounded, Paying DEF Polls
<1>4. CASE bucket' = Asked(cap) /\ UNCHANGED passed
  BY <1>1, <1>4, Refilling DEF Polls
<1> QED BY <1>2, <1>3, <1>4 DEF Polls

(* A frame passes with what a full bucket has; the rest is lent.               *)
LEMMA FrameAsksLimit ==
    ASSUME LimitInv, FrameAsks PROVE LimitInv'
<1> DEFINE cap == Burst(bucket.rate)
           lent == Max({MaxFrame - cap, 0})
<1>1. cap \in Nat /\ cap <= FullBucket
  BY FullIsNat, BurstIsPositive DEF LimitInv
<1>2. PICK n \in Frames :
         IF Asked(cap).tokens >= Min({n, cap})
         THEN /\ bucket' = [Asked(cap) EXCEPT !.tokens = @ - n]
              /\ passed' = [passed EXCEPT !.frames = @ + 1, !.excess = @ + n]
         ELSE bucket' = Asked(cap) /\ UNCHANGED passed
  BY Zenon DEF FrameAsks
<1>3. UNCHANGED setting
  BY DEF FrameAsks
<1>4. CASE Asked(cap).tokens >= Min({n, cap})
  <2>1. n \in Nat /\ n <= MaxFrame /\ MaxFrame \in Nat
    BY BucketAssumption
  <2>2. Min({n, cap}) = IF n <= cap THEN n ELSE cap
    BY <1>1, <2>1, MinOfTwo
  <2>3. lent = IF MaxFrame - cap >= 0 THEN MaxFrame - cap ELSE 0
    BY <1>1, <2>1, MaxOfTwo
  <2>4. Asked(cap).tokens \in Int
    BY <1>1, Asking DEF LimitInv
  <2>5. n - lent <= Asked(cap).tokens
    <3> HIDE DEF cap, lent
    <3> QED BY <1>1, <1>4, <2>1, <2>2, <2>3, <2>4
  <2>6. bucket' = [Asked(cap) EXCEPT !.tokens = @ - n]
    BY <1>2, <1>4, Zenon
  <2>7. passed' = [passed EXCEPT !.frames = @ + 1, !.excess = @ + n]
    BY <1>2, <1>4, Zenon
  <2>8. passed' \in [messages : Nat, frames : Nat, excess : Nat] /\ passed'.excess = passed.excess + n
    <3>1. passed \in [messages : Nat, frames : Nat, excess : Nat]
      BY DEF LimitInv, LimitTypes
    <3>2. passed.frames + 1 \in Nat /\ passed.excess + n \in Nat
      BY <2>1, <3>1
    <3> QED BY <2>7, <3>1, <3>2
  <2> QED BY <1>1, <1>3, <2>1, <2>5, <2>6, <2>8, Lending, Zenon
<1>5. CASE ~(Asked(cap).tokens >= Min({n, cap}))
  BY <1>1, <1>2, <1>3, <1>5, Refilling
<1> QED BY <1>4, <1>5

(* A message takes tokens and does not count.                                  *)
LEMMA MessageGoesLimit ==
    ASSUME LimitInv, MessageGoes PROVE LimitInv'
<1> DEFINE cap == Burst(bucket.rate)
<1>1. cap \in Nat /\ cap <= FullBucket
  BY FullIsNat, BurstIsPositive DEF LimitInv
<1>2. PICK n \in Interactive :
         /\ bucket' = [Asked(cap) EXCEPT !.tokens = @ - n]
         /\ passed' = [passed EXCEPT !.messages = @ + n]
  BY DEF MessageGoes
<1>3. n \in Nat
  BY BucketAssumption
<1>4. passed' \in [messages : Nat, frames : Nat, excess : Nat] /\ passed'.excess = passed.excess + 0
  BY <1>2, <1>3 DEF LimitInv, LimitTypes
<1> QED BY <1>1, <1>2, <1>3, <1>4, Spending DEF MessageGoes

(* The limit does not hold while the tokens are not settled.                   *)
LEMMA RateSwappedLimit ==
    ASSUME LimitInv, NEW r \in Rates, RateSwapped(r) PROVE LimitInv'
<1>1. r \in Nat /\ bucket.rate \in Nat /\ bucket.rate # Settled
  BY BucketAssumption DEF LimitInv, LimitTypes, Settled
<1>2. LimitTypes' /\ setting'.old # Settled
  BY <1>1 DEF RateSwapped, LimitInv, LimitTypes
<1> QED BY <1>2 DEF LimitInv, LimitOn

(* It holds from the settling on, for a bucket that starts with nothing passed.*)
LEMMA RateSettledLimit ==
    ASSUME LimitInv, RateSettled PROVE LimitInv'
<1> DEFINE cap == Burst(Max({bucket.rate, 1}))
           b == IF setting.old > 0 THEN Refilled(bucket, setting.old, Burst(setting.old)) ELSE bucket
           clamped == Max({-cap, Min({b.tokens, cap})})
<1>1. bucket.rate \in Nat /\ bucket \in [rate : Nat, tokens : Int, since : Nat] /\ setting.old \in Nat
  BY DEF LimitInv, LimitTypes, RateSettled
<1>2. Max({bucket.rate, 1}) = IF bucket.rate = 0 THEN 1 ELSE bucket.rate
  BY <1>1, MaxOfTwo
<1>3. cap \in Nat
  BY <1>1, <1>2, BurstIsPositive
<1>4. b.rate = bucket.rate /\ b.tokens \in Int /\ b \in [rate : Nat, tokens : Int, since : Nat]
  <2>1. bucket.tokens + bucket.since * setting.old \in Int /\ Burst(setting.old) \in Int
    BY <1>1, BurstIsPositive
  <2>2. Min({bucket.tokens + bucket.since * setting.old, Burst(setting.old)}) \in Int
    BY <2>1, MinOfTwo
  <2> DEFINE m == Min({bucket.tokens + bucket.since * setting.old, Burst(setting.old)})
             c == [bucket EXCEPT !.tokens = m, !.since = 0]
  <2>3. m \in Int
    BY <2>2
  <2>4. b = bucket \/ b = c
    BY Zenon DEF Refilled
  <2>5. c.rate = bucket.rate /\ c.tokens \in Int /\ c \in [rate : Nat, tokens : Int, since : Nat]
    <3> HIDE DEF m
    <3> QED BY <1>1, <2>3
  <2> HIDE DEF b, c
  <2> QED BY <1>1, <2>4, <2>5
<1>5. clamped \in Int /\ clamped <= cap
  <2>1. Min({b.tokens, cap}) \in Int /\ Min({b.tokens, cap}) <= cap
    BY <1>3, <1>4, MinOfTwo
  <2>2. -cap \in Int /\ -cap <= cap
    BY <1>3
  <2> QED BY <1>3, <2>1, <2>2, MaxOfTwo
<1>6. bucket' = [b EXCEPT !.since = 0, !.tokens = Max({-cap, Min({@, cap})})]
  BY DEF RateSettled
<1>7. /\ bucket'.rate = bucket.rate /\ bucket'.since = 0 /\ bucket'.tokens = clamped
      /\ bucket' \in [rate : Nat, tokens : Int, since : Nat]
  <2> HIDE DEF b, cap, clamped
  <2>1. bucket' = [b EXCEPT !.since = 0, !.tokens = clamped]
    BY <1>4, <1>6 DEF clamped
  <2>2. clamped \in Int
    BY <1>5
  <2>3. /\ [b EXCEPT !.since = 0, !.tokens = clamped].rate = b.rate
        /\ [b EXCEPT !.since = 0, !.tokens = clamped].since = 0
        /\ [b EXCEPT !.since = 0, !.tokens = clamped].tokens = clamped
        /\ [b EXCEPT !.since = 0, !.tokens = clamped] \in [rate : Nat, tokens : Int, since : Nat]
    BY <1>4, <2>2
  <2> QED BY <1>4, <2>1, <2>3, Zenon
<1>8. /\ passed' \in [messages : Nat, frames : Nat, excess : Nat] /\ passed'.excess = 0
      /\ setting' \in [old : Nat \union {Settled}, count : Nat]
  BY DEF RateSettled, LimitInv, LimitTypes
<1>9. LimitTypes'
  BY <1>7, <1>8 DEF LimitTypes
<1>10. ASSUME LimitOn' PROVE LimitBalanced'
  <2>1. Burst(bucket.rate) = cap
    BY <1>1, <1>2, <1>7, <1>10 DEF LimitOn
  <2>2. FullBucket' = FullBucket /\ FullBucket \in Nat /\ cap <= FullBucket
    BY <1>7, <2>1, FullIsNat DEF FullBucket, LimitInv
  <2>3. Claimed' = clamped
    BY <1>1, <1>5, <1>7 DEF Claimed
  <2>4. Min({clamped, FullBucket}) = clamped
    <3> HIDE DEF cap, clamped
    <3>1. Min({clamped, FullBucket}) = IF clamped <= FullBucket THEN clamped ELSE FullBucket
      BY <1>5, <2>2, MinOfTwo
    <3> QED BY <1>3, <1>5, <2>2, <3>1
  <2>5. MaxFrame - cap \in Int
    BY <1>3, BucketAssumption
  <2>6. Max({MaxFrame - cap, 0}) >= 0 /\ Max({MaxFrame - cap, 0}) \in Int
    BY <2>5, MaxOfTwo
  <2> HIDE DEF cap, clamped
  <2> QED BY <1>3, <1>5, <1>7, <1>8, <2>1, <2>2, <2>3, <2>4, <2>6 DEF LimitBalanced
<1> QED BY <1>9, <1>10 DEF LimitInv

(* A tick adds to the bucket what it takes from the excess.                    *)
LEMMA TickLimit ==
    ASSUME LimitInv, Tick PROVE LimitInv'
<1> DEFINE rate == bucket.rate
           left == Max({0, passed.excess - rate})
<1>1. /\ rate \in Nat /\ bucket.since \in Nat /\ bucket.tokens \in Int /\ passed.excess \in Nat
      /\ bucket \in [rate : Nat, tokens : Int, since : Nat]
      /\ passed \in [messages : Nat, frames : Nat, excess : Nat]
  BY DEF LimitInv, LimitTypes
<1>2. left = (IF passed.excess >= rate THEN passed.excess - rate ELSE 0) /\ left \in Nat
  <2>1. left = IF 0 >= passed.excess - rate THEN 0 ELSE passed.excess - rate
    BY <1>1, MaxOfTwo
  <2> QED BY <1>1, <2>1
<1>3. /\ bucket' \in [rate : Nat, tokens : Int, since : Nat]
      /\ bucket'.rate = rate /\ bucket'.tokens = bucket.tokens /\ bucket'.since = bucket.since + 1
  BY <1>1 DEF Tick
<1>4. passed' \in [messages : Nat, frames : Nat, excess : Nat] /\ passed'.excess = left
  <2>1. passed' = [passed EXCEPT !.messages = 0, !.excess = left]
    BY DEF Tick
  <2> HIDE DEF left
  <2> QED BY <1>1, <1>2, <2>1
<1>5. LimitTypes' /\ FullBucket' = FullBucket /\ LimitOn' = LimitOn
  BY <1>3, <1>4 DEF LimitTypes, LimitInv, Tick, FullBucket, LimitOn
<1>6. ASSUME LimitOn PROVE LimitBalanced'
  <2>1. FullBucket \in Nat /\ Claimed \in Int
    BY <1>1, FullIsNat DEF LimitInv, Claimed
  <2>2. Claimed' = Claimed + rate
    BY <1>1, <1>3 DEF Claimed
  <2>3. /\ Min({Claimed, FullBucket}) = IF Claimed <= FullBucket THEN Claimed ELSE FullBucket
        /\ Min({Claimed + rate, FullBucket}) = IF Claimed + rate <= FullBucket THEN Claimed + rate ELSE FullBucket
    BY <1>1, <2>1, MinOfTwo
  <2>4. passed.excess + Min({Claimed, FullBucket}) <= FullBucket
    BY <1>6 DEF LimitInv, LimitBalanced
  <2>5. left + Min({Claimed + rate, FullBucket}) <= FullBucket
    <3> HIDE DEF left, rate
    <3> QED BY <1>1, <1>2, <2>1, <2>3, <2>4
  <2>6. left <= passed.excess
    <3> HIDE DEF left, rate
    <3> QED BY <1>1, <1>2
  <2>7. MaxFrame - Burst(rate) \in Int
    BY <1>1, BurstIsPositive, BucketAssumption
  <2>8. Max({MaxFrame - Burst(rate), 0}) \in Int
    BY <2>7, MaxOfTwo
  <2> HIDE DEF left
  <2> QED BY <1>1, <1>2, <1>3, <1>4, <1>5, <1>6, <2>1, <2>2, <2>5, <2>6, <2>8 DEF LimitInv, LimitBalanced
<1> QED BY <1>5, <1>6 DEF LimitInv

LEMMA LimitSteps == LimitInv /\ [BucketNext]_limit => LimitInv'
<1> SUFFICES ASSUME LimitInv, [BucketNext]_limit PROVE LimitInv'
  OBVIOUS
<1>1. CASE UNCHANGED limit
  BY <1>1, ElsewhereLimit DEF limit
<1>2. ASSUME NEW a \in Acquirers,
             AcquireLooks(a) \/ Counts(a) \/ Queues(a) \/ Uncounts(a) \/ AcquireDropped(a)
      PROVE  LimitInv'
  BY <1>2, ElsewhereLimit DEF AcquireLooks, Counts, Queues, Uncounts, AcquireDropped
<1>3. ASSUME NEW a \in Acquirers, FastTake(a) PROVE LimitInv'
  BY <1>3, FastTakeLimit
<1>4. ASSUME NEW a \in Acquirers, Polls(a) PROVE LimitInv'
  BY <1>4, PollsLimit
<1>5. CASE FrameAsks
  BY <1>5, FrameAsksLimit
<1>6. CASE MessageGoes
  BY <1>6, MessageGoesLimit
<1>7. ASSUME NEW r \in Rates, RateSwapped(r) PROVE LimitInv'
  BY <1>7, RateSwappedLimit
<1>8. CASE RateSettled
  BY <1>8, RateSettledLimit
<1>9. CASE Tick
  BY <1>9, TickLimit
<1> QED BY <1>1, <1>2, <1>3, <1>4, <1>5, <1>6, <1>7, <1>8, <1>9 DEF BucketNext, Works

(* With a full bucket and what a frame may borrow, what has passed is bounded. *)
LEMMA BalancedIsKept == LimitInv => RateKept
<1> SUFFICES ASSUME LimitInv, LimitOn
             PROVE  passed.excess <= Max({Burst(bucket.rate), MaxNeed})
                                     + Max({MaxFrame - Burst(bucket.rate), 0})
  BY DEF RateKept, LimitOn
<1> QED BY DEF LimitInv, LimitBalanced, FullBucket

(* Whatever is asked for, in whatever order, and however the rate is changed   *)
(* (acquire, try_acquire, consume, set_rate), what passes keeps to the rate,   *)
(* for any rates, requests, frames and messages.                               *)
THEOREM LimitKept == BucketSpec => []RateKept
<1>1. BucketSpec => []LimitInv BY LimitInits, LimitSteps, PTL DEF BucketSpec
<1> QED BY <1>1, BalancedIsKept, PTL

(* And beside all the other services of the agent.                             *)
THEOREM RatesAreKept == Spec => []RateKept
<1>1. Init => LimitInv BY LimitInits DEF Init
<1>2. [Next]_vars => [BucketNext]_limit
  BY DEF Next, Beside, AgentDrops, AgentReturns, vars
<1>3. LimitInv /\ [Next]_vars => LimitInv' BY <1>2, LimitSteps
<1> QED BY <1>1, <1>3, BalancedIsKept, PTL DEF Spec
====
