---- MODULE FileUpload ----
(* PUT /agent/mcp/put and the browser's POST of a file (relay/file_transfer.rs,*)
(* relay/mod.rs), and their reassembly by the agent's main loop (agent/mod.rs).*)
(* The handler cuts the body into chunks and waits for the agent's answer to   *)
(* the last one; the browser's handler has the whole body first and answers    *)
(* as soon as the last chunk is queued.                                        *)
(* All uploads name one path.  What a file holds is, for each chunk, the       *)
(* upload that wrote it; a file that is removed lives on under its handles.    *)
EXTENDS AgentDownlink, FiniteSets

CONSTANTS Puts,            \* uploads through PUT
          Browsers,        \* uploads by a browser
          PutLen,          \* chunks of an upload
          None

Uploads == Puts \union Browsers

ASSUME UploadAssumption ==
    PutLen \in Nat \ {0} /\ None \notin Uploads

VARIABLES
    put,      \* the upload handlers
    reasm,    \* upload_reassembly: an open handle and the next index
    path,     \* the file the path names
    disk,     \* what each file holds
    met       \* history: other uploads that touched the path since this one's start

up == <<put, reasm, path, disk, met>>

Empty == [i \in 0 .. PutLen - 1 |-> None]
Holds(f, u) == f # None /\ \A i \in 0 .. PutLen - 1 : disk[f][i] = u
IsComplete(f) == \E u \in Uploads : Holds(f, u)

UploadInit ==
    /\ put = [u \in Uploads |-> [at |-> "none", idx |-> 0, gen |-> 0]]
    /\ reasm = [u \in Uploads |-> None]
    /\ path = None
    /\ disk = [u \in Uploads |-> Empty]
    /\ met = [u \in Uploads |-> {}]

----------------------------------------------------------------------------
(* The relay.                                                                  *)

PutStarts(u) ==
    /\ put[u].at = "none"
    /\ put' = [put EXCEPT ![u].at = IF online THEN "sending" ELSE "refused", ![u].gen = gen]
    /\ UNCHANGED <<reasm, path, disk, met, link, answers, faults>>

(* The next chunk of the body is full.  The last one registers the request     *)
(* first; the others' answers are nobody's.                                    *)
PutSends(u) ==
    /\ u \in Puts /\ put[u].at = "sending"
    /\ Room(put[u].gen) /\ Tell(put[u].gen, "chunk", u, put[u].idx)
    /\ IF put[u].idx + 1 >= PutLen
       THEN /\ put' = [put EXCEPT ![u].at = "waiting"]
            /\ pending' = pending \union {u}
       ELSE /\ put' = [put EXCEPT ![u].idx = @ + 1]
            /\ UNCHANGED pending
    /\ UNCHANGED <<results, reasm, path, disk, met, butBulk, faults>>

(* The body ends early: the agent is told to drop the upload.                  *)
PutClientCloses(u) ==
    /\ u \in Puts /\ put[u].at = "sending"
    /\ Room(put[u].gen) /\ Tell(put[u].gen, "abort", u, 0)
    /\ put' = [put EXCEPT ![u].at = "aborted"]
    /\ UNCHANGED <<reasm, path, disk, met, butBulk, answers, faults>>

(* The client goes away and the handler is dropped where it stands: the agent  *)
(* hears nothing, and a request that was registered stays registered.          *)
PutClientLeaves(u) ==
    /\ u \in Puts /\ put[u].at \in {"sending", "waiting"}
    /\ put' = [put EXCEPT ![u].at = "gone"]
    /\ UNCHANGED <<reasm, path, disk, met, link, answers, faults>>

(* The browser's upload: chunks wait for room on the interactive channel, and  *)
(* a channel that is gone fails the request.                                   *)
BrowserSends(u) ==
    /\ u \in Browsers /\ put[u].at = "sending"
    /\ IF Alive(put[u].gen)
       THEN /\ Len(inter) < InterCap
            /\ inter' = Append(inter, [kind |-> "chunk", id |-> u, index |-> put[u].idx])
            /\ put' = [put EXCEPT ![u].idx = @ + 1,
                                  ![u].at = IF put[u].idx + 1 = PutLen THEN "queued" ELSE @]
       ELSE /\ put' = [put EXCEPT ![u].at = "failed"]
            /\ UNCHANGED inter
    /\ UNCHANGED <<reasm, path, disk, met, butInter, answers, faults>>

(* A frame of the agent answers the request that is registered, if any.        *)
ResultArrives(u) ==
    /\ \E ok \in BOOLEAN :
          /\ Arrives(u, ok)
          /\ put' = [put EXCEPT ![u].at = CASE u \notin pending \/ @ = "gone" -> @
                                            [] OTHER -> IF ok THEN "ok" ELSE "failed"]
    /\ UNCHANGED <<reasm, path, disk, met, link, faults>>

ResultLost(u) == Loses(u) /\ UNCHANGED <<put, reasm, path, disk, met, link>>

(* Five minutes without an answer.                                             *)
PutTimesOut(u) ==
    /\ put[u].at = "waiting"
    /\ pending' = pending \ {u}
    /\ put' = [put EXCEPT ![u].at = "timeout"]
    /\ UNCHANGED <<results, reasm, path, disk, met, link, faults>>

----------------------------------------------------------------------------
(* The agent: assemble_upload_chunk, handle_upload_abort, the clean-up tick.   *)

(* remove_file: the name goes, whoever's file it named.                        *)
Removes(u) ==
    /\ path' = None
    /\ met' = [v \in Uploads |-> IF v = u THEN met[v] ELSE met[v] \union {u}]

(* The relay hears of an upload's last chunk; an error at an earlier one       *)
(* carries an id nobody waits for.                                             *)
Answers(u, index, ok) ==
    results' = IF u \in Puts /\ index + 1 >= PutLen THEN results \union {<<u, ok>>} ELSE results

WriteFails == faults < MaxFaults /\ faults' = faults + 1

(* The file is opened, cut to nothing and given the first chunk; a failed      *)
(* write removes it again.                                                     *)
FirstChunk(u) ==
    LET f == IF path = None THEN u ELSE path IN
    \/ /\ path' = f
       /\ disk' = [disk EXCEPT ![f] = [Empty EXCEPT ![0] = u]]
       /\ reasm' = [reasm EXCEPT ![u] = IF PutLen = 1 THEN None ELSE [file |-> f, next |-> 1]]
       /\ met' = [v \in Uploads |-> IF v = u THEN {w \in Uploads \ {u} : reasm[w] # None}
                                    ELSE met[v] \union {u}]
       /\ Answers(u, 0, TRUE)
       /\ UNCHANGED faults
    \/ /\ WriteFails
       /\ disk' = [disk EXCEPT ![f] = Empty]
       /\ UNCHANGED reasm
       /\ Removes(u)
       /\ Answers(u, 0, FALSE)

(* A later chunk of an upload that is open: a chunk seen before is passed      *)
(* over, the expected one is written.                                          *)
Appends(u, index) ==
    /\ reasm[u].next >= index
    /\ disk' = IF index = reasm[u].next THEN [disk EXCEPT ![reasm[u].file][index] = u] ELSE disk
    /\ LET next == IF index = reasm[u].next THEN index + 1 ELSE reasm[u].next IN
       reasm' = [reasm EXCEPT ![u] = IF index + 1 >= PutLen THEN None
                                     ELSE [reasm[u] EXCEPT !.next = next]]
    /\ Answers(u, index, TRUE)
    /\ UNCHANGED <<path, met, faults>>

(* After a gap or a failed write the upload is dropped and its file removed.   *)
DropsUpload(u, index) ==
    /\ IF index > reasm[u].next THEN UNCHANGED faults ELSE WriteFails
    /\ reasm' = [reasm EXCEPT ![u] = None]
    /\ Removes(u)
    /\ Answers(u, index, FALSE)
    /\ UNCHANGED disk

(* Mutant: a chunk of an upload that is not open is taken for a late copy.     *)
LaterChunk_LateCopy(u, index) ==
    \/ reasm[u] # None /\ Appends(u, index)
    \/ reasm[u] # None /\ DropsUpload(u, index)
    \/ reasm[u] = None /\ Answers(u, index, TRUE) /\ UNCHANGED <<reasm, path, disk, met, faults>>

LaterChunk(u, index) ==
    \/ reasm[u] # None /\ Appends(u, index)
    \/ reasm[u] # None /\ DropsUpload(u, index)
    \/ reasm[u] = None /\ Answers(u, index, FALSE) /\ UNCHANGED <<reasm, path, disk, met, faults>>

Assembles(u, index) == IF index = 0 THEN FirstChunk(u) ELSE LaterChunk(u, index)

AgentTakesChunk(u) ==
    /\ \/ Takes("chunk", u) /\ Assembles(u, Head(bulk).index) /\ UNCHANGED inter
       \/ TakesInter("chunk", u) /\ Assembles(u, Head(inter).index) /\ UNCHANGED bulk
    /\ UNCHANGED <<put, pending, gen, online, loop>>

(* The upload is dropped and the file removed by its name.                     *)
AgentTakesAbort(u) ==
    /\ Takes("abort", u)
    /\ reasm' = [reasm EXCEPT ![u] = None]
    /\ Removes(u)
    /\ UNCHANGED <<put, disk, butBulk, answers, faults>>

(* Every minute: an upload whose last chunk is five minutes old goes, and with *)
(* it the file of that name.                                                   *)
CleanupTick(u) ==
    /\ loop = Idle /\ reasm[u] # None
    /\ \A i \in DOMAIN bulk : bulk[i].id # u
    /\ \A i \in DOMAIN inter : inter[i].id # u
    /\ reasm' = [reasm EXCEPT ![u] = None]
    /\ Removes(u)
    /\ UNCHANGED <<put, disk, link, answers, faults>>

(* The end of the agent's connection closes the handles; nothing is removed.   *)
HandlesDropped == reasm' = [u \in Uploads |-> None]

UploadNext ==
    \E u \in Uploads :
        \/ PutStarts(u) \/ PutSends(u) \/ PutClientCloses(u) \/ PutClientLeaves(u)
        \/ BrowserSends(u)
        \/ ResultArrives(u) \/ ResultLost(u) \/ PutTimesOut(u)
        \/ AgentTakesChunk(u) \/ AgentTakesAbort(u) \/ CleanupTick(u)
====
