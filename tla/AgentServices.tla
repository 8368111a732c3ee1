---- MODULE AgentServices ----
(* What an agent does for its users beside terminals and the desktop, over one *)
(* connection and one main loop: downloads and uploads, tool calls,            *)
(* long-running commands, pages of its network, and with them the limit on what   *)
(* the relay passes on.                                                        *)
EXTENDS FileDownload, FileUpload, ToolCalls, ExecSessions, WebRequests,
        WebMaps, TokenBucket

CONSTANT Requests          \* bound: the requests users make together, the disconnections
                           \* they meet, the inputs a command is sent and the outputs it
                           \* writes to

ASSUME RequestsAssumption ==
    Requests \subseteq [users : SUBSET (Gets \union Uploads \union Calls \union Execs \union Pages
                                \union Visits \union Maps \union Acquirers),
                       drops : 0 .. MaxDrops, inputs : 0 .. MaxInputs,
                 outputs : SUBSET Outputs]

(* Every request has an identifier of its own.                                 *)
ASSUME IdentifiersAssumption == Puts \cap Browsers = {} /\ Uploads \cap Calls = {}

VARIABLE requests          \* the requests of this behaviour

Init ==
    /\ LinkInit /\ DownloadInit /\ UploadInit /\ ToolInit /\ ExecInit /\ WebInit
    /\ MapsInit /\ BucketInit
    /\ requests \in Requests
    /\ requests.users \cap Acquirers = {} => bucket.rate = Min(Rates)

vars == <<link, answers, faults, down, up, tool, exec, pages, mapped, limit, requests>>

Started == {g \in Gets : get[g].at # "none"} \union {u \in Uploads : put[u].at # "none"}
           \union {c \in Calls : call[c] # "none"} \union {e \in Execs : client[e].asked # "none"}
           \union {w \in Pages : view[w].at # "none"}
           \union {v \in Visits : visit[v].at # "none"} \union drawn
           \union {a \in Acquirers : caller[a].at # "none"}

(* The agent's connection ends: what the channels held is gone, and with the   *)
(* agent's run_session its list of downloads and its open uploads.             *)
AgentDrops ==
    /\ gen < requests.drops /\ Drops
    /\ ReadersUnlisted /\ HandlesDropped /\ CancelSession /\ MapsRevoked
    /\ UNCHANGED <<get, sink, shrunk, put, path, disk, met, answers, faults, tool, exec,
                   view, fetch, uplink, routing, drawn, visit, limit>>

(* run_session ends once the main loop notices and shutdown_all is through.    *)
AgentReturns ==
    /\ Returns
    /\ \A e \in Execs : ~entry[e].listed
    /\ WebShutdown
    /\ UNCHANGED <<down, up, tool, exec, view, stream, routing, mapped, limit, answers, faults>>

(* Services that the main loop knows nothing of, used in their own behaviours. *)
Beside ==
    \/ requests.users \cap Visits # {} /\ MapsNext /\ UNCHANGED limit
    \/ requests.users \cap Acquirers # {} /\ BucketNext
       /\ UNCHANGED <<mapped, link, answers, faults>>

Next ==
    /\ \/ DownloadNext /\ UNCHANGED <<up, tool, exec, pages, mapped, limit>>
       \/ UploadNext /\ UNCHANGED <<down, tool, exec, pages, mapped, limit>>
       \/ ToolNext /\ UNCHANGED <<down, up, exec, pages, mapped, limit>>
       \/ ExecNext /\ UNCHANGED <<down, up, tool, pages, mapped, limit>>
       \/ WebNext /\ UNCHANGED <<down, up, tool, exec, mapped, limit>>
       \/ Beside /\ UNCHANGED <<down, up, tool, exec, pages>>
       \/ AgentDrops
       \/ AgentReturns
    /\ Started' \subseteq requests.users
    /\ \A e \in Execs :
          client'[e].inputs <= requests.inputs /\ proc'[e].unread \subseteq requests.outputs
    /\ UNCHANGED requests

Spec == Init /\ [][Next]_vars

(* Scheduling: the runtime runs every task, time passes (sweeps, timeouts) and *)
(* the agent comes back.  None of these steps can be taken for ever without    *)
(* requests, clients and faults, which are nobody's duty, so fairness to all   *)
(* of them together is enough.  The reading tasks can, as children write for   *)
(* as long as they like, and put their idle timeout off with it.               *)
Progress ==
    /\ \/ AgentReturns
       \/ /\ \E g \in Gets :
                \/ GetFirst(g) \/ GetNext(g) \/ GetTellsAgent(g) \/ ReapSink(g)
                \/ AgentTakesRead(g) \/ AgentTakesCancel(g) \/ ReaderPosts(g)
                \/ RouteFinds(g) \/ RouteSends(g) \/ RouteDone(g) \/ RouteStalls(g) \/ RouteCancels(g)
          /\ UNCHANGED <<up, tool, exec, pages, mapped, limit>>
       \/ /\ \E u \in Uploads :
                \/ PutTimesOut(u) \/ ResultArrives(u)
                \/ AgentTakesChunk(u) \/ AgentTakesAbort(u) \/ CleanupTick(u)
          /\ UNCHANGED <<down, tool, exec, pages, mapped, limit>>
       \/ /\ \E c \in Calls : CallSends(c) \/ CallAnswered(c) \/ CallTimesOut(c) \/ TakesExec(c)
          /\ UNCHANGED <<down, up, exec, pages, mapped, limit>>
       \/ /\ \E e \in Execs : MainLoop(e) \/ Writer(e)
          /\ UNCHANGED <<down, up, tool, pages, mapped, limit>>
       \/ /\ FrameArrives \/ \E w \in Pages : WebRuns(w)
          /\ UNCHANGED <<down, up, tool, exec, mapped, limit>>
       \/ /\ RuntimesSwept \/ \E v \in Visits : VisitRuns(v)
          /\ UNCHANGED <<down, up, tool, exec, pages, limit>>
       \/ /\ requests.users \cap Acquirers # {} /\ BucketProgress
          /\ UNCHANGED <<link, answers, faults, down, up, tool, exec, pages, mapped>>
    /\ UNCHANGED requests

FairSpec ==
    /\ Spec /\ WF_vars(Progress)
    /\ \A e \in Execs :
          /\ WF_vars(Watcher(e) /\ UNCHANGED <<down, up, tool, pages, mapped, limit, requests>>)
          /\ WF_vars(IdleTimeout(e) /\ UNCHANGED <<down, up, tool, pages, mapped, limit, requests>>)

----------------------------------------------------------------------------
(* Properties.                                                                 *)

(* What the client of a download has is always a beginning of what it asked    *)
(* for, chunk after chunk, through stalls, lost posts, cancellations and a     *)
(* change of connection; and a download that the relay records as complete is  *)
(* all of it, unless the file itself was cut meanwhile.                        *)
Wanted(g) ==
    LET r == get[g].range IN
    IF r = Whole THEN [i \in 1 .. FileLen |-> i - 1]
    ELSE [i \in 1 .. Budget(r) |-> r.from + i - 1]
BodyIsRange ==
    \A g \in Gets : get[g].at \in {"streaming", "stopping", "complete", "failed"} /\ get[g].body # <<>> =>
        /\ IsPrefix(get[g].body, Wanted(g))
        /\ get[g].at = "complete" /\ ~shrunk => get[g].body = Wanted(g)

(* An upload that was answered with success and met no other upload on its     *)
(* path is in the file, whole.                                                 *)
AnsweredIsWritten ==
    \A u \in Puts : put[u].at = "ok" /\ met[u] = {} => Holds(path, u)

(* A command that is said to have exited has done so, and nothing it wrote is  *)
(* missing, however its two outputs were closed.                               *)
ExitedIsWhole ==
    \A e \in Execs : entry[e].status = "exited" \/ client[e].told = "exited" =>
        ~proc[e].alive /\ proc[e].unread = {}

(* A page reaches the browser in order and without a gap, whatever posts are   *)
(* lost; one that was finished when none was is the whole page.                *)
PageIsPrefix ==
    \A w \in Pages : view[w].at \in {"body", "whole", "cut", "gone"} =>
        /\ \A i \in DOMAIN view[w].body : view[w].body[i] = i - 1
        /\ view[w].at = "whole" /\ faults = 0 => Len(view[w].body) = PageLen[w]

(* What a browser reads under a map is the answer to its own request, though   *)
(* its connection has carried others, were they given up, cut or replaced.     *)
OwnAnswer ==
    \A v \in Visits : visit[v].body = SubSeq(Answer(v), 1, Len(visit[v].body))

(* A request that carries a body or asks for a WebSocket gets to the target    *)
(* once at most; another one twice at most, and only over a connection that    *)
(* had been idle.                                                              *)
SentOnce ==
    \A v \in Visits : visit[v].hits <= IF VisitKind[v] = "plain" THEN 1 + visit[v].tries ELSE 1

Fetching(g) == \/ get[g].at \in {"waiting", "streaming", "stopping"}
               \/ sink[g].live
               \/ reader[g].at \in {"reading", "posting", "sending", "stalled"}
Storing(u) == put[u].at = "waiting" \/ reasm[u] # None
Viewing(w) == \/ view[w].at \in {"asking", "sending", "waiting", "body"}
              \/ stream[w].listed
              \/ fetch[w].listed
Visiting(v) == \/ visit[v].at \notin Over \union {"upgraded"}
               \/ visit[v].at = "upgraded" /\ pipe[visit[v].conn].at = "cut"
Stale(m) == runtime[m] # "none" /\ m \notin ToSet(recent)
Acquiring(a) == caller[a].at \notin {"none", "served", "gone"}
Calling(c) == call[c] \in {"registered", "waiting"}
Busy == \/ \E g \in Gets : Fetching(g)
        \/ \E u \in Uploads : Storing(u)
        \/ \E c \in Calls : Calling(c)
        \/ \E w \in Pages : Viewing(w)
        \/ \E v \in Visits : Visiting(v)
        \/ \E m \in Maps : Stale(m)
        \/ \E a \in Acquirers : Acquiring(a)
        \/ loop # Idle

(* Every request ends: a download that was asked for is answered, its sink     *)
(* leaves the relay's map and its task leaves the agent, whatever is lost in   *)
(* between; an upload whose last chunk was sent is answered, and a handle the  *)
(* agent holds open is closed; a tool call is answered and forgotten; a page   *)
(* is served or not, and gives back its places at the relay and the agent; the *)
(* main loop comes back from every session it closes or feeds.  As there are   *)
(* few requests, that is: some time later there is nothing left of any.        *)
EveryRequestEnds == Busy ~> ~Busy
====
