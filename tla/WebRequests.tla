---- MODULE WebRequests ----
(* GET /agent/web/proxy (relay/web_proxy.rs, agent/web_proxy.rs): a page that  *)
(* the agent fetches is streamed to a browser.  The agent's tasks share one    *)
(* uplink, which posts a frame at a time; the relay's routing of a post must   *)
(* not wait, so a browser that does not keep up loses its request.             *)
EXTENDS AgentDownlink, FiniteSets

CONSTANTS Pages,           \* requests for pages
          PageLen,         \* chunks of each page
          EventCap,        \* EVENT_CHANNEL_CAPACITY
          UplinkCap,       \* capacity of the agent's control channel
          MaxInflight,     \* max_inflight_per_session
          MaxConcurrent    \* MAX_CONCURRENT of the agent

ASSUME PagesAssumption ==
    /\ PageLen \in [Pages -> Nat]
    /\ {EventCap, UplinkCap, MaxInflight, MaxConcurrent} \subseteq Nat \ {0}

VARIABLES
    view,     \* the proxy handlers, and after the head the response bodies
    stream,   \* StreamState: the sinks, the events in them, the guards
    fetch,    \* the agent's tasks, and which of them are in its table
    uplink,   \* frames that wait for the agent's sender_loop
    routing   \* the frame the relay has found a sink for

pages == <<view, stream, fetch, uplink, routing>>

NoFrame == [kind |-> "none"]
NoStream == [listed |-> FALSE, open |-> FALSE, q |-> <<>>, dropped |-> FALSE, cancel |-> "none"]

WebInit ==
    /\ view = [w \in Pages |-> [at |-> "none", gen |-> 0, body |-> <<>>]]
    /\ stream = [w \in Pages |-> NoStream]
    /\ fetch = [w \in Pages |-> [at |-> "none", seq |-> 0, listed |-> FALSE, cancelled |-> FALSE]]
    /\ uplink = <<>> /\ routing = NoFrame

----------------------------------------------------------------------------
(* The handler.                                                                *)

(* The channel is looked up first and kept.                                    *)
WebAsks(w) ==
    /\ view[w].at = "none"
    /\ view' = [view EXCEPT ![w].at = IF online THEN "asking" ELSE "offline", ![w].gen = gen]
    /\ UNCHANGED <<stream, fetch, uplink, routing, link, answers, faults>>

Inflight == {w \in Pages : stream[w].listed}
WebRegisters(w) ==
    /\ view[w].at = "asking"
    /\ IF Cardinality(Inflight) >= MaxInflight
       THEN view' = [view EXCEPT ![w].at = "too many"] /\ UNCHANGED stream
       ELSE /\ view' = [view EXCEPT ![w].at = "sending"]
            /\ stream' = [stream EXCEPT ![w] = [NoStream EXCEPT !.listed = TRUE, !.open = TRUE]]
    /\ UNCHANGED <<fetch, uplink, routing, link, answers, faults>>

(* WebRequestGuard::finish takes the entry out; the guard's Drop has a task of *)
(* its own do that, and the receiving end goes with the handler.               *)
Finishes(w, outcome) ==
    /\ view' = [view EXCEPT ![w].at = outcome]
    /\ stream' = [stream EXCEPT ![w].listed = FALSE, ![w].open = FALSE, ![w].q = <<>>]
GuardDropped(w, outcome) ==
    /\ view' = [view EXCEPT ![w].at = outcome]
    /\ stream' = [stream EXCEPT ![w].dropped = TRUE, ![w].open = FALSE, ![w].q = <<>>]

(* A request that finds no room for five seconds is taken back unsent.         *)
WebSends(w) ==
    /\ view[w].at = "sending"
    /\ IF Room(view[w].gen)
       THEN /\ Tell(view[w].gen, "web", w, 0)
            /\ view' = [view EXCEPT ![w].at = "waiting"]
            /\ UNCHANGED stream
       ELSE Finishes(w, "busy") /\ UNCHANGED bulk
    /\ UNCHANGED <<fetch, uplink, routing, butBulk, answers, faults>>

(* Nothing more can come: the table's sender and the routing's clone are gone. *)
NoEvent(w) == stream[w].q = <<>>
NoSender(w) == ~stream[w].listed /\ (routing = NoFrame \/ routing.id # w)
Received(w) == stream' = [stream EXCEPT ![w].q = Tail(@)]

(* Only a head starts a response.  Anything else ends the request without a    *)
(* cancel, silence for 35 seconds with one.                                    *)
WebFirst(w) ==
    /\ view[w].at = "waiting"
    /\ IF NoEvent(w)
       THEN IF NoSender(w) THEN Finishes(w, "error") ELSE GuardDropped(w, "timeout")
       ELSE IF Head(stream[w].q).kind = "head"
            THEN view' = [view EXCEPT ![w].at = "body"] /\ Received(w)
            ELSE Finishes(w, "error")
    /\ UNCHANGED <<fetch, uplink, routing, link, answers, faults>>

(* Mutant: chunks are written as they come.                                    *)
InOrder_Any(w, ev) == TRUE

InOrder(w, ev) == ev.seq = Len(view[w].body)

(* The body: chunk after chunk, and `end' alone finishes it; a gap, an error,  *)
(* silence or the end of the time cuts it off.                                 *)
WebBody(w) ==
    /\ view[w].at = "body"
    /\ \/ GuardDropped(w, "cut")
       \/ /\ ~NoEvent(w)
          /\ LET ev == Head(stream[w].q) IN
             \/ /\ ev.kind = "chunk" /\ InOrder(w, ev)
                /\ view' = [view EXCEPT ![w].body = Append(@, ev.seq)]
                /\ Received(w)
             \/ ev.kind = "end" /\ Finishes(w, "whole")
    /\ UNCHANGED <<fetch, uplink, routing, link, answers, faults>>

(* The browser goes away, and the guard with the handler or the body.          *)
WebClientLeaves(w) ==
    /\ view[w].at \in {"sending", "waiting", "body"}
    /\ GuardDropped(w, "gone")
    /\ UNCHANGED <<fetch, uplink, routing, link, answers, faults>>

(* send_cancel_nonblocking: without room a task of its own tries for a while.  *)
SendsCancel(w, entry) ==
    /\ stream' = [stream EXCEPT ![w] =
           [entry EXCEPT !.cancel = IF online /\ ~Room(gen) THEN "waits" ELSE @]]
    /\ IF online /\ Room(gen) THEN Tell(gen, "webcancel", w, 0) ELSE UNCHANGED bulk

(* The guard's task tells the agent only if the entry was still there.         *)
GuardTask(w) ==
    LET entry == [stream[w] EXCEPT !.dropped = FALSE, !.listed = FALSE] IN
    /\ stream[w].dropped
    /\ IF stream[w].listed
       THEN SendsCancel(w, entry)
       ELSE stream' = [stream EXCEPT ![w] = entry] /\ UNCHANGED bulk
    /\ UNCHANGED <<view, fetch, uplink, routing, butBulk, answers, faults>>

CancelWaits(w) ==
    /\ stream[w].cancel = "waits"
    /\ IF Room(gen)
       THEN Tell(gen, "webcancel", w, 0) /\ stream' = [stream EXCEPT ![w].cancel = "none"]
       ELSE UNCHANGED bulk /\ stream' = [stream EXCEPT ![w].cancel = "given up"]
    /\ UNCHANGED <<view, fetch, uplink, routing, butBulk, answers, faults>>

(* WebProxyStore::sweep and cancel_session: entries go, no cancel is sent; one *)
(* that waits for room finds its channel closed.                               *)
SweepStream(w) ==
    /\ stream[w].listed /\ ~stream[w].open
    /\ stream' = [stream EXCEPT ![w].listed = FALSE]
    /\ UNCHANGED <<view, fetch, uplink, routing, link, answers, faults>>
CancelSession ==
    stream' = [w \in Pages |-> [stream[w] EXCEPT !.listed = FALSE,
                  !.cancel = IF @ = "waits" THEN "given up" ELSE @]]

----------------------------------------------------------------------------
(* The routing of a post: it finds the sink, and puts the event in it without  *)
(* waiting.                                                                    *)
FrameArrives ==
    /\ uplink # <<>> /\ routing = NoFrame
    /\ uplink' = Tail(uplink)
    /\ routing' = IF stream[Head(uplink).id].listed THEN Head(uplink) ELSE NoFrame
    /\ UNCHANGED <<view, stream, fetch, link, answers, faults>>
FrameLost ==
    /\ uplink # <<>> /\ faults < MaxFaults
    /\ uplink' = Tail(uplink) /\ faults' = faults + 1
    /\ UNCHANGED <<view, stream, fetch, routing, link, answers>>

(* A full sink ends the request and the agent is told; a closed one loses its  *)
(* entry.                                                                      *)
FrameRouted(w) ==
    /\ routing # NoFrame /\ routing.id = w
    /\ routing' = NoFrame
    /\ IF ~stream[w].open
       THEN stream' = [stream EXCEPT ![w].listed = FALSE] /\ UNCHANGED bulk
       ELSE IF Len(stream[w].q) >= EventCap
       THEN SendsCancel(w, [stream[w] EXCEPT !.listed = FALSE])
       ELSE stream' = [stream EXCEPT ![w].q = Append(@, routing)] /\ UNCHANGED bulk
    /\ UNCHANGED <<view, fetch, uplink, butBulk, answers, faults>>

----------------------------------------------------------------------------
(* The agent.                                                                  *)

UplinkRoom == Len(uplink) < UplinkCap
Emits(kind, w, seq) ==
    UplinkRoom /\ uplink' = Append(uplink, [kind |-> kind, id |-> w, seq |-> seq])

(* WebProxy::handle_request: a task of its own with one of the permits, or an  *)
(* error, which the main loop itself puts in the uplink: no permit is left, or *)
(* the URL does not parse.                                                     *)
AgentTakesWeb(w) ==
    /\ Takes("web", w)
    /\ \/ /\ Cardinality({v \in Pages : fetch[v].listed}) < MaxConcurrent
          /\ fetch' = [fetch EXCEPT ![w].at = "head", ![w].listed = TRUE]
          /\ UNCHANGED loop
       \/ loop' = [op |-> "refuse", id |-> w] /\ UNCHANGED fetch
    /\ UNCHANGED <<view, stream, uplink, routing, inter, gen, online, answers, faults>>
AgentRefuses(w) ==
    /\ loop.op = "refuse" /\ loop.id = w
    /\ loop' = Idle
    /\ Emits("error", w, 0)
    /\ UNCHANGED <<view, stream, fetch, routing, bulk, inter, gen, online, answers, faults>>

(* handle_cancel takes the record, and with it the permit, out.                *)
AgentTakesWebCancel(w) ==
    /\ Takes("webcancel", w)
    /\ fetch' = [fetch EXCEPT ![w].listed = FALSE,
                              ![w].cancelled = IF fetch[w].listed THEN TRUE ELSE @]
    /\ UNCHANGED <<view, stream, uplink, routing, butBulk, answers, faults>>

(* fetch_and_stream: the head, the chunks by number, the end; a failure of the *)
(* site, a time-out or a cancel stops it.                                      *)
FetchGoes(w) ==
    /\ \/ /\ fetch[w].at = "head" /\ Emits("head", w, 0)
          /\ fetch' = [fetch EXCEPT ![w].at = "body"]
       \/ /\ fetch[w].at = "body" /\ fetch[w].seq < PageLen[w]
          /\ Emits("chunk", w, fetch[w].seq)
          /\ fetch' = [fetch EXCEPT ![w].seq = @ + 1]
       \/ /\ fetch[w].at = "body" /\ fetch[w].seq = PageLen[w] /\ Emits("end", w, 0)
          /\ fetch' = [fetch EXCEPT ![w].at = "ended"]
    /\ UNCHANGED <<view, stream, routing, link, answers, faults>>
FetchStops(w) ==
    /\ fetch[w].at \in {"head", "body"}
    /\ fetch' = [fetch EXCEPT ![w].at = "stopped"]
    /\ UNCHANGED <<view, stream, uplink, routing, link, answers, faults>>
(* run_request: the record goes first, then the one error is sent.             *)
FetchUnlisted(w) ==
    /\ fetch[w].at \in {"ended", "stopped"}
    /\ fetch' = [fetch EXCEPT ![w].listed = FALSE,
                              ![w].at = IF @ = "ended" THEN "over" ELSE "failed"]
    /\ UNCHANGED <<view, stream, uplink, routing, link, answers, faults>>
FetchFails(w) ==
    /\ fetch[w].at = "failed" /\ Emits("error", w, 0)
    /\ fetch' = [fetch EXCEPT ![w].at = "over"]
    /\ UNCHANGED <<view, stream, routing, link, answers, faults>>

(* WebProxy::shutdown, and sender_task.abort().                                *)
WebShutdown ==
    /\ fetch' = [w \in Pages |-> [fetch[w] EXCEPT !.listed = FALSE,
                    !.at = IF @ = "none" THEN @ ELSE "over"]]
    /\ uplink' = <<>>

(* What the runtime and the clock see to.                                      *)
WebRuns(w) ==
    \/ WebRegisters(w) \/ WebSends(w) \/ WebFirst(w) \/ WebBody(w)
    \/ GuardTask(w) \/ CancelWaits(w) \/ SweepStream(w) \/ FrameRouted(w)
    \/ AgentTakesWeb(w) \/ AgentRefuses(w) \/ AgentTakesWebCancel(w)
    \/ FetchGoes(w) \/ FetchStops(w) \/ FetchUnlisted(w) \/ FetchFails(w)

WebNext ==
    \/ \E w \in Pages : WebAsks(w) \/ WebRuns(w) \/ WebClientLeaves(w)
    \/ FrameArrives
    \/ FrameLost
====
