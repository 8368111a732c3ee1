---- MODULE WebMaps ----
(* Pages of the agent's network under the relay's own address                  *)
(* (relay/web_map.rs): a map stands for one target, the requests under it are  *)
(* sent to the target over tunnels (TcpTunnel, whose ends are abstracted to    *)
(* open and cut), and a tunnel whose response has been read to its end is kept *)
(* for the next request.                                                       *)
EXTENDS AgentDownlink, SequencesExt

CONSTANTS Visits,          \* requests under a map
          VisitKind,       \* of each: "plain", with a "body", "upgrade" to a WebSocket
          VisitMap,        \* the map its page knows
          AnswerLen,       \* chunks of each response
          Maps, MapTarget, \* the identifiers drawn, and the target each is drawn for
          MaxMaps,         \* max_per_session
          MaxVisits,       \* MAX_INFLIGHT
          PoolSize         \* POOL_SIZE

ASSUME MapsAssumption ==
    /\ VisitKind \in [Visits -> {"plain", "body", "upgrade"}]
    /\ VisitMap \in [Visits -> Maps]
    /\ AnswerLen \in [Visits -> Nat]
    /\ {MaxMaps, MaxVisits, PoolSize} \subseteq Nat \ {0}
    /\ "none" \notin Visits

VARIABLES
    recent,   \* by_session and maps: the live maps, the least recently used first
    drawn,    \* history: the maps there have been
    runtime,  \* RuntimeStore: the live runtimes, by map
    idle,     \* the pool of each runtime, last put in last
    visit,    \* the proxy handlers, and after the head the response bodies
    pipe      \* upstream connections, and what the target does over them

mapped == <<recent, drawn, runtime, idle, visit, pipe>>

(* A visit opens at most one connection.  A runtime is named after the visit   *)
(* that made it: a map that was forgotten may get another one.                 *)
NoVisit == [at |-> "none", runtime |-> "none", conn |-> "none", reused |-> FALSE, tries |-> 0, hits |-> 0,
            body |-> <<>>]
NoPipe == [at |-> "none", due |-> <<>>, old |-> FALSE]

MapsInit ==
    /\ recent = <<>> /\ drawn = {}
    /\ runtime = [m \in Maps |-> "none"]
    /\ idle = [r \in Visits |-> <<>>]
    /\ visit = [v \in Visits |-> NoVisit]
    /\ pipe = [c \in Visits |-> NoPipe]

----------------------------------------------------------------------------
(* The maps.                                                                   *)

Used(m) == Append(SelectSeq(recent, LAMBDA n : n # m), m)

(* upsert: the same target has the same map as long as it lives, and the least *)
(* recently used make room.                                                    *)
MapOpens(m) ==
    /\ m \notin drawn /\ online
    /\ drawn' = drawn \union {m}
    /\ LET same == {n \in ToSet(recent) : MapTarget[n] = MapTarget[m]}
           room == Len(recent) - MaxMaps + 1
       IN recent' = IF same # {} THEN Used(CHOOSE n \in same : TRUE)
                    ELSE Append(IF room > 0 THEN SubSeq(recent, room + 1, Len(recent)) ELSE recent, m)
    /\ UNCHANGED <<runtime, idle, visit, pipe, link, answers, faults>>

(* Half an hour without a request, however long one has been under way.        *)
MapExpires(m) ==
    /\ m \in ToSet(recent)
    /\ recent' = SelectSeq(recent, LAMBDA n : n # m)
    /\ UNCHANGED <<drawn, runtime, idle, visit, pipe, link, answers, faults>>

(* With the last reference to a runtime its pool is closed; a WebSocket holds  *)
(* a permit and no reference.                                                  *)
Referred(rt, vs) ==
    {rt[m] : m \in Maps} \union {vs[v].runtime : v \in {w \in Visits : vs[w].at # "upgraded"}}
Shut(pipes, cs) ==
    [c \in Visits |-> IF c \in cs THEN [pipes[c] EXCEPT !.at = "closed", !.due = <<>>] ELSE pipes[c]]
Pools(rt, vs, pools, pipes) ==
    LET gone == Visits \ Referred(rt, vs) IN
    /\ idle' = [r \in Visits |-> IF r \in gone THEN <<>> ELSE pools[r]]
    /\ pipe' = Shut(pipes, UNION {ToSet(pools[r]) : r \in gone})

(* The periodic sweep forgets the runtimes of maps that are gone.              *)
RuntimesSwept ==
    /\ \E m \in Maps : runtime[m] # "none" /\ m \notin ToSet(recent)
    /\ runtime' = [m \in Maps |-> IF m \in ToSet(recent) THEN runtime[m] ELSE "none"]
    /\ Pools(runtime', visit, idle, pipe)
    /\ UNCHANGED <<recent, drawn, visit, link, answers, faults>>

(* The agent's connection ends: maps are revoked, runtimes forgotten, and all  *)
(* tunnels fail.                                                               *)
MapsRevoked ==
    /\ recent' = <<>>
    /\ runtime' = [m \in Maps |-> IF m \in ToSet(recent) THEN "none" ELSE runtime[m]]
    /\ Pools(runtime', visit, idle,
             [c \in Visits |-> IF pipe[c].at = "open" THEN [pipe[c] EXCEPT !.at = "cut", !.due = <<>>]
                                                      ELSE pipe[c]])

----------------------------------------------------------------------------
(* A request.  Every return before the response drops what the handler holds:  *)
(* the permit, the reference to the runtime, the connection.                   *)

Over == {"none", "unknown", "offline", "busy", "no tunnel", "failed", "timeout", "whole", "cut", "gone"}
Moves(v, change) == visit' = [visit EXCEPT ![v] = change]
Returned(v, outcome) == [visit[v] EXCEPT !.at = outcome, !.runtime = "none", !.conn = "none"]
mapsElse == <<recent, drawn, link, answers>>

(* Dropping the connection, if it has one, and the reference.                  *)
Lets(v, outcome) ==
    LET vs == [visit EXCEPT ![v] = Returned(v, outcome)]
    IN visit' = vs /\ Pools(runtime, vs, idle, Shut(pipe, {visit[v].conn}))

VisitLooks(v) ==
    /\ visit[v].at = "none" /\ VisitMap[v] \in drawn
    /\ IF VisitMap[v] \in ToSet(recent)
       THEN Moves(v, [NoVisit EXCEPT !.at = "found"]) /\ recent' = Used(VisitMap[v])
       ELSE Moves(v, [NoVisit EXCEPT !.at = "unknown"]) /\ UNCHANGED recent
    /\ UNCHANGED <<drawn, runtime, idle, pipe, link, answers, faults>>

(* The map may have been revoked since, and its runtime is made again.         *)
VisitQueues(v) ==
    /\ visit[v].at = "found"
    /\ IF ~online
       THEN Moves(v, Returned(v, "offline")) /\ UNCHANGED runtime
       ELSE LET m == VisitMap[v]
                r == IF runtime[m] = "none" THEN v ELSE runtime[m]
            IN /\ runtime' = [runtime EXCEPT ![m] = r]
               /\ Moves(v, [visit[v] EXCEPT !.at = "queued", !.runtime = r])
    /\ UNCHANGED <<mapsElse, idle, pipe, faults>>

(* Visits that hold a permit of a runtime                                      *)
Admitted(r) ==
    {v \in Visits : visit[v].runtime = r /\ visit[v].at \notin Over \union {"queued", "kept"}}
VisitAdmitted(v) ==
    /\ visit[v].at = "queued" /\ Cardinality(Admitted(visit[v].runtime)) < MaxVisits
    /\ Moves(v, [visit[v] EXCEPT !.at = "taking"])
    /\ UNCHANGED <<mapsElse, runtime, idle, pipe, faults>>
VisitTooLate(v) ==
    /\ visit[v].at = "queued" /\ Cardinality(Admitted(visit[v].runtime)) >= MaxVisits
    /\ Lets(v, "busy")
    /\ UNCHANGED <<mapsElse, runtime, faults>>

(* take_idle: the last one put in that is not known to be closed or old; the   *)
(* ones it passes over are dropped.                                            *)
Usable(c) == pipe[c].at \in {"open", "cut"} /\ ~pipe[c].old
VisitTakes(v) ==
    LET r == visit[v].runtime IN
    /\ visit[v].at = "taking"
    /\ \/ /\ VisitKind[v] = "upgrade"
          /\ Moves(v, [visit[v] EXCEPT !.at = "opening"])
          /\ UNCHANGED <<idle, pipe>>
       \/ /\ VisitKind[v] # "upgrade"
          /\ \E last \in 0 .. Len(idle[r]) :
                /\ last # 0 => Usable(idle[r][last])
                /\ \A i \in last + 1 .. Len(idle[r]) : ~Usable(idle[r][i])
                /\ idle' = [idle EXCEPT ![r] = SubSeq(@, 1, last - 1)]
                /\ pipe' = Shut(pipe, {idle[r][i] : i \in last + 1 .. Len(idle[r])})
                /\ Moves(v, IF last = 0 THEN [visit[v] EXCEPT !.at = "opening"]
                            ELSE [visit[v] EXCEPT !.at = "sending", !.conn = idle[r][last], !.reused = TRUE])
    /\ UNCHANGED <<mapsElse, runtime, faults>>

(* open_upstream: over the session the agent has now.                          *)
VisitOpens(v) ==
    /\ visit[v].at = "opening"
    /\ \/ /\ online
          /\ pipe' = [pipe EXCEPT ![v] = [NoPipe EXCEPT !.at = "open"]]
          /\ Moves(v, [visit[v] EXCEPT !.at = "sending", !.conn = v, !.reused = FALSE])
          /\ UNCHANGED idle
       \/ Lets(v, "no tunnel")
    /\ UNCHANGED <<mapsElse, runtime, faults>>

Answer(v) == [i \in 1 .. AnswerLen[v] |-> [visit |-> v, chunk |-> i]]

(* The request gets to the target, if the connection is what it seems.         *)
VisitSends(v) ==
    LET c == visit[v].conn IN
    /\ visit[v].at = "sending" /\ pipe[c].at = "open"
    /\ pipe' = [pipe EXCEPT ![c].due = @ \o Answer(v)]
    /\ Moves(v, [visit[v] EXCEPT !.at = "sent", !.hits = @ + 1])
    /\ UNCHANGED <<mapsElse, runtime, idle, faults>>

(* Mutant: a request with a body is sent again, with what is left of it.       *)
MayRepeat_WithBody(v) == VisitKind[v] # "upgrade"

MayRepeat(v) == VisitKind[v] = "plain"

(* A reused connection that fails is replaced, once; hyper cannot tell whether *)
(* the target has acted on the request.                                        *)
VisitFails(v) ==
    LET c == visit[v].conn IN
    /\ visit[v].at \in {"sending", "sent"} /\ pipe[c].at = "cut"
    /\ IF visit[v].reused /\ MayRepeat(v) /\ visit[v].tries = 0
       THEN /\ Moves(v, [visit[v] EXCEPT !.at = "taking", !.conn = "none", !.tries = 1])
            /\ pipe' = Shut(pipe, {c})
            /\ UNCHANGED idle
       ELSE Lets(v, "failed")
    /\ UNCHANGED <<mapsElse, runtime, faults>>
VisitTimesOut(v) ==
    /\ visit[v].at = "sent"
    /\ Lets(v, "timeout")
    /\ UNCHANGED <<mapsElse, runtime, faults>>

(* The head of the response.  After 101 a task of its own copies bytes both    *)
(* ways until one side ends, and no more is told of them.                      *)
VisitAnswered(v) ==
    /\ visit[v].at = "sent" /\ pipe[visit[v].conn].at = "open"
    /\ \/ Moves(v, [visit[v] EXCEPT !.at = "body"])
       \/ VisitKind[v] = "upgrade" /\ Moves(v, [visit[v] EXCEPT !.at = "upgraded"])
    /\ Pools(runtime, visit', idle, pipe)
    /\ UNCHANGED <<mapsElse, runtime, faults>>

VisitReads(v) ==
    LET c == visit[v].conn IN
    /\ visit[v].at = "body" /\ pipe[c].due # <<>> /\ Len(visit[v].body) < AnswerLen[v]
    /\ Moves(v, [visit[v] EXCEPT !.body = Append(@, Head(pipe[c].due))])
    /\ pipe' = [pipe EXCEPT ![c].due = Tail(@)]
    /\ UNCHANGED <<mapsElse, runtime, idle, faults>>

(* StreamWithGuard: the end of the body or an error.  The permit is let go     *)
(* first.                                                                      *)
VisitEnds(v) ==
    LET c == visit[v].conn IN
    /\ visit[v].at = "body"
    /\ \/ Len(visit[v].body) = AnswerLen[v] /\ Moves(v, [visit[v] EXCEPT !.at = "kept"])
       \/ Len(visit[v].body) < AnswerLen[v] /\ pipe[c].at = "cut" /\ Moves(v, [visit[v] EXCEPT !.at = "kept"])
    /\ UNCHANGED <<mapsElse, runtime, idle, pipe, faults>>

(* What is left of a pool without those that are closed or old, in its order.  *)
Retained(pool) ==
    {left \in UNION {[1 .. n -> ToSet(pool)] : n \in 0 .. Len(pool)} :
        /\ ToSet(left) = {c \in ToSet(pool) : Usable(c)}
        /\ \A i, j \in DOMAIN left :
              i < j => \E k, l \in DOMAIN pool : k < l /\ pool[k] = left[i] /\ pool[l] = left[j]}

(* put_idle, unless it was to be a WebSocket: the connection may be closed     *)
(* already without anybody knowing.                                            *)
VisitKeeps(v) ==
    LET c == visit[v].conn
        r == visit[v].runtime
        outcome == IF Len(visit[v].body) = AnswerLen[v] THEN "whole" ELSE "cut"
    IN /\ visit[v].at = "kept"
       /\ \E left \in Retained(idle[r]) :
             IF VisitKind[v] # "upgrade" /\ Usable(c) /\ Len(left) < PoolSize
             THEN /\ Moves(v, Returned(v, outcome))
                  /\ Pools(runtime, visit', [idle EXCEPT ![r] = Append(left, c)],
                           Shut(pipe, ToSet(idle[r]) \ ToSet(left)))
             ELSE Lets(v, outcome)
       /\ UNCHANGED <<mapsElse, runtime, faults>>

(* Mutant: a dropped body gives its connection back, too.                      *)
VisitLeft_Kept(v) ==
    /\ visit[v].at = "body"
    /\ Moves(v, [visit[v] EXCEPT !.at = "kept"])
    /\ UNCHANGED <<mapsElse, runtime, idle, pipe, faults>>

(* The browser goes away, from a handler that waits or from the body; a        *)
(* connection with a response half read is not kept.                           *)
VisitLeft(v) ==
    /\ visit[v].at \in {"queued", "opening", "sent", "body"}
    /\ Lets(v, "gone")
    /\ UNCHANGED <<mapsElse, runtime, faults>>

(* Either side of a WebSocket ends.                                            *)
SocketEnds(v) ==
    /\ visit[v].at = "upgraded"
    /\ Lets(v, "whole")
    /\ UNCHANGED <<mapsElse, runtime, faults>>

(* The task that copies learns that a side is gone.                            *)
SocketCut(v) == SocketEnds(v) /\ pipe[visit[v].conn].at = "cut"

----------------------------------------------------------------------------
(* The target closes a connection; the relay learns of it in its own time.     *)
TargetCloses(c) ==
    /\ pipe[c].at = "open" /\ faults < MaxFaults
    /\ faults' = faults + 1
    /\ pipe' = [pipe EXCEPT ![c].at = "cut", ![c].due = <<>>]
    /\ UNCHANGED <<mapsElse, runtime, idle, visit>>
CloseNoticed(c) ==
    /\ pipe[c].at = "cut" /\ \E r \in Visits : c \in ToSet(idle[r])
    /\ pipe' = [pipe EXCEPT ![c].at = "closed"]
    /\ UNCHANGED <<mapsElse, runtime, idle, visit, faults>>
(* POOL_IDLE: looked at only when the pool is used next.                       *)
PipeAges(c) ==
    /\ \E r \in Visits : c \in ToSet(idle[r])
    /\ ~pipe[c].old
    /\ pipe' = [pipe EXCEPT ![c].old = TRUE]
    /\ UNCHANGED <<mapsElse, runtime, idle, visit, faults>>

(* What the handlers, their time-outs, the sweep and the target see to.        *)
VisitRuns(v) ==
    \/ VisitQueues(v) \/ VisitAdmitted(v) \/ VisitTooLate(v) \/ VisitTakes(v) \/ VisitOpens(v)
    \/ VisitSends(v) \/ VisitFails(v) \/ VisitTimesOut(v) \/ VisitAnswered(v) \/ VisitReads(v)
    \/ VisitEnds(v) \/ VisitKeeps(v) \/ SocketCut(v)

MapsNext ==
    \/ \E m \in Maps : MapOpens(m) \/ MapExpires(m)
    \/ RuntimesSwept
    \/ \E v \in Visits : VisitLooks(v) \/ VisitRuns(v) \/ VisitLeft(v) \/ SocketEnds(v)
    \/ \E c \in Visits : TargetCloses(c) \/ CloseNoticed(c) \/ PipeAges(c)
====
