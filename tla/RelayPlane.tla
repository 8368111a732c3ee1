------------------------------ MODULE RelayPlane ------------------------------
(***************************************************************************)
(* The relay's session plane: agents register and hold a downlink, browsers *)
(* join, the administrator kicks sessions and changes credentials, an idle  *)
(* reaper removes what nobody uses.  Each of these runs as its own task and *)
(* touches several maps, each behind its own lock, giving the lock up in    *)
(* between; an action here is what one of them does under one lock.         *)
(*                                                                          *)
(*   sessions         src/relay/session.rs; SessionRegistry shows that its  *)
(*                    two maps behave as this one                           *)
(*   agent_broadcast  per session: the channels to the agent and the        *)
(*                    browsers joined (ChannelMap)                          *)
(*   last_activity    stands for every map remove_session_state clears      *)
(*   sse_sessions     the open browser streams                              *)
(***************************************************************************)
EXTENDS Naturals, Sequences, FiniteSets

CONSTANTS Sid,         \* session ids
          Token,       \* every string that is ever a token
          Agent,       \* agent processes
          Conn,        \* agent downlinks (GET /agent/events)
          Stream,      \* browser event streams (GET of the browser SSE)
          None,
          DesiredSid,  \* Agent -> the --session-id it runs with, or None
          AgentKey,    \* Agent -> the --key it runs with, or None
          Operations,  \* what the administrator does: "kick", "revoke", ...
          Scenes,      \* whether sessions go idle, whether browsers come,
                       \* whether the relay runs with --server-auth
          MaxLosses,   \* bound: connections and replies lost, half-hour outages
          MaxOperations, \* bound: administrator requests
          MaxMissed    \* heartbeats that fail before an agent gives up (3)

Keys == {AgentKey[a] : a \in Agent} \ {None}

SessionInfo == [tokens : SUBSET Token, fixed_key : Keys \cup {None},
                is_temporary : BOOLEAN]

ChannelMap == [agent : Conn \cup {None}, agent_bulk : Conn \cup {None},
               browsers : SUBSET Stream]

\* A browser has two ids: the key of browser_sessions is a user id, its value
\* the id under which sse_sessions keeps the sender, here the stream itself.
UserIds(streams) == {<<"user", b>> : b \in streams}

Steps == {"channel", "streams", "tokens", "state", "revoke", "entries"}

\* The administrator's request: the ids it has collected, the steps it still
\* has to take.
Requests == [op : Operations, sid : Sid, token : Token \cup {None},
             ids : SUBSET (Stream \cup UserIds(Stream)), todo : Seq(Steps)]

ASSUME ParameterAssumption ==
    /\ DesiredSid \in [Agent -> Sid \cup {None}]
    /\ AgentKey \in [Agent -> Token \cup {None}]
    /\ Operations \subseteq {"kick", "revoke", "regenerate"}
    /\ Scenes \subseteq [idle : BOOLEAN, browsers : BOOLEAN,
                      password : BOOLEAN]
    /\ MaxLosses \in Nat /\ MaxOperations \in Nat /\ MaxMissed \in Nat \ {0}
    /\ None \notin ChannelMap /\ None \notin Requests

VARIABLES sessions,        \* Sid -> [tokens, fixed_key, is_temporary] or None
          agent_broadcast, \* Sid -> [agent, agent_bulk, browsers] or None
          last_activity,   \* Sid -> "absent", "fresh" or "idle" (> 30 min)
          sse_sessions,    \* the browser streams whose sender is kept
          agent,           \* Agent -> the process's reconnect loop
          register,        \* Agent -> its agent:register request, or None
          conn,            \* Conn -> state of a downlink
          browser,         \* Stream -> state of a browser's request or stream
          admin,           \* the administrator's request in progress
          reaper,          \* the idle reaper's pass in progress
          losses, operations, \* counted against the bounds
          scene,           \* the one of Scenes that this is
          newest,          \* history: Sid -> the downlink installed last, until
                           \* it is cleaned up after or the map is removed
          cut,             \* history: streams a credential change must close
          kicked           \* history: streams a kick found in the map

relayVars == <<sessions, agent_broadcast, last_activity, sse_sessions>>
taskVars == <<agent, register, conn, browser, admin, reaper>>
bounds == <<losses, operations, scene>>
history == <<newest, cut, kicked>>
vars == <<relayVars, taskVars, bounds, history>>

-----------------------------------------------------------------------------
(* Looking things up                                                       *)

Owner(t) == {s \in Sid : sessions[s] # None /\ t \in sessions[s].tokens}

TokensOf(s) == IF sessions[s] = None THEN {} ELSE sessions[s].tokens

HasChannel(s) == agent_broadcast[s] # None

AgentOf(s) == IF HasChannel(s) THEN agent_broadcast[s].agent ELSE None

BrowsersOf(s) == IF HasChannel(s) THEN agent_broadcast[s].browsers ELSE {}

NoChannel == [agent |-> None, agent_bulk |-> None, browsers |-> {}]

\* The receiving half of a downlink exists until its stream is dropped.
Open(c) == conn[c].state \in {"installed", "streaming"}

\* auth::agent_online: a sender is there, and its receiver still is.
AgentOnline(s) == AgentOf(s) # None /\ Open(AgentOf(s))

\* generate_token(): a token that nobody has heard of.
Mintable ==
    {t \in Token \ Keys :
        /\ Owner(t) = {}
        /\ \A a \in Agent : t \notin agent[a].tokens
        /\ \A a \in Agent : register[a] # None => t \notin register[a].tokens
        /\ \A b \in Stream : browser[b].token # t
        /\ admin = None \/ admin.token # t}

\* A downlink id is free once nothing refers to it.
FreeConn(c) ==
    /\ conn[c].state = "none"
    /\ \A s \in Sid : HasChannel(s) =>
          agent_broadcast[s].agent # c /\ agent_broadcast[s].agent_bulk # c

-----------------------------------------------------------------------------
(* The agent's reconnect loop (agent/mod.rs start_with_restore, client.rs) *)

SetAgent(a, rec) == agent' = [agent EXCEPT ![a] = rec]

\* The session has ended: the tokens are kept for the next registration.
Down(a) == [phase |-> "off", sid |-> None, tokens |-> agent[a].tokens,
            conn |-> None, missed |-> 0]

\* POST agent:register, with the cached tokens if there are any, else with
\* the key.  A desired id of None lets the relay pick a random one.
SendRegister(a) ==
    /\ agent[a].phase = "off" /\ register[a] = None
    /\ register' = [register EXCEPT ![a] =
          [pc |-> "online", sid |-> DesiredSid[a], tokens |-> agent[a].tokens]]
    /\ SetAgent(a, [agent[a] EXCEPT !.phase = "registering"])
    /\ UNCHANGED <<relayVars, conn, browser, admin, reaper, bounds, history>>

\* GET /agent/events with the token just received.
Dial(a) ==
    /\ agent[a].phase = "registered"
    /\ SetAgent(a, [agent[a] EXCEPT !.phase = "lookup"])
    /\ UNCHANGED <<relayVars, register, conn, browser, admin, reaper, bounds,
                   history>>

\* Mutant: 401 counts as an answer, the way 200 does.
PingAnswer_401Counts(a) == "dropped"

\* What agent_send answers to a ping: 401 for a token that is good for
\* nothing; 200, without doing anything, for a token of another session or a
\* session without a channel map, which a relay with a password answers with
\* 401 instead, a ping carrying none.
PingAnswer(a) ==
    LET owner == {s \in Sid : agent[a].tokens \cap TokensOf(s) # {}} IN
    IF owner = {} THEN "unauthorized"
    ELSE IF agent[a].sid \notin owner THEN "dropped"
    ELSE IF HasChannel(agent[a].sid) THEN "accepted"
    ELSE IF scene.password THEN "unauthorized" ELSE "dropped"

GivesUp(missed) == missed + 1 = MaxMissed

\* One heartbeat POST.  MaxMissed failures in a row: the uplink counts as
\* dead and the session ends, which aborts the downlink.
Heartbeat(a) ==
    /\ agent[a].phase = "up"
    /\ IF PingAnswer(a) = "unauthorized"
       THEN IF GivesUp(agent[a].missed)
            THEN /\ SetAgent(a, Down(a))
                 /\ conn' = [conn EXCEPT ![agent[a].conn].peer = FALSE]
            ELSE /\ SetAgent(a, [agent[a] EXCEPT !.missed = @ + 1])
                 /\ UNCHANGED conn
       ELSE /\ SetAgent(a, [agent[a] EXCEPT !.missed = 0])
            /\ UNCHANGED conn
    /\ last_activity' = IF PingAnswer(a) = "accepted"
                        THEN [last_activity EXCEPT ![agent[a].sid] = "fresh"]
                        ELSE last_activity
    /\ UNCHANGED <<sessions, agent_broadcast, sse_sessions, register, browser,
                   admin, reaper, bounds, history>>

\* The downlink broke, or was refused: the reader task ends, so does the
\* session.
NoticeLoss(a) ==
    /\ agent[a].phase = "up"
    /\ ~conn[agent[a].conn].peer
    /\ SetAgent(a, Down(a))
    /\ UNCHANGED <<relayVars, register, conn, browser, admin, reaper, bounds,
                   history>>

-----------------------------------------------------------------------------
(* agent_send_handler, agent:register                                      *)

SetRegister(a, pc) == register' = [register EXCEPT ![a].pc = pc]

\* Is an agent online under the id asked for?  No id: nothing to take over.
RegisterOnline(a) ==
    /\ register[a] # None /\ register[a].pc = "online"
    /\ LET s == register[a].sid IN
       SetRegister(a, IF s # None /\ AgentOnline(s) THEN "reclaim" ELSE "claim")
    /\ UNCHANGED <<relayVars, agent, conn, browser, admin, reaper, bounds,
                   history>>

\* SessionRegistry::can_reclaim: no session, the session's own key, or one of
\* its tokens.  The key travels only in a request without cached tokens.
CanReclaim(s, toks, key) ==
    \/ sessions[s] = None
    \/ toks = {} /\ key # None /\ key = sessions[s].fixed_key
    \/ toks \cap TokensOf(s) # {}

\* 409 makes the agent forget its tokens and fall back on its key.
RegisterReclaim(a) ==
    /\ register[a] # None /\ register[a].pc = "reclaim"
    /\ IF CanReclaim(register[a].sid, register[a].tokens, AgentKey[a])
       THEN SetRegister(a, "claim") /\ UNCHANGED agent
       ELSE /\ register' = [register EXCEPT ![a] = None]
            /\ SetAgent(a, [Down(a) EXCEPT !.tokens = {}])
    /\ UNCHANGED <<relayVars, conn, browser, admin, reaper, bounds, history>>

\* A random session id: nobody uses it.
RandomSid ==
    {s \in Sid : /\ sessions[s] = None /\ ~HasChannel(s)
                 /\ last_activity[s] = "absent"}

\* The tokens a registration installs.
IssuedTokens(a) ==
    IF register[a].tokens # {} THEN {register[a].tokens}
    ELSE IF AgentKey[a] # None THEN {{AgentKey[a]}}
    ELSE {{t} : t \in Mintable}

Claimed(s, toks, key) ==
    [z \in Sid |->
        IF z = s THEN [tokens |-> toks, fixed_key |-> key,
                       is_temporary |-> key = None]
        ELSE IF toks \cap TokensOf(z) # {} THEN None ELSE sessions[z]]

\* register / register_existing: one critical section of the registry.  Other
\* sessions that hold one of the tokens vanish; nothing else of theirs does.
RegisterClaim(a) ==
    /\ register[a] # None /\ register[a].pc = "claim"
    /\ \E s \in IF register[a].sid = None THEN RandomSid ELSE {register[a].sid},
          toks \in IssuedTokens(a) :
          /\ sessions' = Claimed(s, toks,
                IF register[a].tokens = {} THEN AgentKey[a] ELSE None)
          /\ register' = [register EXCEPT ![a] =
                [pc |-> "channel", sid |-> s, tokens |-> toks]]
    /\ UNCHANGED <<agent_broadcast, last_activity, sse_sessions, agent, conn,
                   browser, admin, reaper, bounds, history>>

RegisterChannel(a) ==
    /\ register[a] # None /\ register[a].pc = "channel"
    /\ LET s == register[a].sid IN
       agent_broadcast' = IF HasChannel(s) THEN agent_broadcast
                          ELSE [agent_broadcast EXCEPT ![s] = NoChannel]
    /\ SetRegister(a, "activity")
    /\ UNCHANGED <<sessions, last_activity, sse_sessions, agent, conn, browser,
                   admin, reaper, bounds, history>>

RegisterActivity(a) ==
    /\ register[a] # None /\ register[a].pc = "activity"
    /\ last_activity' = [last_activity EXCEPT ![register[a].sid] = "fresh"]
    /\ SetRegister(a, "reply")
    /\ UNCHANGED <<sessions, agent_broadcast, sse_sessions, agent, conn,
                   browser, admin, reaper, bounds, history>>

RegisterReply(a) ==
    /\ register[a] # None /\ register[a].pc = "reply"
    /\ SetAgent(a, [phase |-> "registered", sid |-> register[a].sid,
                    tokens |-> register[a].tokens, conn |-> None, missed |-> 0])
    /\ register' = [register EXCEPT ![a] = None]
    /\ UNCHANGED <<relayVars, conn, browser, admin, reaper, bounds, history>>

\* The reply is lost: the agent tries again with what it had.
LoseReply(a) ==
    /\ register[a] # None /\ register[a].pc = "reply"
    /\ losses < MaxLosses
    /\ losses' = losses + 1
    /\ SetAgent(a, Down(a))
    /\ register' = [register EXCEPT ![a] = None]
    /\ UNCHANGED <<relayVars, conn, browser, admin, reaper, operations, scene,
                   history>>

-----------------------------------------------------------------------------
(* agent_events_handler: the downlink                                      *)

\* 404 when nobody registered; the agent's session ends, it registers again.
EventsLookup(a) ==
    /\ agent[a].phase = "lookup"
    /\ SetAgent(a, IF HasChannel(agent[a].sid)
                   THEN [agent[a] EXCEPT !.phase = "auth"] ELSE Down(a))
    /\ UNCHANGED <<relayVars, register, conn, browser, admin, reaper, bounds,
                   history>>

\* auth::agent_auth: the agent's token has to be one of this session.
EventsAuth(a) ==
    /\ agent[a].phase = "auth"
    /\ SetAgent(a, IF agent[a].tokens \cap TokensOf(agent[a].sid) # {}
                   THEN [agent[a] EXCEPT !.phase = "install"] ELSE Down(a))
    /\ UNCHANGED <<relayVars, register, conn, browser, admin, reaper, bounds,
                   history>>

\* The channels go into the map if it is still there; the stream is returned
\* either way.
EventsInstall(a) ==
    /\ agent[a].phase = "install"
    /\ \E c \in Conn :
          LET s == agent[a].sid IN
          /\ FreeConn(c)
          /\ conn' = [conn EXCEPT ![c] = [state |-> "installed", peer |-> TRUE,
                                          sid |-> s]]
          /\ SetAgent(a, [agent[a] EXCEPT !.phase = "up", !.conn = c])
          /\ IF HasChannel(s)
             THEN /\ agent_broadcast' = [agent_broadcast EXCEPT
                                          ![s].agent = c, ![s].agent_bulk = c]
                  /\ newest' = [newest EXCEPT ![s] = c]
             ELSE UNCHANGED <<agent_broadcast, newest>>
    /\ UNCHANGED <<sessions, last_activity, sse_sessions, register, browser,
                   admin, reaper, bounds, cut, kicked>>

\* The first poll of the stream creates the guard that cleans up after it.
EventsPoll(c) ==
    /\ conn[c].state = "installed" /\ conn[c].peer
    /\ conn' = [conn EXCEPT ![c].state = "streaming"]
    /\ UNCHANGED <<relayVars, agent, register, browser, admin, reaper, bounds,
                   history>>

LoseConn(c) ==
    /\ Open(c) /\ conn[c].peer
    /\ losses < MaxLosses
    /\ losses' = losses + 1
    /\ conn' = [conn EXCEPT ![c].peer = FALSE]
    /\ UNCHANGED <<relayVars, agent, register, browser, admin, reaper,
                   operations, scene, history>>

\* The server drops the response of a peer that is gone.  A stream that was
\* polled leaves a cleanup task behind, one that was not leaves nothing.
DropStream(c) ==
    /\ Open(c) /\ ~conn[c].peer
    /\ conn' = [conn EXCEPT ![c].state =
                   IF conn[c].state = "streaming" THEN "cleanup" ELSE "none"]
    /\ UNCHANGED <<relayVars, agent, register, browser, admin, reaper, bounds,
                   history>>

\* Mutant: the guard clears whatever downlink the session has.
ClearedChannel_AnyChannel(cm, c) ==
    [cm EXCEPT !.agent = None, !.agent_bulk = None]

\* Only the channels of this very connection are cleared (same_channel).
ClearedChannel(cm, c) ==
    [cm EXCEPT !.agent = IF @ = c THEN None ELSE @,
               !.agent_bulk = IF @ = c THEN None ELSE @]

\* The task AgentEventsCleanup spawns, one critical section.
Cleanup(c) ==
    /\ conn[c].state = "cleanup"
    /\ LET s == conn[c].sid IN
       agent_broadcast' =
          IF HasChannel(s)
          THEN [agent_broadcast EXCEPT ![s] = ClearedChannel(@, c)]
          ELSE agent_broadcast
    /\ conn' = [conn EXCEPT ![c].state = "none", ![c].sid = None]
    /\ newest' = [s \in Sid |-> IF newest[s] = c THEN None ELSE newest[s]]
    /\ UNCHANGED <<sessions, last_activity, sse_sessions, agent, register,
                   browser, admin, reaper, bounds, cut, kicked>>

-----------------------------------------------------------------------------
(* browser_sse_handler, one step per lock                                  *)

SetBrowser(b, rec) == browser' = [browser EXCEPT ![b] = rec]

NoBrowser == [pc |-> "off", token |-> None, sid |-> None]

\* A stream's id is fresh: no request in progress has collected it.
BrowserAuthenticate(b) ==
    /\ scene.browsers /\ browser[b].pc = "off"
    /\ admin # None => b \notin admin.ids
    /\ \E t \in Token : \E s \in Owner(t) :
          SetBrowser(b, [pc |-> "alive", token |-> t, sid |-> s])
    /\ UNCHANGED <<relayVars, agent, register, conn, admin, reaper, bounds,
                   history>>

\* 503 unless the session's map holds an agent channel, closed or not.
BrowserAlive(b) ==
    /\ browser[b].pc = "alive"
    /\ SetBrowser(b, IF AgentOf(browser[b].sid) # None
                     THEN [browser[b] EXCEPT !.pc = "keep"] ELSE NoBrowser)
    /\ UNCHANGED <<relayVars, agent, register, conn, admin, reaper, bounds,
                   history>>

BrowserKeep(b) ==
    /\ browser[b].pc = "keep"
    /\ sse_sessions' = sse_sessions \cup {b}
    /\ SetBrowser(b, [browser[b] EXCEPT !.pc = "enter"])
    /\ UNCHANGED <<sessions, agent_broadcast, last_activity, agent, register,
                   conn, admin, reaper, bounds, history>>

\* browser_sessions and browser_tokens, if the map is still there.
BrowserEnter(b) ==
    /\ browser[b].pc = "enter"
    /\ LET s == browser[b].sid IN
       agent_broadcast' =
          IF HasChannel(s)
          THEN [agent_broadcast EXCEPT ![s].browsers = @ \cup {b}]
          ELSE agent_broadcast
    /\ SetBrowser(b, [browser[b] EXCEPT !.pc = "open"])
    /\ UNCHANGED <<sessions, last_activity, sse_sessions, agent, register, conn,
                   admin, reaper, bounds, history>>

\* The stream ends because the browser goes away or because its sender is no
\* longer kept: SseCleanup takes the sender out ...
BrowserEnd(b) ==
    /\ browser[b].pc = "open"
    /\ sse_sessions' = sse_sessions \ {b}
    /\ SetBrowser(b, [browser[b] EXCEPT !.pc = "leave"])
    /\ UNCHANGED <<sessions, agent_broadcast, last_activity, agent, register,
                   conn, admin, reaper, bounds, history>>

\* ... and then the browser out of the map.
BrowserLeave(b) ==
    /\ browser[b].pc = "leave"
    /\ LET s == browser[b].sid IN
       agent_broadcast' =
          IF HasChannel(s)
          THEN [agent_broadcast EXCEPT ![s].browsers = @ \ {b}]
          ELSE agent_broadcast
    /\ SetBrowser(b, NoBrowser)
    /\ cut' = cut \ {b} /\ kicked' = kicked \ {b}
    /\ UNCHANGED <<sessions, last_activity, sse_sessions, agent, register, conn,
                   admin, reaper, bounds, newest>>

-----------------------------------------------------------------------------
(* The administrator: kick_handler, revoke_handler, regenerate_handler     *)

\* The steps a request still has to take, each under locks of its own.
KickSteps == <<"channel", "streams", "tokens", "state">>

\* Mutant: the streams leave the channel map only.
DisconnectSteps_EntriesOnly == <<"entries">>

DisconnectSteps == <<"entries", "streams">>

StartRequest(op, s, t, ids, todo) ==
    /\ op \in Operations
    /\ admin = None /\ operations < MaxOperations
    /\ operations' = operations + 1
    /\ admin' = [op |-> op, sid |-> s, token |-> t, ids |-> ids, todo |-> todo]
    /\ UNCHANGED <<relayVars, agent, register, conn, browser, reaper, losses,
                   scene, newest, cut>>

AdminAt(step) == admin # None /\ Head(admin.todo) = step

AdminDone(ids) ==
    admin' = IF Len(admin.todo) = 1 THEN None
             ELSE [admin EXCEPT !.todo = Tail(@), !.ids = ids]

\* The handler collects keys.
KickCollect ==
    \E s \in Sid :
       /\ StartRequest("kick", s, None, UserIds(BrowsersOf(s)), KickSteps)
       /\ kicked' = kicked \cup BrowsersOf(s)

KickChannel ==
    /\ AdminAt("channel")
    /\ agent_broadcast' = [agent_broadcast EXCEPT ![admin.sid] = None]
    /\ newest' = [newest EXCEPT ![admin.sid] = None]
    /\ AdminDone(admin.ids)
    /\ UNCHANGED <<sessions, last_activity, sse_sessions, agent, register, conn,
                   browser, reaper, bounds, cut, kicked>>

\* sse_sessions.remove(id) of the ids collected: last step of a disconnect,
\* second of a kick.
RemoveStreams ==
    /\ AdminAt("streams")
    /\ sse_sessions' = {b \in sse_sessions : b \notin admin.ids}
    /\ AdminDone({})
    /\ UNCHANGED <<sessions, agent_broadcast, last_activity, agent, register,
                   conn, browser, reaper, bounds, history>>

KickTokens ==
    /\ AdminAt("tokens")
    /\ sessions' = [sessions EXCEPT ![admin.sid] = None]
    /\ AdminDone(admin.ids)
    /\ UNCHANGED <<agent_broadcast, last_activity, sse_sessions, agent,
                   register, conn, browser, reaper, bounds, history>>

\* remove_session_state
KickState ==
    /\ AdminAt("state")
    /\ last_activity' = [last_activity EXCEPT ![admin.sid] = "absent"]
    /\ AdminDone({})
    /\ UNCHANGED <<sessions, agent_broadcast, sse_sessions, agent, register,
                   conn, browser, reaper, bounds, history>>

\* session_of_token; an unknown token changes nothing later on.
RevokeFind ==
    \E t \in Token : \E s \in Owner(t) :
       /\ StartRequest("revoke", s, t, {}, <<"revoke">> \o DisconnectSteps)
       /\ UNCHANGED kicked

\* The streams in the map that a change of these tokens has to close.
StreamsOn(s, toks) == {b \in BrowsersOf(s) : browser[b].token \in toks}

\* A token that is unknown by now: ok is false, nothing is disconnected.
RevokeToken ==
    /\ AdminAt("revoke")
    /\ LET t == admin.token
           known == Owner(t) # {}
       IN  /\ sessions' = [s \in Sid |->
                  IF s \in Owner(t)
                  THEN [sessions[s] EXCEPT !.tokens = @ \ {t}] ELSE sessions[s]]
           /\ cut' = IF admin.sid \in Owner(t)
                     THEN cut \cup StreamsOn(admin.sid, {t}) ELSE cut
           /\ IF known THEN AdminDone({}) ELSE admin' = None
    /\ UNCHANGED <<agent_broadcast, last_activity, sse_sessions, agent,
                   register, conn, browser, reaper, bounds, newest,
                   kicked>>

\* regenerate_session: the key the session is known by stays what it was.
Regenerate ==
    \E s \in Sid : \E t \in Mintable :
       /\ "regenerate" \in Operations
       /\ admin = None /\ operations < MaxOperations
       /\ operations' = operations + 1
       /\ TokensOf(s) # {}
       /\ sessions' = [sessions EXCEPT ![s].tokens = {t}]
       /\ cut' = cut \cup BrowsersOf(s)
       /\ admin' = [op |-> "regenerate", sid |-> s, token |-> None, ids |-> {},
                    todo |-> DisconnectSteps]
       /\ UNCHANGED <<agent_broadcast, last_activity, sse_sessions, agent,
                      register, conn, browser, reaper, losses, scene, newest,
                      kicked>>

\* disconnect_browser_streams, first half: the entries of the streams on the
\* token, or of all of them, leave the map.
DisconnectEntries ==
    /\ AdminAt("entries")
    /\ LET s == admin.sid
           matched == IF admin.token = None THEN BrowsersOf(s)
                      ELSE StreamsOn(s, {admin.token})
       IN  /\ agent_broadcast' =
                 IF HasChannel(s)
                 THEN [agent_broadcast EXCEPT ![s].browsers = @ \ matched]
                 ELSE agent_broadcast
           /\ AdminDone(matched)
    /\ UNCHANGED <<sessions, last_activity, sse_sessions, agent, register, conn,
                   browser, reaper, bounds, history>>

-----------------------------------------------------------------------------
(* The idle reaper (mod.rs)                                                *)

\* Half an hour passes for session s, the agent cannot reach the relay, nothing
\* of the session is in progress.
Idle(s) ==
    /\ scene.idle
    /\ losses < MaxLosses
    /\ losses' = losses + 1
    /\ last_activity[s] = "fresh"
    /\ admin = None /\ reaper = None
    /\ \A a \in Agent :
          /\ register[a] = None
          /\ agent[a].sid # s \/ agent[a].phase = "off"
    /\ last_activity' = [last_activity EXCEPT ![s] = "idle"]
    /\ UNCHANGED <<sessions, agent_broadcast, sse_sessions, taskVars,
                   operations, scene, history>>

ReaperAt(step) == reaper # None /\ reaper.step = step

ReaperScan ==
    /\ reaper = None
    /\ \E s \in Sid :
          /\ last_activity[s] = "idle"
          /\ reaper' = [step |-> "temporary", sid |-> s]
    /\ UNCHANGED <<relayVars, agent, register, conn, browser, admin, bounds,
                   history>>

\* A session that is gone is not temporary: it is skipped.
ReaperTemporary ==
    /\ ReaperAt("temporary")
    /\ reaper' = IF sessions[reaper.sid] # None
                    /\ sessions[reaper.sid].is_temporary
                 THEN [reaper EXCEPT !.step = "session"] ELSE None
    /\ UNCHANGED <<relayVars, agent, register, conn, browser, admin, bounds,
                   history>>

ReaperSession ==
    /\ ReaperAt("session")
    /\ sessions' = [sessions EXCEPT ![reaper.sid] = None]
    /\ reaper' = [reaper EXCEPT !.step = "channel"]
    /\ UNCHANGED <<agent_broadcast, last_activity, sse_sessions, agent,
                   register, conn, browser, admin, bounds, history>>

ReaperChannel ==
    /\ ReaperAt("channel")
    /\ agent_broadcast' = [agent_broadcast EXCEPT ![reaper.sid] = None]
    /\ newest' = [newest EXCEPT ![reaper.sid] = None]
    /\ cut' = cut \ BrowsersOf(reaper.sid)
    /\ reaper' = [reaper EXCEPT !.step = "state"]
    /\ UNCHANGED <<sessions, last_activity, sse_sessions, agent, register, conn,
                   browser, admin, bounds, kicked>>

ReaperState ==
    /\ ReaperAt("state")
    /\ last_activity' = [last_activity EXCEPT ![reaper.sid] = "absent"]
    /\ reaper' = None
    /\ UNCHANGED <<sessions, agent_broadcast, sse_sessions, agent, register,
                   conn, browser, admin, bounds, history>>

-----------------------------------------------------------------------------

Init ==
    /\ sessions = [s \in Sid |-> None]
    /\ agent_broadcast = [s \in Sid |-> None]
    /\ last_activity = [s \in Sid |-> "absent"]
    /\ sse_sessions = {}
    /\ agent = [a \in Agent |-> [phase |-> "off", sid |-> None, tokens |-> {},
                                 conn |-> None, missed |-> 0]]
    /\ register = [a \in Agent |-> None]
    /\ conn = [c \in Conn |-> [state |-> "none", peer |-> FALSE, sid |-> None]]
    /\ browser = [b \in Stream |-> NoBrowser]
    /\ admin = None /\ reaper = None
    /\ losses = 0 /\ operations = 0 /\ scene \in Scenes
    /\ newest = [s \in Sid |-> None]
    /\ cut = {} /\ kicked = {}

AgentNext(a) ==
    \/ SendRegister(a) \/ Dial(a) \/ Heartbeat(a) \/ NoticeLoss(a)
    \/ RegisterOnline(a) \/ RegisterReclaim(a) \/ RegisterClaim(a)
    \/ RegisterChannel(a) \/ RegisterActivity(a) \/ RegisterReply(a)
    \/ EventsLookup(a) \/ EventsAuth(a) \/ EventsInstall(a)

ConnNext(c) == EventsPoll(c) \/ DropStream(c) \/ Cleanup(c)

BrowserNext(b) ==
    \/ BrowserAuthenticate(b) \/ BrowserAlive(b) \/ BrowserKeep(b)
    \/ BrowserEnter(b) \/ BrowserEnd(b) \/ BrowserLeave(b)

AdminNext == \/ KickChannel \/ RemoveStreams \/ KickTokens \/ KickState
             \/ RevokeToken \/ DisconnectEntries

ReaperNext == \/ ReaperTemporary \/ ReaperSession \/ ReaperChannel
              \/ ReaperState

\* What the environment does, or does not do.
Environment ==
    \/ \E a \in Agent : LoseReply(a)
    \/ \E c \in Conn : LoseConn(c)
    \/ KickCollect \/ RevokeFind \/ Regenerate
    \/ \E s \in Sid : Idle(s)
    \/ ReaperScan

Next ==
    \/ \E a \in Agent : AgentNext(a)
    \/ \E c \in Conn : ConnNext(c)
    \/ \E b \in Stream : BrowserNext(b)
    \/ AdminNext \/ ReaperNext \/ Environment

Spec == Init /\ [][Next]_vars

\* Every task of the relay that can go on does, and so does the agent's loop.
\* Nothing is assumed of the network, the administrator or the browsers.
FairSpec ==
    /\ Spec
    /\ \A a \in Agent : WF_vars(AgentNext(a))
    /\ \A c \in Conn : WF_vars(ConnNext(c))
    /\ WF_vars(AdminNext) /\ WF_vars(ReaperNext)

-----------------------------------------------------------------------------
(* Properties                                                              *)

Phases == {"off", "registering", "registered", "lookup", "auth", "install",
           "up"}

\* Types, and what a reader of the code takes for granted: an agent that is up
\* has a downlink, a token belongs to one session.
TypeOK ==
    /\ sessions \in [Sid -> SessionInfo \cup {None}]
    /\ agent_broadcast \in [Sid -> ChannelMap \cup {None}]
    /\ last_activity \in [Sid -> {"absent", "fresh", "idle"}]
    /\ sse_sessions \subseteq Stream
    /\ \A a \in Agent :
          /\ agent[a].phase \in Phases
          /\ agent[a].phase = "up" => agent[a].conn \in Conn
          /\ agent[a].missed < MaxMissed
    /\ \A t \in Token : Cardinality(Owner(t)) <= 1

Alive(c) == c # None /\ Open(c) /\ conn[c].peer

\* A reconnect is never undone by the teardown of the connection it replaced:
\* as long as the downlink installed last is alive, both of the session's
\* channels lead to it (AgentEventsCleanup, "a newer reconnect's channels are
\* never clobbered by a stale stream's teardown").
NewestOwns ==
    \A s \in Sid :
       Alive(newest[s]) /\ HasChannel(s) =>
          /\ agent_broadcast[s].agent = newest[s]
          /\ agent_broadcast[s].agent_bulk = newest[s]

\* A credential change reaches every stream that was in the session's map when
\* the credentials changed, whatever joins, leaves or reconnects meanwhile:
\* when the request is over, none of them is kept.  The exception is the idle
\* reaper: a map that it removes between the two halves of the request takes
\* its streams out of reach (ReaperChannel takes them out of cut).
CutStreamsClosed == admin = None => cut \cap sse_sessions = {}

\* A kick "drops browser SSE senders (browsers disconnect)": when it is over no
\* stream that was in the session's map is kept (admin.rs kick_handler).
KickedStreamsClosed == admin = None => kicked \cap sse_sessions = {}

\* The agent is up, its token is good and the session's channels lead to it.
Served(a) ==
    /\ agent[a].phase = "up"
    /\ Alive(agent[a].conn)
    /\ AgentOf(agent[a].sid) = agent[a].conn
    /\ agent[a].tokens \cap TokensOf(agent[a].sid) # {}

\* However the administrator and the network interfere, an agent ends up
\* served once they stop ("end the session so it re-registers").  Only a relay
\* with a password refuses the heartbeats of a session that is gone.
AgentRecovers == scene.password => \A a \in Agent : <>[]Served(a)

=============================================================================
