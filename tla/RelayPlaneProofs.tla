-------------------------- MODULE RelayPlaneProofs --------------------------
(***************************************************************************)
(* Proofs about RelayPlane, for any number of agents, sessions, tokens,    *)
(* downlinks and browsers.                                                 *)
(*                                                                         *)
(* The relay's tasks give a lock up between two steps, so that each of     *)
(* them finds whatever the others have left.  The inductive invariant has  *)
(* one part per map: SessionsInv (a token has one session), MapInv (the    *)
(* channels of a session are those of the downlink installed last), and    *)
(* for the streams, of which several tasks hold a piece, StreamInv (a      *)
(* browser is in the map of the session it authenticated for, and only     *)
(* while it is open or on its way out) and CutInv (a stream that is cut    *)
(* and still kept is one that the request in progress has yet to find, or  *)
(* has found and has yet to close).  For each part there is a lemma that   *)
(* says which steps write the variables it is about.                       *)
(***************************************************************************)
EXTENDS RelayPlane, FiniteSetTheorems, SequenceTheorems, TLAPS

-----------------------------------------------------------------------------
(* The inductive invariant                                                 *)

SessionsInv ==
    /\ sessions \in [Sid -> SessionInfo \cup {None}]
    /\ \A t \in Token : \A s, z \in Owner(t) : s = z

Agents == [phase : Phases, sid : Sid \cup {None}, tokens : SUBSET Token,
           conn : Conn \cup {None}, missed : 0..(MaxMissed - 1)]

Registers == [pc : {"online", "reclaim", "claim", "channel", "activity", "reply"},
              sid : Sid \cup {None}, tokens : SUBSET Token]

AgentsInv ==
    /\ agent \in [Agent -> Agents]
    /\ \A a \in Agent : agent[a].phase = "up" => agent[a].conn \in Conn
    /\ register \in [Agent -> Registers \cup {None}]

ActivityInv == last_activity \in [Sid -> {"absent", "fresh", "idle"}]

MapInv ==
    /\ agent_broadcast \in [Sid -> ChannelMap \cup {None}]
    /\ newest \in [Sid -> Conn \cup {None}]
    /\ \A s \in Sid : newest[s] # None =>
          /\ HasChannel(s)
          /\ agent_broadcast[s].agent = newest[s]
          /\ agent_broadcast[s].agent_bulk = newest[s]

Browsers == [pc : {"off", "alive", "keep", "enter", "open", "leave"},
             token : Token \cup {None}, sid : Sid \cup {None}]

\* A stream whose handler has done with entering the map.
Entered(b) == browser[b].pc \in {"open", "leave"}

StreamInv ==
    /\ browser \in [Stream -> Browsers]
    /\ sse_sessions \subseteq Stream
    /\ \A s \in Sid : \A b \in BrowsersOf(s) : Entered(b) /\ browser[b].sid = s
    /\ \A b \in cut : b \in Stream /\ Entered(b)

\* What a request may have left to do.
Todos == {<<"channel", "streams", "tokens", "state">>,
          <<"streams", "tokens", "state">>, <<"tokens", "state">>, <<"state">>,
          <<"revoke", "entries", "streams">>, <<"entries", "streams">>,
          <<"streams">>}

AdminInv == admin # None => admin \in Requests /\ admin.todo \in Todos

ReaperInv ==
    reaper # None =>
       reaper \in [step : {"temporary", "session", "channel", "state"}, sid : Sid]

\* The request in progress will find stream b, or has found it.
Closing(b) ==
    \/ /\ admin.todo = <<"entries", "streams">>
       /\ b \in BrowsersOf(admin.sid)
       /\ admin.token # None => browser[b].token = admin.token
    \/ admin.todo = <<"streams">> /\ b \in admin.ids

CutInv == \A b \in cut \cap sse_sessions : admin # None /\ Closing(b)

IInv == SessionsInv /\ AgentsInv /\ ActivityInv /\ MapInv /\ StreamInv
        /\ AdminInv /\ ReaperInv /\ CutInv

-----------------------------------------------------------------------------
(* Which steps write what                                                  *)

LEMMA SessionsWriters ==
    ASSUME [Next]_vars
    PROVE  \/ UNCHANGED sessions
           \/ \E a \in Agent : RegisterClaim(a)
           \/ KickTokens \/ RevokeToken \/ Regenerate \/ ReaperSession
<1>1. CASE \E a \in Agent : AgentNext(a)
  BY <1>1 DEF AgentNext, SendRegister, Dial, Heartbeat, NoticeLoss, RegisterOnline,
     RegisterReclaim, RegisterChannel, RegisterActivity, RegisterReply,
     EventsLookup, EventsAuth, EventsInstall, relayVars
<1>2. CASE \E c \in Conn : ConnNext(c)
  BY <1>2 DEF ConnNext, EventsPoll, DropStream, Cleanup, relayVars
<1>3. CASE \E b \in Stream : BrowserNext(b)
  BY <1>3 DEF BrowserNext, BrowserAuthenticate, BrowserAlive, BrowserKeep,
     BrowserEnter, BrowserEnd, BrowserLeave, relayVars
<1>4. CASE AdminNext
  BY <1>4 DEF AdminNext, KickChannel, RemoveStreams, KickState, DisconnectEntries
<1>5. CASE ReaperNext
  BY <1>5 DEF ReaperNext, ReaperTemporary, ReaperChannel, ReaperState, relayVars
<1>6. CASE Environment
  BY <1>6 DEF Environment, LoseReply, LoseConn, KickCollect, RevokeFind,
     StartRequest, Idle, ReaperScan, relayVars
<1>7. CASE UNCHANGED vars
  BY <1>7 DEF vars, relayVars
<1> QED BY <1>1, <1>2, <1>3, <1>4, <1>5, <1>6, <1>7 DEF Next

LEMMA AgentsWriters ==
    ASSUME [Next]_vars
    PROVE  \/ UNCHANGED <<agent, register>>
           \/ \E a \in Agent : AgentNext(a) \/ LoseReply(a)
<1>1. CASE \E c \in Conn : ConnNext(c)
  BY <1>1 DEF ConnNext, EventsPoll, DropStream, Cleanup
<1>2. CASE \E b \in Stream : BrowserNext(b)
  BY <1>2 DEF BrowserNext, BrowserAuthenticate, BrowserAlive, BrowserKeep,
     BrowserEnter, BrowserEnd, BrowserLeave
<1>3. CASE AdminNext
  BY <1>3 DEF AdminNext, KickChannel, RemoveStreams, KickTokens, KickState,
     RevokeToken, DisconnectEntries
<1>4. CASE ReaperNext
  BY <1>4 DEF ReaperNext, ReaperTemporary, ReaperSession, ReaperChannel, ReaperState
<1>5. CASE Environment
  BY <1>5 DEF Environment, LoseConn, KickCollect, RevokeFind, Regenerate,
     StartRequest, Idle, ReaperScan, taskVars
<1>6. CASE UNCHANGED vars
  BY <1>6 DEF vars, taskVars
<1> QED BY <1>1, <1>2, <1>3, <1>4, <1>5, <1>6 DEF Next

LEMMA ActivityWriters ==
    ASSUME [Next]_vars
    PROVE  \/ UNCHANGED last_activity
           \/ \E a \in Agent : Heartbeat(a) \/ RegisterActivity(a)
           \/ KickState \/ ReaperState \/ \E s \in Sid : Idle(s)
<1>1. CASE \E a \in Agent : AgentNext(a)
  BY <1>1 DEF AgentNext, SendRegister, Dial, NoticeLoss, RegisterOnline,
     RegisterReclaim, RegisterClaim, RegisterChannel, RegisterReply,
     EventsLookup, EventsAuth, EventsInstall, relayVars
<1>2. CASE \E c \in Conn : ConnNext(c)
  BY <1>2 DEF ConnNext, EventsPoll, DropStream, Cleanup, relayVars
<1>3. CASE \E b \in Stream : BrowserNext(b)
  BY <1>3 DEF BrowserNext, BrowserAuthenticate, BrowserAlive, BrowserKeep,
     BrowserEnter, BrowserEnd, BrowserLeave, relayVars
<1>4. CASE AdminNext
  BY <1>4 DEF AdminNext, KickChannel, RemoveStreams, KickTokens, RevokeToken,
     DisconnectEntries
<1>5. CASE ReaperNext
  BY <1>5 DEF ReaperNext, ReaperTemporary, ReaperSession, ReaperChannel, relayVars
<1>6. CASE Environment
  BY <1>6 DEF Environment, LoseReply, LoseConn, KickCollect, RevokeFind,
     Regenerate, StartRequest, ReaperScan, relayVars
<1>7. CASE UNCHANGED vars
  BY <1>7 DEF vars, relayVars
<1> QED BY <1>1, <1>2, <1>3, <1>4, <1>5, <1>6, <1>7 DEF Next

LEMMA ReaperWriters ==
    ASSUME [Next]_vars
    PROVE  UNCHANGED reaper \/ ReaperNext \/ ReaperScan
<1>1. CASE \E a \in Agent : AgentNext(a)
  BY <1>1 DEF AgentNext, SendRegister, Dial, Heartbeat, NoticeLoss, RegisterOnline,
     RegisterReclaim, RegisterClaim, RegisterChannel, RegisterActivity,
     RegisterReply, EventsLookup, EventsAuth, EventsInstall
<1>2. CASE \E c \in Conn : ConnNext(c)
  BY <1>2 DEF ConnNext, EventsPoll, DropStream, Cleanup
<1>3. CASE \E b \in Stream : BrowserNext(b)
  BY <1>3 DEF BrowserNext, BrowserAuthenticate, BrowserAlive, BrowserKeep,
     BrowserEnter, BrowserEnd, BrowserLeave
<1>4. CASE AdminNext
  BY <1>4 DEF AdminNext, KickChannel, RemoveStreams, KickTokens, KickState,
     RevokeToken, DisconnectEntries
<1>5. CASE Environment
  BY <1>5 DEF Environment, LoseReply, LoseConn, KickCollect, RevokeFind,
     Regenerate, StartRequest, Idle, taskVars
<1>6. CASE UNCHANGED vars
  BY <1>6 DEF vars, taskVars
<1> QED BY <1>1, <1>2, <1>3, <1>4, <1>5, <1>6 DEF Next

LEMMA MapWriters ==
    ASSUME [Next]_vars
    PROVE  \/ UNCHANGED <<agent_broadcast, newest>>
           \/ \E a \in Agent : RegisterChannel(a) \/ EventsInstall(a)
           \/ \E c \in Conn : Cleanup(c)
           \/ \E b \in Stream : BrowserEnter(b) \/ BrowserLeave(b)
           \/ KickChannel \/ DisconnectEntries \/ ReaperChannel
<1>1. CASE \E a \in Agent : AgentNext(a)
  BY <1>1 DEF AgentNext, SendRegister, Dial, Heartbeat, NoticeLoss, RegisterOnline,
     RegisterReclaim, RegisterClaim, RegisterActivity, RegisterReply,
     EventsLookup, EventsAuth, relayVars, history
<1>2. CASE \E c \in Conn : ConnNext(c)
  BY <1>2 DEF ConnNext, EventsPoll, DropStream, relayVars, history
<1>3. CASE \E b \in Stream : BrowserNext(b)
  BY <1>3 DEF BrowserNext, BrowserAuthenticate, BrowserAlive, BrowserKeep,
     BrowserEnd, relayVars, history
<1>4. CASE AdminNext
  BY <1>4 DEF AdminNext, RemoveStreams, KickTokens, KickState, RevokeToken, history
<1>5. CASE ReaperNext
  BY <1>5 DEF ReaperNext, ReaperTemporary, ReaperSession, ReaperState, relayVars,
     history
<1>6. CASE Environment
  BY <1>6 DEF Environment, LoseReply, LoseConn, KickCollect, RevokeFind,
     Regenerate, StartRequest, Idle, ReaperScan, relayVars, history
<1>7. CASE UNCHANGED vars
  BY <1>7 DEF vars, relayVars, history
<1> QED BY <1>1, <1>2, <1>3, <1>4, <1>5, <1>6, <1>7 DEF Next

\* The variables about browser streams.
LEMMA StreamWriters ==
    ASSUME [Next]_vars
    PROVE  \/ UNCHANGED <<agent_broadcast, sse_sessions, browser, admin, cut>>
           \/ \E a \in Agent : RegisterChannel(a) \/ EventsInstall(a)
           \/ \E c \in Conn : Cleanup(c)
           \/ \E b \in Stream : BrowserNext(b)
           \/ AdminNext \/ KickCollect \/ RevokeFind \/ Regenerate
           \/ ReaperChannel
<1>1. CASE \E a \in Agent : AgentNext(a)
  BY <1>1 DEF AgentNext, SendRegister, Dial, Heartbeat, NoticeLoss, RegisterOnline,
     RegisterReclaim, RegisterClaim, RegisterActivity, RegisterReply,
     EventsLookup, EventsAuth, relayVars, history
<1>2. CASE \E c \in Conn : ConnNext(c)
  BY <1>2 DEF ConnNext, EventsPoll, DropStream, relayVars, history
<1>3. CASE ReaperNext
  BY <1>3 DEF ReaperNext, ReaperTemporary, ReaperSession, ReaperState, relayVars,
     history
<1>4. CASE Environment
  BY <1>4 DEF Environment, LoseReply, LoseConn, Idle, ReaperScan, relayVars,
     taskVars, history
<1>5. CASE UNCHANGED vars
  BY <1>5 DEF vars, relayVars, taskVars, history
<1> QED BY <1>1, <1>2, <1>3, <1>4, <1>5 DEF Next

-----------------------------------------------------------------------------
(* A token has one session                                                 *)

\* The tokens a registration installs are tokens.
LEMMA IssuedType ==
    ASSUME AgentsInv, NEW a \in Agent, register[a] # None,
           NEW toks \in IssuedTokens(a)
    PROVE  toks \subseteq Token
<1>1. register[a].tokens \subseteq Token
  BY DEF AgentsInv, Registers
<1>2. AgentKey[a] # None => AgentKey[a] \in Token
  BY ParameterAssumption
<1>3. Mintable \subseteq Token
  BY DEF Mintable
<1> QED BY <1>1, <1>2, <1>3 DEF IssuedTokens

\* A registration takes its tokens from every other session.
LEMMA ClaimKeepsOneOwner ==
    ASSUME SessionsInv, NEW s \in Sid, NEW toks \in SUBSET Token,
           NEW key \in Keys \cup {None}, sessions' = Claimed(s, toks, key)
    PROVE  SessionsInv'
<1> DEFINE info == [tokens |-> toks, fixed_key |-> key, is_temporary |-> key = None]
<1>1. info \in SessionInfo
  BY DEF SessionInfo
<1>2. \A z \in Sid : sessions'[z] = IF z = s THEN info
                                    ELSE IF toks \cap TokensOf(z) # {} THEN None
                                    ELSE sessions[z]
  BY DEF Claimed
<1> HIDE DEF info
<1>3. sessions' \in [Sid -> SessionInfo \cup {None}]
  BY <1>1, <1>2 DEF Claimed, SessionsInv
<1>4. \A t \in Token : \A z \in Owner(t)' :
         (z = s /\ t \in toks) \/ (z # s /\ t \notin toks /\ z \in Owner(t))
  <2> SUFFICES ASSUME NEW t \in Token, NEW z \in Owner(t)'
               PROVE  (z = s /\ t \in toks)
                      \/ (z # s /\ t \notin toks /\ z \in Owner(t))
    OBVIOUS
  <2>1. z \in Sid /\ sessions'[z] # None /\ t \in sessions'[z].tokens
    BY DEF Owner
  <2>2. CASE z = s
    BY <1>2, <2>1, <2>2 DEF info
  <2>3. CASE z # s
    <3>1. sessions'[z] = sessions[z] /\ toks \cap TokensOf(z) = {}
      BY <1>2, <2>1, <2>3
    <3> QED BY <2>1, <2>3, <3>1 DEF Owner, TokensOf
  <2> QED BY <2>2, <2>3
<1>5. \A t \in Token : \A z, y \in Owner(t)' : z = y
  BY <1>4 DEF SessionsInv
<1> QED BY <1>3, <1>5 DEF SessionsInv

\* Sessions that vanish or lose tokens.
LEMMA FewerKeepsOneOwner ==
    ASSUME SessionsInv, sessions' \in [Sid -> SessionInfo \cup {None}],
           \A t \in Token : Owner(t)' \subseteq Owner(t)
    PROVE  SessionsInv'
BY DEF SessionsInv

LEMMA SessionsStep ==
    ASSUME IInv, [Next]_vars
    PROVE  SessionsInv'
<1>1. CASE UNCHANGED sessions
  BY <1>1 DEF IInv, SessionsInv, Owner
<1>2. ASSUME NEW a \in Agent, RegisterClaim(a) PROVE SessionsInv'
  <2>1. PICK s \in IF register[a].sid = None THEN RandomSid ELSE {register[a].sid},
             toks \in IssuedTokens(a) :
             sessions' = Claimed(s, toks,
                IF register[a].tokens = {} THEN AgentKey[a] ELSE None)
    BY <1>2 DEF RegisterClaim
  <2>2. register[a] # None /\ register[a] \in Registers
    BY <1>2 DEF RegisterClaim, IInv, AgentsInv
  <2>3. s \in Sid
    BY <2>1, <2>2 DEF RandomSid, Registers
  <2>4. toks \in SUBSET Token
    BY <2>2, IssuedType DEF IInv
  <2>5. (IF register[a].tokens = {} THEN AgentKey[a] ELSE None) \in Keys \cup {None}
    BY DEF Keys
  <2> QED BY <2>1, <2>3, <2>4, <2>5, ClaimKeepsOneOwner DEF IInv
<1>3. CASE KickTokens
  <2>1. sessions' \in [Sid -> SessionInfo \cup {None}]
    BY <1>3 DEF KickTokens, IInv, SessionsInv
  <2>2. \A t \in Token : Owner(t)' \subseteq Owner(t)
    BY <1>3 DEF KickTokens, IInv, SessionsInv, Owner
  <2> QED BY <2>1, <2>2, FewerKeepsOneOwner DEF IInv
<1>4. CASE ReaperSession
  <2>1. sessions' \in [Sid -> SessionInfo \cup {None}]
    BY <1>4 DEF ReaperSession, IInv, SessionsInv
  <2>2. \A t \in Token : Owner(t)' \subseteq Owner(t)
    BY <1>4 DEF ReaperSession, IInv, SessionsInv, Owner
  <2> QED BY <2>1, <2>2, FewerKeepsOneOwner DEF IInv
<1>5. CASE RevokeToken
  <2> DEFINE t == admin.token
             less(s) == [sessions[s] EXCEPT !.tokens = @ \ {t}]
  <2>1. sessions' = [s \in Sid |-> IF s \in Owner(t) THEN less(s) ELSE sessions[s]]
    BY <1>5 DEF RevokeToken
  <2>2. \A s \in Owner(t) : less(s) \in SessionInfo
                             /\ less(s).tokens \subseteq sessions[s].tokens
    BY DEF Owner, IInv, SessionsInv, SessionInfo
  <2>3. \A s \in Owner(t) : s \in Sid /\ sessions[s] # None
    BY DEF Owner
  <2> HIDE DEF t, less
  <2>4. sessions' \in [Sid -> SessionInfo \cup {None}]
    BY <2>1, <2>2 DEF IInv, SessionsInv
  <2>5. \A x \in Token : Owner(x)' \subseteq Owner(x)
    BY <2>1, <2>2, <2>3 DEF Owner
  <2> QED BY <2>4, <2>5, FewerKeepsOneOwner DEF IInv
<1>6. CASE Regenerate
  <2>1. PICK s \in Sid, t \in Mintable :
             TokensOf(s) # {} /\ sessions' = [sessions EXCEPT ![s].tokens = {t}]
    BY <1>6 DEF Regenerate
  <2>2. t \in Token /\ Owner(t) = {}
    BY DEF Mintable
  <2>3. sessions[s] \in SessionInfo
    BY <2>1 DEF TokensOf, IInv, SessionsInv
  <2>4. sessions' \in [Sid -> SessionInfo \cup {None}]
    BY <2>1, <2>2, <2>3 DEF IInv, SessionsInv, SessionInfo
  <2>5. \A x \in Token : \A z \in Owner(x)' :
           (z = s /\ x = t) \/ (x # t /\ z \in Owner(x))
    <3> SUFFICES ASSUME NEW x \in Token, NEW z \in Owner(x)'
                 PROVE  (z = s /\ x = t) \/ (x # t /\ z \in Owner(x))
      OBVIOUS
    <3>1. z \in Sid /\ sessions'[z] # None /\ x \in sessions'[z].tokens
      BY DEF Owner
    <3>2. CASE z = s
      BY <2>1, <2>3, <3>1, <3>2 DEF IInv, SessionsInv, SessionInfo
    <3>3. CASE z # s
      <4>1. sessions'[z] = sessions[z]
        BY <2>1, <3>1, <3>3 DEF IInv, SessionsInv
      <4>2. z \in Owner(x)
        BY <3>1, <4>1 DEF Owner
      <4> QED BY <2>2, <4>2
    <3> QED BY <3>2, <3>3
  <2>6. \A x \in Token : \A z, y \in Owner(x)' : z = y
    BY <2>5 DEF IInv, SessionsInv
  <2> QED BY <2>4, <2>6 DEF SessionsInv
<1> QED BY <1>1, <1>2, <1>3, <1>4, <1>5, <1>6, SessionsWriters

-----------------------------------------------------------------------------
(* Agents, and what keeps a session from counting as idle                  *)

\* A step that puts one record in the place of an agent, or of its request.
LEMMA AgentSet ==
    ASSUME AgentsInv, NEW a \in Agent, NEW rec \in Agents,
           agent' = [agent EXCEPT ![a] = rec], rec.phase = "up" => rec.conn \in Conn,
           register' \in [Agent -> Registers \cup {None}]
    PROVE  AgentsInv'
BY DEF AgentsInv

LEMMA DownType ==
    ASSUME AgentsInv, NEW a \in Agent
    PROVE  /\ Down(a) \in Agents /\ Down(a).phase # "up"
           /\ [Down(a) EXCEPT !.tokens = {}] \in Agents
           /\ [Down(a) EXCEPT !.tokens = {}].phase # "up"
BY ParameterAssumption DEF AgentsInv, Agents, Down, Phases

LEMMA AgentsStep ==
    ASSUME IInv, [Next]_vars
    PROVE  AgentsInv'
<1> SUFFICES ASSUME NEW a \in Agent, AgentNext(a) \/ LoseReply(a)
             PROVE  AgentsInv'
  BY AgentsWriters DEF IInv, AgentsInv
<1> USE DEF IInv
<1>1. register \in [Agent -> Registers \cup {None}]
  BY DEF AgentsInv
<1>2. \A rec \in Registers \cup {None} :
         [register EXCEPT ![a] = rec] \in [Agent -> Registers \cup {None}]
  BY <1>1
<1>3. agent[a] \in Agents
  BY DEF AgentsInv
<1>4. register[a] # None => register[a] \in Registers
  BY <1>1
<1>5. CASE SendRegister(a)
  <2>1. [agent[a] EXCEPT !.phase = "registering"] \in Agents
    BY <1>3 DEF Agents, Phases
  <2>2. [pc |-> "online", sid |-> DesiredSid[a], tokens |-> agent[a].tokens]
           \in Registers
    BY <1>3, ParameterAssumption DEF Agents, Registers
  <2>3. [agent[a] EXCEPT !.phase = "registering"].phase # "up"
    BY <1>3 DEF Agents
  <2> QED BY <1>2, <1>5, <2>1, <2>2, <2>3, AgentSet DEF SendRegister, SetAgent
<1>6. CASE Dial(a)
  <2>1. [agent[a] EXCEPT !.phase = "lookup"] \in Agents
        /\ [agent[a] EXCEPT !.phase = "lookup"].phase # "up"
    BY <1>3 DEF Agents, Phases
  <2> QED BY <1>1, <1>6, <2>1, AgentSet DEF Dial, SetAgent
<1>7. CASE Heartbeat(a)
  <2>1. agent[a].phase = "up" /\ agent[a].conn \in Conn
    BY <1>7 DEF Heartbeat, AgentsInv
  <2>2. register' \in [Agent -> Registers \cup {None}]
    BY <1>1, <1>7 DEF Heartbeat
  <2>3. CASE SetAgent(a, Down(a))
    BY <2>2, <2>3, DownType, AgentSet DEF SetAgent
  <2>4. CASE ~GivesUp(agent[a].missed) /\ SetAgent(a, [agent[a] EXCEPT !.missed = @ + 1])
    <3> DEFINE rec == [agent[a] EXCEPT !.missed = @ + 1]
    <3>1. rec \in Agents /\ rec.conn = agent[a].conn
      BY <1>3, <2>4, ParameterAssumption DEF Agents, GivesUp
    <3> HIDE DEF rec
    <3>2. agent' = [agent EXCEPT ![a] = rec]
      BY <2>4 DEF SetAgent, rec
    <3> QED BY <2>1, <2>2, <3>1, <3>2, AgentSet
  <2>5. CASE SetAgent(a, [agent[a] EXCEPT !.missed = 0])
    <3> DEFINE rec == [agent[a] EXCEPT !.missed = 0]
    <3>1. rec \in Agents /\ rec.conn = agent[a].conn
      BY <1>3, ParameterAssumption DEF Agents
    <3> HIDE DEF rec
    <3>2. agent' = [agent EXCEPT ![a] = rec]
      BY <2>5 DEF SetAgent, rec
    <3> QED BY <2>1, <2>2, <3>1, <3>2, AgentSet
  <2> QED BY <1>7, <2>3, <2>4, <2>5 DEF Heartbeat
<1>8. CASE NoticeLoss(a)
  BY <1>1, <1>8, DownType, AgentSet DEF NoticeLoss, SetAgent
<1>9. CASE RegisterOnline(a) \/ RegisterChannel(a) \/ RegisterActivity(a)
  <2>1. agent' = agent /\ register[a] # None
    BY <1>9 DEF RegisterOnline, RegisterChannel, RegisterActivity
  <2>2. \E pc \in {"reclaim", "claim", "activity", "reply"} :
           register' = [register EXCEPT ![a].pc = pc]
    BY <1>9 DEF RegisterOnline, RegisterChannel, RegisterActivity, SetRegister
  <2>3. register' \in [Agent -> Registers \cup {None}]
    BY <1>1, <1>4, <2>1, <2>2 DEF Registers
  <2> QED BY <2>1, <2>3 DEF AgentsInv
<1>10. CASE RegisterReclaim(a)
  <2>1. CASE SetRegister(a, "claim") /\ UNCHANGED agent
    <3>1. register' \in [Agent -> Registers \cup {None}]
      BY <1>1, <1>4, <1>10, <2>1 DEF RegisterReclaim, SetRegister, Registers
    <3> QED BY <2>1, <3>1 DEF AgentsInv
  <2>2. CASE /\ register' = [register EXCEPT ![a] = None]
             /\ SetAgent(a, [Down(a) EXCEPT !.tokens = {}])
    BY <1>2, <2>2, DownType, AgentSet DEF SetAgent
  <2> QED BY <1>10, <2>1, <2>2 DEF RegisterReclaim
<1>11. CASE RegisterClaim(a)
  <2>1. PICK s \in IF register[a].sid = None THEN RandomSid ELSE {register[a].sid},
             toks \in IssuedTokens(a) :
             register' = [register EXCEPT ![a] =
                            [pc |-> "channel", sid |-> s, tokens |-> toks]]
    BY <1>11 DEF RegisterClaim
  <2>2. s \in Sid \cup {None} /\ toks \in SUBSET Token
    BY <1>4, <1>11, IssuedType DEF RandomSid, Registers, RegisterClaim
  <2>3. [pc |-> "channel", sid |-> s, tokens |-> toks] \in Registers
    BY <2>2 DEF Registers
  <2> QED BY <1>2, <1>11, <2>1, <2>3 DEF RegisterClaim, AgentsInv
<1>12. CASE RegisterReply(a)
  <2> DEFINE rec == [phase |-> "registered", sid |-> register[a].sid,
                     tokens |-> register[a].tokens, conn |-> None, missed |-> 0]
  <2>1. rec \in Agents
    BY <1>4, <1>12, ParameterAssumption DEF RegisterReply, Registers, Agents, Phases
  <2> QED BY <1>2, <1>12, <2>1, AgentSet DEF RegisterReply, SetAgent
<1>13. CASE LoseReply(a)
  BY <1>2, <1>13, DownType, AgentSet DEF LoseReply, SetAgent
<1>14. CASE EventsLookup(a) \/ EventsAuth(a)
  <2>1. \E phase \in {"auth", "install"} :
           \/ SetAgent(a, [agent[a] EXCEPT !.phase = phase])
           \/ SetAgent(a, Down(a))
    BY <1>14 DEF EventsLookup, EventsAuth
  <2>2. register' \in [Agent -> Registers \cup {None}]
    BY <1>1, <1>14 DEF EventsLookup, EventsAuth
  <2>3. \A phase \in {"auth", "install"} :
           /\ [agent[a] EXCEPT !.phase = phase] \in Agents
           /\ [agent[a] EXCEPT !.phase = phase].phase # "up"
    BY <1>3 DEF Agents, Phases
  <2> QED BY <2>1, <2>2, <2>3, DownType, AgentSet DEF SetAgent
<1>15. CASE EventsInstall(a)
  <2>1. PICK c \in Conn : SetAgent(a, [agent[a] EXCEPT !.phase = "up", !.conn = c])
    BY <1>15 DEF EventsInstall
  <2> DEFINE rec == [agent[a] EXCEPT !.phase = "up", !.conn = c]
  <2>2. rec \in Agents /\ rec.conn \in Conn
    BY <1>3 DEF Agents, Phases
  <2> HIDE DEF rec
  <2>3. agent' = [agent EXCEPT ![a] = rec]
    BY <2>1 DEF SetAgent, rec
  <2> QED BY <1>1, <1>15, <2>2, <2>3, AgentSet DEF EventsInstall
<1> QED BY <1>5, <1>6, <1>7, <1>8, <1>9, <1>10, <1>11, <1>12, <1>13, <1>14, <1>15
        DEF AgentNext

LEMMA ActivityStep ==
    ASSUME IInv, [Next]_vars
    PROVE  ActivityInv'
<1>1. CASE UNCHANGED last_activity
  BY <1>1 DEF IInv, ActivityInv
<1>2. CASE \E a \in Agent : Heartbeat(a) \/ RegisterActivity(a)
  BY <1>2 DEF IInv, ActivityInv, Heartbeat, RegisterActivity
<1>3. CASE KickState \/ ReaperState \/ \E s \in Sid : Idle(s)
  BY <1>3 DEF IInv, ActivityInv, KickState, ReaperState, Idle
<1> QED BY <1>1, <1>2, <1>3, ActivityWriters

-----------------------------------------------------------------------------
(* The channels of a session                                               *)

\* A step that leaves the agent's channels of every map alone.
SameChannels ==
    /\ newest' = newest
    /\ \A s \in Sid :
          HasChannel(s) =>
             /\ HasChannel(s)'
             /\ agent_broadcast'[s].agent = agent_broadcast[s].agent
             /\ agent_broadcast'[s].agent_bulk = agent_broadcast[s].agent_bulk

\* The map of session s is replaced by one with other browsers.
LEMMA BrowsersReplaced ==
    ASSUME MapInv, NEW s \in Sid, HasChannel(s), NEW bs \in SUBSET Stream,
           agent_broadcast' = [agent_broadcast EXCEPT ![s].browsers = bs]
    PROVE  /\ agent_broadcast' \in [Sid -> ChannelMap \cup {None}]
           /\ \A z \in Sid : HasChannel(z)' <=> HasChannel(z)
           /\ newest' = newest => SameChannels
           /\ BrowsersOf(s)' = bs
           /\ \A z \in Sid \ {s} : BrowsersOf(z)' = BrowsersOf(z)
<1>1. agent_broadcast[s] \in ChannelMap
  BY DEF MapInv, HasChannel
<1>2. agent_broadcast'[s] \in ChannelMap
      /\ agent_broadcast'[s].browsers = bs
      /\ agent_broadcast'[s].agent = agent_broadcast[s].agent
      /\ agent_broadcast'[s].agent_bulk = agent_broadcast[s].agent_bulk
  BY <1>1 DEF MapInv, ChannelMap
<1>3. \A z \in Sid \ {s} : agent_broadcast'[z] = agent_broadcast[z]
  BY DEF MapInv
<1>4. agent_broadcast' \in [Sid -> ChannelMap \cup {None}]
  BY <1>2, <1>3 DEF MapInv
<1>5. agent_broadcast'[s] # None
  BY <1>2, ParameterAssumption
<1> QED BY <1>2, <1>3, <1>4, <1>5 DEF HasChannel, BrowsersOf, SameChannels

LEMMA SameChannelsKeepMap ==
    ASSUME MapInv, SameChannels,
           agent_broadcast' \in [Sid -> ChannelMap \cup {None}]
    PROVE  MapInv'
BY DEF MapInv, SameChannels

\* The map of session s is removed, with what history says of it.
LEMMA MapRemoved ==
    ASSUME MapInv, NEW s \in Sid,
           agent_broadcast' = [agent_broadcast EXCEPT ![s] = None],
           newest' = [newest EXCEPT ![s] = None]
    PROVE  /\ MapInv'
           /\ BrowsersOf(s)' = {}
           /\ \A z \in Sid \ {s} : BrowsersOf(z)' = BrowsersOf(z)
BY DEF MapInv, HasChannel, BrowsersOf

LEMMA BrowsersType ==
    ASSUME MapInv, NEW s \in Sid
    PROVE  BrowsersOf(s) \subseteq Stream
BY DEF MapInv, BrowsersOf, HasChannel, ChannelMap

\* A registration finds or creates the map.
LEMMA RegisterChannelMap ==
    ASSUME MapInv, NEW a \in Agent, RegisterChannel(a)
    PROVE  MapInv' /\ \A s \in Sid : BrowsersOf(s)' = BrowsersOf(s)
<1> DEFINE s == register[a].sid
<1>1. CASE HasChannel(s)
  <2>1. UNCHANGED <<agent_broadcast, newest>>
    BY <1>1 DEF RegisterChannel, history
  <2> QED BY <2>1 DEF MapInv, HasChannel, BrowsersOf
<1>2. CASE ~HasChannel(s)
  <2>1. agent_broadcast' = [agent_broadcast EXCEPT ![s] = NoChannel] /\ newest' = newest
    BY <1>2 DEF RegisterChannel, history
  <2>2. NoChannel \in ChannelMap /\ NoChannel.browsers = {}
    BY DEF NoChannel, ChannelMap
  <2> HIDE DEF s
  <2>3. agent_broadcast' \in [Sid -> ChannelMap \cup {None}]
    BY <2>1, <2>2 DEF MapInv
  <2>4. SameChannels
    BY <1>2, <2>1 DEF MapInv, SameChannels, HasChannel
  <2>5. \A z \in Sid : BrowsersOf(z)' = BrowsersOf(z)
    BY <1>2, <2>1, <2>2 DEF MapInv, BrowsersOf, HasChannel
  <2> QED BY <2>3, <2>4, <2>5, SameChannelsKeepMap
<1> QED BY <1>1, <1>2

\* A downlink takes both channels of its session.
LEMMA EventsInstallMap ==
    ASSUME MapInv, NEW a \in Agent, EventsInstall(a)
    PROVE  MapInv' /\ \A s \in Sid : BrowsersOf(s)' = BrowsersOf(s)
<1> DEFINE s == agent[a].sid
<1>1. CASE UNCHANGED <<agent_broadcast, newest>>
  BY <1>1 DEF MapInv, HasChannel, BrowsersOf
<1>2. ASSUME HasChannel(s), NEW c \in Conn,
             agent_broadcast' = [agent_broadcast EXCEPT ![s].agent = c,
                                                        ![s].agent_bulk = c],
             newest' = [newest EXCEPT ![s] = c]
      PROVE  MapInv' /\ \A z \in Sid : BrowsersOf(z)' = BrowsersOf(z)
  <2> HIDE DEF s
  <2>1. \A z \in Sid \ {s} : agent_broadcast'[z] = agent_broadcast[z]
                             /\ newest'[z] = newest[z]
    BY <1>2 DEF MapInv
  <2>2. CASE s \in Sid
    <3>1. agent_broadcast[s] \in ChannelMap
      BY <1>2, <2>2 DEF MapInv, HasChannel
    <3>2. agent_broadcast'[s] =
             [[agent_broadcast[s] EXCEPT !.agent = c] EXCEPT !.agent_bulk = c]
      BY <1>2, <2>2 DEF MapInv
    <3>3. /\ agent_broadcast'[s] \in ChannelMap
          /\ agent_broadcast'[s].agent = c /\ agent_broadcast'[s].agent_bulk = c
          /\ agent_broadcast'[s].browsers = agent_broadcast[s].browsers
      BY <3>1, <3>2 DEF ChannelMap
    <3>4. agent_broadcast'[s] # None
      BY <3>3, ParameterAssumption
    <3>5. agent_broadcast' \in [Sid -> ChannelMap \cup {None}]
          /\ newest' \in [Sid -> Conn \cup {None}] /\ newest'[s] = c
      BY <1>2, <2>1, <2>2, <3>3 DEF MapInv
    <3> QED BY <1>2, <2>1, <2>2, <3>3, <3>4, <3>5 DEF MapInv, HasChannel, BrowsersOf
  <2>3. CASE s \notin Sid
    <3>1. UNCHANGED <<agent_broadcast, newest>>
      BY <1>2, <2>3 DEF MapInv
    <3> QED BY <3>1 DEF MapInv, HasChannel, BrowsersOf
  <2> QED BY <2>2, <2>3
<1> QED BY <1>1, <1>2 DEF EventsInstall

\* The cleanup after a downlink clears that downlink's channels, nobody else's.
LEMMA CleanupMap ==
    ASSUME MapInv, NEW c \in Conn, Cleanup(c)
    PROVE  MapInv' /\ \A s \in Sid : BrowsersOf(s)' = BrowsersOf(s)
<1> DEFINE s == conn[c].sid
<1>1. newest' \in [Sid -> Conn \cup {None}]
      /\ \A z \in Sid : newest'[z] # None => newest'[z] = newest[z] /\ newest[z] # c
  BY DEF Cleanup, MapInv
<1>2. CASE UNCHANGED agent_broadcast
  BY <1>1, <1>2 DEF MapInv, HasChannel, BrowsersOf
<1>3. CASE HasChannel(s) /\ agent_broadcast' =
                [agent_broadcast EXCEPT ![s] = ClearedChannel(agent_broadcast[s], c)]
  <2> DEFINE cleared == ClearedChannel(agent_broadcast[s], c)
  <2>1. CASE s \in Sid
    <3>1. agent_broadcast[s] \in ChannelMap
      BY <1>3, <2>1 DEF MapInv, HasChannel
    <3>2. cleared = [[agent_broadcast[s] EXCEPT
                        !.agent = IF @ = c THEN None ELSE @] EXCEPT
                        !.agent_bulk = IF @ = c THEN None ELSE @]
      BY DEF ClearedChannel
    <3>3. /\ cleared \in ChannelMap
          /\ agent_broadcast[s].agent # c => cleared.agent = agent_broadcast[s].agent
          /\ agent_broadcast[s].agent_bulk # c
                => cleared.agent_bulk = agent_broadcast[s].agent_bulk
          /\ cleared.browsers = agent_broadcast[s].browsers
      BY <3>1, <3>2 DEF ChannelMap
    <3>4. cleared # None
      BY <3>3, ParameterAssumption
    <3> HIDE DEF cleared
    <3>5. agent_broadcast' = [agent_broadcast EXCEPT ![s] = cleared]
      BY <1>3 DEF cleared
    <3>6. agent_broadcast' \in [Sid -> ChannelMap \cup {None}]
      BY <2>1, <3>3, <3>5 DEF MapInv
    <3>7. \A z \in Sid : agent_broadcast'[z] =
                           IF z = s THEN cleared ELSE agent_broadcast[z]
      BY <3>5 DEF MapInv
    <3>8. \A z \in Sid : newest'[z] # None =>
            /\ HasChannel(z)' /\ agent_broadcast'[z].agent = newest'[z]
            /\ agent_broadcast'[z].agent_bulk = newest'[z]
      BY <1>1, <3>3, <3>4, <3>7 DEF MapInv, HasChannel
    <3>9. \A z \in Sid : BrowsersOf(z)' = BrowsersOf(z)
      BY <1>3, <3>3, <3>4, <3>7 DEF BrowsersOf, HasChannel
    <3> QED BY <1>1, <3>6, <3>8, <3>9 DEF MapInv
  <2>2. CASE s \notin Sid
    <3>1. UNCHANGED agent_broadcast
      BY <1>3, <2>2 DEF MapInv
    <3> QED BY <1>2, <3>1
  <2> QED BY <2>1, <2>2
<1> QED BY <1>2, <1>3 DEF Cleanup

\* Browsers come and go; the agent's channels stay.
LEMMA BrowserMap ==
    ASSUME MapInv, StreamInv, NEW b \in Stream, BrowserEnter(b) \/ BrowserLeave(b)
    PROVE  /\ MapInv'
           /\ \A s \in Sid \ {browser[b].sid} : BrowsersOf(s)' = BrowsersOf(s)
           /\ \A s \in Sid : BrowserEnter(b) => BrowsersOf(s)' \subseteq BrowsersOf(s) \cup {b}
           /\ \A s \in Sid : BrowserLeave(b) => BrowsersOf(s)' = BrowsersOf(s) \ {b}
           /\ \A s \in Sid : BrowserEnter(b) => BrowsersOf(s) \subseteq BrowsersOf(s)'
<1> PICK s : s = browser[b].sid
  OBVIOUS
<1>1. newest' = newest
  BY DEF BrowserEnter, BrowserLeave, history
<1>2. CASE ~HasChannel(s) \/ s \notin Sid
  <2>1. agent_broadcast' = agent_broadcast
    <3>1. CASE ~HasChannel(s)
      BY <3>1 DEF BrowserEnter, BrowserLeave
    <3>2. CASE s \notin Sid
      <4>1. \/ agent_broadcast' = agent_broadcast
            \/ \E bs : agent_broadcast' = [agent_broadcast EXCEPT ![s].browsers = bs]
        BY DEF BrowserEnter, BrowserLeave
      <4>2. ASSUME NEW bs, agent_broadcast' = [agent_broadcast EXCEPT ![s].browsers = bs]
            PROVE  agent_broadcast' = agent_broadcast
        BY <3>2, <4>2 DEF MapInv
      <4> QED BY <4>1, <4>2
    <3> QED BY <1>2, <3>1, <3>2
  <2>2. \A z \in Sid : BrowsersOf(z)' = BrowsersOf(z)
    BY <2>1 DEF BrowsersOf, HasChannel
  <2>3. \A z \in Sid : b \in BrowsersOf(z) => z = s
    BY DEF StreamInv
  <2>4. \A z \in Sid : b \notin BrowsersOf(z)
    <3>1. s \in Sid => BrowsersOf(s) = {}
      BY <1>2 DEF BrowsersOf
    <3> QED BY <2>3, <3>1
  <2> QED BY <1>1, <2>1, <2>2, <2>4 DEF MapInv, HasChannel
<1>3. CASE HasChannel(s) /\ s \in Sid
  <2> DEFINE bs == IF BrowserEnter(b) THEN BrowsersOf(s) \cup {b} ELSE BrowsersOf(s) \ {b}
  <2>1. BrowsersOf(s) = agent_broadcast[s].browsers
    BY <1>3 DEF BrowsersOf
  <2>2. BrowserEnter(b) => ~BrowserLeave(b)
    BY DEF BrowserEnter, BrowserLeave
  <2>3. agent_broadcast' = [agent_broadcast EXCEPT ![s].browsers = bs]
    <3>1. CASE BrowserEnter(b)
      BY <1>3, <2>1, <3>1 DEF BrowserEnter
    <3>2. CASE ~BrowserEnter(b)
      <4>1. BrowserLeave(b)
        BY <3>2
      <4> QED BY <1>3, <2>1, <3>2, <4>1 DEF BrowserLeave
    <3> QED BY <3>1, <3>2
  <2>4. bs \in SUBSET Stream
    BY <1>3, BrowsersType
  <2>5. BrowserEnter(b) => bs = BrowsersOf(s) \cup {b}
    OBVIOUS
  <2>6. BrowserLeave(b) => bs = BrowsersOf(s) \ {b}
    BY <2>2
  <2> HIDE DEF bs
  <2>7. /\ agent_broadcast' \in [Sid -> ChannelMap \cup {None}]
        /\ SameChannels /\ BrowsersOf(s)' = bs
        /\ \A z \in Sid \ {s} : BrowsersOf(z)' = BrowsersOf(z)
    BY <1>1, <1>3, <2>3, <2>4, BrowsersReplaced
  <2>8. \A z \in Sid \ {s} : b \notin BrowsersOf(z)
    BY DEF StreamInv
  <2>9. MapInv'
    BY <2>7, SameChannelsKeepMap
  <2> QED BY <2>5, <2>6, <2>7, <2>8, <2>9
<1> QED BY <1>2, <1>3

\* A request takes the streams it has matched out of the map.
LEMMA DisconnectEntriesMap ==
    ASSUME MapInv, AdminInv, DisconnectEntries
    PROVE  /\ MapInv'
           /\ \A s \in Sid : BrowsersOf(s)' \subseteq BrowsersOf(s)
<1> PICK s : s = admin.sid
  OBVIOUS
<1>1. s \in Sid /\ newest' = newest
  BY DEF DisconnectEntries, AdminAt, AdminInv, Requests, history
<1>2. CASE HasChannel(s)
  <2>1. PICK matched : agent_broadcast' =
                          [agent_broadcast EXCEPT ![s].browsers = @ \ matched]
    BY <1>2 DEF DisconnectEntries
  <2>2. agent_broadcast' =
           [agent_broadcast EXCEPT ![s].browsers = BrowsersOf(s) \ matched]
    BY <1>2, <2>1 DEF BrowsersOf
  <2>3. BrowsersOf(s) \ matched \in SUBSET Stream
    BY <1>1, BrowsersType
  <2>4. /\ agent_broadcast' \in [Sid -> ChannelMap \cup {None}]
        /\ SameChannels /\ BrowsersOf(s)' = BrowsersOf(s) \ matched
        /\ \A z \in Sid \ {s} : BrowsersOf(z)' = BrowsersOf(z)
    BY <1>1, <1>2, <2>2, <2>3, BrowsersReplaced
  <2>5. MapInv'
    BY <2>4, SameChannelsKeepMap
  <2> QED BY <2>4, <2>5
<1>3. CASE ~HasChannel(s)
  <2>1. agent_broadcast' = agent_broadcast
    BY <1>3 DEF DisconnectEntries
  <2> QED BY <1>1, <2>1 DEF MapInv, HasChannel, BrowsersOf
<1> QED BY <1>2, <1>3

LEMMA MapStep ==
    ASSUME IInv, [Next]_vars
    PROVE  MapInv'
<1> USE DEF IInv
<1>1. CASE UNCHANGED <<agent_broadcast, newest>>
  BY <1>1 DEF MapInv, HasChannel
<1>2. CASE \E a \in Agent : RegisterChannel(a) \/ EventsInstall(a)
  BY <1>2, RegisterChannelMap, EventsInstallMap
<1>3. CASE \E c \in Conn : Cleanup(c)
  BY <1>3, CleanupMap
<1>4. CASE \E b \in Stream : BrowserEnter(b) \/ BrowserLeave(b)
  BY <1>4, BrowserMap
<1>5. CASE KickChannel
  <2>1. admin.sid \in Sid
    BY <1>5 DEF KickChannel, AdminAt, AdminInv, Requests
  <2> QED BY <1>5, <2>1, MapRemoved DEF KickChannel
<1>6. CASE DisconnectEntries
  BY <1>6, DisconnectEntriesMap
<1>7. CASE ReaperChannel
  <2>1. reaper.sid \in Sid
    BY <1>7 DEF ReaperChannel, ReaperAt, ReaperInv
  <2> QED BY <1>7, <2>1, MapRemoved DEF ReaperChannel
<1> QED BY <1>1, <1>2, <1>3, <1>4, <1>5, <1>6, <1>7, MapWriters

-----------------------------------------------------------------------------
(* The requests in progress                                                *)

\* What is left of a request, and what the step at hand says of it.
LEMMA TodoIs ==
    ASSUME NEW todo \in Todos
    PROVE  /\ todo \in Seq(Steps)
           /\ Len(todo) # 1 => Tail(todo) \in Todos
           /\ Head(todo) = "revoke" => todo = <<"revoke", "entries", "streams">>
           /\ Head(todo) = "entries" => todo = <<"entries", "streams">>
           /\ Head(todo) = "streams" =>
                 todo \in {<<"streams", "tokens", "state">>, <<"streams">>}
<1>1. CASE todo = <<"channel", "streams", "tokens", "state">>
  BY <1>1 DEF Todos, Steps
<1>2. CASE todo = <<"streams", "tokens", "state">>
  BY <1>2 DEF Todos, Steps
<1>3. CASE todo = <<"tokens", "state">>
  BY <1>3 DEF Todos, Steps
<1>4. CASE todo = <<"state">>
  BY <1>4 DEF Todos, Steps
<1>5. CASE todo = <<"revoke", "entries", "streams">>
  BY <1>5 DEF Todos, Steps
<1>6. CASE todo = <<"entries", "streams">>
  BY <1>6 DEF Todos, Steps
<1>7. CASE todo = <<"streams">>
  BY <1>7 DEF Todos, Steps
<1> QED BY <1>1, <1>2, <1>3, <1>4, <1>5, <1>6, <1>7 DEF Todos

\* What a revocation has to do, written out.
LEMMA RevokeTodo == <<"revoke">> \o DisconnectSteps = <<"revoke", "entries", "streams">>
<1> DEFINE s == <<"revoke">>
           t == DisconnectSteps
           u == <<"revoke", "entries", "streams">>
<1>1. s \in Seq(Steps) /\ t \in Seq(Steps) /\ u \in Seq(Steps)
  BY DEF DisconnectSteps, Steps
<1>2. Len(s) = 1 /\ Len(t) = 2 /\ Len(u) = 3
  BY DEF DisconnectSteps
<1>3. s[1] = u[1] /\ t[1] = u[2] /\ t[2] = u[3]
  BY DEF DisconnectSteps
<1> HIDE DEF s, t, u
<1>4. /\ s \o t \in Seq(Steps)
      /\ Len(s \o t) = Len(s) + Len(t)
      /\ \A i \in 1 .. Len(s) + Len(t) :
            (s \o t)[i] = IF i <= Len(s) THEN s[i] ELSE t[i - Len(s)]
  BY <1>1, ConcatProperties, Zenon
<1>5. \A i \in 1..3 : i = 1 \/ i = 2 \/ i = 3
  OBVIOUS
<1>6. Len(s \o t) = Len(u) /\ \A i \in 1..Len(s \o t) : (s \o t)[i] = u[i]
  BY <1>2, <1>3, <1>4, <1>5
<1>7. s \o t = u
  BY <1>1, <1>4, <1>6, SeqEqual
<1> QED BY <1>7 DEF s, t, u

\* The step at hand is done.
LEMMA AdminDoneIs ==
    ASSUME AdminInv, admin # None, NEW ids, AdminDone(ids),
           ids \subseteq Stream \cup UserIds(Stream)
    PROVE  AdminInv'
<1>1. admin \in Requests /\ admin.todo \in Todos
  BY DEF AdminInv
<1>2. CASE Len(admin.todo) = 1
  BY <1>2 DEF AdminDone, AdminInv
<1>3. CASE Len(admin.todo) # 1
  <2>1. Tail(admin.todo) \in Todos /\ Tail(admin.todo) \in Seq(Steps)
    BY <1>1, <1>3, TodoIs
  <2>2. admin' = [admin EXCEPT !.todo = Tail(admin.todo), !.ids = ids]
    BY <1>3 DEF AdminDone
  <2> QED BY <1>1, <2>1, <2>2 DEF Requests, AdminInv
<1> QED BY <1>2, <1>3

LEMMA StartRequestIs ==
    ASSUME NEW op, NEW s \in Sid, NEW t \in Token \cup {None}, NEW ids, NEW todo \in Todos,
           StartRequest(op, s, t, ids, todo), ids \subseteq Stream \cup UserIds(Stream)
    PROVE  AdminInv'
<1>1. todo \in Seq(Steps)
  BY TodoIs
<1>2. admin' = [op |-> op, sid |-> s, token |-> t, ids |-> ids, todo |-> todo]
      /\ op \in Operations
  BY DEF StartRequest
<1>3. admin' \in Requests
  BY <1>1, <1>2 DEF Requests
<1> QED BY <1>2, <1>3 DEF AdminInv

LEMMA AdminStep ==
    ASSUME IInv, [Next]_vars
    PROVE  AdminInv'
<1> USE DEF IInv
<1>1. CASE UNCHANGED admin
  BY <1>1 DEF AdminInv
<1>2. CASE \/ \E a \in Agent : RegisterChannel(a) \/ EventsInstall(a)
           \/ \E c \in Conn : Cleanup(c)
           \/ \E b \in Stream : BrowserNext(b)
           \/ ReaperChannel
  <2>1. UNCHANGED admin
    BY <1>2 DEF RegisterChannel, EventsInstall, Cleanup, BrowserNext,
       BrowserAuthenticate, BrowserAlive, BrowserKeep, BrowserEnter, BrowserEnd,
       BrowserLeave, ReaperChannel
  <2> QED BY <1>1, <2>1
<1>3. CASE AdminNext
  <2>1. CASE KickChannel \/ KickTokens
    <3>1. admin # None /\ AdminDone(admin.ids)
      BY <2>1 DEF KickChannel, KickTokens, AdminAt
    <3>2. admin.ids \subseteq Stream \cup UserIds(Stream)
      BY <3>1 DEF AdminInv, Requests
    <3> QED BY <3>1, <3>2, AdminDoneIs
  <2>2. CASE RemoveStreams \/ KickState
    BY <2>2, AdminDoneIs DEF RemoveStreams, KickState, AdminAt
  <2>3. CASE RevokeToken
    <3>1. admin # None /\ (AdminDone({}) \/ admin' = None)
      BY <2>3 DEF RevokeToken, AdminAt
    <3>2. CASE admin' = None
      BY <3>2 DEF AdminInv
    <3> QED BY <3>1, <3>2, AdminDoneIs
  <2>4. CASE DisconnectEntries
    <3>1. admin # None
          /\ \E matched \in SUBSET BrowsersOf(admin.sid) : AdminDone(matched)
      BY <2>4 DEF DisconnectEntries, AdminAt, StreamsOn
    <3>2. BrowsersOf(admin.sid) \subseteq Stream
      BY <3>1, BrowsersType DEF AdminInv, Requests
    <3> QED BY <3>1, <3>2, AdminDoneIs
  <2> QED BY <1>3, <2>1, <2>2, <2>3, <2>4 DEF AdminNext
<1>4. CASE KickCollect
  <2>1. PICK s \in Sid :
           StartRequest("kick", s, None, UserIds(BrowsersOf(s)), KickSteps)
    BY <1>4 DEF KickCollect
  <2>2. UserIds(BrowsersOf(s)) \subseteq UserIds(Stream)
    BY BrowsersType DEF UserIds
  <2>3. KickSteps \in Todos
    BY DEF KickSteps, Todos
  <2> QED BY <2>1, <2>2, <2>3, StartRequestIs
<1>5. CASE RevokeFind
  <2>1. PICK t \in Token, s \in Sid :
           StartRequest("revoke", s, t, {}, <<"revoke">> \o DisconnectSteps)
    BY <1>5 DEF RevokeFind, Owner
  <2>2. <<"revoke">> \o DisconnectSteps \in Todos
    BY RevokeTodo DEF Todos
  <2> QED BY <2>1, <2>2, StartRequestIs
<1>6. CASE Regenerate
  <2>1. PICK s \in Sid : admin' = [op |-> "regenerate", sid |-> s, token |-> None,
                                   ids |-> {}, todo |-> DisconnectSteps]
                         /\ "regenerate" \in Operations
    BY <1>6 DEF Regenerate
  <2>2. DisconnectSteps \in Todos /\ DisconnectSteps \in Seq(Steps)
    BY TodoIs DEF DisconnectSteps, Todos
  <2>3. admin' \in Requests
    BY <2>1, <2>2 DEF Requests
  <2> QED BY <2>1, <2>2, <2>3 DEF AdminInv
<1> QED BY <1>1, <1>2, <1>3, <1>4, <1>5, <1>6, StreamWriters

LEMMA ReaperStep ==
    ASSUME IInv, [Next]_vars
    PROVE  ReaperInv'
<1> USE DEF IInv, ReaperInv
<1>1. CASE UNCHANGED reaper
  BY <1>1
<1>2. CASE ReaperScan
  BY <1>2 DEF ReaperScan
<1>3. CASE ReaperNext
  BY <1>3 DEF ReaperNext, ReaperTemporary, ReaperSession, ReaperChannel, ReaperState,
     ReaperAt
<1> QED BY <1>1, <1>2, <1>3, ReaperWriters

-----------------------------------------------------------------------------
(* Browser streams                                                         *)

\* Steps that only take streams out of a map, and cut none but those in one.
LEMMA FewerStreams ==
    ASSUME StreamInv, MapInv, browser' = browser, sse_sessions' \subseteq sse_sessions,
           \A s \in Sid : BrowsersOf(s)' \subseteq BrowsersOf(s),
           \A b \in cut' : b \in cut \/ \E s \in Sid : b \in BrowsersOf(s)
    PROVE  StreamInv'
<1>1. \A s \in Sid : \A b \in BrowsersOf(s)' : Entered(b)' /\ browser'[b].sid = s
  BY DEF StreamInv, Entered
<1>2. \A b \in cut' : b \in Stream /\ Entered(b)'
  BY BrowsersType DEF StreamInv, Entered
<1> QED BY <1>1, <1>2 DEF StreamInv

\* A step of the browser's own handler.
LEMMA BrowserStream ==
    ASSUME MapInv, StreamInv, NEW b \in Stream, BrowserNext(b)
    PROVE  StreamInv'
<1> DEFINE rec == browser'[b]
<1>1. /\ browser' \in [Stream -> Browsers]
      /\ \A x \in Stream \ {b} : browser'[x] = browser[x]
  <2>1. browser[b] \in Browsers /\ NoBrowser \in Browsers
    BY DEF StreamInv, NoBrowser, Browsers
  <2>2. \A t \in Token : \A s \in Owner(t) :
           [pc |-> "alive", token |-> t, sid |-> s] \in Browsers
    BY DEF Owner, Browsers
  <2>3. \A pc \in {"keep", "enter", "open", "leave"} :
           [browser[b] EXCEPT !.pc = pc] \in Browsers
    BY <2>1 DEF Browsers
  <2>4. \E r \in Browsers : browser' = [browser EXCEPT ![b] = r]
    <3>1. CASE BrowserAuthenticate(b)
      BY <2>2, <3>1 DEF BrowserAuthenticate, SetBrowser
    <3>2. CASE BrowserAlive(b)
      BY <2>1, <2>3, <3>2 DEF BrowserAlive, SetBrowser
    <3>3. CASE BrowserKeep(b) \/ BrowserEnter(b) \/ BrowserEnd(b)
      BY <2>3, <3>3 DEF BrowserKeep, BrowserEnter, BrowserEnd, SetBrowser
    <3>4. CASE BrowserLeave(b)
      BY <2>1, <3>4 DEF BrowserLeave, SetBrowser
    <3> QED BY <3>1, <3>2, <3>3, <3>4 DEF BrowserNext
  <2> QED BY <2>4 DEF StreamInv
<1>2. sse_sessions' \subseteq Stream /\ cut' \subseteq cut
  BY DEF BrowserNext, BrowserAuthenticate, BrowserAlive, BrowserKeep, BrowserEnter,
     BrowserEnd, BrowserLeave, StreamInv, relayVars, history
<1>3. CASE BrowserAuthenticate(b) \/ BrowserAlive(b) \/ BrowserKeep(b)
  <2>1. ~Entered(b) /\ agent_broadcast' = agent_broadcast
    BY <1>3 DEF BrowserAuthenticate, BrowserAlive, BrowserKeep, Entered, relayVars
  <2>2. b \notin cut /\ \A s \in Sid : b \notin BrowsersOf(s)
    BY <2>1 DEF StreamInv
  <2>3. \A s \in Sid : BrowsersOf(s)' = BrowsersOf(s) /\ BrowsersOf(s) \subseteq Stream
    BY <2>1, BrowsersType DEF BrowsersOf, HasChannel
  <2>4. \A s \in Sid : \A x \in BrowsersOf(s)' : Entered(x)' /\ browser'[x].sid = s
    BY <1>1, <2>2, <2>3 DEF StreamInv, Entered
  <2>5. \A x \in cut' : x \in Stream /\ Entered(x)'
    BY <1>1, <1>2, <2>2 DEF StreamInv, Entered
  <2> QED BY <1>1, <1>2, <2>4, <2>5 DEF StreamInv
<1>4. CASE BrowserEnd(b) \/ BrowserEnter(b)
  <2>1. \E pc \in {"open", "leave"} : browser' = [browser EXCEPT ![b].pc = pc]
    BY <1>4 DEF BrowserEnd, BrowserEnter, SetBrowser, StreamInv
  <2>2. browser[b] \in Browsers
    BY DEF StreamInv
  <2>3. Entered(b)' /\ browser'[b].sid = browser[b].sid
    BY <2>1, <2>2 DEF StreamInv, Entered, Browsers
  <2>4. \A s \in Sid : BrowsersOf(s) \subseteq Stream
    BY BrowsersType
  <2>5. \A s \in Sid : BrowsersOf(s)' \subseteq BrowsersOf(s)
                       \/ (s = browser[b].sid
                           /\ BrowsersOf(s)' \subseteq BrowsersOf(s) \cup {b})
    <3>1. CASE BrowserEnd(b)
      BY <3>1 DEF BrowserEnd, BrowsersOf, HasChannel
    <3>2. CASE BrowserEnter(b)
      BY <3>2, BrowserMap
    <3> QED BY <1>4, <3>1, <3>2
  <2>6. \A s \in Sid : \A x \in BrowsersOf(s)' : Entered(x)' /\ browser'[x].sid = s
    BY <1>1, <2>3, <2>4, <2>5 DEF StreamInv, Entered
  <2>7. \A x \in cut' : x \in Stream /\ Entered(x)'
    BY <1>1, <1>2, <2>3 DEF StreamInv, Entered
  <2> QED BY <1>1, <1>2, <2>6, <2>7 DEF StreamInv
<1>5. CASE BrowserLeave(b)
  <2>1. \A s \in Sid : BrowsersOf(s)' = BrowsersOf(s) \ {b} /\ BrowsersOf(s) \subseteq Stream
    BY <1>5, BrowserMap, BrowsersType
  <2>2. \A s \in Sid : \A x \in BrowsersOf(s)' : Entered(x)' /\ browser'[x].sid = s
    BY <1>1, <2>1 DEF StreamInv, Entered
  <2>3. cut' = cut \ {b}
    BY <1>5 DEF BrowserLeave
  <2>4. \A x \in cut' : x \in Stream /\ Entered(x)'
    BY <1>1, <2>3 DEF StreamInv, Entered
  <2> QED BY <1>1, <1>2, <2>2, <2>4 DEF StreamInv
<1> QED BY <1>3, <1>4, <1>5 DEF BrowserNext

LEMMA StreamStep ==
    ASSUME IInv, [Next]_vars
    PROVE  StreamInv'
<1> USE DEF IInv
<1>1. CASE UNCHANGED <<agent_broadcast, sse_sessions, browser, admin, cut>>
  BY <1>1, FewerStreams DEF BrowsersOf, HasChannel
<1>2. CASE \/ \E a \in Agent : RegisterChannel(a) \/ EventsInstall(a)
           \/ \E c \in Conn : Cleanup(c)
  <2>1. UNCHANGED <<sse_sessions, browser, cut>>
    BY <1>2 DEF RegisterChannel, EventsInstall, Cleanup, history
  <2>2. \A s \in Sid : BrowsersOf(s)' = BrowsersOf(s)
    BY <1>2, RegisterChannelMap, EventsInstallMap, CleanupMap
  <2> QED BY <2>1, <2>2, FewerStreams
<1>3. CASE \E b \in Stream : BrowserNext(b)
  BY <1>3, BrowserStream
<1>4. CASE KickChannel
  <2>1. admin.sid \in Sid
    BY <1>4 DEF KickChannel, AdminAt, AdminInv, Requests
  <2>2. \A s \in Sid : BrowsersOf(s)' \subseteq BrowsersOf(s)
    BY <1>4, <2>1 DEF KickChannel, MapInv, BrowsersOf, HasChannel
  <2> QED BY <1>4, <2>2, FewerStreams DEF KickChannel
<1>5. CASE RemoveStreams \/ KickTokens \/ KickState \/ KickCollect \/ RevokeFind
  <2>1. UNCHANGED <<agent_broadcast, browser, cut>> /\ sse_sessions' \subseteq sse_sessions
    BY <1>5 DEF RemoveStreams, KickTokens, KickState, KickCollect, RevokeFind,
       StartRequest, relayVars, history
  <2>2. \A s \in Sid : BrowsersOf(s)' = BrowsersOf(s)
    BY <2>1 DEF BrowsersOf, HasChannel
  <2> QED BY <2>1, <2>2, FewerStreams
<1>6. CASE RevokeToken
  <2>1. UNCHANGED <<agent_broadcast, browser, sse_sessions>>
    BY <1>6 DEF RevokeToken
  <2>2. \A b \in cut' : b \in cut \/ (admin.sid \in Sid /\ b \in BrowsersOf(admin.sid))
    BY <1>6 DEF RevokeToken, StreamsOn, Owner
  <2>3. \A s \in Sid : BrowsersOf(s)' = BrowsersOf(s)
    BY <2>1 DEF BrowsersOf, HasChannel
  <2> QED BY <2>1, <2>2, <2>3, FewerStreams
<1>7. CASE Regenerate
  <2>1. UNCHANGED <<agent_broadcast, browser, sse_sessions>>
        /\ \E s \in Sid : cut' = cut \cup BrowsersOf(s)
    BY <1>7 DEF Regenerate
  <2>2. \A s \in Sid : BrowsersOf(s)' = BrowsersOf(s)
    BY <2>1 DEF BrowsersOf, HasChannel
  <2> QED BY <2>1, <2>2, FewerStreams
<1>8. CASE DisconnectEntries
  <2>1. UNCHANGED <<browser, sse_sessions, cut>>
    BY <1>8 DEF DisconnectEntries, history
  <2> QED BY <1>8, <2>1, DisconnectEntriesMap, FewerStreams
<1>9. CASE ReaperChannel
  <2>1. UNCHANGED <<browser, sse_sessions>> /\ cut' \subseteq cut
    BY <1>9 DEF ReaperChannel
  <2>2. \A s \in Sid : BrowsersOf(s)' \subseteq BrowsersOf(s)
    BY <1>9 DEF ReaperChannel, MapInv, BrowsersOf, HasChannel
  <2> QED BY <2>1, <2>2, FewerStreams
<1> QED BY <1>1, <1>2, <1>3, <1>4, <1>5, <1>6, <1>7, <1>8, <1>9, StreamWriters
        DEF AdminNext

-----------------------------------------------------------------------------
(* Streams that a credential change has to close                           *)

\* Nobody touches the request, and nobody but the stream itself takes it out of
\* the map.
LEMMA CutKept ==
    ASSUME CutInv, AdminInv, admin' = admin,
           \A b \in cut' \cap sse_sessions' :
              /\ b \in cut \cap sse_sessions /\ browser'[b] = browser[b]
              /\ b \in BrowsersOf(admin.sid) => b \in BrowsersOf(admin.sid)'
    PROVE  CutInv'
BY DEF CutInv, Closing

\* Nothing is left to close, and nothing is cut.
LEMMA NothingCut ==
    ASSUME cut \cap sse_sessions = {}, cut' \subseteq cut,
           sse_sessions' \subseteq sse_sessions
    PROVE  CutInv'
BY DEF CutInv

LEMMA BrowserCut ==
    ASSUME IInv, NEW b \in Stream, BrowserNext(b)
    PROVE  CutInv'
<1> USE DEF IInv
<1>1. admin' = admin
  BY DEF BrowserNext, BrowserAuthenticate, BrowserAlive, BrowserKeep, BrowserEnter,
     BrowserEnd, BrowserLeave
<1>2. admin # None => admin.sid \in Sid
  BY DEF AdminInv, Requests
<1>3. \A x \in Stream \ {b} : browser'[x] = browser[x]
  BY DEF BrowserNext, BrowserAuthenticate, BrowserAlive, BrowserKeep, BrowserEnter,
     BrowserEnd, BrowserLeave, SetBrowser, StreamInv
<1>4. \A x \in cut' \cap sse_sessions' : x \in cut \cap sse_sessions /\ x # b
  <2>1. CASE BrowserAuthenticate(b) \/ BrowserAlive(b) \/ BrowserKeep(b) \/ BrowserEnter(b)
    <3>1. ~Entered(b) /\ cut' = cut /\ sse_sessions' \subseteq sse_sessions \cup {b}
      BY <2>1 DEF BrowserAuthenticate, BrowserAlive, BrowserKeep, BrowserEnter,
         Entered, relayVars, history
    <3> QED BY <3>1 DEF StreamInv
  <2>2. CASE BrowserEnd(b)
    BY <2>2 DEF BrowserEnd, history
  <2>3. CASE BrowserLeave(b)
    BY <2>3 DEF BrowserLeave
  <2> QED BY <2>1, <2>2, <2>3 DEF BrowserNext
<1>5. \A s \in Sid : \A x \in BrowsersOf(s) : x = b \/ x \in BrowsersOf(s)'
  <2>1. CASE BrowserEnter(b) \/ BrowserLeave(b)
    BY <2>1, BrowserMap
  <2>2. CASE ~(BrowserEnter(b) \/ BrowserLeave(b))
    <3>1. agent_broadcast' = agent_broadcast
      BY <2>2 DEF BrowserNext, BrowserAuthenticate, BrowserAlive, BrowserKeep,
         BrowserEnd, relayVars
    <3> QED BY <3>1 DEF BrowsersOf, HasChannel
  <2> QED BY <2>1, <2>2
<1>6. \A x \in cut : x \in Stream
  BY DEF StreamInv
<1>7. \A x \in cut' \cap sse_sessions' : admin # None /\ Closing(x)
  BY <1>4 DEF CutInv
<1>8. \A x \in cut' \cap sse_sessions' : Closing(x)'
  BY <1>1, <1>2, <1>3, <1>4, <1>5, <1>6, <1>7 DEF Closing
<1> QED BY <1>1, <1>7, <1>8 DEF CutInv

\* The steps of a kick: nothing is cut while it is in progress.
LEMMA KickCut ==
    ASSUME IInv, KickChannel \/ KickTokens \/ KickState \/ KickCollect \/ RevokeFind
    PROVE  CutInv'
<1> USE DEF IInv
<1>1. UNCHANGED <<cut, sse_sessions>>
  BY DEF KickChannel, KickTokens, KickState, KickCollect, RevokeFind, StartRequest,
     relayVars, history
<1>2. CASE KickCollect \/ RevokeFind
  <2>1. admin = None
    BY <1>2 DEF KickCollect, RevokeFind, StartRequest
  <2> QED BY <1>1, <2>1, NothingCut DEF CutInv
<1>3. CASE KickChannel \/ KickTokens \/ KickState
  <2>1. admin # None /\ Head(admin.todo) \in {"channel", "tokens", "state"}
    BY <1>3 DEF KickChannel, KickTokens, KickState, AdminAt
  <2>2. admin.todo # <<"entries", "streams">> /\ admin.todo # <<"streams">>
    BY <2>1
  <2> QED BY <1>1, <2>2, NothingCut DEF CutInv, Closing
<1> QED BY <1>2, <1>3

\* The credentials change: the streams that are to be closed are in the map.
LEMMA RevokeCut ==
    ASSUME IInv, RevokeToken
    PROVE  CutInv'
<1> USE DEF IInv
<1>1. admin # None /\ admin \in Requests /\ admin.todo = <<"revoke", "entries", "streams">>
  BY TodoIs DEF RevokeToken, AdminAt, AdminInv
<1>2. cut \cap sse_sessions = {}
  BY <1>1 DEF CutInv, Closing
<1>3. UNCHANGED <<sse_sessions, agent_broadcast, browser>>
  BY DEF RevokeToken
<1>4. CASE admin.sid \in Owner(admin.token)
  <2> PICK s, t : s = admin.sid /\ t = admin.token
    OBVIOUS
  <2>1. AdminDone({}) /\ cut' = cut \cup StreamsOn(s, {t})
    BY <1>4 DEF RevokeToken
  <2>2. admin' = [admin EXCEPT !.todo = <<"entries", "streams">>, !.ids = {}]
    BY <1>1, <2>1 DEF AdminDone
  <2>3. admin'.todo = <<"entries", "streams">> /\ admin'.sid = s /\ admin'.token = t
    BY <1>1, <2>2 DEF Requests
  <2>4. admin' # None
    <3>1. AdminInv'
      BY <1>1, <2>1, AdminDoneIs
    <3>2. <<"entries", "streams">> \in Seq(Steps)
      BY DEF Steps
    <3>3. admin' \in Requests
      BY <1>1, <2>2, <3>2 DEF Requests
    <3> QED BY <3>3, ParameterAssumption
  <2>5. \A b \in StreamsOn(s, {t}) : b \in BrowsersOf(s)' /\ browser'[b].token = t
    BY <1>3 DEF StreamsOn, BrowsersOf, HasChannel
  <2>6. \A b \in cut' \cap sse_sessions' : b \in StreamsOn(s, {t})
    BY <1>2, <1>3, <2>1
  <2> QED BY <2>3, <2>4, <2>5, <2>6 DEF CutInv, Closing
<1>5. CASE admin.sid \notin Owner(admin.token)
  BY <1>2, <1>3, <1>5, NothingCut DEF RevokeToken
<1> QED BY <1>4, <1>5

LEMMA RegenerateCut ==
    ASSUME IInv, Regenerate
    PROVE  CutInv'
<1> USE DEF IInv
<1>1. PICK s \in Sid : /\ admin = None
                       /\ cut' = cut \cup BrowsersOf(s)
                       /\ admin' = [op |-> "regenerate", sid |-> s, token |-> None,
                                    ids |-> {}, todo |-> DisconnectSteps]
                       /\ "regenerate" \in Operations
                       /\ UNCHANGED <<sse_sessions, agent_broadcast, browser>>
  BY DEF Regenerate
<1>2. cut \cap sse_sessions = {}
  BY <1>1 DEF CutInv
<1>3. admin'.todo = <<"entries", "streams">> /\ admin'.sid = s /\ admin'.token = None
  BY <1>1 DEF DisconnectSteps
<1>4. admin' # None
  <2>1. DisconnectSteps \in Seq(Steps)
    BY DEF DisconnectSteps, Steps
  <2>2. admin' \in Requests
    BY <1>1, <2>1 DEF Requests
  <2> QED BY <2>2, ParameterAssumption
<1>5. BrowsersOf(s)' = BrowsersOf(s)
  BY <1>1 DEF BrowsersOf, HasChannel
<1>6. \A b \in cut' \cap sse_sessions' : b \in BrowsersOf(s)
  BY <1>1, <1>2
<1> QED BY <1>3, <1>4, <1>5, <1>6 DEF CutInv, Closing

\* What the request has collected, it closes.
LEMMA DisconnectCut ==
    ASSUME IInv, DisconnectEntries \/ RemoveStreams
    PROVE  CutInv'
<1> USE DEF IInv
<1>1. admin # None /\ admin \in Requests /\ admin.todo \in Todos
  BY DEF DisconnectEntries, RemoveStreams, AdminAt, AdminInv
<1>2. CASE DisconnectEntries
  <2> DEFINE matched == IF admin.token = None THEN BrowsersOf(admin.sid)
                        ELSE StreamsOn(admin.sid, {admin.token})
  <2>1. admin.todo = <<"entries", "streams">> /\ UNCHANGED <<cut, sse_sessions>>
        /\ AdminDone(matched)
    BY <1>1, <1>2, TodoIs DEF DisconnectEntries, AdminAt, history
  <2>2. \A b \in cut \cap sse_sessions : b \in matched
    BY <2>1 DEF CutInv, Closing, StreamsOn
  <2> HIDE DEF matched
  <2>3. admin' = [admin EXCEPT !.todo = <<"streams">>, !.ids = matched]
    BY <2>1 DEF AdminDone
  <2>4. admin'.todo = <<"streams">> /\ admin'.ids = matched
    BY <1>1, <2>3 DEF Requests
  <2>5. admin' # None
    <3>1. matched \subseteq Stream
      BY <1>1, BrowsersType DEF matched, StreamsOn, Requests
    <3>2. <<"streams">> \in Seq(Steps)
      BY DEF Steps
    <3>3. admin' \in Requests
      BY <1>1, <2>3, <3>1, <3>2 DEF Requests
    <3> QED BY <3>3, ParameterAssumption
  <2> QED BY <2>1, <2>2, <2>4, <2>5 DEF CutInv, Closing
<1>3. CASE RemoveStreams
  <2>1. sse_sessions' = {b \in sse_sessions : b \notin admin.ids} /\ cut' = cut
    BY <1>3 DEF RemoveStreams, history
  <2>2. Head(admin.todo) = "streams"
    BY <1>3 DEF RemoveStreams, AdminAt
  <2>3. admin.todo # <<"entries", "streams">>
    BY <2>2
  <2>4. \A b \in cut \cap sse_sessions : b \in admin.ids
    BY <2>3 DEF CutInv, Closing
  <2>5. cut' \cap sse_sessions' = {}
    BY <2>1, <2>4
  <2> QED BY <2>5 DEF CutInv
<1> QED BY <1>2, <1>3

LEMMA CutStep ==
    ASSUME IInv, [Next]_vars
    PROVE  CutInv'
<1> USE DEF IInv
<1>1. CASE UNCHANGED <<agent_broadcast, sse_sessions, browser, admin, cut>>
  BY <1>1, CutKept DEF BrowsersOf, HasChannel
<1>2. CASE \/ \E a \in Agent : RegisterChannel(a) \/ EventsInstall(a)
           \/ \E c \in Conn : Cleanup(c)
  <2>1. UNCHANGED <<sse_sessions, browser, admin, cut>>
    BY <1>2 DEF RegisterChannel, EventsInstall, Cleanup, history
  <2>2. \A s \in Sid : BrowsersOf(s)' = BrowsersOf(s)
    BY <1>2, RegisterChannelMap, EventsInstallMap, CleanupMap
  <2>3. admin # None => admin.sid \in Sid
    BY DEF AdminInv, Requests
  <2> QED BY <2>1, <2>2, <2>3 DEF CutInv, Closing
<1>3. CASE \E b \in Stream : BrowserNext(b)
  BY <1>3, BrowserCut
<1>4. CASE AdminNext \/ KickCollect \/ RevokeFind \/ Regenerate
  BY <1>4, KickCut, RevokeCut, RegenerateCut, DisconnectCut DEF AdminNext
<1>5. CASE ReaperChannel
  <2> PICK s : s = reaper.sid
    OBVIOUS
  <2>1. /\ UNCHANGED <<sse_sessions, browser, admin>> /\ cut' = cut \ BrowsersOf(s)
        /\ agent_broadcast' = [agent_broadcast EXCEPT ![s] = None]
    BY <1>5 DEF ReaperChannel
  <2>2. \A z \in Sid \ {s} : BrowsersOf(z)' = BrowsersOf(z)
    BY <2>1 DEF MapInv, BrowsersOf, HasChannel
  <2>3. admin # None => admin.sid \in Sid
    BY DEF AdminInv, Requests
  <2> QED BY <2>1, <2>2, <2>3 DEF CutInv, Closing
<1> QED BY <1>1, <1>2, <1>3, <1>4, <1>5, StreamWriters

-----------------------------------------------------------------------------
(* The theorems                                                            *)

LEMMA InitIInv == Init => IInv
<1> SUFFICES ASSUME Init PROVE IInv
  OBVIOUS
<1>1. SessionsInv
  BY DEF Init, SessionsInv, Owner
<1>2. AgentsInv
  <2>1. [phase |-> "off", sid |-> None, tokens |-> {}, conn |-> None, missed |-> 0]
           \in Agents
    BY ParameterAssumption DEF Agents, Phases
  <2> QED BY <2>1 DEF Init, AgentsInv
<1>3. ActivityInv /\ MapInv
  BY DEF Init, ActivityInv, MapInv
<1>4. StreamInv
  <2>1. NoBrowser \in Browsers
    BY DEF NoBrowser, Browsers
  <2> QED BY <2>1 DEF Init, StreamInv, BrowsersOf, HasChannel
<1>5. AdminInv /\ ReaperInv /\ CutInv
  BY DEF Init, AdminInv, ReaperInv, CutInv
<1> QED BY <1>1, <1>2, <1>3, <1>4, <1>5 DEF IInv

\* The inductive invariant, part by part.
THEOREM PlaneInvariant == Spec => []IInv
<1>1. IInv /\ [Next]_vars => IInv'
  <2> SUFFICES ASSUME IInv, [Next]_vars PROVE IInv'
    OBVIOUS
  <2>1. SessionsInv' /\ AgentsInv' /\ ActivityInv' /\ MapInv'
    BY SessionsStep, AgentsStep, ActivityStep, MapStep
  <2>2. StreamInv' /\ AdminInv' /\ ReaperInv' /\ CutInv'
    BY StreamStep, AdminStep, ReaperStep, CutStep
  <2> QED BY <2>1, <2>2 DEF IInv
<1> QED BY <1>1, InitIInv, PTL DEF Spec

\* Types; above all, a token is never good for two sessions (register takes it
\* from every other one), and an agent that is up has a downlink.
THEOREM TypeCorrect == Spec => []TypeOK
<1>1. IInv => TypeOK
  <2> SUFFICES ASSUME IInv PROVE TypeOK
    OBVIOUS
  <2>1. \A t \in Token : Cardinality(Owner(t)) <= 1
    <3> SUFFICES ASSUME NEW t \in Token PROVE Cardinality(Owner(t)) <= 1
      OBVIOUS
    <3>1. CASE Owner(t) = {}
      BY <3>1, FS_EmptySet
    <3>2. ASSUME NEW s \in Owner(t) PROVE Cardinality(Owner(t)) <= 1
      <4>1. Owner(t) = {s}
        BY <3>2 DEF IInv, SessionsInv
      <4> QED BY <4>1, FS_Singleton
    <3> QED BY <3>1, <3>2
  <2>2. \A a \in Agent : agent[a].phase \in Phases /\ agent[a].missed < MaxMissed
    BY ParameterAssumption DEF IInv, AgentsInv, Agents
  <2> QED BY <2>1, <2>2 DEF IInv, SessionsInv, AgentsInv, ActivityInv, MapInv, StreamInv,
             TypeOK
<1> QED BY <1>1, PlaneInvariant, PTL

\* The teardown of a connection never takes the channels of the one that
\* replaced it.
THEOREM ReconnectSurvives == Spec => []NewestOwns
<1>1. IInv => NewestOwns
  BY DEF IInv, MapInv, NewestOwns, Alive
<1> QED BY <1>1, PlaneInvariant, PTL

\* When a revocation or a regeneration is over, no stream that it found in the
\* session's map is kept.
THEOREM ChangeReachesStreams == Spec => []CutStreamsClosed
<1>1. IInv => CutStreamsClosed
  BY DEF IInv, CutInv, CutStreamsClosed
<1> QED BY <1>1, PlaneInvariant, PTL
=============================================================================
