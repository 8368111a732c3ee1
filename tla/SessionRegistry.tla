--------------------------- MODULE SessionRegistry ---------------------------
(***************************************************************************)
(* src/relay/session.rs: the relay's registry of sessions.  Two maps, each *)
(* behind its own RwLock: `sessions` (what a session is, its token list)   *)
(* and `token_map` (what a token is good for).  Every operation that       *)
(* changes both takes the two locks, in the order sessions, token_map.     *)
(*                                                                         *)
(* A call runs in three steps: take the first lock, take the second,       *)
(* change the maps and release.  Reads (authenticate, session_of_token,    *)
(* can_reclaim, get, count, ...) hold one lock and are single steps of the *)
(* modules that use them; here they are the states in which that lock is   *)
(* not held for writing.  The setters of session metadata                  *)
(* (update_capabilities, set_device, ...) hold `sessions` alone and touch  *)
(* no credential; they are left out.                                       *)
(***************************************************************************)
EXTENDS FiniteSets

CONSTANTS Token,      \* every string that is ever a token
          Key,        \* the tokens that are an agent's --key
          Sid,        \* valid session ids
          Worker,     \* the tasks that call the registry
          None        \* no session, no grant, no key, no call, no holder

NoPerm == "none"

Permission == {"rw", "ro"}

ASSUME KeyAssumption == Key \subseteq Token

Grant == [sid : Sid, perm : Permission]

\* A token list: the permission of each token on it.  The lists the program
\* builds name a token once (see README), so a list is a function.
Tokens == [Token -> Permission \cup {NoPerm}]

SessionInfo == [tokens : Tokens, fixed_key : Key \cup {None},
                is_temporary : BOOLEAN]

Call == [op : {"register"}, sid : Sid, tokens : Tokens,
         key : Key \cup {None}]
        \cup [op : {"remove"}, sid : Sid]
        \cup [op : {"remove_tokens"}, sid : Sid, tokens : Tokens]
        \cup [op : {"revoke_token"}, token : Token]
        \cup [op : {"regenerate_session"}, sid : Sid]
        \cup [op : {"set_token_permission"}, token : Token, perm : Permission]

Lock == {"sessions", "token_map"}

ASSUME NoneAssumption ==
    /\ None \notin Grant /\ None \notin SessionInfo /\ None \notin Key
    /\ None \notin Call /\ None \notin Worker

VARIABLES sessions,   \* Sid -> SessionInfo or None
          token_map,  \* Token -> Grant or None
          holder,     \* Lock -> the worker that holds it for writing
          call        \* Worker -> the call it is in

vars == <<sessions, token_map, holder, call>>

-----------------------------------------------------------------------------
(* Token lists                                                             *)

Named(toks) == {t \in Token : toks[t] # NoPerm}

TokensOf(s) == IF sessions[s] = None THEN {} ELSE Named(sessions[s].tokens)

\* generate_token(): 32 random bytes, a token nobody has.  A token named by a
\* call that has not returned is somebody's too.
Mintable ==
    {t \in Token \ Key :
        /\ token_map[t] = None
        /\ \A w \in Worker :
              call[w] # None /\ call[w].op = "register"
                 => t \notin Named(call[w].tokens)}

Single(main, perm) == [t \in Token |-> IF t = main THEN perm ELSE NoPerm]

Pair(main, extra) == [Single(main, "rw") EXCEPT ![extra] = "ro"]

\* The lists `register` builds: the key, or a minted token, as the read-write
\* token ("rw") or the read-only one ("ro"); "both" adds a minted read-only
\* token to the read-write one.
RegisterTokens(key) ==
    LET mains == IF key = None THEN Mintable ELSE {key}
    IN  {Single(main, perm) : main \in mains, perm \in Permission}
        \cup {Pair(p[1], p[2]) :
                 p \in {q \in mains \X Mintable : q[1] # q[2]}}

-----------------------------------------------------------------------------
(* Locks                                                                   *)

\* Mutant: revoke_token starts from the map it looks the token up in.
FirstLock_TokenFirst(op) ==
    IF op = "revoke_token" THEN "token_map" ELSE "sessions"

\* Every operation takes `sessions` first.
FirstLock(op) == "sessions"

SecondLock(op) == CHOOSE l \in Lock : l # FirstLock(op)

HoldsBoth(w) == \A l \in Lock : holder[l] = w

Return(w) ==
    /\ call' = [call EXCEPT ![w] = None]
    /\ holder' = [l \in Lock |-> IF holder[l] = w THEN None ELSE holder[l]]

-----------------------------------------------------------------------------
(* Calls                                                                   *)

Enter(w, c) ==
    /\ call[w] = None
    /\ call' = [call EXCEPT ![w] = c]
    /\ UNCHANGED <<sessions, token_map, holder>>

CallRegister(w) ==
    \E s \in Sid, key \in Key \cup {None} :
       \E toks \in RegisterTokens(key) :
          Enter(w, [op |-> "register", sid |-> s, tokens |-> toks, key |-> key])

\* An agent that reconnects brings the tokens it holds.  They need not be
\* granted any more, nor to this session.
CallRegisterExisting(w) ==
    \E s \in Sid, toks \in Tokens :
       /\ Named(toks) # {}
       /\ Enter(w, [op |-> "register", sid |-> s, tokens |-> toks,
                    key |-> None])

CallRemove(w) == \E s \in Sid : Enter(w, [op |-> "remove", sid |-> s])

CallRevoke(w) ==
    \E t \in Token : Enter(w, [op |-> "revoke_token", token |-> t])

CallSetPermission(w) ==
    \E t \in Token, p \in Permission :
       Enter(w, [op |-> "set_token_permission", token |-> t, perm |-> p])

CallRegenerate(w) ==
    \E s \in Sid : Enter(w, [op |-> "regenerate_session", sid |-> s])

TakeFirst(w) ==
    /\ call[w] # None
    /\ \A l \in Lock : holder[l] # w
    /\ holder[FirstLock(call[w].op)] = None
    /\ holder' = [holder EXCEPT ![FirstLock(call[w].op)] = w]
    /\ UNCHANGED <<sessions, token_map, call>>

\* `remove` asks for token_map only once it has taken an entry out.
TakeSecond(w) ==
    /\ call[w] # None
    /\ call[w].op # "remove"
    /\ holder[FirstLock(call[w].op)] = w
    /\ holder[SecondLock(call[w].op)] = None
    /\ holder' = [holder EXCEPT ![SecondLock(call[w].op)] = w]
    /\ UNCHANGED <<sessions, token_map, call>>

-----------------------------------------------------------------------------
(* What each call does once it holds what it needs                         *)

\* Mutant: only the session of the same id is taken out.
Evicted_SameId(c) == {s \in Sid : sessions[s] # None /\ s = c.sid}

\* The sessions `register` takes out: the one under the same id, and those a
\* token of the new list is mapped to.
Evicted(c) ==
    {s \in Sid : /\ sessions[s] # None
                 /\ \/ s = c.sid
                    \/ \E t \in Named(c.tokens) : /\ token_map[t] # None
                                                  /\ token_map[t].sid = s}

\* Mutant: the other tokens of a session taken out stay mapped.
RegisterTokenMap_KeepOld(c) ==
    [t \in Token |-> IF t \in Named(c.tokens)
                     THEN [sid |-> c.sid, perm |-> c.tokens[t]]
                     ELSE token_map[t]]

RegisterTokenMap(c) ==
    [t \in Token |->
        IF t \in Named(c.tokens)
        THEN [sid |-> c.sid, perm |-> c.tokens[t]]
        ELSE IF \E s \in Evicted(c) : t \in TokensOf(s)
             THEN None
             ELSE token_map[t]]

\* register and register_existing; the latter forgets the key.
Register(w) ==
    LET c == call[w] IN
    /\ c # None /\ c.op = "register" /\ HoldsBoth(w)
    /\ sessions' = [s \in Sid |->
                       IF s = c.sid
                       THEN [tokens |-> c.tokens, fixed_key |-> c.key,
                             is_temporary |-> c.key = None]
                       ELSE IF s \in Evicted(c) THEN None ELSE sessions[s]]
    /\ token_map' = RegisterTokenMap(c)
    /\ Return(w)

\* remove, first half: the entry leaves `sessions`, under that lock alone.
RemoveEntry(w) ==
    LET c == call[w] IN
    /\ c # None /\ c.op = "remove" /\ holder["sessions"] = w
    /\ sessions[c.sid] # None
    /\ sessions' = [sessions EXCEPT ![c.sid] = None]
    /\ call' = [call EXCEPT ![w] = [op |-> "remove_tokens", sid |-> c.sid,
                                    tokens |-> sessions[c.sid].tokens]]
    /\ UNCHANGED <<token_map, holder>>

RemoveMissing(w) ==
    LET c == call[w] IN
    /\ c # None /\ c.op = "remove" /\ holder["sessions"] = w
    /\ sessions[c.sid] = None
    /\ UNCHANGED <<sessions, token_map>>
    /\ Return(w)

\* remove, second half: the tokens of the entry taken out.
RemoveTokens(w) ==
    LET c == call[w] IN
    /\ c # None /\ c.op = "remove_tokens" /\ HoldsBoth(w)
    /\ token_map' = [t \in Token |->
                        IF t \in Named(c.tokens) THEN None ELSE token_map[t]]
    /\ UNCHANGED sessions
    /\ Return(w)

RevokeToken(w) ==
    LET c == call[w] IN
    /\ c # None /\ c.op = "revoke_token" /\ HoldsBoth(w)
    /\ token_map' = [token_map EXCEPT ![c.token] = None]
    /\ sessions' =
          IF token_map[c.token] = None THEN sessions
          ELSE [s \in Sid |->
                   IF s = token_map[c.token].sid /\ sessions[s] # None
                   THEN [sessions[s] EXCEPT !.tokens[c.token] = NoPerm]
                   ELSE sessions[s]]
    /\ Return(w)

\* Each token of the list gives way to a minted one of the same permission.
Rotated(old) ==
    {toks \in Tokens :
        /\ Named(toks) \subseteq Mintable
        /\ \A p \in Permission :
              Cardinality({t \in Token : toks[t] = p})
                 = Cardinality({t \in Token : old[t] = p})}

\* Mutant: the permission of a new token is looked up on the old list.
RegenerateTokenMap_OldList(s, toks) ==
    [t \in Token |->
        IF t \in Named(toks) THEN [sid |-> s, perm |-> sessions[s].tokens[t]]
        ELSE IF t \in TokensOf(s) THEN None ELSE token_map[t]]

\* Mutant: the old tokens stay good.
RegenerateTokenMap_KeepOld(s, toks) ==
    [t \in Token |->
        IF t \in Named(toks) THEN [sid |-> s, perm |-> toks[t]]
        ELSE token_map[t]]

RegenerateTokenMap(s, toks) ==
    [t \in Token |->
        IF t \in Named(toks) THEN [sid |-> s, perm |-> toks[t]]
        ELSE IF t \in TokensOf(s) THEN None ELSE token_map[t]]

RegenerateSession(w) ==
    LET c == call[w] IN
    /\ c # None /\ c.op = "regenerate_session" /\ HoldsBoth(w)
    /\ TokensOf(c.sid) # {}
    /\ \E toks \in Rotated(sessions[c.sid].tokens) :
          /\ token_map' = RegenerateTokenMap(c.sid, toks)
          /\ sessions' = [sessions EXCEPT ![c.sid].tokens = toks]
    /\ Return(w)

\* Unknown session, or one whose tokens were all revoked: None, no change.
RegenerateNothing(w) ==
    LET c == call[w] IN
    /\ c # None /\ c.op = "regenerate_session" /\ HoldsBoth(w)
    /\ TokensOf(c.sid) = {}
    /\ UNCHANGED <<sessions, token_map>>
    /\ Return(w)

\* A small instance runs out of the 2^256 tokens; a regeneration that finds
\* none left does nothing.  The only behaviour here that is not the code's.
MintingExhausted(w) ==
    LET c == call[w] IN
    /\ c # None /\ c.op = "regenerate_session" /\ HoldsBoth(w)
    /\ TokensOf(c.sid) # {}
    /\ Rotated(sessions[c.sid].tokens) = {}
    /\ UNCHANGED <<sessions, token_map>>
    /\ Return(w)

SetTokenPermission(w) ==
    LET c == call[w] IN
    /\ c # None /\ c.op = "set_token_permission" /\ HoldsBoth(w)
    /\ IF token_map[c.token] = None
       THEN UNCHANGED <<sessions, token_map>>
       ELSE /\ token_map' = [token_map EXCEPT ![c.token].perm = c.perm]
            /\ sessions' =
                  [s \in Sid |->
                     IF s = token_map[c.token].sid /\ c.token \in TokensOf(s)
                     THEN [sessions[s] EXCEPT !.tokens[c.token] = c.perm]
                     ELSE sessions[s]]
    /\ Return(w)

-----------------------------------------------------------------------------

Init ==
    /\ sessions = [s \in Sid |-> None]
    /\ token_map = [t \in Token |-> None]
    /\ holder = [l \in Lock |-> None]
    /\ call = [w \in Worker |-> None]

Invoke(w) ==
    \/ CallRegister(w) \/ CallRegisterExisting(w) \/ CallRemove(w)
    \/ CallRevoke(w) \/ CallSetPermission(w) \/ CallRegenerate(w)

Advance(w) ==
    \/ TakeFirst(w) \/ TakeSecond(w)
    \/ Register(w) \/ RemoveEntry(w) \/ RemoveMissing(w) \/ RemoveTokens(w)
    \/ RevokeToken(w) \/ RegenerateSession(w) \/ RegenerateNothing(w)
    \/ MintingExhausted(w) \/ SetTokenPermission(w)

Next == \E w \in Worker : Invoke(w) \/ Advance(w)

Spec == Init /\ [][Next]_vars

-----------------------------------------------------------------------------
(* Properties                                                              *)

TypeOK ==
    /\ sessions \in [Sid -> SessionInfo \cup {None}]
    /\ token_map \in [Token -> Grant \cup {None}]
    /\ holder \in [Lock -> Worker \cup {None}]
    /\ call \in [Worker -> Call \cup {None}]

\* What `sessions` says token t is good for.
Listed(s, t) == t \in TokensOf(s)

\* The two maps tell the same story to whoever can read both: no lock held,
\* every token on a session's list authenticates as that session with that
\* permission, and every token that authenticates is on its session's list.
TokensAgree ==
    (\A l \in Lock : holder[l] = None) =>
        /\ \A s \in Sid, t \in Token :
              Listed(s, t) =>
                 token_map[t] = [sid |-> s, perm |-> sessions[s].tokens[t]]
        /\ \A t \in Token :
              token_map[t] # None => Listed(token_map[t].sid, t)

\* Whoever can read token_map finds there only tokens of sessions that exist,
\* on the list of exactly one session; the one exception is a session that
\* `remove` has just taken out and whose tokens it is about to drop, holding
\* `sessions` so that nobody can look the session up.
NoTornToken ==
    \A t \in Token :
       token_map[t] # None =>
          \/ Listed(token_map[t].sid, t)
          \/ \E w \in Worker : /\ holder["sessions"] = w
                               /\ call[w] # None
                               /\ call[w].op = "remove_tokens"
                               /\ t \in Named(call[w].tokens)

\* v waits for a lock that w holds.
WaitsFor(v, w) ==
    /\ call[v] # None
    /\ \/ /\ \A l \in Lock : holder[l] # v
          /\ holder[FirstLock(call[v].op)] = w
       \/ /\ holder[FirstLock(call[v].op)] = v
          /\ call[v].op # "remove"
          /\ holder[SecondLock(call[v].op)] = w

\* No two calls wait for each other: every operation takes the locks in the
\* same order ("the reverse order would deadlock with this one").
NoCircularWait ==
    \A v, w \in Worker : v # w => ~(WaitsFor(v, w) /\ WaitsFor(w, v))

\* The registry is a credential directory: token_map is the directory, and
\* each operation on the two maps is one operation on it.
Directory == INSTANCE CredentialDirectory
             WITH grant <- token_map, NoGrant <- None

RefinesDirectory == Directory!Spec
=============================================================================
