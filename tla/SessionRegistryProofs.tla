------------------------ MODULE SessionRegistryProofs ------------------------
(***************************************************************************)
(* Proofs about SessionRegistry, for any number of tokens, sessions and    *)
(* concurrent calls.  The argument is one inductive invariant: whoever     *)
(* holds token_map holds `sessions`; while a `remove` is between its two   *)
(* halves it holds `sessions` and has at hand exactly the tokens that are  *)
(* still mapped to the session it took out; all other tokens are mapped to *)
(* the session that lists them, and the other way round.                   *)
(***************************************************************************)
EXTENDS SessionRegistry, TLAPS

Removing(w) == call[w] # None /\ call[w].op = "remove_tokens"

LockInv ==
    \A w \in Worker :
       /\ holder["token_map"] = w => holder["sessions"] = w
       /\ holder["token_map"] = w => call[w] # None /\ call[w].op # "remove"
       /\ Removing(w) => holder["sessions"] = w

\* A token on a session's list is mapped to that session.
ListedInv ==
    \A s \in Sid, t \in Token :
       Listed(s, t) => token_map[t] = [sid |-> s, perm |-> sessions[s].tokens[t]]

\* A mapped token is on its session's list, unless its session is on its way
\* out.
MappedInv ==
    \A t \in Token :
       token_map[t] # None =>
          \/ Listed(token_map[t].sid, t)
          \/ \E w \in Worker : Removing(w) /\ t \in Named(call[w].tokens)

\* A removal has at hand the tokens mapped to the session it took out.
RemovalInv ==
    \A w \in Worker :
       Removing(w) =>
          /\ sessions[call[w].sid] = None
          /\ \A t \in Token :
                t \in Named(call[w].tokens)
                   <=> token_map[t] # None /\ token_map[t].sid = call[w].sid

IInv == TypeOK /\ LockInv /\ ListedInv /\ MappedInv /\ RemovalInv

-----------------------------------------------------------------------------

\* Every operation takes the locks in the order sessions, token_map.
LEMMA LockOrder ==
    ASSUME NEW op
    PROVE  FirstLock(op) = "sessions" /\ SecondLock(op) = "token_map"
BY DEF FirstLock, SecondLock, Lock

\* The state in which the relay starts is consistent.
LEMMA InitIInv == Init => IInv
BY NoneAssumption
   DEF Init, IInv, TypeOK, LockInv, ListedInv, MappedInv, RemovalInv, Removing,
       Listed, TokensOf, Lock

\* The lists `register` and `regenerate_session` build are token lists.
LEMMA RegisterTokensType ==
    ASSUME NEW key \in Key \cup {None}
    PROVE  RegisterTokens(key) \subseteq Tokens
<1>1. ASSUME NEW m, NEW p \in Permission PROVE Single(m, p) \in Tokens
  BY DEF Single, Tokens
<1>2. ASSUME NEW m, NEW x PROVE Pair(m, x) \in Tokens
  BY <1>1 DEF Pair, Single, Tokens, Permission
<1> QED BY <1>1, <1>2 DEF RegisterTokens

\* Entering a call starts no removal and takes no lock.
LEMMA InvokeIInv ==
    ASSUME IInv, NEW w \in Worker, Invoke(w)
    PROVE  IInv'
<1>1. PICK c \in Call : Enter(w, c) /\ c.op # "remove_tokens"
  <2>1. CASE CallRegister(w)
    BY <2>1, RegisterTokensType DEF CallRegister, Call
  <2>2. CASE CallRegisterExisting(w)
    BY <2>2 DEF CallRegisterExisting, Call
  <2>3. CASE CallRemove(w)
    BY <2>3 DEF CallRemove, Call
  <2>4. CASE CallRevoke(w)
    BY <2>4 DEF CallRevoke, Call
  <2>5. CASE CallSetPermission(w)
    BY <2>5 DEF CallSetPermission, Call
  <2>6. CASE CallRegenerate(w)
    BY <2>6 DEF CallRegenerate, Call
  <2> QED BY <2>1, <2>2, <2>3, <2>4, <2>5, <2>6 DEF Invoke
<1>2. TypeOK'
  BY <1>1 DEF IInv, TypeOK, Enter
<1>3. \A v \in Worker : /\ Removing(v)' <=> Removing(v)
                        /\ Removing(v) => call'[v] = call[v]
                        /\ holder["token_map"] = v => v # w
  BY <1>1 DEF IInv, TypeOK, Enter, Removing, LockInv
<1>4. LockInv'
  BY <1>1, <1>3 DEF IInv, TypeOK, Enter, LockInv, Removing
<1>5. ListedInv' /\ MappedInv' /\ RemovalInv'
  BY <1>1, <1>3 DEF IInv, Enter, ListedInv, MappedInv, RemovalInv, Listed,
                    TokensOf
<1> QED BY <1>2, <1>4, <1>5 DEF IInv

\* Taking a lock changes no map and no call, and respects the lock order.
LEMMA TakeIInv ==
    ASSUME IInv, NEW w \in Worker, TakeFirst(w) \/ TakeSecond(w)
    PROVE  IInv'
<1>1. /\ call[w] # None
      /\ UNCHANGED <<sessions, token_map, call>>
      /\ \/ /\ \A l \in Lock : holder[l] # w
            /\ holder["sessions"] = None
            /\ holder' = [holder EXCEPT !["sessions"] = w]
         \/ /\ call[w].op # "remove"
            /\ holder["sessions"] = w
            /\ holder["token_map"] = None
            /\ holder' = [holder EXCEPT !["token_map"] = w]
  BY LockOrder DEF TakeFirst, TakeSecond
<1>2. TypeOK'
  BY <1>1 DEF IInv, TypeOK, Lock
<1>3. LockInv'
  <2>1. \A v \in Worker : Removing(v)' <=> Removing(v)
    BY <1>1 DEF Removing
  <2>2. \A v \in Worker : holder'["token_map"] = v => holder'["sessions"] = v
    BY <1>1, NoneAssumption DEF IInv, TypeOK, LockInv, Lock
  <2>3. \A v \in Worker : Removing(v) => holder'["sessions"] = v
    BY <1>1, NoneAssumption DEF IInv, TypeOK, LockInv, Lock
  <2>4. \A v \in Worker : holder'["token_map"] = v
                             => call[v] # None /\ call[v].op # "remove"
    BY <1>1, NoneAssumption DEF IInv, TypeOK, LockInv, Lock
  <2> QED BY <1>1, <2>1, <2>2, <2>3, <2>4 DEF LockInv
<1>4. ListedInv' /\ MappedInv' /\ RemovalInv'
  BY <1>1 DEF IInv, ListedInv, MappedInv, RemovalInv, Listed, TokensOf,
              Removing
<1> QED BY <1>2, <1>3, <1>4 DEF IInv

\* A worker that holds token_map is alone: no other call is between the two
\* halves of `remove`, and none but its own changes the maps.
LEMMA Alone ==
    ASSUME IInv, NEW w \in Worker, HoldsBoth(w)
    PROVE  \A v \in Worker : Removing(v) => v = w
BY DEF IInv, LockInv, HoldsBoth, Lock

\* Returning from a call that held both locks, or the first, frees them.
LEMMA ReturnIInv ==
    ASSUME IInv, NEW w \in Worker, Return(w), holder["sessions"] = w
    PROVE  /\ holder' \in [Lock -> Worker \cup {None}]
           /\ call' \in [Worker -> Call \cup {None}]
           /\ LockInv'
           /\ \A v \in Worker : ~Removing(v)'
           /\ \A l \in Lock : holder'[l] = None
<1>1. holder["token_map"] \in {w, None}
  BY DEF IInv, TypeOK, LockInv, Lock
<1>2. \A l \in Lock : holder'[l] = None
  BY <1>1 DEF Return, Lock
<1>3. \A v \in Worker : Removing(v) => v = w
  BY DEF IInv, LockInv
<1>4. \A v \in Worker : call'[v] = IF v = w THEN None ELSE call[v]
  BY DEF Return, IInv, TypeOK
<1>5. \A v \in Worker : ~Removing(v)'
  BY <1>3, <1>4 DEF Removing
<1>6. holder' \in [Lock -> Worker \cup {None}]
  BY DEF Return, IInv, TypeOK
<1>7. call' \in [Worker -> Call \cup {None}]
  BY DEF Return, IInv, TypeOK
<1>8. LockInv'
  BY <1>2, <1>5, NoneAssumption DEF LockInv, Lock
<1> QED BY <1>2, <1>5, <1>6, <1>7, <1>8

\* A listed token is mapped to its session, and to no other.
LEMMA OneOwner ==
    ASSUME IInv, NEW s \in Sid, NEW t \in Token, Listed(s, t)
    PROVE  /\ sessions[s] # None /\ sessions[s] \in SessionInfo
           /\ sessions[s].tokens[t] \in Permission
           /\ token_map[t] = [sid |-> s, perm |-> sessions[s].tokens[t]]
           /\ token_map[t] # None
           /\ token_map[t].sid = s
<1>1. /\ sessions[s] # None /\ t \in Named(sessions[s].tokens)
      /\ sessions[s] \in SessionInfo
  BY DEF Listed, TokensOf, IInv, TypeOK
<1>2. sessions[s].tokens[t] \in Permission
  BY <1>1 DEF SessionInfo, Tokens, Named
<1>3. token_map[t] = [sid |-> s, perm |-> sessions[s].tokens[t]]
  BY DEF IInv, ListedInv
<1>4. token_map[t] \in Grant
  BY <1>2, <1>3 DEF Grant
<1> QED BY <1>1, <1>2, <1>3, <1>4, NoneAssumption

\* With both locks held by a call that is no removal, the maps agree.
LEMMA Settled ==
    ASSUME IInv, NEW w \in Worker, HoldsBoth(w), ~Removing(w)
    PROVE  \A t \in Token : token_map[t] # None => Listed(token_map[t].sid, t)
BY Alone DEF IInv, MappedInv

\* Maps of the right type that agree, and no call inside `remove`, are IInv.
LEMMA AgreedIInv ==
    ASSUME IInv, NEW w \in Worker, Return(w), holder["sessions"] = w,
           sessions' \in [Sid -> SessionInfo \cup {None}],
           token_map' \in [Token -> Grant \cup {None}],
           ListedInv',
           \A t \in Token, s \in Sid :
              token_map'[t] # None /\ token_map'[t].sid = s => Listed(s, t)'
    PROVE  IInv'
<1>1. TypeOK' /\ LockInv' /\ \A v \in Worker : ~Removing(v)'
  BY ReturnIInv DEF TypeOK
<1>2. \A t \in Token : token_map'[t] # None => token_map'[t].sid \in Sid
  BY DEF Grant
<1>3. MappedInv' /\ RemovalInv'
  BY <1>1, <1>2 DEF MappedInv, RemovalInv
<1> QED BY <1>1, <1>3 DEF IInv

\* register takes out every session that lists a token it installs.
LEMMA RegisterIInv ==
    ASSUME IInv, NEW w \in Worker, Register(w)
    PROVE  IInv'
<1> DEFINE c == call[w]
<1>1. /\ c \in [op : {"register"}, sid : Sid, tokens : Tokens,
                key : Key \cup {None}]
      /\ HoldsBoth(w) /\ Return(w) /\ holder["sessions"] = w /\ ~Removing(w)
  BY DEF Register, IInv, TypeOK, Call, HoldsBoth, Lock, Removing
<1>2. \A t \in Token : token_map[t] # None => Listed(token_map[t].sid, t)
  BY <1>1, Settled
<1>3. /\ sessions' = [s \in Sid |->
                         IF s = c.sid
                         THEN [tokens |-> c.tokens, fixed_key |-> c.key,
                               is_temporary |-> c.key = None]
                         ELSE IF s \in Evicted(c) THEN None ELSE sessions[s]]
      /\ token_map' = RegisterTokenMap(c)
  BY DEF Register
<1>4. sessions' \in [Sid -> SessionInfo \cup {None}]
  BY <1>1, <1>3 DEF IInv, TypeOK, SessionInfo
<1>5. token_map' \in [Token -> Grant \cup {None}]
  BY <1>1, <1>3 DEF IInv, TypeOK, RegisterTokenMap, Grant, Tokens, Named
<1>6. \A s \in Sid : TokensOf(s)' = IF s = c.sid THEN Named(c.tokens)
                                    ELSE IF s \in Evicted(c) THEN {}
                                    ELSE TokensOf(s)
  <2>1. [tokens |-> c.tokens, fixed_key |-> c.key,
         is_temporary |-> c.key = None] \in SessionInfo
    BY <1>1 DEF SessionInfo
  <2> QED BY <1>3, <2>1, NoneAssumption DEF TokensOf
<1>7. \A t \in Named(c.tokens) :
         token_map'[t] = [sid |-> c.sid, perm |-> c.tokens[t]]
  BY <1>3 DEF RegisterTokenMap, Named
<1>8. \A s \in Sid, t \in Token :
         (s # c.sid /\ s \notin Evicted(c) /\ Listed(s, t)) =>
            /\ t \notin Named(c.tokens)
            /\ token_map'[t] = token_map[t]
            /\ sessions'[s] = sessions[s]
  <2> SUFFICES ASSUME NEW s \in Sid, NEW t \in Token,
                      s # c.sid, s \notin Evicted(c), Listed(s, t)
               PROVE  /\ t \notin Named(c.tokens)
                      /\ token_map'[t] = token_map[t]
                      /\ sessions'[s] = sessions[s]
    OBVIOUS
  <2>1. token_map[t].sid = s /\ sessions[s] # None
    BY OneOwner
  <2>2. token_map[t] # None
    BY OneOwner
  <2>3. t \notin Named(c.tokens)
    BY <2>1, <2>2 DEF Evicted
  <2>4. \A z \in Evicted(c) : t \notin TokensOf(z)
    <3> SUFFICES ASSUME NEW z \in Evicted(c), t \in TokensOf(z) PROVE FALSE
      OBVIOUS
    <3>1. z \in Sid /\ Listed(z, t)
      BY DEF Evicted, Listed
    <3> QED BY <2>1, <3>1, OneOwner
  <2> QED BY <1>3, <2>3, <2>4 DEF RegisterTokenMap
<1>9. ListedInv'
  BY <1>3, <1>6, <1>7, <1>8 DEF ListedInv, Listed, IInv
<1>10. \A t \in Token, s \in Sid :
          token_map'[t] # None /\ token_map'[t].sid = s => Listed(s, t)'
  <2> SUFFICES ASSUME NEW t \in Token, NEW s \in Sid, token_map'[t] # None,
                      token_map'[t].sid = s
               PROVE  t \in TokensOf(s)'
    BY DEF Listed
  <2>1. CASE t \in Named(c.tokens)
    <3>0. token_map'[t] = [sid |-> c.sid, perm |-> c.tokens[t]]
      BY <1>7, <2>1
    <3>1. s = c.sid
      BY <3>0
    <3> QED BY <1>6, <2>1, <3>1
  <2>2. CASE t \notin Named(c.tokens)
    <3>1. /\ token_map'[t] = token_map[t]
          /\ \A z \in Evicted(c) : t \notin TokensOf(z)
      BY <1>3, <2>2 DEF RegisterTokenMap
    <3>2. t \in TokensOf(s) /\ sessions[s] # None
      BY <1>2, <3>1 DEF Listed, TokensOf
    <3>3. s \notin Evicted(c) /\ s # c.sid
      BY <3>1, <3>2 DEF Evicted
    <3> QED BY <1>6, <3>2, <3>3
  <2> QED BY <2>1, <2>2
<1> QED BY <1>1, <1>4, <1>5, <1>9, <1>10, AgreedIInv

\* remove, first half: the tokens at hand are those mapped to the session.
LEMMA RemoveEntryIInv ==
    ASSUME IInv, NEW w \in Worker, RemoveEntry(w)
    PROVE  IInv'
<1> DEFINE c == call[w]
<1> DEFINE info == sessions[c.sid]
<1>1. /\ c \in [op : {"remove"}, sid : Sid]
      /\ holder["sessions"] = w /\ info # None /\ info \in SessionInfo
      /\ sessions' = [sessions EXCEPT ![c.sid] = None]
      /\ call' = [call EXCEPT ![w] = [op |-> "remove_tokens", sid |-> c.sid,
                                      tokens |-> info.tokens]]
      /\ token_map' = token_map /\ holder' = holder
      /\ ~Removing(w)
  BY DEF RemoveEntry, IInv, TypeOK, Call, Removing
<1>2. call'[w] = [op |-> "remove_tokens", sid |-> c.sid, tokens |-> info.tokens]
      /\ call'[w] \in Call
  BY <1>1 DEF IInv, TypeOK, Call, SessionInfo
<1>3. TypeOK'
  BY <1>1, <1>2 DEF IInv, TypeOK
<1>4. \A v \in Worker : ~Removing(v)
  BY <1>1 DEF IInv, LockInv
<1>5. \A v \in Worker : Removing(v)' => v = w
  BY <1>1, <1>4 DEF Removing, IInv, TypeOK
<1>6. holder["token_map"] # w
  BY <1>1 DEF IInv, LockInv
<1>7. LockInv'
  <2>1. \A v \in Worker : v # w => call'[v] = call[v]
    BY <1>1 DEF IInv, TypeOK
  <2> QED BY <1>1, <1>5, <1>6, <2>1 DEF IInv, LockInv
<1>8. \A s \in Sid : TokensOf(s)' = IF s = c.sid THEN {} ELSE TokensOf(s)
  BY <1>1 DEF TokensOf, IInv, TypeOK
<1>9. ListedInv'
  BY <1>1, <1>8 DEF IInv, TypeOK, ListedInv, Listed
<1>10. \A t \in Token : t \in Named(info.tokens)
                          <=> token_map[t] # None /\ token_map[t].sid = c.sid
  <2>1. Named(info.tokens) = TokensOf(c.sid)
    BY <1>1 DEF TokensOf
  <2>2. \A t \in Token : t \in TokensOf(c.sid)
                            => token_map[t] # None /\ token_map[t].sid = c.sid
    BY <1>1, OneOwner DEF Listed
  <2>3. \A t \in Token : token_map[t] # None /\ token_map[t].sid = c.sid
                            => t \in TokensOf(c.sid)
    BY <1>4 DEF IInv, MappedInv, Listed
  <2> QED BY <2>1, <2>2, <2>3
<1>11. RemovalInv'
  <2>1. sessions'[c.sid] = None
    BY <1>1 DEF IInv, TypeOK
  <2> QED BY <1>1, <1>2, <1>5, <1>10, <2>1 DEF RemovalInv
<1>12. MappedInv'
  <2> SUFFICES ASSUME NEW t \in Token, token_map[t] # None,
                      ~(Removing(w)' /\ t \in Named(call'[w].tokens))
               PROVE  \E s \in Sid : s = token_map[t].sid /\ Listed(s, t)'
    BY <1>1 DEF MappedInv
  <2>1. t \notin Named(info.tokens)
    BY <1>2, NoneAssumption DEF Removing
  <2>2. token_map[t].sid \in Sid /\ token_map[t].sid # c.sid
    BY <1>10, <2>1 DEF IInv, TypeOK, Grant
  <2>3. t \in TokensOf(token_map[t].sid)
    BY <1>4 DEF IInv, MappedInv, Listed
  <2> QED BY <1>8, <2>2, <2>3 DEF Listed
<1> QED BY <1>3, <1>7, <1>9, <1>11, <1>12 DEF IInv

\* remove, second half: no token of the session is left.
LEMMA RemoveTokensIInv ==
    ASSUME IInv, NEW w \in Worker, RemoveTokens(w)
    PROVE  IInv'
<1> DEFINE c == call[w]
<1>1. /\ Removing(w) /\ HoldsBoth(w) /\ Return(w) /\ holder["sessions"] = w
      /\ sessions' = sessions
      /\ token_map' = [t \in Token |->
                         IF t \in Named(c.tokens) THEN None ELSE token_map[t]]
  BY DEF RemoveTokens, Removing, HoldsBoth, Lock
<1>2. /\ sessions[c.sid] = None
      /\ \A t \in Token :
            t \in Named(c.tokens)
               <=> token_map[t] # None /\ token_map[t].sid = c.sid
  BY <1>1 DEF IInv, RemovalInv
<1>3. /\ sessions' \in [Sid -> SessionInfo \cup {None}]
      /\ token_map' \in [Token -> Grant \cup {None}]
  BY <1>1 DEF IInv, TypeOK
<1>4. \A s \in Sid, t \in Token : Listed(s, t) => token_map'[t] = token_map[t]
  <2> SUFFICES ASSUME NEW s \in Sid, NEW t \in Token, Listed(s, t)
               PROVE  t \notin Named(c.tokens)
    BY <1>1
  <2>1. token_map[t].sid = s /\ sessions[s] # None
    BY OneOwner
  <2>2. s # c.sid
    BY <1>2, <2>1
  <2> QED BY <1>2, <2>1, <2>2
<1>5. ListedInv'
  BY <1>1, <1>4 DEF ListedInv, Listed, TokensOf, IInv
<1>6. \A t \in Token, s \in Sid :
         token_map'[t] # None /\ token_map'[t].sid = s => Listed(s, t)'
  <2> SUFFICES ASSUME NEW t \in Token, NEW s \in Sid, token_map'[t] # None,
                      token_map'[t].sid = s
               PROVE  Listed(s, t)
    BY <1>1 DEF Listed, TokensOf
  <2>1. token_map[t] # None /\ token_map[t].sid = s /\ t \notin Named(c.tokens)
    BY <1>1
  <2> QED BY <1>1, <2>1, Alone DEF IInv, MappedInv
<1> QED BY <1>1, <1>3, <1>5, <1>6, AgreedIInv

\* A call that found nothing to do leaves the maps alone.
LEMMA NothingIInv ==
    ASSUME IInv, NEW w \in Worker, UNCHANGED <<sessions, token_map>>,
           Return(w), ~Removing(w), holder["sessions"] = w
    PROVE  IInv'
<1>1. \A v \in Worker : ~Removing(v)
  BY DEF IInv, LockInv
<1>2. \A t \in Token, s \in Sid :
         token_map[t] # None /\ token_map[t].sid = s => Listed(s, t)
  BY <1>1 DEF IInv, MappedInv
<1>3. ListedInv'
  BY DEF IInv, ListedInv, Listed, TokensOf
<1>4. \A t \in Token, s \in Sid :
         token_map'[t] # None /\ token_map'[t].sid = s => Listed(s, t)'
  BY <1>2 DEF Listed, TokensOf
<1>5. /\ sessions' \in [Sid -> SessionInfo \cup {None}]
      /\ token_map' \in [Token -> Grant \cup {None}]
  BY DEF IInv, TypeOK
<1> QED BY <1>3, <1>4, <1>5, AgreedIInv

\* revoke_token takes the token off the list of the session it is mapped to.
LEMMA RevokeIInv ==
    ASSUME IInv, NEW w \in Worker, RevokeToken(w)
    PROVE  IInv'
<1> DEFINE tok == call[w].token
<1>1. /\ tok \in Token /\ HoldsBoth(w) /\ Return(w)
      /\ holder["sessions"] = w /\ ~Removing(w)
  BY DEF RevokeToken, IInv, TypeOK, Call, HoldsBoth, Lock, Removing
<1>2. \A t \in Token : token_map[t] # None => Listed(token_map[t].sid, t)
  BY <1>1, Settled
<1>3. token_map' = [token_map EXCEPT ![tok] = None]
  BY DEF RevokeToken
<1>4. CASE token_map[tok] = None
  <2>1. sessions' = sessions /\ token_map' = token_map
    BY <1>1, <1>3, <1>4 DEF RevokeToken, IInv, TypeOK
  <2> QED BY <1>1, <2>1, NothingIInv
<1>5. CASE token_map[tok] # None
  <2> DEFINE z == token_map[tok].sid
  <2>1. z \in Sid /\ Listed(z, tok) /\ sessions[z] # None
        /\ sessions[z] \in SessionInfo
    BY <1>1, <1>2, <1>5, OneOwner DEF IInv, TypeOK, Grant
  <2>2. sessions' = [sessions EXCEPT ![z].tokens[tok] = NoPerm]
    <3>1. sessions' = [s \in Sid |->
                         IF s = z /\ sessions[s] # None
                         THEN [sessions[s] EXCEPT !.tokens[tok] = NoPerm]
                         ELSE sessions[s]]
      BY <1>5 DEF RevokeToken
    <3> QED BY <2>1, <3>1 DEF IInv, TypeOK
  <2>3. /\ sessions'[z] \in SessionInfo
        /\ sessions'[z].tokens = [sessions[z].tokens EXCEPT ![tok] = NoPerm]
    BY <1>1, <2>1, <2>2 DEF IInv, TypeOK, SessionInfo, Tokens
  <2>4. sessions' \in [Sid -> SessionInfo \cup {None}]
    BY <2>1, <2>2, <2>3 DEF IInv, TypeOK
  <2>5. \A s \in Sid : TokensOf(s)' = IF s = z THEN TokensOf(s) \ {tok}
                                      ELSE TokensOf(s)
    <3>1. \A s \in Sid : s # z => sessions'[s] = sessions[s]
      BY <2>2 DEF IInv, TypeOK
    <3>2. Named(sessions'[z].tokens) = Named(sessions[z].tokens) \ {tok}
      BY <2>1, <2>3, <1>1 DEF Named, SessionInfo, Tokens
    <3> QED BY <2>1, <2>3, <3>1, <3>2, NoneAssumption DEF TokensOf
  <2>6. token_map' \in [Token -> Grant \cup {None}]
    BY <1>3 DEF IInv, TypeOK
  <2>7. ListedInv'
    <3> SUFFICES ASSUME NEW s \in Sid, NEW t \in Token, Listed(s, t)'
                 PROVE  token_map'[t] = [sid |-> s,
                                         perm |-> sessions'[s].tokens[t]]
      BY DEF ListedInv
    <3>1. Listed(s, t) /\ ~(s = z /\ t = tok)
      BY <2>5 DEF Listed
    <3>2. t # tok
      BY <2>1, <3>1, OneOwner
    <3>3. sessions'[s].tokens[t] = sessions[s].tokens[t]
      BY <2>2, <2>3, <3>2, <2>1 DEF IInv, TypeOK, SessionInfo, Tokens
    <3> QED BY <1>3, <3>1, <3>2, <3>3, OneOwner DEF IInv, TypeOK
  <2>8. \A t \in Token, s \in Sid :
           token_map'[t] # None /\ token_map'[t].sid = s => Listed(s, t)'
    BY <1>1, <1>2, <1>3, <2>5 DEF Listed, IInv, TypeOK
  <2> QED BY <1>1, <2>4, <2>6, <2>7, <2>8, AgreedIInv
<1> QED BY <1>4, <1>5

\* regenerate_session installs tokens that nobody has on the same session.
LEMMA RegenerateIInv ==
    ASSUME IInv, NEW w \in Worker, RegenerateSession(w)
    PROVE  IInv'
<1> DEFINE z == call[w].sid
<1>1. /\ z \in Sid /\ HoldsBoth(w) /\ Return(w)
      /\ holder["sessions"] = w /\ ~Removing(w)
      /\ sessions[z] # None /\ sessions[z] \in SessionInfo
  BY DEF RegenerateSession, IInv, TypeOK, Call, HoldsBoth, Lock, Removing,
         TokensOf
<1>2. \A t \in Token : token_map[t] # None => Listed(token_map[t].sid, t)
  BY <1>1, Settled
<1>3. PICK toks \in Tokens :
         /\ \A t \in Named(toks) : t \in Token /\ token_map[t] = None
         /\ token_map' = RegenerateTokenMap(z, toks)
         /\ sessions' = [sessions EXCEPT ![z].tokens = toks]
  BY DEF RegenerateSession, Rotated, Mintable, Named
<1>4. /\ sessions'[z] \in SessionInfo /\ sessions'[z].tokens = toks
      /\ \A s \in Sid : s # z => sessions'[s] = sessions[s]
      /\ sessions' \in [Sid -> SessionInfo \cup {None}]
  BY <1>1, <1>3 DEF IInv, TypeOK, SessionInfo
<1>5. \A s \in Sid : TokensOf(s)' = IF s = z THEN Named(toks) ELSE TokensOf(s)
  BY <1>4, NoneAssumption DEF TokensOf
<1>6. \A t \in Token :
         token_map'[t] = IF t \in Named(toks)
                         THEN [sid |-> z, perm |-> toks[t]]
                         ELSE IF t \in TokensOf(z) THEN None ELSE token_map[t]
  BY <1>3 DEF RegenerateTokenMap
<1>7. \A t \in Named(toks) : [sid |-> z, perm |-> toks[t]] \in Grant
  BY <1>1 DEF Named, Tokens, Grant
<1>8. token_map' \in [Token -> Grant \cup {None}]
  <2>1. \A t \in Token : token_map[t] \in Grant \cup {None}
    BY DEF IInv, TypeOK
  <2> QED BY <1>3, <1>7, <2>1 DEF RegenerateTokenMap
<1>9. ListedInv'
  <2> SUFFICES ASSUME NEW s \in Sid, NEW t \in Token, t \in TokensOf(s)'
               PROVE  token_map'[t] = [sid |-> s,
                                       perm |-> sessions'[s].tokens[t]]
    BY DEF ListedInv, Listed
  <2>1. CASE s = z
    BY <1>4, <1>5, <1>6, <2>1
  <2>2. CASE s # z
    <3>1. Listed(s, t) /\ sessions'[s] = sessions[s]
      BY <1>4, <1>5, <2>2 DEF Listed
    <3>2. /\ token_map[t] = [sid |-> s, perm |-> sessions[s].tokens[t]]
          /\ token_map[t] # None /\ token_map[t].sid = s
      BY <3>1, OneOwner
    <3>3. t \notin Named(toks) /\ t \notin TokensOf(z)
      BY <1>1, <1>3, <2>2, <3>2, OneOwner DEF Listed
    <3> QED BY <1>6, <3>1, <3>2, <3>3
  <2> QED BY <2>1, <2>2
<1>10. \A t \in Token, s \in Sid :
          token_map'[t] # None /\ token_map'[t].sid = s => Listed(s, t)'
  <2> SUFFICES ASSUME NEW t \in Token, NEW s \in Sid, token_map'[t] # None,
                      token_map'[t].sid = s
               PROVE  t \in TokensOf(s)'
    BY DEF Listed
  <2>1. CASE t \in Named(toks)
    <3>1. token_map'[t] = [sid |-> z, perm |-> toks[t]]
      BY <1>6, <2>1
    <3>2. s = z
      BY <3>1
    <3> QED BY <1>5, <2>1, <3>2
  <2>2. CASE t \notin Named(toks)
    <3>1. token_map'[t] = token_map[t] /\ t \notin TokensOf(z)
      BY <1>6, <2>2
    <3>2. t \in TokensOf(s)
      BY <1>2, <3>1 DEF Listed
    <3> QED BY <1>5, <3>1, <3>2
  <2> QED BY <2>1, <2>2
<1> QED BY <1>1, <1>4, <1>8, <1>9, <1>10, AgreedIInv

\* set_token_permission changes the permission on the list and in the map.
LEMMA SetPermissionIInv ==
    ASSUME IInv, NEW w \in Worker, SetTokenPermission(w)
    PROVE  IInv'
<1> DEFINE tok == call[w].token
<1> DEFINE p == call[w].perm
<1>1. /\ tok \in Token /\ p \in Permission /\ HoldsBoth(w) /\ Return(w)
      /\ holder["sessions"] = w /\ ~Removing(w)
  BY DEF SetTokenPermission, IInv, TypeOK, Call, HoldsBoth, Lock, Removing
<1>2. \A t \in Token : token_map[t] # None => Listed(token_map[t].sid, t)
  BY <1>1, Settled
<1>3. CASE token_map[tok] = None
  <2>1. UNCHANGED <<sessions, token_map>>
    BY <1>3 DEF SetTokenPermission
  <2> QED BY <1>1, <2>1, NothingIInv
<1>4. CASE token_map[tok] # None
  <2> DEFINE z == token_map[tok].sid
  <2>1. z \in Sid /\ Listed(z, tok) /\ sessions[z] # None
        /\ sessions[z] \in SessionInfo /\ token_map[tok] \in Grant
    BY <1>1, <1>2, <1>4, OneOwner DEF IInv, TypeOK, Grant
  <2>2. /\ sessions' = [sessions EXCEPT ![z].tokens[tok] = p]
        /\ token_map' = [token_map EXCEPT ![tok].perm = p]
    <3>1. /\ token_map' = [token_map EXCEPT ![tok].perm = p]
          /\ sessions' = [s \in Sid |->
                            IF s = z /\ tok \in TokensOf(s)
                            THEN [sessions[s] EXCEPT !.tokens[tok] = p]
                            ELSE sessions[s]]
      BY <1>4 DEF SetTokenPermission
    <3> QED BY <2>1, <3>1 DEF IInv, TypeOK, Listed
  <2>3. /\ sessions'[z] \in SessionInfo
        /\ sessions'[z].tokens = [sessions[z].tokens EXCEPT ![tok] = p]
        /\ \A s \in Sid : s # z => sessions'[s] = sessions[s]
        /\ sessions' \in [Sid -> SessionInfo \cup {None}]
    BY <1>1, <2>1, <2>2 DEF IInv, TypeOK, SessionInfo, Tokens
  <2>4. /\ token_map'[tok] = [sid |-> z, perm |-> p]
        /\ \A t \in Token : t # tok => token_map'[t] = token_map[t]
        /\ token_map' \in [Token -> Grant \cup {None}]
    BY <1>1, <2>1, <2>2 DEF IInv, TypeOK, Grant
  <2>5. \A s \in Sid : TokensOf(s)' = TokensOf(s)
    <3>1. Named(sessions'[z].tokens) = Named(sessions[z].tokens)
      <4>1. sessions[z].tokens[tok] # NoPerm /\ p # NoPerm
        BY <1>1, <2>1 DEF Listed, TokensOf, Named, Permission, NoPerm
      <4>2. sessions[z].tokens \in Tokens
        BY <2>1 DEF SessionInfo
      <4> QED BY <1>1, <2>3, <4>1, <4>2 DEF Named, Tokens
    <3> QED BY <2>1, <2>3, <3>1, NoneAssumption DEF TokensOf
  <2>6. ListedInv'
    <3> SUFFICES ASSUME NEW s \in Sid, NEW t \in Token, t \in TokensOf(s)'
                 PROVE  token_map'[t] = [sid |-> s,
                                         perm |-> sessions'[s].tokens[t]]
      BY DEF ListedInv, Listed
    <3>1. Listed(s, t)
      BY <2>5 DEF Listed
    <3>2. token_map[t] = [sid |-> s, perm |-> sessions[s].tokens[t]]
          /\ token_map[t].sid = s
      BY <3>1, OneOwner
    <3>3. CASE t = tok
      <4>1. s = z
        BY <3>2, <3>3
      <4>2. sessions'[z].tokens[tok] = p
        BY <1>1, <2>1, <2>3 DEF SessionInfo, Tokens
      <4> QED BY <2>4, <3>3, <4>1, <4>2
    <3>4. CASE t # tok
      <4>1. sessions'[s].tokens[t] = sessions[s].tokens[t]
        BY <2>1, <2>3, <3>4 DEF SessionInfo, Tokens
      <4> QED BY <2>4, <3>2, <3>4, <4>1
    <3> QED BY <3>3, <3>4
  <2>7. \A t \in Token, s \in Sid :
           token_map'[t] # None /\ token_map'[t].sid = s => Listed(s, t)'
    <3> SUFFICES ASSUME NEW t \in Token, NEW s \in Sid, token_map'[t] # None,
                        token_map'[t].sid = s
                 PROVE  t \in TokensOf(s)
      BY <2>5 DEF Listed
    <3>1. CASE t = tok
      <4>1. s = z
        BY <2>4, <3>1
      <4> QED BY <2>1, <3>1, <4>1 DEF Listed
    <3>2. CASE t # tok
      BY <1>2, <2>4, <3>2 DEF Listed
    <3> QED BY <3>1, <3>2
  <2> QED BY <1>1, <2>3, <2>4, <2>6, <2>7, AgreedIInv
<1> QED BY <1>3, <1>4

-----------------------------------------------------------------------------
(* The theorems                                                            *)

\* IInv is inductive.
LEMMA NextIInv == IInv /\ [Next]_vars => IInv'
<1> SUFFICES ASSUME IInv, [Next]_vars PROVE IInv'
  OBVIOUS
<1>1. CASE UNCHANGED vars
  BY <1>1 DEF vars, IInv, TypeOK, LockInv, ListedInv, MappedInv, RemovalInv,
              Removing, Listed, TokensOf
<1>2. ASSUME NEW w \in Worker, Invoke(w) PROVE IInv'
  BY <1>2, InvokeIInv
<1>3. ASSUME NEW w \in Worker, TakeFirst(w) \/ TakeSecond(w) PROVE IInv'
  BY <1>3, TakeIInv
<1>4. ASSUME NEW w \in Worker,
             RemoveMissing(w) \/ RegenerateNothing(w) \/ MintingExhausted(w)
      PROVE  IInv'
  <2>1. /\ UNCHANGED <<sessions, token_map>> /\ Return(w) /\ ~Removing(w)
        /\ holder["sessions"] = w
    BY <1>4 DEF RemoveMissing, RegenerateNothing, MintingExhausted, HoldsBoth,
                Lock, Removing
  <2> QED BY <2>1, NothingIInv
<1> QED BY <1>1, <1>2, <1>3, <1>4, RegisterIInv, RemoveEntryIInv,
           RemoveTokensIInv, RevokeIInv, RegenerateIInv, SetPermissionIInv
        DEF Next, Advance

\* The registry is always in a state of the inductive invariant.
THEOREM Invariance == Spec => []IInv
BY InitIInv, NextIInv, PTL DEF Spec

\* Each variable of the registry keeps its type.
THEOREM TypeCorrect == Spec => []TypeOK
BY Invariance, PTL DEF IInv

\* With no lock held, `sessions` and `token_map` agree on every token.
THEOREM MapsAgree == Spec => []TokensAgree
<1>1. IInv => TokensAgree
  <2> SUFFICES ASSUME IInv, \A l \in Lock : holder[l] = None PROVE
         /\ \A s \in Sid, t \in Token :
               Listed(s, t) =>
                  token_map[t] = [sid |-> s, perm |-> sessions[s].tokens[t]]
         /\ \A t \in Token : token_map[t] # None => Listed(token_map[t].sid, t)
    BY DEF TokensAgree
  <2>1. \A w \in Worker : ~Removing(w)
    BY NoneAssumption DEF IInv, LockInv, Lock
  <2> QED BY <2>1 DEF IInv, ListedInv, MappedInv
<1> QED BY <1>1, Invariance, PTL

\* Whoever reads token_map, with or without `sessions`, finds no token of a
\* vanished session but those a `remove` is about to drop.
THEOREM NoTear == Spec => []NoTornToken
<1>1. IInv => NoTornToken
  BY DEF IInv, MappedInv, LockInv, NoTornToken, Removing
<1> QED BY <1>1, Invariance, PTL

\* No two calls ever wait for each other's lock.
THEOREM DeadlockFree == Spec => []NoCircularWait
<1>1. IInv => NoCircularWait
  <2> SUFFICES ASSUME IInv, NEW v \in Worker, NEW w \in Worker, v # w,
                      WaitsFor(v, w), WaitsFor(w, v)
               PROVE  FALSE
    BY DEF NoCircularWait
  <2>1. holder["sessions"] = v \/ holder["sessions"] = w
    BY LockOrder DEF WaitsFor
  <2>2. holder["token_map"] # v /\ holder["token_map"] # w
    BY <2>1, LockOrder DEF WaitsFor, IInv, LockInv, Lock
  <2> QED BY <2>1, <2>2, LockOrder DEF WaitsFor, Lock
<1> QED BY <1>1, Invariance, PTL

\* register is a Claim: the sessions it evicts are those displaced, and their
\* lists hold every token granted to them.
LEMMA RegisterIsClaim ==
    ASSUME IInv, NEW w \in Worker, Register(w)
    PROVE  Directory!Claim(call[w].sid, call[w].tokens)
<1> DEFINE c == call[w]
<1>1. /\ c.sid \in Sid /\ c.tokens \in Tokens
      /\ HoldsBoth(w) /\ ~Removing(w)
      /\ token_map' = RegisterTokenMap(c)
  BY DEF Register, IInv, TypeOK, Call, Removing
<1>2. \A t \in Token : token_map[t] # None => Listed(token_map[t].sid, t)
  BY <1>1, Settled
<1>3. \A s \in Sid, t \in Token :
         t \in Directory!Held(s) <=> t \in TokensOf(s)
  BY <1>2, OneOwner DEF Directory!Held, Listed
<1>4. ASSUME NEW t \in Token
      PROVE  (\E s \in Evicted(c) : t \in TokensOf(s))
                <=> (\E z \in Directory!Displaced(c.sid, c.tokens) :
                        t \in Directory!Held(z))
  <2>1. ASSUME NEW s \in Evicted(c), t \in TokensOf(s)
        PROVE  s \in Directory!Displaced(c.sid, c.tokens)
    BY <2>1 DEF Evicted, Directory!Displaced, Directory!Held, Directory!NoPerm,
                Named, NoPerm
  <2>2. ASSUME NEW z \in Directory!Displaced(c.sid, c.tokens), t \in TokensOf(z)
        PROVE  z \in Evicted(c)
    <3>1. sessions[z] # None
      BY <2>2 DEF TokensOf
    <3> QED BY <1>1, <2>2, <3>1 DEF Evicted, Directory!Displaced,
               Directory!Held, Directory!NoPerm, Named, NoPerm
  <2>3. Evicted(c) \subseteq Sid
        /\ Directory!Displaced(c.sid, c.tokens) \subseteq Sid
    BY <1>1 DEF Evicted, Directory!Displaced
  <2> QED BY <1>3, <2>1, <2>2, <2>3
<1> QED BY <1>1, <1>4 DEF Directory!Claim, RegisterTokenMap, Directory!NoPerm,
                          Named, NoPerm

\* remove is a Drop, at its second half.
LEMMA RemoveIsDrop ==
    ASSUME IInv, NEW w \in Worker, RemoveTokens(w)
    PROVE  Directory!Drop(call[w].sid) /\ call[w].sid \in Sid
<1>1. Removing(w) /\ call[w].sid \in Sid
  BY DEF RemoveTokens, Removing, IInv, TypeOK, Call
<1>2. \A t \in Token : t \in Named(call[w].tokens)
                          <=> t \in Directory!Held(call[w].sid)
  BY <1>1 DEF IInv, RemovalInv, Directory!Held
<1> QED BY <1>1, <1>2 DEF RemoveTokens, Directory!Drop

\* regenerate_session is a Rotate: the new tokens are granted to nobody, and
\* the session's list holds every token granted to it.
LEMMA RegenerateIsRotate ==
    ASSUME IInv, NEW w \in Worker, RegenerateSession(w)
    PROVE  \E s \in Sid, iss \in Tokens : Directory!Rotate(s, iss)
<1> DEFINE z == call[w].sid
<1>1. z \in Sid /\ HoldsBoth(w) /\ ~Removing(w)
  BY DEF RegenerateSession, IInv, TypeOK, Call, Removing
<1>2. \A t \in Token : token_map[t] # None => Listed(token_map[t].sid, t)
  BY <1>1, Settled
<1>3. \A t \in Token : t \in Directory!Held(z) <=> t \in TokensOf(z)
  BY <1>1, <1>2, OneOwner DEF Directory!Held, Listed
<1>4. PICK toks \in Tokens :
         /\ \A t \in Named(toks) : token_map[t] = None
         /\ token_map' = RegenerateTokenMap(z, toks)
  BY DEF RegenerateSession, Rotated, Mintable, Named
<1>5. Directory!Rotate(z, toks)
  BY <1>3, <1>4 DEF Directory!Rotate, RegenerateTokenMap, Named,
                    Directory!NoPerm, NoPerm
<1> QED BY <1>1, <1>5

\* Every step of the registry is an operation on the directory or leaves it
\* alone.
LEMMA StepRefines ==
    ASSUME IInv, [Next]_vars
    PROVE  [Directory!Next]_token_map
<1>1. CASE UNCHANGED vars
  BY <1>1 DEF vars
<1>2. ASSUME NEW w \in Worker, Invoke(w) PROVE token_map' = token_map
  BY <1>2 DEF Invoke, CallRegister, CallRegisterExisting, CallRemove,
              CallRevoke, CallSetPermission, CallRegenerate, Enter
<1>3. ASSUME NEW w \in Worker,
             \/ TakeFirst(w) \/ TakeSecond(w) \/ RemoveEntry(w)
             \/ RemoveMissing(w) \/ RegenerateNothing(w) \/ MintingExhausted(w)
      PROVE  token_map' = token_map
  BY <1>3 DEF TakeFirst, TakeSecond, RemoveEntry, RemoveMissing,
              RegenerateNothing, MintingExhausted
<1>4. ASSUME NEW w \in Worker, Register(w) PROVE Directory!Next
  <2>1. call[w].sid \in Sid /\ call[w].tokens \in Tokens
    BY <1>4 DEF Register, IInv, TypeOK, Call
  <2> QED BY <1>4, <2>1, RegisterIsClaim
          DEF Directory!Next, Directory!Issue, Tokens, Directory!Permission,
              Permission, Directory!NoPerm, NoPerm
<1>5. ASSUME NEW w \in Worker, RemoveTokens(w) PROVE Directory!Next
  BY <1>5, RemoveIsDrop DEF Directory!Next
<1>6. ASSUME NEW w \in Worker, RegenerateSession(w) PROVE Directory!Next
  BY <1>6, RegenerateIsRotate
  DEF Directory!Next, Directory!Issue, Tokens, Directory!Permission,
      Permission, Directory!NoPerm, NoPerm
<1>7. ASSUME NEW w \in Worker, RevokeToken(w)
      PROVE  Directory!Next \/ token_map' = token_map
  <2>1. /\ call[w].token \in Token
        /\ token_map' = [token_map EXCEPT ![call[w].token] = None]
    BY <1>7 DEF RevokeToken, IInv, TypeOK, Call
  <2>2. CASE token_map[call[w].token] = None
    BY <2>1, <2>2 DEF IInv, TypeOK
  <2>3. CASE token_map[call[w].token] # None
    BY <2>1, <2>3 DEF Directory!Next, Directory!Withdraw
  <2> QED BY <2>2, <2>3
<1>8. ASSUME NEW w \in Worker, SetTokenPermission(w)
      PROVE  Directory!Next \/ token_map' = token_map
  <2>1. call[w].token \in Token /\ call[w].perm \in Permission
    BY <1>8 DEF SetTokenPermission, IInv, TypeOK, Call
  <2> QED BY <1>8, <2>1 DEF SetTokenPermission, Directory!Next,
             Directory!Flip, Directory!Permission, Permission
<1> QED BY <1>1, <1>2, <1>3, <1>4, <1>5, <1>6, <1>7, <1>8 DEF Next, Advance

\* The registry implements the credential directory.
THEOREM Refinement == Spec => RefinesDirectory
<1>1. Init => Directory!Init
  BY DEF Init, Directory!Init
<1>2. IInv /\ [Next]_vars => [Directory!Next]_token_map
  BY StepRefines
<1> QED BY <1>1, <1>2, Invariance, PTL DEF Spec, RefinesDirectory,
                                        Directory!Spec

=============================================================================
