------------------------- MODULE CredentialDirectory -------------------------
(***************************************************************************)
(* What the relay promises about credentials, stated over one map: a token *)
(* is granted to at most one session, with one permission.  Everything a   *)
(* browser, an MCP client or an agent may do hangs on that map.            *)
(*                                                                         *)
(* src/relay/session.rs keeps two maps behind two locks to provide it; the *)
(* module SessionRegistry models them and implements this one.             *)
(***************************************************************************)
CONSTANTS Token,      \* every string that is ever a token
          Sid,        \* session ids
          NoGrant     \* what a token that is granted to no session maps to

VARIABLE grant        \* Token -> the session and permission it is good for

Permission == {"rw", "ro"}

\* The token sets a claim may bring: a permission for each token it names.
NoPerm == "none"

Issue == [Token -> Permission \cup {NoPerm}]

Held(s) == {t \in Token : grant[t] # NoGrant /\ grant[t].sid = s}

\* The sessions that lose their credentials when s is claimed with the tokens
\* of iss: s itself, and every session one of these tokens is granted to.
Displaced(s, iss) ==
    {s} \cup {z \in Sid : \E t \in Held(z) : iss[t] # NoPerm}

-----------------------------------------------------------------------------

Init == grant = [t \in Token |-> NoGrant]

\* An agent claims session s: the newest incarnation owns it and its tokens.
Claim(s, iss) ==
    grant' = [t \in Token |->
                 IF iss[t] # NoPerm
                 THEN [sid |-> s, perm |-> iss[t]]
                 ELSE IF \E z \in Displaced(s, iss) : t \in Held(z)
                      THEN NoGrant
                      ELSE grant[t]]

\* The session is gone: none of its tokens is good any more.
Drop(s) ==
    grant' = [t \in Token |-> IF t \in Held(s) THEN NoGrant ELSE grant[t]]

Withdraw(t) ==
    /\ grant[t] # NoGrant
    /\ grant' = [grant EXCEPT ![t] = NoGrant]

Flip(t, p) ==
    /\ grant[t] # NoGrant
    /\ grant' = [grant EXCEPT ![t].perm = p]

\* All the tokens of s are replaced by the ungranted tokens of iss.
Rotate(s, iss) ==
    /\ \A t \in Token : iss[t] # NoPerm => grant[t] = NoGrant
    /\ grant' = [t \in Token |->
                    IF iss[t] # NoPerm
                    THEN [sid |-> s, perm |-> iss[t]]
                    ELSE IF t \in Held(s) THEN NoGrant ELSE grant[t]]

Next ==
    \/ \E s \in Sid, iss \in Issue : Claim(s, iss) \/ Rotate(s, iss)
    \/ \E s \in Sid : Drop(s)
    \/ \E t \in Token : Withdraw(t) \/ \E p \in Permission : Flip(t, p)

Spec == Init /\ [][Next]_grant

=============================================================================
