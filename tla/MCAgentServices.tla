---- MODULE MCAgentServices ----
(* Downloads of a file of two chunks: whole, an inner range, one past the end; *)
(* uploads of two chunks to one path; tool calls; long-running commands; a    *)
(* page of two chunks and two empty ones; requests under one map, among maps  *)
(* of two targets; two that wait for tokens.                                   *)
EXTENDS AgentServices, TLC

CONSTANTS g1, p1, p2, b1, c1, c2, e1, e2, w1, w2, w3,
    v1, v2, v3, m1, m2, m3, a1, a2

MCRanges == {Whole, [from |-> 1, to |-> 1], [from |-> 2, to |-> 9]}
Together(users, drops, inputs) ==
    [users |-> users, drops |-> drops, inputs |-> inputs, outputs |-> Outputs]
MCRequests ==
    {Together({g1}, 1, 0), Together({g1, p1}, 0, 0), Together({p1, p2}, 1, 0),
     Together({p1, b1}, 1, 0), Together({c1, c2}, 1, 0), Together({c1, e1}, 0, 0),
     Together({e1}, 1, 2), [Together({e1, e2}, 0, 0) EXCEPT !.outputs = {"out"}],
     Together({w1}, 1, 0), Together({w2, w3}, 0, 0),
     Together({m1, v1, v2}, 0, 0), Together({m1, v1, v3}, 0, 0),
     Together({m1, m2, m3, v1}, 1, 0),
     Together({a1, a2}, 0, 0)}
MCPageLen == w1 :> 2 @@ w2 :> 0 @@ w3 :> 0
MCVisitKind == v1 :> "plain" @@ v2 :> "body" @@ v3 :> "upgrade"
MCVisitMap == v1 :> m1 @@ v2 :> m1 @@ v3 :> m1
MCAnswerLen == v1 :> 2 @@ v2 :> 1 @@ v3 :> 1
MCMapTarget == m1 :> "router" @@ m2 :> "router" @@ m3 :> "printer"
MCNeed == a1 :> 3 @@ a2 :> 2
====
