---------------------------- MODULE MCTcpTunnel ----------------------------
EXTENDS TcpTunnel, TLC

CONSTANTS c1, c2

\* One tunnel with bytes in both directions, and a POST that fails or a second
\* session of the agent; two that carry none and compete for the only slot.
Carries == [conns |-> {c1}, msgs |-> 2, sessions |-> 1, failures |-> 1, lost |-> 0]
Returns == [Carries EXCEPT !.sessions = 2, !.msgs = 1]
Compete == [conns |-> {c1, c2}, msgs |-> 0, sessions |-> 1, failures |-> 0, lost |-> 1]
MCScenes == {Carries, Returns, Compete}
=============================================================================
