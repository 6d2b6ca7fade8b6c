----------------------------- MODULE MCTokenGate -----------------------------
EXTENDS TokenGate, TLC

CONSTANTS t1, u1, u2, p1, p2

MCPaths == {<<"acme">>, <<"acme", "bot">>}
OnePath == {<<"acme", "bot">>}
MCTokenRequests ==
  {[path |-> <<"acme", "bot">>, scope |-> {"read"}, maxSingle |-> m, budget |-> 3,
    duration |-> 1] : m \in {1, 2}}
UseSymmetry == Permutations({u1, u2})
=============================================================================
