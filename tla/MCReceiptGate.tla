---------------------------- MODULE MCReceiptGate ----------------------------
EXTENDS ReceiptGate, TLC

CONSTANTS r1, r2, c1, c2, p1, p2

MCPaths == {<<"acme">>, <<"acme", "bot">>}
OnePath == {<<"acme", "bot">>}
GateSymmetry == Permutations({c1, c2}) \cup Permutations({r1, r2})
=============================================================================
