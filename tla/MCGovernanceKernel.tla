-------------------------- MODULE MCGovernanceKernel --------------------------
EXTENDS GovernanceKernel, TLC

CONSTANTS r1, r2, r3, k1, k2, t1, p1

Acme == <<"acme">>
Bot == <<"acme", "bot">>
MCPaths == {Acme, Bot}
Solo == <<"solo">>
SoloOnly == {Solo}

Read == <<"data", "read">>
Write == <<"data", "write">>

\* A manifest allows everything, narrows the bot to reads or to writes, or
\* forbids its writes and asks for approval of its reads.
Perms(allowed, forbidden, approval) ==
  [allowed |-> allowed, forbidden |-> forbidden, requires_approval |-> approval]

Open == [id |-> "open", agents |-> <<>>, default |-> Perms({Wildcard}, {}, {})]
ReadOnly == [id |-> "readonly", agents |-> [a \in {"bot"} |-> Perms({<<"data", "read">>}, {}, {})],
             default |-> NoPermissions]
Supervised == [id |-> "supervised", agents |-> [a \in {"bot"} |-> Perms(Absent, {<<"*", "write">>}, {Read})],
               default |-> NoPermissions]

Propose(path, action, delta) ==
  [path |-> path, action |-> action, params |-> "h1", delta |-> delta]

AuthorityProposals == {Propose(Bot, Read, 1), Propose(Bot, Write, 1)}
WriteOnly == [id |-> "writeonly", agents |-> [a \in {"bot"} |-> Perms({Write}, {}, {})],
              default |-> NoPermissions]
AuthorityManifests == {Open, ReadOnly, Supervised}
DisjointManifests == {ReadOnly, WriteOnly}
WindowProposals == {Propose(Solo, Read, d) : d \in {1, 2}}
WindowManifests == {Open}
BudgetRequest(path) ==
  {[path |-> path, scope |-> {Read}, maxSingle |-> 1, budget |-> b, duration |-> 1] : b \in {2, 3}}
BotBudget == BudgetRequest(Bot)
OmegaOne == [path \in MCPaths |-> 1]
OmegaTwo == [path \in SoloOnly |-> 2]
KernelSymmetry == Permutations({k1, k2}) \cup Permutations({r1, r2, r3})
NoTokenRequests == {}
Names == {Read, Write}
=============================================================================
