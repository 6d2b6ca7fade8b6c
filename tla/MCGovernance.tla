----------------------------- MODULE MCGovernance -----------------------------
EXTENDS Governance, TLC

CONSTANTS r1, r2, r3, k1, c1, c2

Solo == <<"solo">>
SoloOnly == {Solo}
Read == <<"data", "read">>

\* One path whose manifest, once registered, allows the bot to read.
Open ==
  [id |-> "open", agents |-> <<>>,
   default |-> [allowed |-> {Read}, forbidden |-> {}, requires_approval |-> {}]]
MCManifests == {Open}
OmegaOne == [path \in SoloOnly |-> 1]
MCProposals == {[path |-> Solo, action |-> Read, params |-> "h1", delta |-> 1]}
Names == {Read}
GovernanceSymmetry == Permutations({r1, r2, r3}) \cup Permutations({c1, c2})
=============================================================================
