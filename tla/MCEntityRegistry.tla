--------------------------- MODULE MCEntityRegistry ---------------------------
EXTENDS EntityRegistry, TLC

Read == <<"data", "read">>
Write == <<"data", "write">>

\* "-x" stands for a segment the pattern rejects, "Acme" for one in upper case.
MCValidSegments == {"acme", "Acme", "desk", "bot"}
MCLower == [s \in MCValidSegments |-> IF s = "Acme" THEN "acme" ELSE s]

Rooted(parts) == [rooted |-> TRUE, parts |-> parts]
Unrooted(parts) == [rooted |-> FALSE, parts |-> parts]

Acme == Rooted(<<"acme">>)
UpperAcme == Rooted(<<"Acme">>)
Desk == Rooted(<<"acme", "desk">>)
DeskTrailing == Rooted(<<"acme", "desk", "">>)
DeskUnrooted == Unrooted(<<"acme", "desk">>)
Bot == Rooted(<<"acme", "desk", "bot">>)
BotDoubled == Rooted(<<"acme", "", "desk", "bot">>)
BotTrailing == Rooted(<<"acme", "desk", "bot", "">>)
DeepBot == Rooted(<<"acme", "desk", "bot", "bot">>)
UpperBot == Rooted(<<"Acme", "desk", "bot">>)
BadBot == Rooted(<<"acme", "-x">>)
Slash == Rooted(<<"">>)

MCSpellings == {Acme, UpperAcme, Desk, DeskTrailing, DeskUnrooted, Bot, BotDoubled,
                BotTrailing, DeepBot, UpperBot, BadBot, Slash}
MCRegistered == {Acme, Desk, Bot, BotTrailing, DeepBot}
MCRetractable == {UpperAcme, Desk, BotDoubled}

\* A manifest allows everything, narrows the bot to reads, to writes or to
\* what a pattern matches, or forbids its writes and asks for approval of its
\* reads.
Perms(allowed, forbidden, approval) ==
  [allowed |-> allowed, forbidden |-> forbidden, requires_approval |-> approval]
ForBot(id, perms) == [id |-> id, agents |-> [a \in {"bot"} |-> perms], default |-> NoPermissions]

Open == [id |-> "open", agents |-> <<>>, default |-> Perms({Wildcard}, {}, {})]
ReadOnly == ForBot("readonly", Perms({Read}, {}, {}))
WriteOnly == ForBot("writeonly", Perms({Write}, {}, {}))
AnyData == ForBot("anydata", Perms({<<"data", "*">>}, {}, {}))
Supervised == ForBot("supervised", Perms(Absent, {<<"*", "write">>}, {Read}))

MCManifests == {Open, ReadOnly, WriteOnly, AnyData, Supervised}
MCProposed == {[action |-> a, delta |-> 1] : a \in {Read, Write}}
=============================================================================
