---------------------------- MODULE EntityRegistry ----------------------------
(***************************************************************************)
(* What the kernel keeps per entity path, retractions and authority        *)
(* manifests, in stores that take a path as it is spelled (storage/        *)
(* memory.ts), and the decision that kernel.evaluate draws from them.  No  *)
(* operation that fills the stores validates or normalises a path.         *)
(***************************************************************************)
EXTENDS PathSpelling, PolicyEvaluator

CONSTANTS
  Spellings,   \* the spellings in use
  Registered,  \* those under which a manifest may be registered
  Retractable, \* those under which a path may be retracted
  Manifests,
  Proposed     \* the [action, delta] of proposals

ASSUME RegistryAssumption ==
  /\ Spellings \subseteq [rooted : BOOLEAN, parts : Seq(STRING)]
  /\ Registered \subseteq Spellings /\ Retractable \subseteq Spellings
  /\ NoManifest \notin Manifests
  /\ \A m \in Manifests : \A agent \in DOMAIN m.agents : m.agents[agent] # NoPermissions

VARIABLES
  retractions, \* the RetractionStore
  manifestMap  \* the ManifestStore: spelling -> manifest

vars == <<retractions, manifestMap>>

TypeOK ==
  /\ retractions \subseteq Retractable
  /\ manifestMap \in [Registered -> Manifests \cup {NoManifest}]

Init ==
  /\ retractions = {}
  /\ manifestMap = [path \in Registered |-> NoManifest]

Retract(path) == retractions' = retractions \cup {path} /\ UNCHANGED manifestMap

Reinstate(path) == retractions' = retractions \ {path} /\ UNCHANGED manifestMap

\* Mutant of RegisterManifest: the key is stored for the value.
RegisterKey(path, m) ==
  manifestMap' = [manifestMap EXCEPT ![path] = path] /\ UNCHANGED retractions

RegisterManifest(path, m) ==
  manifestMap' = [manifestMap EXCEPT ![path] = m] /\ UNCHANGED retractions

Next ==
  \/ \E path \in Retractable : Retract(path) \/ Reinstate(path)
  \/ \E path \in Registered, m \in Manifests : RegisterManifest(path, m)

Spec == Init /\ [][Next]_vars

\* Mutant of Retracted: the cascade runs upwards.
RetractedUpwards(path) ==
  path \in retractions \/ \E listed \in retractions : path \in GetAncestorPaths(listed)

\* RetractionStore.isRetracted; for an invalid path that is not listed itself
\* getAncestorPaths throws.
Retracted(path) == path \in retractions \/ GetAncestorPaths(path) \cap retractions # {}

ManifestOf(path) == IF path \in Registered THEN manifestMap[path] ELSE NoManifest

\* Mutant of ChainOf: the walk goes from the path up to the root.
LeafFirst(path) ==
  LET segments == Segments(path)
      own == Len(segments)
      at(i) == IF i = own THEN path ELSE Canonical(SubSeq(segments, 1, i))
  IN Without([i \in 1 .. own |-> ManifestOf(at(own + 1 - i))], NoManifest)

\* ManifestStore.getInheritanceChain: the ancestors in their canonical
\* spelling, root first, then the path as it is spelled.
ChainOf(path) ==
  LET segments == Segments(path)
      own == Len(segments)
      at(i) == IF i = own THEN path ELSE Canonical(SubSeq(segments, 1, i))
  IN Without([i \in 1 .. own |-> ManifestOf(at(i))], NoManifest)

AuthorityAt(path) == MergeChain(ChainOf(path))

\* Mutant of AgentOf: the last part, which is empty behind a trailing slash.
LastPart(path) == Last(path.parts)

\* extractAgentId
AgentOf(path) == Last(Segments(path))

PermissionsUnder(authority, agent) == AgentPermissions(authority, <<agent>>)

PermissionsOf(path) == PermissionsUnder(AuthorityAt(path), AgentOf(path))

\* evaluate from its retraction check to the decision; an invalid path throws
\* on the way.
Decision(path, proposal) ==
  IF path \in retractions THEN "retracted"
  ELSE IF ~ValidateEntityPath(path) THEN "invalid"
  ELSE IF Retracted(path) THEN "retracted"
  ELSE Outcome(proposal.action, proposal.delta, PermissionsOf(path))
-----------------------------------------------------------------------------
(***************************************************************************)
(* Properties                                                              *)
(***************************************************************************)

Valid == {path \in Spellings : ValidateEntityPath(path)}

IsCanonical(path) == path = NormalizeEntityPath(path)

IsLowerCase(path) == Segments(path) = NormalizeEntityPath(path).parts

\* A retraction written in the canonical spelling reaches everything below it,
\* and the path itself, however many slashes a lower-case descendant is
\* spelled with (architecture 8.3).  For other spellings it need not.
RetractionCascades ==
  \A listed \in retractions \cap Valid, path \in Valid :
    /\ IsCanonical(listed) /\ IsLowerCase(path)
    /\ IsAncestorOf(listed, path) => GetPathDepth(listed) < GetPathDepth(path)
    /\ IsWithinJurisdiction(listed, path)
    => \A proposal \in Proposed : Decision(path, proposal) = "retracted"

\* Whatever the spellings, a path is refused as retracted only for itself or
\* for a retracted ancestor, and no longer than that one is listed.
NoStrayRetraction ==
  \A path \in Valid : Retracted(path) =>
    \E listed \in retractions \cap Valid : listed = path \/ IsAncestorOf(listed, path)

\* Two spellings of one entity that differ in slashes are treated alike,
\* except for what is recorded under one of the two spellings itself.
SlashesMatterForOwnRecordsOnly ==
  \A path \in Valid :
    LET canonical == Canonical(Segments(path))
    IN /\ path \in retractions <=> canonical \in retractions
       /\ ManifestOf(path) = ManifestOf(canonical)
       => \A proposal \in Proposed : Decision(path, proposal) = Decision(canonical, proposal)

\* The chain an authority is merged from extends the chain of every ancestor:
\* however a path is spelled, none of its ancestors' manifests is left out, and
\* its own comes last.
ChainsExtend ==
  \A path \in Valid : \A ancestor \in GetAncestorPaths(path) :
    IsPrefix(ChainOf(ancestor), ChainOf(path))

\* A manifest within the depth limit of a path's chain binds its agent, under
\* every spelling and whatever the manifests above and below it say: what the
\* manifest forbids the agent is denied, and what it makes subject to approval
\* is not allowed without.
ManifestsBind ==
  \A path \in Valid, proposal \in Proposed :
    LET agent == AgentOf(path)
        binding == {ChainOf(path)[i] : i \in 1 .. Min({Len(ChainOf(path)), MaxInheritanceDepth})}
        outcome == Outcome(proposal.action, proposal.delta, PermissionsOf(path))
    IN \A m \in {n \in binding : agent \in DOMAIN n.agents} :
         /\ MatchesAnyPattern(proposal.action, m.agents[agent].forbidden) => outcome = "denied"
         /\ MatchesAnyPattern(proposal.action, m.agents[agent].requires_approval)
              => outcome # "allowed"

\* What the authority of an ancestor forbids an agent, or makes it ask
\* approval for, no manifest further down the chain gives back, under no
\* spelling of the path; nor does one admit an agent the authority of an
\* ancestor has no permissions for.
RestrictionsAreInherited ==
  \A path \in Valid : \A ancestor \in GetAncestorPaths(path) :
    LET above == PermissionsUnder(AuthorityAt(ancestor), AgentOf(path))
        below == PermissionsOf(path)
    IN \A proposal \in Proposed :
         IF above = NoPermissions
           THEN AuthorityAt(ancestor) # NoManifest =>
                  Denied(proposal.action, proposal.delta, below)
           ELSE /\ MatchesAnyPattern(proposal.action, above.forbidden) =>
                     MatchesAnyPattern(proposal.action, below.forbidden)
                /\ MatchesAnyPattern(proposal.action, above.requires_approval) =>
                     MatchesAnyPattern(proposal.action, below.requires_approval)

Literal(patterns) == \A p \in patterns : p[1] # "*" /\ p[2] # "*"

NamedOneByOne(permissions) ==
  permissions = NoPermissions \/ permissions.allowed = Absent \/ Literal(permissions.allowed)

\* What the documentation promises of every child manifest holds where the
\* manifests below an ancestor's name their actions one by one and the merged
\* list is not empty: nothing is then allowed that the authority of the
\* ancestor does not allow.
LiteralListsOnlyRestrict ==
  \A path \in Valid : \A ancestor \in GetAncestorPaths(path) :
    LET agent == AgentOf(path)
        chain == ChainOf(path)
        above == PermissionsUnder(AuthorityAt(ancestor), agent)
        below == PermissionsOf(path)
    IN /\ above # NoPermissions /\ below.allowed \notin {Absent, {}}
       /\ \A i \in Len(ChainOf(ancestor)) + 1 .. Len(chain) :
            NamedOneByOne(PermissionsUnder(chain[i], agent))
       => \A proposal \in Proposed :
            Permits(below, proposal.action) => Permits(above, proposal.action)
=============================================================================
