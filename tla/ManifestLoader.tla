---------------------------- MODULE ManifestLoader ----------------------------
(***************************************************************************)
(* Authority manifests and their restrictive merge along the inheritance   *)
(* chain of a path (governance-kernel/manifest-loader.ts), with the action *)
(* patterns of types/policy.ts.  A name or pattern is a pair <<domain,     *)
(* operation>>; "*" stands alone, before the dot or after it.              *)
(***************************************************************************)
EXTENDS EntityPaths, SequencesExt

CONSTANTS
  Absent,              \* an optional list that a manifest leaves out
  NoPermissions, NoManifest,
  MaxInheritanceDepth  \* MAX_INHERITANCE_DEPTH, 10 in the code

ASSUME DepthAssumption == MaxInheritanceDepth \in Nat \ {0}

Wildcard == <<"*", "*">>

\* matchActionPattern: x is an action, or a pattern read as if it were one.
MatchActionPattern(x, pattern) ==
  \A i \in 1 .. 2 : pattern[i] = "*" \/ x[i] = pattern[i]

MatchesAnyPattern(x, patterns) == \E p \in patterns : MatchActionPattern(x, p)

\* An absent forbidden or requires_approval list acts as an empty one.
NoChange == [allowed |-> Absent, forbidden |-> {}, requires_approval |-> {}]
DenyAll == [allowed |-> {}, forbidden |-> {Wildcard}, requires_approval |-> {}]

\* Mutant of MergePermissions: the child overrides its parent.
ChildReplaces(parent, child) == child

\* mergePermissionsRestrictive, for the lists that decide an outcome.
MergePermissions(parent, child) ==
  [allowed |->
     IF child.allowed = Absent THEN parent.allowed
     ELSE IF parent.allowed = Absent THEN {}
     ELSE IF Wildcard \in parent.allowed THEN child.allowed
     ELSE {a \in child.allowed :
             \E p \in parent.allowed : MatchActionPattern(a, p) \/ MatchActionPattern(p, a)},
   forbidden |-> parent.forbidden \cup child.forbidden,
   requires_approval |-> parent.requires_approval \cup child.requires_approval]

\* mergeManifestsRestrictive: an agent the parent does not know starts from
\* the parent's default permissions.
MergeManifests(parent, child) ==
  LET baseline == IF parent.default = NoPermissions THEN DenyAll ELSE parent.default
      inherited(a) == IF a \in DOMAIN parent.agents THEN parent.agents[a] ELSE baseline
  IN [id |-> child.id,
      agents |-> [a \in DOMAIN parent.agents \cup DOMAIN child.agents |->
                    IF a \in DOMAIN child.agents
                      THEN MergePermissions(inherited(a), child.agents[a])
                      ELSE parent.agents[a]],
      default |-> MergePermissions(baseline,
                    IF child.default = NoPermissions THEN NoChange ELSE child.default)]

\* ManifestStore.getInheritanceChain: the manifests of the path's ancestors
\* that have one, root first, then its own.
InheritanceChain(manifests, path) ==
  Without([i \in 1 .. Len(path) |-> manifests[SubSeq(path, 1, i)]], NoManifest)

\* Mutant of Depth: the limit cuts off one manifest too many.
DepthTooShort(chain) ==
  IF Len(chain) < MaxInheritanceDepth THEN Len(chain) ELSE MaxInheritanceDepth - 1

\* Manifests beyond the depth limit, the ones nearest the path, are ignored.
Depth(chain) ==
  IF Len(chain) < MaxInheritanceDepth THEN Len(chain) ELSE MaxInheritanceDepth

\* The authority after each of the first manifests of a chain.
EffectiveAlong(chain) ==
  LET effective[i \in 1 .. Depth(chain)] ==
        IF i = 1 THEN chain[1] ELSE MergeManifests(effective[i - 1], chain[i])
  IN effective

MergeChain(chain) ==
  IF chain = <<>> THEN NoManifest ELSE EffectiveAlong(chain)[Depth(chain)]

ResolveEffectiveAuthority(manifests, path) == MergeChain(InheritanceChain(manifests, path))

\* getAgentPermissions; the agent id is the last segment of the path.
AgentPermissions(authority, path) ==
  IF authority = NoManifest THEN NoPermissions
  ELSE IF Last(path) \in DOMAIN authority.agents THEN authority.agents[Last(path)]
  ELSE authority.default
=============================================================================
