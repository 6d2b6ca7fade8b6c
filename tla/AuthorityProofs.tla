---------------------------- MODULE AuthorityProofs ----------------------------
(***************************************************************************)
(* Proofs about the registry, for every set of spellings, manifests and    *)
(* agents and every depth limit: what the merge along a chain of manifests *)
(* preserves, and what a retraction and a spelling reach.                  *)
(***************************************************************************)
EXTENDS EntityRegistry, DataLemmas

\* What a recursion along the first n manifests of a chain computes.
Follows(eff, chain, n) ==
  eff = [i \in 1 .. n |-> IF i = 1 THEN chain[1] ELSE MergeManifests(eff[i - 1], chain[i])]

LEMMA EffectiveExists ==
  ASSUME NEW chain, NEW n \in Nat
  PROVE  \E eff : Follows(eff, chain, n)
<1> DEFINE S == {k \in Nat : \E eff : Follows(eff, chain, k)}
<1>1. 0 \in S
  <2>1. Follows(<<>>, chain, 0)
    BY DEF Follows
  <2> QED
    BY <2>1
<1>2. ASSUME NEW k \in S PROVE k + 1 \in S
  <2>1. PICK eff : Follows(eff, chain, k)
    OBVIOUS
  <2> DEFINE more == [i \in 1 .. k + 1 |->
                        IF i \in 1 .. k THEN eff[i]
                        ELSE IF i = 1 THEN chain[1] ELSE MergeManifests(eff[i - 1], chain[i])]
  <2>2. ASSUME NEW i \in 1 .. k + 1
        PROVE  more[i] = IF i = 1 THEN chain[1] ELSE MergeManifests(more[i - 1], chain[i])
    BY <2>1 DEF Follows
  <2>3. Follows(more, chain, k + 1)
    <3>1. more = [i \in 1 .. k + 1 |-> more[i]]
      OBVIOUS
    <3> HIDE DEF more
    <3> QED
      BY <2>2, <3>1 DEF Follows
  <2> QED
    BY <2>3
<1>3. S = Nat
  <2> HIDE DEF S
  <2>1. S \subseteq Nat
    BY DEF S
  <2> QED
    BY <1>1, <1>2, <2>1, SetInduction
<1> QED
  BY <1>3

LEMMA EffectiveRecursion ==
  ASSUME NEW chain, Depth(chain) \in Nat
  PROVE  Follows(EffectiveAlong(chain), chain, Depth(chain))
BY EffectiveExists DEF EffectiveAlong, Follows

-----------------------------------------------------------------------------
\* What the theorems assume of the null values: they are no records.
NullIsApart ==
  \A x, y, z : /\ NoPermissions # [allowed |-> x, forbidden |-> y, requires_approval |-> z]
               /\ NoManifest # [id |-> x, agents |-> y, default |-> z]

\* getAgentPermissions of a manifest that exists.
Held(m, agent) == IF agent \in DOMAIN m.agents THEN m.agents[agent] ELSE m.default

WellFormed(m) == \A agent \in DOMAIN m.agents : m.agents[agent] # NoPermissions

\* c takes back nothing that m forbids the agent or asks approval for, and
\* refuses everything to an agent m has no permissions for.
Restricts(m, c, agent) ==
  IF Held(m, agent) # NoPermissions
    THEN /\ Held(c, agent) # NoPermissions
         /\ Held(m, agent).forbidden \subseteq Held(c, agent).forbidden
         /\ Held(m, agent).requires_approval \subseteq Held(c, agent).requires_approval
    ELSE Held(c, agent) = NoPermissions \/ Wildcard \in Held(c, agent).forbidden

LEMMA RestrictsTransitive ==
  ASSUME NEW m, NEW c, NEW d, NEW agent, Restricts(m, c, agent), Restricts(c, d, agent)
  PROVE  Restricts(m, d, agent)
BY DEF Restricts

LEMMA MergedPermissions ==
  ASSUME NullIsApart, NEW parent, NEW child
  PROVE  LET merged == MergePermissions(parent, child)
         IN /\ merged # NoPermissions
            /\ merged.forbidden = parent.forbidden \cup child.forbidden
            /\ merged.requires_approval = parent.requires_approval \cup child.requires_approval
BY DEF MergePermissions, NullIsApart

\* One merge restricts its parent, and binds the agents its child names.
LEMMA MergeRestricts ==
  ASSUME NullIsApart, NEW parent, NEW child, NEW agent, WellFormed(parent)
  PROVE  LET merged == MergeManifests(parent, child)
         IN /\ WellFormed(merged)
            /\ Restricts(parent, merged, agent)
            /\ agent \in DOMAIN child.agents =>
                 /\ Held(merged, agent) # NoPermissions
                 /\ child.agents[agent].forbidden \subseteq Held(merged, agent).forbidden
                 /\ child.agents[agent].requires_approval
                      \subseteq Held(merged, agent).requires_approval
<1> DEFINE merged == MergeManifests(parent, child)
           baseline == IF parent.default = NoPermissions THEN DenyAll ELSE parent.default
           inherited(a) == IF a \in DOMAIN parent.agents THEN parent.agents[a] ELSE baseline
<1>1. /\ DOMAIN merged.agents = DOMAIN parent.agents \cup DOMAIN child.agents
      /\ \A a \in DOMAIN merged.agents :
           merged.agents[a] = IF a \in DOMAIN child.agents
                                THEN MergePermissions(inherited(a), child.agents[a])
                                ELSE parent.agents[a]
      /\ merged.default = MergePermissions(baseline,
           IF child.default = NoPermissions THEN NoChange ELSE child.default)
  BY DEF MergeManifests
<1> HIDE DEF merged
<1>2. WellFormed(merged)
  BY <1>1, MergedPermissions DEF WellFormed
<1>3. CASE agent \in DOMAIN child.agents
  <2>1. Held(merged, agent) = MergePermissions(inherited(agent), child.agents[agent])
    BY <1>1, <1>3 DEF Held
  <2>2. /\ Held(merged, agent) # NoPermissions
        /\ Held(merged, agent).forbidden
             = inherited(agent).forbidden \cup child.agents[agent].forbidden
        /\ Held(merged, agent).requires_approval
             = inherited(agent).requires_approval \cup child.agents[agent].requires_approval
    <3> HIDE DEF inherited
    <3> QED
      BY <2>1, MergedPermissions
  <2>3. inherited(agent) = IF Held(parent, agent) = NoPermissions THEN DenyAll
                                                                  ELSE Held(parent, agent)
    BY DEF Held, WellFormed
  <2>4. Restricts(parent, merged, agent)
    <3> HIDE DEF inherited
    <3> QED
      BY <2>2, <2>3 DEF Restricts, DenyAll
  <2>5. /\ child.agents[agent].forbidden \subseteq Held(merged, agent).forbidden
        /\ child.agents[agent].requires_approval \subseteq Held(merged, agent).requires_approval
    <3> HIDE DEF inherited
    <3> QED
      BY <2>2
  <2> QED
    BY <1>2, <2>2, <2>4, <2>5 DEF merged
<1>4. CASE agent \in DOMAIN parent.agents /\ agent \notin DOMAIN child.agents
  BY <1>1, <1>2, <1>4 DEF Restricts, Held, WellFormed, merged
<1>5. CASE agent \notin DOMAIN parent.agents /\ agent \notin DOMAIN child.agents
  <2> DEFINE below == IF child.default = NoPermissions THEN NoChange ELSE child.default
  <2>1. Held(merged, agent) = MergePermissions(baseline, below) /\ Held(parent, agent) = parent.default
    BY <1>1, <1>5 DEF Held
  <2>2. /\ Held(merged, agent) # NoPermissions
        /\ Held(merged, agent).forbidden = baseline.forbidden \cup below.forbidden
        /\ Held(merged, agent).requires_approval
             = baseline.requires_approval \cup below.requires_approval
    <3> HIDE DEF baseline, below
    <3> QED
      BY <2>1, MergedPermissions
  <2>3. Restricts(parent, merged, agent)
    BY <2>1, <2>2 DEF Restricts, DenyAll
  <2> QED
    BY <1>2, <1>5, <2>3 DEF merged
<1> QED
  BY <1>3, <1>4, <1>5

-----------------------------------------------------------------------------
LEMMA AlongChainWellFormed ==
  ASSUME NullIsApart, NEW chain, NEW n \in Nat, NEW eff, Follows(eff, chain, n),
         \A i \in 1 .. n : WellFormed(chain[i])
  PROVE  \A i \in 1 .. n : WellFormed(eff[i])
<1> DEFINE S == {k \in Nat : k \in 1 .. n => WellFormed(eff[k])}
<1>1. 0 \in S
  OBVIOUS
<1>2. ASSUME NEW k \in S PROVE k + 1 \in S
  <2> SUFFICES ASSUME k + 1 \in 1 .. n PROVE WellFormed(eff[k + 1])
    OBVIOUS
  <2>1. CASE k = 0
    BY <2>1 DEF Follows
  <2>2. CASE k # 0
    <3>1. k \in 1 .. n /\ eff[k + 1] = MergeManifests(eff[k], chain[k + 1])
      BY <2>2 DEF Follows
    <3> QED
      BY <3>1, MergeRestricts
  <2> QED
    BY <2>1, <2>2
<1>3. S = Nat
  <2>1. S \in SUBSET Nat
    OBVIOUS
  <2> HIDE DEF S
  <2> QED
    BY <1>1, <1>2, <2>1, SetInduction
<1> QED
  BY <1>3

\* Further down a chain, the authority only restricts.
LEMMA AlongChainRestricts ==
  ASSUME NullIsApart, NEW chain, NEW n \in Nat, NEW eff, Follows(eff, chain, n),
         \A i \in 1 .. n : WellFormed(chain[i]),
         NEW agent, NEW i \in 1 .. n
  PROVE  \A j \in i .. n : Restricts(eff[i], eff[j], agent)
<1> DEFINE S == {k \in Nat : i + k <= n => Restricts(eff[i], eff[i + k], agent)}
<1>1. 0 \in S
  BY DEF Restricts
<1>2. ASSUME NEW k \in S PROVE k + 1 \in S
  <2> SUFFICES ASSUME i + (k + 1) <= n PROVE Restricts(eff[i], eff[i + (k + 1)], agent)
    OBVIOUS
  <2>1. i + k \in 1 .. n /\ i + (k + 1) \in 1 .. n /\ i + (k + 1) # 1
    OBVIOUS
  <2>2. eff[i + (k + 1)] = MergeManifests(eff[i + k], chain[i + (k + 1)])
    BY <2>1 DEF Follows
  <2>3. WellFormed(eff[i + k])
    BY <2>1, AlongChainWellFormed
  <2>4. Restricts(eff[i + k], eff[i + (k + 1)], agent)
    BY <2>2, <2>3, MergeRestricts
  <2>5. Restricts(eff[i], eff[i + k], agent)
    BY <2>1
  <2> QED
    BY <2>4, <2>5, RestrictsTransitive
<1>3. S = Nat
  <2>1. S \in SUBSET Nat
    OBVIOUS
  <2> HIDE DEF S
  <2> QED
    BY <1>1, <1>2, <2>1, SetInduction
<1>4. ASSUME NEW j \in i .. n PROVE Restricts(eff[i], eff[j], agent)
  <2>1. j - i \in Nat /\ i + (j - i) = j
    OBVIOUS
  <2>2. \A k \in Nat : i + k <= n => Restricts(eff[i], eff[i + k], agent)
    BY <1>3
  <2> HIDE DEF S
  <2>3. i + (j - i) <= n => Restricts(eff[i], eff[i + (j - i)], agent)
    BY <2>1, <2>2
  <2> QED
    BY <2>1, <2>3
<1> QED
  BY <1>4

\* What a manifest of the chain says of an agent binds it at the end.
LEMMA ChainBinds ==
  ASSUME NullIsApart, NEW chain, NEW n \in Nat, NEW eff, Follows(eff, chain, n),
         \A i \in 1 .. n : WellFormed(chain[i]),
         NEW i \in 1 .. n, NEW agent \in DOMAIN chain[i].agents
  PROVE  /\ Held(eff[n], agent) # NoPermissions
         /\ chain[i].agents[agent].forbidden \subseteq Held(eff[n], agent).forbidden
         /\ chain[i].agents[agent].requires_approval
              \subseteq Held(eff[n], agent).requires_approval
<1>1. /\ Held(eff[i], agent) # NoPermissions
      /\ chain[i].agents[agent].forbidden \subseteq Held(eff[i], agent).forbidden
      /\ chain[i].agents[agent].requires_approval
           \subseteq Held(eff[i], agent).requires_approval
  <2>1. CASE i = 1
    BY <2>1 DEF Follows, Held, WellFormed
  <2>2. CASE i # 1
    <3>1. i - 1 \in 1 .. n /\ eff[i] = MergeManifests(eff[i - 1], chain[i])
      BY <2>2 DEF Follows
    <3>2. WellFormed(eff[i - 1])
      BY <3>1, AlongChainWellFormed
    <3> QED
      BY <3>1, <3>2, MergeRestricts
  <2> QED
    BY <2>1, <2>2
<1>2. Restricts(eff[i], eff[n], agent)
  <2>1. \A j \in i .. n : Restricts(eff[i], eff[j], agent)
    BY AlongChainRestricts
  <2>2. n \in i .. n
    OBVIOUS
  <2> QED
    BY <2>1, <2>2
<1> QED
  BY <1>1, <1>2 DEF Restricts

\* Chains that begin alike have the same authority that far.
LEMMA BeginAlike ==
  ASSUME NEW chain, NEW longer, NEW n \in Nat, NEW m \in Nat, n <= m, NEW e, NEW f,
         Follows(e, chain, n), Follows(f, longer, m),
         \A i \in 1 .. n : chain[i] = longer[i]
  PROVE  \A i \in 1 .. n : e[i] = f[i]
<1> DEFINE S == {k \in Nat : k \in 1 .. n => e[k] = f[k]}
<1>1. 0 \in S
  OBVIOUS
<1>2. ASSUME NEW k \in S PROVE k + 1 \in S
  <2> SUFFICES ASSUME k + 1 \in 1 .. n PROVE e[k + 1] = f[k + 1]
    OBVIOUS
  <2>1. CASE k = 0
    BY <2>1 DEF Follows
  <2>2. CASE k # 0
    <3>1. /\ k \in 1 .. n
          /\ e[k + 1] = MergeManifests(e[k], chain[k + 1])
          /\ f[k + 1] = MergeManifests(f[k], longer[k + 1])
      BY <2>2 DEF Follows
    <3> QED
      BY <3>1
  <2> QED
    BY <2>1, <2>2
<1>3. S = Nat
  <2>1. S \in SUBSET Nat
    OBVIOUS
  <2> HIDE DEF S
  <2> QED
    BY <1>1, <1>2, <2>1, SetInduction
<1> QED
  BY <1>3

-----------------------------------------------------------------------------
LEMMA DepthOfChain ==
  ASSUME NEW chain \in Seq(Manifests)
  PROVE  /\ Depth(chain) \in Nat /\ Depth(chain) <= Len(chain)
         /\ Depth(chain) = Min({Len(chain), MaxInheritanceDepth})
         /\ chain # <<>> => Depth(chain) >= 1
<1>1. Len(chain) \in Nat /\ MaxInheritanceDepth \in Nat \ {0} /\ (chain # <<>> => Len(chain) >= 1)
  BY DepthAssumption
<1>2. Depth(chain) \in {Len(chain), MaxInheritanceDepth}
      /\ \A x \in {Len(chain), MaxInheritanceDepth} : Depth(chain) <= x
  BY <1>1 DEF Depth
<1>3. Depth(chain) = Min({Len(chain), MaxInheritanceDepth})
  BY <1>1, <1>2 DEF Min
<1> QED
  BY <1>1, <1>2, <1>3 DEF Depth

\* What a chain of registered manifests merges to.
LEMMA AuthorityOfChain ==
  ASSUME NEW chain \in Seq(Manifests), chain # <<>>
  PROVE  LET eff == EffectiveAlong(chain)
             n == Depth(chain)
         IN /\ Follows(eff, chain, n) /\ n \in Nat /\ n >= 1
            /\ MergeChain(chain) = eff[n]
            /\ \A i \in 1 .. n : WellFormed(chain[i])
<1>1. Depth(chain) \in Nat /\ Depth(chain) <= Len(chain) /\ Depth(chain) >= 1
  BY DepthOfChain
<1>2. \A i \in 1 .. Depth(chain) : chain[i] \in Manifests
  BY <1>1
<1> QED
  BY <1>1, <1>2, EffectiveRecursion, RegistryAssumption DEF MergeChain, WellFormed

LEMMA HeldUnder ==
  ASSUME NEW authority, NEW agent
  PROVE  PermissionsUnder(authority, agent) =
           IF authority = NoManifest THEN NoPermissions ELSE Held(authority, agent)
BY DEF PermissionsUnder, AgentPermissions, Held, Last

LEMMA WildcardMatches ==
  ASSUME NEW x, NEW patterns, Wildcard \in patterns
  PROVE  MatchesAnyPattern(x, patterns)
BY DEF MatchesAnyPattern, MatchActionPattern, Wildcard

\* A chain that extends another restricts its authority.
LEMMA ExtensionRestricts ==
  ASSUME NullIsApart, NEW chain \in Seq(Manifests), NEW longer \in Seq(Manifests),
         chain # <<>>, IsPrefix(chain, longer), NEW agent
  PROVE  /\ Restricts(MergeChain(chain), MergeChain(longer), agent)
         /\ MergeChain(longer) # NoManifest
<1> DEFINE n == Depth(chain)
           m == Depth(longer)
<1>1. \A i \in 1 .. Len(chain) : chain[i] = longer[i]
  BY DEF IsPrefix
<1>2. longer # <<>> /\ Len(chain) <= Len(longer)
  BY DEF IsPrefix
<1>3. n \in Nat /\ m \in Nat /\ n \in 1 .. m /\ n <= Len(chain)
  BY <1>2, DepthAssumption DEF Depth
<1>4. PICK e : Follows(e, chain, n) /\ MergeChain(chain) = e[n]
  BY AuthorityOfChain
<1>5. PICK f : /\ Follows(f, longer, m) /\ MergeChain(longer) = f[m]
               /\ \A i \in 1 .. m : WellFormed(longer[i])
  BY <1>2, AuthorityOfChain
<1> HIDE DEF n, m
<1>6. e[n] = f[n]
  <2>1. /\ n <= m
        /\ \A i \in 1 .. n : chain[i] = longer[i]
    BY <1>1, <1>3
  <2>2. \A i \in 1 .. n : e[i] = f[i]
    BY <1>3, <1>4, <1>5, <2>1, BeginAlike
  <2> QED
    BY <1>3, <2>2
<1>7. Restricts(f[n], f[m], agent)
  <2>1. \A j \in n .. m : Restricts(f[n], f[j], agent)
    BY <1>3, <1>5, AlongChainRestricts
  <2> QED
    BY <1>3, <2>1
<1>8. f[m] # NoManifest
  <2>1. CASE m = 1
    <3>1. f[m] = longer[1] /\ longer[1] \in Manifests
      BY <1>2, <1>5, <2>1 DEF Follows
    <3> QED
      BY <3>1, RegistryAssumption
  <2>2. CASE m # 1
    <3>1. f[m] = MergeManifests(f[m - 1], longer[m])
      BY <1>3, <1>5, <2>2 DEF Follows
    <3> QED
      BY <3>1 DEF MergeManifests, NullIsApart
  <2> QED
    BY <2>1, <2>2
<1> QED
  BY <1>4, <1>5, <1>6, <1>7, <1>8

-----------------------------------------------------------------------------
\* The stores hold what callers put there.
THEOREM RegistryIsTyped == Spec => []TypeOK
<1>1. Init => TypeOK
  BY DEF Init, TypeOK
<1>2. TypeOK /\ [Next]_vars => TypeOK'
  <2> SUFFICES ASSUME TypeOK, [Next]_vars PROVE TypeOK'
    OBVIOUS
  <2>1. CASE UNCHANGED vars
    BY <2>1 DEF TypeOK, vars
  <2>2. ASSUME NEW path \in Retractable, Retract(path) \/ Reinstate(path) PROVE TypeOK'
    BY <2>2 DEF TypeOK, Retract, Reinstate
  <2>3. ASSUME NEW path \in Registered, NEW m \in Manifests, RegisterManifest(path, m)
        PROVE  TypeOK'
    BY <2>3 DEF TypeOK, RegisterManifest
  <2> QED
    BY <2>1, <2>2, <2>3 DEF Next
<1> QED
  BY <1>1, <1>2, PTL DEF Spec

LEMMA SegmentsType ==
  ASSUME NEW path \in Spellings
  PROVE  Segments(path) \in Seq(STRING \ {""})
<1>1. path.parts \in Seq(STRING)
  BY RegistryAssumption
<1> QED
  BY <1>1, WithoutType DEF Segments

LEMMA SegmentsOfCanonical ==
  ASSUME NEW segments \in Seq(STRING \ {""})
  PROVE  Segments(Canonical(segments)) = segments
<1>1. Canonical(segments).parts = segments
  BY DEF Canonical
<1>2. "" \notin STRING \ {""}
  OBVIOUS
<1> QED
  BY <1>1, <1>2, WithoutNothing DEF Segments

\* Beginnings of a sequence.
LEMMA Beginnings ==
  ASSUME NEW S, NEW s \in Seq(S)
  PROVE  /\ Len(s) \in Nat
         /\ \A k \in 1 .. Len(s) - 1 :
              /\ k \in Nat /\ k < Len(s) /\ SubSeq(s, 1, k) \in Seq(S)
              /\ Len(SubSeq(s, 1, k)) = k
              /\ \A i \in 1 .. k : SubSeq(SubSeq(s, 1, k), 1, i) = SubSeq(s, 1, i)
<1>1. Len(s) \in Nat
  OBVIOUS
<1>2. ASSUME NEW k \in 1 .. Len(s) - 1
      PROVE  /\ k \in Nat /\ k < Len(s) /\ SubSeq(s, 1, k) \in Seq(S)
             /\ Len(SubSeq(s, 1, k)) = k
             /\ \A i \in 1 .. k : SubSeq(SubSeq(s, 1, k), 1, i) = SubSeq(s, 1, i)
  OBVIOUS
<1> QED
  BY <1>1, <1>2

\* The manifests the chain of a path is collected from.
Given(path) ==
  [i \in 1 .. Len(Segments(path)) |->
     ManifestOf(IF i = Len(Segments(path)) THEN path
                                          ELSE Canonical(SubSeq(Segments(path), 1, i)))]

LEMMA GivenType ==
  ASSUME TypeOK, NEW path, Segments(path) \in Seq(STRING \ {""})
  PROVE  /\ Given(path) \in Seq(Manifests \cup {NoManifest})
         /\ Len(Given(path)) = Len(Segments(path))
<1>1. \A p : ManifestOf(p) \in Manifests \cup {NoManifest}
  BY DEF TypeOK, ManifestOf
<1>2. Len(Segments(path)) \in Nat
  BY Beginnings
<1> DEFINE n == Len(Segments(path))
           given(i) == ManifestOf(IF i = n THEN path ELSE Canonical(SubSeq(Segments(path), 1, i)))
<1>3. Given(path) = [i \in 1 .. n |-> given(i)]
  BY DEF Given
<1>4. \A i \in 1 .. n : given(i) \in Manifests \cup {NoManifest}
  BY <1>1
<1>5. Given(path) \in [1 .. n -> Manifests \cup {NoManifest}]
  BY <1>3, <1>4
<1> HIDE DEF n
<1>6. n \in Nat
  BY <1>2 DEF n
<1> QED
  BY <1>5, <1>6, FunctionIsSequence DEF n

LEMMA ChainType ==
  ASSUME TypeOK, NEW path, Segments(path) \in Seq(STRING \ {""})
  PROVE  ChainOf(path) \in Seq(Manifests)
<1>1. ChainOf(path) = Without(Given(path), NoManifest)
  BY DEF ChainOf, Given
<1>2. Without(Given(path), NoManifest) \in Seq((Manifests \cup {NoManifest}) \ {NoManifest})
  BY GivenType, WithoutType
<1>3. (Manifests \cup {NoManifest}) \ {NoManifest} = Manifests
  BY RegistryAssumption
<1> QED
  BY <1>1, <1>2, <1>3

\* The chain of an ancestor begins the chain of the path.
LEMMA ChainOfAncestor ==
  ASSUME TypeOK, NEW path \in Spellings, NEW ancestor \in GetAncestorPaths(path)
  PROVE  /\ ChainOf(ancestor) \in Seq(Manifests)
         /\ IsPrefix(ChainOf(ancestor), ChainOf(path))
<1> DEFINE segments == Segments(path)
<1>1. segments \in Seq(STRING \ {""})
  BY SegmentsType
<1>2. PICK k \in 1 .. Len(segments) - 1 : ancestor = Canonical(SubSeq(segments, 1, k))
  BY DEF GetAncestorPaths, Ancestors
<1> DEFINE above == SubSeq(segments, 1, k)
<1> HIDE DEF segments
<1>3. k \in Nat /\ Len(segments) \in Nat /\ k < Len(segments)
  BY <1>1, Beginnings
<1>4. /\ above \in Seq(STRING \ {""}) /\ Len(above) = k
      /\ \A i \in 1 .. k : SubSeq(above, 1, i) = SubSeq(segments, 1, i)
  BY <1>1, Beginnings
<1> HIDE DEF above
<1>5. Segments(ancestor) = above
  BY <1>2, <1>4, SegmentsOfCanonical DEF above
<1>6. /\ Given(ancestor) \in Seq(Manifests \cup {NoManifest}) /\ Len(Given(ancestor)) = k
      /\ Given(path) \in Seq(Manifests \cup {NoManifest}) /\ Len(Given(path)) = Len(segments)
  BY <1>1, <1>4, <1>5, GivenType DEF segments
<1>7. \A i \in 1 .. k : Given(ancestor)[i] = Given(path)[i]
  <2> SUFFICES ASSUME NEW i \in 1 .. k PROVE Given(ancestor)[i] = Given(path)[i]
    OBVIOUS
  <2>1. Given(ancestor)[i] =
          ManifestOf(IF i = k THEN ancestor ELSE Canonical(SubSeq(above, 1, i)))
    BY <1>4, <1>5 DEF Given
  <2>2. i # Len(segments) /\ i \in 1 .. Len(segments)
    BY <1>3
  <2>3. Given(path)[i] = ManifestOf(Canonical(SubSeq(segments, 1, i)))
    BY <2>2 DEF Given, segments
  <2>4. ancestor = Canonical(SubSeq(segments, 1, k))
    BY <1>2
  <2>5. SubSeq(above, 1, i) = SubSeq(segments, 1, i)
    BY <1>4
  <2> QED
    BY <2>1, <2>3, <2>4, <2>5
<1> DEFINE p == Without(Given(ancestor), NoManifest)
           q == Without(Given(path), NoManifest)
<1>8. /\ p \in Seq(Manifests \cup {NoManifest}) /\ q \in Seq(Manifests \cup {NoManifest})
      /\ Len(p) <= Len(q) /\ \A i \in 1 .. Len(p) : p[i] = q[i]
  <2>1. Len(Given(ancestor)) <= Len(Given(path))
    BY <1>3, <1>6
  <2>2. \A i \in 1 .. Len(Given(ancestor)) : Given(ancestor)[i] = Given(path)[i]
    BY <1>6, <1>7
  <2> QED
    BY <1>6, <2>1, <2>2, WithoutPrefix
<1>9. /\ ChainOf(ancestor) = Without(Given(ancestor), NoManifest)
      /\ ChainOf(path) = Without(Given(path), NoManifest)
  BY DEF ChainOf, Given
<1>10. ChainOf(ancestor) \in Seq(Manifests)
  BY <1>4, <1>5, ChainType
<1> HIDE DEF p, q
<1>11. IsPrefix(p, q)
  BY <1>8 DEF IsPrefix
<1> QED
  BY <1>9, <1>10, <1>11 DEF p, q

\* Whatever is registered, under whatever spellings: the chain of a path
\* extends the chains of its ancestors.
THEOREM ChainsAlwaysExtend == Spec => []ChainsExtend
<1>1. TypeOK => ChainsExtend
  BY ChainOfAncestor DEF ChainsExtend, Valid
<1> QED
  BY <1>1, RegistryIsTyped, PTL

LEMMA ManifestsBindIfTyped ==
  ASSUME NullIsApart, TypeOK
  PROVE  ManifestsBind
<1> SUFFICES ASSUME NEW path \in Valid, NEW proposal \in Proposed,
                    NEW i \in 1 .. Min({Len(ChainOf(path)), MaxInheritanceDepth}),
                    AgentOf(path) \in DOMAIN ChainOf(path)[i].agents
             PROVE  LET m == ChainOf(path)[i]
                        agent == AgentOf(path)
                        outcome == Outcome(proposal.action, proposal.delta, PermissionsOf(path))
                    IN /\ MatchesAnyPattern(proposal.action, m.agents[agent].forbidden)
                            => outcome = "denied"
                       /\ MatchesAnyPattern(proposal.action, m.agents[agent].requires_approval)
                            => outcome # "allowed"
  BY DEF ManifestsBind
<1> DEFINE chain == ChainOf(path)
           agent == AgentOf(path)
           n == Depth(chain)
           held == PermissionsOf(path)
<1>1. chain \in Seq(Manifests)
  BY ChainType, SegmentsType DEF Valid
<1> HIDE DEF chain, agent
<1>2. i \in 1 .. n /\ chain # <<>>
  <2>1. n = Min({Len(chain), MaxInheritanceDepth}) /\ n <= Len(chain) /\ n \in Nat
    BY <1>1, DepthOfChain
  <2>2. i \in 1 .. n
    BY <2>1 DEF chain
  <2> QED
    BY <2>1, <2>2
<1>3. held = NoPermissions \/
        /\ chain[i].agents[agent].forbidden \subseteq held.forbidden
        /\ chain[i].agents[agent].requires_approval \subseteq held.requires_approval
  <2>1. held = PermissionsUnder(MergeChain(chain), agent)
    BY DEF PermissionsOf, AuthorityAt, chain, agent
  <2>2. held = NoPermissions \/ held = Held(MergeChain(chain), agent)
    BY <2>1, HeldUnder
  <2>3. agent \in DOMAIN chain[i].agents
    BY DEF chain, agent
  <2> QED
    BY <1>1, <1>2, <2>2, <2>3, AuthorityOfChain, ChainBinds
<1> QED
  <2> HIDE DEF held
  <2>1. /\ MatchesAnyPattern(proposal.action, chain[i].agents[agent].forbidden)
             => Denied(proposal.action, proposal.delta, held)
        /\ MatchesAnyPattern(proposal.action, chain[i].agents[agent].requires_approval)
             => \/ Denied(proposal.action, proposal.delta, held)
                \/ RequiresApproval(proposal.action, proposal.delta, held)
    BY <1>3 DEF Denied, RequiresApproval, MatchesAnyPattern
  <2> QED
    BY <2>1 DEF Outcome, held, chain, agent

\* Whatever is registered, however many manifests a chain has and whatever
\* they say: what a manifest within the depth limit forbids an agent is denied,
\* and what it holds for approval is not allowed without.
THEOREM ManifestsAlwaysBind ==
  ASSUME NullIsApart
  PROVE  Spec => []ManifestsBind
<1>1. TypeOK => ManifestsBind
  BY ManifestsBindIfTyped
<1> QED
  BY <1>1, RegistryIsTyped, PTL

LEMMA RestrictionsInheritedIfTyped ==
  ASSUME NullIsApart, TypeOK
  PROVE  RestrictionsAreInherited
<1> SUFFICES ASSUME NEW path \in Valid, NEW ancestor \in GetAncestorPaths(path),
                    NEW proposal \in Proposed
             PROVE  LET above == PermissionsUnder(AuthorityAt(ancestor), AgentOf(path))
                        below == PermissionsOf(path)
                    IN IF above = NoPermissions
                         THEN AuthorityAt(ancestor) # NoManifest =>
                                Denied(proposal.action, proposal.delta, below)
                         ELSE /\ MatchesAnyPattern(proposal.action, above.forbidden) =>
                                   MatchesAnyPattern(proposal.action, below.forbidden)
                              /\ MatchesAnyPattern(proposal.action, above.requires_approval) =>
                                   MatchesAnyPattern(proposal.action, below.requires_approval)
  BY DEF RestrictionsAreInherited
<1> DEFINE chain == ChainOf(ancestor)
           longer == ChainOf(path)
           agent == AgentOf(path)
           above == PermissionsUnder(AuthorityAt(ancestor), agent)
           below == PermissionsOf(path)
<1>1. chain \in Seq(Manifests) /\ longer \in Seq(Manifests) /\ IsPrefix(chain, longer)
  BY ChainOfAncestor, ChainType, SegmentsType DEF Valid
<1>2. above = PermissionsUnder(MergeChain(chain), agent)
      /\ below = PermissionsUnder(MergeChain(longer), agent)
  BY DEF PermissionsOf, AuthorityAt
<1>3. MergeChain(chain) = AuthorityAt(ancestor)
  BY DEF AuthorityAt
<1> HIDE DEF chain, longer, agent, above, below
<1>4. CASE chain = <<>>
  <2>1. MergeChain(chain) = NoManifest /\ above = NoPermissions
    BY <1>2, <1>4, HeldUnder DEF MergeChain
  <2> QED
    BY <1>3, <2>1 DEF above, agent
<1>5. CASE chain # <<>>
  <2>1. /\ Restricts(MergeChain(chain), MergeChain(longer), agent)
        /\ MergeChain(longer) # NoManifest
    BY <1>1, <1>5, ExtensionRestricts
  <2>2. CASE above = NoPermissions /\ MergeChain(chain) # NoManifest
    <3>1. Held(MergeChain(chain), agent) = NoPermissions
      BY <1>2, <2>2, HeldUnder
    <3>2. below = NoPermissions \/ Wildcard \in below.forbidden
      BY <1>2, <2>1, <3>1, HeldUnder DEF Restricts
    <3>3. Denied(proposal.action, proposal.delta, below)
      BY <3>2, WildcardMatches DEF Denied
    <3> QED
      BY <2>2, <3>3 DEF above, below, agent
  <2>3. CASE above = NoPermissions /\ MergeChain(chain) = NoManifest
    BY <1>3, <2>3 DEF above, agent
  <2>4. CASE above # NoPermissions
    <3>1. MergeChain(chain) # NoManifest /\ above = Held(MergeChain(chain), agent)
      BY <1>2, <2>4, HeldUnder
    <3>2. /\ Held(MergeChain(longer), agent) # NoPermissions
          /\ above.forbidden \subseteq Held(MergeChain(longer), agent).forbidden
          /\ above.requires_approval \subseteq Held(MergeChain(longer), agent).requires_approval
      BY <2>1, <2>4, <3>1 DEF Restricts
    <3>3. /\ above.forbidden \subseteq below.forbidden
          /\ above.requires_approval \subseteq below.requires_approval
      BY <1>2, <2>1, <3>2, HeldUnder
    <3> QED
      BY <2>4, <3>3 DEF above, below, agent, MatchesAnyPattern
  <2> QED
    BY <2>2, <2>3, <2>4
<1> QED
  BY <1>4, <1>5

\* Whatever is registered: what the authority of an ancestor forbids an agent,
\* or makes it ask approval for, the authority of the path does too, under
\* every spelling, and an agent the ancestor's authority does not admit is
\* denied everything.
THEOREM RestrictionsAreAlwaysInherited ==
  ASSUME NullIsApart
  PROVE  Spec => []RestrictionsAreInherited
<1>1. TypeOK => RestrictionsAreInherited
  BY RestrictionsInheritedIfTyped
<1> QED
  BY <1>1, RegistryIsTyped, PTL

-----------------------------------------------------------------------------
\* A sequence whose elements all have a narrower type.
LEMMA Narrowed ==
  ASSUME NEW S, NEW T, NEW s \in Seq(S), \A i \in DOMAIN s : s[i] \in T
  PROVE  s \in Seq(T)
<1>1. Len(s) \in Nat /\ DOMAIN s = 1 .. Len(s) /\ s = [i \in 1 .. Len(s) |-> s[i]]
  OBVIOUS
<1>2. s \in [1 .. Len(s) -> T]
  BY <1>1
<1> QED
  BY <1>1, <1>2, FunctionIsSequence

LEMMA ValidSegmentsOf ==
  ASSUME NEW path \in Valid
  PROVE  /\ Segments(path) \in Seq(ValidSegments) /\ Segments(path) # <<>>
         /\ Len(Segments(path)) \in Nat \ {0}
<1>1. Segments(path) \in Seq(STRING \ {""})
  BY SegmentsType DEF Valid
<1>2. /\ Segments(path) # <<>>
      /\ \A i \in DOMAIN Segments(path) : Segments(path)[i] \in ValidSegments
  BY DEF Valid, ValidateEntityPath
<1>3. Segments(path) \in Seq(ValidSegments)
  BY <1>1, <1>2, Narrowed
<1> QED
  BY <1>2, <1>3

\* The parts of the normalised spelling.
LEMMA NormalisedParts ==
  ASSUME NEW path \in Valid
  PROVE  LET lowered == NormalizeEntityPath(path).parts
         IN /\ lowered \in Seq(ValidSegments) /\ Len(lowered) = Len(Segments(path))
            /\ \A i \in 1 .. Len(Segments(path)) : lowered[i] = Lower[Segments(path)[i]]
            /\ NormalizeEntityPath(path) = Canonical(lowered)
<1> DEFINE s == Segments(path)
           lowered == NormalizeEntityPath(path).parts
<1>1. s \in Seq(ValidSegments)
  BY ValidSegmentsOf
<1>2. NormalizeEntityPath(path) = Canonical([i \in DOMAIN s |-> Lower[s[i]]])
  BY DEF NormalizeEntityPath
<1> HIDE DEF s
<1>3. DOMAIN s = 1 .. Len(s) /\ Len(s) \in Nat /\ \A i \in 1 .. Len(s) : s[i] \in ValidSegments
  BY <1>1
<1>4. lowered = [i \in 1 .. Len(s) |-> Lower[s[i]]]
  BY <1>2, <1>3 DEF Canonical
<1> HIDE DEF lowered
<1>5. lowered \in [1 .. Len(s) -> ValidSegments]
  BY <1>3, <1>4, SpellingAssumption
<1>6. lowered \in Seq(ValidSegments) /\ Len(lowered) = Len(s)
  BY <1>3, <1>5, FunctionIsSequence
<1> QED
  BY <1>2, <1>3, <1>4, <1>6 DEF s, lowered

LEMMA PrefixIsBeginning ==
  ASSUME NEW S, NEW s \in Seq(S), NEW t \in Seq(S)
  PROVE  IsPrefix(s, t) <=> Len(s) <= Len(t) /\ s = SubSeq(t, 1, Len(s))
<1>1. SubSeq(s, 1, Len(s)) = s
  OBVIOUS
<1> QED
  BY <1>1 DEF IsPrefix

LEMMA RetractionCascadesIfTyped == RetractionCascades
<1> SUFFICES ASSUME NEW listed \in retractions \cap Valid, NEW path \in Valid,
                    IsCanonical(listed), IsLowerCase(path),
                    IsAncestorOf(listed, path) => GetPathDepth(listed) < GetPathDepth(path),
                    IsWithinJurisdiction(listed, path)
             PROVE  Retracted(path)
  BY DEF RetractionCascades, Decision, Retracted, Valid
<1> DEFINE above == NormalizeEntityPath(listed).parts
           own == Segments(path)
<1>1. above \in Seq(ValidSegments) /\ listed = Canonical(above)
  BY NormalisedParts DEF IsCanonical
<1>2. Segments(listed) = above
  <2>1. listed.parts = above
    BY <1>1 DEF Canonical
  <2> HIDE DEF above
  <2> QED
    BY <1>1, <2>1, WithoutNothing, SpellingAssumption DEF Segments
<1>3. above # <<>> /\ Len(above) \in Nat \ {0}
  BY <1>2, ValidSegmentsOf
<1>4. own \in Seq(ValidSegments)
  BY ValidSegmentsOf
<1>5. IsPrefix(above, own)
  BY DEF IsWithinJurisdiction, IsLowerCase
<1>6. CASE listed = path
  BY <1>6 DEF Retracted
<1>7. CASE listed # path
  <2>1. Len(above) < Len(own)
    BY <1>2, <1>7 DEF IsAncestorOf, GetPathDepth
  <2> HIDE DEF above, own
  <2>2. above = SubSeq(own, 1, Len(above))
    BY <1>1, <1>4, <1>5, PrefixIsBeginning
  <2>3. Len(above) \in 1 .. Len(own) - 1
    BY <1>3, <1>4, <2>1
  <2>4. above \in Ancestors(own)
    BY <2>2, <2>3 DEF Ancestors
  <2>5. listed \in GetAncestorPaths(path)
    BY <1>1, <2>4 DEF GetAncestorPaths, own
  <2> QED
    BY <2>5 DEF Retracted
<1> QED
  BY <1>6, <1>7

\* A path is refused as retracted for nothing but itself or one of its
\* retracted ancestors, for every set of spellings.
LEMMA NoStrayRetractionIfTyped ==
  ASSUME TypeOK
  PROVE  NoStrayRetraction
<1> SUFFICES ASSUME NEW path \in Valid, Retracted(path)
             PROVE  \E listed \in retractions \cap Valid :
                      listed = path \/ IsAncestorOf(listed, path)
  BY DEF NoStrayRetraction
<1>1. CASE path \in retractions
  BY <1>1
<1>2. CASE path \notin retractions
  <2> DEFINE own == Segments(path)
  <2>1. PICK listed \in retractions : listed \in GetAncestorPaths(path)
    BY <1>2 DEF Retracted
  <2>2. PICK k \in 1 .. Len(own) - 1 : listed = Canonical(SubSeq(own, 1, k))
    BY <2>1 DEF GetAncestorPaths, Ancestors
  <2>3. own \in Seq(ValidSegments) /\ Len(own) \in Nat
    BY ValidSegmentsOf
  <2> DEFINE above == SubSeq(own, 1, k)
  <2>4. above \in Seq(ValidSegments) /\ Len(above) = k /\ k < Len(own) /\ k \in Nat \ {0}
        /\ \A i \in 1 .. k : above[i] = own[i]
    <3> HIDE DEF own
    <3> QED
      BY <2>3
  <2>5. Segments(listed) = above
    <3>1. listed.parts = above
      BY <2>2 DEF Canonical
    <3> HIDE DEF above
    <3> QED
      BY <2>4, <3>1, WithoutNothing, SpellingAssumption DEF Segments
  <2>6. listed \in Valid
    <3>1. listed \in Spellings
      BY RegistryAssumption DEF TypeOK
    <3>2. listed.rooted
      BY <2>2 DEF Canonical
    <3> HIDE DEF above
    <3>3. above # <<>> /\ \A i \in DOMAIN above : above[i] \in ValidSegments
      BY <2>4
    <3> QED
      BY <2>5, <3>1, <3>2, <3>3 DEF Valid, ValidateEntityPath
  <2> DEFINE upper == NormalizeEntityPath(listed).parts
             lower == NormalizeEntityPath(path).parts
  <2>7. /\ upper \in Seq(ValidSegments) /\ Len(upper) = k
        /\ \A i \in 1 .. k : upper[i] = Lower[above[i]]
    BY <2>4, <2>5, <2>6, NormalisedParts
  <2>8. /\ lower \in Seq(ValidSegments) /\ Len(lower) = Len(own)
        /\ \A i \in 1 .. Len(own) : lower[i] = Lower[own[i]]
    BY NormalisedParts
  <2>9. listed # path
    BY <2>4, <2>5
  <2>10. IsPrefix(upper, lower)
    <3> HIDE DEF upper, lower, above, own
    <3>1. \A i \in 1 .. k : upper[i] = lower[i]
      BY <2>3, <2>4, <2>7, <2>8
    <3>2. upper = SubSeq(lower, 1, k)
      BY <2>3, <2>4, <2>7, <2>8, <3>1
    <3>3. Len(upper) <= Len(lower) /\ upper = SubSeq(lower, 1, Len(upper))
      BY <2>3, <2>4, <2>7, <2>8, <3>2
    <3> QED
      BY <2>7, <2>8, <3>3, PrefixIsBeginning
  <2> QED
    BY <2>6, <2>9, <2>10 DEF IsAncestorOf, IsWithinJurisdiction
<1> QED
  BY <1>1, <1>2

\* The canonical spelling has the segments of the path, and so its ancestors
\* and its agent; where the path's own manifest is registered under both, it
\* has its chain.
LEMMA CanonicalIsAlike ==
  ASSUME NEW path \in Valid
  PROVE  LET canonical == Canonical(Segments(path))
         IN /\ Segments(canonical) = Segments(path)
            /\ ValidateEntityPath(canonical)
            /\ GetAncestorPaths(canonical) = GetAncestorPaths(path)
            /\ AgentOf(canonical) = AgentOf(path)
            /\ ManifestOf(path) = ManifestOf(canonical) => ChainOf(canonical) = ChainOf(path)
<1> DEFINE canonical == Canonical(Segments(path))
<1>1. Segments(canonical) = Segments(path)
  BY SegmentsOfCanonical, SegmentsType DEF Valid
<1>2. canonical.rooted
  BY DEF Canonical
<1> HIDE DEF canonical
<1>3. ValidateEntityPath(canonical)
  BY <1>1, <1>2 DEF ValidateEntityPath, Valid
<1>4. GetAncestorPaths(canonical) = GetAncestorPaths(path) /\ AgentOf(canonical) = AgentOf(path)
  BY <1>1 DEF GetAncestorPaths, AgentOf
<1>5. ASSUME ManifestOf(path) = ManifestOf(canonical) PROVE ChainOf(canonical) = ChainOf(path)
  <2>1. Given(canonical) = Given(path)
    BY <1>1, <1>5 DEF Given
  <2> QED
    BY <2>1 DEF ChainOf, Given
<1> QED
  BY <1>1, <1>3, <1>4, <1>5 DEF canonical

\* How many slashes a path is spelled with decides nothing but what is found
\* under its own spelling.
LEMMA SlashesMatterForOwnRecordsOnlyIfTyped == SlashesMatterForOwnRecordsOnly
<1> SUFFICES ASSUME NEW path \in Valid,
                    path \in retractions <=> Canonical(Segments(path)) \in retractions,
                    ManifestOf(path) = ManifestOf(Canonical(Segments(path))),
                    NEW proposal \in Proposed
             PROVE  Decision(path, proposal) = Decision(Canonical(Segments(path)), proposal)
  BY DEF SlashesMatterForOwnRecordsOnly
<1> DEFINE canonical == Canonical(Segments(path))
<1>1. /\ ValidateEntityPath(path) /\ ValidateEntityPath(canonical)
      /\ GetAncestorPaths(canonical) = GetAncestorPaths(path)
      /\ AgentOf(canonical) = AgentOf(path) /\ ChainOf(canonical) = ChainOf(path)
  BY CanonicalIsAlike DEF Valid
<1>2. Retracted(canonical) <=> Retracted(path)
  BY <1>1 DEF Retracted
<1>3. PermissionsOf(canonical) = PermissionsOf(path)
  BY <1>1 DEF PermissionsOf, AuthorityAt
<1> QED
  BY <1>1, <1>2, <1>3 DEF Decision

-----------------------------------------------------------------------------
\* m allows the agent nothing that permissions does not permit.
Within(permissions, m, agent) ==
  /\ Held(m, agent) # NoPermissions
  /\ \/ Held(m, agent).allowed \in {Absent, {}}
     \/ \A a : MatchesAnyPattern(a, Held(m, agent).allowed) => Permits(permissions, a)

\* An action that a literal name matches is matched by every pattern the
\* intersection of two lists may keep the name for.
LEMMA LiteralMatches ==
  ASSUME NEW a, NEW name, name[1] # "*", name[2] # "*", MatchActionPattern(a, name),
         NEW p, MatchActionPattern(name, p) \/ MatchActionPattern(p, name)
  PROVE  MatchActionPattern(a, p)
<1>1. a[1] = name[1] /\ a[2] = name[2]
  BY DEF MatchActionPattern
<1>2. (p[1] = "*" \/ name[1] = p[1]) /\ (p[2] = "*" \/ name[2] = p[2])
  BY DEF MatchActionPattern
<1> QED
  BY <1>1, <1>2 DEF MatchActionPattern

\* Permissions merged with a list that names its actions one by one stay
\* within whatever they were within, unless the merged list is empty.
LEMMA MergedWithin ==
  ASSUME NEW permissions, NEW parent, NEW child,
         parent.allowed \in {Absent, {}} \/
           \A a : MatchesAnyPattern(a, parent.allowed) => Permits(permissions, a),
         child.allowed = Absent \/ Literal(child.allowed)
  PROVE  LET allowed == MergePermissions(parent, child).allowed
         IN allowed \in {Absent, {}} \/
              \A a : MatchesAnyPattern(a, allowed) => Permits(permissions, a)
<1> DEFINE allowed == MergePermissions(parent, child).allowed
           shared == {x \in child.allowed :
                        \E p \in parent.allowed : MatchActionPattern(x, p) \/ MatchActionPattern(p, x)}
<1>1. allowed = IF child.allowed = Absent THEN parent.allowed
                ELSE IF parent.allowed = Absent THEN {}
                ELSE IF Wildcard \in parent.allowed THEN child.allowed
                ELSE shared
  BY DEF MergePermissions
<1> HIDE DEF allowed
<1>2. CASE child.allowed = Absent \/ parent.allowed = Absent
  BY <1>1, <1>2 DEF allowed
<1>3. CASE child.allowed # Absent /\ parent.allowed # Absent /\ Wildcard \in parent.allowed
  <2>1. parent.allowed \notin {Absent, {}}
    BY <1>3
  <2>2. \A a : MatchesAnyPattern(a, parent.allowed)
    BY <1>3, WildcardMatches
  <2>3. \A a : Permits(permissions, a)
    BY <2>1, <2>2
  <2> QED
    BY <2>3 DEF allowed
<1>4. CASE child.allowed # Absent /\ parent.allowed # Absent /\ Wildcard \notin parent.allowed
  <2>1. allowed = shared
    BY <1>1, <1>4
  <2>2. CASE parent.allowed = {}
    BY <2>1, <2>2 DEF allowed
  <2>3. CASE parent.allowed # {}
    <3> SUFFICES ASSUME NEW a, NEW x \in shared, MatchActionPattern(a, x)
                 PROVE  Permits(permissions, a)
      BY <2>1 DEF MatchesAnyPattern, allowed
    <3>1. PICK p \in parent.allowed : MatchActionPattern(x, p) \/ MatchActionPattern(p, x)
      OBVIOUS
    <3>2. x[1] # "*" /\ x[2] # "*"
      BY <1>4 DEF Literal
    <3>3. MatchActionPattern(a, p)
      BY <3>1, <3>2, LiteralMatches
    <3>4. MatchesAnyPattern(a, parent.allowed)
      BY <3>3 DEF MatchesAnyPattern
    <3> QED
      BY <1>4, <2>3, <3>4
  <2> QED
    BY <2>2, <2>3
<1> QED
  BY <1>2, <1>3, <1>4 DEF allowed

LEMMA MergeWithin ==
  ASSUME NullIsApart, NEW permissions, NEW parent, NEW child, NEW agent,
         WellFormed(child), Within(permissions, parent, agent), NamedOneByOne(Held(child, agent))
  PROVE  Within(permissions, MergeManifests(parent, child), agent)
<1> DEFINE merged == MergeManifests(parent, child)
           baseline == IF parent.default = NoPermissions THEN DenyAll ELSE parent.default
           inherited(a) == IF a \in DOMAIN parent.agents THEN parent.agents[a] ELSE baseline
           held == Held(parent, agent)
           given == IF Held(child, agent) = NoPermissions THEN NoChange ELSE Held(child, agent)
<1>1. /\ DOMAIN merged.agents = DOMAIN parent.agents \cup DOMAIN child.agents
      /\ \A a \in DOMAIN merged.agents :
           merged.agents[a] = IF a \in DOMAIN child.agents
                                THEN MergePermissions(inherited(a), child.agents[a])
                                ELSE parent.agents[a]
      /\ merged.default = MergePermissions(baseline,
           IF child.default = NoPermissions THEN NoChange ELSE child.default)
  BY DEF MergeManifests
<1> HIDE DEF merged
<1>2. held # NoPermissions /\ inherited(agent) = held
  BY DEF Within, Held
<1>3. Held(merged, agent) = held \/ Held(merged, agent) = MergePermissions(held, given)
  <2>1. CASE agent \in DOMAIN child.agents
    BY <1>1, <1>2, <2>1 DEF Held, WellFormed
  <2>2. CASE agent \in DOMAIN parent.agents /\ agent \notin DOMAIN child.agents
    BY <1>1, <2>2 DEF Held
  <2>3. CASE agent \notin DOMAIN parent.agents /\ agent \notin DOMAIN child.agents
    BY <1>1, <1>2, <2>3 DEF Held
  <2> QED
    BY <2>1, <2>2, <2>3
<1>4. given.allowed = Absent \/ Literal(given.allowed)
  BY DEF NamedOneByOne, NoChange
<1> HIDE DEF held, given, inherited, baseline
<1>5. held.allowed \in {Absent, {}} \/
        \A a : MatchesAnyPattern(a, held.allowed) => Permits(permissions, a)
  BY DEF Within, held
<1>6. LET allowed == MergePermissions(held, given).allowed
      IN allowed \in {Absent, {}} \/
           \A a : MatchesAnyPattern(a, allowed) => Permits(permissions, a)
  BY <1>4, <1>5, MergedWithin
<1>7. MergePermissions(held, given) # NoPermissions
  BY MergedPermissions
<1>8. Held(merged, agent) # NoPermissions
  BY <1>2, <1>3, <1>7
<1>9. Held(merged, agent).allowed \in {Absent, {}} \/
        \A a : MatchesAnyPattern(a, Held(merged, agent).allowed) => Permits(permissions, a)
  BY <1>3, <1>5, <1>6
<1> QED
  BY <1>8, <1>9 DEF Within, merged

\* Below the n-th manifest of a chain, literal lists stay within the authority
\* that far.
LEMMA AlongChainWithin ==
  ASSUME NullIsApart, NEW chain, NEW m \in Nat, NEW eff, Follows(eff, chain, m),
         \A i \in 1 .. m : WellFormed(chain[i]),
         NEW agent, NEW n \in 1 .. m, Held(eff[n], agent) # NoPermissions,
         \A i \in n + 1 .. m : NamedOneByOne(Held(chain[i], agent))
  PROVE  Within(Held(eff[n], agent), eff[m], agent)
<1> DEFINE base == Held(eff[n], agent)
           S == {k \in Nat : n + k <= m => Within(base, eff[n + k], agent)}
<1>1. 0 \in S
  BY DEF Within, Permits
<1>2. ASSUME NEW k \in S PROVE k + 1 \in S
  <2> SUFFICES ASSUME n + (k + 1) <= m PROVE Within(base, eff[n + (k + 1)], agent)
    OBVIOUS
  <2>1. n + k \in 1 .. m /\ n + (k + 1) \in n + 1 .. m /\ n + (k + 1) \in 1 .. m /\ n + (k + 1) # 1
    OBVIOUS
  <2>2. eff[n + (k + 1)] = MergeManifests(eff[n + k], chain[n + (k + 1)])
    BY <2>1 DEF Follows
  <2>3. Within(base, eff[n + k], agent)
    BY <2>1
  <2>4. WellFormed(chain[n + (k + 1)]) /\ NamedOneByOne(Held(chain[n + (k + 1)], agent))
    BY <2>1
  <2> QED
    BY <2>2, <2>3, <2>4, MergeWithin
<1>3. S = Nat
  <2>1. S \in SUBSET Nat
    OBVIOUS
  <2> HIDE DEF S
  <2> QED
    BY <1>1, <1>2, <2>1, SetInduction
<1>4. \A k \in Nat : n + k <= m => Within(base, eff[n + k], agent)
  BY <1>3
<1>5. m - n \in Nat /\ n + (m - n) = m
  OBVIOUS
<1> HIDE DEF S, base
<1>6. n + (m - n) <= m => Within(base, eff[n + (m - n)], agent)
  BY <1>4, <1>5
<1> QED
  BY <1>5, <1>6 DEF base

\* The same of the authorities two chains merge to, one of which extends the
\* other.
LEMMA ExtensionWithin ==
  ASSUME NullIsApart, NEW chain \in Seq(Manifests), NEW longer \in Seq(Manifests),
         chain # <<>>, IsPrefix(chain, longer), NEW agent,
         Held(MergeChain(chain), agent) # NoPermissions,
         \A i \in Len(chain) + 1 .. Len(longer) : NamedOneByOne(Held(longer[i], agent))
  PROVE  Within(Held(MergeChain(chain), agent), MergeChain(longer), agent)
<1> DEFINE n == Depth(chain)
           m == Depth(longer)
<1>1. \A i \in 1 .. Len(chain) : chain[i] = longer[i]
  BY DEF IsPrefix
<1>2. longer # <<>> /\ Len(chain) <= Len(longer)
  BY DEF IsPrefix
<1>3. n \in Nat /\ m \in Nat /\ n \in 1 .. m /\ n <= Len(chain) /\ m <= Len(longer)
      /\ (n < m => n = Len(chain))
  BY <1>2, DepthAssumption DEF Depth
<1>4. PICK e : Follows(e, chain, n) /\ MergeChain(chain) = e[n]
  BY AuthorityOfChain
<1>5. PICK f : /\ Follows(f, longer, m) /\ MergeChain(longer) = f[m]
               /\ \A i \in 1 .. m : WellFormed(longer[i])
  BY <1>2, AuthorityOfChain
<1> HIDE DEF n, m
<1>6. e[n] = f[n]
  <2>1. /\ n <= m
        /\ \A i \in 1 .. n : chain[i] = longer[i]
    BY <1>1, <1>3
  <2>2. \A i \in 1 .. n : e[i] = f[i]
    BY <1>3, <1>4, <1>5, <2>1, BeginAlike
  <2> QED
    BY <1>3, <2>2
<1>7. \A i \in n + 1 .. m : NamedOneByOne(Held(longer[i], agent))
  <2>1. \A i \in n + 1 .. m : i \in Len(chain) + 1 .. Len(longer)
    BY <1>3
  <2> QED
    BY <2>1
<1>8. Held(f[n], agent) # NoPermissions
  BY <1>4, <1>6
<1>9. Within(Held(f[n], agent), f[m], agent)
  BY <1>3, <1>5, <1>7, <1>8, AlongChainWithin
<1> QED
  BY <1>4, <1>5, <1>6, <1>9

LEMMA LiteralListsOnlyRestrictIfTyped ==
  ASSUME NullIsApart, TypeOK
  PROVE  LiteralListsOnlyRestrict
<1> SUFFICES ASSUME NEW path \in Valid, NEW ancestor \in GetAncestorPaths(path),
                    NEW proposal \in Proposed,
                    PermissionsUnder(AuthorityAt(ancestor), AgentOf(path)) # NoPermissions,
                    PermissionsOf(path).allowed \notin {Absent, {}},
                    \A i \in Len(ChainOf(ancestor)) + 1 .. Len(ChainOf(path)) :
                      NamedOneByOne(PermissionsUnder(ChainOf(path)[i], AgentOf(path))),
                    Permits(PermissionsOf(path), proposal.action)
             PROVE  Permits(PermissionsUnder(AuthorityAt(ancestor), AgentOf(path)),
                            proposal.action)
  BY DEF LiteralListsOnlyRestrict
<1> DEFINE chain == ChainOf(ancestor)
           longer == ChainOf(path)
           agent == AgentOf(path)
           above == PermissionsUnder(AuthorityAt(ancestor), agent)
           below == PermissionsOf(path)
<1>1. chain \in Seq(Manifests) /\ longer \in Seq(Manifests) /\ IsPrefix(chain, longer)
  BY ChainOfAncestor, ChainType, SegmentsType DEF Valid
<1>2. above = PermissionsUnder(MergeChain(chain), agent)
      /\ below = PermissionsUnder(MergeChain(longer), agent)
  BY DEF PermissionsOf, AuthorityAt
<1>3. /\ above # NoPermissions /\ below.allowed \notin {Absent, {}}
      /\ \A i \in Len(chain) + 1 .. Len(longer) : NamedOneByOne(PermissionsUnder(longer[i], agent))
      /\ Permits(below, proposal.action)
  OBVIOUS
<1> HIDE DEF chain, longer, agent, above, below
<1>4. MergeChain(chain) # NoManifest /\ above = Held(MergeChain(chain), agent)
  BY <1>2, <1>3, HeldUnder
<1>5. chain # <<>>
  BY <1>4 DEF MergeChain
<1>6. MergeChain(longer) # NoManifest
  BY <1>1, <1>5, ExtensionRestricts
<1>7. below = Held(MergeChain(longer), agent)
  BY <1>2, <1>6, HeldUnder
<1>8. \A i \in Len(chain) + 1 .. Len(longer) : NamedOneByOne(Held(longer[i], agent))
  <2> SUFFICES ASSUME NEW i \in Len(chain) + 1 .. Len(longer)
               PROVE  NamedOneByOne(Held(longer[i], agent))
    OBVIOUS
  <2>1. longer[i] \in Manifests
    <3>1. Len(chain) \in Nat /\ i \in 1 .. Len(longer)
      BY <1>1
    <3> QED
      BY <1>1, <3>1
  <2>2. longer[i] # NoManifest
    BY <2>1, RegistryAssumption
  <2> QED
    BY <1>3, <2>2, HeldUnder
<1>9. Within(above, MergeChain(longer), agent)
  BY <1>1, <1>3, <1>4, <1>5, <1>8, ExtensionWithin
<1>10. Permits(above, proposal.action)
  BY <1>3, <1>7, <1>9 DEF Within, Permits
<1> QED
  BY <1>10 DEF above, agent


-----------------------------------------------------------------------------
\* A retraction reaches every descendant in lower case, whatever the stores
\* hold and whatever paths there are.
THEOREM RetractionsAlwaysCascade == Spec => []RetractionCascades
BY RetractionCascadesIfTyped, PTL

\* Nothing but a retracted path or one of its ancestors has a path refused.
THEOREM NoRetractionEverStrays == Spec => []NoStrayRetraction
<1>1. TypeOK => NoStrayRetraction
  BY NoStrayRetractionIfTyped
<1> QED
  BY <1>1, RegistryIsTyped, PTL

\* Two spellings that differ in slashes are decided on alike, whatever is
\* retracted and registered elsewhere.
THEOREM SlashesNeverMatterElsewhere == Spec => []SlashesMatterForOwnRecordsOnly
BY SlashesMatterForOwnRecordsOnlyIfTyped, PTL

\* Along a chain of any length whose lower manifests name their actions one by
\* one, a path is allowed nothing that its ancestor's authority does not allow,
\* as long as the merged list is not empty.
THEOREM LiteralListsAlwaysRestrict ==
  ASSUME NullIsApart
  PROVE  Spec => []LiteralListsOnlyRestrict
<1>1. TypeOK => LiteralListsOnlyRestrict
  BY LiteralListsOnlyRestrictIfTyped
<1> QED
  BY <1>1, RegistryIsTyped, PTL
=============================================================================
