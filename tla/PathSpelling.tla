----------------------------- MODULE PathSpelling -----------------------------
(***************************************************************************)
(* Entity paths as callers spell them (types/entity-path.ts).  A spelling  *)
(* is whether the string begins with "/" and the parts between its         *)
(* slashes, empty ones for doubled and trailing slashes included:          *)
(* /acme//bot/ is rooted with the parts "acme", "", "bot", "".             *)
(***************************************************************************)
EXTENDS EntityPaths, SequencesExt

CONSTANTS
  ValidSegments,  \* the segments SEGMENT_PATTERN accepts
  Lower           \* segment -> toLowerCase()

ASSUME SpellingAssumption ==
  /\ "" \notin ValidSegments
  /\ Lower \in [ValidSegments -> ValidSegments]
  /\ \A s \in ValidSegments : Lower[Lower[s]] = Lower[s]

Segments(path) == Without(path.parts, "")

ValidateEntityPath(path) ==
  /\ path.rooted
  /\ Segments(path) # <<>>
  /\ \A i \in DOMAIN Segments(path) : Segments(path)[i] \in ValidSegments

\* '/' + segments.join('/')
Canonical(segments) == [rooted |-> TRUE, parts |-> segments]

\* The functions below throw for an invalid path; they are applied to valid ones.
NormalizeEntityPath(path) ==
  Canonical([i \in DOMAIN Segments(path) |-> Lower[Segments(path)[i]]])

IsWithinJurisdiction(parent, child) ==
  IsPrefix(NormalizeEntityPath(parent).parts, NormalizeEntityPath(child).parts)

\* Mutant of GetAncestorPaths: empty parts are kept.
AncestorsAsSpelled(path) == {Canonical(s) : s \in Ancestors(path.parts)}

\* The ancestors keep the case of the path, not its slashes.
GetAncestorPaths(path) == {Canonical(s) : s \in Ancestors(Segments(path))}

IsAncestorOf(ancestor, descendant) ==
  IsWithinJurisdiction(ancestor, descendant) /\ ancestor # descendant

GetPathDepth(path) == Len(Segments(path))
=============================================================================
