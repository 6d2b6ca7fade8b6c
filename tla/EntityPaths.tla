----------------------------- MODULE EntityPaths -----------------------------
(***************************************************************************)
(* Hierarchical entity paths (types/entity-path.ts).  A path the program   *)
(* accepts is a non-empty list of segments: /acme/desk/bot is              *)
(* <<"acme", "desk", "bot">>.                                              *)
(***************************************************************************)
EXTENDS Naturals, Subsequences

\* getAncestorPaths: the proper, non-empty prefixes.
Ancestors(path) == {SubSeq(path, 1, i) : i \in 1 .. Len(path) - 1}

\* RetractionStore.isRetracted: the path itself or any ancestor is listed.
IsRetracted(path, listed) == path \in listed \/ Ancestors(path) \cap listed # {}
=============================================================================
