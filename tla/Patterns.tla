------------------------------ MODULE Patterns ------------------------------
(***************************************************************************)
(* matchesPattern, which internal/router and internal/capabilities define  *)
(* alike: a public model name matches a pattern that equals it, or one that*)
(* ends in '*' and whose other characters it begins with.  Names and       *)
(* patterns are values here, so that this is a given relation.             *)
(***************************************************************************)
CONSTANT Matches   \* the pairs <<public model, pattern>> that match

MatchesPattern(publicModel, pattern) == <<publicModel, pattern>> \in Matches
=============================================================================
