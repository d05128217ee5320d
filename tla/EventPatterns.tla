--------------------------- MODULE EventPatterns ---------------------------
(***************************************************************************)
(* Which event types a subscription pattern matches                        *)
(* (event-bus/src/matchers/pattern-matcher.ts).  A dotted name is the      *)
(* sequence of its segments, so that a string prefix that ends at a dot is *)
(* a prefix of the sequence; event types have no "*" segment.              *)
(***************************************************************************)
EXTENDS Integers, Sequences, SequencesExt

Star == "*"

\* Mutant of Matches: a wildcard only at the end.
MatchesPrefix(pattern, type) ==
  \/ pattern = <<Star>>
  \/ pattern = type
  \/ /\ Len(pattern) > 1 /\ Last(pattern) = Star
     /\ IsPrefix(Front(pattern), type)

\* PatternMatcher.matches, its tests in the order of the code.
Matches(pattern, type) ==
  \/ pattern = <<Star>>
  \/ pattern = type
  \/ /\ Len(pattern) > 1
     /\ IF Last(pattern) = Star
        THEN IsPrefix(Front(pattern), type)
        ELSE /\ Head(pattern) = Star
             /\ IsSuffix(Tail(pattern), type)
-----------------------------------------------------------------------------
\* The wildcards of a pattern.
Stars(pattern) == {i \in DOMAIN pattern : pattern[i] = Star}

(***************************************************************************)
(* The reference: a pattern with one wildcard matches every type that one  *)
(* gets by putting any number of segments in its place.                    *)
(***************************************************************************)
Glob(pattern, type) ==
  \E i \in Stars(pattern) :
    /\ Len(type) >= Len(pattern) - 1
    /\ \A j \in 1 .. i - 1 : type[j] = pattern[j]
    /\ \A j \in 0 .. Len(pattern) - i - 1 :
         type[Len(type) - j] = pattern[Len(pattern) - j]
=============================================================================
