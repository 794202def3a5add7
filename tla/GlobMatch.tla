------------------------------ MODULE GlobMatch ------------------------------
(***************************************************************************)
(* What it means for a pattern to match a path.  An element of a pattern   *)
(* is the set of what it matches, and a star is an element of its own that *)
(* matches any run of elements (segment and token of                       *)
(* src/internal/filesearch/internal/ignore/wildmatch.go).                  *)
(***************************************************************************)
EXTENDS Naturals, Sequences

Star == {}

\* The first i elements match the first j of the path.
Table(pattern, path) ==
  LET m[i \in 0..Len(pattern), j \in 0..Len(path)] ==
        CASE i = 0 -> j = 0
          [] i > 0 /\ pattern[i] = Star -> m[i - 1, j] \/ (j > 0 /\ m[i, j - 1])
          [] OTHER -> j > 0 /\ path[j] \in pattern[i] /\ m[i - 1, j - 1]
  IN m

Matches(pattern, path) == Table(pattern, path)[Len(pattern), Len(path)]

\* some prefix of the path matches
MatchesPrefix(pattern, path) == \E n \in 0..Len(path) : Matches(pattern, SubSeq(path, 1, n))

\* the path can be continued to a longer one that matches
MatchesBelow(pattern, path) ==
  \E i \in 0..Len(pattern) :
    /\ Table(pattern, path)[i, Len(path)]
    /\ i < Len(pattern) \/ (i > 0 /\ pattern[i] = Star)
=============================================================================
