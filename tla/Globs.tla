-------------------------------- MODULE Globs --------------------------------
(***************************************************************************)
(* The glob matcher of file searches: the two-pointer scan that matches a  *)
(* segment's tokens to a name and a pattern's segments to a path           *)
(* (src/internal/filesearch/internal/ignore/wildmatch.go), and the         *)
(* expansion of brace alternatives (src/internal/filesearch/pattern.go).   *)
(*                                                                         *)
(* The scan is one loop for tokens and for segments: an element of a       *)
(* pattern is the set of the bytes (or of the names) it matches, and a     *)
(* star is an element of its own that matches any run of them.  One step   *)
(* is one turn of the loop, and the result is compared with the definition *)
(* of a match.  A step of the expansion is one round of its loop.  Which   *)
(* bytes a class stands for and escapes are left out.                      *)
(***************************************************************************)
EXTENDS GlobMatch, Integers, FiniteSets

CONSTANTS MaxPattern,  \* elements of a pattern
          MaxPath,     \* elements of what it is matched to
          MaxBraces    \* characters of a pattern with braces

VARIABLE gm

Letters == {1, 2}
Elements == {{1}, {2}, Letters, Star}

Strings(S, n) == UNION {[1..k -> S] : k \in 0..n}

\* compileSegment and collapseDoubleStars leave no two stars side by side.
Compiled(pattern) == \A i \in 1..(Len(pattern) - 1) : ~(pattern[i] = Star /\ pattern[i + 1] = Star)

Modes == {"whole", "prefix", "descendant"}

-----------------------------------------------------------------------------
\* something below the path matches
MatchesLonger(pattern, path) ==
  \E below \in Strings(Letters, MaxPattern) \ {<<>>} : Matches(pattern, path \o below)

Defined(mode, pattern, path) ==
  CASE mode = "whole"      -> Matches(pattern, path)
    [] mode = "prefix"     -> MatchesPrefix(pattern, path)
    [] mode = "descendant" -> MatchesLonger(pattern, path)

-----------------------------------------------------------------------------
\* The scan.  starPath is the first element of the path the last star has not
\* taken; it takes one more whenever the rest does not match.
NoStar == -1

Scan(mode, pattern, path) ==
  [mode |-> mode, pattern |-> pattern, path |-> path, expansion |-> {pattern},
   patternIndex |-> 0, pathIndex |-> 0, starPattern |-> NoStar, starPath |-> NoStar,
   result |-> "none"]

Scanning == gm.mode # "braces" /\ gm.result = "none"
Element == gm.pattern[gm.patternIndex + 1]
MoreOfPattern == gm.patternIndex < Len(gm.pattern)
MoreOfPath == gm.pathIndex < Len(gm.path)
Returns(result) == gm' = [gm EXCEPT !.result = IF result THEN "match" ELSE "no match"]

\* a pattern that is used up matches a prefix of what is left
PrefixMatched == gm.mode = "prefix" /\ ~MoreOfPattern

EarlyReturn == Scanning /\ MoreOfPath /\ PrefixMatched /\ Returns(TRUE)

\* Mutant: a later star does not become the one to fall back on.
MeetStarOnce ==
  /\ Scanning /\ MoreOfPath /\ MoreOfPattern /\ Element = Star
  /\ gm' = [gm EXCEPT !.starPattern = IF @ = NoStar THEN gm.patternIndex ELSE @,
                      !.starPath = gm.pathIndex, !.patternIndex = @ + 1]

MeetStar ==
  /\ Scanning /\ MoreOfPath /\ MoreOfPattern /\ Element = Star
  /\ gm' = [gm EXCEPT !.starPattern = gm.patternIndex, !.starPath = gm.pathIndex,
                      !.patternIndex = @ + 1]

MatchElement ==
  /\ Scanning /\ MoreOfPath /\ MoreOfPattern /\ Element # Star
  /\ gm.path[gm.pathIndex + 1] \in Element
  /\ gm' = [gm EXCEPT !.patternIndex = @ + 1, !.pathIndex = @ + 1]

Mismatch ==
  /\ Scanning /\ MoreOfPath /\ ~PrefixMatched
  /\ MoreOfPattern => Element # Star /\ gm.path[gm.pathIndex + 1] \notin Element

\* Mutant: the path goes on where it failed, and not behind what the star took.
FallBackHere ==
  /\ Mismatch
  /\ IF gm.starPattern # NoStar
       THEN gm' = [gm EXCEPT !.starPath = @ + 1, !.pathIndex = @ + 1,
                             !.patternIndex = gm.starPattern + 1]
       ELSE Returns(FALSE)

FallBack ==
  /\ Mismatch
  /\ IF gm.starPattern # NoStar /\ gm.starPath < Len(gm.path)
       THEN gm' = [gm EXCEPT !.starPath = @ + 1, !.pathIndex = gm.starPath + 1,
                             !.patternIndex = gm.starPattern + 1]
       ELSE Returns(FALSE)

\* At the end of the path only stars may be left; below it anything may come, or
\* the last star may take more.
PathEnds ==
  /\ Scanning /\ ~MoreOfPath
  /\ Returns(IF gm.mode = "descendant"
               THEN MoreOfPattern \/ gm.starPattern # NoStar
               ELSE \A i \in (gm.patternIndex + 1)..Len(gm.pattern) : gm.pattern[i] = Star)

-----------------------------------------------------------------------------
\* Brace alternatives.  A pattern is a sequence of the characters { } , and a.
Characters == {"{", "}", ",", "a"}

\* firstBraceGroup: the first group that holds a comma, a group without one
\* being transparent.  A frame of the stack is the place of an open brace, whether
\* a comma was seen, and the first group found in it.
Nowhere == <<0, 0>>
Frame(open) == [open |-> open, comma |-> FALSE, nested |-> Nowhere]

ScanBraces(pattern) ==
  LET after[n \in 0..Len(pattern)] ==
        IF n = 0 THEN [stack |-> <<>>, found |-> Nowhere, bad |-> FALSE]
        ELSE LET before == after[n - 1]
                 stack == before.stack
                 depth == Len(stack)
                 top == stack[depth]
                 group == IF top.comma THEN <<top.open, n>> ELSE top.nested
             IN IF before.found # Nowhere \/ before.bad THEN before
                ELSE CASE pattern[n] = "{" -> [before EXCEPT !.stack = Append(stack, Frame(n))]
                       [] pattern[n] = "," /\ depth > 0 ->
                            [before EXCEPT !.stack = [stack EXCEPT ![depth].comma = TRUE]]
                       [] pattern[n] = "}" /\ depth = 0 -> [before EXCEPT !.bad = TRUE]
                       [] pattern[n] = "}" /\ depth = 1 ->
                            [before EXCEPT !.stack = <<>>, !.found = group]
                       [] pattern[n] = "}" /\ depth > 1 ->
                            [before EXCEPT !.stack = SubSeq(
                               [stack EXCEPT ![depth - 1].nested =
                                  IF @ = Nowhere THEN group ELSE @], 1, depth - 1)]
                       [] OTHER -> before
  IN after[Len(pattern)]

Malformed(scan) == scan.bad \/ (scan.found = Nowhere /\ scan.stack # <<>>)

\* splitBraceAlternatives: a comma outside the groups of the body ends a part
Split(body, Divides(_)) ==
  LET after[n \in 0..Len(body)] ==
        IF n = 0 THEN [parts |-> {}, start |-> 1, depth |-> 0]
        ELSE LET before == after[n - 1]
             IN CASE body[n] = "{" -> [before EXCEPT !.depth = @ + 1]
                  [] body[n] = "}" -> [before EXCEPT !.depth = @ - 1]
                  [] body[n] = "," /\ Divides(before.depth) ->
                       [before EXCEPT !.parts = @ \cup {SubSeq(body, before.start, n - 1)},
                                      !.start = n + 1]
                  [] OTHER -> before
      end == after[Len(body)]
  IN end.parts \cup {SubSeq(body, end.start, Len(body))}

\* Mutant: every comma of the body divides it, those of the groups in it too.
splitEveryComma(body) == Split(body, LAMBDA depth : TRUE)
splitBraceAlternatives(body) == Split(body, LAMBDA depth : depth = 0)

Alternatives(pattern, found) == splitBraceAlternatives(SubSeq(pattern, found[1] + 1, found[2] - 1))

\* One round of expandBraces: every pattern's first group, until none has one.
Error == {<<"error">>}
Round(patterns) ==
  UNION {LET scan == ScanBraces(p)
             parts == IF scan.found = Nowhere THEN {} ELSE Alternatives(p, scan.found)
         IN CASE Malformed(scan) \/ <<>> \in parts -> Error
              [] ~Malformed(scan) /\ scan.found = Nowhere -> {p}
              [] OTHER -> {SubSeq(p, 1, scan.found[1] - 1) \o part
                             \o SubSeq(p, scan.found[2] + 1, Len(p)) : part \in parts}
           : p \in patterns}

\* A round that changes nothing is the last.
expandBraces ==
  /\ gm.mode = "braces" /\ gm.result = "none"
  /\ LET next == Round(gm.expansion) IN
     gm' = IF Error \subseteq next THEN [gm EXCEPT !.expansion = Error, !.result = "error"]
           ELSE IF next = gm.expansion THEN [gm EXCEPT !.result = "expanded"]
           ELSE [gm EXCEPT !.expansion = next]

-----------------------------------------------------------------------------
\* the last of two alternatives
Nested(text) == <<"{", "a", ",">> \o text \o <<"}">>

Init ==
  \/ \E mode \in Modes, pattern \in Strings(Elements, MaxPattern), path \in Strings(Letters, MaxPath) :
       Compiled(pattern) /\ gm = Scan(mode, pattern, path)
  \/ \E text \in Strings(Characters, MaxBraces) :
       \E pattern \in {text, Nested(text)} : gm = Scan("braces", pattern, <<>>)

Next == EarlyReturn \/ MeetStar \/ MatchElement \/ FallBack \/ PathEnds \/ expandBraces

-----------------------------------------------------------------------------
\* What a pattern with braces means, told by its structure: a group with commas
\* stands for its alternatives, and the braces of one without stand for themselves.
Depth(body, n) ==
  Cardinality({i \in 1..n : body[i] = "{"}) - Cardinality({i \in 1..n : body[i] = "}"})
Balanced(pattern) ==
  /\ \A n \in 1..Len(pattern) : Depth(pattern, n) >= 0
  /\ Depth(pattern, Len(pattern)) = 0
Closing(pattern) ==
  CHOOSE n \in 1..Len(pattern) :
    /\ pattern[n] = "}" /\ Depth(pattern, n) = 0
    /\ \A k \in 1..(n - 1) : Depth(pattern, k) > 0
Cuts(body) == {0, Len(body) + 1} \cup {i \in 1..Len(body) : body[i] = "," /\ Depth(body, i) = 0}
Between(body, cuts) ==
  {SubSeq(body, cut[1] + 1, cut[2] - 1) :
     cut \in {c \in cuts \X cuts : c[1] < c[2] /\ ~\E d \in cuts : c[1] < d /\ d < c[2]}}
Joined(S, T) == {s \o t : s \in S, t \in T}

Means[pattern \in Seq(Characters)] ==
  IF pattern = <<>> THEN {<<>>}
  ELSE IF pattern[1] # "{" THEN Joined({<<pattern[1]>>}, Means[Tail(pattern)])
  ELSE LET close == Closing(pattern)
           body == SubSeq(pattern, 2, close - 1)
           parts == Between(body, Cuts(body))
           rest == Means[SubSeq(pattern, close + 1, Len(pattern))]
       IN IF Cuts(body) # {0, Len(body) + 1}
            THEN Joined(UNION {Means[p] : p \in parts}, rest)
            ELSE Joined(Joined(Joined({<<"{">>}, Means[body]), {<<"}">>}), rest)

\* an alternative with nothing in it is refused, wherever it is
HasEmpty(pattern) ==
  \E i, j \in 1..Len(pattern) :
    /\ j = i + 1
    /\ \/ pattern[i] \in {"{", ","} /\ pattern[j] = ","
       \/ pattern[i] = "," /\ pattern[j] = "}"
    /\ pattern[i] = "{" \/ Depth(pattern, i) > 0

GlobsTypeOK ==
  /\ gm.patternIndex \in 0..Len(gm.pattern) /\ gm.pathIndex \in 0..Len(gm.path)
  /\ gm.result \in {"none", "match", "no match", "expanded", "error"}

\* The scan returns what the definition of a match says.
ScanIsRight ==
  gm.result \in {"match", "no match"} =>
    /\ (gm.result = "match") = Defined(gm.mode, gm.pattern, gm.path)
    /\ MatchesBelow(gm.pattern, gm.path) = MatchesLonger(gm.pattern, gm.path)

\* The expansion of a pattern is what it means, and a pattern that is not balanced
\* or has an empty alternative is refused.
BracesAreExpanded ==
  gm.result \in {"expanded", "error"} =>
    gm.expansion = IF ~Balanced(gm.pattern) \/ HasEmpty(gm.pattern) THEN Error
                   ELSE Means[gm.pattern]

\* A pattern matches what it says (compileSegment, matchSegments, expandBraces).
GlobsAreSound == ScanIsRight /\ BracesAreExpanded
=============================================================================
