------------------------------- MODULE FileDiff -------------------------------
(***************************************************************************)
(* The change of a file that is shown to the user                          *)
(* (src/tools/diff.go): the shortest way from the old lines to the new     *)
(* ones, as Myers finds it, or a plain one when that is too long; the      *)
(* hunks the changes are gathered in, each with some lines around it; and  *)
(* the part of them that is shown.  A line is a number, a line without an  *)
(* end is one of its own; how long lines are cut is left out.              *)
(***************************************************************************)
EXTENDS Integers, Sequences, FiniteSets

CONSTANTS MaxOld, MaxUpdated,  \* lines
          diffContextLines,
          Distances,           \* limits of the search for the shortest way
          DisplayLimits        \* lines that are shown

VARIABLE df

Lines == {1, 2}
Files(n) == UNION {[1..k -> Lines] : k \in 0..n}
           \cup {Append(f, 3) : f \in [1..1 -> Lines]}  \* one that ends without a new line
AtMost(a, b) == IF a < b THEN a ELSE b
AtLeast(a, b) == IF a > b THEN a ELSE b
Op(kind, line) == [kind |-> kind, line |-> line]

-----------------------------------------------------------------------------
\* The furthest x on each diagonal k = x - y that d changes reach.  Those of one
\* round have one parity, so each is made from the round before.
Diagonals(d) == {k \in -d..d : (k + d) % 2 = 0}
GoesDown(front, k, d) == k = -d \/ (k # d /\ front[k - 1] < front[k + 1])
Slid(old, updated, x, k) ==
  LET equal(n) == x + n <= Len(old) /\ x - k + n <= Len(updated) /\ old[x + n] = updated[x - k + n]
      lengths == {n \in 0..Len(old) : \A m \in 1..n : equal(m)}
  IN x + CHOOSE n \in lengths : \A m \in lengths : m <= n
RoundGreedy(old, updated, front, d) ==
  [k \in DOMAIN front |->
     IF k \in Diagonals(d)
     THEN Slid(old, updated, IF k = -d \/ k # d THEN front[k + 1] ELSE front[k - 1] + 1, k)
     ELSE front[k]]
Round(old, updated, front, d) ==
  [k \in DOMAIN front |->
     IF k \in Diagonals(d)
     THEN Slid(old, updated, IF GoesDown(front, k, d) THEN front[k + 1] ELSE front[k - 1] + 1, k)
     ELSE front[k]]
Reached(old, updated, front, d) ==
  \E k \in Diagonals(d) : front[k] >= Len(old) /\ front[k] - k >= Len(updated)

\* the way back through the fronts of the rounds
Backtrack(old, updated, fronts, distance) ==
  LET back[d \in 0..distance, x \in 0..Len(old), y \in 0..Len(updated)] ==
        LET front == fronts[d]
            k == x - y
            previous == IF GoesDown(front, k, d) THEN k + 1 ELSE k - 1
            px == front[previous]
            py == px - previous
            run == AtLeast(0, AtMost(x - px, y - py))
            same == [n \in 1..run |-> Op(" ", old[x - run + n])]
        IN IF d = 0 THEN same
           ELSE IF x - run = px
           THEN back[d - 1, x - run, y - run - 1] \o <<Op("+", updated[y - run])>> \o same
           ELSE back[d - 1, x - run - 1, y - run] \o <<Op("-", old[x - run])>> \o same
  IN back[distance, Len(old), Len(updated)]

\* Fronts of as many rounds as are needed, none if they are too many.
myersLineDiff(old, updated, limit) ==
  LET all == AtMost(Len(old) + Len(updated), limit)
      start == [k \in (-all - 1)..(all + 1) |-> 0]
      after[d \in 0..all] ==
        IF d = 0 THEN Round(old, updated, start, 0)
        ELSE LET before == after[d - 1] IN Round(old, updated, before, d)
      fronts == [d \in 0..all |-> IF d = 0 THEN start ELSE after[d - 1]]
      ends == {d \in 0..all : Reached(old, updated, after[d], d)}
  IN IF ends = {} THEN [exact |-> FALSE, ops |-> <<>>]
     ELSE [exact |-> TRUE,
           ops |-> Backtrack(old, updated, fronts, CHOOSE d \in ends : \A e \in ends : d <= e)]

\* What is equal at both ends, and everything between taken out and put in.
fallbackOverlapping(old, updated) ==
  LET same(n) == old[n] = updated[n]
      last(n) == old[Len(old) + 1 - n] = updated[Len(updated) + 1 - n]
      short == AtMost(Len(old), Len(updated))
      longest(P(_), most) ==
        LET ns == {n \in 0..most : \A m \in 1..n : P(m)} IN CHOOSE n \in ns : \A m \in ns : m <= n
      prefix == longest(same, short)
      suffix == longest(last, short)
  IN [n \in 1..prefix |-> Op(" ", old[n])]
     \o [n \in 1..AtLeast(0, Len(old) - prefix - suffix) |-> Op("-", old[prefix + n])]
     \o [n \in 1..AtLeast(0, Len(updated) - prefix - suffix) |-> Op("+", updated[prefix + n])]
     \o [n \in 1..suffix |-> Op(" ", old[Len(old) - suffix + n])]
fallbackLineDiff(old, updated) ==
  LET same(n) == old[n] = updated[n]
      last(n) == old[Len(old) + 1 - n] = updated[Len(updated) + 1 - n]
      longest(P(_), most) ==
        LET ns == {n \in 0..most : \A m \in 1..n : P(m)} IN CHOOSE n \in ns : \A m \in ns : m <= n
      short == AtMost(Len(old), Len(updated))
      prefix == longest(same, short)
      suffix == longest(last, short - prefix)
  IN [n \in 1..prefix |-> Op(" ", old[n])]
     \o [n \in 1..(Len(old) - prefix - suffix) |-> Op("-", old[prefix + n])]
     \o [n \in 1..(Len(updated) - prefix - suffix) |-> Op("+", updated[prefix + n])]
     \o [n \in 1..suffix |-> Op(" ", old[Len(old) - suffix + n])]

-----------------------------------------------------------------------------
\* Where op i is in the old file and in the new one.
OldLine(ops, i) == Cardinality({n \in 1..i : ops[n].kind # "+"})
NewLine(ops, i) == Cardinality({n \in 1..i : ops[n].kind # "-"})
Changes(ops) == {i \in DOMAIN ops : ops[i].kind # " "}

\* Changes with few lines between them are in one hunk.
FirstsJoined(ops) ==
  {i \in Changes(ops) : \A j \in Changes(ops) : j < i => i - j - 1 > diffContextLines}
Firsts(ops) ==
  {i \in Changes(ops) : \A j \in Changes(ops) : j < i => i - j - 1 > 2 * diffContextLines}
makeDiffHunk(ops, start, end) ==
  LET old == OldLine(ops, end) - OldLine(ops, start)
      new == NewLine(ops, end) - NewLine(ops, start)
  IN [start |-> start, end |-> end, oldLines |-> old, newLines |-> new,
      oldStart |-> IF old = 0 THEN OldLine(ops, start) ELSE OldLine(ops, start) + 1,
      newStart |-> IF new = 0 THEN NewLine(ops, start) ELSE NewLine(ops, start) + 1]
buildDiffHunks(ops) ==
  LET firsts == Firsts(ops)
      changes == Changes(ops)
      first(n) == CHOOSE i \in firsts : Cardinality({j \in firsts : j <= i}) = n
      last(n) == LET own == {j \in changes : n = Cardinality(firsts) \/ j < first(n + 1)}
                 IN CHOOSE j \in own : \A k \in own : k <= j
  IN [n \in 1..Cardinality(firsts) |->
        makeDiffHunk(ops, AtLeast(0, first(n) - 1 - diffContextLines),
                     AtMost(Len(ops), last(n) + diffContextLines))]

\* How much of each hunk is shown; the last one may be cut.
limitDiffHunks(hunks, limit) ==
  LET size(n) == hunks[n].end - hunks[n].start
      left[n \in 0..Len(hunks)] == IF n = 0 THEN limit ELSE AtLeast(0, left[n - 1] - size(n))
  IN [lines |-> [n \in {m \in DOMAIN hunks : left[m - 1] > 0} |-> AtMost(size(n), left[n - 1])],
      truncated |-> \E n \in DOMAIN hunks : size(n) > left[n - 1]]

Meta(old, updated, distance, limit) ==
  LET found == myersLineDiff(old, updated, distance)
      ops == IF found.exact THEN found.ops ELSE fallbackLineDiff(old, updated)
      hunks == buildDiffHunks(ops)
  IN [exact |-> found.exact, ops |-> ops, hunks |-> hunks, shown |-> limitDiffHunks(hunks, limit)]

-----------------------------------------------------------------------------
None == [exact |-> FALSE, ops |-> <<>>, hunks |-> <<>>, shown |-> [lines |-> <<>>, truncated |-> FALSE]]
Init ==
  \E old \in Files(MaxOld), updated \in Files(MaxUpdated), distance \in Distances, limit \in DisplayLimits :
    df = [old |-> old, updated |-> updated, distance |-> distance, limit |-> limit, made |-> FALSE, meta |-> None]
buildFileChangeMeta ==
  /\ ~df.made
  /\ df' = [df EXCEPT !.made = TRUE, !.meta = Meta(df.old, df.updated, df.distance, df.limit)]
Next == buildFileChangeMeta

-----------------------------------------------------------------------------
DiffTypeOK ==
  /\ df.made \in BOOLEAN /\ Len(df.meta.ops) <= Len(df.old) + Len(df.updated)

\* The lines two files have in common, at most.
Common(old, updated) ==
  LET most[i \in 0..Len(old), j \in 0..Len(updated)] ==
        IF i = 0 \/ j = 0 THEN 0
        ELSE IF old[i] = updated[j] THEN most[i - 1, j - 1] + 1
        ELSE AtLeast(most[i - 1, j], most[i, j - 1])
  IN most[Len(old), Len(updated)]
Kept(ops, kind) ==
  LET kept == {i \in DOMAIN ops : ops[i].kind # kind}
  IN [n \in 1..Cardinality(kept) |->
        ops[CHOOSE i \in kept : Cardinality({j \in kept : j <= i}) = n].line]

\* The change leads from the old file to the new one, by the shortest way when that
\* is looked for and not too long.
LeadsFromOldToNew ==
  df.made =>
    LET ops == df.meta.ops
        least == Len(df.old) + Len(df.updated) - 2 * Common(df.old, df.updated) IN
    /\ Kept(ops, "+") = df.old /\ Kept(ops, "-") = df.updated
    /\ df.meta.exact <=> least <= df.distance
    /\ df.meta.exact => Cardinality(Changes(ops)) = least

\* Every change is in one hunk, a line is between two hunks, and their numbers name the lines
\* of the files that are in them.
HunksNameTheirLines ==
  df.made =>
    LET ops == df.meta.ops
        hunks == df.meta.hunks IN
    /\ \A i \in Changes(ops) : Cardinality({n \in DOMAIN hunks : hunks[n].start < i /\ i <= hunks[n].end}) = 1
    /\ \A n \in DOMAIN hunks : n > 1 => hunks[n - 1].end < hunks[n].start
    /\ \A n \in DOMAIN hunks :
         LET h == hunks[n]
             part == SubSeq(ops, h.start + 1, h.end)
             range(file, start, size) == IF size = 0 THEN <<>> ELSE SubSeq(file, start, start + size - 1)
         IN /\ Kept(part, "+") = range(df.old, h.oldStart, h.oldLines)
            /\ Kept(part, "-") = range(df.updated, h.newStart, h.newLines)
            /\ part # <<>> /\ part[1].kind = " " => \E i \in 1..(diffContextLines + 1) : part[i].kind # " "

\* No more lines than the limit are shown, and a cut is said.
Shown == df.meta.shown
CutIsSaid ==
  df.made =>
    LET total[n \in 0..Len(df.meta.hunks)] ==
          IF n = 0 THEN 0 ELSE total[n - 1] + (IF n \in DOMAIN Shown.lines THEN Shown.lines[n] ELSE 0)
        all[n \in 0..Len(df.meta.hunks)] ==
          IF n = 0 THEN 0 ELSE all[n - 1] + df.meta.hunks[n].end - df.meta.hunks[n].start
        shown == total[Len(df.meta.hunks)]
    IN shown = AtMost(df.limit, all[Len(df.meta.hunks)]) /\ (Shown.truncated <=> shown < all[Len(df.meta.hunks)])

\* The change that is shown is that of the file (myersLineDiff, fallbackLineDiff,
\* buildDiffHunks).
DiffIsSound == LeadsFromOldToNew /\ HunksNameTheirLines /\ CutIsSaid
=============================================================================
