------------------------------ MODULE FileSearch ------------------------------
(***************************************************************************)
(* A walk of the files below a directory (src/internal/filesearch): the    *)
(* rules of the ignore files of the directories it is in, the glob of the  *)
(* query, which may exclude paths or select ignored ones, and the order    *)
(* the files are found in.  The tree is small, with the names a, a. and aa *)
(* (a slash sorts between the dot and the letter), and has .gitignore and  *)
(* .rgignore files in two directories; .ignore and .git/info/exclude are   *)
(* sources like these.  The ignore files themselves are not searched for.  *)
(* While the walk runs another program may replace a directory by a link.  *)
(* Between the last look at a directory and its listing that goes          *)
(* unnoticed: the two are one step here.                                   *)
(***************************************************************************)
EXTENDS GlobMatch, FiniteSets

CONSTANTS MaxRules,     \* rules in all ignore files
          MaxReplaced   \* directories another program replaces by a link

VARIABLE fw

Last(s) == s[Len(s)]
Front(s) == SubSeq(s, 1, Len(s) - 1)

\* Names as the numbers of their bytes, in the order of the bytes.
Dot == 1
Slash == 2
Letter == 3
A == <<Letter>>
ADot == <<Letter, Dot>>
AA == <<Letter, Letter>>

Root == <<>>
Directories == {<<A>>, <<A, AA>>}
Files == {<<ADot>>, <<AA>>, <<A, ADot>>, <<A, AA, A>>, <<A, AA, ADot>>}
Children(dir) == {p \in Directories \cup Files : Len(p) = Len(dir) + 1 /\ Front(p) = dir}
Above(p) == {SubSeq(p, 1, n) : n \in 0..(Len(p) - 1)}

-----------------------------------------------------------------------------
\* compilePattern: a pattern without a slash is compared with the last name; one
\* that ends in a globstar matches what is inside the directory before it.
Rule(segments, basename, contents, dirOnly) ==
  [segments |-> segments, basename |-> basename, contents |-> contents,
   dirOnly |-> dirOnly, negated |-> FALSE]
Basename(name) == Rule(<<{name}>>, TRUE, FALSE, FALSE)
Anchored(segments) == Rule(segments, FALSE, FALSE, FALSE)
Contents(segments) == Rule(segments, FALSE, TRUE, FALSE)
Negated(rule) == [rule EXCEPT !.negated = TRUE]
traversalSegments(rule) == IF rule.contents THEN Append(rule.segments, Star) ELSE rule.segments

Ignores == {Basename(A), Basename(ADot), Rule(<<{A}>>, TRUE, FALSE, TRUE),
            Contents(<<{A}>>), Basename(AA)}
GlobPatterns == {Basename(A), Basename(ADot), Contents(<<{A}>>), Anchored(<<Star, {A}>>),
          Negated(Basename(ADot)), Negated(Rule(<<{A}>>, TRUE, FALSE, TRUE)),
          Negated(Anchored(<<{A}, {AA}>>))}

matchesDirect(rule, parts, isDir) ==
  /\ rule.dirOnly => isDir
  /\ CASE rule.basename -> Last(parts) \in rule.segments[1]
       [] rule.contents -> MatchesPrefix(rule.segments, Front(parts))
       [] OTHER -> Matches(rule.segments, parts)

-----------------------------------------------------------------------------
\* The rules of the directories the walk is in, per source: a stack of sets.
Sources == {"git", "rg"}

\* DecideDirectRelativeParts, directDecisionParts: the last rule of the last set
\* that matches, the sources in their order
Hits(sets, parts, isDir) ==
  {hit \in UNION {{k} \X DOMAIN sets[k].rules : k \in DOMAIN sets} :
     LET set == sets[hit[1]] IN
     /\ Len(parts) > set.depth
     /\ matchesDirect(set.rules[hit[2]], SubSeq(parts, set.depth + 1, Len(parts)), isDir)}
Deciding(sets, hits) ==
  LET hit == CHOOSE h \in hits : \A o \in hits : o[1] < h[1] \/ (o[1] = h[1] /\ o[2] <= h[2])
  IN sets[hit[1]].rules[hit[2]]

directDecision(sets, parts, isDir) ==
  LET rg == Hits(sets["rg"], parts, isDir)
      git == Hits(sets["git"], parts, isDir)
  IN IF rg # {} THEN ~Deciding(sets["rg"], rg).negated
     ELSE git # {} /\ ~Deciding(sets["git"], git).negated

\* Mutant: a rule that shows an entry again shows it below an ignored directory too.
childIgnoredOwn(sets, parts, isDir, parentIgnored) ==
  IF \E s \in Sources : Hits(sets[s], parts, isDir) # {} THEN directDecision(sets, parts, isDir)
  ELSE parentIgnored

childIgnored(sets, parts, isDir, parentIgnored) ==
  parentIgnored \/ directDecision(sets, parts, isDir)

ignored(sets, dir) == \E n \in 1..Len(dir) : directDecision(sets, SubSeq(dir, 1, n), TRUE)

\* loadDirectory, loadDirectoryEntries: no set for a file that is not there
Loaded(sets, dir) ==
  [s \in Sources |-> IF fw.files[dir, s] = <<>> THEN sets[s]
                     ELSE Append(sets[s], [rules |-> fw.files[dir, s], depth |-> Len(dir)])]

checkpoint(sets) == [s \in Sources |-> Len(sets[s])]

\* Mutant: the rules of a directory stay after it was left.
restoreNothing(sets, lengths) == sets
restore(sets, lengths) == [s \in Sources |-> SubSeq(sets[s], 1, lengths[s])]

-----------------------------------------------------------------------------
\* The glob of the query.  "none" is a search without one.
None == Anchored(<<>>)
HasGlob(glob) == glob # None

\* Mutant: an ignored directory is only entered if it matches itself.
directReopensItself(glob, dir) == HasGlob(glob) /\ ~glob.negated /\ matchesDirect(glob, dir, TRUE)

directReopens(glob, dir) ==
  /\ HasGlob(glob) /\ ~glob.negated
  /\ \/ matchesDirect(glob, dir, TRUE)
     \/ ~glob.basename /\ MatchesBelow(traversalSegments(glob), dir)

directExcludes(glob, dir) == HasGlob(glob) /\ glob.negated /\ matchesDirect(glob, dir, TRUE)

includeFile(glob, file, isIgnored) ==
  CASE ~HasGlob(glob) -> ~isIgnored
    [] HasGlob(glob) /\ ~glob.negated -> matchesDirect(glob, file, FALSE)
    [] OTHER -> ~matchesDirect(glob, file, FALSE) /\ ~isIgnored

-----------------------------------------------------------------------------
\* The order of the bytes, of names and of whole paths.
Before(s, t) ==
  \/ \E n \in 1..Len(s) : n <= Len(t) /\ s[n] < t[n] /\ SubSeq(s, 1, n - 1) = SubSeq(t, 1, n - 1)
  \/ Len(s) < Len(t) /\ s = SubSeq(t, 1, Len(s))
Text(path) ==
  LET joined[n \in 1..Len(path)] ==
        IF n = 1 THEN path[1] ELSE joined[n - 1] \o <<Slash>> \o path[n]
  IN joined[Len(path)]

\* Mutant: entries in the order of their names.
inspectedEntryByName(left, right) == Before(Last(left), Last(right))

\* inspectedEntryLess: a directory's name as though it ended in a slash
inspectedEntryLess(left, right) ==
  LET name(p) == IF p \in Directories THEN Append(Last(p), Slash) ELSE Last(p)
  IN Before(name(left), name(right))

\* ReadDir and what is kept of it, sorted
Listed(dir) ==
  LET kept == {p \in Children(dir) : p # fw.protected /\ p \notin fw.links}
  IN CHOOSE s \in [1..Cardinality(kept) -> kept] :
       \A i, j \in DOMAIN s : i < j => inspectedEntryLess(s[i], s[j])

-----------------------------------------------------------------------------
IgnoreFiles == {Root, <<A>>} \X Sources
NoSets == [s \in Sources |-> <<>>]

\* up to two rules: the first ignores something, the second shows it again
Placed(files, place, rule) == [files EXCEPT ![place] = Append(@, rule)]
Empty == [place \in {Root, <<A>>, <<A, AA>>} \X Sources |-> <<>>]
RuleFiles ==
  LET one == {Placed(Empty, place, rule) : place \in IgnoreFiles, rule \in Ignores}
      two == {Placed(files, place, Negated(rule)) :
                files \in one, place \in IgnoreFiles, rule \in Ignores}
  IN {Empty} \cup (IF MaxRules >= 1 THEN one ELSE {}) \cup (IF MaxRules >= 2 THEN two ELSE {})

\* What is protected, what is replaced and other places to begin are combined with
\* fewer rules.
Init ==
  \E files \in RuleFiles, glob \in GlobPatterns \cup {None}, query \in {Root, <<A>>, <<A, AA>>},
     protected \in {Root, <<A, AA>>, <<A, ADot>>}, replacing \in 0..MaxReplaced :
    /\ protected # Root => \A place \in {Root, <<A>>} \X {"rg"} : files[place] = <<>>
    /\ protected # Root \/ replacing > 0 \/ query # Root =>
         Cardinality({place \in IgnoreFiles : files[place] # <<>>}) < 2
           /\ \A place \in IgnoreFiles : Len(files[place]) < 2
    /\ query # protected \/ query = Root
    /\ fw = [phase |-> "start", files |-> files, glob |-> glob, query |-> query,
             protected |-> protected, replacing |-> replacing, links |-> {}, sets |-> NoSets,
             stack |-> <<>>, found |-> <<>>]

\* walkDirectory: the frame of a directory that is entered.  Ignore files of an
\* ignored directory are not read.
Entered(sets, dir, loaded, isIgnored) ==
  [fw EXCEPT !.phase = "walk",
             !.sets = IF loaded \/ isIgnored THEN sets ELSE Loaded(sets, dir),
             !.stack = Append(@, [dir |-> dir, ignored |-> isIgnored, rest |-> Listed(dir),
                                  lengths |-> checkpoint(sets)])]

\* loadRoot, loadAncestorIgnores: the root and the directories between, until one
\* is ignored.
Ancestors(query) ==
  LET load[n \in 0..(Len(query) - 1)] ==
        IF n = 0 THEN [sets |-> Loaded(NoSets, Root), open |-> TRUE]
        ELSE LET before == load[n - 1]
                 dir == SubSeq(query, 1, n)
                 open == before.open /\ ~ignored(before.sets, dir)
             IN [sets |-> IF open THEN Loaded(before.sets, dir) ELSE before.sets, open |-> open]
  IN IF query = Root THEN Loaded(NoSets, Root) ELSE load[Len(query) - 1].sets

run ==
  /\ fw.phase = "start"
  /\ LET sets == Ancestors(fw.query)
         isIgnored == ignored(sets, fw.query)
         refused == fw.query # Root /\ (\/ directExcludes(fw.glob, fw.query)
                                        \/ isIgnored /\ ~directReopens(fw.glob, fw.query))
     IN fw' = IF refused THEN [fw EXCEPT !.phase = "done"]
              ELSE Entered(sets, fw.query, fw.query = Root, isIgnored)

Top == Last(fw.stack)
Candidate == Top.rest[1]
Visiting == fw.phase = "walk" /\ Top.rest # <<>>
Passed == [fw EXCEPT !.stack[Len(fw.stack)].rest = Tail(@)]
CandidateIgnored ==
  childIgnored(fw.sets, Candidate, Candidate \in Directories, Top.ignored)

\* A directory is looked at once more before it is entered.
VisitDirectory ==
  /\ Visiting /\ Candidate \in Directories
  /\ LET skipped == \/ directExcludes(fw.glob, Candidate)
                    \/ CandidateIgnored /\ ~directReopens(fw.glob, Candidate)
                    \/ Candidate \in fw.links
         entered == Entered(fw.sets, Candidate, FALSE, CandidateIgnored)
     IN fw' = IF skipped THEN Passed
              ELSE [entered EXCEPT !.stack[Len(fw.stack)].rest = Tail(@)]

\* The callback may end the walk (ErrStop).
VisitFile ==
  /\ Visiting /\ Candidate \in Files
  /\ IF includeFile(fw.glob, Candidate, CandidateIgnored)
       THEN \/ fw' = [Passed EXCEPT !.found = Append(@, Candidate)]
            \/ fw' = [fw EXCEPT !.found = Append(@, Candidate), !.phase = "stopped",
                                !.stack = <<>>, !.sets = NoSets]
       ELSE fw' = Passed

Leave ==
  /\ fw.phase = "walk" /\ Top.rest = <<>>
  /\ fw' = [fw EXCEPT !.stack = Front(@), !.sets = restore(@, Top.lengths),
                      !.phase = IF Len(fw.stack) = 1 THEN "done" ELSE @]

\* External: another program replaces a directory that was not entered by a link.
Replace ==
  /\ fw.phase = "walk" /\ Cardinality(fw.links) < fw.replacing
  /\ \E dir \in Directories :
       /\ dir \notin Above(fw.query) \cup {fw.query}
       /\ \A i \in DOMAIN fw.stack : dir # fw.stack[i].dir
       /\ fw' = [fw EXCEPT !.links = @ \cup {dir}]

Next == run \/ VisitDirectory \/ VisitFile \/ Leave \/ Replace

-----------------------------------------------------------------------------
FilesTypeOK ==
  /\ fw.phase \in {"start", "walk", "done", "stopped"}
  /\ \A i \in DOMAIN fw.stack : fw.stack[i].dir \in Directories \cup {Root}
  /\ \A i \in DOMAIN fw.found : fw.found[i] \in Files

\* What an ignore file means: the last rule that matches in the deepest directory
\* decides, .rgignore before .gitignore, and nothing below an ignored path is shown.
Ruling(path, source) ==
  {at \in (0..(Len(path) - 1)) \X (1..2) :
     LET rules == fw.files[SubSeq(path, 1, at[1]), source] IN
     /\ at[2] \in DOMAIN rules
     /\ matchesDirect(rules[at[2]], SubSeq(path, at[1] + 1, Len(path)), path \in Directories)}
Decided(path, source) ==
  LET ruling == Ruling(path, source)
      depth == CHOOSE d \in 0..2 : (\E r \in ruling : r[1] = d) /\ \A r \in ruling : r[1] <= d
      last == CHOOSE i \in 1..2 : <<depth, i>> \in ruling /\ \A r \in ruling : r[1] = depth => r[2] <= i
  IN ~fw.files[SubSeq(path, 1, depth), source][last].negated
Hidden(path) ==
  IF Ruling(path, "rg") # {} THEN Decided(path, "rg")
  ELSE Ruling(path, "git") # {} /\ Decided(path, "git")
Ignored(path) == \E n \in 1..Len(path) : Hidden(SubSeq(path, 1, n))

\* What the query asks for.
Entering(file) == {dir \in Above(file) \ {Root} : Len(dir) >= Len(fw.query)}
Asked(file) ==
  /\ fw.query \in Above(file)
  /\ \A dir \in Above(file) \cup {file} : dir = Root \/ dir # fw.protected
  /\ \A dir \in Entering(file) :
       /\ ~directExcludes(fw.glob, dir)
       /\ Ignored(dir) => directReopens(fw.glob, dir)
  /\ includeFile(fw.glob, file, Ignored(file))
Replaced(file) == Above(file) \cap fw.links # {}
Found == {fw.found[i] : i \in DOMAIN fw.found}
Finished == fw.phase \in {"done", "stopped"}

\* The rules at hand are those of the directories the walk is in, and of no other.
RulesAreOfAncestors ==
  fw.phase = "walk" =>
    \A s \in Sources : \A k \in DOMAIN fw.sets[s] :
      fw.sets[s][k].depth <= Len(Top.dir)
        /\ fw.sets[s][k].rules = fw.files[SubSeq(Top.dir, 1, fw.sets[s][k].depth), s]

\* A walk finds what was asked for, up to where it was stopped, and the same
\* whatever directories it has been in.
FindsWhatWasAsked ==
  Finished =>
    \A file \in Files \ {f \in Files : Replaced(f)} :
      \/ fw.phase = "stopped" /\ Before(Text(Last(fw.found)), Text(file))
      \/ (file \in Found) = Asked(file)

\* The order is that of the whole paths.
FoundInOrder ==
  \A i \in 2..Len(fw.found) : Before(Text(fw.found[i - 1]), Text(fw.found[i]))

\* A positive glob with a slash finds all that match it, ignored or not, and
\* without one nothing ignored is found.
GlobsReachIgnored ==
  fw.phase = "done" =>
    \A file \in Files \ {f \in Files : Replaced(f)} :
      fw.query \in Above(file) /\ (\A dir \in Above(file) \cup {file} : dir = Root \/ dir # fw.protected) =>
        IF HasGlob(fw.glob) /\ ~fw.glob.negated
          THEN ~fw.glob.basename /\ matchesDirect(fw.glob, file, FALSE) => file \in Found
          ELSE file \in Found => ~Ignored(file)

\* A search finds what its ignore files and its glob say, in order (walkDirectory,
\* childIgnoredParts, directReopens, inspectedEntryLess).
SearchIsSound ==
  RulesAreOfAncestors /\ FindsWhatWasAsked /\ FoundInOrder /\ GlobsReachIgnored
=============================================================================
