------------------------------- MODULE Skills -------------------------------
(***************************************************************************)
(* Skills of a conversation: the packages that are installed               *)
(* (src/skills/catalog.go, load.go), the input that captures one when the  *)
(* user names it (src/app/skills.go), what of it the model is sent, over   *)
(* repeated selections, compaction and /skills clear                       *)
(* (src/agent/input.go, replay.go, input_context.go), and the directories  *)
(* that tool calls may read on its account.                                *)
(*                                                                         *)
(* Three packages have the same name: one in the workspace, one in the     *)
(* user's directory and one outside; each of the first two may be          *)
(* replaced by a link to the third.  An input names one skill.             *)
(***************************************************************************)
EXTENDS Naturals, Sequences, FiniteSets

CONSTANTS MaxSelected,  \* inputs that name a skill
          MaxUpsets,    \* changes of the disk or the protected paths, clearings, compactions,
                        \* inputs taken back
          MaxInterventions \* both together

VARIABLE sk

Unspent == sk.selected + sk.upsets < MaxInterventions

Packages == {"workspace", "user", "outside"}
SourcesInOrder == <<"workspace", "user">>
Sources == {"workspace", "user"}
\* a text, or no manifest that can be read
Contents == {"none", "old", "new"}
Texts == {"old", "new"}
NoText == "none"   \* a reference to a text that was sent already

Without(s, n) == SubSeq(s, n + 1, Len(s))
Elements(s) == {s[i] : i \in DOMAIN s}

-----------------------------------------------------------------------------
(* The packages on disk.                                                    *)

\* filepath.EvalSymlinks
Canonical(p) == IF p \in Sources /\ sk.linked[p] THEN "outside" ELSE p

\* The project's skills stay in the workspace unless the sources are configured.
\* Mutant: only the directory of the source is looked at.
skillPathUnchecked(source, p) == TRUE
skillPathAllowed(source, p) ==
  /\ sk.defaults /\ source = "workspace" => p = "workspace"
  /\ p \notin sk.protected

\* discoverEntry: a package is where its path leads.
Discovered(source) ==
  LET p == Canonical(source) IN
  IF /\ skillPathAllowed(source, source) /\ skillPathAllowed(source, p)
     /\ sk.content[p] \in Texts
  THEN {p} ELSE {}
DiscoverWithOptions ==
  LET first == Discovered(SourcesInOrder[1])
      second == Discovered(SourcesInOrder[2]) \ first
  IN [i \in 1..Cardinality(first \cup second) |->
        IF i = 1 /\ first # {} THEN [path |-> CHOOSE p \in first : TRUE, source |-> SourcesInOrder[1]]
        ELSE [path |-> CHOOSE p \in second : TRUE, source |-> SourcesInOrder[2]]]

\* By the name all have, or by a path.
Resolve(reference) ==
  LET found == {i \in DOMAIN DiscoverWithOptions :
                  reference \in {"name", DiscoverWithOptions[i].path}}
  IN IF found = {} THEN {} ELSE {DiscoverWithOptions[CHOOSE i \in found : \A j \in found : i <= j]}

\* Entry.Load reads what is there now.
Loadable(entry) ==
  LET p == Canonical(entry.path) IN
  /\ skillPathAllowed(entry.source, entry.source) /\ skillPathAllowed(entry.source, entry.path)
  /\ skillPathAllowed(entry.source, p)
  /\ sk.content[p] \in Texts

-----------------------------------------------------------------------------
(* The conversation: blocks with the skill of their input, and the number   *)
(* of those that are cleared.                                               *)

Block(key, text, paths) == [key |-> key, text |-> text, paths |-> paths]
Notice == Block("notice", "cleared", {})
Current == {i \in DOMAIN sk.blocks : i > sk.cleared}

readOnlyPaths == UNION {sk.blocks[i].paths : i \in Current}
requestedEver == UNION {sk.blocks[i].paths : i \in DOMAIN sk.blocks}

\* Mutant: what was cleared still counts as sent.
latestEver(key) ==
  LET own == {i \in DOMAIN sk.blocks : sk.blocks[i].key = key /\ sk.blocks[i].text # NoText}
  IN IF own = {} THEN NoText ELSE sk.blocks[CHOOSE i \in own : \A j \in own : j <= i].text
latestInstructions(key) ==
  LET own == {i \in Current : sk.blocks[i].key = key /\ sk.blocks[i].text # NoText}
  IN IF own = {} THEN NoText ELSE sk.blocks[CHOOSE i \in own : \A j \in own : j <= i].text

\* What a group of inputs is delivered as; the texts of one count for the next.
\* Mutant: they do not.
withNewOfState(inputs) ==
  [i \in DOMAIN inputs |->
     IF inputs[i].key # "" /\ inputs[i].text = latestInstructions(inputs[i].key)
     THEN [inputs[i] EXCEPT !.text = NoText] ELSE inputs[i]]
withNewInstructions(inputs) ==
  LET latest(i) ==
        LET before == {j \in 1..(i - 1) : inputs[j].key = inputs[i].key}
        IN IF before = {} THEN latestInstructions(inputs[i].key)
           ELSE inputs[CHOOSE j \in before : \A k \in before : k <= j].text
  IN [i \in DOMAIN inputs |->
        IF inputs[i].key # "" /\ inputs[i].text = latest(i)
        THEN [inputs[i] EXCEPT !.text = NoText] ELSE inputs[i]]

\* What a request has of the skills, in order: the latest text of each that is
\* not in the tail the model gets verbatim, then that tail.
\* Mutant: the first text of each.
retainedFirst ==
  {i \in Current : /\ sk.blocks[i].text # NoText /\ i <= sk.summarized
                   /\ \A j \in Current : sk.blocks[j].key = sk.blocks[i].key /\ sk.blocks[j].text # NoText => i <= j}
retained ==
  {i \in Current : /\ sk.blocks[i].text # NoText /\ i <= sk.summarized
                   /\ \A j \in Current : sk.blocks[j].key = sk.blocks[i].key /\ sk.blocks[j].text # NoText => j <= i}
modelItems ==
  LET shown == {i \in DOMAIN sk.blocks : i \in retained \/ i > sk.summarized}
  IN [i \in shown |-> IF i \in Current THEN sk.blocks[i] ELSE Block("", NoText, {})]

-----------------------------------------------------------------------------
Init ==
  \E defaults, linked \in BOOLEAN :
    sk = [defaults |-> defaults, linked |-> [s \in Sources |-> s = "user" /\ linked], protected |-> {},
             content |-> [p \in Packages |-> "old"],
             catalog |-> {}, queue |-> <<>>, blocks |-> <<>>, cleared |-> 0, summarized |-> 0,
             granted |-> {}, asked |-> {}, known |-> {}, inCall |-> FALSE, selected |-> 0, upsets |-> 0]

\* PrepareInput looks the skill up, and then reads it; neither depends on calls.
LookUp ==
  /\ sk.selected < MaxSelected /\ Unspent /\ sk.catalog = {} /\ ~sk.inCall
  /\ \E reference \in {"name"} \cup Packages :
       /\ Resolve(reference) # {}
       /\ sk' = [sk EXCEPT !.catalog = Resolve(reference), !.selected = @ + 1]
PrepareInput ==
  \E entry \in sk.catalog :
    sk' = [sk EXCEPT !.catalog = {},
             !.queue = IF Loadable(entry)
                       THEN Append(@, Block(entry.path, sk.content[Canonical(entry.path)], {entry.path})) ELSE @]

\* An input the user queued comes back to the editor.
PopQueued ==
  /\ sk.upsets < MaxUpsets /\ Unspent
  /\ sk.queue # <<>> /\ ~sk.inCall
  /\ sk' = [sk EXCEPT !.queue = SubSeq(@, 1, Len(@) - 1), !.upsets = @ + 1]

\* A run starts, or goes on, with all that is queued.
deliverQueuedInput ==
  /\ sk.queue # <<>> /\ ~sk.inCall
  /\ sk' = [sk EXCEPT !.blocks = @ \o withNewInstructions(sk.queue), !.queue = <<>>,
              !.known = {k \in @ : \A i \in DOMAIN sk.queue : sk.queue[i].key # k.key}
                        \cup {[key |-> sk.queue[i].key, text |-> sk.queue[i].text] : i \in
                               {j \in DOMAIN sk.queue : /\ sk.queue[j].key # ""
                                                        /\ \A k \in DOMAIN sk.queue : sk.queue[k].key = sk.queue[j].key => k <= j}}]

\* ClearInputContext: a notice that stays in the summary, if there is anything to clear.
Stripped(queue) == [i \in DOMAIN queue |-> Block("", NoText, {})]
ClearSkills ==
  /\ sk.upsets < MaxUpsets /\ Unspent
  /\ ~sk.inCall /\ sk.catalog = {}
  /\ sk.queue # <<>> \/ \E i \in Current : sk.blocks[i] # Notice
  /\ LET any == \E i \in Current : sk.blocks[i].key \notin {"", "notice"} IN
     sk' = [sk EXCEPT !.queue = Stripped(@), !.known = {}, !.upsets = @ + 1,
              !.blocks = IF any THEN Append(@, Notice) ELSE @,
              !.cleared = IF any THEN Len(sk.blocks) ELSE @]

\* Compaction leaves a tail.
Compact ==
  /\ sk.upsets < MaxUpsets /\ Unspent /\ ~sk.inCall
  /\ \E n \in DOMAIN sk.blocks :
       n > sk.summarized /\ sk' = [sk EXCEPT !.summarized = n, !.upsets = @ + 1]
\* Journal paths are requests; packages that are installed are granted.
\* Mutant: every package of a source is, wherever its path leads.
authorizeByName(requested) == requested \cap (Sources \cup {"outside"})
authorizeSkillPaths(requested) ==
  requested \cap {DiscoverWithOptions[i].path : i \in DOMAIN DiscoverWithOptions}
executeToolCalls ==
  /\ ~sk.inCall /\ sk.blocks # <<>>
  /\ sk' = [sk EXCEPT !.inCall = TRUE, !.granted = authorizeSkillPaths(readOnlyPaths),
              !.asked = {p \in Packages : p \notin sk.protected /\ sk.content[p] \in Texts
                           /\ \E s \in Sources : Canonical(s) = p /\ s \notin sk.protected}]
CallsEnd == sk.inCall /\ sk' = [sk EXCEPT !.inCall = FALSE, !.granted = {}, !.asked = {}]

\* withReadOnlyPaths, when a call starts.
\* Mutant: as granted.
ReadableAsGranted == sk.granted
Readable == {p \in sk.granted : Canonical(p) = p}

\* Somebody edits, removes or replaces a package, or the user protects one.
Edit ==
  /\ sk.upsets < MaxUpsets /\ Unspent
  /\ \/ \E p \in Packages, c \in Contents :
          /\ c # sk.content[p]
          /\ sk' = [sk EXCEPT !.content[p] = c, !.upsets = @ + 1]
     \/ \E s \in Sources : sk' = [sk EXCEPT !.linked[s] = ~@, !.upsets = @ + 1]
     \/ \E p \in Packages \ sk.protected : sk' = [sk EXCEPT !.protected = @ \cup {p}, !.upsets = @ + 1]

Next ==
  \/ LookUp \/ PrepareInput \/ PopQueued \/ deliverQueuedInput \/ ClearSkills \/ Compact
  \/ executeToolCalls \/ CallsEnd \/ Edit

-----------------------------------------------------------------------------
SkillsTypeOK ==
  /\ sk.content \in [Packages -> Contents] /\ sk.linked \in [Sources -> BOOLEAN]
  /\ sk.cleared \in 0..Len(sk.blocks) /\ sk.summarized \in 0..Len(sk.blocks)
  /\ sk.granted \subseteq Packages

\* The last text a request has of a skill is the one that was selected last, since
\* the last time all were cleared, and of the others it has none.
LatestIsSent ==
  LET items == modelItems
      texts(key) == {i \in DOMAIN items : items[i].key = key /\ items[i].text # NoText} IN
  \A key \in Packages :
    LET last == CHOOSE i \in texts(key) : \A j \in texts(key) : j <= i
        sent == {k.text : k \in {k \in sk.known : k.key = key}}
    IN IF sent = {} THEN texts(key) = {} ELSE texts(key) # {} /\ sent = {items[last].text}

\* A text the model has been given and that is still the latest is not given again.
NothingTwice ==
  \A i, j \in Current :
    /\ i < j /\ sk.blocks[i].key = sk.blocks[j].key
    /\ sk.blocks[i].text # NoText /\ sk.blocks[j].text # NoText
    => \/ sk.blocks[i].text # sk.blocks[j].text
       \/ \E k \in i..j : sk.blocks[k].key = sk.blocks[i].key
                          /\ sk.blocks[k].text \notin {NoText, sk.blocks[i].text}

\* The notice that skills were cleared outlasts compaction.
ClearingIsSaid == sk.cleared > 0 => \E i \in DOMAIN modelItems : i > sk.cleared /\ modelItems[i] = Notice

\* A call reads only directories of packages that were installed and not protected when
\* its batch began, lie where their path says, and were attached by a message that is not
\* cleared.
ReadsWhatIsAttached ==
  sk.inCall =>
    /\ Readable \subseteq sk.asked /\ \A p \in Readable : Canonical(p) = p
    /\ \A p \in Readable : \E k \in sk.known : k.key = p

\* A skill is what the user attached, for the model and for its tools (PrepareInput,
\* withNewInstructions, modelItemsFromSequence, authorizeSkillPaths).
SkillsAreSound == LatestIsSent /\ NothingTwice /\ ClearingIsSaid /\ ReadsWhatIsAttached
=============================================================================
