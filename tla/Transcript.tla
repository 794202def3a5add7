------------------------------ MODULE Transcript ------------------------------
(***************************************************************************)
(* The transcript of the terminal program (src/internal/ui/transcript.go)  *)
(* during one turn: the blocks the events of the agent make, change and    *)
(* remove (screen_events.go), the groups and summaries tool calls are      *)
(* shown in (display.go), the results of jobs that end later               *)
(* (process_display.go), and the cache of rendered rows, of which only the *)
(* part that a change has touched is made again.  A row is a record that   *)
(* says what can be read in it; the renderer below keeps the rows of the   *)
(* frame it drew last and replaces those from the first changed one on.    *)
(* The width of the terminal stays, an answer is not blank once it is      *)
(* shown, and the user's own commands have ended before the turn starts.   *)
(***************************************************************************)
EXTENDS Integers, Sequences, FiniteSets

CONSTANTS MaxExtras,  \* attempts and calls after the first, a job, blocks that are not
                      \* the turn's own, rows below the transcript that grow
          ScreenRows

VARIABLE ts

Profiles == {"compact", "detailed", "full"}
Lesser(a, b) == IF a < b THEN a ELSE b
Greater(a, b) == IF a > b THEN a ELSE b
LastOf(S) == CHOOSE i \in S : \A j \in S : j <= i
FirstOf(S) == CHOOSE i \in S : \A j \in S : i <= j
The(S) == CHOOSE x \in S : TRUE  \* of a set of one element
Without(seq, i) == SubSeq(seq, 1, i - 1) \o SubSeq(seq, i + 1, Len(seq))

-----------------------------------------------------------------------------
\* Blocks.  The notice of the retries says how many there are, or were; `removals'
\* are those whose note it has, of which only the presence is shown.
Notice(id, retries, removals) == [kind |-> "notice", id |-> id, retries |-> retries, removals |-> removals]
User(id) == [kind |-> "user", id |-> id]
Mark(id) == [kind |-> "mark", id |-> id]  \* changed files, or the time of the turn
Answer(attempt, text, streaming) ==
  [kind |-> "answer", attempt |-> attempt, text |-> text, streaming |-> streaming]
ToolNames == {"read", "edit", "bash"}
Tool(call, name) ==
  [kind |-> "tool", call |-> call, name |-> name, done |-> FALSE, failed |-> FALSE,
   changed |-> FALSE, image |-> FALSE, collapsed |-> FALSE, job |-> "none", superseded |-> FALSE,
   copied |-> FALSE]
JobStates == <<"none", "running", "completed", "failed", "unknown">>
JobEnded(job) == job \notin {"none", "running"}

IsTool(b) == b.kind = "tool"
Collapsed(b) == IsTool(b) /\ b.collapsed
\* Reads of one directory are shown as one row, unless their text says more.
SameKey(b) == IsTool(b) /\ b.name = "read"
GroupMember(b) == SameKey(b) /\ ~b.failed /\ ~b.image
StaysExpanded(b) == ~b.done \/ b.failed \/ b.job = "running"

Bit(b) == IF b THEN 1 ELSE 0
Row(k, v) == [k |-> k, v |-> v]
Gap == Row("", <<>>)
ToolRow(b) ==
  Row("tool", <<b.call, Bit(b.done), Bit(b.failed), Bit(b.changed), Bit(b.image),
                The({i \in DOMAIN JobStates : JobStates[i] = b.job})>>)

\* The rows of a block by itself (renderBlockLines).
blockLines(profile, b) ==
  CASE b.kind = "notice" -> <<Gap, Row("notice", <<b.id, b.retries, Bit(b.removals > 0)>>), Gap>>
    [] b.kind = "user" -> <<Gap, Gap, Row("user", <<b.id>>), Gap, Gap>>
    [] b.kind = "answer" -> <<Gap, Row("answer", <<b.attempt, b.text, Bit(b.streaming)>>), Gap>>
    [] b.kind = "mark" -> IF profile = "compact" THEN <<>> ELSE <<Gap, Row("mark", <<b.id>>), Gap>>
    [] OTHER -> <<ToolRow(b)>>

\* The blocks around index i that are as P, all of them next to each other.
Stretch(blocks, i, P(_)) ==
  {j \in DOMAIN blocks :
     \A k \in Lesser(i, j)..Greater(i, j) : P(blocks[k])}

\* one row that counts what is folded (renderCompactToolSummary)
summaryLine(blocks, group) ==
  Row("used", <<Cardinality(group), Cardinality({i \in group : blocks[i].changed})>>)

\* The rows of block i among its neighbours (renderBlockLinesAt).
renderBlockLinesAt(profile, blocks, i) ==
  LET b == blocks[i]
      kept(c) == GroupMember(c) /\ (profile = "compact" => c.collapsed = b.collapsed)
  IN IF profile = "full" /\ IsTool(b) THEN <<ToolRow(b)>>
     ELSE IF profile = "compact" /\ Collapsed(b)
     THEN (IF i = 1 \/ ~Collapsed(blocks[i - 1])
           THEN <<summaryLine(blocks, {j \in Stretch(blocks, i, Collapsed) : j >= i})>> ELSE <<>>)
          \o (IF StaysExpanded(b) THEN <<ToolRow(b)>> ELSE <<>>)
     ELSE IF GroupMember(b)
     THEN LET group == Stretch(blocks, i, kept)
          IN IF i # FirstOf(group) THEN <<>>
             ELSE <<Row("reads", [j \in 1..Cardinality(group) |-> blocks[i + j - 1].call]
                                 \o <<Bit(\A j \in group : blocks[j].done)>>)>>
     ELSE blockLines(profile, b)

\* Rows added below others: of the gaps that meet, the larger one stays, and
\* there is none at the top.
Joined(above, lines) ==
  LET blank(n) == n < Len(lines) /\ lines[n + 1] = Gap
                  /\ (above # <<>> => Len(above) > n /\ above[Len(above) - n] = Gap)
      overlap == CHOOSE n \in 0..Len(lines) : ~blank(n) /\ \A m \in 0..(n - 1) : blank(m)
  IN above \o SubSeq(lines, overlap + 1, Len(lines))

\* What the transcript is when nothing of it is cached.
Rendered(profile, blocks) ==
  LET rows[n \in 0..Len(blocks)] ==
        IF n = 0 THEN <<>>
        ELSE The({Joined(above, lines) : above \in {rows[n - 1]},
                                         lines \in {renderBlockLinesAt(profile, blocks, n)}})
  IN rows[Len(blocks)]

-----------------------------------------------------------------------------
\* The cache: the rows of the blocks before renderDirtyFrom, and where each of
\* them ends.  Blocks are counted from 1, so that all before dirtyBlock are clean.
markBlockDirty(s, i) == [s EXCEPT !.dirtyBlock = Lesser(@, i)]
CacheEnd(s, i) == IF i = 0 THEN 0 ELSE s.ends[i]

RemadeFrom(s, common) ==
  LET More(r, lines) == [r EXCEPT !.lines = lines, !.ends = Append(@, Len(lines))]
      rows[n \in common..Len(s.blocks)] ==
        IF n = common
        THEN [lines |-> SubSeq(s.cached, 1, CacheEnd(s, common)), ends |-> SubSeq(s.ends, 1, common),
              from |-> CacheEnd(s, common), all |-> common = 0]
        ELSE The({More(r, Joined(r.lines, lines)) :
                    r \in {rows[n - 1]}, lines \in {renderBlockLinesAt(s.profile, s.blocks, n)}})
  IN rows[Len(s.blocks)]
\* The cache of more blocks than there are is forgotten.
Remade(s) ==
  The({RemadeFrom(s, common) :
         common \in {IF Len(s.ends) > Len(s.blocks) THEN 0 ELSE Lesser(s.dirtyBlock - 1, Len(s.ends))}})

\* the first row that changed since the last frame
EarliestChange(s, from) == IF ~s.dirty \/ from < s.dirtyFrom THEN from ELSE s.dirtyFrom
WithRows(s, made) ==
  LET from == Lesser(Lesser(made.from, Len(s.lines)), Len(made.lines))
      cached == [s EXCEPT !.cached = made.lines, !.ends = made.ends,
                          !.dirtyBlock = Len(s.blocks) + 1, !.late = @ /\ ~made.all]
  IN IF made.from = Len(s.lines) /\ Len(made.lines) = Len(s.lines) THEN cached
     ELSE [cached EXCEPT !.lines = SubSeq(s.lines, 1, from) \o SubSeq(made.lines, from + 1, Len(made.lines)),
                         !.dirtyFrom = EarliestChange(s, from), !.dirty = TRUE]
refresh(s) == The({WithRows(s, made) : made \in {Remade(s)}})

\* The tools at the end, and how the oldest of them is folded.
ToolTail(blocks) == IF blocks = <<>> \/ ~IsTool(blocks[Len(blocks)]) THEN {}
                    ELSE Stretch(blocks, Len(blocks), IsTool)
Fold(blocks, folded) == [i \in DOMAIN blocks |-> IF i \in folded THEN [blocks[i] EXCEPT !.collapsed = TRUE] ELSE blocks[i]]
foldOldestToolTailBlock(s) ==
  LET tail == ToolTail(s.blocks) IN
  [markBlockDirty(s, FirstOf(tail)) EXCEPT
     !.blocks = Fold(@, {FirstOf({i \in tail : ~s.blocks[i].collapsed})})]

\* The rows below the transcript: those of the editor, and blank ones that keep the
\* frame from getting shorter when a tail is folded.
baseInlineFrameRows(s) == Len(s.lines) + s.below
frameRows(s) == Greater(s.frameRowFloor, baseInlineFrameRows(s))

\* The tail of a compact display stays on the screen as long as it can be folded.
fitCompactToolTail(s) ==
  LET fits(p) ==
        LET tail == ToolTail(p.blocks)
        IN \/ tail = {}
           \/ frameRows(p) - CacheEnd(p, FirstOf(tail) - 1) <= ScreenRows
           \/ \A i \in tail : p.blocks[i].collapsed
      f[n \in 0..Len(s.blocks)] ==
        IF n = 0 THEN [s EXCEPT !.frameRowFloor = IF baseInlineFrameRows(s) >= @ THEN 0 ELSE @]
        ELSE The({IF fits(p) THEN p
                  ELSE The({refresh(q) : q \in {foldOldestToolTailBlock(p)}}) : p \in {f[n - 1]}})
  IN f[IF s.profile = "compact" THEN Len(s.blocks) ELSE 0]

\* Folding a tail leaves the height of the frame, unless all of it is drawn again.
refreshTranscript(s) ==
  LET keeps(p) ==
        IF s.profile = "compact" /\ s.preserveToolTailHeight /\ ~s.invalidated /\ s.frame > baseInlineFrameRows(p)
        THEN [p EXCEPT !.frameRowFloor = Greater(@, s.frame)] ELSE p
  IN The({The({keeps(p) : p \in {fitCompactToolTail(made)}}) :
            made \in {refresh([s EXCEPT !.preserveToolTailHeight = FALSE])}})

\* A frame: the renderer draws the rows from the first changed one on, and all of
\* them if that one has left the screen.  dirtyFrom is read only while `dirty' is set.
Draw(s) ==
  LET shown == IF s.dirty THEN SubSeq(s.shown, 1, s.dirtyFrom) \o SubSeq(s.lines, s.dirtyFrom + 1, Len(s.lines))
               ELSE s.shown
      rows == frameRows(s)
      same == {i \in 1..Lesser(Len(shown), Len(s.shown)) : \A j \in 1..i : shown[j] = s.shown[j]}
      first == IF shown # s.shown THEN Cardinality(same) ELSE IF rows # s.frame THEN rows - s.below ELSE rows
  IN [s EXCEPT !.shown = shown, !.dirty = FALSE, !.dirtyFrom = 0, !.invalidated = FALSE, !.frame = rows,
               !.top = Greater(rows - ScreenRows, IF s.invalidated \/ first < @ THEN 0 ELSE @)]
\* One message: its handler makes the rows, and Update draws them.
Drawn(s) == The({Draw(fit) : fit \in {fitCompactToolTail(s)}})
Becomes(s) == \E given \in {s} : \E made \in {refreshTranscript(given)} : ts' = Drawn(made)

-----------------------------------------------------------------------------
\* The operations on blocks.
endsToolTail(b) == ~IsTool(b)
collapseLast(s) ==
  LET tail == ToolTail(s.blocks) IN
  IF tail = {} THEN s
  ELSE [markBlockDirty(s, LastOf(tail)) EXCEPT !.blocks = Fold(@, tail), !.preserveToolTailHeight = TRUE]
collapseToolTail(s) ==
  LET tail == ToolTail(s.blocks) IN
  IF tail = {} THEN s
  ELSE [markBlockDirty(s, FirstOf(tail)) EXCEPT !.blocks = Fold(@, tail), !.preserveToolTailHeight = TRUE]
appendBlock(s, b) ==
  LET c == IF endsToolTail(b) THEN collapseToolTail(s) ELSE s
  IN [markBlockDirty(c, Len(c.blocks) + 1) EXCEPT !.blocks = Append(@, b)]
Changed(s, i, b) == [markBlockDirty(s, i) EXCEPT !.blocks[i] = b]
\* Summaries on both sides become one, of which the first part is not made again.
Dropped(s, i) ==
  [markBlockDirty(s, i) EXCEPT
     !.blocks = Without(@, i),
     !.late = @ \/ (i > 1 /\ i < Len(s.blocks) /\ Collapsed(s.blocks[i - 1]) /\ Collapsed(s.blocks[i + 1]))]

settleAssistant(s) ==
  LET streaming == {i \in DOMAIN s.blocks : s.blocks[i].kind = "answer" /\ s.blocks[i].streaming}
  IN IF streaming = {} THEN s
     ELSE [markBlockDirty(s, FirstOf(streaming)) EXCEPT
             !.blocks = [i \in DOMAIN @ |-> IF i \in streaming THEN [@[i] EXCEPT !.streaming = FALSE] ELSE @[i]]]

AnswersOf(s, attempt) ==
  {i \in DOMAIN s.blocks : s.blocks[i].kind = "answer" /\ s.blocks[i].attempt = attempt}
startAttempt(s, attempt) == [settleAssistant(s) EXCEPT !.attempt = attempt]
\* Text that is blank so far makes no block.
appendAssistant(s) ==
  LET own == AnswersOf(s, s.attempt) IN
  IF own = {} THEN appendBlock(s, Answer(s.attempt, 1, TRUE))
  ELSE LET i == LastOf(own)
       IN Changed(s, i, [s.blocks[i] EXCEPT !.text = @ + 1, !.streaming = TRUE])
finishAssistant(s, text) ==
  LET settled == settleAssistant(s)
      own == AnswersOf(settled, s.attempt) IN
  IF text = 0 THEN settled
  ELSE IF own = {} THEN appendBlock(settled, Answer(s.attempt, text, FALSE))
  ELSE LET i == LastOf(own) IN
       IF settled.blocks[i].text = text THEN settled
       ELSE Changed(settled, i, [settled.blocks[i] EXCEPT !.text = text])

\* The text of an attempt that failed is taken away, and this is to be told.
discardAttempt(s) ==
  LET own == AnswersOf(s, s.attempt) IN
  IF own = {} THEN s
  ELSE [Dropped(s, LastOf(own)) EXCEPT !.partialRemoved = TRUE, !.removals = @ + 1]

GroupStartAlone(blocks, i) == i
GroupStart(blocks, i) == IF SameKey(blocks[i]) THEN FirstOf(Stretch(blocks, i, SameKey)) ELSE i
addToolCall(s, name) ==
  LET settled == settleAssistant(s)
      last == Len(settled.blocks)
      call == Tool(s.calls + 1, name)
      joins == last > 0 /\ name = "read" /\ SameKey(settled.blocks[last])
  IN [appendBlock(IF joins THEN markBlockDirty(settled, GroupStart(settled.blocks, last)) ELSE settled, call)
      EXCEPT !.calls = @ + 1]

\* A result ends the newest block of its call.  A file that changes under a
\* summary is late: the summary is not made again.
finishTool(s, call, result) ==
  LET i == LastOf({j \in DOMAIN s.blocks : IsTool(s.blocks[j]) /\ s.blocks[j].call = call})
      b == s.blocks[i]
      changed == b.name = "edit" /\ result # "failed"
  IN [markBlockDirty(s, GroupStart(s.blocks, i)) EXCEPT
        !.blocks[i] = [b EXCEPT !.done = TRUE, !.failed = result = "failed", !.changed = changed,
                                !.image = result = "image", !.job = IF result = "running" THEN result ELSE @],
        !.changes = @ \/ changed,
        !.late = @ \/ (changed /\ b.collapsed)]

\* The one notice that tells of all retries; a count below 0 is of those after
\* which the model recovered.
Note(s) == IF s.partialRemoved THEN s.removals ELSE 0
RetryShown(s) ==
  /\ s.retry.visible /\ s.retry.index \in DOMAIN s.blocks
  /\ s.blocks[s.retry.index].kind = "notice"
resetModelRetryGroup(s) == [s EXCEPT !.retry = [visible |-> FALSE, index |-> 0, count |-> 0]]
ShowRetry(s, text) ==
  IF RetryShown(s) THEN [Changed(s, s.retry.index, text) EXCEPT !.retry.count = @ + 1]
  ELSE LET added == appendBlock(s, text)
       IN [added EXCEPT !.retry = [visible |-> TRUE, index |-> Len(added.blocks), count |-> @.count + 1]]
showRetryAndForget(s) ==
  [ShowRetry(s, Notice(0, s.retry.count + 1, Note(s))) EXCEPT !.partialRemoved = FALSE]
showModelRetry(s) == ShowRetry(s, Notice(0, s.retry.count + 1, Note(s)))
finishModelRetryNotice(s) ==
  IF ~RetryShown(s) THEN resetModelRetryGroup(s)
  ELSE resetModelRetryGroup([Changed(s, s.retry.index, Notice(0, -s.retry.count, Note(s)))
                             EXCEPT !.partialRemoved = FALSE])
removeModelRetryNotice(s) ==
  resetModelRetryGroup(IF RetryShown(s) THEN Dropped(s, s.retry.index) ELSE s)

-----------------------------------------------------------------------------
\* The jobs that go on after their call.  A block whose rows are above the screen
\* is left as it is, and the end is told below.
AboveViewport(s, i) == i <= Len(s.ends) /\ s.ends[i] <= s.top
RepresentedNowhere(s) == FALSE
Represented(s) ==
  \E i \in DOMAIN s.blocks :
    LET b == s.blocks[i] IN (b.kind = "notice" /\ b.id < 0) \/ (IsTool(b) /\ JobEnded(b.job))
refreshJob(s, i) ==
  LET b == s.blocks[i]
      now == [b EXCEPT !.job = s.job, !.failed = s.job \in {"failed", "unknown"}]
  IN IF ~AboveViewport(s, i) THEN Changed(s, i, now)
     ELSE IF s.job = "running" THEN s
     ELSE LET superseded == [s EXCEPT !.blocks[i].superseded = TRUE]
          IN IF s.job = "unknown" \/ Represented(s) THEN superseded
             ELSE [appendBlock(superseded, [now EXCEPT !.copied = TRUE])
                   EXCEPT !.late = @ \/ (b.collapsed /\ Collapsed(s.blocks[Len(s.blocks)]))]
RunningJobs(s) ==
  {i \in DOMAIN s.blocks : IsTool(s.blocks[i]) /\ s.blocks[i].job = "running" /\ ~s.blocks[i].superseded}
refreshProcessResults(s) ==
  LET f[n \in 0..Len(s.blocks)] ==
        IF n = 0 THEN s
        ELSE The({IF n \in RunningJobs(s) THEN refreshJob(p, n) ELSE p : p \in {f[n - 1]}})
  IN f[Len(s.blocks)]

-----------------------------------------------------------------------------
\* A transcript that was cleared, and the first input (addUserBlock, startTurn).
Init ==
  \E profile \in {"compact", "detailed"} :
    ts = [blocks |-> <<>>, attempt |-> 0, profile |-> profile, below |-> 1,
          ends |-> <<>>, cached |-> <<>>, dirtyBlock |-> 1, lines |-> <<>>, dirty |-> TRUE, dirtyFrom |-> 0,
          preserveToolTailHeight |-> FALSE, frameRowFloor |-> 0,
          shown |-> <<>>, frame |-> 1, top |-> 0, invalidated |-> FALSE, renderPending |-> FALSE, late |-> FALSE,
          phase |-> "idle", tries |-> 0, calls |-> 0, notices |-> 0,
          picks |-> IF profile = "compact" THEN 0 ELSE 1,
          retry |-> [visible |-> FALSE, index |-> 0, count |-> 0],
          partialRemoved |-> FALSE, removals |-> 0, changes |-> FALSE, job |-> "none"]
TurnStarts ==
  ts.phase = "idle" /\ Becomes([startAttempt(appendBlock(ts, User(0)), 0) EXCEPT !.phase = "ready"])

Unfinished(s) == {i \in DOMAIN s.blocks : IsTool(s.blocks[i]) /\ ~s.blocks[i].done}
Extras == Greater(0, ts.tries - 1) + Greater(0, ts.calls - 1) + ts.notices + ts.picks + Bit(ts.job # "none")
          + Cardinality({i \in DOMAIN ts.blocks : ts.blocks[i].kind = "answer" /\ ts.blocks[i].text > 1})
MayAttempt == ts.tries = 0 \/ Extras < MaxExtras
MayCall == ts.calls = 0 \/ Extras < MaxExtras
BetweenRequests == ts.phase = "ready" /\ Unfinished(ts) = {}
\* An event of the agent that is not text: all rows are made before the next one.
Applied(s) == Becomes([s EXCEPT !.renderPending = FALSE])

\* EventModelAttemptStarted and EventTextDelta; text without a new line is drawn later.
AttemptStarted ==
  /\ (BetweenRequests \/ ts.phase = "waiting") /\ MayAttempt
  /\ Applied([startAttempt(ts, ts.tries + 1) EXCEPT !.tries = @ + 1, !.phase = "streaming"])
TextDelta ==
  /\ ts.phase = "streaming"
  /\ \E blank \in BOOLEAN :
       /\ blank => AnswersOf(ts, ts.attempt) = {}
       /\ ~blank => \A i \in AnswersOf(ts, ts.attempt) : ts.blocks[i].text < 2 /\ Extras < MaxExtras
       /\ \E s \in {[IF blank THEN ts ELSE appendAssistant(ts) EXCEPT !.renderPending = TRUE]} :
            ts' = s \/ Becomes(s)
DelayedRender == ts.renderPending /\ Becomes([ts EXCEPT !.renderPending = FALSE])

AttemptDiscarded ==
  /\ ts.phase = "streaming" /\ Applied([discardAttempt(ts) EXCEPT !.phase = "discarded"])
RetryScheduled ==
  /\ ts.phase = "discarded" /\ MayAttempt
  /\ Applied([showModelRetry(ts) EXCEPT !.phase = "waiting"])

\* An accepted answer has calls; they start in order and end in any order.
ToolStarted ==
  /\ ts.phase \in {"streaming", "ready"} /\ MayCall
  /\ (ts.phase = "ready" => Unfinished(ts) # {})
  /\ \E name \in ToolNames : \E s \in {finishModelRetryNotice(ts)} :
       Applied([addToolCall(s, name) EXCEPT !.phase = "ready"])
ToolRejected ==
  /\ ts.phase = "streaming" /\ MayCall
  /\ \E name \in ToolNames : \E s \in {finishModelRetryNotice(ts)} : \E added \in {addToolCall(s, name)} :
       Applied([finishTool(added, added.calls, "failed") EXCEPT !.phase = "ready"])
ToolFinished ==
  \E i \in Unfinished(ts), result \in {"text", "failed", "image", "running"} :
    /\ result = "image" => ts.blocks[i].name = "read"
    /\ result = "running" => ts.blocks[i].name = "bash" /\ ts.job = "none" /\ Extras < MaxExtras
    /\ Applied([finishTool(ts, ts.blocks[i].call, result)
                EXCEPT !.job = IF result = "running" THEN result ELSE @])

\* Inputs that waited, summaries and the ends of jobs come between two requests,
\* a word on the state, or a display that cannot be recorded, at any time.
Told(s, b) == [appendBlock(s, b) EXCEPT !.notices = @ + 1]
Delivered ==
  /\ BetweenRequests /\ Extras < MaxExtras
  /\ \E s \in {finishModelRetryNotice(ts)} :
     \/ Applied(Told(s, User(ts.notices + 1)))
     \/ Applied(Told(s, Notice(ts.notices + 1, 0, 0)))
     \/ ts.job \in {"completed", "failed"} /\ Applied(Told(s, Notice(-1, 0, 0)))
InTurn == ts.phase \notin {"idle", "done"}
Status == InTurn /\ Extras < MaxExtras /\ Applied(Told(ts, Notice(ts.notices + 1, 0, 0)))

\* EventRunFinished: an answer, or what there is of one, or none; `limited' after
\* the last call that was allowed.
RunFinished ==
  \/ /\ ts.phase = "streaming"
     /\ \E text \in 0..2, limited \in BOOLEAN, to \in {"answered", "incomplete"} :
          /\ \A i \in AnswersOf(ts, ts.attempt) : ts.blocks[i].text <= text
          /\ limited => Extras < MaxExtras
          /\ \E s \in {finishModelRetryNotice(ts)} :
             \E told \in {IF limited THEN Told(s, Notice(ts.notices + 1, 0, 0)) ELSE s} :
               Applied([finishAssistant(told, text) EXCEPT !.phase = to])
  \/ /\ ts.phase \in {"discarded", "waiting"} \/ (BetweenRequests /\ ts.tries > 0)
     /\ Applied([finishAssistant(removeModelRetryNotice(ts), 0) EXCEPT !.phase = "broken"])

\* The end of the turn, with an error unless there is a whole answer; also when the
\* end of the run could not be recorded.
reportFailureOnly(s, cancelled) == IF ~cancelled THEN appendBlock(s, Notice(0, 0, Note(s))) ELSE s
reportFailedTurn(s, cancelled) ==
  IF ~cancelled \/ s.partialRemoved THEN appendBlock(s, Notice(0, 0, Note(s))) ELSE s
finishTurnChanges(s) == [(IF s.changes THEN appendBlock(s, Mark(1)) ELSE s) EXCEPT !.changes = FALSE]
finishTurnDuration(s) == appendBlock(s, Mark(2))
OperationCleared(s) ==
  [resetModelRetryGroup(s) EXCEPT !.phase = "done", !.partialRemoved = FALSE, !.renderPending = FALSE]
AgentDone ==
  \E failed, cancelled \in BOOLEAN :
    /\ ts.phase \in (IF failed THEN {"incomplete", "broken", "streaming"} ELSE {"answered"})
    /\ cancelled => failed /\ ts.phase # "incomplete"
    /\ \E s \in {settleAssistant(ts)} :
       \E told \in {finishTurnChanges(IF failed THEN removeModelRetryNotice(s) ELSE finishModelRetryNotice(s))} :
       \E ended \in {IF failed THEN reportFailedTurn(told, cancelled) ELSE told} :
         Becomes(OperationCleared(finishTurnDuration(ended)))

\* A job ends, or this process cannot see it any more; the next tick looks.
JobEnds == ts.job = "running" /\ \E job \in {"completed", "failed", "unknown"} : ts' = [ts EXCEPT !.job = job]
Tick ==
  /\ RunningJobs(ts) # {}
  /\ \E s \in {refreshProcessResults(ts)} :
       IF Len(s.blocks) > Len(ts.blocks) \/ \E i \in RunningJobs(ts) : ~AboveViewport(ts, i)
       THEN Becomes(s) ELSE ts' = Drawn(s)

\* Another display, for which everything is drawn again; and rows below that grow.
SwitchDisplay ==
  /\ InTurn /\ Extras < MaxExtras
  /\ \E profile \in Profiles \ {ts.profile} :
       Becomes(Told([ts EXCEPT !.profile = profile, !.frameRowFloor = 0, !.dirtyBlock = 1, !.invalidated = TRUE],
                    Notice(ts.notices + 1, 0, 0)))
PickerOpens ==
  /\ InTurn /\ Extras < MaxExtras /\ ts.below = 1
  /\ \E s \in {[ts EXCEPT !.below = 2, !.picks = @ + 1]} : ts' = Drawn(s)

Next == \/ TurnStarts \/ AttemptStarted \/ TextDelta \/ DelayedRender \/ AttemptDiscarded \/ RetryScheduled
        \/ ToolStarted \/ ToolRejected \/ ToolFinished \/ Delivered \/ Status
        \/ RunFinished \/ AgentDone \/ JobEnds \/ Tick \/ SwitchDisplay \/ PickerOpens

-----------------------------------------------------------------------------
TranscriptTypeOK ==
  /\ ts.profile \in Profiles /\ ts.tries + ts.calls <= MaxExtras + 2
  /\ ts.dirtyBlock \in 1..(Len(ts.blocks) + 1) /\ Len(ts.ends) <= Len(ts.blocks)
  /\ ts.phase \in {"idle", "ready", "streaming", "discarded", "waiting", "answered", "incomplete", "broken", "done"}
  /\ \E i \in DOMAIN JobStates : ts.job = JobStates[i]

\* The rows on the terminal are those of the blocks, though only the part from the
\* first dirty block on was made again, and only the part from the first changed
\* row on was drawn.  What is counted in a summary may be of an earlier time.
Uncounted(lines) == [i \in DOMAIN lines |-> IF lines[i].k = "used" THEN Row("used", <<>>) ELSE lines[i]]
AllMade == ts.dirtyBlock > Len(ts.blocks)
RowsAreFresh ==
  /\ ~ts.renderPending => AllMade
  /\ AllMade =>
    LET rows == Rendered(ts.profile, ts.blocks) IN
    /\ ts.shown = ts.lines
    /\ IF ts.late THEN Uncounted(ts.shown) = Uncounted(rows) ELSE ts.shown = rows

\* Whatever is folded, a call that runs or has failed is on its own row, or is among
\* the reads.
AttentionIsShown ==
  AllMade =>
    \A i \in DOMAIN ts.blocks :
      LET b == ts.blocks[i] IN
      IsTool(b) /\ (~b.done \/ b.failed \/ b.job = "running") =>
        \E l \in DOMAIN ts.shown :
          \/ ts.shown[l] = ToolRow(b)
          \/ ts.shown[l].k = "reads" /\ \E n \in DOMAIN ts.shown[l].v : ts.shown[l].v[n] = b.call

\* Each notice stays, only that of the retries is changed or taken away, and the
\* reader is told that text he has read was removed.
NoticesAreKept ==
  /\ Cardinality({i \in DOMAIN ts.blocks : ts.blocks[i].kind \in {"notice", "user"} /\ ts.blocks[i].id # 0})
       = ts.notices
  /\ ts.phase # "idle" => Cardinality({i \in DOMAIN ts.blocks : ts.blocks[i] = User(0)}) = 1
  /\ ts.retry.visible => RetryShown(ts) /\ ts.blocks[ts.retry.index].id = 0
  /\ ts.phase = "done" /\ ts.removals > 0 =>
       \E i \in DOMAIN ts.blocks : ts.blocks[i].kind = "notice" /\ ts.blocks[i].removals = ts.removals

\* Text on the terminal is of an attempt that stands.
TextStands ==
  \A i \in DOMAIN ts.blocks :
    LET b == ts.blocks[i] IN
    b.kind = "answer" =>
      /\ \A j \in DOMAIN ts.blocks : ts.blocks[j].kind = "answer" /\ ts.blocks[j].attempt = b.attempt => j = i
      /\ b.attempt = ts.attempt => ts.phase \notin {"discarded", "waiting"}
      /\ ts.phase = "done" => ~b.streaming

\* The end of a job is told once below what has left the screen.
EndsAreToldOnce ==
  /\ Cardinality({i \in DOMAIN ts.blocks : IsTool(ts.blocks[i]) /\ ts.blocks[i].copied}) <= 1
  /\ \A i \in DOMAIN ts.blocks :
       IsTool(ts.blocks[i]) /\ ts.blocks[i].copied =>
         \A j \in 1..(i - 1) : ~(ts.blocks[j].kind = "notice" /\ ts.blocks[j].id < 0)
  /\ \A i \in DOMAIN ts.blocks :
       IsTool(ts.blocks[i]) /\ ts.blocks[i].superseded /\ ts.job # "unknown" => Represented(ts)

\* The transcript says what happened, and the terminal shows it, without a row
\* that is stale (renderLinesFromDirty, discardAttempt, showModelRetry).
TranscriptIsSound ==
  RowsAreFresh /\ AttentionIsShown /\ NoticesAreKept /\ TextStands /\ EndsAreToldOnce
=============================================================================
