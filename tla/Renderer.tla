------------------------------- MODULE Renderer -------------------------------
(***************************************************************************)
(* The renderer of the terminal (src/internal/ui/inline_renderer.go) and   *)
(* the terminal it writes to.  The renderer knows rows by their number in  *)
(* the frame and moves the cursor by differences only; the terminal has    *)
(* rows that scroll out of the screen and cannot be reached any more, and  *)
(* its cursor stops at the edges.  A frame is the rows of the transcript   *)
(* and below them those of the editor.  A row is one of a few texts, as    *)
(* wide as the screen; a change of the width is one of the height.  The    *)
(* program draws with the size it was told last, and may be late.           *)
(***************************************************************************)
EXTENDS Integers, Sequences, FiniteSets

CONSTANTS MaxTranscript,  \* rows of a transcript
          MaxDynamic,     \* rows below it
          Heights,        \* of the screen
          MaxResizes

VARIABLE rd

Blank == 0
Texts == {1, 2}
Prompt == 5
EditorTexts == {Prompt, 6}  \* no row of the transcript looks like one of the editor
History == 3  \* a row above the frame
Mixed == 4    \* two texts written over each other
MaxRows == 2 * (MaxTranscript + MaxDynamic) + 4
NoCursor == -1

AtMost(a, b) == IF a < b THEN a ELSE b
AtLeast(a, b) == IF a > b THEN a ELSE b

-----------------------------------------------------------------------------
\* The terminal: all its rows, the first one on the screen, and the cursor's.
Bottom(t) == t.top + t.height - 1
Moved(t, rows) ==
  [t EXCEPT !.cur = IF rows < 0 THEN AtLeast(t.top, @ + rows) ELSE AtMost(Bottom(t), @ + rows)]

Blanks(n) == [i \in 1..n |-> Blank]
Overwritten(rows, from, texts) ==
  SubSeq(rows, 1, from - 1) \o texts \o SubSeq(rows, from + Len(texts), Len(rows))

\* the texts from the cursor on, each below the one before; the screen scrolls
Written(t, texts, erased) ==
  IF texts = <<>> THEN t
  ELSE LET end == t.cur + Len(texts) - 1 IN
       [t EXCEPT !.rows = Overwritten(@, t.cur,
                            IF erased THEN texts
                            ELSE [i \in DOMAIN texts |-> IF @[t.cur + i - 1] = Blank THEN texts[i] ELSE Mixed]),
                 !.cur = end, !.top = AtLeast(@, end - t.height + 1)]
NewLines(t, n) ==
  [t EXCEPT !.cur = @ + n, !.top = AtLeast(@, t.cur + n - t.height + 1)]

\* n rows erased from the cursor on, down to the edge of the screen
Erased(t, n) ==
  LET end == AtMost(Bottom(t), t.cur + n - 1)
  IN [t EXCEPT !.rows = Overwritten(@, t.cur, Blanks(end - t.cur + 1)), !.cur = end]
Cleared(t) == [t EXCEPT !.rows = Blanks(MaxRows), !.top = 1, !.cur = 1]

-----------------------------------------------------------------------------
\* The renderer's memory: the frame it drew last and where, and the height of the
\* screen as the program has it (screen).
Previous(r) == r.transcript \o r.dynamic
forgetFrame(r) ==
  [r EXCEPT !.transcript = <<>>, !.dynamic = <<>>, !.height = 0, !.viewportTop = 0,
            !.hardwareCursorRow = 0, !.appendPending = FALSE, !.appendAfter = 0]
adoptFrame(r, frame, row, viewportTop) ==
  [r EXCEPT !.transcript = frame.transcript, !.dynamic = frame.dynamic, !.height = r.screen,
            !.hardwareCursorRow = row, !.viewportTop = viewportTop]
Lines(frame) == frame.transcript \o frame.dynamic

\* where the cursor is put: an output-only run parks it on the last row
TargetRow(frame, row) ==
  LET n == Len(Lines(frame)) IN
  IF rd.outputOnly /\ n > 0 THEN n - 1
  ELSE IF frame.cursor = NoCursor \/ n = 0 THEN row
  ELSE AtMost(frame.cursor, n - 1)

\* A frame that is drawn leaves the terminal, the memory, the number of the rows
\* above the frame, and whether it was drawn, the terminal was cleared for it, or
\* it was refused since it would have been.
Drawn(t, r, frame, row, viewportTop, base) ==
  LET target == TargetRow(frame, row)
  IN [t |-> Moved(t, target - row), base |-> base, outcome |-> "drawn",
      r |-> adoptFrame(r, frame, target, viewportTop)]

\* Mutant: a row that has just been scrolled away counts as on the screen.
fullRenderOneMore(t, r, frame, clear) ==
  LET start == IF clear THEN Cleared(t) ELSE t
      lines == Lines(frame)
      drawn == Drawn(Written(start, lines, FALSE), r, frame, AtLeast(0, Len(lines) - 1),
                     AtLeast(0, Len(lines) - r.screen - 1), start.cur - 1)
  IN IF clear THEN [drawn EXCEPT !.outcome = IF rd.outputOnly THEN "refused" ELSE "cleared"]
     ELSE drawn

\* A run that only writes output never clears the terminal.
fullRender(t, r, frame, clear) ==
  LET start == IF clear THEN Cleared(t) ELSE t
      lines == Lines(frame)
      drawn == Drawn(Written(start, lines, FALSE), r, frame, AtLeast(0, Len(lines) - 1),
                     AtLeast(0, Len(lines) - r.screen), start.cur - 1)
  IN IF clear THEN [drawn EXCEPT !.outcome = IF rd.outputOnly THEN "refused" ELSE "cleared"]
     ELSE drawn

\* Mutant: rows that were scrolled away are deleted in place like others.
renderDeletionAlways(t, r, frame) ==
  LET lines == Lines(frame)
      target == Len(lines) - 1
      extra == Len(Previous(r)) - Len(lines)
      below == Moved(Moved(t, target - r.hardwareCursorRow), 1)
  IN Drawn(Moved(Erased(below, extra), -extra), r, frame, target, r.viewportTop, rd.base)

renderDeletion(t, r, frame) ==
  LET lines == Lines(frame)
      target == Len(lines) - 1
      extra == Len(Previous(r)) - Len(lines)
      below == Moved(Moved(t, target - r.hardwareCursorRow), 1)
  IN IF target < r.viewportTop \/ extra > r.screen THEN fullRender(t, r, frame, TRUE)
     ELSE Drawn(Moved(Erased(below, extra), -extra), r, frame, target, r.viewportTop, rd.base)

\* changedLineRange
Differs(old, new) ==
  {i \in 1..AtLeast(Len(old), Len(new)) :
     (IF i \in DOMAIN old THEN old[i] ELSE -1) # (IF i \in DOMAIN new THEN new[i] ELSE -1)}
First(S) == CHOOSE i \in S : \A j \in S : i <= j
Last(S) == CHOOSE i \in S : \A j \in S : j <= i

\* Rows count from 0 here, as in the code.
differentialRender(t, r, frame, firstChanged, lastChanged) ==
  LET lines == Lines(frame)
      previous == Len(Previous(r))
      n == Len(lines)
      appendStart == n > previous /\ firstChanged = previous /\ firstChanged > 0
      moveTarget == IF appendStart THEN firstChanged - 1 ELSE firstChanged
      bottom == r.viewportTop + r.screen - 1
      scroll == IF moveTarget > bottom THEN moveTarget - bottom ELSE 0
      scrolled == IF scroll = 0 THEN t
                  ELSE NewLines(Moved(t, r.screen - 1 - AtMost(AtLeast(0, r.hardwareCursorRow - r.viewportTop), r.screen - 1)), scroll)
      viewport == r.viewportTop + scroll
      row == IF scroll = 0 THEN r.hardwareCursorRow ELSE moveTarget
      at == Moved(scrolled, moveTarget - row)
      renderEnd == AtMost(lastChanged, n - 1)
      written == Written(IF appendStart THEN NewLines(at, 1) ELSE at,
                         SubSeq(lines, firstChanged + 1, renderEnd + 1), TRUE)
      extra == AtLeast(0, previous - n)
      down == IF extra > 0 /\ renderEnd < n - 1 THEN Moved(written, n - 1 - renderEnd) ELSE written
      final == IF extra > 0 /\ renderEnd < n - 1 THEN n - 1 ELSE renderEnd
      gone == Written(NewLines(down, 1), Blanks(extra), TRUE)
      end == IF extra = 0 THEN down ELSE Moved(gone, -extra)
  IN IF firstChanged >= n THEN renderDeletion(t, r, frame)
     ELSE Drawn(end, r, frame, final, AtLeast(viewport, final - r.screen + 1), rd.base)

\* A frame below another one: its rows from appendAfter on are replaced if they
\* can still be reached.
appendFrame(t, r, frame) ==
  LET previous == Len(Previous(r))
      preserve == AtMost(r.appendAfter, previous)
      replaces == preserve < previous /\ preserve >= r.viewportTop
      target == IF replaces THEN preserve ELSE previous - 1
      at == Moved(t, target - r.hardwareCursorRow)
      ready == IF replaces THEN Moved(Erased(at, previous - target), -(previous - target - 1))
               ELSE NewLines(at, 1)
  IN IF previous = 0 THEN fullRender(t, forgetFrame(r), frame, FALSE)
     ELSE fullRender(ready, forgetFrame(r), frame, FALSE)

RenderFrame(t, old, frame) ==
  LET previous == Previous(old)
      changed == Differs(previous, Lines(frame))
      r == [old EXCEPT !.invalidated = FALSE, !.appendPending = FALSE, !.appendAfter = 0]
  IN IF old.invalidated THEN fullRender(t, r, frame, previous # <<>>)
     ELSE IF old.appendPending THEN appendFrame(t, old, frame)
     ELSE IF previous = <<>> THEN fullRender(t, r, frame, FALSE)
     ELSE IF old.height # old.screen THEN fullRender(t, r, frame, TRUE)
     ELSE IF changed = {} THEN Drawn(t, r, frame, r.hardwareCursorRow, r.viewportTop, rd.base)
     ELSE IF First(changed) - 1 < r.viewportTop THEN fullRender(t, r, frame, TRUE)
     ELSE differentialRender(t, r, frame, First(changed) - 1, Last(changed) - 1)

\* Mutant: the row above the parked cursor is erased with it.
commitOutputAbove(t) == Moved(Erased(Moved(t, -1), t.height), -t.height)

\* commitOutput: the transcript stays, and what is below it is erased.
commitOutput(t) == [Erased(t, Bottom(t) - t.cur + 1) EXCEPT !.cur = t.cur]

-----------------------------------------------------------------------------
Strings(S, n) == UNION {[1..k -> S] : k \in 0..n}

\* The cursor is in the editor, which the screen is high enough for.
Cursors(transcript, dynamic) ==
  {NoCursor} \cup Len(transcript)..(Len(transcript) + Len(dynamic) - 1)
Frames ==
  UNION {{[transcript |-> transcript, dynamic |-> dynamic, cursor |-> cursor] :
            cursor \in Cursors(transcript, dynamic)} :
         transcript \in Strings(Texts, MaxTranscript),
         dynamic \in {d \in Strings(EditorTexts, MaxDynamic) : d # <<>> => d[1] = Prompt}}

\* The terminal at the start has a shell's row.
Init ==
  \E height \in Heights, outputOnly \in BOOLEAN :
    rd = [t |-> [rows |-> [i \in 1..MaxRows |-> IF i = 1 THEN History ELSE Blank],
                 top |-> 1, cur |-> 2, height |-> height],
          r |-> [transcript |-> <<>>, dynamic |-> <<>>, height |-> 0, viewportTop |-> 0,
                 hardwareCursorRow |-> 0, screen |-> height, invalidated |-> FALSE,
                 appendPending |-> FALSE, appendAfter |-> 0],
          base |-> 1, kept |-> TRUE, outputOnly |-> outputOnly, resizes |-> 0, stale |-> FALSE,
          stopped |-> FALSE]

Running == ~rd.stopped
Interactive == Running /\ ~rd.outputOnly

Unknown(t) == [t EXCEPT !.rows = [i \in 1..MaxRows |-> Mixed], !.top = 1, !.cur = 1]

\* The first rows of the terminal have to stay unless it is cleared.  Then those
\* above the frame need not be told apart any more, and those that were scrolled
\* away long ago are left out.  What is drawn with a size that is not the
\* terminal's, or moved into from a frame that was drawn with another one, is
\* stale until the terminal is cleared, and what it shows is not followed.
Becomes(drawn, rows) ==
  LET gone == AtLeast(0, AtMost(drawn.base, drawn.t.top - 1) - 1)
      renumbered ==
        [i \in 1..(drawn.base - gone) |-> History]
          \o SubSeq(drawn.t.rows, drawn.base + 1, MaxRows) \o Blanks(gone)
      onOther == Interactive /\ rd.r.height \notin {0, drawn.r.screen}
      stale == \/ drawn.r.screen # rd.t.height
               \/ (rd.stale \/ onOther) /\ drawn.outcome # "cleared"
      stays == drawn.outcome = "cleared"
                 \/ SubSeq(drawn.t.rows, 1, rows) = SubSeq(rd.t.rows, 1, rows)
  IN rd' = IF stale THEN [rd EXCEPT !.t = Unknown(@), !.r = drawn.r, !.base = 1, !.stale = TRUE]
           ELSE [rd EXCEPT !.t = [drawn.t EXCEPT !.rows = renumbered, !.top = @ - gone, !.cur = @ - gone],
                           !.r = drawn.r, !.base = drawn.base - gone, !.kept = @ /\ stays, !.stale = FALSE]

Draws(r) == \E frame \in Frames : Becomes(RenderFrame(rd.t, r, frame), rd.base)
Render == Interactive /\ Draws(rd.r)

\* The message of the poll: the size is drawn with at once, unless the colours of
\* the terminal have still to be told.
WindowSize ==
  /\ Interactive /\ rd.r.screen # rd.t.height
  /\ LET told == [rd.r EXCEPT !.screen = rd.t.height]
     IN Draws(told) \/ rd' = [rd EXCEPT !.r = told]

\* /clear replaces the transcript: the frame that is drawn next is a new one.
Invalidate == Interactive /\ Draws([rd.r EXCEPT !.invalidated = TRUE])

\* The frame that is drawn next, of another session, is below this transcript,
\* which may have rows that were not drawn.
AppendFrameAfter ==
  /\ Interactive
  /\ \E frame \in Frames, lines \in {AtLeast(0, Len(rd.r.transcript) - 1), MaxTranscript} :
       Becomes(RenderFrame(rd.t, [rd.r EXCEPT !.appendPending = TRUE, !.appendAfter = lines], frame),
               rd.base + AtMost(lines, Len(Previous(rd.r))))

\* A run that only writes output has a status row, but for its last frame, and
\* looks at the size for each.  Where a frame is refused the transcript is
\* committed, and what has not been seen is drawn below it.
Finished == rd.outputOnly /\ rd.r.height # 0 /\ rd.r.dynamic = <<>>
RenderOutput ==
  /\ Running /\ rd.outputOnly /\ ~Finished
  /\ \E frame \in {f \in Frames : f.cursor = NoCursor} :
       LET r == [rd.r EXCEPT !.screen = rd.t.height]
           drawn == RenderFrame(rd.t, r, frame)
       IN IF drawn.outcome # "refused" THEN Becomes(drawn, rd.base)
          ELSE \E unseen \in {f \in Frames : f.dynamic = frame.dynamic /\ f.cursor = NoCursor} :
                 Becomes(fullRender(commitOutput(rd.t), forgetFrame(r), unseen, FALSE),
                         rd.base + Len(rd.r.transcript))

\* External: the user changes the height.  A terminal that grows may bring rows
\* back to the screen.
Resize ==
  /\ Running /\ rd.resizes < MaxResizes
  /\ \E height \in Heights \ {rd.t.height} :
       LET least == AtLeast(rd.t.top, rd.t.cur - height + 1)
           back == AtLeast(1, rd.t.top - (height - rd.t.height)) IN
       \E top \in {least} \cup (IF height > rd.t.height THEN {back} ELSE {}) :
         rd' = [rd EXCEPT !.t.height = height, !.t.top = top, !.resizes = @ + 1,
                          !.stale = @ \/ (Interactive /\ height = rd.r.height)]

\* Stop: the rows below the transcript go.
StopsAt(t, r) ==
  LET previous == Len(Previous(r))
      clearFrom == AtLeast(Len(r.transcript), r.viewportTop)
      at == Moved(t, clearFrom - r.hardwareCursorRow)
      cleared == Moved(Erased(at, previous - clearFrom), -(previous - clearFrom - 1))
  IN IF r.dynamic # <<>> THEN IF clearFrom < previous THEN cleared ELSE t
     ELSE IF previous > 0 THEN NewLines(Moved(t, previous - 1 - r.hardwareCursorRow), 1)
     ELSE t

\* The program may be left before it was told the size; a run that writes output
\* has drawn its last frame, if it has drawn any.
Stop ==
  /\ Running
  /\ rd.outputOnly => Finished \/ rd.r.height = 0
  /\ rd' = [rd EXCEPT !.t = StopsAt(rd.t, rd.r), !.stopped = TRUE,
                       !.stale = @ \/ (Interactive /\ rd.r.height \notin {0, rd.t.height})]

Next ==
  Render \/ RenderOutput \/ WindowSize \/ Invalidate \/ AppendFrameAfter \/ Resize \/ Stop

-----------------------------------------------------------------------------
RendererTypeOK ==
  /\ rd.t.cur \in rd.t.top..Bottom(rd.t) /\ Bottom(rd.t) <= MaxRows
  /\ \A i \in DOMAIN rd.t.rows : rd.t.rows[i] \in {Blank, History, Mixed} \cup Texts \cup EditorTexts
  /\ rd.base \in 0..MaxRows

\* The terminal shows the frame, whole and once, with nothing stale below it, and
\* the cursor is in the row the renderer has it in.
FrameIsShown ==
  ~rd.stopped /\ ~rd.stale =>
    LET lines == Previous(rd.r) IN
    /\ \A i \in DOMAIN rd.t.rows :
         i > rd.base => rd.t.rows[i] = (IF i - rd.base <= Len(lines) THEN lines[i - rd.base] ELSE Blank)
    /\ lines # <<>> => rd.t.cur = rd.base + rd.r.hardwareCursorRow + 1

\* What was above the frame stays, or all of it is cleared.
HistoryIsKept == rd.kept

\* In the end the transcript is left, and the cursor is below it on an empty row.
TranscriptIsLeft ==
  rd.stopped /\ ~rd.stale =>
    /\ \A i \in DOMAIN rd.r.transcript : rd.t.rows[rd.base + i] = rd.r.transcript[i]
    /\ Previous(rd.r) # <<>> => \A i \in rd.t.cur..MaxRows : rd.t.rows[i] = Blank
    /\ rd.t.cur > rd.base + Len(rd.r.transcript)

\* Nothing stale or doubled is on the terminal, and nothing is lost from it
\* (RenderFrame, appendFrame, commitOutput, Stop).
RendererIsSound == FrameIsShown /\ HistoryIsKept /\ TranscriptIsLeft
=============================================================================
