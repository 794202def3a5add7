----------------------------- MODULE AnswerStream -----------------------------
(***************************************************************************)
(* The progress of a run without a screen of its own                       *)
(* (src/internal/ui/answer_progress.go): its text and its tool calls are   *)
(* written to the history of a terminal while they come.  A frame that the *)
(* renderer cannot draw over the last one, after a change of the size, say,*)
(* leaves the last one in the history for good; what it showed is then     *)
(* committed, and only the rest may be written below.  A text is a version *)
(* and how much of it there is; an item on the terminal says which part of *)
(* a block it shows.                                                       *)
(***************************************************************************)
EXTENDS Integers, Sequences, FiniteSets

CONSTANTS MaxBlocks, MaxRefusals

VARIABLE ap

MaxText == 2
Nothing == [version |-> 0, size |-> 0]
Text(version, size) == [version |-> version, size |-> size]
HasPrefix(text, start) == start.size = 0 \/ (text.version = start.version /\ start.size <= text.size)

\* Blocks.  The last part of a text that is still written may be held back.
Answer(attempt, text) ==
  [kind |-> "answer", attempt |-> attempt, text |-> text, streaming |-> TRUE, held |-> 0, done |-> FALSE]
Call == [kind |-> "tool", attempt |-> 0, text |-> Nothing, streaming |-> FALSE, held |-> 0, done |-> FALSE]
Note == [Call EXCEPT !.kind = "note"]
Shown(b) == [b.text EXCEPT !.size = @ - b.held]

settleAssistant(blocks) ==
  [i \in DOMAIN blocks |-> [blocks[i] EXCEPT !.streaming = FALSE, !.held = 0]]

\* What a frame shows, for the next ones to know (snapshotProgressBlocks).
snapshotWhole(blocks) == [i \in DOMAIN blocks |-> [text |-> blocks[i].text, toolDone |-> blocks[i].done]]
snapshot(blocks) == [i \in DOMAIN blocks |-> [text |-> Shown(blocks[i]), toolDone |-> blocks[i].done]]

\* The items of the blocks that are not in the history (projectTranscript).
Item(i, b, from, late) ==
  IF b.kind = "answer" /\ Shown(b).size <= from THEN <<>>
  ELSE <<[block |-> i, from |-> from, to |-> Shown(b).size, version |-> b.text.version, done |-> b.done, late |-> late]>>
ProjectedDone(i, b, committed) ==
  IF i > Len(committed) THEN Item(i, b, 0, FALSE)
  ELSE IF b.kind = "answer" THEN Item(i, b, committed[i].text.size, TRUE)
  ELSE IF b.done THEN Item(i, b, 0, TRUE) ELSE <<>>
Projected(i, b, committed) ==
  IF i > Len(committed) THEN Item(i, b, 0, FALSE)
  ELSE LET previous == committed[i] IN
       IF b.kind = "answer"
       THEN IF HasPrefix(b.text, previous.text) THEN Item(i, b, previous.text.size, TRUE) ELSE <<>>
       ELSE IF b.done /\ ~previous.toolDone THEN Item(i, b, 0, TRUE) ELSE <<>>
projectTranscript(s) ==
  LET f[n \in 0..Len(s.blocks)] ==
        IF n = 0 THEN <<>> ELSE LET before == f[n - 1] IN before \o Projected(n, s.blocks[n], s.committed)
  IN f[Len(s.blocks)]

\* A frame, drawn over the last one, or below it after that is committed.
Presented(s) == [s EXCEPT !.frame = projectTranscript(s), !.presented = snapshot(s.blocks), !.drawn = TRUE]
CommitAll(s) == [s EXCEPT !.history = @ \o s.frame, !.frame = <<>>, !.committed = snapshot(s.blocks)]
Commit(s) == [s EXCEPT !.history = @ \o s.frame, !.frame = <<>>, !.committed = s.presented]
render(s, refused) == Presented(IF refused THEN [Commit(s) EXCEPT !.refusals = @ + 1] ELSE s)

-----------------------------------------------------------------------------
Init == ap = [blocks |-> <<>>, attempt |-> 0, committed |-> <<>>, presented |-> <<>>,
              history |-> <<>>, frame |-> <<>>, drawn |-> FALSE, refusals |-> 0,
              finished |-> FALSE, answer |-> Nothing]

Emits == ~ap.finished
MayAdd == Len(ap.blocks) < MaxBlocks
Own(s) == {i \in DOMAIN s.blocks : s.blocks[i].kind = "answer" /\ s.blocks[i].attempt = s.attempt}
LastOf(S) == CHOOSE i \in S : \A j \in S : j <= i

AttemptStarted ==
  /\ Emits /\ ap.attempt < 2 /\ \A i \in DOMAIN ap.blocks : ap.blocks[i].kind = "tool" => ap.blocks[i].done
  /\ ap' = [ap EXCEPT !.blocks = settleAssistant(@), !.attempt = @ + 1]
TextDelta ==
  /\ Emits /\ ap.attempt > 0
  /\ \E held \in 0..1 :
       IF Own(ap) = {}
       THEN /\ MayAdd
            /\ ap' = [ap EXCEPT !.blocks = Append(@, [Answer(ap.attempt, Text(1, 1)) EXCEPT !.held = held])]
       ELSE LET i == LastOf(Own(ap)) IN
            /\ ap.blocks[i].text.size < MaxText
            /\ i = Len(ap.blocks)
            /\ held <= ap.blocks[i].held + 1
            /\ ap' = [ap EXCEPT !.blocks[i].text.size = @ + 1, !.blocks[i].streaming = TRUE,
                                !.blocks[i].held = held]
AttemptDiscarded ==
  /\ Emits /\ Own(ap) # {} /\ LastOf(Own(ap)) = Len(ap.blocks) /\ MayAdd
  /\ ap' = [ap EXCEPT !.blocks = Append(@, Note)]
ToolStarted ==
  /\ Emits /\ ap.attempt > 0 /\ MayAdd
  /\ ap' = [ap EXCEPT !.blocks = Append(settleAssistant(@), Call)]
ToolFinished ==
  /\ Emits
  /\ \E i \in DOMAIN ap.blocks :
       ap.blocks[i].kind = "tool" /\ ~ap.blocks[i].done /\ ap' = [ap EXCEPT !.blocks[i].done = TRUE]

Redraw ==
  /\ Emits
  /\ \/ ap' = render(ap, FALSE)
     \/ ap.drawn /\ ap.refusals < MaxRefusals /\ ap' = render(ap, TRUE)

\* The answer that was accepted may differ from the text that came (finishAnswer).
finishReplacing(s, answer) ==
  IF answer = Nothing THEN s
  ELSE IF Own(s) = {} THEN [s EXCEPT !.blocks = Append(@, Answer(s.attempt, answer))]
  ELSE [s EXCEPT !.blocks[LastOf(Own(s))].text = answer]
finishAnswer(s, answer) ==
  IF answer = Nothing THEN s
  ELSE IF Own(s) = {} THEN [s EXCEPT !.blocks = Append(settleAssistant(@), Answer(s.attempt, answer))]
  ELSE LET i == LastOf(Own(s)) IN
       IF HasPrefix(answer, s.blocks[i].text) \/ i > Len(s.presented)
       THEN [s EXCEPT !.blocks[i].text = answer]
       ELSE IF answer = s.blocks[i].text THEN s
       ELSE [s EXCEPT !.blocks = @ \o <<Note, Answer(s.attempt, answer)>>]
Finish ==
  /\ Emits /\ ap.attempt > 0
  /\ \E version \in 1..2, size \in 0..MaxText :
       LET answer == IF size = 0 THEN Nothing ELSE Text(version, size)
           ended == [finishAnswer(ap, answer) EXCEPT !.finished = TRUE, !.answer = answer]
           settled == [ended EXCEPT !.blocks = settleAssistant(@)]
       IN \/ ap' = render(settled, FALSE)
          \/ ap.drawn /\ ap.refusals < MaxRefusals /\ ap' = render(settled, TRUE)

Next == AttemptStarted \/ TextDelta \/ AttemptDiscarded \/ ToolStarted \/ ToolFinished \/ Redraw \/ Finish

-----------------------------------------------------------------------------
AnswerTypeOK ==
  /\ ap.attempt \in 0..2 /\ ap.refusals \in 0..MaxRefusals
  /\ Len(ap.committed) <= Len(ap.presented) /\ Len(ap.presented) <= Len(ap.blocks)
  /\ \A i \in DOMAIN ap.blocks : ap.blocks[i].held <= ap.blocks[i].text.size

\* Each part of a text is on the terminal once, below the parts before it, and so
\* are a call and its end; after the run none of them is missing.
Items == ap.history \o ap.frame
Of(i) == {n \in DOMAIN Items : Items[n].block = i}
NothingTwice ==
  \A i \in DOMAIN ap.blocks :
    LET b == ap.blocks[i] IN
    /\ \A n, m \in Of(i) : n < m =>
         IF b.kind = "answer" THEN Items[n].to <= Items[m].from ELSE ~Items[n].done /\ Items[m].done
    /\ ap.finished => Of(i) # {}
    /\ ap.finished /\ b.kind = "answer" =>
         /\ \A part \in 0..(b.text.size - 1) :
              \E n \in Of(i) : Items[n].from <= part /\ part < Items[n].to /\ Items[n].version = b.text.version
    /\ ap.finished /\ b.done => \E n \in Of(i) : Items[n].done
InOrder == \A n, m \in DOMAIN Items : n < m /\ ~Items[m].late => Items[n].block <= Items[m].block

\* The answer that was accepted is what can be read last of its attempt.
AnswerIsRead ==
  ap.finished /\ ap.answer # Nothing =>
    Own(ap) # {} /\ ap.blocks[LastOf(Own(ap))].text = ap.answer

\* What is on the terminal is the run's text and its calls, once, and its answer
\* (projectTranscript, snapshotProgressBlocks, finishAnswer).
StreamedIsSound == NothingTwice /\ InOrder /\ AnswerIsRead
=============================================================================
