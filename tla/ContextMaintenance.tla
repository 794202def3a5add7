------------------------- MODULE ContextMaintenance -------------------------
(***************************************************************************)
(* How a session stays inside the window of its model (src/agent/          *)
(* context_boundary.go, pruning.go, compaction.go, context.go): old tool   *)
(* results are cut short, or completed exchanges summarised, up to a       *)
(* boundary of the journal.  Sizes are tokens on a small scale; what the   *)
(* instructions and tools take is already off InputLimit.                  *)
(***************************************************************************)
EXTENDS Integers, Sequences, FiniteSetsExt, SequencesExt

CONSTANTS
  InputLimit,        \* ContextReport.InputLimit
  VerbatimBudget,    \* compactionVerbatimTokenBudget
  CheckpointBudget,  \* compactionCheckpointTokenBudget
  ItemSize,          \* an input, a response, a summary, the compaction prompt
  PrunedSize,        \* what pruning leaves of a tool result
  ResultSizes,       \* tool results
  MaxRecords,        \* bounds of a behaviour
  MaxCalls

VARIABLE session

\* A checkpoint covers what is before record `first'; 0 is none.
None == [first |-> 0, retained |-> {}]

Init ==
  session = [journal |-> <<>>, checkpoint |-> None, pruned |-> 0, run |-> 0,
             active |-> FALSE, phase |-> "idle", plan |-> None, then |-> "idle"]

Journal == session.journal
Positions == DOMAIN Journal
Kind(p) == Journal[p].kind

CtxTypeOK ==
  /\ \A p \in Positions :
       Journal[p] \in [kind : {"input", "event", "answer", "calls", "result", "finish"},
                       run : 1..session.run, size : ResultSizes \cup {ItemSize}, open : 0..MaxCalls, seen : BOOLEAN]
  /\ session.checkpoint.first \in 0..MaxRecords /\ session.pruned \in 0..MaxRecords
  /\ session.phase \in {"idle", "deliver", "prepare", "ask", "shrink", "summarize", "tools"}
  /\ session.then \in {"idle", "prepare", "ask"}

\* Calls without a result after record p, and whether a model has answered
\* all text before it: contextBoundaries' `pending' and `unanswered'.
Pending(p) == IF p = 0 THEN 0 ELSE Journal[p].open
Answered(p) == Journal[p].seen

\* Records are numbered, but a finished run shows no item.
Shown == {p \in Positions : Kind(p) # "finish"}
Inputs == {p \in Positions : Kind(p) = "input"}

-----------------------------------------------------------------------------
(* contextBoundaries: the records before which the conversation may be cut.  *)
(* What precedes is seen by a model and has all its results, or belongs to a *)
(* run that has ended.                                                       *)
\* Mutants: calls may be cut off their results; text no model has seen is cut.
CutBetweenResults(p) == LET q == Max({r \in Shown : r < p}) IN Answered(q)
CutUnanswered(p) == LET q == Max({r \in Shown : r < p}) IN Pending(q) = 0

Cut(p) ==
  LET q == Max({r \in Shown : r < p})
  IN /\ Pending(q) = 0
     /\ \/ Answered(q)
        \/ Kind(p) = "input" /\ ~(session.active /\ Journal[q].run = session.run)

Boundaries == {p \in Shown : (\E q \in Shown : q < p) /\ Cut(p)}

\* Mutant: only the newest earlier input of the run stays.
InputsBeforeLast(first) ==
  LET all == {p \in Inputs : p < first /\ Journal[p].run = Journal[first].run}
  IN IF all = {} THEN {} ELSE {Max(all)}

\* inputsBeforeBoundary: the earlier inputs of the run that owns the tail.
InputsBefore(first) == {p \in Inputs : p < first /\ Journal[p].run = Journal[first].run}

-----------------------------------------------------------------------------
(* The projection of a request, and its size. *)
SizeOf(p, pruned) ==
  IF Kind(p) = "result" /\ p <= pruned THEN Min({Journal[p].size, PrunedSize})
  ELSE Journal[p].size
Size(items, pruned) == MapThenSumSet(LAMBDA p : SizeOf(p, pruned), items)

\* modelItemsFromSequence: retained inputs, and the tail.
Items(first, retained) == retained \cup {p \in Shown : p >= first}

History == Items(session.checkpoint.first, session.checkpoint.retained)
HistoryTokens(pruned) == Size(History, pruned)
SummaryTokens == IF session.checkpoint = None THEN 0 ELSE ItemSize
TotalTokens(pruned) == HistoryTokens(pruned) + SummaryTokens
Fits == TotalTokens(session.pruned) <= InputLimit

\* projectedTailTokens
TailTokens(first) == Size(Items(first, InputsBefore(first)), session.pruned)

-----------------------------------------------------------------------------
(* compactionTargetEnd: a binary search for the earliest cut whose tail fits *)
(* the budget; the newest one if none does.  0 when nothing need be cut.     *)
Search(cuts, step(_, _, _)) ==
  LET n == Len(cuts)
      find[first \in 1..n + 1, last \in 0..n, selected \in 1..n] ==
        IF first > last THEN selected
        ELSE LET candidate == first + (last - first) \div 2
                 next == step(candidate, first, last)
             IN find[next[1], next[2], IF next[3] THEN candidate ELSE selected]
  IN find[1, n, n]

\* Mutant: a cut that fits is not remembered.
TargetEndForgetful(cuts) ==
  IF HistoryTokens(session.pruned) <= VerbatimBudget \/ cuts = <<>> THEN 0
  ELSE Search(cuts, LAMBDA c, first, last :
         IF TailTokens(cuts[c]) <= VerbatimBudget THEN <<first, c - 1, FALSE>>
         ELSE <<c + 1, last, FALSE>>)

TargetEnd(cuts) ==
  IF HistoryTokens(session.pruned) <= VerbatimBudget \/ cuts = <<>> THEN 0
  ELSE Search(cuts, LAMBDA c, first, last :
         IF TailTokens(cuts[c]) <= VerbatimBudget THEN <<first, c - 1, TRUE>>
         ELSE <<c + 1, last, FALSE>>)

InOrder(S) == SelectSeq([p \in Positions |-> p], LAMBDA p : p \in S)

-----------------------------------------------------------------------------
(* pruneOldToolResultsOnce *)
PruneThrough ==
  LET cuts == InOrder(Boundaries)
      end == TargetEnd(cuts)
  IN IF end = 0 THEN 0 ELSE cuts[end] - 1

\* toolResultPruningIsDecisive
Decisive(through) ==
  LET before == HistoryTokens(session.pruned)
      after == HistoryTokens(through)
  IN /\ before > after /\ before - after >= after
     /\ after <= VerbatimBudget + CheckpointBudget
     /\ Fits \/ TotalTokens(through) <= InputLimit

CanPrune ==
  LET through == PruneThrough IN through > session.pruned /\ Decisive(through)

\* validateToolPruningBoundary
PruningValid(through) == through + 1 \in Boundaries /\ through > session.pruned

\* compactionInputTargetEnd: the summary's own request must fit as well.
InputTokens(first) ==
  Size({p \in History : p < first}, session.pruned) + SummaryTokens + ItemSize

\* Mutant: boundaries behind the checkpoint are offered again.
OpenBoundariesAll == Boundaries

OpenBoundaries == {p \in Boundaries : p > session.checkpoint.first}

\* planCompactionForModelBoundary: 0 when there is nothing to plan.
PlannedCut ==
  LET cuts == InOrder(OpenBoundaries)
      end == TargetEnd(cuts)
      fitting == {c \in 1..end : InputTokens(cuts[c]) <= InputLimit}
  IN IF fitting = {} THEN 0 ELSE cuts[Max(fitting)]

Plan == LET cut == PlannedCut IN [first |-> cut, retained |-> InputsBefore(cut)]

\* validateContextCheckpoint
CheckpointValid(plan) ==
  /\ plan.first \in Boundaries /\ plan.retained = InputsBefore(plan.first)
  /\ plan.first > session.checkpoint.first

-----------------------------------------------------------------------------
(* The run around it. *)
Put(s, kind, size, calls) ==
  LET n == Len(s.journal)
      open == (IF n = 0 THEN 0 ELSE s.journal[n].open) + calls - (IF kind = "result" THEN 1 ELSE 0)
      seen == IF kind \in {"input", "event", "answer", "calls"} THEN kind \in {"answer", "calls"}
              ELSE s.journal[n].seen
  IN [s EXCEPT !.journal = Append(@, [kind |-> kind, run |-> s.run, size |-> size,
                                      open |-> open, seen |-> seen])]
Room(n) == Len(Journal) + Pending(Len(Journal)) + n < MaxRecords

StartRun ==
  /\ session.phase = "idle" /\ Room(2)
  /\ LET s == [session EXCEPT !.run = @ + 1, !.active = TRUE, !.phase = "deliver"]
     IN session' = Put(s, "input", ItemSize, 0)

(* Steering input and events of jobs reach the run between two requests. *)
Deliver ==
  /\ session.phase = "deliver" /\ Room(1)
  /\ \E kind \in {"input", "event"} : session' = Put(session, kind, ItemSize, 0)

Prepare == session.phase = "deliver" /\ session' = [session EXCEPT !.phase = "prepare"]

(* finish, after every call has a result. *)
Settled(s) ==
  LET settle[k \in 0..MaxCalls] == IF k = 0 THEN s ELSE Put(settle[k - 1], "result", ItemSize, 0)
  IN settle[s.journal[Len(s.journal)].open]
Finished(s) ==
  Put([Settled(s) EXCEPT !.active = FALSE, !.phase = "idle", !.plan = None, !.then = "idle"],
      "finish", ItemSize, 0)

(* The run fails, is cancelled, or its process dies and the next one ends it. *)
Finish == session.active /\ session' = Finished(session)

(* prepareRunRequestContext *)
Send == session.phase = "prepare" /\ Fits /\ session' = [session EXCEPT !.phase = "ask"]

(* shrinkRunRequestOnce, under pressure or after a request was refused. *)
Shrinking == (session.phase = "prepare" /\ ~Fits) \/ session.phase = "shrink"
Back == IF session.phase = "prepare" THEN "prepare" ELSE "ask"

Prune ==
  /\ Shrinking /\ CanPrune
  /\ session' = IF PruningValid(PruneThrough)
                THEN [session EXCEPT !.pruned = PruneThrough, !.phase = Back]
                ELSE Finished(session)

Compact ==
  /\ Shrinking /\ ~CanPrune
  /\ session' = IF PlannedCut = 0 THEN Finished(session)
                ELSE [session EXCEPT !.phase = "summarize", !.plan = Plan, !.then = Back]

(* Runtime.Compact, of a session without unfinished work. *)
CompactManually ==
  /\ session.phase = "idle" /\ PlannedCut # 0
  /\ session' = [session EXCEPT !.phase = "summarize", !.plan = Plan, !.then = "idle"]

\* Mutant: the committed checkpoint is not applied to the live session.
CommitLost ==
  /\ session.phase = "summarize"
  /\ session' = [session EXCEPT !.phase = session.then, !.plan = None, !.then = "idle"]

(* commitCompaction; the run fails all the same when the instructions, which *)
(* are read again after a compaction, cannot be.                             *)
Commit ==
  /\ session.phase = "summarize" /\ CheckpointValid(session.plan)
  /\ LET s == [session EXCEPT !.checkpoint = session.plan, !.phase = session.then,
                  !.plan = None, !.then = "idle"]
     IN session' \in {s} \cup (IF s.active THEN {Finished(s)} ELSE {})

\* The model gives no summary, or the plan is refused.
NoSummary ==
  /\ session.phase = "summarize"
  /\ session' = IF session.active THEN Finished(session)
                ELSE [session EXCEPT !.phase = "idle", !.plan = None]

(* The model answers; work that the answer waits for may keep the run going. *)
Answer ==
  /\ session.phase = "ask" /\ Room(1)
  /\ LET s == Put(session, "answer", ItemSize, 0)
     IN session' \in {[s EXCEPT !.phase = "deliver"], Finished(s)}

CallTools ==
  /\ session.phase = "ask"
  /\ \E n \in 1..MaxCalls :
       Room(1 + n) /\ session' = [Put(session, "calls", ItemSize, n) EXCEPT !.phase = "tools"]

Refuse == session.phase = "ask" /\ session' = [session EXCEPT !.phase = "shrink"]

Result ==
  /\ session.phase = "tools"
  /\ \E size \in ResultSizes :
       session' = [Put(session, "result", size, 0) EXCEPT
                     !.phase = IF Pending(Len(Journal)) = 1 THEN "deliver" ELSE @]

Maintain == Prune \/ Compact \/ Commit \/ NoSummary \/ Send
Next ==
  \/ StartRun \/ Deliver \/ Prepare \/ Finish \/ Maintain \/ CompactManually
  \/ Answer \/ CallTools \/ Refuse \/ Result

-----------------------------------------------------------------------------
(* A request never has a call without its results, or a result without its  *)
(* call, however the conversation was cut (contextBoundaries).               *)
CallsStayWithResults ==
  session.phase = "ask" =>
    /\ Pending(Len(Journal)) = 0
    /\ session.checkpoint # None => Pending(session.checkpoint.first - 1) = 0

(* What no model has answered yet, and every input of the run, reach the     *)
(* model word for word (contextBoundaries, inputsBeforeBoundary).            *)
TaskReachesModel ==
  session.phase = "ask" =>
    \A p \in Shown :
      \/ p \in History
      \/ /\ Journal[p].run = session.run => Kind(p) # "input"
         /\ Journal[p].run = session.run /\ Kind(p) = "event" =>
              \E q \in p + 1..Len(Journal) : q < session.checkpoint.first /\ Kind(q) \in {"answer", "calls"}

(* A summary that was asked for is about a cut that is still allowed when it *)
(* is committed, so the call was not in vain (commitCompaction).             *)
PlanStaysValid == session.phase = "summarize" => CheckpointValid(session.plan)

(* The search finds the earliest cut whose tail fits, though tails of two    *)
(* runs keep different inputs (compactionTargetEnd).                         *)
EarliestCut ==
  LET cuts == InOrder(Boundaries)
      fitting == {c \in DOMAIN cuts : TailTokens(cuts[c]) <= VerbatimBudget}
  IN TargetEnd(cuts) \in {0, IF fitting = {} THEN Len(cuts) ELSE Min(fitting)}

(* Pruning and compaction leave a conversation the model can go on with.     *)
ContextIsSound == CallsStayWithResults /\ TaskReachesModel /\ PlanStaysValid /\ EarliestCut

(* Whenever a request is looked at again after the context was shrunk, less *)
(* of the journal is shown in full than before, so shrinking comes to an end *)
(* (prepareRunRequestContext).                                               *)
Shortened(s) == Cardinality({p \in DOMAIN s.journal : p < s.checkpoint.first}) + s.pruned
Advances ==
  (Shrinking \/ session.phase = "summarize") /\ session'.phase \in {"prepare", "ask"} =>
    Shortened(session') > Shortened(session)
=============================================================================
