------------------------------ MODULE ToolBatch ------------------------------
(***************************************************************************)
(* The tool calls of one accepted response (src/agent/tool_execution.go):  *)
(* a group of neighbouring parallel-safe calls runs in goroutines behind a *)
(* bounded number of slots, every other call is a group of its own, and    *)
(* results are committed in the order of the calls.  When the run is       *)
(* cancelled, what is left is settled as unknown.                          *)
(***************************************************************************)
EXTENDS Naturals, Sequences, FiniteSets

CONSTANTS Calls,        \* how many calls the response makes
          MaxActive     \* maxParallelToolCalls

VARIABLE batch

Call == 1..Calls

\* waiting: not begun; queued: its goroutine wants a slot; ran, dropped: its
\* outcome waits to be consumed; known, unknown: its result is in the journal.
CallState == {"waiting", "queued", "running", "ran", "dropped", "known", "unknown"}

BatchTypeOK ==
  /\ batch.safe \in [Call -> BOOLEAN]
  /\ batch.call \in [Call -> CallState]
  /\ batch.next \in 1..Calls + 1 /\ batch.last \in 0..Calls
  /\ batch.ctx \in BOOLEAN /\ batch.group \in BOOLEAN
  /\ batch.store \in {"sound", "failing"}
  /\ batch.phase \in {"choose", "collect", "wait", "settle", "done"}
  /\ batch.outcome \in {"none", "continue", "cancelled", "failed"}
  /\ Len(batch.journal) <= Calls

\* The store may refuse every record from some moment on.
Init ==
  \E safe \in [Call -> BOOLEAN] :
    batch = [safe |-> safe, call |-> [c \in Call |-> "waiting"], next |-> 1,
             last |-> 0, ctx |-> FALSE, group |-> FALSE, store |-> "sound",
             phase |-> "choose", outcome |-> "none", journal |-> <<>>]

Running == {c \in Call : batch.call[c] = "running"}
Group == batch.next..batch.last
Cancelled == batch.ctx \/ batch.group

\* Mutant: a group takes in the calls behind it whether they are safe or not.
GroupEndGreedy(c) == IF ~batch.safe[c] THEN c ELSE Calls

\* executeToolCalls: the calls that run together with call c.
GroupEnd(c) ==
  IF ~batch.safe[c] THEN c
  ELSE CHOOSE e \in c..Calls :
         /\ \A d \in c..e : batch.safe[d]
         /\ e = Calls \/ ~batch.safe[e + 1]

(* The run is cancelled, or the journal begins to fail. *)
Cancel == ~batch.ctx /\ batch.phase # "done" /\ batch' = [batch EXCEPT !.ctx = TRUE]
Fail == batch.store = "sound" /\ batch.phase # "done" /\ batch' = [batch EXCEPT !.store = "failing"]

(* executeToolCalls: one turn of its loop; a group of one needs no slot. *)
Begin ==
  /\ batch.phase = "choose" /\ batch.next <= Calls /\ ~batch.ctx
  /\ LET end == GroupEnd(batch.next) IN
     batch' = [batch EXCEPT !.phase = "collect", !.last = end, !.group = FALSE,
                 !.call = [c \in Call |->
                   IF c \notin batch.next..end THEN @[c]
                   ELSE IF end = batch.next THEN "running" ELSE "queued"]]

BeginCancelled ==
  /\ batch.phase = "choose" /\ batch.next <= Calls /\ batch.ctx
  /\ batch' = [batch EXCEPT !.phase = "settle"]

AllRan ==
  /\ batch.phase = "choose" /\ batch.next > Calls
  /\ batch' = [batch EXCEPT !.phase = "done", !.outcome = "continue"]

(* A goroutine of the group: a slot and the end of the group race. *)
TakeSlot(c) ==
  /\ batch.call[c] = "queued" /\ Cardinality(Running) < MaxActive
  /\ batch' = [batch EXCEPT !.call[c] = "running"]

GiveUp(c) ==
  /\ batch.call[c] = "queued" /\ Cancelled
  /\ batch' = [batch EXCEPT !.call[c] = "dropped"]

(* executeTool: whatever the tool made of it, a cancelled context hides it. *)
ToolReturns(c) ==
  /\ batch.call[c] = "running"
  /\ batch' = [batch EXCEPT !.call[c] = IF Cancelled THEN "dropped" ELSE "ran"]

\* The journal refuses a record under a cancelled context.
Accepts == batch.store = "sound" /\ ~batch.ctx

Answer(b, c, kind) ==
  [b EXCEPT !.call[c] = kind, !.journal = Append(@, c)]

\* Mutant: whatever has run is committed at once.
CommitAny ==
  \E c \in Group :
    /\ batch.phase = "collect" /\ batch.call[c] = "ran" /\ Accepts
    /\ batch' = [Answer(batch, c, "known") EXCEPT
                   !.next = IF c = batch.next THEN @ + 1 ELSE @,
                   !.phase = IF c = batch.last THEN "choose" ELSE @]

(* The outcomes are consumed in the order of the calls. *)
Commit ==
  /\ batch.phase = "collect" /\ batch.call[batch.next] = "ran" /\ Accepts
  /\ batch' = [Answer(batch, batch.next, "known") EXCEPT
                 !.next = @ + 1,
                 !.phase = IF batch.next = batch.last THEN "choose" ELSE @]

(* A cancelled outcome, or a record that is not written, ends the group. *)
Interrupt(outcome) ==
  batch' = [batch EXCEPT !.phase = "wait", !.group = TRUE, !.outcome = outcome]

Stop ==
  /\ batch.phase = "collect"
  /\ \/ batch.call[batch.next] = "dropped" /\ Interrupt("cancelled")
     \/ batch.call[batch.next] = "ran" /\ ~Accepts /\ Interrupt("failed")

\* Mutant: the outcome that has been consumed is waited for again.
UnfinishedInclusive ==
  {c \in Group : batch.call[c] \in {"queued", "running"}} \cup {batch.next}

\* Mutant: the group is left to itself.
UnfinishedIgnored == {}

(* waitForToolExecutions, which leaves no goroutine behind. *)
Unfinished == {c \in Group : batch.call[c] \in {"queued", "running"}}

Waited ==
  /\ batch.phase = "wait" /\ Unfinished = {}
  /\ batch' = [batch EXCEPT !.phase = IF batch.outcome = "cancelled" THEN "settle" ELSE "done"]

\* Mutant: only what has begun is settled.
PendingBegun == {c \in Call : batch.call[c] \notin {"known", "unknown", "waiting"}}

\* Mutant: what is known already is settled as well.
PendingAll == {c \in Call : batch.call[c] # "unknown"}

(* settleCancelledToolCalls, in a context that is not cancelled. *)
Pending == {c \in Call : batch.call[c] \notin {"known", "unknown"}}

Settle ==
  /\ batch.phase = "settle"
  /\ \/ /\ Pending # {} /\ batch.store = "sound"
        /\ LET c == CHOOSE d \in Pending : \A e \in Pending : d <= e IN
           batch' = Answer(batch, c, "unknown")
     \/ /\ Pending # {} /\ batch.store = "failing"
        /\ batch' = [batch EXCEPT !.phase = "done", !.outcome = "failed"]
     \/ /\ Pending = {}
        /\ batch' = [batch EXCEPT !.phase = "done", !.outcome = "cancelled"]

Next ==
  \/ Cancel \/ Fail
  \/ Begin \/ BeginCancelled \/ AllRan \/ Commit \/ Stop \/ Waited \/ Settle
  \/ \E c \in Call : TakeSlot(c) \/ GiveUp(c) \/ ToolReturns(c)

(* What is fair: the loop goes on, and a tool returns when it is cancelled. *)
Step == BeginCancelled \/ AllRan \/ Stop \/ Waited \/ Settle
Ends(c) == Cancelled /\ (GiveUp(c) \/ ToolReturns(c))

-----------------------------------------------------------------------------
CalledOff == batch.ctx
Done == batch.phase = "done"

(* Results are told in the order of the calls, whatever order they end in   *)
(* (executeParallelToolCalls), the settled ones after the others.           *)
ResultsInOrder ==
  \A i, j \in DOMAIN batch.journal : i < j => batch.journal[i] < batch.journal[j]

(* A run that goes on, or is finished as cancelled, has one result of every *)
(* call (settleCancelledToolCalls), and it is finished as cancelled only if *)
(* it was.                                                                  *)
Answered == \A c \in Call : batch.call[c] \in {"known", "unknown"}
EveryCallAnswered ==
  /\ batch.outcome = "continue" => Answered
  /\ batch.phase = "done" /\ batch.outcome = "cancelled" => Answered /\ batch.ctx

(* A tool that is not safe runs alone, behind every result before it, and   *)
(* no more tools than the limit run at once (maxParallelToolCalls).         *)
UnsafeRunsAlone ==
  /\ \A c \in Running : batch.safe[c] \/ Running = {c}
  /\ \A c, d \in Call : c < d /\ batch.call[d] # "waiting" /\ (~batch.safe[c] \/ ~batch.safe[d])
       /\ batch.phase # "settle" /\ batch.phase # "done" => batch.call[c] = "known"
  /\ Cardinality(Running) <= MaxActive

(* No tool runs once the run goes on or returns (waitForToolExecutions).    *)
NothingLeftRunning ==
  batch.phase \in {"choose", "settle", "done"} =>
    \A c \in Call : batch.call[c] \notin {"queued", "running"}

(* Whatever order the tools of a batch end in, and however they are stopped, *)
(* the journal tells of them in order, once, and of all of them.             *)
BatchIsSound ==
  ResultsInOrder /\ EveryCallAnswered /\ UnsafeRunsAlone /\ NothingLeftRunning
=============================================================================
