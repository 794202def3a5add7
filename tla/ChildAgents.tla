------------------------------- MODULE ChildAgents -------------------------------
(***************************************************************************)
(* app/child_agents.go: the supervisor of the child agents of one parent   *)
(* session, the goroutine that runs each child, and the parent's side of   *)
(* the mailbox: tool results and boundary events that tell what became of  *)
(* a child's run, acknowledgements, and the sync at the start of a run.    *)
(*                                                                         *)
(* supervisor.mu is held across steps only while a child is launched; every *)
(* other critical section is one step. The user may interrupt the parent's *)
(* run, leave the session and come back, close the application, and the    *)
(* process may die between any two steps.                                  *)
(***************************************************************************)
EXTENDS Naturals, Sequences, FiniteSets, SequencesExt, Functions

CONSTANTS Child,        \* names of children that may ever be created
          NoChild,      \* no child
          MaxChildren,  \* maxChildrenPerParent
          MaxActive,    \* maxActiveChildren
          MaxRuns,      \* maxRunsPerChild
          MaxPrompts,   \* bound: runs of all children together
          MaxRestarts   \* bound: how often the session is opened again

ASSUME ChildAssumption ==
    /\ IsFiniteSet(Child) /\ NoChild \notin Child
    /\ MaxChildren \in Nat \ {0}
    /\ MaxActive \in Nat \ {0}
    /\ MaxRuns \in Nat \ {0}
    /\ MaxPrompts \in Nat /\ MaxRestarts \in Nat

VARIABLES
    store,      \* per child: its directory, the stopped flag in metadata.json, its journal
    child,      \* per child: the childAgent in memory and the goroutine of its last run
    group,      \* children in memory that can be addressed
    told,       \* runs a result in the parent's journal says were delivered
    settled,    \* those of them whose outcome that result contains
    announced,  \* runs told by a boundary event of the parent's journal, in order
    session,    \* "open", "closing" (Close), "leaving" (a switch), "away" or "down"
    restarts,
    call,       \* what the parent's thread is about to do
    interrupted \* the parent's context is done

parent == <<told, settled, announced>>
vars == <<store, child, group, told, settled, announced, session, restarts, call, interrupted>>

Directories == {"none", "staging", "published"}
RunStates == {"open", "finished", "interrupted"}
Works == {"none", "starting", "running", "ended"}
RunOf == Child \X (1..MaxRuns)

Absent == [dir |-> "none", halted |-> FALSE, journal |-> <<>>]

(* work: what the goroutine has yet to do; notify: it has yet to wake the
   checks; broken: the child's journal refused a write. *)
Unloaded == [runs |-> <<>>, stopped |-> FALSE, work |-> "none",
             cancelled |-> FALSE, broken |-> FALSE, notify |-> FALSE]

(* childRun: no id until the run has started, "running" until it ended. *)
NewRun == [id |-> 0, status |-> "running", delivered |-> FALSE]

Outside == [step |-> "idle"]  \* no run of the parent
Ready == [step |-> "ready"]   \* a run, between two calls
Results(tells, settles) == [step |-> "reply", tells |-> tells, settles |-> settles]

(* child.running *)
Running(c) == child[c].work # "none"

(* activeChildren *)
Active == {c \in group : Running(c)}

(* childSnapshot.State *)
State(c) ==
    CASE child[c].stopped -> "stopped"
      [] ~child[c].stopped /\ Running(c) -> "running"
      [] OTHER -> "idle"

(* waitSatisfied *)
WaitSatisfied(S, mode) ==
    \/ mode = "none"
    \/ S = {}
    \/ mode = "any" /\ \E c \in S : State(c) # "running"
    \/ mode = "all" /\ \A c \in S : State(c) # "running"

(* What ToolResultCommitted takes from a result that shows the last runs of
   S: those that have an id, of children that are not "running". *)
LastRun(c) == IF child[c].runs = <<>> THEN NewRun ELSE Last(child[c].runs)

\* Mutant: the state of the child is not looked at.
ToldRunning(S) == {<<c, LastRun(c).id>> : c \in {d \in S : LastRun(d).id # 0}}

Told(S) == {<<c, LastRun(c).id>> : c \in {d \in S : State(d) # "running" /\ LastRun(d).id # 0}}
Settled(S) == {run \in Told(S) : LastRun(run[1]).status # "running"}

(* markDelivered *)
Marked(R) == [c \in Child |->
    [child[c] EXCEPT !.runs = [i \in DOMAIN @ |->
        IF c \in group /\ <<c, @[i].id>> \in R THEN [@[i] EXCEPT !.delivered = TRUE] ELSE @[i]]]]

(* PendingEvents: runs that have an id and an end and were not delivered. *)
Pending == UNION {{<<c, child[c].runs[i].id>> : i \in {k \in DOMAIN child[c].runs :
    LET run == child[c].runs[k] IN run.id # 0 /\ run.status # "running" /\ ~run.delivered}} : c \in group}

(* supervisor.mu is held by a launch until the run has begun or failed. *)
MuFree == call.step \notin {"launch", "publish", "discard"}

(* signalLocked closes the channel every waiting check watches. *)
Signalled(k) == IF k.step \in {"look", "wait"} THEN [k EXCEPT !.woken = TRUE] ELSE k

Between == session = "open" /\ call = Ready /\ ~interrupted

Init ==
    /\ store = [c \in Child |-> Absent]
    /\ child = [c \in Child |-> Unloaded]
    /\ group = {}
    /\ told = {} /\ settled = {} /\ announced = <<>>
    /\ session = "open" /\ restarts = 0
    /\ call = Outside /\ interrupted = FALSE

-----------------------------------------------------------------------------
(* The goroutine of launchLocked. *)

(* RunInput appended run_started: EventRunStarted gives the run its id and
   lets the launch return. *)
Begin(c) ==
    /\ child[c].work = "starting" /\ ~child[c].cancelled /\ ~child[c].broken
    /\ store' = [store EXCEPT ![c].journal = Append(@, "open")]
    /\ child' = [child EXCEPT ![c].runs[Len(child[c].runs)].id = Len(store'[c].journal),
                              ![c].work = "running"]
    /\ call' = [call EXCEPT !.started = "begun"]
    /\ UNCHANGED <<group, parent, session, restarts, interrupted>>

(* RunInput returned before its run had started: it recorded nothing, or its
   journal failed after run_started. *)
Refused(c) ==
    /\ child[c].work = "starting"
    /\ \E breaks \in BOOLEAN :
         /\ breaks => ~child[c].cancelled /\ ~child[c].broken
         /\ store' = IF breaks THEN [store EXCEPT ![c].journal = Append(@, "open")] ELSE store
         /\ child' = [child EXCEPT ![c].work = "none", ![c].notify = TRUE,
                                   ![c].cancelled = FALSE, ![c].broken = @ \/ breaks]
    /\ call' = [call EXCEPT !.started = "failed"]
    /\ UNCHANGED <<group, parent, session, restarts, interrupted>>

(* RunInput appended run_finished, or its journal failed. *)
Finish(c) ==
    /\ child[c].work = "running"
    /\ \E breaks \in BOOLEAN :
         /\ store' = IF breaks THEN store
                     ELSE [store EXCEPT ![c].journal[Len(store[c].journal)] = "finished"]
         /\ child' = [child EXCEPT ![c].work = "ended", ![c].broken = @ \/ breaks]
    /\ UNCHANGED <<group, parent, session, restarts, call, interrupted>>

\* Mutant: nobody is told that the run ended.
RetireSilently(c) ==
    /\ child[c].work = "ended"
    /\ child' = [child EXCEPT ![c].runs[Len(child[c].runs)].status = "finished",
                              ![c].work = "none", ![c].cancelled = FALSE]
    /\ UNCHANGED <<store, group, parent, session, restarts, call, interrupted>>

(* Its result reaches the childRun, child.running is cleared, done closed. *)
Retire(c) ==
    /\ child[c].work = "ended"
    /\ child' = [child EXCEPT ![c].runs[Len(child[c].runs)].status = "finished",
                              ![c].work = "none", ![c].notify = TRUE, ![c].cancelled = FALSE]
    /\ UNCHANGED <<store, group, parent, session, restarts, call, interrupted>>

(* The last thing it does is to wake whoever waits in a check. *)
Notify(c) ==
    /\ child[c].notify /\ MuFree
    /\ child' = [child EXCEPT ![c].notify = FALSE]
    /\ call' = Signalled(call)
    /\ UNCHANGED <<store, group, parent, session, restarts, interrupted>>

\* Mutant: no sync when a run starts.
StartRunUnsynced ==
    /\ session = "open" /\ call = Outside
    /\ call' = Ready
    /\ UNCHANGED <<store, child, group, parent, session, restarts, interrupted>>

-----------------------------------------------------------------------------
(* The parent's run: a user input starts it, and syncExternalWorkCommits
   tells the supervisor first what the journal already tells. *)
StartRun ==
    /\ session = "open" /\ call = Outside
    /\ child' = Marked(told \union Range(announced))
    /\ call' = Ready
    /\ UNCHANGED <<store, group, parent, session, restarts, interrupted>>

EndRun ==
    /\ session = "open" /\ call = Ready
    /\ call' = Outside
    /\ interrupted' = FALSE
    /\ UNCHANGED <<store, child, group, parent, session, restarts>>

(* The user cancels the parent's run. *)
Interrupt ==
    /\ session = "open" /\ call # Outside /\ ~interrupted
    /\ interrupted' = TRUE
    /\ UNCHANGED <<store, child, group, parent, session, restarts, call>>

(* Runs of all children so far. *)
Prompted == FoldFunctionOnSet(+, 0, [d \in Child |-> Len(store[d].journal)], Child)

\* Mutant: the limit of running children is not looked at.
LaunchUnlimited(c, fresh) ==
    /\ ~child[c].stopped /\ ~Running(c)
    /\ Prompted < MaxPrompts
    /\ child' = [child EXCEPT ![c].runs = Append(@, NewRun), ![c].work = "starting"]
    /\ call' = [step |-> "launch", child |-> c, fresh |-> fresh, started |-> "none"]

(* launchLocked up to the start of its goroutine. Its context comes from the
   supervisor, not from the parent's run. *)
Launch(c, fresh) ==
    /\ Cardinality(Active) < MaxActive
    /\ ~child[c].stopped /\ ~Running(c)
    /\ Len(child[c].runs) < MaxRuns
    /\ Prompted < MaxPrompts
    /\ child' = [child EXCEPT ![c].runs = Append(@, NewRun), ![c].work = "starting"]
    /\ call' = [step |-> "launch", child |-> c, fresh |-> fresh, started |-> "none"]

(* start: a directory under a temporary name, a journal and a runtime. *)
Start(c) ==
    /\ Between
    /\ store[c].dir = "none"
    /\ Cardinality(group) < MaxChildren
    /\ Launch(c, TRUE)
    /\ store' = [store EXCEPT ![c].dir = "staging"]
    /\ UNCHANGED <<group, parent, session, restarts, interrupted>>

Send(c) ==
    /\ Between
    /\ c \in group
    /\ Launch(c, FALSE)
    /\ UNCHANGED <<store, group, parent, session, restarts, interrupted>>

(* The run has begun: a continued child is done, a new one is published. *)
Launched ==
    /\ call.step = "launch" /\ call.started = "begun"
    /\ call' = IF call.fresh THEN [step |-> "publish", child |-> call.child] ELSE Results({}, {})
    /\ UNCHANGED <<store, child, group, parent, session, restarts, interrupted>>

(* It did not begin: the run is taken back, a new child thrown away. *)
LaunchFailed ==
    /\ call.step = "launch" /\ call.started = "failed"
    /\ child' = [child EXCEPT ![call.child].runs = Front(@)]
    /\ call' = IF call.fresh THEN [step |-> "discard", child |-> call.child] ELSE Ready
    /\ UNCHANGED <<store, group, parent, session, restarts, interrupted>>

(* publishNewChild *)
Publish ==
    /\ call.step = "publish"
    /\ store' = [store EXCEPT ![call.child].dir = "published"]
    /\ group' = group \union {call.child}
    /\ call' = Results({}, {})
    /\ UNCHANGED <<child, parent, session, restarts, interrupted>>

\* Mutant: the child is entered before its directory has its name.
PublishFailsKept ==
    /\ call.step = "publish"
    /\ group' = group \union {call.child}
    /\ child' = [child EXCEPT ![call.child].cancelled = Running(call.child)]
    /\ call' = [call EXCEPT !.step = "discard"]
    /\ UNCHANGED <<store, parent, session, restarts, interrupted>>

PublishFails ==
    /\ call.step = "publish"
    /\ child' = [child EXCEPT ![call.child].cancelled = Running(call.child)]
    /\ call' = [call EXCEPT !.step = "discard"]
    /\ UNCHANGED <<store, group, parent, session, restarts, interrupted>>

(* cancelAndDiscardNewChild waits for the run, then removes the files. *)
Discard ==
    /\ call.step = "discard" /\ ~Running(call.child)
    /\ store' = [store EXCEPT ![call.child] = Absent]
    /\ child' = [child EXCEPT ![call.child] = [Unloaded EXCEPT !.notify = child[call.child].notify]]
    /\ call' = Ready
    /\ UNCHANGED <<group, parent, session, restarts, interrupted>>

(* check: it watches for changes first, then it looks. *)
Check(S, mode) ==
    /\ Between
    /\ call' = [step |-> "look", asked |-> S, mode |-> mode, woken |-> FALSE]
    /\ UNCHANGED <<store, child, group, parent, session, restarts, interrupted>>

Look ==
    /\ call.step = "look"
    /\ call' = IF WaitSatisfied(call.asked, call.mode)
               THEN Results(Told(call.asked), Settled(call.asked))
               ELSE [call EXCEPT !.step = "wait"]
    /\ UNCHANGED <<store, child, group, parent, session, restarts, interrupted>>

Wake ==
    /\ call.step = "wait" /\ call.woken
    /\ call' = [call EXCEPT !.step = "look", !.woken = FALSE]
    /\ UNCHANGED <<store, child, group, parent, session, restarts, interrupted>>

(* A wait ends with the parent's context; the call fails. *)
GiveUp ==
    /\ call.step \in {"wait", "stopped"} /\ interrupted
    /\ call' = Ready
    /\ UNCHANGED <<store, child, group, parent, session, restarts, interrupted>>

(* stop: first in memory, so that no further run can be launched ... *)
Stop(c) ==
    /\ Between
    /\ c \in group
    /\ child' = [child EXCEPT ![c].stopped = TRUE]
    /\ call' = [step |-> "stop", child |-> c, was |-> child[c].stopped]
    /\ UNCHANGED <<store, group, parent, session, restarts, interrupted>>

(* ... then on disk, and then the run is cancelled. *)
StopWritten ==
    /\ call.step = "stop"
    /\ store' = [store EXCEPT ![call.child].halted = TRUE]
    /\ child' = [child EXCEPT ![call.child].cancelled = Running(call.child)]
    /\ call' = [step |-> "stopped", child |-> call.child]
    /\ UNCHANGED <<group, parent, session, restarts, interrupted>>

StopNotWritten ==
    /\ call.step = "stop"
    /\ child' = [child EXCEPT ![call.child].stopped = call.was]
    /\ call' = Ready
    /\ UNCHANGED <<store, group, parent, session, restarts, interrupted>>

StopDone ==
    /\ call.step = "stopped" /\ ~Running(call.child)
    /\ call' = Results({}, {})
    /\ UNCHANGED <<store, child, group, parent, session, restarts, interrupted>>

\* Mutant: the outcome is recorded without the mark of its delivery.
ReplyUnnamed ==
    /\ call.step = "reply" /\ ~interrupted
    /\ settled' = settled \union call.settles
    /\ call' = [step |-> "acknowledge", tells |-> call.tells]
    /\ UNCHANGED <<store, child, group, told, announced, session, restarts, interrupted>>

(* The result is appended to the parent's journal, then acknowledged. *)
Reply ==
    /\ call.step = "reply" /\ ~interrupted
    /\ told' = told \union call.tells
    /\ settled' = settled \union call.settles
    /\ call' = [step |-> "acknowledge", tells |-> call.tells]
    /\ UNCHANGED <<store, child, group, announced, session, restarts, interrupted>>

\* Mutant: a result that was not recorded is acknowledged.
ReplyDroppedAcknowledged ==
    /\ call.step = "reply" /\ interrupted
    /\ call' = [step |-> "acknowledge", tells |-> call.tells]
    /\ UNCHANGED <<store, child, group, parent, session, restarts, interrupted>>

(* The run was cancelled meanwhile: the result is not recorded. *)
ReplyDropped ==
    /\ call.step = "reply" /\ interrupted
    /\ call' = Ready
    /\ UNCHANGED <<store, child, group, parent, session, restarts, interrupted>>

(* ToolResultCommitted *)
Acknowledge ==
    /\ call.step = "acknowledge"
    /\ child' = Marked(call.tells)
    /\ call' = Ready
    /\ UNCHANGED <<store, group, parent, session, restarts, interrupted>>

(* The boundary before a model request. *)
Boundary ==
    /\ Between
    /\ Pending # {}
    /\ \E order \in SetToSeqs(Pending) : call' = [step |-> "tell", events |-> order]
    /\ UNCHANGED <<store, child, group, parent, session, restarts, interrupted>>

(* deliverBoundaryEvents, one event: appended unless the journal has it. *)
Tell ==
    /\ call.step = "tell" /\ ~interrupted
    /\ LET event == Head(call.events) IN
         announced' = IF event \in Range(announced) THEN announced ELSE Append(announced, event)
    /\ call' = [call EXCEPT !.step = "commit"]
    /\ UNCHANGED <<store, child, group, told, settled, session, restarts, interrupted>>

(* An append under a cancelled context fails and ends the delivery. *)
TellAborted ==
    /\ call.step = "tell" /\ interrupted
    /\ call' = Ready
    /\ UNCHANGED <<store, child, group, parent, session, restarts, interrupted>>

(* EventCommitted *)
TellCommitted ==
    /\ call.step = "commit"
    /\ child' = Marked({Head(call.events)})
    /\ call' = IF Len(call.events) = 1 THEN Ready
               ELSE [step |-> "tell", events |-> Tail(call.events)]
    /\ UNCHANGED <<store, group, parent, session, restarts, interrupted>>

-----------------------------------------------------------------------------
(* Close and ReleaseParent: nothing can be addressed any more, and all runs
   are cancelled; a switch keeps the process. *)
Leave(how) ==
    /\ session = "open" /\ call = Outside
    /\ session' = how
    /\ group' = {}
    /\ child' = [c \in Child |-> [child[c] EXCEPT !.cancelled = Running(c)]]
    /\ UNCHANGED <<store, parent, restarts, call, interrupted>>

\* Mutant: the runs are cancelled but not waited for.
LeftRunning ==
    /\ session \in {"closing", "leaving"}
    /\ session' = IF session = "closing" THEN "down" ELSE "away"
    /\ child' = [c \in Child |-> Unloaded]
    /\ UNCHANGED <<store, group, parent, restarts, call, interrupted>>

(* closeChildren has seen every run end and closed every journal. *)
Left ==
    /\ session \in {"closing", "leaving"}
    /\ \A c \in Child : ~Running(c)
    /\ session' = IF session = "closing" THEN "down" ELSE "away"
    /\ child' = [c \in Child |-> [Unloaded EXCEPT !.notify = child[c].notify /\ session = "leaving"]]
    /\ UNCHANGED <<store, group, parent, restarts, call, interrupted>>

\* Mutant: the stopped flag is not restored.
RestoredRunnable(c) == [Unloaded EXCEPT
    !.runs = [i \in DOMAIN store[c].journal |-> [id |-> i, status |-> "finished", delivered |-> FALSE]],
    !.notify = child[c].notify]

\* Mutant: only runs that ended by themselves are restored.
RestoredFinished(c) == [Unloaded EXCEPT
    !.runs = [i \in {k \in DOMAIN store[c].journal : store[c].journal[k] = "finished"} |->
                [id |-> i, status |-> "finished", delivered |-> FALSE]],
    !.stopped = store[c].halted, !.notify = child[c].notify]

(* openChildLocked: Reconcile closes the run a dead process left open, and
   restoreChildRuns takes every run of the journal, none of them delivered. *)
Reconciled(c) == [store[c] EXCEPT !.journal =
    [i \in DOMAIN @ |-> IF @[i] = "open" THEN "interrupted" ELSE @[i]]]
Restored(c) == [Unloaded EXCEPT
    !.runs = [i \in DOMAIN store[c].journal |-> [id |-> i, status |-> "finished", delivered |-> FALSE]],
    !.stopped = store[c].halted, !.notify = child[c].notify]
Published == {c \in Child : store[c].dir = "published"}

(* loadParentLocked, from Preload or PreloadSession. *)
Load ==
    /\ session \in {"down", "away"} /\ restarts < MaxRestarts
    /\ store' = [c \in Child |-> IF c \in Published THEN Reconciled(c) ELSE store[c]]
    /\ child' = [c \in Child |-> IF c \in Published THEN Restored(c) ELSE child[c]]
    /\ group' = Published
    /\ session' = "open" /\ restarts' = restarts + 1
    /\ UNCHANGED <<parent, call, interrupted>>

(* One child that cannot be opened fails all; the others were reconciled. *)
LoadFails ==
    /\ session \in {"down", "away"} /\ restarts < MaxRestarts
    /\ \E opened \in SUBSET Published :
         store' = [c \in Child |-> IF c \in opened THEN Reconciled(c) ELSE store[c]]
    /\ restarts' = restarts + 1
    /\ UNCHANGED <<child, group, parent, session, call, interrupted>>

(* The process dies; what is on disk stays. *)
Crash ==
    /\ session # "down"
    /\ session' = "down"
    /\ group' = {}
    /\ child' = [c \in Child |-> Unloaded]
    /\ call' = Outside /\ interrupted' = FALSE
    /\ UNCHANGED <<store, parent, restarts>>

Goroutine(c) == Begin(c) \/ Refused(c) \/ Finish(c) \/ Retire(c) \/ Notify(c)

(* What the parent's thread does without being asked again. *)
Continue ==
    \/ Launched \/ LaunchFailed \/ Publish \/ PublishFails \/ Discard
    \/ Look \/ Wake \/ GiveUp
    \/ StopWritten \/ StopNotWritten \/ StopDone
    \/ Reply \/ ReplyDropped \/ Acknowledge
    \/ Tell \/ TellAborted \/ TellCommitted
    \/ Left

Modes == {"none", "any", "all"}
Ask ==
    \/ StartRun \/ EndRun \/ Interrupt \/ Boundary
    \/ \E c \in Child : Start(c) \/ Send(c) \/ Stop(c)
    \/ \E S \in SUBSET group \ {{}}, mode \in Modes : Check(S, mode)
    \/ \E how \in {"closing", "leaving"} : Leave(how)

Next ==
    \/ \E c \in Child : Goroutine(c)
    \/ Continue
    \/ Ask
    \/ Load \/ LoadFails \/ Crash

(* A child's run ends (its requests time out, its tool calls are limited),
   and the parent's thread runs. *)
Fairness ==
    /\ \A c \in Child : WF_vars(Goroutine(c))
    /\ WF_vars(Continue)

Spec == Init /\ [][Next]_vars /\ Fairness
=============================================================================
