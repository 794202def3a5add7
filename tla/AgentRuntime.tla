---------------------------- MODULE AgentRuntime ----------------------------
(***************************************************************************)
(* The life of one session: the runtime that executes runs and user shell *)
(* commands against a model backend (agent/runtime.go, shell.go,          *)
(* reconfiguration.go, configuration.go, queue.go, replay.go), the journal *)
(* it appends to (internal/session/store.go) and the boundary to managed   *)
(* jobs (app/external_work.go, tools/process.go).                          *)
(*                                                                         *)
(* At most one operation holds runMu; `op' is its kind and `pc' the next   *)
(* step of it.  Every append to the journal is a step, and between any two *)
(* steps the process may crash, the user may cancel, queue or take back    *)
(* input, switch the model or the tools or the scope, and jobs may finish. *)
(*                                                                         *)
(* Left out, and assumed: the context always fits (no compaction and no    *)
(* pruning), a request is one attempt, no images, and a group of           *)
(* parallel-safe calls commits its results in call order as serial calls   *)
(* do.                                                                     *)
(***************************************************************************)
EXTENDS SessionReducer, Integers, Sequences

CONSTANTS
  LocalJobs,            \* jobs a yielded foreground command becomes
  AwaitJobs,            \* TRUE when the session is not interactive
  MaxToolIterations,    \* -1 disables the emergency fuse
  MaxCallsPerResponse,  \* bound: tool calls the backend puts in a response
  Budgets               \* bounds: how often outside events happen, within one of these

Occasions == {"open", "run", "shell", "select", "scope", "queue", "take",
              "fault", "cancel"}

ASSUME RuntimeAssumption ==
  /\ LocalJobs \subseteq Jobs
  /\ AwaitJobs \in BOOLEAN
  /\ MaxToolIterations \in Int
  /\ MaxCallsPerResponse \in Nat
  /\ Budgets \subseteq [Occasions -> Nat]

\* The selection a request is made with: runtimeConfiguration.
Configuration == [info : ModelInfo, tools : ToolSets]

DetachedJobs == Jobs \ LocalJobs

VARIABLES
  journal,        \* records a reopened session would read, oldest first
  durable,        \* what reduceRecords returns for them
  failed,         \* Store.failed: a write failed, the store refuses all use
  op,             \* operation holding runMu: "none", "run", "shell", "configure"
  pc,             \* its next step
  live,           \* its stateReducer
  opened,         \* live is not nil
  cancelled,      \* its context is done
  run,            \* its run
  iterations,     \* tool iterations of the run
  limited,        \* the tool iteration limit was reached
  status,         \* status the run finishes with
  reply,          \* kind of the response of the backend
  after,          \* step that follows the application of a selection
  tells,          \* jobs whose end the record being committed reports
  offers,         \* pending events not yet delivered
  runs, calls, epochs,  \* identifiers handed out so far
  config,         \* runtimeConfiguration
  pendingConfig,  \* deferred selection
  applying,       \* selection being applied under configMu
  scope,          \* Runtime.scope
  wanted,         \* last selection reported as accepted (history)
  served,         \* epoch and model of every journaled response (history)
  queue,          \* pendingInputs
  submitted,      \* inputs queued so far
  taken,          \* inputs claimed, popped or lost with the process (history)
  jobs,           \* life of every job
  seen,           \* completionSeen of the jobs of this process
  marked,         \* jobs with a `delivered' file
  used            \* outside events so far

store == <<journal, durable, failed>>
locals == <<run, iterations, limited, status, reply, after, tells, offers>>
control == <<op, opened, cancelled>>
ids == <<runs, calls, epochs>>
selection == <<config, pendingConfig, applying, scope, wanted>>
inputs == <<queue, submitted, taken>>
work == <<jobs, seen, marked>>
vars == <<store, locals, control, pc, live, ids, selection, inputs, work,
          served, used>>

OpKind == {"none", "run", "shell", "configure"}
Step == {"down", "reconcile", "idle", "open", "session", "select",
         "configure", "sync", "start", "input", "boundary", "queue", "offer",
         "deliver", "told", "request", "accept", "await", "tools", "result",
         "resulted", "reject", "settle", "finish", "release", "apply_select",
         "apply_configure", "shell_call", "shell_run", "shell_result",
         "shell_finish"}
Reply == {"answer", "empty", "incomplete", "tools"}
JobLife == {"unused", "running", "finished", "gone"}

TypeOK ==
  /\ journal \in Seq(Record)
  /\ durable \in State
  /\ failed \in BOOLEAN
  /\ op \in OpKind
  /\ pc \in Step
  /\ live \in State
  /\ opened \in BOOLEAN
  /\ cancelled \in BOOLEAN
  /\ run \in Nat
  /\ iterations \in Nat
  /\ limited \in BOOLEAN
  /\ status \in RunStatus
  /\ reply \in Reply
  /\ after \in {"idle", "queue", "request"}
  /\ tells \in SUBSET Jobs
  /\ offers \in SUBSET Jobs
  /\ runs \in Nat
  /\ calls \in Nat
  /\ epochs \in Nat
  /\ config \in Configuration
  /\ pendingConfig \in SUBSET Configuration
  /\ applying \in Configuration
  /\ scope \in Scopes
  /\ wanted \in Configuration
  /\ served \in SUBSET [epoch : Nat, info : ModelInfo]
  /\ queue \in Seq(Nat)
  /\ submitted \in Nat
  /\ taken \in SUBSET Nat
  /\ jobs \in [Jobs -> JobLife]
  /\ seen \in SUBSET Jobs
  /\ marked \in SUBSET Jobs
  /\ used \in [Occasions -> Nat]

-----------------------------------------------------------------------------
(* The outside world spends a budget; nothing else is bounded.             *)

Affordable(uses) ==
  \E budget \in Budgets : \A o \in Occasions : uses[o] <= budget[o]

Spend(occasion) ==
  /\ used' = [used EXCEPT ![occasion] = @ + 1]
  /\ Affordable(used')

\* An attempt that comes to nothing because a write fails.
SpendOnFault(occasion) ==
  /\ used' = [used EXCEPT ![occasion] = @ + 1, !["fault"] = @ + 1]
  /\ Affordable(used')

-----------------------------------------------------------------------------
(* The journal.                                                            *)

Stored(r) ==
  /\ journal' = Append(journal, r)
  /\ durable' = Apply(durable, r)

\* These appends run under context.WithoutCancel, or with a context nobody
\* cancels.
Uncancellable ==
  \/ pc \in {"reconcile", "settle", "reject", "finish", "shell_result",
             "shell_finish"}
  \/ pc \in {"apply_select", "apply_configure"} /\ op = "run" /\ after = "idle"

ContextDone == cancelled /\ ~Uncancellable

\* Store.Append succeeds.
Persisted(r) ==
  /\ ~failed
  /\ ~ContextDone
  /\ Stored(r)
  /\ UNCHANGED <<failed, used>>

\* appendRecordAndApply: the reducer of the operation follows the journal.
Written(r) == Persisted(r) /\ live' = Apply(live, r)

\* Mutant: a store that goes on after a write it cannot vouch for.
AppendFailsUnpoisoned(r) ==
  \/ /\ failed \/ ContextDone
     /\ UNCHANGED <<store, used>>
  \/ /\ Spend("fault")
     /\ UNCHANGED failed
     /\ UNCHANGED <<journal, durable>> \/ Stored(r)

\* Store.Append returns an error: the context is done, an earlier write
\* failed, the record is too large, or this write fails, in which case the
\* record may all the same be complete in the file.
AppendFails(r) ==
  \/ /\ failed \/ ContextDone
     /\ UNCHANGED <<store, used>>
  \/ /\ ~failed
     /\ Spend("fault")
     /\ UNCHANGED store
  \/ /\ ~failed
     /\ Spend("fault")
     /\ failed' = TRUE
     /\ UNCHANGED <<journal, durable>> \/ Stored(r)

ReportsEndOf(r, job) ==
  r.kind \in {"tool_result", "boundary_event"} /\ job \in r.tells

Told(job) == \E i \in DOMAIN journal : ReportsEndOf(journal[i], job)

-----------------------------------------------------------------------------
(* Locks.  runMu is free when op is "none"; configMu is held from the       *)
(* first to the last record of a selection being applied.                   *)

ProcessUp == pc \notin {"down", "reconcile"}

\* Mutant: configMu is not held while a selection is applied.
ConfigNotLocked == TRUE

ConfigFree == pc \notin {"apply_select", "apply_configure"}

InitLocals ==
  /\ run' = 0
  /\ iterations' = 0
  /\ limited' = FALSE
  /\ status' = "completed"
  /\ reply' = "empty"
  /\ after' = "idle"
  /\ tells' = {}
  /\ offers' = {}

\* An operation returns: its locals are gone, and so is what it holds.
Unlock(next) ==
  /\ pc' = next
  /\ op' = "none"
  /\ live' = NewState
  /\ opened' = FALSE
  /\ cancelled' = FALSE
  /\ InitLocals

Lock(kind) ==
  /\ pc = "idle"
  /\ op = "none"
  /\ Spend(kind)
  /\ op' = kind
  /\ pc' = "open"

Goto(next) == pc' = next /\ UNCHANGED <<control, locals>>

\* The run finishes with this status.
FinishWith(s) ==
  /\ pc' = "finish"
  /\ status' = s
  /\ UNCHANGED <<control, run, iterations, limited, reply, after, tells, offers>>

\* The operation returns an error; deferred calls run.
Leave == Goto("release") /\ UNCHANGED live


\* Mutant: the error of a request is returned without ending the run.
FinishErrorDropped == Leave

\* Runtime.finishError.
FinishError ==
  FinishWith(IF cancelled THEN "cancelled" ELSE "failed") /\ UNCHANGED live

-----------------------------------------------------------------------------
(* Process life: open, reconcile, close, crash.                            *)

Init ==
  /\ journal = <<>>
  /\ durable = NewState
  /\ failed = FALSE
  /\ op = "none"
  /\ pc = "down"
  /\ live = NewState
  /\ opened = FALSE
  /\ cancelled = FALSE
  /\ run = 0 /\ iterations = 0 /\ limited = FALSE
  /\ status = "completed" /\ reply = "empty" /\ after = "idle"
  /\ tells = {} /\ offers = {}
  /\ runs = 0 /\ calls = 0 /\ epochs = 0
  /\ config \in Configuration
  /\ pendingConfig = {}
  /\ applying = config
  /\ scope \in Scopes
  /\ wanted = config
  /\ served = {}
  /\ queue = <<>> /\ submitted = 0 /\ taken = {}
  /\ jobs = [j \in Jobs |-> "unused"]
  /\ seen = {} /\ marked = {}
  /\ used = [o \in Occasions |-> 0]

\* Settings and flags of the new process decide its model, tools and scope;
\* the journal must replay, and is opened as a store that has not failed.
Reopen ==
  /\ pc = "down"
  /\ durable.ok
  /\ Spend("open")
  /\ pc' = "reconcile"
  /\ live' = durable
  /\ \E c \in Configuration : config' = c /\ applying' = c /\ wanted' = c
  /\ scope' \in Scopes
  /\ failed' = FALSE
  /\ UNCHANGED <<journal, durable, locals, control, ids, pendingConfig, inputs, work,
                 served>>

\* A failed append makes the application refuse to open.
ReconcileAppends(r) ==
  /\ \/ Written(r) /\ Goto("reconcile")
     \/ AppendFails(r) /\ Unlock("down")
  /\ UNCHANGED <<ids, selection, inputs, work, served>>

ReconcileCall ==
  /\ pc = "reconcile"
  /\ \E p \in live.pending :
       /\ \A q \in live.pending : p.call <= q.call
       /\ ReconcileAppends([kind |-> "tool_result", run |-> p.run,
                            call |-> p.call, tells |-> {}])

ReconcileRun ==
  /\ pc = "reconcile"
  /\ live.pending = {}
  /\ \E r \in live.runs :
       /\ \A q \in live.runs : r <= q
       /\ ReconcileAppends([kind |-> "run_finished", run |-> r,
                            status |-> "interrupted", observed |-> FALSE,
                            detached |-> {}])

\* AttachSession adopts the durable jobs and drops the delivered ones.
Attach ==
  /\ pc = "reconcile"
  /\ ~HasUnfinishedWork(live)
  /\ Unlock("idle")
  /\ jobs' = [j \in Jobs |-> IF j \in marked /\ jobs[j] = "finished"
                             THEN "gone" ELSE jobs[j]]
  /\ marked' = {}
  /\ UNCHANGED <<store, ids, selection, inputs, seen, served, used>>

\* What the end of a process does to memory and to the jobs it keeps itself.
ProcessEnds ==
  /\ Unlock("down")
  /\ failed' = FALSE
  /\ pendingConfig' = {}
  /\ applying' = config
  /\ wanted' = config
  /\ queue' = <<>>
  /\ taken' = taken \cup {queue[i] : i \in DOMAIN queue}
  /\ seen' = {}
  /\ UNCHANGED <<journal, durable, ids, config, scope, submitted, marked,
                 served, used>>

Crash ==
  /\ pc # "down"
  /\ ProcessEnds
  /\ jobs' = [j \in Jobs |-> IF j \in LocalJobs /\ jobs[j] # "unused"
                             THEN "gone" ELSE jobs[j]]

\* ProcessManager.Close stops the local jobs and removes what is settled.
Close ==
  /\ pc = "idle"
  /\ ProcessEnds
  /\ jobs' = [j \in Jobs |->
                IF \/ j \in LocalJobs /\ jobs[j] # "unused"
                   \/ jobs[j] = "finished" /\ j \in seen
                THEN "gone" ELSE jobs[j]]

-----------------------------------------------------------------------------
(* The selection of a request, and how a change of it reaches the journal. *)

Selected == IF pendingConfig = {} THEN config ELSE CHOOSE c \in pendingConfig : TRUE

\* Mutant: the snapshot holds the identity of the model for its endpoint.
SnapshotOfIdentity(c, s) ==
  [limits |-> c.info.model, endpoint |-> c.info,
   tools |-> c.tools, scope |-> s]

SnapshotOf(c, s) ==
  [limits |-> c.info.model, endpoint |-> c.info.endpoint,
   tools |-> c.tools, scope |-> s]

\* Mutant: the endpoint is not part of what an epoch belongs to.
KeepsEpochOfModel(st, info) ==
  st.epoch # 0 /\ \A s \in st.selection : s.model = info.model

\* ReplayContext.ForModel keeps the epoch of a selection that matches.
KeepsEpoch(st, info) == st.epoch # 0 /\ st.selection = {info}

SelectionRecord(info) ==
  [kind |-> "model_selected", info |-> info, epoch |-> epochs + 1]

ConfigurationRecord(c, s) ==
  [kind |-> "session_configured", config |-> SnapshotOf(c, s)]

\* replayContextForModel and the append of its result when that is new.
SelectModel(info, next, Failing) ==
  \/ /\ KeepsEpoch(live, info)
     /\ Goto(next)
     /\ UNCHANGED <<store, live, epochs, used>>
  \/ /\ ~KeepsEpoch(live, info)
     /\ epochs' = epochs + 1
     /\ \/ Written(SelectionRecord(info)) /\ Goto(next)
        \/ AppendFails(SelectionRecord(info)) /\ Failing

\* Mutant: one configuration record for each epoch.
NeedsFirstRecord(st, c, s) == st.session /\ st.configured = {}

\* recordEffectiveConfigurationAndApply, when it appends.
NeedsRecord(st, c, s) == st.session /\ st.configured # {SnapshotOf(c, s)}

\* What a failed application leads to: the end of the run, or of the lock.
ApplyFails == IF after = "idle" THEN Unlock("idle") ELSE FinishError

\* applyConfigurationLocked, first half: a session gets the new selection.
ApplyModel ==
  /\ pc = "apply_select"
  /\ IF live.session
     THEN SelectModel(applying.info, "apply_configure", ApplyFails)
     ELSE Goto("apply_configure") /\ UNCHANGED <<store, live, epochs, used>>
  /\ UNCHANGED <<runs, calls, selection, inputs, work, served>>

\* Its second half: record the configuration, and only then use it.
Publish ==
  /\ config' = applying
  /\ pendingConfig' = {}
  /\ wanted' = IF op = "configure" THEN applying ELSE wanted
  /\ UNCHANGED <<applying, scope>>

Applied ==
  IF after = "idle" THEN Unlock("idle") ELSE Goto(after) /\ UNCHANGED live

ApplyConfiguration ==
  /\ pc = "apply_configure"
  /\ \/ /\ ~NeedsRecord(live, applying, scope)
        /\ Applied
        /\ Publish
        /\ UNCHANGED <<store, used>>
     \/ /\ NeedsRecord(live, applying, scope)
        /\ live.epoch # 0
        /\ LET r == ConfigurationRecord(applying, scope) IN
           \/ /\ \/ after = "idle" /\ Persisted(r) /\ Unlock("idle")
                 \/ after # "idle" /\ Written(r) /\ Goto(after)
              /\ Publish
           \/ AppendFails(r) /\ ApplyFails /\ UNCHANGED selection
  /\ UNCHANGED <<ids, inputs, work, served>>

\* applyPendingConfigurationLocked on the way to step `next'.
StartApplying(next) ==
  /\ pendingConfig # {}
  /\ applying' \in pendingConfig
  /\ after' = next
  /\ pc' = "apply_select"
  /\ UNCHANGED <<run, iterations, limited, status, reply, tells, offers,
                 control, live, config, pendingConfig, scope, wanted>>

\* SwitchModel and SetTools change one part of what is selected by now.  A
\* turn defers the change, an idle runtime applies it, a shell refuses it.
Changed == {c \in Configuration :
              \/ c.tools = Selected.tools
              \/ c.info = Selected.info}

DeferSelection ==
  /\ op = "run"
  /\ ConfigFree
  /\ Spend("select")
  /\ \E c \in Changed :
       /\ c # Selected
       /\ pendingConfig' = {c}
       /\ wanted' = c
  /\ UNCHANGED <<store, locals, control, pc, live, ids, config, applying,
                 scope, inputs, work, served>>

ApplySelection ==
  /\ pc = "idle"
  /\ ~failed
  /\ ~HasUnfinishedWork(durable)
  /\ Spend("select")
  /\ op' = "configure"
  /\ pc' = "apply_select"
  /\ live' = durable
  /\ opened' = TRUE
  /\ \E c \in Changed : c # Selected /\ applying' = c
  /\ UNCHANGED <<store, locals, cancelled, ids, config, pendingConfig, scope,
                 wanted, inputs, work, served>>

\* SetScopeSnapshot takes configMu but not runMu, and describes the current
\* configuration under a new scope.
SetScope ==
  /\ ProcessUp
  /\ ConfigFree
  /\ ~failed
  /\ \E s \in Scopes \ {scope} :
       LET r == ConfigurationRecord(config, s) IN
         \/ /\ ~NeedsRecord(durable, config, s)
            /\ Spend("scope")
            /\ scope' = s
            /\ UNCHANGED store
         \/ /\ NeedsRecord(durable, config, s)
            /\ durable.epoch # 0
            /\ \/ Spend("scope") /\ Stored(r) /\ scope' = s /\ UNCHANGED failed
               \/ /\ SpendOnFault("scope")
                  /\ failed' = TRUE
                  /\ UNCHANGED <<journal, durable>> \/ Stored(r)
                  /\ UNCHANGED scope
  /\ UNCHANGED <<locals, control, pc, live, ids, config, pendingConfig,
                 applying, wanted, inputs, work, served>>

-----------------------------------------------------------------------------
(* Input queued while a run is active.                                     *)

QueueInput ==
  /\ ProcessUp
  /\ pc # "queue"
  /\ Spend("queue")
  /\ submitted' = submitted + 1
  /\ queue' = Append(queue, submitted + 1)
  /\ UNCHANGED <<store, locals, control, pc, live, ids, selection, taken, work,
                 served>>

\* ClaimQueuedInput takes the oldest input, PopQueuedInput the newest.
TakeInput ==
  /\ ProcessUp
  /\ pc # "queue"
  /\ queue # <<>>
  /\ Spend("take")
  /\ \/ taken' = taken \cup {Head(queue)} /\ queue' = Tail(queue)
     \/ /\ taken' = taken \cup {queue[Len(queue)]}
        /\ queue' = SubSeq(queue, 1, Len(queue) - 1)
  /\ UNCHANGED <<store, locals, control, pc, live, ids, selection, submitted,
                 work, served>>

-----------------------------------------------------------------------------
(* Managed jobs.                                                           *)

JobFinishes(job) ==
  /\ jobs[job] = "running"
  /\ jobs' = [jobs EXCEPT ![job] = "finished"]
  /\ UNCHANGED <<store, locals, control, pc, live, ids, selection, inputs,
                 seen, marked, served, used>>

\* Mutant: every finished job is acknowledged, told or not.
MarkAllDelivered(delivered) ==
  /\ seen' = seen \cup {j \in Jobs : jobs[j] = "finished"}
  /\ UNCHANGED <<marked, jobs>>

\* MarkCompletionDelivered: a running job is left alone, and writing the
\* marker of a detached one may fail.
MarkDelivered(delivered) ==
  LET ended == {j \in delivered : jobs[j] = "finished"} IN
    /\ seen' = seen \cup ended
    /\ \E written \in SUBSET (ended \ LocalJobs) : marked' = marked \cup written
    /\ UNCHANGED jobs

\* PendingCompletionEvents
PendingEvents == {j \in Jobs : jobs[j] = "finished"} \ seen

\* Mutant: a job that ended since the last boundary is not waited for.
RequiredRunningJobs == {j \in LocalJobs : jobs[j] = "running"} \ seen

\* Mutant: detached jobs are waited for.
RequiredAllJobs == {j \in Jobs : jobs[j] \in {"running", "finished"}} \ seen

\* AwaitRequiredJobs looks at these.
RequiredJobs == {j \in LocalJobs : jobs[j] \in {"running", "finished"}} \ seen

RunningDetached == {j \in DetachedJobs : jobs[j] = "running"}

-----------------------------------------------------------------------------
(* Preparation shared by RunInput and RunShell.                            *)

StartRun == Lock("run") /\ UNCHANGED <<store, locals, live, opened, cancelled,
                                       ids, selection, inputs, work, served>>

StartShell == Lock("shell") /\ UNCHANGED <<store, locals, live, opened,
                                           cancelled, ids, selection, inputs,
                                           work, served>>

\* Mutant: unfinished work does not stop another run.
OpenUnchecked ==
  /\ pc = "open"
  /\ ~failed /\ ~cancelled
  /\ live' = durable
  /\ opened' = TRUE
  /\ pc' = "session"
  /\ UNCHANGED <<op, cancelled, locals, store, ids, selection, inputs, work,
                 served, used>>

\* journal.Records and reduceRecords; unfinished work makes the operation
\* return, with the state it read.
Open ==
  /\ pc = "open"
  /\ \/ /\ failed \/ cancelled
        /\ Leave
     \/ /\ ~failed /\ ~cancelled
        /\ live' = durable
        /\ opened' = TRUE
        /\ pc' = IF HasUnfinishedWork(durable) THEN "release" ELSE "session"
        /\ UNCHANGED <<op, cancelled, locals>>
  /\ UNCHANGED <<store, ids, selection, inputs, work, served, used>>

PrepareSession ==
  /\ pc = "session"
  /\ LET r == [kind |-> "session_started"] IN
       \/ /\ live.session
          /\ Goto("select")
          /\ UNCHANGED <<store, live, used>>
       \/ /\ ~live.session
          /\ \/ Written(r) /\ Goto("select")
             \/ AppendFails(r) /\ Leave
  /\ UNCHANGED <<ids, selection, inputs, work, served>>

PrepareModel ==
  /\ pc = "select"
  /\ SelectModel(config.info, "configure", Leave)
  /\ UNCHANGED <<runs, calls, selection, inputs, work, served>>

\* recordCurrentEffectiveConfigurationAndApply
PrepareConfiguration ==
  /\ pc = "configure"
  /\ LET r == ConfigurationRecord(config, scope)
         next == IF op = "run" THEN "sync" ELSE "start" IN
       \/ /\ ~NeedsRecord(live, config, scope)
          /\ Goto(next)
          /\ UNCHANGED <<store, live, used>>
       \/ /\ NeedsRecord(live, config, scope)
          /\ \/ Written(r) /\ Goto(next)
             \/ AppendFails(r) /\ Leave
  /\ UNCHANGED <<ids, selection, inputs, work, served>>

\* Mutant: what the journal tells is not acknowledged again.
SyncNothing ==
  /\ pc = "sync"
  /\ Goto("start")
  /\ UNCHANGED <<store, live, ids, selection, inputs, work, served, used>>

\* syncExternalWorkCommits: whatever the journal tells is acknowledged again.
SyncExternalWork ==
  /\ pc = "sync"
  /\ MarkDelivered({j \in Jobs : Told(j)})
  /\ Goto("start")
  /\ UNCHANGED <<store, live, ids, selection, inputs, served, used>>

RecordRunStarted ==
  /\ pc = "start"
  /\ LET r == [kind |-> "run_started", run |-> runs + 1] IN
       \/ /\ Written(r)
          /\ run' = runs + 1
          /\ pc' = "input"
          /\ UNCHANGED <<control, iterations, limited, status, reply, after,
                         tells, offers>>
       \/ AppendFails(r) /\ Leave
  /\ runs' = runs + 1
  /\ UNCHANGED <<calls, epochs, selection, inputs, work, served>>

\* The input an operation starts with has number 0.
RecordInput ==
  /\ pc = "input"
  /\ LET r == [kind |-> "run_input_added", run |-> run, input |-> 0] IN
       \/ Written(r) /\ Goto(IF op = "run" THEN "boundary" ELSE "shell_call")
       \/ AppendFails(r) /\ Leave
  /\ UNCHANGED <<ids, selection, inputs, work, served>>

-----------------------------------------------------------------------------
(* The loop of a run.  Its top is a request boundary.                      *)

Boundary ==
  /\ pc = "boundary"
  /\ LET next == IF limited THEN "request" ELSE "queue" IN
       \/ /\ pendingConfig = {}
          /\ Goto(next)
          /\ UNCHANGED <<live, selection>>
       \/ StartApplying(next)
  /\ UNCHANGED <<store, ids, inputs, work, served, used>>

\* Mutant: the input is popped even when it was not appended.
PopInput ==
  /\ pc = "queue"
  /\ \/ queue = <<>> /\ Goto("offer") /\ UNCHANGED <<store, live, queue, used>>
     \/ /\ queue # <<>>
        /\ queue' = Tail(queue)
        /\ LET r == [kind |-> "run_input_added", run |-> run,
                     input |-> Head(queue)] IN
             \/ Written(r) /\ Goto("queue")
             \/ AppendFails(r) /\ FinishError
  /\ UNCHANGED <<ids, selection, submitted, taken, work, served>>

\* deliverQueuedInput appends, then pops, one input at a time under queueMu.
DeliverInput ==
  /\ pc = "queue"
  /\ \/ /\ queue = <<>>
        /\ Goto("offer")
        /\ UNCHANGED <<store, live, queue, used>>
     \/ /\ queue # <<>>
        /\ LET r == [kind |-> "run_input_added", run |-> run,
                     input |-> Head(queue)] IN
             \/ Written(r) /\ queue' = Tail(queue) /\ Goto("queue")
             \/ AppendFails(r) /\ FinishError /\ UNCHANGED queue
  /\ UNCHANGED <<ids, selection, submitted, taken, work, served>>

\* deliverBoundaryEvents: first a snapshot of what is pending.
OfferEvents ==
  /\ pc = "offer"
  /\ offers' = PendingEvents
  /\ pc' = "deliver"
  /\ UNCHANGED <<run, iterations, limited, status, reply, after, tells,
                 store, control, live, ids, selection, inputs, work, served,
                 used>>

\* Then one event at a time; one the journal has is only acknowledged.
DeliverEvent ==
  /\ pc = "deliver"
  /\ \/ /\ offers = {}
        /\ Goto("request")
        /\ UNCHANGED <<store, live, work, used>>
     \/ \E job \in offers \cap live.delivered :
          /\ MarkDelivered({job})
          /\ offers' = offers \ {job}
          /\ UNCHANGED <<run, iterations, limited, status, reply, after, tells,
                         control, pc, store, live, used>>
     \/ \E job \in offers \ live.delivered :
          LET r == [kind |-> "boundary_event", run |-> run, tells |-> {job}] IN
          /\ \/ /\ Written(r)
                /\ tells' = {job}
                /\ offers' = offers \ {job}
                /\ pc' = "told"
                /\ UNCHANGED <<run, iterations, limited, status, reply, after,
                               control>>
             \/ AppendFails(r) /\ FinishError
          /\ UNCHANGED work
  /\ UNCHANGED <<ids, selection, inputs, served>>

\* The acknowledgements that follow a committed event or tool result.
EventCommitted ==
  /\ pc = "told"
  /\ MarkDelivered(tells)
  /\ Goto("deliver")
  /\ UNCHANGED <<store, live, ids, selection, inputs, served, used>>

ToolResultCommitted ==
  /\ pc = "resulted"
  /\ MarkDelivered(tells)
  /\ Goto("tools")
  /\ UNCHANGED <<store, live, ids, selection, inputs, served, used>>

\* One model request.  The record of its attempt needs the context and the
\* store; a backend gives up when the context is done.
Request ==
  /\ pc = "request"
  /\ \/ FinishError
     \/ /\ ~cancelled /\ ~failed
        /\ pc' = "accept"
        /\ reply' \in Reply
        /\ UNCHANGED <<run, iterations, limited, status, after, tells, offers,
                       control, live>>
  /\ UNCHANGED <<store, ids, selection, inputs, work, served, used>>

\* Mutant: the calls of an incomplete response are kept.
CallCountOfIncomplete ==
  IF reply \in {"tools", "incomplete"} /\ ~limited
  THEN 1 .. MaxCallsPerResponse ELSE {0}

\* Calls of an incomplete response, and of the one after the limit, are
\* dropped.
CallCount ==
  IF reply = "tools" /\ ~limited THEN 1 .. MaxCallsPerResponse ELSE {0}

ResponseRecord(n) ==
  [kind |-> "model_response", run |-> run,
   model |-> (CHOOSE s \in live.selection : TRUE).model,
   epoch |-> live.epoch, calls |-> calls + 1 .. calls + n]

FuseBlown == MaxToolIterations >= 0 /\ iterations >= MaxToolIterations

AfterResponse ==
  \/ reply = "incomplete" /\ FinishWith("incomplete")
  \/ reply \in {"answer", "empty"} /\ ~limited /\ Goto("await")
  \/ reply = "answer" /\ limited /\ FinishWith("completed")
  \/ reply \in {"empty", "tools"} /\ limited /\ FinishWith("failed")
  \/ /\ reply = "tools" /\ ~limited
     /\ IF FuseBlown
        THEN pc' = "reject" /\ limited' = TRUE /\ UNCHANGED iterations
        ELSE pc' = "tools" /\ iterations' = iterations + 1 /\ UNCHANGED limited
     /\ UNCHANGED <<run, status, reply, after, tells, offers, control>>

\* acceptAndCommitResponse.  A response that is not accepted ends the run, a
\* failed append leaves the run unfinished.
AcceptResponse ==
  /\ pc = "accept"
  /\ \/ /\ FinishWith("failed")
        /\ UNCHANGED <<store, live, calls, served, used>>
     \/ \E n \in CallCount :
          /\ calls' = calls + n
          /\ \/ /\ Written(ResponseRecord(n))
                /\ AfterResponse
                /\ served' = served \cup
                     {[epoch |-> live.epoch, info |-> config.info]}
             \/ AppendFails(ResponseRecord(n)) /\ Leave /\ UNCHANGED served
  /\ UNCHANGED <<runs, epochs, selection, inputs, work>>

\* Mutant: waiting for jobs does not look at the context.
AwaitJobsOnly ==
  /\ pc = "await"
  /\ LET required == IF AwaitJobs THEN RequiredJobs ELSE {} IN
       \/ required = {} /\ FinishWith("completed") /\ UNCHANGED live
       \/ /\ required # {}
          /\ \A j \in required : jobs[j] = "finished"
          /\ Goto("boundary") /\ UNCHANGED live
  /\ UNCHANGED <<store, ids, selection, inputs, work, served, used>>

\* ExternalWork.Await: the run goes on when jobs had to be waited for.
Await ==
  /\ pc = "await"
  /\ LET required == IF AwaitJobs THEN RequiredJobs ELSE {}
         running == {j \in required : jobs[j] = "running"} IN
       \/ required = {} /\ FinishWith("completed") /\ UNCHANGED live
       \/ required # {} /\ running = {} /\ Goto("boundary") /\ UNCHANGED live
       \/ running # {} /\ cancelled /\ FinishError
  /\ UNCHANGED <<store, ids, selection, inputs, work, served, used>>

-----------------------------------------------------------------------------
(* Tool calls.                                                             *)

Oldest(p) == p \in live.pending /\ \A q \in live.pending : p.call <= q.call

ResultRecord(p, told) ==
  [kind |-> "tool_result", run |-> p.run, call |-> p.call, tells |-> told]

\* A tool may start a job, report the end of one, or do neither.
ToolEffect ==
  \/ /\ tells' = {}
     /\ UNCHANGED jobs
  \/ /\ \E j \in Jobs : jobs[j] = "unused" /\ jobs' = [jobs EXCEPT ![j] = "running"]
     /\ tells' = {}
  \/ /\ \E j \in Jobs : jobs[j] = "finished" /\ tells' = {j}
     /\ UNCHANGED jobs

\* executeToolCalls: the context is checked before a call and after it.
ExecuteTool ==
  /\ pc = "tools"
  /\ \/ /\ live.pending = {}
        /\ Goto("boundary")
        /\ UNCHANGED jobs
     \/ /\ live.pending # {} /\ cancelled
        /\ Goto("settle")
        /\ UNCHANGED jobs
     \/ /\ live.pending # {}
        /\ ToolEffect
        /\ pc' = IF cancelled THEN "settle" ELSE "result"
        /\ UNCHANGED <<run, iterations, limited, status, reply, after, offers,
                       control>>
  /\ UNCHANGED <<store, live, ids, selection, inputs, seen, marked, served,
                 used>>

\* Mutant: the run goes on without the result it could not append.
CommitIfPossible ==
  /\ pc = "result"
  /\ \E p \in live.pending :
       /\ Oldest(p)
       /\ \/ Written(ResultRecord(p, tells)) /\ Goto("resulted")
          \/ AppendFails(ResultRecord(p, tells)) /\ Goto("boundary")
             /\ UNCHANGED live
  /\ UNCHANGED <<ids, selection, inputs, work, served>>

\* commitToolResult
CommitToolResult ==
  /\ pc = "result"
  /\ \E p \in live.pending :
       /\ Oldest(p)
       /\ \/ Written(ResultRecord(p, tells)) /\ Goto("resulted")
          \/ AppendFails(ResultRecord(p, tells)) /\ Leave
  /\ UNCHANGED <<ids, selection, inputs, work, served>>

\* settleCancelledToolCalls: the outcome of what is left is unknown.
SettleCancelled ==
  /\ pc = "settle"
  /\ \/ /\ live.pending = {}
        /\ FinishWith("cancelled")
        /\ UNCHANGED <<store, live, used>>
     \/ \E p \in live.pending :
          /\ Oldest(p)
          /\ \/ Written(ResultRecord(p, {})) /\ Goto("settle")
             \/ AppendFails(ResultRecord(p, {})) /\ Leave
  /\ UNCHANGED <<ids, selection, inputs, work, served>>

\* finalizeToolLimit rejects the calls over the limit, then asks for an answer
\* without tools.
RejectOverLimit ==
  /\ pc = "reject"
  /\ \/ /\ live.pending = {}
        /\ \/ cancelled /\ FinishWith("cancelled")
           \/ ~cancelled /\ Goto("boundary")
        /\ UNCHANGED <<store, live, used>>
     \/ \E p \in live.pending :
          /\ Oldest(p)
          /\ \/ Written(ResultRecord(p, {})) /\ Goto("reject")
             \/ AppendFails(ResultRecord(p, {})) /\ Leave
  /\ UNCHANGED <<ids, selection, inputs, work, served>>

-----------------------------------------------------------------------------
(* The end of a run, and a shell command.                                  *)

FinishRecord(s, observed, detached) ==
  [kind |-> "run_finished", run |-> run, status |-> s,
   observed |-> observed, detached |-> detached]

FinishRun ==
  /\ pc = "finish"
  /\ LET r == FinishRecord(status, TRUE, RunningDetached) IN
       \/ Written(r) /\ Goto("release")
       \/ AppendFails(r) /\ Leave
  /\ UNCHANGED <<ids, selection, inputs, work, served>>

\* Mutant: the end of a run forgets the selection made during it.
ReleaseOnly ==
  /\ pc = "release"
  /\ Unlock("idle")
  /\ UNCHANGED <<store, ids, selection, inputs, work, served, used>>

\* The deferred call of RunInput: a selection made during the turn is applied
\* before another operation can start.
Release ==
  /\ pc = "release"
  /\ \/ /\ op = "run" /\ opened /\ ~HasUnfinishedWork(live)
        /\ StartApplying("idle")
     \/ /\ \/ op # "run" \/ ~opened \/ HasUnfinishedWork(live)
           \/ pendingConfig = {}
        /\ Unlock("idle")
        /\ UNCHANGED selection
  /\ UNCHANGED <<store, ids, inputs, work, served, used>>

\* A user shell command is a run with one call that no model asked for.
ShellCall ==
  /\ pc = "shell_call"
  /\ LET r == [kind |-> "model_response", run |-> run,
               model |-> (CHOOSE s \in live.selection : TRUE).model,
               epoch |-> live.epoch, calls |-> {calls + 1}] IN
       \/ Written(r) /\ Goto("shell_run")
       \/ AppendFails(r) /\ Leave
  /\ calls' = calls + 1
  /\ UNCHANGED <<runs, epochs, selection, inputs, work, served>>

ShellRun ==
  /\ pc = "shell_run"
  /\ Goto("shell_result")
  /\ UNCHANGED <<store, live, ids, selection, inputs, work, served, used>>

ShellResult ==
  /\ pc = "shell_result"
  /\ \E p \in live.pending :
       \/ Written(ResultRecord(p, {})) /\ Goto("shell_finish")
       \/ AppendFails(ResultRecord(p, {})) /\ Leave
  /\ UNCHANGED <<ids, selection, inputs, work, served>>

\* The jobs are not looked at.
ShellFinish ==
  /\ pc = "shell_finish"
  /\ \E s \in IF cancelled THEN {"cancelled"} ELSE {"completed", "failed"} :
       LET r == FinishRecord(s, FALSE, {}) IN
         \/ Written(r) /\ Goto("release")
         \/ AppendFails(r) /\ Leave
  /\ UNCHANGED <<ids, selection, inputs, work, served>>

Cancel ==
  /\ op # "none"
  /\ ~cancelled
  /\ Spend("cancel")
  /\ cancelled' = TRUE
  /\ UNCHANGED <<store, locals, op, opened, pc, live, ids, selection, inputs,
                 work, served>>

\* Nothing is asked of the session.
Rest == pc \in {"idle", "down"} /\ UNCHANGED vars

-----------------------------------------------------------------------------
(* Steps the runtime takes by itself once an operation is under way.       *)

RunStep ==
  \/ Open \/ PrepareSession \/ PrepareModel \/ PrepareConfiguration
  \/ SyncExternalWork \/ RecordRunStarted \/ RecordInput
  \/ Boundary \/ DeliverInput \/ OfferEvents \/ DeliverEvent
  \/ EventCommitted \/ ToolResultCommitted \/ Request \/ AcceptResponse
  \/ Await \/ ExecuteTool \/ CommitToolResult \/ SettleCancelled
  \/ RejectOverLimit \/ FinishRun \/ Release
  \/ ShellCall \/ ShellRun \/ ShellResult \/ ShellFinish
  \/ ApplyModel \/ ApplyConfiguration
  \/ ReconcileCall \/ ReconcileRun \/ Attach

\* What users, jobs and the operating system do.
OutsideStep ==
  \/ Reopen \/ Crash \/ Close
  \/ StartRun \/ StartShell \/ Cancel
  \/ DeferSelection \/ ApplySelection \/ SetScope
  \/ QueueInput \/ TakeInput
  \/ \E job \in Jobs : JobFinishes(job)
  \/ Rest

Next == RunStep \/ OutsideStep

Spec == Init /\ [][Next]_vars

\* A backend answers or gives up and a tool returns (idle timeouts and retry
\* budgets bound the one, the yield of a foreground command the other), and
\* the scheduler runs a goroutine that can run.
FairSpec == Spec /\ WF_vars(RunStep)
=============================================================================
