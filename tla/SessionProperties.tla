-------------------------- MODULE SessionProperties --------------------------
(***************************************************************************)
(* What a session promises, stated about the states and steps of           *)
(* AgentRuntime.                                                           *)
(***************************************************************************)
EXTENDS AgentRuntime, FiniteSets

JournalJobs == {j \in Jobs : Told(j)}

Faultless == used["fault"] = 0

\* Whatever was appended, in whatever order steps, crashes, cancellations and
\* failing writes came, the journal replays: the next process can open it
\* (stateReducer.apply never refuses a record the runtime wrote).
JournalAlwaysReplays == durable.ok /\ live.ok

\* Equal but for the configuration and the endpoint of the selection.
Agree(st, other) ==
  /\ st.session = other.session
  /\ st.epoch = other.epoch
  /\ {s.model : s \in st.selection} = {s.model : s \in other.selection}
  /\ st.runs = other.runs
  /\ st.blocks = other.blocks
  /\ st.pending = other.pending
  /\ st.delivered = other.delivered
  /\ st.detached = other.detached

\* The reducer of a running operation never loses sight of what the journal
\* says, although the scope writes behind its back: only the configuration and
\* with it the endpoint may be newer on disk.  It is what lets Replay and a
\* live run share one transition function.
LiveFollowsJournal ==
  (opened \/ pc = "reconcile") /\ ~failed => Agree(live, durable)

\* A job is acknowledged, and its mailbox dropped, only after the journal
\* tells how it ended: a crash at any point loses no completion.
AcknowledgedIsJournaled ==
  \A job \in Jobs :
    \/ job \in seen \cup marked
    \/ job \in DetachedJobs /\ jobs[job] = "gone"
    => Told(job)

\* The model is never told by a boundary event about a job whose end the
\* journal already tells, by an event or by the result of a tool, even if the
\* process died between the record and its acknowledgement.
NoStaleAnnouncement ==
  \A i, k \in DOMAIN journal :
    /\ i < k
    /\ journal[k].kind = "boundary_event"
    => \A job \in journal[k].tells : ~ReportsEndOf(journal[i], job)

\* In a session that awaits its jobs, a run that is about to complete below the
\* tool limit has told the model how every foreground command ended.
CompletedRunJoinedItsJobs ==
  pc = "finish" /\ status = "completed" /\ AwaitJobs /\ ~limited =>
    \A job \in LocalJobs : jobs[job] \in {"running", "finished"} => Told(job)

\* The records of input that was queued.
Deliveries ==
  {i \in DOMAIN journal : journal[i].kind = "run_input_added" /\ journal[i].input # 0}

DeliveredInputs == {journal[i].input : i \in Deliveries}

QueuedInputs == {queue[i] : i \in DOMAIN queue}

\* An input the user queued is in the queue, in the journal or back with the
\* user, and in no two of them; the journal has them in the order they were
\* queued.  A write reported as failed may still have left its record.
QueuedInputKept ==
  /\ 1 .. submitted = QueuedInputs \cup DeliveredInputs \cup taken
  /\ QueuedInputs \cap taken = {}
  /\ Faultless => DeliveredInputs \cap (QueuedInputs \cup taken) = {}
  /\ \A i, k \in Deliveries : i < k => journal[i].input < journal[k].input

\* From the request to the last result of its calls, the journal names the
\* model, the endpoint, the tools and the scope in force, although the scope is
\* recorded by another goroutine and a selection may be waiting (the comments
\* on runtimeConfiguration and on SetScopeSnapshot).
RequestIsDescribed ==
  pc \in {"request", "accept", "tools", "result"} /\ ~failed =>
    /\ durable.selection = {config.info}
    /\ durable.configured = {SnapshotOf(config, scope)}

\* Replay state a provider issued for an epoch is only ever sent back to the
\* model and the endpoint that issued it: all responses of an epoch come from
\* one model at one endpoint (ReplayContext.ForModel).
EpochHasOneSource ==
  \A s, t \in served : s.epoch = t.epoch => s.info = t.info

\* The same for sessions whose scope nobody tries to change; a change of scope
\* before the first prompt of a resumed session breaks it, and so does one that
\* was reported as failed but left its record.
EpochFollowsSelection == used["scope"] = 0 => EpochHasOneSource

\* Between operations the runtime uses, or is about to use, what the user was
\* last told is selected: a deferred change is not lost to another one, to a
\* failed record or to the end of the run.
SelectionNeverLost == ProcessUp => Selected = wanted

\* A selection deferred by a turn is applied before another operation can
\* start, unless the session needs a restart or the run never read the journal.
PendingSelectionSettles ==
  pc = "idle" /\ pendingConfig # {} =>
    \/ HasUnfinishedWork(durable)
    \/ ~Faultless
    \/ used["cancel"] > 0

\* A selection reaches the next operation, whatever it had to wait for.
SelectionKept == SelectionNeverLost /\ PendingSelectionSettles

\* Nothing but a failed write or a cancellation leaves work that only a restart
\* can settle.
IdleIsSettled ==
  pc = "idle" /\ Faultless /\ used["cancel"] = 0 => ~HasUnfinishedWork(durable)

\* At most one run is unfinished at any time, and all open calls are its own:
\* reconciliation has one run to interrupt.
OneUnfinishedRun ==
  /\ \A r, q \in durable.runs : r = q
  /\ \A p \in durable.pending : p.run \in durable.runs

\* Runs and calls the journal tells of.
Began ==
  {journal[i].run : i \in {k \in DOMAIN journal : journal[k].kind = "run_started"}}

Asked ==
  UNION {journal[i].calls :
           i \in {k \in DOMAIN journal : journal[k].kind = "model_response"}}

Log == INSTANCE SessionLog WITH
  began <- Began,
  active <- durable.runs,
  asked <- Asked,
  open <- {p.call : p \in durable.pending},
  told <- JournalJobs

\* The journal keeps the promises of SessionLog: runs one after the other, calls
\* answered once and before the end of their run, no identifier reused by a
\* later process, no announcement of what is known.
ImplementsLog == Log!LogSpec

\* An operation the user cancelled returns, even if no job it waits for ever
\* ends.
CancelReturns == cancelled ~> ~cancelled

\* Foreground commands end, which the code does not promise.
JobsEnd == \A job \in LocalJobs : WF_vars(JobFinishes(job))

\* Every operation returns when foreground commands end, and a cancelled one
\* returns even if they do not.
OperationsReturn ==
  /\ CancelReturns
  /\ JobsEnd => (op # "none" ~> op = "none")
=============================================================================
