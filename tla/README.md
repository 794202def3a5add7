# Session verification

TLA+ specifications of skot, a coding agent that runs in a terminal: what a
session's journal says, how the runtime writes it, how the work that goes on
outside of a run (jobs, child agents, queued input, changes of the model and of
the filesystem scope) meets it, and the parts of the program around that core that
have states worth checking. TLC checks small instances of all of it; TLAPS proves
the safety of the core for instances of every size.

Paths below are relative to the repository.

## The system

A session is an append-only journal of records. Everything a later process knows
of a session it learns by folding that journal. A **run** starts with a user
input, alternates model requests and tool calls, and ends with a record of its
status. Tools may start **jobs** that outlive the tool call (foreground commands
that yielded, and detached jobs that outlive even the process) and **children**,
agents with journals of their own.

| Component | Source | State it keeps | Operations | |
|---|---|---|---|---|
| Journal reducer | `agent/reducer.go`, `agent/replay.go` | the `State` folded from the journal | `apply`, one case per record kind; `Reconcile` | partly |
| Agent runtime | `agent/runtime.go`, `tool_execution.go`, `shell.go`, `queue.go` | `runMu` and the locals of the operation that holds it; pending inputs | runs, shell commands, cancellation, queueing, the calls of a response, the attempts of a request | partly |
| Runtime configuration | `agent/reconfiguration.go`, `configuration.go` | current and pending model and tools, scope | `SwitchModel`, `SetTools`, `SetScopeSnapshot` | modelled |
| Replay context | `model/context.go` | the epoch provider items belong to | `ForModel` | partly |
| Context maintenance | `agent/compaction.go`, `pruning.go`, `context.go` | boundaries of what is kept | prune, compact, summarise | modelled |
| Run input and instructions | `agent/input.go`, `input_context.go`, ... | input that is queued, the instructions it brings | prepare, deliver, outlast compaction | partly |
| Session store | `internal/session/store.go`, `inspect.go`, `delete.go` | the journal file, its lock, `failed` | open, repair, append, inspect, close, delete | modelled |
| Session catalogue | `internal/session/catalog.go` | nothing of its own | resolve, delete, list | partly |
| Job boundary | `app/external_work.go`, `tools/process.go`, `process_supervised.go` | jobs, `completionSeen`, `delivered` | pending events, acknowledgement, join, adoption | partly |
| Supervised job worker | `tools/job_worker.go`, `job_protocol.go`, `session_jobs.go`, ... | a directory per job: metadata, FIFO, result, marker | start, adopt, watch, stop, acknowledge, clean up, delete | partly |
| Child agents | `app/child_agents.go` | children, their runs and mailbox | start, send, check, stop, restore, acknowledge, close | partly |
| Application lifecycle | `app/application.go`, `open.go`, `session.go` | the open session and its resources | open, switch, clear, close, sign in, paths | partly |
| Session notifications | `internal/sessionnotify` | nodes and leases, a watcher's pending set | publish, register, collect, watch, reconnect | modelled |
| State and credential files | `internal/state`, `internal/codexauth` | locked files, tokens | read, change, replace, refresh, log in | modelled |
| Model transports | `model/transport`, the four adapters | a stream and its timers; an answer being read | read, drain, close, assemble, replay | partly |
| File, patch and program tools | `tools/files.go`, `diff.go`, ... | files, beside other writers | edit, write, the shown difference | partly |
| Sandbox and filesystem policy | `tools/filesystem_policy.go`, `protected_paths.go`, `app/filesystem_paths.go`, ... | layers of paths | add, remove, protect, grant | partly |
| File search | `internal/filesearch` | rules on the way of a walk | match, expand, walk, scan a file | partly |
| Skills, web, images, decisions | `skills`, `app/skills.go` | captured skills | select, capture, authorise, clear | partly |
| Terminal interface | `internal/ui` | screen, transcript, rows on the terminal | keys, messages, rendering, logins, progress | partly |
| Model configuration and providers | `internal/modelconfig`, `provider` | none | name resolution | not modelled |
| Command line | `main.go` | none | flags, exit codes | not modelled |

`PROJECT.json` says of each what is left out. The last two are pure functions of
their inputs and wiring.

How they interact:

- an operation reads the journal, folds it, and from then on appends a record and
  folds the same record (`appendRecordAndApply`); nothing else keeps the two
  views together;
- `SetScopeSnapshot` appends from another goroutine, under `configMu` only;
- jobs and children end at any time; a run looks at them at its boundaries, in the
  results of tools, when it joins them and when it ends;
- a completion is acknowledged after the record that tells of it, so that a crash
  in between offers it again;
- opening a session replays its journal, closes what a dead process left open
  (`Reconcile`), adopts its detached jobs (`AttachSession`) and loads its children;
- processes share a home: journals and credentials under locks, jobs by their
  directories, and a socket per process that names the sessions it changes.

What is hard, and what correctness means for it:

- *Crashes between two records.* Whatever was appended must replay; calls without
  a result and runs without an end must be closed exactly once.
- *Writes that fail without telling how far they got.* The record may be complete
  in the file. The store refuses all further use; memory may lag the journal by
  one record, never by two.
- *Events and acknowledgements.* No completion is lost, none is announced that the
  journal already tells.
- *Writers that do not hold `runMu`.* What the journal says of a request must be
  what the request used.
- *Deferred changes.* A selection made during a turn is neither lost nor
  overwritten by an older one; an epoch never mixes two endpoints.
- *Processes that share only files.* Workers, managers, deletions and watchers may
  each die between any two accesses; a job must end once, in the way its worker
  says, no file may go while somebody needs it, and a change must be heard of.
- *Timers and cancellation.* A drain, a deadline, a stop or a closed stream races
  the answer it is about; whoever waits must come back.
- *Caches of what is shown.* The transcript keeps rows, the renderer knows the
  terminal by differences only; a change must reach every row that shows it.

## Modules

The core:

| Module | What it is |
|---|---|
| `SessionReducer` | `agent/reducer.go`: records, the state, one operator per record kind, `Apply`. No variables. |
| `AgentRuntime` | The state machine: runtime, store, configuration, queue, job boundary, process life. |
| `SessionProperties` | Its invariants, action properties, liveness and refinement mapping. |
| `SessionLog` | Abstract specification: what a journal promises to its reader. |
| `MCAgentRuntime` | Budgets for TLC. |
| `SupervisedJob` | A job, its worker, the skot processes around it and the deletion of its session. |
| `JobProperties` | Its invariants, action properties, liveness, and the mapping to `JobPromise`. |
| `JobPromise` | Abstract specification: a job ends once, in one way, and that is told first. |
| `MCSupervisedJob` | The symmetry of processes for TLC. |
| `ChildAgents`, `ChildProperties` | The children of a session, their goroutines, the parent's thread, restarts. |
| `SessionNotify`, `NotifyProperties` | Nodes, leases, the watcher of a home. |

The parts around it. Each has one variable, its own properties at its end, and is
composed by `Parts`:

| Module | What it models |
|---|---|
| `ToolBatch` | the tool calls of one response: groups, slots, goroutines, commits in order, cancellation |
| `ModelRequest` | attempts, delays, the deadline, shrinking, the control without images |
| `ContextMaintenance` | pruning, planning, summary and commit around a model's window |
| `SessionStore` | the journal file between processes that may die |
| `Credentials`, `Preferences` | the shared documents of a home: rotating tokens, logins, model history |
| `ProcessJobs` | commands a process runs itself: monitor, process group, caller, stop, close |
| `EventStream` | the reader of a model's stream beside its timers, its context and `Close` |
| `Completions` | what an adapter makes of a stream, event by event, for four protocols |
| `ProviderHistory` | what a request replays of a conversation across models |
| `Skills` | capture, replay, compaction and authority of skills |
| `Screen`, `SignIn` | the event loop of the terminal with turns, sessions and scope changes; logins and model selection |
| `Transcript`, `Renderer`, `AnswerStream` | the blocks and rows of a turn, the terminal they are drawn on, the progress of a one-shot run |
| `FilesystemPolicy` | layers of paths and what processes and tools may touch |
| `FileTools`, `FileDiff` | edit and write beside other writers; the difference that is shown |
| `Globs`, `GlobMatch` | the glob matcher and brace expansion; the definition of a match they are compared with |
| `FileSearch`, `TextScan` | a walk with ignore files and a glob; the reading of one file |
| `ConcurrentParts`, `Parts` | these parts side by side; `ConcurrentParts` holds those about which theorems are proved |

The proofs:

| Module | What it proves |
|---|---|
| `AgentRuntimeProofs` | Lemmas about the reducer's `Apply`: types, which records fit a state, what a record that fits changes. Type correctness of the runtime, one lemma per action; the inductive invariant `Consistent`; five theorems. |
| `SessionProofs` | The announcements (`Acknowledged`, `Announcing`); the promises to the user (selection, description, epochs, input, settling, joining) and the refinement of `SessionLog`. |
| `SupervisedJobProofs` | The safety of a job and the refinement of `JobPromise`. |
| `ChildProofs` | What the supervisor of child agents owes to the parent session: bounds, nothing lost, nothing undone. |
| `NotifyProofs` | What the watcher of a home owes its caller: registrations are kept, no change is lost. |
| `ConcurrentPartsProofs` | The journal file between processes, the commands of a process, the stream of an answer: an invariant of each. |
| `RunPartsProofs` | The tool calls of a response, a request under retries, the credentials of a home: an invariant of each. |
| `PartsProofs` | What these invariants imply of `Parts`. |


### How the model of a session corresponds to the code

`pc` is the next step of the operation that holds `runMu`, `op` says which kind it
is. Every step that appends a record, checks the context, takes a lock or looks at
the jobs is an action of its own; between any two of them the outside world may
act. `live` is the `stateReducer` of the operation, `durable` what
`reduceRecords` would return for the journal. Both are computed by the same
operator `Apply`, as in the code.

`Written(r)` is `appendRecordAndApply` when it succeeds. `AppendFails(r)` is
`Store.Append` when it returns an error: the context is done, the store failed
before, the record is refused before anything is written, or the write fails, in
which case the record is in the file or it is not. Appends that run under
`context.WithoutCancel` are listed in `Uncancellable`.

A run goes through `open` (read and fold the journal), `session`, `select`,
`configure` (the records that precede a run), `sync`
(`syncExternalWorkCommits`), `start`, `input`, and then the loop: `boundary`
(apply a deferred selection), `queue`, `offer`, `deliver`, `told` (queued input
and job events), `request`, `accept`, and `await`, `tools`, `result`, `resulted`,
`reject`, `settle` or `finish`. `release` is the deferred call of `RunInput`,
which applies a selection that was made too late for a boundary. A shell command
has its own steps from `shell_call` on. `apply_select` and `apply_configure` are
the two halves of `applyConfigurationLocked`, from a boundary, from `release` or
from an idle session (`op = "configure"`). `reconcile` is the opening of a
session, `down` means that no process has it.

Abstractions, each of which limits what the checks and the proofs say:

- Identifiers the code draws at random are fresh natural numbers; the sequence
  number of a record is its position.
- Texts, usage, time, images and the contents of tool results are left out; a
  result keeps only which jobs it tells of.
- A model is a name and an endpoint, a configuration a model, an endpoint, a set
  of tools and a scope.
- The context always fits (`ContextMaintenance` has the rest). A request is one
  attempt (`ModelRequest`). A group of parallel-safe calls commits in call order
  like serial calls (`ToolBatch`). Records that do not take part in the properties
  (attempts, usage) are left out.
- The detached jobs a `run_finished` record lists are observed with its append.
- The look at the context between a reply and its record (`runtime.go:484`) is not a step
  of its own: what it does is done by a cancellation before the reply.
- A job ends by finishing, in memory or beyond a crash; how a worker and its files
  bring that about, and what happens when they die, is `SupervisedJob`, and what a
  process does with a command of its own is `ProcessJobs`.
- The journal checker `ok` is sticky: a refused record makes the session
  unopenable, as `reduceRecords` returns an error.

`wanted`, `served` and `taken` are history variables: what the user was last told
is selected, which endpoint an epoch was used with, and which inputs went back to
the user. `used` counts what the outside world did; a step that may or may not
happen because of it counts when it is tried.

### A supervised job

`SupervisedJob` has one job; jobs share nothing but a parent directory. `dir` and
`files` are what is on disk, `worker`, `payload` and `outcome` the worker, `at` the
next step of the two threads of each skot process that touch the job: the one that
runs tools and boundaries (`"tool"`), and the one that leaves a session or the
process (`"closer"`). `view`, `watch`, `pinned` and `seen` are the fields of
`processJob`. Every access to the disk and every question to the kernel is a step
of its own:

| Code | Steps |
|---|---|
| `AttachSession`, `loadSupervisedJob`, `observeSupervisedJobState` | `Attach`, `SettleRead`, `SettleProbe`, `SettleReread`, `Unmark` (a job marked delivered), `AdoptRead`, `AdoptProbe`, `AdoptReread` |
| `startSupervised` | `Launch`, `Describe`, `Pipe`, `Fork`, `HandOff`, `Register`, `AwaitRefused`; `Purge` after a failure |
| `awaitOwnedWorker`, `monitorAdoptedJob`, `refreshSupervisedJob` | `Observe`, `Missed`, `Derive` |
| `stop` | `StopWrite`, `StopRefresh`, `StopProbe`, `StopReread`, `StopWait` |
| tool results, boundary events, `MarkCompletionDelivered` | `ShowJob`, `Call`, `Report`, `Announce`, `Sync`, `Ack` |
| `Close`, `CloseSession`, `removeSettledJobState` | `BeginExit`, `BeginSwitch`, `Settle`, `Purge`, `Exit`, `Switch` |
| `runJobWorker` | the actions whose names begin with `Worker`, and `PayloadExits` |
| `DeleteSession`, `RemoveSessionJobs` | `EraserStep` |

The FIFO is what the kernel makes of it: an open of the write side finds a reader
while the manager still launches (`lease`) or the worker lives, and otherwise says
that there is none (`Dead`); without the name neither is known. `stop` is the byte
in the FIFO or in the channel behind it, lost with the worker. A removal
takes the files one by one in any order, so a crash may leave any part of a
directory. `told` is what the journal says of the end, in order and without
repetitions; `holder` has the lock of the journal.

Left out: files and FIFOs that somebody replaces, a full FIFO, a control descriptor
that cannot be closed, the logs, and reads other than the last one that fail. A
worker that kills its command counts it as exited; processes it cannot kill or does
not wait for are not part of `payload`. `kind` separates a background job that ends
with skot, a detached one, and a detached program whose call is waited for.

### Child agents and notifications

`ChildAgents` has the supervisor of one parent session. `child[c]` is the
`childAgent` with the goroutine of its last run (`work`), `store[c]` what is on disk,
`group` the children that can be addressed, `call` what the parent's thread does.
`supervisor.mu` is held across steps only by a launch (`MuFree`); every other critical
section is one step. The parent's journal is `told`, `settled` (results) and
`announced` (boundary events). Closing and switching happen with no run of the parent, since
the interface defers them. Left out: a child's model, tools and usage, the scope that is
handed on, and the child's own run, which is `AgentRuntime`.

`SessionNotify` has nodes (one per process that works on sessions), leases (one per
operation on a session), and one watcher. A frame is written and read in one step; it waits in
the node's queue before. Locking a journal and announcing that it is owned (`Own`) are one
step; an operation whose node cannot be made (`publisher.go:71`) announces nothing and is left out. The callback reads the sessions when it is called. `gone` is a
lease whose changes the watcher cannot hear of: it was released before the watcher
followed its node, the case of the finding `unannounced`, which `ChangeIsAnnounced` leaves out.

### The parts

The initial state of `Parts` chooses one part, so that the states of the run are the
sum of the parts' and not their product. That is sound since they share no state
while they work: each has its own inputs, and what it takes from another (a journal, a
file, a context that is cancelled) is its own environment, which may do all that the
other can. Fair actions and goals of the parts are stated together, slot by slot,
because only one part is at work. What each leaves out:

- `ToolBatch`, `ModelRequest`: what a tool does; a backend is an answer, an error of
  a kind, or silence.
- `ContextMaintenance`: sizes stand for token counts, on a small scale; a model
  without a window is not modelled. That shrinking ends is an action property (each step makes the
  request smaller), not liveness.
- `SessionStore`: `RemoveAll` is external; a deletion starts only once the journal
  existed. A crash of the machine (data that was not synced) and the store in memory are left out.
- `Credentials`: the server hands out a new refresh token once; encryption is
  left out. `Preferences`: documents the user edited by hand are included.
- `ProcessJobs`: `stuck` are processes that cannot be killed, and only for them do the three
  seconds of a stop pass; that closing allows all its stops five seconds together
  (`process.go:1241`) is not counted. The run is one that waits for its jobs, as without a
  terminal (`AwaitRequiredJobs`, `open.go:277`). After the time limit fires
  the monitor waits for the leader only, so a process that joins the group during the last
  signal may survive; `EndsTruly` excepts that.
- `EventStream`: names of events are left out; the server may send for ever.
- `Completions`: an event is sent and handled in one step; reasoning and phases are left out.
  What one Google chunk may say together (parts, a finish reason, a reason to block) comes in
  chunks of their own. Servers that leave out the indexes send their calls one after another;
  an incomplete end without output follows the items it would have named, and a report of
  Messages that names no reason to stop does not count as one of the end.
- `ProviderHistory`: images, instructions, the summary and the list of tools are left out.
- `Skills`: one skill per input; scanning of `$name`, manifests and size limits are data.
- `Screen`: ticks, drawing, quotas, and pickers without effect on a session are left out. A turn
  that nobody cancels may go on for ever. The message that resumes a session is handled whatever
  a key has started since (`overtaken` names that work): the finding `overtaken`.
- `SignIn`: effort, overrides by the environment and other processes are left out.
- `Transcript`: one turn on one width, short texts, no process output or durations. The number in
  a summary may be of an earlier time (`late`: a file changed by a folded call, or the rest of a
  summary joined to it when what stood between them went); the rows themselves may not.
- `Renderer`: texts are as wide as the screen, and a change of the width is one of the height. The size
  changes once: a terminal that is changed and changed back between two frames is not noticed. The
  interactive program is told it by a message and draws with the old one before (`screen`); what is drawn
  so, or moved into from a frame of another size, is not followed until the terminal is cleared (`stale`).
- `AnswerStream`: folding is left out; after a refusal, held text may appear below a later note.
- `FilesystemPolicy`: what the kernel enforces once it was told, macOS and home expansion are left
  out. With two remembered directories vanished neither can be removed before a restart.
- `FileTools`: the tools that read and search, and size limits are left out. The check of the scope,
  the look at a file and its reading for an edit are one step; a change between the last look
  and the rename (`raced`), or a parent swapped after its check (`swapped`), is excepted: the
  code cannot see it.
- `Globs`: an element of a pattern is the set of what it matches. `FileSearch`: three names, two
  ignore files, one pattern at a time where more is not at stake. `FileDiff`: lines of two
  texts, small limits for the search. `TextScan`: bytes of a few kinds.

## What TLC checks

| Run | Bounds | Question |
|---|---|---|
| `log` | a detached job, 2 runs, 2 tool iterations, 2 processes, 1 failing write | does the journal replay, is what is acknowledged journaled, is a completion announced that the journal tells, is `SessionLog` implemented? |
| `config` | 2 endpoints, 2 scopes, 2 calls per response, and either 2 selections, 1 scope change, 1 run, 2 processes, 1 failing write; or 2 inputs, 1 taken back, a run, 1 cancellation, with two of: a shell command, a second process, a failing write | is input lost or duplicated, is work left unfinished, are two runs unfinished at once? Is a selection lost, does an epoch mix endpoints, does the journal describe every request, does the reducer follow it? |
| `returns` | a foreground and a detached job, a run, a shell command, an input, a selection, 1 failing write, 1 cancellation | does a cancelled operation return, and every other one when foreground jobs end? Has a completed run joined them? |
| `collect` | 2 managers, 3 openings | is a result mistaken, lost or removed too early; is `JobPromise` implemented? |
| `learns` | 1 manager, 2 openings, 1 failing read, 1 deletion | is the end learned, a stop heard, a leave finished; is a job deleted under its command? |
| `children` | 2 children, 1 active, 2 runs each, 2 prompts in all, 1 restart | is a run lost, told twice or without its outcome, a stopped child started again, a wake-up lost? |
| `notify` | 2 sessions, 2 nodes, 2 leases, queues of 1, 1 dial, 1 write, 1 fault | is every change heard of; does a live node keep its registration? |
| `parts` | below | the properties of the parts |
| `endpoint`, `interrupted`, `unannounced`, `overtaken` | the smallest bounds that show it | findings, below |

A budget (`MCAgentRuntime`) says how often each outside event may happen; `open` counts processes, so
two allow a crash or a close with a restart. A run has a set of budgets, and a behaviour stays within
one of them. Endpoints and scopes of `config` are symmetric: nothing prefers one to another, and all its properties
are invariants. Everything the runtime does by itself is
unbounded but for `MaxToolIterations` (a setting of the program) and
`MaxCallsPerResponse`. `MaxOpens` bounds how often the session of a job is opened,
`MaxFaults` the failing reads, `MaxDeletions` the deletions; workers, timeouts, stops and
crashes are unbounded. `MaxPrompts` and `MaxRestarts` bound the children's runs and the
openings of the session, `MaxWrites` and `MaxFaults` the changes and the faults
among nodes.

Why they are enough. No action of the runtime compares more than two jobs, two
selections or two records; the interesting orders need one restart (a process and the one
that replays it), one fault (after it the store refuses all use until a restart)
and two runs (one that leaves something behind and one that finds it). Two tool
iterations are needed for a result of one iteration to be known at the boundary of
the next, which `log` has. Three openings let a process start a job and leave, a second
collect it and remove it, and the first come back; two processes are all that can
disagree, since the lock of the journal admits one at a time and the other only watches. In
`collect` no read fails and nothing is deleted: `awaitOwnedWorker` and
`monitorAdoptedJob` take a job for abandoned when their last read of its result
fails, so that `AbandonedIsLost` and `JobPromise` hold only while reads succeed, and a deletion is
meant to remove what is not told. `learns` has both. Two children are one that runs and one
that would exceed the limit; a queue of one overflows with the second name. For all of
these the proofs remove the bounds.

Deadlock is checked for the runtime and the jobs: a session may always rest (`Rest`)
when it is idle or closed, so a state in which an operation is under way and nothing can happen is an
error. `children`, `notify` and `parts` really stop when all that was asked for is done.

The bounds of the parts (`MCParts.cfg`), and the larger ones that were explored once
without a violation: four calls with two slots; two attempts and a budget of three ticks; a context of
eight units and eight records; two processes, three inodes and three writes for the journal;
two processes, three tokens, a login, a change and a fault for credentials (larger
once); three models, a history of two, three saves; one command with one stray process
(two commands once, 1.2 million states); streams with limits of one or two ticks; answers of
two calls and two texts of two pieces; two answers, selections and inputs for a
conversation; three keys (four once), a queued input, an event and three sessions for the screen; three requests and
two logins (four requests once) for signing in; two path changes, a move and a
start, three of these in all; two calls and one trouble for the tools (every pair of
troubles once); patterns of three elements on paths of four, five characters of braces;
two rules per tree; two rows each of transcript and editor on screens of two and three
rows, one resize; two extra events per turn, a job that goes on being one (three besides it
once, 1.7 million states); two pieces, two blocks and two refusals; five old and three new lines; five bytes behind a buffer of two; three
selections of skills, two upsets, four interventions in all (more once). They are
the least that let what the properties speak of happen twice, or once on either side of what
separates it: a buffer, a slot, a window, a screen.

### Fairness

`FairSpec` of the runtime asks for weak fairness of `RunStep`, the steps of the operation: the
scheduler runs a goroutine that can run, a backend answers or gives up (idle
timeouts and retry budgets, `agent/runtime.go` and `internal/modelhttp`), a tool
returns (a foreground command yields after a bounded time). Nothing is asked of
users, crashes, writes or jobs. The second half of `OperationsReturn` has the hypothesis
`JobsEnd`, that foreground commands end, which the code does not promise and a run that awaits them
needs; its first half, `CancelReturns`, does without it.

`FairSpec` of `SupervisedJob` asks for weak fairness of the worker (it starts, hears
a stop, writes what it has and exits), and for each process of the thread that runs
a started operation, of the one that leaves, and of the watcher, which are
goroutines that wait on timers. Nothing is asked of commands, timeouts, crashes,
calls, users or the choice to open a session again. `LeavingEnds` excepts a process
whose tool thread waits in a call, which the interface cancels first.

`ChildAgents` asks for weak fairness of each child's goroutine (its requests time out, its
tool calls are limited) and of the parent's thread.

`Parts`: the steps of an operation, of a reader and of a clock are weakly fair, as are tools
that were cancelled. A kill is strongly fair: the monitor sends it again and again to a process that
may be joined by others. On the screen, workers and messages are fair, and a turn
ends when it is cancelled; nothing is asked of users or of turns nobody cancelled.

### Findings

Four runs are expected to find a violation; each is one sentence of a comment
that the code does not keep.

- `endpoint`: `SetScopeSnapshot` describes the model in memory, and between the resumption of a session with another model or endpoint and its
  first prompt that is not the model the journal selects. The record moves the
  journal's selection to the new endpoint without a new epoch, and replay state of the
  old endpoint is sent to the new one.
- `interrupted`: a deletion that stops half way through a job directory leaves one
  that its own checks refuse from then on, so the session can never be deleted.
- `unannounced`: a node that opens and releases a session before the watcher has
  connected to it publishes to nobody, and its first frame names only what it owns by then. The
  session stays shown as locked until the node ends.
- `overtaken`: a session is asked for while nothing is at work, and resumed by a message. A key
  the event loop takes in between starts a turn, a command or a scope change, and neither the message's
  case nor `resumeSession` looks again: the session is replaced under it. Under a scope change
  the new session then starts from the old scope while tools obey the new one; beside
  a session that is being cleared, two are installed and one journal stays open. `PolicyAgrees` and
  `SessionsOwn` in `Screen` except just these two; `ClearedQuietly` says of `/clear` and
  of leaving what `ReplacedQuietly` says of every replacement, and holds.

The properties in `SessionProperties` are stated with the conditions under which
the code keeps them: `RequestIsDescribed` from the first prompt on,
`EpochFollowsSelection` while nobody tries to change the scope, `IdleIsSettled` without a
failed write or a cancellation, `CompletedRunJoinedItsJobs` below the limit of tool iterations.
A cancellation where an append looks at it leaves the run unfinished until a restart closes it, and a run
that reaches the limit completes without its foreground jobs; both are what the code does, and no
document of the repository says otherwise.

## What is proved

The theorems below hold for every set of models, endpoints, tools, scopes, jobs,
processes, children and nodes, and for every limit and budget: `RuntimeAssumption`,
`JobAssumption`, `ChildAssumption`, `NotifyAssumption`, `BatchAssumption`,
`StoreAssumption` and `StreamAssumption` give the constants their types, keep the
names of "nobody" out of the sets of somebodies, and say that a home holds finitely
many sessions, nothing else. About credentials and requests nothing is assumed.

| Module | Theorem | What it establishes |
|---|---|---|
| `AgentRuntimeProofs` | `SpecTypeOK` | Every variable keeps its type in every reachable state; each appended record is one of the nine kinds the reducer knows. |
| `AgentRuntimeProofs` | `SpecConsistent` | The inductive invariant: for every step an operation may be about to take, what its reducer and the journal look like, so that the record it appends fits. |
| `AgentRuntimeProofs` | `SpecJournalAlwaysReplays` | No interleaving of runs, shell commands, selections, scope changes, crashes, cancellations and failing writes leaves a journal that the next process refuses to replay. |
| `AgentRuntimeProofs` | `SpecLiveFollowsJournal` | Unless a write failed, the reducer of a running operation agrees with the journal on everything but the configuration, although the scope is appended by another goroutine. |
| `AgentRuntimeProofs` | `SpecOneUnfinishedRun` | At most one run is unfinished and every open call belongs to it, so that a restart has one run to interrupt. |
| `SessionProofs` | `SpecAcknowledgedIsJournaled` | A completion is acknowledged, and the durable state of its job dropped, only after the journal tells how the job ended. |
| `SessionProofs` | `SpecNoStaleAnnouncement` | No boundary event reports a job whose end an earlier event or tool result reports, across crashes between a record and its acknowledgement. |
| `SupervisedJobProofs` | `SpecTypeOK` | Every variable of the supervised job keeps its type, for every number of skot processes and every bound. |
| `SupervisedJobProofs` | `SpecConsistent` | The inductive invariant: for each step of each thread of each process, the worker and the eraser, what the job's directory, lease, mailbox, reports and the journal look like then. |
| `SupervisedJobProofs` | `SpecRemovedAfterWork` | Nobody who cleans up after a failed start, leaves or opens a session removes a directory while the worker may still write to it, whatever crashes, refused starts, adoptions and deletions come between. |
| `SupervisedJobProofs` | `SpecDeletedAfterCommand` | Deleting a session removes a job only when its command has exited and nothing reads its FIFO. |
| `SupervisedJobProofs` | `SpecMarkedIsTold` | The marker that allows the removal of a job is set only when the journal tells of its end and its worker has nothing more to say, deletions of the session included. |
| `SupervisedJobProofs` | `SpecCompletionKept` | As long as nobody deletes the session, the result of a job stays on disk until the journal tells of it, and its delivery is marked only then: no crash between the two loses a completion. |
| `SupervisedJobProofs` | `SpecAbandonedIsLost` | As long as no look at the result fails and nobody deletes the session, a job a manager takes for abandoned has neither a worker nor a result. |
| `SupervisedJobProofs` | `SpecExitStopsPlainJobs` | A process that exits cleanly leaves no job behind that was to end with it, unless a stop it sent is still queued (an action property). |
| `SupervisedJobProofs` | `SpecImplementsPromise` | The refinement of JobPromise: as long as no look at the result fails and nobody deletes the session, a job ends once, in one way, and the journal first tells that way. |
| `SessionProofs` | `SpecImplementsLog` | The refinement of SessionLog: whatever processes, crashes and failing writes a session went through, its journal holds runs one after the other, answers every call once and before the end of its run, names no run or call twice, and announces no job whose end it tells. |
| `SessionProofs` | `SpecQueuedInputKept` | However deliveries, withdrawals, cancellations, failing writes and crashes fall, an input the user queued is in the queue, in the journal or back with the user, in no two of them unless a write was reported as failed, and the journal has the inputs in their order. |
| `SessionProofs` | `SpecSelectionKept` | Whatever selections, runs and failing records overlap, the runtime uses or is about to use what the user was last told is selected, and a deferred selection is applied before another operation can start. |
| `SessionProofs` | `SpecIdleIsSettled` | Without a failed write or a cancellation, no operation leaves an unfinished run or an open call in the journal. |
| `SessionProofs` | `SpecCompletedRunJoinedItsJobs` | A run about to complete below the tool limit, in a session that awaits its jobs, has told the model of every foreground command that ended, whatever scope changes and job endings come between the wait and the end. |
| `SessionProofs` | `SpecRequestIsDescribed` | From a request to the last result of its calls the journal names the model, the endpoint, the tools and the scope in force, although the scope is recorded by another goroutine. |
| `SessionProofs` | `SpecEpochFollowsSelection` | All responses of an epoch come from one model at one endpoint, in sessions whose scope nobody tries to change: replay state is never sent to another provider. |
| `ChildProofs` | `SpecConsistent` | The inductive invariant of the supervisor: what a child looks like in memory and on disk at each step of the parent's thread, and which of its runs the parent's journal can have told. The three theorems below follow from it and from its steps. |
| `ChildProofs` | `SpecWithinBounds` | However launches, stops, failures, switches and restarts follow each other, no more children are active than the limit allows, and every value keeps its type. |
| `ChildProofs` | `SpecParentIsTold` | A run is taken off the mailbox only if the parent's journal tells of it, every run of a child that can be addressed is in memory unless that child's journal failed, a run told without its outcome belongs to a stopped child, and every child the parent knows of is a directory the next process loads. |
| `ChildProofs` | `SpecPastIsFinal` | No step tells the parent of an end twice, starts a run in a child whose directory says it was stopped, or leaves a session while a run of it has no end on disk, unless the child's journal failed. |
| `NotifyProofs` | `SpecConsistent` | The inductive invariant of the nodes and the watcher of a home: how far each operation's node and lock let it be, what the watcher's loop and connections presuppose of a node, and, for every session that has changed, which link between its owner and the callback holds the news. |
| `NotifyProofs` | `SpecRegistrationsKept` | However processes register, collect, close and die, nobody takes the registration of a live node away, and no queue holds more names than it may. |
| `NotifyProofs` | `SpecChangeIsAnnounced` | A session that changed since the callback read it is one the callback will be called with, over queues and file events that overflow, streams that break and nodes that die, unless its owner let go of it where no watcher had heard of it. |
| `PartsProofs` | `SpecStoreIsSound` | Whatever processes create, open, repair, write, read, delete and drop a session's journal, and wherever they die, what is open for writing is at the path and the lines that were acknowledged are read in their order. |
| `PartsProofs` | `SpecJobsAreSound` | However the goroutines of a command, its callers, its stoppers, its deadline and the close of its manager interleave, its end is reported truly and once, and a run that ended has joined what it had to. |
| `PartsProofs` | `SpecStreamIsSound` | However the reader, the consumer, the timers, a drain, the context and Close interleave, no parsed event is lost and the first end of a stream is the one that is returned. |
| `PartsProofs` | `SpecRunsAreSound` | Whatever order the tools of a response end in and wherever a run is stopped, the journal has one result of every call, in order, and no tool is left running or runs beside one it may not; and whatever a backend answers, what a request under retries returns, learns of a route and records agree. |
| `PartsProofs` | `SpecStateIsSound` | However processes migrate, refresh, replace and remove the credentials of a home, with browsers that come back late, answers that are lost and writers that die, what is stored can be refreshed or is about to be replaced, no refresh token is sent twice unless an answer was lost, a logout stays, a key is kept, and a login that was abandoned is not stored. |
| `PartsProofs` | `SpecEndsOnce` | The end of a command is decided once, and a command is known until it has one (the part of StepsAreSound that is about commands). |
| `PartsProofs` | `SpecEndsForCause` | A stream ends by its drain, by idleness or by its context only for the reason it gives (the part of StepsAreSound that is about streams). |

### The argument

*The journal (`AgentRuntimeProofs`).*
`JournalAlwaysReplays` is not inductive: that a record fits the reducer depends on
what the appending operation did some steps before. `Consistent` says it for each
step an operation may be about to take: `Known` (the reducer is `Replay` of the
journal, or a write failed), `Placed` (the run, response and call an operation
works on are the open ones of the reducer, and nobody else's), and
`LiveFollowsJournal`. The lemmas about the operators carry the rest: `Fits` says
which records a state accepts, `AppendConsistent` that appending one that fits
keeps the journal replayable, and `FitsAgree` that two states that differ only in
the configuration accept the same records. The last is what lets a scope change
of another goroutine fall between any two steps of a run.

*Announcements (`SessionProofs`).* `Acknowledged` says where a completion is
between its record and its acknowledgement, `Announcing` that whatever boundary
event is being prepared still tells something new. Most actions are `Plain`: they
touch neither, which is one lemma.

*Promises to the user (`SessionProofs`).* `Chosen` says which of the three places
that can hold a selection is the one the user was told of, by where the operation
stands. `Finishing` says what is still open when an operation ends `Undisturbed`.
`Joined` says that the jobs a completing run has seen are all that ended.
`Described` says at each step whether the journal trails or matches the selection
in force. `Sourced` holds only while nobody tries to change the scope: a scope
change whose write failed may leave its record behind and moves the endpoint, so
`EpochFollowsSelection` counts attempts and not successes. `Lined` says that what
was delivered is older than what is queued. `Numbered`, `Admitted` and `Recorded`
are what the refinement of `SessionLog` needs of names and of a failing record.

*A job (`SupervisedJobProofs`).* `Consistent` joins the type, `WorkerTruthful`
(what the directory shows is what the worker did), `InOrder(m)` for each process,
`EraserOrderly`, `UnderWorker` (who may remove what while the worker lives),
`Recorded`, `Kept`, `Honest` and `Covered`. Two results are conditional because
the unconditional ones are false: `awaitOwnedWorker` and `monitorAdoptedJob` call
a job abandoned when their last read fails, so `AbandonedIsLost` and
`ImplementsPromise` speak of behaviours without such a read, and a deletion of
the session removes what nobody was told. The budgets `faults` and `deletions`
count these, and the run that checks the invariants spends both.

*Child agents (`ChildProofs`).* `Placed` says which child the parent's thread works
on and that what can be addressed is what was published. `Children` says of each
child that is in memory that its runs are those of its journal, numbered alike, but
for one that has no record yet (`Matching`); that only the last can be under way
(`Current`); and that it is stopped when its directory says so or a stop is being
written (`Stopped`), which is what makes `StopNotWritten` a return to what the
directory says. `Mailed` speaks of the parent's journal: what it tells, or a reply or
event on its way there tells, is a run on disk of a published child, and one without
an outcome belongs to a child that is halted on disk. `Mailbox` joins the two: what
was delivered is told, and while a run of the parent goes on, what is told was
delivered or is being acknowledged. A run that starts is numbered one beyond its
journal, so nobody can have been told of it, and `Placed` lets no launch go on in
a child that is halted on disk.

*The watcher of a home (`NotifyProofs`).* `ChangeIsAnnounced` says that a callback is
still to come, and some of its reasons are too weak to be kept by a step: a file event
may have reported another node. `Owed` gives for every stale session the link that holds
its news: the next call (`WithCall`), a node the loop dials again after a gap
(`WithLoop`), a connection, its queue, its probes or the registration of a dead node
(`WithNode`), or an operation that has yet to publish or whose node is not connected
(`WithLease`). The lemmas `CallStays`, `LoopStays`, `NodeStays` and `LeaseStays` say that
a link nobody touches keeps its news; each action has one lemma for the link it breaks.
What makes the links lead to the callback is `Found` (a registration the watcher does not
know will be looked at), `Links`, `Dialling` and `Probing` (the loop and the probes work
on nodes that are not connected), and `InOrder` (how far an operation is that holds a
lock, beside what its node has announced as owned, which the snapshot of a new stream
reads). `LiveKeepsFile` is needed throughout: a live node that lost its registration
would never be dialled.

*The parts side by side (`ConcurrentPartsProofs`, `RunPartsProofs`, `PartsProofs`).* Every
property of `Parts` speaks of one part, and no step changes which part is at work. So an
invariant of a part is one of `Parts` under the guard `part = "..."`. `PartsProofs` makes that
step, and the other two hold the invariants of the parts it is made for; they extend
`ConcurrentParts`, which declares these parts alone, so that a prover is not shown the others.

- A journal (`StoreInv`). Which step a process is at says what it holds: `Owning`,
  that a store which is live, writing or being repaired has locked the file at the
  path, or that the file has `Vanished` and cannot come back; `Writing`, that a store
  counts the lines of its journal unless a write failed, and that the line it is
  writing has the next number; `Reading`, that the lines a reader saw stay. A process
  that takes a step leaves every other one `Undisturbed`.
- A command (`JobsInv`). `Living` ties the job, its monitor and its processes to one
  point of its life, `Ending` says what a settled command left behind and what its
  status says of a stop, `Telling` who was told, `Known` that a command nobody can
  name any more is over or about to be killed. A step of one job has to be one that
  `Follows`, which also keeps what `Close` and the end of a run have found.
- A stream (`StreamInv`). `ReaderSound` says that the reader runs only when nothing it
  parsed waits, `Returning` that the end which was returned is the last thing that is,
  and `Timing` that the timer of a drain is set for the earlier of its two limits; this
  one does not hold while the reader is within a line, and comes back with its end.
- The tool calls of a response (`BatchInv`). `Lined` says that the calls before the
  next one are told, that those behind the group have not begun, and that a group of
  several has only safe ones; `Told` that a number in the journal is below every call
  that is still to be told; `Leading` why a batch is on its way to its end; `Slots`
  counts what runs. That a group's end and the first unsettled call exist is the least
  number principle (`Least`, `Greatest`).
- A request (`RequestInv`). `Recording` says that what an attempt came to is in the
  journal from its end until it is judged, and that a recorded response is returned
  unless a record fails; `Learning` that a control has a recorded refusal of a request
  that fits, and that nothing is learned before the end. Delays and the deadline may
  be anything.
- The credentials (`CredInv`). `Stored` ties the document to the tokens that were
  issued, `Distinct` says that two logins never bring the same ones, `Holding` that
  who is between reading and writing has the lock and writes what it read but for what
  it was asked to change, `LoggingIn` where the tokens of a browser are. A step of one
  process goes `Beside` what the invariant says of another.

`StoreAssumption` gives the bounds of the journal their type, `StreamAssumption` those
of the stream (`BeginDrain` refuses options that are not positive), `BatchAssumption`
the number of calls and of slots.

### What is only model-checked

- Liveness (`OperationsReturn`, `EndIsLearned`, `StoppingEnds`, `CallsReturn`,
  `WorkEnds`): it needs fairness and ENABLED, which the prover does not know.
- What a recursive definition computes for every input: the comparison of `Globs`
  with `GlobMatch`, of `FileDiff` with its definition, of `Completions` and
  `AnswerStream` with the streams they read. It would take induction over data.
- The other properties of `Parts` (`TypeOK`, `AnswersAreSound`, `FilesAreSound`,
  `TerminalIsSound`, `StepsAreSound`). Of the last one, what is said of commands and
  of streams is proved.

## What is left

Model: the catalogue of model configuration and the wire formats of providers are
data without order; the command line is parsing; the sandbox backends and the
patch parser are not modelled. Every component that is left out, or modelled in
part, is listed with the reason in `PROJECT.json`.
