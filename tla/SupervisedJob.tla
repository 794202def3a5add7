---------------------------- MODULE SupervisedJob ----------------------------
(***************************************************************************)
(* One supervised job: the directory that is its durable state, the worker *)
(* process that runs its command (tools/job_worker.go), the skot processes *)
(* that start, watch, stop, report and clean it up                         *)
(* (tools/process_supervised.go, process.go), and the deletion of its      *)
(* session (tools/session_jobs.go).                                        *)
(*                                                                         *)
(* Nothing but the file system connects them: a FIFO whose read side is    *)
(* open as long as the worker lives and which carries the request to stop, *)
(* a result the worker writes before it exits, and a marker that the       *)
(* journal tells of the end.  The journal of the session is locked, so one *)
(* process at a time has the session; but a process that left a session    *)
(* goes on watching its detached jobs.                                     *)
(*                                                                         *)
(* Every process may die at any step.  Jobs do not interact, so one is     *)
(* enough.  Left out: a FIFO or a file replaced by something else, a FIFO  *)
(* full of requests, output.                                               *)
(***************************************************************************)
EXTENDS Naturals, Sequences

CONSTANTS
  Managers,      \* skot processes
  NoOne,         \* not a process
  Eraser,        \* the process that deletes the session
  MaxOpens,      \* bound: how often the session is opened
  MaxFaults,     \* bound: reads of the result that fail
  MaxDeletions   \* bound: attempts to delete the session

ASSUME JobAssumption ==
  /\ NoOne \notin Managers
  /\ Eraser \notin Managers \cup {NoOne}
  /\ MaxOpens \in Nat
  /\ MaxFaults \in Nat
  /\ MaxDeletions \in Nat

\* A background job that ends with skot, a detached one, and a detached program
\* whose call waits for it.
Kinds == {"plain", "detached", "called"}

JobFiles == {"metadata", "control", "result", "delivered"}

\* What a worker can put in a result; abandoned is never in one.
Outcomes == {"finished", "killed", "timed_out", "not_started"}

Ends == Outcomes \cup {"abandoned"}

\* A manager has a thread that runs tools and one that leaves a session.
Threads == {"tool", "closer"}

AttachSteps == {"attach", "settle_read", "settle_probe", "settle_reread", "unmark",
                "adopt_read", "adopt_probe", "adopt_reread"}
LaunchSteps == {"describe", "pipe", "fork", "handoff", "register", "await"}
StopSteps == {"stop_write", "stop_refresh", "stop_probe", "stop_reread", "stop_wait"}
Steps == AttachSteps \cup LaunchSteps \cup StopSteps
           \cup {"idle", "sync", "call", "report", "ack", "settle", "purge", "release",
                 "retain"}

EraserSteps == {"idle", "check", "probe", "read", "purge", "finish", "done"}

VARIABLES
  kind,       \* how the job was asked for; never changes
  dir,        \* its directory exists
  files,      \* what is in it
  job,        \* "unborn", "made" (a directory), "given" to a manager, "refused"
  worker,     \* "none", "forked", "running", "ended", "written", "gone"
  payload,    \* what the worker waits for: "none", "running", "exited"
  outcome,    \* what the worker will write, or has written
  published,  \* it has
  stop,       \* a request to stop has reached the FIFO of a living worker
  lease,      \* manager that holds the read side open while it launches
  holder,     \* process that has the lock of the journal
  told,       \* what the journal tells of the end, without repetitions
  announced,  \* one of that is a boundary event
  up,         \* the process lives
  closed,     \* ProcessManager.closed
  loaded,     \* loadedSessions has the session
  view,       \* status of the job in manager.jobs: "none" when it is not there
  pinned,     \* controlIdentity is not nil
  watch,      \* its watcher: "none", "wait" (owned), "poll" (adopted), "lost"
  seen,       \* completionSeen
  calling,    \* the tool thread stops the job because its call was cancelled
  at,         \* next step of each thread
  eraser,     \* next step of the deletion
  openings, faults, deletions   \* how much of the bounds is used up

diskVars    == <<dir, files>>
workerVars  == <<worker, payload, outcome, published, stop>>
journalVars == <<holder, told, announced>>
viewVars    == <<view, pinned, watch, seen>>
managerVars == <<up, closed, loaded, calling, at>>
boundVars   == <<openings, faults, deletions>>
vars == <<kind, diskVars, job, workerVars, lease, journalVars, viewVars, managerVars,
          eraser, boundVars>>

Init ==
  /\ kind \in Kinds
  /\ dir = FALSE /\ files = {} /\ job = "unborn"
  /\ worker = "none" /\ payload = "none" /\ outcome = "none"
  /\ published = FALSE /\ stop = FALSE
  /\ lease = NoOne /\ holder = NoOne /\ told = <<>> /\ announced = FALSE
  /\ up = [m \in Managers |-> FALSE]
  /\ closed = [m \in Managers |-> FALSE]
  /\ loaded = [m \in Managers |-> FALSE]
  /\ view = [m \in Managers |-> "none"]
  /\ pinned = [m \in Managers |-> FALSE]
  /\ watch = [m \in Managers |-> "none"]
  /\ seen = [m \in Managers |-> FALSE]
  /\ calling = [m \in Managers |-> FALSE]
  /\ at = [m \in Managers |-> [t \in Threads |-> "idle"]]
  /\ eraser = "idle"
  /\ openings = 0 /\ faults = 0 /\ deletions = 0

-----------------------------------------------------------------------------
(* What a process can see of another.                                       *)

WorkerLives == worker \in {"forked", "running", "ended", "written"}

\* The kernel's answer to an open of the write side.
HasReader == WorkerLives \/ lease # NoOne

\* probeKnownJobControl, and errors other than ENXIO.
Observable == "control" \in files
Live == Observable /\ HasReader
Dead == Observable /\ ~HasReader

Detaches == kind # "plain"

Running(m) == view[m] = "running"
Settled(m) == view[m] \in Ends

\* refreshSupervisedJob: what the manager believes after it read the result.
Readable == {"result", "control"} \subseteq files
Refreshed(m) == IF Running(m) /\ Readable THEN outcome ELSE view[m]

Go(m, t, s) == at' = [at EXCEPT ![m][t] = s]

\* The manager believes v; whoever watched for the end has nothing left to do.
Learn(m, v) ==
  /\ view' = [view EXCEPT ![m] = v]
  /\ watch' = [watch EXCEPT ![m] = IF v = "running" THEN @ ELSE "none"]

\* ProcessManager.forget.  A watcher that is left works on a job nobody sees.
Forget(m) ==
  /\ view' = [view EXCEPT ![m] = "none"]
  /\ watch' = [watch EXCEPT ![m] = "none"]
  /\ pinned' = [pinned EXCEPT ![m] = FALSE]
  /\ seen' = [seen EXCEPT ![m] = FALSE]

-----------------------------------------------------------------------------
(* The worker.                                                               *)

\* Mutant: taking over the FIFO drops a request to stop that is in it.
WorkerStartsDrained ==
  /\ worker = "forked"
  /\ {"metadata", "control"} \subseteq files
  /\ worker' = "running"
  /\ payload' = "running"
  /\ stop' = FALSE
  /\ UNCHANGED <<outcome, published>>

\* It reads its launch document and the metadata, takes over the FIFO, and starts
\* the command.
WorkerStarts ==
  /\ worker = "forked"
  /\ {"metadata", "control"} \subseteq files
  /\ worker' = "running"
  /\ payload' = "running"
  /\ UNCHANGED <<outcome, published, stop>>

\* Mutant: the worker calls its own job abandoned.
WorkerAbandons ==
  /\ worker = "forked"
  /\ {"metadata", "control"} \subseteq files
  /\ worker' = "ended"
  /\ outcome' = "abandoned"
  /\ UNCHANGED <<payload, published, stop>>

\* finishUnstartedWorker: a log or the command cannot be opened.
WorkerCannotStart ==
  /\ worker = "forked"
  /\ {"metadata", "control"} \subseteq files
  /\ worker' = "ended"
  /\ outcome' = "not_started"
  /\ UNCHANGED <<payload, published, stop>>

\* The command ends by itself, and of its group what the worker waits for; also after
\* the worker has died.
PayloadExits ==
  /\ payload = "running"
  /\ worker \in {"running", "gone"}
  /\ payload' = "exited"
  /\ UNCHANGED <<worker, outcome, published, stop>>

WorkerEnds(o) ==
  /\ worker = "running"
  /\ worker' = "ended"
  /\ outcome' = o
  /\ payload' = "exited"
  /\ UNCHANGED <<published, stop>>

\* select takes any of the cases that are ready.
WorkerReaps == payload = "exited" /\ WorkerEnds("finished")
WorkerHearsStop == stop /\ WorkerEnds("killed")
WorkerTimesOut == WorkerEnds("timed_out")

WorkerPublishes ==
  /\ worker = "ended"
  /\ dir
  /\ files' = files \cup {"result"}
  /\ published' = TRUE
  /\ worker' = "written"
  /\ UNCHANGED <<dir, payload, outcome, stop>>

\* The end of the process closes the read side and drops what is in the FIFO: after
\* the result, because the launch document or the result failed, or by a crash.
WorkerExits ==
  /\ WorkerLives
  /\ worker' = "gone"
  /\ stop' = FALSE
  /\ UNCHANGED <<payload, outcome, published>>

WorkerStep ==
  /\ \/ WorkerPublishes
     \/ /\ \/ WorkerStarts \/ WorkerCannotStart
           \/ WorkerReaps \/ WorkerHearsStop
        /\ UNCHANGED diskVars
     \/ /\ worker = "written"
        /\ WorkerExits
        /\ UNCHANGED diskVars
  /\ UNCHANGED <<kind, job, lease, journalVars, viewVars, managerVars, eraser, boundVars>>

WorkerChance ==
  /\ PayloadExits \/ WorkerTimesOut \/ WorkerExits
  /\ UNCHANGED <<kind, diskVars, job, lease, journalVars, viewVars, managerVars, eraser,
                 boundVars>>

-----------------------------------------------------------------------------
(* Opening the session: AttachSession.                                      *)

\* Between two operations; none starts once the session is being left.
Idle(m) == up[m] /\ \A t \in Threads : at[m][t] = "idle"

\* A process takes the lock of the journal: at its start, or coming back from
\* another session.
Resume(m) ==
  /\ openings < MaxOpens
  /\ holder = NoOne
  /\ eraser # "done"
  /\ ~closed[m]
  /\ \A t \in Threads : at[m][t] = "idle"
  /\ openings' = openings + 1
  /\ holder' = m
  /\ up' = [up EXCEPT ![m] = TRUE]
  /\ Go(m, "tool", "attach")
  /\ UNCHANGED <<kind, diskVars, job, workerVars, lease, told, announced, viewVars, closed,
                 loaded, calling, eraser, faults, deletions>>

\* The session counts as attached, whatever became of the job.
Attached(m) ==
  /\ loaded' = [loaded EXCEPT ![m] = TRUE]
  /\ Go(m, "tool", "sync")

AttachOnly == <<kind, workerVars, lease, journalVars, up, closed, calling, eraser, boundVars>>

\* The job as found, unless the manager still has it.
Adopt(m, v) ==
  /\ job' = IF job = "refused" THEN job ELSE "given"
  /\ IF view[m] = "none"
     THEN /\ view' = [view EXCEPT ![m] = v]
          /\ watch' = [watch EXCEPT ![m] = IF v = "running" THEN "poll" ELSE "none"]
          /\ pinned' = [pinned EXCEPT ![m] = "control" \in files]
     ELSE UNCHANGED <<view, watch, pinned>>
  /\ Attached(m)
  /\ UNCHANGED seen

Attach(m) ==
  /\ at[m]["tool"] = "attach"
  /\ IF loaded[m] \/ ~dir
     THEN Attached(m)
     ELSE /\ Go(m, "tool", IF "delivered" \in files THEN "settle_read" ELSE "adopt_read")
          /\ UNCHANGED loaded
  /\ UNCHANGED <<diskVars, job, viewVars, AttachOnly>>

\* observeSupervisedJobState for a job that is marked delivered.
SettleRead(m) ==
  /\ at[m]["tool"] = "settle_read"
  /\ Go(m, "tool", IF "result" \in files THEN "purge" ELSE "settle_probe")
  /\ UNCHANGED <<diskVars, job, viewVars, loaded, AttachOnly>>

SettleProbe(m) ==
  /\ at[m]["tool"] = "settle_probe"
  /\ \/ ~Observable /\ Attached(m)
     \/ Live /\ Go(m, "tool", "unmark") /\ UNCHANGED loaded
     \/ Dead /\ Go(m, "tool", "settle_reread") /\ UNCHANGED loaded
  /\ UNCHANGED <<diskVars, job, viewVars, AttachOnly>>

SettleReread(m) ==
  /\ at[m]["tool"] = "settle_reread"
  /\ Go(m, "tool", "purge")
  /\ UNCHANGED <<diskVars, job, viewVars, loaded, AttachOnly>>

Unmark(m) ==
  /\ at[m]["tool"] = "unmark"
  /\ files' = files \ {"delivered"}
  /\ Go(m, "tool", "adopt_read")
  /\ UNCHANGED <<dir, job, viewVars, loaded, AttachOnly>>

\* loadSupervisedJob.
AdoptRead(m) ==
  /\ at[m]["tool"] = "adopt_read"
  /\ \/ "metadata" \notin files /\ Attached(m) /\ UNCHANGED <<job, viewVars>>
     \/ {"metadata", "result"} \subseteq files /\ Adopt(m, outcome)
     \/ /\ "metadata" \in files /\ "result" \notin files
        /\ Go(m, "tool", "adopt_probe")
        /\ UNCHANGED <<job, viewVars, loaded>>
  /\ UNCHANGED <<diskVars, AttachOnly>>

AdoptProbe(m) ==
  /\ at[m]["tool"] = "adopt_probe"
  /\ \/ ~Observable /\ Attached(m) /\ UNCHANGED <<job, viewVars>>
     \/ Live /\ Adopt(m, "running")
     \/ Dead /\ Go(m, "tool", "adopt_reread") /\ UNCHANGED <<job, viewVars, loaded>>
  /\ UNCHANGED <<diskVars, AttachOnly>>

\* Mutant: no second look at the result.
AdoptUnread(m) ==
  /\ at[m]["tool"] = "adopt_reread"
  /\ Adopt(m, "abandoned")
  /\ UNCHANGED <<diskVars, AttachOnly>>

AdoptReread(m) ==
  /\ at[m]["tool"] = "adopt_reread"
  /\ Adopt(m, IF "result" \in files THEN outcome ELSE "abandoned")
  /\ UNCHANGED <<diskVars, AttachOnly>>

AttachStep(m) ==
  \/ Attach(m)
  \/ SettleRead(m) \/ SettleProbe(m) \/ SettleReread(m) \/ Unmark(m)
  \/ AdoptRead(m) \/ AdoptProbe(m) \/ AdoptReread(m)

-----------------------------------------------------------------------------
(* Starting the job: startSupervised.                                       *)

LaunchOnly == <<kind, journalVars, up, closed, loaded, calling, eraser, boundVars>>

Launch(m) ==
  /\ Idle(m) /\ holder = m /\ loaded[m] /\ ~closed[m]
  /\ job = "unborn"
  /\ dir' = TRUE
  /\ job' = "made"
  /\ Go(m, "tool", "describe")
  /\ UNCHANGED <<files, workerVars, lease, viewVars, LaunchOnly>>

\* writeJSONAtomic of the metadata.
Describe(m) ==
  /\ at[m]["tool"] = "describe"
  /\ \/ files' = files \cup {"metadata"} /\ Go(m, "tool", "pipe")
     \/ Go(m, "tool", "purge") /\ UNCHANGED files
  /\ UNCHANGED <<dir, job, workerVars, lease, viewVars, LaunchOnly>>

\* createJobControl opens the read side before there is a worker.
Pipe(m) ==
  /\ at[m]["tool"] = "pipe"
  /\ \/ files' = files \cup {"control"} /\ lease' = m /\ Go(m, "tool", "fork")
     \/ Go(m, "tool", "purge") /\ UNCHANGED <<files, lease>>
  /\ UNCHANGED <<dir, job, workerVars, viewVars, LaunchOnly>>

\* worker.Start
Fork(m) ==
  /\ at[m]["tool"] = "fork"
  /\ \/ worker' = "forked" /\ Go(m, "tool", "handoff") /\ UNCHANGED lease
     \/ lease' = NoOne /\ Go(m, "tool", "purge") /\ UNCHANGED worker
  /\ UNCHANGED <<diskVars, job, payload, outcome, published, stop, viewVars, LaunchOnly>>

\* closeControl
HandOff(m) ==
  /\ at[m]["tool"] = "handoff"
  /\ lease' = NoOne
  /\ Go(m, "tool", "register")
  /\ UNCHANGED <<diskVars, job, workerVars, viewVars, LaunchOnly>>

\* The manager may have been closed in the meantime: then the job is stopped again.
Register(m) ==
  /\ at[m]["tool"] = "register"
  /\ IF closed[m]
     THEN /\ job' = "refused"
          /\ stop' = (stop \/ Live)
          /\ Go(m, "tool", "await")
          /\ UNCHANGED viewVars
     ELSE /\ job' = "given"
          /\ view' = [view EXCEPT ![m] = "running"]
          /\ watch' = [watch EXCEPT ![m] = "wait"]
          /\ pinned' = [pinned EXCEPT ![m] = TRUE]
          /\ Go(m, "tool", IF kind = "called" THEN "call" ELSE "idle")
          /\ UNCHANGED <<seen, stop>>
  /\ UNCHANGED <<diskVars, worker, payload, outcome, published, lease, LaunchOnly>>

\* Mutant: the wait that times out removes the directory as well.
AwaitBriefly(m) ==
  /\ at[m]["tool"] = "await"
  /\ Go(m, "tool", "purge")
  /\ UNCHANGED <<diskVars, job, workerVars, lease, viewVars, LaunchOnly>>

\* jobStopTimeout: the directory stays for whoever opens the session next.
AwaitRefused(m) ==
  /\ at[m]["tool"] = "await"
  /\ \/ worker = "gone" /\ Go(m, "tool", "purge")
     \/ Go(m, "tool", "idle")
  /\ UNCHANGED <<diskVars, job, workerVars, lease, viewVars, LaunchOnly>>

LaunchStep(m) ==
  \/ Describe(m) \/ Pipe(m) \/ Fork(m) \/ HandOff(m) \/ Register(m) \/ AwaitRefused(m)

-----------------------------------------------------------------------------
(* Learning of the end.                                                     *)

WatchOnly == <<kind, diskVars, job, workerVars, lease, journalVars, pinned, seen, managerVars,
               eraser, openings, deletions>>

\* refreshSupervisedJob: by the ticker of monitorAdoptedJob, and in Status,
\* PendingCompletionEvents, listJobs and RunningDetachedJobs.
Observe(m) ==
  /\ up[m] /\ Running(m) /\ Readable
  /\ Learn(m, outcome)
  /\ UNCHANGED <<faults, WatchOnly>>

\* Mutant: an adopted job is polled for its result only.
MissedByOwner(m) ==
  /\ up[m] /\ Running(m)
  /\ watch[m] = "wait" /\ worker = "gone"
  /\ watch' = [watch EXCEPT ![m] = "lost"]
  /\ UNCHANGED <<view, faults, WatchOnly>>

\* The worker of this process was waited for, or a probe answered ENXIO.
Missed(m) ==
  /\ up[m] /\ Running(m)
  /\ \/ watch[m] = "wait" /\ worker = "gone"
     \/ watch[m] = "poll" /\ Dead
  /\ watch' = [watch EXCEPT ![m] = "lost"]
  /\ UNCHANGED <<view, faults, WatchOnly>>

\* Mutant: a worker that is gone has abandoned its job.
DeriveUnread(m) ==
  /\ up[m] /\ Running(m) /\ watch[m] = "lost"
  /\ Learn(m, "abandoned")
  /\ UNCHANGED <<faults, WatchOnly>>

\* One more look at the result, then deriveAbandoned; also when the look fails.
Derive(m) ==
  /\ up[m] /\ Running(m) /\ watch[m] = "lost"
  /\ \/ /\ Learn(m, IF Readable THEN outcome ELSE "abandoned")
        /\ UNCHANGED faults
     \/ /\ faults < MaxFaults
        /\ faults' = faults + 1
        /\ Learn(m, "abandoned")
  /\ UNCHANGED WatchOnly

WatchStep(m) == Observe(m) \/ Missed(m) \/ Derive(m)

-----------------------------------------------------------------------------
(* Stopping the job: ProcessManager.stop, by the job tool, by a call that is *)
(* cancelled, or by the thread that leaves.                                  *)

StopOnly == <<kind, diskVars, job, worker, payload, outcome, published, lease, journalVars,
              up, closed, loaded, eraser, boundVars>>

StopWrite(m, t) ==
  /\ at[m][t] = "stop_write"
  /\ stop' = (stop \/ Live)
  /\ Go(m, t, IF Live THEN "stop_wait" ELSE "stop_refresh")
  /\ UNCHANGED <<viewVars, calling, StopOnly>>

StopRefresh(m, t) ==
  /\ at[m][t] = "stop_refresh"
  /\ Learn(m, Refreshed(m))
  /\ Go(m, t, IF Refreshed(m) = "running" THEN "stop_probe" ELSE "stop_wait")
  /\ UNCHANGED <<stop, pinned, seen, calling, StopOnly>>

\* What the caller of stop does next.  A cancelled call drops the job whatever
\* became of the request.
StopReturns(m, t, ok) ==
  IF t = "tool" /\ calling[m]
  THEN /\ Forget(m)
       /\ calling' = [calling EXCEPT ![m] = FALSE]
       /\ Go(m, t, "idle")
  ELSE /\ Go(m, t, IF t = "closer" THEN (IF ok THEN "settle" ELSE "retain")
                                   ELSE (IF ok THEN "report" ELSE "idle"))
       /\ UNCHANGED <<viewVars, calling>>

StopProbe(m, t) ==
  /\ at[m][t] = "stop_probe"
  /\ IF Dead
     THEN Go(m, t, "stop_reread") /\ UNCHANGED <<viewVars, calling>>
     ELSE StopReturns(m, t, FALSE)
  /\ UNCHANGED <<stop, StopOnly>>

StopReread(m, t) ==
  /\ at[m][t] = "stop_reread"
  /\ Learn(m, IF Refreshed(m) = "running" THEN "abandoned" ELSE Refreshed(m))
  /\ Go(m, t, "stop_wait")
  /\ UNCHANGED <<stop, pinned, seen, calling, StopOnly>>

\* jobStopTimeout: "the queued stop may still complete".
StopWait(m, t) ==
  /\ at[m][t] = "stop_wait"
  /\ \/ ~Running(m) /\ StopReturns(m, t, TRUE)
     \/ StopReturns(m, t, FALSE)
  /\ UNCHANGED <<stop, StopOnly>>

StopStep(m, t) ==
  StopWrite(m, t) \/ StopRefresh(m, t) \/ StopProbe(m, t) \/ StopReread(m, t) \/ StopWait(m, t)

-----------------------------------------------------------------------------
(* What the agent does with the job: tool calls and boundaries of a run.    *)

UseOnly == <<kind, dir, job, workerVars, lease, holder, up, closed, loaded, eraser,
             boundVars>>

\* job(action = "stop")
StopJob(m) ==
  /\ Idle(m) /\ holder = m /\ Running(m)
  /\ Go(m, "tool", "stop_write")
  /\ UNCHANGED <<files, told, announced, viewVars, calling, UseOnly>>

\* The call of a detached program ends with the job, yields or is cancelled.
Call(m) ==
  /\ at[m]["tool"] = "call"
  /\ \/ Settled(m) /\ Go(m, "tool", "report") /\ UNCHANGED <<viewVars, calling>>
     \/ Go(m, "tool", "idle") /\ UNCHANGED <<viewVars, calling>>
     \/ /\ Running(m)
        /\ calling' = [calling EXCEPT ![m] = TRUE]
        /\ Go(m, "tool", "stop_write")
        /\ UNCHANGED viewVars
     \/ Settled(m) /\ Forget(m) /\ Go(m, "tool", "idle") /\ UNCHANGED calling
  /\ UNCHANGED <<files, told, announced, UseOnly>>

Tells(m) == told' = IF \E i \in DOMAIN told : told[i] = view[m] THEN told ELSE Append(told, view[m])

\* Any result of a tool that shows the job.
ShowJob(m) ==
  /\ Idle(m) /\ holder = m /\ Settled(m)
  /\ Go(m, "tool", "report")
  /\ UNCHANGED <<files, told, announced, viewVars, calling, UseOnly>>

\* Mutant: the acknowledgement does not wait for the commit.
ReportUncommitted(m) ==
  /\ at[m]["tool"] = "report"
  /\ Tells(m) \/ UNCHANGED told
  /\ Go(m, "tool", "ack")
  /\ UNCHANGED <<files, announced, viewVars, calling, UseOnly>>

\* The result is committed, or the run ends before it is.
Report(m) ==
  /\ at[m]["tool"] = "report"
  /\ \/ Tells(m) /\ Go(m, "tool", "ack")
     \/ UNCHANGED told /\ Go(m, "tool", "idle")
  /\ UNCHANGED <<files, announced, viewVars, calling, UseOnly>>

\* PendingCompletionEvents and deliverBoundaryEvents.
Announce(m) ==
  /\ Idle(m) /\ holder = m /\ Settled(m) /\ ~seen[m]
  /\ announced' = TRUE
  /\ IF announced THEN UNCHANGED told ELSE Tells(m)
  /\ Go(m, "tool", "ack")
  /\ UNCHANGED <<files, viewVars, calling, UseOnly>>

\* syncExternalWorkCommits, at the start of every run.
Sync(m) ==
  /\ at[m]["tool"] = "sync" \/ (Idle(m) /\ holder = m /\ told # <<>>)
  /\ Go(m, "tool", IF told = <<>> THEN "idle" ELSE "ack")
  /\ UNCHANGED <<files, told, announced, viewVars, calling, UseOnly>>

\* MarkCompletionDelivered; an error of the marker is ignored.
Ack(m) ==
  /\ at[m]["tool"] = "ack"
  /\ Learn(m, Refreshed(m))
  /\ IF Refreshed(m) \in Ends
     THEN /\ seen' = [seen EXCEPT ![m] = TRUE]
          /\ \/ dir /\ files' = files \cup {"delivered"}
             \/ UNCHANGED files
     ELSE UNCHANGED <<seen, files>>
  /\ Go(m, "tool", "idle")
  /\ UNCHANGED <<told, announced, pinned, calling, UseOnly>>

-----------------------------------------------------------------------------
(* Leaving the session, by CloseSession, and the process, by Close.         *)

LeaveOnly == <<kind, job, workerVars, lease, told, announced, eraser, boundVars>>

\* Mutant: nothing is stopped.
BeginLeavingAlone(m) == Go(m, "closer", "settle")

\* closeJobs stops what does not outlive the session.
BeginLeaving(m) ==
  Go(m, "closer", IF Running(m) /\ ~Detaches THEN "stop_write" ELSE "settle")

\* loadMu keeps it out of AttachSession.
BeginExit(m) ==
  /\ up[m] /\ ~closed[m]
  /\ at[m]["closer"] = "idle"
  /\ at[m]["tool"] \notin AttachSteps
  /\ at[m]["tool"] = "purge" => loaded[m]
  /\ closed' = [closed EXCEPT ![m] = TRUE]
  /\ BeginLeaving(m)
  /\ UNCHANGED <<diskVars, holder, up, loaded, calling, viewVars, LeaveOnly>>

BeginSwitch(m) ==
  /\ Idle(m) /\ holder = m /\ ~closed[m]
  /\ BeginLeaving(m)
  /\ UNCHANGED <<diskVars, holder, up, closed, loaded, calling, viewVars, LeaveOnly>>

\* Mutant: what has ended is removed, acknowledged or not.
RemovableUnseen(m) ==
  /\ Settled(m) /\ dir
  /\ pinned[m] => "control" \in files
  /\ "result" \in files \/ Dead

\* removeSettledJobState
Removable(m) ==
  /\ Settled(m) /\ seen[m]
  /\ dir
  /\ pinned[m] => "control" \in files
  /\ "result" \in files \/ Dead

Settle(m) ==
  /\ at[m]["closer"] = "settle"
  /\ Go(m, "closer", IF Removable(m) THEN "purge" ELSE "release")
  /\ UNCHANGED <<diskVars, holder, up, closed, loaded, calling, viewVars, LeaveOnly>>

\* RemoveAll takes the entries in any order.
Purge(m, t) ==
  /\ at[m][t] = "purge"
  /\ IF files # {}
     THEN /\ \E f \in files : files' = files \ {f}
          /\ UNCHANGED <<dir, at, loaded>>
     ELSE /\ dir' = FALSE
          /\ IF t = "tool" THEN Attached(m) ELSE Go(m, t, "release") /\ UNCHANGED loaded
          /\ UNCHANGED files
  /\ UNCHANGED <<holder, up, closed, calling, viewVars, LeaveOnly>>

\* The process is gone, with all it knew and held.
Down(m) ==
  /\ up' = [up EXCEPT ![m] = FALSE]
  /\ closed' = [closed EXCEPT ![m] = FALSE]
  /\ loaded' = [loaded EXCEPT ![m] = FALSE]
  /\ calling' = [calling EXCEPT ![m] = FALSE]
  /\ at' = [at EXCEPT ![m] = [t \in Threads |-> "idle"]]
  /\ Forget(m)
  /\ holder' = IF holder = m THEN NoOne ELSE holder
  /\ lease' = IF lease = m THEN NoOne ELSE lease
  /\ UNCHANGED <<kind, diskVars, job, workerVars, told, announced, eraser, boundVars>>

\* Mutant: the exit waits for detached jobs.
ExitWhenSettled(m) ==
  /\ at[m]["closer"] \in {"release", "retain"}
  /\ closed[m]
  /\ at[m]["tool"] = "idle"
  /\ ~Running(m)
  /\ Down(m)

\* The interface closes the application when the turn has ended.
Exit(m) ==
  /\ at[m]["closer"] \in {"release", "retain"}
  /\ closed[m]
  /\ at[m]["tool"] = "idle"
  /\ Down(m)

\* CloseSession forgets the job unless it goes on detached, or could not be stopped.
Switch(m) ==
  /\ at[m]["closer"] \in {"release", "retain"}
  /\ ~closed[m]
  /\ loaded' = [loaded EXCEPT ![m] = FALSE]
  /\ holder' = NoOne
  /\ Go(m, "closer", "idle")
  /\ IF at[m]["closer"] = "retain" \/ (Detaches /\ Running(m))
     THEN UNCHANGED viewVars
     ELSE Forget(m)
  /\ UNCHANGED <<diskVars, up, closed, calling, LeaveOnly>>

Crash(m) == up[m] /\ Down(m)

-----------------------------------------------------------------------------
(* Deleting the session: DeleteSession and RemoveSessionJobs.               *)

EraserOnly == <<kind, job, workerVars, lease, told, announced, viewVars, managerVars, openings,
                faults>>

BeginErase ==
  /\ deletions < MaxDeletions
  /\ holder = NoOne /\ eraser = "idle"
  /\ deletions' = deletions + 1
  /\ holder' = Eraser
  /\ eraser' = IF dir THEN "check" ELSE "finish"
  /\ UNCHANGED <<diskVars, EraserOnly>>

\* Mutant: a worker that is gone is taken for a command that has exited.
InspectWorker(s, ok, next) ==
  /\ eraser = s /\ (ok \/ s = "read")
  /\ eraser' = next
  /\ UNCHANGED <<diskVars, holder, deletions, EraserOnly>>

\* inspectRemovableSessionJobs: metadata, then the worker, then its result.
Inspect(s, ok, next) ==
  /\ eraser = s /\ ok
  /\ eraser' = next
  /\ UNCHANGED <<diskVars, holder, deletions, EraserOnly>>

EraserRemoves ==
  /\ eraser = "purge"
  /\ IF files # {}
     THEN (\E f \in files : files' = files \ {f}) /\ UNCHANGED <<dir, eraser>>
     ELSE dir' = FALSE /\ eraser' = "finish" /\ UNCHANGED files
  /\ UNCHANGED <<holder, deletions, EraserOnly>>

\* The session is removed last; an error or a crash before leaves it in place.
EraserReturns ==
  /\ holder = Eraser
  /\ holder' = NoOne
  /\ eraser' = IF eraser = "finish" THEN "done" ELSE "idle"
  /\ UNCHANGED <<diskVars, deletions, EraserOnly>>

EraserStep ==
  \/ BeginErase
  \/ Inspect("check", "metadata" \in files, "probe")
  \/ Inspect("probe", Dead, "read")
  \/ Inspect("read", "result" \in files, "purge")
  \/ EraserRemoves
  \/ EraserReturns

-----------------------------------------------------------------------------

\* A started operation of the tool thread goes on by itself, a call that waits
\* for a detached program aside.
ToolStep(m) ==
  \/ AttachStep(m) \/ LaunchStep(m) \/ StopStep(m, "tool") \/ Purge(m, "tool")
  \/ Report(m) \/ Ack(m) \/ (at[m]["tool"] = "sync" /\ Sync(m))

CloserStep(m) ==
  StopStep(m, "closer") \/ Settle(m) \/ Purge(m, "closer") \/ Exit(m) \/ Switch(m)

AgentStep(m) ==
  \/ Resume(m) \/ Launch(m) \/ StopJob(m) \/ Call(m) \/ ShowJob(m) \/ Announce(m) \/ Sync(m)
  \/ BeginExit(m) \/ BeginSwitch(m)
  \/ Crash(m)

\* Nothing needs to happen.
Rest ==
  /\ \A m \in Managers, t \in Threads : at[m][t] = "idle"
  /\ eraser \in {"idle", "done"}
  /\ UNCHANGED vars

Next ==
  \/ WorkerStep \/ WorkerChance
  \/ \E m \in Managers : ToolStep(m) \/ CloserStep(m) \/ WatchStep(m) \/ AgentStep(m)
  \/ EraserStep
  \/ Rest

Spec == Init /\ [][Next]_vars

\* Processes run; users, commands and crashes need not do anything.
FairSpec ==
  /\ Spec
  /\ WF_vars(WorkerStep)
  /\ \A m \in Managers : WF_vars(ToolStep(m)) /\ WF_vars(CloserStep(m)) /\ WF_vars(WatchStep(m))
=============================================================================
