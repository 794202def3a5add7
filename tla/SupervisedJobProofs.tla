------------------------- MODULE SupervisedJobProofs -------------------------
(***************************************************************************)
(* The safety of SupervisedJob for every number of skot processes and      *)
(* every bound.  The invariant says, for each step a thread may be about   *)
(* to take, what the directory, the worker and the journal look like then; *)
(* its parts are about one piece of state each.                            *)
(***************************************************************************)
EXTENDS JobProperties, TLAPS

-----------------------------------------------------------------------------
(* The steps, grouped.                                                     *)

UseStep(m) ==
  StopJob(m) \/ Call(m) \/ ShowJob(m) \/ Report(m) \/ Announce(m) \/ Sync(m) \/ Ack(m)

LeaveStep(m) == BeginExit(m) \/ BeginSwitch(m) \/ Settle(m) \/ Exit(m) \/ Switch(m) \/ Crash(m)

ManagerStep(m) ==
  \/ Resume(m) \/ AttachStep(m)
  \/ Launch(m) \/ LaunchStep(m)
  \/ WatchStep(m)
  \/ UseStep(m) \/ LeaveStep(m)
  \/ \E t \in Threads : StopStep(m, t) \/ Purge(m, t)

LEMMA NextCases ==
  ASSUME [Next]_vars
  PROVE  \/ WorkerStep \/ WorkerChance \/ EraserStep
         \/ \E m \in Managers : ManagerStep(m)
         \/ UNCHANGED vars
BY DEF Next, ToolStep, CloserStep, AgentStep, Rest, ManagerStep, UseStep, LeaveStep, Threads

\* A thread that goes on does so alone.
LEMMA Went ==
  ASSUME at \in [Managers -> [Threads -> Steps]],
         NEW m \in Managers, NEW t \in Threads, NEW s \in Steps, Go(m, t, s)
  PROVE  /\ at' \in [Managers -> [Threads -> Steps]]
         /\ at'[m][t] = s
         /\ \A u \in Threads : u # t => at'[m][u] = at[m][u]
         /\ \A n \in Managers : n # m => at'[n] = at[n]
BY DEF Go

-----------------------------------------------------------------------------
(* What the steps leave alone.                                             *)

LEMMA WorkerFrame ==
  ASSUME WorkerStep \/ WorkerChance
  PROVE  UNCHANGED <<kind, job, lease, holder, told, announced, view, pinned, watch, seen,
                     up, closed, loaded, calling, at, eraser, openings, faults, deletions>>
BY DEF WorkerStep, WorkerChance, journalVars, viewVars, managerVars, boundVars

LEMMA EraserFrame ==
  ASSUME EraserStep
  PROVE  UNCHANGED <<kind, job, worker, payload, outcome, published, stop, lease, told,
                     announced, view, pinned, watch, seen, up, closed, loaded, calling, at,
                     openings, faults>>
BY DEF EraserStep, BeginErase, Inspect, EraserRemoves, EraserReturns, EraserOnly,
       workerVars, viewVars, managerVars

LEMMA AttachFrame ==
  ASSUME NEW m \in Managers, AttachStep(m)
  PROVE  UNCHANGED <<kind, dir, worker, payload, outcome, published, stop, lease, holder,
                     told, announced, seen, up, closed, calling, eraser, openings, faults,
                     deletions>>
BY DEF AttachStep, Attach, SettleRead, SettleProbe, SettleReread, Unmark, AdoptRead,
       AdoptProbe, AdoptReread, Adopt, AttachOnly, diskVars, workerVars, journalVars,
       viewVars, boundVars

LEMMA LaunchFrame ==
  ASSUME NEW m \in Managers, Launch(m) \/ LaunchStep(m)
  PROVE  UNCHANGED <<kind, payload, outcome, published, holder, told, announced, seen,
                     up, closed, loaded, calling, eraser, openings, faults, deletions>>
BY DEF Launch, LaunchStep, Describe, Pipe, Fork, HandOff, Register, AwaitRefused,
       LaunchOnly, diskVars, workerVars, journalVars, viewVars, boundVars

LEMMA WatchFrame ==
  ASSUME NEW m \in Managers, WatchStep(m)
  PROVE  UNCHANGED <<kind, dir, files, job, worker, payload, outcome, published, stop, lease,
                     holder, told, announced, pinned, seen, up, closed, loaded, calling, at,
                     eraser, openings, deletions>>
BY DEF WatchStep, Observe, Missed, Derive, WatchOnly, diskVars, workerVars, journalVars,
       managerVars

LEMMA StopFrame ==
  ASSUME NEW m \in Managers, NEW t \in Threads, StopStep(m, t)
  PROVE  UNCHANGED <<kind, dir, files, job, worker, payload, outcome, published, lease,
                     holder, told, announced, up, closed, loaded, eraser, openings, faults,
                     deletions>>
BY DEF StopStep, StopWrite, StopRefresh, StopProbe, StopReread, StopWait, StopOnly,
       diskVars, journalVars, boundVars

LEMMA UseFrame ==
  ASSUME NEW m \in Managers, UseStep(m)
  PROVE  UNCHANGED <<kind, dir, job, worker, payload, outcome, published, stop, lease,
                     holder, up, closed, loaded, eraser, openings, faults, deletions>>
BY DEF UseStep, StopJob, Call, ShowJob, Report, Announce, Sync, Ack, UseOnly, workerVars,
       boundVars

LEMMA LeaveFrame ==
  ASSUME NEW m \in Managers, LeaveStep(m)
  PROVE  UNCHANGED <<kind, dir, files, job, worker, payload, outcome, published, stop,
                     told, announced, eraser, openings, faults, deletions>>
BY DEF LeaveStep, BeginExit, BeginSwitch, Settle, Exit, Switch, Crash, Down, LeaveOnly,
       diskVars, workerVars, boundVars

LEMMA PurgeFrame ==
  ASSUME NEW m \in Managers, NEW t \in Threads, Purge(m, t)
  PROVE  UNCHANGED <<kind, job, worker, payload, outcome, published, stop, lease, holder,
                     told, announced, view, pinned, watch, seen, up, closed, calling, eraser,
                     openings, faults, deletions>>
BY DEF Purge, LeaveOnly, viewVars, workerVars, boundVars

LEMMA StillFrame ==
  ASSUME UNCHANGED vars
  PROVE  UNCHANGED <<kind, dir, files, job, worker, payload, outcome, published, stop, lease,
                     holder, told, announced, up, closed, loaded, view, pinned, watch, seen,
                     calling, at, eraser, openings, faults, deletions>>
BY DEF vars, diskVars, workerVars, journalVars, viewVars, managerVars, boundVars

-----------------------------------------------------------------------------
(* The invariant.                                                          *)

\* A worker puts in its result what became of the command, and is gone or about to go
\* when there is one.
WorkerTruthful ==
  /\ worker \in {"none", "forked"} => payload = "none"
  /\ worker \in {"ended", "written"} => payload # "running" /\ outcome \in Outcomes
  /\ published => worker \in {"written", "gone"} /\ outcome \in Outcomes /\ payload # "running"
  /\ worker = "written" => published
  /\ "result" \in files => published

ToolSteps == Steps \ {"settle", "release", "retain"}
CloserSteps == StopSteps \cup {"idle", "settle", "purge", "release", "retain"}

\* Which thread is where: a tool works, and a session is loaded, only under the lock of
\* the journal, and who leaves a session without leaving the process runs no tool.
Orderly(m) ==
  /\ at[m]["tool"] \in ToolSteps /\ at[m]["closer"] \in CloserSteps
  /\ at[m]["tool"] # "idle" => up[m] /\ holder = m
  /\ at[m]["closer"] # "idle" => up[m] /\ (closed[m] \/ (holder = m /\ at[m]["tool"] = "idle"))
  /\ loaded[m] => up[m] /\ holder = m
  /\ at[m]["tool"] \in AttachSteps => at[m]["closer"] = "idle" /\ ~closed[m]
  /\ at[m]["tool"] \in LaunchSteps => loaded[m]
  /\ lease = m => at[m]["tool"] \in {"fork", "handoff"}
  /\ at[m]["tool"] = "call" \/ calling[m] => kind = "called"

BirthSteps == {"describe", "pipe", "fork", "handoff", "register"}

\* What a launch has done so far.
Launching(m) ==
  /\ at[m]["tool"] \in BirthSteps => job = "made"
  /\ at[m]["tool"] \in {"describe", "pipe", "fork"} => worker = "none" /\ dir
  /\ at[m]["tool"] \in {"pipe", "fork"} => "metadata" \in files
  /\ at[m]["tool"] = "fork" => "control" \in files
  /\ at[m]["tool"] = "await" => job = "refused"

\* A call, a stop and a report are about a job the manager has; what is reported
\* has ended.
Reporting(m) ==
  /\ at[m]["tool"] \in StopSteps \cup {"call"} => view[m] # "none"
  /\ at[m]["tool"] = "report" => Settled(m)

Absent == worker \in {"none", "gone"}
Handed == job \in {"given", "refused"}
MarkedSteps == {"settle_read", "settle_probe", "settle_reread", "unmark"}

\* A directory is removed after its launch failed, after a refused job ended, or when
\* the journal tells of the end.
Purging(m) ==
  /\ at[m]["tool"] = "purge" =>
       told # <<>> \/ job = "refused" \/ (job = "made" /\ worker = "none")
  /\ at[m]["closer"] = "purge" => told # <<>> /\ Handed
  /\ \A t \in Threads : at[m][t] = "purge" => ~Working

\* Who looks for the result once more found no worker.
Looking(m) ==
  /\ at[m]["tool"] \in AttachSteps \ {"attach"} => job # "unborn"
  /\ at[m]["tool"] \in {"adopt_reread", "settle_reread"} => Absent
  /\ \A t \in Threads : at[m][t] \in StopSteps => Handed
  /\ \A t \in Threads : at[m][t] = "stop_reread" => Absent
  /\ watch[m] # "none" => view[m] # "none"
  /\ watch[m] = "lost" => Absent

\* What a manager believes of the end is what the worker wrote, or there is none.
Believing(m) ==
  /\ view[m] # "none" => Handed
  /\ view[m] \in Outcomes => published /\ view[m] = outcome
  /\ view[m] = "abandoned" => Absent

\* The journal tells of an end before anything is taken for recorded.
Recorded ==
  /\ announced => told # <<>>
  /\ "delivered" \in files => told # <<>>
  /\ told # <<>> => Handed /\ ~Working
  /\ \A m \in Managers : seen[m] \/ at[m]["tool"] \in MarkedSteps \cup {"ack"} => told # <<>>

\* The deletion works under the lock of the journal, and removes what has ended.
EraserOrderly ==
  /\ eraser \notin {"idle", "done"} => holder = Eraser
  /\ holder = Eraser => deletions > 0
  /\ eraser \in {"read", "purge"} => Absent
  /\ eraser = "purge" => published

\* A worker that has something to write has its directory.
UnderWorker ==
  /\ Working => dir /\ {"metadata", "control"} \subseteq files
  /\ job = "unborn" => worker = "none" /\ ~dir

\* A result the journal does not tell of stays.
Kept ==
  deletions = 0 /\ published /\ told = <<>> /\ job # "refused" =>
    {"metadata", "control", "result"} \subseteq files

\* Unless a look at the result fails or somebody deletes the session, nobody takes a job
\* for abandoned that has a result, and the journal first tells how the job ended.
Honest ==
  faults = 0 /\ deletions = 0 /\ job # "refused" =>
    /\ told = <<>> => \A m \in Managers : view[m] = "abandoned" => ~published
    /\ told # <<>> => Head(told) = Fate

\* A worker that is to end with its process is known to the manager that has its
\* session, or asked to stop.
Covered ==
  /\ job = "refused" /\ Working => stop
  /\ ~Detaches => \A m \in Managers :
       /\ loaded[m] /\ Working =>
            \/ view[m] # "none" \/ job = "refused"
            \/ at[m]["tool"] \in {"handoff", "register"}
       /\ at[m]["closer"] \in {"settle", "purge", "release"} => ~Running(m)

InOrder(m) ==
  Orderly(m) /\ Reporting(m) /\ Launching(m) /\ Purging(m) /\ Looking(m) /\ Believing(m)

Consistent ==
  /\ TypeOK /\ WorkerTruthful
  /\ \A m \in Managers : InOrder(m)
  /\ Recorded /\ EraserOrderly /\ UnderWorker
  /\ Kept /\ Honest /\ Covered

-----------------------------------------------------------------------------
(* Types.                                                                  *)

LEMMA InitTypeOK == Init => TypeOK
<1> SUFFICES ASSUME Init PROVE TypeOK
  OBVIOUS
<1>1. "idle" \in Steps
  BY DEF Steps
<1>2. at \in [Managers -> [Threads -> Steps]]
  BY <1>1 DEF Init
<1>3. told \in Seq(Ends)
  BY DEF Init
<1>4. /\ up \in [Managers -> BOOLEAN] /\ closed \in [Managers -> BOOLEAN]
      /\ loaded \in [Managers -> BOOLEAN] /\ pinned \in [Managers -> BOOLEAN]
      /\ seen \in [Managers -> BOOLEAN] /\ calling \in [Managers -> BOOLEAN]
  BY DEF Init
<1>5. /\ view \in [Managers -> Ends \cup {"none", "running"}]
      /\ watch \in [Managers -> {"none", "wait", "poll", "lost"}]
  BY DEF Init
<1>6. /\ openings \in 0..MaxOpens /\ faults \in 0..MaxFaults /\ deletions \in 0..MaxDeletions
  BY JobAssumption DEF Init
<1> QED
  BY <1>2, <1>3, <1>4, <1>5, <1>6 DEF Init, TypeOK, EraserSteps

LEMMA WorkerTypeOK ==
  ASSUME TypeOK, WorkerStep \/ WorkerChance
  PROVE  TypeOK'
<1> USE DEF WorkerStep, WorkerChance, WorkerPublishes, WorkerStarts, WorkerCannotStart,
        WorkerReaps, WorkerHearsStop, WorkerEnds, WorkerExits, PayloadExits, WorkerTimesOut
<1>1. worker' \in {"none", "forked", "running", "ended", "written", "gone"}
  BY DEF TypeOK
<1>2. files' \in SUBSET JobFiles /\ dir' \in BOOLEAN
  BY DEF TypeOK, diskVars, JobFiles
<1>3. /\ outcome' \in Outcomes \cup {"none"}
      /\ payload' \in {"none", "running", "exited"}
      /\ published' \in BOOLEAN /\ stop' \in BOOLEAN
  BY DEF TypeOK, Outcomes
<1> QED
  BY <1>1, <1>2, <1>3, WorkerFrame DEF TypeOK

LEMMA EraserTypeOK ==
  ASSUME TypeOK, EraserStep
  PROVE  TypeOK'
<1> USE DEF EraserStep, BeginErase, Inspect, EraserRemoves, EraserReturns
<1>1. files' \in SUBSET JobFiles /\ dir' \in BOOLEAN
  BY DEF TypeOK, diskVars
<1>2. holder' \in Managers \cup {NoOne, Eraser} /\ eraser' \in EraserSteps
  BY DEF TypeOK, EraserSteps
<1>3. deletions' \in 0..MaxDeletions
  BY JobAssumption DEF TypeOK
<1> QED
  BY <1>1, <1>2, <1>3, EraserFrame DEF TypeOK

\* A manager that finds the FIFO remembers which it is.
LEMMA PinnedType ==
  ASSUME TypeOK, NEW m \in Managers, pinned' = [pinned EXCEPT ![m] = "control" \in files]
  PROVE  pinned' \in [Managers -> BOOLEAN]
<1> DEFINE found == "control" \in files
<1>1. found \in BOOLEAN
  OBVIOUS
<1>2. pinned' = [pinned EXCEPT ![m] = found]
  OBVIOUS
<1> HIDE DEF found
<1> QED
  BY <1>1, <1>2 DEF TypeOK

LEMMA AttachTypeOK ==
  ASSUME TypeOK, NEW m \in Managers, AttachStep(m)
  PROVE  TypeOK'
<1> USE DEF AttachStep, Attach, SettleRead, SettleProbe, SettleReread, Unmark, AdoptRead,
        AdoptProbe, AdoptReread, Attached, Adopt, viewVars
<1>1. at' \in [Managers -> [Threads -> Steps]]
  BY Went DEF TypeOK, Steps, AttachSteps, Threads
<1>2. files' \in SUBSET JobFiles /\ job' \in {"unborn", "made", "given", "refused"}
  BY DEF TypeOK, diskVars
<1>3. view' \in [Managers -> Ends \cup {"none", "running"}]
  BY DEF TypeOK, Ends
<1>4. loaded' \in [Managers -> BOOLEAN]
  BY DEF TypeOK
<1>5. \/ UNCHANGED pinned
      \/ pinned' = [pinned EXCEPT ![m] = "control" \in files]
  OBVIOUS
<1>6. pinned' \in [Managers -> BOOLEAN]
  BY <1>5, PinnedType DEF TypeOK
<1>7. watch' \in [Managers -> {"none", "wait", "poll", "lost"}]
  BY DEF TypeOK
<1> QED
  BY <1>1, <1>2, <1>3, <1>4, <1>6, <1>7, AttachFrame DEF TypeOK

LEMMA LaunchTypeOK ==
  ASSUME TypeOK, NEW m \in Managers, Launch(m) \/ LaunchStep(m)
  PROVE  TypeOK'
<1> USE DEF Launch, LaunchStep, Describe, Pipe, Fork, HandOff, Register, AwaitRefused,
        viewVars
<1>1. at' \in [Managers -> [Threads -> Steps]]
  BY Went DEF TypeOK, Steps, LaunchSteps, Threads
<1>2. /\ dir' \in BOOLEAN /\ files' \in SUBSET JobFiles
      /\ job' \in {"unborn", "made", "given", "refused"}
      /\ lease' \in Managers \cup {NoOne}
  BY DEF TypeOK, JobFiles, diskVars
<1>3. /\ worker' \in {"none", "forked", "running", "ended", "written", "gone"}
      /\ stop' \in BOOLEAN
  BY DEF TypeOK, workerVars, Live
<1>4. view' \in [Managers -> Ends \cup {"none", "running"}] /\ pinned' \in [Managers -> BOOLEAN]
  BY DEF TypeOK
<1>5. watch' \in [Managers -> {"none", "wait", "poll", "lost"}]
  BY DEF TypeOK
<1> QED
  BY <1>1, <1>2, <1>3, <1>4, <1>5, LaunchFrame DEF TypeOK

\* Learning of an end, or that there is none yet.
LEMMA LearnTypes ==
  ASSUME TypeOK, NEW m \in Managers, NEW v \in Ends \cup {"none", "running"}, Learn(m, v)
  PROVE  /\ view' \in [Managers -> Ends \cup {"none", "running"}]
         /\ watch' \in [Managers -> {"none", "wait", "poll", "lost"}]
BY DEF TypeOK, Learn

LEMMA ForgetTypes ==
  ASSUME TypeOK, NEW m \in Managers, Forget(m)
  PROVE  /\ view' \in [Managers -> Ends \cup {"none", "running"}]
         /\ watch' \in [Managers -> {"none", "wait", "poll", "lost"}]
         /\ pinned' \in [Managers -> BOOLEAN]
         /\ seen' \in [Managers -> BOOLEAN]
BY DEF TypeOK, Forget

\* What the worker is to write is an end, or not decided.
LEMMA RefreshedType ==
  ASSUME TypeOK, NEW m \in Managers
  PROVE  Refreshed(m) \in Ends \cup {"none", "running"}
BY DEF TypeOK, Refreshed, Ends

LEMMA WatchTypeOK ==
  ASSUME TypeOK, NEW m \in Managers, WatchStep(m)
  PROVE  TypeOK'
<1> USE DEF WatchStep, Observe, Missed, Derive
<1>1. {outcome, "abandoned"} \subseteq Ends \cup {"none"}
  BY DEF TypeOK, Ends
<1>2. /\ view' \in [Managers -> Ends \cup {"none", "running"}]
      /\ watch' \in [Managers -> {"none", "wait", "poll", "lost"}]
  <2>1. CASE UNCHANGED view
    BY <2>1 DEF TypeOK, Learn
  <2>2. CASE Learn(m, outcome) \/ Learn(m, "abandoned")
    BY <2>2, <1>1, LearnTypes
  <2> QED
    BY <2>1, <2>2
<1>3. faults' \in 0..MaxFaults
  BY JobAssumption DEF TypeOK
<1> QED
  BY <1>2, <1>3, WatchFrame DEF TypeOK

LEMMA StopTypeOK ==
  ASSUME TypeOK, NEW m \in Managers, NEW t \in Threads, StopStep(m, t)
  PROVE  TypeOK'
<1> USE DEF StopStep, StopWrite, StopRefresh, StopProbe, StopReread, StopWait, StopReturns
<1>1. at' \in [Managers -> [Threads -> Steps]]
  BY Went DEF TypeOK, Steps, StopSteps, Threads
<1>2. stop' \in BOOLEAN /\ calling' \in [Managers -> BOOLEAN]
  BY DEF TypeOK, Live
<1>3. \/ Forget(m) \/ UNCHANGED viewVars
      \/ UNCHANGED <<pinned, seen>> /\ \E v \in Ends \cup {"none", "running"} : Learn(m, v)
  BY RefreshedType DEF Ends
<1>4. /\ view' \in [Managers -> Ends \cup {"none", "running"}]
      /\ watch' \in [Managers -> {"none", "wait", "poll", "lost"}]
      /\ pinned' \in [Managers -> BOOLEAN]
      /\ seen' \in [Managers -> BOOLEAN]
  BY <1>3, ForgetTypes, LearnTypes DEF TypeOK, viewVars
<1> QED
  BY <1>1, <1>2, <1>4, StopFrame DEF TypeOK

\* The journal tells of ends.
LEMMA TellsType ==
  ASSUME TypeOK, NEW m \in Managers, Settled(m), Tells(m)
  PROVE  told' \in Seq(Ends)
<1>1. view[m] \in Ends
  BY DEF Settled
<1> QED
  BY <1>1 DEF Tells, TypeOK

LEMMA UseTypeOK ==
  ASSUME TypeOK, NEW m \in Managers, Reporting(m), UseStep(m)
  PROVE  TypeOK'
<1> USE DEF UseStep, StopJob, Call, ShowJob, Report, Announce, Sync, Ack
<1>1. at' \in [Managers -> [Threads -> Steps]]
  BY Went DEF TypeOK, Steps, StopSteps, Threads
<1>2. files' \in SUBSET JobFiles
  <2>1. UNCHANGED files \/ files' = files \cup {"delivered"}
    OBVIOUS
  <2> QED
    BY <2>1 DEF TypeOK, JobFiles
<1>3. announced' \in BOOLEAN /\ calling' \in [Managers -> BOOLEAN]
  BY DEF TypeOK
<1>4. told' \in Seq(Ends)
  <2>1. CASE UNCHANGED told
    BY <2>1 DEF TypeOK
  <2>2. CASE Tells(m) /\ Settled(m)
    BY <2>2, TellsType
  <2>3. UNCHANGED told \/ (Tells(m) /\ Settled(m))
    BY DEF Reporting
  <2> QED
    BY <2>1, <2>2, <2>3
<1>5. \/ Forget(m) \/ UNCHANGED viewVars
      \/ /\ Learn(m, Refreshed(m)) /\ UNCHANGED pinned
         /\ UNCHANGED seen \/ seen' = [seen EXCEPT ![m] = TRUE]
  BY DEF viewVars
<1>6. /\ view' \in [Managers -> Ends \cup {"none", "running"}]
      /\ watch' \in [Managers -> {"none", "wait", "poll", "lost"}]
      /\ pinned' \in [Managers -> BOOLEAN]
      /\ seen' \in [Managers -> BOOLEAN]
  BY <1>5, ForgetTypes, LearnTypes, RefreshedType DEF TypeOK, viewVars
<1> HIDE DEF UseStep, StopJob, Call, ShowJob, Report, Announce, Sync, Ack
<1> QED
  BY <1>1, <1>2, <1>3, <1>4, <1>6, UseFrame DEF TypeOK

LEMMA LeaveTypeOK ==
  ASSUME TypeOK, NEW m \in Managers, LeaveStep(m)
  PROVE  TypeOK'
<1> USE DEF LeaveStep, BeginExit, BeginSwitch, BeginLeaving, Settle, Exit, Switch, Crash, Down
<1>1. at' \in [Managers -> [Threads -> Steps]]
  <2>1. CASE \E t \in Threads, s \in Steps : Go(m, t, s)
    BY <2>1, Went DEF TypeOK
  <2>2. CASE at' = [at EXCEPT ![m] = [t \in Threads |-> "idle"]]
    BY <2>2 DEF TypeOK, Steps
  <2> QED
    BY <2>1, <2>2 DEF Steps, StopSteps, Threads
<1>2. /\ up' \in [Managers -> BOOLEAN] /\ closed' \in [Managers -> BOOLEAN]
      /\ loaded' \in [Managers -> BOOLEAN] /\ calling' \in [Managers -> BOOLEAN]
  BY DEF TypeOK
<1>3. holder' \in Managers \cup {NoOne, Eraser} /\ lease' \in Managers \cup {NoOne}
  BY DEF TypeOK, LeaveOnly
<1>4. Forget(m) \/ UNCHANGED viewVars
  OBVIOUS
<1>5. /\ view' \in [Managers -> Ends \cup {"none", "running"}]
      /\ watch' \in [Managers -> {"none", "wait", "poll", "lost"}]
      /\ pinned' \in [Managers -> BOOLEAN]
      /\ seen' \in [Managers -> BOOLEAN]
  BY <1>4, ForgetTypes DEF TypeOK, viewVars
<1> HIDE DEF LeaveStep, BeginExit, BeginSwitch, BeginLeaving, Settle, Exit, Switch, Crash, Down
<1> QED
  BY <1>1, <1>2, <1>3, <1>5, LeaveFrame DEF TypeOK

LEMMA PurgeTypeOK ==
  ASSUME TypeOK, NEW m \in Managers, NEW t \in Threads, Purge(m, t)
  PROVE  TypeOK'
<1>1. at' \in [Managers -> [Threads -> Steps]]
  BY Went DEF TypeOK, Steps, Threads, Purge, Attached
<1>2. files' \in SUBSET JobFiles /\ dir' \in BOOLEAN /\ loaded' \in [Managers -> BOOLEAN]
  BY DEF TypeOK, Purge, Attached
<1> QED
  BY <1>1, <1>2, PurgeFrame DEF TypeOK

LEMMA ResumeTypeOK ==
  ASSUME TypeOK, NEW m \in Managers, Resume(m)
  PROVE  TypeOK'
<1>1. at' \in [Managers -> [Threads -> Steps]]
  BY Went DEF TypeOK, Steps, AttachSteps, Threads, Resume
<1>2. openings' \in 0..MaxOpens
  BY JobAssumption DEF TypeOK, Resume
<1>3. up' \in [Managers -> BOOLEAN]
  BY DEF TypeOK, Resume
<1> QED
  BY <1>1, <1>2, <1>3 DEF TypeOK, Resume, diskVars, workerVars, viewVars

LEMMA NextTypeOK ==
  ASSUME TypeOK, \A m \in Managers : Reporting(m), [Next]_vars
  PROVE  TypeOK'
<1>1. ASSUME NEW m \in Managers, ManagerStep(m) PROVE TypeOK'
  BY <1>1, ResumeTypeOK, AttachTypeOK, LaunchTypeOK, WatchTypeOK, UseTypeOK, LeaveTypeOK,
     StopTypeOK, PurgeTypeOK DEF ManagerStep
<1>2. CASE UNCHANGED vars
  BY <1>2, StillFrame DEF TypeOK
<1> QED
  BY <1>1, <1>2, NextCases, WorkerTypeOK, EraserTypeOK

-----------------------------------------------------------------------------
(* Threads.                                                                *)

LEMMA AttachMoves ==
  ASSUME TypeOK, NEW m \in Managers, AttachStep(m)
  PROVE  \E s \in AttachSteps \cup {"purge", "sync"} :
           /\ Go(m, "tool", s)
           /\ at[m]["tool"] \in AttachSteps
           /\ s = "sync" => loaded' = [loaded EXCEPT ![m] = TRUE]
           /\ s # "sync" => UNCHANGED loaded
BY DEF AttachStep, Attach, SettleRead, SettleProbe, SettleReread, Unmark, AdoptRead,
       AdoptProbe, AdoptReread, Attached, Adopt, AttachSteps

LEMMA LaunchMoves ==
  ASSUME TypeOK, NEW m \in Managers, LaunchStep(m)
  PROVE  \E s \in LaunchSteps \cup {"purge", "idle", "call"} :
           /\ Go(m, "tool", s)
           /\ at[m]["tool"] \in LaunchSteps
           /\ s = "call" => kind = "called"
BY DEF LaunchStep, Describe, Pipe, Fork, HandOff, Register, AwaitRefused, LaunchSteps

\* The read side of the FIFO is held from before the fork until after it.
LEMMA LaunchHolds ==
  ASSUME TypeOK, NEW m \in Managers, Orderly(m), LaunchStep(m)
  PROVE  /\ lease' \in {lease, m, NoOne}
         /\ lease' = m => at'[m]["tool"] \in {"fork", "handoff"}
         /\ lease' = m => lease = m \/ at[m]["tool"] = "pipe"
<1> USE JobAssumption DEF Steps, AttachSteps, LaunchSteps, Threads
<1>1. CASE Pipe(m)
  BY <1>1, Went DEF Pipe, Orderly, TypeOK
<1>2. CASE Fork(m)
  BY <1>2, Went DEF Fork, Orderly, TypeOK
<1>3. CASE HandOff(m)
  BY <1>3 DEF HandOff
<1>4. CASE Describe(m) \/ Register(m) \/ AwaitRefused(m)
  BY <1>4 DEF Describe, Register, AwaitRefused, Orderly
<1> QED
  BY <1>1, <1>2, <1>3, <1>4 DEF LaunchStep

LEMMA StopMoves ==
  ASSUME TypeOK, NEW m \in Managers, NEW t \in Threads, StopStep(m, t)
  PROVE  \E s \in StopSteps \cup {"idle", "report", "settle", "retain"} :
           /\ Go(m, t, s)
           /\ at[m][t] \in StopSteps
           /\ s \in {"idle", "report"} => t = "tool"
           /\ s \in {"settle", "retain"} => t = "closer"
           /\ UNCHANGED calling \/ calling' = [calling EXCEPT ![m] = FALSE]
BY DEF StopStep, StopWrite, StopRefresh, StopProbe, StopReread, StopWait, StopReturns,
       StopSteps, Threads

LEMMA UseMoves ==
  ASSUME TypeOK, NEW m \in Managers, UseStep(m)
  PROVE  \E s \in {"stop_write", "idle", "report", "ack"} :
           /\ Go(m, "tool", s)
           /\ (Idle(m) /\ holder = m) \/ at[m]["tool"] \in {"call", "report", "sync", "ack"}
BY DEF UseStep, StopJob, Call, ShowJob, Report, Announce, Sync, Ack

LEMMA UseCalls ==
  ASSUME TypeOK, NEW m \in Managers, UseStep(m)
  PROVE  \/ UNCHANGED calling
         \/ calling' = [calling EXCEPT ![m] = TRUE] /\ at[m]["tool"] = "call"
BY DEF UseStep, StopJob, Call, ShowJob, Report, Announce, Sync, Ack

\* Who leaves and goes on, and who is gone.
LEMMA LeaveMoves ==
  ASSUME TypeOK, NEW m \in Managers, LeaveStep(m)
  PROVE  \/ Down(m)
         \/ /\ \E s \in {"stop_write", "settle", "purge", "release", "idle"} : Go(m, "closer", s)
            /\ UNCHANGED <<up, calling, lease>>
BY DEF LeaveStep, BeginExit, BeginSwitch, BeginLeaving, Settle, Exit, Switch, Crash, LeaveOnly

LEMMA PurgeMoves ==
  ASSUME TypeOK, NEW m \in Managers, NEW t \in Threads, Purge(m, t)
  PROVE  \/ UNCHANGED <<at, loaded>>
         \/ t = "tool" /\ Go(m, "tool", "sync") /\ loaded' = [loaded EXCEPT ![m] = TRUE]
         \/ t = "closer" /\ Go(m, "closer", "release") /\ UNCHANGED loaded
BY DEF Purge, Attached, Threads

\* What a step of one process leaves alone of another.
Same(n) ==
  /\ at'[n] = at[n] /\ up'[n] = up[n] /\ closed'[n] = closed[n]
  /\ loaded'[n] = loaded[n] /\ calling'[n] = calling[n]
  /\ view'[n] = view[n] /\ watch'[n] = watch[n] /\ pinned'[n] = pinned[n]
  /\ seen'[n] = seen[n]

LEMMA Apart ==
  ASSUME TypeOK, NEW m \in Managers, ManagerStep(m), NEW n \in Managers, n # m
  PROVE  Same(n)
<1>1. CASE Resume(m)
  BY <1>1, Went DEF Same, Resume, viewVars, Steps, AttachSteps, Threads, TypeOK
<1>2. CASE AttachStep(m)
  <2>1. at'[n] = at[n] /\ loaded'[n] = loaded[n]
    BY <1>2, AttachMoves, Went DEF TypeOK, Steps, AttachSteps, Threads
  <2>2. view'[n] = view[n] /\ watch'[n] = watch[n] /\ pinned'[n] = pinned[n]
    BY <1>2 DEF AttachStep, Attach, SettleRead, SettleProbe, SettleReread, Unmark, AdoptRead,
       AdoptProbe, AdoptReread, Adopt, viewVars, TypeOK
  <2> QED
    BY <1>2, <2>1, <2>2, AttachFrame DEF Same
<1>3. CASE Launch(m) \/ LaunchStep(m)
  <2>1. at'[n] = at[n]
    BY <1>3, LaunchMoves, Went DEF TypeOK, Steps, LaunchSteps, Threads, Launch
  <2>2. view'[n] = view[n] /\ watch'[n] = watch[n] /\ pinned'[n] = pinned[n]
    BY <1>3 DEF Launch, LaunchStep, Describe, Pipe, Fork, HandOff, Register, AwaitRefused,
       viewVars, TypeOK
  <2> QED
    BY <1>3, <2>1, <2>2, LaunchFrame DEF Same
<1>4. CASE WatchStep(m)
  <2>1. view'[n] = view[n] /\ watch'[n] = watch[n]
    BY <1>4 DEF WatchStep, Observe, Missed, Derive, Learn, TypeOK
  <2> QED
    BY <1>4, <2>1, WatchFrame DEF Same
<1>5. CASE UseStep(m)
  <2>1. at'[n] = at[n]
    <3>1. PICK s \in Steps : Go(m, "tool", s)
      BY <1>5, UseMoves DEF Steps, StopSteps
    <3> QED
      BY <3>1, Went DEF TypeOK, Threads
  <2>3. calling'[n] = calling[n]
    BY <1>5, UseCalls DEF TypeOK
  <2>2. /\ view'[n] = view[n] /\ watch'[n] = watch[n] /\ pinned'[n] = pinned[n]
        /\ seen'[n] = seen[n]
    BY <1>5 DEF UseStep, StopJob, Call, ShowJob, Report, Announce, Sync, Ack, Learn, Forget,
       viewVars, TypeOK
  <2> QED
    BY <1>5, <2>1, <2>2, <2>3, UseFrame DEF Same
<1>6. CASE LeaveStep(m)
  <2>1. CASE Down(m)
    BY <2>1 DEF Same, Down, Forget, TypeOK
  <2>2. CASE ~Down(m)
    <3>1. at'[n] = at[n] /\ UNCHANGED <<up, calling>>
      <4>1. UNCHANGED <<up, calling>> /\ \E s \in Steps : Go(m, "closer", s)
        BY <1>6, <2>2, LeaveMoves DEF Steps, StopSteps
      <4> QED
        BY <4>1, Went DEF TypeOK, Threads
    <3>2. /\ view'[n] = view[n] /\ watch'[n] = watch[n] /\ pinned'[n] = pinned[n]
          /\ seen'[n] = seen[n] /\ loaded'[n] = loaded[n] /\ closed'[n] = closed[n]
      BY <1>6, <2>2 DEF LeaveStep, BeginExit, BeginSwitch, Settle, Exit, Switch, Crash, Forget,
         viewVars, TypeOK
    <3> QED
      BY <3>1, <3>2 DEF Same
  <2> QED
    BY <2>1, <2>2
<1>7. ASSUME NEW t \in Threads, StopStep(m, t) PROVE Same(n)
  <2>1. at'[n] = at[n] /\ calling'[n] = calling[n]
    BY <1>7, StopMoves, Went DEF TypeOK, Steps, StopSteps, Threads
  <2>2. /\ view'[n] = view[n] /\ watch'[n] = watch[n] /\ pinned'[n] = pinned[n]
        /\ seen'[n] = seen[n]
    BY <1>7 DEF StopStep, StopWrite, StopRefresh, StopProbe, StopReread, StopWait, StopReturns,
       Learn, Forget, viewVars, TypeOK
  <2> QED
    BY <1>7, <2>1, <2>2, StopFrame DEF Same
<1>8. ASSUME NEW t \in Threads, Purge(m, t) PROVE Same(n)
  BY <1>8, PurgeMoves, PurgeFrame, Went DEF Same, TypeOK, Steps, Threads
<1> QED
  BY <1>1, <1>2, <1>3, <1>4, <1>5, <1>6, <1>7, <1>8 DEF ManagerStep

\* The lock of the journal stays with another process that has it.
LEMMA HolderKept ==
  ASSUME TypeOK, NEW m \in Managers, Orderly(m), ManagerStep(m), NEW n \in Managers, n # m
  PROVE  holder = n => holder' = n
<1>1. CASE Resume(m)
  BY <1>1, JobAssumption DEF Resume
<1>2. CASE LeaveStep(m)
  BY <1>2 DEF LeaveStep, BeginExit, BeginSwitch, Settle, Exit, Switch, Crash, Down, Orderly
<1> QED
  BY <1>1, <1>2, AttachFrame, LaunchFrame, WatchFrame, UseFrame, StopFrame, PurgeFrame
     DEF ManagerStep

\* Nobody else gets the read side of the FIFO.
LEMMA LeaseOwn ==
  ASSUME TypeOK, NEW m \in Managers, Orderly(m), ManagerStep(m)
  PROVE  lease' \in {lease, m, NoOne}
<1>1. CASE Resume(m) \/ Launch(m)
  BY <1>1 DEF Resume, Launch
<1>2. CASE LeaveStep(m)
  BY <1>2, LeaveMoves DEF Down
<1> QED
  BY <1>1, <1>2, LaunchHolds, AttachFrame, WatchFrame, UseFrame, StopFrame, PurgeFrame
     DEF ManagerStep

LEMMA OthersOrderly ==
  ASSUME TypeOK, NEW m \in Managers, Orderly(m), ManagerStep(m),
         NEW n \in Managers, n # m, Orderly(n)
  PROVE  Orderly(n)'
<1>1. kind' = kind
  BY AttachFrame, LaunchFrame, WatchFrame, UseFrame, StopFrame, PurgeFrame, LeaveFrame
     DEF ManagerStep, Resume
<1>2. lease' = n => lease = n
  BY LeaseOwn, JobAssumption
<1> QED
  BY <1>1, <1>2, HolderKept, Apart DEF Same, Orderly

LEMMA AttachOrderly ==
  ASSUME TypeOK, NEW m \in Managers, Orderly(m), AttachStep(m)
  PROVE  Orderly(m)'
BY AttachMoves, Went, AttachFrame DEF Orderly, TypeOK, Steps, AttachSteps, LaunchSteps,
   StopSteps, Threads, ToolSteps, CloserSteps

LEMMA LaunchOrderly ==
  ASSUME TypeOK, NEW m \in Managers, Orderly(m), Launch(m) \/ LaunchStep(m)
  PROVE  Orderly(m)'
<1> USE DEF Steps, AttachSteps, LaunchSteps, StopSteps, Threads, ToolSteps, CloserSteps
<1>1. CASE Launch(m)
  BY <1>1, LaunchFrame, Went DEF Launch, Idle, Orderly, TypeOK
<1>2. CASE LaunchStep(m)
  BY <1>2, LaunchMoves, LaunchHolds, LaunchFrame, Went DEF Orderly, TypeOK
<1> QED
  BY <1>1, <1>2

LEMMA StopOrderly ==
  ASSUME TypeOK, NEW m \in Managers, Orderly(m), NEW t \in Threads, StopStep(m, t)
  PROVE  Orderly(m)'
<1> USE DEF Steps, AttachSteps, LaunchSteps, StopSteps, Threads, ToolSteps, CloserSteps
<1>1. CASE t = "tool"
  BY <1>1, StopMoves, StopFrame, Went DEF Orderly, TypeOK
<1>2. CASE t = "closer"
  BY <1>2, StopMoves, StopFrame, Went DEF Orderly, TypeOK
<1> QED
  BY <1>1, <1>2

LEMMA UseOrderly ==
  ASSUME TypeOK, NEW m \in Managers, Orderly(m), UseStep(m)
  PROVE  Orderly(m)'
BY UseMoves, UseCalls, UseFrame, Went DEF Idle, Orderly, TypeOK, Steps, AttachSteps,
   LaunchSteps, StopSteps, Threads, ToolSteps, CloserSteps

LEMMA LeaveOrderly ==
  ASSUME TypeOK, NEW m \in Managers, Orderly(m), LeaveStep(m)
  PROVE  Orderly(m)'
<1> USE DEF Steps, AttachSteps, LaunchSteps, StopSteps, Threads, ToolSteps, CloserSteps
<1>1. CASE Down(m)
  BY <1>1, JobAssumption DEF Down, Forget, Orderly, TypeOK
<1>2. CASE BeginExit(m)
  BY <1>2, Went DEF BeginExit, BeginLeaving, LeaveOnly, Orderly, TypeOK
<1>3. CASE BeginSwitch(m)
  BY <1>3, Went DEF BeginSwitch, BeginLeaving, LeaveOnly, Idle, Orderly, TypeOK
<1>4. CASE Settle(m)
  BY <1>4, Went DEF Settle, LeaveOnly, Orderly, TypeOK
<1>5. CASE Switch(m)
  BY <1>5, Went DEF Switch, LeaveOnly, Orderly, TypeOK
<1> QED
  BY <1>1, <1>2, <1>3, <1>4, <1>5 DEF LeaveStep, Exit, Crash

LEMMA PurgeOrderly ==
  ASSUME TypeOK, NEW m \in Managers, Orderly(m), NEW t \in Threads, Purge(m, t)
  PROVE  Orderly(m)'
<1> USE PurgeFrame DEF Steps, AttachSteps, LaunchSteps, StopSteps, Threads, ToolSteps,
        CloserSteps
<1>1. at[m][t] = "purge"
  BY DEF Purge
<1>2. CASE UNCHANGED <<at, loaded>>
  BY <1>2 DEF Orderly
<1>3. CASE t = "tool" /\ Go(m, "tool", "sync") /\ loaded' = [loaded EXCEPT ![m] = TRUE]
  BY <1>1, <1>3, Went DEF Orderly, TypeOK
<1>4. CASE t = "closer" /\ Go(m, "closer", "release") /\ UNCHANGED loaded
  BY <1>1, <1>4, Went DEF Orderly, TypeOK
<1> QED
  BY <1>2, <1>3, <1>4, PurgeMoves

\* Every step keeps the threads of every process in order.
LEMMA NextOrderly ==
  ASSUME TypeOK, \A n \in Managers : Orderly(n), [Next]_vars
  PROVE  \A n \in Managers : Orderly(n)'
<1>1. ASSUME NEW m \in Managers, ManagerStep(m) PROVE Orderly(m)'
  <2>1. CASE Resume(m)
    BY <2>1, Went DEF Resume, Orderly, TypeOK, Steps, AttachSteps, LaunchSteps, StopSteps,
       Threads, ToolSteps, CloserSteps
  <2>2. CASE WatchStep(m)
    BY <2>2, WatchFrame DEF Orderly
  <2> QED
    BY <1>1, <2>1, <2>2, AttachOrderly, LaunchOrderly, StopOrderly, UseOrderly,
       LeaveOrderly, PurgeOrderly DEF ManagerStep
<1>2. ASSUME NEW m \in Managers, ManagerStep(m), NEW n \in Managers PROVE Orderly(n)'
  BY <1>1, <1>2, OthersOrderly
<1>3. CASE EraserStep
  <2>1. \A n \in Managers : holder = n => holder' = n
    BY <1>3, JobAssumption DEF EraserStep, BeginErase, Inspect, EraserRemoves, EraserReturns
  <2> QED
    BY <1>3, <2>1, EraserFrame DEF Orderly
<1>4. CASE WorkerStep \/ WorkerChance \/ UNCHANGED vars
  BY <1>4, WorkerFrame, StillFrame DEF Orderly
<1> QED
  BY <1>2, <1>3, <1>4, NextCases

-----------------------------------------------------------------------------
(* The worker.                                                             *)

\* Only a worker writes a result.
LEMMA ResultWritten ==
  ASSUME [Next]_vars, "result" \notin files, "result" \in files'
  PROVE  WorkerStep
<1>2. CASE WorkerChance
  BY <1>2 DEF WorkerChance, diskVars
<1>3. CASE EraserStep
  BY <1>3 DEF EraserStep, BeginErase, Inspect, EraserRemoves, EraserReturns, diskVars
<1>4. ASSUME NEW m \in Managers, ManagerStep(m) PROVE FALSE
  <2>1. CASE AttachStep(m)
    BY <2>1 DEF AttachStep, Attach, SettleRead, SettleProbe, SettleReread, Unmark, AdoptRead,
       AdoptProbe, AdoptReread, diskVars
  <2>2. CASE LaunchStep(m)
    BY <2>2 DEF LaunchStep, Describe, Pipe, Fork, HandOff, Register, AwaitRefused, diskVars
  <2>3. CASE UseStep(m)
    BY <2>3 DEF UseStep, StopJob, Call, ShowJob, Report, Announce, Sync, Ack
  <2>4. ASSUME NEW t \in Threads, Purge(m, t) PROVE FALSE
    BY <2>4 DEF Purge
  <2> QED
    BY <1>4, <2>1, <2>2, <2>3, <2>4, WatchFrame, StopFrame, LeaveFrame
       DEF ManagerStep, Resume, Launch, diskVars
<1> QED
  BY <1>2, <1>3, <1>4, NextCases, StillFrame

\* Managers and erasers change nothing of a worker but fork it and ask it to stop.
LEMMA OnlyForked ==
  ASSUME [Next]_vars, ~WorkerStep, ~WorkerChance
  PROVE  /\ UNCHANGED <<payload, outcome, published>>
         /\ UNCHANGED worker \/ (worker' = "forked" /\ \E m \in Managers : Fork(m))
<1>1. ASSUME NEW m \in Managers, LaunchStep(m)
      PROVE UNCHANGED worker \/ (worker' = "forked" /\ Fork(m))
  BY <1>1 DEF LaunchStep, Describe, Pipe, Fork, HandOff, Register, AwaitRefused, workerVars
<1>2. ASSUME NEW m \in Managers, ManagerStep(m)
      PROVE  /\ UNCHANGED <<payload, outcome, published>>
             /\ UNCHANGED worker \/ (worker' = "forked" /\ Fork(m))
  BY <1>1, <1>2, AttachFrame, LaunchFrame, WatchFrame, UseFrame, StopFrame, LeaveFrame, PurgeFrame
     DEF ManagerStep, Resume, Launch, workerVars
<1> QED
  BY <1>2, EraserFrame, StillFrame, NextCases

LEMMA NextWorkerTruthful ==
  ASSUME TypeOK, WorkerTruthful, \A m \in Managers : Launching(m), [Next]_vars
  PROVE  WorkerTruthful'
<1>1. CASE WorkerStep
  BY <1>1 DEF WorkerStep, WorkerPublishes, WorkerStarts, WorkerCannotStart,
     WorkerReaps, WorkerHearsStop, WorkerEnds, WorkerExits, WorkerLives, WorkerTruthful, TypeOK,
     Outcomes, diskVars
<1>2. CASE WorkerChance
  BY <1>2 DEF WorkerChance, WorkerEnds, WorkerExits, PayloadExits, WorkerTimesOut, WorkerLives,
     WorkerTruthful, TypeOK, Outcomes, diskVars
<1>3. CASE ~WorkerStep /\ ~WorkerChance
  <2>1. "result" \in files' => "result" \in files
    BY <1>3, ResultWritten
  <2>2. CASE UNCHANGED worker
    BY <1>3, <2>1, <2>2, OnlyForked DEF WorkerTruthful
  <2>3. ASSUME NEW m \in Managers, Fork(m), worker' = "forked" PROVE WorkerTruthful'
    <3>1. worker = "none"
      BY <2>3 DEF Fork, Launching
    <3> QED
      BY <1>3, <2>1, <2>3, <3>1, OnlyForked DEF WorkerTruthful
  <2> QED
    BY <1>3, <2>2, <2>3, OnlyForked
<1> QED
  BY <1>1, <1>2, <1>3

-----------------------------------------------------------------------------
(* What stays as it is.                                                    *)

\* The journal forgets nothing.
LEMMA ToldGrows ==
  ASSUME TypeOK, \A m \in Managers : Reporting(m), [Next]_vars
  PROVE  \/ told' = told
         \/ \E m \in Managers : /\ UseStep(m) /\ Settled(m)
                                /\ told' = Append(told, view[m])
<1>1. ASSUME NEW m \in Managers, UseStep(m)
      PROVE told' = told \/ (Settled(m) /\ told' = Append(told, view[m]))
  BY <1>1 DEF UseStep, StopJob, Call, ShowJob, Report, Announce, Sync, Ack, Tells, Reporting
<1>2. ASSUME NEW m \in Managers, ManagerStep(m)
      PROVE told' = told \/ (UseStep(m) /\ Settled(m) /\ told' = Append(told, view[m]))
  BY <1>1, <1>2, AttachFrame, LaunchFrame, WatchFrame, StopFrame, LeaveFrame, PurgeFrame
     DEF ManagerStep, Resume
<1> QED
  BY <1>2, NextCases, WorkerFrame, EraserFrame, StillFrame

LEMMA ToldStays ==
  ASSUME TypeOK, \A m \in Managers : Reporting(m), [Next]_vars, told # <<>>
  PROVE  told' # <<>> /\ Head(told') = Head(told)
<1>1. ASSUME NEW m \in Managers, Settled(m), told' = Append(told, view[m])
      PROVE  told' # <<>> /\ Head(told') = Head(told)
  <2>1. view[m] \in Ends /\ told \in Seq(Ends)
    BY <1>1 DEF Settled, TypeOK
  <2> QED
    BY <1>1, <2>1
<1> QED
  BY <1>1, ToldGrows

\* The place of a job in its life.
LEMMA JobAdvances ==
  ASSUME [Next]_vars, \A m \in Managers : Launching(m)
  PROVE  /\ job = "given" => job' = "given"
         /\ job = "refused" => job' = "refused"
         /\ job' = "made" => job = "made" \/ \E m \in Managers : Launch(m)
         /\ job' = "unborn" => job = "unborn"
<1>1. ASSUME NEW m \in Managers, AttachStep(m)
      PROVE job' = job \/ (job # "refused" /\ job' = "given")
  BY <1>1 DEF AttachStep, Attach, SettleRead, SettleProbe, SettleReread, Unmark, AdoptRead,
     AdoptProbe, AdoptReread, Adopt
<1>2. ASSUME NEW m \in Managers, LaunchStep(m)
      PROVE job' = job \/ (job = "made" /\ job' \in {"given", "refused"})
  BY <1>2 DEF LaunchStep, Describe, Pipe, Fork, HandOff, Register, AwaitRefused, Launching,
     BirthSteps
<1>3. ASSUME NEW m \in Managers, Launch(m) PROVE job = "unborn" /\ job' = "made"
  BY <1>3 DEF Launch
<1>4. job' = job \/ \E m \in Managers : AttachStep(m) \/ LaunchStep(m) \/ Launch(m)
  BY NextCases, WatchFrame, UseFrame, StopFrame, LeaveFrame, PurgeFrame, WorkerFrame,
     EraserFrame, StillFrame DEF ManagerStep, Resume
<1> QED
  BY <1>1, <1>2, <1>3, <1>4

\* Where the worker can go.
LEMMA WorkerAdvances ==
  ASSUME TypeOK, WorkerTruthful, \A m \in Managers : Launching(m), [Next]_vars
  PROVE  /\ worker = "gone" => worker' = "gone"
         /\ worker = "none" /\ job # "made" => worker' = "none"
         /\ ~Working /\ job # "made" => ~Working'
         /\ published => published' /\ outcome' = outcome
         /\ worker' = "none" => worker = "none"
<1>1. CASE WorkerStep \/ WorkerChance
  BY <1>1 DEF WorkerStep, WorkerChance, WorkerPublishes, WorkerStarts, WorkerCannotStart,
     WorkerReaps, WorkerHearsStop, WorkerEnds, WorkerExits, WorkerLives, PayloadExits,
     WorkerTimesOut, WorkerTruthful, Working
<1>2. ASSUME NEW m \in Managers, Fork(m) PROVE worker = "none" /\ job = "made"
  BY <1>2 DEF Fork, Launching, BirthSteps
<1> QED
  BY <1>1, <1>2, OnlyForked DEF Working


\* A process works on the job under the lock of the journal, or removes what it told of.
LEMMA DiskByHolder ==
  ASSUME TypeOK, NEW m \in Managers, Orderly(m), ManagerStep(m)
  PROVE  UNCHANGED <<dir, files, job, worker>> \/ holder = m \/ at[m]["closer"] = "purge"
<1>1. CASE AttachStep(m)
  BY <1>1, AttachMoves DEF Orderly, AttachSteps
<1>2. CASE Launch(m)
  BY <1>2 DEF Launch
<1>3. CASE LaunchStep(m)
  BY <1>3, LaunchMoves DEF Orderly, LaunchSteps
<1>4. CASE UseStep(m)
  BY <1>4, UseMoves DEF Orderly
<1>5. ASSUME NEW t \in Threads, Purge(m, t)
      PROVE  holder = m \/ at[m]["closer"] = "purge"
  BY <1>5 DEF Purge, Orderly, Threads
<1> QED
  BY <1>1, <1>2, <1>3, <1>4, <1>5, WatchFrame, StopFrame, LeaveFrame
     DEF ManagerStep, Resume, diskVars, workerVars

\* Whoever is in the middle of something has the lock: nobody else changes the job.
LEMMA Undisturbed ==
  ASSUME Consistent, NEW m \in Managers, ManagerStep(m),
         NEW n \in Managers, n # m, at[n]["tool"] # "idle"
  PROVE  UNCHANGED <<dir, files, job, worker>> \/ (at[m]["closer"] = "purge" /\ Handed)
<1>1. holder = n
  BY DEF Consistent, InOrder, Orderly
<1> QED
  BY <1>1, DiskByHolder DEF Consistent, InOrder, Purging

\* Nor does the deletion.
LEMMA UndisturbedByEraser ==
  ASSUME Consistent, EraserStep, NEW n \in Managers, at[n]["tool"] # "idle"
  PROVE  UNCHANGED <<dir, files, job, worker>>
<1>1. holder # Eraser
  BY JobAssumption DEF Consistent, InOrder, Orderly
<1>2. eraser # "purge"
  BY <1>1 DEF Consistent, EraserOrderly
<1> QED
  BY <1>2, EraserFrame DEF EraserStep, BeginErase, Inspect, EraserRemoves, EraserReturns, diskVars

-----------------------------------------------------------------------------
(* Launches.                                                               *)

LEMMA LaunchLaunching ==
  ASSUME Consistent, NEW m \in Managers, Launch(m) \/ LaunchStep(m)
  PROVE  Launching(m)'
<1> USE DEF Steps, AttachSteps, LaunchSteps, StopSteps, Threads, BirthSteps
<1>1. TypeOK /\ Launching(m)
  BY DEF Consistent, InOrder
<1>2. CASE Launch(m)
  BY <1>1, <1>2, Went DEF Launch, Launching, TypeOK, workerVars, Consistent, UnderWorker
<1>3. CASE Describe(m)
  BY <1>1, <1>3, Went DEF Describe, Launching, TypeOK, workerVars
<1>4. CASE Pipe(m)
  BY <1>1, <1>4, Went DEF Pipe, Launching, TypeOK, workerVars
<1>5. CASE Fork(m)
  BY <1>1, <1>5, Went DEF Fork, Launching, TypeOK, diskVars
<1>6. CASE HandOff(m)
  BY <1>1, <1>6, Went DEF HandOff, Launching, TypeOK
<1>7. CASE Register(m)
  BY <1>1, <1>7, Went DEF Register, Launching, TypeOK
<1>8. CASE AwaitRefused(m)
  BY <1>1, <1>8, Went DEF AwaitRefused, Launching, TypeOK
<1> QED
  BY <1>2, <1>3, <1>4, <1>5, <1>6, <1>7, <1>8 DEF LaunchStep

LEMMA NextLaunching ==
  ASSUME Consistent, [Next]_vars
  PROVE  \A n \in Managers : Launching(n)'
<1> USE DEF Steps, AttachSteps, LaunchSteps, StopSteps, Threads, BirthSteps
<1>1. TypeOK /\ \A n \in Managers : InOrder(n)
  BY DEF Consistent
<1>2. ASSUME NEW m \in Managers, ManagerStep(m) PROVE Launching(m)'
  <2>1. Launching(m) /\ Orderly(m)
    BY <1>1 DEF InOrder
  <2>2. CASE Resume(m)
    BY <1>1, <2>1, <2>2, Went DEF Resume, Launching, TypeOK
  <2>3. CASE AttachStep(m)
    BY <1>1, <2>1, <2>3, Went, AttachMoves DEF Launching, TypeOK
  <2>4. CASE WatchStep(m)
    BY <2>1, <2>4, WatchFrame DEF Launching
  <2>5. CASE UseStep(m)
    BY <1>1, <2>1, <2>5, Went, UseMoves DEF Launching, TypeOK
  <2>6. CASE LeaveStep(m)
    <3>1. at'[m]["tool"] \in {at[m]["tool"], "idle"}
      BY <1>1, <2>6, Went, LeaveMoves DEF Down, TypeOK
    <3> QED
      BY <2>1, <2>6, <3>1, LeaveFrame DEF Launching
  <2>7. ASSUME NEW t \in Threads, StopStep(m, t) PROVE Launching(m)'
    <3>1. CASE t = "tool"
      BY <1>1, <2>7, <3>1, Went, StopMoves DEF Launching, TypeOK
    <3>2. CASE t = "closer"
      BY <1>1, <2>1, <2>7, <3>2, Went, StopMoves, StopFrame DEF Launching, TypeOK
    <3> QED
      BY <3>1, <3>2
  <2>8. ASSUME NEW t \in Threads, Purge(m, t) PROVE Launching(m)'
    <3>1. CASE t = "tool"
      <4>1. at'[m]["tool"] \in {"purge", "sync"}
        BY <1>1, <2>8, <3>1, Went, PurgeMoves DEF TypeOK, Purge
      <4> QED
        BY <4>1 DEF Launching
    <3>2. CASE t = "closer"
      <4>1. Handed
        BY <1>1, <2>8, <3>2 DEF Purge, InOrder, Purging
      <4>2. at'[m]["tool"] = at[m]["tool"]
        BY <1>1, <2>8, <3>2, Went, PurgeMoves DEF TypeOK
      <4> QED
        BY <2>1, <2>8, <4>1, <4>2, PurgeFrame DEF Launching, Handed
    <3> QED
      BY <3>1, <3>2
  <2> QED
    BY <1>2, <2>2, <2>3, <2>4, <2>5, <2>6, <2>7, <2>8, LaunchLaunching DEF ManagerStep
<1>3. ASSUME NEW m \in Managers, ManagerStep(m), NEW n \in Managers, n # m
      PROVE  Launching(n)'
  <2>1. at'[n] = at[n] /\ Launching(n)
    BY <1>1, <1>3, Apart DEF Same, InOrder
  <2>2. CASE at[n]["tool"] = "idle"
    BY <2>1, <2>2 DEF Launching
  <2>3. CASE at[n]["tool"] # "idle"
    <3>1. job = "refused" => job' = "refused"
      BY <1>1, <1>3, JobAdvances DEF InOrder
    <3> QED
      BY <1>3, <2>1, <2>3, <3>1, Undisturbed DEF Launching, Handed
  <2> QED
    BY <2>2, <2>3
<1>4. CASE EraserStep
  BY <1>1, <1>4, UndisturbedByEraser, EraserFrame DEF InOrder, Launching
<1>5. CASE WorkerStep \/ WorkerChance
  <2>1. dir' = dir /\ files \subseteq files' /\ (worker = "none" => worker' = "none")
    BY <1>5 DEF WorkerStep, WorkerChance, WorkerPublishes, WorkerStarts, WorkerCannotStart,
       WorkerReaps, WorkerHearsStop, WorkerEnds, WorkerExits, WorkerLives, PayloadExits,
       WorkerTimesOut, diskVars
  <2> QED
    BY <1>1, <1>5, <2>1, WorkerFrame DEF InOrder, Launching
<1>6. CASE UNCHANGED vars
  BY <1>1, <1>6, StillFrame DEF InOrder, Launching
<1> QED
  BY <1>2, <1>3, <1>4, <1>5, <1>6, NextCases


-----------------------------------------------------------------------------
(* Reports and calls.                                                      *)

\* What a manager learns from a result is an end.
LEMMA RefreshedEnds ==
  ASSUME TypeOK, WorkerTruthful, NEW m \in Managers
  PROVE  /\ Readable => outcome \in Ends \ {"abandoned"}
         /\ view[m] # "none" => Refreshed(m) \in Ends \cup {"running"}
         /\ Settled(m) => Refreshed(m) = view[m]
         /\ Refreshed(m) # "none" => view[m] # "none"
BY DEF TypeOK, WorkerTruthful, Readable, Refreshed, Running, Settled, Ends, Outcomes

LEMMA WatchReporting ==
  ASSUME TypeOK, WorkerTruthful, NEW m \in Managers, Reporting(m), WatchStep(m)
  PROVE  Reporting(m)'
<1>1. view'[m] = view[m] \/ (view[m] = "running" /\ view'[m] \in Ends)
  BY RefreshedEnds DEF WatchStep, Observe, Missed, Derive, Learn, Running, TypeOK, Ends
<1> QED
  BY <1>1, WatchFrame DEF Reporting, Settled, Ends, Outcomes

LEMMA UseReporting ==
  ASSUME TypeOK, WorkerTruthful, NEW m \in Managers, Reporting(m), UseStep(m)
  PROVE  Reporting(m)'
<1> USE DEF Steps, AttachSteps, LaunchSteps, StopSteps, Threads, TypeOK, Reporting, Ends, Outcomes
<1>1. CASE StopJob(m)
  BY <1>1, Went DEF StopJob, Running, viewVars
<1>2. CASE Call(m)
  BY <1>2, Went DEF Call, Running, Settled, viewVars
<1>3. CASE ShowJob(m)
  BY <1>3, Went DEF ShowJob, Settled, viewVars
<1>4. CASE Report(m) \/ Announce(m) \/ Sync(m) \/ Ack(m)
  BY <1>4, Went DEF Report, Announce, Sync, Ack
<1> QED
  BY <1>1, <1>2, <1>3, <1>4 DEF UseStep

LEMMA StopReporting ==
  ASSUME TypeOK, WorkerTruthful, NEW m \in Managers, Reporting(m), NEW t \in Threads,
         StopStep(m, t)
  PROVE  Reporting(m)'
<1> USE DEF Steps, AttachSteps, LaunchSteps, StopSteps, Threads, TypeOK, Reporting, Ends, Outcomes
<1>1. CASE StopWrite(m, t)
  BY <1>1, Went DEF StopWrite, Settled, viewVars
<1>2. CASE StopRefresh(m, t)
  <2>1. view'[m] = Refreshed(m)
    BY <1>2 DEF StopRefresh, Learn
  <2>2. at[m][t] = "stop_refresh" /\ at'[m][t] \in {"stop_probe", "stop_wait"}
    BY <1>2, Went DEF StopRefresh
  <2>3. t # "tool" => at'[m]["tool"] = at[m]["tool"]
    BY <1>2, Went DEF StopRefresh
  <2> QED
    BY <2>1, <2>2, <2>3, RefreshedEnds DEF Settled
<1>3. CASE StopReread(m, t)
  BY <1>3, Went, RefreshedEnds DEF StopReread, Learn, Settled, viewVars
<1>4. CASE StopProbe(m, t)
  BY <1>4, Went DEF StopProbe, StopReturns, Settled, viewVars
<1>5. CASE StopWait(m, t)
  BY <1>5, Went DEF StopWait, StopReturns, Settled, Running, viewVars
<1> QED
  BY <1>1, <1>2, <1>3, <1>4, <1>5 DEF StopStep

LEMMA NextReporting ==
  ASSUME Consistent, [Next]_vars
  PROVE  \A n \in Managers : Reporting(n)'
<1> USE DEF Steps, AttachSteps, LaunchSteps, StopSteps, Threads, Ends, Outcomes
<1>1. TypeOK /\ WorkerTruthful /\ \A n \in Managers : InOrder(n)
  BY DEF Consistent
<1>2. ASSUME NEW m \in Managers, ManagerStep(m) PROVE Reporting(m)'
  <2>1. Reporting(m) /\ Orderly(m)
    BY <1>1 DEF InOrder
  <2>2. CASE Resume(m)
    BY <1>1, <2>2, Went DEF Resume, Reporting, TypeOK
  <2>3. CASE AttachStep(m)
    BY <1>1, <2>3, Went, AttachMoves DEF Reporting, TypeOK
  <2>4. CASE Launch(m)
    BY <1>1, <2>4, Went DEF Launch, Reporting, TypeOK
  <2>5. CASE LaunchStep(m)
    BY <1>1, <2>5, Went DEF LaunchStep, Describe, Pipe, Fork, HandOff, Register, AwaitRefused,
       Reporting, TypeOK
  <2>6. CASE LeaveStep(m)
    <3>1. at'[m]["tool"] \in {at[m]["tool"], "idle"}
      BY <1>1, <2>6, Went, LeaveMoves DEF Down, TypeOK
    <3>2. at[m]["tool"] # "idle" => view'[m] = view[m] \/ at'[m]["tool"] = "idle"
      BY <1>1, <2>1, <2>6 DEF LeaveStep, BeginExit, BeginSwitch, Settle, Exit, Switch, Crash,
         Down, TypeOK, Orderly, viewVars
    <3> QED
      BY <2>1, <3>1, <3>2 DEF Reporting, Settled
  <2>7. ASSUME NEW t \in Threads, Purge(m, t) PROVE Reporting(m)'
    <3>1. at'[m]["tool"] \in {at[m]["tool"], "sync"}
      BY <1>1, <2>7, Went, PurgeMoves DEF TypeOK
    <3> QED
      BY <2>1, <2>7, <3>1, PurgeFrame DEF Reporting, Settled
  <2> QED
    BY <1>1, <1>2, <2>1, <2>2, <2>3, <2>4, <2>5, <2>6, <2>7, WatchReporting, UseReporting,
       StopReporting DEF ManagerStep
<1>3. ASSUME NEW m \in Managers, ManagerStep(m), NEW n \in Managers, n # m
      PROVE  Reporting(n)'
  BY <1>1, <1>3, Apart DEF Same, InOrder, Reporting, Settled
<1>4. CASE EraserStep \/ WorkerStep \/ WorkerChance \/ UNCHANGED vars
  BY <1>1, <1>4, EraserFrame, WorkerFrame, StillFrame DEF InOrder, Reporting, Settled
<1> QED
  BY <1>2, <1>3, <1>4, NextCases


-----------------------------------------------------------------------------
(* Removals.                                                               *)

\* Who comes to remove the directory in the course of opening the session.
LEMMA AttachPurging ==
  ASSUME Consistent, NEW m \in Managers, AttachStep(m), at'[m]["tool"] = "purge"
  PROVE  told # <<>>
<1> USE DEF Steps, AttachSteps, LaunchSteps, StopSteps, Threads
<1>1. TypeOK /\ Recorded
  BY DEF Consistent
<1>2. at[m]["tool"] \in MarkedSteps
  BY <1>1, Went DEF AttachStep, Attach, SettleRead, SettleProbe, SettleReread, Unmark, AdoptRead,
     AdoptProbe, AdoptReread, Adopt, Attached, MarkedSteps, TypeOK
<1> QED
  BY <1>1, <1>2 DEF Recorded

\* Or of a launch.
LEMMA LaunchPurging ==
  ASSUME Consistent, NEW m \in Managers, LaunchStep(m), at'[m]["tool"] = "purge"
  PROVE  \/ job' = "refused" /\ worker' = "gone"
         \/ job' = "made" /\ worker' = "none"
<1> USE DEF Steps, AttachSteps, LaunchSteps, StopSteps, Threads, BirthSteps
<1>1. TypeOK /\ Launching(m)
  BY DEF Consistent, InOrder
<1>2. CASE Describe(m) \/ Pipe(m) \/ Fork(m)
  BY <1>1, <1>2, Went DEF Describe, Pipe, Fork, Launching, TypeOK, workerVars
<1>3. CASE HandOff(m) \/ Register(m)
  BY <1>1, <1>3, Went DEF HandOff, Register, TypeOK
<1>4. CASE AwaitRefused(m)
  BY <1>1, <1>4, Went DEF AwaitRefused, Launching, TypeOK, workerVars
<1> QED
  BY <1>2, <1>3, <1>4 DEF LaunchStep

\* Or of leaving.
LEMMA LeavePurging ==
  ASSUME Consistent, NEW m \in Managers, LeaveStep(m),
         at[m]["closer"] # "purge", at'[m]["closer"] = "purge"
  PROVE  told # <<>>
<1>1. TypeOK /\ Recorded
  BY DEF Consistent
<1>2. seen[m]
  BY <1>1, Went DEF LeaveStep, BeginExit, BeginSwitch, BeginLeaving, Settle, Removable, Exit,
     Switch, Crash, Down, TypeOK, Steps, StopSteps, Threads
<1> QED
  BY <1>1, <1>2 DEF Recorded

\* How a thread comes to be about to remove the directory.
LEMMA PurgeBegins ==
  ASSUME Consistent, NEW m \in Managers, ManagerStep(m), NEW t \in Threads,
         at[m][t] # "purge", at'[m][t] = "purge"
  PROVE  \/ told # <<>>
         \/ /\ t = "tool" /\ LaunchStep(m)
            /\ \/ job' = "refused" /\ worker' = "gone"
               \/ job' = "made" /\ worker' = "none"
<1> USE DEF Steps, AttachSteps, LaunchSteps, StopSteps, Threads
<1>1. TypeOK
  BY DEF Consistent
<1>2. CASE t = "tool"
  <2>1. ~Resume(m) /\ ~Launch(m) /\ ~WatchStep(m)
    BY <1>1, <1>2, Went, WatchFrame DEF Resume, Launch, TypeOK
  <2>2. ~UseStep(m)
    BY <1>1, <1>2, Went, UseMoves DEF TypeOK
  <2>3. ~LeaveStep(m)
    BY <1>1, <1>2, Went, LeaveMoves DEF Down, TypeOK
  <2>4. ASSUME NEW u \in Threads PROVE ~StopStep(m, u) /\ ~Purge(m, u)
    BY <1>1, <1>2, Went, StopMoves, PurgeMoves DEF TypeOK
  <2> QED
    BY <1>2, <2>1, <2>2, <2>3, <2>4, AttachPurging, LaunchPurging DEF ManagerStep
<1>3. CASE t = "closer"
  <2>1. ~Resume(m) /\ ~Launch(m) /\ ~WatchStep(m)
    BY <1>1, <1>3, Went, WatchFrame DEF Resume, Launch, TypeOK
  <2>2. ~UseStep(m) /\ ~AttachStep(m)
    BY <1>1, <1>3, Went, UseMoves, AttachMoves DEF TypeOK
  <2>3. ~LaunchStep(m)
    BY <1>1, <1>3, Went, LaunchMoves DEF TypeOK
  <2>4. ASSUME NEW u \in Threads PROVE ~StopStep(m, u) /\ ~Purge(m, u)
    BY <1>1, <1>3, Went, StopMoves, PurgeMoves DEF TypeOK
  <2> QED
    BY <1>3, <2>1, <2>2, <2>3, <2>4, LeavePurging DEF ManagerStep
<1> QED
  BY <1>2, <1>3 DEF Threads

\* A process that removes the directory of a job nobody has is alone with it.
LEMMA NextPurging ==
  ASSUME Consistent, [Next]_vars
  PROVE  \A n \in Managers : Purging(n)'
<1>1. TypeOK /\ WorkerTruthful /\ Recorded /\ \A n \in Managers : InOrder(n)
  BY DEF Consistent
<1>2. told # <<>> => told' # <<>> /\ Handed /\ Handed' /\ ~Working'
  BY <1>1, ToldStays, JobAdvances, WorkerAdvances DEF InOrder, Recorded, Handed
<1>3. ASSUME NEW n \in Managers, NEW t \in Threads, at[n][t] = "purge", at'[n][t] = "purge"
      PROVE  /\ t = "tool" =>
                  told' # <<>> \/ job' = "refused" \/ (job' = "made" /\ worker' = "none")
             /\ t = "closer" => told' # <<>> /\ Handed'
             /\ ~Working'
  <2>1. Purging(n) /\ (job = "refused" => job' = "refused" /\ ~Working')
    BY <1>1, <1>3, JobAdvances, WorkerAdvances DEF InOrder, Purging
  <2>2. CASE told # <<>>
    BY <1>2, <2>2
  <2>3. CASE job = "refused" /\ told = <<>>
    BY <1>3, <2>1, <2>3 DEF Purging
  <2>4. CASE job = "made" /\ worker = "none" /\ t = "tool" /\ told = <<>>
    <3>1. ASSUME NEW m \in Managers, ManagerStep(m) PROVE UNCHANGED <<job, worker>>
      <4>1. CASE m # n
        BY <1>3, <2>4, <3>1, <4>1, Undisturbed DEF Handed
      <4>2. CASE m = n
        <5>1. ~Launch(n)
          BY <1>3, <2>4 DEF Launch, Idle
        <5>2. ~AttachStep(n) /\ ~LaunchStep(n)
          BY <1>1, <1>3, <2>4, AttachMoves, LaunchMoves DEF AttachSteps, LaunchSteps
        <5> QED
          BY <3>1, <4>2, <5>1, <5>2, WatchFrame, UseFrame, StopFrame, LeaveFrame, PurgeFrame
             DEF ManagerStep, Resume, workerVars
      <4> QED
        BY <4>1, <4>2
    <3>2. CASE WorkerStep \/ WorkerChance
      <4>1. FALSE \/ worker' = "none"
        BY <1>1, <2>4, <3>2 DEF WorkerStep, WorkerChance, WorkerPublishes, WorkerStarts,
           WorkerCannotStart, WorkerReaps, WorkerHearsStop, WorkerEnds, WorkerExits, WorkerLives,
           PayloadExits, WorkerTimesOut
      <4> QED
        BY <2>4, <3>2, <4>1, WorkerFrame DEF Working
    <3> QED
      BY <2>4, <3>1, <3>2, EraserFrame, StillFrame, NextCases DEF Working
  <2> QED
    BY <1>3, <2>1, <2>2, <2>3, <2>4 DEF Purging, Threads
<1>4. ASSUME NEW n \in Managers, NEW t \in Threads, at[n][t] # "purge", at'[n][t] = "purge"
      PROVE  /\ t = "tool" =>
                  told' # <<>> \/ job' = "refused" \/ (job' = "made" /\ worker' = "none")
             /\ t = "closer" => told' # <<>> /\ Handed'
             /\ ~Working'
  <2>1. ManagerStep(n)
    BY <1>1, <1>4, Apart, NextCases, WorkerFrame, EraserFrame, StillFrame DEF Same
  <2> QED
    BY <1>2, <1>4, <2>1, PurgeBegins DEF Working, Threads
<1> QED
  BY <1>3, <1>4 DEF Purging, Threads


-----------------------------------------------------------------------------
(* Beliefs.                                                                *)

\* What a step never takes back.
LEMMA Stable ==
  ASSUME Consistent, [Next]_vars
  PROVE  /\ Handed => Handed'
         /\ job = "refused" => job' = "refused"
         /\ job = "given" => job' = "given"
         /\ told # <<>> => told' # <<>> /\ Head(told') = Head(told)
         /\ Handed /\ Absent => Absent'
         /\ Handed /\ ~Working => ~Working'
         /\ worker = "gone" => worker' = "gone"
         /\ published => published' /\ outcome' = outcome
<1>1. /\ TypeOK /\ WorkerTruthful
      /\ \A n \in Managers : Reporting(n) /\ Launching(n)
  BY DEF Consistent, InOrder
<1>2. Handed => job # "made" /\ Handed'
  BY <1>1, JobAdvances DEF Handed
<1> QED
  BY <1>1, <1>2, JobAdvances, WorkerAdvances, ToldStays DEF Absent

\* Only the process that launches it makes a worker appear.
LEMMA AbsentStays ==
  ASSUME Consistent, [Next]_vars, Absent
  PROVE  Absent' \/ \E m \in Managers : Fork(m) /\ at[m]["tool"] = "fork" /\ holder = m
<1>1. CASE WorkerStep \/ WorkerChance
  BY <1>1 DEF WorkerStep, WorkerChance, WorkerPublishes, WorkerStarts, WorkerCannotStart,
     WorkerReaps, WorkerHearsStop, WorkerEnds, WorkerExits, WorkerLives, PayloadExits,
     WorkerTimesOut, Absent
<1>2. ASSUME NEW m \in Managers, Fork(m) PROVE at[m]["tool"] = "fork" /\ holder = m
  BY <1>2 DEF Fork, Consistent, InOrder, Orderly
<1> QED
  BY <1>1, <1>2, OnlyForked DEF Absent

\* A FIFO without a reader has no worker.
LEMMA DeadIsAbsent ==
  ASSUME TypeOK, Dead
  PROVE  Absent
BY DEF TypeOK, Dead, HasReader, WorkerLives, Absent

\* How a manager changes its mind.
LEMMA Beliefs ==
  ASSUME Consistent, NEW m \in Managers, ManagerStep(m)
  PROVE  \/ view'[m] = view[m] /\ watch'[m] \in {watch[m], "none"}
         \/ view'[m] = "none" /\ watch'[m] = "none"
         \/ view'[m] = "running" /\ watch'[m] \in {"wait", "poll"} /\ Handed'
         \/ view'[m] = view[m] /\ Running(m) /\ watch'[m] = "lost" /\ Absent
         \/ /\ view'[m] = outcome /\ watch'[m] = "none"
            /\ "result" \in files /\ Handed'
         \/ /\ view'[m] = "abandoned" /\ watch'[m] = "none"
            /\ Absent /\ Handed' /\ worker' = worker
            /\ faults' > 0 \/ ~({"control", "result"} \subseteq files)
<1>1. TypeOK /\ Looking(m) /\ Believing(m) /\ Orderly(m)
  BY DEF Consistent, InOrder
<1>2. outcome # "running"
  BY <1>1 DEF TypeOK, Outcomes
<1>3. CASE AttachStep(m)
  <2>1. ASSUME NEW v, Adopt(m, v), v = "running" \/ (v = outcome /\ "result" \in files)
                        \/ (v = "abandoned" /\ Absent /\ "result" \notin files)
        PROVE  \/ view'[m] = view[m] /\ watch'[m] = watch[m]
               \/ view'[m] = "running" /\ watch'[m] \in {"wait", "poll"} /\ Handed'
               \/ /\ view'[m] = outcome /\ watch'[m] = "none"
                  /\ "result" \in files /\ Handed'
               \/ /\ view'[m] = "abandoned" /\ watch'[m] = "none"
                  /\ Absent /\ Handed' /\ "result" \notin files
    BY <1>1, <1>2, <2>1 DEF Adopt, TypeOK, Handed
  <2>2. CASE AdoptRead(m)
    BY <1>3, <2>1, <2>2, AttachFrame DEF AdoptRead, viewVars
  <2>3. CASE AdoptProbe(m)
    BY <1>3, <2>1, <2>3, AttachFrame DEF AdoptProbe, viewVars
  <2>4. CASE AdoptReread(m)
    BY <1>1, <1>3, <2>1, <2>4, AttachFrame DEF AdoptReread, Looking
  <2>5. CASE Attach(m) \/ SettleRead(m) \/ SettleProbe(m) \/ SettleReread(m) \/ Unmark(m)
    BY <2>5 DEF Attach, SettleRead, SettleProbe, SettleReread, Unmark, viewVars
  <2> QED
    BY <1>3, <2>2, <2>3, <2>4, <2>5 DEF AttachStep
<1>4. CASE Launch(m) \/ LaunchStep(m)
  BY <1>1, <1>4 DEF Launch, LaunchStep, Describe, Pipe, Fork, HandOff, Register, AwaitRefused,
     viewVars, TypeOK, Handed
<1>5. ASSUME NEW v, Learn(m, v)
      PROVE  /\ view'[m] = v
             /\ watch'[m] = IF v = "running" THEN watch[m] ELSE "none"
  BY <1>1, <1>5 DEF Learn, TypeOK
<1>6. view[m] # "none" => Handed
  BY <1>1 DEF Believing
<1>7. CASE WatchStep(m)
  <2>1. Handed' /\ worker' = worker /\ (faults # faults' => faults' > 0)
    BY <1>1, <1>6, <1>7, WatchFrame DEF WatchStep, Observe, Missed, Derive, Running, Handed, TypeOK
  <2>2. CASE Observe(m)
    BY <1>2, <1>5, <2>1, <2>2 DEF Observe, Readable
  <2>3. CASE Missed(m)
    BY <1>1, <2>3, DeadIsAbsent DEF Missed, Absent, TypeOK
  <2>4. CASE Derive(m)
    <3>1. Absent
      BY <1>1, <2>4 DEF Derive, Looking
    <3>2. CASE Readable /\ Learn(m, outcome)
      BY <1>2, <1>5, <2>1, <3>2 DEF Readable
    <3>3. CASE ~Readable /\ Learn(m, "abandoned")
      BY <1>5, <2>1, <3>1, <3>3 DEF Readable
    <3>4. CASE faults' = faults + 1 /\ Learn(m, "abandoned")
      BY <1>1, <1>5, <2>1, <3>1, <3>4 DEF TypeOK
    <3> QED
      BY <2>4, <3>2, <3>3, <3>4 DEF Derive
  <2> QED
    BY <1>7, <2>2, <2>3, <2>4 DEF WatchStep
<1>8. ASSUME Learn(m, Refreshed(m)), UNCHANGED job
      PROVE  \/ view'[m] = view[m] /\ watch'[m] \in {watch[m], "none"}
             \/ /\ view'[m] = outcome /\ watch'[m] = "none"
                /\ "result" \in files /\ Handed'
  BY <1>1, <1>2, <1>5, <1>6, <1>8 DEF Refreshed, Readable, Running, Handed
<1>9. ASSUME Forget(m) PROVE view'[m] = "none" /\ watch'[m] = "none"
  BY <1>1, <1>9 DEF Forget, TypeOK
<1>10. CASE UseStep(m)
  <2>1. Learn(m, Refreshed(m)) \/ Forget(m) \/ UNCHANGED viewVars
    BY <1>10 DEF UseStep, StopJob, Call, ShowJob, Report, Announce, Sync, Ack
  <2> QED
    BY <1>8, <1>9, <1>10, <2>1, UseFrame DEF viewVars
<1>11. CASE LeaveStep(m)
  BY <1>9, <1>11 DEF LeaveStep, BeginExit, BeginSwitch, Settle, Exit, Switch, Crash, Down, viewVars
<1>12. ASSUME NEW t \in Threads, StopStep(m, t)
       PROVE  \/ view'[m] = view[m] /\ watch'[m] \in {watch[m], "none"}
              \/ view'[m] = "none" /\ watch'[m] = "none"
              \/ /\ view'[m] = outcome /\ watch'[m] = "none"
                 /\ "result" \in files /\ Handed'
              \/ /\ view'[m] = "abandoned" /\ watch'[m] = "none"
                 /\ Absent /\ Handed' /\ worker' = worker
                 /\ ~({"control", "result"} \subseteq files)
  <2>1. CASE StopReread(m, t)
    <3>1. Absent /\ Handed /\ Handed' /\ worker' = worker /\ UNCHANGED job
      BY <1>1, <1>12, <2>1, StopFrame DEF StopReread, Looking, StopSteps, Handed
    <3>2. CASE Refreshed(m) = "running"
      BY <1>2, <1>5, <2>1, <3>1, <3>2 DEF StopReread, Refreshed, Readable, Running
    <3>3. CASE Refreshed(m) # "running"
      BY <1>8, <2>1, <3>1, <3>3 DEF StopReread
    <3> QED
      BY <3>2, <3>3
  <2>2. CASE StopRefresh(m, t)
    BY <1>8, <1>12, <2>2, StopFrame DEF StopRefresh
  <2>3. CASE StopWrite(m, t) \/ StopProbe(m, t) \/ StopWait(m, t)
    BY <1>9, <2>3 DEF StopWrite, StopProbe, StopWait, StopReturns, viewVars
  <2> QED
    BY <1>12, <2>1, <2>2, <2>3 DEF StopStep
<1> QED
  BY <1>3, <1>4, <1>7, <1>10, <1>11, <1>12, PurgeFrame DEF ManagerStep, Resume, viewVars

\* What a manager believes stays true.
LEMMA NextBelieving ==
  ASSUME Consistent, [Next]_vars
  PROVE  \A n \in Managers : Believing(n)'
<1>1. TypeOK /\ WorkerTruthful /\ \A n \in Managers : Believing(n)
  BY DEF Consistent, InOrder
<1>2. ASSUME NEW n \in Managers, view'[n] = view[n] PROVE Believing(n)'
  BY <1>1, <1>2, Stable DEF Believing
<1>3. ASSUME NEW m \in Managers, ManagerStep(m) PROVE Believing(m)'
  <2>1. "result" \in files => published /\ published' /\ outcome' = outcome /\ outcome \in Outcomes
    BY <1>1, Stable DEF WorkerTruthful
  <2> QED
    BY <1>2, <1>3, <2>1, Beliefs DEF Believing, Outcomes, Absent
<1>4. ASSUME NEW n \in Managers, view'[n] # view[n] PROVE ManagerStep(n)
  BY <1>1, <1>4, Apart, NextCases, WorkerFrame, EraserFrame, StillFrame DEF Same
<1> QED
  BY <1>2, <1>3, <1>4


-----------------------------------------------------------------------------
(* Second looks and stops.                                                 *)

\* A thread that waits for a look at the result has seen that nobody has the FIFO open.
LEMMA RereadBegins ==
  ASSUME Consistent, NEW m \in Managers, ManagerStep(m), NEW t \in Threads,
         at'[m][t] # at[m][t],
         at'[m][t] \in {"adopt_reread", "settle_reread", "stop_reread"}
  PROVE  Absent'
<1> USE DEF Steps, AttachSteps, LaunchSteps, StopSteps, Threads
<1>1. TypeOK
  BY DEF Consistent
<1>2. CASE AttachStep(m)
  <2>1. Dead
    BY <1>1, <1>2, Went DEF AttachStep, Attach, SettleRead, SettleProbe, SettleReread, Unmark,
       AdoptRead, AdoptProbe, AdoptReread, Adopt, Attached, TypeOK
  <2> QED
    BY <1>1, <1>2, <2>1, DeadIsAbsent, AttachFrame DEF Absent
<1>3. ASSUME NEW u \in Threads, StopStep(m, u) PROVE Absent'
  <2>1. Dead
    BY <1>1, <1>3, Went DEF StopStep, StopWrite, StopRefresh, StopProbe, StopReread, StopWait,
       StopReturns, TypeOK
  <2> QED
    BY <1>1, <1>3, <2>1, DeadIsAbsent, StopFrame DEF Absent
<1>4. ~Resume(m) /\ ~Launch(m) /\ ~WatchStep(m)
  BY <1>1, Went, WatchFrame DEF Resume, Launch, TypeOK
<1>5. ~LaunchStep(m)
  BY <1>1, Went, LaunchMoves DEF TypeOK
<1>6. ~UseStep(m)
  BY <1>1, Went, UseMoves DEF TypeOK
<1>7. ~LeaveStep(m)
  BY <1>1, Went, LeaveMoves DEF Down, TypeOK
<1>8. ASSUME NEW u \in Threads PROVE ~Purge(m, u)
  BY <1>1, Went, PurgeMoves DEF TypeOK
<1> QED
  BY <1>2, <1>3, <1>4, <1>5, <1>6, <1>7, <1>8 DEF ManagerStep

\* Only a job that a manager has is stopped.
LEMMA StopBegins ==
  ASSUME Consistent, NEW m \in Managers, ManagerStep(m), NEW t \in Threads,
         at[m][t] \notin StopSteps, at'[m][t] \in StopSteps
  PROVE  Handed
<1> USE DEF Steps, AttachSteps, LaunchSteps, StopSteps, Threads
<1>1. TypeOK /\ Believing(m)
  BY DEF Consistent, InOrder
<1>2. CASE UseStep(m)
  <2>1. Running(m)
    BY <1>1, <1>2, Went DEF UseStep, StopJob, Call, ShowJob, Report, Announce, Sync, Ack, TypeOK
  <2> QED
    BY <1>1, <2>1 DEF Running, Believing
<1>3. CASE LeaveStep(m)
  <2>1. Running(m)
    BY <1>1, <1>3, Went DEF LeaveStep, BeginExit, BeginSwitch, BeginLeaving, Settle, Exit, Switch,
       Crash, Down, TypeOK
  <2> QED
    BY <1>1, <2>1 DEF Running, Believing
<1>4. ~Resume(m) /\ ~Launch(m) /\ ~WatchStep(m)
  BY <1>1, Went, WatchFrame DEF Resume, Launch, TypeOK
<1>5. ~LaunchStep(m)
  BY <1>1, Went, LaunchMoves DEF TypeOK
<1>6. ASSUME AttachStep(m) PROVE FALSE
  <2>1. at'[m]["tool"] \notin StopSteps /\ at'[m]["closer"] = at[m]["closer"]
    BY <1>1, <1>6, Went, AttachMoves DEF TypeOK
  <2> QED
    BY <2>1
<1>7. ASSUME NEW u \in Threads PROVE ~Purge(m, u) /\ ~StopStep(m, u)
  BY <1>1, Went, PurgeMoves, StopMoves DEF TypeOK
<1> QED
  BY <1>2, <1>3, <1>4, <1>5, <1>6, <1>7 DEF ManagerStep

\* A session is looked through when it has a job.
LEMMA AttachBegins ==
  ASSUME Consistent, NEW m \in Managers, ManagerStep(m),
         at[m]["tool"] \notin AttachSteps \ {"attach"},
         at'[m]["tool"] \in AttachSteps \ {"attach"}
  PROVE  job # "unborn"
<1> USE DEF Steps, AttachSteps, LaunchSteps, StopSteps, Threads
<1>1. TypeOK /\ UnderWorker
  BY DEF Consistent
<1>2. CASE AttachStep(m)
  <2>1. Attach(m) /\ dir
    BY <1>1, <1>2, Went DEF AttachStep, Attach, SettleRead, SettleProbe, SettleReread, Unmark,
       AdoptRead, AdoptProbe, AdoptReread, Attached, TypeOK
  <2> QED
    BY <1>1, <2>1 DEF UnderWorker
<1>3. ~Resume(m) /\ ~Launch(m) /\ ~WatchStep(m)
  BY <1>1, Went, WatchFrame DEF Resume, Launch, TypeOK
<1>4. ~LaunchStep(m)
  BY <1>1, Went, LaunchMoves DEF TypeOK
<1>5. ~UseStep(m)
  BY <1>1, Went, UseMoves DEF TypeOK
<1>6. ~LeaveStep(m)
  BY <1>1, Went, LeaveMoves DEF Down, TypeOK
<1>7. ASSUME NEW u \in Threads PROVE ~StopStep(m, u) /\ ~Purge(m, u)
  BY <1>1, Went, StopMoves, PurgeMoves DEF TypeOK
<1> QED
  BY <1>2, <1>3, <1>4, <1>5, <1>6, <1>7 DEF ManagerStep

LEMMA NextLooking ==
  ASSUME Consistent, [Next]_vars
  PROVE  \A n \in Managers : Looking(n)'
<1>1. TypeOK /\ \A n \in Managers : Looking(n) /\ Believing(n) /\ Orderly(n)
  BY DEF Consistent, InOrder
<1>2. ASSUME NEW n \in Managers, ~Same(n) PROVE ManagerStep(n)
  BY <1>1, <1>2, Apart, NextCases, WorkerFrame, EraserFrame, StillFrame DEF Same
<1>3. ASSUME NEW n \in Managers, NEW t \in Threads, at'[n][t] \in StopSteps PROVE Handed'
  <2>1. Handed
    BY <1>1, <1>2, <1>3, StopBegins DEF Looking, Same
  <2> QED
    BY <2>1, Stable
<1>4. ASSUME NEW n \in Managers, NEW t \in Threads, at'[n][t] = "stop_reread" PROVE Absent'
  <2>1. CASE at[n][t] = "stop_reread"
    BY <1>1, <2>1, Stable DEF Looking, StopSteps
  <2>2. CASE at[n][t] # "stop_reread"
    BY <1>2, <1>4, <2>2, RereadBegins DEF Same
  <2> QED
    BY <2>1, <2>2
<1>5. ASSUME NEW n \in Managers, at'[n]["tool"] \in {"adopt_reread", "settle_reread"}
      PROVE Absent'
  <2>1. CASE at[n]["tool"] = at'[n]["tool"]
    BY <1>1, <1>5, <2>1, AbsentStays DEF Looking, Orderly
  <2>2. CASE at[n]["tool"] # at'[n]["tool"]
    BY <1>2, <1>5, <2>2, RereadBegins DEF Same, Threads
  <2> QED
    BY <2>1, <2>2
<1>6. ASSUME NEW n \in Managers
      PROVE  /\ watch'[n] # "none" => view'[n] # "none"
             /\ watch'[n] = "lost" => Absent'
  <2>1. watch[n] = "lost" => Absent'
    BY <1>1, Stable DEF Looking, Believing
  <2>2. Running(n) /\ Absent => Absent'
    BY <1>1, Stable DEF Believing, Running
  <2>3. CASE Same(n)
    BY <1>1, <2>1, <2>3 DEF Same, Looking
  <2>4. CASE ManagerStep(n)
    BY <1>1, <2>1, <2>2, <2>4, Beliefs DEF Looking, Running
  <2> QED
    BY <1>2, <2>3, <2>4
<1>7. ASSUME NEW n \in Managers, at'[n]["tool"] \in AttachSteps \ {"attach"}
      PROVE job' # "unborn"
  <2>1. job # "unborn"
    <3>1. CASE at[n]["tool"] \in AttachSteps \ {"attach"}
      BY <1>1, <3>1 DEF Looking
    <3>2. CASE at[n]["tool"] \notin AttachSteps \ {"attach"}
      BY <1>2, <1>7, <3>2, AttachBegins DEF Same
    <3> QED
      BY <3>1, <3>2
  <2>2. \A m \in Managers : Launching(m)
    BY DEF Consistent, InOrder
  <2> QED
    BY <2>1, <2>2, JobAdvances
<1> QED
  BY <1>3, <1>4, <1>5, <1>6, <1>7 DEF Looking

-----------------------------------------------------------------------------
(* The journal.                                                            *)

\* What a manager tells of has ended.
LEMMA ToldHasEnded ==
  ASSUME Consistent, NEW m \in Managers, Settled(m)
  PROVE  Handed /\ ~Working
<1>1. view[m] \in Outcomes \cup {"abandoned"}
  BY DEF Settled, Ends
<1>2. WorkerTruthful /\ Believing(m)
  BY DEF Consistent, InOrder
<1> QED
  BY <1>1, <1>2 DEF WorkerTruthful, Believing, Working, Absent, Outcomes

\* A record is made by telling.
LEMMA TellsTold ==
  ASSUME TypeOK, NEW m \in Managers, Settled(m), Tells(m)
  PROVE  told' # <<>>
<1>1. view[m] \in Ends /\ told \in Seq(Ends)
  BY DEF Settled, TypeOK
<1>2. CASE told' = told /\ \E i \in DOMAIN told : told[i] = view[m]
  BY <1>1, <1>2
<1>3. CASE told' = Append(told, view[m])
  BY <1>1, <1>3
<1> QED
  BY <1>2, <1>3 DEF Tells

LEMMA UseRecorded ==
  ASSUME Consistent, NEW m \in Managers, UseStep(m)
  PROVE  /\ announced' => told' # <<>>
         /\ "delivered" \in files' => told' # <<>>
         /\ seen'[m] \/ at'[m]["tool"] \in MarkedSteps \cup {"ack"} => told' # <<>>
<1> USE DEF Steps, AttachSteps, LaunchSteps, StopSteps, Threads, MarkedSteps
<1>1. TypeOK /\ Recorded /\ Reporting(m)
  BY DEF Consistent, InOrder
<1>2. CASE StopJob(m) \/ ShowJob(m) \/ Sync(m)
  BY <1>1, <1>2, Went DEF StopJob, ShowJob, Sync, Recorded, TypeOK, viewVars
<1>3. CASE Call(m)
  BY <1>1, <1>3, Went DEF Call, Forget, Recorded, TypeOK, viewVars
<1>4. CASE Report(m)
  BY <1>1, <1>4, Went, TellsTold DEF Report, Reporting, Recorded, TypeOK, viewVars
<1>5. CASE Announce(m)
  BY <1>1, <1>5, Went, TellsTold DEF Announce, Recorded, TypeOK, viewVars
<1>6. CASE Ack(m)
  BY <1>1, <1>6 DEF Ack, Recorded
<1> QED
  BY <1>2, <1>3, <1>4, <1>5, <1>6 DEF UseStep

LEMMA AttachRecorded ==
  ASSUME Consistent, NEW m \in Managers, AttachStep(m)
  PROVE  at'[m]["tool"] \in MarkedSteps \cup {"ack"} => told # <<>>
BY Went DEF AttachStep, Attach, SettleRead, SettleProbe, SettleReread, Unmark, AdoptRead,
   AdoptProbe, AdoptReread, Adopt, Attached, TypeOK, Consistent, Recorded, Steps, AttachSteps,
   LaunchSteps, StopSteps, Threads, MarkedSteps

\* Only an acknowledgement marks a job.
LEMMA MarkWritten ==
  ASSUME [Next]_vars, "delivered" \notin files, "delivered" \in files'
  PROVE  \E m \in Managers : UseStep(m)
<1>1. ASSUME WorkerStep \/ WorkerChance PROVE FALSE
  BY <1>1 DEF WorkerStep, WorkerChance, WorkerPublishes, diskVars
<1>2. ASSUME EraserStep PROVE FALSE
  BY <1>2 DEF EraserStep, BeginErase, Inspect, EraserRemoves, EraserReturns, diskVars
<1>3. ASSUME NEW m \in Managers, ManagerStep(m) PROVE UseStep(m)
  <2>1. ~AttachStep(m)
    BY DEF AttachStep, Attach, SettleRead, SettleProbe, SettleReread, Unmark, AdoptRead,
       AdoptProbe, AdoptReread, diskVars
  <2>2. ~LaunchStep(m)
    BY DEF LaunchStep, Describe, Pipe, Fork, HandOff, Register, AwaitRefused, diskVars
  <2>3. ASSUME NEW t \in Threads PROVE ~Purge(m, t)
    BY DEF Purge
  <2> QED
    BY <1>3, <2>1, <2>2, <2>3, WatchFrame, StopFrame, LeaveFrame
       DEF ManagerStep, Resume, Launch, diskVars
<1> QED
  BY <1>1, <1>2, <1>3, NextCases, StillFrame

LEMMA NextRecorded ==
  ASSUME Consistent, [Next]_vars
  PROVE  Recorded'
<1> USE DEF Steps, AttachSteps, LaunchSteps, StopSteps, Threads, MarkedSteps
<1>1. TypeOK /\ Recorded /\ \A n \in Managers : Reporting(n)
  BY DEF Consistent, InOrder
<1>2. told' # <<>> => Handed' /\ ~Working'
  <2>1. told' # <<>> => Handed /\ ~Working
    BY <1>1, ToldGrows, ToldHasEnded DEF Recorded
  <2> QED
    BY <2>1, Stable
<1>3. ASSUME NEW m \in Managers, ManagerStep(m)
      PROVE  /\ announced' => told' # <<>>
             /\ seen'[m] \/ at'[m]["tool"] \in MarkedSteps \cup {"ack"} => told' # <<>>
  <2>1. CASE Resume(m) \/ Launch(m)
    BY <1>1, <2>1, Went DEF Resume, Launch, LaunchOnly, journalVars, viewVars, TypeOK, Recorded
  <2>2. CASE AttachStep(m)
    BY <1>1, <2>2, AttachRecorded, AttachFrame DEF Recorded
  <2>3. CASE LaunchStep(m)
    BY <1>1, <2>3, Went, LaunchMoves, LaunchFrame DEF Recorded, TypeOK
  <2>4. CASE WatchStep(m)
    BY <1>1, <2>4, WatchFrame DEF Recorded
  <2>5. CASE LeaveStep(m)
    <3>1. seen'[m] => seen[m]
      BY <1>1, <2>5 DEF LeaveStep, BeginExit, BeginSwitch, Settle, Exit, Switch, Crash, Down,
         Forget, viewVars, TypeOK
    <3>2. at'[m]["tool"] \in {at[m]["tool"], "idle"}
      BY <1>1, <2>5, Went, LeaveMoves DEF Down, TypeOK
    <3> QED
      BY <1>1, <2>5, <3>1, <3>2, LeaveFrame DEF Recorded
  <2>6. ASSUME NEW t \in Threads, StopStep(m, t)
        PROVE  /\ announced' => told' # <<>>
               /\ seen'[m] \/ at'[m]["tool"] \in MarkedSteps \cup {"ack"} => told' # <<>>
    <3>1. seen'[m] => seen[m]
      BY <1>1, <2>6 DEF StopStep, StopWrite, StopRefresh, StopProbe, StopReread, StopWait,
         StopReturns, Forget, viewVars, TypeOK
    <3>2. at'[m]["tool"] \in {at[m]["tool"], "idle", "report"} \cup StopSteps
      BY <1>1, <2>6, Went, StopMoves DEF TypeOK
    <3> QED
      BY <1>1, <2>6, <3>1, <3>2, StopFrame DEF Recorded
  <2>7. ASSUME NEW t \in Threads, Purge(m, t)
        PROVE  /\ announced' => told' # <<>>
               /\ seen'[m] \/ at'[m]["tool"] \in MarkedSteps \cup {"ack"} => told' # <<>>
    <3>1. at'[m]["tool"] \in {at[m]["tool"], "sync"}
      BY <1>1, <2>7, Went, PurgeMoves DEF TypeOK
    <3> QED
      BY <1>1, <2>7, <3>1, PurgeFrame DEF Recorded
  <2> QED
    BY <1>3, <2>1, <2>2, <2>3, <2>4, <2>5, <2>6, <2>7, UseRecorded DEF ManagerStep
<1>4. announced' => told' # <<>>
  BY <1>1, <1>3, NextCases, WorkerFrame, EraserFrame, StillFrame DEF Recorded
<1>5. "delivered" \in files' => told' # <<>>
  BY <1>1, MarkWritten, UseRecorded, Stable DEF Recorded
<1>6. ASSUME NEW n \in Managers
      PROVE  seen'[n] \/ at'[n]["tool"] \in MarkedSteps \cup {"ack"} => told' # <<>>
  <2>1. CASE Same(n)
    BY <1>1, <2>1, Stable DEF Same, Recorded
  <2>2. CASE ManagerStep(n)
    BY <1>3, <2>2
  <2> QED
    BY <1>1, <2>1, <2>2, Apart, NextCases, WorkerFrame, EraserFrame, StillFrame DEF Same
<1> QED
  BY <1>2, <1>4, <1>5, <1>6 DEF Recorded


-----------------------------------------------------------------------------
(* The deletion, and the files.                                            *)

LEMMA NextEraserOrderly ==
  ASSUME Consistent, [Next]_vars
  PROVE  EraserOrderly'
<1>1. TypeOK /\ WorkerTruthful /\ EraserOrderly /\ \A n \in Managers : Orderly(n)
  BY DEF Consistent, InOrder
<1>2. CASE EraserStep
  <2>1. holder' = Eraser => deletions' > 0
    BY <1>1, <1>2, JobAssumption DEF EraserStep, BeginErase, Inspect, EraserRemoves, EraserReturns,
       EraserOrderly, TypeOK
  <2>2. eraser' \notin {"idle", "done"} => holder' = Eraser
    BY <1>1, <1>2 DEF EraserStep, BeginErase, Inspect, EraserRemoves, EraserReturns, EraserOrderly
  <2>3. eraser' \in {"read", "purge"} => Absent
    BY <1>1, <1>2, DeadIsAbsent DEF EraserStep, BeginErase, Inspect, EraserRemoves,
       EraserReturns, EraserOrderly
  <2>4. eraser' = "purge" => published
    BY <1>1, <1>2 DEF EraserStep, BeginErase, Inspect, EraserRemoves, EraserReturns,
       EraserOrderly, WorkerTruthful
  <2> QED
    BY <1>2, <2>1, <2>2, <2>3, <2>4, EraserFrame DEF EraserOrderly, Absent
<1>3. CASE ~EraserStep
  <2>1. UNCHANGED <<eraser, deletions>>
    BY <1>3, NextCases, WorkerFrame, StillFrame, AttachFrame, LaunchFrame, WatchFrame, UseFrame,
       StopFrame, LeaveFrame, PurgeFrame DEF ManagerStep, Resume
  <2>2. holder' = Eraser => holder = Eraser
    <3>1. ASSUME NEW m \in Managers, ManagerStep(m), holder' = Eraser PROVE holder = Eraser
      <4>1. CASE Resume(m)
        BY <3>1, <4>1, JobAssumption DEF Resume
      <4>2. CASE LeaveStep(m)
        BY <3>1, <4>2, JobAssumption DEF LeaveStep, BeginExit, BeginSwitch, Settle, Exit, Switch,
           Crash, Down
      <4> QED
        BY <3>1, <4>1, <4>2, AttachFrame, LaunchFrame, WatchFrame, UseFrame, StopFrame, PurgeFrame
           DEF ManagerStep
    <3> QED
      BY <1>3, <3>1, NextCases, WorkerFrame, StillFrame
  <2>3. holder = Eraser => holder' = Eraser
    <3>1. ASSUME NEW m \in Managers, ManagerStep(m), holder = Eraser PROVE holder' = Eraser
      <4>1. holder # NoOne /\ holder # m
        BY <3>1, JobAssumption
      <4>2. ~Switch(m)
        BY <1>1, <4>1 DEF Switch, Orderly
      <4>3. CASE LeaveStep(m)
        BY <3>1, <4>1, <4>2, <4>3 DEF LeaveStep, BeginExit, BeginSwitch, Settle, Exit, Crash, Down
      <4> QED
        BY <3>1, <4>1, <4>3, AttachFrame, LaunchFrame, WatchFrame, UseFrame, StopFrame, PurgeFrame
           DEF ManagerStep, Resume
    <3> QED
      BY <1>3, <3>1, NextCases, WorkerFrame, StillFrame
  <2>4. holder = Eraser /\ Absent => Absent'
    BY <1>1, AbsentStays, JobAssumption
  <2> QED
    BY <1>1, <2>1, <2>2, <2>3, <2>4, Stable DEF EraserOrderly
<1> QED
  BY <1>2, <1>3

\* What can take a file away.
LEMMA FilesStay ==
  ASSUME [Next]_vars, NEW f \in {"metadata", "control", "result"}, f \in files, f \notin files'
  PROVE  \/ eraser = "purge"
         \/ \E m \in Managers, t \in Threads : at[m][t] = "purge"
<1>1. ASSUME WorkerStep \/ WorkerChance PROVE FALSE
  BY <1>1 DEF WorkerStep, WorkerChance, WorkerPublishes, diskVars
<1>2. ASSUME EraserStep PROVE eraser = "purge"
  BY <1>2 DEF EraserStep, BeginErase, Inspect, EraserRemoves, EraserReturns, diskVars
<1>3. ASSUME NEW m \in Managers, ManagerStep(m) PROVE \E t \in Threads : at[m][t] = "purge"
  <2>1. ~AttachStep(m)
    BY DEF AttachStep, Attach, SettleRead, SettleProbe, SettleReread, Unmark, AdoptRead,
       AdoptProbe, AdoptReread, diskVars
  <2>2. ~LaunchStep(m)
    BY DEF LaunchStep, Describe, Pipe, Fork, HandOff, Register, AwaitRefused, diskVars
  <2>3. ~UseStep(m)
    BY DEF UseStep, StopJob, Call, ShowJob, Report, Announce, Sync, Ack
  <2>4. ASSUME NEW t \in Threads, Purge(m, t) PROVE at[m][t] = "purge"
    BY <2>4 DEF Purge
  <2> QED
    BY <1>3, <2>1, <2>2, <2>3, <2>4, WatchFrame, StopFrame, LeaveFrame
       DEF ManagerStep, Resume, Launch, diskVars
<1> QED
  BY <1>1, <1>2, <1>3, NextCases, StillFrame

\* And the directory.
LEMMA DirStays ==
  ASSUME [Next]_vars, dir, ~dir', dir \in BOOLEAN
  PROVE  \/ eraser = "purge"
         \/ \E m \in Managers, t \in Threads : at[m][t] = "purge"
<1>1. ASSUME WorkerStep \/ WorkerChance PROVE FALSE
  BY <1>1 DEF WorkerStep, WorkerChance, WorkerPublishes, diskVars
<1>2. ASSUME EraserStep PROVE eraser = "purge"
  BY <1>2 DEF EraserStep, BeginErase, Inspect, EraserRemoves, EraserReturns, diskVars
<1>3. ASSUME NEW m \in Managers, ManagerStep(m) PROVE \E t \in Threads : at[m][t] = "purge"
  <2>1. ~LaunchStep(m)
    BY DEF LaunchStep, Describe, Pipe, Fork, HandOff, Register, AwaitRefused, diskVars
  <2>2. ASSUME NEW t \in Threads, Purge(m, t) PROVE at[m][t] = "purge"
    BY <2>2 DEF Purge
  <2> QED
    BY <1>3, <2>1, <2>2, AttachFrame, UseFrame, WatchFrame, StopFrame, LeaveFrame
       DEF ManagerStep, Resume, Launch, diskVars
<1> QED
  BY <1>1, <1>2, <1>3, NextCases, StillFrame

\* A launch makes it.
LEMMA DirMade ==
  ASSUME [Next]_vars, ~dir, dir'
  PROVE  \E m \in Managers : Launch(m)
<1>1. ASSUME WorkerStep \/ WorkerChance PROVE FALSE
  BY <1>1 DEF WorkerStep, WorkerChance, WorkerPublishes, diskVars
<1>2. ASSUME EraserStep PROVE FALSE
  BY <1>2 DEF EraserStep, BeginErase, Inspect, EraserRemoves, EraserReturns, diskVars
<1>3. ASSUME NEW m \in Managers, ManagerStep(m) PROVE Launch(m)
  <2>1. ~LaunchStep(m)
    BY DEF LaunchStep, Describe, Pipe, Fork, HandOff, Register, AwaitRefused, diskVars
  <2>2. ASSUME NEW t \in Threads PROVE ~Purge(m, t)
    BY DEF Purge
  <2> QED
    BY <1>3, <2>1, <2>2, AttachFrame, UseFrame, WatchFrame, StopFrame, LeaveFrame
       DEF ManagerStep, Resume, diskVars
<1> QED
  BY <1>1, <1>2, <1>3, NextCases, StillFrame

LEMMA NextUnderWorker ==
  ASSUME Consistent, [Next]_vars
  PROVE  UnderWorker'
<1>1. /\ TypeOK /\ WorkerTruthful /\ UnderWorker /\ EraserOrderly
      /\ \A n \in Managers : Purging(n) /\ Launching(n)
  BY DEF Consistent, InOrder
<1>2. job' = "unborn" => worker' = "none" /\ ~dir'
  BY <1>1, JobAdvances, WorkerAdvances, DirMade DEF UnderWorker, Launch
<1>3. CASE Working
  <2>1. eraser # "purge" /\ \A m \in Managers, t \in Threads : at[m][t] # "purge"
    BY <1>1, <1>3 DEF Purging, EraserOrderly, Working, Absent
  <2>2. dir' /\ {"metadata", "control"} \subseteq files'
    BY <1>1, <1>3, <2>1, FilesStay, DirStays DEF UnderWorker, TypeOK
  <2> QED
    BY <1>2, <2>2 DEF UnderWorker
<1>4. CASE ~Working
  <2>1. Working' => \E m \in Managers : Fork(m)
    BY <1>4, OnlyForked DEF Working, WorkerStep, WorkerChance, WorkerPublishes, WorkerStarts,
       WorkerCannotStart, WorkerReaps, WorkerHearsStop, WorkerEnds, WorkerExits, WorkerLives,
       PayloadExits, WorkerTimesOut
  <2>2. ASSUME NEW m \in Managers, Fork(m)
        PROVE  dir' /\ {"metadata", "control"} \subseteq files'
    BY <1>1, <2>2 DEF Fork, Launching, diskVars
  <2> QED
    BY <1>2, <2>1, <2>2 DEF UnderWorker
<1> QED
  BY <1>3, <1>4

LEMMA PublishedWritten ==
  ASSUME [Next]_vars, ~published, published'
  PROVE  WorkerPublishes
BY OnlyForked DEF WorkerStep, WorkerChance, WorkerStarts, WorkerCannotStart, WorkerReaps,
   WorkerHearsStop, WorkerEnds, WorkerExits, PayloadExits, WorkerTimesOut

\* Reads that fail and deletions are counted.
LEMMA CountsGrow ==
  ASSUME TypeOK, [Next]_vars
  PROVE  (faults' = 0 => faults = 0) /\ (deletions' = 0 => deletions = 0)
<1>1. CASE EraserStep
  <2>1. deletions \in Nat /\ deletions' \in {deletions, deletions + 1}
    BY <1>1, JobAssumption DEF EraserStep, BeginErase, Inspect, EraserRemoves, EraserReturns, TypeOK
  <2> QED
    BY <1>1, <2>1, EraserFrame
<1>2. ASSUME NEW m \in Managers, WatchStep(m) PROVE faults' = 0 => faults = 0
  BY <1>2, JobAssumption DEF WatchStep, Observe, Missed, Derive, TypeOK
<1> QED
  BY <1>1, <1>2, NextCases, WorkerFrame, StillFrame, AttachFrame, LaunchFrame, WatchFrame, UseFrame,
     StopFrame, LeaveFrame, PurgeFrame DEF ManagerStep, Resume

LEMMA NextKept ==
  ASSUME Consistent, [Next]_vars
  PROVE  Kept'
<1> SUFFICES ASSUME deletions' = 0, published', told' = <<>>, job' # "refused"
             PROVE  {"metadata", "control", "result"} \subseteq files'
  BY DEF Kept
<1>1. /\ TypeOK /\ WorkerTruthful /\ UnderWorker /\ EraserOrderly /\ Kept
      /\ \A n \in Managers : Purging(n)
  BY DEF Consistent, InOrder
<1>2. deletions = 0
  BY <1>1, CountsGrow
<1>3. told = <<>> /\ job # "refused"
  BY Stable
<1>4. CASE published
  <2>1. eraser # "purge"
    BY <1>1, <1>2 DEF EraserOrderly
  <2>2. \A m \in Managers, t \in Threads : at[m][t] # "purge"
    BY <1>1, <1>3, <1>4 DEF Purging, WorkerTruthful, Threads
  <2> QED
    BY <1>1, <1>2, <1>3, <1>4, <2>1, <2>2, FilesStay DEF Kept
<1>5. CASE ~published
  <2>1. WorkerPublishes
    BY <1>5, PublishedWritten
  <2> QED
    BY <1>1, <2>1 DEF WorkerPublishes, UnderWorker, Working
<1> QED
  BY <1>4, <1>5


-----------------------------------------------------------------------------
(* What the journal tells first.                                           *)

\* A fate is final.
LEMMA FateStays ==
  ASSUME Consistent, [Next]_vars, Fate # "none"
  PROVE  Fate' = Fate
<1>1. /\ TypeOK /\ WorkerTruthful /\ \A n \in Managers : Launching(n)
  BY DEF Consistent, InOrder
<1>2. CASE published
  BY <1>2, Stable DEF Fate
<1>3. CASE ~published /\ worker = "gone"
  BY <1>3, Stable, PublishedWritten DEF WorkerPublishes, Fate
<1>4. CASE ~published /\ worker = "none" /\ job = "given"
  <2>1. worker' = "none" /\ job' = "given"
    BY <1>1, <1>4, WorkerAdvances, JobAdvances
  <2> QED
    BY <1>4, <2>1, PublishedWritten DEF WorkerPublishes, Fate
<1> QED
  BY <1>2, <1>3, <1>4 DEF Fate

\* What a manager tells of is the fate of the job.
LEMMA ToldIsFate ==
  ASSUME Consistent, NEW m \in Managers, Settled(m), told = <<>>,
         faults = 0, deletions = 0, job # "refused"
  PROVE  view[m] = Fate
<1>1. Honest /\ WorkerTruthful /\ Believing(m)
  BY DEF Consistent, InOrder
<1>2. CASE view[m] \in Outcomes
  BY <1>1, <1>2 DEF Believing, Fate
<1>3. CASE view[m] = "abandoned"
  BY <1>1, <1>3 DEF Believing, Honest, Fate, Absent, Handed
<1> QED
  BY <1>2, <1>3 DEF Settled, Ends

LEMMA NextHonest ==
  ASSUME Consistent, [Next]_vars
  PROVE  Honest'
<1> SUFFICES ASSUME faults' = 0, deletions' = 0, job' # "refused"
             PROVE  /\ told' = <<>> =>
                         \A m \in Managers : view'[m] = "abandoned" => ~published'
                    /\ told' # <<>> => Head(told') = Fate'
  BY DEF Honest
<1>1. /\ TypeOK /\ WorkerTruthful /\ Kept /\ Honest /\ Recorded
      /\ \A n \in Managers : Believing(n) /\ Reporting(n)
  BY DEF Consistent, InOrder
<1>2. faults = 0 /\ deletions = 0 /\ job # "refused"
  BY <1>1, CountsGrow, Stable
<1>3. ASSUME told' = <<>>, NEW m \in Managers, view'[m] = "abandoned" PROVE ~published'
  <2>1. told = <<>>
    BY <1>3, Stable
  <2>2. CASE view[m] = "abandoned"
    <3>1. Absent /\ ~published
      BY <1>1, <1>2, <2>1, <2>2 DEF Believing, Honest
    <3> QED
      BY <3>1, PublishedWritten DEF WorkerPublishes, Absent
  <2>3. CASE view[m] # "abandoned"
    <3>1. ManagerStep(m)
      BY <1>1, <1>3, <2>3, Apart, NextCases, WorkerFrame, EraserFrame, StillFrame DEF Same
    <3>2. "result" \in files => outcome # "abandoned"
      BY <1>1 DEF WorkerTruthful, Outcomes
    <3>3. Absent /\ ~({"control", "result"} \subseteq files)
      BY <1>3, <2>3, <3>1, <3>2, Beliefs
    <3>4. ~published
      BY <1>1, <1>2, <2>1, <3>3 DEF Kept
    <3> QED
      BY <3>3, <3>4, PublishedWritten DEF WorkerPublishes, Absent
  <2> QED
    BY <2>2, <2>3
<1>4. CASE told # <<>>
  <2>1. Head(told) = Fate /\ Fate # "none"
    BY <1>1, <1>2, <1>4 DEF Honest, Recorded, Fate, Working, Handed, WorkerTruthful, TypeOK, Outcomes
  <2> QED
    BY <1>2, <1>4, <2>1, Stable, FateStays
<1>5. ASSUME NEW m \in Managers, UseStep(m), Settled(m), told' = Append(told, view[m]), told = <<>>
      PROVE  Head(told') = Fate'
  <2>1. view[m] = Fate
    BY <1>2, <1>5, ToldIsFate
  <2>2. Fate' = Fate
    BY <1>5, UseFrame DEF Fate
  <2>3. Head(told') = view[m]
    BY <1>5
  <2> QED
    BY <2>1, <2>2, <2>3
<1> QED
  BY <1>1, <1>3, <1>4, <1>5, ToldGrows, Stable

-----------------------------------------------------------------------------
(* Jobs that end with their process.                                       *)

\* A request to stop is lost only with the worker.
LEMMA StopStays ==
  ASSUME [Next]_vars, stop
  PROVE  stop' \/ WorkerExits
<1>1. CASE WorkerStep \/ WorkerChance
  BY <1>1 DEF WorkerStep, WorkerChance, WorkerPublishes, WorkerStarts, WorkerCannotStart,
     WorkerReaps, WorkerHearsStop, WorkerEnds, PayloadExits, WorkerTimesOut
<1>2. ASSUME NEW m \in Managers, LaunchStep(m) PROVE stop'
  BY <1>2 DEF LaunchStep, Describe, Pipe, Fork, HandOff, Register, AwaitRefused, workerVars
<1>3. ASSUME NEW m \in Managers, NEW t \in Threads, StopStep(m, t) PROVE stop'
  BY <1>3 DEF StopStep, StopWrite, StopRefresh, StopProbe, StopReread, StopWait
<1> QED
  BY <1>1, <1>2, <1>3, NextCases, EraserFrame, StillFrame, AttachFrame, WatchFrame, UseFrame,
     LeaveFrame, PurgeFrame DEF ManagerStep, Resume, Launch, workerVars

LEMMA RefusedIsStopped ==
  ASSUME Consistent, [Next]_vars, job' = "refused", Working'
  PROVE  stop'
<1>1. TypeOK /\ Covered /\ UnderWorker /\ \A n \in Managers : Launching(n)
  BY DEF Consistent, InOrder
<1>2. CASE job = "refused"
  <2>1. Working /\ ~WorkerExits
    BY <1>2, Stable DEF Handed, WorkerExits, Working
  <2> QED
    BY <1>1, <1>2, <2>1, StopStays DEF Covered
<1>3. CASE job # "refused"
  <2>1. PICK m \in Managers : Register(m) /\ closed[m]
    <3>1. ASSUME NEW m \in Managers, ManagerStep(m) PROVE Register(m) /\ closed[m]
      <4>1. ~AttachStep(m)
        BY <1>3 DEF AttachStep, Attach, SettleRead, SettleProbe, SettleReread, Unmark, AdoptRead,
           AdoptProbe, AdoptReread, Adopt
      <4>2. LaunchStep(m) => Register(m) /\ closed[m]
        BY <1>3 DEF LaunchStep, Describe, Pipe, Fork, HandOff, Register, AwaitRefused
      <4> QED
        BY <1>3, <3>1, <4>1, <4>2, WatchFrame, UseFrame, StopFrame, LeaveFrame, PurgeFrame
           DEF ManagerStep, Resume, Launch
    <3> QED
      BY <1>3, <3>1, NextCases, WorkerFrame, EraserFrame, StillFrame
  <2>2. Working
    BY <2>1 DEF Register, Working
  <2>3. Live
    BY <1>1, <2>2 DEF UnderWorker, Live, Observable, HasReader, WorkerLives, Working
  <2> QED
    BY <2>1, <2>3 DEF Register
<1> QED
  BY <1>2, <1>3

\* A manager forgets a job when it leaves the session, or the job is a call of its own.
LEMMA Forgets ==
  ASSUME Consistent, NEW m \in Managers, ManagerStep(m), view[m] # "none", view'[m] = "none"
  PROVE  ~loaded'[m] \/ kind = "called"
<1>1. TypeOK /\ WorkerTruthful /\ Orderly(m)
  BY DEF Consistent, InOrder
<1>2. "result" \in files => outcome # "none"
  BY <1>1 DEF WorkerTruthful, Outcomes
<1>3. Refreshed(m) # "none"
  BY <1>1, RefreshedEnds DEF Ends, Outcomes
<1>4. ASSUME NEW v, Learn(m, v) PROVE v = "none"
  BY <1>1, <1>4 DEF Learn, TypeOK
<1>5. CASE UseStep(m)
  BY <1>1, <1>3, <1>4, <1>5 DEF UseStep, StopJob, Call, ShowJob, Report, Announce, Sync, Ack,
     viewVars, Orderly
<1>6. ASSUME NEW t \in Threads, StopStep(m, t) PROVE kind = "called"
  BY <1>1, <1>3, <1>4, <1>6 DEF StopStep, StopWrite, StopRefresh, StopProbe, StopReread, StopWait,
     StopReturns, viewVars, Orderly
<1>7. CASE LeaveStep(m)
  BY <1>1, <1>7 DEF LeaveStep, BeginExit, BeginSwitch, Settle, Exit, Switch, Crash, Down,
     viewVars, TypeOK
<1>8. ~AttachStep(m)
  BY DEF AttachStep, Attach, SettleRead, SettleProbe, SettleReread, Unmark, AdoptRead,
     AdoptProbe, AdoptReread, Adopt, viewVars
<1>9. ~Launch(m) /\ ~LaunchStep(m)
  BY <1>1 DEF Launch, LaunchStep, Describe, Pipe, Fork, HandOff, Register, AwaitRefused, viewVars,
     TypeOK
<1>10. ~WatchStep(m)
  BY <1>1, <1>2, <1>4 DEF WatchStep, Observe, Missed, Derive, Readable
<1> QED
  BY <1>5, <1>6, <1>7, <1>8, <1>9, <1>10, PurgeFrame DEF ManagerStep, Resume, viewVars

\* A session that is opened has its worker, if there is one.
LEMMA AttachCovers ==
  ASSUME Consistent, NEW m \in Managers, AttachStep(m), loaded'[m], ~loaded[m], Working
  PROVE  view'[m] # "none"
<1>1. TypeOK /\ UnderWorker /\ WorkerTruthful
  BY DEF Consistent
<1>2. dir /\ {"metadata", "control"} \subseteq files
  BY <1>1 DEF UnderWorker
<1>3. "result" \in files => outcome # "none"
  BY <1>1 DEF WorkerTruthful, Outcomes
<1>4. ASSUME NEW v, Adopt(m, v), v # "none" PROVE view'[m] # "none"
  BY <1>1, <1>4 DEF Adopt, TypeOK
<1>5. ~Attach(m) /\ ~SettleRead(m) /\ ~SettleProbe(m) /\ ~SettleReread(m) /\ ~Unmark(m)
  BY <1>2 DEF Attach, SettleRead, SettleProbe, SettleReread, Unmark, Observable
<1>6. CASE AdoptRead(m)
  BY <1>2, <1>3, <1>4, <1>6 DEF AdoptRead
<1>7. CASE AdoptProbe(m)
  BY <1>2, <1>4, <1>7 DEF AdoptProbe, Observable
<1>8. CASE AdoptReread(m)
  BY <1>3, <1>4, <1>8 DEF AdoptReread
<1> QED
  BY <1>5, <1>6, <1>7, <1>8 DEF AttachStep


\* A launch that has forked is followed by its registration.
LEMMA BirthGoesOn ==
  ASSUME Consistent, NEW m \in Managers, ManagerStep(m),
         at[m]["tool"] \in {"handoff", "register"}, loaded'[m]
  PROVE  \/ at'[m]["tool"] \in {"handoff", "register"}
         \/ view'[m] # "none" \/ job' = "refused"
<1> USE DEF Steps, AttachSteps, LaunchSteps, StopSteps, Threads
<1>1. TypeOK
  BY DEF Consistent
<1>2. ~AttachStep(m) /\ ~UseStep(m)
  BY AttachMoves, UseMoves, <1>1 DEF Idle
<1>3. CASE LaunchStep(m)
  BY <1>1, <1>3, Went DEF LaunchStep, Describe, Pipe, Fork, HandOff, Register, AwaitRefused, TypeOK
<1>4. CASE LeaveStep(m)
  BY <1>1, <1>4, Went, LeaveMoves DEF Down, TypeOK
<1>5. ASSUME NEW t \in Threads, StopStep(m, t) PROVE at'[m]["tool"] = at[m]["tool"]
  <2>1. PICK s \in StopSteps \cup {"idle", "report", "settle", "retain"} :
          Go(m, t, s) /\ at[m][t] \in StopSteps
    BY <1>1, <1>5, StopMoves
  <2>2. t # "tool"
    BY <2>1
  <2> QED
    BY <1>1, <2>1, <2>2, Went DEF TypeOK
<1>6. ASSUME NEW t \in Threads, Purge(m, t) PROVE at'[m]["tool"] = at[m]["tool"]
  BY <1>1, <1>6, Went, PurgeMoves DEF Purge, TypeOK
<1> QED
  BY <1>2, <1>3, <1>4, <1>5, <1>6, WatchFrame DEF ManagerStep, Resume, Launch, Idle

LEMMA WorkerIsKnown ==
  ASSUME Consistent, [Next]_vars, ~Detaches, NEW n \in Managers, loaded'[n], Working'
  PROVE  \/ view'[n] # "none" \/ job' = "refused"
         \/ at'[n]["tool"] \in {"handoff", "register"}
<1>1. /\ TypeOK /\ Covered
      /\ \A m \in Managers : Orderly(m) /\ Launching(m) /\ Purging(m)
  BY DEF Consistent, InOrder
<1>2. kind # "called"
  BY DEF Detaches
<1>3. ~Same(n) => ManagerStep(n)
  BY <1>1, Apart, NextCases, WorkerFrame, EraserFrame, StillFrame DEF Same
<1>4. CASE ~Working
  <2>1. PICK m \in Managers : Fork(m)
    BY <1>4, OnlyForked DEF Working, WorkerStep, WorkerChance, WorkerPublishes, WorkerStarts,
       WorkerCannotStart, WorkerReaps, WorkerHearsStop, WorkerEnds, WorkerExits, WorkerLives,
       PayloadExits, WorkerTimesOut
  <2>2. holder = m /\ loaded' = loaded
    BY <1>1, <2>1 DEF Fork, LaunchOnly, Orderly
  <2>3. n = m
    BY <1>1, <2>2 DEF Orderly
  <2>4. Go(m, "tool", "handoff")
    BY <1>4, <2>1 DEF Fork, Working
  <2> QED
    BY <1>1, <2>3, <2>4, Went DEF TypeOK, Steps, LaunchSteps, Threads
<1>5. CASE Working /\ loaded[n]
  <2>1. \/ view[n] # "none" \/ job = "refused"
        \/ at[n]["tool"] \in {"handoff", "register"}
    BY <1>1, <1>5 DEF Covered
  <2>2. CASE Same(n)
    BY <2>1, <2>2, Stable DEF Same
  <2>3. CASE ManagerStep(n)
    BY <1>2, <2>1, <2>3, Forgets, BirthGoesOn, Stable
  <2> QED
    BY <1>3, <2>2, <2>3
<1>6. CASE Working /\ ~loaded[n]
  <2>1. ManagerStep(n)
    BY <1>1, <1>3, <1>6 DEF Same, TypeOK
  <2>2. ASSUME NEW t \in Threads PROVE ~Purge(n, t)
    BY <1>1, <1>6 DEF Purge, Purging
  <2>3. AttachStep(n)
    BY <1>1, <1>6, <2>1, <2>2, LaunchFrame, WatchFrame, UseFrame, StopFrame
       DEF ManagerStep, Resume, LeaveStep, BeginExit, BeginSwitch, Settle, Exit, Switch, Crash, Down,
       TypeOK
  <2> QED
    BY <1>6, <2>3, AttachCovers
<1> QED
  BY <1>4, <1>5, <1>6 DEF TypeOK

Stopping == {"settle", "purge", "release"}

\* Leaving gets past the stop of a job only when the job has stopped.
LEMMA LeaveStops ==
  ASSUME Consistent, ~Detaches, NEW m \in Managers, ManagerStep(m),
         at'[m]["closer"] \in Stopping
  PROVE  ~Running(m)'
<1> USE DEF Steps, AttachSteps, LaunchSteps, StopSteps, Threads, Stopping
<1>1. /\ TypeOK /\ WorkerTruthful /\ Covered /\ Orderly(m)
  BY DEF Consistent, InOrder
<1>2. "result" \in files => outcome # "running"
  BY <1>1 DEF WorkerTruthful, Outcomes
<1>3. ASSUME NEW v, Learn(m, v) PROVE view'[m] = v
  BY <1>1, <1>3 DEF Learn, TypeOK
<1>4. ASSUME Forget(m) PROVE view'[m] = "none"
  BY <1>1, <1>4 DEF Forget, TypeOK
<1>5. Refreshed(m) = "running" => Running(m)
  BY <1>1 DEF Refreshed, Running, TypeOK, Outcomes
<1>6. ~Resume(m) /\ ~Launch(m)
  BY <1>1, Went DEF Resume, Launch, Idle, TypeOK
<1>7. ~AttachStep(m)
  BY <1>1, Went, AttachMoves DEF Orderly, TypeOK
<1>8. CASE at[m]["closer"] \in Stopping /\ ~LeaveStep(m)
  <2>1. ~Running(m)
    BY <1>1, <1>8 DEF Covered
  <2>2. ~Register(m) \/ closed[m]
    BY <1>1, <1>8 DEF Register, Orderly
  <2>3. CASE LaunchStep(m)
    BY <2>1, <2>2, <2>3 DEF LaunchStep, Describe, Pipe, Fork, HandOff, Register, AwaitRefused,
       viewVars, Running
  <2>4. ~WatchStep(m)
    BY <2>1 DEF WatchStep, Observe, Missed, Derive
  <2>5. CASE UseStep(m)
    BY <1>3, <1>4, <1>5, <2>1, <2>5 DEF UseStep, StopJob, Call, ShowJob, Report, Announce, Sync, Ack,
       viewVars, Running
  <2>6. ASSUME NEW t \in Threads, StopStep(m, t) PROVE ~Running(m)'
    BY <1>3, <1>4, <1>5, <2>1, <2>6 DEF StopStep, StopWrite, StopRefresh, StopProbe, StopReread,
       StopWait, StopReturns, viewVars, Running
  <2> QED
    BY <1>6, <1>7, <1>8, <2>1, <2>3, <2>4, <2>5, <2>6, PurgeFrame DEF ManagerStep, Running
<1>9. CASE at[m]["closer"] \notin Stopping /\ ~LeaveStep(m)
  <2>1. ~LaunchStep(m) /\ ~UseStep(m)
    BY <1>1, <1>9, Went, LaunchMoves, UseMoves DEF TypeOK
  <2>2. ASSUME NEW t \in Threads PROVE ~Purge(m, t)
    BY <1>1, <1>9, Went, PurgeMoves DEF Purge, TypeOK
  <2>3. ASSUME NEW t \in Threads, StopStep(m, t) PROVE ~Running(m)'
    <3>1. t = "closer"
      <4>1. \E s \in Steps : Go(m, t, s)
        BY <1>1, <2>3, StopMoves
      <4> QED
        BY <1>1, <1>9, <4>1, Went DEF TypeOK
    <3>2. StopWait(m, t) /\ ~Running(m)
      BY <1>1, <1>9, <2>3, <3>1, Went DEF StopStep, StopWrite, StopRefresh, StopProbe, StopReread,
         StopWait, StopReturns, TypeOK
    <3> QED
      BY <3>1, <3>2 DEF StopWait, StopReturns, viewVars, Running
  <2> QED
    BY <1>6, <1>7, <1>9, <2>1, <2>2, <2>3, WatchFrame DEF ManagerStep
<1>10. CASE LeaveStep(m)
  <2>1. CASE BeginExit(m) \/ BeginSwitch(m)
    BY <1>1, <2>1, Went DEF BeginExit, BeginSwitch, BeginLeaving, viewVars, Running, TypeOK
  <2>2. CASE Settle(m)
    BY <1>1, <2>2 DEF Settle, viewVars, Running, Covered
  <2>3. CASE Switch(m) \/ Exit(m) \/ Crash(m)
    BY <1>1, <2>3, Went DEF Switch, Exit, Crash, Down, TypeOK
  <2> QED
    BY <1>10, <2>1, <2>2, <2>3 DEF LeaveStep
<1> QED
  BY <1>8, <1>9, <1>10

LEMMA NextCovered ==
  ASSUME Consistent, [Next]_vars
  PROVE  Covered'
<1>1. TypeOK /\ Covered
  BY DEF Consistent
<1>2. ~Detaches' => ~Detaches
  BY NextCases, WorkerFrame, EraserFrame, StillFrame, AttachFrame, LaunchFrame, WatchFrame, UseFrame,
     StopFrame, LeaveFrame, PurgeFrame DEF ManagerStep, Resume, Detaches
<1>3. ASSUME ~Detaches, NEW n \in Managers, at'[n]["closer"] \in {"settle", "purge", "release"}
      PROVE  ~Running(n)'
  <2>1. CASE Same(n)
    BY <1>1, <1>3, <2>1 DEF Same, Covered, Running
  <2>2. CASE ManagerStep(n)
    BY <1>3, <2>2, LeaveStops DEF Stopping
  <2> QED
    BY <1>1, <2>1, <2>2, Apart, NextCases, WorkerFrame, EraserFrame, StillFrame DEF Same
<1> QED
  BY <1>2, <1>3, RefusedIsStopped, WorkerIsKnown DEF Covered


-----------------------------------------------------------------------------
(* Theorems.                                                               *)

LEMMA InitConsistent == Init => Consistent
<1> SUFFICES ASSUME Init PROVE Consistent
  OBVIOUS
<1> USE DEF Steps, AttachSteps, LaunchSteps, StopSteps, Threads
<1>1. TypeOK
  BY InitTypeOK
<1>2. \A m \in Managers, t \in Threads : at[m][t] = "idle"
  BY DEF Init
<1>3. \A m \in Managers : /\ view[m] = "none" /\ watch[m] = "none" /\ ~seen[m] /\ ~loaded[m]
                          /\ ~calling[m] /\ lease # m
  BY JobAssumption DEF Init
<1>4. \A m \in Managers : InOrder(m)
  BY <1>2, <1>3 DEF InOrder, Orderly, Reporting, Launching, Purging, Looking, Believing,
     ToolSteps, CloserSteps, BirthSteps, Outcomes
<1>5. WorkerTruthful /\ UnderWorker /\ EraserOrderly
  BY JobAssumption DEF Init, WorkerTruthful, UnderWorker, EraserOrderly, Working
<1>6. Recorded
  BY <1>2, <1>3 DEF Init, Recorded, MarkedSteps
<1>7. Kept /\ Honest
  BY <1>3 DEF Init, Kept, Honest
<1>8. Covered
  BY <1>2, <1>3 DEF Init, Covered, Working
<1> QED
  BY <1>1, <1>4, <1>5, <1>6, <1>7, <1>8 DEF Consistent

LEMMA NextConsistent == Consistent /\ [Next]_vars => Consistent'
<1> SUFFICES ASSUME Consistent, [Next]_vars PROVE Consistent'
  OBVIOUS
<1>1. /\ TypeOK /\ WorkerTruthful
      /\ \A m \in Managers : Orderly(m) /\ Reporting(m) /\ Launching(m)
  BY DEF Consistent, InOrder
<1>2. \A m \in Managers : InOrder(m)'
  BY <1>1, NextOrderly, NextReporting, NextLaunching, NextPurging, NextLooking, NextBelieving
     DEF InOrder
<1> QED
  BY <1>1, <1>2, NextTypeOK, NextWorkerTruthful, NextRecorded, NextEraserOrderly, NextUnderWorker,
     NextKept, NextHonest, NextCovered DEF Consistent

\* The inductive invariant holds in every reachable state.
THEOREM SpecConsistent == Spec => []Consistent
<1>1. Init => Consistent
  BY InitConsistent
<1>2. Consistent /\ [Next]_vars => Consistent'
  BY NextConsistent
<1> QED
  BY <1>1, <1>2, PTL DEF Spec

\* Every variable keeps its type in every reachable state; in particular nobody ever
\* reports an end that is none.
THEOREM SpecTypeOK == Spec => []TypeOK
<1>1. Consistent => TypeOK
  BY DEF Consistent
<1> QED
  BY <1>1, SpecConsistent, PTL

\* Nothing is removed under a worker, whatever crashes, switches of sessions, refused
\* starts, reads that fail and deletions come between.
THEOREM SpecRemovedAfterWork == Spec => []RemovedAfterWork
<1>1. Consistent => RemovedAfterWork
  BY DEF Consistent, InOrder, Purging, RemovedAfterWork
<1> QED
  BY <1>1, SpecConsistent, PTL

\* A deletion removes a job only when its command has exited, its worker is gone and
\* nobody is launching it.
THEOREM SpecDeletedAfterCommand == Spec => []DeletedAfterCommand
<1>1. Consistent => DeletedAfterCommand
  <2> SUFFICES ASSUME Consistent, eraser = "purge" PROVE payload # "running" /\ ~HasReader
    BY DEF DeletedAfterCommand
  <2>1. holder = Eraser /\ Absent /\ published
    BY DEF Consistent, EraserOrderly
  <2>2. payload # "running"
    BY <2>1 DEF Consistent, WorkerTruthful
  <2>3. lease = NoOne
    BY <2>1, JobAssumption DEF Consistent, TypeOK, InOrder, Orderly
  <2> QED
    BY <2>1, <2>2, <2>3 DEF HasReader, WorkerLives, Absent
<1> QED
  BY <1>1, SpecConsistent, PTL

\* A job is marked as told of only when the journal tells of it and its worker has
\* nothing more to say; nobody needs to keep from deleting the session for that.
THEOREM SpecMarkedIsTold == Spec => []MarkedIsTold
<1>1. Consistent => MarkedIsTold
  BY DEF Consistent, Recorded, MarkedIsTold
<1> QED
  BY <1>1, SpecConsistent, PTL

\* As long as nobody deletes the session, a result stays until the journal tells of it.
THEOREM SpecCompletionKept == Spec => [](deletions = 0 => CompletionKept)
<1>1. Consistent => (deletions = 0 => CompletionKept)
  BY DEF Consistent, Recorded, Kept, MarkedIsTold, CompletionKept
<1> QED
  BY <1>1, SpecConsistent, PTL

\* As long as nobody deletes the session and no look at the result fails, a job that a
\* manager takes for abandoned has neither a worker nor a result.
THEOREM SpecAbandonedIsLost == Spec => [](faults = 0 /\ deletions = 0 => AbandonedIsLost)
<1>1. Consistent => (faults = 0 /\ deletions = 0 => AbandonedIsLost)
  BY DEF Consistent, InOrder, Believing, Honest, AbandonedIsLost, Absent, WorkerLives
<1> QED
  BY <1>1, SpecConsistent, PTL

\* A process that leaves cleanly leaves no job behind that was to end with it.
THEOREM SpecExitStopsPlainJobs == Spec => ExitStopsPlainJobs
<1> DEFINE Leaving(m) == /\ ~Detaches /\ closed[m] /\ up[m] /\ ~up'[m]
                         /\ at[m]["closer"] = "release" /\ at[m]["tool"] = "idle"
                         /\ holder = m /\ loaded[m]
<1>1. ASSUME Consistent, NEW m \in Managers, Leaving(m) PROVE ~Working \/ stop
  <2>1. Covered /\ TypeOK /\ Believing(m) /\ WorkerTruthful
    BY <1>1 DEF Consistent, InOrder
  <2>2. ~Running(m)
    BY <1>1, <2>1 DEF Covered
  <2>3. CASE job = "refused"
    BY <2>1, <2>3 DEF Covered
  <2>4. CASE view[m] = "none" /\ job # "refused"
    BY <1>1, <2>1, <2>4 DEF Covered
  <2>5. CASE view[m] # "none"
    <3>1. view[m] \in Outcomes \cup {"abandoned"}
      BY <2>1, <2>2, <2>5 DEF TypeOK, Running, Ends
    <3> QED
      BY <2>1, <3>1 DEF Believing, WorkerTruthful, Working, Absent
  <2> QED
    BY <2>3, <2>4, <2>5
<1>2. Consistent => [\A m \in Managers : Leaving(m) => ~Working \/ stop]_vars
  BY <1>1
<1> QED
  BY <1>2, SpecConsistent, PTL DEF ExitStopsPlainJobs


-----------------------------------------------------------------------------
(* The promise.                                                            *)

LEMMA UnbornHasNoFate ==
  ASSUME Consistent, job = "unborn"
  PROVE  Fate = "none" /\ told = <<>>
BY DEF Consistent, UnderWorker, WorkerTruthful, Recorded, Handed, Fate

\* A job that was not there and now is was launched.
LEMMA Launched ==
  ASSUME Consistent, [Next]_vars, job = "unborn", job' # "unborn"
  PROVE  job' = "made" /\ Fate' = "none" /\ told' = told
<1>1. UnderWorker /\ WorkerTruthful /\ \A m \in Managers : Looking(m) /\ Launching(m)
  BY DEF Consistent, InOrder
<1>2. ASSUME NEW m \in Managers PROVE ~AttachStep(m)
  <2>1. at[m]["tool"] \notin AttachSteps \ {"attach"}
    BY <1>1 DEF Looking
  <2> QED
    BY <1>1, <2>1 DEF AttachStep, Attach, SettleRead, SettleProbe, SettleReread, Unmark, AdoptRead,
       AdoptProbe, AdoptReread, AttachSteps, UnderWorker
<1>3. ASSUME NEW m \in Managers PROVE ~LaunchStep(m)
  BY <1>1, <1>3 DEF LaunchStep, Describe, Pipe, Fork, HandOff, Register, AwaitRefused, Launching,
     BirthSteps
<1>4. PICK m \in Managers : Launch(m)
  BY <1>2, <1>3, NextCases, WatchFrame, UseFrame, StopFrame, LeaveFrame, PurgeFrame, WorkerFrame,
     EraserFrame, StillFrame DEF ManagerStep, Resume
<1> QED
  BY <1>1, <1>4, LaunchFrame DEF Launch, Fate, UnderWorker, WorkerTruthful, workerVars


Stage == IF job = "unborn" THEN "unborn" ELSE IF Fate = "none" THEN "running" ELSE "ended"
Tale == IF told = <<>> \/ job = "refused" THEN "none" ELSE Head(told)

\* The journal starts to tell with the fate, and only then.
LEMMA TaleStep ==
  ASSUME Consistent, faults = 0, deletions = 0, [Next]_vars
  PROVE  \/ Tale' = Tale
         \/ Tale = "none" /\ Tale' = Fate /\ Fate \in Ends /\ UNCHANGED <<job, Fate>>
            /\ job # "unborn"
<1>1. TypeOK /\ Recorded /\ \A m \in Managers : Reporting(m)
  BY DEF Consistent, InOrder
<1>2. CASE job # "refused" /\ job' = "refused"
  <2>1. told = <<>>
    BY <1>1, <1>2, Stable DEF Recorded, Handed
  <2> QED
    BY <1>2, <2>1 DEF Tale
<1>3. CASE job = "refused"
  BY <1>3, Stable DEF Tale
<1>4. CASE job # "refused" /\ job' # "refused" /\ told # <<>>
  BY <1>4, Stable DEF Tale
<1>5. CASE job # "refused" /\ job' # "refused" /\ told = <<>>
  <2>1. CASE told' = told
    BY <1>5, <2>1 DEF Tale
  <2>2. ASSUME NEW m \in Managers, UseStep(m), Settled(m), told' = Append(told, view[m])
        PROVE  /\ Tale = "none" /\ Tale' = Fate /\ Fate \in Ends /\ UNCHANGED <<job, Fate>>
               /\ job # "unborn"
    <3>1. view[m] = Fate /\ view[m] \in Ends /\ Handed
      BY <1>5, <2>2, ToldIsFate, ToldHasEnded DEF Settled
    <3>2. UNCHANGED <<job, Fate>>
      BY <2>2, UseFrame DEF Fate
    <3>3. told' # <<>> /\ Head(told') = view[m]
      BY <1>5, <2>2, <3>1
    <3> QED
      BY <1>5, <3>1, <3>2, <3>3 DEF Tale, Handed
  <2> QED
    BY <1>1, <2>1, <2>2, ToldGrows
<1> QED
  BY <1>2, <1>3, <1>4, <1>5

\* Every step of a job begins it, ends it, tells of it, or is nothing to the promise.
LEMMA PromiseStep ==
  ASSUME Consistent, faults = 0, deletions = 0, [Next]_vars
  PROVE  \/ Stage = "unborn" /\ Stage' = "running" /\ UNCHANGED <<Fate, Tale>>
         \/ Stage = "running" /\ Stage' = "ended" /\ Fate' \in Ends /\ UNCHANGED Tale
         \/ Stage = "ended" /\ Tale = "none" /\ Tale' = Fate /\ UNCHANGED <<Stage, Fate>>
         \/ UNCHANGED <<Stage, Fate, Tale>>
<1>1. Consistent'
  BY NextConsistent
<1>2. /\ TypeOK /\ WorkerTruthful' /\ \A m \in Managers : Launching(m) /\ Reporting(m)
  BY <1>1 DEF Consistent, InOrder
<1>3. "none" \notin Ends
  BY DEF Ends, Outcomes
<1>4. CASE job = "unborn" /\ job' # "unborn"
  <2>1. Fate = "none" /\ Fate' = "none" /\ job' = "made" /\ told = <<>> /\ told' = <<>>
    BY <1>4, UnbornHasNoFate, Launched
  <2> QED
    BY <1>4, <2>1 DEF Stage, Tale
<1>5. CASE job = "unborn" /\ job' = "unborn"
  <2>1. Fate = "none" /\ told = <<>>
    BY <1>5, UnbornHasNoFate
  <2>2. (job = "unborn" => Fate = "none" /\ told = <<>>)'
    BY <1>1, UnbornHasNoFate, PTL
  <2> QED
    BY <1>5, <2>1, <2>2 DEF Stage, Tale
<1>6. CASE job # "unborn" /\ Fate' = Fate
  <2>1. Stage' = Stage
    BY <1>2, <1>6, JobAdvances DEF Stage
  <2>2. Fate \in Ends => Stage = "ended"
    BY <1>3, <1>6 DEF Stage
  <2> QED
    BY <1>6, <2>1, <2>2, TaleStep
<1>7. CASE job # "unborn" /\ Fate' # Fate
  <2>1. Fate = "none"
    BY <1>7, FateStays
  <2>2. Fate' \in Ends
    BY <1>2, <1>7, <2>1 DEF Fate, WorkerTruthful, Ends
  <2>3. Tale' = Tale
    BY <1>7, TaleStep
  <2>4. job' # "unborn"
    BY <1>2, <1>7, JobAdvances
  <2> QED
    BY <1>3, <1>7, <2>1, <2>2, <2>3, <2>4 DEF Stage
<1> QED
  BY <1>4, <1>5, <1>6, <1>7

\* As long as no look at the result fails and nobody deletes the session, the job keeps
\* the promise: it ends once, in one way, and the journal first tells that way.
THEOREM SpecImplementsPromise ==
  Spec /\ [](faults = 0 /\ deletions = 0) => ImplementsPromise
<1>1. Init => Promise!Init
  BY DEF Init, Promise!Init, Fate
<1>2. Consistent /\ faults = 0 /\ deletions = 0 /\ [Next]_vars
        => [Promise!Begin \/ Promise!End \/ Promise!Tell]_Promise!vars
  BY PromiseStep DEF Promise!Begin, Promise!End, Promise!Tell, Promise!vars, Stage, Tale
<1> QED
  BY <1>1, <1>2, SpecConsistent, PTL DEF Spec, ImplementsPromise, Promise!Spec
=============================================================================
