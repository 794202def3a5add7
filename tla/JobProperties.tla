---------------------------- MODULE JobProperties ----------------------------
(***************************************************************************)
(* What SupervisedJob keeps: invariants, action properties, liveness, and  *)
(* the mapping to JobPromise.                                              *)
(***************************************************************************)
EXTENDS SupervisedJob

\* Type correctness of the files, the worker, the processes and the journal.
TypeOK ==
  /\ kind \in Kinds
  /\ dir \in BOOLEAN /\ files \in SUBSET JobFiles
  /\ job \in {"unborn", "made", "given", "refused"}
  /\ worker \in {"none", "forked", "running", "ended", "written", "gone"}
  /\ payload \in {"none", "running", "exited"}
  /\ outcome \in Outcomes \cup {"none"}
  /\ published \in BOOLEAN /\ stop \in BOOLEAN
  /\ lease \in Managers \cup {NoOne}
  /\ holder \in Managers \cup {NoOne, Eraser}
  /\ told \in Seq(Ends) /\ announced \in BOOLEAN
  /\ up \in [Managers -> BOOLEAN]
  /\ closed \in [Managers -> BOOLEAN]
  /\ loaded \in [Managers -> BOOLEAN]
  /\ view \in [Managers -> Ends \cup {"none", "running"}]
  /\ pinned \in [Managers -> BOOLEAN]
  /\ watch \in [Managers -> {"none", "wait", "poll", "lost"}]
  /\ seen \in [Managers -> BOOLEAN]
  /\ calling \in [Managers -> BOOLEAN]
  /\ at \in [Managers -> [Threads -> Steps]]
  /\ eraser \in EraserSteps
  /\ openings \in 0..MaxOpens /\ faults \in 0..MaxFaults /\ deletions \in 0..MaxDeletions

\* The worker has not yet put down how its job ended.
Working == worker \in {"forked", "running", "ended"}

\* As long as the journal tells nothing of the end, no manager takes a job for
\* abandoned that has a result: the worker writes it before it lets go of the FIFO,
\* and whoever finds the FIFO without a reader looks for it once more.  (The directory
\* of a job whose start was refused is removed at once, and a crash may leave a part.)
AbandonedIsLost ==
  told = <<>> /\ job # "refused" =>
    \A m \in Managers : view[m] = "abandoned" => ~published /\ ~WorkerLives

\* The marker that allows the removal of a job is never set on one that may still
\* have something to say.
MarkedIsTold == "delivered" \in files => told # <<>> /\ ~Working

\* The result of a job that was given to a manager stays where the next one finds it
\* until the journal tells of it: a completion marker, or a settled job that is
\* removed, comes after the record.
CompletionKept ==
  /\ job = "given" /\ published /\ told = <<>> => {"metadata", "control", "result"} \subseteq files
  /\ MarkedIsTold

\* Nothing is removed under a worker: neither by cleaning up after a failed start,
\* nor by leaving or opening a session.
RemovedAfterWork ==
  (\E m \in Managers, t \in Threads : at[m][t] = "purge") => ~Working

\* Deleting a session removes a job only when its command has exited and its worker
\* is gone: the worker's absence alone does not prove it, since commands survive it.
DeletedAfterCommand ==
  eraser = "purge" => payload # "running" /\ ~HasReader

\* A clean exit that could stop everything leaves no job behind that was to end with
\* the process, unless a stop that was given up is still queued.
ExitStopsPlainJobs ==
  [][\A m \in Managers :
       (/\ ~Detaches /\ closed[m] /\ up[m] /\ ~up'[m]
        /\ at[m]["closer"] = "release" /\ at[m]["tool"] = "idle"
        /\ holder = m /\ loaded[m])
       => ~Working \/ stop]_vars

\* An interrupted deletion leaves a job that the next deletion accepts, or none.
DeletionCanBeRepeated ==
  [][eraser = "purge" /\ eraser' = "idle"
       => ~dir \/ {"metadata", "control", "result"} \subseteq files]_vars

\* A job may also be found without a worker, when its manager died before the fork.
Fate ==
  IF published THEN outcome
  ELSE IF worker = "gone" \/ (worker = "none" /\ job = "given") THEN "abandoned" ELSE "none"

Promise == INSTANCE JobPromise WITH
  Verdicts <- Ends,
  stage <- IF job = "unborn" THEN "unborn" ELSE IF Fate = "none" THEN "running" ELSE "ended",
  verdict <- Fate,
  tale <- IF told = <<>> \/ job = "refused" THEN "none" ELSE Head(told)

\* A worker ends its job once, and the first thing the journal tells of it is what
\* the worker wrote, or that it disappeared; nothing is promised of a job whose start
\* was refused.
ImplementsPromise == Promise!Spec

\* A manager that goes on learns that the worker is gone, by its exit, by polling or
\* by the FIFO, unless somebody removes the FIFO under it.
EndIsLearned ==
  \A m \in Managers :
    (up[m] /\ Running(m) /\ worker = "gone") ~> (~up[m] \/ ~Running(m) \/ ~Observable)

\* A worker that received a request to stop ends.
StopIsHeard == stop ~> ~Working

\* Leaving a session or the process comes to an end, whatever the worker does; only a
\* call that waits for its program can hold it up.
LeavingEnds ==
  \A m \in Managers :
    (at[m]["closer"] # "idle") ~> (at[m]["closer"] = "idle" \/ at[m]["tool"] = "call")

\* Stopping a job and leaving its session come to an end.
StoppingEnds == StopIsHeard /\ LeavingEnds
=============================================================================
