------------------------------ MODULE ProcessJobs ------------------------------
(***************************************************************************)
(* The commands a process runs itself (src/tools/process.go): the call     *)
(* that starts one, the monitor that waits for it and for what it leaves   *)
(* running, whoever stops it, and the run that has to join it.             *)
(***************************************************************************)
EXTENDS Naturals, FiniteSets

CONSTANTS
  Jobs,       \* how many commands are run
  MaxStrays   \* how often a member joins a group that is being killed

VARIABLE pm

Job == 1..Jobs
Kind == {"bash", "program", "shell"}  \* shell: the user's own, of no session
Stopper == {"call", "tool", "close"}  \* who stops a job, the reason it keeps
Settled == {"completed", "failed", "killed", "timed_out"}

JobsTypeOK ==
  /\ pm.run \in {"turn", "answered", "cancelled"}
  /\ pm.closing \in {"no", "exit", "session"} /\ pm.left \subseteq Job
  /\ pm.closed \in BOOLEAN /\ pm.gone \in BOOLEAN
  /\ \A c \in Job :
       LET job == pm.job[c] IN
       /\ job.kind \in Kind /\ job.status \in {"none", "running"} \cup Settled
       /\ job.call \in {"none", "built", "refused", "waiting", "late", "stopping", "returned"}
       /\ job.got \in {"nothing", "result", "handle", "error"}
       /\ job.leader \in {"none", "runs", "ok", "bad"} /\ job.kids \in 0..1
       /\ job.monitor \in {"off", "wait", "kill", "group", "groupkill", "settle", "done"}
       /\ job.reason \in {"none"} \cup Stopper /\ job.stoppers \subseteq Stopper

Absent == [kind |-> "bash", status |-> "none", call |-> "none", got |-> "nothing", leader |-> "none",
           kids |-> 0, stuck |-> FALSE, strays |-> 0, monitor |-> "off", timedOut |-> FALSE,
           leftovers |-> FALSE, reason |-> "none", stops |-> 0, stoppers |-> {}, kept |-> FALSE,
           join |-> FALSE, seen |-> FALSE, events |-> 0]

Init == pm = [run |-> "turn", closing |-> "no", left |-> {}, closed |-> FALSE, gone |-> FALSE,
              job |-> [c \in Job |-> Absent]]

J(c) == pm.job[c]
With(c, job) == [pm EXCEPT !.job[c] = job]
Set(c, job) == pm' = With(c, job)
InSession(c) == J(c).kind # "shell"
Calling(c) == J(c).call \notin {"none", "returned"} \/ "tool" \in J(c).stoppers
Busy == \E c \in Job : InSession(c) /\ Calling(c)

\* A command is started outside the manager's lock (start). Some processes are
\* stuck in the kernel and cannot be killed.
Start(c) == \E kind \in Kind, stuck \in BOOLEAN :
  /\ J(c).call = "none" /\ ~pm.closed /\ \A d \in Job : d < c => J(d).call # "none"
  /\ kind # "shell" => pm.run = "turn" /\ pm.closing = "no"
  /\ Set(c, [Absent EXCEPT !.kind = kind, !.call = "built", !.leader = "runs", !.stuck = stuck])

\* Mutant: the manager is only asked before the command is started.
RegisterLate(c) ==
  /\ J(c).call = "built"
  /\ Set(c, [J(c) EXCEPT !.call = "waiting", !.kept = TRUE, !.status = "running", !.monitor = "wait"])

\* The manager may have been closed in between; then the starter kills it.
Register(c) ==
  /\ J(c).call = "built"
  /\ Set(c, IF pm.closed THEN [J(c) EXCEPT !.call = "refused"]
            ELSE [J(c) EXCEPT !.call = "waiting", !.kept = TRUE, !.status = "running", !.monitor = "wait"])

Refused(c) ==
  /\ J(c).call = "refused" /\ J(c).leader # "runs"
  /\ Set(c, [J(c) EXCEPT !.call = "returned", !.got = "error"])

-----------------------------------------------------------------------------
(* The command: a leader, which may leave a member of its group running with
   its output redirected, and both may end.                               *)

Forks(c) == J(c).leader = "runs" /\ J(c).kids = 0 /\ Set(c, [J(c) EXCEPT !.kids = 1])
Exits(c) == J(c).leader = "runs" /\ \E end \in {"ok", "bad"} : Set(c, [J(c) EXCEPT !.leader = end])
KidExits(c) == J(c).kids = 1 /\ Set(c, [J(c) EXCEPT !.kids = 0])

Killed(c) == J(c).monitor \in {"kill", "groupkill"} \/ J(c).stoppers # {} \/ J(c).call = "refused"
Alive(c) == J(c).leader = "runs" \/ J(c).kids > 0

\* One signal to the group; a child that joins meanwhile survives it
\* (keepKillingProcessGroup).
Kill(c) ==
  /\ Killed(c) /\ Alive(c) /\ ~J(c).stuck
  /\ \E kids \in {0} \cup (IF J(c).strays < MaxStrays THEN {1} ELSE {}) :
       Set(c, [J(c) EXCEPT !.leader = IF @ = "runs" THEN "bad" ELSE @, !.kids = kids, !.strays = @ + kids])

-----------------------------------------------------------------------------
(* The monitor of a job.                                                   *)

\* Mutant: the leader's end is the job's.
ReapedOnly(c) ==
  /\ J(c).monitor = "wait" /\ J(c).leader # "runs"
  /\ Set(c, [J(c) EXCEPT !.monitor = "settle"])

\* A model's Bash command stays open for what it left running.
Reaped(c) ==
  /\ J(c).monitor = "wait" /\ J(c).leader # "runs"
  /\ Set(c, IF J(c).kind = "bash"
            THEN [J(c) EXCEPT !.monitor = "group", !.leftovers = J(c).kids > 0]
            ELSE [J(c) EXCEPT !.monitor = "settle"])

TimesOut(c) ==
  /\ J(c).monitor \in {"wait", "group"}
  /\ Set(c, [J(c) EXCEPT !.timedOut = TRUE, !.monitor = IF @ = "wait" THEN "kill" ELSE "groupkill"])

GroupStopped(c) ==
  /\ J(c).monitor = "group" /\ J(c).stops > 0
  /\ Set(c, [J(c) EXCEPT !.monitor = "groupkill"])

\* The bound of killProcessGroupUntilEmpty gives up on stuck processes.
GroupEnds(c) ==
  /\ \/ J(c).monitor = "kill" /\ J(c).leader # "runs"
     \/ J(c).monitor = "group" /\ J(c).kids = 0
     \/ J(c).monitor = "groupkill" /\ (J(c).kids = 0 \/ J(c).stuck)
  /\ Set(c, [J(c) EXCEPT !.monitor = "settle"])

\* Mutant: how the command ended is asked first.
StatusByExit(c) ==
  CASE J(c).leader = "ok" -> "completed"
    [] J(c).leader # "ok" /\ J(c).reason # "none" -> "killed"
    [] J(c).leader # "ok" /\ J(c).reason = "none" /\ J(c).timedOut -> "timed_out"
    [] OTHER -> "failed"

\* A requested stop keeps its reason even if the timeout fired meanwhile.
Status(c) ==
  CASE J(c).reason # "none" -> "killed"
    [] J(c).reason = "none" /\ J(c).timedOut -> "timed_out"
    [] J(c).reason = "none" /\ ~J(c).timedOut /\ J(c).leader = "bad" -> "failed"
    [] OTHER -> "completed"

Settle(c) ==
  /\ J(c).monitor = "settle"
  /\ Set(c, [J(c) EXCEPT !.monitor = "done", !.status = Status(c)])

Done(c) == J(c).monitor = "done"

-----------------------------------------------------------------------------
(* Stopping a job (ProcessManager.stop): the reason is noted under the job's
   lock, the first one closes stopRequested, and the group is killed until
   the job is done or three seconds have passed.                           *)

\* Mutant: every stop closes stopRequested.
StoppingAgain(job, who) == [job EXCEPT !.reason = who, !.stops = @ + 1, !.stoppers = @ \cup {who}]

Stopping(job, who) ==
  [job EXCEPT !.reason = who, !.stops = IF job.reason = "none" THEN @ + 1 ELSE @, !.stoppers = @ \cup {who}]

CanStop(c) == J(c).kept /\ J(c).status = "running"
StopEnds(c) == Done(c) \/ J(c).stuck
Stopped(job, who) == [job EXCEPT !.stoppers = @ \ {who}]

-----------------------------------------------------------------------------
(* The call that started a job (runBash, programRunner).                   *)

\* Mutant: the job stays known.
ResultKept(job) == [job EXCEPT !.call = "returned", !.got = "result"]

\* completedForegroundResult: nobody hears of the job again.
Result(job) == [job EXCEPT !.call = "returned", !.got = "result", !.kept = FALSE]

Finished(c) == J(c).call = "waiting" /\ Done(c) /\ Set(c, Result(J(c)))

\* Mutant: nobody has to wait for a job that was handed over.
YieldsFreely(c) ==
  /\ J(c).call = "waiting" /\ J(c).kind # "shell"
  /\ Set(c, [J(c) EXCEPT !.call = "late"])

\* The yield passes, or the command left processes running.
Yields(c) ==
  /\ J(c).call = "waiting" /\ J(c).kind # "shell"
  /\ Set(c, [J(c) EXCEPT !.call = "late", !.join = TRUE])

\* The status is looked at again (yieldForeground), and once more for the
\* result: a handle that already tells of the end counts as telling it
\* (ToolResultCommitted).
HandsOver(c) ==
  /\ J(c).call = "late"
  /\ \/ Done(c) /\ Set(c, Result(J(c)))
     \/ ~Done(c) /\ Set(c, [J(c) EXCEPT !.call = "returned", !.got = "handle"])
     \/ Done(c) /\ Set(c, [J(c) EXCEPT !.call = "returned", !.got = "handle", !.seen = TRUE])

Cancelled(c) == IF InSession(c) THEN pm.run = "cancelled" ELSE J(c).call \in {"waiting", "stopping"}

\* Forget the job and return the context's error.
Gives(job) == [job EXCEPT !.call = "returned", !.got = "error", !.kept = FALSE]

CancelCall(c) ==
  /\ J(c).call = "waiting" /\ Cancelled(c)
  /\ Set(c, IF CanStop(c) THEN [Stopping(J(c), "call") EXCEPT !.call = "stopping"] ELSE Gives(J(c)))

CallStopped(c) ==
  /\ J(c).call = "stopping" /\ StopEnds(c)
  /\ Set(c, Gives(Stopped(J(c), "call")))

-----------------------------------------------------------------------------
(* The run of the session: the job tool, the events at a boundary and the
   answer that must wait.                                                  *)

HasHandle(c) == J(c).got = "handle" /\ J(c).kept

\* A result that shows the end marks it as delivered.
Tell(c) == [J(c) EXCEPT !.seen = @ \/ Done(c)]

AsksJob(c) == pm.run = "turn" /\ HasHandle(c) /\ Tell(c) # J(c) /\ Set(c, Tell(c))

ToolStops(c) ==
  /\ pm.run = "turn" /\ HasHandle(c) /\ CanStop(c) /\ "tool" \notin J(c).stoppers
  /\ Set(c, Stopping(J(c), "tool"))

\* The wait also ends with the run; by then the group was signalled once.
ToolStopped(c) ==
  /\ "tool" \in J(c).stoppers
  /\ \/ StopEnds(c) /\ Set(c, [Stopped(J(c), "tool") EXCEPT !.seen = @ \/ Done(c)])
     \/ pm.run = "cancelled" /\ J(c).leader # "runs" /\ Set(c, Stopped(J(c), "tool"))

\* Mutant: who started a job is told of it at once.
PendingEarly(c) == J(c).kept /\ InSession(c) /\ ~J(c).seen

\* PendingCompletionEvents and MarkCompletionDelivered.
Pending(c) == J(c).kept /\ InSession(c) /\ Done(c) /\ ~J(c).seen

Boundary(c) ==
  /\ pm.run = "turn" /\ ~Busy /\ Pending(c)
  /\ Set(c, [J(c) EXCEPT !.seen = TRUE, !.events = @ + 1])

\* Mutant: only what still runs is waited for.
MustJoinRunning(c) == J(c).kept /\ InSession(c) /\ J(c).join /\ J(c).status = "running"

\* AwaitRequiredJobs: an answer is taken when no job has to be joined.
MustJoin(c) == J(c).kept /\ InSession(c) /\ J(c).join /\ ~J(c).seen

Answer ==
  /\ pm.run = "turn" /\ ~Busy /\ \A c \in Job : ~MustJoin(c)
  /\ pm' = [pm EXCEPT !.run = "answered"]

CancelRun == pm.run = "turn" /\ pm' = [pm EXCEPT !.run = "cancelled"]

\* The next input starts another run.
NextRun ==
  /\ pm.run # "turn" /\ ~Busy /\ ~pm.closed /\ \E c \in Job : J(c).call = "none"
  /\ pm' = [pm EXCEPT !.run = "turn"]

-----------------------------------------------------------------------------
(* Leaving: Close at the end of the process, CloseSession when another
   session is opened.                                                      *)

Open == pm.closing = "no" /\ ~pm.closed

CloseAll ==
  /\ Open
  /\ pm' = [pm EXCEPT !.closed = TRUE, !.closing = "exit", !.left = {c \in Job : J(c).kept}]

CloseSession ==
  /\ Open /\ ~Busy /\ pm.run # "turn" /\ \E c \in Job : J(c).kept /\ InSession(c)
  /\ pm' = [pm EXCEPT !.closing = "session", !.left = {c \in Job : J(c).kept /\ InSession(c)}]

\* The jobs are stopped one after the other (closeJobs).
CloseOne(c) ==
  /\ pm.closing # "no" /\ c \in pm.left /\ CanStop(c) /\ \A d \in Job : "close" \notin J(d).stoppers
  /\ Set(c, Stopping(J(c), "close"))

\* A stop that failed leaves the job known; a session's jobs are forgotten.
CloseNext(c) ==
  /\ c \in pm.left
  /\ \/ "close" \in J(c).stoppers /\ StopEnds(c)
     \/ "close" \notin J(c).stoppers /\ ~CanStop(c)
  /\ pm' = [With(c, [Stopped(J(c), "close") EXCEPT !.kept = @ /\ ~(pm.closing = "session" /\ Done(c))])
            EXCEPT !.left = @ \ {c}]

CloseEnds ==
  /\ pm.closing # "no" /\ pm.left = {}
  /\ pm' = [pm EXCEPT !.gone = pm.closing = "exit", !.closing = "no"]

Monitor(c) == Reaped(c) \/ GroupStopped(c) \/ GroupEnds(c) \/ Settle(c)
Caller(c) == Register(c) \/ Refused(c) \/ Finished(c) \/ HandsOver(c) \/ CallStopped(c)
             \/ (pm.run = "cancelled" /\ InSession(c) /\ CancelCall(c)) \/ ToolStopped(c)
Closer(c) == CloseOne(c) \/ CloseNext(c)

Next ==
  \/ \E c \in Job : Start(c) \/ Register(c) \/ Refused(c) \/ Forks(c) \/ Exits(c) \/ KidExits(c) \/ Kill(c)
  \/ \E c \in Job : Reaped(c) \/ TimesOut(c) \/ GroupStopped(c) \/ GroupEnds(c) \/ Settle(c)
  \/ \E c \in Job : Finished(c) \/ Yields(c) \/ HandsOver(c) \/ CancelCall(c) \/ CallStopped(c)
  \/ \E c \in Job : AsksJob(c) \/ ToolStops(c) \/ ToolStopped(c) \/ Boundary(c)
  \/ Answer \/ CancelRun \/ NextRun \/ CloseAll \/ CloseSession \/ CloseEnds
  \/ \E c \in Job : CloseOne(c) \/ CloseNext(c)

-----------------------------------------------------------------------------

\* A job that ended, unless its time limit fired first, left nobody of a Bash command
\* behind, and its status tells how (monitor).
EndsTruly == \A c \in Job : J(c).status \in Settled =>
  /\ J(c).leader # "runs"
  /\ J(c).kind = "bash" /\ ~J(c).timedOut => J(c).kids = 0 \/ J(c).stuck
  /\ J(c).status \in {"completed", "failed"} => J(c).reason = "none" /\ ~J(c).timedOut

\* A stop that was asked for is never reported as anything else, and no channel
\* is closed twice (stop).
StopsAreKept == \A c \in Job :
  /\ J(c).stops <= 1
  /\ J(c).reason # "none" => J(c).status \in {"running", "killed"}

\* A result in the foreground is the last of its job; a job handed over stays
\* known until its end was told, which happens once (completedForegroundResult).
ToldOnce == \A c \in Job :
  /\ J(c).got = "result" => ~J(c).kept /\ J(c).events = 0
  /\ J(c).events <= 1 /\ (J(c).seen => Done(c))

\* No answer is taken while a command that was handed over is untold.
AnsweredJoined == pm.run = "answered" =>
  \A c \in Job : J(c).got = "handle" /\ J(c).kept => J(c).seen

\* After Close nothing runs that can be killed, but what its starter kills.
ClosedIsQuiet == pm.gone => \A c \in Job : J(c).leader = "runs" =>
  J(c).stuck \/ J(c).call \in {"built", "refused"}

JobsAreSound == EndsTruly /\ StopsAreKept /\ ToldOnce /\ AnsweredJoined /\ ClosedIsQuiet

\* How a job ended is decided once, and a known job is known until it ended.
EndsOnce == \A c \in Job :
  /\ J(c).status \in Settled => pm'.job[c].status = J(c).status
  /\ J(c).kept /\ ~pm'.job[c].kept => J(c).status \in Settled \/ J(c).stuck

Leaving == pm.closed
Quiet == \A c \in Job : J(c).leader = "runs" => J(c).stuck
CallOff == pm.run = "cancelled"
CalledBack == ~Busy \/ \E c \in Job : J(c).stuck
=============================================================================
