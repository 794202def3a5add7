-------------------------- MODULE NotifyProperties --------------------------
(***************************************************************************)
(* What the watcher of a home owes its caller, and what the nodes owe each *)
(* other.                                                                  *)
(***************************************************************************)
EXTENDS SessionNotify

LOCAL INSTANCE TLC

Step == {"idle", "begin", "open", "owned", "wrote", "removed", "released", "dying", "done", "gone"}
Queue == [ids : SUBSET Session, rescan : BOOLEAN, wake : BOOLEAN]

TypeOK ==
  /\ node \in [Node -> {"none", "created", "up", "closed", "gone", "dead"}]
  /\ file \in [Node -> {"none", "tmp", "json"}]
  /\ \A l \in Lease : lease[l].step \in Step
  /\ holder \in [Session -> Lease \cup {Nobody}]
  /\ owned \in [Node -> [Session -> Lease \cup {Nobody}]]
  /\ client \in [Node -> BOOLEAN]
  /\ queue \in [Node -> Queue] /\ todo \in Queue
  /\ \A q \in {queue[n] : n \in Node} \cup {todo} : Cardinality(q.ids) <= MaxPending
  /\ events \subseteq {"signal", "registration", "overflow"}
  /\ loop.at \in {"scan", "dial", "retry", "idle", "failed"}
  /\ conn \in [Node -> {"none", "active", "lost"}]
  /\ owners \in [Node -> SUBSET Session] /\ await \in [Node -> SUBSET Session]

\* A node that runs keeps its registration, whoever collects meanwhile: nobody
\* takes it for a dead one's, at no stage of its life.
LiveKeepsFile ==
  \A n \in Node :
    /\ node[n] = "created" => file[n] = "tmp"
    /\ node[n] \in {"up", "closed"} => file[n] = "json"

\* Registrations and queues, within their bounds.
RegistrationsKept == TypeOK /\ LiveKeepsFile

-----------------------------------------------------------------------------
\* The registration of n will be looked at.
ToBeFound(n) ==
  \/ refresh \/ events # {}
  \/ \E kind \in {"tmp", "json"} : <<n, kind>> \in loop.scan
  \/ loop.node = n /\ loop.at \in {"dial", "retry"}

\* A callback that reads s is still to come.
Coming(s) ==
  \/ loop.first
  \/ todo.rescan \/ s \in todo.ids
  \/ events \cap {"signal", "overflow"} # {}
  \/ loop.gap /\ loop.at \in {"dial", "retry"}
  \/ \E n \in Node :
       \/ conn[n] # "none" /\ ~client[n]
       \/ client[n] /\ (queue[n].rescan \/ s \in queue[n].ids)
       \/ s \in await[n]
       \/ node[n] = "dead" /\ file[n] # "none" /\ ToBeFound(n)
  \/ \E l \in Lease :
       /\ lease[l].id = s
       /\ \/ lease[l].step \in {"wrote", "removed", "released"}
          \/ lease[l].step = "owned" /\ ToBeFound(lease[l].node)

\* Whoever worked on s did so under the eyes of the watcher.
Witnessed(s) == \A l \in Lease : lease[l].id = s => lease[l].step # "gone"

\* What the callback read of a session is what the session is, or the callback
\* will be called again: changes, ownership, release and deletion, over queues
\* that overflow, streams that break and nodes that die.
ChangeIsAnnounced ==
  \A s \in stale : Listening /\ Witnessed(s) => Coming(s)

\* The watcher has nothing to do, and nobody is about to announce anything.
Quiet ==
  /\ loop.at = "idle" /\ ~refresh /\ events = {} /\ ~todo.wake
  /\ \A n \in Node : ~queue[n].wake /\ await[n] = {} /\ (conn[n] # "none" => client[n])
  /\ \A l \in Lease : lease[l].step \notin {"wrote", "removed", "released", "dying"}

\* What WatchSessions promises without exception: when all is quiet, the caller
\* has been called about every change of every session, also of one whose owner
\* let go of it before the watcher had connected to its node.
QuietMeansCurrent == Quiet => stale = {}

-----------------------------------------------------------------------------
\* Sessions, the leases on them and the nodes of a home differ in nothing else.
Symmetry == Permutations(Session) \cup Permutations(Lease) \cup Permutations(Node)
=============================================================================
