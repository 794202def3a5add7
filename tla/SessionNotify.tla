---------------------------- MODULE SessionNotify ----------------------------
(***************************************************************************)
(* How one process learns what the others do to the sessions of a shared   *)
(* home (internal/sessionnotify).  A process that opens a session takes a  *)
(* lease on its node; the node publishes, over a socket, the names of the  *)
(* sessions it has changed.  The watcher finds the nodes by their          *)
(* registration files, follows their sockets, and hands what it hears to a *)
(* callback that reads the sessions anew.  Nodes die, connections break,   *)
(* and queues and file events overflow.                                    *)
(***************************************************************************)
EXTENDS Naturals, FiniteSets

CONSTANTS
  Session,
  Node,        \* the nodes that may come to be, one per instance
  Lease,       \* the operations on sessions, one lease each
  Nobody,      \* no lease, no node and no session
  MaxPending,  \* names a queue holds before it asks for everything (256)
  MaxAttempts, \* dials of a node that is alive and does not answer (4)
  MaxWrites,   \* bound: appends and deletions
  MaxFaults    \* bound: processes that die, streams and event queues that break

ASSUME NotifyAssumption ==
  /\ MaxPending \in Nat /\ MaxAttempts \in Nat \ {0} /\ {MaxWrites, MaxFaults} \subseteq Nat
  /\ Nobody \notin Lease \cup Node \cup Session
  /\ IsFiniteSet(Session)

VARIABLES
  node,    \* node -> how far it has come
  file,    \* node -> its registration: none, staging (tmp) or published (json)
  lease,   \* lease -> what its operation is doing, where and to what
  holder,  \* session -> the lease that holds its journal's lock
  owned,   \* node -> session -> the lease that announced it
  client,  \* node -> it has the watcher as a subscriber
  queue,   \* node -> what the subscriber is still to be told
  events,  \* what the file system has not yet reported
  refresh, \* a discovery has been asked for
  loop,    \* the watcher's event loop
  conn,    \* node -> the watcher's connection
  owners,  \* node -> the sessions its last frame named as owned
  await,   \* node -> sessions of a lost node whose release is awaited
  todo,    \* what the callback is to be called with next
  stale,   \* sessions that have changed since the callback read them
  writes,  \* how many changes have been made to the contents of sessions
  faults   \* what has gone wrong so far

pubVars == <<node, file, lease, holder, owned>>
linkVars == <<client, queue>>
hearVars == <<loop, conn, owners, await>>
bounds == <<writes, faults>>
vars == <<pubVars, linkVars, events, refresh, hearVars, todo, stale, bounds>>

(* A bounded set of names; the wake channel holds one token. *)
Empty == [ids |-> {}, rescan |-> FALSE, wake |-> FALSE]

\* Mutant: a full set is never turned into a rescan.
AddUnbounded(pending, ids, rescan) ==
  LET whole == rescan \/ pending.rescan
  IN  [ids |-> IF whole THEN {} ELSE pending.ids \cup ids, rescan |-> whole, wake |-> TRUE]

\* Mutant: a full set is emptied and nothing is asked for instead.
AddForgetful(pending, ids, rescan) ==
  LET all == pending.ids \cup ids
      whole == rescan \/ pending.rescan
  IN  [ids |-> IF whole \/ Cardinality(all) > MaxPending THEN {} ELSE all,
       rescan |-> whole, wake |-> TRUE]

Add(pending, ids, rescan) ==
  LET all == pending.ids \cup ids
      whole == rescan \/ pending.rescan \/ Cardinality(all) > MaxPending
  IN  [ids |-> IF whole THEN {} ELSE all, rescan |-> whole, wake |-> TRUE]

\* The contents of a session change, or it is locked or unlocked.
Changed(s) == stale' = stale \cup {s}

\* Its process holds the lock on the registration.
Alive(n) == node[n] \in {"up", "closed"}
\* The signal file is locked while a registration is staged.
Guarded == \E n \in Node : node[n] = "created"
Dead(n) == file[n] # "none" /\ ~Alive(n)

Published(n, s) ==
  IF client[n] THEN [queue EXCEPT ![n] = Add(@, {s}, FALSE)] ELSE queue

Listening == loop.at # "failed"

\* The watcher will hear of these kinds of change to the directory.
Reported(kinds) == events \cup kinds

\* The watcher has asked for file events and read a directory that holds
\* nothing yet; its first callback is still to come.
Init ==
  /\ node = [n \in Node |-> "none"]
  /\ file = [n \in Node |-> "none"]
  /\ lease = [l \in Lease |-> [step |-> "idle", node |-> Nobody, id |-> Nobody]]
  /\ holder = [s \in Session |-> Nobody]
  /\ owned = [n \in Node |-> [s \in Session |-> Nobody]]
  /\ client = [n \in Node |-> FALSE]
  /\ queue = [n \in Node |-> Empty]
  /\ events = {} /\ refresh = FALSE
  /\ loop = [at |-> "scan", first |-> TRUE, scan |-> {}, node |-> Nobody,
             try |-> 0, gap |-> FALSE, owned |-> {}]
  /\ conn = [n \in Node |-> "none"]
  /\ owners = [n \in Node |-> {}]
  /\ await = [n \in Node |-> {}]
  /\ todo = Empty
  /\ stale = {} /\ writes = 0 /\ faults = 0

-----------------------------------------------------------------------------
(* A process that works on a session. *)

To(l, step) == lease' = [lease EXCEPT ![l].step = step]

\* The first lease of a process makes its node: it collects what dead ones
\* left, takes the lock of the signal file and creates a staging file.
Begin(l, n, s) ==
  /\ lease[l].step = "idle"
  /\ \/ /\ node[n] = "up"
        /\ lease' = [lease EXCEPT ![l] = [step |-> "open", node |-> n, id |-> s]]
        /\ UNCHANGED <<node, file, events>>
     \/ /\ node[n] = "none" /\ ~Guarded
        /\ lease' = [lease EXCEPT ![l] = [step |-> "begin", node |-> n, id |-> s]]
        /\ node' = [node EXCEPT ![n] = "created"]
        /\ file' = [m \in Node |-> IF m = n THEN "tmp" ELSE IF Dead(m) THEN "none" ELSE file[m]]
        /\ events' = Reported({"registration"} \cup IF \E m \in Node : Dead(m) THEN {"signal"} ELSE {})
  /\ UNCHANGED <<holder, owned, linkVars, refresh, hearVars, todo, bounds, stale>>

\* The staging file is locked and written, the socket listens, the file is
\* renamed, and the signal file is let go.
Register(n) ==
  /\ node[n] = "created"
  /\ node' = [node EXCEPT ![n] = "up"]
  /\ file' = [file EXCEPT ![n] = "json"]
  /\ lease' = [l \in Lease |-> IF lease[l].node = n THEN [lease[l] EXCEPT !.step = "open"] ELSE lease[l]]
  /\ events' = Reported({"registration"})
  /\ UNCHANGED <<holder, owned, linkVars, refresh, hearVars, todo, bounds, stale>>

Over == [step |-> "done", node |-> Nobody, id |-> Nobody]

\* A lease is given up; the last one closes its node, which signals first, and
\* then hangs up on its subscribers.
Left(l, told, next) ==
  LET n == lease[l].node IN
  /\ lease' = [lease EXCEPT ![l] = told]
  /\ IF \E k \in Lease \ {l} : lease[k].node = n /\ lease[k].step # "gone"
     THEN queue' = next /\ UNCHANGED <<node, events, client>>
     ELSE /\ node' = [node EXCEPT ![n] = "closed"]
          /\ events' = Reported({"signal"})
          /\ client' = [client EXCEPT ![n] = FALSE]
          /\ queue' = [queue EXCEPT ![n] = Empty]

\* The journal's lock is tried once, and its new owner announced.
Own(l) ==
  LET n == lease[l].node s == lease[l].id IN
  /\ lease[l].step = "open" /\ holder[s] = Nobody
  /\ To(l, "owned") /\ Changed(s)
  /\ holder' = [holder EXCEPT ![s] = l]
  /\ owned' = [owned EXCEPT ![n][s] = l]
  /\ queue' = Published(n, s)
  /\ UNCHANGED <<node, file, client, events, refresh, hearVars, todo, bounds>>

Locked(l) ==
  /\ lease[l].step = "open" /\ holder[lease[l].id] # Nobody
  /\ Left(l, Over, queue)
  /\ UNCHANGED <<file, holder, owned, refresh, hearVars, todo, bounds, stale>>

\* An append, or the removal of the session, which is told only by Close.
Write(l, step) ==
  /\ lease[l].step = "owned"
  /\ writes < MaxWrites /\ writes' = writes + 1
  /\ To(l, step) /\ Changed(lease[l].id)
  /\ UNCHANGED <<node, file, holder, owned, linkVars, events, refresh, hearVars, todo, faults>>

AppendRecord(l) == Write(l, "wrote")
Delete(l) == Write(l, "removed")

Change(l) ==
  /\ lease[l].step = "wrote"
  /\ To(l, "owned")
  /\ queue' = Published(lease[l].node, lease[l].id)
  /\ UNCHANGED <<node, file, holder, owned, client, events, refresh, hearVars, todo, bounds, stale>>

CloseJournal(l) ==
  /\ lease[l].step \in {"owned", "removed"}
  /\ To(l, "released")
  /\ holder' = [holder EXCEPT ![lease[l].id] = Nobody]
  /\ Changed(lease[l].id)
  /\ UNCHANGED <<node, file, owned, linkVars, events, refresh, hearVars, todo, bounds>>

\* The watcher listens to the node, or will ask for everything about it.
Following(n) ==
  \/ client[n] \/ conn[n] # "none"
  \/ loop.at \in {"retry", "dial"} /\ loop.node = n /\ loop.gap

\* Another lease of the node may own the session by now.
Release(l) ==
  LET n == lease[l].node s == lease[l].id IN
  /\ lease[l].step = "released"
  /\ owned' = IF owned[n][s] = l THEN [owned EXCEPT ![n][s] = Nobody] ELSE owned
  /\ Left(l, IF Following(n) THEN Over ELSE [lease[l] EXCEPT !.step = "gone"], Published(n, s))
  /\ UNCHANGED <<file, holder, refresh, hearVars, todo, bounds, stale>>

Unregister(n) ==
  /\ node[n] = "closed"
  /\ node' = [node EXCEPT ![n] = "gone"]
  /\ file' = [file EXCEPT ![n] = "none"]
  /\ events' = Reported({"registration"})
  /\ UNCHANGED <<lease, holder, owned, linkVars, refresh, hearVars, todo, bounds, stale>>

\* The kernel takes back the sockets and the lock on the registration at
\* once, the locks on journals a little later.
Crash(n) ==
  /\ faults < MaxFaults /\ faults' = faults + 1
  /\ node[n] \notin {"none", "gone", "dead"}
  /\ node' = [node EXCEPT ![n] = "dead"]
  /\ client' = [client EXCEPT ![n] = FALSE]
  /\ queue' = [queue EXCEPT ![n] = Empty]
  /\ lease' = [l \in Lease |->
       IF lease[l].node # n \/ lease[l].step = "gone" THEN lease[l]
       ELSE IF holder[lease[l].id] = l THEN [lease[l] EXCEPT !.step = "dying"] ELSE Over]
  /\ owned' = [owned EXCEPT ![n] = [s \in Session |-> Nobody]]
  /\ UNCHANGED <<file, holder, events, refresh, hearVars, todo, writes, stale>>

\* The watcher knows that the node owned the session.
Followed(n, s) ==
  \/ conn[n] # "none" /\ s \in owners[n]
  \/ loop.at \in {"retry", "dial"} /\ loop.node = n /\ s \in loop.owned
  \/ s \in await[n]

Free(l) ==
  LET s == lease[l].id IN
  /\ lease[l].step = "dying"
  /\ IF Followed(lease[l].node, s) THEN lease' = [lease EXCEPT ![l] = Over] ELSE To(l, "gone")
  /\ holder' = [holder EXCEPT ![s] = Nobody]
  /\ Changed(s)
  /\ UNCHANGED <<node, file, owned, linkVars, events, refresh, hearVars, todo, bounds>>

-----------------------------------------------------------------------------
(* A connection.  A frame is written by the node and read by the watcher in *)
(* one step; it waits in the queue of the node until then.                  *)

Owns(n) == {s \in Session : owned[n][s] # Nobody}

Serve(n) ==
  /\ Listening /\ conn[n] = "active" /\ client[n] /\ queue[n].wake
  /\ queue' = [queue EXCEPT ![n] = Empty]
  /\ IF queue[n].rescan \/ queue[n].ids # {}
     THEN /\ owners' = [owners EXCEPT ![n] = Owns(n)]
          /\ todo' = Add(todo, queue[n].ids, queue[n].rescan)
     ELSE UNCHANGED <<owners, todo>>
  /\ UNCHANGED <<pubVars, client, events, refresh, loop, conn, await, bounds, stale>>

\* A frame could not be written in time.
Drop(n) ==
  /\ faults < MaxFaults /\ faults' = faults + 1
  /\ client[n] /\ queue[n].wake
  /\ client' = [client EXCEPT ![n] = FALSE]
  /\ queue' = [queue EXCEPT ![n] = Empty]
  /\ UNCHANGED <<pubVars, events, refresh, hearVars, todo, writes, stale>>

\* The reader of the watcher finds the end of the stream.
Disconnect(n) ==
  /\ Listening /\ conn[n] = "active" /\ ~client[n]
  /\ conn' = [conn EXCEPT ![n] = "lost"]
  /\ UNCHANGED <<pubVars, linkVars, events, refresh, loop, owners, await, todo, bounds, stale>>

-----------------------------------------------------------------------------
(* The watcher: file events, the loop that finds nodes, and the callback. *)

\* Names are read once and then looked at one by one.
Discover == loop' = [loop EXCEPT !.at = "scan",
                          !.scan = {<<n, file[n]>> : n \in {m \in Node : file[m] # "none"}}]

\* The kernel's own queue of events overflows.
Overflow ==
  /\ faults < MaxFaults /\ faults' = faults + 1
  /\ events # {} /\ events # {"overflow"}
  /\ events' = {"overflow"}
  /\ UNCHANGED <<pubVars, linkVars, refresh, hearVars, todo, writes, stale>>

FileEvent(kind) ==
  /\ Listening /\ kind \in events
  /\ events' = events \ {kind}
  /\ refresh' = TRUE
  /\ todo' = IF kind \in {"signal", "overflow"} THEN Add(todo, {}, TRUE) ELSE todo
  /\ UNCHANGED <<pubVars, linkVars, hearVars, bounds, stale>>

\* The loop is done with a node.
Rest == loop' = [loop EXCEPT !.at = "scan", !.node = Nobody, !.try = 0, !.gap = FALSE, !.owned = {}]

\* A dead node is collected: signal first, then take its registration away.
Collected(n, kind) ==
  IF file[n] = kind /\ Dead(n)
  THEN file' = [file EXCEPT ![n] = "none"] /\ events' = Reported({"signal", "registration"})
  ELSE UNCHANGED <<file, events>>

\* A name of the directory: one that is followed already, or is being staged,
\* is passed over; a live node is dialled; a dead one changed something.
Named(n, kind) == loop.at = "scan" /\ <<n, kind>> \in loop.scan
\* Mutant: a staging file is looked at without the lock of the signal file.
KnownUnguarded(n, kind) == kind = "json" /\ conn[n] # "none"
Known(n, kind) == (kind = "json" /\ conn[n] # "none") \/ (kind = "tmp" /\ Guarded)
Further(n, kind) == [loop EXCEPT !.scan = @ \ {<<n, kind>>}]

PassOver(n, kind) ==
  /\ Named(n, kind) /\ Known(n, kind)
  /\ loop' = Further(n, kind)
  /\ UNCHANGED <<pubVars, linkVars, events, refresh, conn, owners, await, todo, bounds, stale>>

FindLive(n, kind) ==
  /\ Named(n, kind) /\ ~Known(n, kind) /\ file[n] = kind /\ Alive(n)
  /\ loop' = [Further(n, kind) EXCEPT !.at = "dial", !.node = n]
  /\ UNCHANGED <<pubVars, linkVars, events, refresh, conn, owners, await, todo, bounds, stale>>

FindDead(n, kind) ==
  /\ Named(n, kind) /\ ~Known(n, kind) /\ ~(file[n] = kind /\ Alive(n))
  /\ loop' = Further(n, kind)
  /\ todo' = Add(todo, {}, TRUE)
  /\ Collected(n, kind)
  /\ UNCHANGED <<node, lease, holder, owned, linkVars, refresh, conn, owners, await, bounds, stale>>

\* Accepting registers the subscriber under the lock that publishing takes, so
\* that every later change follows the snapshot it starts from.  A stream that
\* was broken has a gap that the snapshot does not cover.
Connect ==
  LET n == loop.node IN
  /\ loop.at = "dial" /\ node[n] = "up"
  /\ client' = [client EXCEPT ![n] = TRUE]
  /\ queue' = [queue EXCEPT ![n] = Empty]
  /\ conn' = [conn EXCEPT ![n] = "active"]
  /\ owners' = [owners EXCEPT ![n] = Owns(n)]
  /\ todo' = Add(todo, Owns(n), loop.gap)
  /\ Rest
  /\ UNCHANGED <<pubVars, events, refresh, await, bounds, stale>>

\* The node does not answer, or hangs up before its first frame.
NotConnected ==
  /\ loop.at = "dial" /\ node[loop.node] # "up"
  /\ todo' = IF loop.gap THEN todo ELSE Add(todo, {}, TRUE)
  /\ loop' = [loop EXCEPT !.at = IF loop.try = MaxAttempts THEN "failed" ELSE "retry", !.gap = TRUE]
  /\ UNCHANGED <<pubVars, linkVars, events, refresh, conn, owners, await, bounds, stale>>

\* A stream has ended; what happened meanwhile is unknown.
Lost(n) ==
  /\ loop.at = "idle" /\ conn[n] = "lost"
  /\ conn' = [conn EXCEPT ![n] = "none"]
  /\ owners' = [owners EXCEPT ![n] = {}]
  /\ todo' = Add(todo, {}, TRUE)
  /\ loop' = [loop EXCEPT !.at = "retry", !.node = n, !.try = 0, !.gap = TRUE, !.owned = owners[n]]
  /\ UNCHANGED <<pubVars, linkVars, events, refresh, await, bounds, stale>>

\* Only a registration that is still locked is dialled again.
Retry ==
  LET n == loop.node IN
  /\ loop.at = "retry"
  /\ IF file[n] = "json" /\ Alive(n)
     THEN /\ loop' = [loop EXCEPT !.at = "dial", !.try = @ + 1]
          /\ UNCHANGED <<file, events, await>>
     ELSE /\ Rest
          /\ await' = [await EXCEPT ![n] = loop.owned]
          /\ Collected(n, "json")
  /\ UNCHANGED <<node, lease, holder, owned, linkVars, refresh, conn, owners, todo, bounds, stale>>

\* All names are dealt with; the first time, everything is read.
Idle ==
  /\ loop.at = "scan" /\ loop.scan = {}
  /\ loop' = [loop EXCEPT !.at = "idle", !.first = FALSE]
  /\ IF loop.first THEN todo' = [Empty EXCEPT !.wake = TRUE] /\ stale' = {}
     ELSE UNCHANGED <<todo, stale>>
  /\ UNCHANGED <<pubVars, linkVars, events, refresh, conn, owners, await, bounds>>

Refresh ==
  /\ loop.at = "idle" /\ refresh
  /\ refresh' = FALSE
  /\ Discover
  /\ UNCHANGED <<pubVars, linkVars, events, conn, owners, await, todo, bounds, stale>>

StillHeld(n) ==
  {s \in await[n] : holder[s] # Nobody /\ \A m \in Node \ {n} : s \notin owners[m]}

\* The locks of a lost node are probed until they are free or have a new owner.
Probe(n) ==
  /\ Listening /\ await[n] # {}
  /\ todo' = Add(todo, await[n], FALSE)
  /\ await' = [await EXCEPT ![n] = StillHeld(n)]
  /\ UNCHANGED <<pubVars, linkVars, events, refresh, loop, conn, owners, bounds, stale>>

\* The deadline of the probes passes.
ProbeFails(n) ==
  /\ Listening /\ StillHeld(n) # {}
  /\ loop' = [loop EXCEPT !.at = "failed"]
  /\ UNCHANGED <<pubVars, linkVars, events, refresh, conn, owners, await, todo, bounds, stale>>

\* One callback at a time; names that arrive while it runs wait for the next.
\* It reads the sessions no earlier than it is called.
Call ==
  /\ Listening /\ ~loop.first /\ todo.wake
  /\ todo' = Empty
  /\ stale' = IF todo.rescan THEN {} ELSE stale \ todo.ids
  /\ UNCHANGED <<pubVars, linkVars, events, refresh, hearVars, bounds>>

-----------------------------------------------------------------------------
Work(l) ==
  \/ \E n \in Node, s \in Session : Begin(l, n, s)
  \/ Own(l) \/ Locked(l) \/ AppendRecord(l) \/ Delete(l) \/ Change(l)
  \/ CloseJournal(l) \/ Release(l) \/ Free(l)

Publisher(n) ==
  \/ Register(n) \/ Unregister(n)
  \/ Crash(n) \/ Serve(n) \/ Drop(n)

Loop ==
  \/ Connect \/ NotConnected \/ Retry \/ Idle \/ Refresh
  \/ \E n \in Node :
       \/ Lost(n)
       \/ \E kind \in {"tmp", "json"} : PassOver(n, kind) \/ FindLive(n, kind) \/ FindDead(n, kind)

Next ==
  \/ \E l \in Lease : Work(l)
  \/ \E n \in Node : Publisher(n) \/ Disconnect(n) \/ Probe(n) \/ ProbeFails(n)
  \/ Overflow \/ Loop \/ Call
  \/ \E kind \in {"signal", "registration", "overflow"} : FileEvent(kind)

Spec == Init /\ [][Next]_vars
=============================================================================
