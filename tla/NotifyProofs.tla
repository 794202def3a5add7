---------------------------- MODULE NotifyProofs ----------------------------
(***************************************************************************)
(* What the watcher of a home owes its caller, for every number of nodes,  *)
(* operations and sessions.  The invariant says for every session that has *)
(* changed which of the links between its owner and the callback holds the *)
(* news.                                                                   *)
(***************************************************************************)
EXTENDS NotifyProperties, FiniteSetTheorems, TLAPS

-----------------------------------------------------------------------------
(* The invariant.                                                          *)

NodeStates == {"none", "created", "up", "closed", "gone", "dead"}
FileStates == {"none", "tmp", "json"}
LeaseRecord == [step : Step, node : Node \cup {Nobody}, id : Session \cup {Nobody}]
LoopRecord == [at : {"scan", "dial", "retry", "idle", "failed"}, first : BOOLEAN,
               scan : SUBSET (Node \X {"tmp", "json"}), node : Node \cup {Nobody},
               try : Nat, gap : BOOLEAN, owned : SUBSET Session]
Pending == {q \in Queue : Cardinality(q.ids) <= MaxPending}

\* The directory and the processes.
TypedHome ==
  /\ node \in [Node -> NodeStates]
  /\ file \in [Node -> FileStates]
  /\ lease \in [Lease -> LeaseRecord]
  /\ holder \in [Session -> Lease \cup {Nobody}]
  /\ owned \in [Node -> [Session -> Lease \cup {Nobody}]]

\* What is between them and the watcher, and the watcher.
TypedLink == client \in [Node -> BOOLEAN] /\ queue \in [Node -> Pending]

TypedWatch ==
  /\ events \in SUBSET {"signal", "registration", "overflow"}
  /\ refresh \in BOOLEAN
  /\ loop \in LoopRecord
  /\ conn \in [Node -> {"none", "active", "lost"}]
  /\ owners \in [Node -> SUBSET Session] /\ await \in [Node -> SUBSET Session]
  /\ todo \in Pending
  /\ stale \in SUBSET Session

Typed == TypedHome /\ TypedLink /\ TypedWatch

\* An operation is as far as its node and its locks let it be.
InOrder(l) ==
  LET n == lease[l].node s == lease[l].id step == lease[l].step IN
  /\ step \notin {"idle", "done"} => n \in Node /\ s \in Session
  /\ step \in {"idle", "done"} => n = Nobody
  /\ step = "begin" => node[n] = "created"
  /\ step \in {"open", "owned", "wrote", "removed", "released"} => node[n] = "up"
  /\ step = "dying" => node[n] = "dead"
  /\ step = "gone" => node[n] \notin {"none", "created"}
  /\ step \in {"owned", "wrote", "removed", "dying"} => holder[s] = l
  /\ step \in {"owned", "wrote", "removed"} => owned[n][s] = l

Leases == \A l \in Lease : InOrder(l)

\* A subscriber of a node is the watcher, and a node it knows has been up.
Links ==
  \A n \in Node :
    /\ client[n] => node[n] = "up" /\ conn[n] = "active"
    /\ conn[n] # "none" => node[n] \notin {"none", "created"}

\* The loop dials a node that it is not connected to.
AtNode == loop.at \in {"dial", "retry"}
Dialling ==
  /\ AtNode => /\ loop.node \in Node /\ conn[loop.node] = "none"
               /\ node[loop.node] \notin {"none", "created"}
  /\ loop.owned # {} => loop.gap

\* Only a node that the watcher has given up has locks to be probed.
Probing ==
  \A n \in Node : await[n] # {} =>
    /\ node[n] \in {"gone", "dead"} /\ conn[n] = "none"
    /\ ~(AtNode /\ loop.node = n)

\* A registration is known, or will be looked at.
Sought(n) ==
  \/ refresh \/ events # {}
  \/ <<n, "json">> \in loop.scan
  \/ AtNode /\ loop.node = n

Found == Listening => \A n \in Node : file[n] = "json" => conn[n] # "none" \/ Sought(n)

\* Where the news of a session is.
WithLoop(s) == AtNode /\ loop.gap /\ (node[loop.node] = "up" \/ s \in loop.owned)

WithNode(n, s) ==
  \/ conn[n] # "none" /\ ~client[n]
  \/ client[n] /\ (queue[n].rescan \/ s \in queue[n].ids)
  \/ s \in await[n]
  \/ node[n] = "dead" /\ file[n] = "json"

WithLease(l, s) ==
  /\ lease[l].id = s
  /\ \/ lease[l].step \in {"wrote", "removed", "released"}
     \/ lease[l].step = "owned" /\ conn[lease[l].node] = "none"

WithCall(s) ==
  loop.first \/ todo.rescan \/ s \in todo.ids \/ events \cap {"signal", "overflow"} # {}

Owed(s) ==
  \/ WithCall(s) \/ WithLoop(s)
  \/ \E n \in Node : WithNode(n, s)
  \/ \E l \in Lease : WithLease(l, s)

Announced == Listening => \A s \in stale : Witnessed(s) => Owed(s)

Consistent ==
  /\ Typed /\ LiveKeepsFile /\ Leases /\ Links /\ Dialling /\ Probing /\ Found
  /\ Announced

-----------------------------------------------------------------------------
(* The operators.                                                          *)

LEMMA EmptyPending == Empty \in Pending
<1>1. Cardinality({}) = 0
  BY FS_EmptySet
<1> QED
  BY <1>1, NotifyAssumption DEF Empty, Pending, Queue

\* A set of names that grows stays within its bound, and forgets nothing.
LEMMA AddPending ==
  ASSUME NEW q \in Pending, NEW ids \in SUBSET Session, NEW rescan \in BOOLEAN
  PROVE  Add(q, ids, rescan) \in Pending
<1> DEFINE all == q.ids \cup ids
           whole == rescan \/ q.rescan \/ Cardinality(all) > MaxPending
<1>1. q.ids \in SUBSET Session /\ q.rescan \in BOOLEAN
  BY DEF Pending, Queue
<1>2. all \in SUBSET Session /\ Cardinality(all) \in Nat
  BY <1>1, FS_Subset, FS_CardinalityType, NotifyAssumption
<1>3. Cardinality({}) = 0 /\ MaxPending \in Nat
  BY FS_EmptySet, NotifyAssumption
<1>4. CASE whole
  <2>1. Add(q, ids, rescan) = [ids |-> {}, rescan |-> TRUE, wake |-> TRUE]
    BY <1>4 DEF Add
  <2> QED
    BY <2>1, <1>3 DEF Pending, Queue
<1>5. CASE ~whole
  <2>1. Add(q, ids, rescan) = [ids |-> all, rescan |-> FALSE, wake |-> TRUE]
    BY <1>5 DEF Add
  <2>2. Cardinality(all) <= MaxPending
    BY <1>5, <1>2, <1>3
  <2> HIDE DEF all
  <2> QED
    BY <2>1, <2>2, <1>2 DEF Pending, Queue
<1> QED
  BY <1>4, <1>5

Covers(q, s) == q.rescan \/ s \in q.ids

LEMMA AddCovers ==
  ASSUME NEW q, NEW ids, NEW rescan, NEW s, Covers(q, s) \/ s \in ids \/ rescan
  PROVE  Covers(Add(q, ids, rescan), s)
BY DEF Add, Covers

\* What is published reaches a subscriber's queue, and loses nothing there.
LEMMA PublishedFacts ==
  ASSUME TypedLink, NEW n \in Node, NEW s \in Session
  PROVE  /\ Published(n, s) \in [Node -> Pending]
         /\ client[n] => Covers(Published(n, s)[n], s)
         /\ \A m \in Node : \A t : Covers(queue[m], t) => Covers(Published(n, s)[m], t)
<1>1. CASE client[n]
  <2>1. Published(n, s) = [queue EXCEPT ![n] = Add(queue[n], {s}, FALSE)]
    BY <1>1 DEF Published
  <2>2. Add(queue[n], {s}, FALSE) \in Pending
    BY AddPending DEF TypedLink
  <2>3. Covers(Add(queue[n], {s}, FALSE), s)
    BY DEF Add, Covers
  <2>4. \A t : Covers(queue[n], t) => Covers(Add(queue[n], {s}, FALSE), t)
    BY AddCovers
  <2> QED
    BY <2>1, <2>2, <2>3, <2>4 DEF TypedLink
<1>2. CASE ~client[n]
  BY <1>2 DEF Published, TypedLink
<1> QED
  BY <1>1, <1>2

\* An operation takes a step.
LEMMA ToFacts ==
  ASSUME TypedHome, NEW l \in Lease, NEW step \in Step, To(l, step)
  PROVE  /\ lease' \in [Lease -> LeaseRecord]
         /\ lease'[l] = [lease[l] EXCEPT !.step = step]
         /\ \A k \in Lease \ {l} : lease'[k] = lease[k]
<1>1. [lease[l] EXCEPT !.step = step] \in LeaseRecord
  BY DEF TypedHome, LeaseRecord
<1> QED
  BY <1>1 DEF To, TypedHome

\* The last operation of a node closes it.
Closes(l) == \A k \in Lease \ {l} : lease[k].node = lease[l].node => lease[k].step = "gone"

LEMMA LeftFacts ==
  ASSUME TypedHome, TypedLink, NEW l \in Lease, NEW told \in LeaseRecord,
         NEW next \in [Node -> Pending], Left(l, told, next), lease[l].node \in Node
  PROVE  /\ lease' = [lease EXCEPT ![l] = told]
         /\ lease' \in [Lease -> LeaseRecord]
         /\ queue' \in [Node -> Pending]
         /\ \/ /\ ~Closes(l)
               /\ queue' = next /\ UNCHANGED <<node, events, client>>
            \/ /\ Closes(l)
               /\ node' = [node EXCEPT ![lease[l].node] = "closed"]
               /\ events' = events \cup {"signal"}
               /\ client' = [client EXCEPT ![lease[l].node] = FALSE]
               /\ queue' = [queue EXCEPT ![lease[l].node] = Empty]
<1>1. lease' = [lease EXCEPT ![l] = told]
  BY DEF Left
<1>2. lease' \in [Lease -> LeaseRecord]
  BY <1>1 DEF TypedHome
<1>3. CASE Closes(l)
  <2>1. /\ node' = [node EXCEPT ![lease[l].node] = "closed"]
        /\ events' = events \cup {"signal"}
        /\ client' = [client EXCEPT ![lease[l].node] = FALSE]
        /\ queue' = [queue EXCEPT ![lease[l].node] = Empty]
    BY <1>3 DEF Left, Closes, Reported
  <2> QED
    BY <1>1, <1>2, <1>3, <2>1, EmptyPending DEF TypedLink
<1>4. CASE ~Closes(l)
  <2>1. queue' = next /\ UNCHANGED <<node, events, client>>
    BY <1>4 DEF Left, Closes
  <2> QED
    BY <1>1, <1>2, <1>4, <2>1
<1> QED
  BY <1>3, <1>4

LEMMA DiscoverFacts ==
  ASSUME TypedHome, TypedWatch, Discover
  PROVE  /\ loop' \in LoopRecord
         /\ loop' = [loop EXCEPT !.at = "scan", !.scan = loop'.scan]
         /\ \A n \in Node : file[n] = "json" => <<n, "json">> \in loop'.scan
<1> DEFINE names == {<<n, file[n]>> : n \in {m \in Node : file[m] # "none"}}
<1>1. names \in SUBSET (Node \X {"tmp", "json"})
  BY DEF TypedHome, FileStates
<1>2. \A n \in Node : file[n] = "json" => <<n, "json">> \in names
  OBVIOUS
<1>3. loop' = [loop EXCEPT !.at = "scan", !.scan = names]
  BY DEF Discover
<1>4. loop \in LoopRecord
  BY DEF TypedWatch
<1> HIDE DEF names
<1>5. loop' \in LoopRecord /\ loop'.scan = names
  BY <1>1, <1>3, <1>4 DEF LoopRecord
<1> QED
  BY <1>2, <1>3, <1>5

-----------------------------------------------------------------------------
(* Types.                                                                  *)

LEMMA InitTyped == Init => Typed
<1> SUFFICES ASSUME Init PROVE Typed
  OBVIOUS
<1>1. [step |-> "idle", node |-> Nobody, id |-> Nobody] \in LeaseRecord
  BY DEF LeaseRecord, Step
<1>2. [at |-> "scan", first |-> TRUE, scan |-> {}, node |-> Nobody,
       try |-> 0, gap |-> FALSE, owned |-> {}] \in LoopRecord
  BY DEF LoopRecord
<1>3. TypedHome
  BY <1>1 DEF Init, TypedHome, NodeStates, FileStates
<1>4. TypedLink
  BY EmptyPending DEF Init, TypedLink
<1>5. TypedWatch
  BY <1>2, EmptyPending DEF Init, TypedWatch
<1> QED
  BY <1>3, <1>4, <1>5 DEF Typed

\* The processes change the home.
LEMMA BeginTyped ==
  ASSUME Typed, NEW l \in Lease, NEW n \in Node, NEW s \in Session, Begin(l, n, s)
  PROVE  TypedHome' /\ events' \in SUBSET {"signal", "registration", "overflow"}
<1>1. [step |-> "open", node |-> n, id |-> s] \in LeaseRecord
  BY DEF LeaseRecord, Step
<1>2. [step |-> "begin", node |-> n, id |-> s] \in LeaseRecord
  BY DEF LeaseRecord, Step
<1>3. CASE node[n] = "up"
  BY <1>1, <1>3 DEF Begin, Typed, TypedHome, TypedWatch
<1>4. CASE node[n] = "none"
  <2>1. node' \in [Node -> NodeStates]
    BY <1>4 DEF Begin, Typed, TypedHome, NodeStates
  <2>2. file' \in [Node -> FileStates]
    BY <1>4 DEF Begin, Typed, TypedHome, FileStates
  <2>3. lease' \in [Lease -> LeaseRecord]
    BY <1>2, <1>4 DEF Begin, Typed, TypedHome
  <2>4. events' \in SUBSET {"signal", "registration", "overflow"}
    BY <1>4 DEF Begin, Typed, TypedWatch, Reported
  <2> QED
    BY <2>1, <2>2, <2>3, <2>4 DEF Begin, Typed, TypedHome
<1> QED
  BY <1>3, <1>4 DEF Begin

LEMMA RegisterTyped ==
  ASSUME Typed, NEW n \in Node, Register(n)
  PROVE  TypedHome' /\ events' \in SUBSET {"signal", "registration", "overflow"}
<1>1. \A l \in Lease : [lease[l] EXCEPT !.step = "open"] \in LeaseRecord
  BY DEF Typed, TypedHome, LeaseRecord, Step
<1>2. lease' \in [Lease -> LeaseRecord]
  BY <1>1 DEF Register, Typed, TypedHome
<1>3. node' \in [Node -> NodeStates] /\ file' \in [Node -> FileStates]
  BY DEF Register, Typed, TypedHome, NodeStates, FileStates
<1> QED
  BY <1>2, <1>3 DEF Register, Typed, TypedHome, TypedWatch, Reported

LEMMA OverIsLease == Over \in LeaseRecord
BY DEF Over, LeaseRecord, Step

LEMMA CrashTyped ==
  ASSUME Typed, NEW n \in Node, Crash(n)
  PROVE  TypedHome' /\ TypedLink'
<1>1. \A l \in Lease : [lease[l] EXCEPT !.step = "dying"] \in LeaseRecord
  BY DEF Typed, TypedHome, LeaseRecord, Step
<1>2. lease' \in [Lease -> LeaseRecord]
  BY <1>1, OverIsLease DEF Crash, Typed, TypedHome
<1>3. node' \in [Node -> NodeStates] /\ file' \in [Node -> FileStates]
  BY DEF Crash, Typed, TypedHome, NodeStates, FileStates
<1>4. owned' \in [Node -> [Session -> Lease \cup {Nobody}]]
  BY DEF Crash, Typed, TypedHome
<1>5. client' \in [Node -> BOOLEAN] /\ queue' \in [Node -> Pending]
  BY EmptyPending DEF Crash, Typed, TypedLink
<1> QED
  BY <1>2, <1>3, <1>4, <1>5 DEF Crash, Typed, TypedHome, TypedLink

LEMMA OwnTyped ==
  ASSUME Typed, Leases, NEW l \in Lease, Own(l)
  PROVE  TypedHome' /\ TypedLink' /\ stale' \in SUBSET Session
<1>1. lease[l].node \in Node /\ lease[l].id \in Session
  BY DEF Own, Leases, InOrder
<1>2. lease' \in [Lease -> LeaseRecord]
  BY ToFacts DEF Own, Typed, Step
<1>3. queue' \in [Node -> Pending]
  BY <1>1, PublishedFacts DEF Own, Typed
<1>4. holder' \in [Session -> Lease \cup {Nobody}]
  BY <1>1 DEF Own, Typed, TypedHome
<1>5. owned' \in [Node -> [Session -> Lease \cup {Nobody}]]
  BY <1>1 DEF Own, Typed, TypedHome
<1> QED
  BY <1>1, <1>2, <1>3, <1>4, <1>5 DEF Own, Typed, TypedHome, TypedLink, TypedWatch, Changed

LEMMA LockedTyped ==
  ASSUME Typed, Leases, NEW l \in Lease, Locked(l)
  PROVE  TypedHome' /\ TypedLink' /\ events' \in SUBSET {"signal", "registration", "overflow"}
<1>1. lease[l].node \in Node /\ Left(l, Over, queue) /\ queue \in [Node -> Pending]
  BY DEF Locked, Leases, InOrder, Typed, TypedLink
<1>2. lease' \in [Lease -> LeaseRecord] /\ queue' \in [Node -> Pending]
  BY <1>1, LeftFacts, OverIsLease DEF Typed
<1>3. \/ UNCHANGED <<node, events, client>>
      \/ /\ node' = [node EXCEPT ![lease[l].node] = "closed"]
         /\ events' = events \cup {"signal"}
         /\ client' = [client EXCEPT ![lease[l].node] = FALSE]
  BY <1>1, LeftFacts, OverIsLease DEF Typed
<1>4. /\ node' \in [Node -> NodeStates] /\ client' \in [Node -> BOOLEAN]
      /\ events' \in SUBSET {"signal", "registration", "overflow"}
  BY <1>3 DEF Typed, TypedHome, TypedLink, TypedWatch, NodeStates
<1> QED
  BY <1>2, <1>4 DEF Locked, Typed, TypedHome, TypedLink

LEMMA WriteTyped ==
  ASSUME Typed, Leases, NEW l \in Lease, AppendRecord(l) \/ Delete(l)
  PROVE  TypedHome' /\ stale' \in SUBSET Session
<1>1. lease[l].id \in Session
  BY DEF AppendRecord, Delete, Write, Leases, InOrder
<1>2. lease' \in [Lease -> LeaseRecord]
  BY ToFacts DEF AppendRecord, Delete, Write, Typed, Step
<1> QED
  BY <1>1, <1>2 DEF AppendRecord, Delete, Write, Typed, TypedHome, TypedWatch, Changed

LEMMA ChangeTyped ==
  ASSUME Typed, Leases, NEW l \in Lease, Change(l)
  PROVE  TypedHome' /\ TypedLink'
<1>1. lease[l].node \in Node /\ lease[l].id \in Session
  BY DEF Change, Leases, InOrder
<1>2. lease' \in [Lease -> LeaseRecord]
  BY ToFacts DEF Change, Typed, Step
<1>3. queue' \in [Node -> Pending]
  BY <1>1, PublishedFacts DEF Change, Typed
<1> QED
  BY <1>2, <1>3 DEF Change, Typed, TypedHome, TypedLink

LEMMA CloseJournalTyped ==
  ASSUME Typed, Leases, NEW l \in Lease, CloseJournal(l)
  PROVE  TypedHome' /\ stale' \in SUBSET Session
<1>1. lease[l].id \in Session
  BY DEF CloseJournal, Leases, InOrder
<1>2. lease' \in [Lease -> LeaseRecord]
  BY ToFacts DEF CloseJournal, Typed, Step
<1>3. holder' \in [Session -> Lease \cup {Nobody}]
  BY <1>1 DEF CloseJournal, Typed, TypedHome
<1> QED
  BY <1>1, <1>2, <1>3 DEF CloseJournal, Typed, TypedHome, TypedWatch, Changed

\* What a release leaves of an operation.
ReleasedTo(l) ==
  IF Following(lease[l].node) THEN Over ELSE [lease[l] EXCEPT !.step = "gone"]

LEMMA ReleaseFacts ==
  ASSUME Typed, Leases, NEW l \in Lease, Release(l)
  PROVE  /\ lease[l].step = "released" /\ lease[l].node \in Node /\ lease[l].id \in Session
         /\ ReleasedTo(l) \in LeaseRecord
         /\ Published(lease[l].node, lease[l].id) \in [Node -> Pending]
         /\ Left(l, ReleasedTo(l), Published(lease[l].node, lease[l].id))
<1>1. lease[l].step = "released" /\ lease[l].node \in Node /\ lease[l].id \in Session
  BY DEF Release, Leases, InOrder
<1>2. [lease[l] EXCEPT !.step = "gone"] \in LeaseRecord
  BY DEF Typed, TypedHome, LeaseRecord, Step
<1>3. ReleasedTo(l) \in LeaseRecord
  BY <1>2, OverIsLease DEF ReleasedTo
<1>4. Published(lease[l].node, lease[l].id) \in [Node -> Pending]
  BY <1>1, PublishedFacts DEF Typed
<1>5. Left(l, ReleasedTo(l), Published(lease[l].node, lease[l].id))
  BY DEF Release, ReleasedTo
<1> QED
  BY <1>1, <1>3, <1>4, <1>5

LEMMA ReleaseTyped ==
  ASSUME Typed, Leases, NEW l \in Lease, Release(l)
  PROVE  TypedHome' /\ TypedLink' /\ events' \in SUBSET {"signal", "registration", "overflow"}
<1>1. /\ lease' \in [Lease -> LeaseRecord] /\ queue' \in [Node -> Pending]
      /\ \/ UNCHANGED <<node, events, client>>
         \/ /\ node' = [node EXCEPT ![lease[l].node] = "closed"]
            /\ events' = events \cup {"signal"}
            /\ client' = [client EXCEPT ![lease[l].node] = FALSE]
  <2> DEFINE told == ReleasedTo(l)
             next == Published(lease[l].node, lease[l].id)
  <2>1. told \in LeaseRecord /\ next \in [Node -> Pending] /\ Left(l, told, next)
        /\ lease[l].node \in Node
    BY ReleaseFacts
  <2> HIDE DEF told, next
  <2> QED
    BY <2>1, LeftFacts DEF Typed
<1>2. /\ node' \in [Node -> NodeStates] /\ client' \in [Node -> BOOLEAN]
      /\ events' \in SUBSET {"signal", "registration", "overflow"}
  BY <1>1 DEF Typed, TypedHome, TypedLink, TypedWatch, NodeStates
<1>3. owned' \in [Node -> [Session -> Lease \cup {Nobody}]]
  BY ReleaseFacts DEF Release, Typed, TypedHome
<1> QED
  BY <1>1, <1>2, <1>3 DEF Release, Typed, TypedHome, TypedLink

LEMMA UnregisterTyped ==
  ASSUME Typed, NEW n \in Node, Unregister(n)
  PROVE  TypedHome' /\ events' \in SUBSET {"signal", "registration", "overflow"}
BY DEF Unregister, Typed, TypedHome, TypedWatch, NodeStates, FileStates, Reported

LEMMA FreeTyped ==
  ASSUME Typed, Leases, NEW l \in Lease, Free(l)
  PROVE  TypedHome' /\ stale' \in SUBSET Session
<1>1. lease[l].id \in Session
  BY DEF Free, Leases, InOrder
<1>2. lease' \in [Lease -> LeaseRecord]
  <2>1. CASE To(l, "gone")
    BY <2>1, ToFacts DEF Typed, Step
  <2>2. CASE lease' = [lease EXCEPT ![l] = Over]
    BY <2>2, OverIsLease DEF Typed, TypedHome
  <2> QED
    BY <2>1, <2>2 DEF Free
<1>3. holder' \in [Session -> Lease \cup {Nobody}]
  BY <1>1 DEF Free, Typed, TypedHome
<1> QED
  BY <1>1, <1>2, <1>3 DEF Free, Typed, TypedHome, TypedWatch, Changed

\* The watcher changes what it knows.
LEMMA OwnsType == TypedHome => \A n \in Node : Owns(n) \in SUBSET Session
BY DEF Owns, TypedHome

LEMMA ServeTyped ==
  ASSUME Typed, NEW n \in Node, Serve(n)
  PROVE  TypedLink' /\ TypedWatch'
<1>1. queue' \in [Node -> Pending]
  BY EmptyPending DEF Serve, Typed, TypedLink
<1>2. queue[n].ids \in SUBSET Session /\ queue[n].rescan \in BOOLEAN
  BY DEF Typed, TypedLink, Pending, Queue
<1>3. Add(todo, queue[n].ids, queue[n].rescan) \in Pending
  BY <1>2, AddPending DEF Typed, TypedWatch
<1>4. todo' \in Pending
  BY <1>3 DEF Serve, Typed, TypedWatch
<1>5. owners' \in [Node -> SUBSET Session]
  BY OwnsType DEF Serve, Typed, TypedWatch
<1> QED
  BY <1>1, <1>4, <1>5 DEF Serve, Typed, TypedLink, TypedWatch

LEMMA RescanPending == Typed => Add(todo, {}, TRUE) \in Pending
BY AddPending DEF Typed, TypedWatch

LEMMA DropTyped ==
  ASSUME Typed, NEW n \in Node, Drop(n) PROVE TypedLink'
BY EmptyPending DEF Drop, Typed, TypedLink

LEMMA ProbeTyped ==
  ASSUME Typed, NEW n \in Node, Probe(n) PROVE TypedWatch'
<1>1. await[n] \in SUBSET Session
  BY DEF Typed, TypedWatch
<1>2. Add(todo, await[n], FALSE) \in Pending
  BY <1>1, AddPending DEF Typed, TypedWatch
<1>3. StillHeld(n) \in SUBSET Session
  BY <1>1 DEF StillHeld
<1> QED
  BY <1>2, <1>3 DEF Probe, Typed, TypedWatch

LEMMA FileEventTyped ==
  ASSUME Typed, NEW kind, FileEvent(kind) PROVE TypedWatch'
BY RescanPending DEF FileEvent, Typed, TypedWatch, hearVars

LEMMA CollectedTyped ==
  ASSUME Typed, NEW n \in Node, NEW kind, Collected(n, kind)
  PROVE  /\ file' \in [Node -> FileStates]
         /\ events' \in SUBSET {"signal", "registration", "overflow"}
BY DEF Collected, Typed, TypedHome, TypedWatch, FileStates, Reported

LEMMA CallTyped ==
  ASSUME Typed, Call PROVE TypedWatch'
BY EmptyPending DEF Call, Typed, TypedWatch, hearVars

\* The loop.
LEMMA FurtherFacts ==
  ASSUME Typed, NEW n \in Node, NEW kind
  PROVE  /\ Further(n, kind) \in LoopRecord
         /\ Further(n, kind) = [loop EXCEPT !.scan = loop.scan \ {<<n, kind>>}]
         /\ [Further(n, kind) EXCEPT !.at = "dial", !.node = n] \in LoopRecord
<1>1. loop \in LoopRecord
  BY DEF Typed, TypedWatch
<1>2. Further(n, kind) = [loop EXCEPT !.scan = loop.scan \ {<<n, kind>>}]
  BY DEF Further
<1>3. Further(n, kind) \in LoopRecord
  BY <1>1, <1>2 DEF LoopRecord
<1>4. [Further(n, kind) EXCEPT !.at = "dial", !.node = n] \in LoopRecord
  BY <1>3 DEF LoopRecord
<1> QED
  BY <1>2, <1>3, <1>4

LEMMA RestFacts ==
  ASSUME Typed, Rest
  PROVE  /\ loop' \in LoopRecord
         /\ loop'.at = "scan" /\ loop'.gap = FALSE /\ loop'.owned = {}
         /\ loop'.scan = loop.scan /\ loop'.first = loop.first
<1>1. loop \in LoopRecord
  BY DEF Typed, TypedWatch
<1> QED
  BY <1>1 DEF Rest, LoopRecord

\* What becomes of the loop, action by action.
LEMMA LoopMoves ==
  ASSUME Typed
  PROVE  /\ NotConnected => /\ loop' \in LoopRecord
                            /\ loop'.at \in {"failed", "retry"} /\ loop'.gap
                            /\ loop'.node = loop.node /\ loop'.owned = loop.owned
                            /\ loop'.scan = loop.scan /\ loop'.first = loop.first
         /\ \A n \in Node : Lost(n) =>
              /\ loop' \in LoopRecord
              /\ loop'.at = "retry" /\ loop'.gap /\ loop'.node = n
              /\ loop'.owned = owners[n]
              /\ loop'.scan = loop.scan /\ loop'.first = loop.first
         /\ Idle => /\ loop' \in LoopRecord
                    /\ loop'.at = "idle" /\ ~loop'.first
                    /\ loop'.gap = loop.gap /\ loop'.node = loop.node
                    /\ loop'.owned = loop.owned /\ loop'.scan = loop.scan
         /\ \A n \in Node : ProbeFails(n) =>
              loop' \in LoopRecord /\ loop'.at = "failed" /\ loop'.gap = loop.gap
              /\ loop'.owned = loop.owned
         /\ \A n \in Node : \A kind : PassOver(n, kind) \/ FindDead(n, kind) =>
              /\ loop' \in LoopRecord /\ loop.at = "scan"
              /\ loop'.at = "scan" /\ loop'.gap = loop.gap /\ loop'.node = loop.node
              /\ loop'.owned = loop.owned /\ loop'.scan = loop.scan \ {<<n, kind>>}
              /\ loop'.first = loop.first
         /\ \A n \in Node : \A kind : FindLive(n, kind) =>
              /\ loop' \in LoopRecord /\ loop.at = "scan"
              /\ loop'.at = "dial" /\ loop'.gap = loop.gap /\ loop'.node = n
              /\ loop'.owned = loop.owned /\ loop'.scan = loop.scan \ {<<n, kind>>}
              /\ loop'.first = loop.first
         /\ Retry /\ file[loop.node] = "json" /\ Alive(loop.node) =>
              /\ loop' \in LoopRecord
              /\ loop'.at = "dial" /\ loop'.gap = loop.gap /\ loop'.node = loop.node
              /\ loop'.owned = loop.owned /\ loop'.scan = loop.scan /\ loop'.first = loop.first
<1>1. loop \in LoopRecord /\ loop.try + 1 \in Nat
  BY DEF Typed, TypedWatch, LoopRecord
<1>2. \A n \in Node : owners[n] \in SUBSET Session
  BY DEF Typed, TypedWatch
<1>3. ASSUME NotConnected
      PROVE  /\ loop' \in LoopRecord
             /\ loop'.at \in {"failed", "retry"} /\ loop'.gap
             /\ loop'.node = loop.node /\ loop'.owned = loop.owned
             /\ loop'.scan = loop.scan /\ loop'.first = loop.first
  BY <1>1, <1>3 DEF NotConnected, LoopRecord
<1>4. ASSUME NEW n \in Node, Lost(n)
      PROVE  /\ loop' \in LoopRecord
             /\ loop'.at = "retry" /\ loop'.gap /\ loop'.node = n
             /\ loop'.owned = owners[n]
             /\ loop'.scan = loop.scan /\ loop'.first = loop.first
  BY <1>1, <1>2, <1>4 DEF Lost, LoopRecord
<1>5. ASSUME Idle
      PROVE  /\ loop' \in LoopRecord
             /\ loop'.at = "idle" /\ ~loop'.first
             /\ loop'.gap = loop.gap /\ loop'.node = loop.node
             /\ loop'.owned = loop.owned /\ loop'.scan = loop.scan
  BY <1>1, <1>5 DEF Idle, LoopRecord
<1>6. ASSUME NEW n \in Node, ProbeFails(n)
      PROVE  loop' \in LoopRecord /\ loop'.at = "failed" /\ loop'.gap = loop.gap
             /\ loop'.owned = loop.owned
  BY <1>1, <1>6 DEF ProbeFails, LoopRecord
<1>7. ASSUME Retry, file[loop.node] = "json", Alive(loop.node)
      PROVE  /\ loop' \in LoopRecord
             /\ loop'.at = "dial" /\ loop'.gap = loop.gap /\ loop'.node = loop.node
             /\ loop'.owned = loop.owned /\ loop'.scan = loop.scan /\ loop'.first = loop.first
  BY <1>1, <1>7 DEF Retry, LoopRecord
<1>8. ASSUME NEW n \in Node, NEW kind, PassOver(n, kind) \/ FindDead(n, kind)
      PROVE  /\ loop' \in LoopRecord /\ loop.at = "scan"
             /\ loop'.at = "scan" /\ loop'.gap = loop.gap /\ loop'.node = loop.node
             /\ loop'.owned = loop.owned /\ loop'.scan = loop.scan \ {<<n, kind>>}
             /\ loop'.first = loop.first
  <2>1. loop' = Further(n, kind) /\ loop.at = "scan"
    BY <1>8 DEF PassOver, FindDead, Named
  <2>2. Further(n, kind) = [loop EXCEPT !.scan = loop.scan \ {<<n, kind>>}]
        /\ Further(n, kind) \in LoopRecord
    BY FurtherFacts
  <2> QED
    BY <1>1, <2>1, <2>2 DEF LoopRecord
<1>9. ASSUME NEW n \in Node, NEW kind, FindLive(n, kind)
      PROVE  /\ loop' \in LoopRecord /\ loop.at = "scan"
             /\ loop'.at = "dial" /\ loop'.gap = loop.gap /\ loop'.node = n
             /\ loop'.owned = loop.owned /\ loop'.scan = loop.scan \ {<<n, kind>>}
             /\ loop'.first = loop.first
  <2>1. loop' = [Further(n, kind) EXCEPT !.at = "dial", !.node = n] /\ loop.at = "scan"
    BY <1>9 DEF FindLive, Named
  <2>2. /\ loop' \in LoopRecord /\ Further(n, kind) \in LoopRecord
        /\ Further(n, kind) = [loop EXCEPT !.scan = loop.scan \ {<<n, kind>>}]
    BY <2>1, FurtherFacts
  <2>3. /\ Further(n, kind).gap = loop.gap /\ Further(n, kind).owned = loop.owned
        /\ Further(n, kind).first = loop.first
        /\ Further(n, kind).scan = loop.scan \ {<<n, kind>>}
    BY <1>1, <2>2 DEF LoopRecord
  <2>4. /\ loop'.at = "dial" /\ loop'.gap = Further(n, kind).gap /\ loop'.node = n
        /\ loop'.owned = Further(n, kind).owned /\ loop'.scan = Further(n, kind).scan
        /\ loop'.first = Further(n, kind).first
    BY <2>1, <2>2 DEF LoopRecord
  <2> QED
    BY <2>1, <2>2, <2>3, <2>4
<1> QED
  BY <1>3, <1>4, <1>5, <1>6, <1>7, <1>8, <1>9

LEMMA ConnectTyped ==
  ASSUME Typed, Dialling, Connect PROVE TypedLink' /\ TypedWatch'
<1>1. loop.node \in Node /\ loop' \in LoopRecord
  BY RestFacts DEF Connect, Dialling, AtNode
<1>2. Owns(loop.node) \in SUBSET Session /\ loop.gap \in BOOLEAN
  BY <1>1, OwnsType DEF Typed, TypedWatch, LoopRecord
<1>3. Add(todo, Owns(loop.node), loop.gap) \in Pending
  BY <1>2, AddPending DEF Typed, TypedWatch
<1>4. client' \in [Node -> BOOLEAN] /\ queue' \in [Node -> Pending]
  BY EmptyPending DEF Connect, Typed, TypedLink
<1>5. owners' \in [Node -> SUBSET Session]
  BY <1>2 DEF Connect, Typed, TypedWatch
<1>6. conn' \in [Node -> {"none", "active", "lost"}]
  BY DEF Connect, Typed, TypedWatch
<1> QED
  BY <1>1, <1>3, <1>4, <1>5, <1>6 DEF Connect, Typed, TypedLink, TypedWatch

LEMMA RetryTyped ==
  ASSUME Typed, Retry PROVE TypedHome' /\ TypedWatch'
<1>1. CASE file[loop.node] = "json" /\ Alive(loop.node)
  BY <1>1, LoopMoves DEF Retry, Typed, TypedHome, TypedWatch
<1>2. CASE ~(file[loop.node] = "json" /\ Alive(loop.node))
  <2>1. loop' \in LoopRecord
    BY <1>2, RestFacts DEF Retry
  <2>2. /\ file' \in [Node -> FileStates]
        /\ events' \in SUBSET {"signal", "registration", "overflow"}
    BY <1>2 DEF Retry, Collected, Typed, TypedHome, TypedWatch, FileStates, Reported
  <2>3. await' \in [Node -> SUBSET Session]
    BY <1>2 DEF Retry, Typed, TypedWatch, LoopRecord
  <2> QED
    BY <2>1, <2>2, <2>3, <1>2 DEF Retry, Typed, TypedHome, TypedWatch
<1> QED
  BY <1>1, <1>2

LEMMA LoopTyped ==
  ASSUME Typed, NotConnected \/ Idle \/ Refresh \/ \E n \in Node : Lost(n) \/ ProbeFails(n)
  PROVE  TypedWatch'
<1>1. CASE NotConnected
  BY <1>1, LoopMoves, RescanPending DEF NotConnected, Typed, TypedWatch
<1>2. CASE Idle
  <2>1. [Empty EXCEPT !.wake = TRUE] \in Pending
    BY EmptyPending DEF Pending, Queue, Empty
  <2> QED
    BY <1>2, <2>1, LoopMoves DEF Idle, Typed, TypedWatch
<1>3. CASE Refresh
  BY <1>3, DiscoverFacts DEF Refresh, Typed, TypedWatch
<1>4. ASSUME NEW n \in Node, Lost(n) PROVE TypedWatch'
  BY <1>4, LoopMoves, RescanPending DEF Lost, Typed, TypedWatch
<1>5. ASSUME NEW n \in Node, ProbeFails(n) PROVE TypedWatch'
  BY <1>5, LoopMoves DEF ProbeFails, Typed, TypedWatch
<1> QED
  BY <1>1, <1>2, <1>3, <1>4, <1>5

LEMMA NamedTyped ==
  ASSUME Typed, NEW n \in Node, NEW kind,
         PassOver(n, kind) \/ FindLive(n, kind) \/ FindDead(n, kind)
  PROVE  TypedHome' /\ TypedWatch'
<1>1. CASE PassOver(n, kind)
  BY <1>1, LoopMoves DEF PassOver, Typed, TypedHome, TypedWatch, pubVars
<1>2. CASE FindLive(n, kind)
  BY <1>2, LoopMoves DEF FindLive, Typed, TypedHome, TypedWatch, pubVars
<1>3. CASE FindDead(n, kind)
  BY <1>3, LoopMoves, CollectedTyped, RescanPending DEF FindDead, Typed, TypedHome, TypedWatch
<1> QED
  BY <1>1, <1>2, <1>3

LEMMA StepTyped == Typed /\ Leases /\ Dialling /\ [Next]_vars => Typed'
<1> SUFFICES ASSUME Typed, Leases, Dialling, [Next]_vars PROVE Typed'
  OBVIOUS
<1> USE DEF Typed
<1>1. ASSUME NEW l \in Lease, NEW n \in Node, NEW s \in Session, Begin(l, n, s) PROVE Typed'
  <2>1. UNCHANGED <<client, queue, refresh, loop, conn, owners, await, todo, stale>>
    BY <1>1 DEF Begin, linkVars, hearVars
  <2>2. TypedHome' /\ events' \in SUBSET {"signal", "registration", "overflow"}
    BY <1>1, BeginTyped
  <2> QED
    BY <2>1, <2>2 DEF TypedLink, TypedWatch
<1>2. ASSUME NEW l \in Lease, Own(l) PROVE Typed'
  BY <1>2, OwnTyped
     DEF Own, TypedHome, TypedLink, TypedWatch, pubVars, linkVars, hearVars, bounds
<1>3. ASSUME NEW l \in Lease, Locked(l) PROVE Typed'
  BY <1>3, LockedTyped
     DEF Locked, TypedHome, TypedLink, TypedWatch, pubVars, linkVars, hearVars, bounds
<1>4. ASSUME NEW l \in Lease, AppendRecord(l) PROVE Typed'
  BY <1>4, WriteTyped
     DEF AppendRecord, TypedHome, TypedLink, TypedWatch, Write, pubVars, linkVars, hearVars, bounds
<1>5. ASSUME NEW l \in Lease, Delete(l) PROVE Typed'
  BY <1>5, WriteTyped
     DEF Delete, TypedHome, TypedLink, TypedWatch, Write, pubVars, linkVars, hearVars, bounds
<1>6. ASSUME NEW l \in Lease, Change(l) PROVE Typed'
  BY <1>6, ChangeTyped
     DEF Change, TypedHome, TypedLink, TypedWatch, pubVars, linkVars, hearVars, bounds
<1>7. ASSUME NEW l \in Lease, CloseJournal(l) PROVE Typed'
  BY <1>7, CloseJournalTyped
     DEF CloseJournal, TypedHome, TypedLink, TypedWatch, pubVars, linkVars, hearVars, bounds
<1>8. ASSUME NEW l \in Lease, Release(l) PROVE Typed'
  BY <1>8, ReleaseTyped
     DEF Release, TypedHome, TypedLink, TypedWatch, pubVars, linkVars, hearVars, bounds
<1>9. ASSUME NEW l \in Lease, Free(l) PROVE Typed'
  BY <1>9, FreeTyped
     DEF Free, TypedHome, TypedLink, TypedWatch, pubVars, linkVars, hearVars, bounds
<1>10. ASSUME NEW n \in Node, Register(n) PROVE Typed'
  BY <1>10, RegisterTyped
     DEF Register, TypedHome, TypedLink, TypedWatch, pubVars, linkVars, hearVars, bounds
<1>11. ASSUME NEW n \in Node, Unregister(n) PROVE Typed'
  BY <1>11, UnregisterTyped
     DEF Unregister, TypedHome, TypedLink, TypedWatch, pubVars, linkVars, hearVars, bounds
<1>12. ASSUME NEW n \in Node, Crash(n) PROVE Typed'
  BY <1>12, CrashTyped
     DEF Crash, TypedHome, TypedLink, TypedWatch, pubVars, linkVars, hearVars, bounds
<1>13. ASSUME NEW n \in Node, Serve(n) PROVE Typed'
  BY <1>13, ServeTyped
     DEF Serve, TypedHome, TypedLink, TypedWatch, pubVars, linkVars, hearVars, bounds
<1>14. ASSUME NEW n \in Node, Drop(n) PROVE Typed'
  BY <1>14, DropTyped
     DEF Drop, TypedHome, TypedLink, TypedWatch, pubVars, linkVars, hearVars, bounds
<1>15. ASSUME NEW n \in Node, Disconnect(n) PROVE Typed'
  BY <1>15
     DEF Disconnect, TypedHome, TypedLink, TypedWatch, pubVars, linkVars, hearVars, bounds
<1>16. ASSUME NEW n \in Node, Probe(n) PROVE Typed'
  BY <1>16, ProbeTyped
     DEF Probe, TypedHome, TypedLink, TypedWatch, pubVars, linkVars, hearVars, bounds
<1>17. ASSUME NEW n \in Node, ProbeFails(n) PROVE Typed'
  BY <1>17, LoopTyped
     DEF ProbeFails, TypedHome, TypedLink, TypedWatch, pubVars, linkVars, hearVars, bounds
<1>18. ASSUME NEW n \in Node, Lost(n) PROVE Typed'
  BY <1>18, LoopTyped
     DEF Lost, TypedHome, TypedLink, TypedWatch, pubVars, linkVars, hearVars, bounds
<1>19. ASSUME NEW n \in Node, NEW kind \in {"tmp", "json"}, PassOver(n, kind) PROVE Typed'
  BY <1>19, NamedTyped
     DEF PassOver, TypedHome, TypedLink, TypedWatch, pubVars, linkVars, hearVars, bounds
<1>20. ASSUME NEW n \in Node, NEW kind \in {"tmp", "json"}, FindLive(n, kind) PROVE Typed'
  BY <1>20, NamedTyped
     DEF FindLive, TypedHome, TypedLink, TypedWatch, pubVars, linkVars, hearVars, bounds
<1>21. ASSUME NEW n \in Node, NEW kind \in {"tmp", "json"}, FindDead(n, kind) PROVE Typed'
  BY <1>21, NamedTyped
     DEF FindDead, TypedHome, TypedLink, TypedWatch, pubVars, linkVars, hearVars, bounds
<1>22. CASE Overflow
  BY <1>22
     DEF Overflow, TypedHome, TypedLink, TypedWatch, pubVars, linkVars, hearVars, bounds
<1>23. CASE Connect
  BY <1>23, ConnectTyped
     DEF Connect, TypedHome, TypedLink, TypedWatch, pubVars, linkVars, hearVars, bounds
<1>24. CASE NotConnected
  BY <1>24, LoopTyped
     DEF NotConnected, TypedHome, TypedLink, TypedWatch, pubVars, linkVars, hearVars, bounds
<1>25. CASE Retry
  BY <1>25, RetryTyped
     DEF Retry, TypedHome, TypedLink, TypedWatch, pubVars, linkVars, hearVars, bounds
<1>26. CASE Idle
  BY <1>26, LoopTyped
     DEF Idle, TypedHome, TypedLink, TypedWatch, pubVars, linkVars, hearVars, bounds
<1>27. CASE Refresh
  BY <1>27, LoopTyped
     DEF Refresh, TypedHome, TypedLink, TypedWatch, pubVars, linkVars, hearVars, bounds
<1>28. CASE Call
  BY <1>28, CallTyped
     DEF Call, TypedHome, TypedLink, TypedWatch, pubVars, linkVars, hearVars, bounds
<1>29. ASSUME NEW kind \in {"signal", "registration", "overflow"}, FileEvent(kind) PROVE Typed'
  BY <1>29, FileEventTyped
     DEF FileEvent, TypedHome, TypedLink, TypedWatch, pubVars, linkVars, hearVars, bounds
<1>30. CASE UNCHANGED vars
  BY <1>30 DEF vars, TypedHome, TypedLink, TypedWatch, pubVars, linkVars, hearVars, bounds
<1> HIDE DEF Typed
<1> QED
  BY <1>1, <1>2, <1>3, <1>4, <1>5, <1>6, <1>7, <1>8, <1>9, <1>10, <1>11, <1>12, <1>13, <1>14, <1>15, <1>16, <1>17, <1>18, <1>19, <1>20, <1>21, <1>22, <1>23, <1>24, <1>25, <1>26, <1>27, <1>28, <1>29, <1>30
     DEF Next, Work, Publisher, Loop
-----------------------------------------------------------------------------
(* Registrations, operations and locks.                                    *)

\* Nobody collects the registration of a node that lives.
LEMMA StepKeepsFile ==
  ASSUME Typed, Leases, Dialling, LiveKeepsFile, [Next]_vars
  PROVE  LiveKeepsFile'
<1>1. UNCHANGED <<node, file>> => LiveKeepsFile'
  BY DEF LiveKeepsFile
<1>2. ASSUME NEW l \in Lease, NEW n \in Node, NEW s \in Session, Begin(l, n, s) PROVE LiveKeepsFile'
  BY <1>2 DEF Begin, Dead, Alive, Guarded, Typed, TypedHome, LiveKeepsFile
<1>3. ASSUME NEW l \in Lease, Own(l) PROVE LiveKeepsFile'
  BY <1>1, <1>3 DEF Own, pubVars, linkVars, hearVars, bounds
<1>4. ASSUME NEW l \in Lease, Locked(l) PROVE LiveKeepsFile'
  <2>1. UNCHANGED file
    BY <1>4 DEF Locked
  <2>2. lease[l].node \in Node /\ node[lease[l].node] = "up"
    BY <1>4 DEF Locked, Leases, InOrder
  <2>3. UNCHANGED node \/ node' = [node EXCEPT ![lease[l].node] = "closed"]
    BY <1>4 DEF Locked, Left
  <2> QED
    BY <2>1, <2>2, <2>3 DEF Typed, TypedHome, LiveKeepsFile
<1>5. ASSUME NEW l \in Lease, AppendRecord(l) PROVE LiveKeepsFile'
  BY <1>1, <1>5 DEF AppendRecord, Write, pubVars, linkVars, hearVars, bounds
<1>6. ASSUME NEW l \in Lease, Delete(l) PROVE LiveKeepsFile'
  BY <1>1, <1>6 DEF Delete, Write, pubVars, linkVars, hearVars, bounds
<1>7. ASSUME NEW l \in Lease, Change(l) PROVE LiveKeepsFile'
  BY <1>1, <1>7 DEF Change, pubVars, linkVars, hearVars, bounds
<1>8. ASSUME NEW l \in Lease, CloseJournal(l) PROVE LiveKeepsFile'
  BY <1>1, <1>8 DEF CloseJournal, pubVars, linkVars, hearVars, bounds
<1>9. ASSUME NEW l \in Lease, Release(l) PROVE LiveKeepsFile'
  <2>1. UNCHANGED file
    BY <1>9 DEF Release
  <2>2. lease[l].node \in Node /\ node[lease[l].node] = "up"
    BY <1>9 DEF Release, Leases, InOrder
  <2>3. UNCHANGED node \/ node' = [node EXCEPT ![lease[l].node] = "closed"]
    BY <1>9 DEF Release, Left
  <2> QED
    BY <2>1, <2>2, <2>3 DEF Typed, TypedHome, LiveKeepsFile
<1>10. ASSUME NEW l \in Lease, Free(l) PROVE LiveKeepsFile'
  BY <1>1, <1>10 DEF Free, pubVars, linkVars, hearVars, bounds
<1>11. ASSUME NEW n \in Node, Register(n) PROVE LiveKeepsFile'
  BY <1>11 DEF Register, Typed, TypedHome, LiveKeepsFile
<1>12. ASSUME NEW n \in Node, Unregister(n) PROVE LiveKeepsFile'
  BY <1>12 DEF Unregister, Typed, TypedHome, LiveKeepsFile
<1>13. ASSUME NEW n \in Node, Crash(n) PROVE LiveKeepsFile'
  BY <1>13 DEF Crash, Typed, TypedHome, LiveKeepsFile
<1>14. ASSUME NEW n \in Node, Serve(n) PROVE LiveKeepsFile'
  BY <1>1, <1>14 DEF Serve, pubVars, linkVars, hearVars, bounds
<1>15. ASSUME NEW n \in Node, Drop(n) PROVE LiveKeepsFile'
  BY <1>1, <1>15 DEF Drop, pubVars, linkVars, hearVars, bounds
<1>16. ASSUME NEW n \in Node, Disconnect(n) PROVE LiveKeepsFile'
  BY <1>1, <1>16 DEF Disconnect, pubVars, linkVars, hearVars, bounds
<1>17. ASSUME NEW n \in Node, Probe(n) PROVE LiveKeepsFile'
  BY <1>1, <1>17 DEF Probe, pubVars, linkVars, hearVars, bounds
<1>18. ASSUME NEW n \in Node, ProbeFails(n) PROVE LiveKeepsFile'
  BY <1>1, <1>18 DEF ProbeFails, pubVars, linkVars, hearVars, bounds
<1>19. ASSUME NEW n \in Node, Lost(n) PROVE LiveKeepsFile'
  BY <1>1, <1>19 DEF Lost, pubVars, linkVars, hearVars, bounds
<1>20. ASSUME NEW n \in Node, NEW kind \in {"tmp", "json"}, PassOver(n, kind) PROVE LiveKeepsFile'
  BY <1>1, <1>20 DEF PassOver, pubVars, linkVars, hearVars, bounds
<1>21. ASSUME NEW n \in Node, NEW kind \in {"tmp", "json"}, FindLive(n, kind) PROVE LiveKeepsFile'
  BY <1>1, <1>21 DEF FindLive, pubVars, linkVars, hearVars, bounds
<1>22. ASSUME NEW n \in Node, NEW kind \in {"tmp", "json"}, FindDead(n, kind) PROVE LiveKeepsFile'
  BY <1>22 DEF FindDead, Collected, Known, Guarded, Dead, Alive, Typed, TypedHome, LiveKeepsFile
<1>23. CASE Overflow
  BY <1>1, <1>23 DEF Overflow, pubVars, linkVars, hearVars, bounds
<1>24. CASE Connect
  BY <1>1, <1>24 DEF Connect, pubVars, linkVars, hearVars, bounds
<1>25. CASE NotConnected
  BY <1>1, <1>25 DEF NotConnected, pubVars, linkVars, hearVars, bounds
<1>26. CASE Retry
  BY <1>26 DEF Retry, Collected, Dead, Alive, Dialling, AtNode, Typed, TypedHome, LiveKeepsFile
<1>27. CASE Idle
  BY <1>1, <1>27 DEF Idle, pubVars, linkVars, hearVars, bounds
<1>28. CASE Refresh
  BY <1>1, <1>28 DEF Refresh, pubVars, linkVars, hearVars, bounds
<1>29. CASE Call
  BY <1>1, <1>29 DEF Call, pubVars, linkVars, hearVars, bounds
<1>30. ASSUME NEW kind \in {"signal", "registration", "overflow"}, FileEvent(kind) PROVE LiveKeepsFile'
  BY <1>1, <1>30 DEF FileEvent, pubVars, linkVars, hearVars, bounds
<1>31. CASE UNCHANGED vars
  BY <1>31, <1>1 DEF vars, LiveKeepsFile, pubVars, linkVars, hearVars, bounds
<1> QED
  BY <1>2, <1>3, <1>4, <1>5, <1>6, <1>7, <1>8, <1>9, <1>10, <1>11, <1>12, <1>13, <1>14,
     <1>15, <1>16, <1>17, <1>18, <1>19, <1>20, <1>21, <1>22, <1>23, <1>24, <1>25, <1>26,
     <1>27, <1>28, <1>29, <1>30, <1>31
     DEF Next, Work, Publisher, Loop


\* A node that has been up never comes back to its beginnings.
LEMMA NodeAges ==
  ASSUME Typed, Leases, [Next]_vars, NEW n \in Node, node[n] \notin {"none", "created"}
  PROVE  node'[n] \notin {"none", "created"}
<1>1. ASSUME NEW l \in Lease, Locked(l) \/ Release(l)
      PROVE  node'[n] \notin {"none", "created"}
  <2>1. UNCHANGED node \/ node' = [node EXCEPT ![lease[l].node] = "closed"]
    BY <1>1 DEF Locked, Release, Left
  <2> QED
    BY <2>1 DEF Typed, TypedHome
<1>2. ASSUME NEW l \in Lease, Work(l) PROVE node'[n] \notin {"none", "created"}
  BY <1>1, <1>2 DEF Work, Begin, Own, AppendRecord, Delete, Write, Change, CloseJournal, Free,
                    Typed, TypedHome
<1>3. ASSUME NEW m \in Node, Publisher(m) PROVE node'[n] \notin {"none", "created"}
  BY <1>3 DEF Publisher, Register, Unregister, Crash, Serve, Drop, Typed, TypedHome, pubVars
<1>4. CASE Loop
  BY <1>4 DEF Loop, Connect, NotConnected, Retry, Idle, Refresh, Lost, PassOver, FindLive,
              FindDead, pubVars
<1>5. ASSUME NEW m \in Node, Disconnect(m) \/ Probe(m) \/ ProbeFails(m)
      PROVE  node'[n] \notin {"none", "created"}
  BY <1>5 DEF Disconnect, Probe, ProbeFails, pubVars
<1>6. CASE Overflow \/ Call \/ \E kind \in {"signal", "registration", "overflow"} : FileEvent(kind)
  BY <1>6 DEF Overflow, Call, FileEvent, pubVars
<1>7. CASE UNCHANGED vars
  BY <1>7 DEF vars, pubVars
<1> QED
  BY <1>2, <1>3, <1>4, <1>5, <1>6, <1>7 DEF Next

\* A lease that does not move, in a home that changes elsewhere.
LEMMA StaysInOrder ==
  ASSUME NEW k, InOrder(k), UNCHANGED lease[k],
         lease[k].node \in Node => node'[lease[k].node] = node[lease[k].node],
         lease[k].id \in Session => holder'[lease[k].id] = holder[lease[k].id],
         lease[k].node \in Node /\ lease[k].id \in Session =>
           owned'[lease[k].node][lease[k].id] = owned[lease[k].node][lease[k].id]
  PROVE  InOrder(k)'
BY NotifyAssumption DEF InOrder

LEMMA BeginKeepsOrder ==
  ASSUME Typed, Leases, NEW l \in Lease, NEW n \in Node, NEW s \in Session, Begin(l, n, s)
  PROVE  Leases'
<1> SUFFICES ASSUME NEW k \in Lease PROVE InOrder(k)'
  BY DEF Leases
<1>1. InOrder(k)
  BY DEF Leases
<1>2. UNCHANGED <<holder, owned>>
  BY DEF Begin
<1>3. CASE node[n] = "up"
  <2>1. UNCHANGED node /\ lease' = [lease EXCEPT ![l] = [step |-> "open", node |-> n, id |-> s]]
    BY <1>3 DEF Begin
  <2>2. CASE k = l
    BY <1>3, <2>1, <2>2 DEF InOrder, Typed, TypedHome
  <2>3. CASE k # l
    BY <1>1, <1>2, <2>1, <2>3 DEF InOrder, Typed, TypedHome
  <2> QED
    BY <2>2, <2>3
<1>4. CASE node[n] = "none"
  <2>1. /\ node' = [node EXCEPT ![n] = "created"]
        /\ lease' = [lease EXCEPT ![l] = [step |-> "begin", node |-> n, id |-> s]]
    BY <1>4 DEF Begin
  <2>2. CASE k = l
    BY <2>1, <2>2 DEF InOrder, Typed, TypedHome
  <2>3. CASE k # l
    BY <1>1, <1>2, <1>4, <2>1, <2>3 DEF InOrder, Typed, TypedHome
  <2> QED
    BY <2>2, <2>3
<1> QED
  BY <1>3, <1>4 DEF Begin

LEMMA OwnKeepsOrder ==
  ASSUME Typed, Leases, NEW l \in Lease, Own(l)
  PROVE  Leases'
<1> SUFFICES ASSUME NEW k \in Lease PROVE InOrder(k)'
  BY DEF Leases
<1>1. InOrder(k) /\ InOrder(l)
  BY DEF Leases
<1>2. /\ lease'[l] = [lease[l] EXCEPT !.step = "owned"] /\ lease[l] \in LeaseRecord
      /\ \A j \in Lease \ {l} : lease'[j] = lease[j]
  BY ToFacts DEF Own, Typed, TypedHome, Step
<1>3. lease[l].node \in Node /\ lease[l].id \in Session /\ node[lease[l].node] = "up"
      /\ holder[lease[l].id] = Nobody
  BY <1>1 DEF Own, InOrder
<1>4. CASE k = l
  <2>1. /\ lease'[l].step = "owned" /\ lease'[l].node = lease[l].node /\ lease'[l].id = lease[l].id
    BY <1>2 DEF LeaseRecord
  <2>2. holder'[lease[l].id] = l /\ owned'[lease[l].node][lease[l].id] = l /\ UNCHANGED node
    BY <1>3 DEF Own, Typed, TypedHome
  <2> QED
    BY <1>3, <1>4, <2>1, <2>2 DEF InOrder
<1>5. CASE k # l
  <2>1. lease'[k] = lease[k] /\ UNCHANGED node
    BY <1>2, <1>5 DEF Own
  <2>2. CASE lease[k].id = lease[l].id
    <3>1. lease[k].step \notin {"owned", "wrote", "removed", "dying"}
      BY <1>1, <1>3, <2>2, NotifyAssumption DEF InOrder
    <3> QED
      BY <1>1, <2>1, <3>1 DEF InOrder
  <2>3. CASE lease[k].id # lease[l].id
    <3>1. /\ lease[k].id \in Session => holder'[lease[k].id] = holder[lease[k].id]
          /\ lease[k].node \in Node /\ lease[k].id \in Session =>
               owned'[lease[k].node][lease[k].id] = owned[lease[k].node][lease[k].id]
      BY <1>3, <2>3 DEF Own, Typed, TypedHome
    <3> QED
      BY <1>1, <2>1, <3>1, StaysInOrder
  <2> QED
    BY <2>2, <2>3
<1> QED
  BY <1>4, <1>5

\* A step of one lease that touches neither nodes nor locks.
LEMMA MoveKeepsOrder ==
  ASSUME Typed, Leases, NEW l \in Lease,
         Write(l, "wrote") \/ Write(l, "removed") \/ Change(l)
  PROVE  Leases'
<1> SUFFICES ASSUME NEW k \in Lease PROVE InOrder(k)'
  BY DEF Leases
<1>1. InOrder(k) /\ InOrder(l)
  BY DEF Leases
<1>2. PICK step \in {"wrote", "removed", "owned"} : To(l, step)
  BY DEF Write, Change
<1>3. /\ lease'[l] = [lease[l] EXCEPT !.step = step] /\ lease[l] \in LeaseRecord
      /\ \A j \in Lease \ {l} : lease'[j] = lease[j]
  BY <1>2, ToFacts DEF Typed, TypedHome, Step
<1>4. UNCHANGED <<node, holder, owned>> /\ lease[l].step \in {"owned", "wrote"}
  BY DEF Write, Change
<1>5. CASE k = l
  <2>1. /\ lease'[l].step = step /\ lease'[l].node = lease[l].node /\ lease'[l].id = lease[l].id
    BY <1>3 DEF LeaseRecord
  <2> QED
    BY <1>1, <1>4, <1>5, <2>1 DEF InOrder
<1>6. CASE k # l
  BY <1>1, <1>3, <1>4, <1>6, StaysInOrder
<1> QED
  BY <1>5, <1>6

LEMMA CloseJournalKeepsOrder ==
  ASSUME Typed, Leases, NEW l \in Lease, CloseJournal(l)
  PROVE  Leases'
<1> SUFFICES ASSUME NEW k \in Lease PROVE InOrder(k)'
  BY DEF Leases
<1>1. InOrder(k) /\ InOrder(l)
  BY DEF Leases
<1>2. /\ lease'[l] = [lease[l] EXCEPT !.step = "released"] /\ lease[l] \in LeaseRecord
      /\ \A j \in Lease \ {l} : lease'[j] = lease[j]
  BY ToFacts DEF CloseJournal, Typed, TypedHome, Step
<1>3. UNCHANGED <<node, owned>> /\ holder' = [holder EXCEPT ![lease[l].id] = Nobody]
      /\ lease[l].step \in {"owned", "removed"}
  BY DEF CloseJournal
<1>4. CASE k = l
  <2>1. /\ lease'[l].step = "released" /\ lease'[l].node = lease[l].node /\ lease'[l].id = lease[l].id
    BY <1>2 DEF LeaseRecord
  <2> QED
    BY <1>1, <1>3, <1>4, <2>1 DEF InOrder
<1>5. CASE k # l
  <2>1. lease'[k] = lease[k]
    BY <1>2, <1>5
  <2>2. CASE lease[k].id = lease[l].id
    <3>1. lease[k].step \notin {"owned", "wrote", "removed", "dying"}
      BY <1>1, <1>3, <1>5, <2>2 DEF InOrder
    <3> QED
      BY <1>1, <1>3, <2>1, <3>1 DEF InOrder
  <2>3. CASE lease[k].id # lease[l].id
    <3>1. lease[k].id \in Session => holder'[lease[k].id] = holder[lease[k].id]
      BY <1>3, <2>3 DEF Typed, TypedHome
    <3> QED
      BY <1>1, <1>3, <2>1, <3>1, StaysInOrder
  <2> QED
    BY <2>2, <2>3
<1> QED
  BY <1>4, <1>5

LEMMA FreeKeepsOrder ==
  ASSUME Typed, Leases, NEW l \in Lease, Free(l)
  PROVE  Leases'
<1> SUFFICES ASSUME NEW k \in Lease PROVE InOrder(k)'
  BY DEF Leases
<1>1. InOrder(k) /\ InOrder(l) /\ lease[l] \in LeaseRecord
  BY DEF Leases, Typed, TypedHome
<1>2. UNCHANGED <<node, owned>> /\ holder' = [holder EXCEPT ![lease[l].id] = Nobody]
      /\ lease[l].step = "dying"
  BY DEF Free
<1>3. /\ \/ lease'[l] = Over
         \/ /\ lease'[l].step = "gone" /\ lease'[l].node = lease[l].node
            /\ lease'[l].id = lease[l].id
      /\ \A j \in Lease \ {l} : lease'[j] = lease[j]
  <2>1. CASE To(l, "gone")
    BY <1>1, <2>1, ToFacts DEF Typed, Step, LeaseRecord
  <2>2. CASE lease' = [lease EXCEPT ![l] = Over]
    BY <2>2 DEF Typed, TypedHome
  <2> QED
    BY <2>1, <2>2 DEF Free
<1>4. CASE k = l
  BY <1>1, <1>2, <1>3, <1>4 DEF InOrder, Over
<1>5. CASE k # l
  <2>1. lease'[k] = lease[k]
    BY <1>3, <1>5
  <2>2. CASE lease[k].id = lease[l].id
    <3>1. lease[k].step \notin {"owned", "wrote", "removed", "dying"}
      BY <1>1, <1>2, <1>5, <2>2 DEF InOrder
    <3> QED
      BY <1>1, <1>2, <2>1, <3>1 DEF InOrder
  <2>3. CASE lease[k].id # lease[l].id
    <3>1. lease[k].id \in Session => holder'[lease[k].id] = holder[lease[k].id]
      BY <1>2, <2>3 DEF Typed, TypedHome
    <3> QED
      BY <1>1, <1>2, <2>1, <3>1, StaysInOrder
  <2> QED
    BY <2>2, <2>3
<1> QED
  BY <1>4, <1>5

LEMMA LockedKeepsOrder ==
  ASSUME Typed, Leases, NEW l \in Lease, Locked(l)
  PROVE  Leases'
<1> SUFFICES ASSUME NEW k \in Lease PROVE InOrder(k)'
  BY DEF Leases
<1>1. InOrder(k) /\ InOrder(l)
  BY DEF Leases
<1>2. /\ lease' = [lease EXCEPT ![l] = Over] /\ lease[l].node \in Node
      /\ \/ UNCHANGED node
         \/ Closes(l) /\ node' = [node EXCEPT ![lease[l].node] = "closed"]
  <2>1. lease[l].node \in Node /\ Left(l, Over, queue) /\ queue \in [Node -> Pending]
    BY DEF Locked, Leases, InOrder, Typed, TypedLink
  <2> QED
    BY <2>1, LeftFacts, OverIsLease DEF Typed
<1>3. UNCHANGED <<holder, owned>>
  BY DEF Locked
<1>4. CASE k = l
  BY <1>2, <1>4 DEF InOrder, Over, Typed, TypedHome
<1>5. CASE k # l
  <2>1. lease'[k] = lease[k]
    BY <1>2, <1>5 DEF Typed, TypedHome
  <2>2. lease[k].node = lease[l].node => UNCHANGED node \/ lease[k].step = "gone"
    BY <1>2, <1>5 DEF Closes
  <2> QED
    BY <1>1, <1>2, <1>3, <2>1, <2>2 DEF InOrder, Typed, TypedHome
<1> QED
  BY <1>4, <1>5

LEMMA ReleaseKeepsOrder ==
  ASSUME Typed, Leases, NEW l \in Lease, Release(l)
  PROVE  Leases'
<1> SUFFICES ASSUME NEW k \in Lease PROVE InOrder(k)'
  BY DEF Leases
<1>1. InOrder(k) /\ InOrder(l) /\ lease[l] \in LeaseRecord
  BY DEF Leases, Typed, TypedHome
<1>2. /\ lease' = [lease EXCEPT ![l] = ReleasedTo(l)] /\ lease[l].node \in Node
      /\ \/ UNCHANGED node
         \/ Closes(l) /\ node' = [node EXCEPT ![lease[l].node] = "closed"]
  <2> DEFINE told == ReleasedTo(l)
             next == Published(lease[l].node, lease[l].id)
  <2>1. told \in LeaseRecord /\ next \in [Node -> Pending] /\ Left(l, told, next)
        /\ lease[l].node \in Node
    BY ReleaseFacts
  <2>2. /\ lease' = [lease EXCEPT ![l] = told] /\ lease[l].node \in Node
        /\ \/ UNCHANGED node
           \/ Closes(l) /\ node' = [node EXCEPT ![lease[l].node] = "closed"]
    <3> HIDE DEF told, next
    <3> QED
      BY <2>1, LeftFacts DEF Typed
  <2> QED
    BY <2>2
<1>3. /\ UNCHANGED holder /\ lease[l].step = "released" /\ lease[l].id \in Session
      /\ owned' = IF owned[lease[l].node][lease[l].id] = l
                  THEN [owned EXCEPT ![lease[l].node][lease[l].id] = Nobody] ELSE owned
  BY <1>1 DEF Release, InOrder
<1>4. CASE k = l
  <2>1. \/ lease'[l] = Over
        \/ /\ lease'[l].step = "gone" /\ lease'[l].node = lease[l].node
           /\ lease'[l].id = lease[l].id
    BY <1>1, <1>2 DEF ReleasedTo, Typed, TypedHome, LeaseRecord
  <2>2. node[lease[l].node] = "up" /\ node'[lease[l].node] \in {"up", "closed"}
    BY <1>1, <1>2, <1>3 DEF InOrder, Typed, TypedHome
  <2> QED
    BY <1>1, <1>3, <1>4, <2>1, <2>2 DEF InOrder, Over
<1>5. CASE k # l
  <2>1. lease'[k] = lease[k]
    BY <1>2, <1>5 DEF Typed, TypedHome
  <2>2. lease[k].node = lease[l].node => UNCHANGED node \/ lease[k].step = "gone"
    BY <1>2, <1>5 DEF Closes
  <2>3. \A n \in Node, s \in Session : owned[n][s] = k => owned'[n][s] = k
    BY <1>2, <1>3, <1>5 DEF Typed, TypedHome
  <2> QED
    BY <1>1, <1>2, <1>3, <2>1, <2>2, <2>3 DEF InOrder, Typed, TypedHome
<1> QED
  BY <1>4, <1>5

LEMMA RegisterKeepsOrder ==
  ASSUME Typed, Leases, NEW n \in Node, Register(n)
  PROVE  Leases'
<1> SUFFICES ASSUME NEW k \in Lease PROVE InOrder(k)'
  BY DEF Leases
<1>1. InOrder(k) /\ lease[k] \in LeaseRecord
  BY DEF Leases, Typed, TypedHome
<1>2. /\ node[n] = "created" /\ node' = [node EXCEPT ![n] = "up"] /\ UNCHANGED <<holder, owned>>
      /\ lease'[k] = IF lease[k].node = n THEN [lease[k] EXCEPT !.step = "open"] ELSE lease[k]
  BY DEF Register
<1>3. CASE lease[k].node = n
  <2>1. lease'[k].step = "open" /\ lease'[k].node = n /\ lease'[k].id = lease[k].id
    BY <1>1, <1>2, <1>3 DEF LeaseRecord
  <2> QED
    BY <1>1, <1>2, <1>3, <2>1, NotifyAssumption DEF InOrder, Typed, TypedHome
<1>4. CASE lease[k].node # n
  BY <1>1, <1>2, <1>4 DEF InOrder, Typed, TypedHome
<1> QED
  BY <1>3, <1>4

LEMMA UnregisterKeepsOrder ==
  ASSUME Typed, Leases, NEW n \in Node, Unregister(n)
  PROVE  Leases'
<1> SUFFICES ASSUME NEW k \in Lease PROVE InOrder(k)'
  BY DEF Leases
<1>1. InOrder(k)
  BY DEF Leases
<1> QED
  BY <1>1 DEF Unregister, InOrder, Typed, TypedHome

LEMMA CrashKeepsOrder ==
  ASSUME Typed, Leases, NEW n \in Node, Crash(n)
  PROVE  Leases'
<1> SUFFICES ASSUME NEW k \in Lease PROVE InOrder(k)'
  BY DEF Leases
<1>1. InOrder(k) /\ lease[k] \in LeaseRecord
  BY DEF Leases, Typed, TypedHome
<1>2. /\ node' = [node EXCEPT ![n] = "dead"] /\ UNCHANGED holder
      /\ owned' = [owned EXCEPT ![n] = [s \in Session |-> Nobody]]
      /\ lease'[k] = IF lease[k].node # n \/ lease[k].step = "gone" THEN lease[k]
                     ELSE IF holder[lease[k].id] = k THEN [lease[k] EXCEPT !.step = "dying"] ELSE Over
  BY DEF Crash
<1>3. CASE lease[k].node # n
  BY <1>1, <1>2, <1>3 DEF InOrder, Typed, TypedHome
<1>4. CASE lease[k].node = n /\ lease[k].step = "gone"
  BY <1>1, <1>2, <1>4 DEF InOrder, Typed, TypedHome
<1>5. CASE lease[k].node = n /\ lease[k].step # "gone"
  <2>1. CASE holder[lease[k].id] = k
    <3>1. lease'[k].step = "dying" /\ lease'[k].node = n /\ lease'[k].id = lease[k].id
      BY <1>1, <1>2, <1>5, <2>1 DEF LeaseRecord
    <3> QED
      BY <1>1, <1>2, <1>5, <2>1, <3>1, NotifyAssumption DEF InOrder, Typed, TypedHome
  <2>2. CASE holder[lease[k].id] # k
    BY <1>2, <1>5, <2>2 DEF InOrder, Over
  <2> QED
    BY <2>1, <2>2
<1> QED
  BY <1>3, <1>4, <1>5

\* Each operation stays where its node and its locks let it be.
LEMMA StepKeepsOrder ==
  ASSUME Typed, Leases, [Next]_vars
  PROVE  Leases'
<1>1. UNCHANGED <<node, lease, holder, owned>> => Leases'
  BY DEF Leases, InOrder
<1>2. ASSUME NEW l \in Lease, NEW n \in Node, NEW s \in Session, Begin(l, n, s) PROVE Leases'
  BY <1>2, BeginKeepsOrder
<1>3. ASSUME NEW l \in Lease, Own(l) PROVE Leases'
  BY <1>3, OwnKeepsOrder
<1>4. ASSUME NEW l \in Lease, Locked(l) PROVE Leases'
  BY <1>4, LockedKeepsOrder
<1>5. ASSUME NEW l \in Lease, AppendRecord(l) PROVE Leases'
  BY <1>5, MoveKeepsOrder DEF AppendRecord, Delete
<1>6. ASSUME NEW l \in Lease, Delete(l) PROVE Leases'
  BY <1>6, MoveKeepsOrder DEF AppendRecord, Delete
<1>7. ASSUME NEW l \in Lease, Change(l) PROVE Leases'
  BY <1>7, MoveKeepsOrder DEF AppendRecord, Delete
<1>8. ASSUME NEW l \in Lease, CloseJournal(l) PROVE Leases'
  BY <1>8, CloseJournalKeepsOrder
<1>9. ASSUME NEW l \in Lease, Release(l) PROVE Leases'
  BY <1>9, ReleaseKeepsOrder
<1>10. ASSUME NEW l \in Lease, Free(l) PROVE Leases'
  BY <1>10, FreeKeepsOrder
<1>11. ASSUME NEW n \in Node, Register(n) PROVE Leases'
  BY <1>11, RegisterKeepsOrder
<1>12. ASSUME NEW n \in Node, Unregister(n) PROVE Leases'
  BY <1>12, UnregisterKeepsOrder
<1>13. ASSUME NEW n \in Node, Crash(n) PROVE Leases'
  BY <1>13, CrashKeepsOrder
<1>14. ASSUME NEW n \in Node, Serve(n) PROVE Leases'
  BY <1>1, <1>14 DEF Serve, pubVars, linkVars, hearVars, bounds
<1>15. ASSUME NEW n \in Node, Drop(n) PROVE Leases'
  BY <1>1, <1>15 DEF Drop, pubVars, linkVars, hearVars, bounds
<1>16. ASSUME NEW n \in Node, Disconnect(n) PROVE Leases'
  BY <1>1, <1>16 DEF Disconnect, pubVars, linkVars, hearVars, bounds
<1>17. ASSUME NEW n \in Node, Probe(n) PROVE Leases'
  BY <1>1, <1>17 DEF Probe, pubVars, linkVars, hearVars, bounds
<1>18. ASSUME NEW n \in Node, ProbeFails(n) PROVE Leases'
  BY <1>1, <1>18 DEF ProbeFails, pubVars, linkVars, hearVars, bounds
<1>19. ASSUME NEW n \in Node, Lost(n) PROVE Leases'
  BY <1>1, <1>19 DEF Lost, pubVars, linkVars, hearVars, bounds
<1>20. ASSUME NEW n \in Node, NEW kind \in {"tmp", "json"}, PassOver(n, kind) PROVE Leases'
  BY <1>1, <1>20 DEF PassOver, pubVars, linkVars, hearVars, bounds
<1>21. ASSUME NEW n \in Node, NEW kind \in {"tmp", "json"}, FindLive(n, kind) PROVE Leases'
  BY <1>1, <1>21 DEF FindLive, pubVars, linkVars, hearVars, bounds
<1>22. ASSUME NEW n \in Node, NEW kind \in {"tmp", "json"}, FindDead(n, kind) PROVE Leases'
  BY <1>1, <1>22 DEF FindDead, pubVars, linkVars, hearVars, bounds
<1>23. CASE Overflow
  BY <1>1, <1>23 DEF Overflow, pubVars, linkVars, hearVars, bounds
<1>24. CASE Connect
  BY <1>1, <1>24 DEF Connect, pubVars, linkVars, hearVars, bounds
<1>25. CASE NotConnected
  BY <1>1, <1>25 DEF NotConnected, pubVars, linkVars, hearVars, bounds
<1>26. CASE Retry
  BY <1>1, <1>26 DEF Retry, pubVars, linkVars, hearVars, bounds
<1>27. CASE Idle
  BY <1>1, <1>27 DEF Idle, pubVars, linkVars, hearVars, bounds
<1>28. CASE Refresh
  BY <1>1, <1>28 DEF Refresh, pubVars, linkVars, hearVars, bounds
<1>29. CASE Call
  BY <1>1, <1>29 DEF Call, pubVars, linkVars, hearVars, bounds
<1>30. ASSUME NEW kind \in {"signal", "registration", "overflow"}, FileEvent(kind) PROVE Leases'
  BY <1>1, <1>30 DEF FileEvent, pubVars, linkVars, hearVars, bounds
<1>31. CASE UNCHANGED vars
  BY <1>31, <1>1 DEF vars, Leases, InOrder, pubVars, linkVars, hearVars, bounds
<1> QED
  BY <1>2, <1>3, <1>4, <1>5, <1>6, <1>7, <1>8, <1>9, <1>10, <1>11, <1>12, <1>13, <1>14,
     <1>15, <1>16, <1>17, <1>18, <1>19, <1>20, <1>21, <1>22, <1>23, <1>24, <1>25, <1>26,
     <1>27, <1>28, <1>29, <1>30, <1>31
     DEF Next, Work, Publisher, Loop


-----------------------------------------------------------------------------
(* Connections and the loop.                                               *)

\* What a close of the last lease does to subscribers.
LEMMA LeavesLink ==
  ASSUME Typed, Leases, NEW l \in Lease, Locked(l) \/ Release(l)
  PROVE  /\ lease[l].node \in Node /\ node[lease[l].node] = "up"
         /\ UNCHANGED conn
         /\ \/ UNCHANGED <<node, client, events>>
            \/ /\ node' = [node EXCEPT ![lease[l].node] = "closed"]
               /\ client' = [client EXCEPT ![lease[l].node] = FALSE]
               /\ events' = events \cup {"signal"}
<1>1. lease[l].node \in Node /\ node[lease[l].node] = "up"
  BY DEF Locked, Release, Leases, InOrder
<1>2. UNCHANGED conn
  BY DEF Locked, Release, hearVars
<1>3. \/ UNCHANGED <<node, client, events>>
      \/ /\ node' = [node EXCEPT ![lease[l].node] = "closed"]
         /\ client' = [client EXCEPT ![lease[l].node] = FALSE]
         /\ events' = events \cup {"signal"}
  BY DEF Locked, Release, Left, Reported
<1> QED
  BY <1>1, <1>2, <1>3

\* A subscriber is served by a node that is up.
LEMMA StepLinks ==
  ASSUME Typed, Leases, Links, [Next]_vars
  PROVE  Links'
<1>1. UNCHANGED <<node, client, conn>> => Links'
  BY DEF Links
<1>2. ASSUME NEW l \in Lease, NEW n \in Node, NEW s \in Session, Begin(l, n, s) PROVE Links'
  BY <1>2 DEF Begin, Links, Typed, TypedHome, TypedLink, TypedWatch, linkVars, hearVars, pubVars
<1>3. ASSUME NEW l \in Lease, Own(l) PROVE Links'
  BY <1>1, <1>3 DEF Own, pubVars, linkVars, hearVars, bounds
<1>4. ASSUME NEW l \in Lease, Locked(l) PROVE Links'
  BY <1>4, LeavesLink DEF Links, Typed, TypedHome, TypedLink, TypedWatch
<1>5. ASSUME NEW l \in Lease, AppendRecord(l) PROVE Links'
  BY <1>1, <1>5 DEF AppendRecord, Write, pubVars, linkVars, hearVars, bounds
<1>6. ASSUME NEW l \in Lease, Delete(l) PROVE Links'
  BY <1>1, <1>6 DEF Delete, Write, pubVars, linkVars, hearVars, bounds
<1>7. ASSUME NEW l \in Lease, Change(l) PROVE Links'
  BY <1>1, <1>7 DEF Change, pubVars, linkVars, hearVars, bounds
<1>8. ASSUME NEW l \in Lease, CloseJournal(l) PROVE Links'
  BY <1>1, <1>8 DEF CloseJournal, pubVars, linkVars, hearVars, bounds
<1>9. ASSUME NEW l \in Lease, Release(l) PROVE Links'
  BY <1>9, LeavesLink DEF Links, Typed, TypedHome, TypedLink, TypedWatch
<1>10. ASSUME NEW l \in Lease, Free(l) PROVE Links'
  BY <1>1, <1>10 DEF Free, pubVars, linkVars, hearVars, bounds
<1>11. ASSUME NEW n \in Node, Register(n) PROVE Links'
  BY <1>11 DEF Register, Links, Typed, TypedHome, TypedLink, TypedWatch, linkVars, hearVars, pubVars
<1>12. ASSUME NEW n \in Node, Unregister(n) PROVE Links'
  BY <1>12 DEF Unregister, Links, Typed, TypedHome, TypedLink, TypedWatch, linkVars, hearVars, pubVars
<1>13. ASSUME NEW n \in Node, Crash(n) PROVE Links'
  BY <1>13 DEF Crash, Links, Typed, TypedHome, TypedLink, TypedWatch, linkVars, hearVars, pubVars
<1>14. ASSUME NEW n \in Node, Serve(n) PROVE Links'
  BY <1>1, <1>14 DEF Serve, pubVars, linkVars, hearVars, bounds
<1>15. ASSUME NEW n \in Node, Drop(n) PROVE Links'
  BY <1>15 DEF Drop, Links, Typed, TypedHome, TypedLink, TypedWatch, linkVars, hearVars, pubVars
<1>16. ASSUME NEW n \in Node, Disconnect(n) PROVE Links'
  BY <1>16 DEF Disconnect, Links, Typed, TypedHome, TypedLink, TypedWatch, linkVars, hearVars, pubVars
<1>17. ASSUME NEW n \in Node, Probe(n) PROVE Links'
  BY <1>1, <1>17 DEF Probe, pubVars, linkVars, hearVars, bounds
<1>18. ASSUME NEW n \in Node, ProbeFails(n) PROVE Links'
  BY <1>1, <1>18 DEF ProbeFails, pubVars, linkVars, hearVars, bounds
<1>19. ASSUME NEW n \in Node, Lost(n) PROVE Links'
  BY <1>19 DEF Lost, Links, Typed, TypedHome, TypedLink, TypedWatch, linkVars, hearVars, pubVars
<1>20. ASSUME NEW n \in Node, NEW kind \in {"tmp", "json"}, PassOver(n, kind) PROVE Links'
  BY <1>1, <1>20 DEF PassOver, pubVars, linkVars, hearVars, bounds
<1>21. ASSUME NEW n \in Node, NEW kind \in {"tmp", "json"}, FindLive(n, kind) PROVE Links'
  BY <1>1, <1>21 DEF FindLive, pubVars, linkVars, hearVars, bounds
<1>22. ASSUME NEW n \in Node, NEW kind \in {"tmp", "json"}, FindDead(n, kind) PROVE Links'
  BY <1>1, <1>22 DEF FindDead, pubVars, linkVars, hearVars, bounds
<1>23. CASE Overflow
  BY <1>1, <1>23 DEF Overflow, pubVars, linkVars, hearVars, bounds
<1>24. CASE Connect
  BY <1>24 DEF Connect, Links, Typed, TypedHome, TypedLink, TypedWatch, linkVars, hearVars, pubVars
<1>25. CASE NotConnected
  BY <1>1, <1>25 DEF NotConnected, pubVars, linkVars, hearVars, bounds
<1>26. CASE Retry
  BY <1>1, <1>26 DEF Retry, pubVars, linkVars, hearVars, bounds
<1>27. CASE Idle
  BY <1>1, <1>27 DEF Idle, pubVars, linkVars, hearVars, bounds
<1>28. CASE Refresh
  BY <1>1, <1>28 DEF Refresh, pubVars, linkVars, hearVars, bounds
<1>29. CASE Call
  BY <1>1, <1>29 DEF Call, pubVars, linkVars, hearVars, bounds
<1>30. ASSUME NEW kind \in {"signal", "registration", "overflow"}, FileEvent(kind) PROVE Links'
  BY <1>1, <1>30 DEF FileEvent, pubVars, linkVars, hearVars, bounds
<1>31. CASE UNCHANGED vars
  BY <1>31, <1>1 DEF vars, Links, pubVars, linkVars, hearVars, bounds
<1> QED
  BY <1>2, <1>3, <1>4, <1>5, <1>6, <1>7, <1>8, <1>9, <1>10, <1>11, <1>12, <1>13, <1>14,
     <1>15, <1>16, <1>17, <1>18, <1>19, <1>20, <1>21, <1>22, <1>23, <1>24, <1>25, <1>26,
     <1>27, <1>28, <1>29, <1>30, <1>31
     DEF Next, Work, Publisher, Loop


\* The loop works on a node that has been up, and that the watcher is not connected to.
LEMMA StepDialling ==
  ASSUME Typed, Leases, LiveKeepsFile, Links, Dialling, [Next]_vars
  PROVE  Dialling'
<1>1. UNCHANGED <<loop, conn>> => Dialling'
  BY NodeAges DEF Dialling, AtNode
<1>2. ASSUME NEW l \in Lease, NEW n \in Node, NEW s \in Session, Begin(l, n, s) PROVE Dialling'
  BY <1>1, <1>2 DEF Begin, pubVars, linkVars, hearVars, bounds
<1>3. ASSUME NEW l \in Lease, Own(l) PROVE Dialling'
  BY <1>1, <1>3 DEF Own, pubVars, linkVars, hearVars, bounds
<1>4. ASSUME NEW l \in Lease, Locked(l) PROVE Dialling'
  BY <1>1, <1>4 DEF Locked, pubVars, linkVars, hearVars, bounds
<1>5. ASSUME NEW l \in Lease, AppendRecord(l) PROVE Dialling'
  BY <1>1, <1>5 DEF AppendRecord, Write, pubVars, linkVars, hearVars, bounds
<1>6. ASSUME NEW l \in Lease, Delete(l) PROVE Dialling'
  BY <1>1, <1>6 DEF Delete, Write, pubVars, linkVars, hearVars, bounds
<1>7. ASSUME NEW l \in Lease, Change(l) PROVE Dialling'
  BY <1>1, <1>7 DEF Change, pubVars, linkVars, hearVars, bounds
<1>8. ASSUME NEW l \in Lease, CloseJournal(l) PROVE Dialling'
  BY <1>1, <1>8 DEF CloseJournal, pubVars, linkVars, hearVars, bounds
<1>9. ASSUME NEW l \in Lease, Release(l) PROVE Dialling'
  BY <1>1, <1>9 DEF Release, pubVars, linkVars, hearVars, bounds
<1>10. ASSUME NEW l \in Lease, Free(l) PROVE Dialling'
  BY <1>1, <1>10 DEF Free, pubVars, linkVars, hearVars, bounds
<1>11. ASSUME NEW n \in Node, Register(n) PROVE Dialling'
  BY <1>1, <1>11 DEF Register, pubVars, linkVars, hearVars, bounds
<1>12. ASSUME NEW n \in Node, Unregister(n) PROVE Dialling'
  BY <1>1, <1>12 DEF Unregister, pubVars, linkVars, hearVars, bounds
<1>13. ASSUME NEW n \in Node, Crash(n) PROVE Dialling'
  BY <1>1, <1>13 DEF Crash, pubVars, linkVars, hearVars, bounds
<1>14. ASSUME NEW n \in Node, Serve(n) PROVE Dialling'
  BY <1>1, <1>14 DEF Serve, pubVars, linkVars, hearVars, bounds
<1>15. ASSUME NEW n \in Node, Drop(n) PROVE Dialling'
  BY <1>1, <1>15 DEF Drop, pubVars, linkVars, hearVars, bounds
<1>16. ASSUME NEW n \in Node, Disconnect(n) PROVE Dialling'
  BY <1>16 DEF Disconnect, Dialling, AtNode, Typed, TypedWatch, pubVars
<1>17. ASSUME NEW n \in Node, Probe(n) PROVE Dialling'
  BY <1>1, <1>17 DEF Probe, pubVars, linkVars, hearVars, bounds
<1>18. ASSUME NEW n \in Node, ProbeFails(n) PROVE Dialling'
  BY <1>18, LoopMoves DEF Dialling, AtNode
<1>19. ASSUME NEW n \in Node, Lost(n) PROVE Dialling'
  <2>1. node[n] \notin {"none", "created"} /\ UNCHANGED node
    BY <1>19 DEF Lost, Links, pubVars
  <2>2. conn'[n] = "none"
    BY <1>19 DEF Lost, Typed, TypedWatch
  <2> QED
    BY <1>19, <2>1, <2>2, LoopMoves DEF Dialling, AtNode
<1>20. ASSUME NEW n \in Node, NEW kind \in {"tmp", "json"}, PassOver(n, kind) PROVE Dialling'
  BY <1>20, LoopMoves DEF PassOver, Dialling, AtNode, Typed, TypedWatch, LoopRecord
<1>21. ASSUME NEW n \in Node, NEW kind \in {"tmp", "json"}, FindLive(n, kind) PROVE Dialling'
  <2>1. /\ loop'.at = "dial" /\ loop'.node = n
        /\ loop'.gap = loop.gap /\ loop'.owned = loop.owned /\ UNCHANGED <<conn, node>>
    BY <1>21, LoopMoves DEF FindLive, pubVars
  <2>2. conn[n] = "none" /\ node[n] \notin {"none", "created"}
    BY <1>21 DEF FindLive, Known, Alive, LiveKeepsFile
  <2> QED
    BY <2>1, <2>2 DEF Dialling, AtNode
<1>22. ASSUME NEW n \in Node, NEW kind \in {"tmp", "json"}, FindDead(n, kind) PROVE Dialling'
  BY <1>22, LoopMoves DEF FindDead, Dialling, AtNode, Typed, TypedWatch, LoopRecord
<1>23. CASE Overflow
  BY <1>1, <1>23 DEF Overflow, pubVars, linkVars, hearVars, bounds
<1>24. CASE Connect
  BY <1>24, RestFacts DEF Connect, Dialling, AtNode
<1>25. CASE NotConnected
  BY <1>25, LoopMoves DEF NotConnected, Dialling, AtNode, pubVars
<1>26. CASE Retry
  <2>1. CASE file[loop.node] = "json" /\ Alive(loop.node)
    BY <1>26, <2>1, LoopMoves DEF Retry, Dialling, AtNode
  <2>2. CASE ~(file[loop.node] = "json" /\ Alive(loop.node))
    BY <1>26, <2>2, RestFacts DEF Retry, Dialling, AtNode
  <2> QED
    BY <2>1, <2>2
<1>27. CASE Idle
  BY <1>27, LoopMoves DEF Idle, Dialling, AtNode
<1>28. CASE Refresh
  BY <1>28, DiscoverFacts DEF Refresh, Dialling, AtNode, Typed, TypedWatch, LoopRecord
<1>29. CASE Call
  BY <1>1, <1>29 DEF Call, pubVars, linkVars, hearVars, bounds
<1>30. ASSUME NEW kind \in {"signal", "registration", "overflow"}, FileEvent(kind) PROVE Dialling'
  BY <1>1, <1>30 DEF FileEvent, pubVars, linkVars, hearVars, bounds
<1>31. CASE UNCHANGED vars
  BY <1>31, <1>1 DEF vars, Dialling, AtNode, pubVars, linkVars, hearVars, bounds
<1> QED
  BY <1>2, <1>3, <1>4, <1>5, <1>6, <1>7, <1>8, <1>9, <1>10, <1>11, <1>12, <1>13, <1>14,
     <1>15, <1>16, <1>17, <1>18, <1>19, <1>20, <1>21, <1>22, <1>23, <1>24, <1>25, <1>26,
     <1>27, <1>28, <1>29, <1>30, <1>31
     DEF Next, Work, Publisher, Loop


\* Only locks of a node that was given up are probed.
LEMMA StepProbing ==
  ASSUME Typed, Leases, LiveKeepsFile, Dialling, Probing, [Next]_vars
  PROVE  Probing'
<1>1. UNCHANGED <<node, conn, await, loop>> => Probing'
  BY DEF Probing, AtNode
<1>2. ASSUME NEW l \in Lease, NEW n \in Node, NEW s \in Session, Begin(l, n, s) PROVE Probing'
  BY <1>2 DEF Begin, Probing, AtNode, Typed, TypedHome, hearVars
<1>3. ASSUME NEW l \in Lease, Own(l) PROVE Probing'
  BY <1>1, <1>3 DEF Own, pubVars, linkVars, hearVars, bounds
<1>4. ASSUME NEW l \in Lease, Locked(l) PROVE Probing'
  <2>1. UNCHANGED <<conn, loop, await>>
    BY <1>4 DEF Locked, hearVars
  <2> QED
    BY <1>4, <2>1, LeavesLink DEF Probing, AtNode, Typed, TypedHome
<1>5. ASSUME NEW l \in Lease, AppendRecord(l) PROVE Probing'
  BY <1>1, <1>5 DEF AppendRecord, Write, pubVars, linkVars, hearVars, bounds
<1>6. ASSUME NEW l \in Lease, Delete(l) PROVE Probing'
  BY <1>1, <1>6 DEF Delete, Write, pubVars, linkVars, hearVars, bounds
<1>7. ASSUME NEW l \in Lease, Change(l) PROVE Probing'
  BY <1>1, <1>7 DEF Change, pubVars, linkVars, hearVars, bounds
<1>8. ASSUME NEW l \in Lease, CloseJournal(l) PROVE Probing'
  BY <1>1, <1>8 DEF CloseJournal, pubVars, linkVars, hearVars, bounds
<1>9. ASSUME NEW l \in Lease, Release(l) PROVE Probing'
  <2>1. UNCHANGED <<conn, loop, await>>
    BY <1>9 DEF Release, hearVars
  <2> QED
    BY <1>9, <2>1, LeavesLink DEF Probing, AtNode, Typed, TypedHome
<1>10. ASSUME NEW l \in Lease, Free(l) PROVE Probing'
  BY <1>1, <1>10 DEF Free, pubVars, linkVars, hearVars, bounds
<1>11. ASSUME NEW n \in Node, Register(n) PROVE Probing'
  BY <1>11 DEF Register, Probing, AtNode, Typed, TypedHome, hearVars
<1>12. ASSUME NEW n \in Node, Unregister(n) PROVE Probing'
  BY <1>12 DEF Unregister, Probing, AtNode, Typed, TypedHome, hearVars
<1>13. ASSUME NEW n \in Node, Crash(n) PROVE Probing'
  BY <1>13 DEF Crash, Probing, AtNode, Typed, TypedHome, hearVars
<1>14. ASSUME NEW n \in Node, Serve(n) PROVE Probing'
  BY <1>1, <1>14 DEF Serve, pubVars, linkVars, hearVars, bounds
<1>15. ASSUME NEW n \in Node, Drop(n) PROVE Probing'
  BY <1>1, <1>15 DEF Drop, pubVars, linkVars, hearVars, bounds
<1>16. ASSUME NEW n \in Node, Disconnect(n) PROVE Probing'
  BY <1>16 DEF Disconnect, Probing, AtNode, Typed, TypedWatch, pubVars
<1>17. ASSUME NEW n \in Node, Probe(n) PROVE Probing'
  BY <1>17 DEF Probe, StillHeld, Probing, AtNode, Typed, TypedWatch, pubVars
<1>18. ASSUME NEW n \in Node, ProbeFails(n) PROVE Probing'
  BY <1>18, LoopMoves DEF ProbeFails, Probing, AtNode, pubVars
<1>19. ASSUME NEW n \in Node, Lost(n) PROVE Probing'
  <2>1. UNCHANGED <<node, await>> /\ conn' = [conn EXCEPT ![n] = "none"] /\ conn[n] = "lost"
    BY <1>19 DEF Lost, pubVars
  <2> QED
    BY <1>19, <2>1, LoopMoves DEF Probing, AtNode, Typed, TypedWatch
<1>20. ASSUME NEW n \in Node, NEW kind \in {"tmp", "json"}, PassOver(n, kind) PROVE Probing'
  BY <1>20, LoopMoves DEF PassOver, Probing, AtNode, Typed, TypedWatch, LoopRecord, pubVars
<1>21. ASSUME NEW n \in Node, NEW kind \in {"tmp", "json"}, FindLive(n, kind) PROVE Probing'
  <2>1. /\ loop'.at = "dial" /\ loop'.node = n /\ UNCHANGED <<conn, node, await>>
    BY <1>21, LoopMoves DEF FindLive, pubVars
  <2>2. node[n] \in {"up", "closed"} /\ loop.at = "scan"
    BY <1>21 DEF FindLive, Alive, Named
  <2> QED
    BY <2>1, <2>2 DEF Probing, AtNode
<1>22. ASSUME NEW n \in Node, NEW kind \in {"tmp", "json"}, FindDead(n, kind) PROVE Probing'
  BY <1>22, LoopMoves DEF FindDead, Probing, AtNode, Typed, TypedWatch, LoopRecord
<1>23. CASE Overflow
  BY <1>1, <1>23 DEF Overflow, pubVars, linkVars, hearVars, bounds
<1>24. CASE Connect
  <2>1. loop'.at = "scan" /\ UNCHANGED <<await, node>> /\ conn' = [conn EXCEPT ![loop.node] = "active"]
    BY <1>24, RestFacts DEF Connect, pubVars
  <2> QED
    BY <1>24, <2>1 DEF Connect, Probing, AtNode, Dialling, Typed, TypedWatch
<1>25. CASE NotConnected
  BY <1>25, LoopMoves DEF NotConnected, Probing, AtNode, pubVars
<1>26. CASE Retry
  <2>1. CASE file[loop.node] = "json" /\ Alive(loop.node)
    BY <1>26, <2>1, LoopMoves DEF Retry, Probing, AtNode
  <2>2. CASE ~(file[loop.node] = "json" /\ Alive(loop.node))
    <3>1. /\ loop'.at = "scan" /\ await' = [await EXCEPT ![loop.node] = loop.owned]
          /\ UNCHANGED <<conn, node>>
      BY <1>26, <2>2, RestFacts DEF Retry
    <3>2. /\ loop.node \in Node /\ conn[loop.node] = "none"
          /\ node[loop.node] \in {"gone", "dead"}
      BY <1>26, <2>2 DEF Retry, Dialling, AtNode, Alive, LiveKeepsFile, Typed, TypedHome, NodeStates
    <3> QED
      BY <3>1, <3>2 DEF Probing, AtNode, Typed, TypedWatch
  <2> QED
    BY <2>1, <2>2
<1>27. CASE Idle
  BY <1>27, LoopMoves DEF Idle, Probing, AtNode, pubVars
<1>28. CASE Refresh
  BY <1>28, DiscoverFacts DEF Refresh, Probing, AtNode, Typed, TypedWatch, LoopRecord, pubVars
<1>29. CASE Call
  BY <1>1, <1>29 DEF Call, pubVars, linkVars, hearVars, bounds
<1>30. ASSUME NEW kind \in {"signal", "registration", "overflow"}, FileEvent(kind) PROVE Probing'
  BY <1>1, <1>30 DEF FileEvent, pubVars, linkVars, hearVars, bounds
<1>31. CASE UNCHANGED vars
  BY <1>31, <1>1 DEF vars, Probing, AtNode, pubVars, linkVars, hearVars, bounds
<1> QED
  BY <1>2, <1>3, <1>4, <1>5, <1>6, <1>7, <1>8, <1>9, <1>10, <1>11, <1>12, <1>13, <1>14,
     <1>15, <1>16, <1>17, <1>18, <1>19, <1>20, <1>21, <1>22, <1>23, <1>24, <1>25, <1>26,
     <1>27, <1>28, <1>29, <1>30, <1>31
     DEF Next, Work, Publisher, Loop


\* A registration that the watcher does not know will be looked at.
LEMMA StepFound ==
  ASSUME Typed, Leases, Dialling, Found, [Next]_vars
  PROVE  Found'
<1>1. UNCHANGED <<file, conn, refresh, events, loop>> => Found'
  BY DEF Found, Sought, AtNode, Listening
<1>2. ASSUME NEW l \in Lease, NEW n \in Node, NEW s \in Session, Begin(l, n, s) PROVE Found'
  <2>1. UNCHANGED <<conn, refresh, loop>> /\ events \subseteq events'
    BY <1>2 DEF Begin, Reported, hearVars
  <2>2. events' # {} \/ UNCHANGED file
    BY <1>2 DEF Begin, Reported
  <2> QED
    BY <2>1, <2>2 DEF Found, Sought, AtNode, Listening
<1>3. ASSUME NEW l \in Lease, Own(l) PROVE Found'
  BY <1>1, <1>3 DEF Own, pubVars, linkVars, hearVars, bounds
<1>4. ASSUME NEW l \in Lease, Locked(l) PROVE Found'
  <2>1. UNCHANGED <<conn, refresh, loop, file>>
    BY <1>4 DEF Locked, hearVars
  <2>2. events \subseteq events'
    BY <1>4, LeavesLink
  <2> QED
    BY <2>1, <2>2 DEF Found, Sought, AtNode, Listening
<1>5. ASSUME NEW l \in Lease, AppendRecord(l) PROVE Found'
  BY <1>1, <1>5 DEF AppendRecord, Write, pubVars, linkVars, hearVars, bounds
<1>6. ASSUME NEW l \in Lease, Delete(l) PROVE Found'
  BY <1>1, <1>6 DEF Delete, Write, pubVars, linkVars, hearVars, bounds
<1>7. ASSUME NEW l \in Lease, Change(l) PROVE Found'
  BY <1>1, <1>7 DEF Change, pubVars, linkVars, hearVars, bounds
<1>8. ASSUME NEW l \in Lease, CloseJournal(l) PROVE Found'
  BY <1>1, <1>8 DEF CloseJournal, pubVars, linkVars, hearVars, bounds
<1>9. ASSUME NEW l \in Lease, Release(l) PROVE Found'
  <2>1. UNCHANGED <<conn, refresh, loop, file>>
    BY <1>9 DEF Release, hearVars
  <2>2. events \subseteq events'
    BY <1>9, LeavesLink
  <2> QED
    BY <2>1, <2>2 DEF Found, Sought, AtNode, Listening
<1>10. ASSUME NEW l \in Lease, Free(l) PROVE Found'
  BY <1>1, <1>10 DEF Free, pubVars, linkVars, hearVars, bounds
<1>11. ASSUME NEW n \in Node, Register(n) PROVE Found'
  BY <1>11 DEF Register, Reported, Found, Sought, Listening, hearVars
<1>12. ASSUME NEW n \in Node, Unregister(n) PROVE Found'
  BY <1>12 DEF Unregister, Reported, Found, Sought, Listening, hearVars
<1>13. ASSUME NEW n \in Node, Crash(n) PROVE Found'
  BY <1>1, <1>13 DEF Crash, pubVars, linkVars, hearVars, bounds
<1>14. ASSUME NEW n \in Node, Serve(n) PROVE Found'
  BY <1>1, <1>14 DEF Serve, pubVars, linkVars, hearVars, bounds
<1>15. ASSUME NEW n \in Node, Drop(n) PROVE Found'
  BY <1>1, <1>15 DEF Drop, pubVars, linkVars, hearVars, bounds
<1>16. ASSUME NEW n \in Node, Disconnect(n) PROVE Found'
  BY <1>16 DEF Disconnect, Found, Sought, AtNode, Listening, Typed, TypedWatch, pubVars
<1>17. ASSUME NEW n \in Node, Probe(n) PROVE Found'
  BY <1>1, <1>17 DEF Probe, pubVars, linkVars, hearVars, bounds
<1>18. ASSUME NEW n \in Node, ProbeFails(n) PROVE Found'
  BY <1>18, LoopMoves DEF Found, Listening
<1>19. ASSUME NEW n \in Node, Lost(n) PROVE Found'
  <2>1. UNCHANGED <<file, refresh, events>> /\ loop.at = "idle"
        /\ conn' = [conn EXCEPT ![n] = "none"]
    BY <1>19 DEF Lost, pubVars
  <2> QED
    BY <1>19, <2>1, LoopMoves DEF Found, Sought, AtNode, Listening, Typed, TypedWatch
<1>20. ASSUME NEW n \in Node, NEW kind \in {"tmp", "json"}, PassOver(n, kind) PROVE Found'
  <2>1. UNCHANGED <<file, refresh, events, conn>> /\ (kind = "json" => conn[n] # "none")
    BY <1>20 DEF PassOver, Known, pubVars
  <2> QED
    BY <1>20, <2>1, LoopMoves DEF Found, Sought, AtNode, Listening
<1>21. ASSUME NEW n \in Node, NEW kind \in {"tmp", "json"}, FindLive(n, kind) PROVE Found'
  <2>1. UNCHANGED <<file, refresh, events, conn>>
    BY <1>21 DEF FindLive, pubVars
  <2> QED
    BY <1>21, <2>1, LoopMoves DEF Found, Sought, AtNode, Listening
<1>22. ASSUME NEW n \in Node, NEW kind \in {"tmp", "json"}, FindDead(n, kind) PROVE Found'
  <2>1. UNCHANGED <<refresh, conn>> /\ Collected(n, kind) /\ ~(file[n] = kind /\ Alive(n))
    BY <1>22 DEF FindDead
  <2>2. /\ kind = "json" => file'[n] # "json"
        /\ \A m \in Node : file'[m] = "json" => file[m] = "json"
    BY <2>1 DEF Collected, Dead, Typed, TypedHome
  <2>3. events \subseteq events'
    BY <2>1 DEF Collected, Reported
  <2> QED
    BY <1>22, <2>1, <2>2, <2>3, LoopMoves DEF Found, Sought, AtNode, Listening
<1>23. CASE Overflow
  BY <1>23 DEF Overflow, Found, Sought, AtNode, Listening, hearVars, pubVars
<1>24. CASE Connect
  <2>1. UNCHANGED <<file, refresh, events>> /\ loop'.scan = loop.scan /\ Listening
        /\ conn' = [conn EXCEPT ![loop.node] = "active"]
    BY <1>24, RestFacts DEF Connect, Listening, pubVars
  <2> QED
    BY <2>1 DEF Found, Sought, AtNode, Typed, TypedWatch
<1>25. CASE NotConnected
  <2>1. UNCHANGED <<file, refresh, events, conn>> /\ loop.at = "dial"
    BY <1>25 DEF NotConnected, pubVars
  <2> QED
    BY <1>25, <2>1, LoopMoves DEF Found, Sought, AtNode, Listening
<1>26. CASE Retry
  <2>1. UNCHANGED <<refresh, conn>> /\ loop.at = "retry"
    BY <1>26 DEF Retry
  <2>2. CASE file[loop.node] = "json" /\ Alive(loop.node)
    <3>1. UNCHANGED <<file, events>>
      BY <1>26, <2>2 DEF Retry
    <3> QED
      BY <1>26, <2>1, <2>2, <3>1, LoopMoves DEF Found, Sought, AtNode, Listening
  <2>3. CASE ~(file[loop.node] = "json" /\ Alive(loop.node))
    <3>1. loop'.scan = loop.scan /\ loop.node \in Node
      BY <1>26, <2>1, <2>3, RestFacts DEF Retry, Dialling, AtNode
    <3>2. Collected(loop.node, "json")
      BY <1>26, <2>3 DEF Retry
    <3>3. file'[loop.node] # "json" /\ \A m \in Node : file'[m] = "json" => file[m] = "json"
      BY <2>3, <3>1, <3>2 DEF Collected, Dead, Typed, TypedHome
    <3>4. events \subseteq events'
      BY <3>2 DEF Collected, Reported
    <3> QED
      BY <2>1, <3>1, <3>3, <3>4 DEF Found, Sought, AtNode, Listening
  <2> QED
    BY <2>2, <2>3
<1>27. CASE Idle
  <2>1. UNCHANGED <<file, refresh, events, conn>> /\ loop.at = "scan"
    BY <1>27 DEF Idle, pubVars
  <2> QED
    BY <1>27, <2>1, LoopMoves DEF Found, Sought, AtNode, Listening
<1>28. CASE Refresh
  <2>1. UNCHANGED <<file, events, conn>> /\ Discover
    BY <1>28 DEF Refresh, pubVars
  <2> QED
    BY <2>1, DiscoverFacts DEF Found, Sought, Typed
<1>29. CASE Call
  BY <1>1, <1>29 DEF Call, pubVars, linkVars, hearVars, bounds
<1>30. ASSUME NEW kind \in {"signal", "registration", "overflow"}, FileEvent(kind) PROVE Found'
  BY <1>30 DEF FileEvent, Found, Sought, AtNode, Listening, hearVars, pubVars
<1>31. CASE UNCHANGED vars
  BY <1>31, <1>1 DEF vars, Found, Sought, AtNode, Listening, pubVars, linkVars, hearVars, bounds
<1> QED
  BY <1>2, <1>3, <1>4, <1>5, <1>6, <1>7, <1>8, <1>9, <1>10, <1>11, <1>12, <1>13, <1>14,
     <1>15, <1>16, <1>17, <1>18, <1>19, <1>20, <1>21, <1>22, <1>23, <1>24, <1>25, <1>26,
     <1>27, <1>28, <1>29, <1>30, <1>31
     DEF Next, Work, Publisher, Loop


-----------------------------------------------------------------------------
(* The news.                                                               *)

Frame == Typed /\ LiveKeepsFile /\ Leases /\ Links /\ Dialling /\ Probing /\ Found

\* A session that is stale after a step, and what is known of it before.
Stale(s) ==
  /\ s \in Session /\ s \in stale' /\ Listening'
  /\ Witnessed(s)'
  /\ s \in stale => Owed(s)

\* Where the news is afterwards: links that nobody touches keep theirs.
LEMMA CallStays ==
  ASSUME NEW s, WithCall(s), UNCHANGED todo, loop'.first = loop.first, events \subseteq events'
  PROVE  Owed(s)'
BY DEF WithCall, Owed

LEMMA LoopStays ==
  ASSUME NEW s, WithLoop(s), UNCHANGED loop,
         node[loop.node] = "up" => node'[loop.node] = "up"
  PROVE  Owed(s)'
BY DEF WithLoop, AtNode, Owed

LEMMA NodeStays ==
  ASSUME NEW s, NEW n \in Node, WithNode(n, s),
         conn'[n] = conn[n], client'[n] = client[n],
         Covers(queue[n], s) => Covers(queue'[n], s),
         await'[n] = await[n],
         node[n] = "dead" /\ file[n] = "json" => node'[n] = "dead" /\ file'[n] = "json"
  PROVE  Owed(s)'
<1>1. WithNode(n, s)'
  BY DEF WithNode, Covers
<1> QED
  BY <1>1 DEF Owed

LEMMA LeaseStays ==
  ASSUME NEW s, NEW l \in Lease, WithLease(l, s), lease'[l] = lease[l],
         lease[l].step = "owned" => conn'[lease[l].node] = conn[lease[l].node]
  PROVE  Owed(s)'
<1>1. WithLease(l, s)'
  BY DEF WithLease
<1> QED
  BY <1>1 DEF Owed

\* A step that calls for a rescan, or for this session, owes nothing more.
LEMMA CalledFor ==
  ASSUME NEW s, Covers(todo', s) \/ "signal" \in events' \/ "overflow" \in events'
  PROVE  Owed(s)'
BY DEF Covers, WithCall, Owed

LEMMA RescanCalls ==
  ASSUME NEW s, todo' = Add(todo, {}, TRUE)
  PROVE  Owed(s)'
BY CalledFor DEF Add, Covers

\* A lease whose node the watcher can or will hear.
LEMMA HeardOfLease ==
  ASSUME NEW s, NEW l \in Lease, lease'[l].node \in Node, lease'[l].id = s,
         lease'[l].step = "owned",
         client'[lease'[l].node] => Covers(queue'[lease'[l].node], s)
  PROVE  Owed(s)'
<1> DEFINE n == lease'[l].node
<1>1. CASE conn'[n] = "none"
  BY <1>1 DEF WithLease, Owed
<1>2. CASE conn'[n] # "none" /\ ~client'[n]
  BY <1>2 DEF WithNode, Owed
<1>3. CASE client'[n]
  BY <1>3 DEF WithNode, Owed, Covers
<1> QED
  BY <1>1, <1>2, <1>3

\* Steps of an operation.
LEMMA BeginOwes ==
  ASSUME Frame, NEW l \in Lease, NEW n \in Node, NEW t \in Session, Begin(l, n, t),
         NEW s, Stale(s)
  PROVE  Owed(s)'
<1>1. /\ UNCHANGED <<holder, owned, client, queue, loop, conn, await, todo, stale>>
      /\ events \subseteq events' /\ lease[l].step = "idle"
      /\ \A k \in Lease \ {l} : lease'[k] = lease[k]
  BY DEF Begin, linkVars, hearVars, Reported, Frame, Typed, TypedHome
<1>2. Owed(s)
  BY <1>1 DEF Stale
<1>3. ASSUME WithCall(s) PROVE Owed(s)'
  BY <1>1, <1>3, CallStays
<1>4. ASSUME WithLoop(s) PROVE Owed(s)'
  <2>1. node[loop.node] = "up" => node'[loop.node] = "up"
    BY <1>4 DEF Begin, WithLoop, Dialling, Frame, Typed, TypedHome
  <2> QED
    BY <1>1, <1>4, <2>1, LoopStays
<1>5. ASSUME NEW m \in Node, WithNode(m, s) PROVE Owed(s)'
  <2>1. CASE "signal" \in events'
    BY <2>1, CalledFor
  <2>2. CASE "signal" \notin events'
    <3>1. node[m] = "dead" /\ file[m] = "json" => node'[m] = "dead" /\ file'[m] = "json"
      BY <2>2 DEF Begin, Dead, Alive, Reported, Frame, Typed, TypedHome
    <3> QED
      BY <1>1, <1>5, <3>1, NodeStays
  <2> QED
    BY <2>1, <2>2
<1>6. ASSUME NEW k \in Lease, WithLease(k, s) PROVE Owed(s)'
  <2>1. k # l
    BY <1>1, <1>6 DEF WithLease
  <2> QED
    BY <1>1, <1>6, <2>1, LeaseStays
<1> QED
  BY <1>2, <1>3, <1>4, <1>5, <1>6 DEF Owed

\* A step that leaves the home and the watcher as they are: only one lease
\* moves, and what was said on the way to the watcher is still being said.
Moves(l) ==
  /\ UNCHANGED <<node, file, client, loop, conn, await, todo>>
  /\ events \subseteq events'
  /\ \A k \in Lease \ {l} : lease'[k] = lease[k]

LEMMA MovesOwe ==
  ASSUME Frame, NEW l \in Lease, Moves(l), NEW s, Owed(s), ~WithLease(l, s),
         \A n \in Node : Covers(queue[n], s) => Covers(queue'[n], s)
  PROVE  Owed(s)'
<1>1. ASSUME WithCall(s) PROVE Owed(s)'
  BY <1>1, CallStays DEF Moves
<1>2. ASSUME WithLoop(s) PROVE Owed(s)'
  BY <1>2, LoopStays DEF Moves
<1>3. ASSUME NEW n \in Node, WithNode(n, s) PROVE Owed(s)'
  BY <1>3, NodeStays DEF Moves
<1>4. ASSUME NEW k \in Lease, WithLease(k, s) PROVE Owed(s)'
  <2>1. k # l
    BY <1>4
  <2> QED
    BY <1>4, <2>1, LeaseStays DEF Moves
<1> QED
  BY <1>1, <1>2, <1>3, <1>4 DEF Owed

LEMMA OwnOwes ==
  ASSUME Frame, NEW l \in Lease, Own(l), NEW s, Stale(s)
  PROVE  Owed(s)'
<1>1. lease[l].node \in Node /\ lease[l].id \in Session /\ lease[l].step = "open"
  BY DEF Own, Frame, Leases, InOrder
<1>2. /\ lease'[l] = [lease[l] EXCEPT !.step = "owned"] /\ lease[l] \in LeaseRecord
      /\ \A k \in Lease \ {l} : lease'[k] = lease[k]
  BY ToFacts DEF Own, Frame, Typed, TypedHome, Step
<1>3. /\ queue' = Published(lease[l].node, lease[l].id) /\ stale' = stale \cup {lease[l].id}
      /\ Moves(l)
  BY <1>2 DEF Own, Changed, Moves, hearVars
<1>4. /\ client[lease[l].node] => Covers(queue'[lease[l].node], lease[l].id)
      /\ \A n \in Node : Covers(queue[n], s) => Covers(queue'[n], s)
  BY <1>1, <1>3, PublishedFacts DEF Frame, Typed
<1>5. CASE s = lease[l].id
  <2>1. lease'[l].step = "owned" /\ lease'[l].node = lease[l].node /\ lease'[l].id = s
    BY <1>2, <1>5 DEF LeaseRecord
  <2> QED
    BY <1>1, <1>3, <1>4, <1>5, <2>1, HeardOfLease DEF Moves
<1>6. CASE s # lease[l].id
  <2>1. Owed(s) /\ ~WithLease(l, s)
    BY <1>3, <1>6 DEF Stale, WithLease
  <2> QED
    BY <1>3, <1>4, <2>1, MovesOwe
<1> QED
  BY <1>5, <1>6

LEMMA ChangeOwes ==
  ASSUME Frame, NEW l \in Lease, Change(l), NEW s, Stale(s)
  PROVE  Owed(s)'
<1>1. lease[l].node \in Node /\ lease[l].id \in Session /\ lease[l].step = "wrote"
  BY DEF Change, Frame, Leases, InOrder
<1>2. /\ lease'[l] = [lease[l] EXCEPT !.step = "owned"] /\ lease[l] \in LeaseRecord
      /\ \A k \in Lease \ {l} : lease'[k] = lease[k]
  BY ToFacts DEF Change, Frame, Typed, TypedHome, Step
<1>3. /\ queue' = Published(lease[l].node, lease[l].id) /\ UNCHANGED stale /\ Moves(l)
  BY <1>2 DEF Change, Moves, hearVars
<1>4. /\ client[lease[l].node] => Covers(queue'[lease[l].node], lease[l].id)
      /\ \A n \in Node : Covers(queue[n], s) => Covers(queue'[n], s)
  BY <1>1, <1>3, PublishedFacts DEF Frame, Typed
<1>5. CASE s = lease[l].id
  <2>1. lease'[l].step = "owned" /\ lease'[l].node = lease[l].node /\ lease'[l].id = s
    BY <1>2, <1>5 DEF LeaseRecord
  <2> QED
    BY <1>1, <1>3, <1>4, <1>5, <2>1, HeardOfLease DEF Moves
<1>6. CASE s # lease[l].id
  <2>1. Owed(s) /\ ~WithLease(l, s)
    BY <1>3, <1>6 DEF Stale, WithLease
  <2> QED
    BY <1>3, <1>4, <2>1, MovesOwe
<1> QED
  BY <1>5, <1>6

\* An append, a removal, and the close of the journal are told later.
LEMMA WriteOwes ==
  ASSUME Frame, NEW l \in Lease, AppendRecord(l) \/ Delete(l) \/ CloseJournal(l),
         NEW s, Stale(s)
  PROVE  Owed(s)'
<1>1. PICK step \in {"wrote", "removed", "released"} : To(l, step)
  BY DEF AppendRecord, Delete, CloseJournal, Write
<1>2. /\ lease'[l] = [lease[l] EXCEPT !.step = step] /\ lease[l] \in LeaseRecord
      /\ \A k \in Lease \ {l} : lease'[k] = lease[k]
  BY <1>1, ToFacts DEF Frame, Typed, TypedHome, Step
<1>3. UNCHANGED queue /\ stale' = stale \cup {lease[l].id} /\ Moves(l)
  BY <1>2 DEF AppendRecord, Delete, CloseJournal, Write, Changed, Moves, linkVars, hearVars
<1>4. CASE s = lease[l].id
  <2>1. lease'[l].step = step /\ lease'[l].id = s
    BY <1>2, <1>4 DEF LeaseRecord
  <2> QED
    BY <2>1 DEF WithLease, Owed
<1>5. CASE s # lease[l].id
  <2>1. Owed(s) /\ ~WithLease(l, s)
    BY <1>3, <1>5 DEF Stale, WithLease
  <2> QED
    BY <1>3, <2>1, MovesOwe
<1> QED
  BY <1>4, <1>5

\* A process whose journal is let go by the kernel is dead: whoever followed it
\* still waits for this, and nobody else has been a witness.
LEMMA FreeOwes ==
  ASSUME Frame, NEW l \in Lease, Free(l), NEW s, Stale(s)
  PROVE  Owed(s)'
<1>1. /\ lease[l].node \in Node /\ lease[l].id \in Session /\ lease[l].step = "dying"
      /\ node[lease[l].node] = "dead" /\ lease[l] \in LeaseRecord
  BY DEF Free, Frame, Leases, InOrder, Typed, TypedHome
<1>2. \/ /\ Followed(lease[l].node, lease[l].id)
         /\ lease' = [lease EXCEPT ![l] = Over]
      \/ To(l, "gone")
  BY DEF Free
<1>3. \A k \in Lease \ {l} : lease'[k] = lease[k]
  BY <1>2 DEF To, Frame, Typed, TypedHome
<1>4. UNCHANGED queue /\ stale' = stale \cup {lease[l].id} /\ Moves(l)
  BY <1>3 DEF Free, Changed, Moves, linkVars, hearVars
<1>5. CASE s = lease[l].id
  <2>1. PICK n \in Node : n = lease[l].node
    BY <1>1
  <2>2. ~To(l, "gone")
    <3> SUFFICES ASSUME To(l, "gone") PROVE FALSE
      OBVIOUS
    <3>1. lease'[l].step = "gone" /\ lease'[l].id = s
      BY <1>1, <1>5, ToFacts DEF Frame, Typed, Step, LeaseRecord
    <3> QED
      BY <3>1 DEF Stale, Witnessed
  <2>3. Followed(lease[l].node, s)
    BY <1>2, <1>5, <2>2
  <2>4. ASSUME conn[lease[l].node] # "none" PROVE Owed(s)'
    <3>1. WithNode(n, s)'
      BY <1>1, <1>4, <2>1, <2>4 DEF Moves, WithNode, Frame, Links
    <3> QED
      BY <3>1 DEF Owed
  <2>5. ASSUME AtNode, loop.node = lease[l].node, s \in loop.owned PROVE Owed(s)'
    BY <1>4, <2>5 DEF Moves, WithLoop, AtNode, Owed, Frame, Dialling
  <2>6. ASSUME s \in await[lease[l].node] PROVE Owed(s)'
    <3>1. WithNode(n, s)'
      BY <1>4, <2>1, <2>6 DEF Moves, WithNode
    <3> QED
      BY <3>1 DEF Owed
  <2> QED
    BY <2>3, <2>4, <2>5, <2>6 DEF Followed, AtNode
<1>6. CASE s # lease[l].id
  <2>1. Owed(s) /\ ~WithLease(l, s)
    BY <1>4, <1>6 DEF Stale, WithLease
  <2> QED
    BY <1>4, <2>1, MovesOwe
<1> QED
  BY <1>5, <1>6

LEMMA LockedOwes ==
  ASSUME Frame, NEW l \in Lease, Locked(l), NEW s, Stale(s)
  PROVE  Owed(s)'
<1>1. /\ lease[l].node \in Node /\ lease[l].step = "open" /\ queue \in [Node -> Pending]
      /\ Left(l, Over, queue)
  BY DEF Locked, Frame, Leases, InOrder, Typed, TypedLink
<1>2. /\ lease' = [lease EXCEPT ![l] = Over]
      /\ \/ queue' = queue /\ UNCHANGED <<node, events, client>>
         \/ events' = events \cup {"signal"}
  BY <1>1, LeftFacts, OverIsLease DEF Frame, Typed
<1>3. CASE events' = events \cup {"signal"}
  BY <1>3, CalledFor
<1>4. CASE queue' = queue /\ UNCHANGED <<node, events, client>>
  <2>1. Moves(l) /\ UNCHANGED stale
    BY <1>2, <1>4 DEF Locked, Moves, hearVars, Frame, Typed, TypedHome
  <2>2. Owed(s) /\ ~WithLease(l, s)
    BY <1>1, <2>1 DEF Stale, WithLease
  <2> QED
    BY <1>4, <2>1, <2>2, MovesOwe
<1> QED
  BY <1>2, <1>3, <1>4

LEMMA ReleaseOwes ==
  ASSUME Frame, NEW l \in Lease, Release(l), NEW s, Stale(s)
  PROVE  Owed(s)'
<1>1. /\ lease[l].node \in Node /\ lease[l].id \in Session /\ lease[l].step = "released"
      /\ node[lease[l].node] = "up" /\ lease[l] \in LeaseRecord
  BY DEF Release, Frame, Leases, InOrder, Typed, TypedHome
<1>2. /\ lease' = [lease EXCEPT ![l] = ReleasedTo(l)]
      /\ \/ /\ queue' = Published(lease[l].node, lease[l].id)
            /\ UNCHANGED <<node, events, client>>
         \/ events' = events \cup {"signal"}
  <2> DEFINE told == ReleasedTo(l)
             next == Published(lease[l].node, lease[l].id)
  <2>1. told \in LeaseRecord /\ next \in [Node -> Pending] /\ Left(l, told, next)
        /\ lease[l].node \in Node
    BY ReleaseFacts DEF Frame
  <2>2. /\ lease' = [lease EXCEPT ![l] = told]
        /\ \/ queue' = next /\ UNCHANGED <<node, events, client>>
           \/ events' = events \cup {"signal"}
    <3> HIDE DEF told, next
    <3> QED
      BY <2>1, LeftFacts DEF Frame, Typed
  <2> QED
    BY <2>2
<1>3. CASE events' = events \cup {"signal"}
  BY <1>3, CalledFor
<1>4. CASE queue' = Published(lease[l].node, lease[l].id) /\ UNCHANGED <<node, events, client>>
  <2>1. Moves(l) /\ UNCHANGED stale
    BY <1>2, <1>4 DEF Release, Moves, hearVars, Frame, Typed, TypedHome
  <2>2. /\ client[lease[l].node] => Covers(queue'[lease[l].node], lease[l].id)
        /\ \A n \in Node : Covers(queue[n], s) => Covers(queue'[n], s)
    BY <1>1, <1>4, PublishedFacts DEF Frame, Typed
  <2>3. CASE s = lease[l].id
    <3>1. Following(lease[l].node)
      <4> SUFFICES ASSUME ~Following(lease[l].node) PROVE FALSE
        OBVIOUS
      <4>1. lease'[l] = [lease[l] EXCEPT !.step = "gone"]
        BY <1>2 DEF ReleasedTo, Frame, Typed, TypedHome
      <4>2. lease'[l].step = "gone" /\ lease'[l].id = s
        BY <1>1, <2>3, <4>1 DEF LeaseRecord
      <4> QED
        BY <4>2 DEF Stale, Witnessed
    <3>2. PICK n \in Node : n = lease[l].node
      BY <1>1
    <3>3. CASE client[lease[l].node]
      <4>1. WithNode(n, s)'
        BY <1>4, <2>2, <2>3, <3>3, <3>2 DEF WithNode, Covers
      <4> QED
        BY <4>1 DEF Owed
    <3>4. CASE ~client[lease[l].node] /\ conn[lease[l].node] # "none"
      <4>1. WithNode(n, s)'
        BY <1>4, <2>1, <3>4, <3>2 DEF WithNode, Moves
      <4> QED
        BY <4>1 DEF Owed
    <3>5. CASE AtNode /\ loop.node = lease[l].node /\ loop.gap
      BY <1>1, <2>1, <3>5 DEF Moves, WithLoop, AtNode, Owed
    <3> QED
      BY <3>1, <3>3, <3>4, <3>5 DEF Following, AtNode
  <2>4. CASE s # lease[l].id
    <3>1. Owed(s) /\ ~WithLease(l, s)
      BY <2>1, <2>4 DEF Stale, WithLease
    <3> QED
      BY <2>1, <2>2, <3>1, MovesOwe
  <2> QED
    BY <2>3, <2>4
<1> QED
  BY <1>2, <1>3, <1>4

\* Steps of a node.
LEMMA RegisterOwes ==
  ASSUME Frame, NEW n \in Node, Register(n), NEW s, Stale(s)
  PROVE  Owed(s)'
<1>1. /\ UNCHANGED <<client, queue, loop, conn, await, todo, stale>> /\ events \subseteq events'
      /\ node[n] = "created" /\ node' = [node EXCEPT ![n] = "up"]
      /\ file' = [file EXCEPT ![n] = "json"]
  BY DEF Register, linkVars, hearVars, Reported
<1>2. Owed(s)
  BY <1>1 DEF Stale
<1>3. ASSUME WithCall(s) PROVE Owed(s)'
  BY <1>1, <1>3, CallStays
<1>4. ASSUME WithLoop(s) PROVE Owed(s)'
  <2>1. node[loop.node] = "up" => node'[loop.node] = "up"
    BY <1>1, <1>4 DEF WithLoop, Dialling, Frame, Typed, TypedHome
  <2> QED
    BY <1>1, <1>4, <2>1, LoopStays
<1>5. ASSUME NEW m \in Node, WithNode(m, s) PROVE Owed(s)'
  <2>1. node[m] = "dead" /\ file[m] = "json" => node'[m] = "dead" /\ file'[m] = "json"
    BY <1>1 DEF Frame, Typed, TypedHome
  <2> QED
    BY <1>1, <1>5, <2>1, NodeStays
<1>6. ASSUME NEW k \in Lease, WithLease(k, s) PROVE Owed(s)'
  <2>1. node[lease[k].node] = "up"
    BY <1>6 DEF WithLease, Frame, Leases, InOrder
  <2>2. lease'[k] = lease[k]
    BY <1>1, <2>1 DEF Register
  <2> QED
    BY <1>1, <1>6, <2>2, LeaseStays
<1> QED
  BY <1>2, <1>3, <1>4, <1>5, <1>6 DEF Owed

LEMMA UnregisterOwes ==
  ASSUME Frame, NEW n \in Node, Unregister(n), NEW s, Stale(s)
  PROVE  Owed(s)'
<1>1. /\ UNCHANGED <<lease, client, queue, loop, conn, await, todo, stale>>
      /\ events \subseteq events'
      /\ node[n] = "closed" /\ node' = [node EXCEPT ![n] = "gone"]
      /\ file' = [file EXCEPT ![n] = "none"]
  BY DEF Unregister, linkVars, hearVars, Reported
<1>2. Owed(s)
  BY <1>1 DEF Stale
<1>3. ASSUME WithCall(s) PROVE Owed(s)'
  BY <1>1, <1>3, CallStays
<1>4. ASSUME WithLoop(s) PROVE Owed(s)'
  <2>1. node[loop.node] = "up" => node'[loop.node] = "up"
    BY <1>1, <1>4 DEF WithLoop, Dialling, Frame, Typed, TypedHome
  <2> QED
    BY <1>1, <1>4, <2>1, LoopStays
<1>5. ASSUME NEW m \in Node, WithNode(m, s) PROVE Owed(s)'
  <2>1. node[m] = "dead" /\ file[m] = "json" => node'[m] = "dead" /\ file'[m] = "json"
    BY <1>1 DEF Frame, Typed, TypedHome
  <2> QED
    BY <1>1, <1>5, <2>1, NodeStays
<1>6. ASSUME NEW k \in Lease, WithLease(k, s) PROVE Owed(s)'
  BY <1>1, <1>6, LeaseStays
<1> QED
  BY <1>2, <1>3, <1>4, <1>5, <1>6 DEF Owed

\* A node that dies after it was published leaves a registration behind that
\* tells of everything.
LEMMA CrashOwes ==
  ASSUME Frame, NEW n \in Node, Crash(n), NEW s, Stale(s)
  PROVE  Owed(s)'
<1>1. /\ UNCHANGED <<file, loop, conn, await, todo, stale, events>>
      /\ node[n] \notin {"none", "gone", "dead"} /\ node' = [node EXCEPT ![n] = "dead"]
      /\ client' = [client EXCEPT ![n] = FALSE]
      /\ queue' = [queue EXCEPT ![n] = Empty]
  BY DEF Crash, hearVars
<1>2. Owed(s)
  BY <1>1 DEF Stale
<1>3. CASE file[n] = "json"
  BY <1>1, <1>3 DEF WithNode, Owed, Frame, Typed, TypedHome
<1>4. CASE file[n] # "json"
  <2>1. node[n] = "created" /\ ~client[n]
    BY <1>1, <1>4 DEF Frame, LiveKeepsFile, Links, Typed, TypedHome, NodeStates
  <2>2. ASSUME WithCall(s) PROVE Owed(s)'
    BY <1>1, <2>2, CallStays
  <2>3. ASSUME WithLoop(s) PROVE Owed(s)'
    <3>1. node[loop.node] = "up" => node'[loop.node] = "up"
      BY <1>1, <2>1, <2>3 DEF WithLoop, Dialling, Frame, Typed, TypedHome
    <3> QED
      BY <1>1, <2>3, <3>1, LoopStays
  <2>4. ASSUME NEW m \in Node, WithNode(m, s) PROVE Owed(s)'
    <3>1. CASE m = n
      <4>1. WithNode(n, s)'
        BY <1>1, <2>1, <2>4, <3>1 DEF WithNode, Frame, Typed, TypedLink
      <4> QED
        BY <4>1 DEF Owed
    <3>2. CASE m # n
      BY <1>1, <2>4, <3>2, NodeStays DEF Frame, Typed, TypedHome, TypedLink
    <3> QED
      BY <3>1, <3>2
  <2>5. ASSUME NEW k \in Lease, WithLease(k, s) PROVE Owed(s)'
    <3>1. lease[k].node # n
      BY <2>1, <2>5 DEF WithLease, Frame, Leases, InOrder
    <3>2. lease'[k] = lease[k]
      BY <3>1 DEF Crash
    <3> QED
      BY <1>1, <2>5, <3>2, LeaseStays
  <2> QED
    BY <1>2, <2>2, <2>3, <2>4, <2>5 DEF Owed
<1> QED
  BY <1>3, <1>4

LEMMA ServeOwes ==
  ASSUME Frame, NEW n \in Node, Serve(n), NEW s, Stale(s)
  PROVE  Owed(s)'
<1>1. /\ UNCHANGED <<node, file, lease, client, loop, conn, await, stale, events>>
      /\ queue' = [queue EXCEPT ![n] = Empty]
      /\ \/ /\ queue[n].rescan \/ queue[n].ids # {}
            /\ todo' = Add(todo, queue[n].ids, queue[n].rescan)
         \/ /\ ~queue[n].rescan /\ queue[n].ids = {}
            /\ UNCHANGED todo
  BY DEF Serve, pubVars
<1>2. Owed(s)
  BY <1>1 DEF Stale
<1>3. CASE Covers(queue[n], s)
  <2>1. todo' = Add(todo, queue[n].ids, queue[n].rescan)
    BY <1>1, <1>3 DEF Covers
  <2> QED
    BY <1>3, <2>1, CalledFor DEF Add, Covers
<1>4. CASE ~Covers(queue[n], s)
  <2>1. ASSUME WithCall(s) PROVE Owed(s)'
    <3>1. Covers(todo, s) => Covers(todo', s)
      BY <1>1, AddCovers
    <3> QED
      BY <1>1, <2>1, <3>1 DEF WithCall, Owed, Covers
  <2>2. ASSUME WithLoop(s) PROVE Owed(s)'
    BY <1>1, <2>2, LoopStays
  <2>3. ASSUME NEW m \in Node, WithNode(m, s) PROVE Owed(s)'
    <3>1. Covers(queue[m], s) => Covers(queue'[m], s)
      BY <1>1, <1>4 DEF Frame, Typed, TypedLink
    <3> QED
      BY <1>1, <2>3, <3>1, NodeStays
  <2>4. ASSUME NEW k \in Lease, WithLease(k, s) PROVE Owed(s)'
    BY <1>1, <2>4, LeaseStays
  <2> QED
    BY <1>2, <2>1, <2>2, <2>3, <2>4 DEF Owed
<1> QED
  BY <1>3, <1>4

\* A subscriber that is dropped, or hung up on, knows that it missed something.
LEMMA BrokenOwes ==
  ASSUME Frame, NEW n \in Node, Drop(n) \/ Disconnect(n), NEW s, Stale(s)
  PROVE  Owed(s)'
<1>1. conn'[n] # "none" /\ ~client'[n]
  BY DEF Drop, Disconnect, Frame, Links, Typed, TypedLink, TypedWatch, hearVars, linkVars
<1>2. WithNode(n, s)'
  BY <1>1 DEF WithNode
<1> QED
  BY <1>2 DEF Owed

LEMMA FileEventOwes ==
  ASSUME Frame, NEW kind, FileEvent(kind), NEW s, Stale(s)
  PROVE  Owed(s)'
<1>1. /\ UNCHANGED <<node, file, lease, client, queue, loop, conn, await, stale>>
      /\ events' = events \ {kind}
  BY DEF FileEvent, pubVars, linkVars, hearVars
<1>2. Owed(s)
  BY <1>1 DEF Stale
<1>3. CASE kind \in {"signal", "overflow"}
  BY <1>3, RescanCalls DEF FileEvent
<1>4. CASE kind \notin {"signal", "overflow"}
  <2>1. UNCHANGED todo
    BY <1>4 DEF FileEvent
  <2>2. ASSUME WithCall(s) PROVE Owed(s)'
    BY <1>1, <1>4, <2>1, <2>2 DEF WithCall, Owed
  <2>3. ASSUME WithLoop(s) PROVE Owed(s)'
    BY <1>1, <2>3, LoopStays
  <2>4. ASSUME NEW m \in Node, WithNode(m, s) PROVE Owed(s)'
    BY <1>1, <2>4, NodeStays
  <2>5. ASSUME NEW k \in Lease, WithLease(k, s) PROVE Owed(s)'
    BY <1>1, <2>5, LeaseStays
  <2> QED
    BY <1>2, <2>2, <2>3, <2>4, <2>5 DEF Owed
<1> QED
  BY <1>3, <1>4

-----------------------------------------------------------------------------
\* Steps of the watcher.

LEMMA ConnectOwes ==
  ASSUME Frame, Connect, NEW s, Stale(s)
  PROVE  Owed(s)'
<1> DEFINE n == loop.node
<1>1. /\ UNCHANGED <<node, file, lease, owned, await, stale, events>>
      /\ todo' = Add(todo, Owns(n), loop.gap)
      /\ client' = [client EXCEPT ![n] = TRUE] /\ queue' = [queue EXCEPT ![n] = Empty]
      /\ conn' = [conn EXCEPT ![n] = "active"]
      /\ loop.at = "dial" /\ node[n] = "up" /\ loop'.first = loop.first
  BY RestFacts DEF Connect, pubVars, Frame
<1>2. Owed(s) /\ n \in Node /\ conn[n] = "none" /\ ~client[n]
  BY <1>1 DEF Stale, Frame, Dialling, AtNode, Links
<1>3. CASE loop.gap \/ s \in Owns(n) \/ Covers(todo, s)
  BY <1>1, <1>3, CalledFor DEF Add, Covers
<1>4. CASE ~loop.gap /\ s \notin Owns(n) /\ ~Covers(todo, s)
  <2>1. ASSUME WithCall(s) PROVE Owed(s)'
    BY <1>1, <1>4, <2>1 DEF WithCall, Covers, Owed
  <2>2. ~WithLoop(s)
    BY <1>4 DEF WithLoop
  <2>3. ASSUME NEW m \in Node, WithNode(m, s) PROVE Owed(s)'
    <3>1. CASE m = loop.node
      <4>1. WithNode(m, s)'
        BY <1>1, <1>2, <2>3, <3>1 DEF WithNode
      <4> QED
        BY <4>1 DEF Owed
    <3>2. CASE m # loop.node
      BY <1>1, <1>2, <2>3, <3>2, NodeStays DEF Frame, Typed, TypedLink, TypedWatch
    <3> QED
      BY <3>1, <3>2
  <2>4. ASSUME NEW k \in Lease, WithLease(k, s) PROVE Owed(s)'
    <3>1. CASE lease[k].step = "owned" /\ lease[k].node = loop.node
      <4>1. owned[loop.node][s] = k /\ s \in Session
        BY <2>4, <3>1 DEF WithLease, Frame, Leases, InOrder
      <4>2. s \in Owns(loop.node)
        BY <4>1, NotifyAssumption DEF Owns
      <4> QED
        BY <1>4, <4>2
    <3>2. CASE lease[k].step = "owned" /\ lease[k].node # loop.node
      <4>1. lease[k].node \in Node
        BY <3>2 DEF Frame, Leases, InOrder
      <4>2. conn'[lease[k].node] = conn[lease[k].node]
        BY <1>1, <1>2, <3>2, <4>1 DEF Frame, Typed, TypedWatch
      <4> QED
        BY <1>1, <2>4, <4>2, LeaseStays
    <3>3. CASE lease[k].step # "owned"
      BY <1>1, <2>4, <3>3, LeaseStays
    <3> QED
      BY <3>1, <3>2, <3>3
  <2> QED
    BY <1>2, <2>1, <2>2, <2>3, <2>4 DEF Owed
<1> QED
  BY <1>3, <1>4

\* A step of the loop that touches no node and hears nothing.
LEMMA LoopOwes ==
  ASSUME Frame, UNCHANGED <<node, file, lease, client, queue, conn, await, todo, events>>,
         NEW s, Owed(s), WithLoop(s) => Owed(s)', loop.first => loop'.first
  PROVE  Owed(s)'
<1>1. ASSUME WithCall(s) PROVE Owed(s)'
  BY <1>1 DEF WithCall, Owed
<1>2. ASSUME NEW m \in Node, WithNode(m, s) PROVE Owed(s)'
  BY <1>2, NodeStays
<1>3. ASSUME NEW k \in Lease, WithLease(k, s) PROVE Owed(s)'
  BY <1>3, LeaseStays
<1> QED
  BY <1>1, <1>2, <1>3 DEF Owed

LEMMA NotConnectedOwes ==
  ASSUME Frame, NotConnected, NEW s, Stale(s)
  PROVE  Owed(s)'
<1>1. CASE ~loop.gap
  BY <1>1, RescanCalls DEF NotConnected
<1>2. CASE loop.gap
  <2>1. /\ UNCHANGED <<node, file, lease, client, queue, conn, await, todo, events, stale>>
        /\ loop.at = "dial" /\ node[loop.node] # "up"
    BY <1>2 DEF NotConnected, pubVars, linkVars
  <2>2. /\ loop'.at = "retry" /\ loop'.gap /\ loop'.node = loop.node
        /\ loop'.owned = loop.owned /\ loop'.first = loop.first
    BY LoopMoves DEF Stale, Listening, Frame
  <2>3. WithLoop(s) => Owed(s)'
    BY <2>1, <2>2 DEF WithLoop, AtNode, Owed
  <2> QED
    BY <2>1, <2>2, <2>3, LoopOwes DEF Stale
<1> QED
  BY <1>1, <1>2

LEMMA RetryOwes ==
  ASSUME Frame, Retry, NEW s, Stale(s)
  PROVE  Owed(s)'
<1>1. CASE file[loop.node] = "json" /\ Alive(loop.node)
  <2>1. UNCHANGED <<node, file, lease, client, queue, conn, await, todo, events, stale>>
    BY <1>1 DEF Retry, linkVars
  <2>2. /\ loop'.at = "dial" /\ loop'.gap = loop.gap /\ loop'.node = loop.node
        /\ loop'.owned = loop.owned /\ loop'.first = loop.first
    BY <1>1, LoopMoves DEF Frame
  <2>3. WithLoop(s) => Owed(s)'
    BY <2>1, <2>2 DEF WithLoop, AtNode, Owed
  <2> QED
    BY <2>1, <2>2, <2>3, LoopOwes DEF Stale
<1>2. CASE ~(file[loop.node] = "json" /\ Alive(loop.node))
  <2>1. PICK n \in Node : n = loop.node
    BY DEF Retry, Frame, Dialling, AtNode
  <2>2. /\ UNCHANGED <<node, lease, client, queue, conn, todo, stale>>
        /\ await' = [await EXCEPT ![n] = loop.owned] /\ Collected(n, "json") /\ loop.at = "retry"
    BY <1>2, <2>1 DEF Retry, linkVars
  <2>3. loop'.first = loop.first /\ events \subseteq events'
    BY <1>2, <2>2, RestFacts DEF Retry, Collected, Reported, Frame
  <2>4. Owed(s)
    BY <2>2 DEF Stale
  <2>5. CASE "signal" \in events'
    BY <2>5, CalledFor
  <2>6. CASE "signal" \notin events'
    <3>1. UNCHANGED file /\ ~(file[n] = "json" /\ Dead(n))
      BY <2>2, <2>6 DEF Collected, Reported
    <3>2. ASSUME WithCall(s) PROVE Owed(s)'
      BY <2>2, <2>3, <3>2, CallStays
    <3>3. ASSUME WithLoop(s) PROVE Owed(s)'
      <4>1. s \in loop.owned
        BY <1>2, <2>1, <3>3 DEF WithLoop, Frame, LiveKeepsFile, Alive
      <4>2. WithNode(n, s)'
        BY <2>2, <4>1 DEF WithNode, Frame, Typed, TypedWatch
      <4> QED
        BY <4>2 DEF Owed
    <3>4. ASSUME NEW m \in Node, WithNode(m, s) PROVE Owed(s)'
      <4>1. CASE m = n
        <5>1. await[n] = {}
          BY <2>1, <2>2 DEF Frame, Probing, AtNode
        <5>2. WithNode(n, s)'
          BY <2>2, <3>1, <3>4, <4>1, <5>1 DEF WithNode
        <5> QED
          BY <5>2 DEF Owed
      <4>2. CASE m # n
        BY <2>2, <3>1, <3>4, <4>2, NodeStays DEF Frame, Typed, TypedWatch
      <4> QED
        BY <4>1, <4>2
    <3>5. ASSUME NEW k \in Lease, WithLease(k, s) PROVE Owed(s)'
      BY <2>2, <3>5, LeaseStays
    <3> QED
      BY <2>4, <3>2, <3>3, <3>4, <3>5 DEF Owed
  <2> QED
    BY <2>5, <2>6
<1> QED
  BY <1>1, <1>2

LEMMA IdleOwes ==
  ASSUME Frame, Idle, NEW s, Stale(s)
  PROVE  Owed(s)'
<1>1. ~loop.first
  BY DEF Idle, Stale
<1>2. UNCHANGED <<node, file, lease, client, queue, conn, await, todo, events, stale>>
  BY <1>1 DEF Idle, pubVars, linkVars
<1>3. ~WithLoop(s)
  BY DEF Idle, WithLoop, AtNode
<1> QED
  BY <1>1, <1>2, <1>3, LoopOwes DEF Stale

LEMMA RefreshOwes ==
  ASSUME Frame, Refresh, NEW s, Stale(s)
  PROVE  Owed(s)'
<1>1. UNCHANGED <<node, file, lease, client, queue, conn, await, todo, events, stale>>
  BY DEF Refresh, pubVars, linkVars
<1>2. loop'.first = loop.first
  BY DiscoverFacts DEF Refresh, Frame, Typed, TypedWatch, LoopRecord
<1>3. ~WithLoop(s)
  BY DEF Refresh, WithLoop, AtNode
<1> QED
  BY <1>1, <1>2, <1>3, LoopOwes DEF Stale

LEMMA NamedOwes ==
  ASSUME Frame, NEW n \in Node, NEW kind, PassOver(n, kind) \/ FindLive(n, kind),
         NEW s, Stale(s)
  PROVE  Owed(s)'
<1>1. UNCHANGED <<node, file, lease, client, queue, conn, await, todo, events, stale>>
  BY DEF PassOver, FindLive, pubVars, linkVars
<1>2. loop'.first = loop.first /\ loop.at = "scan"
  BY LoopMoves DEF Frame
<1>3. ~WithLoop(s)
  BY <1>2 DEF WithLoop, AtNode
<1> QED
  BY <1>1, <1>2, <1>3, LoopOwes DEF Stale

LEMMA ProbeOwes ==
  ASSUME Frame, NEW n \in Node, Probe(n), NEW s, Stale(s)
  PROVE  Owed(s)'
<1>1. /\ UNCHANGED <<node, file, lease, client, queue, loop, conn, stale, events>>
      /\ todo' = Add(todo, await[n], FALSE)
      /\ await' = [await EXCEPT ![n] = StillHeld(n)]
  BY DEF Probe, pubVars, linkVars
<1>2. Owed(s)
  BY <1>1 DEF Stale
<1>3. CASE s \in await[n] \/ Covers(todo, s)
  BY <1>1, <1>3, CalledFor DEF Add, Covers
<1>4. CASE s \notin await[n] /\ ~Covers(todo, s)
  <2>1. ASSUME WithCall(s) PROVE Owed(s)'
    BY <1>1, <1>4, <2>1 DEF WithCall, Covers, Owed
  <2>2. ASSUME WithLoop(s) PROVE Owed(s)'
    BY <1>1, <2>2, LoopStays
  <2>3. ASSUME NEW m \in Node, WithNode(m, s) PROVE Owed(s)'
    <3>1. CASE m = n
      <4>1. WithNode(m, s)'
        BY <1>1, <1>4, <2>3, <3>1 DEF WithNode
      <4> QED
        BY <4>1 DEF Owed
    <3>2. CASE m # n
      BY <1>1, <2>3, <3>2, NodeStays DEF Frame, Typed, TypedWatch
    <3> QED
      BY <3>1, <3>2
  <2>4. ASSUME NEW k \in Lease, WithLease(k, s) PROVE Owed(s)'
    BY <1>1, <2>4, LeaseStays
  <2> QED
    BY <1>2, <2>1, <2>2, <2>3, <2>4 DEF Owed
<1> QED
  BY <1>3, <1>4

\* What the callback reads is no longer stale.
LEMMA CallOwes ==
  ASSUME Frame, Call, NEW s, Stale(s)
  PROVE  Owed(s)'
<1>1. /\ UNCHANGED <<node, file, lease, client, queue, loop, conn, await, events>>
      /\ ~loop.first /\ stale' \subseteq stale /\ ~todo.rescan /\ s \notin todo.ids
  BY DEF Call, Stale, pubVars, linkVars, hearVars
<1>2. Owed(s)
  BY <1>1 DEF Stale
<1>3. ASSUME WithCall(s) PROVE Owed(s)'
  BY <1>1, <1>3 DEF WithCall, Owed
<1>4. ASSUME WithLoop(s) PROVE Owed(s)'
  BY <1>1, <1>4, LoopStays
<1>5. ASSUME NEW m \in Node, WithNode(m, s) PROVE Owed(s)'
  BY <1>1, <1>5, NodeStays
<1>6. ASSUME NEW k \in Lease, WithLease(k, s) PROVE Owed(s)'
  BY <1>1, <1>6, LeaseStays
<1> QED
  BY <1>2, <1>3, <1>4, <1>5, <1>6 DEF Owed

\* A lease that is gone stays gone, so a witness now was one before.
LEMMA GoneStaysGone ==
  ASSUME Typed, Leases, [Next]_vars, NEW k \in Lease, lease[k].step = "gone"
  PROVE  lease'[k] = lease[k]
<1>1. ASSUME NEW l \in Lease, NEW n \in Node, NEW s \in Session, Begin(l, n, s)
      PROVE  lease'[k] = lease[k]
  BY <1>1 DEF Begin, Typed, TypedHome
<1>2. ASSUME NEW l \in Lease,
             Own(l) \/ AppendRecord(l) \/ Delete(l) \/ Change(l) \/ CloseJournal(l) \/ Free(l)
      PROVE  lease'[k] = lease[k]
  BY <1>2 DEF Own, AppendRecord, Delete, Write, Change, CloseJournal, Free, To, Typed, TypedHome
<1>3. ASSUME NEW l \in Lease, Locked(l) \/ Release(l)
      PROVE  lease'[k] = lease[k]
  BY <1>3 DEF Locked, Release, Left, Typed, TypedHome
<1>4. ASSUME NEW n \in Node, Register(n) PROVE lease'[k] = lease[k]
  BY <1>4 DEF Register, Leases, InOrder
<1>5. ASSUME NEW n \in Node, Publisher(n), ~Register(n) PROVE lease'[k] = lease[k]
  BY <1>5 DEF Publisher, Unregister, Crash, Serve, Drop, pubVars
<1>6. CASE Loop
  BY <1>6 DEF Loop, Connect, NotConnected, Retry, Idle, Refresh, Lost, PassOver, FindLive,
              FindDead, pubVars
<1>7. ASSUME NEW m \in Node, Disconnect(m) \/ Probe(m) \/ ProbeFails(m)
      PROVE  lease'[k] = lease[k]
  BY <1>7 DEF Disconnect, Probe, ProbeFails, pubVars
<1>8. CASE Overflow \/ Call \/ \E kind \in {"signal", "registration", "overflow"} : FileEvent(kind)
  BY <1>8 DEF Overflow, Call, FileEvent, pubVars
<1>9. CASE UNCHANGED vars
  BY <1>9 DEF vars, pubVars
<1> QED
  BY <1>1, <1>2, <1>3, <1>4, <1>5, <1>6, <1>7, <1>8, <1>9 DEF Next, Work, Publisher

\* The loop does not recover from a failure.
LEMMA FailureIsFinal ==
  ASSUME Typed, [Next]_vars, ~Listening
  PROVE  ~Listening'
<1>1. ASSUME NEW l \in Lease, Work(l) PROVE UNCHANGED loop
  BY <1>1 DEF Work, Begin, Own, Locked, AppendRecord, Delete, Write, Change, CloseJournal,
              Release, Free, hearVars
<1>2. ASSUME NEW m \in Node, Publisher(m) PROVE UNCHANGED loop
  BY <1>2 DEF Publisher, Register, Unregister, Crash, Serve, Drop, hearVars
<1>3. ~Loop
  BY DEF Listening, Loop, Connect, NotConnected, Retry, Idle, Refresh, Lost, PassOver, FindLive,
         FindDead, Named
<1>4. ASSUME NEW m \in Node PROVE ~Disconnect(m) /\ ~Probe(m) /\ ~ProbeFails(m)
  BY DEF Disconnect, Probe, ProbeFails, Listening
<1>5. ASSUME Overflow \/ Call \/ \E kind \in {"signal", "registration", "overflow"} : FileEvent(kind)
      PROVE  UNCHANGED loop
  BY <1>5 DEF Overflow, Call, FileEvent, hearVars
<1>6. ASSUME UNCHANGED vars PROVE UNCHANGED loop
  BY <1>6 DEF vars, hearVars
<1> QED
  BY <1>1, <1>2, <1>3, <1>4, <1>5, <1>6 DEF Next, Listening

\* What is stale is owed, whatever step is taken.
LEMMA StepOwes ==
  ASSUME Frame, NEW s, Stale(s), [Next]_vars
  PROVE  Owed(s)'
<1>1. ASSUME NEW l \in Lease, NEW n \in Node, NEW t \in Session, Begin(l, n, t) PROVE Owed(s)'
  BY <1>1, BeginOwes
<1>2. ASSUME NEW l \in Lease, Own(l) PROVE Owed(s)'
  BY <1>2, OwnOwes
<1>3. ASSUME NEW l \in Lease, Locked(l) PROVE Owed(s)'
  BY <1>3, LockedOwes
<1>4. ASSUME NEW l \in Lease, AppendRecord(l) PROVE Owed(s)'
  BY <1>4, WriteOwes
<1>5. ASSUME NEW l \in Lease, Delete(l) PROVE Owed(s)'
  BY <1>5, WriteOwes
<1>6. ASSUME NEW l \in Lease, Change(l) PROVE Owed(s)'
  BY <1>6, ChangeOwes
<1>7. ASSUME NEW l \in Lease, CloseJournal(l) PROVE Owed(s)'
  BY <1>7, WriteOwes
<1>8. ASSUME NEW l \in Lease, Release(l) PROVE Owed(s)'
  BY <1>8, ReleaseOwes
<1>9. ASSUME NEW l \in Lease, Free(l) PROVE Owed(s)'
  BY <1>9, FreeOwes
<1>10. ASSUME NEW n \in Node, Register(n) PROVE Owed(s)'
  BY <1>10, RegisterOwes
<1>11. ASSUME NEW n \in Node, Unregister(n) PROVE Owed(s)'
  BY <1>11, UnregisterOwes
<1>12. ASSUME NEW n \in Node, Crash(n) PROVE Owed(s)'
  BY <1>12, CrashOwes
<1>13. ASSUME NEW n \in Node, Serve(n) PROVE Owed(s)'
  BY <1>13, ServeOwes
<1>14. ASSUME NEW n \in Node, Drop(n) PROVE Owed(s)'
  BY <1>14, BrokenOwes
<1>15. ASSUME NEW n \in Node, Disconnect(n) PROVE Owed(s)'
  BY <1>15, BrokenOwes
<1>16. ASSUME NEW n \in Node, Probe(n) PROVE Owed(s)'
  BY <1>16, ProbeOwes
<1>17. ASSUME NEW n \in Node, ProbeFails(n) PROVE Owed(s)'
  BY <1>17, LoopMoves DEF Frame, Stale, Listening
<1>18. ASSUME NEW n \in Node, Lost(n) PROVE Owed(s)'
  BY <1>18, RescanCalls DEF Lost
<1>19. ASSUME NEW n \in Node, NEW kind \in {"tmp", "json"}, PassOver(n, kind) PROVE Owed(s)'
  BY <1>19, NamedOwes
<1>20. ASSUME NEW n \in Node, NEW kind \in {"tmp", "json"}, FindLive(n, kind) PROVE Owed(s)'
  BY <1>20, NamedOwes
<1>21. ASSUME NEW n \in Node, NEW kind \in {"tmp", "json"}, FindDead(n, kind) PROVE Owed(s)'
  BY <1>21, RescanCalls DEF FindDead
<1>22. CASE Overflow
  BY <1>22, CalledFor DEF Overflow
<1>23. CASE Connect
  BY <1>23, ConnectOwes
<1>24. CASE NotConnected
  BY <1>24, NotConnectedOwes
<1>25. CASE Retry
  BY <1>25, RetryOwes
<1>26. CASE Idle
  BY <1>26, IdleOwes
<1>27. CASE Refresh
  BY <1>27, RefreshOwes
<1>28. CASE Call
  BY <1>28, CallOwes
<1>29. ASSUME NEW kind \in {"signal", "registration", "overflow"}, FileEvent(kind) PROVE Owed(s)'
  BY <1>29, FileEventOwes
<1>30. CASE UNCHANGED vars
  <2>1. UNCHANGED <<node, file, lease, client, queue, loop, conn, await, todo, events, stale>>
    BY <1>30 DEF vars, pubVars, linkVars, hearVars
  <2>2. WithLoop(s) => Owed(s)'
    BY <2>1, LoopStays
  <2> QED
    BY <2>1, <2>2, LoopOwes DEF Stale
<1> QED
  BY <1>1, <1>2, <1>3, <1>4, <1>5, <1>6, <1>7, <1>8, <1>9, <1>10, <1>11, <1>12, <1>13,
     <1>14, <1>15, <1>16, <1>17, <1>18, <1>19, <1>20, <1>21, <1>22, <1>23, <1>24, <1>25,
     <1>26, <1>27, <1>28, <1>29, <1>30
     DEF Next, Work, Publisher, Loop


LEMMA StepAnnounced ==
  ASSUME Consistent, [Next]_vars
  PROVE  Announced'
<1> SUFFICES ASSUME NEW s \in stale', Listening', Witnessed(s)' PROVE Owed(s)'
  BY DEF Announced
<1>1. Frame /\ Typed'
  BY StepTyped DEF Consistent, Frame
<1>2. s \in Session
  BY <1>1 DEF Typed, TypedWatch
<1>3. Listening
  BY <1>1, FailureIsFinal DEF Frame
<1>4. Witnessed(s)
  BY <1>1, GoneStaysGone DEF Witnessed, Frame
<1>5. s \in stale => Owed(s)
  BY <1>3, <1>4 DEF Consistent, Announced
<1> QED
  BY <1>1, <1>2, <1>5, StepOwes DEF Stale

-----------------------------------------------------------------------------
(* The theorems.                                                           *)

LEMMA InitConsistent == Init => Consistent
<1> SUFFICES ASSUME Init PROVE Consistent
  OBVIOUS
<1>1. Typed
  BY InitTyped
<1>2. LiveKeepsFile /\ Links /\ Probing
  BY DEF Init, LiveKeepsFile, Links, Probing, AtNode
<1>3. Leases
  BY DEF Init, Leases, InOrder
<1>4. Dialling /\ Announced
  BY DEF Init, Dialling, AtNode, Announced
<1>5. Found
  BY DEF Init, Found
<1> QED
  BY <1>1, <1>2, <1>3, <1>4, <1>5 DEF Consistent

\* For each step of an operation, of a node and of the watcher: where the
\* locks, the registrations, the connections and the news are.
THEOREM SpecConsistent == Spec => []Consistent
<1>1. Consistent /\ [Next]_vars => Consistent'
  BY StepTyped, StepKeepsFile, StepKeepsOrder, StepLinks, StepDialling, StepProbing, StepFound,
     StepAnnounced DEF Consistent
<1> QED
  BY <1>1, InitConsistent, PTL DEF Spec

\* Nobody collects the registration of a node that lives, and no queue holds
\* more names than it may, however processes come, go and die (collectRegistry,
\* pendingChanges).
THEOREM SpecRegistrationsKept == Spec => []RegistrationsKept
<1>1. Consistent => RegistrationsKept
  <2> SUFFICES ASSUME Consistent PROVE TypeOK
    BY DEF Consistent, RegistrationsKept
  <2>1. TypedHome /\ TypedLink /\ TypedWatch
    BY DEF Consistent, Typed
  <2>2. \A l \in Lease : lease[l].step \in Step
    BY <2>1 DEF TypedHome, LeaseRecord
  <2>3. /\ queue \in [Node -> Queue] /\ todo \in Queue
        /\ \A q \in {queue[n] : n \in Node} \cup {todo} : Cardinality(q.ids) <= MaxPending
    BY <2>1 DEF TypedLink, TypedWatch, Pending
  <2>4. loop.at \in {"scan", "dial", "retry", "idle", "failed"}
    BY <2>1 DEF TypedWatch, LoopRecord
  <2> QED
    BY <2>1, <2>2, <2>3, <2>4 DEF TypeOK, TypedHome, TypedLink, TypedWatch, NodeStates, FileStates
<1> QED
  BY <1>1, SpecConsistent, PTL

\* A session that the callback has not read since it changed is one the callback
\* will be called with: no overflow, broken stream or death between its owner
\* and the watcher loses that, unless the owner went before the watcher knew it.
THEOREM SpecChangeIsAnnounced == Spec => []ChangeIsAnnounced
<1>1. Consistent => ChangeIsAnnounced
  <2> SUFFICES ASSUME Consistent, NEW s \in stale, Listening, Witnessed(s) PROVE Coming(s)
    BY DEF ChangeIsAnnounced
  <2>1. Owed(s) /\ Typed /\ Found /\ Links /\ Leases /\ Dialling /\ LiveKeepsFile
    BY DEF Consistent, Announced
  <2>2. ASSUME NEW n \in Node, file[n] = "json", conn[n] = "none" PROVE ToBeFound(n)
    BY <2>1, <2>2 DEF Found, Sought, ToBeFound, AtNode
  <2>3. CASE WithCall(s)
    BY <2>3 DEF WithCall, Coming
  <2>4. CASE WithLoop(s)
    BY <2>4 DEF WithLoop, AtNode, Coming
  <2>5. ASSUME NEW n \in Node, WithNode(n, s) PROVE Coming(s)
    <3>1. CASE node[n] = "dead" /\ file[n] = "json"
      <4>1. ~client[n]
        BY <2>1, <3>1 DEF Links
      <4>2. CASE conn[n] # "none"
        BY <4>1, <4>2 DEF Coming
      <4>3. CASE conn[n] = "none"
        BY <2>2, <3>1, <4>3 DEF Coming
      <4> QED
        BY <4>2, <4>3
    <3>2. CASE ~(node[n] = "dead" /\ file[n] = "json")
      BY <2>5, <3>2 DEF WithNode, Coming
    <3> QED
      BY <3>1, <3>2
  <2>6. ASSUME NEW l \in Lease, WithLease(l, s) PROVE Coming(s)
    <3>1. CASE lease[l].step = "owned"
      <4>1. lease[l].node \in Node /\ file[lease[l].node] = "json"
        BY <2>1, <3>1 DEF Leases, InOrder, LiveKeepsFile
      <4>2. ToBeFound(lease[l].node)
        BY <2>2, <2>6, <3>1, <4>1 DEF WithLease
      <4> QED
        BY <2>6, <3>1, <4>2 DEF WithLease, Coming
    <3>2. CASE lease[l].step # "owned"
      BY <2>6, <3>2 DEF WithLease, Coming
    <3> QED
      BY <3>1, <3>2
  <2> QED
    BY <2>1, <2>3, <2>4, <2>5, <2>6 DEF Owed
<1> QED
  BY <1>1, SpecConsistent, PTL

=============================================================================
