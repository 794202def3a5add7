----------------------------- MODULE ChildProofs -----------------------------
(***************************************************************************)
(* What the supervisor of child agents owes to the parent session, for     *)
(* every number of children, runs and restarts.  The invariant says what   *)
(* a loaded child looks like, in memory and on disk, for each step of the  *)
(* parent's thread.                                                        *)
(***************************************************************************)
EXTENDS ChildProperties, FiniteSetTheorems, SequenceTheorems, TLAPS

-----------------------------------------------------------------------------
(* The invariant.                                                          *)

RunRecord == [id : 0..MaxRuns, status : {"running", "finished"}, delivered : BOOLEAN]
ChildRecord == [runs : Seq(RunRecord), stopped : BOOLEAN, work : Works,
                cancelled : BOOLEAN, broken : BOOLEAN, notify : BOOLEAN]

\* What the parent's thread may be about to do.
Calls ==
    {Outside, Ready}
    \union [step : {"launch"}, child : Child, fresh : BOOLEAN,
            started : {"none", "begun", "failed"}]
    \union [step : {"publish", "discard", "stopped"}, child : Child]
    \union [step : {"look", "wait"}, asked : SUBSET Child, mode : Modes, woken : BOOLEAN]
    \union [step : {"stop"}, child : Child, was : BOOLEAN]
    \union [step : {"reply"}, tells : SUBSET RunOf, settles : SUBSET RunOf]
    \union [step : {"acknowledge"}, tells : SUBSET RunOf]
    \union [step : {"tell", "commit"}, events : Seq(RunOf) \ {<<>>}]

Typed ==
    /\ store \in [Child -> [dir : Directories, halted : BOOLEAN, journal : Seq(RunStates)]]
    /\ child \in [Child -> ChildRecord]
    /\ group \in SUBSET Child
    /\ told \in SUBSET RunOf /\ settled \in SUBSET told /\ announced \in Seq(RunOf)
    /\ session \in {"open", "closing", "leaving", "away", "down"}
    /\ restarts \in 0..MaxRestarts
    /\ call \in Calls
    /\ interrupted \in BOOLEAN

Launching(c) == call.step = "launch" /\ call.child = c

\* A run that has no record yet.
Unborn(c) == Launching(c) /\ call.started # "begun"

\* The child that is being made.
New(c) ==
    /\ call.step \in {"launch", "publish", "discard"} /\ call.child = c
    /\ call.step = "launch" => call.fresh

\* It is in memory.
Loaded(c) == session \notin {"away", "down"} /\ (c \in Published \/ New(c))

\* Where the parent's thread can be, and what that says of the children it names.
Placed ==
    /\ session # "open" => call = Outside
    /\ group = IF session = "open" THEN Published ELSE {}
    /\ \A c \in Child : New(c) => store[c].dir = "staging" /\ ~store[c].halted
    /\ \A c \in Child : Launching(c) =>
         /\ ~store[c].halted
         /\ ~call.fresh => c \in group
    /\ call.step \in {"look", "wait"} => call.asked \subseteq group
    /\ call.step \in {"stop", "stopped"} => call.child \in group
    /\ call.step = "stop" =>
         child[call.child].stopped /\ call.was = store[call.child].halted
    /\ \A c \in Child : child[c].work = "starting" => Launching(c) /\ call.started = "none"

\* A child that is not in memory.
Vacant(c) ==
    /\ child[c].runs = <<>> /\ child[c].work = "none"
    /\ ~child[c].stopped /\ ~child[c].broken /\ ~child[c].cancelled

Begun(c) == IF Unborn(c) THEN Len(child[c].runs) - 1 ELSE Len(child[c].runs)

\* The runs of a child in memory are those of its journal, in their order.
Matching(c) ==
    /\ Len(child[c].runs) <= MaxRuns
    /\ child[c].work # "none" => child[c].runs # <<>>
    /\ Unborn(c) => /\ child[c].runs # <<>> /\ Last(child[c].runs) = NewRun
                    /\ child[c].work \in {"none", "starting"}
    /\ \A k \in 1..Begun(c) : child[c].runs[k].id = k
    /\ Begun(c) <= Len(store[c].journal)
    /\ ~child[c].broken => Len(store[c].journal) = Begun(c)
    /\ Len(store[c].journal) <= MaxRuns

\* Only its last run is under way.
Current(c) ==
    /\ \A k \in 1..Begun(c) : child[c].runs[k].status = "running" =>
         child[c].work \in {"running", "ended"} /\ k = Len(child[c].runs)
    /\ \A i \in DOMAIN store[c].journal : store[c].journal[i] = "open" =>
         child[c].broken \/ (child[c].work = "running" /\ i = Len(store[c].journal))

\* It is stopped when its directory says so, or is about to.
Stopped(c) ==
    /\ store[c].halted => child[c].stopped
    /\ child[c].stopped =>
         store[c].halted \/ (call.step = "stop" /\ call.child = c)

Fine(c) ==
    /\ store[c].dir = "none" => store[c] = Absent
    /\ Len(store[c].journal) <= MaxRuns
    /\ Loaded(c) => Matching(c) /\ Current(c) /\ Stopped(c)
    /\ ~Loaded(c) => Vacant(c)

Children == \A c \in Child : Fine(c)

\* What the parent's journal tells, or may come to tell.
Tellable == {run \in RunOf : run[1] \in Published /\ run[2] <= Len(store[run[1]].journal)}
Tales == told \union Range(announced)

\* The parent's journal and what is on its way there.
Mailed ==
    /\ Tales \subseteq Tellable
    /\ \A run \in told \ settled : store[run[1]].halted
    /\ call.step = "reply" =>
         /\ call.tells \subseteq Tellable /\ call.settles \subseteq call.tells
         /\ \A run \in call.tells \ call.settles : store[run[1]].halted
    /\ call.step = "acknowledge" => call.tells \subseteq told
    /\ call.step \in {"tell", "commit"} =>
         /\ Range(call.events) \subseteq Tellable \ told
         /\ IsInjective(call.events)
    /\ call.step = "commit" => Head(call.events) \in Range(announced)

\* The mailbox: what was delivered is told, and during a run of the parent what is told was
\* delivered, or is about to be.
Delivering(run) ==
    \/ call.step = "acknowledge" /\ run \in call.tells
    \/ call.step = "commit" /\ run = Head(call.events)

Slot(c, k) ==
    LET run == <<c, child[c].runs[k].id>> IN
    /\ child[c].runs[k].delivered => run \in Tales
    /\ session = "open" /\ call # Outside /\ c \in group /\ run \in Tales =>
         child[c].runs[k].delivered \/ Delivering(run)

Mailbox == \A c \in Child : \A k \in DOMAIN child[c].runs : Slot(c, k)

Consistent ==
    Typed /\ Placed /\ Children /\ ActiveLimit /\ Mailed /\ Mailbox

-----------------------------------------------------------------------------
(* Types.                                                                  *)

LEMMA InitTyped == Init => Typed
<1> SUFFICES ASSUME Init PROVE Typed
  OBVIOUS
<1>1. Absent \in [dir : Directories, halted : BOOLEAN, journal : Seq(RunStates)]
  BY DEF Absent, Directories
<1>2. Unloaded \in ChildRecord
  BY DEF Unloaded, ChildRecord, Works
<1>3. announced \in Seq(RunOf)
  BY DEF Init
<1>4. restarts \in 0..MaxRestarts
  BY ChildAssumption DEF Init
<1> QED
  BY <1>1, <1>2, <1>3, <1>4 DEF Init, Typed, Calls

\* One child changes.
LEMMA OneChild ==
  ASSUME child \in [Child -> ChildRecord], NEW c \in Child, NEW r \in ChildRecord,
         child' = [child EXCEPT ![c] = r]
  PROVE  child' \in [Child -> ChildRecord]
OBVIOUS

\* Marking runs changes nothing else.
LEMMA MarkedRuns ==
  ASSUME Typed, NEW R
  PROVE  /\ Marked(R) \in [Child -> ChildRecord]
         /\ \A c \in Child :
              /\ Marked(R)[c] = [child[c] EXCEPT !.runs = Marked(R)[c].runs]
              /\ Len(Marked(R)[c].runs) = Len(child[c].runs)
              /\ DOMAIN Marked(R)[c].runs = DOMAIN child[c].runs
<1> DEFINE Mark(c) == [i \in DOMAIN child[c].runs |->
             IF c \in group /\ <<c, child[c].runs[i].id>> \in R
             THEN [child[c].runs[i] EXCEPT !.delivered = TRUE] ELSE child[c].runs[i]]
<1>1. ASSUME NEW c \in Child
      PROVE  /\ Mark(c) \in Seq(RunRecord) /\ Len(Mark(c)) = Len(child[c].runs)
             /\ DOMAIN Mark(c) = DOMAIN child[c].runs
  <2>1. child[c].runs \in Seq(RunRecord)
    BY DEF Typed, ChildRecord
  <2>2. \A k \in DOMAIN child[c].runs :
          /\ child[c].runs[k] \in RunRecord
          /\ [child[c].runs[k] EXCEPT !.delivered = TRUE] \in RunRecord
    <3>1. \A k \in DOMAIN child[c].runs : child[c].runs[k] \in RunRecord
      BY <2>1
    <3>2. \A r \in RunRecord : [r EXCEPT !.delivered = TRUE] \in RunRecord
      BY DEF RunRecord
    <3> QED
      BY <3>1, <3>2
  <2>3. Len(child[c].runs) \in Nat /\ DOMAIN child[c].runs = 1..Len(child[c].runs)
    BY <2>1
  <2>4. Mark(c) \in [1..Len(child[c].runs) -> RunRecord]
    BY <2>2, <2>3
  <2> HIDE DEF Mark
  <2> QED
    BY <2>3, <2>4
<1>2. Marked(R) = [c \in Child |-> [child[c] EXCEPT !.runs = Mark(c)]]
  BY DEF Marked
<1> HIDE DEF Mark
<1>3. ASSUME NEW c \in Child
      PROVE  Marked(R)[c] = [child[c] EXCEPT !.runs = Mark(c)] /\ Marked(R)[c].runs = Mark(c)
             /\ Marked(R)[c] \in ChildRecord
  <2>1. child[c] \in ChildRecord /\ Mark(c) \in Seq(RunRecord)
    BY <1>1 DEF Typed
  <2>2. Marked(R)[c] = [child[c] EXCEPT !.runs = Mark(c)]
    BY <1>2
  <2> QED
    BY <2>1, <2>2 DEF ChildRecord
<1> QED
  BY <1>1, <1>2, <1>3

\* A run that is marked is delivered, and otherwise what it was.
LEMMA MarkedRun ==
  ASSUME Typed, NEW R, NEW c \in Child, NEW k \in DOMAIN child[c].runs
  PROVE  /\ Marked(R)[c].runs[k].id = child[c].runs[k].id
         /\ Marked(R)[c].runs[k].status = child[c].runs[k].status
         /\ Marked(R)[c].runs[k].delivered <=>
              \/ child[c].runs[k].delivered
              \/ c \in group /\ <<c, child[c].runs[k].id>> \in R
<1> DEFINE marked == c \in group /\ <<c, child[c].runs[k].id>> \in R
           s == [i \in DOMAIN child[c].runs |->
                   IF c \in group /\ <<c, child[c].runs[i].id>> \in R
                   THEN [child[c].runs[i] EXCEPT !.delivered = TRUE] ELSE child[c].runs[i]]
<1>1. child[c] \in ChildRecord /\ child[c].runs[k] \in RunRecord
  BY DEF Typed, ChildRecord
<1>2. s[k] = IF marked THEN [child[c].runs[k] EXCEPT !.delivered = TRUE] ELSE child[c].runs[k]
  OBVIOUS
<1>3. Marked(R)[c] = [child[c] EXCEPT !.runs = s]
  BY DEF Marked
<1> HIDE DEF s
<1>4. Marked(R)[c].runs = s
  BY <1>1, <1>3 DEF ChildRecord
<1>5. Marked(R)[c].runs[k] =
        IF marked THEN [child[c].runs[k] EXCEPT !.delivered = TRUE] ELSE child[c].runs[k]
  BY <1>2, <1>4
<1> HIDE DEF marked
<1>6. CASE marked
  BY <1>1, <1>5, <1>6 DEF RunRecord, marked
<1>7. CASE ~marked
  BY <1>5, <1>7 DEF marked
<1> QED
  BY <1>6, <1>7

\* A result tells of runs that a child in memory has.
LEMMA ToldRuns ==
  ASSUME Typed, NEW S \in SUBSET Child
  PROVE  /\ Told(S) \in SUBSET RunOf /\ Settled(S) \in SUBSET Told(S)
         /\ \A run \in Told(S) :
              LET c == run[1] IN
              /\ c \in S /\ State(c) # "running"
              /\ Len(child[c].runs) \in DOMAIN child[c].runs
              /\ run = <<c, child[c].runs[Len(child[c].runs)].id>> /\ run[2] # 0
              /\ run \in Settled(S) <=> child[c].runs[Len(child[c].runs)].status # "running"
<1>1. ASSUME NEW c \in Child
      PROVE  /\ child[c].runs \in Seq(RunRecord)
             /\ child[c].runs # <<>> =>
                  /\ Len(child[c].runs) \in DOMAIN child[c].runs
                  /\ LastRun(c) = child[c].runs[Len(child[c].runs)]
                  /\ LastRun(c) \in RunRecord
             /\ child[c].runs = <<>> => LastRun(c).id = 0
  <2>1. child[c].runs \in Seq(RunRecord)
    BY DEF Typed, ChildRecord
  <2>2. CASE child[c].runs # <<>>
    <3>1. Len(child[c].runs) \in DOMAIN child[c].runs
      BY <2>1, <2>2
    <3>2. QED
      BY <2>1, <2>2, <3>1 DEF LastRun, Last
  <2>3. CASE child[c].runs = <<>>
    BY <2>1, <2>3 DEF LastRun, NewRun
  <2> QED
    BY <2>1, <2>2, <2>3
<1>2. ASSUME NEW run \in Told(S)
      PROVE  LET c == run[1] IN
              /\ run \in RunOf
              /\ c \in S /\ State(c) # "running"
              /\ Len(child[c].runs) \in DOMAIN child[c].runs
              /\ run = <<c, child[c].runs[Len(child[c].runs)].id>> /\ run[2] # 0
              /\ run \in Settled(S) <=> child[c].runs[Len(child[c].runs)].status # "running"
  <2>1. PICK c \in S : run = <<c, LastRun(c).id>> /\ State(c) # "running" /\ LastRun(c).id # 0
    BY DEF Told
  <2>2. /\ child[c].runs # <<>> /\ LastRun(c) \in RunRecord
        /\ Len(child[c].runs) \in DOMAIN child[c].runs
        /\ LastRun(c) = child[c].runs[Len(child[c].runs)]
    BY <1>1, <2>1
  <2>3. LastRun(c).id \in 1..MaxRuns
    BY <2>1, <2>2, ChildAssumption DEF RunRecord
  <2>4. run[1] = c /\ run[2] = LastRun(c).id /\ run \in RunOf
    BY <2>1, <2>3 DEF RunOf
  <2>5. run \in Settled(S) <=> LastRun(c).status # "running"
    BY <2>4 DEF Settled
  <2> QED
    BY <2>1, <2>2, <2>4, <2>5
<1> QED
  BY <1>2 DEF Settled

\* What may be announced.
LEMMA PendingRuns ==
  ASSUME Typed
  PROVE  /\ Pending \in SUBSET RunOf
         /\ \A run \in Pending : \E c \in group : \E k \in DOMAIN child[c].runs :
              run = <<c, child[c].runs[k].id>> /\ ~child[c].runs[k].delivered
<1> SUFFICES ASSUME NEW run \in Pending
             PROVE  /\ run \in RunOf
                    /\ \E c \in group : \E k \in DOMAIN child[c].runs :
                         run = <<c, child[c].runs[k].id>> /\ ~child[c].runs[k].delivered
  OBVIOUS
<1>1. PICK c \in group : \E k \in DOMAIN child[c].runs :
        /\ run = <<c, child[c].runs[k].id>> /\ child[c].runs[k].id # 0
        /\ ~child[c].runs[k].delivered
  BY DEF Pending
<1> PICK k \in DOMAIN child[c].runs :
        /\ run = <<c, child[c].runs[k].id>> /\ child[c].runs[k].id # 0
        /\ ~child[c].runs[k].delivered
  BY <1>1
<1>2. child[c].runs[k].id \in 0..MaxRuns /\ c \in Child
  <2>1. c \in Child
    BY DEF Typed
  <2>2. child[c].runs \in Seq(RunRecord)
    BY <2>1 DEF Typed, ChildRecord
  <2>3. child[c].runs[k] \in RunRecord
    BY <2>2
  <2> QED
    BY <2>1, <2>3 DEF RunRecord
<1>3. run \in RunOf
  BY <1>1, <1>2, ChildAssumption DEF RunOf
<1> QED
  BY <1>1, <1>3

\* Sequences of pending events.
LEMMA PendingOrders ==
  ASSUME Typed, Pending # {}, NEW order \in SetToSeqs(Pending)
  PROVE  /\ order \in Seq(RunOf) \ {<<>>}
         /\ Range(order) \subseteq Pending /\ IsInjective(order)
<1>1. /\ order \in [1..Cardinality(Pending) -> Pending]
      /\ \A i, j \in 1..Cardinality(Pending) : i # j => order[i] # order[j]
  BY DEF SetToSeqs
<1>2. IsFiniteSet(Pending)
  <2>1. IsFiniteSet(RunOf)
    <3>1. IsFiniteSet(1..MaxRuns)
      BY ChildAssumption, FS_Interval
    <3> QED
      BY <3>1, ChildAssumption, FS_Product DEF RunOf
  <2> QED
    BY <2>1, PendingRuns, FS_Subset
<1>3. Cardinality(Pending) \in Nat /\ Cardinality(Pending) # 0
  BY <1>2, FS_CardinalityType, FS_EmptySet
<1>4. order \in Seq(Pending) /\ order # <<>>
  BY <1>1, <1>3
<1>5. order \in Seq(RunOf)
  BY <1>4, PendingRuns, SeqMonotonic
<1> QED
  BY <1>1, <1>4, <1>5 DEF Range, IsInjective

-----------------------------------------------------------------------------
(* What the steps do, group by group.                                      *)

\* The parent's thread goes on and touches nothing.
Turn ==
    \/ EndRun \/ Interrupt \/ Launched \/ Look \/ Wake \/ GiveUp \/ StopDone
    \/ ReplyDropped \/ Boundary \/ TellAborted
    \/ \E S \in SUBSET group \ {{}}, mode \in Modes : Check(S, mode)

\* It marks runs as delivered.
MarkStep == StartRun \/ Acknowledge \/ TellCommitted

\* The session comes and goes.
Life == Left \/ Load \/ LoadFails \/ Crash \/ \E how \in {"closing", "leaving"} : Leave(how)

\* One child changes.
Change(c) ==
    \/ Goroutine(c)
    \/ Start(c) \/ Send(c) \/ Stop(c)
    \/ (call.step \in {"launch", "publish", "discard", "stop"} /\ call.child = c
        /\ (LaunchFailed \/ Publish \/ PublishFails \/ Discard \/ StopWritten \/ StopNotWritten))

LEMMA NextCases ==
  ASSUME [Next]_vars, Typed
  PROVE  \/ Turn \/ MarkStep \/ Life \/ Reply \/ Tell
         \/ \E c \in Child : Change(c)
         \/ UNCHANGED vars
<1>1. CASE LaunchFailed \/ Publish \/ PublishFails \/ Discard \/ StopWritten \/ StopNotWritten
  <2>1. call.step \in {"launch", "publish", "discard", "stop"}
    BY <1>1 DEF LaunchFailed, Publish, PublishFails, Discard, StopWritten, StopNotWritten
  <2>2. call.child \in Child
    BY <2>1 DEF Typed, Calls, Outside, Ready
  <2> QED
    BY <1>1, <2>1, <2>2 DEF Change
<1>2. CASE Continue
  BY <1>1, <1>2 DEF Continue, Turn, MarkStep, Life
<1>3. CASE Ask
  BY <1>3 DEF Ask, Turn, MarkStep, Life, Change
<1> QED
  BY <1>2, <1>3 DEF Next, Life, Change

\* A launch finds room.
LEMMA Launches ==
  ASSUME NEW c \in Child, NEW fresh \in BOOLEAN, Launch(c, fresh)
  PROVE  /\ Cardinality(Active) < MaxActive
         /\ ~child[c].stopped /\ ~Running(c)
         /\ Len(child[c].runs) < MaxRuns
         /\ child' = [child EXCEPT ![c] =
              [child[c] EXCEPT !.runs = Append(child[c].runs, NewRun), !.work = "starting"]]
         /\ call' = [step |-> "launch", child |-> c, fresh |-> fresh, started |-> "none"]
<1> HIDE DEF Prompted
<1> QED
  BY DEF Launch

\* Who changes what.
LEMMA TurnFrame ==
  ASSUME Turn
  PROVE  UNCHANGED <<store, child, group, told, settled, announced, session, restarts>>
BY DEF Turn, EndRun, Interrupt, Launched, Look, Wake, GiveUp, StopDone, ReplyDropped,
       Boundary, TellAborted, Check, parent

LEMMA MarkFrame ==
  ASSUME MarkStep
  PROVE  UNCHANGED <<store, group, told, settled, announced, session, restarts, interrupted>>
BY DEF MarkStep, StartRun, Acknowledge, TellCommitted, parent

LEMMA ChangeFrame ==
  ASSUME NEW c \in Child, Change(c), Typed
  PROVE  /\ UNCHANGED <<told, settled, announced, session, restarts, interrupted>>
         /\ \A d \in Child \ {c} : child'[d] = child[d] /\ store'[d] = store[d]
         /\ child' = [child EXCEPT ![c] = child'[c]] /\ store' = [store EXCEPT ![c] = store'[c]]
         /\ \/ group' = group
            \/ Publish /\ group' = group \union {c}
<1>1. /\ child = [d \in Child |-> child[d]] /\ store = [d \in Child |-> store[d]]
      /\ DOMAIN child = Child /\ DOMAIN store = Child
  BY DEF Typed
<1>2. CASE Goroutine(c)
  BY <1>1, <1>2 DEF Goroutine, Begin, Refused, Finish, Retire, Notify, parent
<1>3. CASE Start(c) \/ Send(c) \/ Stop(c)
  BY <1>1, <1>3, Launches DEF Start, Send, Stop, parent
<1>4. CASE /\ call.child = c
           /\ LaunchFailed \/ Publish \/ PublishFails \/ Discard \/ StopWritten \/ StopNotWritten
  BY <1>1, <1>4 DEF LaunchFailed, Publish, PublishFails, Discard, StopWritten, StopNotWritten,
     parent
<1> QED
  BY <1>2, <1>3, <1>4 DEF Change

-----------------------------------------------------------------------------
(* Types are kept.                                                         *)

\* The step says what the parent's thread carries along.
LEMMA Shapes ==
  ASSUME Typed
  PROVE  /\ call.step = "launch" => call \in [step : {"launch"}, child : Child,
              fresh : BOOLEAN, started : {"none", "begun", "failed"}]
         /\ call.step \in {"publish", "discard", "stopped"} =>
              call \in [step : {"publish", "discard", "stopped"}, child : Child]
         /\ call.step \in {"look", "wait"} => call \in
              [step : {"look", "wait"}, asked : SUBSET Child, mode : Modes, woken : BOOLEAN]
         /\ call.step = "stop" => call \in [step : {"stop"}, child : Child, was : BOOLEAN]
         /\ call.step = "reply" => call \in
              [step : {"reply"}, tells : SUBSET RunOf, settles : SUBSET RunOf]
         /\ call.step = "acknowledge" => call \in
              [step : {"acknowledge"}, tells : SUBSET RunOf]
         /\ call.step \in {"tell", "commit"} => call \in
              [step : {"tell", "commit"}, events : Seq(RunOf) \ {<<>>}]
         /\ call.step = "ready" => call = Ready
         /\ call.step = "idle" => call = Outside
         /\ call.step \in {"launch", "publish", "discard", "stopped", "look", "wait", "stop",
                           "reply", "acknowledge", "tell", "commit", "ready", "idle"}
BY DEF Typed, Calls, Outside, Ready

LEMMA TurnCalls ==
  ASSUME Typed, Turn
  PROVE  call' \in Calls /\ interrupted' \in BOOLEAN
<1> USE Shapes DEF Calls, Outside, Ready
<1>1. CASE EndRun \/ Interrupt \/ GiveUp \/ ReplyDropped \/ TellAborted
  BY <1>1 DEF Typed, EndRun, Interrupt, GiveUp, ReplyDropped, TellAborted
<1>2. CASE Launched
  BY <1>2 DEF Typed, Launched, Results
<1>3. CASE StopDone
  BY <1>3 DEF Typed, StopDone, Results
<1>4. CASE Look
  <2>1. Told(call.asked) \in SUBSET RunOf /\ Settled(call.asked) \in SUBSET RunOf
    BY <1>4, ToldRuns DEF Look
  <2> QED
    BY <1>4, <2>1 DEF Typed, Look, Results
<1>5. CASE Wake
  BY <1>5 DEF Typed, Wake
<1>6. CASE Boundary
  <2>1. PICK order \in SetToSeqs(Pending) : call' = [step |-> "tell", events |-> order]
    BY <1>6 DEF Boundary
  <2>2. order \in Seq(RunOf) \ {<<>>}
    BY <1>6, PendingOrders DEF Boundary
  <2> QED
    BY <1>6, <2>1, <2>2 DEF Typed, Boundary
<1>7. CASE \E S \in SUBSET group \ {{}}, mode \in Modes : Check(S, mode)
  BY <1>7 DEF Typed, Check
<1> QED
  BY <1>1, <1>2, <1>3, <1>4, <1>5, <1>6, <1>7 DEF Turn

LEMMA MarkCalls ==
  ASSUME Typed, MarkStep
  PROVE  call' \in Calls /\ \E R : child' = Marked(R)
<1>1. CASE TellCommitted
  <2>1. call.events \in Seq(RunOf) \ {<<>>} /\ call.step = "commit"
    BY <1>1, Shapes DEF TellCommitted
  <2>2. Len(call.events) # 1 => Tail(call.events) \in Seq(RunOf) \ {<<>>}
    <3>1. Tail(call.events) \in Seq(RunOf) /\ Len(Tail(call.events)) = Len(call.events) - 1
      BY <2>1, HeadTailProperties
    <3>2. Len(call.events) \in Nat \ {0}
      BY <2>1, EmptySeq
    <3>3. Len(call.events) # 1 => Len(Tail(call.events)) # 0
      BY <3>1, <3>2
    <3>4. Tail(call.events) = <<>> => Len(Tail(call.events)) = 0
      BY EmptySeq
    <3> QED
      BY <3>1, <3>3, <3>4
  <2>3. call' \in Calls
    <3> HIDE DEF Ready
    <3> QED
      BY <1>1, <2>2 DEF TellCommitted, Calls
  <2> QED
    BY <1>1, <2>3 DEF TellCommitted
<1> QED
  BY <1>1 DEF MarkStep, StartRun, Acknowledge, Calls

\* A run gets its number.
LEMMA Numbering ==
  ASSUME Typed, NEW c \in Child, NEW n \in Nat, n = Len(child[c].runs), n > 0,
         NEW k \in 0..MaxRuns
  PROVE  /\ [child[c].runs EXCEPT ![n].id = k] \in Seq(RunRecord)
         /\ Len([child[c].runs EXCEPT ![n].id = k]) = n
         /\ [child[c].runs EXCEPT ![n].id = k][n] = [child[c].runs[n] EXCEPT !.id = k]
         /\ \A j \in 1..n : j # n => [child[c].runs EXCEPT ![n].id = k][j] = child[c].runs[j]
<1>1. child[c].runs \in Seq(RunRecord) /\ n \in 1..Len(child[c].runs)
  BY DEF Typed, ChildRecord
<1>2. child[c].runs[n] \in RunRecord
  BY <1>1
<1>3. [child[c].runs[n] EXCEPT !.id = k] \in RunRecord
  BY <1>2 DEF RunRecord
<1>4. [child[c].runs EXCEPT ![n].id = k]
        = [child[c].runs EXCEPT ![n] = [child[c].runs[n] EXCEPT !.id = k]]
  OBVIOUS
<1> DEFINE r == [child[c].runs[n] EXCEPT !.id = k]
<1> HIDE DEF r
<1>5. /\ [child[c].runs EXCEPT ![n] = r] \in Seq(RunRecord)
      /\ Len([child[c].runs EXCEPT ![n] = r]) = Len(child[c].runs)
      /\ \A j \in 1..Len(child[c].runs) :
           [child[c].runs EXCEPT ![n] = r][j] = IF j = n THEN r ELSE child[c].runs[j]
  BY <1>1, <1>3, ExceptSeq DEF r
<1> QED
  BY <1>1, <1>4, <1>5 DEF r

\* And its end.
LEMMA Ending ==
  ASSUME Typed, NEW c \in Child, NEW n \in Nat, n = Len(child[c].runs), n > 0
  PROVE  /\ [child[c].runs EXCEPT ![n].status = "finished"] \in Seq(RunRecord)
         /\ Len([child[c].runs EXCEPT ![n].status = "finished"]) = n
         /\ \A j \in 1..n : [child[c].runs EXCEPT ![n].status = "finished"][j] =
              IF j = n THEN [child[c].runs[n] EXCEPT !.status = "finished"]
              ELSE child[c].runs[j]
<1>1. child[c].runs \in Seq(RunRecord)
  BY DEF Typed, ChildRecord
<1>2. n \in 1..Len(child[c].runs) /\ child[c].runs[n] \in RunRecord
  BY <1>1
<1>3. [child[c].runs[n] EXCEPT !.status = "finished"] \in RunRecord
  BY <1>2 DEF RunRecord
<1>4. [child[c].runs EXCEPT ![n].status = "finished"]
        = [child[c].runs EXCEPT ![n] = [child[c].runs[n] EXCEPT !.status = "finished"]]
  OBVIOUS
<1> DEFINE r == [child[c].runs[n] EXCEPT !.status = "finished"]
<1> HIDE DEF r
<1>5. /\ [child[c].runs EXCEPT ![n] = r] \in Seq(RunRecord)
      /\ Len([child[c].runs EXCEPT ![n] = r]) = Len(child[c].runs)
      /\ \A j \in 1..Len(child[c].runs) :
           [child[c].runs EXCEPT ![n] = r][j] = IF j = n THEN r ELSE child[c].runs[j]
  BY <1>1, <1>2, <1>3, ExceptSeq DEF r
<1> QED
  BY <1>4, <1>5 DEF r

\* A run that is about to begin.
LEMMA Starting ==
  ASSUME Typed, Placed, Children, NEW c \in Child, child[c].work = "starting"
  PROVE  /\ Launching(c) /\ call.started = "none" /\ Unborn(c)
         /\ session = "open" /\ Loaded(c) /\ ~store[c].halted
         /\ child[c].runs # <<>> /\ child[c].runs[Len(child[c].runs)] = NewRun
         /\ Len(child[c].runs) \in 1..MaxRuns
         /\ ~child[c].broken => Len(store[c].journal) = Len(child[c].runs) - 1
         /\ Len(store[c].journal) \in 0..MaxRuns
         /\ Matching(c) /\ Current(c) /\ Stopped(c)
<1>1. Launching(c) /\ call.started = "none" /\ Unborn(c) /\ ~store[c].halted
  BY DEF Placed, Unborn
<1>2. session = "open"
  BY <1>1 DEF Placed, Launching, Outside
<1>3. Loaded(c)
  BY <1>1, <1>2 DEF Placed, Loaded, New, Launching
<1>4. Matching(c) /\ Current(c) /\ Stopped(c)
  BY <1>3 DEF Children, Fine
<1>5. child[c].runs \in Seq(RunRecord) /\ store[c].journal \in Seq(RunStates)
  BY DEF Typed, ChildRecord
<1>6. child[c].runs # <<>> /\ Last(child[c].runs) = NewRun /\ Len(child[c].runs) <= MaxRuns
  BY <1>1, <1>4 DEF Matching
<1>7. Len(child[c].runs) \in 1..MaxRuns /\ Len(store[c].journal) \in 0..MaxRuns
  BY <1>4, <1>5, <1>6, ChildAssumption DEF Matching
<1> QED
  BY <1>1, <1>2, <1>3, <1>4, <1>6, <1>7 DEF Matching, Begun, Last

StoreRecord == [dir : Directories, halted : BOOLEAN, journal : Seq(RunStates)]

LEMMA BlankRecords == Absent \in StoreRecord /\ Unloaded \in ChildRecord
BY EmptySeq DEF StoreRecord, ChildRecord, Absent, Unloaded, Directories, Works

\* What a run that begins leaves.
LEMMA BeginEffect ==
  ASSUME Typed, Placed, Children, NEW c \in Child, Begin(c), NEW n, n = Len(child[c].runs)
  PROVE  /\ n \in 1..MaxRuns /\ Len(store[c].journal) = n - 1
         /\ child'[c] \in ChildRecord /\ store'[c] \in StoreRecord /\ call' \in Calls
         /\ store'[c].dir = store[c].dir /\ store'[c].halted = store[c].halted
         /\ store'[c].journal = Append(store[c].journal, "open")
         /\ child'[c] = [child[c] EXCEPT !.work = "running", !.runs = child'[c].runs]
         /\ Len(child'[c].runs) = Len(child[c].runs)
         /\ child'[c].runs[n] = [NewRun EXCEPT !.id = n]
         /\ \A j \in 1..n : j # n => child'[c].runs[j] = child[c].runs[j]
         /\ call' = [call EXCEPT !.started = "begun"]
<1>1. /\ n \in 1..MaxRuns /\ Len(store[c].journal) = n - 1 /\ child[c].runs[n] = NewRun
      /\ Launching(c)
  BY Starting DEF Begin
<1>2. child[c] \in ChildRecord /\ store[c] \in StoreRecord
  BY DEF Typed, StoreRecord
<1>3. store[c].journal \in Seq(RunStates) /\ "open" \in RunStates
  BY <1>2 DEF StoreRecord, RunStates
<1>4. /\ Append(store[c].journal, "open") \in Seq(RunStates)
      /\ Len(Append(store[c].journal, "open")) = n
  BY <1>1, <1>3
<1>5. store' = [store EXCEPT ![c] = [store[c] EXCEPT !.journal = Append(store[c].journal, "open")]]
  BY DEF Begin
<1>6. store'[c] = [store[c] EXCEPT !.journal = Append(store[c].journal, "open")]
  BY <1>5 DEF Typed
<1>7. /\ store'[c] \in StoreRecord /\ store'[c].dir = store[c].dir
      /\ store'[c].halted = store[c].halted
      /\ store'[c].journal = Append(store[c].journal, "open")
  BY <1>2, <1>4, <1>6 DEF StoreRecord
<1> DEFINE s == [child[c].runs EXCEPT ![n].id = n]
<1>8. /\ s \in Seq(RunRecord) /\ Len(s) = n
      /\ s[n] = [child[c].runs[n] EXCEPT !.id = n]
      /\ \A j \in 1..n : j # n => s[j] = child[c].runs[j]
  BY <1>1, Numbering
<1>9. child' = [child EXCEPT ![c].runs[n].id = n, ![c].work = "running"]
  BY <1>4, <1>7 DEF Begin
<1>10. child' = [child EXCEPT ![c] = [child[c] EXCEPT !.runs = s, !.work = "running"]]
  BY <1>2, <1>9 DEF Typed, ChildRecord
<1> HIDE DEF s
<1>11. child'[c] = [child[c] EXCEPT !.runs = s, !.work = "running"]
  BY <1>10 DEF Typed
<1>12. /\ child'[c] \in ChildRecord /\ child'[c].runs = s
       /\ child'[c] = [child[c] EXCEPT !.work = "running", !.runs = child'[c].runs]
  BY <1>2, <1>8, <1>11 DEF ChildRecord, Works
<1>13. call' = [call EXCEPT !.started = "begun"] /\ call' \in Calls
  BY <1>1, Shapes DEF Begin, Calls, Launching
<1> QED
  BY <1>1, <1>7, <1>8, <1>12, <1>13

\* A launch that was refused.
LEMMA RefusedEffect ==
  ASSUME Typed, Placed, Children, NEW c \in Child, Refused(c)
  PROVE  /\ child'[c] \in ChildRecord /\ store'[c] \in StoreRecord /\ call' \in Calls
         /\ \/ store'[c] = store[c] /\ child'[c].broken = child[c].broken
            \/ /\ ~child[c].broken /\ child'[c].broken
               /\ store'[c].dir = store[c].dir /\ store'[c].halted = store[c].halted
               /\ store'[c].journal = Append(store[c].journal, "open")
         /\ child'[c] = [child[c] EXCEPT !.work = "none", !.notify = TRUE,
                           !.cancelled = FALSE, !.broken = child'[c].broken]
         /\ call' = [call EXCEPT !.started = "failed"]
<1>1. Launching(c)
  BY Starting DEF Refused
<1>2. child[c] \in ChildRecord /\ store[c] \in StoreRecord
  BY DEF Typed, StoreRecord
<1>3. store[c].journal \in Seq(RunStates) /\ "open" \in RunStates
  BY <1>2 DEF StoreRecord, RunStates
<1>4. Append(store[c].journal, "open") \in Seq(RunStates)
  BY <1>1, <1>3
<1>5. PICK breaks \in BOOLEAN :
         /\ breaks => ~child[c].cancelled /\ ~child[c].broken
         /\ store' = IF breaks THEN [store EXCEPT ![c].journal = Append(@, "open")] ELSE store
         /\ child' = [child EXCEPT ![c].work = "none", ![c].notify = TRUE,
                                   ![c].cancelled = FALSE, ![c].broken = @ \/ breaks]
  BY DEF Refused
<1>6. child'[c] = [child[c] EXCEPT !.work = "none", !.notify = TRUE,
                           !.cancelled = FALSE, !.broken = @ \/ breaks]
  BY <1>5 DEF Typed
<1>7. /\ child'[c] \in ChildRecord
      /\ child'[c] = [child[c] EXCEPT !.work = "none", !.notify = TRUE,
                           !.cancelled = FALSE, !.broken = child'[c].broken]
      /\ child'[c].broken = (child[c].broken \/ breaks)
  BY <1>2, <1>6 DEF ChildRecord, Works
<1>8. child[c].broken \in BOOLEAN
  BY <1>2 DEF ChildRecord
<1>9. ASSUME breaks
      PROVE  /\ ~child[c].broken /\ child'[c].broken
             /\ store'[c] \in StoreRecord /\ store'[c].dir = store[c].dir
             /\ store'[c].halted = store[c].halted
             /\ store'[c].journal = Append(store[c].journal, "open")
  <2>1. store'[c] = [store[c] EXCEPT !.journal = Append(store[c].journal, "open")]
    BY <1>5, <1>9 DEF Typed
  <2>2. /\ store'[c] \in StoreRecord /\ store'[c].dir = store[c].dir
        /\ store'[c].halted = store[c].halted
        /\ store'[c].journal = Append(store[c].journal, "open")
    BY <1>2, <1>4, <2>1 DEF StoreRecord
  <2>3. ~child[c].broken /\ child'[c].broken
    BY <1>5, <1>7, <1>9
  <2> QED
    BY <2>2, <2>3
<1>10. ASSUME ~breaks
       PROVE  store'[c] = store[c] /\ child'[c].broken = child[c].broken
  <2>1. store'[c] = store[c]
    BY <1>5, <1>10
  <2>2. child'[c].broken = child[c].broken
    BY <1>7, <1>8, <1>10
  <2> QED
    BY <2>1, <2>2
<1>11. call' = [call EXCEPT !.started = "failed"] /\ call' \in Calls
  BY <1>1, Shapes DEF Refused, Calls, Launching
<1> QED
  BY <1>2, <1>7, <1>9, <1>10, <1>11

\* A run that ended, and what its goroutine does then.
LEMMA FinishEffect ==
  ASSUME Typed, NEW c \in Child, Finish(c)
  PROVE  /\ child'[c] \in ChildRecord /\ store'[c] \in StoreRecord
         /\ child'[c] = [child[c] EXCEPT !.work = "ended", !.broken = child'[c].broken]
         /\ \/ child'[c].broken /\ store'[c] = store[c]
            \/ /\ child'[c].broken = child[c].broken
               /\ store'[c].dir = store[c].dir /\ store'[c].halted = store[c].halted
               /\ Len(store'[c].journal) = Len(store[c].journal)
               /\ \A i \in DOMAIN store[c].journal : store'[c].journal[i] =
                    IF i = Len(store[c].journal) THEN "finished" ELSE store[c].journal[i]
<1>1. child[c] \in ChildRecord /\ store[c] \in StoreRecord
  BY DEF Typed, StoreRecord
<1>2. PICK breaks \in BOOLEAN :
         /\ store' = IF breaks THEN store
                     ELSE [store EXCEPT ![c].journal[Len(store[c].journal)] = "finished"]
         /\ child' = [child EXCEPT ![c].work = "ended", ![c].broken = @ \/ breaks]
  BY DEF Finish
<1>3. child'[c] = [child[c] EXCEPT !.work = "ended", !.broken = @ \/ breaks]
  BY <1>2 DEF Typed
<1>4. /\ child'[c] \in ChildRecord
      /\ child'[c] = [child[c] EXCEPT !.work = "ended", !.broken = child'[c].broken]
      /\ child'[c].broken = (child[c].broken \/ breaks)
  BY <1>1, <1>3 DEF ChildRecord, Works
<1>5. child[c].broken \in BOOLEAN
  BY <1>1 DEF ChildRecord
<1>6. ASSUME breaks
      PROVE  child'[c].broken /\ store'[c] = store[c]
  BY <1>2, <1>4, <1>6
<1> DEFINE n == Len(store[c].journal)
           s == [store[c].journal EXCEPT ![n] = "finished"]
<1>7. store[c].journal \in Seq(RunStates) /\ "finished" \in RunStates
  BY <1>1 DEF StoreRecord, RunStates
<1>8. /\ s \in Seq(RunStates) /\ Len(s) = n
      /\ \A i \in DOMAIN store[c].journal :
           s[i] = IF i = n THEN "finished" ELSE store[c].journal[i]
  <2>1. CASE n \in 1..n
    BY <1>7, <2>1, ExceptSeq
  <2>2. CASE n \notin 1..n
    <3>1. DOMAIN store[c].journal = 1..n /\ n \notin DOMAIN store[c].journal
      BY <1>7, <2>2
    <3>2. s = store[c].journal
      BY <1>7, <3>1
    <3> QED
      BY <1>7, <3>1, <3>2
  <2> QED
    BY <2>1, <2>2
<1>9. ASSUME ~breaks
      PROVE  /\ child'[c].broken = child[c].broken
             /\ store'[c] \in StoreRecord
             /\ store'[c].dir = store[c].dir /\ store'[c].halted = store[c].halted
             /\ store'[c].journal = s
  <2>1. store'[c] = [store[c] EXCEPT !.journal = s]
    BY <1>1, <1>2, <1>9 DEF Typed, StoreRecord
  <2> HIDE DEF s
  <2>2. /\ store'[c] \in StoreRecord /\ store'[c].dir = store[c].dir
        /\ store'[c].halted = store[c].halted /\ store'[c].journal = s
    BY <1>1, <1>8, <2>1 DEF StoreRecord
  <2>3. child'[c].broken = child[c].broken
    BY <1>4, <1>5, <1>9
  <2> QED
    BY <2>2, <2>3
<1> HIDE DEF s
<1> QED
  BY <1>1, <1>4, <1>6, <1>8, <1>9

LEMMA RetireEffect ==
  ASSUME Typed, NEW c \in Child, Retire(c), child[c].runs # <<>>
  PROVE  /\ child'[c] \in ChildRecord
         /\ child'[c] = [child[c] EXCEPT !.work = "none", !.notify = TRUE, !.cancelled = FALSE,
                                         !.runs = child'[c].runs]
         /\ Len(child'[c].runs) = Len(child[c].runs)
         /\ \A j \in 1..Len(child[c].runs) : child'[c].runs[j] =
              IF j = Len(child[c].runs) THEN [child[c].runs[j] EXCEPT !.status = "finished"]
              ELSE child[c].runs[j]
<1> DEFINE n == Len(child[c].runs)
<1>1. child[c] \in ChildRecord
  BY DEF Typed
<1>2. n \in Nat /\ n > 0
  BY <1>1, EmptySeq DEF ChildRecord
<1> DEFINE s == [child[c].runs EXCEPT ![n].status = "finished"]
<1>3. /\ s \in Seq(RunRecord) /\ Len(s) = n
      /\ \A j \in 1..n : s[j] =
           IF j = n THEN [child[c].runs[n] EXCEPT !.status = "finished"] ELSE child[c].runs[j]
  BY <1>2, Ending
<1>4. child' = [child EXCEPT ![c] = [child[c] EXCEPT !.runs = s, !.work = "none",
                                       !.notify = TRUE, !.cancelled = FALSE]]
  BY <1>1 DEF Typed, ChildRecord, Retire
<1> HIDE DEF s
<1>5. child'[c] = [child[c] EXCEPT !.runs = s, !.work = "none", !.notify = TRUE, !.cancelled = FALSE]
  BY <1>4 DEF Typed
<1>6. /\ child'[c] \in ChildRecord /\ child'[c].runs = s
      /\ child'[c] = [child[c] EXCEPT !.work = "none", !.notify = TRUE, !.cancelled = FALSE,
                                      !.runs = child'[c].runs]
  BY <1>1, <1>3, <1>5 DEF ChildRecord, Works
<1> QED
  BY <1>3, <1>6

LEMMA NotifyEffect ==
  ASSUME Typed, NEW c \in Child, Notify(c)
  PROVE  /\ child'[c] \in ChildRecord /\ child'[c] = [child[c] EXCEPT !.notify = FALSE]
         /\ store' = store
         /\ call' \in Calls
         /\ \/ call' = call
            \/ call.step \in {"look", "wait"} /\ call' = [call EXCEPT !.woken = TRUE]
<1>1. child[c] \in ChildRecord
  BY DEF Typed
<1>2. child'[c] \in ChildRecord /\ child'[c] = [child[c] EXCEPT !.notify = FALSE] /\ store' = store
  BY <1>1 DEF Notify, Typed, ChildRecord
<1>3. /\ \/ call' = call
         \/ call.step \in {"look", "wait"} /\ call' = [call EXCEPT !.woken = TRUE]
      /\ call' \in Calls
  BY Shapes DEF Notify, Signalled, Typed, Calls
<1> QED
  BY <1>2, <1>3

\* A launch, of a new child or of one that can be addressed.
LEMMA LaunchEffect ==
  ASSUME Typed, NEW c \in Child, Start(c) \/ Send(c)
  PROVE  /\ child'[c] \in ChildRecord /\ store'[c] \in StoreRecord /\ call' \in Calls
         /\ Cardinality(Active) < MaxActive
         /\ ~child[c].stopped /\ ~Running(c) /\ Len(child[c].runs) < MaxRuns
         /\ child'[c] = [child[c] EXCEPT !.runs = Append(child[c].runs, NewRun),
                                         !.work = "starting"]
         /\ child'[c].runs = Append(child[c].runs, NewRun)
         /\ \E fresh \in BOOLEAN :
              /\ call' = [step |-> "launch", child |-> c, fresh |-> fresh, started |-> "none"]
              /\ fresh => store[c].dir = "none" /\ store'[c] = [store[c] EXCEPT !.dir = "staging"]
              /\ ~fresh => c \in group /\ store'[c] = store[c]
         /\ Between /\ group' = group
<1>1. child[c] \in ChildRecord /\ store[c] \in StoreRecord
  BY DEF Typed, StoreRecord
<1>2. NewRun \in RunRecord
  BY ChildAssumption DEF NewRun, RunRecord
<1>3. Append(child[c].runs, NewRun) \in Seq(RunRecord)
  BY <1>1, <1>2 DEF ChildRecord
<1>4. /\ Between /\ group' = group
      /\ \E fresh \in BOOLEAN :
         /\ Launch(c, fresh)
         /\ fresh => store[c].dir = "none" /\ store'[c] = [store[c] EXCEPT !.dir = "staging"]
         /\ ~fresh => c \in group /\ store'[c] = store[c]
  BY <1>1 DEF Start, Send, Typed
<1>5. PICK fresh \in BOOLEAN :
         /\ Launch(c, fresh)
         /\ fresh => store[c].dir = "none" /\ store'[c] = [store[c] EXCEPT !.dir = "staging"]
         /\ ~fresh => c \in group /\ store'[c] = store[c]
  BY <1>4
<1>6. /\ Cardinality(Active) < MaxActive
      /\ ~child[c].stopped /\ ~Running(c) /\ Len(child[c].runs) < MaxRuns
      /\ child'[c] = [child[c] EXCEPT !.runs = Append(child[c].runs, NewRun),
                                      !.work = "starting"]
      /\ call' = [step |-> "launch", child |-> c, fresh |-> fresh, started |-> "none"]
  BY <1>5, Launches DEF Typed
<1>7. child'[c] \in ChildRecord /\ child'[c].runs = Append(child[c].runs, NewRun)
  BY <1>1, <1>3, <1>6 DEF ChildRecord, Works
<1>8. store'[c] \in StoreRecord
  BY <1>1, <1>5 DEF StoreRecord, Directories
<1>9. call' \in Calls
  BY <1>6 DEF Calls
<1> QED
  BY <1>4, <1>5, <1>6, <1>7, <1>8, <1>9

\* What becomes of one that failed.
LEMMA LaunchFailedEffect ==
  ASSUME Typed, LaunchFailed, NEW c, c = call.child, child[c].runs # <<>>
  PROVE  /\ c \in Child /\ Launching(c) /\ call.started = "failed"
         /\ child'[c] \in ChildRecord /\ call' \in Calls
         /\ child'[c] = [child[c] EXCEPT !.runs = child'[c].runs]
         /\ Len(child'[c].runs) = Len(child[c].runs) - 1
         /\ \A j \in 1..Len(child[c].runs) - 1 : child'[c].runs[j] = child[c].runs[j]
         /\ store' = store
         /\ call' = IF call.fresh THEN [step |-> "discard", child |-> c] ELSE Ready
<1> DEFINE n == Len(child[c].runs)
<1>1. c \in Child /\ Launching(c) /\ call.started = "failed"
  BY Shapes DEF LaunchFailed, Launching
<1>2. child[c] \in ChildRecord
  BY <1>1 DEF Typed
<1>3. child[c].runs \in Seq(RunRecord) /\ n \in Nat /\ n > 0
  BY <1>2, EmptySeq DEF ChildRecord
<1>4. /\ Front(child[c].runs) \in Seq(RunRecord) /\ Len(Front(child[c].runs)) = n - 1
      /\ \A j \in 1..n - 1 : Front(child[c].runs)[j] = child[c].runs[j]
  BY <1>3 DEF Front
<1> HIDE DEF Front
<1>5. child'[c] = [child[c] EXCEPT !.runs = Front(child[c].runs)]
  BY <1>1 DEF LaunchFailed, Typed
<1>6. child'[c] \in ChildRecord /\ child'[c].runs = Front(child[c].runs)
  BY <1>2, <1>4, <1>5 DEF ChildRecord
<1>7. /\ call' = IF call.fresh THEN [step |-> "discard", child |-> c] ELSE Ready
      /\ store' = store
  BY DEF LaunchFailed
<1>8. call' \in Calls
  BY <1>1, <1>7 DEF Calls
<1> QED
  BY <1>1, <1>4, <1>5, <1>6, <1>7, <1>8

LEMMA PublishEffect ==
  ASSUME Typed, Publish, NEW c, c = call.child
  PROVE  /\ c \in Child /\ child' = child /\ call' \in Calls /\ call' = Results({}, {})
         /\ store'[c] \in StoreRecord /\ store'[c] = [store[c] EXCEPT !.dir = "published"]
         /\ group' = group \union {c}
<1>1. c \in Child
  BY Shapes DEF Publish
<1>2. store[c] \in StoreRecord
  BY <1>1 DEF Typed, StoreRecord
<1>3. store'[c] \in StoreRecord /\ store'[c] = [store[c] EXCEPT !.dir = "published"]
  BY <1>1, <1>2 DEF Publish, StoreRecord, Directories, Typed
<1>4. call' = Results({}, {}) /\ call' \in Calls
  BY DEF Publish, Results, Calls
<1> QED
  BY <1>1, <1>3, <1>4 DEF Publish

\* Steps that write a field or two of a child and nothing of its runs.
LEMMA FlagEffect ==
  ASSUME Typed, NEW c \in Child,
         \/ Stop(c)
         \/ call.child = c /\ (PublishFails \/ StopWritten \/ StopNotWritten)
  PROVE  /\ child'[c] \in ChildRecord /\ store'[c] \in StoreRecord /\ call' \in Calls
         /\ child'[c] = [child[c] EXCEPT !.stopped = child'[c].stopped,
                                         !.cancelled = child'[c].cancelled]
         /\ store'[c] = [store[c] EXCEPT !.halted = store'[c].halted]
<1>1. child[c] \in ChildRecord /\ store[c] \in StoreRecord
  BY DEF Typed, StoreRecord
<1>2. Running(c) \in BOOLEAN
  BY DEF Running
<1>3. CASE Stop(c)
  BY <1>1, <1>3 DEF Stop, Typed, ChildRecord, StoreRecord, Calls
<1>4. CASE call.child = c /\ PublishFails
  BY <1>1, <1>2, <1>4, Shapes DEF PublishFails, Typed, ChildRecord, StoreRecord, Calls
<1>5. CASE call.child = c /\ StopWritten
  BY <1>1, <1>2, <1>5, Shapes DEF StopWritten, Typed, ChildRecord, StoreRecord, Calls
<1>6. CASE call.child = c /\ StopNotWritten
  <2>1. call.was \in BOOLEAN
    BY <1>6, Shapes DEF StopNotWritten
  <2> QED
    BY <1>1, <1>6, <2>1 DEF StopNotWritten, Typed, ChildRecord, StoreRecord, Calls
<1> QED
  BY <1>3, <1>4, <1>5, <1>6

LEMMA DiscardEffect ==
  ASSUME Typed, Discard, NEW c, c = call.child
  PROVE  /\ c \in Child /\ ~Running(c) /\ call' = Ready /\ call' \in Calls
         /\ store'[c] = Absent /\ store'[c] \in StoreRecord
         /\ child'[c] \in ChildRecord
         /\ child'[c] = [Unloaded EXCEPT !.notify = child[c].notify]
<1>1. c \in Child /\ ~Running(c) /\ call' = Ready /\ call' \in Calls
  BY Shapes DEF Discard, Calls
<1>2. store'[c] = Absent /\ child'[c] = [Unloaded EXCEPT !.notify = child[c].notify]
  BY <1>1 DEF Discard, Typed
<1>3. child[c].notify \in BOOLEAN
  BY <1>1 DEF Typed, ChildRecord
<1>4. store'[c] \in StoreRecord /\ child'[c] \in ChildRecord
  <2>1. Absent \in StoreRecord /\ Unloaded \in ChildRecord
    BY BlankRecords
  <2>2. [Unloaded EXCEPT !.notify = child[c].notify] \in ChildRecord
    BY <1>3, <2>1 DEF ChildRecord
  <2> QED
    BY <1>2, <2>1, <2>2
<1> QED
  BY <1>1, <1>2, <1>4

\* What a session that is opened makes of a journal.
LEMMA OpenedEffect ==
  ASSUME Typed, NEW c \in Child, Len(store[c].journal) <= MaxRuns
  PROVE  /\ Reconciled(c) \in StoreRecord
         /\ Reconciled(c).dir = store[c].dir /\ Reconciled(c).halted = store[c].halted
         /\ Len(Reconciled(c).journal) = Len(store[c].journal)
         /\ \A i \in DOMAIN Reconciled(c).journal : Reconciled(c).journal[i] # "open"
         /\ Restored(c) \in ChildRecord
         /\ Restored(c).work = "none" /\ ~Restored(c).broken /\ ~Restored(c).cancelled
         /\ Restored(c).stopped = store[c].halted
         /\ Len(Restored(c).runs) = Len(store[c].journal)
         /\ \A k \in 1..Len(store[c].journal) : Restored(c).runs[k]
              = [id |-> k, status |-> "finished", delivered |-> FALSE]
<1> DEFINE n == Len(store[c].journal)
           j == [i \in DOMAIN store[c].journal |->
                   IF store[c].journal[i] = "open" THEN "interrupted" ELSE store[c].journal[i]]
           r == [i \in DOMAIN store[c].journal |->
                   [id |-> i, status |-> "finished", delivered |-> FALSE]]
<1>1. store[c] \in StoreRecord /\ store[c].journal \in Seq(RunStates) /\ child[c] \in ChildRecord
  BY DEF Typed, StoreRecord
<1>2. n \in Nat /\ n <= MaxRuns /\ DOMAIN store[c].journal = 1..n
  BY <1>1
<1>3. /\ j \in Seq(RunStates) /\ Len(j) = n
      /\ \A i \in DOMAIN j : j[i] # "open"
  <2>1. j \in [1..n -> RunStates] /\ \A i \in DOMAIN j : j[i] # "open"
    BY <1>1, <1>2 DEF RunStates
  <2> HIDE DEF j
  <2> QED
    BY <1>2, <2>1
<1>4. /\ r \in Seq(RunRecord) /\ Len(r) = n
      /\ \A k \in 1..n : r[k] = [id |-> k, status |-> "finished", delivered |-> FALSE]
  <2>1. r \in [1..n -> RunRecord]
    BY <1>2, ChildAssumption DEF RunRecord
  <2>2. \A k \in 1..n : r[k] = [id |-> k, status |-> "finished", delivered |-> FALSE]
    BY <1>2
  <2> HIDE DEF r
  <2> QED
    BY <1>2, <2>1, <2>2
<1>5. Reconciled(c) = [store[c] EXCEPT !.journal = j]
  BY DEF Reconciled
<1>6. Restored(c) = [Unloaded EXCEPT !.runs = r, !.stopped = store[c].halted,
                                     !.notify = child[c].notify]
  BY DEF Restored
<1> HIDE DEF j, r
<1>7. /\ Reconciled(c) \in StoreRecord
      /\ Reconciled(c).dir = store[c].dir /\ Reconciled(c).halted = store[c].halted
      /\ Reconciled(c).journal = j
  BY <1>1, <1>3, <1>5 DEF StoreRecord
<1>8. /\ Restored(c).work = "none" /\ ~Restored(c).broken /\ ~Restored(c).cancelled
      /\ Restored(c).stopped = store[c].halted /\ Restored(c).runs = r
      /\ Restored(c).notify = child[c].notify
  BY <1>6 DEF Unloaded
<1>9. Restored(c) \in ChildRecord
  <2>1. Unloaded \in ChildRecord /\ store[c].halted \in BOOLEAN /\ child[c].notify \in BOOLEAN
    BY <1>1, BlankRecords DEF StoreRecord, ChildRecord
  <2> QED
    BY <1>4, <1>6, <2>1 DEF ChildRecord
<1> QED
  BY <1>3, <1>4, <1>7, <1>8, <1>9

\* A child that the parent's thread works on, or that can be addressed, is in memory.
LEMMA InMemory ==
  ASSUME Typed, Placed, Children, NEW c \in Child
  PROVE  /\ call # Outside => session = "open"
         /\ Launching(c) \/ New(c) \/ c \in group => Loaded(c) /\ session = "open"
         /\ Unborn(c) => child[c].runs # <<>>
         /\ child[c].work # "none" => Loaded(c) /\ child[c].runs # <<>>
         /\ Loaded(c) => Matching(c) /\ Current(c) /\ Stopped(c)
         /\ ~Loaded(c) => Vacant(c)
<1>1. call # Outside => session = "open"
  BY DEF Placed
<1>2. c \in group => Loaded(c) /\ session = "open"
  BY DEF Placed, Loaded
<1>3. New(c) => Loaded(c) /\ session = "open"
  BY <1>1 DEF New, Loaded, Outside
<1>4. Launching(c) => Loaded(c) /\ session = "open"
  BY <1>2, <1>3 DEF Launching, Placed, New
<1>5. /\ Loaded(c) => Matching(c) /\ Current(c) /\ Stopped(c)
      /\ ~Loaded(c) => Vacant(c)
  BY DEF Children, Fine
<1> QED
  BY <1>1, <1>2, <1>3, <1>4, <1>5 DEF Unborn, Matching, Vacant

\* Types survive every step.
LEMMA StepTyped ==
  ASSUME Typed, Placed, Children, Mailed, [Next]_vars
  PROVE  Typed'
<1>0. store \in [Child -> StoreRecord] /\ child \in [Child -> ChildRecord]
  BY DEF Typed, StoreRecord
<1>1. CASE Turn
  BY <1>1, TurnFrame, TurnCalls DEF Typed
<1>2. CASE MarkStep
  <2>1. child' \in [Child -> ChildRecord]
    BY <1>2, MarkCalls, MarkedRuns
  <2> QED
    BY <1>2, <2>1, MarkFrame, MarkCalls DEF Typed
<1>3. CASE Reply
  <2>1. call.step = "reply" /\ call.tells \in SUBSET RunOf /\ call.settles \in SUBSET RunOf
    BY <1>3, Shapes DEF Reply
  <2>2. call' \in Calls
    BY <1>3, <2>1 DEF Reply, Calls
  <2>3. call.settles \subseteq call.tells
    BY <2>1 DEF Mailed
  <2>4. told' \in SUBSET RunOf /\ settled' \in SUBSET told'
    BY <1>3, <2>1, <2>3 DEF Reply, Typed
  <2> QED
    BY <1>3, <2>2, <2>4 DEF Reply, Typed
<1>4. CASE Tell
  <2>1. call.step = "tell" /\ call.events \in Seq(RunOf) \ {<<>>}
    BY <1>4, Shapes DEF Tell
  <2>2. Head(call.events) \in RunOf
    BY <2>1
  <2>3. announced' \in Seq(RunOf)
    BY <1>4, <2>2 DEF Tell, Typed
  <2>4. call' \in Calls
    BY <1>4, <2>1, Shapes DEF Tell, Calls
  <2> QED
    BY <1>4, <2>3, <2>4 DEF Tell, Typed
<1>5. ASSUME NEW c \in Child, Change(c)
      PROVE  Typed'
  <2>1. child[c] \in ChildRecord /\ store[c] \in StoreRecord /\ call \in Calls
    BY <1>0 DEF Typed
  <2>2. child'[c] \in ChildRecord /\ store'[c] \in StoreRecord /\ call' \in Calls
    <3>1. CASE Begin(c) \/ Refused(c)
      BY <3>1, BeginEffect, RefusedEffect
    <3>2. CASE Finish(c)
      <4>1. child[c].runs # <<>>
        BY <3>2, InMemory DEF Finish
      <4> QED
        BY <2>1, <3>2, <4>1, FinishEffect DEF Finish
    <3>3. CASE Retire(c)
      <4>1. child[c].runs # <<>>
        BY <3>3, InMemory DEF Retire
      <4> QED
        BY <2>1, <3>3, <4>1, RetireEffect DEF Retire
    <3>4. CASE Notify(c)
      BY <2>1, <3>4, NotifyEffect
    <3>5. CASE Start(c) \/ Send(c)
      BY <3>5, LaunchEffect
    <3>6. CASE Stop(c) \/ (call.child = c /\ (PublishFails \/ StopWritten \/ StopNotWritten))
      BY <3>6, FlagEffect
    <3>7. CASE call.child = c /\ LaunchFailed
      <4>1. Unborn(c)
        BY <3>7 DEF LaunchFailed, Unborn, Launching
      <4>2. child[c].runs # <<>>
        BY <4>1, InMemory
      <4> QED
        BY <2>1, <3>7, <4>2, LaunchFailedEffect
    <3>8. CASE call.child = c /\ (Publish \/ Discard)
      BY <2>1, <3>8, PublishEffect, DiscardEffect
    <3> QED
      BY <1>5, <3>1, <3>2, <3>3, <3>4, <3>5, <3>6, <3>7, <3>8 DEF Change, Goroutine
  <2>3. child' \in [Child -> ChildRecord] /\ store' \in [Child -> StoreRecord]
    BY <1>0, <1>5, <2>2, ChangeFrame
  <2>4. group' \in SUBSET Child
    BY <1>5, ChangeFrame DEF Typed
  <2> QED
    BY <1>5, <2>2, <2>3, <2>4, ChangeFrame DEF Typed, StoreRecord
<1>6. CASE Life
  <2>1. child' \in [Child -> ChildRecord] /\ store' \in [Child -> StoreRecord]
    <3>1. CASE Left
      <4>1. \A c \in Child : [Unloaded EXCEPT !.notify = child[c].notify /\ session = "leaving"]
                               \in ChildRecord
        BY <1>0, BlankRecords DEF ChildRecord
      <4> QED
        BY <1>0, <3>1, <4>1 DEF Left
    <3>2. CASE Load
      BY <1>0, <3>2, OpenedEffect DEF Load, Children, Fine
    <3>3. CASE LoadFails
      BY <1>0, <3>3, OpenedEffect DEF LoadFails, Children, Fine
    <3>4. CASE Crash
      BY <1>0, <3>4, BlankRecords DEF Crash
    <3>5. CASE \E how \in {"closing", "leaving"} : Leave(how)
      <4>1. \A c \in Child : [child[c] EXCEPT !.cancelled = Running(c)] \in ChildRecord
        BY <1>0 DEF ChildRecord, Running
      <4> QED
        BY <1>0, <3>5, <4>1 DEF Leave
    <3> QED
      BY <1>6, <3>1, <3>2, <3>3, <3>4, <3>5 DEF Life
  <2>2. /\ group' \in SUBSET Child /\ call' \in Calls /\ interrupted' \in BOOLEAN
        /\ session' \in {"open", "closing", "leaving", "away", "down"}
        /\ restarts' \in 0..MaxRestarts
        /\ UNCHANGED <<told, settled, announced>>
    <3>1. MaxRestarts \in Nat /\ restarts \in 0..MaxRestarts /\ Outside \in Calls
      BY ChildAssumption DEF Typed, Calls
    <3>2. Published \in SUBSET Child /\ {} \in SUBSET Child
      BY DEF Published
    <3>3. CASE Left \/ Crash \/ \E how \in {"closing", "leaving"} : Leave(how)
      BY <3>1, <3>2, <3>3 DEF Left, Crash, Leave, Typed, parent
    <3>4. CASE Load \/ LoadFails
      BY <3>1, <3>2, <3>4 DEF Load, LoadFails, Typed, parent
    <3> QED
      BY <1>6, <3>3, <3>4 DEF Life
  <2> QED
    BY <2>1, <2>2 DEF Typed, StoreRecord
<1>7. CASE UNCHANGED vars
  BY <1>7 DEF vars, parent, Typed
<1> QED
  BY <1>1, <1>2, <1>3, <1>4, <1>5, <1>6, <1>7, NextCases

-----------------------------------------------------------------------------
(* Where the parent's thread is, and what that says of each child.         *)

Stopping(c) == call.step = "stop" /\ call.child = c

\* A child is what it was as long as nothing of it, and nothing the call says of it, changes.
LEMMA FineKept ==
  ASSUME NEW c \in Child, Fine(c), store'[c] = store[c], child'[c] = child[c],
         session' = session, New(c)' <=> New(c), Unborn(c)' <=> Unborn(c),
         Stopping(c)' <=> Stopping(c)
  PROVE  Fine(c)'
<1>1. /\ Loaded(c)' <=> Loaded(c)
      /\ Begun(c)' = Begun(c)
  BY DEF Loaded, Published, Begun
<1>2. Matching(c) => Matching(c)'
  BY <1>1 DEF Matching
<1>3. Current(c) => Current(c)'
  BY <1>1 DEF Current
<1>4. Stopped(c) => Stopped(c)'
  BY DEF Stopped, Stopping
<1>5. Vacant(c) => Vacant(c)'
  BY DEF Vacant
<1> QED
  BY <1>1, <1>2, <1>3, <1>4, <1>5 DEF Fine

\* Going on, the parent's thread forgets no child it works on.
LEMMA TurnSees ==
  ASSUME Typed, Turn
  PROVE  /\ \A c \in Child : /\ New(c)' <=> New(c)
                             /\ Unborn(c)' <=> Unborn(c)
                             /\ Stopping(c)' <=> Stopping(c)
         /\ call'.step \in {"launch", "stop", "stopped"} => call' = call
         /\ call' = call \/ call.step # "launch" \/ call.started = "begun"
         /\ call' = call \/ call # Outside \/ session = "open"
         /\ call'.step \in {"look", "wait"} =>
              \/ call.step \in {"look", "wait"} /\ call'.asked = call.asked
              \/ call'.asked \subseteq group
<1> USE Shapes DEF New, Unborn, Stopping, Launching, Outside, Ready, Results
<1>1. CASE EndRun \/ Interrupt \/ GiveUp \/ ReplyDropped \/ TellAborted
  BY <1>1 DEF EndRun, Interrupt, GiveUp, ReplyDropped, TellAborted
<1>2. CASE Launched
  BY <1>2 DEF Launched
<1>3. CASE StopDone
  BY <1>3 DEF StopDone
<1>4. CASE Look
  BY <1>4 DEF Look
<1>5. CASE Wake
  BY <1>5 DEF Wake
<1>6. CASE Boundary
  BY <1>6 DEF Boundary, Between
<1>7. CASE \E S \in SUBSET group \ {{}}, mode \in Modes : Check(S, mode)
  BY <1>7 DEF Check, Between
<1> QED
  BY <1>1, <1>2, <1>3, <1>4, <1>5, <1>6, <1>7 DEF Turn

\* Nor does it when one of them changes.
LEMMA OthersSeen ==
  ASSUME Typed, Placed, Children, NEW c \in Child, Change(c), NEW d \in Child \ {c}
  PROVE  /\ New(d)' <=> New(d)
         /\ Unborn(d)' <=> Unborn(d)
         /\ Stopping(d)' <=> Stopping(d)
<1> USE Shapes DEF New, Unborn, Stopping, Launching
<1>1. CASE Begin(c) \/ Refused(c)
  <2>1. Launching(c)
    BY <1>1, Starting DEF Begin, Refused
  <2>2. call' = [call EXCEPT !.started = "begun"] \/ call' = [call EXCEPT !.started = "failed"]
    BY <1>1 DEF Begin, Refused
  <2>3. call'.step = call.step /\ call'.child = c
    BY <2>1, <2>2
  <2> QED
    BY <2>1, <2>3
<1>2. CASE Finish(c) \/ Retire(c)
  BY <1>2 DEF Finish, Retire
<1>3. CASE Notify(c)
  BY <1>3 DEF Notify, Signalled
<1>4. CASE Start(c) \/ Send(c) \/ Stop(c)
  <2>1. call = Ready
    BY <1>4 DEF Start, Send, Stop, Between
  <2>2. call'.child = c
    <3>1. CASE Start(c) \/ Send(c)
      <4>1. PICK fresh \in BOOLEAN :
              call' = [step |-> "launch", child |-> c, fresh |-> fresh, started |-> "none"]
        BY <3>1, LaunchEffect, Zenon
      <4> QED
        BY <4>1
    <3>2. CASE Stop(c)
      BY <3>2 DEF Stop
    <3> QED
      BY <1>4, <3>1, <3>2
  <2> QED
    BY <2>1, <2>2 DEF Ready
<1>5. CASE /\ call.step \in {"launch", "publish", "discard", "stop"} /\ call.child = c
           /\ (LaunchFailed \/ Publish \/ PublishFails \/ Discard \/ StopWritten \/ StopNotWritten)
  BY <1>5 DEF LaunchFailed, Publish, PublishFails, Discard, StopWritten, StopNotWritten,
     Ready, Results
<1> QED
  BY <1>1, <1>2, <1>3, <1>4, <1>5 DEF Change, Goroutine

\* The call and the group keep to the session, while one child changes.
LEMMA ChangePlaced ==
  ASSUME Typed, Placed, Children, NEW c \in Child, Change(c)
  PROVE  Placed'
<1>1. /\ session' = session
      /\ \A d \in Child \ {c} : child'[d] = child[d] /\ store'[d] = store[d]
      /\ \A d \in Child \ {c} : /\ New(d)' <=> New(d)
                                /\ Unborn(d)' <=> Unborn(d)
                                /\ Stopping(d)' <=> Stopping(d)
  BY ChangeFrame, OthersSeen
<1>2. /\ child[c] \in ChildRecord /\ store[c] \in StoreRecord
      /\ call # Outside => session = "open"
  BY DEF Typed, StoreRecord, Placed
<1>3. CASE Begin(c) \/ Refused(c)
  <2>1. /\ Launching(c) /\ session = "open" /\ group' = group
        /\ call' = [call EXCEPT !.started = "begun"] \/ call' = [call EXCEPT !.started = "failed"]
        /\ child'[c].work # "starting"
        /\ store'[c].dir = store[c].dir /\ store'[c].halted = store[c].halted
    <3>1. Launching(c) /\ session = "open" /\ group' = group
      BY <1>3, Starting DEF Begin, Refused
    <3>2. CASE Begin(c)
      BY <1>2, <3>1, <3>2, BeginEffect DEF ChildRecord
    <3>3. CASE Refused(c)
      BY <1>2, <3>1, <3>3, RefusedEffect DEF ChildRecord
    <3> QED
      BY <1>3, <3>1, <3>2, <3>3
  <2>2. call'.step = "launch" /\ call'.child = c /\ call'.fresh = call.fresh
    BY <2>1, Shapes DEF Launching
  <2>3. Published' = Published
    BY <1>1, <2>1 DEF Published
  <2>4. \A d \in Child : New(d)' <=> New(d)
    BY <2>1, <2>2 DEF New, Launching
  <2>5. \A d \in Child : Launching(d)' <=> d = c
    BY <2>2 DEF Launching
  <2>6. \A d \in Child : child'[d].work # "starting"
    BY <1>1, <2>1 DEF Placed, Launching
  <2> QED
    BY <1>1, <2>1, <2>2, <2>3, <2>4, <2>5, <2>6 DEF Placed, Launching
<1>4. CASE Finish(c) \/ Retire(c) \/ Notify(c)
  <2>1. /\ group' = group
        /\ store'[c].dir = store[c].dir /\ store'[c].halted = store[c].halted
        /\ child'[c].stopped = child[c].stopped
        /\ child'[c].work = "starting" => child[c].work = "starting"
        /\ \/ call' = call
           \/ call.step \in {"look", "wait"} /\ call' = [call EXCEPT !.woken = TRUE]
    <3>1. CASE Finish(c)
      <4>1. child[c].runs # <<>> /\ group' = group /\ call' = call
        BY <3>1, InMemory DEF Finish
      <4>2. /\ store'[c].dir = store[c].dir /\ store'[c].halted = store[c].halted
            /\ child'[c] = [child[c] EXCEPT !.work = "ended", !.broken = child'[c].broken]
        BY <1>2, <3>1, <4>1, FinishEffect
      <4> QED
        BY <1>2, <4>1, <4>2 DEF ChildRecord
    <3>2. CASE Retire(c)
      <4>1. child[c].runs # <<>> /\ group' = group /\ call' = call /\ store' = store
        BY <3>2, InMemory DEF Retire
      <4>2. child'[c] = [child[c] EXCEPT !.work = "none", !.notify = TRUE, !.cancelled = FALSE,
                                         !.runs = child'[c].runs]
        BY <3>2, <4>1, RetireEffect
      <4> QED
        BY <1>2, <4>1, <4>2 DEF ChildRecord
    <3>3. CASE Notify(c)
      <4>1. group' = group
        BY <3>3 DEF Notify
      <4>2. /\ child'[c] = [child[c] EXCEPT !.notify = FALSE] /\ store' = store
            /\ \/ call' = call
               \/ call.step \in {"look", "wait"} /\ call' = [call EXCEPT !.woken = TRUE]
        BY <3>3, NotifyEffect
      <4> QED
        BY <1>2, <4>1, <4>2 DEF ChildRecord
    <3> QED
      BY <1>4, <3>1, <3>2, <3>3
  <2>2. Published' = Published
    BY <1>1, <2>1 DEF Published
  <2>3. \/ call' = call
        \/ /\ call.step \in {"look", "wait"} /\ call'.step = call.step
           /\ call'.asked = call.asked /\ call # Outside
    BY <2>1, Shapes DEF Outside
  <2>4. \A d \in Child : (New(d)' <=> New(d)) /\ (Launching(d)' <=> Launching(d))
    BY <2>3 DEF New, Launching
  <2>5. \A d \in Child : /\ store'[d].dir = store[d].dir /\ store'[d].halted = store[d].halted
                         /\ child'[d].stopped = child[d].stopped
                         /\ child'[d].work = "starting" => child[d].work = "starting"
    BY <1>1, <2>1
  <2>6. call.step \in {"stop", "stopped"} => call.child \in Child
    BY Shapes
  <2> QED
    BY <1>1, <1>2, <2>1, <2>2, <2>3, <2>4, <2>5, <2>6 DEF Placed, Launching
<1>5. CASE Start(c) \/ Send(c)
  <2>1. PICK fresh \in BOOLEAN :
          /\ call' = [step |-> "launch", child |-> c, fresh |-> fresh, started |-> "none"]
          /\ fresh => store[c].dir = "none" /\ store'[c] = [store[c] EXCEPT !.dir = "staging"]
          /\ ~fresh => c \in group /\ store'[c] = store[c]
    BY <1>5, LaunchEffect, Zenon
  <2>2. /\ session = "open" /\ call = Ready /\ group' = group /\ ~child[c].stopped
    BY <1>5, LaunchEffect DEF Between
  <2>3. Published' = Published
    BY <1>1, <1>2, <2>1 DEF Published, StoreRecord
  <2>4. ~store'[c].halted /\ (fresh => store'[c].dir = "staging")
    <3>1. CASE fresh
      BY <1>2, <2>1, <3>1 DEF Children, Fine, Absent, StoreRecord
    <3>2. CASE ~fresh
      <4>1. Loaded(c) /\ Stopped(c)
        BY <2>1, <3>2, InMemory
      <4> QED
        BY <2>1, <2>2, <3>2, <4>1 DEF Stopped
    <3> QED
      BY <3>1, <3>2
  <2>5. \A d \in Child : /\ Launching(d)' <=> d = c
                         /\ New(d)' => d = c /\ fresh
    BY <2>1 DEF Launching, New
  <2>6. \A d \in Child \ {c} : child'[d].work # "starting"
    BY <1>1, <2>2 DEF Placed, Launching, Ready
  <2>7. call'.step = "launch" /\ call'.fresh = fresh /\ call'.started = "none"
    BY <2>1
  <2> QED
    BY <1>1, <2>1, <2>2, <2>3, <2>4, <2>5, <2>6, <2>7 DEF Placed
<1>6. CASE Stop(c)
  <2>1. /\ session = "open" /\ call = Ready /\ group' = group /\ c \in group /\ store' = store
        /\ call' = [step |-> "stop", child |-> c, was |-> child[c].stopped]
        /\ child'[c] = [child[c] EXCEPT !.stopped = TRUE]
    BY <1>6 DEF Stop, Between, Typed
  <2>2. child[c].stopped = store[c].halted
    <3>1. Loaded(c) /\ Stopped(c)
      BY <2>1, InMemory
    <3> QED
      BY <1>2, <2>1, <3>1 DEF Stopped, Ready, ChildRecord, StoreRecord
  <2>3. Published' = Published
    BY <2>1 DEF Published
  <2>4. \A d \in Child : ~New(d)' /\ ~Launching(d)'
    BY <2>1 DEF New, Launching
  <2>5. \A d \in Child : child'[d].work # "starting"
    BY <1>1, <1>2, <2>1 DEF Placed, Launching, Ready, ChildRecord
  <2>6. child'[c].stopped
    BY <1>2, <2>1 DEF ChildRecord
  <2> QED
    BY <1>1, <2>1, <2>2, <2>3, <2>4, <2>5, <2>6 DEF Placed
<1>7. ASSUME call.child = c, LaunchFailed \/ Publish \/ PublishFails \/ Discard
                             \/ StopWritten \/ StopNotWritten
      PROVE  Placed'
  <2>1. /\ call.step \in {"launch", "publish", "discard", "stop"} /\ session = "open"
        /\ call.step = "launch" => call.started = "failed"
    BY <1>2, <1>7 DEF LaunchFailed, Publish, PublishFails, Discard, StopWritten, StopNotWritten,
       Outside
  <2>2. \A d \in Child : child[d].work # "starting"
    BY <2>1 DEF Placed, Launching
  <2>3. CASE LaunchFailed
    <3>1. Unborn(c)
      BY <1>7, <2>3 DEF LaunchFailed, Unborn, Launching
    <3>2. /\ child'[c] = [child[c] EXCEPT !.runs = child'[c].runs]
          /\ store' = store /\ group' = group
          /\ call' = IF call.fresh THEN [step |-> "discard", child |-> c] ELSE Ready
      BY <1>7, <2>3, <3>1, InMemory, LaunchFailedEffect DEF LaunchFailed
    <3>3. \A d \in Child : child'[d].work # "starting"
      BY <1>1, <1>2, <2>2, <3>2 DEF ChildRecord
    <3>4. \A d \in Child : (New(d)' => New(d)) /\ ~Launching(d)'
      BY <1>7, <2>3, <3>2 DEF New, Launching, LaunchFailed, Ready
    <3>5. Published' = Published
      BY <3>2 DEF Published
    <3>6. call'.step \in {"discard", "ready"}
      BY <3>2 DEF Ready
    <3> QED
      BY <1>1, <2>1, <3>2, <3>3, <3>4, <3>5, <3>6 DEF Placed
  <2>4. CASE Publish
    <3>1. /\ child' = child /\ call' = Results({}, {}) /\ group' = group \union {c}
          /\ store'[c] = [store[c] EXCEPT !.dir = "published"]
      BY <1>7, <2>4, PublishEffect
    <3>2. Published' = Published \union {c}
      BY <1>1, <1>2, <3>1 DEF Published, StoreRecord
    <3>3. \A d \in Child : ~New(d)' /\ ~Launching(d)'
      BY <3>1 DEF New, Launching, Results
    <3>4. call'.step = "reply"
      BY <3>1 DEF Results
    <3> QED
      BY <1>1, <2>1, <2>2, <3>1, <3>2, <3>3, <3>4 DEF Placed
  <2>5. CASE PublishFails
    <3>1. /\ child'[c] = [child[c] EXCEPT !.cancelled = Running(c)]
          /\ store' = store /\ group' = group /\ call.step = "publish"
          /\ call' = [call EXCEPT !.step = "discard"]
      BY <1>7, <2>5 DEF PublishFails, Typed
    <3>2. call'.step = "discard" /\ call'.child = c
      BY <1>7, <3>1, Shapes
    <3>3. Published' = Published
      BY <3>1 DEF Published
    <3>4. \A d \in Child : (New(d)' => New(d)) /\ ~Launching(d)'
      BY <1>7, <3>1, <3>2 DEF New, Launching
    <3>5. \A d \in Child : child'[d].work # "starting"
      BY <1>1, <1>2, <2>2, <3>1 DEF ChildRecord
    <3> QED
      BY <1>1, <2>1, <3>1, <3>2, <3>3, <3>4, <3>5 DEF Placed
  <2>6. CASE Discard
    <3>1. /\ call' = Ready /\ store'[c] = Absent /\ group' = group
          /\ child'[c] = [Unloaded EXCEPT !.notify = child[c].notify]
      BY <1>7, <2>6, DiscardEffect DEF Discard
    <3>2. New(c)
      BY <1>7, <2>6 DEF Discard, New
    <3>3. Published' = Published
      BY <1>1, <3>1, <3>2 DEF Published, Placed, Absent
    <3>4. \A d \in Child : ~New(d)' /\ ~Launching(d)'
      BY <3>1 DEF New, Launching, Ready
    <3>5. \A d \in Child : child'[d].work # "starting"
      BY <1>1, <2>2, <3>1 DEF Unloaded
    <3>6. call'.step = "ready"
      BY <3>1 DEF Ready
    <3> QED
      BY <1>1, <2>1, <3>1, <3>3, <3>4, <3>5, <3>6 DEF Placed
  <2>7. CASE StopWritten
    <3>1. /\ store'[c] = [store[c] EXCEPT !.halted = TRUE] /\ group' = group
          /\ child'[c] = [child[c] EXCEPT !.cancelled = Running(c)]
          /\ call' = [step |-> "stopped", child |-> c] /\ call.step = "stop"
      BY <1>7, <2>7 DEF StopWritten, Typed
    <3>2. Published' = Published
      BY <1>1, <1>2, <3>1 DEF Published, StoreRecord
    <3>3. \A d \in Child : ~New(d)' /\ ~Launching(d)'
      BY <3>1 DEF New, Launching
    <3>4. \A d \in Child : child'[d].work # "starting"
      BY <1>1, <1>2, <2>2, <3>1 DEF ChildRecord
    <3>5. c \in group /\ call'.step = "stopped" /\ call'.child = c
      BY <1>7, <3>1 DEF Placed
    <3> QED
      BY <1>1, <2>1, <3>1, <3>2, <3>3, <3>4, <3>5 DEF Placed
  <2>8. CASE StopNotWritten
    <3>1. /\ store' = store /\ group' = group /\ call' = Ready
          /\ child'[c] = [child[c] EXCEPT !.stopped = call.was]
      BY <1>7, <2>8 DEF StopNotWritten, Typed
    <3>2. Published' = Published
      BY <3>1 DEF Published
    <3>3. \A d \in Child : ~New(d)' /\ ~Launching(d)'
      BY <3>1 DEF New, Launching, Ready
    <3>4. \A d \in Child : child'[d].work # "starting"
      BY <1>1, <1>2, <2>2, <3>1 DEF ChildRecord
    <3>5. call'.step = "ready"
      BY <3>1 DEF Ready
    <3> QED
      BY <1>1, <2>1, <3>1, <3>2, <3>3, <3>4, <3>5 DEF Placed
  <2> QED
    BY <1>7, <2>3, <2>4, <2>5, <2>6, <2>7, <2>8
<1> QED
  BY <1>3, <1>4, <1>5, <1>6, <1>7 DEF Change, Goroutine

-----------------------------------------------------------------------------
(* What memory and disk say of a child stays in step.                      *)

LEMMA BeginFine ==
  ASSUME Typed, Placed, Children, NEW c \in Child, Begin(c)
  PROVE  Fine(c)'
<1> DEFINE n == Len(child[c].runs)
<1>1. /\ Launching(c) /\ Unborn(c) /\ session = "open" /\ Loaded(c)
      /\ Matching(c) /\ Current(c) /\ Stopped(c) /\ ~child[c].broken /\ child[c].work = "starting"
      /\ UNCHANGED session
  BY Starting DEF Begin
<1>2. /\ n \in 1..MaxRuns /\ Len(store[c].journal) = n - 1
      /\ store'[c].dir = store[c].dir /\ store'[c].halted = store[c].halted
      /\ store'[c].journal = Append(store[c].journal, "open")
      /\ child'[c] = [child[c] EXCEPT !.work = "running", !.runs = child'[c].runs]
      /\ Len(child'[c].runs) = n
      /\ child'[c].runs[n] = [NewRun EXCEPT !.id = n]
      /\ \A j \in 1..n : j # n => child'[c].runs[j] = child[c].runs[j]
      /\ call' = [call EXCEPT !.started = "begun"]
      /\ child'[c] \in ChildRecord
  <2>1. store'[c].dir = store[c].dir /\ store'[c].halted = store[c].halted
    BY BeginEffect
  <2>7. store'[c].journal = Append(store[c].journal, "open")
    BY BeginEffect
  <2>8. child'[c] \in ChildRecord
    BY BeginEffect
  <2>9. Len(child'[c].runs) = n
    BY BeginEffect
  <2>6. n \in 1..MaxRuns /\ Len(store[c].journal) = n - 1
    BY <1>1, Starting
  <2>2. child'[c] = [child[c] EXCEPT !.work = "running", !.runs = child'[c].runs]
    BY BeginEffect
  <2>3. child'[c].runs[n] = [NewRun EXCEPT !.id = n]
    BY BeginEffect
  <2>4. \A j \in 1..n : j # n => child'[c].runs[j] = child[c].runs[j]
    BY BeginEffect
  <2>5. call' = [call EXCEPT !.started = "begun"]
    BY BeginEffect
  <2> QED
    BY <2>1, <2>2, <2>3, <2>4, <2>5, <2>6, <2>7, <2>8, <2>9
<1>3. /\ child[c] \in ChildRecord /\ store[c] \in StoreRecord
      /\ store[c].journal \in Seq(RunStates)
  BY DEF Typed, StoreRecord
<1>4. /\ child'[c].work = "running" /\ child'[c].stopped = child[c].stopped
      /\ child'[c].broken = child[c].broken
  BY <1>2, <1>3 DEF ChildRecord
<1>5. call'.step = "launch" /\ call'.child = c /\ call'.started = "begun" /\ call'.fresh = call.fresh
  BY <1>1, <1>2, Shapes DEF Launching
<1>6. ~Unborn(c)' /\ Loaded(c)' /\ Begun(c)' = n /\ Begun(c) = n - 1
  BY <1>1, <1>2, <1>5 DEF Unborn, Loaded, Published, New, Launching, Begun
<1>7. /\ child'[c].runs[n].id = n
      /\ \A i \in DOMAIN store'[c].journal : i # n =>
           i \in DOMAIN store[c].journal /\ store'[c].journal[i] = store[c].journal[i]
      /\ Len(store'[c].journal) = n
  BY <1>2, <1>3 DEF NewRun
<1> HIDE DEF n
<1>8. Matching(c)'
  <2>1. \A k \in 1..n : child'[c].runs[k].id = k
    <3>1. n \in Nat
      BY <1>2, ChildAssumption
    <3>2. \A k \in 1..n : k # n => k \in 1..Begun(c)
      BY <1>6, <3>1
    <3>3. \A k \in 1..n : k # n => child'[c].runs[k].id = k
      BY <1>1, <1>2, <3>2 DEF Matching
    <3> QED
      BY <1>7, <3>3
  <2>2. child'[c].runs # <<>> /\ Len(child'[c].runs) = n
    BY <1>2 DEF ChildRecord
  <2> QED
    BY <1>2, <1>6, <1>7, <2>1, <2>2 DEF Matching
<1>9. Current(c)'
  <2>1. \A k \in 1..n : child'[c].runs[k].status = "running" => k = n
    BY <1>1, <1>2, <1>6 DEF Current
  <2>2. \A i \in DOMAIN store'[c].journal : store'[c].journal[i] = "open" => i = n
    BY <1>1, <1>7 DEF Current
  <2> QED
    BY <1>2, <1>4, <1>6, <1>7, <2>1, <2>2 DEF Current
<1>10. Stopped(c)'
  BY <1>1, <1>2, <1>4 DEF Stopped, Launching
<1>11. store'[c].dir # "none"
  BY <1>1, <1>2, <1>3 DEF Loaded, Published, New, Placed
<1> QED
  BY <1>2, <1>6, <1>7, <1>8, <1>9, <1>10, <1>11 DEF Fine

LEMMA RefusedFine ==
  ASSUME Typed, Placed, Children, NEW c \in Child, Refused(c)
  PROVE  Fine(c)'
<1> DEFINE n == Len(child[c].runs)
<1>1. /\ Launching(c) /\ Unborn(c) /\ session = "open" /\ Loaded(c)
      /\ Matching(c) /\ Current(c) /\ Stopped(c) /\ child[c].work = "starting"
      /\ ~child[c].broken => Len(store[c].journal) = n - 1
      /\ n \in 1..MaxRuns
      /\ UNCHANGED session
  BY Starting DEF Refused
<1>2. /\ \/ store'[c] = store[c] /\ child'[c].broken = child[c].broken
         \/ /\ ~child[c].broken /\ child'[c].broken
            /\ store'[c].dir = store[c].dir /\ store'[c].halted = store[c].halted
            /\ store'[c].journal = Append(store[c].journal, "open")
      /\ child'[c] = [child[c] EXCEPT !.work = "none", !.notify = TRUE,
                        !.cancelled = FALSE, !.broken = child'[c].broken]
      /\ call' = [call EXCEPT !.started = "failed"]
  BY RefusedEffect
<1>3. /\ child[c] \in ChildRecord /\ store[c] \in StoreRecord
      /\ store[c].journal \in Seq(RunStates)
  BY DEF Typed, StoreRecord
<1>4. /\ child'[c].work = "none" /\ child'[c].stopped = child[c].stopped
      /\ child'[c].runs = child[c].runs
  BY <1>2, <1>3 DEF ChildRecord
<1>5. call'.step = "launch" /\ call'.child = c /\ call'.started = "failed" /\ call'.fresh = call.fresh
  BY <1>1, <1>2, Shapes DEF Launching
<1>6. /\ Unborn(c)' /\ Loaded(c)' /\ Begun(c)' = n - 1 /\ Begun(c) = n - 1
      /\ store'[c].dir = store[c].dir /\ store'[c].halted = store[c].halted
  BY <1>1, <1>2, <1>4, <1>5 DEF Unborn, Loaded, Published, New, Launching, Begun
<1>7. \/ store'[c].journal = store[c].journal /\ child'[c].broken = child[c].broken
      \/ /\ child'[c].broken /\ Len(store'[c].journal) = n
  BY <1>1, <1>2, <1>3
<1> HIDE DEF n
<1>8. Matching(c)'
  <2>1. \A k \in 1..(n - 1) : child'[c].runs[k].id = k
    BY <1>1, <1>4, <1>6 DEF Matching
  <2>2. /\ child'[c].runs # <<>> /\ Last(child'[c].runs) = NewRun
        /\ Len(child'[c].runs) <= MaxRuns
    BY <1>1, <1>4 DEF Matching
  <2>3. /\ n - 1 <= Len(store'[c].journal) /\ Len(store'[c].journal) <= MaxRuns
        /\ ~child'[c].broken => Len(store'[c].journal) = n - 1
    <3>1. n \in Nat /\ MaxRuns \in Nat
      BY <1>1, ChildAssumption
    <3>2. Begun(c) <= Len(store[c].journal) /\ Len(store[c].journal) <= MaxRuns
      BY <1>1 DEF Matching
    <3> QED
      BY <1>1, <1>6, <1>7, <3>1, <3>2
  <2> QED
    BY <1>4, <1>6, <2>1, <2>2, <2>3 DEF Matching
<1>9. Current(c)'
  <2>1. \A k \in 1..(n - 1) : child'[c].runs[k].status # "running"
    BY <1>1, <1>4, <1>6 DEF Current
  <2>2. \A i \in DOMAIN store'[c].journal : store'[c].journal[i] = "open" => child'[c].broken
    BY <1>1, <1>7 DEF Current
  <2> QED
    BY <1>6, <2>1, <2>2 DEF Current
<1>10. Stopped(c)'
  BY <1>1, <1>4, <1>6 DEF Stopped, Launching
<1>11. store'[c].dir # "none"
  BY <1>1, <1>6, <1>3 DEF Loaded, Published, New, Placed
<1> QED
  BY <1>6, <1>8, <1>9, <1>10, <1>11 DEF Fine, Matching

LEMMA FinishFine ==
  ASSUME Typed, Placed, Children, NEW c \in Child, Finish(c)
  PROVE  Fine(c)'
<1>1. /\ Loaded(c) /\ Matching(c) /\ Current(c) /\ Stopped(c) /\ child[c].work = "running"
      /\ UNCHANGED <<session, call>>
  BY InMemory DEF Finish
<1>2. /\ child'[c] = [child[c] EXCEPT !.work = "ended", !.broken = child'[c].broken]
      /\ \/ child'[c].broken /\ store'[c] = store[c]
         \/ /\ child'[c].broken = child[c].broken
            /\ store'[c].dir = store[c].dir /\ store'[c].halted = store[c].halted
            /\ Len(store'[c].journal) = Len(store[c].journal)
            /\ \A i \in DOMAIN store[c].journal : store'[c].journal[i] =
                 IF i = Len(store[c].journal) THEN "finished" ELSE store[c].journal[i]
      /\ store'[c] \in StoreRecord
  BY FinishEffect
<1>3. child[c] \in ChildRecord /\ store[c] \in StoreRecord
  BY DEF Typed, StoreRecord
<1>4. /\ child'[c].work = "ended" /\ child'[c].stopped = child[c].stopped
      /\ child'[c].runs = child[c].runs
  BY <1>2, <1>3 DEF ChildRecord
<1>5. /\ ~Unborn(c)
      /\ Unborn(c)' <=> Unborn(c)
      /\ Loaded(c)' /\ Begun(c)' = Begun(c)
      /\ store'[c].dir = store[c].dir /\ store'[c].halted = store[c].halted
      /\ Len(store'[c].journal) = Len(store[c].journal)
  BY <1>1, <1>2, <1>4 DEF Unborn, Loaded, Published, New, Launching, Begun, Matching
<1>6. Matching(c)'
  BY <1>1, <1>2, <1>4, <1>5 DEF Matching
<1>7. Current(c)'
  <2>1. \A i \in DOMAIN store'[c].journal : store'[c].journal[i] = "open" => child'[c].broken
    <3>1. DOMAIN store'[c].journal = DOMAIN store[c].journal
      BY <1>2, <1>3, <1>5 DEF StoreRecord
    <3> QED
      BY <1>1, <1>2, <3>1 DEF Current
  <2>2. \A k \in 1..Begun(c)' : child'[c].runs[k].status = "running" => k = Len(child'[c].runs)
    BY <1>1, <1>4, <1>5 DEF Current
  <2> QED
    BY <1>4, <2>1, <2>2 DEF Current
<1>8. Stopped(c)'
  BY <1>1, <1>4, <1>5 DEF Stopped
<1>9. store'[c].dir # "none"
  BY <1>1, <1>3, <1>5 DEF Loaded, Published, New, Placed
<1> QED
  BY <1>5, <1>6, <1>7, <1>8, <1>9 DEF Fine, Matching

LEMMA RetireFine ==
  ASSUME Typed, Placed, Children, NEW c \in Child, Retire(c)
  PROVE  Fine(c)'
<1> DEFINE n == Len(child[c].runs)
<1>1. /\ Loaded(c) /\ Matching(c) /\ Current(c) /\ Stopped(c) /\ child[c].work = "ended"
      /\ child[c].runs # <<>>
      /\ UNCHANGED <<session, call, store>>
  BY InMemory DEF Retire
<1>2. /\ child'[c] = [child[c] EXCEPT !.work = "none", !.notify = TRUE, !.cancelled = FALSE,
                                      !.runs = child'[c].runs]
      /\ Len(child'[c].runs) = n
      /\ \A j \in 1..n : child'[c].runs[j] =
           IF j = n THEN [child[c].runs[n] EXCEPT !.status = "finished"] ELSE child[c].runs[j]
      /\ child'[c] \in ChildRecord
  BY <1>1, RetireEffect
<1>3. /\ child[c] \in ChildRecord /\ store[c] \in StoreRecord
      /\ child[c].runs \in Seq(RunRecord) /\ n \in Nat /\ n > 0
  <2>1. child[c] \in ChildRecord /\ store[c] \in StoreRecord
    BY DEF Typed, StoreRecord
  <2> QED
    BY <1>1, <2>1, EmptySeq DEF ChildRecord
<1>4. child[c].runs[n] \in RunRecord
  BY <1>3
<1>5. /\ child'[c].work = "none" /\ child'[c].stopped = child[c].stopped
      /\ child'[c].broken = child[c].broken
  BY <1>2, <1>3 DEF ChildRecord
<1>6. /\ ~Unborn(c) /\ ~Unborn(c)'
      /\ Loaded(c)' /\ Begun(c) = n /\ Begun(c)' = n
  BY <1>1, <1>2 DEF Unborn, Loaded, Published, New, Launching, Begun, Matching
<1>7. /\ \A j \in 1..n : child'[c].runs[j].id = child[c].runs[j].id
      /\ \A j \in 1..n : j # n => child'[c].runs[j].status = child[c].runs[j].status
      /\ child'[c].runs[n].status = "finished"
  <2>1. /\ [child[c].runs[n] EXCEPT !.status = "finished"].id = child[c].runs[n].id
        /\ [child[c].runs[n] EXCEPT !.status = "finished"].status = "finished"
    BY <1>4 DEF RunRecord
  <2>2. n \in 1..n
    BY <1>3
  <2> HIDE DEF n
  <2> QED
    BY <1>2, <2>1, <2>2
<1> HIDE DEF n
<1>8. Matching(c)'
  <2>1. \A k \in 1..n : child'[c].runs[k].id = k
    BY <1>1, <1>6, <1>7 DEF Matching
  <2>2. child'[c].runs # <<>> /\ Len(child'[c].runs) <= MaxRuns
    <3>1. Len(child'[c].runs) # 0 /\ Len(child[c].runs) = n
      BY <1>2, <1>3 DEF n
    <3> QED
      BY <1>1, <1>2, <3>1, EmptySeq DEF Matching
  <2>3. /\ n <= Len(store'[c].journal) /\ Len(store'[c].journal) <= MaxRuns
        /\ ~child'[c].broken => Len(store'[c].journal) = n
    BY <1>1, <1>5, <1>6 DEF Matching
  <2> QED
    BY <1>6, <2>1, <2>2, <2>3 DEF Matching
<1>9. Current(c)'
  <2>1. \A k \in 1..n : child'[c].runs[k].status # "running"
    BY <1>1, <1>6, <1>7 DEF Current, n
  <2>2. \A i \in DOMAIN store'[c].journal : store'[c].journal[i] = "open" => child'[c].broken
    BY <1>1, <1>5 DEF Current
  <2> QED
    BY <1>6, <2>1, <2>2 DEF Current
<1>10. Stopped(c)'
  BY <1>1, <1>5 DEF Stopped
<1>11. store'[c].dir # "none"
  BY <1>1, <1>3 DEF Loaded, Published, New, Placed
<1> QED
  BY <1>1, <1>6, <1>8, <1>9, <1>10, <1>11 DEF Fine, Matching

LEMMA LaunchFine ==
  ASSUME Typed, Placed, Children, NEW c \in Child, Start(c) \/ Send(c)
  PROVE  Fine(c)'
<1> DEFINE n == Len(child[c].runs)
<1>1. PICK fresh \in BOOLEAN :
        /\ call' = [step |-> "launch", child |-> c, fresh |-> fresh, started |-> "none"]
        /\ fresh => store[c].dir = "none" /\ store'[c] = [store[c] EXCEPT !.dir = "staging"]
        /\ ~fresh => c \in group /\ store'[c] = store[c]
  BY LaunchEffect, Zenon
<1>2. /\ session = "open" /\ call = Ready /\ ~child[c].stopped /\ ~Running(c)
      /\ n < MaxRuns
      /\ child'[c] = [child[c] EXCEPT !.runs = Append(child[c].runs, NewRun), !.work = "starting"]
      /\ child'[c].runs = Append(child[c].runs, NewRun)
      /\ session' = session
  BY LaunchEffect DEF Between, Start, Send
<1>3. /\ child[c] \in ChildRecord /\ store[c] \in StoreRecord
      /\ child[c].runs \in Seq(RunRecord) /\ n \in Nat /\ MaxRuns \in Nat
  BY ChildAssumption DEF Typed, StoreRecord, ChildRecord
<1>4. /\ Len(child'[c].runs) = n + 1 /\ child'[c].runs[n + 1] = NewRun
      /\ \A k \in 1..n : child'[c].runs[k] = child[c].runs[k]
      /\ child'[c].runs # <<>>
  BY <1>2, <1>3
<1>5. /\ child'[c].work = "starting" /\ child'[c].stopped = child[c].stopped
      /\ child'[c].broken = child[c].broken
  BY <1>2, <1>3 DEF ChildRecord
<1>6. Unborn(c)' /\ Begun(c)' = n /\ (New(c)' <=> fresh) /\ ~Stopping(c) /\ ~Stopping(c)'
  BY <1>1, <1>2, <1>3, <1>4 DEF Unborn, Launching, New, Stopping, Begun, Ready
<1>7. ~New(c) /\ ~Unborn(c) /\ Begun(c) = n
  BY <1>2 DEF New, Unborn, Launching, Ready, Begun
<1>8. /\ store'[c].halted = store[c].halted /\ store'[c].journal = store[c].journal
      /\ store'[c].dir # "none" /\ Loaded(c)'
      /\ \A k \in 1..n : child[c].runs[k].id = k /\ child[c].runs[k].status # "running"
      /\ n <= Len(store[c].journal) /\ Len(store[c].journal) <= MaxRuns
      /\ ~child[c].broken => Len(store[c].journal) = n
      /\ \A i \in DOMAIN store[c].journal : store[c].journal[i] = "open" => child[c].broken
      /\ ~store[c].halted
  <2>1. CASE fresh
    <3>1. store[c] = Absent
      BY <1>1, <2>1 DEF Children, Fine
    <3>2. ~Loaded(c) /\ Vacant(c)
      BY <1>7, <3>1, InMemory DEF Loaded, Published, Absent
    <3>3. n = 0 /\ Len(store[c].journal) = 0 /\ ~store[c].halted
      BY <3>1, <3>2 DEF Vacant, Absent
    <3>4. DOMAIN store[c].journal = {}
      BY <3>1 DEF Absent
    <3>5. store'[c].dir = "staging" /\ store'[c].halted = store[c].halted
          /\ store'[c].journal = store[c].journal
      BY <1>1, <1>3, <2>1 DEF StoreRecord
    <3>6. Loaded(c)'
      BY <1>2, <1>6, <2>1 DEF Loaded
    <3> HIDE DEF n
    <3> QED
      BY <1>3, <3>3, <3>4, <3>5, <3>6
  <2>2. CASE ~fresh
    <3>1. Loaded(c) /\ Matching(c) /\ Current(c) /\ Stopped(c) /\ c \in group
      BY <1>1, <2>2, InMemory
    <3>2. store'[c] = store[c] /\ Loaded(c)' /\ store'[c].dir # "none"
      BY <1>1, <1>2, <1>3, <2>2, <3>1 DEF Loaded, Published, Placed, StoreRecord
    <3> HIDE DEF n
    <3> QED
      BY <1>2, <1>7, <3>1, <3>2 DEF Matching, Current, Stopped, Running
  <2> QED
    BY <2>1, <2>2
<1> HIDE DEF n
<1>9. Matching(c)'
  <2>1. Last(child'[c].runs) = NewRun
    BY <1>4 DEF Last
  <2>2. Len(child'[c].runs) <= MaxRuns
    BY <1>2, <1>3, <1>4 DEF n
  <2> QED
    BY <1>4, <1>5, <1>6, <1>8, <2>1, <2>2 DEF Matching
<1>10. Current(c)'
  BY <1>4, <1>5, <1>6, <1>8 DEF Current
<1>11. Stopped(c)'
  BY <1>2, <1>5, <1>8 DEF Stopped
<1> QED
  BY <1>8, <1>9, <1>10, <1>11 DEF Fine

LEMMA LaunchFailedFine ==
  ASSUME Typed, Placed, Children, LaunchFailed, NEW c \in Child, c = call.child
  PROVE  Fine(c)'
<1> DEFINE n == Len(child[c].runs)
<1>1. /\ Launching(c) /\ Unborn(c) /\ call.started = "failed" /\ session' = session
  BY DEF LaunchFailed, Launching, Unborn
<1>2. /\ Loaded(c) /\ Matching(c) /\ Current(c) /\ Stopped(c) /\ child[c].runs # <<>>
      /\ child[c].work = "none" /\ session = "open"
  BY <1>1, InMemory DEF Matching, Placed
<1>3. /\ child'[c] = [child[c] EXCEPT !.runs = child'[c].runs]
      /\ store' = store
      /\ call' = IF call.fresh THEN [step |-> "discard", child |-> c] ELSE Ready
  BY <1>2, LaunchFailedEffect
<1>4. /\ Len(child'[c].runs) = n - 1
      /\ \A j \in 1..n - 1 : child'[c].runs[j] = child[c].runs[j]
  <2>1. Len(child'[c].runs) = Len(child[c].runs) - 1
    BY <1>2, LaunchFailedEffect
  <2>2. ASSUME NEW j \in 1..Len(child[c].runs) - 1
        PROVE  child'[c].runs[j] = child[c].runs[j]
    BY <1>2, LaunchFailedEffect
  <2> QED
    BY <2>1, <2>2
<1>5. /\ child[c] \in ChildRecord /\ store[c] \in StoreRecord
      /\ child[c].runs \in Seq(RunRecord) /\ n \in Nat /\ MaxRuns \in Nat
  BY ChildAssumption DEF Typed, StoreRecord, ChildRecord
<1>6. /\ child'[c].work = "none" /\ child'[c].stopped = child[c].stopped
      /\ child'[c].broken = child[c].broken
  BY <1>2, <1>3, <1>5 DEF ChildRecord
<1>7. /\ ~Unborn(c)' /\ (New(c)' <=> New(c)) /\ Begun(c) = n - 1 /\ Begun(c)' = n - 1
      /\ ~Stopping(c)
  BY <1>1, <1>3, <1>4 DEF Unborn, Launching, New, Begun, Ready, Stopping
<1>8. Loaded(c)' /\ store[c].dir # "none"
  BY <1>1, <1>2, <1>3, <1>5, <1>7 DEF Loaded, Published, Placed, StoreRecord
<1> HIDE DEF n
<1>9. Matching(c)'
  BY <1>2, <1>3, <1>4, <1>5, <1>6, <1>7 DEF Matching, n
<1>10. Current(c)'
  BY <1>2, <1>3, <1>4, <1>6, <1>7 DEF Current
<1>11. Stopped(c)'
  BY <1>2, <1>3, <1>6, <1>7 DEF Stopped, Stopping
<1> QED
  BY <1>3, <1>8, <1>9, <1>10, <1>11 DEF Fine, Matching

\* Where the runs, the worker and the journal of a child are untouched.
LEMMA FlagsFine ==
  ASSUME NEW c \in Child, Fine(c), Loaded(c), Loaded(c)', Unborn(c)' <=> Unborn(c),
         child'[c].runs = child[c].runs, child'[c].work = child[c].work,
         child'[c].broken = child[c].broken, store'[c].journal = store[c].journal,
         store'[c].dir # "none", Stopped(c)'
  PROVE  Fine(c)'
<1>1. Begun(c)' = Begun(c)
  BY DEF Begun
<1>2. Matching(c)'
  BY <1>1 DEF Fine, Matching
<1>3. Current(c)'
  BY <1>1 DEF Fine, Current
<1> QED
  BY <1>2, <1>3 DEF Fine

LEMMA FlagStepFine ==
  ASSUME Typed, Placed, Children, NEW c \in Child,
         \/ Stop(c)
         \/ call.child = c /\ (PublishFails \/ StopWritten \/ StopNotWritten \/ Publish)
  PROVE  Fine(c)'
<1>1. child[c] \in ChildRecord /\ store[c] \in StoreRecord /\ Fine(c)
  BY DEF Typed, StoreRecord, Children
<1>2. CASE Stop(c)
  <2>1. /\ Loaded(c) /\ Stopped(c) /\ store' = store /\ session' = session
        /\ child'[c] = [child[c] EXCEPT !.stopped = TRUE] /\ call = Ready
        /\ call' = [step |-> "stop", child |-> c, was |-> child[c].stopped]
    BY <1>2, InMemory DEF Stop, Between, Typed
  <2>2. /\ child'[c].runs = child[c].runs /\ child'[c].work = child[c].work
        /\ child'[c].broken = child[c].broken /\ child'[c].stopped
    BY <1>1, <2>1 DEF ChildRecord
  <2>3. /\ Loaded(c)' /\ (Unborn(c)' <=> Unborn(c)) /\ Stopped(c)' /\ store[c].dir # "none"
    BY <2>1, <2>2 DEF Loaded, Published, New, Unborn, Launching, Stopped, Ready
  <2> QED
    BY <1>1, <2>1, <2>2, <2>3, FlagsFine
<1>3. CASE call.child = c /\ PublishFails
  <2>1. /\ New(c) /\ call.step = "publish" /\ store' = store /\ session' = session
        /\ child'[c] = [child[c] EXCEPT !.cancelled = Running(c)]
        /\ call' = [call EXCEPT !.step = "discard"]
    BY <1>3 DEF PublishFails, New, Typed
  <2>2. /\ child'[c].runs = child[c].runs /\ child'[c].work = child[c].work
        /\ child'[c].broken = child[c].broken /\ child'[c].stopped = child[c].stopped
    BY <1>1, <2>1 DEF ChildRecord
  <2>3. Loaded(c) /\ Stopped(c)
    BY <2>1, InMemory
  <2>4. call'.step = "discard" /\ call'.child = c
    BY <1>3, <2>1, Shapes
  <2>5. /\ Loaded(c)' /\ (Unborn(c)' <=> Unborn(c)) /\ Stopped(c)' /\ store[c].dir # "none"
    BY <2>1, <2>2, <2>3, <2>4 DEF Loaded, Published, New, Unborn, Launching, Stopped, Placed
  <2> QED
    BY <1>1, <2>1, <2>2, <2>3, <2>5, FlagsFine
<1>4. CASE call.child = c /\ (StopWritten \/ StopNotWritten)
  <2>1. /\ call.step = "stop" /\ session' = session /\ c \in group
        /\ child[c].stopped /\ call.was = store[c].halted
    BY <1>4 DEF StopWritten, StopNotWritten, Placed
  <2>2. Loaded(c) /\ Stopped(c) /\ session = "open"
    BY <2>1, InMemory
  <2>3. /\ child'[c] = [child[c] EXCEPT !.stopped = child'[c].stopped,
                                        !.cancelled = child'[c].cancelled]
        /\ store'[c] = [store[c] EXCEPT !.halted = store'[c].halted]
    BY <1>4, FlagEffect
  <2>4. /\ child'[c].runs = child[c].runs /\ child'[c].work = child[c].work
        /\ child'[c].broken = child[c].broken
        /\ store'[c].journal = store[c].journal /\ store'[c].dir = store[c].dir
    BY <1>1, <2>3 DEF ChildRecord, StoreRecord
  <2>5. ~Unborn(c) /\ ~Unborn(c)' /\ ~New(c)' /\ ~Stopping(c)'
    BY <1>4, <2>1 DEF StopWritten, StopNotWritten, Unborn, Launching, New, Stopping, Ready
  <2>6. Loaded(c)' /\ store[c].dir # "none"
    BY <2>1, <2>2, <2>4, <2>5 DEF Loaded, Published, Placed
  <2>7. child'[c].stopped = store'[c].halted
    <3>1. CASE StopWritten
      <4>1. /\ child'[c] = [child[c] EXCEPT !.cancelled = Running(c)]
            /\ store'[c] = [store[c] EXCEPT !.halted = TRUE]
        BY <1>4, <3>1 DEF StopWritten, Typed
      <4> QED
        BY <1>1, <2>1, <4>1 DEF ChildRecord, StoreRecord
    <3>2. CASE StopNotWritten
      <4>1. child'[c] = [child[c] EXCEPT !.stopped = call.was] /\ store' = store
        BY <1>4, <3>2 DEF StopNotWritten, Typed
      <4> QED
        BY <1>1, <2>1, <4>1 DEF ChildRecord
    <3> QED
      BY <1>4, <3>1, <3>2
  <2>8. Stopped(c)'
    BY <2>7 DEF Stopped
  <2> QED
    BY <1>1, <2>2, <2>4, <2>5, <2>6, <2>8, FlagsFine
<1>5. CASE call.child = c /\ Publish
  <2>1. /\ New(c) /\ session' = session /\ child' = child /\ call' = Results({}, {})
        /\ call.step = "publish"
        /\ store'[c] = [store[c] EXCEPT !.dir = "published"]
    BY <1>5, PublishEffect DEF Publish, New
  <2>2. Loaded(c) /\ Stopped(c) /\ session = "open"
    BY <2>1, InMemory
  <2>3. /\ store'[c].journal = store[c].journal /\ store'[c].dir = "published"
        /\ store'[c].halted = store[c].halted
    BY <1>1, <2>1 DEF StoreRecord
  <2>4. /\ Loaded(c)' /\ ~Unborn(c) /\ ~Unborn(c)' /\ Stopped(c)'
    BY <2>1, <2>2, <2>3 DEF Loaded, Published, New, Unborn, Launching, Stopped, Results
  <2> QED
    BY <1>1, <2>1, <2>2, <2>3, <2>4, FlagsFine
<1> QED
  BY <1>2, <1>3, <1>4, <1>5

LEMMA NotifyFine ==
  ASSUME Typed, Placed, Children, NEW c \in Child, Notify(c)
  PROVE  Fine(c)'
<1>1. child[c] \in ChildRecord /\ Fine(c)
  BY DEF Typed, Children
<1>2. /\ child'[c] = [child[c] EXCEPT !.notify = FALSE] /\ store' = store
      /\ \/ call' = call
         \/ call.step \in {"look", "wait"} /\ call' = [call EXCEPT !.woken = TRUE]
  BY NotifyEffect
<1>3. /\ child'[c].runs = child[c].runs /\ child'[c].work = child[c].work
      /\ child'[c].broken = child[c].broken /\ child'[c].stopped = child[c].stopped
      /\ child'[c].cancelled = child[c].cancelled
  BY <1>1, <1>2 DEF ChildRecord
<1>4. call' = call \/ (call.step \in {"look", "wait"} /\ call'.step = call.step)
  BY <1>2, Shapes
<1>5. (New(c)' <=> New(c)) /\ (Unborn(c)' <=> Unborn(c)) /\ (Stopping(c)' <=> Stopping(c))
  BY <1>4 DEF New, Unborn, Launching, Stopping
<1>6. Loaded(c)' <=> Loaded(c)
  BY <1>2, <1>5 DEF Notify, Loaded, Published
<1>7. CASE Loaded(c)
  <2>1. Stopped(c)'
    BY <1>1, <1>2, <1>3, <1>5, <1>7 DEF Fine, Stopped, Stopping
  <2>2. store[c].dir # "none"
    BY <1>7 DEF Loaded, Published, Placed
  <2> QED
    BY <1>1, <1>2, <1>3, <1>5, <1>6, <1>7, <2>1, <2>2, FlagsFine
<1>8. CASE ~Loaded(c)
  BY <1>1, <1>2, <1>3, <1>6, <1>8 DEF Fine, Vacant
<1> QED
  BY <1>7, <1>8

LEMMA DiscardFine ==
  ASSUME Typed, Placed, Children, Discard, NEW c \in Child, c = call.child
  PROVE  Fine(c)'
<1>1. /\ call' = Ready /\ store'[c] = Absent
      /\ child'[c] = [Unloaded EXCEPT !.notify = child[c].notify]
  BY DiscardEffect
<1>2. ~Loaded(c)'
  BY <1>1 DEF Loaded, Published, New, Absent, Ready
<1>3. Vacant(c)'
  BY <1>1 DEF Vacant, Unloaded
<1>4. Len(store'[c].journal) <= MaxRuns
  <2>1. store'[c].journal = <<>>
    BY <1>1 DEF Absent
  <2> QED
    BY <2>1, ChildAssumption, EmptySeq
<1> QED
  BY <1>1, <1>2, <1>3, <1>4 DEF Fine

LEMMA ChangeFine ==
  ASSUME Typed, Placed, Children, NEW c \in Child, Change(c)
  PROVE  Children'
<1>1. Fine(c)'
  BY BeginFine, RefusedFine, FinishFine, RetireFine, NotifyFine, LaunchFine, FlagStepFine,
     LaunchFailedFine, DiscardFine DEF Change, Goroutine
<1>2. ASSUME NEW d \in Child \ {c}
      PROVE  Fine(d)'
  <2>1. /\ store'[d] = store[d] /\ child'[d] = child[d] /\ session' = session
        /\ New(d)' <=> New(d)
        /\ Unborn(d)' <=> Unborn(d)
        /\ Stopping(d)' <=> Stopping(d)
    BY ChangeFrame, OthersSeen
  <2>2. Fine(d)
    BY DEF Children
  <2> QED
    BY <2>1, <2>2, FineKept
<1> QED
  BY <1>1, <1>2 DEF Children

\* Marking runs, the parent's thread works on no child.
LEMMA MarkSees ==
  ASSUME Typed, Placed, MarkStep
  PROVE  /\ session = "open"
         /\ call.step \in {"idle", "acknowledge", "commit"}
         /\ call'.step \in {"ready", "tell"}
         /\ \A c \in Child : /\ ~New(c) /\ ~New(c)'
                             /\ ~Unborn(c) /\ ~Unborn(c)'
                             /\ ~Stopping(c) /\ ~Stopping(c)'
                             /\ ~Launching(c)'
<1>1. call.step \in {"idle", "acknowledge", "commit"}
  BY DEF MarkStep, StartRun, Acknowledge, TellCommitted, Outside
<1>2. call'.step \in {"ready", "tell"}
  BY DEF MarkStep, StartRun, Acknowledge, TellCommitted, Ready
<1>3. session = "open"
  BY DEF MarkStep, StartRun, Acknowledge, TellCommitted, Placed, Outside
<1> QED
  BY <1>1, <1>2, <1>3 DEF New, Unborn, Stopping, Launching

\* The parent's journal grows, and no child is worked on.
LEMMA MailSees ==
  ASSUME Typed, Placed, Reply \/ Tell
  PROVE  /\ session = "open" /\ UNCHANGED <<store, child, group, session, restarts, interrupted>>
         /\ call.step \in {"reply", "tell"}
         /\ call'.step \in {"acknowledge", "commit"}
         /\ \A c \in Child : /\ ~New(c) /\ ~New(c)'
                             /\ ~Unborn(c) /\ ~Unborn(c)'
                             /\ ~Stopping(c) /\ ~Stopping(c)'
                             /\ ~Launching(c)'
<1>1. call.step \in {"reply", "tell"} /\ UNCHANGED <<store, child, group, session, restarts, interrupted>>
  BY DEF Reply, Tell
<1>2. call'.step \in {"acknowledge", "commit"}
  BY Shapes DEF Reply, Tell
<1>3. session = "open"
  BY <1>1 DEF Placed, Outside
<1> QED
  BY <1>1, <1>2, <1>3 DEF New, Unborn, Stopping, Launching

\* Opening and leaving a session, nobody works on a child.
LEMMA LifeSees ==
  ASSUME Typed, Placed, Life
  PROVE  /\ call' = Outside
         /\ call # Outside => Crash
         /\ \A c \in Child : ~New(c)' /\ ~Unborn(c)' /\ ~Stopping(c)' /\ ~Launching(c)'
         /\ group' = IF session' = "open" THEN Published ELSE {}
         /\ \A c \in Child : store'[c].dir = store[c].dir
<1>1. call' = Outside /\ (call # Outside => Crash)
  BY DEF Life, Left, Load, LoadFails, Crash, Leave, Placed
<1>2. \A c \in Child : ~New(c)' /\ ~Unborn(c)' /\ ~Stopping(c)' /\ ~Launching(c)'
  BY <1>1 DEF New, Unborn, Stopping, Launching, Outside
<1>3. group' = IF session' = "open" THEN Published ELSE {}
  BY DEF Life, Left, Load, LoadFails, Crash, Leave, Placed
<1>4. \A c \in Child : store'[c].dir = store[c].dir
  <2>1. store \in [Child -> StoreRecord]
    BY DEF Typed, StoreRecord
  <2>2. \A c \in Child : Reconciled(c).dir = store[c].dir
    BY <2>1 DEF Reconciled, StoreRecord
  <2>3. CASE Load \/ LoadFails
    BY <2>2, <2>3 DEF Load, LoadFails
  <2>4. CASE ~(Load \/ LoadFails)
    BY <2>4 DEF Life, Left, Crash, Leave
  <2> QED
    BY <2>3, <2>4
<1> QED
  BY <1>1, <1>2, <1>3, <1>4

LEMMA StepPlaced ==
  ASSUME Typed, Placed, Children, [Next]_vars
  PROVE  Placed'
<1>1. CASE Turn
  <2>1. Published' = Published /\ UNCHANGED <<store, child, group, session>>
    BY <1>1, TurnFrame DEF Published
  <2>2. \A c \in Child : Launching(c)' => call' = call
    BY <1>1, TurnSees DEF Launching
  <2>3. session # "open" => call' = Outside
    BY <1>1, TurnSees DEF Placed
  <2>4. call'.step \in {"look", "wait"} => call'.asked \subseteq group
    BY <1>1, TurnSees DEF Placed
  <2>5. call'.step \in {"stop", "stopped"} => call' = call
    BY <1>1, TurnSees
  <2>6. ASSUME NEW c \in Child, child[c].work = "starting"
        PROVE  call' = call
    BY <1>1, <2>6, TurnSees DEF Placed, Launching
  <2>7. \A c \in Child : New(c)' <=> New(c)
    BY <1>1, TurnSees
  <2> QED
    BY <2>1, <2>2, <2>3, <2>4, <2>5, <2>6, <2>7 DEF Placed, Launching
<1>2. CASE MarkStep
  <2>1. \A c \in Child : child'[c].work # "starting"
    <3>1. \A c \in Child : child[c].work # "starting"
      BY <1>2, MarkSees DEF Placed, Launching
    <3>2. PICK R : child' = Marked(R)
      BY <1>2, MarkCalls
    <3>3. \A c \in Child : child'[c] = [child[c] EXCEPT !.runs = child'[c].runs]
      BY <3>2, MarkedRuns
    <3> QED
      BY <3>1, <3>3 DEF Typed, ChildRecord
  <2>2. Published' = Published /\ UNCHANGED <<store, group, session>>
    BY <1>2, MarkFrame DEF Published
  <2> QED
    BY <1>2, <2>1, <2>2, MarkSees DEF Placed
<1>3. CASE Reply \/ Tell
  <2>1. \A c \in Child : child'[c].work # "starting"
    BY <1>3, MailSees DEF Placed, Launching
  <2>2. Published' = Published
    BY <1>3, MailSees DEF Published
  <2> QED
    BY <1>3, <2>1, <2>2, MailSees DEF Placed
<1>4. CASE Life
  <2>1. Published' = Published
    BY <1>4, LifeSees DEF Published
  <2>2. call'.step = "idle" /\ call' = Outside
    BY <1>4, LifeSees DEF Outside
  <2>3. ASSUME NEW c \in Child
        PROVE  child'[c].work # "starting"
    <3>1. child[c].work # "starting" \/ Crash
      BY <1>4, LifeSees DEF Placed, Launching, Outside
    <3>2. Len(store[c].journal) <= MaxRuns
      BY DEF Children, Fine
    <3>3. Restored(c).work = "none"
      BY <3>2, OpenedEffect
    <3>4. child[c] \in ChildRecord
      BY DEF Typed
    <3>5. CASE Left \/ Crash
      BY <3>5 DEF Left, Crash, Unloaded
    <3>6. CASE Load
      BY <3>1, <3>3, <3>6 DEF Load, Crash
    <3>7. CASE LoadFails
      BY <3>1, <3>7 DEF LoadFails, Crash, Unloaded
    <3>8. CASE \E how \in {"closing", "leaving"} : Leave(how)
      BY <3>1, <3>4, <3>8 DEF Leave, Crash, ChildRecord, Unloaded
    <3> QED
      BY <1>4, <3>5, <3>6, <3>7, <3>8 DEF Life
  <2> QED
    BY <1>4, <2>1, <2>2, <2>3, LifeSees DEF Placed
<1>5. CASE UNCHANGED vars
  BY <1>5 DEF vars, parent, Placed, Published, New, Launching
<1> QED
  BY <1>1, <1>2, <1>3, <1>4, <1>5, NextCases, ChangePlaced

LEMMA MarkFine ==
  ASSUME Typed, Placed, Children, MarkStep, NEW c \in Child
  PROVE  Fine(c)'
<1>1. /\ Fine(c) /\ UNCHANGED <<store, session>>
      /\ ~New(c) /\ ~New(c)' /\ ~Unborn(c) /\ ~Unborn(c)' /\ ~Stopping(c) /\ ~Stopping(c)'
  BY MarkFrame, MarkSees DEF Children
<1>2. PICK R : child' = Marked(R)
  BY MarkCalls
<1>3. /\ child'[c] = [child[c] EXCEPT !.runs = child'[c].runs]
      /\ Len(child'[c].runs) = Len(child[c].runs)
      /\ DOMAIN child'[c].runs = DOMAIN child[c].runs
      /\ \A k \in DOMAIN child[c].runs :
           /\ child'[c].runs[k].id = child[c].runs[k].id
           /\ child'[c].runs[k].status = child[c].runs[k].status
      /\ child'[c] \in ChildRecord
  <2>1. Marked(R) \in [Child -> ChildRecord]
    BY MarkedRuns
  <2>2. child'[c] \in ChildRecord
    BY <1>2, <2>1
  <2>3. /\ child'[c] = [child[c] EXCEPT !.runs = child'[c].runs]
        /\ Len(child'[c].runs) = Len(child[c].runs)
        /\ DOMAIN child'[c].runs = DOMAIN child[c].runs
    BY <1>2, MarkedRuns
  <2>4. ASSUME NEW k \in DOMAIN child[c].runs
        PROVE  /\ child'[c].runs[k].id = child[c].runs[k].id
               /\ child'[c].runs[k].status = child[c].runs[k].status
    BY <1>2, MarkedRun
  <2> QED
    BY <2>2, <2>3, <2>4
<1>4. child[c] \in ChildRecord
  BY DEF Typed
<1>5. /\ child'[c].work = child[c].work /\ child'[c].stopped = child[c].stopped
      /\ child'[c].broken = child[c].broken /\ child'[c].cancelled = child[c].cancelled
  BY <1>3, <1>4 DEF ChildRecord
<1>6. child[c].runs = <<>> <=> child'[c].runs = <<>>
  BY <1>3, <1>4, EmptySeq DEF ChildRecord
<1>7. /\ Loaded(c)' <=> Loaded(c)
      /\ Begun(c)' = Begun(c) /\ Begun(c) = Len(child[c].runs)
      /\ DOMAIN child[c].runs = 1..Len(child[c].runs)
  BY <1>1, <1>3, <1>4 DEF Loaded, Published, Begun, ChildRecord
<1>8. Matching(c) => Matching(c)'
  BY <1>1, <1>3, <1>5, <1>6, <1>7 DEF Matching
<1>9. Current(c) => Current(c)'
  BY <1>1, <1>3, <1>5, <1>7 DEF Current
<1>10. Stopped(c) => Stopped(c)'
  BY <1>1, <1>5 DEF Stopped, Stopping
<1>11. Vacant(c) => Vacant(c)'
  BY <1>5, <1>6 DEF Vacant
<1> QED
  BY <1>1, <1>7, <1>8, <1>9, <1>10, <1>11 DEF Fine

LEMMA LifeFine ==
  ASSUME Typed, Placed, Children, Life, NEW c \in Child
  PROVE  Fine(c)'
<1>1. /\ Fine(c) /\ Len(store[c].journal) <= MaxRuns
      /\ child[c] \in ChildRecord /\ store[c] \in StoreRecord
      /\ Len(store[c].journal) \in Nat
  BY DEF Children, Fine, Typed, StoreRecord
<1>2. ~New(c)' /\ ~Unborn(c)' /\ ~Stopping(c)' /\ (call # Outside => Crash)
  BY LifeSees
<1>3. CASE Left \/ Crash
  <2>1. /\ store' = store /\ session' \in {"away", "down"}
        /\ child'[c] = Unloaded \/ child'[c] = [Unloaded EXCEPT !.notify = child'[c].notify]
    BY <1>3 DEF Left, Crash, Unloaded
  <2>2. Vacant(c)'
    BY <2>1 DEF Vacant, Unloaded
  <2>3. ~Loaded(c)'
    BY <2>1 DEF Loaded
  <2> QED
    BY <1>1, <2>1, <2>2, <2>3 DEF Fine
<1>4. CASE Load
  <2>1. /\ session' = "open" /\ session \in {"down", "away"}
        /\ store'[c] = IF c \in Published THEN Reconciled(c) ELSE store[c]
        /\ child'[c] = IF c \in Published THEN Restored(c) ELSE child[c]
    BY <1>4 DEF Load
  <2>2. CASE c \notin Published
    <3>1. ~Loaded(c) /\ ~Loaded(c)' /\ store'[c] = store[c] /\ child'[c] = child[c]
      BY <1>2, <2>1, <2>2 DEF Loaded, Published
    <3> QED
      BY <1>1, <3>1 DEF Fine, Vacant
  <2>3. CASE c \in Published
    <3>1. store'[c] = Reconciled(c) /\ child'[c] = Restored(c)
      BY <2>1, <2>3
    <3>2. /\ store'[c].dir = store[c].dir /\ store'[c].halted = store[c].halted
          /\ Len(store'[c].journal) = Len(store[c].journal)
          /\ \A i \in DOMAIN store'[c].journal : store'[c].journal[i] # "open"
          /\ child'[c].work = "none" /\ ~child'[c].broken
          /\ child'[c].stopped = store[c].halted
          /\ Len(child'[c].runs) = Len(store[c].journal)
      BY <1>1, <3>1, OpenedEffect
    <3>3. \A k \in 1..Len(store[c].journal) : child'[c].runs[k]
              = [id |-> k, status |-> "finished", delivered |-> FALSE]
      BY <1>1, <3>1, OpenedEffect
    <3>8. ASSUME NEW k \in 1..Len(store[c].journal)
          PROVE  child'[c].runs[k].id = k /\ child'[c].runs[k].status = "finished"
      <4>1. child'[c].runs[k] = [id |-> k, status |-> "finished", delivered |-> FALSE]
        BY <3>3
      <4> QED
        BY <4>1
    <3>4. Loaded(c)' /\ Begun(c)' = Len(store[c].journal) /\ store'[c].dir = "published"
      BY <1>2, <2>1, <2>3, <3>2 DEF Loaded, Published, Begun
    <3>5. Matching(c)'
      <4>1. \A k \in 1..Begun(c)' : child'[c].runs[k].id = k
        BY <3>3, <3>4, <3>8
      <4>2. Len(store[c].journal) <= Len(store[c].journal)
        BY <1>1
      <4> QED
        BY <1>1, <1>2, <3>2, <3>4, <4>1, <4>2 DEF Matching
    <3>6. Current(c)'
      <4>1. \A k \in 1..Begun(c)' : child'[c].runs[k].status # "running"
        BY <3>3, <3>4, <3>8
      <4> QED
        BY <3>2, <4>1 DEF Current
    <3>7. Stopped(c)'
      BY <3>2 DEF Stopped
    <3> QED
      BY <1>1, <3>2, <3>4, <3>5, <3>6, <3>7 DEF Fine
  <2> QED
    BY <2>2, <2>3
<1>5. CASE LoadFails
  <2>1. /\ session' = session /\ session \in {"down", "away"} /\ child'[c] = child[c]
        /\ \/ store'[c] = store[c]
           \/ c \in Published /\ store'[c] = Reconciled(c)
    BY <1>5 DEF LoadFails
  <2>2. ~Loaded(c) /\ ~Loaded(c)'
    BY <2>1 DEF Loaded
  <2>3. Vacant(c)'
    BY <1>1, <2>1, <2>2 DEF Fine, Vacant
  <2>4. CASE store'[c] = store[c]
    BY <1>1, <2>2, <2>3, <2>4 DEF Fine
  <2>5. CASE c \in Published /\ store'[c] = Reconciled(c)
    <3>1. store'[c].dir = "published" /\ Len(store'[c].journal) = Len(store[c].journal)
      BY <1>1, <2>5, OpenedEffect DEF Published
    <3> QED
      BY <1>1, <2>2, <2>3, <3>1 DEF Fine
  <2> QED
    BY <2>1, <2>4, <2>5
<1>6. CASE \E how \in {"closing", "leaving"} : Leave(how)
  <2>1. /\ session = "open" /\ session' \in {"closing", "leaving"} /\ store' = store
        /\ child'[c] = [child[c] EXCEPT !.cancelled = Running(c)] /\ call = Outside
    BY <1>6 DEF Leave
  <2>2. /\ child'[c].work = child[c].work /\ child'[c].stopped = child[c].stopped
        /\ child'[c].broken = child[c].broken /\ child'[c].runs = child[c].runs
        /\ child'[c].cancelled = Running(c)
    BY <1>1, <2>1 DEF ChildRecord
  <2>3. ~New(c) /\ ~Unborn(c) /\ ~Stopping(c)
    BY <2>1 DEF New, Unborn, Launching, Stopping, Outside
  <2>4. Loaded(c)' <=> Loaded(c)
    BY <1>2, <2>1, <2>3 DEF Loaded, Published
  <2>5. CASE Loaded(c)
    <3>1. Stopped(c)'
      BY <1>1, <2>1, <2>2, <2>3, <2>5 DEF Fine, Stopped, Stopping
    <3>2. store[c].dir # "none"
      BY <2>3, <2>5 DEF Loaded, Published
    <3> QED
      BY <1>1, <1>2, <2>1, <2>2, <2>3, <2>4, <2>5, <3>1, <3>2, FlagsFine
  <2>6. CASE ~Loaded(c)
    BY <1>1, <2>1, <2>2, <2>4, <2>6 DEF Fine, Vacant, Running
  <2> QED
    BY <2>5, <2>6
<1> QED
  BY <1>3, <1>4, <1>5, <1>6 DEF Life

LEMMA StepChildren ==
  ASSUME Typed, Placed, Children, [Next]_vars
  PROVE  Children'
<1>1. CASE Turn
  <2> SUFFICES ASSUME NEW c \in Child PROVE Fine(c)'
    BY DEF Children
  <2>1. UNCHANGED <<store, child, session>>
    BY <1>1, TurnFrame
  <2>2. (New(c)' <=> New(c)) /\ (Unborn(c)' <=> Unborn(c)) /\ (Stopping(c)' <=> Stopping(c))
    BY <1>1, TurnSees
  <2> QED
    BY <2>1, <2>2, FineKept DEF Children
<1>2. CASE Reply \/ Tell
  <2> SUFFICES ASSUME NEW c \in Child PROVE Fine(c)'
    BY DEF Children
  <2> QED
    BY <1>2, MailSees, FineKept DEF Children
<1>3. CASE UNCHANGED vars
  BY <1>3 DEF vars, parent, Children, Fine, Loaded, Published, New, Matching, Current, Stopped,
     Vacant, Begun, Unborn, Launching
<1> QED
  BY <1>1, <1>2, <1>3, NextCases, ChangeFine, MarkFine, LifeFine DEF Children

-----------------------------------------------------------------------------
(* The limit on running children.                                          *)

\* Only a launch makes a child run.
LEMMA RunsOn ==
  ASSUME Typed, Placed, Children, [Next]_vars, NEW c \in Child, Running(c)'
  PROVE  Running(c) \/ Start(c) \/ Send(c)
<1>1. child[c] \in ChildRecord
  BY DEF Typed
<1>2. CASE Turn \/ Reply \/ Tell \/ UNCHANGED vars
  BY <1>2, TurnFrame DEF Reply, Tell, vars, Running
<1>3. CASE MarkStep
  <2>1. PICK R : child' = Marked(R)
    BY <1>3, MarkCalls
  <2>2. child'[c] = [child[c] EXCEPT !.runs = child'[c].runs]
    BY <2>1, MarkedRuns
  <2> QED
    BY <1>1, <2>2 DEF Running, ChildRecord
<1>4. CASE Life
  <2>1. Restored(c).work = "none" /\ Unloaded.work = "none"
    BY OpenedEffect DEF Children, Fine, Unloaded
  <2>2. CASE Left \/ Load \/ LoadFails \/ Crash
    BY <2>1, <2>2 DEF Left, Load, LoadFails, Crash, Running, Unloaded
  <2>3. CASE \E how \in {"closing", "leaving"} : Leave(how)
    BY <1>1, <2>3 DEF Leave, Running, ChildRecord
  <2> QED
    BY <1>4, <2>2, <2>3 DEF Life
<1>5. ASSUME NEW d \in Child, Change(d)
      PROVE  Running(c) \/ Start(c) \/ Send(c)
  <2>1. CASE d # c
    BY <1>5, <2>1, ChangeFrame DEF Running
  <2>2. CASE d = c
    <3>1. CASE Goroutine(c)
      <4>1. CASE Begin(c) \/ Refused(c) \/ Finish(c) \/ Retire(c)
        BY <4>1 DEF Begin, Refused, Finish, Retire, Running
      <4>2. CASE Notify(c)
        BY <1>1, <4>2, NotifyEffect DEF Running, ChildRecord
      <4> QED
        BY <3>1, <4>1, <4>2 DEF Goroutine
    <3>2. CASE Stop(c) \/ (call.child = c /\ (PublishFails \/ StopWritten \/ StopNotWritten))
      <4>1. child'[c] = [child[c] EXCEPT !.stopped = child'[c].stopped,
                                         !.cancelled = child'[c].cancelled]
        BY <3>2, FlagEffect
      <4> QED
        BY <1>1, <4>1 DEF Running, ChildRecord
    <3>3. CASE call.child = c /\ LaunchFailed
      <4>1. child[c].runs # <<>>
        BY <3>3, InMemory DEF LaunchFailed, Unborn, Launching
      <4>2. child'[c] = [child[c] EXCEPT !.runs = child'[c].runs]
        BY <3>3, <4>1, LaunchFailedEffect
      <4> QED
        BY <1>1, <4>2 DEF Running, ChildRecord
    <3>4. CASE call.child = c /\ Publish
      BY <3>4 DEF Publish, Running
    <3>5. CASE call.child = c /\ Discard
      BY <3>5, DiscardEffect DEF Running, Unloaded
    <3> QED
      BY <1>5, <2>2, <3>1, <3>2, <3>3, <3>4, <3>5 DEF Change
  <2> QED
    BY <2>1, <2>2
<1> QED
  BY <1>2, <1>3, <1>4, <1>5, NextCases

LEMMA StepActive ==
  ASSUME Typed, Placed, Children, ActiveLimit, [Next]_vars
  PROVE  ActiveLimit'
<1> DEFINE A == {c \in Child : Running(c)}
           B == {c \in Child : Running(c)'}
<1> SUFFICES ASSUME session' = "open" PROVE Cardinality(B) <= MaxActive
  BY DEF ActiveLimit
<1>1. IsFiniteSet(Child) /\ IsFiniteSet(A) /\ IsFiniteSet(B) /\ MaxActive \in Nat
  BY ChildAssumption, FS_Subset
<1>2. Cardinality(A) \in Nat /\ Cardinality(B) \in Nat
  BY <1>1, FS_CardinalityType
<1>3. CASE session # "open"
  <2>1. Load
    BY <1>3, NextCases, TurnFrame, MarkFrame, ChangeFrame
       DEF Reply, Tell, Life, Left, Load, LoadFails, Crash, Leave, vars
  <2>2. \A c \in Child : ~Running(c)
    <3>1. \A c \in Child : ~Loaded(c)
      BY <2>1 DEF Load, Loaded
    <3> QED
      BY <3>1, InMemory DEF Vacant, Running
  <2>3. ASSUME NEW c \in Child
        PROVE  ~Running(c)'
    <3>1. ~Start(c) /\ ~Send(c)
      BY <1>3 DEF Start, Send, Between
    <3> QED
      BY <2>2, <3>1, RunsOn
  <2>4. B = {}
    BY <2>3
  <2> QED
    BY <1>1, <2>4, FS_EmptySet
<1>4. CASE session = "open" /\ \E c \in Child : Start(c) \/ Send(c)
  <2>1. PICK c \in Child : Start(c) \/ Send(c)
    BY <1>4
  <2>2. Cardinality(Active) < MaxActive /\ call = Ready /\ ~Running(c)
    BY <2>1, LaunchEffect DEF Between
  <2>3. A = Active
    <3>1. \A d \in Child : Running(d) => Loaded(d)
      BY InMemory DEF Running
    <3>2. \A d \in Child : Loaded(d) => d \in group
      BY <1>4, <2>2 DEF Loaded, New, Ready, Placed
    <3>3. group \subseteq Child
      BY DEF Typed
    <3> QED
      BY <3>1, <3>2, <3>3 DEF Active
  <2>4. ASSUME NEW d \in Child, d # c, Running(d)'
        PROVE  Running(d)
    <3>1. Change(c)
      BY <2>1 DEF Change
    <3> QED
      BY <2>4, <3>1, ChangeFrame DEF Running
  <2>5. B \subseteq A \union {c}
    BY <2>4
  <2>6. IsFiniteSet(A \union {c}) /\ Cardinality(A \union {c}) = Cardinality(A) + 1
    BY <1>1, <2>2, FS_AddElement
  <2>7. Cardinality(B) <= Cardinality(A \union {c})
    BY <2>5, <2>6, FS_Subset
  <2> HIDE DEF A, B
  <2> QED
    BY <1>1, <1>2, <2>2, <2>3, <2>6, <2>7
<1>5. CASE session = "open" /\ ~\E c \in Child : Start(c) \/ Send(c)
  <2>1. B \subseteq A
    BY <1>5, RunsOn
  <2>2. Cardinality(B) <= Cardinality(A)
    BY <1>1, <2>1, FS_Subset
  <2>3. Cardinality(A) <= MaxActive
    BY <1>5 DEF ActiveLimit
  <2> HIDE DEF A, B
  <2> QED
    BY <1>1, <1>2, <2>2, <2>3
<1> QED
  BY <1>3, <1>4, <1>5

-----------------------------------------------------------------------------
(* What the parent's journal tells.                                        *)

\* The directory of a published child only gains; one of a stopped child gains no run.
LEMMA StoreGrows ==
  ASSUME Typed, Placed, Children, [Next]_vars
  PROVE  /\ \A c \in Published : /\ c \in Published'
                                 /\ Len(store[c].journal) <= Len(store'[c].journal)
                                 /\ store[c].halted => store'[c].halted
         /\ \A c \in Child : store[c].halted => Len(store'[c].journal) <= Len(store[c].journal)
<1> SUFFICES ASSUME NEW c \in Child
             PROVE  /\ c \in Published =>
                         /\ store'[c].dir = "published"
                         /\ Len(store[c].journal) <= Len(store'[c].journal)
                         /\ store[c].halted => store'[c].halted
                    /\ store[c].halted => Len(store'[c].journal) <= Len(store[c].journal)
  BY DEF Published
<1>0. store[c] \in StoreRecord /\ child[c] \in ChildRecord
  BY DEF Typed, StoreRecord
<1>1. /\ Len(store[c].journal) \in Nat /\ (c \in Published => store[c].dir = "published")
      /\ store[c].journal \in Seq(RunStates) /\ "open" \in RunStates
  BY <1>0 DEF StoreRecord, Published, RunStates
<1>2. CASE store'[c] = store[c]
  BY <1>1, <1>2
<1>3. CASE Turn \/ MarkStep \/ Reply \/ Tell \/ UNCHANGED vars
  BY <1>2, <1>3, TurnFrame, MarkFrame DEF Reply, Tell, vars
<1>4. CASE Life
  <2>1. /\ Reconciled(c).dir = store[c].dir /\ Reconciled(c).halted = store[c].halted
        /\ Len(Reconciled(c).journal) = Len(store[c].journal)
    BY OpenedEffect DEF Children, Fine
  <2>2. store'[c] = store[c] \/ store'[c] = Reconciled(c)
    BY <1>4 DEF Life, Left, Load, LoadFails, Crash, Leave
  <2> QED
    BY <1>1, <1>2, <2>1, <2>2
<1>5. ASSUME NEW d \in Child, Change(d), d = c
      PROVE  \/ store'[c] = store[c]
             \/ /\ store'[c].dir = store[c].dir \/ store'[c].dir = "published"
                /\ store'[c].halted = store[c].halted \/ store'[c].halted
                /\ Len(store'[c].journal) = Len(store[c].journal)
             \/ /\ store'[c].dir = store[c].dir /\ ~store[c].halted
                /\ Len(store'[c].journal) = Len(store[c].journal) + 1
             \/ c \notin Published /\ ~store[c].halted
  <2>1. CASE Begin(c)
    <3>1. ~store[c].halted
      BY <2>1, Starting DEF Begin
    <3>2. store'[c].dir = store[c].dir /\ store'[c].journal = Append(store[c].journal, "open")
      BY <2>1, BeginEffect
    <3> QED
      BY <1>1, <3>1, <3>2
  <2>2. CASE Refused(c)
    <3>1. ~store[c].halted
      BY <2>2, Starting DEF Refused
    <3>2. \/ store'[c] = store[c]
          \/ /\ store'[c].dir = store[c].dir
             /\ store'[c].journal = Append(store[c].journal, "open")
      BY <2>2, RefusedEffect
    <3> QED
      BY <1>1, <3>1, <3>2
  <2>3. CASE Finish(c)
    BY <2>3, FinishEffect
  <2>4. CASE Retire(c) \/ Notify(c) \/ (call.child = c /\ LaunchFailed)
    BY <2>4 DEF Retire, Notify, LaunchFailed
  <2>5. CASE Start(c) \/ Send(c)
    <3>1. store'[c] = store[c] \/ store[c].dir = "none"
      BY <2>5, LaunchEffect
    <3>2. store[c].dir = "none" => ~store[c].halted
      BY DEF Children, Fine, Absent
    <3> QED
      BY <3>1, <3>2 DEF Published
  <2>6. CASE Stop(c) \/ (call.child = c /\ (PublishFails \/ StopNotWritten))
    BY <2>6 DEF Stop, PublishFails, StopNotWritten
  <2>7. CASE call.child = c /\ StopWritten
    BY <1>0, <2>7 DEF StopWritten, Typed, StoreRecord
  <2>8. CASE call.child = c /\ Publish
    <3>1. store'[c] = [store[c] EXCEPT !.dir = "published"]
      BY <2>8, PublishEffect
    <3> QED
      BY <1>0, <3>1 DEF StoreRecord
  <2>9. CASE call.child = c /\ Discard
    BY <2>9 DEF Discard, Placed, New, Published
  <2> QED
    BY <1>5, <2>1, <2>2, <2>3, <2>4, <2>5, <2>6, <2>7, <2>8, <2>9 DEF Change, Goroutine
<1>6. ASSUME NEW d \in Child, Change(d), d # c
      PROVE  store'[c] = store[c]
  BY <1>6, ChangeFrame
<1> HIDE DEF Change
<1>7. ASSUME NEW d \in Child, Change(d)
      PROVE  /\ c \in Published =>
                         /\ store'[c].dir = "published"
                         /\ Len(store[c].journal) <= Len(store'[c].journal)
                         /\ store[c].halted => store'[c].halted
             /\ store[c].halted => Len(store'[c].journal) <= Len(store[c].journal)
  <2>1. CASE d # c
    BY <1>2, <1>6, <1>7, <2>1
  <2>2. CASE d = c
    BY <1>1, <1>2, <1>5, <1>7, <2>2
  <2> QED
    BY <2>1, <2>2
<1> QED
  BY <1>3, <1>4, <1>7, NextCases

\* Elements of a sequence.
LEMMA Elements ==
  ASSUME NEW S, NEW s \in Seq(S)
  PROVE  /\ \A e : Range(Append(s, e)) = Range(s) \union {e}
         /\ s # <<>> => /\ Head(s) \in Range(s)
                        /\ Range(Tail(s)) \subseteq Range(s)
                        /\ IsInjective(s) => IsInjective(Tail(s)) /\ Head(s) \notin Range(Tail(s))
<1>1. ASSUME NEW e
      PROVE  Range(Append(s, e)) = Range(s) \union {e}
  <2>1. /\ DOMAIN s = 1..Len(s) /\ Len(s) \in Nat
        /\ DOMAIN Append(s, e) = 1..Len(s) + 1
        /\ Append(s, e)[Len(s) + 1] = e
        /\ \A i \in 1..Len(s) : Append(s, e)[i] = s[i]
    <3>1. s \in Seq(S \union {e}) /\ e \in S \union {e}
      BY SeqMonotonic
    <3> QED
      BY <3>1
  <2>2. Range(s) \union {e} \subseteq Range(Append(s, e))
    BY <2>1 DEF Range
  <2>3. Range(Append(s, e)) \subseteq Range(s) \union {e}
    BY <2>1 DEF Range
  <2> QED
    BY <2>2, <2>3
<1>2. ASSUME s # <<>>
      PROVE  /\ Head(s) \in Range(s)
             /\ Range(Tail(s)) \subseteq Range(s)
             /\ IsInjective(s) => IsInjective(Tail(s)) /\ Head(s) \notin Range(Tail(s))
  <2>1. /\ Len(s) \in Nat /\ Len(s) > 0 /\ Head(s) = s[1] /\ DOMAIN s = 1..Len(s)
        /\ DOMAIN Tail(s) = 1..Len(s) - 1
        /\ \A i \in 1..Len(s) - 1 : Tail(s)[i] = s[i + 1]
    BY <1>2
  <2>2. \A i \in 1..Len(s) - 1 : i + 1 \in 1..Len(s) /\ i + 1 # 1
    BY <2>1
  <2>3. 1 \in 1..Len(s)
    BY <2>1
  <2>4. ASSUME IsInjective(s)
        PROVE  IsInjective(Tail(s)) /\ Head(s) \notin Range(Tail(s))
    <3>1. \A i, j \in 1..Len(s) : s[i] = s[j] => i = j
      BY <2>1, <2>4 DEF IsInjective
    <3>2. \A i, j \in 1..Len(s) - 1 : Tail(s)[i] = Tail(s)[j] => i = j
      BY <2>1, <2>2, <3>1
    <3>3. \A i \in 1..Len(s) - 1 : Tail(s)[i] # s[1]
      BY <2>1, <2>2, <2>3, <3>1
    <3> QED
      BY <2>1, <3>2, <3>3 DEF IsInjective, Range
  <2> QED
    BY <2>1, <2>2, <2>3, <2>4 DEF Range
<1> QED
  BY <1>1, <1>2

\* What may be told stays so.
LEMMA TellableGrows ==
  ASSUME Typed, Placed, Children, Mailed, [Next]_vars
  PROVE  /\ Tellable \subseteq Tellable'
         /\ \A run \in Tellable : store[run[1]].halted => store'[run[1]].halted
<1> SUFFICES ASSUME NEW run \in Tellable
             PROVE  /\ run \in Tellable'
                    /\ store[run[1]].halted => store'[run[1]].halted
  OBVIOUS
<1>1. run \in RunOf /\ run[1] \in Published /\ run[2] <= Len(store[run[1]].journal)
      /\ run[1] \in Child
  BY DEF Tellable, Published
<1>2. run[2] \in Nat
  BY <1>1, ChildAssumption DEF RunOf
<1>3. Len(store[run[1]].journal) \in Nat /\ Len(store'[run[1]].journal) \in Nat
  <2>1. Typed'
    BY StepTyped
  <2> QED
    BY <1>1, <2>1 DEF Typed
<1>4. /\ run[1] \in Published'
      /\ Len(store[run[1]].journal) <= Len(store'[run[1]].journal)
      /\ store[run[1]].halted => store'[run[1]].halted
  BY <1>1, StoreGrows
<1>5. run[2] <= Len(store'[run[1]].journal)
  BY <1>1, <1>2, <1>3, <1>4
<1> QED
  BY <1>1, <1>4, <1>5 DEF Tellable

\* A result shows runs that may be told, and what it leaves open is stopped for good.
LEMMA LookTells ==
  ASSUME Typed, Placed, Children, call.step = "look", NEW run \in Told(call.asked)
  PROVE  /\ run \in Tellable
         /\ run \notin Settled(call.asked) => store[run[1]].halted
<1> DEFINE c == run[1]
           n == Len(child[c].runs)
<1>1. call.asked \in SUBSET Child /\ call.asked \subseteq group
  BY Shapes DEF Placed
<1>2. /\ run \in RunOf /\ c \in call.asked /\ State(c) # "running"
      /\ n \in DOMAIN child[c].runs /\ run = <<c, child[c].runs[n].id>>
      /\ run \in Settled(call.asked) <=> child[c].runs[n].status # "running"
  BY <1>1, ToldRuns
<1>3. c \in group /\ c \in Child /\ session = "open" /\ c \in Published
  BY <1>1, <1>2, InMemory DEF Outside, Placed
<1>4. /\ Matching(c) /\ Current(c) /\ Stopped(c)
      /\ ~Unborn(c) /\ Begun(c) = n
  BY <1>3, InMemory DEF Unborn, Launching, Begun
<1>5. n \in 1..n
  BY <1>2, <1>3 DEF Typed, ChildRecord
<1> HIDE DEF n
<1>6. child[c].runs[n].id = n /\ n <= Len(store[c].journal)
  BY <1>4, <1>5 DEF Matching
<1>7. run \in Tellable
  BY <1>2, <1>3, <1>6 DEF Tellable
<1>8. ASSUME run \notin Settled(call.asked)
      PROVE  store[c].halted
  <2>1. child[c].runs[n].status = "running"
    BY <1>2, <1>8
  <2>2. Running(c)
    BY <1>4, <1>5, <2>1 DEF Current, Running
  <2>3. child[c].stopped
    BY <1>2, <2>2 DEF State
  <2> QED
    BY <1>4, <2>3 DEF Stopped
<1> QED
  BY <1>7, <1>8

\* What is pending was not told.
LEMMA PendingNew ==
  ASSUME Typed, Placed, Children, Mailbox, call = Ready
  PROVE  Pending \subseteq Tellable \ Tales
<1> SUFFICES ASSUME NEW run \in Pending PROVE run \in Tellable /\ run \notin Tales
  OBVIOUS
<1>1. PICK c \in group : \E k \in DOMAIN child[c].runs :
        run = <<c, child[c].runs[k].id>> /\ ~child[c].runs[k].delivered
  BY PendingRuns
<1> PICK k \in DOMAIN child[c].runs :
        run = <<c, child[c].runs[k].id>> /\ ~child[c].runs[k].delivered
  BY <1>1
<1>2. c \in Child /\ run \in RunOf
  BY PendingRuns DEF Typed
<1>3. /\ Matching(c) /\ ~Unborn(c) /\ Begun(c) = Len(child[c].runs) /\ session = "open"
      /\ c \in Published /\ call # Outside
  BY <1>2, InMemory DEF Unborn, Launching, Begun, Ready, Outside, Placed
<1>4. child[c].runs \in Seq(RunRecord) /\ Len(store[c].journal) \in Nat
  BY <1>2 DEF Typed, ChildRecord
<1>5. k \in 1..Begun(c) /\ child[c].runs[k].id = k
  BY <1>3, <1>4 DEF Matching
<1>6. k <= Len(store[c].journal)
  <2>1. Begun(c) <= Len(store[c].journal) /\ Begun(c) \in Nat
    BY <1>3, <1>4 DEF Matching
  <2> QED
    BY <1>4, <1>5, <2>1
<1>7. run = <<c, k>> /\ run \in Tellable
  BY <1>2, <1>3, <1>5, <1>6 DEF Tellable
<1>8. ~Delivering(run)
  BY DEF Delivering, Ready
<1>9. run \notin Tales
  <2>1. run = <<c, child[c].runs[k].id>> /\ ~child[c].runs[k].delivered
    OBVIOUS
  <2> QED
    BY <1>2, <1>3, <1>8, <2>1 DEF Mailbox, Slot
<1> QED
  BY <1>7, <1>9

\* Steps that write no mail.
LEMMA MailKept ==
  ASSUME Typed, Placed, Children, Mailed, [Next]_vars, UNCHANGED <<told, settled, announced>>,
         \/ call'.step \in {"reply", "acknowledge", "tell", "commit"} => call' = call
         \/ call' = Results({}, {})
  PROVE  Mailed'
<1>1. Tales' = Tales /\ Tales \subseteq Tellable'
  BY TellableGrows DEF Tales, Mailed
<1>2. \A run \in told \ settled : store'[run[1]].halted
  BY TellableGrows DEF Mailed, Tales
<1>3. CASE call' = Results({}, {})
  BY <1>1, <1>2, <1>3 DEF Mailed, Results
<1>4. CASE call' = call
  <2>1. call.step = "reply" =>
           /\ call.tells \subseteq Tellable' /\ call.settles \subseteq call.tells
           /\ \A run \in call.tells \ call.settles : store'[run[1]].halted
    BY TellableGrows DEF Mailed
  <2>2. call.step \in {"tell", "commit"} =>
         Range(call.events) \subseteq Tellable' \ told
    BY TellableGrows DEF Mailed
  <2> QED
    BY <1>1, <1>2, <1>4, <2>1, <2>2 DEF Mailed
<1>5. CASE call'.step \notin {"reply", "acknowledge", "tell", "commit"}
  BY <1>1, <1>2, <1>5 DEF Mailed
<1> QED
  BY <1>3, <1>4, <1>5

LEMMA StepMailed ==
  ASSUME Typed, Placed, Children, Mailed, Mailbox, [Next]_vars
  PROVE  Mailed'
<1>0. Tales \subseteq Tellable' /\ \A run \in told \ settled : store'[run[1]].halted
  BY TellableGrows DEF Mailed, Tales
<1>1. CASE Turn
  <2>1. UNCHANGED <<told, settled, announced, store>>
    BY <1>1, TurnFrame
  <2>2. CASE EndRun \/ Interrupt \/ GiveUp \/ ReplyDropped \/ TellAborted \/ Wake
    <3>1. call'.step \in {"reply", "acknowledge", "tell", "commit"} => call' = call
      <4>1. CASE Wake
        BY <4>1, Shapes DEF Wake
      <4>2. CASE EndRun \/ Interrupt \/ GiveUp \/ ReplyDropped \/ TellAborted
        BY <4>2 DEF EndRun, Interrupt, GiveUp, ReplyDropped, TellAborted, Ready, Outside
      <4> QED
        BY <2>2, <4>1, <4>2
    <3> QED
      BY <2>1, <3>1, MailKept
  <2>3. CASE Launched \/ StopDone
    <3>1. \/ call'.step \in {"reply", "acknowledge", "tell", "commit"} => call' = call
          \/ call' = Results({}, {})
      BY <2>3 DEF Launched, StopDone
    <3> QED
      BY <2>1, <3>1, MailKept
  <2>4. CASE \E S \in SUBSET group \ {{}}, mode \in Modes : Check(S, mode)
    <3>1. call'.step = "look"
      BY <2>4 DEF Check
    <3> QED
      BY <2>1, <3>1, MailKept
  <2>5. CASE Look
    <3>1. CASE call' = [call EXCEPT !.step = "wait"]
      <4>1. call'.step = "wait"
        BY <2>5, <3>1, Shapes DEF Look
      <4> QED
        BY <2>1, <4>1, MailKept
    <3>2. CASE call' = Results(Told(call.asked), Settled(call.asked))
      <4>1. /\ call'.step = "reply" /\ call'.tells = Told(call.asked)
            /\ call'.settles = Settled(call.asked)
        BY <3>2 DEF Results
      <4>2. /\ Told(call.asked) \subseteq Tellable
            /\ \A run \in Told(call.asked) \ Settled(call.asked) : store[run[1]].halted
        BY <2>5, LookTells DEF Look
      <4>3. Settled(call.asked) \subseteq Told(call.asked)
        BY DEF Settled
      <4>4. Tellable' = Tellable
        BY <2>1 DEF Tellable, Published
      <4>5. Tales' = Tales
        BY <2>1 DEF Tales
      <4> QED
        BY <1>0, <2>1, <4>1, <4>2, <4>3, <4>4, <4>5 DEF Mailed
    <3> QED
      BY <2>5, <3>1, <3>2 DEF Look
  <2>6. CASE Boundary
    <3>1. PICK order \in SetToSeqs(Pending) : call' = [step |-> "tell", events |-> order]
      BY <2>6 DEF Boundary
    <3>2. Range(order) \subseteq Pending /\ IsInjective(order)
      BY <2>6, PendingOrders DEF Boundary
    <3>3. Pending \subseteq Tellable \ Tales
      BY <2>6, PendingNew DEF Boundary, Between
    <3>4. Tellable' = Tellable /\ Tales' = Tales
      BY <2>1 DEF Tellable, Published, Tales
    <3>5. call'.step = "tell" /\ call'.events = order
      BY <3>1
    <3>6. Range(call'.events) \subseteq Tellable' \ told'
      BY <2>1, <3>2, <3>3, <3>4, <3>5 DEF Tales
    <3> QED
      BY <1>0, <2>1, <3>2, <3>4, <3>5, <3>6 DEF Mailed
  <2> QED
    BY <1>1, <2>2, <2>3, <2>4, <2>5, <2>6 DEF Turn
<1>2. CASE MarkStep
  <2>1. UNCHANGED <<told, settled, announced, store>>
    BY <1>2, MarkFrame
  <2>2. CASE call' = Ready
    BY <2>1, <2>2, MailKept DEF Ready
  <2>3. CASE TellCommitted /\ call' = [step |-> "tell", events |-> Tail(call.events)]
    <3>1. call'.step = "tell" /\ call'.events = Tail(call.events)
      BY <2>3
    <3>2. call.step = "commit" /\ call.events \in Seq(RunOf) /\ call.events # <<>>
      BY <2>3, Shapes DEF TellCommitted
    <3>3. /\ Range(call.events) \subseteq Tellable \ told /\ IsInjective(call.events)
      BY <3>2 DEF Mailed
    <3>4. Range(Tail(call.events)) \subseteq Tellable \ told /\ IsInjective(Tail(call.events))
      BY <3>2, <3>3, Elements
    <3>5. Tellable' = Tellable /\ Tales' = Tales
      BY <2>1 DEF Tellable, Published, Tales
    <3>6. Range(call'.events) \subseteq Tellable' \ told'
      BY <2>1, <3>1, <3>4, <3>5
    <3> QED
      BY <1>0, <2>1, <3>1, <3>4, <3>5, <3>6 DEF Mailed
  <2> QED
    BY <1>2, <2>2, <2>3 DEF MarkStep, StartRun, Acknowledge, TellCommitted
<1>3. CASE Reply
  <2>1. /\ call.step = "reply" /\ store' = store /\ announced' = announced
        /\ told' = told \union call.tells /\ settled' = settled \union call.settles
        /\ call'.step = "acknowledge" /\ call'.tells = call.tells
    BY <1>3 DEF Reply
  <2>2. /\ call.tells \subseteq Tellable /\ call.settles \subseteq call.tells
        /\ \A run \in call.tells \ call.settles : store[run[1]].halted
    BY <2>1 DEF Mailed
  <2>3. Tellable' = Tellable
    BY <2>1 DEF Tellable, Published
  <2>4. Tales' \subseteq Tellable'
    BY <1>0, <2>1, <2>2, <2>3 DEF Tales
  <2>5. \A run \in told' \ settled' : store'[run[1]].halted
    BY <1>0, <2>1, <2>2
  <2> QED
    BY <2>1, <2>4, <2>5 DEF Mailed
<1>4. CASE Tell
  <2> DEFINE event == Head(call.events)
  <2>1. /\ call.step = "tell" /\ UNCHANGED <<store, told, settled>>
        /\ announced' = IF event \in Range(announced) THEN announced ELSE Append(announced, event)
        /\ call' = [call EXCEPT !.step = "commit"]
    BY <1>4 DEF Tell
  <2>2. /\ call.events \in Seq(RunOf) /\ call.events # <<>>
        /\ call'.step = "commit" /\ call'.events = call.events
    BY <2>1, Shapes
  <2>3. /\ Range(call.events) \subseteq Tellable \ told /\ IsInjective(call.events)
    BY <2>1 DEF Mailed
  <2>4. event \in Range(call.events)
    BY <2>2, Elements
  <2>5. Range(announced') = Range(announced) \union {event}
    <3>1. announced \in Seq(RunOf)
      BY DEF Typed
    <3>2. Range(Append(announced, event)) = Range(announced) \union {event}
      BY <3>1, Elements
    <3> QED
      BY <2>1, <3>2
  <2>6. Tellable' = Tellable
    BY <2>1 DEF Tellable, Published
  <2> HIDE DEF event
  <2>7. Tales' \subseteq Tellable'
    BY <1>0, <2>1, <2>3, <2>4, <2>5, <2>6 DEF Tales
  <2>8. Range(call'.events) \subseteq Tellable' \ told' /\ IsInjective(call'.events)
    BY <2>1, <2>2, <2>3, <2>6
  <2>9. Head(call'.events) \in Range(announced')
    BY <2>2, <2>5 DEF event
  <2> QED
    BY <1>0, <2>1, <2>2, <2>7, <2>8, <2>9 DEF Mailed
<1>5. ASSUME NEW c \in Child, Change(c)
      PROVE  Mailed'
  <2>1. UNCHANGED <<told, settled, announced>>
    BY <1>5, ChangeFrame
  <2>2. \/ call'.step \in {"reply", "acknowledge", "tell", "commit"} => call' = call
        \/ call' = Results({}, {})
    <3>1. CASE Begin(c) \/ Refused(c)
      <4>1. call.step = "launch"
        BY <3>1, Starting DEF Begin, Refused, Launching
      <4>2. call' = [call EXCEPT !.started = "begun"] \/ call' = [call EXCEPT !.started = "failed"]
        BY <3>1 DEF Begin, Refused
      <4> QED
        BY <4>1, <4>2, Shapes
    <3>2. CASE Finish(c) \/ Retire(c)
      BY <3>2 DEF Finish, Retire
    <3>3. CASE Notify(c)
      <4>1. call' = call \/ (call.step \in {"look", "wait"} /\ call' = [call EXCEPT !.woken = TRUE])
        BY <3>3, NotifyEffect
      <4> QED
        BY <4>1, Shapes
    <3>4. CASE Start(c) \/ Send(c)
      <4>1. PICK fresh \in BOOLEAN :
              call' = [step |-> "launch", child |-> c, fresh |-> fresh, started |-> "none"]
        BY <3>4, LaunchEffect, Zenon
      <4> QED
        BY <4>1
    <3>5. CASE Stop(c)
      BY <3>5 DEF Stop
    <3>6. CASE LaunchFailed \/ Publish \/ Discard \/ StopWritten \/ StopNotWritten
      BY <3>6 DEF LaunchFailed, Publish, Discard, StopWritten, StopNotWritten, Ready
    <3>7. CASE PublishFails
      <4>1. call.step = "publish" /\ call' = [call EXCEPT !.step = "discard"]
        BY <3>7 DEF PublishFails
      <4> QED
        BY <4>1, Shapes
    <3> QED
      BY <1>5, <3>1, <3>2, <3>3, <3>4, <3>5, <3>6, <3>7 DEF Change, Goroutine
  <2> QED
    BY <2>1, <2>2, MailKept
<1>6. CASE Life
  <2>1. UNCHANGED <<told, settled, announced>>
    BY <1>6 DEF Life, Left, Load, LoadFails, Crash, Leave, parent
  <2>2. call'.step = "idle"
    BY <1>6, LifeSees DEF Outside
  <2> QED
    BY <2>1, <2>2, MailKept
<1>7. CASE UNCHANGED vars
  <2>1. UNCHANGED <<told, settled, announced, call>>
    BY <1>7 DEF vars, parent
  <2> QED
    BY <2>1, MailKept
<1> QED
  BY <1>1, <1>2, <1>3, <1>4, <1>5, <1>6, <1>7, NextCases

-----------------------------------------------------------------------------
(* The mailbox agrees with the parent's journal.                           *)

\* A run that is what it was, in a session that goes on or is left.
LEMMA SlotKept ==
  ASSUME NEW c \in Child, NEW k \in DOMAIN child[c].runs, Slot(c, k),
         child'[c].runs[k].id = child[c].runs[k].id,
         child'[c].runs[k].delivered = child[c].runs[k].delivered,
         UNCHANGED <<told, announced>>,
         \/ call' = Outside
         \/ session' # "open"
         \/ /\ session' = session /\ call # Outside
            /\ c \in group' => c \in group \/ c \notin Published
            /\ call.step \in {"acknowledge", "commit"} => call' = call,
         Tales \subseteq Tellable
  PROVE  Slot(c, k)'
<1> DEFINE run == <<c, child[c].runs[k].id>>
<1>1. Tales' = Tales
  BY DEF Tales
<1>2. Delivering(run) => call' = call \/ call' = Outside \/ session' # "open"
  BY DEF Delivering
<1>3. c \notin Published => run \notin Tales
  BY DEF Tellable
<1> QED
  BY <1>1, <1>2, <1>3 DEF Slot, Delivering

\* While a child changes, nothing is being acknowledged.
LEMMA ChangeDelivers ==
  ASSUME Typed, Placed, Children, NEW c \in Child, Change(c)
  PROVE  /\ call = Outside => call' = call
         /\ call.step \in {"acknowledge", "commit"} => call' = call
<1>1. CASE Begin(c) \/ Refused(c)
  BY <1>1, Starting DEF Begin, Refused, Launching, Outside
<1>2. CASE Finish(c) \/ Retire(c)
  BY <1>2 DEF Finish, Retire
<1>3. CASE Notify(c)
  BY <1>3, NotifyEffect DEF Outside
<1>4. CASE Start(c) \/ Send(c) \/ Stop(c)
  <2>1. call = Ready
    BY <1>4 DEF Start, Send, Stop, Between
  <2> QED
    BY <2>1 DEF Ready, Outside
<1>5. CASE call.step \in {"launch", "publish", "discard", "stop"}
  BY <1>5 DEF Outside
<1> QED
  BY <1>1, <1>2, <1>3, <1>4, <1>5 DEF Change, Goroutine

LEMMA StepMailbox ==
  ASSUME Typed, Placed, Children, Mailed, Mailbox, [Next]_vars
  PROVE  Mailbox'
<1> SUFFICES ASSUME NEW c \in Child, NEW k \in DOMAIN child'[c].runs
             PROVE  Slot(c, k)'
  BY DEF Mailbox
<1>0. /\ child[c] \in ChildRecord /\ Tales \subseteq Tellable
      /\ DOMAIN child[c].runs = 1..Len(child[c].runs) /\ Len(child[c].runs) \in Nat
      /\ \A j \in DOMAIN child[c].runs : Slot(c, j)
  BY DEF Typed, ChildRecord, Mailed, Mailbox
<1>1. CASE Turn \/ UNCHANGED vars
  <2>1. UNCHANGED <<child, group, session, told, announced>>
    BY <1>1, TurnFrame DEF vars, parent
  <2>2. \/ call' = Outside
        \/ session # "open"
        \/ call # Outside /\ (call.step \in {"acknowledge", "commit"} => call' = call)
    <3>1. CASE UNCHANGED vars
      BY <3>1 DEF vars
    <3>2. CASE Turn
      <4>1. CASE EndRun \/ Interrupt \/ GiveUp \/ ReplyDropped \/ TellAborted
        BY <4>1 DEF EndRun, Interrupt, GiveUp, ReplyDropped, TellAborted, Outside
      <4>2. CASE Launched \/ StopDone \/ Look \/ Wake
        BY <4>2 DEF Launched, StopDone, Look, Wake, Outside
      <4>3. CASE Boundary \/ \E S \in SUBSET group \ {{}}, mode \in Modes : Check(S, mode)
        BY <4>3 DEF Boundary, Check, Between, Ready, Outside
      <4> QED
        BY <3>2, <4>1, <4>2, <4>3 DEF Turn
    <3> QED
      BY <1>1, <3>1, <3>2
  <2>3. /\ k \in DOMAIN child[c].runs
        /\ child'[c].runs[k].id = child[c].runs[k].id
        /\ child'[c].runs[k].delivered = child[c].runs[k].delivered
        /\ Slot(c, k)
    BY <1>0, <2>1
  <2> QED
    BY <1>0, <2>1, <2>2, <2>3, SlotKept
<1>2. CASE MarkStep
  <2>1. UNCHANGED <<store, group, told, announced, session>>
    BY <1>2, MarkFrame
  <2>2. ASSUME NEW R, child' = Marked(R)
        PROVE  /\ k \in DOMAIN child[c].runs
               /\ child'[c].runs[k].id = child[c].runs[k].id
               /\ child'[c].runs[k].delivered <=>
                    \/ child[c].runs[k].delivered
                    \/ c \in group /\ <<c, child[c].runs[k].id>> \in R
    <3>1. k \in DOMAIN child[c].runs
      BY <2>2, MarkedRuns
    <3> QED
      BY <2>2, <3>1, MarkedRun
  <2> DEFINE run == <<c, child[c].runs[k].id>>
  <2>3. CASE StartRun
    <3>1. /\ k \in DOMAIN child[c].runs
          /\ child'[c].runs[k].id = child[c].runs[k].id
          /\ child'[c].runs[k].delivered <=>
               child[c].runs[k].delivered \/ (c \in group /\ run \in Tales)
      BY <2>2, <2>3 DEF StartRun, Tales
    <3>2. Tales' = Tales
      BY <2>1 DEF Tales
    <3>3. Slot(c, k)
      BY <1>0, <3>1
    <3> QED
      BY <2>1, <3>1, <3>2, <3>3 DEF Slot
  <2>4. CASE Acknowledge
    <3>1. /\ k \in DOMAIN child[c].runs
          /\ child'[c].runs[k].id = child[c].runs[k].id
          /\ child'[c].runs[k].delivered <=>
               child[c].runs[k].delivered \/ (c \in group /\ run \in call.tells)
      BY <2>2, <2>4 DEF Acknowledge
    <3>2. Tales' = Tales
      BY <2>1 DEF Tales
    <3>3. Slot(c, k)
      BY <1>0, <3>1
    <3>4. call.step = "acknowledge" /\ call # Outside /\ call.tells \subseteq Tales
      BY <2>4 DEF Acknowledge, Outside, Mailed, Tales
    <3>5. Delivering(run) <=> run \in call.tells
      BY <3>4 DEF Delivering
    <3> QED
      BY <2>1, <3>1, <3>2, <3>3, <3>4, <3>5 DEF Slot
  <2>5. CASE TellCommitted
    <3>1. /\ k \in DOMAIN child[c].runs
          /\ child'[c].runs[k].id = child[c].runs[k].id
          /\ child'[c].runs[k].delivered <=>
               child[c].runs[k].delivered \/ (c \in group /\ run \in {Head(call.events)})
      BY <2>2, <2>5 DEF TellCommitted
    <3>2. Tales' = Tales
      BY <2>1 DEF Tales
    <3>3. Slot(c, k)
      BY <1>0, <3>1
    <3>4. call.step = "commit" /\ call # Outside /\ Head(call.events) \in Tales
      BY <2>5 DEF TellCommitted, Outside, Mailed, Tales
    <3>5. Delivering(run) <=> run = Head(call.events)
      BY <3>4 DEF Delivering
    <3> QED
      BY <2>1, <3>1, <3>2, <3>3, <3>4, <3>5 DEF Slot
  <2> QED
    BY <1>2, <2>3, <2>4, <2>5 DEF MarkStep
<1>3. CASE Reply \/ Tell
  <2> DEFINE run == <<c, child[c].runs[k].id>>
  <2>1. UNCHANGED <<child, group, session>> /\ call.step \in {"reply", "tell"}
    BY <1>3, MailSees
  <2>2. k \in DOMAIN child[c].runs /\ Slot(c, k) /\ run' = run
    BY <1>0, <2>1
  <2>3. ~Delivering(run) /\ call # Outside
    BY <2>1 DEF Delivering, Outside
  <2>4. CASE Reply
    <3>1. /\ Tales' = Tales \union call.tells /\ call'.step = "acknowledge"
          /\ call'.tells = call.tells
      BY <2>4 DEF Reply, Tales
    <3>2. run \in call.tells => Delivering(run)'
      BY <2>2, <3>1 DEF Delivering
    <3> QED
      BY <2>1, <2>2, <2>3, <3>1, <3>2 DEF Slot
  <2>5. CASE Tell
    <3> DEFINE event == Head(call.events)
    <3>1. /\ announced' = IF event \in Range(announced) THEN announced ELSE Append(announced, event)
          /\ told' = told /\ call' = [call EXCEPT !.step = "commit"] /\ call.step = "tell"
      BY <2>5 DEF Tell
    <3>2. Range(announced') = Range(announced) \union {event}
      <4>1. announced \in Seq(RunOf)
        BY DEF Typed
      <4>2. Range(Append(announced, event)) = Range(announced) \union {event}
        BY <4>1, Elements
      <4> QED
        BY <3>1, <4>2
    <3>3. Tales' = Tales \union {event}
      BY <3>1, <3>2 DEF Tales
    <3>4. call'.step = "commit" /\ call'.events = call.events
      BY <3>1, Shapes
    <3>5. run = event => Delivering(run)'
      BY <2>2, <3>4 DEF Delivering
    <3> HIDE DEF event
    <3> QED
      BY <2>1, <2>2, <2>3, <3>3, <3>5 DEF Slot
  <2> QED
    BY <1>3, <2>4, <2>5
<1>4. CASE Life
  <2>1. call' = Outside /\ UNCHANGED <<told, announced>>
    BY <1>4, LifeSees DEF Life, Left, Load, LoadFails, Crash, Leave, parent
  <2>2. Tales' = Tales
    BY <2>1 DEF Tales
  <2>3. \/ ~child'[c].runs[k].delivered
        \/ child'[c].runs = child[c].runs
    <3>1. CASE Left \/ Crash
      <4>1. child'[c].runs = <<>>
        BY <3>1 DEF Left, Crash, Unloaded
      <4> QED
        BY <4>1
    <3>2. CASE Load
      <4>1. child'[c] = Restored(c) \/ child'[c] = child[c]
        BY <3>2 DEF Load
      <4>2. CASE child'[c] = Restored(c)
        <5>1. Len(store[c].journal) <= MaxRuns
          BY DEF Children, Fine
        <5>2. Restored(c) \in ChildRecord /\ Len(Restored(c).runs) = Len(store[c].journal)
          BY <5>1, OpenedEffect
        <5>3. k \in 1..Len(store[c].journal)
          BY <4>2, <5>2 DEF ChildRecord
        <5>4. Restored(c).runs[k] = [id |-> k, status |-> "finished", delivered |-> FALSE]
          BY <5>1, <5>3, OpenedEffect
        <5> QED
          BY <4>2, <5>4
      <4> QED
        BY <4>1, <4>2
    <3>3. CASE LoadFails
      BY <3>3 DEF LoadFails
    <3>4. CASE \E how \in {"closing", "leaving"} : Leave(how)
      BY <1>0, <3>4 DEF Leave, ChildRecord
    <3> QED
      BY <1>4, <3>1, <3>2, <3>3, <3>4 DEF Life
  <2>4. child'[c].runs = child[c].runs => Slot(c, k)
    BY <1>0
  <2> QED
    BY <2>1, <2>2, <2>3, <2>4 DEF Slot
<1>5. ASSUME NEW d \in Child, Change(d)
      PROVE  Slot(c, k)'
  <2>1. /\ UNCHANGED <<told, announced, session>>
        /\ c # d => child'[c] = child[c]
        /\ c \in group' => c \in group \/ (c = d /\ Publish)
        /\ call' = Outside \/ call # Outside
        /\ call.step \in {"acknowledge", "commit"} => call' = call
    BY <1>5, ChangeFrame, ChangeDelivers
  <2>2. c \in group' => c \in group \/ c \notin Published
    <3>1. ASSUME c \in group', c \notin group
          PROVE  c \notin Published
      <4>1. Publish
        BY <2>1, <3>1
      <4>2. c = call.child /\ call.step = "publish"
        BY <3>1, <4>1 DEF Publish
      <4>3. store[c].dir = "staging"
        BY <4>2 DEF Placed, New
      <4> QED
        BY <4>3 DEF Published
    <3> QED
      BY <3>1
  <2>3. ASSUME k \in DOMAIN child[c].runs,
               child'[c].runs[k].id = child[c].runs[k].id,
               child'[c].runs[k].delivered = child[c].runs[k].delivered
        PROVE  Slot(c, k)'
    BY <1>0, <2>1, <2>2, <2>3, SlotKept
  <2>4. CASE child'[c].runs = child[c].runs
    BY <2>3, <2>4
  <2>5. ASSUME c = d, Begin(c)
        PROVE  Slot(c, k)'
    <3> DEFINE n == Len(child[c].runs)
    <3>1. /\ Len(child'[c].runs) = n /\ Len(store[c].journal) = n - 1
          /\ child'[c].runs[n] = [NewRun EXCEPT !.id = n]
      BY <2>5, BeginEffect
    <3>2. \A j \in 1..n : j # n => child'[c].runs[j] = child[c].runs[j]
      BY <2>5, BeginEffect
    <3>3. child'[c] \in ChildRecord
      BY <2>5, BeginEffect
    <3>4. k \in 1..n
      BY <3>1, <3>3 DEF ChildRecord
    <3>5. CASE k # n
      <4>1. child'[c].runs[k] = child[c].runs[k] /\ k \in DOMAIN child[c].runs
        BY <1>0, <3>2, <3>4, <3>5
      <4> QED
        BY <2>3, <4>1
    <3>6. CASE k = n
      <4>1. child'[c].runs[k].id = n /\ ~child'[c].runs[k].delivered
        BY <3>1, <3>6 DEF NewRun
      <4>2. <<c, n>> \notin Tellable
        BY <1>0, <3>1 DEF Tellable
      <4>3. Tales' = Tales
        BY <2>1 DEF Tales
      <4> HIDE DEF n
      <4> QED
        BY <1>0, <4>1, <4>2, <4>3 DEF Slot
    <3> QED
      BY <3>5, <3>6
  <2>6. ASSUME c = d, Start(c) \/ Send(c)
        PROVE  Slot(c, k)'
    <3> DEFINE n == Len(child[c].runs)
    <3>1. child'[c].runs = Append(child[c].runs, NewRun) /\ child[c].runs \in Seq(RunRecord)
      BY <1>0, <2>6, LaunchEffect DEF ChildRecord
    <3>2. k \in 1..n + 1 /\ NewRun \in RunRecord
      BY <3>1, ChildAssumption DEF NewRun, RunRecord
    <3>3. CASE k \in 1..n
      <4>1. child'[c].runs[k] = child[c].runs[k] /\ k \in DOMAIN child[c].runs
        BY <3>1, <3>2, <3>3
      <4> QED
        BY <2>3, <4>1
    <3>4. CASE k = n + 1
      <4>1. child'[c].runs[k] = NewRun
        BY <1>0, <3>1, <3>2, <3>4
      <4>2. child'[c].runs[k].id = 0 /\ ~child'[c].runs[k].delivered
        BY <4>1 DEF NewRun
      <4>3. <<c, 0>> \notin Tellable
        BY DEF Tellable, RunOf
      <4>4. Tales' = Tales
        BY <2>1 DEF Tales
      <4> QED
        BY <1>0, <4>2, <4>3, <4>4 DEF Slot
    <3> QED
      BY <1>0, <3>2, <3>3, <3>4
  <2>7. ASSUME c = d, Retire(c)
        PROVE  Slot(c, k)'
    <3> DEFINE n == Len(child[c].runs)
    <3>1. child[c].runs # <<>>
      BY <2>7, InMemory DEF Retire
    <3>2. /\ Len(child'[c].runs) = n /\ child'[c] \in ChildRecord
      BY <2>7, <3>1, RetireEffect
    <3>4. k \in 1..n /\ child[c].runs[k] \in RunRecord /\ k \in DOMAIN child[c].runs
      BY <1>0, <3>2 DEF ChildRecord
    <3>5. \/ child'[c].runs[k] = child[c].runs[k]
          \/ child'[c].runs[k] = [child[c].runs[k] EXCEPT !.status = "finished"]
      BY <2>7, <3>1, <3>4, RetireEffect
    <3>6. /\ child'[c].runs[k].id = child[c].runs[k].id
          /\ child'[c].runs[k].delivered = child[c].runs[k].delivered
      BY <3>4, <3>5 DEF RunRecord
    <3> QED
      BY <2>3, <3>4, <3>6
  <2>8. ASSUME c = d, call.child = c, LaunchFailed
        PROVE  Slot(c, k)'
    <3>1. child[c].runs # <<>>
      BY <2>8, InMemory DEF LaunchFailed, Unborn, Launching
    <3>2. /\ Len(child'[c].runs) = Len(child[c].runs) - 1 /\ child'[c] \in ChildRecord
      BY <2>8, <3>1, LaunchFailedEffect
    <3>3. k \in 1..Len(child[c].runs) - 1
      BY <3>2 DEF ChildRecord
    <3>4. child'[c].runs[k] = child[c].runs[k]
      BY <2>8, <3>1, <3>3, LaunchFailedEffect
    <3>5. k \in DOMAIN child[c].runs
      BY <1>0, <3>3
    <3> QED
      BY <2>3, <3>4, <3>5
  <2>9. ASSUME c = d, call.child = c, Discard
        PROVE  Slot(c, k)'
    <3>1. child'[c].runs = <<>>
      <4>1. child'[c] = [Unloaded EXCEPT !.notify = child[c].notify]
        BY <2>9, DiscardEffect
      <4> QED
        BY <4>1 DEF Unloaded
    <3> QED
      BY <3>1
  <2>10. ASSUME c = d, \/ Refused(c) \/ Finish(c) \/ Notify(c) \/ Stop(c)
                       \/ (call.child = c
                             /\ (Publish \/ PublishFails \/ StopWritten \/ StopNotWritten))
         PROVE  child'[c].runs = child[c].runs
    <3>1. CASE Refused(c)
      BY <1>0, <3>1, RefusedEffect DEF ChildRecord
    <3>2. CASE Finish(c)
      BY <1>0, <3>2, FinishEffect DEF ChildRecord
    <3>3. CASE Notify(c)
      BY <1>0, <3>3, NotifyEffect DEF ChildRecord
    <3>4. CASE Stop(c) \/ (call.child = c /\ (PublishFails \/ StopWritten \/ StopNotWritten))
      <4>1. child'[c] = [child[c] EXCEPT !.stopped = child'[c].stopped,
                                         !.cancelled = child'[c].cancelled]
        BY <3>4, FlagEffect
      <4> QED
        BY <1>0, <4>1 DEF ChildRecord
    <3>5. CASE call.child = c /\ Publish
      BY <3>5, PublishEffect
    <3> QED
      BY <2>10, <3>1, <3>2, <3>3, <3>4, <3>5
  <2> QED
    BY <1>5, <2>1, <2>4, <2>5, <2>6, <2>7, <2>8, <2>9, <2>10 DEF Change, Goroutine
<1> QED
  BY <1>1, <1>2, <1>3, <1>4, <1>5, NextCases

-----------------------------------------------------------------------------
(* What follows.                                                           *)

LEMMA InitConsistent == Init => Consistent
<1> SUFFICES ASSUME Init PROVE Consistent
  OBVIOUS
<1>1. /\ \A c \in Child : store[c] = Absent /\ child[c] = Unloaded
      /\ session = "open" /\ call = Outside /\ group = {}
      /\ told = {} /\ settled = {} /\ announced = <<>>
  BY DEF Init
<1>2. \A c \in Child : ~New(c) /\ ~Launching(c) /\ c \notin Published
  BY <1>1 DEF New, Launching, Published, Outside, Absent
<1>3. Published = {}
  BY <1>2 DEF Published
<1>4. Placed
  BY <1>1, <1>2, <1>3 DEF Placed, Unloaded, Outside
<1>5. Children
  <2>1. \A c \in Child : ~Loaded(c) /\ Vacant(c)
    BY <1>1, <1>2 DEF Loaded, Vacant, Unloaded
  <2>2. \A c \in Child : Len(store[c].journal) <= MaxRuns
    <3>1. Absent.journal = <<>> /\ MaxRuns \in Nat
      BY ChildAssumption DEF Absent
    <3> QED
      BY <1>1, <3>1, EmptySeq
  <2> QED
    BY <1>1, <2>1, <2>2 DEF Children, Fine
<1>6. ActiveLimit
  <2>1. {c \in Child : Running(c)} = {}
    BY <1>1 DEF Running, Unloaded
  <2> QED
    BY <2>1, FS_EmptySet, ChildAssumption DEF ActiveLimit
<1>7. Tales = {}
  BY <1>1 DEF Tales, Range
<1>8. Mailed
  BY <1>1, <1>7 DEF Mailed, Outside
<1>9. Mailbox
  <2>1. \A c \in Child : DOMAIN child[c].runs = {}
    BY <1>1 DEF Unloaded
  <2> QED
    BY <2>1 DEF Mailbox
<1> QED
  BY <1>4, <1>5, <1>6, <1>8, <1>9, InitTyped DEF Consistent

\* The inductive invariant: for each step of the parent's thread, what a child looks like in
\* memory and on disk, and what is on its way to the parent's journal.
THEOREM SpecConsistent == Spec => []Consistent
<1>1. Consistent /\ [Next]_vars => Consistent'
  BY StepTyped, StepPlaced, StepChildren, StepActive, StepMailed, StepMailbox DEF Consistent
<1> QED
  BY <1>1, InitConsistent, PTL DEF Spec

\* However launches, stops, failures, switches and restarts follow each other, no more
\* children run than maxActiveChildren allows, and everything has its type.
THEOREM SpecWithinBounds == Spec => []WithinBounds
<1>1. Consistent => WithinBounds
  <2> SUFFICES ASSUME Consistent PROVE TypeOK
    BY DEF Consistent, WithinBounds
  <2>1. ASSUME NEW c \in Child
        PROVE  /\ child[c].work \in Works
               /\ {child[c].stopped, child[c].cancelled, child[c].broken, child[c].notify} \subseteq BOOLEAN
               /\ \A i \in DOMAIN child[c].runs : child[c].runs[i] \in RunRecord
    <3>1. child[c] \in ChildRecord
      BY DEF Consistent, Typed
    <3>2. child[c].runs \in Seq(RunRecord)
      BY <3>1 DEF ChildRecord
    <3>3. \A i \in DOMAIN child[c].runs : child[c].runs[i] \in RunRecord
      BY <3>2
    <3> QED
      BY <3>1, <3>3 DEF ChildRecord
  <2> QED
    BY <2>1 DEF Consistent, Typed, TypeOK, RunRecord
<1> QED
  BY <1>1, SpecConsistent, PTL

\* Between memory, mailbox, journals and directories no run of a child is lost to the
\* parent, whatever crashes, cancellations and failing writes come between.
THEOREM SpecParentIsTold == Spec => []ParentIsTold
<1>1. Consistent => ParentIsTold
  <2> SUFFICES ASSUME Consistent PROVE ParentIsTold
    OBVIOUS
  <2>1. Typed /\ Placed /\ Children /\ Mailed /\ Mailbox
    BY DEF Consistent
  <2>2. DeliveredIsTold
    BY <2>1 DEF Mailbox, Slot, DeliveredIsTold, Tales
  <2>3. EveryRunKnown
    <3> SUFFICES ASSUME NEW c \in group, ~child[c].broken, NEW i \in DOMAIN store[c].journal
                 PROVE  \E k \in DOMAIN child[c].runs : child[c].runs[k].id = i
      BY DEF EveryRunKnown
    <3>1. c \in Child
      BY <2>1 DEF Typed
    <3>2. Matching(c)
      BY <2>1, <3>1, InMemory
    <3>3. child[c].runs \in Seq(RunRecord) /\ store[c].journal \in Seq(RunStates)
      BY <2>1, <3>1 DEF Typed, ChildRecord
    <3>4. Len(store[c].journal) = Begun(c) /\ Begun(c) <= Len(child[c].runs)
      BY <3>2, <3>3 DEF Matching, Begun
    <3>5. i \in 1..Begun(c) /\ i \in DOMAIN child[c].runs
      BY <3>3, <3>4
    <3> QED
      BY <3>2, <3>5 DEF Matching
  <2>4. OutcomeIsTold
    BY <2>1 DEF Mailed, OutcomeIsTold
  <2>5. KnownIsKept
    <3>1. group \subseteq Published
      BY <2>1 DEF Placed
    <3>2. \A run \in Tales : run[1] \in Published
      BY <2>1 DEF Mailed, Tellable
    <3> QED
      BY <3>1, <3>2 DEF KnownIsKept, Tales
  <2> QED
    BY <2>2, <2>3, <2>4, <2>5 DEF ParentIsTold
<1> QED
  BY <1>1, SpecConsistent, PTL

\* What was told is not told again, a stop that was recorded is final, and a session that is
\* left has closed the journals of its children.
THEOREM SpecPastIsFinal == Spec => PastIsFinal
<1> DEFINE Fresh == announced' # announced => Last(announced') \notin told \union Range(announced)
           Final == \A c \in Child : store[c].halted => Len(store'[c].journal) <= Len(store[c].journal)
           Clean == Left => \A c \in Published : child[c].broken \/
                      \A i \in DOMAIN store[c].journal : store[c].journal[i] # "open"
<1>1. ASSUME Consistent, [Next]_vars
      PROVE  Fresh
  <2>1. SUFFICES ASSUME announced' # announced
                 PROVE  Last(announced') \notin told \union Range(announced)
    OBVIOUS
  <2>2. Typed /\ Mailed
    BY <1>1 DEF Consistent
  <2>3. Tell
    <3>1. announced' = announced \/ Tell
      BY <1>1, <2>2, NextCases, TurnFrame, MarkFrame, ChangeFrame
         DEF Reply, Life, Left, Load, LoadFails, Crash, Leave, vars, parent
    <3> QED
      BY <2>1, <3>1
  <2> DEFINE event == Head(call.events)
  <2>4. event \notin Range(announced) /\ announced' = Append(announced, event)
    BY <2>1, <2>3 DEF Tell
  <2>5. call.step = "tell" /\ call.events \in Seq(RunOf) \ {<<>>}
    BY <2>2, <2>3, Shapes DEF Tell
  <2>6. event \in Range(call.events) /\ event \in RunOf
    BY <2>5, Elements
  <2>7. event \notin told
    BY <2>2, <2>5, <2>6 DEF Mailed
  <2>8. Last(announced') = event
    <3>1. announced \in Seq(RunOf)
      BY <2>2 DEF Typed
    <3> HIDE DEF event
    <3> QED
      BY <2>4, <2>6, <3>1 DEF Last
  <2> QED
    BY <2>4, <2>7, <2>8
<1>2. ASSUME Consistent, [Next]_vars
      PROVE  Final
  BY <1>1, <1>2, StoreGrows DEF Consistent
<1>3. ASSUME Consistent
      PROVE  Clean
  <2> SUFFICES ASSUME Left, NEW c \in Published, ~child[c].broken
               PROVE  \A i \in DOMAIN store[c].journal : store[c].journal[i] # "open"
    OBVIOUS
  <2>1. c \in Child /\ session \in {"closing", "leaving"} /\ child[c].work = "none"
    BY DEF Left, Published, Running
  <2>2. Loaded(c)
    BY <2>1 DEF Loaded
  <2>3. Current(c)
    BY <1>3, <2>1, <2>2, InMemory DEF Consistent
  <2> QED
    BY <2>1, <2>3 DEF Current
<1>4. Consistent /\ [Next]_vars => [Fresh]_vars /\ [Final]_vars /\ [Clean]_vars
  BY <1>1, <1>2, <1>3
<1>5. Spec => [][Fresh]_vars /\ [][Final]_vars /\ [][Clean]_vars
  BY <1>4, SpecConsistent, PTL DEF Spec
<1> QED
  BY <1>5 DEF PastIsFinal, AnnouncedOnce, StoppedForGood, CleanExit

=============================================================================
