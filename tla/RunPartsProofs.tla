--------------------------- MODULE RunPartsProofs ---------------------------
(***************************************************************************)
(* The safety of what a run is made of beside its journal: the tool calls  *)
(* of a response, a request under retries, and the credentials it takes,   *)
(* which the processes of a home share.  For each there is an invariant,   *)
(* and lemmas that its initial states satisfy it, that every step keeps it *)
(* and that it implies what the part promises.                             *)
(***************************************************************************)
EXTENDS ConcurrentParts, FiniteSetTheorems, WellFoundedInduction, TLAPS

-----------------------------------------------------------------------------
(* The tool calls of a response.                                           *)

\* A set of numbers has a least one, and, when it is bounded, a greatest.
LEMMA Least ==
  ASSUME NEW T \in SUBSET Nat, T # {}
  PROVE  \E x \in T : \A y \in T : x <= y
<1> DEFINE R == OpToRel(<, Nat)
<1>1. IsWellFoundedOn(R, Nat)
  BY NatLessThanWellFounded
<1>2. \A x, y \in Nat : <<x, y>> \in R <=> x < y
  BY DEF OpToRel
<1> HIDE DEF R
<1>3. PICK x \in T : \A y \in T : ~ (<<y, x>> \in R)
  BY <1>1, WFMin
<1>4. ASSUME NEW y \in T PROVE x <= y
  <2>1. x \in Nat /\ y \in Nat /\ ~(y < x)
    BY <1>2, <1>3
  <2> QED
    BY <2>1
<1> QED
  BY <1>4

LEMMA Greatest ==
  ASSUME NEW n \in Nat, NEW T \in SUBSET (0..n), T # {}
  PROVE  \E x \in T : \A y \in T : y <= x
<1> DEFINE U == {n - x : x \in T}
<1>1. U \in SUBSET Nat
  BY \A x \in T : n - x \in Nat
<1>2. U # {}
  <2>1. PICK x \in T : TRUE
    OBVIOUS
  <2>2. n - x \in U
    BY <2>1
  <2> QED
    BY <2>2
<1> HIDE DEF U
<1>3. PICK u \in U : \A y \in U : u <= y
  BY <1>1, <1>2, Least
<1>4. PICK x \in T : u = n - x
  BY DEF U
<1>5. ASSUME NEW y \in T PROVE y <= x
  <2>1. n - y \in U /\ u \in Nat
    BY <1>1 DEF U
  <2>2. u <= n - y /\ x \in 0..n /\ y \in 0..n
    BY <1>3, <2>1
  <2> QED
    BY <1>4, <2>1, <2>2
<1> QED
  BY <1>5

BatchState ==
  [safe : [Batch!Call -> BOOLEAN], call : [Batch!Call -> Batch!CallState], next : Nat, last : Nat,
   ctx : BOOLEAN, group : BOOLEAN, store : {"sound", "failing"},
   phase : {"choose", "collect", "wait", "settle", "done"},
   outcome : {"none", "continue", "cancelled", "failed"}, journal : Seq(Batch!Call)]

\* What is told comes before what is not.
Told(b) ==
  /\ \A i, j \in 1..Len(b.journal) : i < j => b.journal[i] < b.journal[j]
  /\ \A i \in 1..Len(b.journal), c \in Batch!Call :
       b.call[c] \notin {"known", "unknown"} => b.journal[i] < c

\* The calls before next are told, those behind last have not begun, and a group
\* of several has only safe ones.
Lined(b) ==
  /\ 1 <= b.next /\ b.next <= Calls + 1
  /\ b.phase \in {"choose", "collect", "wait"} =>
       \A c \in Batch!Call : c < b.next => b.call[c] = "known"
  /\ b.phase = "choose" => \A c \in Batch!Call : b.next <= c => b.call[c] = "waiting"
  /\ b.phase \in {"collect", "wait"} =>
       /\ b.next <= b.last /\ b.last <= Calls
       /\ \A c \in Batch!Call : b.last < c => b.call[c] = "waiting"
       /\ \A c \in b.next..b.last : b.call[c] \in {"queued", "running", "ran", "dropped"}
       /\ b.next # b.last => \A c \in b.next..b.last : b.safe[c]

\* How far the batch is in coming to its end, and why.
Leading(b) ==
  /\ b.phase \in {"choose", "collect"} => b.outcome = "none"
  /\ b.phase = "collect" => ~b.group /\ \A c \in Batch!Call : b.call[c] = "dropped" => b.ctx
  /\ b.phase = "wait" => b.outcome = "failed" \/ (b.outcome = "cancelled" /\ b.ctx)
  /\ b.phase = "settle" => b.ctx /\ b.outcome \in {"none", "cancelled"}
  /\ b.phase \in {"choose", "settle", "done"} =>
       \A c \in Batch!Call : b.call[c] \notin {"queued", "running"}
  /\ b.phase = "done" /\ b.outcome \in {"continue", "cancelled"} =>
       \A c \in Batch!Call : b.call[c] \in {"known", "unknown"}
  /\ b.phase = "done" /\ b.outcome = "cancelled" => b.ctx

Slots(b) == Cardinality({c \in Batch!Call : b.call[c] = "running"}) <= MaxActive

BatchInv == state \in BatchState /\ Told(state) /\ Lined(state) /\ Leading(state) /\ Slots(state)

LEMMA BatchTypes ==
  ASSUME BatchAssumption, NEW b \in BatchState
  PROVE  /\ b.safe \in [Batch!Call -> BOOLEAN] /\ b.call \in [Batch!Call -> Batch!CallState]
         /\ b.next \in Nat /\ b.last \in Nat /\ b.ctx \in BOOLEAN /\ b.group \in BOOLEAN
         /\ b.store \in {"sound", "failing"} /\ b.phase \in {"choose", "collect", "wait", "settle", "done"}
         /\ b.outcome \in {"none", "continue", "cancelled", "failed"} /\ b.journal \in Seq(Batch!Call)
         /\ Len(b.journal) \in Nat /\ \A i \in 1..Len(b.journal) : b.journal[i] \in Batch!Call
         /\ Batch!Call = 1..Calls /\ Calls \in Nat
BY DEF BatchState, BatchAssumption, Batch!Call

\* No more run than did.
LEMMA BatchSlots ==
  ASSUME BatchAssumption, BatchInv, NEW k,
         \A c \in Batch!Call : k.call[c] = "running" => state.call[c] = "running"
  PROVE  Slots(k)
<1> DEFINE R == {c \in Batch!Call : state.call[c] = "running"}
           S == {c \in Batch!Call : k.call[c] = "running"}
<1>1. S \subseteq R /\ R \subseteq 1..Calls /\ Calls \in Nat
  BY DEF BatchAssumption, Batch!Call
<1> HIDE DEF R, S
<1>2. IsFiniteSet(R)
  <2>1. IsFiniteSet(1..Calls)
    BY <1>1, FS_Interval
  <2> QED
    BY <1>1, <2>1, FS_Subset
<1>3. Cardinality(S) <= Cardinality(R) /\ Cardinality(S) \in Nat /\ Cardinality(R) \in Nat
  BY <1>1, <1>2, FS_Subset, FS_CardinalityType
<1>4. Cardinality(R) <= MaxActive /\ MaxActive \in Nat
  BY DEF BatchInv, Slots, R, BatchAssumption
<1> QED
  BY <1>3, <1>4 DEF Slots, S

\* The group of a call reaches as far as its calls are safe.
LEMMA GroupEnds ==
  ASSUME BatchAssumption, BatchInv, NEW c \in Batch!Call
  PROVE  LET e == Batch!GroupEnd(c)
         IN  /\ e \in Nat /\ c <= e /\ e <= Calls
             /\ c # e => \A d \in c..e : state.safe[d]
<1>1. c \in 1..Calls /\ Calls \in Nat
  BY DEF BatchAssumption, Batch!Call
<1>2. CASE ~state.safe[c]
  BY <1>1, <1>2 DEF Batch!GroupEnd
<1>3. CASE state.safe[c]
  <2> DEFINE T == {e \in c..Calls : \A d \in c..e : state.safe[d]}
             P(e) == (\A d \in c..e : state.safe[d]) /\ (e = Calls \/ ~state.safe[e + 1])
  <2>1. c \in T
    BY <1>1, <1>3
  <2>2. PICK m \in T : \A y \in T : y <= m
    <3>1. T \in SUBSET (0..Calls) /\ T # {}
      BY <1>1, <2>1
    <3> HIDE DEF T
    <3> QED
      BY <1>1, <3>1, Greatest
  <2>3. m \in c..Calls /\ P(m)
    <3>1. m = Calls \/ ~state.safe[m + 1]
      <4> SUFFICES ASSUME m # Calls, state.safe[m + 1] PROVE FALSE
        OBVIOUS
      <4>1. m + 1 \in T /\ ~(m + 1 <= m)
        BY <1>1
      <4> QED
        BY <2>2, <4>1
    <3> QED
      BY <2>2, <3>1
  <2>4. Batch!GroupEnd(c) = CHOOSE e \in c..Calls : P(e)
    BY <1>3 DEF Batch!GroupEnd
  <2>5. Batch!GroupEnd(c) \in c..Calls /\ P(Batch!GroupEnd(c))
    <3> DEFINE x == CHOOSE e \in c..Calls : P(e)
    <3> HIDE DEF P
    <3>1. x \in c..Calls /\ P(x)
      BY <2>3
    <3> QED
      BY <2>4, <3>1
  <2> QED
    BY <1>1, <2>5
<1> QED
  BY <1>2, <1>3

\* Of a step that changes no call and no record, only what it is about remains.
LEMMA BatchStep ==
  ASSUME BatchAssumption, BatchInv, state' \in BatchState,
         state'.call = state.call, state'.journal = state.journal, Lined(state'), Leading(state')
  PROVE  BatchInv'
<1>1. Told(state')
  BY DEF BatchInv, Told
<1>2. Slots(state')
  BY BatchSlots
<1> QED
  BY <1>1, <1>2 DEF BatchInv

LEMMA BatchTroubles ==
  ASSUME BatchAssumption, BatchInv, Batch!Cancel \/ Batch!Fail
  PROVE  BatchInv'
<1>1. state \in BatchState
  BY DEF BatchInv
<1>2. PICK ctx \in BOOLEAN, store \in {"sound", "failing"} :
        /\ state' = [state EXCEPT !.ctx = ctx, !.store = store] /\ (state.ctx => ctx)
  <2>1. CASE Batch!Cancel
    <3>1. state' = [state EXCEPT !.ctx = TRUE, !.store = state.store]
      BY <1>1, <2>1 DEF Batch!Cancel, BatchState
    <3> QED
      BY <1>1, <3>1 DEF BatchState
  <2>2. CASE Batch!Fail
    <3>1. state' = [state EXCEPT !.ctx = state.ctx, !.store = "failing"]
      BY <1>1, <2>2 DEF Batch!Fail, BatchState
    <3> QED
      BY <1>1, <3>1 DEF BatchState
  <2> QED
    BY <2>1, <2>2
<1>3. /\ state' \in BatchState /\ state'.safe = state.safe /\ state'.call = state.call
      /\ state'.next = state.next /\ state'.last = state.last /\ state'.ctx = ctx
      /\ state'.group = state.group /\ state'.phase = state.phase
      /\ state'.outcome = state.outcome /\ state'.journal = state.journal
  BY <1>1, <1>2 DEF BatchState
<1>4. Lined(state')
  BY <1>3 DEF BatchInv, Lined
<1>5. Leading(state')
  BY <1>2, <1>3 DEF BatchInv, Leading
<1> QED
  BY <1>3, <1>4, <1>5, BatchStep

LEMMA BatchBegins ==
  ASSUME BatchAssumption, BatchInv, Batch!Begin
  PROVE  BatchInv'
<1> DEFINE n == state.next
           e == Batch!GroupEnd(n)
           call == [c \in Batch!Call |->
                     IF c \notin n..e THEN state.call[c] ELSE IF e = n THEN "running" ELSE "queued"]
<1>1. /\ state \in BatchState /\ Told(state) /\ Lined(state) /\ Leading(state) /\ Slots(state)
      /\ state.phase = "choose" /\ n <= Calls /\ 1 <= n /\ n \in Nat /\ ~state.ctx /\ Calls \in Nat
      /\ Batch!Call = 1..Calls /\ state.call \in [Batch!Call -> Batch!CallState] /\ state.outcome = "none"
  BY BatchTypes DEF BatchInv, Batch!Begin, Lined, Leading
<1>2. /\ e \in Nat /\ n <= e /\ e <= Calls
      /\ n # e => \A d \in n..e : state.safe[d]
  BY <1>1, GroupEnds
<1> HIDE DEF e
<1>3. /\ call \in [Batch!Call -> Batch!CallState]
      /\ \A c \in Batch!Call : c \notin n..e => call[c] = state.call[c]
      /\ \A c \in n..e : call[c] = IF e = n THEN "running" ELSE "queued"
  BY <1>1, <1>2 DEF Batch!CallState
<1>4. state' = [state EXCEPT !.phase = "collect", !.last = e, !.group = FALSE, !.call = call]
  BY <1>1 DEF Batch!Begin, BatchState, e
<1> HIDE DEF call
<1>5. /\ state' \in BatchState /\ state'.safe = state.safe /\ state'.call = call
      /\ state'.next = n /\ state'.last = e /\ state'.ctx = state.ctx
      /\ state'.group = FALSE /\ state'.phase = "collect"
      /\ state'.outcome = state.outcome /\ state'.journal = state.journal
  BY <1>1, <1>2, <1>3, <1>4 DEF BatchState
<1>6. \A c \in Batch!Call : IF c < n THEN state.call[c] = "known" ELSE state.call[c] = "waiting"
  BY <1>1 DEF Lined
<1>7. Lined(state')
  BY <1>1, <1>2, <1>3, <1>5, <1>6 DEF Lined
<1>8. Leading(state')
  <2>1. \A c \in Batch!Call : call[c] # "dropped"
    BY <1>3, <1>6
  <2> QED
    BY <1>1, <1>5, <2>1 DEF Leading
<1>9. Told(state')
  <2>1. \A c \in Batch!Call : call[c] \notin {"known", "unknown"} => state.call[c] \notin {"known", "unknown"}
    BY <1>1, <1>2, <1>3, <1>6
  <2> QED
    BY <1>1, <1>5, <2>1 DEF Told
<1>10. Slots(state')
  <2> DEFINE S == {c \in Batch!Call : call[c] = "running"}
  <2>1. S \subseteq {n}
    BY <1>1, <1>2, <1>3, <1>6
  <2>2. S = {} \/ S = {n}
    BY <2>1
  <2> HIDE DEF S
  <2>3. Cardinality(S) = 0 \/ Cardinality(S) = 1
    <3>1. CASE S = {}
      BY <3>1, FS_EmptySet
    <3>2. CASE S = {n}
      BY <3>2, FS_Singleton
    <3> QED
      BY <2>2, <3>1, <3>2
  <2> QED
    BY <1>5, <2>3 DEF Slots, S, BatchAssumption
<1> QED
  BY <1>5, <1>7, <1>8, <1>9, <1>10 DEF BatchInv

\* The loop goes on without a call.
LEMMA BatchMoves ==
  ASSUME BatchAssumption, BatchInv, Batch!BeginCancelled \/ Batch!AllRan \/ Batch!Stop \/ Batch!Waited
  PROVE  BatchInv'
<1>1. /\ state \in BatchState /\ Lined(state) /\ Leading(state) /\ Batch!Call = 1..Calls /\ Calls \in Nat
      /\ state.next \in Nat /\ state.last \in Nat
  BY BatchTypes DEF BatchInv
<1>2. ASSUME NEW phase \in {"choose", "collect", "wait", "settle", "done"}, NEW group \in BOOLEAN,
             NEW outcome \in {"none", "continue", "cancelled", "failed"},
             state' = [state EXCEPT !.phase = phase, !.group = group, !.outcome = outcome],
             phase \in {"settle", "done"} \/ (phase = "wait" /\ state.phase = "collect"),
             Leading(state')
      PROVE  BatchInv'
  <2>1. /\ state' \in BatchState /\ state'.safe = state.safe /\ state'.call = state.call
        /\ state'.next = state.next /\ state'.last = state.last
        /\ state'.phase = phase /\ state'.journal = state.journal
    BY <1>1, <1>2 DEF BatchState
  <2>2. Lined(state')
    BY <1>1, <1>2, <2>1 DEF Lined
  <2> QED
    BY <1>2, <2>1, <2>2, BatchStep
<1>3. ASSUME NEW phase \in {"choose", "collect", "wait", "settle", "done"}, NEW group \in BOOLEAN,
             NEW outcome \in {"none", "continue", "cancelled", "failed"},
             state' = [state EXCEPT !.phase = phase, !.group = group, !.outcome = outcome]
      PROVE  /\ state'.call = state.call /\ state'.ctx = state.ctx /\ state'.group = group
             /\ state'.phase = phase /\ state'.outcome = outcome
  BY <1>1, <1>3 DEF BatchState
<1>4. CASE Batch!BeginCancelled
  <2>1. /\ state.phase = "choose" /\ state.ctx /\ state.outcome = "none" /\ state.group \in BOOLEAN
        /\ state' = [state EXCEPT !.phase = "settle", !.group = state.group, !.outcome = "none"]
    BY ZenonT(60), <1>1, <1>4 DEF Batch!BeginCancelled, BatchState, Leading
  <2>2. Leading(state')
    BY <1>1, <1>3, <2>1 DEF Leading
  <2> QED
    BY <1>2, <2>1, <2>2
<1>5. CASE Batch!AllRan
  <2>1. state.phase = "choose" /\ ~(state.next <= Calls) /\ state.group \in BOOLEAN
    <3>1. state.next > Calls
      BY <1>5 DEF Batch!AllRan
    <3> QED
      BY <1>1, <1>5, <3>1 DEF Batch!AllRan, BatchState
  <2>2. state' = [state EXCEPT !.phase = "done", !.group = state.group, !.outcome = "continue"]
    BY <1>1, <1>5 DEF Batch!AllRan, BatchState
  <2>3. \A c \in Batch!Call : state.call[c] = "known"
    <3>1. \A c \in Batch!Call : c < state.next
      BY <1>1, <2>1
    <3> QED
      BY <1>1, <2>1, <3>1 DEF Lined
  <2>4. state'.call = state.call /\ state'.phase = "done" /\ state'.outcome = "continue"
    BY <1>3, <2>1, <2>2
  <2>5. Leading(state')
    BY <2>3, <2>4 DEF Leading
  <2> QED
    BY <1>2, <2>1, <2>2, <2>5
<1>6. CASE Batch!Stop
  <2>1. PICK outcome \in {"cancelled", "failed"} :
          /\ state.phase = "collect" /\ (outcome = "cancelled" => state.call[state.next] = "dropped")
          /\ state' = [state EXCEPT !.phase = "wait", !.group = TRUE, !.outcome = outcome]
    BY <1>6 DEF Batch!Stop, Batch!Interrupt
  <2>2. state.next \in Batch!Call
    BY <1>1, <2>1 DEF Lined
  <2>3. outcome = "cancelled" => state.ctx
    BY <1>1, <2>1, <2>2 DEF Leading
  <2>4. Leading(state')
    BY <1>1, <1>3, <2>1, <2>3 DEF Leading
  <2> QED
    BY <1>2, <2>1, <2>4
<1>7. CASE Batch!Waited
  <2>1. PICK phase \in {"settle", "done"} :
          /\ state.phase = "wait" /\ (phase = "settle" <=> state.outcome = "cancelled")
          /\ state.group \in BOOLEAN /\ state.outcome \in {"none", "continue", "cancelled", "failed"}
          /\ state' = [state EXCEPT !.phase = phase, !.group = state.group, !.outcome = state.outcome]
          /\ Batch!Unfinished = {}
    BY <1>1, <1>7 DEF Batch!Waited, BatchState
  <2>2. \A c \in Batch!Call : state.call[c] \notin {"queued", "running"}
    <3> SUFFICES ASSUME NEW c \in Batch!Call PROVE state.call[c] \notin {"queued", "running"}
      OBVIOUS
    <3>1. c < state.next \/ c \in state.next..state.last \/ state.last < c
      BY <1>1
    <3> QED
      BY <1>1, <2>1, <3>1 DEF Lined, Batch!Unfinished, Batch!Group
  <2>3. Leading(state')
    BY <1>1, <1>3, <2>1, <2>2 DEF Leading
  <2> QED
    BY <1>2, <2>1, <2>3
<1> QED
  BY <1>4, <1>5, <1>6, <1>7

\* The cardinality in the batch is that of the theorems about it.
LEMMA BatchCardinality == \A S : Batch!Cardinality(S) = Cardinality(S)
BY DEF Batch!Cardinality, Cardinality

\* A call goes on that has begun and whose outcome is not there yet.
LEMMA BatchGoesOn ==
  ASSUME BatchAssumption, BatchInv, NEW c \in Batch!Call, NEW k \in {"running", "ran", "dropped"},
         state.call[c] \in {"queued", "running"}, state' = [state EXCEPT !.call[c] = k],
         k = "dropped" => Batch!Cancelled, Slots(state')
  PROVE  BatchInv'
<1> DEFINE call == [state.call EXCEPT ![c] = k]
<1>1. /\ state \in BatchState /\ Told(state) /\ Lined(state) /\ Leading(state) /\ Batch!Call = 1..Calls
      /\ Calls \in Nat /\ state.next \in Nat /\ state.last \in Nat /\ c \in 1..Calls
      /\ state.call \in [Batch!Call -> Batch!CallState]
  BY BatchTypes DEF BatchInv
<1>2. /\ call \in [Batch!Call -> Batch!CallState] /\ call[c] = k
      /\ \A d \in Batch!Call : d # c => call[d] = state.call[d]
  BY <1>1 DEF Batch!CallState
<1>3. state' = [state EXCEPT !.call = call]
  BY <1>1 DEF BatchState
<1> HIDE DEF call
<1>4. /\ state' \in BatchState /\ state'.safe = state.safe /\ state'.call = call
      /\ state'.next = state.next /\ state'.last = state.last /\ state'.ctx = state.ctx
      /\ state'.group = state.group /\ state'.phase = state.phase
      /\ state'.outcome = state.outcome /\ state'.journal = state.journal
  BY <1>1, <1>2, <1>3 DEF BatchState
<1>5. state.phase \in {"collect", "wait"}
  <2>1. state.phase \in {"choose", "collect", "wait", "settle", "done"}
    BY <1>1, BatchTypes
  <2> QED
    BY <1>1, <2>1 DEF Leading
<1>6. Lined(state')
  <2>1. ~(c < state.next) /\ ~(state.last < c)
    BY <1>1, <1>5 DEF Lined
  <2>2. \A d \in Batch!Call : d < state.next => call[d] = "known"
    BY <1>1, <1>2, <1>5, <2>1 DEF Lined
  <2>3. \A d \in Batch!Call : state.last < d => call[d] = "waiting"
    BY <1>1, <1>2, <1>5, <2>1 DEF Lined
  <2>4. \A d \in state.next..state.last : call[d] \in {"queued", "running", "ran", "dropped"}
    <3>1. \A d \in state.next..state.last :
            d \in Batch!Call /\ state.call[d] \in {"queued", "running", "ran", "dropped"}
      BY <1>1, <1>5 DEF Lined
    <3> QED
      BY <1>2, <3>1
  <2> QED
    BY <1>1, <1>4, <1>5, <2>2, <2>3, <2>4 DEF Lined
<1>7. Leading(state')
  BY <1>1, <1>2, <1>4, <1>5 DEF Leading, Batch!Cancelled
<1>8. Told(state')
  <2>1. \A d \in Batch!Call : call[d] \notin {"known", "unknown"} => state.call[d] \notin {"known", "unknown"}
    BY <1>2
  <2> QED
    BY <1>1, <1>4, <2>1 DEF Told
<1> QED
  BY <1>4, <1>6, <1>7, <1>8 DEF BatchInv

LEMMA BatchGoroutine ==
  ASSUME BatchAssumption, BatchInv, NEW c \in Batch!Call,
         Batch!TakeSlot(c) \/ Batch!GiveUp(c) \/ Batch!ToolReturns(c)
  PROVE  BatchInv'
<1>1. /\ state \in BatchState /\ Batch!Call = 1..Calls /\ Calls \in Nat
      /\ state.call \in [Batch!Call -> Batch!CallState]
  BY BatchTypes DEF BatchInv
<1>2. ASSUME NEW k \in {"running", "ran", "dropped"}, state' = [state EXCEPT !.call[c] = k]
      PROVE  state'.call = [state.call EXCEPT ![c] = k]
  BY <1>1, <1>2 DEF BatchState
<1>3. ASSUME NEW k \in {"ran", "dropped"}, state' = [state EXCEPT !.call[c] = k]
      PROVE  Slots(state')
  <2>1. \A d \in Batch!Call : state'.call[d] = "running" => state.call[d] = "running"
    BY <1>1, <1>2, <1>3
  <2> QED
    BY <2>1, BatchSlots
<1>4. CASE Batch!TakeSlot(c)
  <2> DEFINE R == {d \in Batch!Call : state.call[d] = "running"}
             S == {d \in Batch!Call : state'.call[d] = "running"}
  <2>1. state.call[c] = "queued" /\ Cardinality(R) < MaxActive /\ state' = [state EXCEPT !.call[c] = "running"]
    <3>1. state.call[c] = "queued" /\ Batch!Cardinality(R) < MaxActive
      BY <1>4 DEF Batch!TakeSlot, Batch!Running
    <3>2. state' = [state EXCEPT !.call[c] = "running"]
      BY <1>4 DEF Batch!TakeSlot
    <3> QED
      BY <3>1, <3>2, BatchCardinality
  <2>2. S = R \cup {c} /\ c \notin R /\ R \subseteq 1..Calls
    BY <1>1, <1>2, <2>1
  <2>3. Slots(state') <=> Cardinality(S) <= MaxActive
    BY DEF Slots
  <2> HIDE DEF R, S
  <2>4. IsFiniteSet(R)
    <3>1. IsFiniteSet(1..Calls)
      BY <1>1, FS_Interval
    <3> QED
      BY <2>2, <3>1, FS_Subset
  <2>5. Cardinality(S) = Cardinality(R) + 1 /\ Cardinality(R) \in Nat
    BY <2>2, <2>4, FS_AddElement, FS_CardinalityType
  <2>6. Slots(state')
    BY <2>1, <2>3, <2>5 DEF BatchAssumption
  <2> QED
    BY <2>1, <2>6, BatchGoesOn
<1>5. CASE Batch!GiveUp(c)
  <2>1. state.call[c] = "queued" /\ Batch!Cancelled /\ state' = [state EXCEPT !.call[c] = "dropped"]
    BY <1>5 DEF Batch!GiveUp
  <2> QED
    BY <1>3, <2>1, BatchGoesOn
<1>6. CASE Batch!ToolReturns(c)
  <2>1. PICK k \in {"ran", "dropped"} :
          /\ state.call[c] = "running" /\ (k = "dropped" => Batch!Cancelled)
          /\ state' = [state EXCEPT !.call[c] = k]
    BY <1>6 DEF Batch!ToolReturns
  <2> QED
    BY <1>3, <2>1, BatchGoesOn
<1> QED
  BY <1>4, <1>5, <1>6

\* The result of the first call that has none is told behind the others.
LEMMA BatchTells ==
  ASSUME BatchAssumption, BatchInv, NEW c \in Batch!Call, NEW kind \in {"known", "unknown"},
         state.call[c] \notin {"known", "unknown"},
         \A d \in Batch!Call : d < c => state.call[d] \in {"known", "unknown"},
         state'.call = [state.call EXCEPT ![c] = kind], state'.journal = Append(state.journal, c)
  PROVE  Told(state') /\ Slots(state')
<1> DEFINE n == Len(state.journal)
<1>1. /\ Batch!Call = 1..Calls /\ Calls \in Nat /\ state.call \in [Batch!Call -> Batch!CallState]
      /\ state.journal \in Seq(Batch!Call) /\ n \in Nat /\ Told(state)
      /\ \A i \in 1..n : state.journal[i] \in Batch!Call
  BY BatchTypes DEF BatchInv
<1>2. /\ state'.call[c] = kind
      /\ \A d \in Batch!Call : d # c => state'.call[d] = state.call[d]
  BY <1>1
<1>3. /\ Len(state'.journal) = n + 1 /\ state'.journal[n + 1] = c
      /\ \A i \in 1..n : state'.journal[i] = state.journal[i]
  BY <1>1
<1>4. \A i \in 1..n : state.journal[i] < c
  BY <1>1 DEF Told
<1>5. \A d \in Batch!Call : state'.call[d] \notin {"known", "unknown"} =>
         state.call[d] \notin {"known", "unknown"} /\ c < d
  BY <1>1, <1>2
<1> HIDE DEF n
<1>6. ASSUME NEW i \in 1..n + 1, NEW j \in 1..n + 1, i < j
      PROVE  state'.journal[i] < state'.journal[j]
  <2>1. i \in 1..n
    BY <1>1, <1>6
  <2>2. CASE j = n + 1
    BY <1>3, <1>4, <2>1, <2>2
  <2>3. CASE j # n + 1
    <3>1. j \in 1..n
      BY <1>1, <2>3
    <3>2. state.journal[i] < state.journal[j]
      BY <1>1, <1>6, <2>1, <3>1 DEF Told, n
    <3> QED
      BY <1>3, <2>1, <3>1, <3>2
  <2> QED
    BY <2>2, <2>3
<1>7. ASSUME NEW i \in 1..n + 1, NEW d \in Batch!Call, state'.call[d] \notin {"known", "unknown"}
      PROVE  state'.journal[i] < d
  <2>1. CASE i = n + 1
    BY <1>3, <1>5, <1>7, <2>1
  <2>2. CASE i # n + 1
    <3>1. i \in 1..n
      BY <1>1, <2>2
    <3>2. state.journal[i] < d
      BY <1>1, <1>5, <1>7, <3>1 DEF Told, n
    <3> QED
      BY <1>3, <3>1, <3>2
  <2> QED
    BY <2>1, <2>2
<1>8. Told(state')
  BY <1>3, <1>6, <1>7 DEF Told
<1>9. Slots(state')
  <2>1. \A d \in Batch!Call : state'.call[d] = "running" => state.call[d] = "running"
    BY <1>2
  <2> QED
    BY <2>1, BatchSlots
<1> QED
  BY <1>8, <1>9

LEMMA BatchCommits ==
  ASSUME BatchAssumption, BatchInv, Batch!Commit
  PROVE  BatchInv'
<1> DEFINE n == state.next
           call == [state.call EXCEPT ![n] = "known"]
           phase == IF n = state.last THEN "choose" ELSE "collect"
<1>1. /\ state \in BatchState /\ Lined(state) /\ Leading(state) /\ Batch!Call = 1..Calls /\ Calls \in Nat
      /\ n \in Nat /\ state.last \in Nat /\ state.journal \in Seq(Batch!Call)
      /\ state.call \in [Batch!Call -> Batch!CallState]
      /\ state.phase = "collect" /\ state.call[n] = "ran"
  BY BatchTypes DEF BatchInv, Batch!Commit
<1>2. /\ 1 <= n /\ n <= state.last /\ state.last <= Calls /\ n \in Batch!Call
      /\ \A c \in Batch!Call : c < n => state.call[c] = "known"
      /\ \A c \in Batch!Call : state.last < c => state.call[c] = "waiting"
      /\ \A c \in n..state.last : state.call[c] \in {"queued", "running", "ran", "dropped"}
      /\ n # state.last => \A c \in n..state.last : state.safe[c]
  BY <1>1 DEF Lined
<1>3. /\ call \in [Batch!Call -> Batch!CallState] /\ call[n] = "known"
      /\ \A d \in Batch!Call : d # n => call[d] = state.call[d]
  BY <1>1, <1>2 DEF Batch!CallState
<1>4. state' = [state EXCEPT !.call = call, !.journal = Append(state.journal, n), !.next = n + 1, !.phase = phase]
  BY <1>1 DEF Batch!Commit, Batch!Answer, BatchState
<1>5. Append(state.journal, n) \in Seq(Batch!Call) /\ phase \in {"choose", "collect"} /\ n + 1 \in Nat
  BY <1>1, <1>2
<1>6. phase = "choose" <=> n = state.last
  OBVIOUS
<1>7. /\ state' \in BatchState /\ state'.safe = state.safe /\ state'.call = call
      /\ state'.next = n + 1 /\ state'.last = state.last /\ state'.ctx = state.ctx
      /\ state'.group = state.group /\ state'.phase = phase
      /\ state'.outcome = state.outcome /\ state'.journal = Append(state.journal, n)
  <2> HIDE DEF call, phase, n
  <2> QED
    BY <1>1, <1>3, <1>4, <1>5 DEF BatchState
<1>8. Told(state') /\ Slots(state')
  <2>1. \A c \in Batch!Call : c < n => state.call[c] \in {"known", "unknown"}
    BY <1>2
  <2> QED
    BY <1>1, <1>2, <1>7, <2>1, BatchTells
<1> HIDE DEF call, phase
<1>9. Lined(state')
  <2>1. \A c \in Batch!Call : c < n + 1 => call[c] = "known"
    <3>1. \A c \in Batch!Call : c < n + 1 => c < n \/ c = n
      BY <1>1
    <3> QED
      BY <1>2, <1>3, <3>1
  <2>2. \A c \in Batch!Call : state.last < c => call[c] = "waiting"
    BY <1>1, <1>2, <1>3
  <2>3. \A c \in n + 1..state.last : call[c] \in {"queued", "running", "ran", "dropped"}
    <3>1. \A c \in n + 1..state.last : c \in n..state.last /\ c # n /\ c \in Batch!Call
      BY <1>1, <1>2
    <3> QED
      BY <1>2, <1>3, <3>1
  <2>4. n + 1 # state.last => \A c \in n + 1..state.last : state.safe[c]
    <3>1. \A c \in n + 1..state.last : c \in n..state.last /\ n # state.last
      BY <1>1, <1>2
    <3> QED
      BY <1>2, <3>1
  <2>5. 1 <= n + 1 /\ n + 1 <= Calls + 1
    BY <1>1, <1>2
  <2>6. CASE phase = "choose"
    <3>1. n = state.last
      BY <1>6, <2>6
    <3>2. \A c \in Batch!Call : n + 1 <= c => call[c] = "waiting"
      BY <1>1, <2>2, <3>1
    <3> QED
      BY <1>7, <2>1, <2>5, <2>6, <3>2 DEF Lined
  <2>7. CASE phase = "collect"
    <3>1. n + 1 <= state.last
      BY <1>1, <1>2, <1>6, <2>7
    <3> QED
      BY <1>2, <1>7, <2>1, <2>2, <2>3, <2>4, <2>5, <2>7, <3>1 DEF Lined
  <2> QED
    BY <1>5, <2>6, <2>7
<1>10. Leading(state')
  <2>1. state.outcome = "none" /\ ~state.group /\ \A c \in Batch!Call : state.call[c] = "dropped" => state.ctx
    BY <1>1 DEF Leading
  <2>2. \A c \in Batch!Call : call[c] = "dropped" => state.ctx
    BY <1>3, <2>1
  <2>3. phase = "choose" => \A c \in Batch!Call : call[c] \notin {"queued", "running"}
    <3> SUFFICES ASSUME phase = "choose", NEW c \in Batch!Call PROVE call[c] \notin {"queued", "running"}
      OBVIOUS
    <3>1. c < n \/ c = n \/ state.last < c
      BY <1>1, <1>2, <1>6
    <3> QED
      BY <1>1, <1>2, <1>3, <3>1
  <2> QED
    BY <1>5, <1>7, <2>1, <2>2, <2>3 DEF Leading
<1> QED
  BY <1>7, <1>8, <1>9, <1>10 DEF BatchInv

LEMMA BatchSettles ==
  ASSUME BatchAssumption, BatchInv, Batch!Settle
  PROVE  BatchInv'
<1> DEFINE c == CHOOSE d \in Batch!Pending : \A e \in Batch!Pending : d <= e
<1>1. /\ state \in BatchState /\ Lined(state) /\ Leading(state) /\ Batch!Call = 1..Calls /\ Calls \in Nat
      /\ state.next \in Nat /\ state.last \in Nat /\ state.journal \in Seq(Batch!Call)
      /\ state.call \in [Batch!Call -> Batch!CallState] /\ state.phase = "settle"
      /\ state.ctx /\ \A d \in Batch!Call : state.call[d] \notin {"queued", "running"}
  BY BatchTypes DEF BatchInv, Batch!Settle, Leading
<1>2. CASE Batch!Pending # {} /\ state' = Batch!Answer(state, c, "unknown")
  <2>1. \E d \in Batch!Pending : \A e \in Batch!Pending : d <= e
    <3>1. Batch!Pending \in SUBSET Nat
      BY <1>1 DEF Batch!Pending
    <3> QED
      BY <1>2, <3>1, Least
  <2>2. c \in Batch!Pending /\ \A e \in Batch!Pending : c <= e
    BY <2>1
  <2> HIDE DEF c
  <2>3. /\ c \in Batch!Call /\ state.call[c] \notin {"known", "unknown"}
        /\ \A d \in Batch!Call : d < c => state.call[d] \in {"known", "unknown"}
    <3>1. c \in Batch!Call /\ state.call[c] \notin {"known", "unknown"}
      BY <2>2 DEF Batch!Pending
    <3>2. ASSUME NEW d \in Batch!Call, d < c PROVE d \notin Batch!Pending
      BY <1>1, <2>2, <3>1, <3>2
    <3> QED
      BY <3>1, <3>2 DEF Batch!Pending
  <2> DEFINE call == [state.call EXCEPT ![c] = "unknown"]
  <2>4. /\ call \in [Batch!Call -> Batch!CallState] /\ call[c] = "unknown"
        /\ \A d \in Batch!Call : d # c => call[d] = state.call[d]
    BY <1>1, <2>3 DEF Batch!CallState
  <2>5. state' = [state EXCEPT !.call = call, !.journal = Append(state.journal, c)]
    BY <1>1, <1>2 DEF Batch!Answer, BatchState
  <2>6. Append(state.journal, c) \in Seq(Batch!Call)
    BY <1>1, <2>3
  <2>7. /\ state' \in BatchState /\ state'.safe = state.safe /\ state'.call = call
        /\ state'.next = state.next /\ state'.last = state.last /\ state'.ctx = state.ctx
        /\ state'.group = state.group /\ state'.phase = state.phase
        /\ state'.outcome = state.outcome /\ state'.journal = Append(state.journal, c)
    <3> HIDE DEF call
    <3> QED
      BY <1>1, <2>4, <2>5, <2>6 DEF BatchState
  <2>8. Told(state') /\ Slots(state')
    BY <2>3, <2>7, BatchTells
  <2> HIDE DEF call
  <2>9. Lined(state') /\ Leading(state')
    BY <1>1, <2>4, <2>7 DEF Lined, Leading
  <2> QED
    BY <2>7, <2>8, <2>9 DEF BatchInv
<1>3. CASE \E outcome \in {"cancelled", "failed"} :
             /\ state' = [state EXCEPT !.phase = "done", !.outcome = outcome]
             /\ outcome = "cancelled" => Batch!Pending = {}
  <2>1. PICK outcome \in {"cancelled", "failed"} :
             /\ state' = [state EXCEPT !.phase = "done", !.outcome = outcome]
             /\ outcome = "cancelled" => Batch!Pending = {}
    BY <1>3
  <2>2. /\ state' \in BatchState /\ state'.safe = state.safe /\ state'.call = state.call
        /\ state'.next = state.next /\ state'.last = state.last /\ state'.ctx = state.ctx
        /\ state'.group = state.group /\ state'.phase = "done"
        /\ state'.outcome = outcome /\ state'.journal = state.journal
    BY <1>1, <2>1 DEF BatchState
  <2>3. Lined(state')
    BY <1>1, <2>2 DEF Lined
  <2>4. outcome = "cancelled" => \A d \in Batch!Call : state.call[d] \in {"known", "unknown"}
    BY <2>1 DEF Batch!Pending
  <2>5. Leading(state')
    BY <1>1, <2>2, <2>4 DEF Leading
  <2> QED
    BY <2>2, <2>3, <2>5, BatchStep
<1>4. \/ Batch!Pending # {} /\ state' = Batch!Answer(state, c, "unknown")
      \/ \E outcome \in {"cancelled", "failed"} :
             /\ state' = [state EXCEPT !.phase = "done", !.outcome = outcome]
             /\ outcome = "cancelled" => Batch!Pending = {}
  BY DEF Batch!Settle
<1> QED
  BY <1>2, <1>3, <1>4

LEMMA BatchStarts ==
  ASSUME BatchAssumption, Batch!Init
  PROVE  BatchInv
<1>1. PICK safe \in [Batch!Call -> BOOLEAN] :
        state = [safe |-> safe, call |-> [c \in Batch!Call |-> "waiting"], next |-> 1,
                 last |-> 0, ctx |-> FALSE, group |-> FALSE, store |-> "sound",
                 phase |-> "choose", outcome |-> "none", journal |-> <<>>]
  BY DEF Batch!Init
<1>2. state \in BatchState
  <2>1. [c \in Batch!Call |-> "waiting"] \in [Batch!Call -> Batch!CallState]
    BY DEF Batch!CallState
  <2> QED
    BY <1>1, <2>1 DEF BatchState
<1>3. Batch!Call = 1..Calls /\ Calls \in Nat /\ MaxActive \in Nat
  BY DEF BatchAssumption, Batch!Call
<1>4. \A c \in Batch!Call : state.call[c] = "waiting"
  BY <1>1
<1>5. Told(state) /\ Lined(state) /\ Leading(state)
  BY <1>1, <1>3, <1>4 DEF Told, Lined, Leading
<1>6. Slots(state)
  <2> DEFINE R == {c \in Batch!Call : state.call[c] = "running"}
  <2>1. R = {}
    BY <1>4
  <2> HIDE DEF R
  <2>2. Cardinality(R) = 0
    BY <2>1, FS_EmptySet
  <2> QED
    BY <1>3, <2>2 DEF Slots, R
<1> QED
  BY <1>2, <1>5, <1>6 DEF BatchInv

LEMMA BatchNext ==
  ASSUME BatchAssumption, BatchInv, Batch!Next
  PROVE  BatchInv'
BY BatchTroubles, BatchBegins, BatchMoves, BatchCommits, BatchSettles, BatchGoroutine DEF Batch!Next

LEMMA BatchStutters ==
  ASSUME BatchInv, UNCHANGED state
  PROVE  BatchInv'
BY DEF BatchInv

LEMMA BatchSafe ==
  ASSUME BatchAssumption, BatchInv
  PROVE  Batch!BatchIsSound
<1>1. /\ state \in BatchState /\ Told(state) /\ Lined(state) /\ Leading(state) /\ Slots(state)
      /\ Batch!Call = 1..Calls /\ Calls \in Nat /\ state.journal \in Seq(Batch!Call)
      /\ state.next \in Nat /\ state.last \in Nat /\ Len(state.journal) \in Nat
      /\ state.call \in [Batch!Call -> Batch!CallState] /\ state.safe \in [Batch!Call -> BOOLEAN]
      /\ state.phase \in {"choose", "collect", "wait", "settle", "done"}
  BY BatchTypes DEF BatchInv
<1>2. Batch!ResultsInOrder
  <2>1. DOMAIN state.journal = 1..Len(state.journal)
    BY <1>1
  <2> QED
    BY <1>1, <2>1 DEF Batch!ResultsInOrder, Told
<1>3. Batch!NothingLeftRunning
  BY <1>1 DEF Batch!NothingLeftRunning, Leading
<1>4. Batch!EveryCallAnswered
  BY <1>1 DEF Batch!EveryCallAnswered, Batch!Answered, Leading
<1>5. Batch!UnsafeRunsAlone
  <2> DEFINE R == Batch!Running
  <2>1. R = {c \in Batch!Call : state.call[c] = "running"}
    BY DEF Batch!Running
  <2>2. Batch!Cardinality(R) <= MaxActive
    BY <1>1, <2>1, BatchCardinality DEF Slots
  <2>3. ASSUME NEW c \in R PROVE state.safe[c] \/ R = {c}
    <3>1. c \in Batch!Call /\ state.call[c] = "running" /\ state.phase \in {"collect", "wait"}
      BY <1>1, <2>1, <2>3 DEF Leading
    <3>2. \A d \in R : d \in state.next..state.last
      <4> SUFFICES ASSUME NEW d \in R PROVE d \in state.next..state.last
        OBVIOUS
      <4>1. d \in Batch!Call /\ state.call[d] = "running"
        BY <2>1
      <4>2. ~(d < state.next) /\ ~(state.last < d)
        BY <1>1, <3>1, <4>1 DEF Lined
      <4> QED
        BY <1>1, <4>1, <4>2
    <3>3. CASE state.next = state.last
      <4>1. \A d \in R : d = c
        BY <1>1, <2>3, <3>2, <3>3
      <4> QED
        BY <2>3, <4>1
    <3>4. CASE state.next # state.last
      BY <1>1, <2>3, <3>1, <3>2, <3>4 DEF Lined
    <3> QED
      BY <3>3, <3>4
  <2>4. ASSUME NEW c \in Batch!Call, NEW d \in Batch!Call, c < d, state.call[d] # "waiting",
               ~state.safe[c] \/ ~state.safe[d], state.phase # "settle", state.phase # "done"
        PROVE  state.call[c] = "known"
    <3>1. state.phase \in {"choose", "collect", "wait"}
      BY <1>1, <2>4
    <3>2. CASE c < state.next
      BY <1>1, <3>1, <3>2 DEF Lined
    <3>3. CASE ~(c < state.next) /\ state.phase = "choose"
      <4>1. state.next <= d
        BY <1>1, <2>4, <3>3
      <4> QED
        BY <1>1, <2>4, <3>3, <4>1 DEF Lined
    <3>4. CASE ~(c < state.next) /\ state.phase \in {"collect", "wait"}
      <4>1. ~(state.last < d)
        BY <1>1, <2>4, <3>4 DEF Lined
      <4>2. c \in state.next..state.last /\ d \in state.next..state.last /\ state.next # state.last
        BY <1>1, <2>4, <3>4, <4>1
      <4>3. state.safe[c] /\ state.safe[d]
        BY <1>1, <3>4, <4>2 DEF Lined
      <4> QED
        BY <2>4, <4>3
    <3> QED
      BY <3>1, <3>2, <3>3, <3>4
  <2> HIDE DEF R
  <2> QED
    BY <2>2, <2>3, <2>4 DEF Batch!UnsafeRunsAlone, R
<1> QED
  BY <1>2, <1>3, <1>4, <1>5 DEF Batch!BatchIsSound

-----------------------------------------------------------------------------
(* A request to a model.                                                   *)

RequestPhase == {"build", "attempt", "call", "reply", "ended", "wait", "judge", "done"}
RequestState(r) ==
  [limit : {r.limit}, budget : {r.budget}, left : {r.left}, attempt : {r.attempt},
   images : BOOLEAN, fits : BOOLEAN, control : BOOLEAN,
   delivery : {"unknown", "accepted", "rejected"}, ctx : BOOLEAN, store : {"sound", "failing"},
   boundaries : {r.boundaries}, phase : RequestPhase, reply : {r.reply}, first : {r.first},
   outcome : {r.outcome}, log : {r.log}, open : BOOLEAN, calls : {r.calls}]

Recorded(r, images, outcome) == [images |-> images, outcome |-> outcome] \in r.log
\* The reply of an attempt that has ended stands, for the control or for the request.
Replied(r, reply) == r.phase \in {"ended", "judge"} /\ r.reply = reply

\* Nothing is learned before the end, and a control has a refusal to explain.
Learning(r) ==
  /\ r.phase # "done" => r.delivery = "unknown" /\ r.outcome = "none"
  /\ r.control => r.images /\ r.fits /\ r.first = "refused" /\ Recorded(r, TRUE, "refused")
  /\ r.delivery = "accepted" => Recorded(r, TRUE, "ok")
  /\ r.delivery = "rejected" => Recorded(r, TRUE, "refused") /\ Recorded(r, FALSE, "ok") /\ r.fits

\* What an attempt came to is in the journal, and a response is returned.
Recording(r) ==
  /\ r.open => r.phase \in {"call", "reply"} \/ r.store = "failing"
  /\ \A reply \in {"ok", "refused"} :
       Replied(r, reply) => ~r.open /\ Recorded(r, r.images /\ ~r.control, reply)
  /\ \A i \in BOOLEAN : Recorded(r, i, "ok") =>
       Replied(r, "ok") \/ (r.phase = "done" /\ r.outcome \in {"ok", "journal"})
  /\ r.outcome = "ok" => ~r.open /\ \E i \in BOOLEAN : Recorded(r, i, "ok")

RequestInv == state \in RequestState(state) /\ Learning(state) /\ Recording(state)

LEMMA RequestStarts ==
  ASSUME Request!Init
  PROVE  RequestInv
<1>1. PICK limit \in {MaxAttempts, 0}, budget \in {Budget, Request!NoBudget}, images \in BOOLEAN, fits \in BOOLEAN :
    state = [limit |-> limit, budget |-> budget, left |-> budget, attempt |-> 0,
             images |-> images, fits |-> fits, control |-> FALSE,
             delivery |-> "unknown", ctx |-> FALSE, store |-> "sound",
             boundaries |-> MaxShrinks, phase |-> "build", reply |-> "none",
             first |-> "none", outcome |-> "none", log |-> {}, open |-> FALSE,
             calls |-> 0]
  BY DEF Request!Init
<1>2. state \in RequestState(state)
  BY <1>1 DEF RequestState, RequestPhase
<1>3. /\ state.phase = "build" /\ state.delivery = "unknown" /\ state.outcome = "none" /\ ~state.control
      /\ state.log = {} /\ ~state.open
  BY <1>1
<1>4. Learning(state)
  BY <1>3 DEF Learning
<1>5. Recording(state)
  BY <1>3 DEF Recording, Recorded, Replied
<1> QED
  BY <1>2, <1>4, <1>5 DEF RequestInv

\* A step on the way that records nothing.
LEMMA RequestGoesOn ==
  ASSUME RequestInv, state' \in RequestState(state'),
         state'.images = state.images, state'.fits = state.fits, state'.control = state.control,
         state'.delivery = state.delivery, state'.first = state.first,
         state'.outcome = state.outcome, state'.log = state.log,
         state.phase # "done", state'.phase # "done",
         \A reply \in {"ok", "refused"} : Replied(state', reply) =>
           Replied(state, reply) /\ state'.open = state.open,
         Replied(state, "ok") => Replied(state', "ok"),
         state'.open => state'.phase \in {"call", "reply"} \/ state'.store = "failing"
  PROVE  RequestInv'
<1>1. Learning(state) /\ Recording(state)
  BY DEF RequestInv
<1>2. \A i, o : Recorded(state', i, o) = Recorded(state, i, o)
  BY DEF Recorded
<1>3. Learning(state')
  BY <1>1, <1>2 DEF Learning
<1>4. state'.outcome # "ok"
  BY <1>1 DEF Learning
<1>5. \A reply \in {"ok", "refused"} :
       Replied(state', reply) => ~state'.open /\ Recorded(state', state'.images /\ ~state'.control, reply)
  <2> SUFFICES ASSUME NEW reply \in {"ok", "refused"}, Replied(state', reply)
      PROVE  ~state'.open /\ Recorded(state', state'.images /\ ~state'.control, reply)
    OBVIOUS
  <2>1. Replied(state, reply) /\ state'.open = state.open
    OBVIOUS
  <2>2. ~state.open /\ Recorded(state, state.images /\ ~state.control, reply)
    BY <1>1, <2>1 DEF Recording
  <2> QED
    BY <1>2, <2>1, <2>2
<1>6. \A i \in BOOLEAN : Recorded(state', i, "ok") => Replied(state', "ok")
  BY <1>1, <1>2 DEF Recording
<1>7. Recording(state')
  BY <1>4, <1>5, <1>6 DEF Recording
<1> QED
  BY <1>3, <1>7 DEF RequestInv

\* A step on the way: what it leaves alone.
RequestMoves(r) ==
  /\ r \in RequestState(r)
  /\ r.images = state.images /\ r.fits = state.fits /\ r.control = state.control
  /\ r.delivery = state.delivery /\ r.first = state.first /\ r.outcome = state.outcome /\ r.log = state.log

LEMMA RequestStep ==
  ASSUME RequestInv, RequestMoves(state'), state.phase # "done", state'.phase # "done",
         Replied(state, "ok") => state'.phase \in {"ended", "judge"} /\ state'.reply = "ok",
         state'.phase \in {"ended", "judge"} /\ state'.reply \in {"ok", "refused"} =>
           Replied(state, state'.reply) /\ state'.open = state.open,
         state'.open => state'.phase \in {"call", "reply"} \/ state'.store = "failing"
  PROVE  RequestInv'
<1>1. Replied(state, "ok") => Replied(state', "ok")
  BY DEF Replied
<1>2. \A r \in {"ok", "refused"} : Replied(state', r) => Replied(state, r) /\ state'.open = state.open
  BY DEF Replied
<1> QED
  BY <1>1, <1>2, RequestGoesOn DEF RequestMoves

\* The cancellation, the journal and the time.
LEMMA RequestTroubles ==
  ASSUME RequestInv, Request!Cancel \/ Request!Fail \/ Request!Tick
  PROVE  RequestInv'
<1>1. state \in RequestState(state) /\ Recording(state)
  BY DEF RequestInv
<1>2. /\ RequestMoves(state') /\ state'.phase = state.phase /\ state'.reply = state.reply
      /\ state'.open = state.open /\ (state.store = "failing" => state'.store = "failing")
      /\ state.phase # "done"
  <2>1. CASE Request!Cancel
    BY <1>1, <2>1 DEF Request!Cancel, RequestState, RequestMoves
  <2>2. CASE Request!Fail
    BY <1>1, <2>2 DEF Request!Fail, RequestState, RequestMoves
  <2>3. CASE Request!Tick
    <3> DEFINE left == state.left - 1
    <3>1. state' = [state EXCEPT !.left = left] /\ state.phase = "call"
      BY <2>3 DEF Request!Tick
    <3> HIDE DEF left
    <3> QED
      BY <1>1, <3>1 DEF RequestState, RequestMoves
  <2> QED
    BY <2>1, <2>2, <2>3
<1>3. state'.open => state'.phase \in {"call", "reply"} \/ state'.store = "failing"
  BY <1>1, <1>2 DEF Recording
<1> QED
  BY <1>2, <1>3, RequestStep DEF Replied

\* An attempt begins and is called.
LEMMA RequestCalls ==
  ASSUME RequestInv,
         \/ Request!Build \/ Request!StartAttempt
         \/ (\E reply \in Request!Reply : Request!Call(reply)) \/ Request!CallEnds
  PROVE  RequestInv'
<1>1. state \in RequestState(state) /\ Recording(state)
  BY DEF RequestInv
<1>2. state.phase \notin {"call", "reply"} /\ state.open => state.store = "failing"
  BY <1>1 DEF Recording
<1>3. CASE Request!Build
  <2>1. /\ RequestMoves(state') /\ state.phase = "build" /\ state'.phase = "attempt"
        /\ state'.open = state.open /\ state'.store = state.store
    BY <1>1, <1>3 DEF Request!Build, RequestState, RequestPhase, RequestMoves
  <2> QED
    BY <1>2, <2>1, RequestStep DEF Replied
<1>4. CASE Request!StartAttempt
  <2>1. CASE \E reply \in {"cancelled", "budget", "journal"} : state' = Request!Return(state, reply)
    <3>1. PICK reply \in {"cancelled", "budget", "journal"} : state' = Request!Return(state, reply)
      BY <2>1
    <3>2. /\ RequestMoves(state') /\ state'.phase = "judge" /\ state'.reply = reply
          /\ state'.open = state.open /\ state'.store = state.store
      BY <1>1, <3>1 DEF Request!Return, RequestState, RequestPhase, RequestMoves
    <3>3. state.phase = "attempt"
      BY <1>4 DEF Request!StartAttempt
    <3> QED
      BY <1>2, <3>2, <3>3, RequestStep DEF Replied
  <2>2. CASE state' = [state EXCEPT !.phase = "call", !.open = TRUE]
    <3>1. RequestMoves(state') /\ state'.phase = "call"
      BY <1>1, <2>2 DEF RequestState, RequestPhase, RequestMoves
    <3>2. state.phase = "attempt"
      BY <1>4 DEF Request!StartAttempt
    <3> QED
      BY <3>1, <3>2, RequestStep DEF Replied
  <2> QED
    BY <1>4, <2>1, <2>2 DEF Request!StartAttempt, Request!Interruption
<1>5. CASE \E reply \in Request!Reply : Request!Call(reply)
  <2>1. PICK reply \in Request!Reply : Request!Call(reply)
    BY <1>5
  <2> DEFINE calls == Request!Min({state.calls + 1, MaxAttempts + 1})
  <2>2. state.phase = "call" /\ state' = [state EXCEPT !.phase = "reply", !.reply = reply, !.calls = calls]
    BY <2>1 DEF Request!Call
  <2> HIDE DEF calls
  <2>3. RequestMoves(state') /\ state'.phase = "reply"
    BY <1>1, <2>2 DEF RequestState, RequestPhase, RequestMoves
  <2> QED
    BY <2>2, <2>3, RequestStep DEF Replied
<1>6. CASE Request!CallEnds
  <2>1. PICK reply \in {"ok", "cancelled"} :
          state.phase = "call" /\ state' = [state EXCEPT !.phase = "reply", !.reply = reply]
    BY <1>6 DEF Request!CallEnds
  <2>2. RequestMoves(state') /\ state'.phase = "reply"
    BY <1>1, <2>1 DEF RequestState, RequestPhase, RequestMoves
  <2> QED
    BY <2>1, <2>2, RequestStep DEF Replied
<1> QED
  BY <1>3, <1>4, <1>5, <1>6

\* What an attempt came to is returned, or waited over.
LEMMA RequestRetries ==
  ASSUME RequestInv, Request!Decide \/ Request!WaitOver \/ Request!WaitEnds
  PROVE  RequestInv'
<1>1. state \in RequestState(state) /\ Recording(state)
  BY DEF RequestInv
<1>2. state.phase \notin {"call", "reply"} /\ state.open => state.store = "failing"
  BY <1>1 DEF Recording
<1>3. CASE Request!Decide
  <2>1. state.phase = "ended"
    BY <1>3 DEF Request!Decide
  <2>2. CASE state' = Request!Return(state, state.reply)
    <3>1. /\ RequestMoves(state') /\ state'.phase = "judge" /\ state'.reply = state.reply
          /\ state'.open = state.open /\ state'.store = state.store
      BY <1>1, <2>2 DEF Request!Return, RequestState, RequestPhase, RequestMoves
    <3> QED
      BY <1>2, <2>1, <3>1, RequestStep DEF Replied
  <2>3. CASE state.reply # "ok" /\ state' = [state EXCEPT !.phase = "wait"]
    <3>1. /\ RequestMoves(state') /\ state'.phase = "wait"
          /\ state'.open = state.open /\ state'.store = state.store
      BY <1>1, <2>3 DEF RequestState, RequestPhase, RequestMoves
    <3> QED
      BY <1>2, <2>1, <2>3, <3>1, RequestStep DEF Replied
  <2> QED
    BY <1>3, <2>2, <2>3 DEF Request!Decide
<1>4. CASE Request!WaitOver
  <2> DEFINE attempt == Request!Min({state.attempt + 1, MaxAttempts + 1})
             left == IF state.budget = Request!NoBudget THEN state.left
                     ELSE state.left - Request!DelayAfter(state.attempt, state.reply)
  <2>1. state.phase = "wait" /\ state' = [state EXCEPT !.phase = "attempt", !.attempt = attempt, !.left = left]
    BY <1>4 DEF Request!WaitOver
  <2> HIDE DEF attempt, left
  <2>2. /\ RequestMoves(state') /\ state'.phase = "attempt"
        /\ state'.open = state.open /\ state'.store = state.store
    BY <1>1, <2>1 DEF RequestState, RequestPhase, RequestMoves
  <2> QED
    BY <1>2, <2>1, <2>2, RequestStep DEF Replied
<1>5. CASE Request!WaitEnds
  <2>1. PICK reply \in {"cancelled", "budget"} :
          state.phase = "wait" /\ state' = Request!Return(state, reply)
    BY <1>5 DEF Request!WaitEnds, Request!Interruption
  <2>2. /\ RequestMoves(state') /\ state'.phase = "judge" /\ state'.reply = reply
        /\ state'.open = state.open /\ state'.store = state.store
    BY <1>1, <2>1 DEF Request!Return, RequestState, RequestPhase, RequestMoves
  <2> QED
    BY <1>2, <2>1, <2>2, RequestStep DEF Replied
<1> QED
  BY <1>3, <1>4, <1>5

\* An attempt is recorded as what it came to.
LEMMA RequestRecords ==
  ASSUME RequestInv, Request!FinishAttempt
  PROVE  RequestInv'
<1>1. state \in RequestState(state) /\ Learning(state) /\ Recording(state) /\ state.phase = "reply"
  BY DEF RequestInv, Request!FinishAttempt
<1>2. \A i \in BOOLEAN : ~Recorded(state, i, "ok")
  BY <1>1 DEF Recording, Replied
<1>3. CASE state.store = "failing" /\ state' = Request!Return(state, "journal")
  <2>1. /\ RequestMoves(state') /\ state'.phase = "judge" /\ state'.reply = "journal"
        /\ state'.open = state.open /\ state'.store = state.store
    BY <1>1, <1>3 DEF Request!Return, RequestState, RequestPhase, RequestMoves
  <2> QED
    BY <1>1, <1>3, <2>1, RequestStep DEF Replied
<1>4. CASE state.store # "failing"
  <2> DEFINE verdict == Request!Verdict
             record == [images |-> state.images /\ ~state.control, outcome |-> verdict]
             log == state.log \cup {record}
  <2>1. state.delivery = "unknown" /\ state.outcome = "none"
    BY <1>1 DEF Learning
  <2>2. Request!Carries = (state.images /\ ~state.control)
    BY <1>1, <2>1 DEF Request!Carries, RequestState
  <2>3. state' = [state EXCEPT !.phase = "ended", !.reply = verdict, !.open = FALSE, !.log = log]
    <3>1. state' = [state EXCEPT !.phase = "ended", !.reply = verdict, !.open = FALSE,
                      !.log = state.log \cup {[images |-> Request!Carries, outcome |-> verdict]}]
      BY <1>4 DEF Request!FinishAttempt
    <3> QED
      BY <2>2, <3>1
  <2>4. \A i, o : Recorded(state, i, o) => [images |-> i, outcome |-> o] \in log
    BY DEF Recorded
  <2>5. [images |-> state.images /\ ~state.control, outcome |-> verdict] \in log
    OBVIOUS
  <2>6. \A i \in BOOLEAN : [images |-> i, outcome |-> "ok"] \in log => verdict = "ok"
    <3> SUFFICES ASSUME NEW i \in BOOLEAN, [images |-> i, outcome |-> "ok"] \in log PROVE verdict = "ok"
      OBVIOUS
    <3>1. [images |-> i, outcome |-> "ok"] = record
      BY <1>2 DEF Recorded
    <3>2. [images |-> i, outcome |-> "ok"].outcome = record.outcome
      BY <3>1
    <3> QED
      BY <3>2
  <2> HIDE DEF verdict, log
  <2>7. /\ state' \in RequestState(state')
        /\ state'.images = state.images /\ state'.fits = state.fits /\ state'.control = state.control
        /\ state'.delivery = "unknown" /\ state'.first = state.first /\ state'.outcome = "none"
        /\ state'.log = log /\ state'.phase = "ended" /\ state'.reply = verdict /\ ~state'.open
    BY <1>1, <2>1, <2>3 DEF RequestState, RequestPhase
  <2>8. Learning(state')
    BY <1>1, <2>4, <2>7 DEF Learning, Recorded
  <2>9. Recording(state')
    BY <2>5, <2>6, <2>7 DEF Recording, Recorded, Replied
  <2> QED
    BY <2>7, <2>8, <2>9 DEF RequestInv
<1> QED
  BY <1>3, <1>4 DEF Request!FinishAttempt

\* The request is judged: what it returns and learns.
LEMMA RequestEnds ==
  ASSUME RequestInv, NEW outcome, NEW delivery \in {"unknown", "accepted", "rejected"},
         state.phase = "judge",
         state' = [state EXCEPT !.phase = "done", !.outcome = outcome, !.delivery = delivery],
         IF outcome = "ok" THEN state.reply = "ok" ELSE outcome = "journal" \/ state.reply # "ok",
         delivery = "accepted" => state.reply = "ok" /\ state.images /\ ~state.control,
         delivery = "rejected" => state.reply = "ok" /\ state.control
  PROVE  RequestInv'
<1>1. state \in RequestState(state) /\ Learning(state) /\ Recording(state)
  BY DEF RequestInv
<1>2. /\ state' \in RequestState(state')
      /\ state'.images = state.images /\ state'.fits = state.fits /\ state'.control = state.control
      /\ state'.delivery = delivery /\ state'.first = state.first /\ state'.outcome = outcome
      /\ state'.log = state.log /\ state'.phase = "done" /\ state'.open = state.open
      /\ state'.store = state.store
  BY <1>1 DEF RequestState, RequestPhase
<1>3. state.reply = "ok" => ~state.open /\ Recorded(state, state.images /\ ~state.control, "ok")
  BY <1>1 DEF Recording, Replied
<1>4. \A i, o : Recorded(state', i, o) = Recorded(state, i, o)
  BY <1>2 DEF Recorded
<1>5. state.images \in BOOLEAN /\ state.control \in BOOLEAN
  BY <1>1 DEF RequestState
<1>6. delivery = "accepted" => Recorded(state, TRUE, "ok")
  <2> SUFFICES ASSUME delivery = "accepted" PROVE Recorded(state, TRUE, "ok")
    OBVIOUS
  <2>1. (state.images /\ ~state.control) = TRUE
    BY <1>5
  <2> QED
    BY <1>3, <2>1
<1>7. delivery = "rejected" => Recorded(state, FALSE, "ok") /\ Recorded(state, TRUE, "refused") /\ state.fits
  <2> SUFFICES ASSUME delivery = "rejected"
      PROVE  Recorded(state, FALSE, "ok") /\ Recorded(state, TRUE, "refused") /\ state.fits
    OBVIOUS
  <2>1. (state.images /\ ~state.control) = FALSE
    BY <1>5
  <2>2. Recorded(state, FALSE, "ok")
    BY <1>3, <2>1
  <2> QED
    BY <1>1, <2>2 DEF Learning
<1>8. Learning(state')
  <2>1. state.control => state.images /\ state.fits /\ state.first = "refused" /\ Recorded(state, TRUE, "refused")
    BY <1>1 DEF Learning
  <2>2. state'.phase = "done"
    BY <1>2
  <2> QED
    BY <1>2, <1>6, <1>7, <2>1, <2>2 DEF Learning, Recorded
<1>9. outcome = "ok" => ~state.open /\ \E i \in BOOLEAN : Recorded(state, i, "ok")
  <2> SUFFICES ASSUME outcome = "ok" PROVE ~state.open /\ \E i \in BOOLEAN : Recorded(state, i, "ok")
    OBVIOUS
  <2>1. (state.images /\ ~state.control) \in BOOLEAN
    BY <1>5
  <2> QED
    BY <1>3, <2>1
<1>10. \A i \in BOOLEAN : Recorded(state, i, "ok") => outcome \in {"ok", "journal"}
  BY <1>1 DEF Recording, Replied
<1>11. state.open => state.store = "failing"
  BY <1>1 DEF Recording
<1>12. Recording(state')
  BY <1>2, <1>4, <1>9, <1>10, <1>11 DEF Recording, Replied
<1> QED
  BY <1>2, <1>8, <1>12 DEF RequestInv

LEMMA RequestJudges ==
  ASSUME RequestInv,
         \/ Request!Succeed \/ Request!TooLarge \/ Request!Control \/ Request!Controlled \/ Request!GiveUp
  PROVE  RequestInv'
<1>1. state \in RequestState(state) /\ Learning(state) /\ Recording(state)
  BY DEF RequestInv
<1>2. state.phase = "judge"
  BY DEF Request!Succeed, Request!TooLarge, Request!Control, Request!Controlled, Request!GiveUp
<1>3. state.delivery = "unknown" /\ state.outcome = "none" /\ (state.open => state.store = "failing")
  BY <1>1, <1>2 DEF Learning, Recording
<1>4. ASSUME NEW outcome, state' = Request!Finish(state, outcome),
             IF outcome = "ok" THEN state.reply = "ok" ELSE outcome = "journal" \/ state.reply # "ok"
      PROVE  RequestInv'
  <2>1. state' = [state EXCEPT !.phase = "done", !.outcome = outcome, !.delivery = "unknown"]
    BY <1>1, <1>3, <1>4 DEF Request!Finish, RequestState
  <2> QED
    BY <1>2, <1>4, <2>1, RequestEnds
<1>5. ASSUME NEW delivery \in {"accepted", "rejected"}, Request!Observed(delivery), state.reply = "ok",
             delivery = "accepted" => state.images /\ ~state.control,
             delivery = "rejected" => state.control
      PROVE  RequestInv'
  <2>1. CASE state' = Request!Finish(state, "journal")
    BY <1>4, <2>1
  <2>2. CASE state' = Request!Finish([state EXCEPT !.delivery = delivery], "ok")
    <3>1. state' = [state EXCEPT !.phase = "done", !.outcome = "ok", !.delivery = delivery]
      BY <1>1, <2>2 DEF Request!Finish, RequestState
    <3> QED
      BY <1>2, <1>5, <3>1, RequestEnds
  <2> QED
    BY <1>5, <2>1, <2>2 DEF Request!Observed
<1>6. CASE Request!Succeed
  <2>1. CASE Request!Probes
    BY <1>5, <1>6, <2>1 DEF Request!Succeed, Request!Probes
  <2>2. CASE ~Request!Probes
    BY <1>4, <1>6, <2>2 DEF Request!Succeed
  <2> QED
    BY <2>1, <2>2
<1>7. CASE Request!TooLarge
  <2>1. state.reply = "toolarge"
    BY <1>7 DEF Request!TooLarge
  <2>2. CASE state' = Request!Finish(state, "toolarge")
    BY <1>4, <2>1, <2>2
  <2>3. ASSUME NEW images \in {FALSE, state.images}, NEW fits \in BOOLEAN, ~state.control,
               state' = [state EXCEPT !.boundaries = state.boundaries - 1, !.phase = "build",
                                      !.images = images, !.fits = fits]
        PROVE  RequestInv'
    <3> DEFINE boundaries == state.boundaries - 1
    <3> HIDE DEF boundaries
    <3>1. state' = [state EXCEPT !.boundaries = boundaries, !.phase = "build",
                                 !.images = images, !.fits = fits]
      BY <2>3 DEF boundaries
    <3>2. images \in BOOLEAN
      BY <1>1 DEF RequestState
    <3>3. /\ state' \in RequestState(state')
          /\ state'.control = FALSE /\ state'.delivery = "unknown" /\ state'.first = state.first
          /\ state'.outcome = "none" /\ state'.log = state.log /\ state'.phase = "build"
          /\ state'.open = state.open /\ state'.store = state.store
      BY ZenonT(60), <1>1, <1>3, <2>3, <3>1, <3>2 DEF RequestState, RequestPhase
    <3>4. \A i \in BOOLEAN : ~Recorded(state, i, "ok")
      BY <1>1, <1>2, <2>1 DEF Recording, Replied
    <3>5. Learning(state')
      BY <3>3 DEF Learning
    <3>6. Recording(state')
      BY <1>3, <3>3, <3>4 DEF Recording, Recorded, Replied
    <3> QED
      BY <3>3, <3>5, <3>6 DEF RequestInv
  <2> QED
    BY <1>7, <2>2, <2>3 DEF Request!TooLarge
<1>8. CASE Request!Control
  <2>1. /\ state.reply = "refused" /\ state.images /\ state.fits /\ ~state.control
        /\ state' = [state EXCEPT !.control = TRUE, !.first = "refused", !.phase = "build"]
    BY <1>8 DEF Request!Control, Request!Probes, Request!ControlAllowed
  <2>2. /\ state' \in RequestState(state')
        /\ state'.images = state.images /\ state'.fits = state.fits /\ state'.control = TRUE
        /\ state'.delivery = "unknown" /\ state'.first = "refused" /\ state'.outcome = "none"
        /\ state'.log = state.log /\ state'.phase = "build" /\ state'.open = state.open
        /\ state'.store = state.store
    BY ZenonT(60), <1>1, <1>3, <2>1 DEF RequestState, RequestPhase
  <2>3. Recorded(state, state.images /\ ~state.control, "refused")
    BY <1>1, <1>2, <2>1 DEF Recording, Replied
  <2>4. (state.images /\ ~state.control) = TRUE
    BY <1>1, <2>1 DEF RequestState
  <2>5. Recorded(state, TRUE, "refused")
    BY <2>3, <2>4
  <2>6. \A i \in BOOLEAN : ~Recorded(state, i, "ok")
    BY <1>1, <1>2, <2>1 DEF Recording, Replied
  <2>7. Learning(state')
    BY <2>1, <2>2, <2>5 DEF Learning, Recorded
  <2>8. Recording(state')
    BY <1>3, <2>2, <2>6 DEF Recording, Recorded, Replied
  <2> QED
    BY <2>2, <2>7, <2>8 DEF RequestInv
<1>9. CASE Request!Controlled
  <2>1. state.control
    BY <1>9 DEF Request!Controlled
  <2>2. CASE state.reply = "ok"
    BY <1>5, <1>9, <2>1, <2>2 DEF Request!Controlled
  <2>3. CASE state.reply # "ok"
    <3>1. state' = Request!Finish(state, "refused")
      BY <1>1, <1>9, <2>1, <2>3 DEF Request!Controlled, Learning
    <3> QED
      BY <1>4, <2>3, <3>1
  <2> QED
    BY <2>2, <2>3
<1>10. CASE Request!GiveUp
  BY <1>4, <1>10 DEF Request!GiveUp
<1> QED
  BY <1>6, <1>7, <1>8, <1>9, <1>10

LEMMA RequestNext ==
  ASSUME RequestInv, Request!Next
  PROVE  RequestInv'
BY RequestTroubles, RequestCalls, RequestRetries, RequestRecords, RequestJudges DEF Request!Next, Request!Step

LEMMA RequestStutters ==
  ASSUME RequestInv, UNCHANGED state
  PROVE  RequestInv'
<1>1. state' \in RequestState(state') /\ Learning(state') /\ Recording(state')
  BY DEF RequestInv
<1> QED
  BY <1>1 DEF RequestInv

LEMMA RequestSafe ==
  ASSUME RequestInv
  PROVE  Request!RequestIsSound
<1>1. Learning(state) /\ Recording(state)
  BY DEF RequestInv
<1>2. \A i, o : Request!Logged(i, o) = Recorded(state, i, o)
  BY DEF Request!Logged, Recorded
<1>3. Request!DeliveryHasEvidence
  BY <1>1, <1>2 DEF Request!DeliveryHasEvidence, Learning
<1>4. Request!ResponseIsRecorded
  BY <1>1, <1>2 DEF Request!ResponseIsRecorded, Recording, Replied
<1>5. Request!AttemptsAreClosed
  BY <1>1 DEF Request!AttemptsAreClosed, Recording
<1> QED
  BY <1>3, <1>4, <1>5 DEF Request!RequestIsSound

-----------------------------------------------------------------------------
(* The credentials that processes share.                                   *)

CredDocument == [token : Nat, key : BOOLEAN]
CredUser ==
  [at : {"start", "idle", "wait", "locked", "exchange", "save", "cleanup"},
   goal : {"none", "migrate", "refresh", "login", "logout", "key"},
   doc : CredDocument, brings : Nat, login : {0} \cup Credentials!Login]
CredFlow ==
  [at : {"none", "browser", "code", "done", "failed", "over"}, owner : {0} \cup Credentials!User,
   token : Nat, closed : BOOLEAN]
CredState ==
  [exists : BOOLEAN, file : CredDocument, legacy : BOOLEAN, lock : {0} \cup Credentials!User,
   issued : Nat, live : SUBSET Nat, stale : SUBSET Nat, lost : BOOLEAN, reused : BOOLEAN,
   out : BOOLEAN, keyed : BOOLEAN, changes : Nat, faults : Nat,
   user : [Credentials!User -> CredUser], flow : [Credentials!Login -> CredFlow]]

Saving(c) == \E u \in Credentials!User : c.user[u].at = "save" /\ c.user[u].goal = "refresh"

\* What is stored; the tokens of an older release are good until they are migrated.
Stored(c) ==
  /\ 1 <= c.issued /\ c.file.token <= c.issued
  /\ ~c.exists => c.file = Credentials!Empty /\ 1 \in c.live
  /\ c.out => c.exists /\ c.file.token = 0
  /\ c.keyed => c.file.key
  /\ c.reused => c.lost
  /\ c.lost \/ c.file.token = 0 \/ c.file.token \in c.live \/ Saving(c)

\* The tokens of a login are its own, and not those an older release left.
Begun(c, l) ==
  LET flow == c.flow[l]
  IN /\ flow.token # 1 /\ flow.token <= c.issued
     /\ flow.at = "none" => flow.token = 0
     /\ flow.at # "none" => flow.owner # 0
     /\ flow.at = "done" => flow.token # 0
     /\ flow.closed /\ flow.token # 0 => c.file.token # flow.token
Distinct(c) ==
  \A k, l \in Credentials!Login : k # l /\ c.flow[k].token # 0 => c.flow[k].token # c.flow[l].token

\* Who is between its read and its write has the lock, and what it will write
\* is what it read but for what it was asked to change.
Holding(c, u) ==
  LET me == c.user[u]
  IN /\ me.at \in {"locked", "exchange", "save", "cleanup"} => c.lock = u
     /\ me.at \in {"locked", "exchange"} => me.doc = c.file
     /\ me.at = "exchange" => me.goal = "refresh" /\ me.doc.token # 0
     /\ me.at = "save" => me.goal \in {"refresh", "login", "logout", "key"}
     /\ me.at = "save" /\ me.goal # "key" => me.doc.key = c.file.key
     /\ me.at = "save" /\ me.goal = "refresh" =>
          /\ ~c.out /\ me.doc.token \in c.live /\ me.doc.token <= c.issued
          /\ \/ me.doc.token = c.file.token
             \/ \A l \in Credentials!Login : c.flow[l].token # me.doc.token
     /\ me.at = "save" /\ me.goal = "login" => me.doc.token = me.brings /\ ~c.flow[me.login].closed
     /\ me.at = "save" /\ me.goal = "logout" => me.doc.token = 0
     /\ me.at = "save" /\ me.goal = "key" => me.doc.token = c.file.token /\ me.doc.key

\* The tokens of the login that a process works on are good, and not yet stored.
LoggingIn(c, u) ==
  LET me == c.user[u]
      flow == c.flow[me.login]
  IN /\ me.login # 0 =>
          /\ flow.owner = u /\ flow.at # "none"
          /\ flow.token # 0 => flow.token \in c.live /\ flow.token # c.file.token
     /\ me.goal = "login" /\ me.at \in {"wait", "locked", "save"} =>
          me.login # 0 /\ flow.at = "over" /\ flow.token = me.brings /\ me.brings # 0

CredSound(c) ==
  /\ Stored(c) /\ Distinct(c)
  /\ \A l \in Credentials!Login : Begun(c, l)
  /\ \A u \in Credentials!User : Holding(c, u) /\ LoggingIn(c, u)
CredInv == state \in CredState /\ CredSound(state)

LEMMA CredFacts ==
  ASSUME CredInv
  PROVE  /\ Stored(state) /\ Distinct(state)
         /\ \A l \in Credentials!Login : state.flow[l] \in CredFlow /\ Begun(state, l)
         /\ \A u \in Credentials!User : state.user[u] \in CredUser /\ Holding(state, u) /\ LoggingIn(state, u)
         /\ state.file \in CredDocument /\ state.issued \in Nat /\ state.live \in SUBSET Nat
         /\ state.stale \in SUBSET Nat /\ state.lock \in {0} \cup Credentials!User
         /\ 0 \notin Credentials!User /\ 0 \notin Credentials!Login
<1>1. state \in CredState /\ CredSound(state)
  BY DEF CredInv
<1>2. /\ \A l \in Credentials!Login : state.flow[l] \in CredFlow
      /\ \A u \in Credentials!User : state.user[u] \in CredUser
      /\ state.file \in CredDocument /\ state.issued \in Nat /\ state.live \in SUBSET Nat
      /\ state.stale \in SUBSET Nat /\ state.lock \in {0} \cup Credentials!User
  BY <1>1 DEF CredState
<1>3. 0 \notin Credentials!User /\ 0 \notin Credentials!Login
  BY DEF Credentials!User, Credentials!Login
<1> QED
  BY <1>1, <1>2, <1>3 DEF CredSound

\* A step of u, or of nobody, that leaves the document alone.  Whoever has the
\* lock may spend the stored token; a login keeps its tokens once it has some.
Beside(s, k, u) ==
  /\ k.exists = s.exists /\ k.file = s.file /\ k.out = s.out /\ k.keyed = s.keyed
  /\ s.issued <= k.issued /\ (s.lost => k.lost)
  /\ s.live \subseteq k.live \/ (s.lock = u /\ s.live \subseteq k.live \cup {s.file.token})
  /\ \A v \in Credentials!User \ {u} : k.user[v] = s.user[v] /\ (s.lock = v => k.lock = v)
  /\ \A l \in Credentials!Login :
       /\ \/ k.flow[l].token = s.flow[l].token
          \/ s.flow[l].at = "code" /\ k.flow[l].token = s.issued + 1 /\ k.flow[l].token \in k.live
       /\ s.flow[l].at # "none" => k.flow[l].owner = s.flow[l].owner /\ k.flow[l].at # "none"
       /\ s.flow[l].at = "over" => k.flow[l].at = "over"
       /\ k.flow[l].closed # s.flow[l].closed => u # 0 /\ s.user[u].login = l

\* What the others rely on stays.
LEMMA BesideKeeps ==
  ASSUME CredInv, NEW k \in CredState, NEW u \in {0} \cup Credentials!User, Beside(state, k, u),
         NEW v \in Credentials!User \ {u}
  PROVE  Holding(k, v) /\ LoggingIn(k, v)
<1> DEFINE me == state.user[v]
<1>1. /\ me \in CredUser /\ Holding(state, v) /\ LoggingIn(state, v) /\ v # 0
      /\ state.issued \in Nat /\ state.file.token \in Nat /\ state.file.token <= state.issued
      /\ k.user[v] = me
  BY CredFacts DEF Beside, Stored, CredDocument
<1>2. me.login \in {0} \cup Credentials!Login /\ 0 \notin Credentials!Login
  BY <1>1, CredFacts DEF CredUser
<1>3. u # 0 => LoggingIn(state, u) /\ u \in Credentials!User
  BY CredFacts
<1>4. ASSUME me.login # 0
      PROVE  /\ state.flow[me.login].owner = v /\ state.flow[me.login].at # "none"
             /\ k.flow[me.login].owner = v /\ k.flow[me.login].at # "none"
             /\ k.flow[me.login].closed = state.flow[me.login].closed
             /\ state.flow[me.login].at = "over" =>
                  k.flow[me.login].at = "over" /\ k.flow[me.login].token = state.flow[me.login].token
  <2>1. me.login \in Credentials!Login
    BY <1>2, <1>4
  <2>2. state.flow[me.login].owner = v /\ state.flow[me.login].at # "none"
    BY <1>1, <1>4 DEF LoggingIn
  <2>3. ~(u # 0 /\ state.user[u].login = me.login)
    BY <1>3, <1>4, <2>2 DEF LoggingIn
  <2> QED
    BY <2>1, <2>2, <2>3 DEF Beside
<1>5. ASSUME NEW t \in state.live, t # state.file.token PROVE t \in k.live
  BY <1>5 DEF Beside
<1>6. LoggingIn(k, v)
  <2>1. ASSUME me.login # 0, k.flow[me.login].token # 0
        PROVE  k.flow[me.login].token \in k.live /\ k.flow[me.login].token # k.file.token
    <3>1. me.login \in Credentials!Login /\ k.file = state.file
      BY <1>2, <2>1 DEF Beside
    <3>2. CASE k.flow[me.login].token = state.flow[me.login].token
      <4>1. state.flow[me.login].token \in state.live /\ state.flow[me.login].token # state.file.token
        BY <1>1, <2>1, <3>2 DEF LoggingIn
      <4> QED
        BY <1>5, <3>1, <3>2, <4>1
    <3>3. CASE k.flow[me.login].token = state.issued + 1 /\ k.flow[me.login].token \in k.live
      BY <1>1, <3>1, <3>3
    <3> QED
      BY <3>1, <3>2, <3>3 DEF Beside
  <2> QED
    BY <1>1, <1>4, <2>1 DEF LoggingIn
<1>7. Holding(k, v)
  <2>1. CASE state.lock # v
    BY <1>1, <2>1 DEF Holding
  <2>2. CASE state.lock = v
    <3>1. /\ k.lock = v /\ k.file = state.file /\ k.out = state.out /\ state.live \subseteq k.live
          /\ state.issued <= k.issued /\ k.issued \in Nat
      BY <2>2 DEF Beside, CredState
    <3>2. ASSUME me.at = "save", me.goal = "refresh", me.doc.token # state.file.token
          PROVE  \A l \in Credentials!Login : k.flow[l].token # me.doc.token
      <4>1. me.doc.token \in Nat /\ me.doc.token <= state.issued
        BY <1>1, <3>2 DEF Holding, CredUser, CredDocument
      <4>2. \A l \in Credentials!Login : state.flow[l].token # me.doc.token
        BY <1>1, <3>2 DEF Holding
      <4>3. me.doc.token # state.issued + 1
        BY <1>1, <4>1
      <4> QED
        BY <4>2, <4>3 DEF Beside
    <3>3. me.at = "save" /\ me.goal = "refresh" => me.doc.token <= k.issued
      BY <1>1, <3>1 DEF Holding, CredUser, CredDocument
    <3>4. me.at = "save" /\ me.goal = "login" => ~k.flow[me.login].closed
      BY <1>1, <1>4 DEF Holding, LoggingIn
    <3> QED
      BY <1>1, <3>1, <3>2, <3>3, <3>4 DEF Holding
  <2> QED
    BY <2>1, <2>2
<1> QED
  BY <1>6, <1>7

\* What is stored stays good unless its token is spent.
LEMMA BesideStored ==
  ASSUME CredInv, NEW k \in CredState, NEW u \in {0} \cup Credentials!User, Beside(state, k, u),
         state.live \subseteq k.live, k.reused => k.lost,
         u # 0 => k.user[u] = state.user[u] \/ k.lost
                  \/ ~(state.user[u].at = "save" /\ state.user[u].goal = "refresh")
  PROVE  Stored(k)
<1>1. Stored(state) /\ state.file.token \in Nat /\ state.issued \in Nat /\ k.issued \in Nat
  BY CredFacts DEF CredState, CredDocument
<1>2. k.file.token <= k.issued /\ 1 <= k.issued
  BY <1>1 DEF Stored, Beside
<1>3. Saving(state) => k.lost \/ Saving(k)
  <2> SUFFICES ASSUME NEW v \in Credentials!User,
                      state.user[v].at = "save", state.user[v].goal = "refresh"
               PROVE  k.lost \/ Saving(k)
    BY DEF Saving
  <2>1. CASE v = u
    <3>1. u # 0
      BY <2>1, CredFacts
    <3> QED
      BY <2>1, <3>1 DEF Saving
  <2>2. CASE v # u
    BY <2>2 DEF Saving, Beside
  <2> QED
    BY <2>1, <2>2
<1> QED
  BY <1>1, <1>2, <1>3 DEF Stored, Beside

\* The logins stay what they are.
LEMMA BesideFlows ==
  ASSUME CredInv, NEW k \in CredState, NEW u \in {0} \cup Credentials!User, Beside(state, k, u),
         k.flow = state.flow
  PROVE  Distinct(k) /\ \A l \in Credentials!Login : Begun(k, l)
<1>1. Distinct(k)
  BY CredFacts DEF Distinct
<1>2. ASSUME NEW l \in Credentials!Login PROVE Begun(k, l)
  <2>1. Begun(state, l) /\ state.flow[l].token \in Nat /\ state.issued \in Nat /\ k.issued \in Nat
    BY CredFacts DEF CredState, CredFlow
  <2>2. state.flow[l].token <= k.issued
    BY <2>1 DEF Begun, Beside
  <2> QED
    BY <2>1, <2>2 DEF Begun, Beside
<1> QED
  BY <1>1, <1>2

\* So a step of u has to account for u, for the store and for the logins alone.
LEMMA CredStep ==
  ASSUME CredInv, state' \in CredState, NEW u \in {0} \cup Credentials!User, Beside(state, state', u),
         Stored(state'), Distinct(state'), \A l \in Credentials!Login : Begun(state', l),
         u # 0 => Holding(state', u) /\ LoggingIn(state', u)
  PROVE  CredInv'
<1> DEFINE k == state'
<1>1. \A v \in Credentials!User \ {u} : Holding(k, v) /\ LoggingIn(k, v)
  <2> HIDE DEF k
  <2>1. k = state'
    BY DEF k
  <2> QED
    BY <2>1, BesideKeeps
<1>2. \A v \in Credentials!User : Holding(k, v) /\ LoggingIn(k, v)
  BY <1>1, CredFacts
<1>3. CredSound(k)
  BY <1>2 DEF CredSound
<1> QED
  BY <1>3 DEF CredInv

-----------------------------------------------------------------------------
(* Steps of a process that is done, or begins to wait.                     *)

\* With u, the logins it began may be over.
MayEnd(u) ==
  \A l \in Credentials!Login :
    \/ state'.flow[l] = state.flow[l]
    \/ state.flow[l].owner = u /\ state'.flow[l] = [state.flow[l] EXCEPT !.at = "over"]

LEMMA CredEnds ==
  ASSUME CredInv, NEW u \in Credentials!User, state' \in CredState,
         state'.exists = state.exists, state'.file = state.file, state'.out = state.out,
         state'.keyed = state.keyed, state'.issued = state.issued, state'.live = state.live,
         state'.lock = IF state.lock = u THEN 0 ELSE state.lock,
         state.lost => state'.lost, state'.reused => state'.lost,
         state.user[u].at = "save" /\ state.user[u].goal = "refresh" => state'.lost,
         \A v \in Credentials!User \ {u} : state'.user[v] = state.user[v],
         state'.user[u].at \in {"start", "idle"}, state'.user[u].login = 0,
         MayEnd(u)
  PROVE  CredInv'
<1>1. /\ \A l \in Credentials!Login : state.flow[l] \in CredFlow /\ Begun(state, l)
      /\ Distinct(state) /\ 0 \notin Credentials!User
  BY CredFacts
<1>2. ASSUME NEW l \in Credentials!Login
      PROVE  /\ state'.flow[l].token = state.flow[l].token
             /\ state'.flow[l].owner = state.flow[l].owner
             /\ state'.flow[l].closed = state.flow[l].closed
             /\ state'.flow[l].at \in {state.flow[l].at, "over"}
             /\ state'.flow[l].at = "over" => state.flow[l].at = "over" \/ state.flow[l].owner = u
  <2>1. CASE state'.flow[l] = state.flow[l]
    BY <2>1
  <2>2. CASE state.flow[l].owner = u /\ state'.flow[l] = [state.flow[l] EXCEPT !.at = "over"]
    BY <1>1, <2>2 DEF CredFlow
  <2> QED
    BY <2>1, <2>2 DEF MayEnd
<1>3. Beside(state, state', u)
  <2>1. \A v \in Credentials!User \ {u} : state.lock = v => state'.lock = v
    OBVIOUS
  <2>2. state.issued <= state'.issued
    BY CredFacts
  <2> QED
    BY <1>2, <2>1, <2>2 DEF Beside
<1>4. Distinct(state')
  BY <1>1, <1>2 DEF Distinct
<1>5. ASSUME NEW l \in Credentials!Login PROVE Begun(state', l)
  BY <1>1, <1>2 DEF Begun
<1>6. Stored(state')
  BY <1>3, BesideStored
<1>7. Holding(state', u) /\ LoggingIn(state', u)
  BY <1>1 DEF Holding, LoggingIn
<1> QED
  BY <1>3, <1>4, <1>5, <1>6, <1>7, CredStep

\* Idle, with what else it is an end of.
LEMMA CredIdle ==
  ASSUME CredInv, NEW u \in Credentials!User
  PROVE  LET c == Credentials!Idle(state, u)
         IN /\ c \in CredState
            /\ c.exists = state.exists /\ c.file = state.file /\ c.out = state.out
            /\ c.keyed = state.keyed /\ c.issued = state.issued /\ c.live = state.live
            /\ c.stale = state.stale /\ c.legacy = state.legacy /\ c.changes = state.changes
            /\ c.faults = state.faults /\ c.reused = state.reused /\ c.flow = state.flow
            /\ c.lock = IF state.lock = u THEN 0 ELSE state.lock
            /\ c.lost = (state.lost \/ (state.user[u].at = "save" /\ state.user[u].goal = "refresh"))
            /\ c.user = [state.user EXCEPT ![u] = [Credentials!Start EXCEPT !.at = "idle"]]
<1> DEFINE idle == [Credentials!Start EXCEPT !.at = "idle"]
           user == [state.user EXCEPT ![u] = idle]
           lost == state.lost \/ (state.user[u].at = "save" /\ state.user[u].goal = "refresh")
           lock == IF state.lock = u THEN 0 ELSE state.lock
<1>1. state \in CredState
  BY DEF CredInv
<1>2. idle \in CredUser
  BY DEF CredUser, CredDocument, Credentials!Start, Credentials!Empty, Credentials!NoToken, Credentials!NoLogin
<1>3. user \in [Credentials!User -> CredUser]
  BY <1>1, <1>2 DEF CredState
<1>4. lost \in BOOLEAN /\ lock \in {0} \cup Credentials!User
  BY <1>1 DEF CredState
<1>5. Credentials!Idle(state, u) = [state EXCEPT !.user = user, !.lock = lock, !.lost = lost]
  BY <1>1 DEF CredState, Credentials!Idle, Credentials!Nobody, Credentials!Me
<1> HIDE DEF user, lost, lock
<1>6. /\ Credentials!Idle(state, u) \in CredState
      /\ Credentials!Idle(state, u).user = user /\ Credentials!Idle(state, u).lock = lock
      /\ Credentials!Idle(state, u).lost = lost
  BY <1>1, <1>3, <1>4, <1>5 DEF CredState
<1>7. /\ Credentials!Idle(state, u).exists = state.exists /\ Credentials!Idle(state, u).file = state.file
      /\ Credentials!Idle(state, u).out = state.out /\ Credentials!Idle(state, u).keyed = state.keyed
      /\ Credentials!Idle(state, u).issued = state.issued /\ Credentials!Idle(state, u).live = state.live
      /\ Credentials!Idle(state, u).stale = state.stale /\ Credentials!Idle(state, u).legacy = state.legacy
      /\ Credentials!Idle(state, u).changes = state.changes /\ Credentials!Idle(state, u).faults = state.faults
      /\ Credentials!Idle(state, u).reused = state.reused /\ Credentials!Idle(state, u).flow = state.flow
  BY <1>1, <1>5 DEF CredState
<1> QED
  BY <1>6, <1>7 DEF user, lost, lock

LEMMA CredEndsSo ==
  ASSUME CredInv, NEW u \in Credentials!User, NEW faults \in Nat, NEW legacy \in BOOLEAN, NEW reused \in BOOLEAN,
         reused => state.reused \/ state.lost,
         state' = [Credentials!Idle(state, u) EXCEPT !.faults = faults, !.legacy = legacy, !.reused = reused]
  PROVE  CredInv'
<1> DEFINE c == Credentials!Idle(state, u)
<1>1. /\ c \in CredState
      /\ c.exists = state.exists /\ c.file = state.file /\ c.out = state.out
      /\ c.keyed = state.keyed /\ c.issued = state.issued /\ c.live = state.live /\ c.flow = state.flow
      /\ c.lock = IF state.lock = u THEN 0 ELSE state.lock
      /\ c.lost = (state.lost \/ (state.user[u].at = "save" /\ state.user[u].goal = "refresh"))
      /\ c.user = [state.user EXCEPT ![u] = [Credentials!Start EXCEPT !.at = "idle"]]
  BY CredIdle
<1>2. state' = [c EXCEPT !.faults = faults, !.legacy = legacy, !.reused = reused]
  OBVIOUS
<1> HIDE DEF c
<1>3. /\ state' \in CredState
      /\ state'.exists = c.exists /\ state'.file = c.file /\ state'.out = c.out /\ state'.keyed = c.keyed
      /\ state'.issued = c.issued /\ state'.live = c.live /\ state'.flow = c.flow /\ state'.lock = c.lock
      /\ state'.lost = c.lost /\ state'.user = c.user /\ state'.reused = reused
  BY <1>1, <1>2 DEF CredState
<1>4. state.user \in [Credentials!User -> CredUser] /\ (state.reused => state.lost)
  BY CredFacts DEF CredInv, CredState, Stored
<1>5. /\ \A v \in Credentials!User \ {u} : state'.user[v] = state.user[v]
      /\ state'.user[u].at = "idle" /\ state'.user[u].login = 0
  BY <1>1, <1>3, <1>4 DEF Credentials!Start, Credentials!NoLogin
<1>6. /\ state.lost => state'.lost
      /\ state.user[u].at = "save" /\ state.user[u].goal = "refresh" => state'.lost
  BY <1>1, <1>3
<1>7. state'.reused => state'.lost
  BY <1>3, <1>4, <1>6
<1>8. /\ state'.exists = state.exists /\ state'.file = state.file /\ state'.out = state.out
      /\ state'.keyed = state.keyed /\ state'.issued = state.issued /\ state'.live = state.live
      /\ state'.flow = state.flow /\ state'.lock = IF state.lock = u THEN 0 ELSE state.lock
  BY <1>1, <1>3
<1>9. MayEnd(u)
  BY <1>8 DEF MayEnd
<1> QED
  BY <1>3, <1>5, <1>6, <1>7, <1>8, <1>9, CredEnds

LEMMA CredLeaves ==
  ASSUME CredInv, NEW u \in Credentials!User,
         Credentials!Ends(u) \/ Credentials!Fails(u) \/ Credentials!Cleanup(u)
  PROVE  CredInv'
<1> DEFINE c == Credentials!Idle(state, u)
<1>1. /\ c \in CredState /\ c.faults = state.faults /\ c.legacy = state.legacy /\ c.reused = state.reused
      /\ state.faults \in Nat /\ state.legacy \in BOOLEAN /\ state.reused \in BOOLEAN
  BY CredIdle DEF CredInv, CredState
<1>2. CASE Credentials!Ends(u)
  <2>1. state' = c
    BY <1>2 DEF Credentials!Ends
  <2> HIDE DEF c
  <2>2. state' = [c EXCEPT !.faults = state.faults, !.legacy = state.legacy, !.reused = state.reused]
    BY <1>1, <2>1 DEF CredState
  <2> QED
    BY <1>1, <2>2, CredEndsSo DEF c
<1>3. CASE Credentials!Fails(u)
  <2>1. state' = [c EXCEPT !.faults = @ + 1]
    BY <1>3 DEF Credentials!Fails
  <2> HIDE DEF c
  <2>2. state' = [c EXCEPT !.faults = state.faults + 1, !.legacy = state.legacy, !.reused = state.reused]
    BY <1>1, <2>1 DEF CredState
  <2>3. state.faults + 1 \in Nat
    BY <1>1
  <2> QED
    BY <1>1, <2>2, <2>3, CredEndsSo DEF c
<1>4. CASE Credentials!Cleanup(u)
  <2>1. state' = [c EXCEPT !.legacy = FALSE]
    BY <1>4 DEF Credentials!Cleanup
  <2> HIDE DEF c
  <2>2. state' = [c EXCEPT !.faults = state.faults, !.legacy = FALSE, !.reused = state.reused]
    BY <1>1, <2>1 DEF CredState
  <2> QED
    BY <1>1, <2>2, CredEndsSo DEF c
<1> QED
  BY <1>2, <1>3, <1>4

LEMMA CredCrash ==
  ASSUME CredInv, NEW u \in Credentials!User, Credentials!Crash(u)
  PROVE  CredInv'
<1> DEFINE c == Credentials!Idle(state, u)
           user == [c.user EXCEPT ![u] = Credentials!Start]
           flow == [l \in Credentials!Login |->
                     IF state.flow[l].owner = u THEN [c.flow[l] EXCEPT !.at = "over"] ELSE c.flow[l]]
<1>1. /\ c \in CredState
      /\ c.exists = state.exists /\ c.file = state.file /\ c.out = state.out
      /\ c.keyed = state.keyed /\ c.issued = state.issued /\ c.live = state.live /\ c.flow = state.flow
      /\ c.lock = IF state.lock = u THEN 0 ELSE state.lock
      /\ c.lost = (state.lost \/ (state.user[u].at = "save" /\ state.user[u].goal = "refresh"))
      /\ c.user = [state.user EXCEPT ![u] = [Credentials!Start EXCEPT !.at = "idle"]]
      /\ c.reused = state.reused /\ c.faults = state.faults
  BY CredIdle
<1>2. Credentials!Start \in CredUser
  BY DEF CredUser, CredDocument, Credentials!Start, Credentials!Empty, Credentials!NoToken, Credentials!NoLogin
<1>3. state \in CredState
  BY DEF CredInv
<1>4. user \in [Credentials!User -> CredUser] /\ flow \in [Credentials!Login -> CredFlow]
  BY <1>1, <1>2, <1>3 DEF CredState, CredFlow
<1>5. state' = [c EXCEPT !.user = user, !.faults = c.faults + 1, !.flow = flow]
  <2> HIDE DEF c
  <2> QED
    BY <1>1, <1>3 DEF Credentials!Crash, CredState, c
<1>6. /\ \A v \in Credentials!User \ {u} : user[v] = state.user[v]
      /\ user[u].at = "start" /\ user[u].login = 0
  BY <1>1, <1>3 DEF CredState, Credentials!Start, Credentials!NoLogin
<1>7. \A l \in Credentials!Login :
        \/ flow[l] = state.flow[l]
        \/ state.flow[l].owner = u /\ flow[l] = [state.flow[l] EXCEPT !.at = "over"]
  BY <1>1
<1> HIDE DEF c, user, flow
<1>8. /\ state' \in CredState
      /\ state'.exists = c.exists /\ state'.file = c.file /\ state'.out = c.out /\ state'.keyed = c.keyed
      /\ state'.issued = c.issued /\ state'.live = c.live /\ state'.flow = flow /\ state'.lock = c.lock
      /\ state'.lost = c.lost /\ state'.user = user /\ state'.reused = c.reused
  <2>1. c.faults + 1 \in Nat
    BY <1>1 DEF CredState
  <2> DEFINE faults == c.faults + 1
  <2> HIDE DEF faults
  <2>2. state' = [c EXCEPT !.user = user, !.faults = faults, !.flow = flow]
    BY <1>5 DEF faults
  <2> QED
    BY <1>1, <1>4, <2>1, <2>2 DEF CredState, faults
<1>9. state.reused => state.lost
  BY CredFacts DEF Stored
<1>10. /\ state.lost => state'.lost
       /\ state'.reused => state'.lost
       /\ state.user[u].at = "save" /\ state.user[u].goal = "refresh" => state'.lost
  BY <1>1, <1>8, <1>9
<1>11. /\ state'.exists = state.exists /\ state'.file = state.file /\ state'.out = state.out
       /\ state'.keyed = state.keyed /\ state'.issued = state.issued /\ state'.live = state.live
       /\ state'.lock = IF state.lock = u THEN 0 ELSE state.lock
  BY <1>1, <1>8
<1>12. /\ \A v \in Credentials!User \ {u} : state'.user[v] = state.user[v]
       /\ state'.user[u].at \in {"start", "idle"} /\ state'.user[u].login = 0
  BY <1>6, <1>8
<1>13. MayEnd(u)
  BY <1>7, <1>8 DEF MayEnd
<1> QED
  BY <1>8, <1>10, <1>11, <1>12, <1>13, CredEnds

-----------------------------------------------------------------------------
(* Steps of a process that leave the logins and the tokens alone.          *)

LEMMA CredMoves ==
  ASSUME CredInv, NEW u \in Credentials!User, NEW me \in CredUser, NEW lock \in {0} \cup Credentials!User,
         NEW changes \in Nat,
         state' = [state EXCEPT !.user[u] = me, !.lock = lock, !.changes = changes],
         \A v \in Credentials!User \ {u} : state.lock = v => lock = v,
         ~(state.user[u].at = "save" /\ state.user[u].goal = "refresh"),
         me.login = state.user[u].login, Holding(state', u),
         me.goal = "login" => me.brings = state.user[u].brings /\ state.user[u].goal = "login"
                              /\ state.user[u].at \in {"wait", "locked", "save"}
  PROVE  CredInv'
<1>1. state \in CredState
  BY DEF CredInv
<1>2. [state.user EXCEPT ![u] = me] \in [Credentials!User -> CredUser]
  BY <1>1 DEF CredState
<1> DEFINE user == [state.user EXCEPT ![u] = me]
<1>3. user[u] = me /\ \A v \in Credentials!User \ {u} : user[v] = state.user[v]
  BY <1>1 DEF CredState
<1>4. state' = [state EXCEPT !.user = user, !.lock = lock, !.changes = changes]
  BY <1>1 DEF CredState
<1> HIDE DEF user
<1>5. /\ state'.exists = state.exists /\ state'.file = state.file /\ state'.out = state.out
      /\ state'.keyed = state.keyed /\ state'.issued = state.issued /\ state'.live = state.live
      /\ state'.lost = state.lost /\ state'.reused = state.reused
      /\ state'.flow = state.flow /\ state'.user = user /\ state'.lock = lock
  BY <1>1, <1>4 DEF CredState
<1>6. state' \in CredState
  BY <1>1, <1>2, <1>4 DEF CredState, user
<1>7. u # 0 /\ LoggingIn(state, u) /\ Stored(state) /\ state.issued \in Nat
  BY CredFacts
<1>8. state.issued <= state'.issued
  BY <1>5, <1>7
<1>9. Beside(state, state', u)
  BY <1>3, <1>5, <1>8 DEF Beside
<1>10. Stored(state')
  <2>1. state'.reused => state'.lost
    BY <1>5, <1>7 DEF Stored
  <2> QED
    BY <1>5, <1>6, <1>9, <2>1, BesideStored
<1>11. Distinct(state') /\ \A l \in Credentials!Login : Begun(state', l)
  BY <1>5, <1>6, <1>9, BesideFlows
<1>12. LoggingIn(state', u)
  BY SMTT(30), <1>3, <1>5, <1>7 DEF LoggingIn
<1> QED
  BY <1>6, <1>9, <1>10, <1>11, <1>12, CredStep

\* A process begins to wait for the lock, for anything but a login.
LEMMA CredWants ==
  ASSUME CredInv, NEW u \in Credentials!User, NEW goal \in {"migrate", "refresh", "logout", "key"},
         NEW changes \in Nat, state.user[u].at \in {"start", "idle"},
         state' = [Credentials!Wants(state, u, goal) EXCEPT !.changes = changes]
  PROVE  CredInv'
<1> DEFINE me == [state.user[u] EXCEPT !.at = "wait", !.goal = goal]
<1>1. state \in CredState /\ state.user[u] \in CredUser /\ state.lock \in {0} \cup Credentials!User
  BY CredFacts DEF CredInv
<1>2. me \in CredUser /\ me.at = "wait" /\ me.goal = goal /\ me.login = state.user[u].login
  BY <1>1 DEF CredUser
<1>3. state' = [state EXCEPT !.user[u] = me, !.lock = state.lock, !.changes = changes]
  BY <1>1 DEF Credentials!Wants, CredState, CredUser
<1> HIDE DEF me
<1>4. state'.user[u] = me
  BY <1>1, <1>3 DEF CredState
<1>5. Holding(state', u)
  BY <1>2, <1>4 DEF Holding
<1>6. ~(state.user[u].at = "save" /\ state.user[u].goal = "refresh") /\ me.goal # "login"
  BY <1>2
<1>7. \A v \in Credentials!User \ {u} : state.lock = v => state.lock = v
  OBVIOUS
<1> QED
  BY ZenonT(60), <1>1, <1>2, <1>3, <1>5, <1>6, <1>7, CredMoves

LEMMA CredOpen ==
  ASSUME CredInv, NEW u \in Credentials!User, Credentials!Open(u)
  PROVE  CredInv'
<1>1. CASE state.legacy
  <2>1. state' = Credentials!Wants(state, u, "migrate")
    BY <1>1 DEF Credentials!Open
  <2>2. state.changes \in Nat /\ state \in CredState
    BY DEF CredInv, CredState
  <2>3. state' = [Credentials!Wants(state, u, "migrate") EXCEPT !.changes = state.changes]
    BY <2>1, <2>2 DEF Credentials!Wants, CredState
  <2> QED
    BY <2>2, <2>3, CredWants DEF Credentials!Open, Credentials!Me
<1>2. CASE ~state.legacy
  BY <1>2, CredLeaves DEF Credentials!Open, Credentials!Ends
<1> QED
  BY <1>1, <1>2

LEMMA CredChange ==
  ASSUME CredInv, NEW u \in Credentials!User,
         Credentials!CurrentTokens(u) \/ Credentials!Change(u, "logout") \/ Credentials!Change(u, "key")
  PROVE  CredInv'
<1>1. state.changes \in Nat /\ state.changes + 1 \in Nat /\ state \in CredState
  BY DEF CredInv, CredState
<1>2. CASE Credentials!CurrentTokens(u)
  <2>1. state' = Credentials!Wants(state, u, "refresh")
    BY <1>2 DEF Credentials!CurrentTokens
  <2>2. state' = [Credentials!Wants(state, u, "refresh") EXCEPT !.changes = state.changes]
    BY <1>1, <2>1 DEF Credentials!Wants, CredState
  <2> QED
    BY <1>1, <1>2, <2>2, CredWants DEF Credentials!CurrentTokens, Credentials!Me
<1>3. ASSUME NEW goal \in {"logout", "key"}, Credentials!Change(u, goal) PROVE CredInv'
  <2>1. state' = [Credentials!Wants(state, u, goal) EXCEPT !.changes = state.changes + 1]
    BY <1>1, <1>3 DEF Credentials!Change, Credentials!Wants, CredState
  <2> QED
    BY <1>1, <1>3, <2>1, CredWants DEF Credentials!Change, Credentials!Me
<1> QED
  BY <1>2, <1>3

LEMMA CredAcquire ==
  ASSUME CredInv, NEW u \in Credentials!User, Credentials!Acquire(u)
  PROVE  CredInv'
<1> DEFINE me == [state.user[u] EXCEPT !.at = "locked", !.doc = state.file]
<1>1. /\ state \in CredState /\ state.user[u] \in CredUser /\ state.file \in CredDocument
      /\ state.user[u].at = "wait" /\ state.lock = 0 /\ state.changes \in Nat
  BY CredFacts DEF CredInv, CredState, Credentials!Acquire, Credentials!Free, Credentials!Me, Credentials!Nobody
<1>2. /\ me \in CredUser /\ me.at = "locked" /\ me.doc = state.file
      /\ me.login = state.user[u].login /\ me.goal = state.user[u].goal /\ me.brings = state.user[u].brings
  BY <1>1 DEF CredUser
<1>3. state' = [state EXCEPT !.user[u] = me, !.lock = u, !.changes = state.changes]
  BY <1>1 DEF Credentials!Acquire, CredState, CredUser
<1> HIDE DEF me
<1>4. state'.user[u] = me /\ state'.lock = u /\ state'.file = state.file
  BY <1>1, <1>3 DEF CredState
<1>5. Holding(state', u)
  BY <1>2, <1>4 DEF Holding
<1>6. \A v \in Credentials!User \ {u} : state.lock = v => u = v
  BY <1>1, CredFacts
<1> QED
  BY <1>1, <1>2, <1>3, <1>5, <1>6, CredMoves

LEMMA CredUpdate ==
  ASSUME CredInv, NEW u \in Credentials!User, Credentials!Update(u)
  PROVE  CredInv'
<1> DEFINE old == state.user[u]
<1>1. /\ state \in CredState /\ old \in CredUser /\ old.at = "locked" /\ Holding(state, u) /\ LoggingIn(state, u)
      /\ state.lock = u /\ old.doc = state.file /\ state.changes \in Nat
      /\ state.lock \in {0} \cup Credentials!User /\ state.file \in CredDocument
  BY CredFacts DEF CredInv, CredState, Credentials!Update, Credentials!Me, Holding
<1>2. ASSUME NEW me \in CredUser, me.login = old.login, me.goal = old.goal, me.brings = old.brings,
             state' = [state EXCEPT !.user[u] = me], Holding(state', u)
      PROVE  CredInv'
  <2>1. state' = [state EXCEPT !.user[u] = me, !.lock = state.lock, !.changes = state.changes]
    BY <1>1, <1>2 DEF CredState
  <2>2. /\ ~(state.user[u].at = "save" /\ state.user[u].goal = "refresh")
        /\ me.goal = "login" => me.brings = state.user[u].brings /\ state.user[u].goal = "login"
                                 /\ state.user[u].at \in {"wait", "locked", "save"}
        /\ me.login = state.user[u].login
    BY <1>1, <1>2
  <2>3. \A v \in Credentials!User \ {u} : state.lock = v => state.lock = v
    OBVIOUS
  <2>4. state.changes \in Nat /\ state.lock \in {0} \cup Credentials!User /\ Holding(state', u)
    BY <1>1, <1>2
  <2> QED
    BY <2>1, <2>2, <2>3, <2>4, CredMoves
<1>3. ASSUME NEW me \in CredUser, state' = [state EXCEPT !.user[u] = me]
      PROVE  /\ state'.user[u] = me /\ state'.lock = u /\ state'.file = state.file
             /\ state'.flow = state.flow /\ state'.out = state.out
  BY <1>1, <1>3 DEF CredState
<1>4. CASE old.goal = "refresh" /\ old.doc.token # 0 /\ state' = [state EXCEPT !.user[u].at = "exchange"]
  <2> DEFINE me == [old EXCEPT !.at = "exchange"]
  <2>1. /\ me \in CredUser /\ me.at = "exchange" /\ me.login = old.login /\ me.goal = old.goal
        /\ me.brings = old.brings /\ me.doc = old.doc
    BY <1>1 DEF CredUser
  <2>2. state' = [state EXCEPT !.user[u] = me]
    BY <1>1, <1>4 DEF CredState, CredUser
  <2> HIDE DEF me
  <2>3. Holding(state', u)
    BY <1>1, <1>3, <1>4, <2>1, <2>2 DEF Holding
  <2> QED
    BY <1>2, <2>1, <2>2, <2>3
<1>5. ASSUME NEW token \in Nat, NEW key \in BOOLEAN,
             state' = [state EXCEPT !.user[u].at = "save", !.user[u].doc = [token |-> token, key |-> key]],
             \/ old.goal = "login" /\ Credentials!Wanted(u) /\ token = old.brings /\ key = state.file.key
             \/ old.goal = "logout" /\ token = 0 /\ key = state.file.key
             \/ old.goal = "key" /\ token = state.file.token /\ key
      PROVE  CredInv'
  <2> DEFINE me == [old EXCEPT !.at = "save", !.doc = [token |-> token, key |-> key]]
  <2>1. /\ me \in CredUser /\ me.at = "save" /\ me.login = old.login /\ me.goal = old.goal
        /\ me.brings = old.brings /\ me.doc.token = token /\ me.doc.key = key
    BY <1>1 DEF CredUser, CredDocument
  <2>2. state' = [state EXCEPT !.user[u] = me]
    BY ZenonT(60), <1>1, <1>5 DEF CredState, CredUser
  <2>3. Credentials!Wanted(u) => ~state.flow[old.login].closed
    BY DEF Credentials!Wanted, Credentials!Flow, Credentials!Me
  <2> HIDE DEF me
  <2>4. /\ state'.user[u] = me /\ state'.lock = u /\ state'.file = state.file
        /\ state'.flow = state.flow /\ state'.out = state.out
    BY <1>3, <2>1, <2>2
  <2>5. /\ me.goal \in {"login", "logout", "key"} /\ (me.goal # "key" => key = state'.file.key)
        /\ me.goal = "login" => token = me.brings /\ ~state'.flow[me.login].closed
        /\ me.goal = "logout" => token = 0
        /\ me.goal = "key" => token = state'.file.token /\ key
    BY <1>5, <2>1, <2>3, <2>4
  <2>6. Holding(state', u)
    BY <2>1, <2>4, <2>5 DEF Holding
  <2> QED
    BY <1>2, <2>1, <2>2, <2>6
<1>6. old.brings \in Nat /\ old.doc.key \in BOOLEAN /\ old.doc.token \in Nat
  BY <1>1 DEF CredUser, CredDocument
<1>7. CASE Credentials!Ends(u)
  BY <1>7, CredLeaves
<1> QED
  BY ZenonT(60), <1>1, <1>4, <1>5, <1>6, <1>7 DEF Credentials!Update, Credentials!Staged, Credentials!Me, Credentials!NoToken

-----------------------------------------------------------------------------
(* Steps of a login.                                                       *)

\* A login moves on, with its process u or by itself.
LEMMA CredLogin ==
  ASSUME CredInv, NEW u \in {0} \cup Credentials!User, NEW l \in Credentials!Login, state' \in CredState,
         state'.exists = state.exists, state'.file = state.file, state'.out = state.out,
         state'.keyed = state.keyed, state'.issued = state.issued, state'.live = state.live,
         state'.lost = state.lost, state'.reused = state.reused, state'.lock = state.lock,
         \A v \in Credentials!User \ {u} : state'.user[v] = state.user[v],
         \A m \in Credentials!Login \ {l} : state'.flow[m] = state.flow[m],
         state'.flow[l].token = state.flow[l].token, state'.flow[l].at # "none", state'.flow[l].owner # 0,
         state.flow[l].at # "none" => state'.flow[l].owner = state.flow[l].owner,
         state'.flow[l].at = "done" => state.flow[l].at = "done",
         state.flow[l].at = "over" => state'.flow[l].at = "over",
         state'.flow[l].closed # state.flow[l].closed =>
           u # 0 /\ state.user[u].login = l
           /\ (state.flow[l].token # 0 => state.file.token # state.flow[l].token),
         u # 0 => ~(state.user[u].at = "save" /\ state.user[u].goal = "refresh")
                  /\ Holding(state', u) /\ LoggingIn(state', u)
  PROVE  CredInv'
<1>1. /\ Stored(state) /\ Distinct(state) /\ state.issued \in Nat
      /\ \A m \in Credentials!Login : Begun(state, m)
      /\ \A m \in Credentials!Login : state.flow[m].closed \in BOOLEAN
  BY CredFacts DEF CredFlow
<1>2. /\ state.issued <= state'.issued
      /\ state.lost => state'.lost
      /\ state'.reused => state'.lost
  BY <1>1 DEF Stored
<1>3. ASSUME NEW m \in Credentials!Login
      PROVE  /\ state'.flow[m].token = state.flow[m].token
             /\ state.flow[m].at # "none" =>
                  state'.flow[m].owner = state.flow[m].owner /\ state'.flow[m].at # "none"
             /\ state.flow[m].at = "over" => state'.flow[m].at = "over"
             /\ state'.flow[m].closed # state.flow[m].closed => u # 0 /\ state.user[u].login = m
  OBVIOUS
<1>4. Beside(state, state', u)
  BY <1>2, <1>3 DEF Beside
<1>5. Stored(state')
  BY <1>2, <1>4, BesideStored
<1>6. Distinct(state')
  BY <1>1, <1>3 DEF Distinct
<1>7. ASSUME NEW m \in Credentials!Login PROVE Begun(state', m)
  <2>1. CASE m = l
    BY <1>1, <2>1 DEF Begun
  <2>2. CASE m # l
    BY <1>1, <2>2 DEF Begun
  <2> QED
    BY <2>1, <2>2
<1> QED
  BY <1>4, <1>5, <1>6, <1>7, CredStep

\* The same for a step that is written as what it changes.
LEMMA CredFlows ==
  ASSUME CredInv, NEW l \in Credentials!Login, NEW g \in CredFlow,
         NEW users \in [Credentials!User -> CredUser], NEW changes \in Nat,
         state' = [state EXCEPT !.user = users, !.flow[l] = g, !.changes = changes]
  PROVE  /\ state' \in CredState
         /\ state'.exists = state.exists /\ state'.file = state.file /\ state'.out = state.out
         /\ state'.keyed = state.keyed /\ state'.issued = state.issued /\ state'.live = state.live
         /\ state'.lost = state.lost /\ state'.reused = state.reused /\ state'.lock = state.lock
         /\ state'.user = users /\ state'.flow[l] = g
         /\ \A m \in Credentials!Login \ {l} : state'.flow[m] = state.flow[m]
<1>1. state \in CredState
  BY DEF CredInv
<1> DEFINE flow == [state.flow EXCEPT ![l] = g]
<1>2. /\ flow \in [Credentials!Login -> CredFlow]
      /\ flow[l] = g /\ \A m \in Credentials!Login \ {l} : flow[m] = state.flow[m]
  BY <1>1 DEF CredState
<1>3. state' = [state EXCEPT !.user = users, !.flow = flow, !.changes = changes]
  BY <1>1 DEF CredState
<1> HIDE DEF flow
<1> QED
  BY ZenonT(60), <1>1, <1>2, <1>3 DEF CredState

LEMMA CredExpire ==
  ASSUME CredInv, NEW t \in Credentials!Token, Credentials!Expire(t)
  PROVE  CredInv'
<1>1. state \in CredState /\ t \in Nat
  BY DEF CredInv, Credentials!Token
<1> DEFINE stale == state.stale \cup {t}
<1>2. stale \in SUBSET Nat
  BY <1>1 DEF CredState
<1>3. state' = [state EXCEPT !.stale = stale]
  BY DEF Credentials!Expire
<1> HIDE DEF stale
<1>4. /\ state' \in CredState
      /\ state'.exists = state.exists /\ state'.file = state.file /\ state'.out = state.out
      /\ state'.keyed = state.keyed /\ state'.issued = state.issued /\ state'.live = state.live
      /\ state'.lost = state.lost /\ state'.reused = state.reused /\ state'.lock = state.lock
      /\ state'.flow = state.flow /\ state'.user = state.user
  BY <1>1, <1>2, <1>3 DEF CredState
<1>5. Stored(state) /\ Distinct(state) /\ state.issued \in Nat
  BY CredFacts
<1>6. Beside(state, state', 0)
  BY <1>4, <1>5 DEF Beside
<1>7. Stored(state')
  <2>1. state'.reused => state'.lost
    BY <1>4, <1>5 DEF Stored
  <2> QED
    BY <1>4, <1>6, <2>1, BesideStored
<1>8. Distinct(state') /\ \A l \in Credentials!Login : Begun(state', l)
  BY <1>4, <1>6, BesideFlows
<1> QED
  BY <1>4, <1>6, <1>7, <1>8, CredStep

LEMMA CredRedirect ==
  ASSUME CredInv, NEW l \in Credentials!Login, Credentials!Redirect(l) \/ Credentials!NoTokens(l)
  PROVE  CredInv'
<1> DEFINE f == state.flow[l]
<1>1. /\ state \in CredState /\ f \in CredFlow /\ Begun(state, l) /\ state.changes \in Nat
      /\ state.user \in [Credentials!User -> CredUser]
  BY CredFacts DEF CredInv, CredState
<1>2. PICK at \in {"code", "failed"} : state' = [state EXCEPT !.flow[l].at = at]
  BY DEF Credentials!Redirect, Credentials!NoTokens
<1>3. f.at \in {"browser", "code"}
  BY DEF Credentials!Redirect, Credentials!NoTokens
<1> DEFINE g == [f EXCEPT !.at = at]
<1>4. /\ g \in CredFlow /\ g.at = at /\ g.token = f.token /\ g.owner = f.owner /\ g.closed = f.closed
  BY <1>1 DEF CredFlow
<1>5. state' = [state EXCEPT !.user = state.user, !.flow[l] = g, !.changes = state.changes]
  BY <1>1, <1>2 DEF CredState, CredFlow
<1>6. f.owner # 0
  BY <1>1, <1>3 DEF Begun
<1> HIDE DEF g
<1>7. /\ state' \in CredState
      /\ state'.exists = state.exists /\ state'.file = state.file /\ state'.out = state.out
      /\ state'.keyed = state.keyed /\ state'.issued = state.issued /\ state'.live = state.live
      /\ state'.lost = state.lost /\ state'.reused = state.reused /\ state'.lock = state.lock
      /\ state'.user = state.user /\ state'.flow[l] = g
      /\ \A m \in Credentials!Login \ {l} : state'.flow[m] = state.flow[m]
  BY <1>1, <1>4, <1>5, CredFlows
<1> QED
  BY <1>2, <1>3, <1>4, <1>6, <1>7, CredLogin

LEMMA CredBeginLogin ==
  ASSUME CredInv, NEW u \in Credentials!User, NEW l \in Credentials!Login, Credentials!BeginLogin(u, l)
  PROVE  CredInv'
<1> DEFINE f == state.flow[l]
           me == [state.user[u] EXCEPT !.login = l]
           users == [state.user EXCEPT ![u] = me]
           g == [f EXCEPT !.at = "browser", !.owner = u]
<1>1. /\ state \in CredState /\ f \in CredFlow /\ Begun(state, l) /\ state.changes \in Nat
      /\ state.user \in [Credentials!User -> CredUser] /\ state.user[u] \in CredUser
      /\ state.changes + 1 \in Nat /\ u # 0
  BY CredFacts DEF CredInv, CredState
<1>2. state.user[u].at = "idle" /\ f.at = "none"
  BY DEF Credentials!BeginLogin, Credentials!Me
<1>3. f.token = 0
  BY <1>1, <1>2 DEF Begun
<1>4. /\ g \in CredFlow /\ g.at = "browser" /\ g.owner = u /\ g.token = 0 /\ g.closed = f.closed
      /\ me \in CredUser /\ me.at = "idle" /\ me.login = l
  BY <1>1, <1>2, <1>3 DEF CredFlow, CredUser
<1>5. /\ users \in [Credentials!User -> CredUser] /\ users[u] = me
      /\ \A v \in Credentials!User \ {u} : users[v] = state.user[v]
  BY <1>1, <1>4
<1>6. state' = [state EXCEPT !.user = users, !.flow[l] = g, !.changes = state.changes + 1]
  <2>1. [state.flow EXCEPT ![l].at = "browser", ![l].owner = u] = [state.flow EXCEPT ![l] = g]
    BY <1>1 DEF CredState, CredFlow
  <2>2. [state.user EXCEPT ![u].login = l] = users
    BY <1>1 DEF CredUser
  <2>3. state' = [state EXCEPT !.changes = state.changes + 1, !.user = [state.user EXCEPT ![u].login = l],
                    !.flow = [state.flow EXCEPT ![l].at = "browser", ![l].owner = u]]
    BY <1>1 DEF Credentials!BeginLogin, CredState
  <2>4. state' = [state EXCEPT !.changes = state.changes + 1, !.user = users,
                    !.flow = [state.flow EXCEPT ![l] = g]]
    BY <2>1, <2>2, <2>3
  <2> QED
    BY <1>1, <2>4 DEF CredState
<1> HIDE DEF users, me, g
<1>7. /\ state' \in CredState
      /\ state'.exists = state.exists /\ state'.file = state.file /\ state'.out = state.out
      /\ state'.keyed = state.keyed /\ state'.issued = state.issued /\ state'.live = state.live
      /\ state'.lost = state.lost /\ state'.reused = state.reused /\ state'.lock = state.lock
      /\ state'.user = users /\ state'.flow[l] = g
      /\ \A m \in Credentials!Login \ {l} : state'.flow[m] = state.flow[m]
  <2> DEFINE changes == state.changes + 1
  <2>1. changes \in Nat /\ state' = [state EXCEPT !.user = users, !.flow[l] = g, !.changes = changes]
    BY <1>1, <1>6
  <2> HIDE DEF changes
  <2> QED
    BY <1>4, <1>5, <2>1, CredFlows
<1>8. Holding(state', u) /\ LoggingIn(state', u)
  BY <1>4, <1>5, <1>7 DEF Holding, LoggingIn
<1>9. /\ \A v \in Credentials!User \ {u} : state'.user[v] = state.user[v]
      /\ state'.flow[l].token = state.flow[l].token /\ state'.flow[l].at = "browser" /\ state'.flow[l].owner = u
      /\ state.flow[l].at = "none" /\ state'.flow[l].closed = state.flow[l].closed
      /\ state.user[u].at # "save"
  BY <1>1, <1>2, <1>3, <1>4, <1>5, <1>7
<1> QED
  BY <1>1, <1>7, <1>8, <1>9, CredLogin

LEMMA CredTokens ==
  ASSUME CredInv, NEW l \in Credentials!Login, Credentials!Tokens(l)
  PROVE  CredInv'
<1> DEFINE f == state.flow[l]
           next == state.issued + 1
           g == [f EXCEPT !.at = "done", !.token = next]
           flow == [state.flow EXCEPT ![l] = g]
           live == state.live \cup {next}
<1>1. /\ state \in CredState /\ f \in CredFlow /\ Begun(state, l) /\ state.issued \in Nat
      /\ 1 <= state.issued /\ f.at = "code" /\ ~f.closed
  BY CredFacts DEF CredInv, Stored, Credentials!Tokens
<1>2. next \in Nat /\ state.issued < next /\ next # 0 /\ next # 1 /\ live \in SUBSET Nat
  BY <1>1 DEF CredState
<1>3. state' = [state EXCEPT !.issued = next, !.live = live, !.flow = flow]
  <2>1. [[state.flow EXCEPT ![l].at = "done"] EXCEPT ![l].token = next] = flow
    BY <1>1 DEF CredState, CredFlow
  <2>2. state' = [state EXCEPT !.issued = next, !.live = live,
                    !.flow = [[state.flow EXCEPT ![l].at = "done"] EXCEPT ![l].token = next]]
    BY <1>1 DEF Credentials!Tokens, CredState
  <2> QED
    BY <2>1, <2>2
<1>4. next \in live /\ state.live \subseteq live
  OBVIOUS
<1> HIDE DEF next
<1>5. g \in CredFlow /\ g.at = "done" /\ g.token = next /\ g.owner = f.owner /\ g.closed = f.closed
  BY <1>1, <1>2 DEF CredFlow
<1> HIDE DEF g
<1>6. /\ flow \in [Credentials!Login -> CredFlow]
      /\ flow[l] = g /\ \A m \in Credentials!Login \ {l} : flow[m] = state.flow[m]
  BY <1>1, <1>5 DEF CredState
<1> HIDE DEF flow, live
<1>7. /\ state' \in CredState
      /\ state'.exists = state.exists /\ state'.file = state.file /\ state'.out = state.out
      /\ state'.keyed = state.keyed /\ state'.issued = next /\ state'.live = live
      /\ state'.lost = state.lost /\ state'.reused = state.reused /\ state'.lock = state.lock
      /\ state'.user = state.user /\ state'.flow = flow
  BY <1>1, <1>2, <1>3, <1>6 DEF CredState
<1>8. ASSUME NEW m \in Credentials!Login
      PROVE  /\ \/ state'.flow[m].token = state.flow[m].token
                \/ state.flow[m].at = "code" /\ state'.flow[m].token = next /\ state'.flow[m].token \in state'.live
             /\ state.flow[m].at # "none" =>
                  state'.flow[m].owner = state.flow[m].owner /\ state'.flow[m].at # "none"
             /\ state.flow[m].at = "over" => state'.flow[m].at = "over"
             /\ state'.flow[m].closed = state.flow[m].closed
  BY <1>1, <1>4, <1>5, <1>6, <1>7
<1>9. Beside(state, state', 0)
  <2>1. state.live \subseteq state'.live /\ state.issued <= state'.issued
    BY <1>1, <1>2, <1>4, <1>7
  <2> QED
    BY <1>7, <1>8, <2>1 DEF Beside, next
<1>10. Stored(state')
  <2>1. (state'.reused => state'.lost) /\ state.live \subseteq state'.live
    BY <1>4, <1>7, CredFacts DEF Stored
  <2> QED
    BY <1>7, <1>9, <2>1, BesideStored
<1>11. \A m \in Credentials!Login \ {l} : state'.flow[m] = state.flow[m] /\ state.flow[m].token # next
  <2> SUFFICES ASSUME NEW m \in Credentials!Login \ {l} PROVE state'.flow[m] = state.flow[m] /\ state.flow[m].token # next
    OBVIOUS
  <2>1. state.flow[m].token \in Nat /\ state.flow[m].token <= state.issued
    BY CredFacts DEF Begun, CredFlow
  <2> QED
    BY <1>1, <1>2, <1>6, <1>7, <2>1
<1>12. Distinct(state')
  <2> SUFFICES ASSUME NEW m \in Credentials!Login, NEW n \in Credentials!Login, m # n, state'.flow[m].token # 0
               PROVE  state'.flow[m].token # state'.flow[n].token
    BY DEF Distinct
  <2>1. CASE m # l /\ n # l
    BY <1>11, <2>1, CredFacts DEF Distinct
  <2>2. CASE m = l
    BY <1>5, <1>6, <1>7, <1>11, <2>2
  <2>3. CASE n = l
    BY <1>5, <1>6, <1>7, <1>11, <2>3
  <2> QED
    BY <2>1, <2>2, <2>3
<1>13. ASSUME NEW m \in Credentials!Login PROVE Begun(state', m)
  <2>1. CASE m = l
    BY <1>1, <1>2, <1>5, <1>6, <1>7, <2>1 DEF Begun
  <2>2. CASE m # l
    <3>1. Begun(state, m) /\ state'.flow[m] = state.flow[m] /\ state.flow[m].token \in Nat
      BY <1>11, <2>2, CredFacts DEF CredFlow
    <3>2. state.flow[m].token <= next
      BY <1>1, <1>2, <3>1 DEF Begun
    <3> QED
      BY <1>7, <3>1, <3>2 DEF Begun
  <2> QED
    BY <2>1, <2>2
<1> QED
  BY <1>7, <1>9, <1>10, <1>12, <1>13, CredStep

LEMMA CredFinish ==
  ASSUME CredInv, NEW l \in Credentials!Login, Credentials!FinishLogin(l)
  PROVE  CredInv'
<1> DEFINE f == state.flow[l]
           u == f.owner
           g == [f EXCEPT !.at = "over"]
<1>1. /\ state \in CredState /\ f \in CredFlow /\ Begun(state, l) /\ f.at \in {"done", "failed"}
      /\ state.changes \in Nat /\ state.user[u].at = "idle"
      /\ state.user \in [Credentials!User -> CredUser]
  BY CredFacts DEF CredInv, CredState, Credentials!FinishLogin, Credentials!Me
<1>2. u \in Credentials!User /\ u # 0
  BY <1>1 DEF Begun, CredFlow
<1>3. LoggingIn(state, u) /\ state.user[u] \in CredUser
  BY <1>2, CredFacts
<1>4. g \in CredFlow /\ g.at = "over" /\ g.token = f.token /\ g.owner = u /\ g.closed = f.closed
  BY <1>1 DEF CredFlow
<1>5. ASSUME NEW users \in [Credentials!User -> CredUser],
             state' = [state EXCEPT !.user = users, !.flow[l] = g]
      PROVE  /\ state' \in CredState
             /\ state'.exists = state.exists /\ state'.file = state.file /\ state'.out = state.out
             /\ state'.keyed = state.keyed /\ state'.issued = state.issued /\ state'.live = state.live
             /\ state'.lost = state.lost /\ state'.reused = state.reused /\ state'.lock = state.lock
             /\ state'.user = users /\ state'.flow[l] = g
             /\ \A m \in Credentials!Login \ {l} : state'.flow[m] = state.flow[m]
  <2>1. state' = [state EXCEPT !.user = users, !.flow[l] = g, !.changes = state.changes]
    BY <1>1, <1>5 DEF CredState
  <2> HIDE DEF g
  <2> QED
    BY <1>1, <1>4, <2>1, CredFlows
<1>6. ASSUME NEW me \in CredUser, me.at \in {"idle", "wait"},
             state' = [state EXCEPT !.user[u] = me, !.flow[l] = g],
             me.login \in {0, l}, me.login = l => state.user[u].login = l,
             me.at = "wait" => me.goal = "login" /\ me.login = l /\ me.brings = f.token /\ f.token # 0
      PROVE  CredInv'
  <2> DEFINE users == [state.user EXCEPT ![u] = me]
  <2>1. /\ users \in [Credentials!User -> CredUser] /\ users[u] = me
        /\ \A v \in Credentials!User \ {u} : users[v] = state.user[v]
    BY <1>1, <1>2
  <2>2. state' = [state EXCEPT !.user = users, !.flow[l] = g]
    BY <1>1, <1>6 DEF CredState
  <2> HIDE DEF users, g
  <2>3. /\ state' \in CredState
        /\ state'.exists = state.exists /\ state'.file = state.file /\ state'.out = state.out
        /\ state'.keyed = state.keyed /\ state'.issued = state.issued /\ state'.live = state.live
        /\ state'.lost = state.lost /\ state'.reused = state.reused /\ state'.lock = state.lock
        /\ state'.user = users /\ state'.flow[l] = g
        /\ \A m \in Credentials!Login \ {l} : state'.flow[m] = state.flow[m]
    BY <1>5, <2>1, <2>2
  <2>4. Holding(state', u)
    BY <1>6, <2>1, <2>3 DEF Holding
  <2>5. LoggingIn(state', u)
    <3>1. me.login = l => (f.token # 0 => f.token \in state.live /\ f.token # state.file.token)
      BY <1>3, <1>6, CredFacts DEF LoggingIn
    <3>2. state'.user[u] = me
      BY <2>1, <2>3
    <3>3. me.login = 0 \/ state'.flow[me.login] = g
      BY <1>6, <2>3
    <3>4. me.at = "wait" => me.goal = "login" /\ me.login = l /\ l # 0 /\ me.brings = f.token /\ f.token # 0
      BY <1>6, CredFacts
    <3>5. me.at \in {"idle", "wait"} /\ me.login \in {0, l}
      BY <1>6
    <3> HIDE DEF f, u
    <3> QED
      BY <1>4, <2>3, <3>1, <3>2, <3>3, <3>4, <3>5 DEF LoggingIn
  <2>6. /\ \A v \in Credentials!User \ {u} : state'.user[v] = state.user[v]
        /\ state'.flow[l].token = state.flow[l].token /\ state'.flow[l].at = "over" /\ state'.flow[l].owner = u
        /\ state'.flow[l].closed = state.flow[l].closed
        /\ state.flow[l].owner = u /\ state.user[u].at # "save"
    BY <1>1, <1>4, <2>1, <2>3
  <2> HIDE DEF u
  <2> QED
    BY <1>2, <2>3, <2>4, <2>5, <2>6, CredLogin
<1>7. CASE ~Credentials!IsCurrent(l)
  <2>1. state' = [state EXCEPT !.user = state.user, !.flow[l] = g]
    BY <1>1, <1>7 DEF Credentials!FinishLogin, CredState, CredFlow
  <2> HIDE DEF g
  <2>2. /\ state' \in CredState
        /\ state'.exists = state.exists /\ state'.file = state.file /\ state'.out = state.out
        /\ state'.keyed = state.keyed /\ state'.issued = state.issued /\ state'.live = state.live
        /\ state'.lost = state.lost /\ state'.reused = state.reused /\ state'.lock = state.lock
        /\ state'.user = state.user /\ state'.flow[l] = g
        /\ \A m \in Credentials!Login \ {l} : state'.flow[m] = state.flow[m]
    BY <1>1, <1>5, <2>1
  <2> QED
    BY <1>2, <1>4, <2>2, CredLogin
<1>8. CASE Credentials!IsCurrent(l) /\ f.at = "failed"
  <2> DEFINE me == [state.user[u] EXCEPT !.login = 0]
  <2>1. me \in CredUser /\ me.at = "idle" /\ me.login = 0
    BY <1>1, <1>3 DEF CredUser
  <2>2. state' = [state EXCEPT !.user[u] = me, !.flow[l] = g]
    BY <1>1, <1>3, <1>8 DEF Credentials!FinishLogin, Credentials!NoLogin, CredState, CredFlow, CredUser
  <2> HIDE DEF me, g
  <2>3. l # 0
    BY CredFacts
  <2> QED
    BY <1>6, <2>1, <2>2, <2>3
<1>9. CASE Credentials!IsCurrent(l) /\ f.at = "done"
  <2> DEFINE me == [state.user[u] EXCEPT !.at = "wait", !.goal = "login", !.brings = f.token, !.login = l]
  <2>1. f.token \in Nat /\ f.token # 0 /\ state.user[u].login = l
    BY <1>1, <1>9 DEF Begun, CredFlow, Credentials!IsCurrent, Credentials!Me
  <2>2. me \in CredUser /\ me.at = "wait" /\ me.goal = "login" /\ me.brings = f.token /\ me.login = l
    BY <1>3, <2>1 DEF CredUser
  <2>3. state' = [state EXCEPT !.user[u] = me, !.flow[l] = g]
    <3> DEFINE c == [state EXCEPT !.flow[l].at = "over"]
               flow == [state.flow EXCEPT ![l] = g]
               user == [state.user EXCEPT ![u] = me]
    <3>1. [state.flow EXCEPT ![l].at = "over"] = flow
      BY <1>1 DEF CredState, CredFlow
    <3>2. c = [state EXCEPT !.flow = flow]
      BY <1>1, <3>1 DEF CredState
    <3>3. state' = [[c EXCEPT !.user[u].at = "wait", !.user[u].goal = "login"] EXCEPT
                      !.user[u].brings = f.token, !.user[u].login = l]
      BY <1>1, <1>9 DEF Credentials!FinishLogin, Credentials!Wants
    <3> DEFINE w == [c EXCEPT !.user[u].at = "wait", !.user[u].goal = "login"]
               mine == [state.user[u] EXCEPT !.at = "wait", !.goal = "login"]
               waits == [state.user EXCEPT ![u] = mine]
    <3>4. mine \in CredUser /\ waits \in [Credentials!User -> CredUser] /\ waits[u] = mine
      BY <1>1, <1>2, <1>3 DEF CredUser
    <3>5. [waits EXCEPT ![u] = [mine EXCEPT !.brings = f.token, !.login = l]] = user
      BY <1>1, <1>2, <1>3 DEF CredUser
    <3>6. flow \in [Credentials!Login -> CredFlow]
      BY <1>1, <1>4 DEF CredState
    <3> HIDE DEF flow
    <3> HIDE DEF c
    <3>7. c \in CredState /\ c.user = state.user
      BY <1>1, <3>1, <3>2, <3>6 DEF CredState
    <3>8. w = [c EXCEPT !.user = waits]
      <4> HIDE DEF u, f
      <4>1. w = [c EXCEPT !.user[u] = [c.user[u] EXCEPT !.at = "wait", !.goal = "login"]]
        BY <1>2, <3>7 DEF CredState, CredUser
      <4>2. [c.user[u] EXCEPT !.at = "wait", !.goal = "login"] = mine
        BY <3>7
      <4> HIDE DEF w, mine
      <4>3. w = [c EXCEPT !.user[u] = mine]
        BY <4>1, <4>2
      <4>4. [c.user EXCEPT ![u] = mine] = waits
        BY <3>7
      <4> QED
        BY <3>7, <4>3, <4>4 DEF CredState
    <3> HIDE DEF user, waits, w, mine
    <3>9. w \in CredState /\ w.user = waits /\ state' = [w EXCEPT !.user[u].brings = f.token, !.user[u].login = l]
      BY <3>3, <3>4, <3>7, <3>8 DEF CredState, w
    <3>10. state' = [w EXCEPT !.user = user]
      <4> HIDE DEF u, f
      <4> DEFINE new == [mine EXCEPT !.brings = f.token, !.login = l]
      <4>1. state' = [w EXCEPT !.user[u] = [w.user[u] EXCEPT !.brings = f.token, !.login = l]]
        BY <1>2, <3>9 DEF CredState, CredUser
      <4>2. w.user[u] = mine /\ [waits EXCEPT ![u] = new] = user
        BY <3>4, <3>5, <3>9
      <4>3. state' = [w EXCEPT !.user[u] = new]
        BY <4>1, <4>2
      <4> HIDE DEF new
      <4> QED
        BY <3>9, <4>2, <4>3 DEF CredState
    <3>11. state' = [state EXCEPT !.user = user, !.flow = flow]
      BY <1>1, <3>2, <3>8, <3>10 DEF CredState
    <3> QED
      BY <1>1, <3>11 DEF CredState, user, flow
  <2> HIDE DEF me, g
  <2> QED
    BY <1>6, <2>1, <2>2, <2>3
<1> QED
  BY <1>1, <1>7, <1>8, <1>9

LEMMA CredClose ==
  ASSUME CredInv, NEW u \in Credentials!User, Credentials!CloseLogin(u)
  PROVE  CredInv'
<1> DEFINE old == state.user[u]
           l == old.login
           f == state.flow[l]
           me == [old EXCEPT !.login = IF old.at = "idle" THEN 0 ELSE l]
           users == [state.user EXCEPT ![u] = me]
           g == [f EXCEPT !.closed = TRUE]
<1>1. /\ state \in CredState /\ old \in CredUser /\ Holding(state, u) /\ LoggingIn(state, u)
      /\ old.login # 0 /\ old.at \in {"idle", "wait", "locked"} /\ ~f.closed
      /\ state.changes \in Nat /\ u # 0 /\ state.user \in [Credentials!User -> CredUser]
  BY CredFacts DEF CredInv, CredState, Credentials!CloseLogin, Credentials!Me, Credentials!Flow, Credentials!NoLogin
<1>2. l \in Credentials!Login
  BY <1>1 DEF CredUser
<1>3. f \in CredFlow
  BY <1>2, CredFacts
<1>4. /\ f.owner = u /\ f.at # "none"
      /\ f.token # 0 => f.token \in state.live /\ f.token # state.file.token
  BY <1>1 DEF LoggingIn
<1>5. /\ g \in CredFlow /\ g.at = f.at /\ g.owner = u /\ g.token = f.token
      /\ me \in CredUser /\ me.at = old.at /\ me.goal = old.goal /\ me.doc = old.doc /\ me.brings = old.brings
      /\ me.login = (IF old.at = "idle" THEN 0 ELSE l)
  BY <1>1, <1>2, <1>3, <1>4 DEF CredFlow, CredUser
<1>6. /\ users \in [Credentials!User -> CredUser] /\ users[u] = me
      /\ \A v \in Credentials!User \ {u} : users[v] = state.user[v]
  BY <1>1, <1>5
<1>7. state' = [state EXCEPT !.user = users, !.flow[l] = g, !.changes = state.changes]
  <2>1. [state.flow EXCEPT ![l].closed = TRUE] = [state.flow EXCEPT ![l] = g]
    BY <1>1, <1>3 DEF CredState, CredFlow
  <2>2. [state.user EXCEPT ![u].login = IF old.at = "idle" THEN 0 ELSE @] = users
    BY <1>1 DEF CredUser
  <2>3. state' = [state EXCEPT !.flow = [state.flow EXCEPT ![l].closed = TRUE],
                    !.user = [state.user EXCEPT ![u].login = IF old.at = "idle" THEN 0 ELSE @]]
    BY <1>1 DEF Credentials!CloseLogin, Credentials!Me, Credentials!NoLogin, CredState
  <2>4. state' = [state EXCEPT !.user = users, !.flow = [state.flow EXCEPT ![l] = g]]
    BY <1>1, <2>1, <2>2, <2>3 DEF CredState
  <2> QED
    BY <1>1, <2>4 DEF CredState
<1> HIDE DEF users, me, g
<1>8. /\ state' \in CredState
      /\ state'.exists = state.exists /\ state'.file = state.file /\ state'.out = state.out
      /\ state'.keyed = state.keyed /\ state'.issued = state.issued /\ state'.live = state.live
      /\ state'.lost = state.lost /\ state'.reused = state.reused /\ state'.lock = state.lock
      /\ state'.user = users /\ state'.flow[l] = g
      /\ \A m \in Credentials!Login \ {l} : state'.flow[m] = state.flow[m]
  <2> HIDE DEF l
  <2> QED
    BY <1>1, <1>2, <1>5, <1>6, <1>7, CredFlows
<1>9. Holding(state', u)
  BY <1>1, <1>5, <1>6, <1>8 DEF Holding
<1>10. LoggingIn(state', u)
  <2>1. state'.user[u] = me
    BY <1>6, <1>8
  <2>2. old.goal = "login" /\ old.at \in {"wait", "locked", "save"} =>
           f.at = "over" /\ f.token = old.brings /\ old.brings # 0
    BY <1>1 DEF LoggingIn
  <2>3. CASE old.at = "idle"
    <3>1. me.login = 0 /\ me.at = "idle"
      BY <1>5, <2>3
    <3> QED
      BY <2>1, <3>1 DEF LoggingIn
  <2>4. CASE old.at # "idle"
    <3>1. me.login = l /\ state'.flow[me.login] = g
      BY <1>5, <1>8, <2>4
    <3>2. /\ g.owner = u /\ g.at = f.at /\ g.token = f.token /\ me.login # 0
          /\ me.goal = old.goal /\ me.at = old.at /\ me.brings = old.brings
          /\ state'.live = state.live /\ state'.file = state.file
      BY <1>1, <1>5, <1>8, <3>1
    <3>3. g.token # 0 => g.token \in state'.live /\ g.token # state'.file.token
      BY <1>4, <3>2
    <3> QED
      BY <1>4, <2>1, <2>2, <3>1, <3>2, <3>3 DEF LoggingIn
  <2> QED
    BY <2>3, <2>4
<1>11. /\ \A v \in Credentials!User \ {u} : state'.user[v] = state.user[v]
       /\ state'.flow[l].token = state.flow[l].token /\ state'.flow[l].at = state.flow[l].at
       /\ state'.flow[l].owner = u /\ state.flow[l].owner = u /\ state.flow[l].at # "none"
       /\ state.user[u].at # "save" /\ state.user[u].login = l
       /\ state.flow[l].token # 0 => state.file.token # state.flow[l].token
  BY <1>1, <1>4, <1>5, <1>6, <1>8
<1> HIDE DEF old, l, f
<1>12. /\ \A v \in Credentials!User \ {u} : state'.user[v] = state.user[v]
       /\ state'.flow[l].token = state.flow[l].token /\ state'.flow[l].at # "none" /\ state'.flow[l].owner # 0
       /\ state'.flow[l].owner = state.flow[l].owner
       /\ state'.flow[l].at = "done" => state.flow[l].at = "done"
       /\ state.flow[l].at = "over" => state'.flow[l].at = "over"
       /\ u # 0 /\ state.user[u].login = l
       /\ ~(state.user[u].at = "save" /\ state.user[u].goal = "refresh")
       /\ state.flow[l].token # 0 => state.file.token # state.flow[l].token
  BY <1>1, <1>11
<1> HIDE DEF users, g
<1> QED
  BY ZenonT(60), <1>2, <1>8, <1>9, <1>10, <1>12, CredLogin

-----------------------------------------------------------------------------
(* Steps of the process that has the lock.                                 *)

\* Nobody else is between its read and its write.
LEMMA CredAlone ==
  ASSUME CredInv, NEW u \in Credentials!User, state.lock = u
  PROVE  /\ \A v \in Credentials!User \ {u} : state.user[v].at \notin {"locked", "exchange", "save", "cleanup"}
         /\ Saving(state) => state.user[u].at = "save" /\ state.user[u].goal = "refresh"
<1>1. \A v \in Credentials!User \ {u} : state.user[v].at \notin {"locked", "exchange", "save", "cleanup"}
  BY CredFacts DEF Holding
<1> QED
  BY <1>1 DEF Saving

\* So it may write: a login that is still wanted may be of its own.
LEMMA CredWrites ==
  ASSUME CredInv, NEW u \in Credentials!User, state.lock = u, state' \in CredState,
         state'.issued = state.issued, state'.live = state.live, state'.flow = state.flow,
         \A v \in Credentials!User \ {u} : state'.user[v] = state.user[v],
         \A l \in Credentials!Login : state.flow[l].token # 0 =>
           \/ state.flow[l].token # state'.file.token
           \/ ~state.flow[l].closed /\ (state.flow[l].owner = u \/ state.flow[l].token = state.file.token),
         Stored(state'), Holding(state', u), LoggingIn(state', u)
  PROVE  CredInv'
<1> DEFINE k == state'
<1>1. Distinct(k) /\ \A l \in Credentials!Login : Begun(k, l)
  BY CredFacts DEF Distinct, Begun
<1>2. ASSUME NEW v \in Credentials!User \ {u} PROVE Holding(k, v) /\ LoggingIn(k, v)
  <2>1. /\ k.user[v] = state.user[v] /\ state.user[v] \in CredUser /\ LoggingIn(state, v)
        /\ state.user[v].at \notin {"locked", "exchange", "save", "cleanup"}
    BY CredAlone, CredFacts
  <2>2. Holding(k, v)
    BY <2>1 DEF Holding
  <2>3. state.user[v].login \in {0} \cup Credentials!Login
    BY <2>1 DEF CredUser
  <2>4. LoggingIn(k, v)
    BY <2>1, <2>3 DEF LoggingIn
  <2> QED
    BY <2>2, <2>4
<1>3. \A v \in Credentials!User : Holding(k, v) /\ LoggingIn(k, v)
  BY <1>2
<1>4. CredSound(k)
  BY <1>1, <1>3 DEF CredSound
<1> QED
  BY <1>4 DEF CredInv

LEMMA CredMigrate ==
  ASSUME CredInv, NEW u \in Credentials!User, Credentials!Migrate(u)
  PROVE  CredInv'
<1> DEFINE old == state.user[u]
           me == [old EXCEPT !.at = "cleanup"]
           exists == state.exists \/ state.legacy
           file == Credentials!Migrated
           user == [state.user EXCEPT ![u] = me]
<1>1. /\ state \in CredState /\ old \in CredUser /\ old.at = "locked" /\ old.goal = "migrate"
      /\ Holding(state, u) /\ LoggingIn(state, u) /\ state.lock = u /\ Stored(state)
      /\ state.file \in CredDocument
  BY CredFacts DEF CredInv, Credentials!Migrate, Credentials!Me, Holding
<1>2. /\ me \in CredUser /\ me.at = "cleanup" /\ me.goal = "migrate" /\ me.login = old.login
  BY <1>1 DEF CredUser
<1>3. /\ user \in [Credentials!User -> CredUser] /\ user[u] = me
      /\ \A v \in Credentials!User \ {u} : user[v] = state.user[v]
  BY <1>1, <1>2 DEF CredState
<1>4. exists \in BOOLEAN /\ file \in CredDocument
  BY <1>1 DEF CredState, Credentials!Migrated, Credentials!Legacy, CredDocument
<1>5. \/ exists = state.exists /\ file = state.file
      \/ exists /\ ~state.exists /\ file.token = 1 /\ file.key = FALSE
  <2>1. CASE state.exists \/ ~state.legacy
    BY <1>1, <2>1 DEF Credentials!Migrated, CredState
  <2>2. CASE ~state.exists /\ state.legacy
    BY <2>2 DEF Credentials!Migrated, Credentials!Legacy
  <2> QED
    BY <1>1, <2>1, <2>2 DEF CredState
<1>6. state' = [state EXCEPT !.file = file, !.exists = exists, !.user = user]
  BY <1>1 DEF Credentials!Migrate, CredState, CredUser
<1> HIDE DEF me, exists, file, user
<1>7. /\ state' \in CredState
      /\ state'.exists = exists /\ state'.file = file /\ state'.out = state.out
      /\ state'.keyed = state.keyed /\ state'.issued = state.issued /\ state'.live = state.live
      /\ state'.lost = state.lost /\ state'.reused = state.reused /\ state'.lock = state.lock
      /\ state'.flow = state.flow /\ state'.user = user
  BY <1>1, <1>3, <1>4, <1>6 DEF CredState
<1>8. Holding(state', u)
  BY <1>1, <1>2, <1>3, <1>7 DEF Holding
<1>9. ASSUME NEW l \in Credentials!Login, state.flow[l].token # 0, state.flow[l].token = file.token
      PROVE  file = state.file
  <2>1. state.flow[l].token # 1
    BY CredFacts DEF Begun
  <2> QED
    BY <1>5, <1>9, <2>1
<1>10. CASE exists = state.exists /\ file = state.file
  <2>1. Beside(state, state', u)
    BY <1>1, <1>3, <1>7, <1>10, CredFacts DEF Beside
  <2>2. Stored(state')
    BY <1>1, <1>7, <2>1, BesideStored DEF Stored
  <2>3. Distinct(state') /\ \A l \in Credentials!Login : Begun(state', l)
    BY <1>7, <2>1, BesideFlows
  <2>4. LoggingIn(state', u)
    BY <1>1, <1>2, <1>3, <1>7, <1>10 DEF LoggingIn
  <2> QED
    BY <1>7, <1>8, <2>1, <2>2, <2>3, <2>4, CredStep
<1>11. CASE exists /\ ~state.exists /\ file.token = 1 /\ file.key = FALSE
  <2>1. 1 \in state.live /\ state.file = Credentials!Empty /\ ~state.out /\ ~state.keyed
    BY <1>1, <1>11 DEF Stored, Credentials!Empty
  <2>2. Stored(state')
    BY <1>1, <1>7, <1>11, <2>1 DEF Stored
  <2>3. \A l \in Credentials!Login : state.flow[l].token # file.token
    BY <1>11, CredFacts DEF Begun
  <2>4. LoggingIn(state', u)
    <3>1. old.login \in {0} \cup Credentials!Login
      BY <1>1 DEF CredUser
    <3> QED
      BY <1>1, <1>2, <1>3, <1>7, <2>3, <3>1 DEF LoggingIn
  <2> QED
    BY <1>1, <1>3, <1>7, <1>8, <2>2, <2>3, <2>4, CredWrites
<1> QED
  BY <1>5, <1>10, <1>11

\* What is written is not that of another login, nor of one that was abandoned.
LEMMA CredWritten ==
  ASSUME CredInv, NEW u \in Credentials!User, state.user[u].at = "save"
  PROVE  LET me == state.user[u]
         IN /\ me.goal \in {"refresh", "login", "logout", "key"} /\ state.lock = u
            /\ me.doc \in CredDocument /\ me.doc.token <= state.issued
            /\ \A l \in Credentials!Login : state.flow[l].token # 0 =>
                 \/ state.flow[l].token # me.doc.token
                 \/ ~state.flow[l].closed /\ (state.flow[l].owner = u \/ state.flow[l].token = state.file.token)
            /\ state.lost \/ me.doc.token = 0 \/ me.doc.token \in state.live
            /\ me.goal = "logout" \/ (state.out /\ me.goal # "login") => me.doc.token = 0
            /\ state.keyed \/ me.goal = "key" => me.doc.key
<1> DEFINE me == state.user[u]
           t == me.doc.token
<1>1. /\ me \in CredUser /\ Holding(state, u) /\ LoggingIn(state, u) /\ Stored(state) /\ Distinct(state)
      /\ state.issued \in Nat /\ state.lock = u /\ me.doc \in CredDocument /\ me.goal \in {"refresh", "login", "logout", "key"}
      /\ \A l \in Credentials!Login : Begun(state, l) /\ state.flow[l] \in CredFlow
      /\ me.login \in {0} \cup Credentials!Login /\ t \in Nat
  BY CredFacts DEF Holding, CredUser, CredDocument
<1> USE DEF me, t
<1>2. CASE me.goal = "refresh"
  <2>1. /\ ~state.out /\ t \in state.live /\ t <= state.issued /\ me.doc.key = state.file.key
        /\ t = state.file.token \/ \A l \in Credentials!Login : state.flow[l].token # t
    BY <1>1, <1>2 DEF Holding
  <2>2. ASSUME NEW l \in Credentials!Login, state.flow[l].token # 0
        PROVE  \/ state.flow[l].token # t
               \/ ~state.flow[l].closed /\ (state.flow[l].owner = u \/ state.flow[l].token = state.file.token)
    <3>1. CASE t = state.file.token
      <4>1. Begun(state, l) /\ state.flow[l].closed \in BOOLEAN
        BY <1>1 DEF CredFlow
      <4> QED
        BY <2>2, <3>1, <4>1 DEF Begun
    <3>2. CASE \A k \in Credentials!Login : state.flow[k].token # t
      BY <3>2
    <3> QED
      BY <2>1, <3>1, <3>2
  <2> QED
    BY <1>1, <1>2, <2>1, <2>2 DEF Stored
<1>3. CASE me.goal = "login"
  <2>1. /\ me.login # 0 /\ t = me.brings /\ ~state.flow[me.login].closed /\ state.flow[me.login].token = t
        /\ t # 0 /\ state.flow[me.login].owner = u /\ t \in state.live /\ me.doc.key = state.file.key
    BY <1>1, <1>3 DEF Holding, LoggingIn
  <2>2. t <= state.issued
    BY <1>1, <2>1 DEF Begun
  <2>3. \A l \in Credentials!Login : l # me.login => state.flow[l].token # t
    BY <1>1, <2>1 DEF Distinct
  <2> QED
    BY <1>1, <1>3, <2>1, <2>2, <2>3 DEF Stored
<1>4. CASE me.goal = "logout"
  <2>1. t = 0 /\ me.doc.key = state.file.key
    BY <1>1, <1>4 DEF Holding
  <2> QED
    BY <1>1, <1>4, <2>1 DEF Stored
<1>5. CASE me.goal = "key"
  <2>1. t = state.file.token /\ me.doc.key
    BY <1>1, <1>5 DEF Holding
  <2>2. ~Saving(state)
    BY <1>1, <1>5, CredAlone
  <2>3. ASSUME NEW l \in Credentials!Login, state.flow[l].token # 0
        PROVE  \/ state.flow[l].token # t
               \/ ~state.flow[l].closed /\ (state.flow[l].owner = u \/ state.flow[l].token = state.file.token)
    <3>1. Begun(state, l) /\ state.flow[l].closed \in BOOLEAN
      BY <1>1 DEF CredFlow
    <3> QED
      BY <2>1, <2>3, <3>1 DEF Begun
  <2>4. state.lost \/ t = 0 \/ t \in state.live
    BY <1>1, <2>1, <2>2 DEF Stored
  <2>5. t <= state.issued /\ (state.out => t = 0)
    BY <1>1, <2>1 DEF Stored
  <2> QED
    BY <1>1, <1>5, <2>1, <2>3, <2>4, <2>5
<1> QED
  BY <1>1, <1>2, <1>3, <1>4, <1>5

LEMMA CredSave ==
  ASSUME CredInv, NEW u \in Credentials!User, Credentials!Save(u)
  PROVE  CredInv'
<1> DEFINE c == Credentials!Idle(state, u)
           old == state.user[u]
           out == old.goal = "logout" \/ (state.out /\ old.goal # "login")
           keyed == state.keyed \/ old.goal = "key"
<1>1. old.at = "save" /\ state \in CredState /\ Stored(state)
  BY CredFacts DEF CredInv, Credentials!Save, Credentials!Me
<1>2. /\ state.lock = u /\ old.doc \in CredDocument /\ old.doc.token <= state.issued
      /\ \A l \in Credentials!Login : state.flow[l].token # 0 =>
           \/ state.flow[l].token # old.doc.token
           \/ ~state.flow[l].closed /\ (state.flow[l].owner = u \/ state.flow[l].token = state.file.token)
      /\ state.lost \/ old.doc.token = 0 \/ old.doc.token \in state.live
      /\ out => old.doc.token = 0
      /\ keyed => old.doc.key
  BY <1>1, CredWritten
<1>3. /\ c \in CredState
      /\ c.exists = state.exists /\ c.file = state.file /\ c.out = state.out
      /\ c.keyed = state.keyed /\ c.issued = state.issued /\ c.live = state.live /\ c.flow = state.flow
      /\ c.reused = state.reused /\ c.user = [state.user EXCEPT ![u] = [Credentials!Start EXCEPT !.at = "idle"]]
  BY CredIdle
<1>4. out \in BOOLEAN /\ keyed \in BOOLEAN
  BY <1>1 DEF CredState
<1>5. state' = [c EXCEPT !.file = old.doc, !.exists = TRUE, !.lost = state.lost, !.out = out, !.keyed = keyed]
  <2>1. state' = [c EXCEPT !.file = old.doc, !.exists = TRUE, !.lost = state.lost,
                    !.out = old.goal = "logout" \/ (@ /\ old.goal # "login"),
                    !.keyed = @ \/ old.goal = "key"]
    BY DEF Credentials!Save, Credentials!Saved, Credentials!Me
  <2> HIDE DEF c
  <2> QED
    BY <1>3, <2>1 DEF CredState
<1> DEFINE doc == old.doc
<1>6. doc \in CredDocument /\ state.lost \in BOOLEAN
  BY <1>1, <1>2 DEF CredState
<1> HIDE DEF c, out, keyed, doc
<1>7. /\ state' \in CredState
      /\ state'.exists = TRUE /\ state'.file = doc /\ state'.out = out /\ state'.keyed = keyed
      /\ state'.issued = c.issued /\ state'.live = c.live /\ state'.flow = c.flow
      /\ state'.lost = state.lost /\ state'.user = c.user /\ state'.reused = c.reused
  <2>1. state' = [c EXCEPT !.file = doc, !.exists = TRUE, !.lost = state.lost, !.out = out, !.keyed = keyed]
    BY <1>5 DEF doc
  <2> HIDE DEF old
  <2> QED
    BY <1>3, <1>4, <1>6, <2>1 DEF CredState
<1>8. /\ \A v \in Credentials!User \ {u} : state'.user[v] = state.user[v]
      /\ state'.user[u].at = "idle" /\ state'.user[u].login = 0
  BY <1>1, <1>3, <1>7 DEF CredState, Credentials!Start, Credentials!NoLogin
<1>9. Holding(state', u) /\ LoggingIn(state', u)
  BY <1>8 DEF Holding, LoggingIn
<1>10. Stored(state')
  BY <1>1, <1>2, <1>3, <1>7 DEF Stored, doc
<1>11. \A l \in Credentials!Login : state.flow[l].token # 0 =>
         \/ state.flow[l].token # state'.file.token
         \/ ~state.flow[l].closed /\ (state.flow[l].owner = u \/ state.flow[l].token = state.file.token)
  BY <1>2, <1>7 DEF doc
<1> QED
  BY <1>2, <1>3, <1>7, <1>8, <1>9, <1>10, <1>11, CredWrites

\* A refresh that brought tokens, or left those there were.
LEMMA CredBrings ==
  ASSUME CredInv, NEW u \in Credentials!User, state.user[u].at = "exchange", NEW n \in Nat, state' \in CredState,
         state'.exists = state.exists, state'.file = state.file, state'.out = state.out,
         state'.keyed = state.keyed, state.issued <= state'.issued,
         state'.lost = state.lost, state'.reused = state.reused, state'.lock = state.lock,
         state'.flow = state.flow,
         \A v \in Credentials!User \ {u} : state'.user[v] = state.user[v],
         state'.user[u].at = "save", state'.user[u].goal = "refresh", state'.user[u].login = state.user[u].login,
         state'.user[u].doc.token = n, state'.user[u].doc.key = state.file.key,
         state.live \subseteq state'.live \cup {state.file.token},
         n \in state'.live, n <= state'.issued, n = state.file.token \/ state.issued < n
  PROVE  CredInv'
<1> DEFINE old == state.user[u]
           me == state'.user[u]
<1>1. /\ state \in CredState /\ old \in CredUser /\ old.at = "exchange" /\ state.lock = u /\ old.doc = state.file
      /\ old.goal = "refresh" /\ state.file.token # 0 /\ Stored(state)
      /\ state.issued \in Nat /\ state'.issued \in Nat /\ u # 0 /\ state.file \in CredDocument
  BY CredFacts DEF CredInv, CredState, Holding
<1>2. ~state.out /\ state.exists
  BY <1>1 DEF Stored, Credentials!Empty, Credentials!NoToken
<1>3. /\ me.at = "save" /\ me.goal = "refresh" /\ me.login = old.login
      /\ me.doc.token = n /\ me.doc.key = state.file.key
  OBVIOUS
<1>4. LoggingIn(state, u) /\ old.login \in {0} \cup Credentials!Login
  BY <1>1, CredFacts DEF CredUser
<1> HIDE DEF me, old
<1>5. Beside(state, state', u)
  BY <1>1 DEF Beside
<1>6. Distinct(state') /\ \A l \in Credentials!Login : Begun(state', l)
  BY <1>5, BesideFlows
<1>7. Stored(state')
  <2>1. Saving(state')
    BY <1>3 DEF Saving, me
  <2>2. 1 <= state'.issued /\ state.file.token <= state'.issued
    BY <1>1 DEF Stored, CredDocument
  <2> QED
    BY <1>1, <1>2, <2>1, <2>2 DEF Stored
<1>8. Holding(state', u)
  <2>1. n = state.file.token \/ \A l \in Credentials!Login : state.flow[l].token # n
    <3>1. \A l \in Credentials!Login : state.flow[l].token \in Nat /\ state.flow[l].token <= state.issued
      BY CredFacts DEF Begun, CredFlow
    <3> QED
      BY <1>1, <3>1
  <2>2. me = state'.user[u]
    BY DEF me
  <2> QED
    BY <1>1, <1>2, <1>3, <2>1, <2>2 DEF Holding
<1>9. LoggingIn(state', u)
  <2>1. me = state'.user[u] /\ old = state.user[u]
    BY DEF me, old
  <2>2. old.login # 0 =>
          /\ state.flow[old.login].owner = u /\ state.flow[old.login].at # "none"
          /\ state.flow[old.login].token # 0 =>
               state.flow[old.login].token \in state.live /\ state.flow[old.login].token # state.file.token
    BY <1>4, <2>1 DEF LoggingIn
  <2> QED
    BY <1>3, <2>1, <2>2 DEF LoggingIn
<1> QED
  BY <1>5, <1>6, <1>7, <1>8, <1>9, CredStep

\* The answer that brought them is lost.
LEMMA CredLoses ==
  ASSUME CredInv, NEW u \in Credentials!User, state.user[u].at = "exchange", state' \in CredState,
         state'.exists = state.exists, state'.file = state.file, state'.out = state.out,
         state'.keyed = state.keyed, state.issued <= state'.issued,
         state'.lost, state'.lock = 0, state'.flow = state.flow,
         \A v \in Credentials!User \ {u} : state'.user[v] = state.user[v],
         state'.user[u].at = "idle", state'.user[u].login = 0,
         state.live \subseteq state'.live \cup {state.file.token}
  PROVE  CredInv'
<1>1. /\ state \in CredState /\ state.lock = u /\ Holding(state, u) /\ Stored(state) /\ state'.issued \in Nat
      /\ state.issued \in Nat /\ state.file.token # 0 /\ state.file \in CredDocument
  BY CredFacts DEF CredInv, CredState, Holding
<1>2. Beside(state, state', u)
  BY <1>1 DEF Beside
<1>3. Distinct(state') /\ \A l \in Credentials!Login : Begun(state', l)
  BY <1>2, BesideFlows
<1>4. Stored(state')
  <2>1. state.exists
    BY <1>1 DEF Stored, Credentials!Empty, Credentials!NoToken
  <2>2. 1 <= state'.issued /\ state.file.token <= state'.issued
    BY <1>1 DEF Stored, CredDocument
  <2> QED
    BY <1>1, <2>1, <2>2 DEF Stored
<1>5. Holding(state', u) /\ LoggingIn(state', u)
  BY DEF Holding, LoggingIn
<1> QED
  BY <1>2, <1>3, <1>4, <1>5, CredStep

LEMMA CredRefresh ==
  ASSUME CredInv, NEW u \in Credentials!User, Credentials!Refresh(u)
  PROVE  CredInv'
<1> DEFINE t == state.user[u].doc.token
           next == state.issued + 1
           live == (state.live \ {t}) \cup {next}
           given == [state EXCEPT !.issued = next, !.live = live]
           stale == state.stale \ {t}
           spent == [state EXCEPT !.stale = stale]
           brought(n, c) ==
             /\ state' \in CredState /\ state'.issued = c.issued /\ state'.live = c.live
             /\ state'.exists = c.exists /\ state'.file = c.file /\ state'.out = c.out
             /\ state'.keyed = c.keyed /\ state'.lost = c.lost /\ state'.reused = c.reused
             /\ state'.lock = c.lock /\ state'.flow = c.flow
             /\ \A v \in Credentials!User \ {u} : state'.user[v] = state.user[v]
             /\ state'.user[u].at = "save" /\ state'.user[u].goal = "refresh"
             /\ state'.user[u].login = state.user[u].login
             /\ state'.user[u].doc.token = n /\ state'.user[u].doc.key = state.file.key
<1>1. /\ state \in CredState /\ state.user[u].at = "exchange" /\ state.lock = u /\ t = state.file.token
      /\ Stored(state) /\ state.issued \in Nat /\ t \in Nat /\ state.faults \in Nat
      /\ state.file.token <= state.issued /\ state.live \in SUBSET Nat
      /\ state.stale \in SUBSET Nat /\ state.user[u].doc = state.file
      /\ state.file \in CredDocument /\ state.user[u] \in CredUser /\ state.user[u].goal = "refresh"
  BY CredFacts DEF CredInv, CredState, Stored, CredDocument, Credentials!Refresh, Credentials!Me, Holding
<1>2. /\ next \in Nat /\ state.issued < next /\ state.issued <= next
      /\ live \in SUBSET Nat /\ next \in live /\ state.live \subseteq live \cup {state.file.token}
      /\ stale \in SUBSET Nat /\ next <= next
  BY <1>1
<1> HIDE DEF next, live, stale
<1>3. /\ given \in CredState /\ given.issued = next /\ given.live = live /\ given.user = state.user
      /\ given.exists = state.exists /\ given.file = state.file /\ given.out = state.out
      /\ given.keyed = state.keyed /\ given.lost = state.lost /\ given.reused = state.reused
      /\ given.lock = state.lock /\ given.flow = state.flow /\ given.faults = state.faults
  BY <1>1, <1>2 DEF CredState
<1>4. /\ spent \in CredState /\ spent.issued = state.issued /\ spent.live = state.live /\ spent.user = state.user
      /\ spent.exists = state.exists /\ spent.file = state.file /\ spent.out = state.out
      /\ spent.keyed = state.keyed /\ spent.lost = state.lost /\ spent.reused = state.reused
      /\ spent.lock = state.lock /\ spent.flow = state.flow
  BY <1>1, <1>2 DEF CredState
<1>5. ASSUME NEW n \in Nat, NEW c \in CredState, c.user = state.user,
             state' = [c EXCEPT !.user[u].at = "save", !.user[u].doc.token = n]
      PROVE  brought(n, c)
  <2> DEFINE saves == [state.user[u] EXCEPT !.at = "save"]
             doc == [token |-> n, key |-> state.file.key]
             me == [saves EXCEPT !.doc = doc]
             waits == [state.user EXCEPT ![u] = saves]
             user == [state.user EXCEPT ![u] = me]
             k == [c EXCEPT !.user[u].at = "save"]
  <2>1. /\ saves \in CredUser /\ saves.doc = state.file /\ saves.goal = state.user[u].goal
        /\ saves.login = state.user[u].login /\ saves.at = "save"
    BY <1>1 DEF CredUser
  <2>2. [state.file EXCEPT !.token = n] = doc /\ doc \in CredDocument
    BY <1>1 DEF CredDocument
  <2> HIDE DEF saves, doc
  <2>3. /\ me \in CredUser /\ me.at = "save" /\ me.goal = state.user[u].goal /\ me.login = state.user[u].login
        /\ me.doc = doc
    BY <2>1, <2>2 DEF CredUser
  <2>4. waits \in [Credentials!User -> CredUser] /\ waits[u] = saves
    BY <1>1, <2>1 DEF CredState
  <2>5. [waits EXCEPT ![u] = me] = user
    BY <1>1, <2>1 DEF CredState
  <2>6. user \in [Credentials!User -> CredUser] /\ user[u] = me
        /\ \A v \in Credentials!User \ {u} : user[v] = state.user[v]
    BY <1>1, <2>3 DEF CredState
  <2>7. k = [c EXCEPT !.user = waits]
    BY <1>1, <1>5 DEF CredState, saves
  <2> HIDE DEF k, waits
  <2>8. k \in CredState /\ k.user = waits /\ state' = [k EXCEPT !.user[u].doc.token = n]
    BY <1>5, <2>4, <2>7 DEF CredState, k
  <2>9. [waits EXCEPT ![u].doc.token = n] = [waits EXCEPT ![u] = me]
    <3>1. [saves EXCEPT !.doc.token = n] = me
      BY <2>1, <2>2 DEF CredUser, CredDocument
    <3> HIDE DEF me
    <3> QED
      BY <2>4, <3>1
  <2> HIDE DEF me, user
  <2>10. state' = [k EXCEPT !.user = user]
    <3>1. state' = [k EXCEPT !.user = [waits EXCEPT ![u].doc.token = n]]
      BY <2>8 DEF CredState
    <3> QED
      BY <2>5, <2>9, <3>1
  <2>11. state' = [c EXCEPT !.user = user]
    BY <1>5, <2>7, <2>10 DEF CredState
  <2>12. /\ state' \in CredState /\ state'.issued = c.issued /\ state'.live = c.live
         /\ state'.exists = c.exists /\ state'.file = c.file /\ state'.out = c.out
         /\ state'.keyed = c.keyed /\ state'.lost = c.lost /\ state'.reused = c.reused
         /\ state'.lock = c.lock /\ state'.flow = c.flow /\ state'.user = user
    BY <1>5, <2>6, <2>11 DEF CredState
  <2>13. doc.token = n /\ doc.key = state.file.key
    BY DEF doc
  <2> QED
    BY <1>1, <2>3, <2>6, <2>12, <2>13
<1>6. CASE state' = [given EXCEPT !.user[u].at = "save", !.user[u].doc.token = next]
  <2> HIDE DEF given
  <2>1. /\ state' \in CredState /\ state'.issued = given.issued /\ state'.live = given.live
        /\ state'.exists = given.exists /\ state'.file = given.file /\ state'.out = given.out
        /\ state'.keyed = given.keyed /\ state'.lost = given.lost /\ state'.reused = given.reused
        /\ state'.lock = given.lock /\ state'.flow = given.flow
        /\ \A v \in Credentials!User \ {u} : state'.user[v] = state.user[v]
        /\ state'.user[u].at = "save" /\ state'.user[u].goal = "refresh"
        /\ state'.user[u].login = state.user[u].login
        /\ state'.user[u].doc.token = next /\ state'.user[u].doc.key = state.file.key
    <3>1. brought(next, given)
      <4> HIDE DEF brought
      <4> QED
        BY <1>2, <1>3, <1>5, <1>6
    <3> QED
      BY <3>1
  <2> QED
    BY <1>1, <1>2, <1>3, <2>1, CredBrings
<1>7. CASE state' = [Credentials!Idle(given, u) EXCEPT !.faults = @ + 1, !.lost = TRUE]
  <2> DEFINE faults == state.faults + 1
             idle == [Credentials!Start EXCEPT !.at = "idle"]
             user == [state.user EXCEPT ![u] = idle]
  <2>1. /\ idle \in CredUser /\ idle.at = "idle" /\ idle.login = 0
    BY DEF CredUser, CredDocument, Credentials!Start, Credentials!Empty, Credentials!NoToken, Credentials!NoLogin
  <2> HIDE DEF given
  <2>2. state' = [given EXCEPT !.user = user, !.lock = 0, !.faults = faults, !.lost = TRUE]
    <3> HIDE DEF idle
    <3>1. Credentials!Idle(given, u) = [given EXCEPT !.user = user, !.lock = 0,
             !.lost = @ \/ (Credentials!Me(u).at = "save" /\ Credentials!Me(u).goal = "refresh")]
      BY <1>1, <1>3 DEF Credentials!Idle, Credentials!Nobody, CredState, idle
    <3> HIDE DEF user
    <3> QED
      BY <1>3, <1>7, <3>1 DEF CredState
  <2>3. faults \in Nat
    BY <1>1
  <2> HIDE DEF idle, faults
  <2>4. user \in [Credentials!User -> CredUser] /\ user[u] = idle
        /\ \A v \in Credentials!User \ {u} : user[v] = state.user[v]
    BY <1>1, <2>1 DEF CredState
  <2> HIDE DEF user
  <2>5. /\ state' \in CredState /\ state'.issued = given.issued /\ state'.live = given.live
        /\ state'.exists = given.exists /\ state'.file = given.file /\ state'.out = given.out
        /\ state'.keyed = given.keyed /\ state'.lost = TRUE
        /\ state'.lock = 0 /\ state'.flow = given.flow /\ state'.user = user
    BY <1>3, <2>1, <2>2, <2>3, <2>4 DEF CredState
  <2> QED
    BY <1>1, <1>2, <1>3, <2>1, <2>4, <2>5, CredLoses
<1>8. CASE t \in state.live /\ state' = [spent EXCEPT !.user[u].at = "save", !.user[u].doc.token = t]
  <2> HIDE DEF spent
  <2>1. /\ state' \in CredState /\ state'.issued = spent.issued /\ state'.live = spent.live
        /\ state'.exists = spent.exists /\ state'.file = spent.file /\ state'.out = spent.out
        /\ state'.keyed = spent.keyed /\ state'.lost = spent.lost /\ state'.reused = spent.reused
        /\ state'.lock = spent.lock /\ state'.flow = spent.flow
        /\ \A v \in Credentials!User \ {u} : state'.user[v] = state.user[v]
        /\ state'.user[u].at = "save" /\ state'.user[u].goal = "refresh"
        /\ state'.user[u].login = state.user[u].login
        /\ state'.user[u].doc.token = t /\ state'.user[u].doc.key = state.file.key
    <3>1. brought(t, spent)
      <4> HIDE DEF brought
      <4> QED
        BY <1>1, <1>4, <1>5, <1>8
    <3> QED
      BY <3>1
  <2>2. t \in state.live /\ t <= state.issued /\ state.issued <= state.issued
    BY <1>1, <1>8
  <2> QED
    BY <1>1, <1>4, <2>1, <2>2, CredBrings
<1>9. CASE t \notin state.live /\ state' = [Credentials!Idle(state, u) EXCEPT !.reused = TRUE]
  <2>1. state.lost
    <3>1. t # 0
      BY <1>1, CredFacts DEF Holding
    <3> QED
      BY <1>1, <1>9, <3>1, CredAlone DEF Stored
  <2> DEFINE c == Credentials!Idle(state, u)
  <2>2. /\ c \in CredState /\ c.faults = state.faults /\ c.legacy = state.legacy
        /\ state.faults \in Nat /\ state.legacy \in BOOLEAN
    BY CredIdle DEF CredInv, CredState
  <2>3. state' = [c EXCEPT !.reused = TRUE]
    BY <1>9
  <2> HIDE DEF c
  <2>4. state' = [c EXCEPT !.faults = state.faults, !.legacy = state.legacy, !.reused = TRUE]
    BY <2>2, <2>3 DEF CredState
  <2> QED
    BY <2>1, <2>2, <2>4, CredEndsSo DEF c
<1>10. CASE Credentials!Ends(u)
  BY <1>10, CredLeaves
<1> QED
  BY <1>6, <1>7, <1>8, <1>9, <1>10 DEF Credentials!Refresh, Credentials!Me, next, live, stale

-----------------------------------------------------------------------------
(* The whole.                                                              *)

LEMMA CredStarts ==
  ASSUME Credentials!Init
  PROVE  CredInv
<1>1. PICK legacy \in BOOLEAN :
        state = [exists |-> FALSE, file |-> Credentials!Empty, legacy |-> legacy, lock |-> Credentials!Nobody,
                 issued |-> 1, live |-> {1}, stale |-> {1}, lost |-> FALSE, reused |-> FALSE,
                 out |-> FALSE, keyed |-> FALSE, changes |-> 0, faults |-> 0,
                 user |-> [u \in Credentials!User |-> Credentials!Start],
                 flow |-> [l \in Credentials!Login |-> Credentials!NoFlow]]
  BY DEF Credentials!Init
<1>2. Credentials!Start \in CredUser /\ Credentials!NoFlow \in CredFlow /\ Credentials!Empty \in CredDocument
  BY DEF CredUser, CredFlow, CredDocument, Credentials!Start, Credentials!NoFlow, Credentials!Empty,
         Credentials!NoToken, Credentials!NoLogin, Credentials!Nobody
<1>3. state \in CredState
  BY <1>1, <1>2 DEF CredState, Credentials!Nobody
<1>4. Stored(state)
  BY <1>1 DEF Stored, Credentials!Empty, Credentials!NoToken
<1>5. Distinct(state) /\ \A l \in Credentials!Login : Begun(state, l)
  BY <1>1 DEF Distinct, Begun, Credentials!NoFlow, Credentials!NoToken, Credentials!Nobody
<1>6. \A u \in Credentials!User : Holding(state, u) /\ LoggingIn(state, u)
  BY <1>1 DEF Holding, LoggingIn, Credentials!Start, Credentials!NoLogin
<1> QED
  BY <1>3, <1>4, <1>5, <1>6 DEF CredInv, CredSound

LEMMA CredNext ==
  ASSUME CredInv, Credentials!Next
  PROVE  CredInv'
<1>1. ASSUME NEW t \in Credentials!Token, Credentials!Expire(t) PROVE CredInv'
  BY <1>1, CredExpire
<1>2. ASSUME NEW l \in Credentials!Login,
             Credentials!Redirect(l) \/ Credentials!Tokens(l) \/ Credentials!NoTokens(l) \/ Credentials!FinishLogin(l)
      PROVE  CredInv'
  BY <1>2, CredRedirect, CredTokens, CredFinish
<1>3. ASSUME NEW u \in Credentials!User,
             \/ Credentials!Open(u) \/ Credentials!CurrentTokens(u)
             \/ Credentials!Change(u, "logout") \/ Credentials!Change(u, "key")
             \/ Credentials!CloseLogin(u)
      PROVE  CredInv'
  BY <1>3, CredOpen, CredChange, CredClose
<1>4. ASSUME NEW u \in Credentials!User, NEW l \in Credentials!Login, Credentials!BeginLogin(u, l) PROVE CredInv'
  BY <1>4, CredBeginLogin
<1>5. ASSUME NEW u \in Credentials!User,
             \/ Credentials!Acquire(u) \/ Credentials!GiveUp(u) \/ Credentials!Migrate(u) \/ Credentials!Cleanup(u)
             \/ Credentials!Update(u)
      PROVE  CredInv'
  <2>1. Credentials!GiveUp(u) => Credentials!Ends(u)
    BY DEF Credentials!GiveUp
  <2> QED
    BY <1>5, <2>1, CredAcquire, CredLeaves, CredMigrate, CredUpdate
<1>6. ASSUME NEW u \in Credentials!User,
             \/ Credentials!Refresh(u) \/ Credentials!Save(u) \/ Credentials!SaveFails(u) \/ Credentials!Crash(u)
      PROVE  CredInv'
  <2>1. Credentials!SaveFails(u) => Credentials!Fails(u)
    BY DEF Credentials!SaveFails
  <2> QED
    BY <1>6, <2>1, CredRefresh, CredSave, CredLeaves, CredCrash
<1> QED
  BY <1>1, <1>2, <1>3, <1>4, <1>5, <1>6 DEF Credentials!Next

LEMMA CredSafe ==
  ASSUME CredInv
  PROVE  Credentials!CredentialsAreSound
<1>1. /\ Stored(state) /\ \A l \in Credentials!Login : Begun(state, l) /\ state.flow[l] \in CredFlow
  BY CredFacts
<1>2. Credentials!StoredIsLive
  BY <1>1 DEF Stored, Saving, Credentials!StoredIsLive, Credentials!Me, Credentials!NoToken
<1>3. Credentials!TokenUsedOnce /\ Credentials!LogoutStays /\ Credentials!KeyKept
  BY <1>1 DEF Stored, Credentials!TokenUsedOnce, Credentials!LogoutStays, Credentials!KeyKept, Credentials!NoToken
<1>4. Credentials!AbandonedStaysOut
  BY <1>1 DEF Begun, Credentials!AbandonedStaysOut, Credentials!NoToken
<1> QED
  BY <1>2, <1>3, <1>4 DEF Credentials!CredentialsAreSound

LEMMA CredStutters ==
  ASSUME CredInv, UNCHANGED state
  PROVE  CredInv'
BY DEF CredInv
=============================================================================
