---------------------------- MODULE PartsProofs ----------------------------
(***************************************************************************)
(* What the lemmas of ConcurrentPartsProofs and RunPartsProofs say of the  *)
(* parts side by side: no other part is at work in a behaviour in which    *)
(* one of them is.                                                         *)
(***************************************************************************)
EXTENDS Parts, ConcurrentPartsProofs, RunPartsProofs

\* The journal file of a session is whole, whoever opens, writes, repairs, reads
\* or deletes it beside others: what a process has open is at the path, what was
\* acknowledged is read, and no line is read out of its place (openStore,
\* Store.Append, Inspect, Delete).
THEOREM SpecStoreIsSound == Spec => []StoreIsSound
<1> DEFINE Kept == part = "store" => StoreInv
<1>1. Init => Kept
  BY StoreAssumption, StoreStarts DEF Init
<1>2. Kept /\ [Next]_vars => Kept'
  <2> SUFFICES ASSUME Kept, [Next]_vars PROVE Kept'
    OBVIOUS
  <2>1. CASE part = "store" /\ Store!Next /\ UNCHANGED part
    BY <2>1, StoreAssumption, StoreNext
  <2>2. CASE UNCHANGED vars
    BY <2>2, StoreStutters DEF vars
  <2>3. CASE part # "store" /\ UNCHANGED part
    BY <2>3
  <2> QED
    BY <2>1, <2>2, <2>3 DEF Next
<1>3. Kept => StoreIsSound
  BY StoreSafe DEF StoreIsSound
<1> QED
  BY <1>1, <1>2, <1>3, PTL DEF Spec

\* A command that is waited for, handed over, stopped, timed out and closed over
\* is reported once and truly, and joined (monitor, stop, yieldForeground,
\* AwaitRequiredJobs, Close).
THEOREM SpecJobsAreSound == Spec => []JobsAreSound
<1> DEFINE Kept == part = "jobs" => JobsInv
<1>1. Init => Kept
  BY JobsStart DEF Init
<1>2. Kept /\ [Next]_vars => Kept'
  <2> SUFFICES ASSUME Kept, [Next]_vars PROVE Kept'
    OBVIOUS
  <2>1. CASE part = "jobs" /\ Commands!Next /\ UNCHANGED part
    BY <2>1, JobsNext
  <2>2. CASE UNCHANGED vars
    BY <2>2, JobsStutter DEF vars
  <2>3. CASE part # "jobs" /\ UNCHANGED part
    BY <2>3
  <2> QED
    BY <2>1, <2>2, <2>3 DEF Next
<1>3. Kept => JobsAreSound
  BY JobsSafe DEF JobsAreSound
<1> QED
  BY <1>1, <1>2, <1>3, PTL DEF Spec

\* What the reader of a stream has parsed reaches the consumer, who is told of one
\* end, however the reader, the timers, the consumer and the context interleave
\* (run, Next, BeginDrain, expireDrain, Close).
THEOREM SpecStreamIsSound == Spec => []StreamIsSound
<1> DEFINE Kept == part = "stream" => StreamInv
<1>1. Init => Kept
  BY StreamAssumption, StreamStarts DEF Init
<1>2. Kept /\ [Next]_vars => Kept'
  <2> SUFFICES ASSUME Kept, [Next]_vars PROVE Kept'
    OBVIOUS
  <2>1. CASE part = "stream" /\ Stream!Next /\ UNCHANGED part
    BY <2>1, StreamAssumption, StreamNext
  <2>2. CASE UNCHANGED vars
    BY <2>2, StreamStutters DEF vars
  <2>3. CASE part # "stream" /\ UNCHANGED part
    BY <2>3
  <2> QED
    BY <2>1, <2>2, <2>3 DEF Next
<1>3. Kept => StreamIsSound
  BY StreamSafe DEF StreamIsSound
<1> QED
  BY <1>1, <1>2, <1>3, PTL DEF Spec

\* Whatever order the tools of a response end in, the journal tells of all of
\* them, in order; and what a request under retries returns, learns and records
\* agree (executeToolCalls, completeRunRequest).
THEOREM SpecRunsAreSound == Spec => []RunsAreSound
<1> DEFINE Kept == (part = "batch" => BatchInv) /\ (part = "request" => RequestInv)
<1>1. Init => Kept
  BY BatchAssumption, BatchStarts, RequestStarts DEF Init
<1>2. Kept /\ [Next]_vars => Kept'
  <2> SUFFICES ASSUME Kept, [Next]_vars PROVE Kept'
    OBVIOUS
  <2>1. CASE part = "batch" /\ Batch!Next /\ UNCHANGED part
    BY <2>1, BatchAssumption, BatchNext
  <2>2. CASE part = "request" /\ Request!Next /\ UNCHANGED part
    BY <2>2, RequestNext
  <2>3. CASE UNCHANGED vars
    BY <2>3, BatchStutters, RequestStutters DEF vars
  <2>4. CASE part \notin {"batch", "request"} /\ UNCHANGED part
    BY <2>4
  <2> QED
    BY <2>1, <2>2, <2>3, <2>4 DEF Next
<1>3. Kept => RunsAreSound
  BY BatchAssumption, BatchSafe, RequestSafe DEF RunsAreSound
<1> QED
  BY <1>1, <1>2, <1>3, PTL DEF Spec

\* Credentials survive what processes do to them at the same time (UpdateCredential,
\* CurrentTokens, the migration of an older release, and the logins of a browser).
THEOREM SpecStateIsSound == Spec => []StateIsSound
<1> DEFINE Kept == part = "credentials" => CredInv
<1>1. Init => Kept
  BY CredStarts DEF Init
<1>2. Kept /\ [Next]_vars => Kept'
  <2> SUFFICES ASSUME Kept, [Next]_vars PROVE Kept'
    OBVIOUS
  <2>1. CASE part = "credentials" /\ Credentials!Next /\ UNCHANGED part
    BY <2>1, CredNext
  <2>2. CASE UNCHANGED vars
    BY <2>2, CredStutters DEF vars
  <2>3. CASE part # "credentials" /\ UNCHANGED part
    BY <2>3
  <2> QED
    BY <2>1, <2>2, <2>3 DEF Next
<1>3. Kept => StateIsSound
  BY CredSafe DEF StateIsSound
<1> QED
  BY <1>1, <1>2, <1>3, PTL DEF Spec

\* What a command ended as is not told differently later, and nobody forgets a
\* command that has not ended (monitor, forget).
THEOREM SpecEndsOnce == Spec => [][part = "jobs" => Commands!EndsOnce]_vars
<1> DEFINE Kept == part = "jobs" => JobsInv
           Once == part = "jobs" => Commands!EndsOnce
<1>1. Init => Kept
  BY JobsStart DEF Init
<1>2. Kept /\ [Next]_vars => Kept' /\ [Once]_vars
  <2> SUFFICES ASSUME Kept, [Next]_vars PROVE Kept' /\ [Once]_vars
    OBVIOUS
  <2>1. CASE part = "jobs" /\ Commands!Next /\ UNCHANGED part
    BY <2>1, JobsNext
  <2>2. CASE UNCHANGED vars
    BY <2>2, JobsStutter DEF vars
  <2>3. CASE part # "jobs" /\ UNCHANGED part
    BY <2>3
  <2> QED
    BY <2>1, <2>2, <2>3 DEF Next
<1> QED
  BY <1>1, <1>2, PTL DEF Spec

\* A drain ends a stream at its limit or in quiet, and idleness after silence, and
\* no event is returned after the context ended (updateDrainLocked, Next).
THEOREM SpecEndsForCause == Spec => [][part = "stream" => Stream!EndsForCause]_vars
<1> DEFINE Kept == part = "stream" => StreamInv
           Caused == part = "stream" => Stream!EndsForCause
<1>1. Init => Kept
  BY StreamAssumption, StreamStarts DEF Init
<1>2. Kept /\ [Next]_vars => Kept' /\ [Caused]_vars
  <2> SUFFICES ASSUME Kept, [Next]_vars PROVE Kept' /\ [Caused]_vars
    OBVIOUS
  <2>1. CASE part = "stream" /\ Stream!Next /\ UNCHANGED part
    BY <2>1, StreamAssumption, StreamNext
  <2>2. CASE UNCHANGED vars
    BY <2>2, StreamStutters DEF vars
  <2>3. CASE part # "stream" /\ UNCHANGED part
    BY <2>3
  <2> QED
    BY <2>1, <2>2, <2>3 DEF Next
<1> QED
  BY <1>1, <1>2, PTL DEF Spec
=============================================================================
