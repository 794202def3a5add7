--------------------------- MODULE ConcurrentParts ---------------------------
(***************************************************************************)
(* The parts in which several actors share a state, and about which        *)
(* theorems are proved.  Parts puts them beside the others.                *)
(***************************************************************************)
EXTENDS Integers, Sequences, FiniteSets

CONSTANTS Calls, MaxActive
CONSTANTS MaxAttempts, Budget, BaseDelay, MaxDelay, RetryAfter, MaxShrinks
CONSTANTS Processes, MaxFiles, MaxWrites
CONSTANTS Users, MaxTokens, MaxLogins, MaxChanges, MaxFaults
CONSTANTS Jobs, MaxStrays
CONSTANTS IdleLimit, MinComments, QuietLimit, DrainLimit

\* maxParallelToolCalls is 4 (tool_execution.go).
ASSUME BatchAssumption == Calls \in Nat /\ MaxActive \in Nat \ {0}

ASSUME StoreAssumption == Processes \in Nat /\ MaxFiles \in Nat /\ MaxWrites \in Nat

\* BeginDrain refuses options that are not positive (sse.go).
ASSUME StreamAssumption ==
  /\ IdleLimit \in Nat
  /\ MinComments \in Nat \ {0} /\ QuietLimit \in Nat \ {0} /\ DrainLimit \in Nat \ {0}

\* The part that is at work, and its state.
VARIABLES part, state

Batch == INSTANCE ToolBatch WITH batch <- state
Request == INSTANCE ModelRequest WITH req <- state
Store == INSTANCE SessionStore WITH disk <- state
Credentials == INSTANCE Credentials WITH cred <- state
Commands == INSTANCE ProcessJobs WITH pm <- state
Stream == INSTANCE EventStream WITH es <- state
=============================================================================
