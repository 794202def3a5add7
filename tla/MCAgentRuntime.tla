--------------------------- MODULE MCAgentRuntime ---------------------------
(***************************************************************************)
(* Small sessions for TLC.  A budget says how often the outside world acts; *)
(* `open' counts processes, so that a second one is a restart.  A run takes *)
(* a set of budgets, and every behaviour stays within one of them.         *)
(***************************************************************************)
EXTENDS SessionProperties, TLC

AtMost(limits) ==
  [o \in Occasions |-> IF o \in DOMAIN limits THEN limits[o] ELSE 0]

\* Jobs, crashes between any two steps, and a failing write.
JobsBudget == AtMost([open |-> 2, run |-> 2, fault |-> 1])

\* Input, shell commands and cancellation, with two of: a restart, a shell
\* command, a failing write.
InputBudget == AtMost([open |-> 2, run |-> 1, shell |-> 1, queue |-> 2,
                       take |-> 1, fault |-> 1, cancel |-> 1])
InputBudgets == {[InputBudget EXCEPT ![o] = @ - 1] : o \in {"open", "shell", "fault"}}

\* Changes of the endpoint, by an idle session and by turns, and of the scope.
ConfigBudget == AtMost([open |-> 2, run |-> 1, select |-> 2, scope |-> 1,
                        fault |-> 1])

\* The scope changes while the session is idle or a run is active.
ScopeBudget == AtMost([open |-> 2, run |-> 2, scope |-> 1])

\* What may keep an operation from returning: calls, jobs, input, a selection
\* to apply, a failing store.
ReturnBudget == AtMost([open |-> 1, run |-> 1, shell |-> 1, select |-> 1,
                        queue |-> 1, fault |-> 1, cancel |-> 1])

OfJobs == {JobsBudget}
OfInputAndConfig == InputBudgets \cup {ConfigBudget}
OfScope == {ScopeBudget}
OfReturns == {ReturnBudget}

\* No definition prefers one endpoint or one scope to another.
Symmetric == Permutations(Endpoints) \cup Permutations(Scopes)
=============================================================================
