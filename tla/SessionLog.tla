----------------------------- MODULE SessionLog -----------------------------
(***************************************************************************)
(* What the journal of a session promises to whoever reads it: runs follow *)
(* one another, a run that ends has answered every call it was asked, no   *)
(* identifier is used twice, and a job is announced only while nobody has  *)
(* been told how it ended.  AgentRuntime implements it.                    *)
(***************************************************************************)
CONSTANT Jobs

VARIABLES
  began,   \* runs begun so far
  active,  \* runs begun and not ended
  asked,   \* tool calls asked so far
  open,    \* calls not answered yet
  told     \* jobs whose end has been told

logVars == <<began, active, asked, open, told>>

LogInit ==
  began = {} /\ active = {} /\ asked = {} /\ open = {} /\ told = {}

Begin(run) ==
  /\ active = {}
  /\ run \notin began
  /\ began' = began \cup {run}
  /\ active' = {run}
  /\ UNCHANGED <<asked, open, told>>

\* A model is asked again only when all its calls are answered.
Ask(new) ==
  /\ active # {}
  /\ open = {}
  /\ new \cap asked = {}
  /\ asked' = asked \cup new
  /\ open' = new
  /\ UNCHANGED <<began, active, told>>

\* An answer may tell of a job, also of one told before.
Answer(call, ended) ==
  /\ call \in open
  /\ open' = open \ {call}
  /\ told' = told \cup ended
  /\ UNCHANGED <<began, active, asked>>

Announce(job) ==
  /\ active # {}
  /\ open = {}
  /\ job \notin told
  /\ told' = told \cup {job}
  /\ UNCHANGED <<began, active, asked, open>>

End ==
  /\ active # {}
  /\ open = {}
  /\ active' = {}
  /\ UNCHANGED <<began, asked, open, told>>

LogNext ==
  \/ \E run \in began' : Begin(run)
  \/ Ask(asked' \ asked)
  \/ \E call \in open, ended \in SUBSET Jobs : Answer(call, ended)
  \/ \E job \in Jobs : Announce(job)
  \/ End

LogSpec == LogInit /\ [][LogNext]_logVars
=============================================================================
