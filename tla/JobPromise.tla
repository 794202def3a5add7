----------------------------- MODULE JobPromise -----------------------------
(***************************************************************************)
(* What a session is promised of a job it started: it ends at most once,   *)
(* in one way, and that is what the session's journal tells of it first.   *)
(* A worker that disappears without a result ends its job as "abandoned".  *)
(***************************************************************************)
CONSTANT Verdicts  \* the ways to end

VARIABLES
  stage,    \* "unborn", "running", "ended"
  verdict,  \* how it ended, or "none"
  tale      \* what was told first, or "none"

vars == <<stage, verdict, tale>>

Init == stage = "unborn" /\ verdict = "none" /\ tale = "none"

Begin ==
  /\ stage = "unborn"
  /\ stage' = "running"
  /\ UNCHANGED <<verdict, tale>>

End ==
  /\ stage = "running"
  /\ stage' = "ended"
  /\ verdict' \in Verdicts
  /\ UNCHANGED tale

Tell ==
  /\ stage = "ended" /\ tale = "none"
  /\ tale' = verdict
  /\ UNCHANGED <<stage, verdict>>

Spec == Init /\ [][Begin \/ End \/ Tell]_vars
=============================================================================
