---------------------------- MODULE ModelRequest ----------------------------
(***************************************************************************)
(* One request of a run to its model (src/agent/runtime.go,                *)
(* completeRunRequest and completeRequest): attempts under a retry budget, *)
(* a shrunken context after an oversized request, and the control without  *)
(* images that tells whether the route takes them.                         *)
(***************************************************************************)
EXTENDS Naturals, Sequences, FiniteSetsExt

CONSTANTS MaxAttempts,  \* RequestPolicy.MaxAttempts, unless it is unlimited
          Budget,       \* RequestPolicy.RetryBudget in units of time
          BaseDelay, MaxDelay, RetryAfter,  \* the delays between attempts
          MaxShrinks    \* how often the context can be shrunk

VARIABLE req

NoBudget == 0
\* What the backend makes of an attempt; `refused' is a request error of the
\* provider that no retry cures, `transient' one that asks to be retried.
Reply == {"ok", "transient", "busy", "refused", "invalid", "toolarge"}
Failure == (Reply \ {"ok"}) \cup {"budget", "cancelled", "journal"}

ReqTypeOK ==
  /\ req.limit \in {MaxAttempts, 0} /\ req.budget \in {Budget, NoBudget}
  /\ req.left \in 0..Budget /\ req.attempt \in 0..MaxAttempts + 1
  /\ req.images \in BOOLEAN /\ req.fits \in BOOLEAN /\ req.control \in BOOLEAN
  /\ req.delivery \in {"unknown", "accepted", "rejected"}
  /\ req.ctx \in BOOLEAN /\ req.store \in {"sound", "failing"}
  /\ req.boundaries \in 0..MaxShrinks
  /\ req.phase \in {"build", "attempt", "call", "reply", "ended", "wait", "judge", "done"}
  /\ req.reply \in Reply \cup Failure \cup {"none"}
  /\ req.first \in Failure \cup {"none"}
  /\ req.outcome \in Reply \cup Failure \cup {"none"}
  /\ req.log \subseteq [images : BOOLEAN, outcome : Reply \cup Failure]
  /\ req.open \in BOOLEAN

Init ==
  \E limit \in {MaxAttempts, 0}, budget \in {Budget, NoBudget},
     images, fits \in BOOLEAN :
    req = [limit |-> limit, budget |-> budget, left |-> budget, attempt |-> 0,
           images |-> images, fits |-> fits, control |-> FALSE,
           delivery |-> "unknown", ctx |-> FALSE, store |-> "sound",
           boundaries |-> MaxShrinks, phase |-> "build", reply |-> "none",
           first |-> "none", outcome |-> "none", log |-> {}, open |-> FALSE,
           calls |-> 0]

\* Mutant: the deadline does not reach the request.
ExpiredUnseen == FALSE

Expired == req.budget # NoBudget /\ req.left = 0

ContextDone == req.ctx \/ Expired
\* The error of the request's context.
Interruption == IF req.ctx THEN "cancelled" ELSE "budget"

AttemptAllowed(n) == req.limit = 0 \/ n <= req.limit

Retryable(failure) == failure \in {"transient", "busy"}

\* retryDelay, without its jitter; a provider may ask for more.
DelayAfter(n, failure) ==
  LET doubled[k \in 1..n] == IF k = 1 THEN Min({BaseDelay, MaxDelay})
                             ELSE IF doubled[k - 1] > MaxDelay \div 2 THEN MaxDelay
                             ELSE 2 * doubled[k - 1]
  IN IF failure = "busy" THEN Max({doubled[n], RetryAfter}) ELSE doubled[n]

\* The images a request carries to the route.
Carries == req.images /\ ~req.control /\ req.delivery # "rejected"

(* The world: a cancelled run, a failing journal, time. *)
Cancel == ~req.ctx /\ req.phase # "done" /\ req' = [req EXCEPT !.ctx = TRUE]
Fail == req.store = "sound" /\ req.phase # "done" /\ req' = [req EXCEPT !.store = "failing"]
Tick ==
  /\ req.phase = "call" /\ req.budget # NoBudget /\ req.left > 0
  /\ req' = [req EXCEPT !.left = @ - 1]

Finish(r, outcome) == [r EXCEPT !.phase = "done", !.outcome = outcome]
\* completeRequest returns: the control's result, or the run's.
Return(r, reply) == [r EXCEPT !.phase = "judge", !.reply = reply]

(* completeRunRequest builds a request; completeRequest starts its budget. *)
Build ==
  /\ req.phase = "build"
  /\ req' = [req EXCEPT !.phase = "attempt", !.attempt = 1, !.left = req.budget]

(* The top of the loop of attempts, up to the call. *)
StartAttempt ==
  /\ req.phase = "attempt"
  /\ req' = IF ContextDone THEN Return(req, Interruption)
            ELSE IF req.store = "failing" THEN Return(req, "journal")
            ELSE [req EXCEPT !.phase = "call", !.open = TRUE]

(* Backend.Complete, which is not called when the context has ended between *)
(* the record and the call, and which returns once its context ends.        *)
Call(reply) ==
  /\ req.phase = "call" /\ ~ContextDone
  /\ req' = [req EXCEPT !.phase = "reply", !.reply = reply, !.calls = Min({@ + 1, MaxAttempts + 1})]
CallEnds ==
  /\ req.phase = "call" /\ ContextDone
  /\ \E reply \in {"ok", "cancelled"} : req' = [req EXCEPT !.phase = "reply", !.reply = reply]

(* What the attempt is recorded as: an end of the context hides the reply. *)
Verdict == IF ContextDone THEN Interruption ELSE req.reply

\* Mutant: a failed attempt is retried without a record.
FinishAttemptQuietly ==
  /\ req.phase = "reply"
  /\ req' = IF Verdict # "ok" THEN [req EXCEPT !.phase = "ended", !.reply = Verdict]
            ELSE [req EXCEPT !.phase = "ended", !.reply = Verdict, !.open = FALSE,
                    !.log = @ \cup {[images |-> Carries, outcome |-> Verdict]}]

\* Mutant: a response that comes too late is recorded, and then discarded.
FinishAttemptEarly ==
  /\ req.phase = "reply"
  /\ req' = IF req.store = "failing" THEN Return(req, "journal")
            ELSE [req EXCEPT !.phase = "ended", !.reply = Verdict, !.open = FALSE,
                    !.log = @ \cup {[images |-> Carries, outcome |-> req.reply]}]

FinishAttempt ==
  /\ req.phase = "reply"
  /\ req' = IF req.store = "failing" THEN Return(req, "journal")
            ELSE [req EXCEPT !.phase = "ended", !.reply = Verdict, !.open = FALSE,
                    !.log = @ \cup {[images |-> Carries, outcome |-> Verdict]}]

(* The response is returned, or the attempt is the last, or it is retried.  *)
LastAttempt ==
  \/ req.ctx \/ ~Retryable(req.reply) \/ ~AttemptAllowed(req.attempt + 1)
  \/ req.budget # NoBudget /\ DelayAfter(req.attempt, req.reply) > req.left

Decide ==
  /\ req.phase = "ended"
  /\ req' = IF req.reply = "ok" \/ LastAttempt THEN Return(req, req.reply)
            ELSE [req EXCEPT !.phase = "wait"]

(* waitForModelRetry: the timer, the deadline and the cancellation race. *)
WaitOver ==
  /\ req.phase = "wait"
  /\ req' = [req EXCEPT !.phase = "attempt", !.attempt = Min({@ + 1, MaxAttempts + 1}),
               !.left = IF req.budget = NoBudget THEN @
                        ELSE @ - DelayAfter(req.attempt, req.reply)]
WaitEnds ==
  /\ req.phase = "wait"
  /\ \/ req.ctx
     \/ req.budget # NoBudget /\ DelayAfter(req.attempt, req.reply) = req.left
  /\ req' = Return(req, Interruption)

-----------------------------------------------------------------------------
(* completeRunRequest judges a finished request. *)

\* A request that tells whether the route takes images.
Probes == req.images /\ req.delivery = "unknown"

\* observeImageDelivery.
Observed(delivery) ==
  req' = IF req.store = "failing" THEN Finish(req, "journal")
         ELSE Finish([req EXCEPT !.delivery = delivery], "ok")

Succeed ==
  /\ req.phase = "judge" /\ req.reply = "ok" /\ ~req.control
  /\ IF Probes THEN Observed("accepted") ELSE req' = Finish(req, "ok")

\* A context that was shrunk is measured again, and may have lost its images.
TooLarge ==
  /\ req.phase = "judge" /\ req.reply = "toolarge" /\ ~req.control /\ ~req.ctx
  /\ IF req.boundaries = 0 \/ req.store = "failing" THEN req' = Finish(req, "toolarge")
     ELSE \E images \in {FALSE, req.images}, fits \in BOOLEAN :
            req' = [req EXCEPT !.boundaries = @ - 1, !.phase = "build", !.images = images, !.fits = fits]

\* Mutant: an uncertain window does not matter.
ControlAllowedAnyway == req.reply = "refused"

\* imageFreeControlAllowed: nothing but the images can explain the refusal.
ControlAllowed == req.reply = "refused" /\ req.fits

Control ==
  /\ req.phase = "judge" /\ ~req.control /\ Probes /\ ControlAllowed /\ ~req.ctx
  /\ req' = [req EXCEPT !.control = TRUE, !.first = req.reply, !.phase = "build"]

Controlled ==
  /\ req.phase = "judge" /\ req.control
  /\ IF req.reply = "ok" THEN Observed("rejected") ELSE req' = Finish(req, req.first)

GiveUp ==
  /\ req.phase = "judge" /\ ~req.control /\ req.reply # "ok"
  /\ req.ctx \/ (req.reply # "toolarge" /\ ~(Probes /\ ControlAllowed))
  /\ req' = Finish(req, req.reply)

Step ==
  \/ Build \/ StartAttempt \/ CallEnds \/ FinishAttempt \/ Decide \/ WaitOver \/ WaitEnds
  \/ Succeed \/ TooLarge \/ Control \/ Controlled \/ GiveUp

Next == Cancel \/ Fail \/ Tick \/ Step \/ \E reply \in Reply : Call(reply)

-----------------------------------------------------------------------------
Bounded == req.budget # NoBudget \/ req.ctx
Done == req.phase = "done"

Logged(images, outcome) == [images |-> images, outcome |-> outcome] \in req.log

(* What is learned of a route about images rests on evidence: a request with *)
(* images it answered, or one it refused that fits its window, answered      *)
(* without them (imageFreeControlAllowed).                                   *)
DeliveryHasEvidence ==
  /\ req.delivery = "accepted" => Logged(TRUE, "ok")
  /\ req.delivery = "rejected" => Logged(TRUE, "refused") /\ Logged(FALSE, "ok") /\ req.fits

(* A response is returned only when its attempt is recorded as completed,    *)
(* and an attempt that is recorded as completed is not lost unless a record  *)
(* fails (finishModelAttempt).                                               *)
ResponseIsRecorded ==
  /\ req.outcome = "ok" => ~req.open /\ \E i \in BOOLEAN : Logged(i, "ok")
  /\ req.phase = "done" /\ (\E i \in BOOLEAN : Logged(i, "ok")) => req.outcome \in {"ok", "journal"}

(* Every attempt that is started is recorded as ended before another starts  *)
(* or the request returns, unless the journal fails.                         *)
AttemptsAreClosed ==
  req.open => req.phase \in {"call", "reply"} \/ req.store = "failing"

(* What a request returns, learns and leaves in the journal agree.           *)
RequestIsSound == DeliveryHasEvidence /\ ResponseIsRecorded /\ AttemptsAreClosed
=============================================================================
