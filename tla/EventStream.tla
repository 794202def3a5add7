------------------------------ MODULE EventStream ------------------------------
(***************************************************************************)
(* The stream of a model's answer (src/model/transport/sse.go): a reader   *)
(* that parses a line at a time, the consumer that asks for one event at a *)
(* time, the timer that ends the trailing events, and whoever closes it.   *)
(* Lines and time never run out: the server may send for ever.             *)
(***************************************************************************)
EXTENDS Integers, FiniteSets

CONSTANTS
  IdleLimit,    \* StreamOptions.IdleTimeout, in ticks
  MinComments,  \* DrainOptions: MinComments, QuietPeriod and MaxDuration
  QuietLimit,
  DrainLimit

VARIABLE es

Lines == {"data", "empty", "done", "comment", "blank", "text", "big"}
Ends == {"eof", "done", "big", "text", "fail", "drain"}
Off == DrainLimit + 1  \* a timer that is not running

StreamTypeOK ==
  /\ es.ctx \in {"live", "due", "cancelled"} /\ es.closing \in {"no", "stopping", "closed"}
  /\ es.reader \in {"parked", "scan", "line", "tell", "finished"} /\ es.consumer \in {"out", "wait", "idle"}
  /\ es.request \in BOOLEAN /\ es.changed \in BOOLEAN /\ es.body \in BOOLEAN /\ es.ended \in BOOLEAN
  /\ es.content \in {"none", "some", "done"} /\ es.hasData \in BOOLEAN /\ es.raw \in BOOLEAN
  /\ es.result \in {"none", "event"} \cup Ends /\ es.endCause \in {"none"} \cup Ends
  /\ es.terminal \in {"none", "idle"} \cup Ends /\ es.ret \in {"none", "event", "ctx", "idle"} \cup Ends
  /\ es.drain \in BOOLEAN /\ es.comments \in 0..MinComments /\ es.timer \in 0..Off

Init == es = [ctx |-> "live", closing |-> "no", body |-> TRUE, ended |-> FALSE,
              reader |-> "parked", request |-> FALSE, changed |-> FALSE,
              content |-> "none", hasData |-> FALSE, raw |-> FALSE, partialLine |-> FALSE,
              result |-> "none", endCause |-> "none", lost |-> FALSE,
              drain |-> FALSE, maxLeft |-> 0, quietLeft |-> 0, comments |-> 0, timer |-> Off,
              consumer |-> "out", ret |-> "none", terminal |-> "none", idleLeft |-> 0, idleTimer |-> 0]

ContextErr == es.ctx # "live"     \* contextErr: the deadline has passed
Cancelled == es.ctx = "cancelled" \* ctx.Err

-----------------------------------------------------------------------------
(* The end of the drain.                                                   *)

\* Mutant: a line or an event that has begun does not count.
QuietAnyway(s) == s.comments >= MinComments

QuietEnough(s) == s.comments >= MinComments /\ ~s.hasData /\ ~s.partialLine
Left(s) == IF QuietEnough(s) /\ s.quietLeft < s.maxLeft THEN s.quietLeft ELSE s.maxLeft

\* Mutant: only the timer looks.
UpdateDrainByTimer(s) ==
  IF s.reader = "line" \/ ~s.drain THEN s
  ELSE IF s.endCause # "none" \/ s.ctx = "cancelled" THEN [s EXCEPT !.timer = Off]
  ELSE IF Left(s) > 0 THEN [s EXCEPT !.timer = Left(s)]
  ELSE [s EXCEPT !.endCause = "drain", !.body = FALSE, !.timer = Off]

\* updateDrainLocked, after parsing as well as from the timer. Expiry closes
\* the body.
UpdateDrain(s) ==
  CASE ~s.drain -> s
    [] s.drain /\ (s.endCause # "none" \/ s.ctx = "cancelled") -> [s EXCEPT !.timer = Off]
    [] s.drain /\ s.endCause = "none" /\ s.ctx # "cancelled" /\ Left(s) > 0 -> [s EXCEPT !.timer = Left(s)]
    [] OTHER -> [s EXCEPT !.endCause = "drain", !.body = FALSE, !.timer = Off]

Expires(s) == UpdateDrain(s).endCause # s.endCause
Notified(s) == [s EXCEPT !.changed = TRUE]
ExpireDrain(s) == IF Expires(s) THEN Notified(UpdateDrain(s)) ELSE UpdateDrain(s)

\* The callback of the timer.
TimerFires == es.timer = 0 /\ es' = ExpireDrain([es EXCEPT !.timer = Off])

-----------------------------------------------------------------------------
(* The reader (readEvents).                                                *)

Leaves == es.reader = "parked" /\ (Cancelled \/ es.endCause = "drain") /\ es' = [es EXCEPT !.reader = "finished"]

Requested == es.reader = "parked" /\ es.request /\ es' = [es EXCEPT !.reader = "scan", !.request = FALSE]

\* Bytes that are no line yet are activity too.
Partial ==
  /\ es.reader = "scan" /\ es.body /\ ~es.ended
  /\ es' = [es EXCEPT !.partialLine = TRUE, !.idleLeft = IdleLimit]

\* A line was in the buffer, or has just been read.
Scan == es.reader = "scan" /\ \E read \in BOOLEAN :
  /\ read => es.body /\ ~es.ended
  /\ es' = [es EXCEPT !.reader = "line", !.idleLeft = IF read THEN IdleLimit ELSE @]

\* dispatch: an event, or the sentinel.
Dispatched(s) == [s EXCEPT !.result = IF s.content = "done" THEN "done" ELSE "event",
                           !.content = "none", !.hasData = FALSE]

Joined(content, hasData, line) ==
  CASE line = "empty" -> IF hasData THEN "some" ELSE content
    [] line = "done" -> IF hasData THEN "some" ELSE "done"
    [] OTHER -> "some"

\* consumeLine: a line of text is kept for an answer that is no stream.
Consume(s, line) ==
  CASE line = "blank" -> IF s.content # "none" THEN Dispatched(s) ELSE [s EXCEPT !.hasData = FALSE]
    [] line = "comment" -> IF s.drain /\ ~s.hasData /\ s.comments < MinComments
                           THEN [s EXCEPT !.comments = @ + 1] ELSE s
    [] line = "text" -> [s EXCEPT !.raw = TRUE]
    [] line = "big" -> [s EXCEPT !.result = "big"]
    [] OTHER -> [s EXCEPT !.content = Joined(@, s.hasData, line), !.hasData = TRUE,
                          !.quietLeft = IF s.drain THEN QuietLimit ELSE @,
                          !.comments = IF s.drain THEN 0 ELSE @]

\* Mutant: what the end cuts off is dropped.
EndShort(s, fails) == [s EXCEPT !.result = IF fails THEN "fail" ELSE "eof", !.ended = TRUE,
                                !.lost = s.content = "some"]

\* The end of the body, or its failure.
End(s, fails) ==
  CASE fails -> [s EXCEPT !.result = "fail"]
    [] ~fails /\ s.content # "none" -> [Dispatched(s) EXCEPT !.ended = TRUE]
    [] ~fails /\ s.content = "none" /\ s.raw -> [s EXCEPT !.result = "text", !.ended = TRUE]
    [] OTHER -> [s EXCEPT !.result = "eof", !.ended = TRUE]

\* Mutant: the end drops an event that was complete.
ParsedOver(s) ==
  LET updated == UpdateDrain([s EXCEPT !.endCause = IF s.result \in Ends THEN s.result ELSE @])
  IN IF updated.endCause = "drain" /\ s.result = "event"
     THEN [updated EXCEPT !.reader = "tell", !.result = "none", !.lost = TRUE]
     ELSE IF s.result # "none" \/ updated.endCause # "none"
     THEN [updated EXCEPT !.reader = "tell"] ELSE [updated EXCEPT !.reader = "scan"]

Parsed(s) ==
  LET updated == UpdateDrain([s EXCEPT !.endCause = IF s.result \in Ends THEN s.result ELSE @])
  IN IF s.result # "none" \/ updated.endCause # "none"
     THEN [updated EXCEPT !.reader = "tell"] ELSE [updated EXCEPT !.reader = "scan"]

\* Under the stream's lock; nothing is parsed after the end.
Parse ==
  /\ es.reader = "line"
  /\ \/ (es.endCause # "none" \/ Cancelled) /\ es' = [es EXCEPT !.reader = "finished"]
     \/ /\ es.endCause = "none" /\ ~Cancelled
        /\ LET s == [es EXCEPT !.partialLine = FALSE] IN
           \/ ~es.ended /\ \E line \in Lines : es' = Parsed(Consume(s, line))
           \/ es' = Parsed(End(s, FALSE))
           \/ ~es.ended /\ es' = Parsed(End(s, TRUE))

\* Mutant: it reads ahead.
TellOn ==
  /\ es.reader = "tell"
  /\ es' = Notified([es EXCEPT !.reader = IF es.endCause = "none" THEN "scan" ELSE "finished"])

\* The reader pauses after each event.
Tell ==
  /\ es.reader = "tell"
  /\ es' = Notified([es EXCEPT !.reader = IF es.endCause = "none" THEN "parked" ELSE "finished"])

-----------------------------------------------------------------------------
(* The consumer (Next, BeginDrain).                                        *)

Return(s, ret) == [s EXCEPT !.consumer = "out", !.ret = ret]

\* Mutant: the end before a parsed result.
TakeEnd(s) ==
  CASE ContextErr -> Return(s, "ctx")
    [] ~ContextErr /\ s.endCause # "none" -> [Return(s, s.endCause) EXCEPT !.terminal = s.endCause]
    [] OTHER -> [Return(s, s.result) EXCEPT !.result = "none"]

\* takeResult: the context first, a parsed result before the end.
Take(s) ==
  CASE ContextErr -> Return(s, "ctx")
    [] ~ContextErr /\ s.result # "none" ->
         [Return(s, s.result) EXCEPT !.result = "none",
                                     !.terminal = IF s.result \in Ends THEN s.result ELSE "none"]
    [] OTHER -> [Return(s, s.endCause) EXCEPT !.terminal = s.endCause]

Ready(s) == ContextErr \/ s.result # "none" \/ s.endCause # "none"

CallNext ==
  /\ es.consumer = "out" /\ es.closing = "no" /\ es.terminal = "none" /\ es.ret # "ctx"
  /\ LET s == ExpireDrain(es) IN
     es' = CASE ContextErr -> Return(es, "ctx")
             [] ~ContextErr /\ Ready(s) -> Take(s)
             [] OTHER -> [s EXCEPT !.request = TRUE, !.consumer = "wait",
                                   !.idleLeft = IdleLimit, !.idleTimer = IdleLimit]

Woken ==
  /\ es.consumer = "wait" /\ es.changed
  /\ LET s == [es EXCEPT !.changed = FALSE] IN es' = IF Ready(s) THEN Take(s) ELSE s

\* A ready result wins, and the end of the drain over idleness.
IdleFires ==
  /\ es.consumer = "wait" /\ es.idleTimer = 0
  /\ LET s == ExpireDrain(es) IN es' = IF Ready(s) THEN Take(s) ELSE [s EXCEPT !.consumer = "idle"]

\* Mutant: only whole events are activity.
IdleEndsAnyway ==
  /\ es.consumer = "idle"
  /\ es' = IF ContextErr THEN Return(es, "ctx") ELSE [Return(es, "idle") EXCEPT !.terminal = "idle"]

\* Any bytes since then start the wait again.
IdleEnds ==
  /\ es.consumer = "idle"
  /\ es' = CASE es.idleLeft > 0 -> [es EXCEPT !.consumer = "wait", !.idleTimer = es.idleLeft]
             [] es.idleLeft <= 0 /\ ContextErr -> Return(es, "ctx")
             [] OTHER -> [Return(es, "idle") EXCEPT !.terminal = "idle"]

Interrupted == es.consumer = "wait" /\ Cancelled /\ es' = Return(es, "ctx")

\* After an event that completes the answer. The first call fixes the limits.
BeginDrain ==
  /\ es.consumer = "out" /\ es.ret = "event" /\ ~es.drain /\ ~ContextErr
  /\ es.endCause = "none" /\ es.terminal = "none"
  /\ es' = [es EXCEPT !.drain = TRUE, !.maxLeft = DrainLimit, !.quietLeft = QuietLimit,
                      !.comments = 0, !.timer = DrainLimit]

-----------------------------------------------------------------------------
(* The context, time, and Close, which another goroutine may call.         *)

DeadlinePasses == es.ctx = "live" /\ es' = [es EXCEPT !.ctx = "due"]
Cancel == es.ctx # "cancelled" /\ es' = [es EXCEPT !.ctx = "cancelled"]

\* Mutant: the body is left to the reader.
CloseContextOnly ==
  /\ es.closing = "no"
  /\ es' = [es EXCEPT !.closing = "stopping", !.ctx = "cancelled", !.timer = Off]

Close ==
  /\ es.closing = "no"
  /\ es' = [es EXCEPT !.closing = "stopping", !.ctx = "cancelled", !.timer = Off, !.body = FALSE]

Closed == es.closing = "stopping" /\ es.reader = "finished" /\ es' = [es EXCEPT !.closing = "closed"]

Less(n) == IF n > 0 THEN n - 1 ELSE 0
Tick == es' = [es EXCEPT !.maxLeft = Less(@), !.quietLeft = Less(@), !.idleLeft = Less(@),
                         !.idleTimer = Less(@), !.timer = IF @ = Off THEN Off ELSE Less(@)]

\* A read of a body that was closed returns.
Reads == ~es.body /\ Scan
Steps == Leaves \/ Requested \/ Parse \/ Tell \/ Woken \/ IdleFires \/ IdleEnds \/ Interrupted \/ CallNext

Next == \/ TimerFires \/ Leaves \/ Requested \/ Partial \/ Scan \/ Parse \/ Tell
        \/ CallNext \/ Woken \/ IdleFires \/ IdleEnds \/ Interrupted \/ BeginDrain
        \/ DeadlinePasses \/ Cancel \/ Close \/ Closed \/ Tick

-----------------------------------------------------------------------------

Consumed == es.terminal \in {"eof", "done", "drain", "text"}

\* An event that was parsed is delivered whatever ends the stream (takeResult).
NothingIsLost == ~es.lost /\ (Consumed => es.result # "event")

\* While the consumer has an event the reader reads on no further, so that
\* BeginDrain sees what follows it; and asking never blocks (Next).
ReaderPauses == es.consumer = "out" /\ es.ret = "event" /\ ~Cancelled =>
  es.reader \in {"parked", "tell", "finished"} /\ ~es.request

\* The timer of the drain is never late (updateDrainLocked).
TimerInTime == es.drain /\ es.endCause = "none" /\ ~Cancelled /\ es.timer # Off =>
  es.timer <= es.maxLeft /\ (es.reader # "line" => es.timer <= Left(es))

StreamIsSound == NothingIsLost /\ ReaderPauses /\ TimerInTime

\* A drain ends the stream only after its limit, or in quiet between events;
\* idleness only when nothing was read for that long; and an event is never
\* returned after the context's end.
EndsForCause ==
  /\ es'.endCause = "drain" /\ es.endCause = "none" =>
       es'.maxLeft = 0 \/ (es'.quietLeft = 0 /\ es'.comments >= MinComments /\ es'.content = "none" /\ ~es'.partialLine)
  /\ es'.terminal = "idle" /\ es.terminal = "none" => es.idleLeft = 0
  /\ es'.ret = "event" /\ es'.consumer = "out" /\ es.consumer = "wait" => es.ctx = "live"
  /\ es.drain /\ es.maxLeft = 0 /\ es.reader = "line" /\ es'.reader # "line" => es'.endCause # "none" \/ Cancelled

Draining == es.drain
StreamEnds == es.terminal # "none" \/ es.ctx # "live"
Stopping == es.closing = "stopping"
IsClosed == es.closing = "closed"
=============================================================================
