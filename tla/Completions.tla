----------------------------- MODULE Completions -----------------------------
(***************************************************************************)
(* The Complete methods of the four model adapters (src/model/             *)
(* chatcompletions, responses, anthropic, google): one request is sent,    *)
(* its stream is read, and the answer is returned whole, cut at a limit,   *)
(* or as an error.  What the server said is kept beside what the adapter   *)
(* made of it.  EventStream has the stream itself.                         *)
(***************************************************************************)
EXTENDS Naturals, Sequences, FiniteSets, SequencesExt

CONSTANTS MaxPieces,  \* pieces of text an answer is made of
          MaxReports  \* reports of usage in one stream

VARIABLE ans

Api == {"chat", "responses", "messages", "google"}
Slots == 1..2     \* the tool calls of an answer, in their order
TextBlock == 0
Whole == 2        \* the pieces of a call, the first of which has its name
Style == {"indexed", "ids", "firstid"}   \* how chat servers tell calls apart
Incomplete == {"length", "limit"}
Complete == {"stop", "calls"}
NoReply == [kind |-> "none", marks |-> {}, text |-> 0, calls |-> <<>>, stop |-> "none"]

AnsTypeOK ==
  /\ ans.api \in Api /\ ans.style \in Style
  /\ ans.phase \in {"build", "post", "stream", "done"}
  /\ ans.text \in 0..MaxPieces /\ ans.told \in 0..MaxPieces
  /\ ans.calls \in Seq([id : 0..2, size : 0..2 * Whole]) /\ Len(ans.calls) <= 3
  /\ ans.open \cup ans.closed \subseteq {TextBlock} \cup Slots
  /\ ans.stop \in {"", "odd", "failed"} \cup Incomplete \cup Complete /\ ans.draining \in BOOLEAN
  /\ ans.usage \in [report : 0..MaxReports, status : {"unavailable", "partial", "final"}]
  /\ ans.reply.kind \in {"none", "ok", "error"}
  /\ ans.reply.marks \subseteq {"invalid", "notsent", "provider"}
  /\ ans.srv \in [got : BOOLEAN, text : 0..MaxPieces, calls : [Slots -> 0..Whole],
                  end : {"", "stop", "length", "failed"}, reports : 0..MaxReports,
                  atEnd : BOOLEAN, wrong : BOOLEAN]

Init ==
  \E api \in Api, style \in Style :
    /\ api # "chat" => style = "indexed"
    /\ ans = [api |-> api, style |-> style, phase |-> "build", text |-> 0, told |-> 0,
              calls |-> <<>>, open |-> {}, closed |-> {}, stop |-> "", draining |-> FALSE,
              usage |-> [report |-> 0, status |-> "unavailable"], reply |-> NoReply,
              srv |-> [got |-> FALSE, text |-> 0, calls |-> [c \in Slots |-> 0], end |-> "",
                       reports |-> 0, atEnd |-> FALSE, wrong |-> FALSE]]

-----------------------------------------------------------------------------
(* Returning: the deferred functions of Complete. *)

\* Mutant: a failure to connect is not told from one after it.
MarkAllProvider(started, marks) ==
  IF started THEN marks \cup {"provider"} ELSE marks \cup {"notsent"}
Mark(started, marks) ==
  IF started /\ "notsent" \notin marks
  THEN IF "invalid" \in marks THEN marks ELSE marks \cup {"provider"}
  ELSE marks \cup {"notsent"}

Fails(a, marks) ==
  [a EXCEPT !.phase = "done",
     !.reply = [NoReply EXCEPT !.kind = "error", !.marks = Mark(a.phase # "build", marks)]]

Returns(a, stop, calls) ==
  [a EXCEPT !.phase = "done",
     !.reply = [NoReply EXCEPT !.kind = "ok", !.text = a.text, !.calls = calls, !.stop = stop]]

\* Mutant: a call cut by a limit of the server is returned.
CallsOfAll(a, stop) == SelectSeq(a.calls, LAMBDA call : call.size > 0 /\ stop # "limit")
\* The calls of an answer; an answer that stopped early has none, since their
\* arguments may be cut.
CallsOf(a, stop) ==
  SelectSeq(a.calls, LAMBDA call : call.size > 0 /\ stop \notin Incomplete)

\* Mutant: arguments are not checked.
SoundAny(a, stop) == TRUE
\* NormalizeToolArguments takes the arguments of every call; a block that was
\* opened is closed, unless this side cut the answer.
Sound(a, stop) ==
  /\ \A k \in 1..Len(CallsOf(a, stop)) : CallsOf(a, stop)[k].size = Whole
  /\ stop = "limit" \/ \A b \in a.open \ a.closed : b # TextBlock /\ stop \in Incomplete

\* The end of Complete, when the answer ended with that reason.
Conclude(a, stop) ==
  LET calls == CallsOf(a, stop) IN
  IF stop = "odd" \/ ~Sound(a, stop) THEN Fails(a, {})
  ELSE IF a.text = 0 /\ calls = <<>> /\ stop \notin Incomplete THEN Fails(a, {})
  ELSE Returns(a, IF calls # <<>> THEN "calls" ELSE stop, calls)

-----------------------------------------------------------------------------
(* Before the stream. *)

\* buildRequest, and the size of the body.
Build ==
  /\ ans.phase = "build"
  /\ \E valid \in BOOLEAN :
       ans' = IF valid THEN [ans EXCEPT !.phase = "post"] ELSE Fails(ans, {"invalid"})

\* Post: it fails before a connection (an authorizer, a dial), after one, with
\* a status, or gives a stream.
Post ==
  /\ ans.phase = "post"
  /\ \/ \E marks \in {{"invalid", "notsent"}, {"provider", "notsent"}} : ans' = Fails(ans, marks)
     \/ \E got \in BOOLEAN : ans' = Fails([ans EXCEPT !.srv.got = got], {})
     \/ ans' = [ans EXCEPT !.phase = "stream", !.srv.got = TRUE]

-----------------------------------------------------------------------------
(* Events.  `usage' is a report in the event, `last' whether the adapter    *)
(* takes a report of such an event for the final one.                      *)

Reading == ans.phase = "stream"

\* The server's side of a report.
Reported(a, usage) ==
  IF usage = "ok" THEN [a EXCEPT !.srv.reports = @ + 1, !.srv.atEnd = a.srv.end # ""]
  ELSE IF usage = "bad" THEN [a EXCEPT !.srv.wrong = TRUE] ELSE a
MayReport(usage) == usage = "ok" => ans.srv.reports < MaxReports

\* Mutant: an invalid report replaces what is known.
ObserveBad(a, usage, last) ==
  IF usage = "bad" THEN [a EXCEPT !.usage = [report |-> 0, status |-> "partial"]]
  ELSE IF usage = "ok" THEN [a EXCEPT !.usage = [report |-> a.srv.reports,
                                       status |-> IF last THEN "final" ELSE "partial"]]
  ELSE a
\* Mutant: only a report in the event that ends the answer is final.
ObservePartial(a, usage, last) ==
  IF usage = "ok" THEN [a EXCEPT !.usage = [report |-> a.srv.reports,
                          status |-> IF last /\ ~a.draining THEN "final" ELSE "partial"]]
  ELSE a
\* UsageAccumulator.Observe: a report replaces the one before, a bad one nothing.
Observe(a, usage, last) ==
  IF usage = "ok" THEN [a EXCEPT !.usage = [report |-> a.srv.reports,
                                       status |-> IF last THEN "final" ELSE "partial"]]
  ELSE a

Say(a) == [a EXCEPT !.srv.text = @ + 1]
Hear(a) == [a EXCEPT !.text = @ + 1, !.told = @ + 1]
MoreText == ans.srv.text < MaxPieces /\ ans.srv.end = ""
MoreCall(c) == ans.srv.calls[c] < Whole /\ ans.srv.end = ""
Ended(a, finish) ==
  [a EXCEPT !.srv.end = IF finish \in {"stop", "length"} THEN finish ELSE "failed"]

Text == ans.api \in {"chat", "google"} /\ Reading /\ MoreText /\ ans' = Hear(Say(ans))

-----------------------------------------------------------------------------
(* Chat completions. *)

Empty == [id |-> 0, size |-> 0]

\* Mutant: a call without an index belongs to the last one.
MergeLast(calls, index, id) ==
  LET last == Len(calls)
      at == IF index > 0 THEN index ELSE IF last = 0 THEN 1 ELSE last
  IN [k \in 1..(IF at > last THEN at ELSE last) |->
        LET call == IF k <= last THEN calls[k] ELSE Empty IN
        IF k # at THEN call
        ELSE [id |-> IF id # 0 THEN id ELSE call.id, size |-> call.size + 1]]
\* toolCallAccumulator.merge: index 0 is none, and a new id then begins a call.
Merge(calls, index, id) ==
  LET last == Len(calls)
      at == IF index > 0 THEN index
            ELSE IF last = 0 THEN 1
            ELSE IF id # 0 /\ calls[last].id \notin {0, id} THEN last + 1 ELSE last
  IN [k \in 1..(IF at > last THEN at ELSE last) |->
        LET call == IF k <= last THEN calls[k] ELSE Empty IN
        IF k # at THEN call
        ELSE [id |-> IF id # 0 THEN id ELSE call.id, size |-> call.size + 1]]

\* A server without indexes sends a call after the one before it.
ChatCall(c) ==
  /\ ans.api = "chat" /\ Reading /\ MoreCall(c)
  /\ ans.style # "indexed" => \A d \in Slots : /\ d < c => ans.srv.calls[d] = Whole
                                               /\ d > c => ans.srv.calls[d] = 0
  /\ LET first == ans.srv.calls[c] = 0
         index == IF ans.style = "indexed" THEN c ELSE 0
         id == IF ans.style = "ids" \/ first THEN c ELSE 0
     IN ans' = [ans EXCEPT !.srv.calls[c] = @ + 1, !.calls = Merge(@, index, id)]

\* A chunk with a finish reason of choice 0; observeChunk looks at it first.
ChatFinish(finish, usage, error) ==
  /\ ans.api = "chat" /\ Reading /\ MayReport(usage) /\ ans.srv.end = ""
  /\ LET sent == Reported(Ended(ans, IF error THEN "failed" ELSE finish), usage)
         seen == Observe(sent, usage, TRUE)
     IN ans' = IF usage = "bad" \/ error \/ finish \in {"odd", "failed"} THEN Fails(seen, {})
               ELSE [seen EXCEPT !.stop = finish, !.draining = TRUE]

\* Mutant: an error after the finish reason is not looked at.
ChatServiceQuiet(usage, error) ==
  /\ ans.api = "chat" /\ Reading /\ MayReport(usage)
  /\ LET sent == Reported(IF error THEN Ended(ans, "failed") ELSE ans, usage)
         seen == Observe(sent, usage, TRUE)
     IN ans' = IF usage = "bad" \/ (error /\ ~ans.draining) THEN Fails(seen, {}) ELSE seen
\* A chunk without choices: usage, or an error; also after the finish reason.
ChatService(usage, error) ==
  /\ ans.api = "chat" /\ Reading /\ MayReport(usage)
  /\ LET sent == Reported(IF error THEN Ended(ans, "failed") ELSE ans, usage)
         seen == Observe(sent, usage, TRUE)
     IN ans' = IF usage = "bad" \/ error THEN Fails(seen, {}) ELSE seen

\* Mutant: the end of the stream ends the answer.
ChatEndsAnyway(a, done) == Conclude(a, IF a.stop = "" THEN "stop" ELSE a.stop)
\* The stream ends, with [DONE] or without, or is drained (Observer.End).
ChatEnds(a, done) ==
  IF a.stop = "" /\ ~done THEN Fails(a, {}) ELSE Conclude(a, IF a.stop = "" THEN "stop" ELSE a.stop)

-----------------------------------------------------------------------------
(* Responses. *)

\* Text of the answer's message, which the stream may show as it comes or not.
Delta ==
  /\ ans.api = "responses" /\ Reading /\ MoreText /\ TextBlock \notin ans.closed
  /\ ans' \in {Hear(Say(ans)), Say(ans)}
\* The server makes a call; the adapter does not read its fragments.
ResponsesCall(c) ==
  /\ ans.api = "responses" /\ Reading /\ MoreCall(c)
  /\ ans' = [ans EXCEPT !.srv.calls[c] = @ + 1]
\* An item is reported as done, whatever came before it: the message or a call.
ItemDone(c) ==
  /\ ans.api = "responses" /\ Reading /\ c \notin ans.closed
  /\ IF c = TextBlock THEN ans.srv.text > 0 ELSE ans.srv.calls[c] = Whole
  /\ ans' = [ans EXCEPT !.closed = @ \cup {c}]
\* A report before the end.
Progress(usage) ==
  /\ ans.api = "responses" /\ Reading /\ ans.srv.end = "" /\ MayReport(usage)
  /\ LET seen == Observe(Reported(ans, usage), usage, FALSE)
     IN ans' = IF usage = "bad" THEN Fails(seen, {}) ELSE seen

\* Mutant: the items that were reported come before the terminal snapshot.
OutputDone(a, full) ==
  LET kept == a.closed \ {TextBlock}
  IN [k \in 1..Cardinality(kept) |->
        LET c == CHOOSE c \in kept : Cardinality({d \in kept : d < c}) = k - 1
        IN [id |-> c, size |-> a.srv.calls[c]]]
\* The output of the terminal event, or the items done so far by their index.
Output(a, full) ==
  LET kept == IF full THEN {c \in Slots : a.srv.calls[c] > 0} ELSE a.closed \ {TextBlock}
  IN [k \in 1..Cardinality(kept) |->
        LET c == CHOOSE c \in kept : Cardinality({d \in kept : d < c}) = k - 1
        IN [id |-> c, size |-> a.srv.calls[c]]]

\* Its text is not what the deltas said.
OutputText(a, full) == IF full \/ TextBlock \in a.closed THEN a.srv.text ELSE 0

\* A terminal event: its status has to be that of its type; the items are in it,
\* or were all reported before; a failed one has an error or none, and an odd one
\* is incomplete for a reason that is not known.
Terminal(status, carried, full, usage) ==
  /\ ans.api = "responses" /\ Reading /\ MayReport(usage)
  /\ ~full => /\ \A c \in Slots : ans.srv.calls[c] > 0 => c \in ans.closed
              /\ ans.srv.text > 0 => TextBlock \in ans.closed
  /\ LET agrees == carried \in {"", IF status = "odd" THEN "length" ELSE status}
         sent == Reported(Ended(ans, IF ~agrees THEN "failed" ELSE status), usage)
         seen == Observe(sent, usage, TRUE)
         taken == [seen EXCEPT !.calls = Output(seen, full), !.text = OutputText(seen, full), !.open = {}]
     IN ans' = IF usage = "bad" \/ status = "failed" \/ ~agrees THEN Fails(seen, {})
               ELSE Conclude(taken, status)

-----------------------------------------------------------------------------
(* Messages: each call is a block that is opened and closed. *)

\* A stop reason of the start or of a delta; the last one counts.
StopsWith(a, finish) ==
  IF finish = "" THEN a ELSE [Ended(a, finish) EXCEPT !.stop = finish]

MessageStart(finish, usage) ==
  /\ ans.api = "messages" /\ Reading /\ ans.srv.end = "" /\ MayReport(usage)
  /\ LET seen == Observe(Reported(ans, usage), usage, FALSE)
     IN ans' = IF usage = "bad" THEN Fails(seen, {}) ELSE StopsWith(seen, finish)
BlockText ==
  /\ ans.api = "messages" /\ Reading /\ MoreText
  /\ ans' = IF TextBlock \notin ans.open THEN Fails(Ended(ans, "failed"), {}) ELSE Hear(Say(ans))
\* content_block_start; an index that is taken is an error of the server.
BlockStart(b) ==
  /\ ans.api = "messages" /\ Reading /\ ans.srv.end = ""
  /\ ans' = IF b \in ans.open THEN Fails(Ended(ans, "failed"), {})
            ELSE IF b = TextBlock THEN [ans EXCEPT !.open = @ \cup {b}]
            ELSE [ans EXCEPT !.open = @ \cup {b}, !.srv.calls[b] = 1,
                             !.calls = Merge(@, b, b)]
BlockDelta(b) ==
  /\ ans.api = "messages" /\ Reading /\ MoreCall(b)
  /\ ans' = IF b \notin ans.open THEN Fails(Ended(ans, "failed"), {})
            ELSE [ans EXCEPT !.srv.calls[b] = @ + 1, !.calls = Merge(@, b, b)]
BlockStop(b) ==
  /\ ans.api = "messages" /\ Reading /\ b \notin ans.closed /\ ans.srv.end = ""
  /\ ans' = IF b \notin ans.open THEN Fails(Ended(ans, "failed"), {})
            ELSE [ans EXCEPT !.closed = @ \cup {b}]
\* message_delta, with a stop reason or only with usage, which then is not that of
\* the end.
MessageDelta(finish, usage) ==
  /\ ans.api = "messages" /\ Reading /\ MayReport(usage)
  /\ LET sent == [Reported(ans, usage) EXCEPT !.srv.atEnd = IF usage = "ok" THEN finish # "" ELSE @]
         seen == Observe(sent, usage, finish # "")
     IN ans' = IF usage = "bad" THEN Fails(seen, {}) ELSE StopsWith(seen, finish)

\* Mutant: an answer is complete once its stream says so.
MessageStopAnyway ==
  /\ ans.api = "messages" /\ Reading
  /\ ans' = Conclude(ans, IF ans.stop = "" THEN "stop" ELSE ans.stop)
MessageStop ==
  /\ ans.api = "messages" /\ Reading
  /\ ans' = IF ans.stop = "" THEN Fails(ans, {}) ELSE Conclude(ans, ans.stop)

-----------------------------------------------------------------------------
(* Google: parts are whole, and a chunk may come after the finish reason. *)

Finished == ans.stop # ""

\* Mutant: what comes after the finish reason is taken as well.
TakenLate(a) == TRUE
Taken(a) == a.stop = ""

\* A call in one part; `cut' is one whose arguments would go on.
GoogleCall(c, cut) ==
  /\ ans.api = "google" /\ Reading /\ ans.srv.calls[c] = 0
  /\ \A d \in Slots : d < c => ans.srv.calls[d] > 0
  /\ LET late == ans.srv.end # ""
         sent == IF late \/ cut THEN Ended(ans, "failed") ELSE ans
     IN ans' = IF ~Taken(ans) \/ cut THEN Fails(sent, {})
               ELSE [sent EXCEPT !.srv.calls[c] = IF late THEN 0 ELSE Whole,
                                 !.calls = Append(@, [id |-> c, size |-> Whole])]

\* A chunk with a finish reason.  A failed generation is kept for the end.
GoogleFinish(finish, usage) ==
  /\ ans.api = "google" /\ Reading /\ MayReport(usage)
  /\ LET sent == Reported(Ended(ans, IF Finished THEN "failed" ELSE finish), usage)
         seen == Observe(sent, usage, TRUE)
     IN ans' = IF usage = "bad" \/ Finished THEN Fails(seen, {})
               ELSE [seen EXCEPT !.stop = finish, !.draining = TRUE]
\* A chunk that says the prompt is blocked (content_filter, of the class of
\* "length"), also after a finish reason; a failed generation stays one.
GoogleBlocked(usage) ==
  /\ ans.api = "google" /\ Reading /\ MayReport(usage)
  /\ LET failed == ans.stop \in {"odd", "failed"}
         sent == Reported(IF failed THEN ans ELSE Ended(ans, "length"), usage)
         seen == Observe(sent, usage, TRUE)
     IN ans' = IF usage = "bad" THEN Fails(seen, {})
               ELSE [seen EXCEPT !.stop = IF failed THEN @ ELSE "length", !.draining = TRUE]
\* A chunk without candidates; its usage is final once the answer is complete.
GoogleService(usage, error) ==
  /\ ans.api = "google" /\ Reading /\ MayReport(usage)
  /\ LET sent == Reported(IF error THEN Ended(ans, "failed") ELSE ans, usage)
         seen == Observe(sent, usage, Finished)
     IN ans' = IF usage = "bad" \/ error THEN Fails(seen, {}) ELSE seen

GoogleEnds(a) ==
  IF a.stop \in {"", "failed"} THEN Fails(a, {}) ELSE Conclude(a, a.stop)

-----------------------------------------------------------------------------
(* Events of every protocol. *)

\* An event that reports an error, outside of the chunks above.
ErrorEvent ==
  /\ ans.api \in {"responses", "messages"} /\ Reading
  /\ ans' = Fails(Ended(ans, "failed"), {})
\* An event that is no JSON of the protocol.
Garbled == Reading /\ ans' = Fails([ans EXCEPT !.srv.wrong = TRUE], {})

\* The stream ends; only two protocols take that for the end of an answer.
StreamEnds(done) ==
  /\ Reading
  /\ LET a == IF done /\ ans.srv.end = "" /\ ans.api = "chat" THEN Ended(ans, "stop") ELSE ans
     IN ans' = CASE a.api = "chat" -> ChatEnds(a, done)
                 [] a.api = "google" -> GoogleEnds(a)
                 [] OTHER -> Fails([a EXCEPT !.srv.wrong = TRUE], {})
\* The drain is over.
Drained ==
  /\ Reading /\ ans.draining
  /\ ans' = IF ans.api = "chat" THEN ChatEnds(ans, FALSE) ELSE GoogleEnds(ans)
\* A read fails, the stream is idle, or the caller's context ends.
ReadFails == Reading /\ ans' = Fails([ans EXCEPT !.srv.wrong = TRUE], {})
\* An event, or the answer, is larger than the limits: what came is returned.
TooLarge ==
  /\ Reading
  /\ ans' = IF ans.api = "google" /\ ans.stop \in {"odd", "failed"} THEN Fails(ans, {})
            ELSE IF ans.api = "responses" THEN Returns(ans, "limit", <<>>)
            ELSE Conclude(ans, "limit")

Report == {"none", "ok", "bad"}
Finish == {"stop", "length", "odd", "failed"}

ChatNext ==
  \/ \E c \in Slots : ChatCall(c)
  \/ \E finish \in Finish, usage \in Report, error \in BOOLEAN : ChatFinish(finish, usage, error)
  \/ \E usage \in Report, error \in BOOLEAN : ChatService(usage, error)
ResponsesNext ==
  \/ Delta
  \/ \E c \in Slots : ResponsesCall(c)
  \/ \E c \in {TextBlock} \cup Slots : ItemDone(c)
  \/ \E usage \in Report : Progress(usage)
  \/ \E status \in {"stop", "length", "odd", "failed"}, carried \in {"", "stop", "length"},
        full \in BOOLEAN, usage \in Report : Terminal(status, carried, full, usage)
MessagesNext ==
  \/ BlockText \/ MessageStop
  \/ \E finish \in {"", "stop", "length", "odd"}, usage \in Report :
       MessageStart(finish, usage) \/ MessageDelta(finish, usage)
  \/ \E b \in {TextBlock} \cup Slots : BlockStart(b)
  \/ \E b \in Slots : BlockDelta(b)
  \/ \E b \in {TextBlock} \cup Slots : BlockStop(b)
GoogleNext ==
  \/ \E c \in Slots, cut \in BOOLEAN : GoogleCall(c, cut)
  \/ \E finish \in Finish, usage \in Report : GoogleFinish(finish, usage)
  \/ \E usage \in Report : GoogleBlocked(usage)
  \/ \E usage \in Report, error \in BOOLEAN : GoogleService(usage, error)

Next ==
  \/ Build \/ Post \/ Text
  \/ ChatNext \/ ResponsesNext \/ MessagesNext \/ GoogleNext
  \/ ErrorEvent \/ Garbled \/ Drained \/ ReadFails \/ TooLarge
  \/ \E done \in BOOLEAN : StreamEnds(done)

-----------------------------------------------------------------------------
Ok == ans.reply.kind = "ok"
Failed == ans.reply.kind = "error"

\* The calls the server made, in their order, each whole.
Made == SelectSeq([c \in Slots |-> [id |-> c, size |-> ans.srv.calls[c]]],
                  LAMBDA call : call.size > 0)

\* An answer is complete only if the server said it is, without an error, and
\* then has all of its text and exactly its calls (Complete of the adapters).
CompleteIsWhole ==
  Ok /\ ans.reply.stop \notin Incomplete =>
    /\ ans.srv.end = "stop" /\ ~ans.srv.wrong
    /\ ans.reply.text = ans.srv.text /\ ans.reply.calls = Made
    /\ \A k \in 1..Len(ans.reply.calls) : ans.reply.calls[k].size = Whole

\* An answer that was cut has no calls, and its text is the server's, or what was
\* shown if it was cut on this side.
CutHasNoCalls ==
  Ok => /\ ans.reply.stop \in Incomplete => ans.reply.calls = <<>>
        /\ ans.reply.stop = "length" => ans.srv.end = "length"
        /\ ans.reply.text = IF ans.reply.stop = "limit" THEN ans.told ELSE ans.srv.text

\* The last valid report is returned with answers and errors alike, and one
\* that came with the end of the answer or after it is final.
UsageIsKept ==
  ans.phase = "done" =>
    /\ ans.usage.report = ans.srv.reports
    /\ (ans.usage.status = "unavailable") <=> (ans.srv.reports = 0)
    /\ ans.srv.reports > 0 /\ ans.srv.atEnd /\ Ok => ans.usage.status = "final"

\* A failure says whether the request can have reached the server, and is of
\* the server unless the request was invalid.
FailureIsClassed ==
  Failed => /\ "notsent" \in ans.reply.marks => ~ans.srv.got
            /\ ans.srv.got => "provider" \in ans.reply.marks
            /\ "notsent" \notin ans.reply.marks => ans.reply.marks = {"provider"}
            /\ ~({"invalid", "provider"} \subseteq ans.reply.marks)

\* An answer that the server ended, and that came whole, is returned.
WholeIsReturned ==
  Failed /\ ans.srv.end = "stop" /\ ~ans.srv.wrong =>
    \/ \E c \in Slots : ans.srv.calls[c] \notin {0, Whole}
    \/ ans.srv.text = 0 /\ Made = <<>>
    \/ ans.open \ ans.closed # {}

CompletionsAreSound ==
  /\ CompleteIsWhole /\ CutHasNoCalls /\ WholeIsReturned
  /\ UsageIsKept /\ FailureIsClassed
=============================================================================
