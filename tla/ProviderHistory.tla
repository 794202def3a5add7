--------------------------- MODULE ProviderHistory ---------------------------
(***************************************************************************)
(* What a request replays of a conversation (src/model/context.go and the  *)
(* request builders of the four adapters): text, calls and results under   *)
(* ids the provider knows, and the opaque state of the model now selected, *)
(* but of no other, across changes of the model and of the history.        *)
(***************************************************************************)
EXTENDS Naturals, Sequences

CONSTANTS MaxResponses, \* answers a conversation has
          MaxEpochs,    \* selections of a model
          MaxInputs     \* inputs of the user

VARIABLE conv

Api == {"chat", "responses", "messages", "google"}
\* Chat routes differ in which reasoning they take back.
Policy == {"none", "turn", "all"}
NoOwner == [api |-> "none", policy |-> "none", epoch |-> 0]
Answer == {"text", "reason", "call"}   \* kinds of a model's own items
Kind == Answer \cup {"user", "boundary", "result"}

Owner == [api : Api \cup {"none"}, policy : Policy, epoch : 0..MaxEpochs]
ItemType == [kind : Kind, resp : 0..MaxResponses, call : 0..2 * MaxResponses,
             ref : 0..2, owner : Owner,
             opaque : BOOLEAN, edited : BOOLEAN]
Item(kind) == [kind |-> kind, resp |-> 0, call |-> 0, ref |-> 0, owner |-> NoOwner,
               opaque |-> FALSE, edited |-> FALSE]

HistoryTypeOK ==
  /\ conv.owner \in Owner
  /\ conv.items \in Seq(ItemType) /\ conv.responses \in 0..MaxResponses
  /\ conv.phase \in {"idle", "request", "answer", "results"} /\ conv.inputs \in 0..MaxInputs

Init == conv = [owner |-> NoOwner, items |-> <<>>, responses |-> 0,
                phase |-> "idle", inputs |-> 0]

\* ReplayContext.ForModel: another model begins an epoch, also when it had one.
ForModel(owner, api, policy) ==
  IF owner.api = api /\ owner.policy = policy THEN owner
  ELSE [api |-> api, policy |-> policy, epoch |-> owner.epoch + 1]

Select(api, policy) ==
  /\ conv.phase = "idle" /\ (api # "chat" => policy = "all")
  /\ ForModel(conv.owner, api, policy).epoch <= MaxEpochs
  /\ conv' = [conv EXCEPT !.owner = ForModel(@, api, policy)]

-----------------------------------------------------------------------------
(* The request. *)

LastUser(items) ==
  IF \E k \in 1..Len(items) : items[k].kind = "user"
  THEN CHOOSE k \in 1..Len(items) : /\ items[k].kind = "user"
                                    /\ \A j \in k + 1..Len(items) : items[j].kind # "user"
  ELSE 0

\* Mutant: reasoning is kept by its backend, whatever the epoch.
OwnedByApi(item, owner) == item.owner.api = owner.api
Owned(item, owner) == item.owner = owner

\* Mutant: a call keeps the id it got from any provider.
CallIdAny(item, owner) ==
  IF item.ref # 0 THEN [of |-> item.owner, resp |-> item.resp, n |-> item.ref]
  ELSE [of |-> NoOwner, resp |-> 0, n |-> item.call]
\* providerCallID: the provider's own id where it is this provider's.
CallId(item, owner) ==
  IF item.ref # 0 /\ Owned(item, owner) THEN [of |-> item.owner, resp |-> item.resp, n |-> item.ref]
  ELSE [of |-> NoOwner, resp |-> 0, n |-> item.call]

\* Reasoning a route takes back (ProjectItems, ProjectModelItems); it needs an
\* opaque state but for chat routes, which take its text.
Replayed(items, k, owner) ==
  /\ items[k].kind = "reason" /\ Owned(items[k], owner)
  /\ IF owner.api = "chat" THEN owner.policy = "all" \/ (owner.policy = "turn" /\ k > LastUser(items))
     ELSE items[k].opaque

\* partsMatchItems: a signed answer is sent back only as it is shown.
PartsMatch(items, resp) == \A k \in 1..Len(items) : items[k].resp = resp => ~items[k].edited
\* A response of Google is sent as it was signed, or imported without.
Signed(items, resp, owner) ==
  /\ owner.api = "google" /\ PartsMatch(items, resp)
  /\ \E k \in 1..Len(items) : /\ items[k].resp = resp /\ items[k].kind = "reason"
                              /\ items[k].opaque /\ Owned(items[k], owner)

Role(item, api) ==
  CASE item.kind \in Answer -> "assistant"
    [] item.kind = "result" -> IF api = "chat" THEN "tool" ELSE "user"
    [] item.kind = "boundary" -> IF api \in {"chat", "responses"} THEN "system" ELSE "user"
    [] OTHER -> "user"

\* Mutant: a result is sent under the id of its own call record.
ResultIdLocal(items, k, owner) == [of |-> NoOwner, resp |-> 0, n |-> items[k].call]
\* A result goes under the id its call was sent with (callIDs of the builders).
ResultId(items, k, owner) ==
  IF \E j \in 1..k - 1 : items[j].kind = "call" /\ items[j].call = items[k].call
  THEN CallId(items[CHOOSE j \in 1..k - 1 : items[j].kind = "call" /\ items[j].call = items[k].call],
              owner)
  ELSE [of |-> NoOwner, resp |-> 0, n |-> items[k].call]

Block(items, k, owner) ==
  LET item == items[k] IN
  [item |-> k, kind |-> item.kind,
   id |-> CASE item.kind = "call" -> CallId(item, owner)
            [] item.kind = "result" -> ResultId(items, k, owner)
            [] OTHER -> [of |-> NoOwner, resp |-> 0, n |-> 0],
   original |-> item.resp # 0 /\ Signed(items, item.resp, owner)]

\* Mutant: the results of tools and the words of a user share a message.
JoinsAll(owner, last, items, k) == last.role = Role(items[k], owner.api)
\* Which items share a message: those of an answer (chat), of a role (messages),
\* of a role and not results with text (google), none (responses).
Joins(owner, last, items, k) ==
  LET before == items[last.blocks[Len(last.blocks)].item]
      role == Role(items[k], owner.api)
  IN CASE owner.api = "chat" -> role = "assistant" /\ before.resp = items[k].resp
       [] owner.api = "messages" -> last.role = role
       [] owner.api = "google" -> /\ last.role = role
                                  /\ (before.kind = "result") = (items[k].kind = "result")
       [] OTHER -> FALSE

\* The builders: reasoning that may not be replayed is left out.
Kept(items, owner) ==
  SelectSeq([k \in 1..Len(items) |-> k],
            LAMBDA k : items[k].kind # "reason" \/ Replayed(items, k, owner))

Build(items, owner) ==
  LET kept == Kept(items, owner)
      messages[n \in 0..Len(kept)] ==
        IF n = 0 THEN <<>>
        ELSE LET before == messages[n - 1]
                 m == Len(before)
                 block == Block(items, kept[n], owner)
             IN IF m > 0 /\ Joins(owner, before[m], items, kept[n])
                THEN [before EXCEPT ![m].blocks = Append(@, block)]
                ELSE Append(before, [role |-> Role(items[kept[n]], owner.api), blocks |-> <<block>>])
  IN messages[Len(kept)]

\* The user speaks; MaxInputs bounds how often.
Speak ==
  /\ conv.phase = "idle" /\ conv.owner.epoch # 0 /\ conv.responses < MaxResponses
  /\ conv.inputs < MaxInputs
  /\ conv' = [conv EXCEPT !.items = Append(@, Item("user")), !.phase = "request", !.inputs = @ + 1]

\* A request is built and sent.
Request ==
  /\ conv.phase = "request"
  /\ conv' = [conv EXCEPT !.phase = IF conv.responses < MaxResponses THEN "answer" ELSE "idle"]

-----------------------------------------------------------------------------
(* The answer. *)

\* Mutant: the signed state of an answer is kept although the answer changed.
ReconcileNothing(items) == items
\* sanitizeModelResponse: redaction may change an answer; Google's signed copy
\* of it is then given up, and its item when it has nothing else.
Reconcile(items) ==
  IF conv.owner.api = "google" /\ \E k \in 1..Len(items) : items[k].edited
  THEN SelectSeq(items, LAMBDA item : item.kind # "reason") ELSE items

\* AcceptResponse: an answer's items get this epoch's owner and local ids.
Accepted(thought, text, calls, refs, edited) ==
  LET resp == conv.responses + 1
      own(kind) == [Item(kind) EXCEPT !.resp = resp, !.edited = edited /\ kind # "reason"]
  IN (IF thought THEN <<[own("reason") EXCEPT !.owner = conv.owner, !.opaque = conv.owner.api # "chat"]>>
      ELSE <<>>)
     \o (IF text THEN <<own("text")>> ELSE <<>>)
     \o [c \in 1..calls |-> [own("call") EXCEPT !.call = 2 * (resp - 1) + c,
                               !.ref = IF refs THEN c ELSE 0,
                               !.owner = IF refs THEN conv.owner ELSE NoOwner]]

Answered(thought, text, calls, refs, edited) ==
  /\ conv.phase = "answer" /\ (text \/ calls > 0) /\ (thought => text) /\ (refs => calls > 0)
  /\ conv.owner.api \in {"responses", "messages"} /\ calls > 0 => refs
  /\ edited => conv.owner.api = "google"   \* no other adapter looks at redactions
  /\ conv' = [conv EXCEPT !.responses = @ + 1,
                !.items = @ \o Reconcile(Accepted(thought, text, calls, refs, edited)),
                !.phase = IF calls > 0 THEN "results" ELSE "idle"]

\* The results, in the order of the calls; then the run may say something at the
\* boundary, and asks again.
Results(boundary) ==
  /\ conv.phase = "results"
  /\ LET calls == SelectSeq(conv.items, LAMBDA item : item.kind = "call" /\ item.resp = conv.responses)
     IN conv' = [conv EXCEPT !.phase = "request",
                   !.items = @ \o [c \in 1..Len(calls) |-> [Item("result") EXCEPT !.call = calls[c].call]]
                               \o IF boundary THEN <<Item("boundary")>> ELSE <<>>]

\* The run is over, or was cut off: results stand in for calls (Reconcile).
Stops ==
  /\ conv.phase \in {"request", "answer"}
  /\ conv' = [conv EXCEPT !.phase = "idle"]

\* Compaction leaves a tail that begins where no call is open.
Trim(n) ==
  /\ conv.phase = "idle" /\ n \in 1..Len(conv.items) - 1 /\ conv.responses < MaxResponses
  /\ \A k \in n + 1..Len(conv.items) : \A j \in 1..n :
       /\ conv.items[k].kind = "result" => conv.items[j].call # conv.items[k].call
       /\ conv.items[k].resp # 0 => conv.items[j].resp # conv.items[k].resp
  /\ conv' = [conv EXCEPT !.items = SubSeq(@, n + 1, Len(@))]

Next ==
  \/ \E api \in Api, policy \in Policy : Select(api, policy)
  \/ Speak \/ Request \/ Stops
  \/ \E thought, text, refs, edited \in BOOLEAN, calls \in {0, 2} :
       Answered(thought, text, calls, refs, edited)
  \/ \E boundary \in BOOLEAN : Results(boundary)
  \/ \E n \in 1..Len(conv.items) : Trim(n)

-----------------------------------------------------------------------------
\* The blocks of a request, in their order.
Blocks(messages) ==
  LET all[m \in 0..Len(messages)] == IF m = 0 THEN <<>> ELSE all[m - 1] \o messages[m].blocks
  IN all[Len(messages)]

\* Every result follows the call it answers, under one id (the callIDs of the
\* builders).
ResultsArePaired(sent) ==
  \A j \in 1..Len(sent) : sent[j].kind = "result" =>
    \E i \in 1..j - 1 :
      /\ sent[i].kind = "call" /\ sent[i].id = sent[j].id
      /\ conv.items[sent[i].item].call = conv.items[sent[j].item].call

\* State and ids a provider gave go to the selection they came from only
\* (ProjectItems).
StateStaysAtHome(sent) ==
  \A j \in 1..Len(sent) :
    /\ sent[j].kind = "reason" => conv.items[sent[j].item].owner = conv.owner
    /\ sent[j].id.of \in {NoOwner, conv.owner}

\* What the user sees is what is sent, in that order; nothing that a redaction
\* took out is sent again (ReconcileResponseState, partsMatchItems).
ShownIsSent(sent) ==
  LET Shown(k) == conv.items[k].kind # "reason"
  IN /\ SelectSeq([j \in 1..Len(sent) |-> sent[j].item], Shown)
        = SelectSeq([k \in 1..Len(conv.items) |-> k], Shown)
     /\ \A j \in 1..Len(sent) : sent[j].original => ~conv.items[sent[j].item].edited

\* Messages have the roles their protocol asks for (appendBlocks, appendContent).
RolesAreSound(messages) ==
  \A m \in 1..Len(messages) :
    LET blocks == messages[m].blocks IN
    /\ conv.owner.api = "messages" /\ m > 1 => messages[m].role # messages[m - 1].role
    /\ conv.owner.api = "google" =>
         \A i, j \in 1..Len(blocks) : (blocks[i].kind = "result") = (blocks[j].kind = "result")
    /\ conv.owner.api = "chat" =>
         \A i, j \in 1..Len(blocks) : conv.items[blocks[i].item].resp = conv.items[blocks[j].item].resp

\* The opaque reasoning of this selection goes back with what it belongs to.
OwnStateReturns(sent) ==
  conv.owner.api # "chat" =>
    \A k \in 1..Len(conv.items) :
      conv.items[k].kind = "reason" /\ conv.items[k].owner = conv.owner =>
        \E j \in 1..Len(sent) : sent[j].item = k

\* The journal keeps no signed copy of what a redaction took out.
CopiesAreRedacted ==
  \A j, k \in 1..Len(conv.items) :
    conv.items[j].resp = conv.items[k].resp /\ conv.items[j].edited
      /\ conv.items[k].owner.api = "google" => ~conv.items[k].opaque

HistoryIsSound ==
  /\ CopiesAreRedacted
  /\ conv.phase = "request" =>
       LET messages == Build(conv.items, conv.owner)
           sent == Blocks(messages)
       IN /\ ResultsArePaired(sent) /\ StateStaysAtHome(sent) /\ ShownIsSent(sent)
          /\ RolesAreSound(messages) /\ OwnStateReturns(sent)
=============================================================================
