--------------------------- MODULE SessionReducer ---------------------------
(***************************************************************************)
(* The fold that turns the records of a session journal into the state of *)
(* the session (agent/reducer.go).  The same transition function serves   *)
(* replay, when a journal is opened, and a live run, after every append.  *)
(*                                                                         *)
(* A record is a TLA+ record with a `kind' field.  Identifiers the program *)
(* draws at random (runs, calls, epochs) are natural numbers that are      *)
(* never handed out twice.  An optional value is a set with at most one    *)
(* element.  The sequence number of a record is its position in the        *)
(* journal, so that the reducer's check on it holds by construction and is *)
(* left out.  Texts, usage, time and images are left out.                  *)
(***************************************************************************)
EXTENDS Naturals

CONSTANTS
  Models,      \* identities of a model: backend, provider, name, effort
  Endpoints,   \* public endpoints a model can be served from
  ToolSets,    \* sets of tools a request can offer
  Scopes,      \* filesystem scopes
  Jobs         \* identities of background jobs

ModelInfo == [model : Models, endpoint : Endpoints]

\* What EffectiveConfigSnapshot records of a model are its limits and its
\* endpoint, never its name.
Snapshot == [limits : Models, endpoint : Endpoints,
             tools : ToolSets, scope : Scopes]

RunStatus == {"completed", "incomplete", "failed", "cancelled", "interrupted"}

PendingTool == [run : Nat, call : Nat]

Record ==
  [kind : {"session_started"}]
    \cup [kind : {"model_selected"}, info : ModelInfo, epoch : Nat]
    \cup [kind : {"session_configured"}, config : Snapshot]
    \cup [kind : {"run_started"}, run : Nat]
    \cup [kind : {"run_input_added"}, run : Nat, input : Nat]
    \cup [kind : {"model_response"}, run : Nat, model : Models, epoch : Nat,
          calls : SUBSET Nat]
    \cup [kind : {"tool_result"}, run : Nat, call : Nat, tells : SUBSET Jobs]
    \cup [kind : {"boundary_event"}, run : Nat, tells : SUBSET Jobs]
    \cup [kind : {"run_finished"}, run : Nat, status : RunStatus,
          observed : BOOLEAN, detached : SUBSET Jobs]

\* `ok' is FALSE once a record was refused: Replay returns an error and the
\* session cannot be opened.
State == [ok : BOOLEAN, session : BOOLEAN, epoch : Nat,
          selection : SUBSET ModelInfo, configured : SUBSET Snapshot,
          runs : SUBSET Nat, blocks : SUBSET Nat, pending : SUBSET PendingTool,
          delivered : SUBSET Jobs, detached : SUBSET Jobs]

NewState == [ok |-> TRUE, session |-> FALSE, epoch |-> 0,
             selection |-> {}, configured |-> {},
             runs |-> {}, blocks |-> {}, pending |-> {},
             delivered |-> {}, detached |-> {}]

HasUnfinishedWork(st) == st.runs # {} \/ st.pending # {}

Refuse(st) == [st EXCEPT !.ok = FALSE]

ApplySessionStarted(st, r) ==
  IF st.session THEN Refuse(st) ELSE [st EXCEPT !.session = TRUE]

ApplyModelSelected(st, r) ==
  IF ~st.session \/ st.pending # {} \/ r.epoch = st.epoch
  THEN Refuse(st)
  ELSE [st EXCEPT !.epoch = r.epoch, !.selection = {r.info},
                  !.configured = {}]

\* The endpoint of the selection becomes the one of the configuration.
ApplySessionConfigured(st, r) ==
  IF ~st.session \/ st.epoch = 0
  THEN Refuse(st)
  ELSE [st EXCEPT
         !.configured = {r.config},
         !.selection = {[s EXCEPT !.endpoint = r.config.endpoint] :
                          s \in st.selection}]

ApplyRunStarted(st, r) ==
  IF ~st.session \/ st.epoch = 0 \/ r.run \in st.runs
  THEN Refuse(st)
  ELSE [st EXCEPT !.runs = @ \cup {r.run}]

ApplyRunInputAdded(st, r) ==
  IF r.run \notin st.runs
  THEN Refuse(st)
  ELSE [st EXCEPT !.blocks = @ \cup {r.run}]

ApplyModelResponse(st, r) ==
  IF \/ r.run \notin st.runs
     \/ r.epoch # st.epoch
     \/ \E s \in st.selection : s.model # r.model
     \/ r.run \notin st.blocks
     \/ \E p \in st.pending : p.call \in r.calls
  THEN Refuse(st)
  ELSE [st EXCEPT !.pending =
          @ \cup {[run |-> r.run, call |-> c] : c \in r.calls}]

ApplyToolResult(st, r) ==
  IF \/ [run |-> r.run, call |-> r.call] \notin st.pending
     \/ r.run \notin st.blocks
  THEN Refuse(st)
  ELSE [st EXCEPT !.pending = @ \ {[run |-> r.run, call |-> r.call]}]

ApplyBoundaryEvent(st, r) ==
  IF \/ r.run \notin st.runs
     \/ r.tells \cap st.delivered # {}
     \/ r.run \notin st.blocks
  THEN Refuse(st)
  ELSE [st EXCEPT !.delivered = @ \cup r.tells, !.detached = @ \ r.tells]

\* A finish that did not look at the jobs leaves the known set as it was.
ApplyRunFinished(st, r) ==
  IF r.run \notin st.runs \/ \E p \in st.pending : p.run = r.run
  THEN Refuse(st)
  ELSE [st EXCEPT !.runs = @ \ {r.run}, !.blocks = @ \ {r.run},
                  !.detached = IF r.observed THEN r.detached ELSE @]

\* stateReducer.apply: the first record must start the session.
Apply(st, r) ==
  IF ~st.ok \/ (~st.session /\ r.kind # "session_started")
  THEN Refuse(st)
  ELSE CASE r.kind = "session_started"    -> ApplySessionStarted(st, r)
         [] r.kind = "model_selected"     -> ApplyModelSelected(st, r)
         [] r.kind = "session_configured" -> ApplySessionConfigured(st, r)
         [] r.kind = "run_started"        -> ApplyRunStarted(st, r)
         [] r.kind = "run_input_added"    -> ApplyRunInputAdded(st, r)
         [] r.kind = "model_response"     -> ApplyModelResponse(st, r)
         [] r.kind = "tool_result"        -> ApplyToolResult(st, r)
         [] r.kind = "boundary_event"     -> ApplyBoundaryEvent(st, r)
         [] r.kind = "run_finished"       -> ApplyRunFinished(st, r)
=============================================================================
