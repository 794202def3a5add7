------------------------- MODULE AgentRuntimeProofs -------------------------
(***************************************************************************)
(* The safety of AgentRuntime for every number of models, endpoints,       *)
(* tools, scopes and jobs and every budget.  First, every step keeps       *)
(* TypeOK; the one fact it needs beyond types is that a response is        *)
(* recorded under a selected model.  Then the invariant Consistent, which  *)
(* says for each step an operation may be about to take what the journal   *)
(* looks like then, so that the record it appends fits.                    *)
(***************************************************************************)
EXTENDS SessionProperties, TLAPS

-----------------------------------------------------------------------------
(* The fold of SessionReducer stays within State, and a record that fits   *)
(* the state it is applied to is accepted and keeps the state sound.       *)

\* A refused record leaves a state.
LEMMA RefuseType ==
  ASSUME NEW st \in State
  PROVE  Refuse(st) \in State
BY DEF Refuse, State

\* The reducer maps a state and a record to a state.
LEMMA ApplyType ==
  ASSUME NEW st \in State, NEW r \in Record
  PROVE  Apply(st, r) \in State
<1>1. CASE r \in [kind : {"session_started"}]
  BY <1>1, RefuseType DEF Apply, ApplySessionStarted, State
<1>2. CASE r \in [kind : {"model_selected"}, info : ModelInfo, epoch : Nat]
  BY <1>2, RefuseType DEF Apply, ApplyModelSelected, State
<1>3. CASE r \in [kind : {"session_configured"}, config : Snapshot]
  <2>1. {[s EXCEPT !.endpoint = r.config.endpoint] : s \in st.selection}
          \in SUBSET ModelInfo
    BY <1>3 DEF State, ModelInfo, Snapshot
  <2>2. QED  BY <1>3, <2>1, RefuseType DEF Apply, ApplySessionConfigured, State
<1>4. CASE r \in [kind : {"run_started"}, run : Nat]
  BY <1>4, RefuseType DEF Apply, ApplyRunStarted, State
<1>5. CASE r \in [kind : {"run_input_added"}, run : Nat, input : Nat]
  BY <1>5, RefuseType DEF Apply, ApplyRunInputAdded, State
<1>6. CASE r \in [kind : {"model_response"}, run : Nat, model : Models,
                  epoch : Nat, calls : SUBSET Nat]
  <2>1. {[run |-> r.run, call |-> c] : c \in r.calls} \in SUBSET PendingTool
    BY <1>6 DEF PendingTool
  <2>2. QED  BY <1>6, <2>1, RefuseType DEF Apply, ApplyModelResponse, State
<1>7. CASE r \in [kind : {"tool_result"}, run : Nat, call : Nat,
                  tells : SUBSET Jobs]
  BY <1>7, RefuseType DEF Apply, ApplyToolResult, State
<1>8. CASE r \in [kind : {"boundary_event"}, run : Nat, tells : SUBSET Jobs]
  BY <1>8, RefuseType DEF Apply, ApplyBoundaryEvent, State
<1>9. CASE r \in [kind : {"run_finished"}, run : Nat, status : RunStatus,
                  observed : BOOLEAN, detached : SUBSET Jobs]
  BY <1>9, RefuseType DEF Apply, ApplyRunFinished, State
<1>10. QED  BY <1>1, <1>2, <1>3, <1>4, <1>5, <1>6, <1>7, <1>8, <1>9 DEF Record

-----------------------------------------------------------------------------
(* Soundness of a state.                                                   *)

\* What holds of every state the runtime reaches: nothing was refused, inputs
\* and calls belong to a run, one run at most is open, and it has a model.
Sound(st) ==
  /\ st.ok
  /\ st.blocks \subseteq st.runs
  /\ \A p \in st.pending : p.run \in st.blocks
  /\ \A r, q \in st.runs : r = q
  /\ st.runs # {} => st.epoch # 0
  /\ st.epoch # 0 => st.session /\ \E info \in ModelInfo : st.selection = {info}

\* A record that fits a sound state.
Fits(st, r) ==
  /\ r.kind = "session_started" => ~st.session
  /\ r.kind # "session_started" => st.session
  /\ r.kind = "model_selected" =>
       st.pending = {} /\ r.epoch # st.epoch /\ r.epoch # 0
  /\ r.kind \in {"session_configured", "run_started"} => st.epoch # 0
  /\ r.kind = "run_started" => st.runs = {}
  /\ r.kind = "run_input_added" => r.run \in st.runs
  /\ r.kind = "model_response" =>
       /\ r.run \in st.blocks
       /\ r.epoch = st.epoch
       /\ \A s \in st.selection : s.model = r.model
       /\ \A p \in st.pending : p.call \notin r.calls
  /\ r.kind = "tool_result" =>
       /\ [run |-> r.run, call |-> r.call] \in st.pending
       /\ r.run \in st.blocks
  /\ r.kind = "boundary_event" =>
       r.run \in st.blocks /\ r.tells \cap st.delivered = {}
  /\ r.kind = "run_finished" =>
       r.run \in st.runs /\ \A p \in st.pending : p.run # r.run

\* What the fold makes of a record that fits.
LEMMA FitsApplied ==
  ASSUME NEW st \in State, NEW r \in Record, Sound(st), Fits(st, r)
  PROVE  /\ r.kind = "session_started" =>
              Apply(st, r) = [st EXCEPT !.session = TRUE]
         /\ r.kind = "model_selected" =>
              Apply(st, r) = [st EXCEPT !.epoch = r.epoch, !.selection = {r.info},
                                        !.configured = {}]
         /\ r.kind = "session_configured" =>
              Apply(st, r) =
                [st EXCEPT
                  !.configured = {r.config},
                  !.selection = {[s EXCEPT !.endpoint = r.config.endpoint] :
                                   s \in st.selection}]
         /\ r.kind = "run_started" =>
              Apply(st, r) = [st EXCEPT !.runs = @ \cup {r.run}]
         /\ r.kind = "run_input_added" =>
              Apply(st, r) = [st EXCEPT !.blocks = @ \cup {r.run}]
         /\ r.kind = "model_response" =>
              Apply(st, r) = [st EXCEPT !.pending =
                @ \cup {[run |-> r.run, call |-> c] : c \in r.calls}]
         /\ r.kind = "tool_result" =>
              Apply(st, r) = [st EXCEPT !.pending =
                @ \ {[run |-> r.run, call |-> r.call]}]
         /\ r.kind = "boundary_event" =>
              Apply(st, r) = [st EXCEPT !.delivered = @ \cup r.tells,
                                        !.detached = @ \ r.tells]
         /\ r.kind = "run_finished" =>
              Apply(st, r) =
                [st EXCEPT !.runs = @ \ {r.run}, !.blocks = @ \ {r.run},
                           !.detached = IF r.observed THEN r.detached ELSE @]
<1>1. st.ok /\ st.blocks \subseteq st.runs
  BY DEF Sound
<1>2. ~(~st.ok \/ (~st.session /\ r.kind # "session_started"))
  BY <1>1 DEF Fits
<1>3. CASE r.kind = "session_started"
  BY <1>2, <1>3 DEF Fits, Apply, ApplySessionStarted
<1>4. CASE r.kind = "model_selected"
  BY <1>2, <1>4 DEF Fits, Apply, ApplyModelSelected
<1>5. CASE r.kind = "session_configured"
  BY <1>2, <1>5 DEF Fits, Apply, ApplySessionConfigured
<1>6. CASE r.kind = "run_started"
  BY <1>2, <1>6 DEF Fits, Apply, ApplyRunStarted
<1>7. CASE r.kind = "run_input_added"
  BY <1>2, <1>7 DEF Fits, Apply, ApplyRunInputAdded
<1>8. CASE r.kind = "model_response"
  BY <1>1, <1>2, <1>8 DEF Fits, Apply, ApplyModelResponse
<1>9. CASE r.kind = "tool_result"
  BY <1>1, <1>2, <1>9 DEF Fits, Apply, ApplyToolResult
<1>10. CASE r.kind = "boundary_event"
  BY <1>1, <1>2, <1>10 DEF Fits, Apply, ApplyBoundaryEvent
<1>11. CASE r.kind = "run_finished"
  BY <1>1, <1>2, <1>11 DEF Fits, Apply, ApplyRunFinished
<1>12. QED
  BY <1>3, <1>4, <1>5, <1>6, <1>7, <1>8, <1>9, <1>10, <1>11

\* A record that fits a sound state leaves a sound state.
LEMMA FitsSound ==
  ASSUME NEW st \in State, NEW r \in Record, Sound(st), Fits(st, r)
  PROVE  Sound(Apply(st, r))
<1>1. CASE r \in [kind : {"session_started"}]
  <2>1. Apply(st, r) = [st EXCEPT !.session = TRUE]
    BY <1>1, FitsApplied
  <2>2. QED  BY <1>1, <2>1 DEF Sound, State, Fits
<1>2. CASE r \in [kind : {"model_selected"}, info : ModelInfo, epoch : Nat]
  <2>1. Apply(st, r) = [st EXCEPT !.epoch = r.epoch, !.selection = {r.info},
                             !.configured = {}]
    BY <1>2, FitsApplied
  <2>2. QED  BY <1>2, <2>1 DEF Sound, State, Fits
<1>3. CASE r \in [kind : {"session_configured"}, config : Snapshot]
  <2>1. PICK info \in ModelInfo : st.selection = {info}
    BY <1>3 DEF Sound, Fits
  <2>2. [info EXCEPT !.endpoint = r.config.endpoint] \in ModelInfo
    BY <1>3 DEF ModelInfo, Snapshot
  <2>3. Apply(st, r) = [st EXCEPT !.configured = {r.config},
                          !.selection = {[info EXCEPT !.endpoint = r.config.endpoint]}]
    <3>1. {[s EXCEPT !.endpoint = r.config.endpoint] : s \in st.selection}
            = {[info EXCEPT !.endpoint = r.config.endpoint]}
      BY <2>1
    <3>2. r.kind = "session_configured"
      BY <1>3
    <3>3. Apply(st, r) =
            [st EXCEPT
              !.configured = {r.config},
              !.selection = {[s EXCEPT !.endpoint = r.config.endpoint] :
                               s \in st.selection}]
      BY <3>2, FitsApplied
    <3>4. QED  BY <3>1, <3>3, Zenon
  <2>4. QED  BY <1>3, <2>2, <2>3 DEF Sound, State, Fits
<1>4. CASE r \in [kind : {"run_started"}, run : Nat]
  <2>1. Apply(st, r) = [st EXCEPT !.runs = @ \cup {r.run}]
    BY <1>4, FitsApplied
  <2>2. QED  BY <1>4, <2>1 DEF Sound, State, Fits
<1>5. CASE r \in [kind : {"run_input_added"}, run : Nat, input : Nat]
  <2>1. Apply(st, r) = [st EXCEPT !.blocks = @ \cup {r.run}]
    BY <1>5, FitsApplied
  <2>2. QED  BY <1>5, <2>1 DEF Sound, State, Fits
<1>6. CASE r \in [kind : {"model_response"}, run : Nat, model : Models,
                  epoch : Nat, calls : SUBSET Nat]
  <2>1. Apply(st, r) = [st EXCEPT !.pending =
                        @ \cup {[run |-> r.run, call |-> c] : c \in r.calls}]
    BY <1>6, FitsApplied
  <2>2. QED  BY <1>6, <2>1 DEF Sound, State, Fits, PendingTool
<1>7. CASE r \in [kind : {"tool_result"}, run : Nat, call : Nat,
                  tells : SUBSET Jobs]
  <2>1. Apply(st, r) = [st EXCEPT !.pending =
                        @ \ {[run |-> r.run, call |-> r.call]}]
    BY <1>7, FitsApplied
  <2>2. QED  BY <1>7, <2>1 DEF Sound, State, Fits, PendingTool
<1>8. CASE r \in [kind : {"boundary_event"}, run : Nat, tells : SUBSET Jobs]
  <2>1. Apply(st, r) = [st EXCEPT !.delivered = @ \cup r.tells,
                             !.detached = @ \ r.tells]
    BY <1>8, FitsApplied
  <2>2. QED  BY <1>8, <2>1 DEF Sound, State, Fits
<1>9. CASE r \in [kind : {"run_finished"}, run : Nat, status : RunStatus,
                  observed : BOOLEAN, detached : SUBSET Jobs]
  <2>1. Apply(st, r) = [st EXCEPT !.runs = @ \ {r.run}, !.blocks = @ \ {r.run},
                             !.detached = IF r.observed THEN r.detached ELSE @]
    BY <1>9, FitsApplied
  <2>2. QED  BY <1>9, <2>1 DEF Sound, State, Fits
<1>10. QED  BY <1>1, <1>2, <1>3, <1>4, <1>5, <1>6, <1>7, <1>8, <1>9 DEF Record

\* The same, field by field.
Becomes(new, st, r) ==
  /\ new.session = (st.session \/ r.kind = "session_started")
  /\ new.epoch = IF r.kind = "model_selected" THEN r.epoch ELSE st.epoch
  /\ new.selection =
       CASE r.kind = "model_selected" -> {r.info}
         [] r.kind = "session_configured" ->
              {[s EXCEPT !.endpoint = r.config.endpoint] : s \in st.selection}
         [] OTHER -> st.selection
  /\ new.runs =
       CASE r.kind = "run_started" -> st.runs \cup {r.run}
         [] r.kind = "run_finished" -> st.runs \ {r.run}
         [] OTHER -> st.runs
  /\ new.blocks =
       CASE r.kind = "run_input_added" -> st.blocks \cup {r.run}
         [] r.kind = "run_finished" -> st.blocks \ {r.run}
         [] OTHER -> st.blocks
  /\ new.pending =
       CASE r.kind = "model_response" ->
              st.pending \cup {[run |-> r.run, call |-> c] : c \in r.calls}
         [] r.kind = "tool_result" ->
              st.pending \ {[run |-> r.run, call |-> r.call]}
         [] OTHER -> st.pending
  /\ new.delivered =
       IF r.kind = "boundary_event" THEN st.delivered \cup r.tells
                                    ELSE st.delivered
  /\ new.detached =
       CASE r.kind = "boundary_event" -> st.detached \ r.tells
         [] r.kind = "run_finished" /\ r.observed -> r.detached
         [] OTHER -> st.detached

\* The fold of a record that fits changes the fields its kind is about.
LEMMA FitsFields ==
  ASSUME NEW st \in State, NEW r \in Record, Sound(st), Fits(st, r)
  PROVE  Becomes(Apply(st, r), st, r)
<1>1. CASE r.kind = "session_started"
  <2>1. Apply(st, r) = [st EXCEPT !.session = TRUE]
    BY <1>1, FitsApplied
  <2>2. QED  BY <1>1, <2>1 DEF State, Becomes
<1>2. CASE r.kind = "model_selected"
  <2>1. Apply(st, r) = [st EXCEPT !.epoch = r.epoch, !.selection = {r.info},
                             !.configured = {}]
    BY <1>2, FitsApplied
  <2>2. QED  BY <1>2, <2>1 DEF State, Becomes
<1>3. CASE r.kind = "session_configured"
  <2>1. Apply(st, r) = [st EXCEPT
              !.configured = {r.config},
              !.selection = {[s EXCEPT !.endpoint = r.config.endpoint] :
                               s \in st.selection}]
    BY <1>3, FitsApplied
  <2>2. QED  BY <1>3, <2>1 DEF State, Becomes
<1>4. CASE r.kind = "run_started"
  <2>1. Apply(st, r) = [st EXCEPT !.runs = @ \cup {r.run}]
    BY <1>4, FitsApplied
  <2>2. QED  BY <1>4, <2>1 DEF State, Becomes
<1>5. CASE r.kind = "run_input_added"
  <2>1. Apply(st, r) = [st EXCEPT !.blocks = @ \cup {r.run}]
    BY <1>5, FitsApplied
  <2>2. QED  BY <1>5, <2>1 DEF State, Becomes
<1>6. CASE r.kind = "model_response"
  <2>1. Apply(st, r) = [st EXCEPT !.pending =
                        @ \cup {[run |-> r.run, call |-> c] : c \in r.calls}]
    BY <1>6, FitsApplied
  <2>2. QED  BY <1>6, <2>1 DEF State, Becomes
<1>7. CASE r.kind = "tool_result"
  <2>1. Apply(st, r) = [st EXCEPT !.pending =
                        @ \ {[run |-> r.run, call |-> r.call]}]
    BY <1>7, FitsApplied
  <2>2. QED  BY <1>7, <2>1 DEF State, Becomes
<1>8. CASE r.kind = "boundary_event"
  <2>1. Apply(st, r) = [st EXCEPT !.delivered = @ \cup r.tells,
                             !.detached = @ \ r.tells]
    BY <1>8, FitsApplied
  <2>2. QED  BY <1>8, <2>1 DEF State, Becomes
<1>9. CASE r.kind = "run_finished"
  <2>1. Apply(st, r) = [st EXCEPT !.runs = @ \ {r.run}, !.blocks = @ \ {r.run},
                             !.detached = IF r.observed THEN r.detached ELSE @]
    BY <1>9, FitsApplied
  <2>2. QED  BY <1>9, <2>1 DEF State, Becomes
<1>10. r.kind \in {"session_started", "model_selected", "session_configured",
                   "run_started", "run_input_added", "model_response",
                   "tool_result", "boundary_event", "run_finished"}
  BY DEF Record
<1>11. QED
  BY <1>1, <1>2, <1>3, <1>4, <1>5, <1>6, <1>7, <1>8, <1>9, <1>10

-----------------------------------------------------------------------------
(* TypeOK by groups of variables that change together.                     *)

StoreTyped ==
  /\ journal \in Seq(Record)
  /\ durable \in State
  /\ failed \in BOOLEAN
  /\ used \in [Occasions -> Nat]

LocalsTyped ==
  /\ run \in Nat
  /\ iterations \in Nat
  /\ limited \in BOOLEAN
  /\ status \in RunStatus
  /\ reply \in Reply
  /\ after \in {"idle", "queue", "request"}
  /\ tells \in SUBSET Jobs
  /\ offers \in SUBSET Jobs

ControlTyped ==
  /\ op \in OpKind
  /\ pc \in Step
  /\ live \in State
  /\ opened \in BOOLEAN
  /\ cancelled \in BOOLEAN

IdsTyped == runs \in Nat /\ calls \in Nat /\ epochs \in Nat

SelectionTyped ==
  /\ config \in Configuration
  /\ pendingConfig \in SUBSET Configuration
  /\ applying \in Configuration
  /\ scope \in Scopes
  /\ wanted \in Configuration

InputsTyped == queue \in Seq(Nat) /\ submitted \in Nat /\ taken \in SUBSET Nat

WorkTyped ==
  /\ jobs \in [Jobs -> JobLife]
  /\ seen \in SUBSET Jobs
  /\ marked \in SUBSET Jobs

ServedTyped == served \in SUBSET [epoch : Nat, info : ModelInfo]

\* TypeOK, split by the parts of the state that actions change together.
LEMMA TypeGroups ==
  TypeOK <=> /\ StoreTyped /\ LocalsTyped /\ ControlTyped /\ IdsTyped
             /\ SelectionTyped /\ InputsTyped /\ WorkTyped /\ ServedTyped
BY DEF TypeOK, StoreTyped, LocalsTyped, ControlTyped, IdsTyped,
       SelectionTyped, InputsTyped, WorkTyped, ServedTyped

\* Spending an occasion counts it.
LEMMA SpendType ==
  ASSUME TypeOK, NEW o \in Occasions, Spend(o)
  PROVE  used' \in [Occasions -> Nat]
BY DEF TypeOK, Spend

\* So does a failed attempt.
LEMMA SpendOnFaultType ==
  ASSUME TypeOK, NEW o \in Occasions, SpendOnFault(o)
  PROVE  used' \in [Occasions -> Nat]
<1>1. used' = [used EXCEPT ![o] = @ + 1, !["fault"] = @ + 1]
  BY DEF SpendOnFault
<1>2. used \in [Occasions -> Nat] /\ "fault" \in Occasions
  BY DEF TypeOK, Occasions
<1> QED
  BY <1>1, <1>2

\* A stored record is one more record of the journal.
LEMMA StoredType ==
  ASSUME TypeOK, NEW r \in Record, Stored(r)
  PROVE  journal' \in Seq(Record) /\ durable' \in State
BY ApplyType DEF TypeOK, Stored

\* A failed append leaves a journal, with or without the record.
LEMMA AppendFailsType ==
  ASSUME TypeOK, NEW r \in Record, AppendFails(r)
  PROVE  StoreTyped'
<1>1. CASE UNCHANGED <<store, used>>
  BY <1>1 DEF TypeOK, StoreTyped, store
<1>2. CASE Spend("fault") /\ UNCHANGED store
  BY <1>2, SpendType DEF TypeOK, StoreTyped, store, Occasions
<1>3. CASE Spend("fault") /\ failed' = TRUE /\ UNCHANGED <<journal, durable>>
  BY <1>3, SpendType DEF TypeOK, StoreTyped, Occasions
<1>4. CASE Spend("fault") /\ failed' = TRUE /\ Stored(r)
  BY <1>4, SpendType, StoredType DEF TypeOK, StoreTyped, Occasions
<1>5. QED  BY <1>1, <1>2, <1>3, <1>4 DEF AppendFails

\* A successful append leaves a journal.
LEMMA PersistedType ==
  ASSUME TypeOK, NEW r \in Record, Persisted(r)
  PROVE  StoreTyped'
BY StoredType DEF Persisted, TypeOK, StoreTyped

\* A successful append leaves a journal and a reducer.
LEMMA WrittenType ==
  ASSUME TypeOK, NEW r \in Record, Written(r)
  PROVE  StoreTyped' /\ live' \in State
BY PersistedType, ApplyType DEF Written, TypeOK

\* A step that appends nothing leaves the journal as it was.
LEMMA SameStoreType ==
  ASSUME TypeOK, UNCHANGED <<store, used>>
  PROVE  StoreTyped'
BY DEF TypeOK, StoreTyped, store

\* The state of an empty journal is one.
LEMMA NewStateType == NewState \in State
BY DEF NewState, State

\* An operation that returns leaves the initial locals.
LEMMA UnlockType ==
  ASSUME TypeOK, NEW next \in Step, Unlock(next)
  PROVE  ControlTyped' /\ LocalsTyped'
BY NewStateType DEF TypeOK, Unlock, InitLocals, ControlTyped, LocalsTyped,
     OpKind, RunStatus, Reply

\* An operation that goes on keeps its locals.
LEMMA GotoType ==
  ASSUME TypeOK, NEW next \in Step, Goto(next), live' \in State
  PROVE  ControlTyped' /\ LocalsTyped'
BY DEF TypeOK, Goto, ControlTyped, LocalsTyped, control, locals

\* A run that ends gets a status.
LEMMA FinishWithType ==
  ASSUME TypeOK, NEW s \in RunStatus, FinishWith(s), live' \in State
  PROVE  ControlTyped' /\ LocalsTyped'
BY DEF TypeOK, FinishWith, ControlTyped, LocalsTyped, control, Step

\* A run that ends with an error gets a status.
LEMMA FinishErrorType ==
  ASSUME TypeOK, FinishError
  PROVE  ControlTyped' /\ LocalsTyped'
BY FinishWithType DEF TypeOK, FinishError, RunStatus

\* An operation that gives up keeps its locals.
LEMMA LeaveType ==
  ASSUME TypeOK, Leave
  PROVE  ControlTyped' /\ LocalsTyped'
BY GotoType DEF TypeOK, Leave, Step

\* A step outside the operation keeps its locals.
LEMMA SameControlType ==
  ASSUME TypeOK, UNCHANGED <<locals, control, pc, live>>
  PROVE  ControlTyped' /\ LocalsTyped'
BY DEF TypeOK, control, locals, ControlTyped, LocalsTyped

\* Groups that do not change keep their types.
LEMMA SameType ==
  ASSUME TypeOK
  PROVE  /\ UNCHANGED ids => IdsTyped'
         /\ UNCHANGED selection => SelectionTyped'
         /\ UNCHANGED inputs => InputsTyped'
         /\ UNCHANGED work => WorkTyped'
         /\ UNCHANGED served => ServedTyped'
BY DEF TypeOK, ids, selection, inputs, work, IdsTyped, SelectionTyped,
       InputsTyped, WorkTyped, ServedTyped

-----------------------------------------------------------------------------
(* The records the runtime writes.                                         *)

\* What the runtime appends are records.
LEMMA RecordTypes ==
  ASSUME TypeOK
  PROVE  /\ [kind |-> "session_started"] \in Record
         /\ \A info \in ModelInfo : SelectionRecord(info) \in Record
         /\ \A c \in Configuration, s \in Scopes :
              ConfigurationRecord(c, s) \in Record
         /\ \A n \in Nat : [kind |-> "run_started", run |-> n] \in Record
         /\ \A n \in Nat, i \in Nat :
              [kind |-> "run_input_added", run |-> n, input |-> i] \in Record
         /\ \A n \in Nat, ended \in SUBSET Jobs :
              [kind |-> "boundary_event", run |-> n, tells |-> ended] \in Record
         /\ \A n \in Nat, c \in Nat, ended \in SUBSET Jobs :
              [kind |-> "tool_result", run |-> n, call |-> c,
               tells |-> ended] \in Record
         /\ \A s \in RunStatus, o \in BOOLEAN, d \in SUBSET Jobs :
              FinishRecord(s, o, d) \in Record
<1>1. \A info \in ModelInfo : SelectionRecord(info) \in Record
  BY DEF SelectionRecord, Record, TypeOK
<1>2. \A c \in Configuration, s \in Scopes : ConfigurationRecord(c, s) \in Record
  <2>1. \A c \in Configuration, s \in Scopes : SnapshotOf(c, s) \in Snapshot
    BY DEF Configuration, SnapshotOf, Snapshot, ModelInfo
  <2>2. QED  BY <2>1 DEF ConfigurationRecord, Record
<1>3. \A s \in RunStatus, o \in BOOLEAN, d \in SUBSET Jobs :
        FinishRecord(s, o, d) \in Record
  BY DEF FinishRecord, Record, TypeOK
<1>4. \A n \in Nat, c \in Nat, ended \in SUBSET Jobs :
        [kind |-> "tool_result", run |-> n, call |-> c,
         tells |-> ended] \in Record
  BY DEF Record
<1>5. \A n \in Nat, ended \in SUBSET Jobs :
        [kind |-> "boundary_event", run |-> n, tells |-> ended] \in Record
  BY DEF Record
<1>6. \A n \in Nat, i \in Nat :
        [kind |-> "run_input_added", run |-> n, input |-> i] \in Record
  BY DEF Record
<1>7. \A n \in Nat : [kind |-> "run_started", run |-> n] \in Record
  BY DEF Record
<1>8. [kind |-> "session_started"] \in Record
  BY DEF Record
<1>9. QED  BY <1>1, <1>2, <1>3, <1>4, <1>5, <1>6, <1>7, <1>8

\* The result of a call is a record.
LEMMA ResultRecordType ==
  ASSUME TypeOK, NEW p \in live.pending, NEW ended \in SUBSET Jobs
  PROVE  ResultRecord(p, ended) \in Record
<1>1. p.run \in Nat /\ p.call \in Nat
  BY DEF TypeOK, State, PendingTool
<1>2. QED  BY <1>1, RecordTypes DEF ResultRecord

\* A selected model names the model of a response.
LEMMA ResponseModelType ==
  ASSUME TypeOK, live.selection # {}
  PROVE  (CHOOSE s \in live.selection : TRUE).model \in Models
<1>1. (CHOOSE s \in live.selection : TRUE) \in ModelInfo
  BY DEF TypeOK, State
<1>2. QED  BY <1>1 DEF ModelInfo

\* A response of the backend is a record.
LEMMA ResponseRecordType ==
  ASSUME TypeOK, live.selection # {}, NEW n \in Nat
  PROVE  ResponseRecord(n) \in Record
<1>1. calls + 1 .. calls + n \in SUBSET Nat
  BY DEF TypeOK
<1>2. run \in Nat /\ live.epoch \in Nat
  BY DEF TypeOK, State
<1>3. QED  BY <1>1, <1>2, ResponseModelType DEF ResponseRecord, Record

\* The response a shell command stands for is a record.
LEMMA ShellResponseType ==
  ASSUME TypeOK, live.selection # {}
  PROVE  [kind |-> "model_response", run |-> run,
          model |-> (CHOOSE s \in live.selection : TRUE).model,
          epoch |-> live.epoch, calls |-> {calls + 1}] \in Record
<1>1. run \in Nat /\ live.epoch \in Nat /\ calls + 1 \in Nat
  BY DEF TypeOK, State
<1>2. QED  BY <1>1, ResponseModelType DEF Record

-----------------------------------------------------------------------------
(* Steps.                                                                  *)

\* The parts make up TypeOK.
LEMMA TypeFromGroups ==
  ASSUME StoreTyped', LocalsTyped', ControlTyped', IdsTyped', SelectionTyped',
         InputsTyped', WorkTyped', ServedTyped'
  PROVE  TypeOK'
BY DEF TypeOK, StoreTyped, LocalsTyped, ControlTyped, IdsTyped,
       SelectionTyped, InputsTyped, WorkTyped, ServedTyped

\* What the appends of a run are followed by.
LEMMA AppendType ==
  ASSUME TypeOK, NEW r \in Record, NEW next \in Step,
         \/ Written(r) /\ Goto(next)
         \/ AppendFails(r) /\ Leave
  PROVE  StoreTyped' /\ ControlTyped' /\ LocalsTyped'
BY WrittenType, GotoType, AppendFailsType, LeaveType

\* Acknowledgements are of jobs.
LEMMA MarkDeliveredType ==
  ASSUME TypeOK, NEW delivered \in SUBSET Jobs, MarkDelivered(delivered)
  PROVE  WorkTyped'
<1>1. jobs' = jobs /\ seen' \in SUBSET Jobs
  BY DEF TypeOK, MarkDelivered
<1>2. marked' \in SUBSET Jobs
  BY DEF TypeOK, MarkDelivered
<1>3. QED  BY <1>1, <1>2 DEF TypeOK, WorkTyped

\* Selecting a model hands out at most one epoch.
LEMMA SelectModelType ==
  ASSUME TypeOK, NEW info \in ModelInfo, NEW next \in Step, NEW ACTION Failing,
         Failing => ControlTyped' /\ LocalsTyped',
         SelectModel(info, next, Failing)
  PROVE  StoreTyped' /\ ControlTyped' /\ LocalsTyped' /\ epochs' \in Nat
<1>1. CASE Goto(next) /\ UNCHANGED <<store, live, epochs, used>>
  <2>1. live' \in State /\ epochs' \in Nat
    BY <1>1 DEF TypeOK
  <2>2. QED  BY <1>1, <2>1, GotoType, SameStoreType
<1>2. CASE /\ epochs' = epochs + 1
           /\ \/ Written(SelectionRecord(info)) /\ Goto(next)
              \/ AppendFails(SelectionRecord(info)) /\ Failing
  <2>1. epochs' \in Nat
    BY <1>2 DEF TypeOK
  <2>2. SelectionRecord(info) \in Record
    BY RecordTypes
  <2>3. QED  BY <1>2, <2>1, <2>2, WrittenType, AppendFailsType, GotoType
<1>3. QED  BY <1>1, <1>2 DEF SelectModel

\* A selection that could not be applied ends the run or the lock.
LEMMA ApplyFailsType ==
  ASSUME TypeOK, ApplyFails
  PROVE  ControlTyped' /\ LocalsTyped'
<1>1. CASE after = "idle"
  <2>1. Unlock("idle")
    BY <1>1, Zenon DEF ApplyFails
  <2>2. QED  BY <2>1, UnlockType DEF Step
<1>2. CASE after # "idle"
  <2>1. FinishError
    BY <1>2, Zenon DEF ApplyFails
  <2>2. QED  BY <2>1, FinishErrorType
<1>3. QED  BY <1>1, <1>2

\* A deferred selection is a configuration.
LEMMA StartApplyingType ==
  ASSUME TypeOK, NEW next \in {"idle", "queue", "request"}, StartApplying(next)
  PROVE  ControlTyped' /\ LocalsTyped' /\ SelectionTyped'
<1>1. ControlTyped' /\ LocalsTyped'
  BY DEF StartApplying, TypeOK, ControlTyped, LocalsTyped, control, Step
<1>2. SelectionTyped'
  BY DEF StartApplying, TypeOK, SelectionTyped
<1>3. QED  BY <1>1, <1>2

\* What is selected is a configuration.
LEMMA SelectedType ==
  ASSUME TypeOK
  PROVE  Selected \in Configuration
BY DEF TypeOK, Selected

-----------------------------------------------------------------------------
(* Process life.                                                           *)

\* Reopening keeps the types.
LEMMA ReopenType ==
  ASSUME TypeOK, Reopen
  PROVE  TypeOK'
<1>1. StoreTyped'
  BY SpendType DEF Reopen, TypeOK, StoreTyped, store, Occasions
<1>2. ControlTyped' /\ LocalsTyped'
  BY DEF Reopen, TypeOK, ControlTyped, LocalsTyped, control, locals, Step
<1>3. SelectionTyped'
  BY DEF Reopen, TypeOK, SelectionTyped
<1>4. IdsTyped' /\ InputsTyped' /\ WorkTyped' /\ ServedTyped'
  BY SameType DEF Reopen
<1>5. QED  BY <1>1, <1>2, <1>3, <1>4, TypeFromGroups

\* Reconciliation leaves a journal, or the process ends.
LEMMA ReconcileAppendsType ==
  ASSUME TypeOK, NEW r \in Record, ReconcileAppends(r)
  PROVE  TypeOK'
<1>1. "reconcile" \in Step /\ "down" \in Step
  BY DEF Step
<1>2. StoreTyped' /\ ControlTyped' /\ LocalsTyped'
  BY <1>1, WrittenType, AppendFailsType, GotoType, UnlockType
  DEF ReconcileAppends
<1>3. QED  BY <1>2, SameType, TypeFromGroups DEF ReconcileAppends

\* Settling an open call keeps the types.
LEMMA ReconcileCallType ==
  ASSUME TypeOK, ReconcileCall
  PROVE  TypeOK'
<1>1. PICK p \in live.pending :
        ReconcileAppends([kind |-> "tool_result", run |-> p.run,
                          call |-> p.call, tells |-> {}])
  BY DEF ReconcileCall
<1>2. p.run \in Nat /\ p.call \in Nat /\ {} \in SUBSET Jobs
  BY DEF TypeOK, State, PendingTool
<1>3. QED  BY <1>1, <1>2, RecordTypes, ReconcileAppendsType

\* Interrupting an unfinished run keeps the types.
LEMMA ReconcileRunType ==
  ASSUME TypeOK, ReconcileRun
  PROVE  TypeOK'
<1>1. PICK r \in live.runs :
        ReconcileAppends([kind |-> "run_finished", run |-> r,
                          status |-> "interrupted", observed |-> FALSE,
                          detached |-> {}])
  BY DEF ReconcileRun
<1>2. r \in Nat
  BY DEF TypeOK, State
<1>3. [kind |-> "run_finished", run |-> r, status |-> "interrupted",
       observed |-> FALSE, detached |-> {}] \in Record
  BY <1>2 DEF Record, RunStatus
<1>4. QED  BY <1>1, <1>3, ReconcileAppendsType

\* Adopting durable jobs keeps the types.
LEMMA AttachType ==
  ASSUME TypeOK, Attach
  PROVE  TypeOK'
<1>1. ControlTyped' /\ LocalsTyped'
  BY UnlockType DEF Attach, Step
<1>2. WorkTyped'
  BY DEF Attach, TypeOK, WorkTyped, JobLife
<1>3. StoreTyped' /\ IdsTyped' /\ SelectionTyped' /\ InputsTyped' /\ ServedTyped'
  BY SameStoreType, SameType DEF Attach
<1>4. QED  BY <1>1, <1>2, <1>3, TypeFromGroups

\* The end of a process keeps the types of what outlives it.
LEMMA ProcessEndsType ==
  ASSUME TypeOK, ProcessEnds, jobs' \in [Jobs -> JobLife]
  PROVE  TypeOK'
<1>1. ControlTyped' /\ LocalsTyped'
  BY UnlockType DEF ProcessEnds, Step
<1>2. StoreTyped' /\ WorkTyped'
  BY DEF ProcessEnds, TypeOK, StoreTyped, WorkTyped
<1>3. SelectionTyped' /\ IdsTyped' /\ ServedTyped'
  BY SameType DEF ProcessEnds, TypeOK, SelectionTyped
<1>4. InputsTyped'
  BY DEF ProcessEnds, TypeOK, InputsTyped
<1>5. QED  BY <1>1, <1>2, <1>3, <1>4, TypeFromGroups

\* A crash keeps the types.
LEMMA CrashType ==
  ASSUME TypeOK, Crash
  PROVE  TypeOK'
<1>1. jobs' \in [Jobs -> JobLife]
  BY DEF Crash, TypeOK, JobLife
<1>2. QED  BY <1>1, ProcessEndsType DEF Crash

\* Closing keeps the types.
LEMMA CloseType ==
  ASSUME TypeOK, Close
  PROVE  TypeOK'
<1>1. jobs' \in [Jobs -> JobLife]
  BY DEF Close, TypeOK, JobLife
<1>2. QED  BY <1>1, ProcessEndsType DEF Close

-----------------------------------------------------------------------------
(* Selection.                                                              *)

\* The first half of applying a selection keeps the types.
LEMMA ApplyModelType ==
  ASSUME TypeOK, ApplyModel
  PROVE  TypeOK'
<1>1. "apply_configure" \in Step /\ applying.info \in ModelInfo
  BY DEF Step, TypeOK, Configuration
<1>2. CASE live.session
  <2>1. SelectModel(applying.info, "apply_configure", ApplyFails)
    BY <1>2, Zenon DEF ApplyModel
  <2>2. ApplyFails => ControlTyped' /\ LocalsTyped'
    BY ApplyFailsType
  <2>3. StoreTyped' /\ ControlTyped' /\ LocalsTyped' /\ epochs' \in Nat
    BY <1>1, <2>1, <2>2, SelectModelType
  <2>4. IdsTyped'
    BY <2>3 DEF ApplyModel, TypeOK, IdsTyped
  <2>5. QED  BY <2>3, <2>4, SameType, TypeFromGroups DEF ApplyModel
<1>3. CASE ~live.session
  <2>1. Goto("apply_configure") /\ UNCHANGED <<store, live, epochs, used>>
    BY <1>3, Zenon DEF ApplyModel
  <2>2. live' \in State
    BY <2>1 DEF TypeOK
  <2>3. StoreTyped' /\ ControlTyped' /\ LocalsTyped'
    BY <1>1, <2>1, <2>2, GotoType, SameStoreType
  <2>4. IdsTyped'
    BY <2>1 DEF ApplyModel, TypeOK, IdsTyped
  <2>5. QED  BY <2>3, <2>4, SameType, TypeFromGroups DEF ApplyModel
<1>4. QED  BY <1>2, <1>3

\* A published selection is a configuration.
LEMMA PublishType ==
  ASSUME TypeOK, Publish
  PROVE  SelectionTyped'
BY DEF Publish, TypeOK, SelectionTyped

\* The second half of applying a selection keeps the types.
LEMMA ApplyConfigurationType ==
  ASSUME TypeOK, ApplyConfiguration
  PROVE  TypeOK'
<1> DEFINE r == ConfigurationRecord(applying, scope)
<1>1. r \in Record
  BY RecordTypes DEF TypeOK
<1>2. "idle" \in Step /\ after \in Step
  BY DEF Step, TypeOK
<1>3. IdsTyped' /\ InputsTyped' /\ WorkTyped' /\ ServedTyped'
  BY SameType DEF ApplyConfiguration
<1>4. CASE Applied /\ Publish /\ UNCHANGED <<store, used>>
  <2>1. \/ Unlock("idle")
        \/ Goto(after) /\ UNCHANGED live
    BY <1>4 DEF Applied
  <2>2. UNCHANGED live => live' \in State
    BY DEF TypeOK
  <2>3. ControlTyped' /\ LocalsTyped'
    BY <1>2, <2>1, <2>2, UnlockType, GotoType
  <2>4. QED
    BY <1>3, <1>4, <2>3, SameStoreType, PublishType, TypeFromGroups
<1>5. CASE Persisted(r) /\ Unlock("idle") /\ Publish
  BY <1>1, <1>2, <1>3, <1>5, PersistedType, UnlockType, PublishType,
     TypeFromGroups
<1>6. CASE Written(r) /\ Goto(after) /\ Publish
  BY <1>1, <1>2, <1>3, <1>6, WrittenType, GotoType, PublishType,
     TypeFromGroups
<1>7. CASE AppendFails(r) /\ ApplyFails /\ UNCHANGED selection
  BY <1>1, <1>3, <1>7, AppendFailsType, ApplyFailsType, SameType,
     TypeFromGroups
<1>8. QED  BY <1>4, <1>5, <1>6, <1>7 DEF ApplyConfiguration

\* Deferring a selection keeps the types.
LEMMA DeferSelectionType ==
  ASSUME TypeOK, DeferSelection
  PROVE  TypeOK'
<1>1. StoreTyped' /\ ControlTyped' /\ LocalsTyped'
  BY SpendType, SameControlType
  DEF DeferSelection, TypeOK, StoreTyped, store, Occasions
<1>2. SelectionTyped'
  BY DEF DeferSelection, Changed, TypeOK, SelectionTyped
<1>3. IdsTyped' /\ InputsTyped' /\ WorkTyped' /\ ServedTyped'
  BY SameType DEF DeferSelection
<1>4. QED  BY <1>1, <1>2, <1>3, TypeFromGroups

\* Applying a selection between operations keeps the types.
LEMMA ApplySelectionType ==
  ASSUME TypeOK, ApplySelection
  PROVE  TypeOK'
<1>1. StoreTyped'
  BY SpendType DEF ApplySelection, TypeOK, StoreTyped, store, Occasions
<1>2. ControlTyped' /\ LocalsTyped'
  BY DEF ApplySelection, TypeOK, ControlTyped, LocalsTyped, locals, OpKind, Step
<1>3. SelectionTyped'
  BY DEF ApplySelection, Changed, TypeOK, SelectionTyped
<1>4. IdsTyped' /\ InputsTyped' /\ WorkTyped' /\ ServedTyped'
  BY SameType DEF ApplySelection
<1>5. QED  BY <1>1, <1>2, <1>3, <1>4, TypeFromGroups

\* Recording a scope keeps the types.
LEMMA SetScopeType ==
  ASSUME TypeOK, SetScope
  PROVE  TypeOK'
<1>1. PICK s \in Scopes :
        \/ Spend("scope") /\ scope' = s /\ UNCHANGED store
        \/ /\ Spend("scope")
           /\ Stored(ConfigurationRecord(config, s))
           /\ scope' = s
           /\ UNCHANGED failed
        \/ /\ SpendOnFault("scope")
           /\ failed' = TRUE
           /\ \/ UNCHANGED <<journal, durable>>
              \/ Stored(ConfigurationRecord(config, s))
           /\ UNCHANGED scope
  BY DEF SetScope
<1>2. ConfigurationRecord(config, s) \in Record
  BY RecordTypes DEF TypeOK
<1>3. used' \in [Occasions -> Nat]
  BY <1>1, SpendType, SpendOnFaultType DEF Occasions
<1>4. journal' \in Seq(Record) /\ durable' \in State /\ failed' \in BOOLEAN
  BY <1>1, <1>2, StoredType DEF TypeOK, store
<1>5. SelectionTyped'
  BY <1>1 DEF SetScope, TypeOK, SelectionTyped
<1>6. ControlTyped' /\ LocalsTyped'
  BY SameControlType DEF SetScope
<1>7. IdsTyped' /\ InputsTyped' /\ WorkTyped' /\ ServedTyped'
  BY SameType DEF SetScope
<1>8. QED
  BY <1>3, <1>4, <1>5, <1>6, <1>7, TypeFromGroups DEF StoreTyped

-----------------------------------------------------------------------------
(* Input and jobs.                                                         *)

\* Queueing input keeps the types.
LEMMA QueueInputType ==
  ASSUME TypeOK, QueueInput
  PROVE  TypeOK'
<1>1. StoreTyped' /\ ControlTyped' /\ LocalsTyped'
  BY SpendType, SameControlType
  DEF QueueInput, TypeOK, StoreTyped, store, Occasions
<1>2. InputsTyped'
  BY DEF QueueInput, TypeOK, InputsTyped
<1>3. IdsTyped' /\ SelectionTyped' /\ WorkTyped' /\ ServedTyped'
  BY SameType DEF QueueInput
<1>4. QED  BY <1>1, <1>2, <1>3, TypeFromGroups

\* Taking input back keeps the types.
LEMMA TakeInputType ==
  ASSUME TypeOK, TakeInput
  PROVE  TypeOK'
<1>1. StoreTyped' /\ ControlTyped' /\ LocalsTyped'
  BY SpendType, SameControlType
  DEF TakeInput, TypeOK, StoreTyped, store, Occasions
<1>2. queue \in Seq(Nat) /\ queue # <<>>
  BY DEF TakeInput, TypeOK
<1>3. queue' \in Seq(Nat)
  <2>1. Tail(queue) \in Seq(Nat)
    BY <1>2
  <2>2. SubSeq(queue, 1, Len(queue) - 1) \in Seq(Nat)
    BY <1>2
  <2>3. QED  BY <2>1, <2>2 DEF TakeInput
<1>4. taken' \in SUBSET Nat
  <2>1. Head(queue) \in Nat /\ queue[Len(queue)] \in Nat
    BY <1>2
  <2>2. QED  BY <2>1 DEF TakeInput, TypeOK
<1>5. InputsTyped'
  BY <1>3, <1>4 DEF TakeInput, TypeOK, InputsTyped
<1>6. IdsTyped' /\ SelectionTyped' /\ WorkTyped' /\ ServedTyped'
  BY SameType DEF TakeInput
<1>7. QED  BY <1>1, <1>5, <1>6, TypeFromGroups

\* The end of a job keeps the types.
LEMMA JobFinishesType ==
  ASSUME TypeOK, NEW job \in Jobs, JobFinishes(job)
  PROVE  TypeOK'
<1>1. StoreTyped' /\ ControlTyped' /\ LocalsTyped'
  BY SameStoreType, SameControlType DEF JobFinishes
<1>2. WorkTyped'
  BY DEF JobFinishes, TypeOK, WorkTyped, JobLife
<1>3. IdsTyped' /\ SelectionTyped' /\ InputsTyped' /\ ServedTyped'
  BY SameType DEF JobFinishes
<1>4. QED  BY <1>1, <1>2, <1>3, TypeFromGroups

-----------------------------------------------------------------------------
(* The start of an operation.                                              *)

\* What a step of an operation leaves alone, but for identifiers and jobs.
LEMMA StartOperationType ==
  ASSUME TypeOK, StartRun \/ StartShell
  PROVE  TypeOK'
<1>1. StoreTyped'
  BY SpendType
  DEF StartRun, StartShell, Lock, TypeOK, StoreTyped, store, Occasions
<1>2. ControlTyped' /\ LocalsTyped'
  BY DEF StartRun, StartShell, Lock, TypeOK, ControlTyped, LocalsTyped, locals,
         OpKind, Step
<1>3. IdsTyped' /\ SelectionTyped' /\ InputsTyped' /\ WorkTyped' /\ ServedTyped'
  BY SameType DEF StartRun, StartShell
<1>4. QED  BY <1>1, <1>2, <1>3, TypeFromGroups

\* Reading the journal keeps the types.
LEMMA OpenType ==
  ASSUME TypeOK, Open
  PROVE  TypeOK'
<1>1. StoreTyped'
  BY SameStoreType DEF Open
<1>2. IdsTyped' /\ SelectionTyped' /\ InputsTyped' /\ WorkTyped' /\ ServedTyped'
  BY SameType DEF Open
<1>3. CASE Leave
  BY <1>1, <1>2, <1>3, LeaveType, TypeFromGroups
<1>4. CASE /\ live' = durable
           /\ opened' = TRUE
           /\ pc' = IF HasUnfinishedWork(durable) THEN "release" ELSE "session"
           /\ UNCHANGED <<op, cancelled, locals>>
  <2>1. pc' \in Step
    BY <1>4 DEF Step
  <2>2. ControlTyped' /\ LocalsTyped'
    BY <1>4, <2>1 DEF TypeOK, ControlTyped, LocalsTyped, locals
  <2>3. QED  BY <1>1, <1>2, <2>2, TypeFromGroups
<1>5. QED  BY <1>3, <1>4 DEF Open

\* What follows from the way most steps of an operation are written: they
\* append a record and go on, or leave, or do neither and go on.
LEMMA PlainStepType ==
  ASSUME TypeOK, NEW r \in Record, NEW next \in Step, NEW other \in Step,
         \/ Goto(other) /\ UNCHANGED <<store, live, used>>
         \/ Written(r) /\ Goto(next)
         \/ AppendFails(r) /\ Leave,
         UNCHANGED <<selection, inputs, work, served>>, IdsTyped'
  PROVE  TypeOK'
<1>1. CASE Goto(other) /\ UNCHANGED <<store, live, used>>
  <2>1. live' \in State
    BY <1>1 DEF TypeOK
  <2>2. QED
    BY <1>1, <2>1, SameStoreType, GotoType, SameType, TypeFromGroups
<1>2. CASE \/ Written(r) /\ Goto(next)
           \/ AppendFails(r) /\ Leave
  BY <1>2, AppendType, SameType, TypeFromGroups
<1>3. QED  BY <1>1, <1>2

\* Starting a session keeps the types.
LEMMA PrepareSessionType ==
  ASSUME TypeOK, PrepareSession
  PROVE  TypeOK'
<1>1. [kind |-> "session_started"] \in Record /\ "select" \in Step
  BY RecordTypes DEF Step
<1>2. IdsTyped'
  BY SameType DEF PrepareSession
<1>3. QED  BY <1>1, <1>2, PlainStepType DEF PrepareSession

\* Selecting the model of an operation keeps the types.
LEMMA PrepareModelType ==
  ASSUME TypeOK, PrepareModel
  PROVE  TypeOK'
<1>1. config.info \in ModelInfo /\ "configure" \in Step
  BY DEF TypeOK, Configuration, Step
<1>2. SelectModel(config.info, "configure", Leave)
  BY DEF PrepareModel
<1>3. Leave => ControlTyped' /\ LocalsTyped'
  BY LeaveType
<1>4. StoreTyped' /\ ControlTyped' /\ LocalsTyped' /\ epochs' \in Nat
  BY <1>1, <1>2, <1>3, SelectModelType
<1>5. IdsTyped'
  BY <1>4 DEF PrepareModel, TypeOK, IdsTyped
<1>6. QED  BY <1>4, <1>5, SameType, TypeFromGroups DEF PrepareModel

\* Recording its configuration keeps the types.
LEMMA PrepareConfigurationType ==
  ASSUME TypeOK, PrepareConfiguration
  PROVE  TypeOK'
<1> DEFINE r == ConfigurationRecord(config, scope)
           next == IF op = "run" THEN "sync" ELSE "start"
<1>1. r \in Record /\ next \in Step
  BY RecordTypes DEF TypeOK, Step
<1>2. IdsTyped' /\ UNCHANGED <<selection, inputs, work, served>>
  BY SameType DEF PrepareConfiguration
<1>3. \/ Goto(next) /\ UNCHANGED <<store, live, used>>
      \/ Written(r) /\ Goto(next)
      \/ AppendFails(r) /\ Leave
  BY DEF PrepareConfiguration
<1> HIDE DEF r, next
<1>4. QED  BY <1>1, <1>2, <1>3, PlainStepType

\* A step that acknowledges and goes on keeps the types.
LEMMA AcknowledgeType ==
  ASSUME TypeOK, NEW delivered \in SUBSET Jobs, NEW next \in Step,
         MarkDelivered(delivered), Goto(next),
         UNCHANGED <<store, live, ids, selection, inputs, served, used>>
  PROVE  TypeOK'
<1>1. live' \in State
  BY DEF TypeOK
<1>2. StoreTyped' /\ ControlTyped' /\ LocalsTyped' /\ WorkTyped'
  BY <1>1, SameStoreType, GotoType, MarkDeliveredType
<1>3. QED  BY <1>2, SameType, TypeFromGroups

\* The three steps that acknowledge keep the types.
LEMMA AcknowledgementsType ==
  ASSUME TypeOK, SyncExternalWork \/ EventCommitted \/ ToolResultCommitted
  PROVE  TypeOK'
<1>1. {"start", "deliver", "tools"} \subseteq Step
  BY DEF Step
<1>2. tells \in SUBSET Jobs /\ {j \in Jobs : Told(j)} \in SUBSET Jobs
  BY DEF TypeOK
<1>3. QED
  BY <1>1, <1>2, AcknowledgeType
  DEF SyncExternalWork, EventCommitted, ToolResultCommitted

\* Starting a run hands out its number.
LEMMA RecordRunStartedType ==
  ASSUME TypeOK, RecordRunStarted
  PROVE  TypeOK'
<1> DEFINE r == [kind |-> "run_started", run |-> runs + 1]
<1>1. runs + 1 \in Nat
  BY DEF TypeOK
<1>2. r \in Record
  BY <1>1, RecordTypes
<1>3. IdsTyped'
  BY <1>1 DEF RecordRunStarted, TypeOK, IdsTyped
<1>4. SelectionTyped' /\ InputsTyped' /\ WorkTyped' /\ ServedTyped'
  BY SameType DEF RecordRunStarted
<1>5. CASE AppendFails(r) /\ Leave
  BY <1>2, <1>3, <1>4, <1>5, AppendFailsType, LeaveType, TypeFromGroups
<1>6. CASE /\ Written(r)
           /\ run' = runs + 1
           /\ pc' = "input"
           /\ UNCHANGED <<control, iterations, limited, status, reply, after,
                          tells, offers>>
  <2>1. StoreTyped' /\ live' \in State
    BY <1>2, <1>6, WrittenType
  <2>2. ControlTyped' /\ LocalsTyped'
    BY <1>1, <1>6, <2>1 DEF TypeOK, ControlTyped, LocalsTyped, control, Step
  <2>3. QED  BY <1>3, <1>4, <2>1, <2>2, TypeFromGroups
<1>7. QED  BY <1>5, <1>6 DEF RecordRunStarted

\* Recording the input of a run keeps the types.
LEMMA RecordInputType ==
  ASSUME TypeOK, RecordInput
  PROVE  TypeOK'
<1> DEFINE r == [kind |-> "run_input_added", run |-> run, input |-> 0]
           next == IF op = "run" THEN "boundary" ELSE "shell_call"
<1>1. r \in Record /\ next \in Step
  BY RecordTypes DEF TypeOK, Step
<1>2. IdsTyped' /\ UNCHANGED <<selection, inputs, work, served>>
  BY SameType DEF RecordInput
<1>3. \/ Written(r) /\ Goto(next)
      \/ AppendFails(r) /\ Leave
  BY DEF RecordInput
<1> HIDE DEF r, next
<1>4. QED  BY <1>1, <1>2, <1>3, PlainStepType

-----------------------------------------------------------------------------
(* The loop of a run.                                                      *)

\* A request boundary keeps the types.
LEMMA BoundaryType ==
  ASSUME TypeOK, Boundary
  PROVE  TypeOK'
<1> DEFINE next == IF limited THEN "request" ELSE "queue"
<1>1. next \in {"idle", "queue", "request"} /\ next \in Step
  BY DEF Step
<1>2. StoreTyped' /\ IdsTyped' /\ InputsTyped' /\ WorkTyped' /\ ServedTyped'
  BY SameStoreType, SameType DEF Boundary
<1>3. \/ Goto(next) /\ UNCHANGED <<live, selection>>
      \/ StartApplying(next)
  BY DEF Boundary
<1> HIDE DEF next
<1>4. CASE Goto(next) /\ UNCHANGED <<live, selection>>
  <2>1. live' \in State
    BY <1>4 DEF TypeOK
  <2>2. QED
    BY <1>1, <1>2, <1>4, <2>1, GotoType, SameType, TypeFromGroups
<1>5. CASE StartApplying(next)
  BY <1>1, <1>2, <1>5, StartApplyingType, TypeFromGroups
<1>6. QED  BY <1>3, <1>4, <1>5

\* Delivering queued input keeps the types.
LEMMA DeliverInputType ==
  ASSUME TypeOK, DeliverInput
  PROVE  TypeOK'
<1>1. {"offer", "queue"} \subseteq Step
  BY DEF Step
<1>2. IdsTyped' /\ SelectionTyped' /\ WorkTyped' /\ ServedTyped'
  BY SameType DEF DeliverInput
<1>3. CASE Goto("offer") /\ UNCHANGED <<store, live, queue, used>>
  <2>1. live' \in State
    BY <1>3 DEF TypeOK
  <2>2. InputsTyped'
    BY <1>3 DEF DeliverInput, TypeOK, InputsTyped
  <2>3. QED
    BY <1>1, <1>2, <1>3, <2>1, <2>2, SameStoreType, GotoType, TypeFromGroups
<1>4. CASE queue # <<>>
  <2> DEFINE r == [kind |-> "run_input_added", run |-> run,
                   input |-> Head(queue)]
  <2>1. Head(queue) \in Nat /\ Tail(queue) \in Seq(Nat)
    BY <1>4 DEF TypeOK
  <2>2. r \in Record
    BY <2>1, RecordTypes DEF TypeOK
  <2>3. \/ Goto("offer") /\ UNCHANGED <<store, live, queue, used>>
        \/ Written(r) /\ queue' = Tail(queue) /\ Goto("queue")
        \/ AppendFails(r) /\ FinishError /\ UNCHANGED queue
    BY DEF DeliverInput
  <2> HIDE DEF r
  <2>4. InputsTyped'
    BY <2>1, <2>3 DEF DeliverInput, TypeOK, InputsTyped
  <2>5. QED
    BY <1>1, <1>2, <1>3, <2>2, <2>3, <2>4, WrittenType, AppendFailsType,
       GotoType, FinishErrorType, TypeFromGroups
<1>5. QED  BY <1>3, <1>4 DEF DeliverInput

\* Events that are pending are about jobs.
LEMMA OfferEventsType ==
  ASSUME TypeOK, OfferEvents
  PROVE  TypeOK'
<1>1. ControlTyped' /\ LocalsTyped'
  BY DEF OfferEvents, PendingEvents, TypeOK, ControlTyped, LocalsTyped, control,
         Step
<1>2. QED
  BY <1>1, SameStoreType, SameType, TypeFromGroups DEF OfferEvents

\* Delivering an event keeps the types.
LEMMA DeliverEventType ==
  ASSUME TypeOK, DeliverEvent
  PROVE  TypeOK'
<1>1. {"request", "told"} \subseteq Step
  BY DEF Step
<1>2. IdsTyped' /\ SelectionTyped' /\ InputsTyped' /\ ServedTyped'
  BY SameType DEF DeliverEvent
<1>3. CASE Goto("request") /\ UNCHANGED <<store, live, work, used>>
  <2>1. live' \in State
    BY <1>3 DEF TypeOK
  <2>2. QED
    BY <1>1, <1>2, <1>3, <2>1, SameStoreType, GotoType, SameType, TypeFromGroups
<1>4. ASSUME NEW job \in offers, MarkDelivered({job}),
             offers' = offers \ {job},
             UNCHANGED <<run, iterations, limited, status, reply, after, tells,
                         control, pc, store, live, used>>
      PROVE  TypeOK'
  <2>1. ControlTyped' /\ LocalsTyped'
    BY <1>4 DEF TypeOK, ControlTyped, LocalsTyped, control
  <2>2. {job} \in SUBSET Jobs
    BY <1>4 DEF TypeOK
  <2>3. QED
    BY <1>2, <1>4, <2>1, <2>2, SameStoreType, MarkDeliveredType, TypeFromGroups
<1>5. ASSUME NEW job \in offers, NEW r,
             r = [kind |-> "boundary_event", run |-> run, tells |-> {job}],
             \/ /\ Written(r)
                /\ tells' = {job}
                /\ offers' = offers \ {job}
                /\ pc' = "told"
                /\ UNCHANGED <<run, iterations, limited, status, reply, after,
                               control>>
             \/ AppendFails(r) /\ FinishError,
             UNCHANGED work
      PROVE  TypeOK'
  <2>1. run \in Nat /\ {job} \in SUBSET Jobs
    BY <1>5 DEF TypeOK
  <2>2. r \in Record
    BY <1>5, <2>1, RecordTypes
  <2>3. CASE AppendFails(r) /\ FinishError
    BY <1>2, <1>5, <2>2, <2>3, AppendFailsType, FinishErrorType, SameType,
       TypeFromGroups
  <2>4. CASE /\ Written(r)
             /\ tells' = {job}
             /\ offers' = offers \ {job}
             /\ pc' = "told"
             /\ UNCHANGED <<run, iterations, limited, status, reply, after,
                            control>>
    <3>1. StoreTyped' /\ live' \in State
      BY <2>2, <2>4, WrittenType
    <3>2. ControlTyped' /\ LocalsTyped'
      BY <1>1, <2>1, <2>4, <3>1 DEF TypeOK, ControlTyped, LocalsTyped, control
    <3>3. QED  BY <1>2, <1>5, <3>1, <3>2, SameType, TypeFromGroups
  <2>5. QED  BY <1>5, <2>3, <2>4
<1>6. QED  BY <1>3, <1>4, <1>5 DEF DeliverEvent

\* A model request keeps the types.
LEMMA RequestType ==
  ASSUME TypeOK, Request
  PROVE  TypeOK'
<1>1. StoreTyped' /\ IdsTyped' /\ SelectionTyped' /\ InputsTyped' /\ WorkTyped'
      /\ ServedTyped'
  BY SameStoreType, SameType DEF Request
<1>2. CASE FinishError
  BY <1>1, <1>2, FinishErrorType, TypeFromGroups
<1>3. CASE /\ pc' = "accept"
           /\ reply' \in Reply
           /\ UNCHANGED <<run, iterations, limited, status, after, tells,
                          offers, control, live>>
  <2>1. ControlTyped' /\ LocalsTyped'
    BY <1>3 DEF TypeOK, ControlTyped, LocalsTyped, control, Step
  <2>2. QED  BY <1>1, <2>1, TypeFromGroups
<1>4. QED  BY <1>2, <1>3 DEF Request

\* What follows a response keeps the types of the locals.
LEMMA AfterResponseType ==
  ASSUME TypeOK, AfterResponse, live' \in State
  PROVE  ControlTyped' /\ LocalsTyped'
<1>1. "await" \in Step /\ {"incomplete", "completed", "failed"} \subseteq RunStatus
  BY DEF Step, RunStatus
<1>2. CASE /\ \/ /\ pc' = "reject" /\ limited' = TRUE
                 /\ UNCHANGED iterations
              \/ /\ pc' = "tools" /\ iterations' = iterations + 1
                 /\ UNCHANGED limited
           /\ UNCHANGED <<run, status, reply, after, tells, offers, control>>
  <2>1. pc' \in Step
    BY <1>2 DEF Step
  <2>2. limited' \in BOOLEAN
    <3>1. limited' = TRUE \/ limited' = limited
      BY <1>2
    <3>2. QED  BY <3>1, Zenon DEF TypeOK
  <2>3. iterations' \in Nat
    BY <1>2 DEF TypeOK
  <2>4. QED
    BY <1>2, <2>1, <2>2, <2>3 DEF TypeOK, ControlTyped, LocalsTyped, control
<1>3. CASE \/ FinishWith("incomplete")
           \/ Goto("await")
           \/ FinishWith("completed")
           \/ FinishWith("failed")
  BY <1>1, <1>3, FinishWithType, GotoType
<1>4. QED  BY <1>2, <1>3 DEF AfterResponse

\* Accepting a response hands out the numbers of its calls.
LEMMA AcceptResponseType ==
  ASSUME TypeOK, live.selection # {}, AcceptResponse
  PROVE  TypeOK'
<1>1. SelectionTyped' /\ InputsTyped' /\ WorkTyped'
  BY SameType DEF AcceptResponse
<1>2. CASE FinishWith("failed") /\ UNCHANGED <<store, live, calls, served, used>>
  <2>1. live' \in State /\ "failed" \in RunStatus
    BY <1>2 DEF TypeOK, RunStatus
  <2>2. IdsTyped'
    BY <1>2 DEF AcceptResponse, TypeOK, IdsTyped
  <2>3. QED
    BY <1>1, <1>2, <2>1, <2>2, FinishWithType, SameStoreType, SameType,
       TypeFromGroups
<1>3. ASSUME NEW n \in CallCount, calls' = calls + n,
             \/ /\ Written(ResponseRecord(n))
                /\ AfterResponse
                /\ served' = served \cup
                     {[epoch |-> live.epoch, info |-> config.info]}
             \/ AppendFails(ResponseRecord(n)) /\ Leave /\ UNCHANGED served
      PROVE  TypeOK'
  <2>1. n \in Nat
    BY RuntimeAssumption DEF CallCount
  <2>2. ResponseRecord(n) \in Record
    BY <2>1, ResponseRecordType
  <2>3. IdsTyped'
    BY <1>3, <2>1 DEF AcceptResponse, TypeOK, IdsTyped
  <2>4. ServedTyped'
    <3>1. live.epoch \in Nat /\ config.info \in ModelInfo
      BY DEF TypeOK, State, Configuration
    <3>2. QED  BY <1>3, <3>1 DEF TypeOK, ServedTyped
  <2>5. CASE Written(ResponseRecord(n)) /\ AfterResponse
    BY <1>1, <2>2, <2>3, <2>4, <2>5, WrittenType, AfterResponseType,
       TypeFromGroups
  <2>6. CASE AppendFails(ResponseRecord(n)) /\ Leave
    BY <1>1, <2>2, <2>3, <2>4, <2>6, AppendFailsType, LeaveType, TypeFromGroups
  <2>7. QED  BY <1>3, <2>5, <2>6
<1>4. QED  BY <1>2, <1>3 DEF AcceptResponse

\* Waiting for jobs keeps the types.
LEMMA AwaitType ==
  ASSUME TypeOK, Await
  PROVE  TypeOK'
<1>1. StoreTyped' /\ IdsTyped' /\ SelectionTyped' /\ InputsTyped' /\ WorkTyped'
      /\ ServedTyped'
  BY SameStoreType, SameType DEF Await
<1>2. "completed" \in RunStatus /\ "boundary" \in Step
  BY DEF RunStatus, Step
<1>3. UNCHANGED live => live' \in State
  BY DEF TypeOK
<1>4. \/ FinishWith("completed") /\ UNCHANGED live
      \/ Goto("boundary") /\ UNCHANGED live
      \/ FinishError
  BY DEF Await
<1>5. QED
  BY <1>1, <1>2, <1>3, <1>4, FinishWithType, GotoType, FinishErrorType,
     TypeFromGroups

-----------------------------------------------------------------------------
(* Tool calls.                                                             *)

\* What a tool does to the jobs keeps their types.
LEMMA ToolEffectType ==
  ASSUME TypeOK, ToolEffect
  PROVE  tells' \in SUBSET Jobs /\ jobs' \in [Jobs -> JobLife]
BY DEF ToolEffect, TypeOK, JobLife

\* Executing a tool keeps the types.
LEMMA ExecuteToolType ==
  ASSUME TypeOK, ExecuteTool
  PROVE  TypeOK'
<1>1. StoreTyped' /\ IdsTyped' /\ SelectionTyped' /\ InputsTyped' /\ ServedTyped'
  BY SameStoreType, SameType DEF ExecuteTool
<1>2. live' \in State /\ seen' \in SUBSET Jobs /\ marked' \in SUBSET Jobs
  BY DEF ExecuteTool, TypeOK
<1>3. {"boundary", "settle", "result"} \subseteq Step
  BY DEF Step
<1>4. CASE \/ Goto("boundary") /\ UNCHANGED jobs
           \/ Goto("settle") /\ UNCHANGED jobs
  <2>1. ControlTyped' /\ LocalsTyped'
    BY <1>2, <1>3, <1>4, GotoType
  <2>2. WorkTyped'
    BY <1>2, <1>4 DEF TypeOK, WorkTyped
  <2>3. QED  BY <1>1, <2>1, <2>2, TypeFromGroups
<1>5. CASE /\ ToolEffect
           /\ pc' = IF cancelled THEN "settle" ELSE "result"
           /\ UNCHANGED <<run, iterations, limited, status, reply, after, offers,
                          control>>
  <2>1. pc' \in Step
    BY <1>3, <1>5
  <2>2. ControlTyped' /\ LocalsTyped'
    BY <1>2, <1>5, <2>1, ToolEffectType
    DEF TypeOK, ControlTyped, LocalsTyped, control
  <2>3. WorkTyped'
    BY <1>2, <1>5, ToolEffectType DEF WorkTyped
  <2>4. QED  BY <1>1, <2>2, <2>3, TypeFromGroups
<1>6. QED  BY <1>4, <1>5 DEF ExecuteTool

\* The steps that answer a pending call.
LEMMA AnswerType ==
  ASSUME TypeOK, NEW p \in live.pending, NEW ended \in SUBSET Jobs,
         NEW next \in Step,
         \/ Written(ResultRecord(p, ended)) /\ Goto(next)
         \/ AppendFails(ResultRecord(p, ended)) /\ Leave,
         UNCHANGED <<ids, selection, inputs, work, served>>
  PROVE  TypeOK'
BY ResultRecordType, PlainStepType, SameType

\* Committing its result keeps the types.
LEMMA CommitToolResultType ==
  ASSUME TypeOK, CommitToolResult
  PROVE  TypeOK'
<1>1. tells \in SUBSET Jobs /\ "resulted" \in Step
  BY DEF TypeOK, Step
<1>2. QED  BY <1>1, AnswerType DEF CommitToolResult

\* Committing the result of a shell command keeps the types.
LEMMA ShellResultType ==
  ASSUME TypeOK, ShellResult
  PROVE  TypeOK'
<1>1. {} \in SUBSET Jobs /\ "shell_finish" \in Step
  BY DEF Step
<1>2. QED  BY <1>1, AnswerType DEF ShellResult

\* A step that settles calls to leave the loop keeps the types.
LEMMA StopLoopType ==
  ASSUME TypeOK,
         \/ FinishWith("cancelled")
         \/ Goto("boundary"),
         UNCHANGED <<store, live, used, ids, selection, inputs, work, served>>
  PROVE  TypeOK'
<1>1. live' \in State /\ "cancelled" \in RunStatus /\ "boundary" \in Step
  BY DEF TypeOK, RunStatus, Step
<1>2. QED
  BY <1>1, FinishWithType, GotoType, SameStoreType, SameType, TypeFromGroups

\* Settling the calls of a cancelled run keeps the types.
LEMMA SettleCancelledType ==
  ASSUME TypeOK, SettleCancelled
  PROVE  TypeOK'
<1>1. {} \in SUBSET Jobs /\ "settle" \in Step
  BY DEF Step
<1>2. QED  BY <1>1, AnswerType, StopLoopType DEF SettleCancelled

\* Rejecting the calls over the limit keeps the types.
LEMMA RejectOverLimitType ==
  ASSUME TypeOK, RejectOverLimit
  PROVE  TypeOK'
<1>1. {} \in SUBSET Jobs /\ "reject" \in Step
  BY DEF Step
<1>2. QED  BY <1>1, AnswerType, StopLoopType DEF RejectOverLimit

-----------------------------------------------------------------------------
(* The end of an operation.                                                *)

\* Recording the end of a run keeps the types.
LEMMA FinishRunType ==
  ASSUME TypeOK, FinishRun
  PROVE  TypeOK'
<1>1. RunningDetached \in SUBSET Jobs /\ "release" \in Step
  BY DEF RunningDetached, DetachedJobs, Step
<1>2. FinishRecord(status, TRUE, RunningDetached) \in Record
  BY <1>1, RecordTypes DEF TypeOK
<1>3. IdsTyped'
  BY SameType DEF FinishRun
<1>4. QED  BY <1>1, <1>2, <1>3, PlainStepType DEF FinishRun

\* Returning from an operation keeps the types.
LEMMA ReleaseType ==
  ASSUME TypeOK, Release
  PROVE  TypeOK'
<1>1. "idle" \in Step
  BY DEF Step
<1>2. StoreTyped' /\ IdsTyped' /\ InputsTyped' /\ WorkTyped' /\ ServedTyped'
  BY SameStoreType, SameType DEF Release
<1>3. CASE StartApplying("idle")
  BY <1>2, <1>3, StartApplyingType, TypeFromGroups
<1>4. CASE Unlock("idle") /\ UNCHANGED selection
  BY <1>1, <1>2, <1>4, UnlockType, SameType, TypeFromGroups
<1>5. QED  BY <1>3, <1>4 DEF Release

\* Recording the call of a shell command hands out its number.
LEMMA ShellCallType ==
  ASSUME TypeOK, live.selection # {}, ShellCall
  PROVE  TypeOK'
<1>1. "shell_run" \in Step
  BY DEF Step
<1>2. IdsTyped'
  BY DEF ShellCall, TypeOK, IdsTyped
<1>3. QED  BY <1>1, <1>2, ShellResponseType, PlainStepType DEF ShellCall

\* Running a shell command keeps the types.
LEMMA ShellRunType ==
  ASSUME TypeOK, ShellRun
  PROVE  TypeOK'
<1>1. "shell_result" \in Step /\ live' \in State
  BY DEF ShellRun, TypeOK, Step
<1>2. QED
  BY <1>1, GotoType, SameStoreType, SameType, TypeFromGroups DEF ShellRun

\* Recording the end of a shell command keeps the types.
LEMMA ShellFinishType ==
  ASSUME TypeOK, ShellFinish
  PROVE  TypeOK'
<1>1. PICK s \in {"cancelled", "completed", "failed"} :
        \/ Written(FinishRecord(s, FALSE, {})) /\ Goto("release")
        \/ AppendFails(FinishRecord(s, FALSE, {})) /\ Leave
  BY DEF ShellFinish
<1>2. s \in RunStatus /\ {} \in SUBSET Jobs /\ "release" \in Step
  BY DEF RunStatus, Step
<1>3. FinishRecord(s, FALSE, {}) \in Record
  BY <1>2, RecordTypes
<1>4. IdsTyped'
  BY SameType DEF ShellFinish
<1>5. QED  BY <1>1, <1>2, <1>3, <1>4, PlainStepType DEF ShellFinish

\* A cancellation keeps the types.
LEMMA CancelType ==
  ASSUME TypeOK, Cancel
  PROVE  TypeOK'
<1>1. StoreTyped'
  BY SpendType DEF Cancel, TypeOK, StoreTyped, store, Occasions
<1>2. ControlTyped' /\ LocalsTyped'
  BY DEF Cancel, TypeOK, ControlTyped, LocalsTyped, locals
<1>3. QED  BY <1>1, <1>2, SameType, TypeFromGroups DEF Cancel

-----------------------------------------------------------------------------
(* All together.                                                           *)

\* The initial state has the types.
LEMMA InitType ==
  ASSUME Init
  PROVE  TypeOK
<1>1. StoreTyped
  <2>1. journal \in Seq(Record)
    BY DEF Init
  <2>2. durable \in State /\ failed \in BOOLEAN
    BY NewStateType DEF Init
  <2>3. used \in [Occasions -> Nat]
    BY DEF Init
  <2>4. QED  BY <2>1, <2>2, <2>3 DEF StoreTyped
<1>2. LocalsTyped /\ ControlTyped
  BY NewStateType
  DEF Init, LocalsTyped, ControlTyped, RunStatus, Reply, OpKind, Step
<1>3. IdsTyped /\ SelectionTyped /\ InputsTyped /\ WorkTyped /\ ServedTyped
  BY DEF Init, IdsTyped, SelectionTyped, InputsTyped, WorkTyped, ServedTyped,
         JobLife
<1>4. QED  BY <1>1, <1>2, <1>3, TypeGroups

\* A step that changes nothing keeps the types.
LEMMA StutterType ==
  ASSUME TypeOK, UNCHANGED vars
  PROVE  TypeOK'
<1>1. UNCHANGED <<store, used, locals, control, pc, live, ids, selection, inputs,
                  work, served>>
  BY DEF vars
<1>2. QED
  BY <1>1, SameStoreType, SameControlType, SameType, TypeFromGroups

\* A response is only recorded under a selected model.
Selecting == pc \in {"accept", "shell_call"} => live.selection # {}

\* Every step of the runtime and of its surroundings keeps TypeOK.
LEMMA StepType ==
  ASSUME TypeOK, Selecting, [Next]_vars
  PROVE  TypeOK'
<1>1. CASE Open \/ PrepareSession \/ PrepareModel \/ PrepareConfiguration
  BY <1>1, OpenType, PrepareSessionType, PrepareModelType,
     PrepareConfigurationType
<1>2. CASE SyncExternalWork \/ EventCommitted \/ ToolResultCommitted
  BY <1>2, AcknowledgementsType
<1>3. CASE RecordRunStarted \/ RecordInput \/ Boundary \/ DeliverInput
  BY <1>3, RecordRunStartedType, RecordInputType, BoundaryType,
     DeliverInputType
<1>4. CASE OfferEvents \/ DeliverEvent \/ Request \/ Await
  BY <1>4, OfferEventsType, DeliverEventType, RequestType, AwaitType
<1>5. CASE AcceptResponse
  BY <1>5, AcceptResponseType DEF Selecting, AcceptResponse
<1>6. CASE ExecuteTool \/ CommitToolResult \/ SettleCancelled \/ RejectOverLimit
  BY <1>6, ExecuteToolType, CommitToolResultType, SettleCancelledType,
     RejectOverLimitType
<1>7. CASE FinishRun \/ Release \/ ShellRun \/ ShellResult \/ ShellFinish
  BY <1>7, FinishRunType, ReleaseType, ShellRunType, ShellResultType,
     ShellFinishType
<1>8. CASE ShellCall
  BY <1>8, ShellCallType DEF Selecting, ShellCall
<1>9. CASE ApplyModel \/ ApplyConfiguration
  BY <1>9, ApplyModelType, ApplyConfigurationType
<1>10. CASE ReconcileCall \/ ReconcileRun \/ Attach
  BY <1>10, ReconcileCallType, ReconcileRunType, AttachType
<1>11. CASE Reopen \/ Crash \/ Close \/ StartRun \/ StartShell \/ Cancel
  BY <1>11, ReopenType, CrashType, CloseType, StartOperationType, CancelType
<1>12. CASE DeferSelection \/ ApplySelection \/ SetScope
  BY <1>12, DeferSelectionType, ApplySelectionType, SetScopeType
<1>13. CASE QueueInput \/ TakeInput \/ \E job \in Jobs : JobFinishes(job)
  BY <1>13, QueueInputType, TakeInputType, JobFinishesType
<1>14. CASE Rest \/ UNCHANGED vars
  BY <1>14, StutterType DEF Rest
<1>15. QED
  BY <1>1, <1>2, <1>3, <1>4, <1>5, <1>6, <1>7, <1>8, <1>9, <1>10, <1>11,
     <1>12, <1>13, <1>14
  DEF Next, RunStep, OutsideStep

-----------------------------------------------------------------------------
(* The invariant.                                                          *)

\* Identifiers of a state have been handed out.
Within(st, rs, cs, es) ==
  /\ \A r \in st.runs : r <= rs
  /\ \A p \in st.pending : p.call <= cs
  /\ st.epoch <= es

Known(st) == Sound(st) /\ Within(st, runs, calls, epochs)

Settled(st) == st.runs = {} /\ st.pending = {}

InRun == opened /\ live.runs = {run} /\ live.blocks = {run}

Preparing == {"session", "select", "configure", "sync", "start"}

Looping == {"boundary", "queue", "offer", "deliver", "told", "request", "accept",
            "await", "tools", "result", "resulted", "reject", "settle", "finish",
            "shell_call", "shell_run", "shell_result", "shell_finish"}

Answered == Looping \ {"tools", "result", "resulted", "reject", "settle",
                       "shell_run", "shell_result"}

\* What an operation knows of its session at every step.
Placed ==
  /\ pc = "idle" => after = "idle"
  /\ pc \in Preparing => opened /\ Settled(live)
  /\ pc \in Preparing \ {"session"} => live.session
  /\ pc \in {"configure", "sync", "start"} => live.epoch # 0
  /\ pc = "input" => opened /\ live.runs = {run} /\ live.pending = {}
  /\ pc \in Looping => InRun
  /\ pc \in Answered => live.pending = {}
  /\ pc \in {"shell_run", "shell_result"} => \A p, q \in live.pending : p = q
  /\ pc \in {"apply_select", "apply_configure"} =>
       /\ opened
       /\ live.pending = {}
       /\ after = "idle" => live.runs = {}
       /\ after # "idle" => InRun

\* Whatever the place, both states are known and the operation follows the
\* journal.
Kept == Known(durable) /\ Known(live) /\ LiveFollowsJournal

Consistent == Kept /\ Placed

-----------------------------------------------------------------------------
(* Appends.                                                                *)

\* The identifiers of a record have been handed out.
Issued(r, rs, cs, es) ==
  /\ r.kind = "run_started" => r.run <= rs
  /\ r.kind = "model_response" => \A c \in r.calls : c <= cs
  /\ r.kind = "model_selected" => r.epoch <= es

\* A record with identifiers that were handed out keeps a state within them.
LEMMA FitsWithin ==
  ASSUME NEW st \in State, NEW r \in Record, Sound(st), Fits(st, r),
         NEW rs \in Nat, NEW cs \in Nat, NEW es \in Nat,
         Within(st, rs, cs, es), Issued(r, rs, cs, es)
  PROVE  Within(Apply(st, r), rs, cs, es)
<1> DEFINE new == Apply(st, r)
<1>1. Becomes(new, st, r)
  BY FitsFields
<1> HIDE DEF new
<1>2. \A n \in new.runs : n <= rs
  BY <1>1 DEF Becomes, Within, Issued
<1>3. \A p \in new.pending : p.call <= cs
  BY <1>1 DEF Becomes, Within, Issued
<1>4. new.epoch <= es
  BY <1>1 DEF Becomes, Within, Issued
<1>5. QED  BY <1>2, <1>3, <1>4 DEF Within, new

\* What fits a state fits one that agrees with it, and they go on to agree.
LEMMA FitsAgree ==
  ASSUME NEW st \in State, NEW other \in State, NEW r \in Record,
         Sound(st), Sound(other), Agree(st, other), Fits(st, r)
  PROVE  Fits(other, r) /\ Agree(Apply(st, r), Apply(other, r))
<1> DEFINE new == Apply(st, r)
           new2 == Apply(other, r)
<1>1. Fits(other, r)
  <2>1. ASSUME NEW s \in other.selection, r.kind = "model_response"
        PROVE  s.model = r.model
    <3>1. s.model \in {t.model : t \in st.selection}
      BY DEF Agree
    <3>2. QED  BY <2>1, <3>1 DEF Fits
  <2>2. QED  BY <2>1 DEF Fits, Agree
<1>2. Becomes(new, st, r) /\ Becomes(new2, other, r)
  BY <1>1, FitsFields
<1>3. {s.model : s \in new.selection} = {s.model : s \in new2.selection}
  <2>1. CASE r.kind = "session_configured"
    <3>1. PICK a \in ModelInfo, b \in ModelInfo :
            st.selection = {a} /\ other.selection = {b}
      BY <1>1, <2>1 DEF Fits, Sound
    <3>2. a.model = b.model
      BY <3>1 DEF Agree
    <3> DEFINE moved(s) == [s EXCEPT !.endpoint = r.config.endpoint]
    <3>3. /\ new.selection = {moved(s) : s \in st.selection}
          /\ new2.selection = {moved(s) : s \in other.selection}
      BY <1>2, <2>1 DEF Becomes
    <3>4. moved(a).model = a.model /\ moved(b).model = b.model
      BY DEF ModelInfo
    <3> HIDE DEF moved, new, new2
    <3>5. QED  BY <3>1, <3>2, <3>3, <3>4
  <2>2. CASE r.kind = "model_selected"
    <3>1. new.selection = new2.selection
      BY <1>2, <2>2 DEF Becomes
    <3>2. QED  BY <3>1
  <2>3. CASE r.kind \notin {"session_configured", "model_selected"}
    <3>1. new.selection = st.selection /\ new2.selection = other.selection
      BY <1>2, <2>3 DEF Becomes
    <3>2. QED  BY <3>1 DEF Agree
  <2>4. QED  BY <2>1, <2>2, <2>3
<1> HIDE DEF new, new2
<1>4. Agree(new, new2)
  BY <1>2, <1>3 DEF Becomes, Agree
<1>5. QED  BY <1>1, <1>4 DEF new, new2

\* Identifiers are only handed out, never taken back.
Later == runs <= runs' /\ calls <= calls' /\ epochs <= epochs'

\* A known state stays known while identifiers are handed out.
LEMMA StaysKnown ==
  ASSUME TypeOK, TypeOK', Later, NEW st \in State, Known(st)
  PROVE  Sound(st) /\ Within(st, runs', calls', epochs')
<1>1. /\ \A n \in st.runs : n \in Nat
      /\ \A p \in st.pending : p.call \in Nat
      /\ st.epoch \in Nat
  BY DEF State, PendingTool
<1>2. /\ runs \in Nat /\ calls \in Nat /\ epochs \in Nat
      /\ runs' \in Nat /\ calls' \in Nat /\ epochs' \in Nat
  BY DEF TypeOK
<1>3. Sound(st) /\ Within(st, runs, calls, epochs)
  BY DEF Known
<1>4. Within(st, runs', calls', epochs')
  BY <1>1, <1>2, <1>3 DEF Within, Later
<1>5. QED  BY <1>3, <1>4

\* A known state and a record that fits it lead to a known state.
LEMMA StaysKnownApplied ==
  ASSUME TypeOK, TypeOK', Later, NEW st \in State, Known(st),
         NEW r \in Record, Fits(st, r), Issued(r, runs', calls', epochs')
  PROVE  /\ Sound(Apply(st, r))
         /\ Within(Apply(st, r), runs', calls', epochs')
<1>1. Sound(st) /\ Within(st, runs', calls', epochs')
  BY StaysKnown
<1>2. runs' \in Nat /\ calls' \in Nat /\ epochs' \in Nat
  BY DEF TypeOK
<1>3. QED  BY <1>1, <1>2, FitsSound, FitsWithin

\* The state of an empty journal is sound.
LEMMA NewStateKnown == TypeOK' => Known(NewState)'
BY DEF NewState, Known, Sound, Within, TypeOK

\* An operation that follows the journal appends a record that fits its state;
\* whether that works or not, it still follows the journal or returns.
LEMMA AppendStep ==
  ASSUME TypeOK, TypeOK', Kept, Later, opened \/ pc = "reconcile",
         NEW r \in Record, Fits(live, r), Issued(r, runs', calls', epochs'),
         \/ Written(r)
         \/ AppendFails(r) /\ live' = live
         \/ /\ AppendFails(r) \/ Persisted(r)
            /\ live' = NewState
            /\ opened' = FALSE
            /\ pc' # "reconcile"
  PROVE  Kept'
<1>1. live \in State /\ durable \in State
  BY DEF TypeOK
<1>2. Known(live) /\ Known(durable) /\ Sound(live) /\ Sound(durable)
  BY DEF Kept, Known
<1>3. ~failed => Fits(durable, r) /\ Agree(Apply(live, r), Apply(durable, r))
  <2>1. ~failed => Agree(live, durable)
    BY DEF Kept, LiveFollowsJournal
  <2>2. QED  BY <1>1, <1>2, <2>1, FitsAgree
<1>4. \/ durable' = durable
      \/ ~failed /\ durable' = Apply(durable, r)
  BY DEF Written, Persisted, AppendFails, Stored, store
<1>5. Known(durable)'
  BY <1>1, <1>2, <1>3, <1>4, StaysKnown, StaysKnownApplied DEF Known
<1>6. \/ live' = live \/ live' = NewState
      \/ live' = Apply(live, r)
  BY DEF Written
<1>7. Known(live)'
  BY <1>1, <1>2, <1>6, StaysKnown, StaysKnownApplied, NewStateKnown DEF Known
<1>8. LiveFollowsJournal'
  <2>1. CASE Written(r)
    <3>1. live' = Apply(live, r) /\ durable' = Apply(durable, r) /\ ~failed
      BY <2>1 DEF Written, Persisted, Stored
    <3>2. QED  BY <1>3, <3>1 DEF LiveFollowsJournal
  <2>2. CASE AppendFails(r) /\ live' = live
    <3>1. CASE failed'
      BY <3>1 DEF LiveFollowsJournal
    <3>2. CASE ~failed'
      <4>1. durable' = durable /\ ~failed
        BY <2>2, <3>2 DEF AppendFails, store, TypeOK
      <4>2. QED  BY <2>2, <4>1 DEF Kept, LiveFollowsJournal
    <3>3. QED  BY <3>1, <3>2
  <2>3. CASE opened' = FALSE /\ pc' # "reconcile"
    BY <2>3 DEF LiveFollowsJournal
  <2>4. QED  BY <2>1, <2>2, <2>3
<1>9. QED  BY <1>5, <1>7, <1>8 DEF Kept

\* A step that appends nothing.
LEMMA QuietStep ==
  ASSUME TypeOK, TypeOK', Kept, UNCHANGED <<durable, runs, calls, epochs>>,
         \/ UNCHANGED <<failed, opened, live>> /\ pc # "reconcile"
            /\ pc' # "reconcile"
         \/ live' = NewState /\ opened' = FALSE /\ pc' # "reconcile"
         \/ live' = durable
  PROVE  Kept'
<1>1. Known(durable) /\ Known(live) /\ durable \in State /\ live \in State
  BY DEF Kept, TypeOK
<1>2. Later
  BY DEF Later, TypeOK
<1>3. Known(durable)'
  BY <1>1, <1>2, StaysKnown DEF Known
<1>4. live' = live \/ live' = NewState \/ live' = durable
  OBVIOUS
<1>5. Known(live)'
  BY <1>1, <1>2, <1>4, StaysKnown, NewStateKnown DEF Known
<1>6. LiveFollowsJournal'
  <2>1. CASE UNCHANGED <<failed, opened, live>> /\ pc # "reconcile"
             /\ pc' # "reconcile"
    BY <2>1 DEF Kept, LiveFollowsJournal
  <2>2. CASE opened' = FALSE /\ pc' # "reconcile"
    BY <2>2 DEF LiveFollowsJournal
  <2>3. CASE live' = durable
    BY <2>3 DEF LiveFollowsJournal, Agree
  <2>4. QED  BY <2>1, <2>2, <2>3
<1>7. QED  BY <1>3, <1>5, <1>6 DEF Kept

-----------------------------------------------------------------------------
(* Places.                                                                 *)

\* Steps that say nothing of the session.
LEMMA FreePlace ==
  pc' \in {"down", "reconcile", "open", "release"} => Placed'
BY DEF Placed, Preparing, Looping, Answered

\* An operation that returns leaves nothing to know.
LEMMA UnlockPlace ==
  ASSUME NEW next \in {"idle", "down"}, Unlock(next)
  PROVE  Placed' /\ live' = NewState /\ opened' = FALSE /\ pc' # "reconcile"
BY DEF Unlock, InitLocals, Placed, Preparing, Looping, Answered

\* An operation that gives up leaves nothing to know.
LEMMA LeavePlace ==
  ASSUME Leave
  PROVE  Placed' /\ live' = live /\ opened' = opened /\ pc' = "release"
BY FreePlace DEF Leave, Goto, control

\* A run whose calls are answered can end.
LEMMA FinishPlace ==
  ASSUME NEW s, FinishWith(s), InRun, live.pending = {}, live' = live
  PROVE  Placed' /\ opened' = opened /\ pc' = "finish"
BY DEF FinishWith, control, InRun, Placed, Preparing, Looping, Answered

\* A run whose calls are answered can end with an error.
LEMMA FinishErrorPlace ==
  ASSUME FinishError, InRun, live.pending = {}
  PROVE  Placed' /\ live' = live /\ opened' = opened /\ pc' = "finish"
<1>1. live' = live
  BY DEF FinishError
<1>2. QED  BY <1>1, FinishPlace DEF FinishError

\* A step aside leaves the operation where it is.
LEMMA SamePlace ==
  ASSUME Placed, UNCHANGED <<pc, live, opened, run, after>>
  PROVE  Placed'
BY DEF Placed, InRun, Settled

-----------------------------------------------------------------------------
(* Consistent is inductive: process life.                                  *)

\* A step that hands out nothing hands out no less.
LEMMA SameIds ==
  ASSUME TypeOK, UNCHANGED ids
  PROVE  Later /\ UNCHANGED <<runs, calls, epochs>>
BY DEF TypeOK, ids, Later

\* An empty journal is consistent.
LEMMA InitConsistent ==
  ASSUME Init
  PROVE  Consistent
<1>1. Known(durable) /\ Known(live)
  BY DEF Init, NewState, Known, Sound, Within
<1>2. LiveFollowsJournal
  BY DEF Init, LiveFollowsJournal
<1>3. Placed
  BY DEF Init, Placed, Preparing, Looping, Answered
<1>4. QED  BY <1>1, <1>2, <1>3 DEF Consistent, Kept

\* A new process starts from what the journal says.
LEMMA ReopenConsistent ==
  ASSUME TypeOK, TypeOK', Consistent, Reopen
  PROVE  Consistent'
<1>1. live' = durable /\ durable' = durable /\ UNCHANGED ids /\ pc' = "reconcile"
  BY DEF Reopen, store
<1>2. Kept'
  BY <1>1, SameIds, QuietStep DEF Consistent
<1>3. Placed'
  BY <1>1, FreePlace
<1>4. QED  BY <1>2, <1>3 DEF Consistent

\* A record of reconciliation that fits keeps Consistent.
LEMMA ReconcileAppendsConsistent ==
  ASSUME TypeOK, TypeOK', Consistent, pc = "reconcile", NEW r \in Record,
         Fits(live, r), r.kind \in {"tool_result", "run_finished"},
         ReconcileAppends(r)
  PROVE  Consistent'
<1>1. Kept /\ Placed /\ Later
  BY SameIds DEF Consistent, ReconcileAppends
<1>2. Issued(r, runs', calls', epochs')
  BY DEF Issued
<1>3. CASE Written(r) /\ Goto("reconcile")
  <2>1. pc' = "reconcile"
    BY <1>3 DEF Goto
  <2>2. QED  BY <1>1, <1>2, <1>3, <2>1, AppendStep, FreePlace DEF Consistent
<1>4. CASE AppendFails(r) /\ Unlock("down")
  <2>1. Placed' /\ live' = NewState /\ opened' = FALSE /\ pc' # "reconcile"
    BY <1>4, UnlockPlace
  <2>2. QED  BY <1>1, <1>2, <1>4, <2>1, AppendStep DEF Consistent
<1>5. QED  BY <1>3, <1>4 DEF ReconcileAppends

\* The record of a result fits as long as its call is open.
LEMMA ResultFits ==
  ASSUME TypeOK, Known(live), NEW p \in live.pending, NEW ended \in SUBSET Jobs
  PROVE  /\ ResultRecord(p, ended) \in Record
         /\ Fits(live, ResultRecord(p, ended))
         /\ ResultRecord(p, ended).kind = "tool_result"
<1> DEFINE r == ResultRecord(p, ended)
<1>1. r \in Record
  BY ResultRecordType
<1>2. r.kind = "tool_result" /\ r.run = p.run /\ r.call = p.call
  BY DEF ResultRecord
<1>3. p = [run |-> p.run, call |-> p.call]
  BY DEF TypeOK, State, PendingTool
<1>4. p.run \in live.blocks /\ live.session
  <2>1. p.run \in live.blocks /\ live.blocks \subseteq live.runs
    BY DEF Known, Sound
  <2>2. live.runs # {}
    BY <2>1
  <2>3. QED  BY <2>1, <2>2 DEF Known, Sound
<1> HIDE DEF r
<1>5. Fits(live, r)
  BY <1>2, <1>3, <1>4 DEF Fits
<1>6. QED  BY <1>1, <1>2, <1>5 DEF r

\* An open call belongs to an unfinished run, so its result fits.
LEMMA ReconcileCallConsistent ==
  ASSUME TypeOK, TypeOK', Consistent, ReconcileCall
  PROVE  Consistent'
<1>1. PICK p \in live.pending :
        ReconcileAppends([kind |-> "tool_result", run |-> p.run,
                          call |-> p.call, tells |-> {}])
  BY DEF ReconcileCall
<1>2. ReconcileAppends(ResultRecord(p, {}))
  BY <1>1 DEF ResultRecord
<1>3. pc = "reconcile" /\ Known(live) /\ {} \in SUBSET Jobs
  BY DEF Consistent, ReconcileCall, Kept
<1>4. QED  BY <1>2, <1>3, ResultFits, ReconcileAppendsConsistent

\* A run without open calls can be interrupted.
LEMMA ReconcileRunConsistent ==
  ASSUME TypeOK, TypeOK', Consistent, ReconcileRun
  PROVE  Consistent'
<1>1. PICK n \in live.runs :
        ReconcileAppends([kind |-> "run_finished", run |-> n,
                          status |-> "interrupted", observed |-> FALSE,
                          detached |-> {}])
  BY DEF ReconcileRun
<1> DEFINE r == [kind |-> "run_finished", run |-> n, status |-> "interrupted",
                 observed |-> FALSE, detached |-> {}]
<1>2. n \in Nat
  BY DEF TypeOK, State
<1>3. r \in Record
  BY <1>2 DEF Record, RunStatus
<1>4. Sound(live) /\ live.pending = {} /\ pc = "reconcile"
  BY DEF ReconcileRun, Consistent, Kept, Known
<1>5. Fits(live, r)
  BY <1>4 DEF Fits, Sound
<1>6. QED  BY <1>1, <1>3, <1>4, <1>5, ReconcileAppendsConsistent

\* An operation that returns without an append.
LEMMA UnlockConsistent ==
  ASSUME TypeOK, TypeOK', Consistent, NEW next \in {"idle", "down"},
         Unlock(next), durable' = durable, UNCHANGED ids
  PROVE  Consistent'
<1>1. Placed' /\ live' = NewState /\ opened' = FALSE /\ pc' # "reconcile"
  BY UnlockPlace
<1>2. QED  BY <1>1, SameIds, QuietStep DEF Consistent

\* The journal outlives the process.
LEMMA ProcessConsistent ==
  ASSUME TypeOK, TypeOK', Consistent, Attach \/ Crash \/ Close
  PROVE  Consistent'
<1>1. Attach => Unlock("idle") /\ durable' = durable /\ UNCHANGED ids
  BY DEF Attach, store
<1>2. ProcessEnds => Unlock("down") /\ durable' = durable /\ UNCHANGED ids
  BY DEF ProcessEnds
<1>3. QED  BY <1>1, <1>2, UnlockConsistent DEF Crash, Close

\* Steps of users and jobs touch neither an operation nor what it reads.
LEMMA AsideConsistent ==
  ASSUME TypeOK, TypeOK', Consistent,
         UNCHANGED <<pc, live, opened, run, after, durable, failed, ids>>
  PROVE  Consistent'
<1>1. Placed'
  BY SamePlace DEF Consistent
<1>2. CASE pc # "reconcile"
  BY <1>1, <1>2, SameIds, QuietStep DEF Consistent
<1>3. CASE pc = "reconcile"
  BY <1>1, <1>3, SameIds
  DEF Consistent, Kept, Known, Sound, Within, LiveFollowsJournal, Agree
<1>4. QED  BY <1>2, <1>3

\* What users and jobs do does not touch the journal.
LEMMA OutsideConsistent ==
  ASSUME TypeOK, TypeOK', Consistent,
         \/ Cancel \/ DeferSelection \/ QueueInput \/ TakeInput
         \/ \E job \in Jobs : JobFinishes(job)
         \/ Rest \/ UNCHANGED vars
  PROVE  Consistent'
<1>1. UNCHANGED <<pc, live, opened, run, after, durable, failed, ids>>
  BY DEF Cancel, DeferSelection, QueueInput, TakeInput, JobFinishes, Rest, vars,
         store, locals, control
<1>2. QED  BY <1>1, AsideConsistent

\* An operation that takes runMu knows nothing yet.
LEMMA StartConsistent ==
  ASSUME TypeOK, TypeOK', Consistent, StartRun \/ StartShell
  PROVE  Consistent'
<1>1. pc = "idle" /\ pc' = "open" /\ UNCHANGED <<failed, opened, live, durable, ids>>
  BY DEF StartRun, StartShell, Lock, store
<1>2. QED  BY <1>1, SameIds, QuietStep, FreePlace DEF Consistent

\* An operation goes on only from a settled journal.
LEMMA OpenConsistent ==
  ASSUME TypeOK, TypeOK', Consistent, Open
  PROVE  Consistent'
<1>1. pc = "open" /\ UNCHANGED <<durable, failed, ids>> /\ Kept /\ UNCHANGED <<runs, calls, epochs>>
  BY SameIds DEF Consistent, Open, store
<1>2. CASE Leave
  BY <1>1, <1>2, LeavePlace, QuietStep DEF Consistent
<1>3. CASE /\ live' = durable
           /\ opened' = TRUE
           /\ pc' = IF HasUnfinishedWork(durable) THEN "release" ELSE "session"
  <2>1. Placed'
    BY <1>3
    DEF HasUnfinishedWork, Placed, Settled, Preparing, Looping, Answered
  <2>2. QED  BY <1>1, <1>3, <2>1, QuietStep DEF Consistent
<1>4. QED  BY <1>2, <1>3 DEF Open

-----------------------------------------------------------------------------
(* Consistent is inductive: steps that append a record.                    *)

\* What an append that works makes of the operation's state.
LEMMA WrittenFields ==
  ASSUME TypeOK, Known(live), NEW r \in Record, Fits(live, r), Written(r)
  PROVE  Becomes(live', live, r) /\ Sound(live)
<1>1. live \in State /\ Sound(live) /\ live' = Apply(live, r)
  BY DEF TypeOK, Known, Written
<1>2. QED  BY <1>1, FitsFields

\* A step appends a record that fits and goes on at a place that suits its
\* new state, or gives up.
LEMMA AppendConsistent ==
  ASSUME TypeOK, TypeOK', Consistent, Later, opened,
         NEW r \in Record, Fits(live, r), Issued(r, runs', calls', epochs'),
         \/ Written(r) /\ (Becomes(live', live, r) /\ Sound(live) => Placed')
         \/ AppendFails(r) /\ Leave
         \/ AppendFails(r) /\ FinishError /\ InRun /\ live.pending = {}
         \/ (AppendFails(r) \/ Persisted(r)) /\ Unlock("idle")
  PROVE  Consistent'
<1>1. Kept /\ Known(live)
  BY DEF Consistent, Kept
<1>2. CASE Written(r) /\ (Becomes(live', live, r) /\ Sound(live) => Placed')
  BY <1>1, <1>2, AppendStep, WrittenFields DEF Consistent
<1>3. CASE AppendFails(r) /\ Leave
  BY <1>1, <1>3, AppendStep, LeavePlace DEF Consistent
<1>4. CASE AppendFails(r) /\ FinishError /\ InRun /\ live.pending = {}
  BY <1>1, <1>4, AppendStep, FinishErrorPlace DEF Consistent
<1>5. CASE (AppendFails(r) \/ Persisted(r)) /\ Unlock("idle")
  BY <1>1, <1>5, AppendStep, UnlockPlace DEF Consistent
<1>6. QED  BY <1>2, <1>3, <1>4, <1>5

\* A step of an operation that appends nothing and goes on.
LEMMA MoveConsistent ==
  ASSUME TypeOK, TypeOK', Consistent, pc # "reconcile", pc' # "reconcile",
         UNCHANGED <<store, live, opened, ids>>, Placed'
  PROVE  Consistent'
BY SameIds, QuietStep DEF Consistent, store

\* A session is started once.
LEMMA PrepareSessionConsistent ==
  ASSUME TypeOK, TypeOK', Consistent, PrepareSession
  PROVE  Consistent'
<1> DEFINE r == [kind |-> "session_started"]
<1>1. pc = "session" /\ opened /\ Settled(live)
  BY DEF PrepareSession, Consistent, Placed, Preparing
<1>2. UNCHANGED ids /\ Later
  BY SameIds DEF PrepareSession
<1>3. CASE live.session /\ Goto("select") /\ UNCHANGED <<store, live, used>>
  <2>1. Placed' /\ pc' # "reconcile" /\ opened' = opened
    BY <1>1, <1>3
    DEF Goto, control, Placed, Preparing, Looping, Answered, Settled
  <2>2. QED  BY <1>1, <1>2, <1>3, <2>1, MoveConsistent
<1>4. CASE /\ ~live.session
           /\ \/ Written(r) /\ Goto("select")
              \/ AppendFails(r) /\ Leave
  <2>1. r \in Record /\ Fits(live, r) /\ Issued(r, runs', calls', epochs')
    BY <1>4, RecordTypes DEF Fits, Issued
  <2>2. ASSUME Goto("select"), Becomes(live', live, r)
        PROVE  Placed'
    BY <1>1, <2>2
    DEF Goto, control, Becomes, Placed, Preparing, Looping, Answered, Settled
  <2>3. QED  BY <1>1, <1>2, <1>4, <2>1, <2>2, AppendConsistent
<1>5. QED  BY <1>3, <1>4 DEF PrepareSession

\* What fits when a model is selected.
LEMMA SelectionFits ==
  ASSUME TypeOK, Known(live), live.session, live.pending = {},
         NEW info \in ModelInfo, epochs' = epochs + 1
  PROVE  /\ SelectionRecord(info) \in Record
         /\ Fits(live, SelectionRecord(info))
         /\ Issued(SelectionRecord(info), runs', calls', epochs')
<1> DEFINE r == SelectionRecord(info)
<1>1. r \in Record
  BY RecordTypes
<1>2. r.kind = "model_selected" /\ r.epoch = epochs + 1
  BY DEF SelectionRecord
<1>3. live.epoch <= epochs /\ live.epoch \in Nat /\ epochs \in Nat
  BY DEF Known, Within, TypeOK, State
<1> HIDE DEF r
<1>4. Fits(live, r) /\ Issued(r, runs', calls', epochs')
  BY <1>2, <1>3 DEF Fits, Issued
<1>5. QED  BY <1>1, <1>4 DEF r

\* An operation has an epoch before it records a configuration.
LEMMA PrepareModelConsistent ==
  ASSUME TypeOK, TypeOK', Consistent, PrepareModel
  PROVE  Consistent'
<1>1. pc = "select" /\ opened /\ Settled(live) /\ live.session /\ Known(live)
  BY DEF PrepareModel, Consistent, Kept, Placed, Preparing
<1>2. config.info \in ModelInfo
  BY DEF TypeOK, Configuration
<1>3. CASE /\ KeepsEpoch(live, config.info)
           /\ Goto("configure")
           /\ UNCHANGED <<store, live, epochs, used>>
  <2>1. Placed' /\ pc' # "reconcile" /\ opened' = opened
    BY <1>1, <1>3 DEF KeepsEpoch, Goto, control, Placed, Preparing, Looping,
                      Answered, Settled
  <2>2. UNCHANGED ids
    BY <1>3 DEF PrepareModel, ids
  <2>3. QED  BY <1>1, <1>3, <2>1, <2>2, MoveConsistent
<1>4. CASE /\ epochs' = epochs + 1
           /\ \/ /\ Written(SelectionRecord(config.info))
                 /\ Goto("configure")
              \/ AppendFails(SelectionRecord(config.info)) /\ Leave
  <2> DEFINE r == SelectionRecord(config.info)
  <2>1. /\ r \in Record /\ Fits(live, r) /\ Issued(r, runs', calls', epochs')
        /\ r.kind = "model_selected" /\ r.epoch = epochs + 1
    BY <1>1, <1>2, <1>4, SelectionFits DEF Settled, SelectionRecord
  <2>2. Later /\ epochs + 1 # 0
    BY <1>4 DEF Later, PrepareModel, TypeOK
  <2>3. ASSUME Goto("configure"), Becomes(live', live, r)
        PROVE  Placed'
    <3> HIDE DEF r
    <3>1. QED
      BY <1>1, <2>1, <2>2, <2>3
      DEF Goto, control, Becomes, Placed, Preparing, Looping, Answered, Settled
  <2> HIDE DEF r
  <2>4. \/ Written(r) /\ Goto("configure")
        \/ AppendFails(r) /\ Leave
    BY <1>4 DEF r
  <2>5. QED  BY <1>1, <2>1, <2>2, <2>3, <2>4, AppendConsistent
<1>5. QED  BY <1>3, <1>4 DEF PrepareModel, SelectModel

\* The record of a configuration fits when a model is selected.
LEMMA ConfigurationFits ==
  ASSUME TypeOK, NEW st, st.session, st.epoch # 0,
         NEW c \in Configuration, NEW s \in Scopes
  PROVE  /\ ConfigurationRecord(c, s) \in Record
         /\ ConfigurationRecord(c, s).kind = "session_configured"
         /\ Fits(st, ConfigurationRecord(c, s))
         /\ Issued(ConfigurationRecord(c, s), runs', calls', epochs')
BY RecordTypes DEF ConfigurationRecord, Fits, Issued

\* A configuration is recorded in a session that has an epoch.
LEMMA PrepareConfigurationConsistent ==
  ASSUME TypeOK, TypeOK', Consistent, PrepareConfiguration
  PROVE  Consistent'
<1> DEFINE r == ConfigurationRecord(config, scope)
           next == IF op = "run" THEN "sync" ELSE "start"
<1>1. /\ pc = "configure" /\ opened /\ Settled(live) /\ live.session
      /\ live.epoch # 0
  BY DEF PrepareConfiguration, Consistent, Placed, Preparing
<1>2. UNCHANGED ids /\ Later
  BY SameIds DEF PrepareConfiguration
<1>3. config \in Configuration /\ scope \in Scopes
  BY DEF TypeOK
<1>4. /\ r \in Record /\ Fits(live, r) /\ Issued(r, runs', calls', epochs')
      /\ r.kind = "session_configured"
  BY <1>1, <1>3, ConfigurationFits
<1>5. next \in {"sync", "start"}
  OBVIOUS
<1>6. \/ Goto(next) /\ UNCHANGED <<store, live, used>>
      \/ Written(r) /\ Goto(next)
      \/ AppendFails(r) /\ Leave
  BY DEF PrepareConfiguration
<1> HIDE DEF r, next
<1>7. ASSUME Goto(next), \/ live' = live
                        \/ Becomes(live', live, r)
      PROVE  Placed' /\ pc' # "reconcile" /\ opened' = opened
  BY <1>1, <1>4, <1>5, <1>7
  DEF Goto, control, Becomes, Placed, Preparing, Looping, Answered, Settled
<1>8. CASE Goto(next) /\ UNCHANGED <<store, live, used>>
  BY <1>1, <1>2, <1>7, <1>8, MoveConsistent
<1>9. CASE \/ Written(r) /\ Goto(next)
           \/ AppendFails(r) /\ Leave
  BY <1>1, <1>2, <1>4, <1>7, <1>9, AppendConsistent
<1>10. QED  BY <1>6, <1>8, <1>9

\* Acknowledging appends nothing.
LEMMA SyncExternalWorkConsistent ==
  ASSUME TypeOK, TypeOK', Consistent, SyncExternalWork
  PROVE  Consistent'
<1>1. Placed' /\ pc # "reconcile" /\ pc' # "reconcile" /\ opened' = opened
  BY DEF SyncExternalWork, Consistent, Goto, control, Placed, Preparing, Looping,
         Answered, Settled
<1>2. QED  BY <1>1, MoveConsistent DEF SyncExternalWork

\* A run starts when no other is unfinished, under a new number.
LEMMA RecordRunStartedConsistent ==
  ASSUME TypeOK, TypeOK', Consistent, RecordRunStarted
  PROVE  Consistent'
<1> DEFINE r == [kind |-> "run_started", run |-> runs + 1]
<1>1. /\ pc = "start" /\ opened /\ Settled(live) /\ live.session
      /\ live.epoch # 0
  BY DEF RecordRunStarted, Consistent, Placed, Preparing
<1>2. runs + 1 \in Nat /\ runs <= runs + 1 /\ calls <= calls /\ epochs <= epochs
  BY DEF TypeOK
<1>3. Later /\ runs' = runs + 1
  BY <1>2 DEF RecordRunStarted, Later
<1>4. r \in Record /\ Fits(live, r) /\ Issued(r, runs', calls', epochs')
  BY <1>1, <1>2, <1>3, RecordTypes DEF Fits, Issued, Settled
<1>5. ASSUME run' = runs + 1, pc' = "input", UNCHANGED control,
             Becomes(live', live, r)
      PROVE  Placed'
  <2>1. live'.runs = {runs + 1} /\ live'.pending = {} /\ opened'
    BY <1>1, <1>5 DEF Becomes, Settled, control
  <2>2. QED  BY <1>5, <2>1 DEF Placed, Preparing, Looping, Answered
<1>6. \/ Written(r) /\ run' = runs + 1 /\ pc' = "input" /\ UNCHANGED control
      \/ AppendFails(r) /\ Leave
  BY DEF RecordRunStarted
<1> HIDE DEF r
<1>7. QED  BY <1>1, <1>3, <1>4, <1>5, <1>6, AppendConsistent

\* The first input of a run belongs to it.
LEMMA RecordInputConsistent ==
  ASSUME TypeOK, TypeOK', Consistent, RecordInput
  PROVE  Consistent'
<1> DEFINE r == [kind |-> "run_input_added", run |-> run, input |-> 0]
           next == IF op = "run" THEN "boundary" ELSE "shell_call"
<1>1. pc = "input" /\ opened /\ live.runs = {run} /\ live.pending = {} /\ Sound(live)
  BY DEF RecordInput, Consistent, Kept, Known, Placed
<1>2. UNCHANGED ids /\ Later
  BY SameIds DEF RecordInput
<1>3. r \in Record /\ Fits(live, r) /\ Issued(r, runs', calls', epochs')
  BY <1>1, RecordTypes DEF TypeOK, Fits, Issued, Sound
<1>4. next \in {"boundary", "shell_call"}
  OBVIOUS
<1>5. ASSUME Goto(next), Becomes(live', live, r)
      PROVE  Placed'
  <2>1. live'.runs = {run} /\ live'.pending = {} /\ live'.blocks = {run}
    BY <1>1, <1>5 DEF Becomes, Sound
  <2>2. opened' /\ run' = run /\ pc' = next
    BY <1>1, <1>5 DEF Goto, control, locals
  <2> HIDE DEF next
  <2>3. QED
    BY <1>4, <2>1, <2>2 DEF InRun, Placed, Preparing, Looping, Answered
<1>6. \/ Written(r) /\ Goto(next)
      \/ AppendFails(r) /\ Leave
  BY DEF RecordInput
<1> HIDE DEF r, next
<1>7. QED  BY <1>1, <1>2, <1>3, <1>5, <1>6, AppendConsistent

-----------------------------------------------------------------------------
(* Consistent is inductive: the loop of a run.                             *)

Unanswered == {"tools", "result", "resulted", "reject", "settle"}

\* A run goes on where it may have open calls, or anywhere if it has none.
LEMMA LoopPlace ==
  ASSUME InRun, UNCHANGED <<opened, run>>,
         live'.runs = live.runs, live'.blocks = live.blocks,
         \/ pc' \in Unanswered
         \/ pc' \in Looping /\ live'.pending = {}
  PROVE  Placed' /\ pc' # "reconcile"
<1>1. CASE pc' \in Unanswered
  BY <1>1 DEF Unanswered, InRun, Placed, Preparing, Looping, Answered
<1>2. CASE pc' \in Looping /\ live'.pending = {}
  BY <1>2 DEF InRun, Placed, Preparing, Looping, Answered
<1>3. QED  BY <1>1, <1>2

\* The same for a step that leaves the session alone.
LEMMA LoopConsistent ==
  ASSUME TypeOK, TypeOK', Consistent, pc \in Looping,
         UNCHANGED <<store, live, ids, opened, run>>,
         \/ pc' \in Unanswered
         \/ pc' \in Looping /\ live.pending = {}
  PROVE  Consistent'
<1>1. InRun /\ pc # "reconcile"
  BY DEF Consistent, Placed, Looping
<1>2. Placed' /\ pc' # "reconcile"
  BY <1>1, LoopPlace
<1>3. QED  BY <1>1, <1>2, MoveConsistent

\* A record of a run that works leads on along its loop.
LEMMA LoopAppendConsistent ==
  ASSUME TypeOK, TypeOK', Consistent, pc \in Looping, Later,
         NEW r \in Record, Fits(live, r), Issued(r, runs', calls', epochs'),
         r.kind \in {"run_input_added", "model_response", "tool_result",
                    "boundary_event"},
         r.kind = "run_input_added" => r.run = run,
         \/ /\ Written(r)
            /\ UNCHANGED <<opened, run>>
            /\ \/ pc' \in Unanswered
               \/ /\ pc' \in Looping
                  /\ Becomes(live', live, r) => live'.pending = {}
         \/ AppendFails(r) /\ Leave
         \/ AppendFails(r) /\ FinishError /\ live.pending = {}
  PROVE  Consistent'
<1>1. InRun
  BY DEF Consistent, Placed
<1>2. ASSUME Becomes(live', live, r)
      PROVE  live'.runs = live.runs /\ live'.blocks = live.blocks
  BY <1>1, <1>2 DEF Becomes, InRun
<1>3. opened
  BY <1>1 DEF InRun
<1>4. CASE /\ Written(r)
           /\ UNCHANGED <<opened, run>>
           /\ \/ pc' \in Unanswered
              \/ /\ pc' \in Looping
                 /\ Becomes(live', live, r) => live'.pending = {}
  BY <1>1, <1>2, <1>3, <1>4, LoopPlace, AppendConsistent
<1>5. CASE \/ AppendFails(r) /\ Leave
           \/ AppendFails(r) /\ FinishError /\ live.pending = {}
  BY <1>1, <1>3, <1>5, AppendConsistent
<1>6. QED  BY <1>4, <1>5

\* An operation turns to the application of a selection.
LEMMA StartApplyingConsistent ==
  ASSUME TypeOK, TypeOK', Consistent, pc # "reconcile",
         NEW next \in {"idle", "queue", "request"}, StartApplying(next),
         opened, live.pending = {},
         next = "idle" => live.runs = {}, next # "idle" => InRun,
         UNCHANGED <<store, ids>>
  PROVE  Consistent'
<1>1. pc' = "apply_select" /\ after' = next /\ UNCHANGED <<live, opened, run>>
  BY DEF StartApplying, control
<1>2. Placed'
  BY <1>1 DEF InRun, Placed, Preparing, Looping, Answered
<1>3. QED  BY <1>1, <1>2, MoveConsistent

\* No call is open at a request boundary.
LEMMA BoundaryConsistent ==
  ASSUME TypeOK, TypeOK', Consistent, Boundary
  PROVE  Consistent'
<1> DEFINE next == IF limited THEN "request" ELSE "queue"
<1>1. InRun /\ opened /\ live.pending = {} /\ pc = "boundary"
  BY DEF Boundary, Consistent, Placed, Looping, Answered, InRun
<1>2. UNCHANGED <<store, ids>>
  BY DEF Boundary
<1>3. next \in {"queue", "request"}
  OBVIOUS
<1>4. \/ Goto(next) /\ UNCHANGED <<live, selection>>
      \/ StartApplying(next)
  BY DEF Boundary
<1> HIDE DEF next
<1>5. CASE Goto(next) /\ UNCHANGED <<live, selection>>
  BY <1>1, <1>2, <1>3, <1>5, LoopConsistent DEF Goto, control, locals, Looping
<1>6. CASE StartApplying(next)
  BY <1>1, <1>2, <1>3, <1>6, StartApplyingConsistent
<1>7. QED  BY <1>4, <1>5, <1>6

\* Queued input arrives when no call is open.
LEMMA DeliverInputConsistent ==
  ASSUME TypeOK, TypeOK', Consistent, DeliverInput
  PROVE  Consistent'
<1>1. pc \in Looping /\ InRun /\ live.pending = {} /\ Sound(live)
  BY DEF DeliverInput, Consistent, Kept, Known, Placed, Looping, Answered
<1>2. UNCHANGED ids /\ Later
  BY SameIds DEF DeliverInput
<1>3. CASE Goto("offer") /\ UNCHANGED <<store, live, queue, used>>
  BY <1>1, <1>2, <1>3, LoopConsistent DEF Goto, control, locals, Looping
<1>4. CASE queue # <<>>
  <2> DEFINE r == [kind |-> "run_input_added", run |-> run,
                   input |-> Head(queue)]
  <2>1. Head(queue) \in Nat /\ run \in Nat
    BY <1>4 DEF TypeOK
  <2>2. r \in Record /\ Fits(live, r) /\ Issued(r, runs', calls', epochs')
    BY <1>1, <2>1, RecordTypes DEF Fits, Issued, InRun, Sound
  <2>3. \/ Goto("offer") /\ UNCHANGED <<store, live, queue, used>>
        \/ Written(r) /\ Goto("queue")
        \/ AppendFails(r) /\ FinishError
    BY DEF DeliverInput
  <2>4. Becomes(live', live, r) => live'.pending = {}
    BY <1>1 DEF Becomes
  <2>5. r.kind = "run_input_added" /\ r.run = run
    OBVIOUS
  <2> HIDE DEF r
  <2>6. CASE Written(r) /\ Goto("queue")
    BY <1>1, <1>2, <2>2, <2>4, <2>5, <2>6, LoopAppendConsistent
    DEF Goto, control, locals, Looping
  <2>7. CASE AppendFails(r) /\ FinishError
    BY <1>1, <1>2, <2>2, <2>5, <2>7, LoopAppendConsistent
  <2>8. QED  BY <1>3, <2>3, <2>6, <2>7
<1>5. QED  BY <1>3, <1>4 DEF DeliverInput

\* Taking a snapshot of events, and acknowledging them, appends nothing.
LEMMA EventStepsConsistent ==
  ASSUME TypeOK, TypeOK', Consistent,
         OfferEvents \/ EventCommitted \/ ToolResultCommitted
  PROVE  Consistent'
<1>1. /\ UNCHANGED <<store, live, ids, opened, run>>
      /\ \/ pc = "offer" /\ pc' = "deliver"
         \/ pc = "told" /\ pc' = "deliver"
         \/ pc = "resulted" /\ pc' = "tools"
  BY DEF OfferEvents, EventCommitted, ToolResultCommitted, Goto, control, locals
<1>2. pc \in Looping /\ (pc # "resulted" => live.pending = {})
  BY <1>1 DEF Consistent, Placed, Looping, Answered
<1>3. QED  BY <1>1, <1>2, LoopConsistent DEF Looping, Unanswered

\* An event is new to the journal and arrives when no call is open.
LEMMA DeliverEventConsistent ==
  ASSUME TypeOK, TypeOK', Consistent, DeliverEvent
  PROVE  Consistent'
<1>1. pc \in Looping /\ pc = "deliver" /\ InRun /\ live.pending = {} /\ Sound(live)
  BY DEF DeliverEvent, Consistent, Kept, Known, Placed, Looping, Answered
<1>2. UNCHANGED ids /\ Later
  BY SameIds DEF DeliverEvent
<1>3. CASE Goto("request") /\ UNCHANGED <<store, live, work, used>>
  BY <1>1, <1>2, <1>3, LoopConsistent DEF Goto, control, locals, Looping
<1>4. CASE UNCHANGED <<run, iterations, limited, status, reply, after, tells,
                       control, pc, store, live, used>>
  BY <1>1, <1>2, <1>4, LoopConsistent DEF control
<1>5. ASSUME NEW job \in offers \ live.delivered, NEW r,
             r = [kind |-> "boundary_event", run |-> run, tells |-> {job}],
             \/ /\ Written(r)
                /\ pc' = "told"
                /\ UNCHANGED <<run, iterations, limited, status, reply, after,
                               control>>
             \/ AppendFails(r) /\ FinishError
      PROVE  Consistent'
  <2>1. run \in Nat /\ {job} \in SUBSET Jobs
    BY <1>5 DEF TypeOK
  <2>2. r \in Record /\ Fits(live, r) /\ Issued(r, runs', calls', epochs')
    BY <1>1, <1>5, <2>1, RecordTypes DEF Fits, Issued, InRun, Sound
  <2>3. Becomes(live', live, r) => live'.pending = {}
    BY <1>1, <1>5 DEF Becomes
  <2>4. r.kind = "boundary_event" /\ "told" \in Looping
    BY <1>5 DEF Looping
  <2>5. CASE AppendFails(r) /\ FinishError
    BY <1>1, <1>2, <2>2, <2>4, <2>5, LoopAppendConsistent
  <2>6. CASE /\ Written(r)
             /\ pc' = "told"
             /\ UNCHANGED <<run, iterations, limited, status, reply, after,
                            control>>
    <3>1. UNCHANGED <<opened, run>>
      BY <2>6 DEF control
    <3>2. QED
      BY <1>1, <1>2, <2>2, <2>3, <2>4, <2>6, <3>1, LoopAppendConsistent
  <2>7. QED  BY <1>5, <2>5, <2>6
<1>6. QED  BY <1>3, <1>4, <1>5 DEF DeliverEvent

\* The end of a run is on the loop.
LEMMA FinishConsistent ==
  ASSUME TypeOK, TypeOK', Consistent, pc \in Looping, live.pending = {},
         UNCHANGED <<store, live, ids>>,
         \/ FinishError
         \/ \E s \in RunStatus : FinishWith(s)
  PROVE  Consistent'
<1>1. pc' = "finish" /\ UNCHANGED <<opened, run>>
  BY DEF FinishError, FinishWith, control
<1>2. QED  BY <1>1, LoopConsistent DEF Looping

\* A request is made when no call is open.
LEMMA RequestConsistent ==
  ASSUME TypeOK, TypeOK', Consistent, Request
  PROVE  Consistent'
<1>1. pc \in Looping /\ live.pending = {}
  BY DEF Request, Consistent, Placed, Looping, Answered
<1>2. UNCHANGED <<store, ids, live>>
  BY DEF Request, FinishError
<1>3. CASE FinishError
  BY <1>1, <1>2, <1>3, FinishConsistent
<1>4. CASE pc' = "accept" /\ UNCHANGED <<run, control>>
  BY <1>1, <1>2, <1>4, LoopConsistent DEF control, Looping
<1>5. QED  BY <1>3, <1>4 DEF Request

\* Waiting for jobs appends nothing.
LEMMA AwaitConsistent ==
  ASSUME TypeOK, TypeOK', Consistent, Await
  PROVE  Consistent'
<1>1. pc \in Looping /\ live.pending = {}
  BY DEF Await, Consistent, Placed, Looping, Answered
<1>2. UNCHANGED <<store, ids, live>>
  BY DEF Await, FinishError
<1>3. \/ FinishWith("completed")
      \/ Goto("boundary")
      \/ FinishError
  BY DEF Await
<1>4. "completed" \in RunStatus
  BY DEF RunStatus
<1>5. CASE Goto("boundary")
  BY <1>1, <1>2, <1>5, LoopConsistent DEF Goto, control, locals, Looping
<1>6. CASE FinishWith("completed") \/ FinishError
  BY <1>1, <1>2, <1>4, <1>6, FinishConsistent
<1>7. QED  BY <1>3, <1>5, <1>6

\* The record of a response fits when its calls are new.
LEMMA ResponseFits ==
  ASSUME TypeOK, Known(live), InRun, live.pending = {},
         NEW cs \in SUBSET Nat, \A c \in cs : c <= calls', NEW r,
         r = [kind |-> "model_response", run |-> run,
              model |-> (CHOOSE s \in live.selection : TRUE).model,
              epoch |-> live.epoch, calls |-> cs]
  PROVE  /\ r \in Record
         /\ Fits(live, r)
         /\ Issued(r, runs', calls', epochs')
         /\ r.kind = "model_response"
<1>1. live.session /\ \E info \in ModelInfo : live.selection = {info}
  BY DEF Known, Sound, InRun
<1>2. PICK info \in ModelInfo : live.selection = {info}
  BY <1>1
<1>3. (CHOOSE s \in live.selection : TRUE) = info
  BY <1>2
<1>4. run \in Nat /\ live.epoch \in Nat /\ info.model \in Models
  BY DEF TypeOK, State, ModelInfo
<1>5. r = [kind |-> "model_response", run |-> run, model |-> info.model,
           epoch |-> live.epoch, calls |-> cs]
  BY <1>3
<1>6. r \in Record
  BY <1>4, <1>5 DEF Record
<1>7. Fits(live, r) /\ Issued(r, runs', calls', epochs')
  BY <1>1, <1>2, <1>5 DEF Fits, Issued, InRun
<1>8. QED  BY <1>5, <1>6, <1>7

\* The calls of a response are new, and its model is the selected one.
LEMMA AcceptResponseConsistent ==
  ASSUME TypeOK, TypeOK', Consistent, AcceptResponse
  PROVE  Consistent'
<1>1. pc \in Looping /\ InRun /\ live.pending = {} /\ Known(live)
  BY DEF AcceptResponse, Consistent, Kept, Placed, Looping, Answered
<1>2. CASE FinishWith("failed") /\ UNCHANGED <<store, live, calls, served, used>>
  <2>1. UNCHANGED <<store, live, ids>> /\ "failed" \in RunStatus
    BY <1>2 DEF AcceptResponse, ids, RunStatus
  <2>2. QED  BY <1>1, <1>2, <2>1, FinishConsistent
<1>3. ASSUME NEW n \in CallCount, calls' = calls + n,
             \/ Written(ResponseRecord(n)) /\ AfterResponse
             \/ AppendFails(ResponseRecord(n)) /\ Leave
      PROVE  Consistent'
  <2> DEFINE r == ResponseRecord(n)
             cs == calls + 1 .. calls + n
  <2>1. n \in Nat /\ calls \in Nat
    BY RuntimeAssumption DEF CallCount, TypeOK
  <2>2. cs \in SUBSET Nat /\ \A c \in cs : c <= calls'
    BY <1>3, <2>1
  <2>3. /\ r \in Record /\ Fits(live, r) /\ Issued(r, runs', calls', epochs')
        /\ r.kind = "model_response"
    BY <1>1, <2>2, ResponseFits DEF ResponseRecord
  <2>4. Later
    BY <1>3, <2>1 DEF AcceptResponse, Later, TypeOK
  <2>5. ASSUME AfterResponse
        PROVE  /\ UNCHANGED <<opened, run>>
               /\ \/ pc' \in Unanswered
                  \/ pc' \in Looping /\ n = 0
    <3>1. CASE reply = "tools" /\ ~limited
      BY <2>5, <3>1
      DEF AfterResponse, FinishWith, Goto, control, Unanswered
    <3>2. CASE ~(reply = "tools" /\ ~limited)
      <4>1. n = 0
        BY <3>2 DEF CallCount
      <4>2. pc' \in {"finish", "await"} /\ UNCHANGED <<opened, run>>
        BY <2>5, <3>2 DEF AfterResponse, FinishWith, Goto, control, locals
      <4>3. QED  BY <4>1, <4>2 DEF Looping
    <3>3. QED  BY <3>1, <3>2
  <2>6. ASSUME n = 0, Becomes(live', live, r)
        PROVE  live'.pending = {}
    <3>1. r.calls = {}
      BY <2>1, <2>6 DEF ResponseRecord
    <3>2. QED
      <4> HIDE DEF r
      <4>1. QED  BY <1>1, <2>3, <2>6, <3>1 DEF Becomes
  <2> HIDE DEF r
  <2>7. \/ Written(r) /\ AfterResponse
        \/ AppendFails(r) /\ Leave
    BY <1>3 DEF r
  <2>8. CASE Written(r) /\ AfterResponse
    BY <1>1, <2>3, <2>4, <2>5, <2>6, <2>8, LoopAppendConsistent
  <2>9. CASE AppendFails(r) /\ Leave
    BY <1>1, <2>3, <2>4, <2>9, LoopAppendConsistent
  <2>10. QED  BY <2>7, <2>8, <2>9
<1>4. QED  BY <1>2, <1>3 DEF AcceptResponse

-----------------------------------------------------------------------------
(* Consistent is inductive: tool calls.                                    *)

\* Executing a tool appends nothing.
LEMMA ExecuteToolConsistent ==
  ASSUME TypeOK, TypeOK', Consistent, ExecuteTool
  PROVE  Consistent'
<1>1. pc \in Looping /\ UNCHANGED <<store, live, ids>>
  BY DEF ExecuteTool, Looping
<1>2. /\ UNCHANGED <<opened, run>>
      /\ \/ pc' = "boundary" /\ live.pending = {}
         \/ pc' \in {"settle", "result"}
  BY DEF ExecuteTool, Goto, control, locals
<1>3. QED  BY <1>1, <1>2, LoopConsistent DEF Looping, Unanswered

\* An open call is answered, and the run goes on where others may be open.
LEMMA AnswerConsistent ==
  ASSUME TypeOK, TypeOK', Consistent, pc \in Looping,
         NEW p \in live.pending, NEW ended \in SUBSET Jobs,
         NEW next \in Unanswered,
         \/ Written(ResultRecord(p, ended)) /\ Goto(next)
         \/ AppendFails(ResultRecord(p, ended)) /\ Leave,
         UNCHANGED ids
  PROVE  Consistent'
<1> DEFINE r == ResultRecord(p, ended)
<1>1. r \in Record /\ Fits(live, r) /\ r.kind = "tool_result"
  BY ResultFits DEF Consistent, Kept
<1>2. Issued(r, runs', calls', epochs') /\ Later
  BY <1>1, SameIds DEF Issued
<1>3. Goto(next) => UNCHANGED <<opened, run>> /\ pc' \in Unanswered
  BY DEF Goto, control, locals
<1> HIDE DEF r
<1>4. \/ Written(r) /\ Goto(next)
      \/ AppendFails(r) /\ Leave
  BY DEF r
<1>5. QED  BY <1>1, <1>2, <1>3, <1>4, LoopAppendConsistent

\* A result answers an open call.
LEMMA CommitToolResultConsistent ==
  ASSUME TypeOK, TypeOK', Consistent, CommitToolResult
  PROVE  Consistent'
<1>1. tells \in SUBSET Jobs /\ "resulted" \in Unanswered /\ pc \in Looping
  BY DEF CommitToolResult, TypeOK, Unanswered, Looping
<1>2. QED  BY <1>1, AnswerConsistent DEF CommitToolResult

\* Calls that are settled to leave the loop are open.
LEMMA StopLoopConsistent ==
  ASSUME TypeOK, TypeOK', Consistent, SettleCancelled \/ RejectOverLimit
  PROVE  Consistent'
<1>1. {} \in SUBSET Jobs /\ {"settle", "reject"} \subseteq Unanswered
      /\ pc \in Looping /\ UNCHANGED ids
  BY DEF SettleCancelled, RejectOverLimit, Unanswered, Looping
<1>2. CASE /\ live.pending = {} /\ UNCHANGED <<store, live>>
           /\ FinishWith("cancelled") \/ Goto("boundary")
  <2>1. UNCHANGED <<opened, run>> /\ pc' \in {"finish", "boundary"}
    BY <1>2 DEF FinishWith, Goto, control, locals
  <2>2. QED  BY <1>1, <1>2, <2>1, LoopConsistent DEF Looping
<1>3. CASE \E p \in live.pending : \E next \in {"settle", "reject"} :
             \/ Written(ResultRecord(p, {})) /\ Goto(next)
             \/ AppendFails(ResultRecord(p, {})) /\ Leave
  BY <1>1, <1>3, AnswerConsistent
<1>4. QED  BY <1>2, <1>3 DEF SettleCancelled, RejectOverLimit

-----------------------------------------------------------------------------
(* Consistent is inductive: the end of an operation.                       *)

\* The end of a run without open calls fits.
LEMMA FinishAppendConsistent ==
  ASSUME TypeOK, TypeOK', Consistent, InRun, live.pending = {}, UNCHANGED ids,
         NEW s \in RunStatus, NEW o \in BOOLEAN, NEW d \in SUBSET Jobs,
         \/ Written(FinishRecord(s, o, d)) /\ Goto("release")
         \/ AppendFails(FinishRecord(s, o, d)) /\ Leave
  PROVE  Consistent'
<1> DEFINE r == FinishRecord(s, o, d)
<1>1. r \in Record
  BY RecordTypes
<1>2. r.kind = "run_finished" /\ r.run = run
  BY DEF FinishRecord
<1>3. live.session /\ opened
  BY DEF Consistent, Kept, Known, Sound, InRun
<1> HIDE DEF r
<1>4. Fits(live, r) /\ Issued(r, runs', calls', epochs') /\ Later
  BY <1>2, <1>3, SameIds DEF Fits, Issued, InRun
<1>5. \/ Written(r) /\ Goto("release")
      \/ AppendFails(r) /\ Leave
  BY DEF r
<1>6. Goto("release") => Placed'
  BY FreePlace DEF Goto
<1>7. QED  BY <1>1, <1>3, <1>4, <1>5, <1>6, AppendConsistent

\* A run ends when its calls are answered.
LEMMA FinishRunConsistent ==
  ASSUME TypeOK, TypeOK', Consistent, FinishRun
  PROVE  Consistent'
<1>1. InRun /\ live.pending = {} /\ UNCHANGED ids
  BY DEF FinishRun, Consistent, Placed, Looping, Answered
<1>2. status \in RunStatus /\ RunningDetached \in SUBSET Jobs
  BY DEF TypeOK, RunningDetached, DetachedJobs
<1>3. QED  BY <1>1, <1>2, FinishAppendConsistent DEF FinishRun

\* A shell command ends when its one call is answered.
LEMMA ShellFinishConsistent ==
  ASSUME TypeOK, TypeOK', Consistent, ShellFinish
  PROVE  Consistent'
<1>1. InRun /\ live.pending = {} /\ UNCHANGED ids
  BY DEF ShellFinish, Consistent, Placed, Looping, Answered
<1>2. PICK s \in {"cancelled", "completed", "failed"} :
        \/ Written(FinishRecord(s, FALSE, {})) /\ Goto("release")
        \/ AppendFails(FinishRecord(s, FALSE, {})) /\ Leave
  BY DEF ShellFinish
<1>3. s \in RunStatus /\ {} \in SUBSET Jobs
  BY DEF RunStatus
<1>4. QED  BY <1>1, <1>2, <1>3, FinishAppendConsistent

\* A deferred selection is applied to a settled session.
LEMMA ReleaseConsistent ==
  ASSUME TypeOK, TypeOK', Consistent, Release
  PROVE  Consistent'
<1>1. UNCHANGED <<store, ids>> /\ pc # "reconcile" /\ durable' = durable
  BY DEF Release, store
<1>2. CASE opened /\ ~HasUnfinishedWork(live) /\ StartApplying("idle")
  BY <1>1, <1>2, StartApplyingConsistent DEF HasUnfinishedWork
<1>3. CASE Unlock("idle")
  BY <1>1, <1>3, UnlockConsistent
<1>4. QED  BY <1>2, <1>3 DEF Release

\* The call of a shell command is new.
LEMMA ShellCallConsistent ==
  ASSUME TypeOK, TypeOK', Consistent, ShellCall
  PROVE  Consistent'
<1> DEFINE r == [kind |-> "model_response", run |-> run,
                 model |-> (CHOOSE s \in live.selection : TRUE).model,
                 epoch |-> live.epoch, calls |-> {calls + 1}]
<1>1. InRun /\ opened /\ live.pending = {} /\ Known(live)
  BY DEF ShellCall, Consistent, Kept, Placed, Looping, Answered, InRun
<1>2. Later /\ {calls + 1} \in SUBSET Nat /\ \A c \in {calls + 1} : c <= calls'
  BY DEF ShellCall, Later, TypeOK
<1>3. /\ r \in Record /\ Fits(live, r) /\ Issued(r, runs', calls', epochs')
      /\ r.kind = "model_response"
  BY <1>1, <1>2, ResponseFits
<1>4. r.run = run /\ r.calls = {calls + 1}
  OBVIOUS
<1>5. \/ Written(r) /\ Goto("shell_run")
      \/ AppendFails(r) /\ Leave
  BY DEF ShellCall
<1> HIDE DEF r
<1>6. ASSUME Goto("shell_run"), Becomes(live', live, r)
      PROVE  Placed'
  <2>1. live'.runs = live.runs /\ live'.blocks = live.blocks
    BY <1>3, <1>6 DEF Becomes
  <2>2. \A p, q \in live'.pending : p = q
    BY <1>1, <1>3, <1>4, <1>6 DEF Becomes
  <2>3. pc' = "shell_run" /\ UNCHANGED <<opened, run>>
    BY <1>6 DEF Goto, control, locals
  <2>4. QED
    BY <1>1, <2>1, <2>2, <2>3
    DEF InRun, Placed, Preparing, Looping, Answered
<1>7. QED  BY <1>1, <1>2, <1>3, <1>5, <1>6, AppendConsistent

\* Running a shell command appends nothing.
LEMMA ShellRunConsistent ==
  ASSUME TypeOK, TypeOK', Consistent, ShellRun
  PROVE  Consistent'
<1>1. InRun /\ (\A p, q \in live.pending : p = q) /\ pc # "reconcile"
  BY DEF ShellRun, Consistent, Placed, Looping
<1>2. UNCHANGED <<store, live, ids, opened, run>> /\ pc' = "shell_result"
  BY DEF ShellRun, Goto, control, locals
<1>3. Placed'
  BY <1>1, <1>2 DEF InRun, Placed, Preparing, Looping, Answered
<1>4. QED  BY <1>1, <1>2, <1>3, MoveConsistent

\* A shell command has one open call.
LEMMA ShellResultConsistent ==
  ASSUME TypeOK, TypeOK', Consistent, ShellResult
  PROVE  Consistent'
<1>1. PICK p \in live.pending :
        \/ Written(ResultRecord(p, {})) /\ Goto("shell_finish")
        \/ AppendFails(ResultRecord(p, {})) /\ Leave
  BY DEF ShellResult
<1> DEFINE r == ResultRecord(p, {})
<1>2. /\ InRun /\ pc \in Looping /\ Known(live) /\ UNCHANGED ids
      /\ \A q \in live.pending : q = p
  BY DEF ShellResult, Consistent, Kept, Placed, Looping
<1>3. r \in Record /\ Fits(live, r) /\ r.kind = "tool_result"
  BY <1>2, ResultFits
<1>4. p = [run |-> r.run, call |-> r.call]
  BY DEF TypeOK, State, PendingTool, ResultRecord
<1> HIDE DEF r
<1>5. Issued(r, runs', calls', epochs') /\ Later
  BY <1>2, <1>3, SameIds DEF Issued
<1>6. Becomes(live', live, r) => live'.pending = {}
  BY <1>2, <1>3, <1>4 DEF Becomes
<1>7. Goto("shell_finish") => pc' \in Looping /\ UNCHANGED <<opened, run>>
  BY DEF Goto, control, locals, Looping
<1>8. \/ Written(r) /\ Goto("shell_finish")
      \/ AppendFails(r) /\ Leave
  BY <1>1 DEF r
<1>9. QED  BY <1>2, <1>3, <1>5, <1>6, <1>7, <1>8, LoopAppendConsistent

-----------------------------------------------------------------------------
(* Consistent is inductive: selections and the scope.                      *)

\* What holds while a selection is applied.
Applying ==
  /\ opened
  /\ live.pending = {}
  /\ after = "idle" => live.runs = {}
  /\ after # "idle" => InRun

\* A failed application ends the lock or the run.
LEMMA ApplyFailsCases ==
  ASSUME ApplyFails
  PROVE  \/ Unlock("idle")
         \/ FinishError /\ after # "idle"
<1>1. CASE after = "idle"
  BY <1>1, Zenon DEF ApplyFails
<1>2. CASE after # "idle"
  BY <1>2, Zenon DEF ApplyFails
<1>3. QED  BY <1>1, <1>2

\* Between the two records of an application.
LEMMA ApplyMoves ==
  ASSUME Applying, Goto("apply_configure"),
         live'.runs = live.runs, live'.blocks = live.blocks,
         live'.pending = live.pending
  PROVE  Placed' /\ pc' # "reconcile" /\ opened' = opened
BY DEF Applying, Goto, control, locals, InRun, Placed, Preparing, Looping,
       Answered

\* A model is selected when no call is open.
LEMMA ApplyModelConsistent ==
  ASSUME TypeOK, TypeOK', Consistent, ApplyModel
  PROVE  Consistent'
<1>1. pc # "reconcile" /\ Applying /\ Known(live) /\ opened
  BY DEF ApplyModel, Consistent, Kept, Placed, Applying
<1>2. applying.info \in ModelInfo
  BY DEF TypeOK, Configuration
<1>3. CASE Goto("apply_configure") /\ UNCHANGED <<store, live, epochs, used>>
  <2>1. UNCHANGED ids
    BY <1>3 DEF ApplyModel, ids
  <2>2. Placed' /\ pc' # "reconcile" /\ opened' = opened
    BY <1>1, <1>3, ApplyMoves
  <2>3. QED  BY <1>1, <1>3, <2>1, <2>2, MoveConsistent
<1>4. CASE live.session
  <2>1. SelectModel(applying.info, "apply_configure", ApplyFails)
    BY <1>4, Zenon DEF ApplyModel
  <2>2. CASE /\ epochs' = epochs + 1
             /\ \/ /\ Written(SelectionRecord(applying.info))
                   /\ Goto("apply_configure")
                \/ AppendFails(SelectionRecord(applying.info)) /\ ApplyFails
    <3> DEFINE r == SelectionRecord(applying.info)
    <3>1. /\ r \in Record /\ Fits(live, r) /\ Issued(r, runs', calls', epochs')
          /\ r.kind = "model_selected"
      BY <1>1, <1>2, <1>4, <2>2, SelectionFits DEF Applying, SelectionRecord
    <3>2. Later
      BY <2>2 DEF Later, ApplyModel, TypeOK
    <3> HIDE DEF r
    <3>3. CASE Written(r) /\ Goto("apply_configure")
      <4>1. Becomes(live', live, r) => Placed'
        BY <1>1, <3>1, <3>3, ApplyMoves DEF Becomes
      <4>2. QED  BY <1>1, <3>1, <3>2, <3>3, <4>1, AppendConsistent
    <3>4. CASE AppendFails(r) /\ ApplyFails
      <4>1. \/ Unlock("idle")
            \/ FinishError /\ InRun /\ live.pending = {}
        BY <1>1, <3>4, ApplyFailsCases DEF Applying
      <4>2. QED  BY <1>1, <3>1, <3>2, <3>4, <4>1, AppendConsistent
    <3>5. QED  BY <2>2, <3>3, <3>4 DEF r
  <2>3. QED  BY <1>3, <2>1, <2>2 DEF SelectModel
<1>5. CASE ~live.session
  <2>1. Goto("apply_configure") /\ UNCHANGED <<store, live, epochs, used>>
    BY <1>5, Zenon DEF ApplyModel
  <2>2. QED  BY <1>3, <2>1
<1>6. QED  BY <1>4, <1>5

\* A selection is described in a session that has an epoch.
LEMMA ApplyConfigurationConsistent ==
  ASSUME TypeOK, TypeOK', Consistent, ApplyConfiguration
  PROVE  Consistent'
<1> DEFINE r == ConfigurationRecord(applying, scope)
<1>1. pc # "reconcile" /\ Applying /\ opened
  BY DEF ApplyConfiguration, Consistent, Placed, Applying
<1>2. UNCHANGED ids /\ Later
  BY SameIds DEF ApplyConfiguration
<1>3. after \in {"idle", "queue", "request"}
  BY DEF TypeOK
<1>4. ASSUME Goto(after), after # "idle",
             live'.runs = live.runs, live'.blocks = live.blocks,
             live'.pending = live.pending
      PROVE  Placed' /\ pc' # "reconcile" /\ opened' = opened
  <2>1. pc' \in Looping /\ UNCHANGED <<opened, run>>
    BY <1>3, <1>4 DEF Goto, control, locals, Looping
  <2>2. QED  BY <1>1, <1>4, <2>1, LoopPlace DEF Applying
<1>5. CASE Applied /\ UNCHANGED <<store, used>>
  <2>1. \/ Unlock("idle")
        \/ Goto(after) /\ UNCHANGED live /\ after # "idle"
    BY <1>5 DEF Applied
  <2>2. CASE Unlock("idle")
    BY <1>2, <1>5, <2>2, UnlockConsistent DEF store
  <2>3. CASE Goto(after) /\ UNCHANGED live /\ after # "idle"
    BY <1>1, <1>2, <1>4, <1>5, <2>3, MoveConsistent
  <2>4. QED  BY <2>1, <2>2, <2>3
<1>6. CASE /\ NeedsRecord(live, applying, scope)
           /\ live.epoch # 0
           /\ \/ after = "idle" /\ Persisted(r) /\ Unlock("idle")
              \/ after # "idle" /\ Written(r) /\ Goto(after)
              \/ AppendFails(r) /\ ApplyFails
  <2>1. live.session /\ applying \in Configuration /\ scope \in Scopes
    BY <1>6 DEF NeedsRecord, TypeOK
  <2>2. /\ r \in Record /\ Fits(live, r) /\ Issued(r, runs', calls', epochs')
        /\ r.kind = "session_configured"
    BY <1>6, <2>1, ConfigurationFits
  <2> HIDE DEF r
  <2>3. CASE Persisted(r) /\ Unlock("idle")
    BY <1>1, <1>2, <2>2, <2>3, AppendConsistent
  <2>4. CASE after # "idle" /\ Written(r) /\ Goto(after)
    <3>1. Becomes(live', live, r) => Placed'
      BY <1>4, <2>2, <2>4 DEF Becomes
    <3>2. QED  BY <1>1, <1>2, <2>2, <2>4, <3>1, AppendConsistent
  <2>5. CASE AppendFails(r) /\ ApplyFails
    <3>1. \/ Unlock("idle")
          \/ FinishError /\ InRun /\ live.pending = {}
      BY <1>1, <2>5, ApplyFailsCases DEF Applying
    <3>2. QED  BY <1>1, <1>2, <2>2, <2>5, <3>1, AppendConsistent
  <2>6. QED  BY <1>6, <2>3, <2>4, <2>5
<1>7. QED  BY <1>5, <1>6 DEF ApplyConfiguration

\* A selection is applied between operations to a settled session.
LEMMA ApplySelectionConsistent ==
  ASSUME TypeOK, TypeOK', Consistent, ApplySelection
  PROVE  Consistent'
<1>1. /\ pc' = "apply_select" /\ live' = durable /\ opened' /\ durable' = durable
      /\ after' = after /\ UNCHANGED ids
  BY DEF ApplySelection, store, locals
<1>2. after = "idle" /\ Settled(durable)
  BY DEF ApplySelection, Consistent, Placed, HasUnfinishedWork, Settled
<1>3. Placed'
  BY <1>1, <1>2 DEF Settled, Placed, Preparing, Looping, Answered
<1>4. QED  BY <1>1, <1>3, SameIds, QuietStep DEF Consistent

\* The scope is recorded behind the back of an operation, which still agrees
\* with the journal about everything but the configuration.
LEMMA SetScopeConsistent ==
  ASSUME TypeOK, TypeOK', Consistent, SetScope
  PROVE  Consistent'
<1>1. /\ UNCHANGED <<pc, live, opened, run, after, ids>> /\ pc # "reconcile"
  BY DEF SetScope, locals, control, ProcessUp
<1>2. PICK s \in Scopes :
        \/ UNCHANGED store
        \/ /\ NeedsRecord(durable, config, s)
           /\ durable.epoch # 0
           /\ \/ /\ Stored(ConfigurationRecord(config, s))
                 /\ UNCHANGED failed
              \/ failed' = TRUE /\ UNCHANGED <<journal, durable>>
              \/ failed' = TRUE /\ Stored(ConfigurationRecord(config, s))
  BY DEF SetScope
<1>3. CASE UNCHANGED store
  BY <1>1, <1>3, AsideConsistent DEF store
<1>4. CASE /\ NeedsRecord(durable, config, s)
           /\ durable.epoch # 0
           /\ \/ /\ Stored(ConfigurationRecord(config, s))
                 /\ UNCHANGED failed
              \/ failed' = TRUE /\ UNCHANGED <<journal, durable>>
              \/ failed' = TRUE /\ Stored(ConfigurationRecord(config, s))
  <2> DEFINE r == ConfigurationRecord(config, s)
  <2>1. durable.session /\ config \in Configuration
    BY <1>4 DEF NeedsRecord, TypeOK
  <2>2. /\ r \in Record /\ Fits(durable, r) /\ Issued(r, runs', calls', epochs')
        /\ r.kind = "session_configured"
    BY <1>4, <2>1, ConfigurationFits
  <2> HIDE DEF r
  <2>3. /\ durable \in State /\ live \in State /\ Later
        /\ Known(durable) /\ Known(live) /\ LiveFollowsJournal /\ Placed
    BY <1>1, SameIds DEF TypeOK, Consistent, Kept
  <2>4. durable' = durable \/ durable' = Apply(durable, r)
    BY <1>4 DEF Stored, r
  <2>5. Known(durable)' /\ Known(live)'
    BY <1>1, <2>2, <2>3, <2>4, StaysKnown, StaysKnownApplied DEF Known
  <2>6. ASSUME Agree(live, durable), ~failed'
        PROVE  Agree(live, durable')
    <3>1. durable' = Apply(durable, r)
      BY <1>4, <2>6 DEF Stored, r
    <3>2. Becomes(durable', durable, r)
      BY <2>2, <2>3, <3>1, FitsFields DEF Known
    <3>3. PICK a \in ModelInfo : durable.selection = {a}
      BY <1>4, <2>3 DEF Known, Sound
    <3> DEFINE b == [a EXCEPT !.endpoint = r.config.endpoint]
    <3>4. durable'.selection = {b}
      BY <2>2, <3>2, <3>3 DEF Becomes
    <3>5. a.model = b.model
      BY DEF ModelInfo
    <3> HIDE DEF b
    <3>6. {t.model : t \in durable'.selection} = {t.model : t \in durable.selection}
      BY <3>3, <3>4, <3>5
    <3>7. durable'.session = durable.session
      BY <2>2, <2>3, <3>2 DEF Becomes, State
    <3>8. QED  BY <2>2, <2>6, <3>2, <3>6, <3>7 DEF Becomes, Agree
  <2>7. LiveFollowsJournal'
    <3>1. CASE failed'
      BY <3>1 DEF LiveFollowsJournal
    <3>2. CASE ~failed'
      <4>1. ~failed
        BY <1>4, <3>2 DEF TypeOK
      <4>2. QED  BY <1>1, <2>3, <2>6, <3>2, <4>1 DEF LiveFollowsJournal
    <3>3. QED  BY <3>1, <3>2
  <2>8. Placed'
    BY <1>1, <2>3, SamePlace
  <2>9. QED  BY <2>5, <2>7, <2>8 DEF Consistent, Kept
<1>5. QED  BY <1>2, <1>3, <1>4

-----------------------------------------------------------------------------
(* The theorems.                                                           *)

\* A response is recorded under a selected model.
LEMMA ConsistentSelects ==
  ASSUME Consistent
  PROVE  Selecting
<1>1. pc \in {"accept", "shell_call"} => InRun
  BY DEF Consistent, Placed, Looping
<1>2. live.runs # {} => live.selection # {}
  BY DEF Consistent, Kept, Known, Sound
<1>3. QED  BY <1>1, <1>2 DEF InRun, Selecting

\* Every step of the runtime and of its surroundings keeps Consistent.
LEMMA StepConsistent ==
  ASSUME TypeOK, TypeOK', Consistent, [Next]_vars
  PROVE  Consistent'
<1>1. CASE Open \/ PrepareSession \/ PrepareModel \/ PrepareConfiguration
  BY <1>1, OpenConsistent, PrepareSessionConsistent, PrepareModelConsistent,
     PrepareConfigurationConsistent
<1>2. CASE SyncExternalWork \/ RecordRunStarted \/ RecordInput
  BY <1>2, SyncExternalWorkConsistent, RecordRunStartedConsistent,
     RecordInputConsistent
<1>3. CASE Boundary \/ DeliverInput \/ OfferEvents \/ DeliverEvent
  BY <1>3, BoundaryConsistent, DeliverInputConsistent, EventStepsConsistent,
     DeliverEventConsistent
<1>4. CASE EventCommitted \/ ToolResultCommitted \/ Request
  BY <1>4, EventStepsConsistent, RequestConsistent
<1>5. CASE AcceptResponse \/ Await \/ ExecuteTool
  BY <1>5, AcceptResponseConsistent, AwaitConsistent, ExecuteToolConsistent
<1>6. CASE CommitToolResult \/ SettleCancelled \/ RejectOverLimit
  BY <1>6, CommitToolResultConsistent, StopLoopConsistent
<1>7. CASE FinishRun \/ Release \/ ShellCall \/ ShellRun \/ ShellResult
           \/ ShellFinish
  BY <1>7, FinishRunConsistent, ReleaseConsistent, ShellCallConsistent,
     ShellRunConsistent, ShellResultConsistent, ShellFinishConsistent
<1>8. CASE ApplyModel \/ ApplyConfiguration
  BY <1>8, ApplyModelConsistent, ApplyConfigurationConsistent
<1>9. CASE ReconcileCall \/ ReconcileRun \/ Attach
  BY <1>9, ReconcileCallConsistent, ReconcileRunConsistent, ProcessConsistent
<1>10. CASE Reopen \/ Crash \/ Close \/ StartRun \/ StartShell
  BY <1>10, ReopenConsistent, ProcessConsistent, StartConsistent
<1>11. CASE ApplySelection \/ SetScope
  BY <1>11, ApplySelectionConsistent, SetScopeConsistent
<1>12. CASE \/ Cancel \/ DeferSelection \/ QueueInput \/ TakeInput
            \/ \E job \in Jobs : JobFinishes(job)
            \/ Rest \/ UNCHANGED vars
  BY <1>12, OutsideConsistent
<1>13. QED
  BY <1>1, <1>2, <1>3, <1>4, <1>5, <1>6, <1>7, <1>8, <1>9, <1>10, <1>11, <1>12
  DEF Next, RunStep, OutsideStep

\* The types of every variable, and Consistent, hold in every state: whatever a
\* session went through, an operation finds the journal as it expects it.
THEOREM SpecConsistent == Spec => [](TypeOK /\ Consistent)
<1>1. Init => TypeOK /\ Consistent
  BY InitType, InitConsistent
<1>2. TypeOK /\ Consistent /\ [Next]_vars => TypeOK' /\ Consistent'
  BY ConsistentSelects, StepType, StepConsistent
<1>3. QED  BY <1>1, <1>2, PTL DEF Spec

\* Every variable keeps its type (no identifier, selection or job appears that
\* the code has no name for).
THEOREM SpecTypeOK == Spec => []TypeOK
BY SpecConsistent, PTL

\* Whatever was appended, the journal replays: no record written by the runtime,
\* by reconciliation or by the scope is ever refused by stateReducer.apply.
THEOREM SpecJournalAlwaysReplays == Spec => []JournalAlwaysReplays
<1>1. Consistent => JournalAlwaysReplays
  BY DEF Consistent, Kept, Known, Sound, JournalAlwaysReplays
<1>2. QED  BY <1>1, SpecConsistent, PTL

\* The reducer of a running operation agrees with the journal, although the
\* scope is appended by another goroutine and writes fail.
THEOREM SpecLiveFollowsJournal == Spec => []LiveFollowsJournal
<1>1. Consistent => LiveFollowsJournal
  BY DEF Consistent, Kept
<1>2. QED  BY <1>1, SpecConsistent, PTL

\* At most one run is unfinished, and all open calls are its own, so that
\* Reconcile has one run to interrupt.
THEOREM SpecOneUnfinishedRun == Spec => []OneUnfinishedRun
<1>1. Consistent => OneUnfinishedRun
  BY DEF Consistent, Kept, Known, Sound, OneUnfinishedRun
<1>2. QED  BY <1>1, SpecConsistent, PTL
=============================================================================
