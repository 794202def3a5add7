---------------------------- MODULE SessionProofs ----------------------------
(***************************************************************************)
(* What a session promises its user, for every number of models,           *)
(* endpoints, tools, scopes and jobs and every budget.  First the          *)
(* announcements: no completion of a job is lost and none is announced     *)
(* twice, since what is acknowledged is in the journal, and what the       *)
(* journal tells is acknowledged before a run looks for events to          *)
(* announce.  Then the selection, the description of a request, queued     *)
(* input, the end of operations, and the promises of SessionLog.           *)
(***************************************************************************)
EXTENDS AgentRuntimeProofs

-----------------------------------------------------------------------------
(* The announcements.                                                      *)

AllTold(ended) == \A job \in ended : Told(job)

\* Jobs the journal tells of although nobody acknowledged them.
Unacknowledged == {job \in Jobs : Told(job) /\ jobs[job] = "finished"} \ seen

\* What a state or an acknowledgement says of a job, the journal says.
Acknowledged ==
  /\ AllTold(durable.delivered)
  /\ AllTold(live.delivered)
  /\ pc \in {"told", "resulted"} => AllTold(tells)
  /\ AcknowledgedIsJournaled

\* Steps of a run after it has acknowledged what the journal tells.
RunSteps == Looping \ {"told", "resulted", "shell_call", "shell_run",
                       "shell_result", "shell_finish"}

Synced ==
  \/ pc \in RunSteps
  \/ pc \in {"start", "input"} /\ op = "run"
  \/ pc \in {"apply_select", "apply_configure"} /\ after # "idle"

\* A run never announces what the journal tells.
Announcing ==
  /\ \A job \in Jobs : Told(job) => jobs[job] \in {"finished", "gone"}
  /\ pc = "result" => \A job \in tells : jobs[job] \in {"finished", "gone"}
  /\ Synced /\ ~failed => Unacknowledged = {}
  /\ pc \in {"told", "resulted"} /\ ~failed => Unacknowledged \subseteq tells
  /\ pc \in {"deliver", "told"} =>
       /\ offers \cap seen = {}
       /\ \A job \in offers : jobs[job] = "finished"
  /\ pc = "told" => tells \cap offers = {}
  /\ NoStaleAnnouncement

-----------------------------------------------------------------------------
(* What an append tells.                                                   *)

\* An append keeps the records and adds one at the end.
LEMMA AppendedRecords ==
  ASSUME TypeOK, TypeOK', NEW r, journal' = Append(journal, r)
  PROVE  /\ DOMAIN journal = 1 .. Len(journal)
         /\ DOMAIN journal' = 1 .. Len(journal) + 1
         /\ Len(journal) \in Nat
         /\ \A i \in DOMAIN journal : journal'[i] = journal[i]
         /\ journal'[Len(journal) + 1] = r
<1> DEFINE Any == Record \cup {r}
<1>1. journal \in Seq(Any) /\ r \in Any
  BY DEF TypeOK
<1> HIDE DEF Any
<1>2. QED  BY <1>1

\* The journal tells what it told and what the new record reports.
LEMMA ToldAppended ==
  ASSUME TypeOK, TypeOK', NEW r, journal' = Append(journal, r), NEW job
  PROVE  Told(job)' <=> Told(job) \/ ReportsEndOf(r, job)
<1>1. Told(job)' => Told(job) \/ ReportsEndOf(r, job)
  <2>1. SUFFICES ASSUME NEW i \in DOMAIN journal', ReportsEndOf(journal'[i], job)
                 PROVE  Told(job) \/ ReportsEndOf(r, job)
    BY DEF Told
  <2>2. i \in DOMAIN journal \/ i = Len(journal) + 1
    BY <2>1, AppendedRecords
  <2>3. QED  BY <2>1, <2>2, AppendedRecords DEF Told
<1>2. Told(job) => Told(job)'
  BY AppendedRecords DEF Told
<1>3. ReportsEndOf(r, job) => Told(job)'
  BY AppendedRecords DEF Told
<1>4. QED  BY <1>1, <1>2, <1>3

\* An event about jobs nobody was told of is no stale announcement.
LEMMA NewsIsNotStale ==
  ASSUME TypeOK, TypeOK', NoStaleAnnouncement, NEW r, journal' = Append(journal, r),
         r.kind = "boundary_event" => \A job \in r.tells : ~Told(job)
  PROVE  NoStaleAnnouncement'
<1>1. SUFFICES ASSUME NEW i \in DOMAIN journal', NEW k \in DOMAIN journal',
                      i < k, journal'[k].kind = "boundary_event",
                      NEW job \in journal'[k].tells
               PROVE  ~ReportsEndOf(journal'[i], job)
  BY DEF NoStaleAnnouncement
<1>2. i \in DOMAIN journal
  BY <1>1, AppendedRecords
<1>3. CASE k \in DOMAIN journal
  BY <1>1, <1>2, <1>3, AppendedRecords DEF NoStaleAnnouncement
<1>4. CASE k = Len(journal) + 1
  BY <1>1, <1>2, <1>4, AppendedRecords DEF Told
<1>5. QED  BY <1>1, <1>3, <1>4, AppendedRecords

\* Only an event adds to what a state knows of jobs.
LEMMA AppliedDelivered ==
  ASSUME NEW st \in State, NEW r \in Record
  PROVE  \A job \in Apply(st, r).delivered :
           job \in st.delivered \/ (r.kind = "boundary_event" /\ job \in r.tells)
<1>1. Refuse(st).delivered = st.delivered
  BY DEF Refuse, State
<1>2. CASE ~st.ok \/ (~st.session /\ r.kind # "session_started")
  BY <1>1, <1>2 DEF Apply
<1>3. CASE ~(~st.ok \/ (~st.session /\ r.kind # "session_started"))
  <2>1. CASE r.kind = "model_selected"
    <3>1. Apply(st, r) = ApplyModelSelected(st, r)
      BY <1>3, <2>1 DEF Apply
    <3>2. QED  BY <1>1, <2>1, <3>1 DEF ApplyModelSelected, State
  <2>2. CASE r.kind = "session_configured"
    <3>1. Apply(st, r) = ApplySessionConfigured(st, r)
      BY <1>3, <2>2 DEF Apply
    <3>2. QED  BY <1>1, <2>2, <3>1 DEF ApplySessionConfigured, State
  <2>3. CASE r.kind = "run_started"
    <3>1. Apply(st, r) = ApplyRunStarted(st, r)
      BY <1>3, <2>3 DEF Apply
    <3>2. QED  BY <1>1, <2>3, <3>1 DEF ApplyRunStarted, State
  <2>4. CASE r.kind = "run_input_added"
    <3>1. Apply(st, r) = ApplyRunInputAdded(st, r)
      BY <1>3, <2>4 DEF Apply
    <3>2. QED  BY <1>1, <2>4, <3>1 DEF ApplyRunInputAdded, State
  <2>5. CASE r.kind = "model_response"
    <3>1. Apply(st, r) = ApplyModelResponse(st, r)
      BY <1>3, <2>5 DEF Apply
    <3>2. QED  BY <1>1, <2>5, <3>1 DEF ApplyModelResponse, State
  <2>6. CASE r.kind = "tool_result"
    <3>1. Apply(st, r) = ApplyToolResult(st, r)
      BY <1>3, <2>6 DEF Apply
    <3>2. QED  BY <1>1, <2>6, <3>1 DEF ApplyToolResult, State
  <2>7. CASE r.kind = "boundary_event"
    <3>1. Apply(st, r) = ApplyBoundaryEvent(st, r)
      BY <1>3, <2>7 DEF Apply
    <3>2. QED  BY <1>1, <2>7, <3>1 DEF ApplyBoundaryEvent, State
  <2>8. CASE r.kind = "run_finished"
    <3>1. Apply(st, r) = ApplyRunFinished(st, r)
      BY <1>3, <2>8 DEF Apply
    <3>2. QED  BY <1>1, <2>8, <3>1 DEF ApplyRunFinished, State
  <2>9. CASE r.kind = "session_started"
    <3>1. Apply(st, r) = ApplySessionStarted(st, r)
      BY <1>3, <2>9 DEF Apply
    <3>2. QED  BY <1>1, <2>9, <3>1 DEF ApplySessionStarted, State
  <2>10. QED
    BY <2>1, <2>2, <2>3, <2>4, <2>5, <2>6, <2>7, <2>8, <2>9 DEF Record
<1>4. QED  BY <1>2, <1>3

\* The record of an append is one.
LEMMA AppendedIsRecord ==
  ASSUME TypeOK, TypeOK', NEW r, journal' = Append(journal, r)
  PROVE  r \in Record
<1>1. journal' \in Seq(Record) /\ Len(journal) + 1 \in DOMAIN journal'
  BY AppendedRecords DEF TypeOK
<1>2. journal'[Len(journal) + 1] \in Record
  BY <1>1
<1>3. QED  BY <1>2, AppendedRecords

-----------------------------------------------------------------------------
(* Steps that tell nothing.                                                *)

Silent(r) ==
  r.kind # "boundary_event" /\ (r.kind = "tool_result" => r.tells = {})

SilentStep ==
  \/ UNCHANGED <<journal, durable>> /\ live' \in {live, NewState, durable}
  \/ \E r : /\ Silent(r)
            /\ Stored(r)
            /\ live' \in {live, NewState, Apply(live, r)}

\* Nothing told, nothing new known, nothing announced.
LEMMA SilentTells ==
  ASSUME TypeOK, TypeOK', AllTold(durable.delivered), AllTold(live.delivered),
         NoStaleAnnouncement, SilentStep
  PROVE  /\ \A job : Told(job)' <=> Told(job)
         /\ \A job \in durable'.delivered : Told(job)
         /\ \A job \in live'.delivered : Told(job)
         /\ NoStaleAnnouncement'
<1>1. NewState.delivered = {}
  BY DEF NewState
<1>2. CASE UNCHANGED <<journal, durable>> /\ live' \in {live, NewState, durable}
  BY <1>1, <1>2 DEF Told, AllTold, NoStaleAnnouncement
<1>3. ASSUME NEW r, Silent(r), Stored(r),
             live' \in {live, NewState, Apply(live, r)}
      PROVE  /\ \A job : Told(job)' <=> Told(job)
             /\ \A job \in durable'.delivered : Told(job)
             /\ \A job \in live'.delivered : Told(job)
             /\ NoStaleAnnouncement'
  <2>1. journal' = Append(journal, r) /\ durable' = Apply(durable, r)
    BY <1>3 DEF Stored
  <2>2. r \in Record
    BY <2>1, AppendedIsRecord
  <2>3. \A job : ~ReportsEndOf(r, job)
    BY <1>3 DEF Silent, ReportsEndOf
  <2>4. \A job : Told(job)' <=> Told(job)
    BY <2>1, <2>3, ToldAppended
  <2>5. durable \in State /\ live \in State
    BY DEF TypeOK
  <2>6. /\ \A job \in Apply(durable, r).delivered : job \in durable.delivered
        /\ \A job \in Apply(live, r).delivered : job \in live.delivered
    BY <1>3, <2>2, <2>5, AppliedDelivered DEF Silent
  <2>7. NoStaleAnnouncement'
    BY <1>3, <2>1, NewsIsNotStale DEF Silent
  <2>8. QED  BY <1>1, <1>3, <2>1, <2>4, <2>6, <2>7 DEF AllTold
<1>4. QED  BY <1>2, <1>3 DEF SilentStep

\* A silent step that leaves the jobs alone and arrives at no place where
\* something is told, or stays.
Plain ==
  /\ SilentStep
  /\ UNCHANGED work
  /\ failed /\ ~failed' => ~Synced' /\ pc' \notin {"told", "resulted"}
  /\ Synced' => Synced
  /\ \/ pc' \notin {"told", "resulted", "result", "deliver"}
     \/ UNCHANGED <<pc, tells, offers>>

\* A plain step keeps Acknowledged and Announcing.
LEMMA PlainKeeps ==
  ASSUME TypeOK, TypeOK', Acknowledged, Announcing, Plain
  PROVE  Acknowledged' /\ Announcing'
<1>1. /\ \A job : Told(job)' <=> Told(job)
      /\ \A job \in durable'.delivered : Told(job)
      /\ \A job \in live'.delivered : Told(job)
      /\ NoStaleAnnouncement'
  BY SilentTells DEF Plain, Acknowledged, Announcing
<1>2. UNCHANGED <<jobs, seen, marked>>
  BY DEF Plain, work
<1>3. AllTold(durable.delivered)' /\ AllTold(live.delivered)'
  BY <1>1 DEF AllTold
<1>4. (pc \in {"told", "resulted"} => AllTold(tells))'
  BY <1>1 DEF Plain, Acknowledged, AllTold
<1>5. AcknowledgedIsJournaled'
  BY <1>1, <1>2 DEF Acknowledged, AcknowledgedIsJournaled
<1>6. Acknowledged'
  BY <1>3, <1>4, <1>5 DEF Acknowledged
<1>7. Unacknowledged' = Unacknowledged
  BY <1>1, <1>2 DEF Unacknowledged
<1>8. Announcing'
  <2>1. (\A job \in Jobs : Told(job) => jobs[job] \in {"finished", "gone"})'
    BY <1>1, <1>2 DEF Announcing
  <2>2. (pc = "result" => \A job \in tells : jobs[job] \in {"finished", "gone"})'
    BY <1>2 DEF Plain, Announcing
  <2>3. (Synced /\ ~failed => Unacknowledged = {})'
    BY <1>7 DEF Plain, Announcing
  <2>4. (pc \in {"told", "resulted"} /\ ~failed => Unacknowledged \subseteq tells)'
    BY <1>7 DEF Plain, Announcing
  <2>5. (pc \in {"deliver", "told"} =>
           /\ offers \cap seen = {}
           /\ \A job \in offers : jobs[job] = "finished")'
    BY <1>2 DEF Plain, Announcing
  <2>6. (pc = "told" => tells \cap offers = {})'
    BY DEF Plain, Announcing
  <2>7. QED  BY <1>1, <2>1, <2>2, <2>3, <2>4, <2>5, <2>6 DEF Announcing
<1>9. QED  BY <1>6, <1>8

\* Appends of silent records are silent steps.
LEMMA SilentAppend ==
  ASSUME NEW r, Silent(r),
         \/ Written(r)
         \/ /\ AppendFails(r) \/ Persisted(r)
            /\ live' \in {live, NewState}
  PROVE  SilentStep /\ (failed => failed')
<1>1. CASE Written(r)
  BY <1>1 DEF Written, Persisted, SilentStep
<1>2. CASE Persisted(r) /\ live' \in {live, NewState}
  BY <1>2 DEF Persisted, SilentStep
<1>3. CASE AppendFails(r) /\ live' \in {live, NewState}
  BY <1>3 DEF AppendFails, store, SilentStep
<1>4. QED  BY <1>1, <1>2, <1>3

-----------------------------------------------------------------------------
(* The plain steps.                                                        *)

\* Places where a run has not begun, has ended, or is a shell command's.
Apart == {"down", "reconcile", "idle", "open", "session", "select", "configure",
          "sync", "release", "shell_call", "shell_run", "shell_result",
          "shell_finish"}

Telling == {"told", "resulted", "result", "deliver"}

\* A step is plain if it leads apart, or on from where all is acknowledged.
LEMMA PlainMove ==
  ASSUME SilentStep, UNCHANGED work, failed => failed' \/ pc' \in Apart, pc' \notin Telling,
         \/ pc' \in Apart
         \/ Synced
  PROVE  Plain
<1>1. pc' \in Apart => ~Synced'
  BY DEF Apart, Synced, RunSteps, Looping
<1>2. QED  BY <1>1 DEF Plain, Telling

\* The same for a step that writes a silent record, or gives up, or writes none.
LEMMA PlainAppend ==
  ASSUME NEW r, Silent(r), UNCHANGED work,
         \/ Written(r)
         \/ (AppendFails(r) \/ Persisted(r)) /\ live' \in {live, NewState}
         \/ UNCHANGED <<store, live>>,
         pc' \notin Telling,
         \/ pc' \in Apart
         \/ Synced
  PROVE  Plain
<1>1. SilentStep /\ (failed => failed')
  <2>1. CASE UNCHANGED <<store, live>>
    BY <2>1 DEF SilentStep, store
  <2>2. CASE \/ Written(r)
             \/ (AppendFails(r) \/ Persisted(r)) /\ live' \in {live, NewState}
    BY <2>2, SilentAppend
  <2>3. QED  BY <2>1, <2>2
<1>2. QED  BY <1>1, PlainMove

\* What the runtime appends is silent, but for events and results of tools.
LEMMA SilentRecords ==
  /\ Silent([kind |-> "session_started"])
  /\ \A info : Silent(SelectionRecord(info))
  /\ \A c, s : Silent(ConfigurationRecord(c, s))
  /\ \A n : Silent([kind |-> "run_started", run |-> n])
  /\ \A n, i : Silent([kind |-> "run_input_added", run |-> n, input |-> i])
  /\ \A n : Silent(ResponseRecord(n))
  /\ \A n, m, e, cs : Silent([kind |-> "model_response", run |-> n, model |-> m,
                             epoch |-> e, calls |-> cs])
  /\ \A p : Silent(ResultRecord(p, {}))
  /\ \A n, c : Silent([kind |-> "tool_result", run |-> n, call |-> c,
                       tells |-> {}])
  /\ \A s, o, d : Silent(FinishRecord(s, o, d))
  /\ \A n, s, o, d : Silent([kind |-> "run_finished", run |-> n, status |-> s,
                             observed |-> o, detached |-> d])
BY DEF Silent, SelectionRecord, ConfigurationRecord, ResponseRecord, ResultRecord,
       FinishRecord

\* Where an operation goes when it gives up.
LEMMA Exits ==
  /\ Leave => pc' = "release" /\ live' = live
  /\ FinishError => pc' = "finish" /\ live' = live
  /\ \A next : Unlock(next) => pc' = next /\ live' = NewState
  /\ \A next : Goto(next) => pc' = next /\ UNCHANGED <<op, after>>
  /\ \A s : FinishWith(s) => pc' = "finish"
BY DEF Leave, FinishError, FinishWith, Unlock, Goto, control, locals

\* Reconciliation tells of no job.
LEMMA ReconcilePlain ==
  ASSUME ReconcileCall \/ ReconcileRun
  PROVE  Plain
<1>1. PICK r : Silent(r) /\ ReconcileAppends(r)
  BY SilentRecords DEF ReconcileCall, ReconcileRun
<1>2. QED  BY <1>1, Exits, PlainAppend DEF ReconcileAppends, Apart, Telling

\* Starting an operation tells of no job.
LEMMA StartPlain ==
  ASSUME StartRun \/ StartShell \/ Open \/ Reopen
  PROVE  Plain
<1>1. SilentStep
  BY Exits DEF StartRun, StartShell, Open, Reopen, store, SilentStep
<1>2. UNCHANGED work
  BY DEF StartRun, StartShell, Open, Reopen, store
<1>3. pc' \in Apart /\ pc' \notin Telling
  BY Exits DEF StartRun, StartShell, Lock, Open, Reopen, Apart, Telling
<1>4. QED  BY <1>1, <1>2, <1>3, PlainMove

\* Preparing a session and a model tells of no job.
LEMMA PreparePlain ==
  ASSUME PrepareSession \/ PrepareModel
  PROVE  Plain
<1>1. CASE PrepareSession
  BY <1>1, Exits, SilentRecords, PlainAppend DEF PrepareSession, Apart, Telling
<1>2. CASE PrepareModel
  BY <1>2, Exits, SilentRecords, PlainAppend
  DEF PrepareModel, SelectModel, Apart, Telling
<1>3. QED  BY <1>1, <1>2

\* Recording a configuration tells of no job.
LEMMA PrepareConfigurationPlain ==
  ASSUME PrepareConfiguration
  PROVE  Plain
<1> DEFINE r == ConfigurationRecord(config, scope)
           next == IF op = "run" THEN "sync" ELSE "start"
<1>1. \/ Goto(next) /\ UNCHANGED <<store, live, used>>
      \/ Written(r) /\ Goto(next)
      \/ AppendFails(r) /\ Leave
  BY DEF PrepareConfiguration
<1>2. Silent(r) /\ UNCHANGED work
  BY SilentRecords DEF PrepareConfiguration
<1>3. CASE op = "run" \/ (AppendFails(r) /\ Leave)
  BY <1>1, <1>2, <1>3, Exits, PlainAppend DEF Apart, Telling
<1>4. CASE op # "run" /\ Goto("start")
  <2>1. ~Synced' /\ pc' \notin {"told", "resulted", "result", "deliver"}
    BY <1>4, Exits DEF Synced, RunSteps, Looping
  <2>2. SilentStep /\ (failed => failed')
    <3>1. CASE UNCHANGED <<store, live, used>>
      BY <3>1 DEF SilentStep, store
    <3>2. CASE \/ Written(r)
               \/ AppendFails(r) /\ Leave
      BY <1>2, <3>2, Exits, SilentAppend
    <3>3. QED  BY <1>1, <3>1, <3>2
  <2>3. QED  BY <1>2, <2>1, <2>2 DEF Plain
<1>5. QED  BY <1>1, <1>3, <1>4

\* A run begins after it has acknowledged what the journal tells.
LEMMA RunBeginsPlain ==
  ASSUME RecordRunStarted \/ RecordInput
  PROVE  Plain
<1>1. UNCHANGED work
  BY DEF RecordRunStarted, RecordInput
<1>2. PICK r : /\ Silent(r)
               /\ \/ Written(r)
                  \/ AppendFails(r) /\ Leave
  BY SilentRecords DEF RecordRunStarted, RecordInput
<1>3. SilentStep /\ (failed => failed')
  BY <1>2, Exits, SilentAppend
<1>4. \/ pc' = "release"
      \/ pc = "start" /\ pc' = "input" /\ op' = op
      \/ pc = "input" /\ op = "run" /\ pc' = "boundary"
      \/ pc = "input" /\ pc' = "shell_call"
  BY Exits DEF RecordRunStarted, RecordInput, control
<1>5. (Synced' => Synced) /\ pc' \notin {"told", "resulted", "result", "deliver"}
  BY <1>4 DEF Synced, RunSteps, Looping
<1>6. QED  BY <1>1, <1>3, <1>5 DEF Plain

\* Boundaries, requests and waits tell of no job.
LEMMA BoundaryPlain ==
  ASSUME Boundary \/ Request \/ Await
  PROVE  Plain
<1>1. UNCHANGED <<store, live, work>>
  BY Exits DEF Boundary, StartApplying, Request, Await
<1>2. Synced
  BY DEF Boundary, Request, Await, Synced, RunSteps, Looping
<1>3. pc' \notin Telling
  BY Exits DEF Boundary, StartApplying, Request, Await, Telling
<1>4. SilentStep /\ failed' = failed
  BY <1>1 DEF SilentStep, store
<1>5. QED  BY <1>1, <1>2, <1>3, <1>4, PlainMove

\* Queued input tells of no job.
LEMMA DeliverInputPlain ==
  ASSUME DeliverInput
  PROVE  Plain
<1>1. Synced /\ UNCHANGED work
  BY DEF DeliverInput, Synced, RunSteps, Looping
<1>2. QED  BY <1>1, Exits, SilentRecords, PlainAppend DEF DeliverInput, Telling

\* A response tells of no job.
LEMMA AcceptResponsePlain ==
  ASSUME AcceptResponse
  PROVE  Plain
<1>1. Synced /\ UNCHANGED work
  BY DEF AcceptResponse, Synced, RunSteps, Looping
<1>2. AfterResponse => pc' \notin Telling
  BY Exits DEF AfterResponse, Telling
<1>3. \E n : \/ FinishWith("failed") /\ UNCHANGED <<store, live>>
             \/ Written(ResponseRecord(n)) /\ AfterResponse
             \/ AppendFails(ResponseRecord(n)) /\ Leave
  BY DEF AcceptResponse
<1>4. PICK n : \/ FinishWith("failed") /\ UNCHANGED <<store, live>>
               \/ Written(ResponseRecord(n)) /\ AfterResponse
               \/ AppendFails(ResponseRecord(n)) /\ Leave
  BY <1>3
<1>5. Silent(ResponseRecord(n))
  BY SilentRecords
<1>6. pc' \notin Telling
  BY <1>2, <1>4, Exits DEF Telling
<1>7. QED  BY <1>1, <1>4, <1>5, <1>6, Exits, PlainAppend

\* The ways out of the loop tell of no job.
LEMMA StopLoopPlain ==
  ASSUME SettleCancelled \/ RejectOverLimit \/ FinishRun
  PROVE  Plain
<1>1. Synced /\ UNCHANGED work
  BY DEF SettleCancelled, RejectOverLimit, FinishRun, Synced, RunSteps, Looping
<1>2. pc' \in {"finish", "settle", "boundary", "reject", "release"}
  <2>1. SettleCancelled => pc' \in {"finish", "settle", "release"}
    BY Exits DEF SettleCancelled
  <2>2. RejectOverLimit => pc' \in {"finish", "boundary", "reject", "release"}
    BY Exits DEF RejectOverLimit
  <2>3. FinishRun => pc' = "release"
    BY Exits DEF FinishRun
  <2>4. QED  BY <2>1, <2>2, <2>3
<1>3. \E r : /\ Silent(r)
             /\ \/ Written(r)
                \/ AppendFails(r) /\ Leave
                \/ UNCHANGED <<store, live>>
  BY SilentRecords DEF SettleCancelled, RejectOverLimit, FinishRun
<1>4. QED  BY <1>1, <1>2, <1>3, Exits, PlainAppend DEF Telling

\* A shell command tells of no job.
LEMMA ShellPlain ==
  ASSUME ShellCall \/ ShellRun \/ ShellResult \/ ShellFinish
  PROVE  Plain
<1>1. UNCHANGED work
  BY DEF ShellCall, ShellRun, ShellResult, ShellFinish
<1>2. pc' \in {"shell_run", "shell_result", "shell_finish", "release"}
  <2>1. ShellCall \/ ShellRun => pc' \in {"shell_run", "shell_result", "release"}
    BY Exits DEF ShellCall, ShellRun
  <2>2. ShellResult => pc' \in {"shell_finish", "release"}
    BY Exits DEF ShellResult
  <2>3. ShellFinish => pc' = "release"
    BY Exits DEF ShellFinish
  <2>4. QED  BY <2>1, <2>2, <2>3
<1>3. \E r : /\ Silent(r)
             /\ \/ Written(r)
                \/ AppendFails(r) /\ Leave
                \/ UNCHANGED <<store, live>>
  BY SilentRecords DEF ShellCall, ShellRun, ShellResult, ShellFinish
<1>4. QED  BY <1>1, <1>2, <1>3, Exits, PlainAppend DEF Apart, Telling

\* Selecting a model tells of no job.
LEMMA ApplyModelPlain ==
  ASSUME ApplyModel
  PROVE  Plain
<1>1. UNCHANGED work /\ pc = "apply_select"
  BY DEF ApplyModel
<1>2. \/ SelectModel(applying.info, "apply_configure", ApplyFails)
      \/ Goto("apply_configure") /\ UNCHANGED <<store, live, epochs, used>>
  <2>1. CASE live.session
    BY <2>1, Zenon DEF ApplyModel
  <2>2. CASE ~live.session
    BY <2>2, Zenon DEF ApplyModel
  <2>3. QED  BY <2>1, <2>2
<1>3. \E r : /\ Silent(r)
             /\ \/ Written(r) /\ Goto("apply_configure")
                \/ AppendFails(r) /\ ApplyFails
                \/ UNCHANGED <<store, live>> /\ Goto("apply_configure")
  BY <1>2, SilentRecords DEF SelectModel
<1>4. PICK r : /\ Silent(r)
               /\ \/ Written(r) /\ Goto("apply_configure")
                  \/ AppendFails(r) /\ ApplyFails
                  \/ UNCHANGED <<store, live>> /\ Goto("apply_configure")
  BY <1>3
<1>5. SilentStep /\ (failed => failed')
  <2>1. ApplyFails => live' \in {live, NewState}
    BY ApplyFailsCases, Exits
  <2>2. UNCHANGED <<store, live>> => SilentStep /\ failed' = failed
    BY DEF SilentStep, store
  <2>3. QED  BY <1>4, <2>1, <2>2, SilentAppend
<1>6. \/ pc' = "idle"
      \/ pc' = "apply_configure" /\ after' = after
      \/ pc' = "finish" /\ after # "idle"
  BY <1>4, ApplyFailsCases, Exits
<1>7. Synced' => Synced
  BY <1>1, <1>6 DEF Synced, RunSteps, Looping
<1>8. QED  BY <1>1, <1>5, <1>6, <1>7 DEF Plain

\* Describing a selection tells of no job.
LEMMA ApplyConfigurationPlain ==
  ASSUME TypeOK, ApplyConfiguration
  PROVE  Plain
<1> DEFINE r == ConfigurationRecord(applying, scope)
<1>1. UNCHANGED work /\ pc = "apply_configure" /\ Silent(r)
  BY SilentRecords DEF ApplyConfiguration
<1>2. \/ Applied /\ UNCHANGED <<store, used>>
      \/ Persisted(r) /\ Unlock("idle")
      \/ after # "idle" /\ Written(r) /\ Goto(after)
      \/ AppendFails(r) /\ ApplyFails
  BY DEF ApplyConfiguration
<1> HIDE DEF r
<1>3. Applied => \/ Unlock("idle")
                 \/ after # "idle" /\ Goto(after) /\ UNCHANGED live
  BY DEF Applied
<1>4. SilentStep /\ (failed => failed')
  <2>1. ApplyFails => live' \in {live, NewState}
    BY ApplyFailsCases, Exits
  <2>2. CASE Applied /\ UNCHANGED <<store, used>>
    BY <1>3, <2>2, Exits DEF SilentStep, store
  <2>3. QED  BY <1>1, <1>2, <2>1, <2>2, Exits, SilentAppend
<1>5. \/ pc' = "idle"
      \/ pc' \in {"queue", "request", "finish"} /\ after # "idle"
  BY <1>2, <1>3, ApplyFailsCases, Exits DEF TypeOK
<1>6. Synced' => Synced
  BY <1>1, <1>5 DEF Synced, RunSteps, Looping
<1>7. QED  BY <1>1, <1>4, <1>5, <1>6 DEF Plain

\* Returning, and selecting between operations, tells of no job.
LEMMA ReleasePlain ==
  ASSUME Consistent, Release \/ ApplySelection
  PROVE  Plain
<1>1. UNCHANGED <<work, store>>
  BY DEF Release, ApplySelection
<1>2. \/ Unlock("idle")
      \/ /\ pc' = "apply_select" /\ after' = "idle"
         /\ live' \in {live, durable}
  <2>1. ApplySelection => after = "idle"
    BY DEF ApplySelection, Consistent, Placed
  <2>2. QED  BY <2>1 DEF Release, StartApplying, ApplySelection, locals
<1>3. SilentStep /\ failed' = failed
  BY <1>1, <1>2, Exits DEF SilentStep, store
<1>4. ~Synced' /\ pc' \notin {"told", "resulted", "result", "deliver"}
  BY <1>2, Exits DEF Synced, RunSteps, Looping
<1>5. QED  BY <1>1, <1>3, <1>4 DEF Plain

\* What users do tells of no job.
LEMMA OutsidePlain ==
  ASSUME Cancel \/ DeferSelection \/ SetScope \/ QueueInput \/ TakeInput \/ Rest
         \/ UNCHANGED vars
  PROVE  Plain
<1>1. UNCHANGED <<pc, op, after, tells, offers, live, work>>
  BY DEF Cancel, DeferSelection, SetScope, QueueInput, TakeInput, Rest, vars,
         locals, control
<1>2. SilentStep /\ (failed => failed')
  <2>1. CASE UNCHANGED store
    BY <1>1, <2>1 DEF SilentStep, store
  <2>2. CASE SetScope
    <3>1. \E s : \/ UNCHANGED store
                \/ /\ ~failed
                   /\ \/ Stored(ConfigurationRecord(config, s))
                      \/ UNCHANGED <<journal, durable>>
      BY <2>2 DEF SetScope
    <3>2. QED  BY <1>1, <2>1, <3>1, SilentRecords DEF SilentStep
  <2>3. QED
    BY <2>1, <2>2 DEF Cancel, DeferSelection, QueueInput, TakeInput, Rest, vars
<1>3. Synced' => Synced
  BY <1>1 DEF Synced
<1>4. QED  BY <1>1, <1>2, <1>3 DEF Plain

-----------------------------------------------------------------------------
(* Ends of a process, and of a job.                                        *)

\* A step to a place apart may forget acknowledgements and jobs, a detached job
\* only if it was acknowledged.
LEMMA EndKeeps ==
  ASSUME TypeOK, TypeOK', Acknowledged, Announcing, SilentStep, pc' \in Apart,
         seen' \subseteq seen, marked' \subseteq marked,
         \A job \in Jobs : jobs[job] \in {"finished", "gone"} =>
                           jobs'[job] \in {"finished", "gone"},
         \A job \in DetachedJobs :
           jobs'[job] = "gone" => jobs[job] = "gone" \/ job \in seen \cup marked
  PROVE  Acknowledged' /\ Announcing'
<1>1. /\ \A job : Told(job)' <=> Told(job)
      /\ \A job \in durable'.delivered : Told(job)
      /\ \A job \in live'.delivered : Told(job)
      /\ NoStaleAnnouncement'
  BY SilentTells DEF Acknowledged, Announcing
<1>2. ~Synced' /\ pc' \notin {"told", "resulted", "result", "deliver"}
  BY DEF Synced, RunSteps, Looping, Apart
<1>3. AcknowledgedIsJournaled'
  BY <1>1 DEF Acknowledged, AcknowledgedIsJournaled, DetachedJobs
<1>4. Acknowledged'
  BY <1>1, <1>2, <1>3 DEF Acknowledged, AllTold
<1>5. (\A job \in Jobs : Told(job) => jobs[job] \in {"finished", "gone"})'
  BY <1>1 DEF Announcing
<1>6. Announcing'
  BY <1>1, <1>2, <1>5 DEF Announcing
<1>7. QED  BY <1>4, <1>6

\* A process forgets what it acknowledged; what is dropped was acknowledged.
LEMMA ProcessKeeps ==
  ASSUME TypeOK, TypeOK', Acknowledged, Announcing, Attach \/ Crash \/ Close
  PROVE  Acknowledged' /\ Announcing'
<1>1. SilentStep /\ pc' \in Apart
  BY Exits DEF Attach, Crash, Close, ProcessEnds, SilentStep, store, Apart
<1>2. seen' \subseteq seen /\ marked' \subseteq marked
  BY DEF Attach, Crash, Close, ProcessEnds
<1>3. \A job \in Jobs : jobs[job] \in {"finished", "gone"} =>
                        jobs'[job] \in {"finished", "gone"}
  BY DEF Attach, Crash, Close
<1>4. \A job \in DetachedJobs :
        jobs'[job] = "gone" => jobs[job] = "gone" \/ job \in seen \cup marked
  BY DEF Attach, Crash, Close, DetachedJobs
<1>5. QED  BY <1>1, <1>2, <1>3, <1>4, EndKeeps

\* A job the journal tells of does not end again.
LEMMA JobFinishesKeeps ==
  ASSUME TypeOK, TypeOK', Acknowledged, Announcing, NEW job \in Jobs,
         JobFinishes(job)
  PROVE  Acknowledged' /\ Announcing'
<1>1. /\ UNCHANGED <<journal, durable, failed, op, pc, after, tells, offers, live,
                     seen, marked>>
  BY DEF JobFinishes, store, locals, control
<1>2. SilentStep
  BY <1>1 DEF SilentStep
<1>3. /\ \A j : Told(j)' <=> Told(j)
      /\ \A j \in durable'.delivered : Told(j)
      /\ \A j \in live'.delivered : Told(j)
      /\ NoStaleAnnouncement'
  BY <1>2, SilentTells DEF Acknowledged, Announcing
<1>4. /\ jobs[job] = "running" /\ ~Told(job)
      /\ jobs'[job] = "finished"
      /\ \A j \in Jobs \ {job} : jobs'[j] = jobs[j]
  BY DEF JobFinishes, TypeOK, Announcing
<1>5. AcknowledgedIsJournaled'
  BY <1>1, <1>3, <1>4 DEF Acknowledged, AcknowledgedIsJournaled, DetachedJobs
<1>6. Acknowledged'
  BY <1>1, <1>3, <1>5 DEF Acknowledged, AllTold
<1>7. Unacknowledged' = Unacknowledged
  BY <1>1, <1>3, <1>4 DEF Unacknowledged
<1>8. Synced' <=> Synced
  BY <1>1 DEF Synced
<1>9. tells \in SUBSET Jobs /\ offers \in SUBSET Jobs
  BY DEF TypeOK
<1>10. Announcing'
  <2>1. (\A j \in Jobs : Told(j) => jobs[j] \in {"finished", "gone"})'
    BY <1>3, <1>4 DEF Announcing
  <2>2. (pc = "result" => \A j \in tells : jobs[j] \in {"finished", "gone"})'
    BY <1>1, <1>4, <1>9 DEF Announcing
  <2>3. (pc \in {"deliver", "told"} =>
           /\ offers \cap seen = {}
           /\ \A j \in offers : jobs[j] = "finished")'
    BY <1>1, <1>4, <1>9 DEF Announcing
  <2>4. QED  BY <1>1, <1>3, <1>7, <1>8, <2>1, <2>2, <2>3 DEF Announcing
<1>11. QED  BY <1>6, <1>10

-----------------------------------------------------------------------------
(* Acknowledgements.                                                       *)

\* Acknowledging what the journal tells leaves less unacknowledged, and breaks
\* nothing that is not about the place of the operation.
LEMMA MarkKeeps ==
  ASSUME TypeOK, TypeOK', Acknowledged, Announcing, NEW D \in SUBSET Jobs,
         AllTold(D), MarkDelivered(D), UNCHANGED <<store, live>>
  PROVE  /\ \A job : Told(job)' <=> Told(job)
         /\ AllTold(durable.delivered)' /\ AllTold(live.delivered)'
         /\ AcknowledgedIsJournaled'
         /\ NoStaleAnnouncement'
         /\ jobs' = jobs
         /\ \A job \in seen' \ seen : job \in D
         /\ Unacknowledged' = Unacknowledged \ D
         /\ (\A job \in Jobs : Told(job) => jobs[job] \in {"finished", "gone"})'
<1>1. SilentStep
  BY DEF store, SilentStep
<1>2. /\ \A job : Told(job)' <=> Told(job)
      /\ \A job \in durable'.delivered : Told(job)
      /\ \A job \in live'.delivered : Told(job)
      /\ NoStaleAnnouncement'
  BY <1>1, SilentTells DEF Acknowledged, Announcing
<1>3. /\ jobs' = jobs
      /\ seen' = seen \cup {j \in D : jobs[j] = "finished"}
      /\ \A job \in marked' : job \in marked \/ job \in D
  BY DEF MarkDelivered
<1>4. AcknowledgedIsJournaled'
  BY <1>2, <1>3 DEF Acknowledged, AcknowledgedIsJournaled, AllTold
<1>5. Unacknowledged' = Unacknowledged \ D
  BY <1>2, <1>3 DEF Unacknowledged
<1>6. (\A job \in Jobs : Told(job) => jobs[job] \in {"finished", "gone"})'
  BY <1>2, <1>3 DEF Announcing
<1>7. QED  BY <1>2, <1>3, <1>4, <1>5, <1>6 DEF AllTold

\* A run that syncs has acknowledged all the journal tells.
LEMMA SyncKeeps ==
  ASSUME TypeOK, TypeOK', Acknowledged, Announcing, SyncExternalWork
  PROVE  Acknowledged' /\ Announcing'
<1> DEFINE D == {j \in Jobs : Told(j)}
<1>1. /\ D \in SUBSET Jobs /\ AllTold(D) /\ MarkDelivered(D)
      /\ UNCHANGED <<store, live>> /\ pc' = "start"
  BY Exits DEF SyncExternalWork, AllTold
<1>2. Unacknowledged \subseteq D
  BY DEF Unacknowledged
<1> HIDE DEF D
<1>3. Acknowledged'
  BY <1>1, MarkKeeps DEF Acknowledged
<1>4. Unacknowledged' = {}
  BY <1>1, <1>2, MarkKeeps
<1>5. Announcing'
  BY <1>1, <1>4, MarkKeeps DEF Announcing
<1>6. QED  BY <1>3, <1>5

\* What was committed is acknowledged before the run goes on.
LEMMA CommittedKeeps ==
  ASSUME TypeOK, TypeOK', Acknowledged, Announcing,
         EventCommitted \/ ToolResultCommitted
  PROVE  Acknowledged' /\ Announcing'
<1>1. /\ pc \in {"told", "resulted"}
      /\ MarkDelivered(tells)
      /\ UNCHANGED <<store, live, tells, offers>>
      /\ \/ pc = "told" /\ pc' = "deliver"
         \/ pc = "resulted" /\ pc' = "tools"
  BY DEF EventCommitted, ToolResultCommitted, Goto, locals
<1>2. tells \in SUBSET Jobs /\ AllTold(tells)
  BY <1>1 DEF TypeOK, Acknowledged
<1>3. Acknowledged'
  BY <1>1, <1>2, MarkKeeps DEF Acknowledged
<1>4. ~failed' => Unacknowledged' = {}
  <2>1. ~failed' => Unacknowledged \subseteq tells
    BY <1>1 DEF Announcing, store
  <2>2. QED  BY <1>1, <1>2, <2>1, MarkKeeps
<1>5. pc' = "deliver" => /\ offers' \cap seen' = {}
                         /\ \A job \in offers' : jobs'[job] = "finished"
  <2>1. pc' = "deliver" => /\ offers \cap seen = {} /\ tells \cap offers = {}
                           /\ \A job \in offers : jobs[job] = "finished"
    BY <1>1 DEF Announcing
  <2>2. QED  BY <1>1, <1>2, <2>1, MarkKeeps
<1>6. Announcing'
  BY <1>1, <1>2, <1>4, <1>5, MarkKeeps DEF Announcing
<1>7. QED  BY <1>3, <1>6

-----------------------------------------------------------------------------
(* Announcements, and the results of tools.                                *)

\* The snapshot of what is pending holds finished jobs nobody acknowledged.
LEMMA OfferEventsKeeps ==
  ASSUME TypeOK, TypeOK', Acknowledged, Announcing, OfferEvents
  PROVE  Acknowledged' /\ Announcing'
<1>1. /\ UNCHANGED <<store, live, work, failed>>
      /\ pc = "offer" /\ pc' = "deliver"
      /\ offers' = {j \in Jobs : jobs[j] = "finished"} \ seen
  BY DEF OfferEvents, PendingEvents, store
<1>2. SilentStep
  BY <1>1 DEF SilentStep, store
<1>3. /\ \A job : Told(job)' <=> Told(job)
      /\ \A job \in durable'.delivered : Told(job)
      /\ \A job \in live'.delivered : Told(job)
      /\ NoStaleAnnouncement'
  BY <1>2, SilentTells DEF Acknowledged, Announcing
<1>4. UNCHANGED <<jobs, seen, marked>>
  BY <1>1 DEF work
<1>5. AcknowledgedIsJournaled'
  BY <1>3, <1>4 DEF Acknowledged, AcknowledgedIsJournaled
<1>6. Acknowledged'
  BY <1>1, <1>3, <1>5 DEF Acknowledged, AllTold
<1>7. Unacknowledged' = Unacknowledged
  BY <1>3, <1>4 DEF Unacknowledged
<1>8. ~failed' => Unacknowledged' = {}
  BY <1>1, <1>7 DEF Announcing, Synced, RunSteps, Looping
<1>9. (\A job \in Jobs : Told(job) => jobs[job] \in {"finished", "gone"})'
  BY <1>3, <1>4 DEF Announcing
<1>10. Announcing'
  BY <1>1, <1>3, <1>4, <1>8, <1>9 DEF Announcing
<1>11. QED  BY <1>6, <1>10

\* A record of ends of jobs, in the journal.
LEMMA TellingAppend ==
  ASSUME TypeOK, TypeOK', Acknowledged, Announcing, UNCHANGED work,
         NEW r, Stored(r), live' \in {live, Apply(live, r)},
         r.kind \in {"boundary_event", "tool_result"},
         r.kind = "boundary_event" => \A job \in r.tells : ~Told(job),
         \A job \in r.tells : jobs[job] \in {"finished", "gone"}
  PROVE  /\ \A job \in r.tells : Told(job)'
         /\ AllTold(durable.delivered)' /\ AllTold(live.delivered)'
         /\ AcknowledgedIsJournaled'
         /\ NoStaleAnnouncement'
         /\ \A job \in Unacknowledged' : job \in Unacknowledged \/ job \in r.tells
         /\ (\A job \in Jobs : Told(job) => jobs[job] \in {"finished", "gone"})'
<1>1. journal' = Append(journal, r) /\ durable' = Apply(durable, r)
  BY DEF Stored
<1>2. r \in Record /\ durable \in State /\ live \in State
  BY <1>1, AppendedIsRecord DEF TypeOK
<1>3. \A job : Told(job)' <=> Told(job) \/ job \in r.tells
  BY <1>1, ToldAppended DEF ReportsEndOf
<1>4. UNCHANGED <<jobs, seen, marked>>
  BY DEF work
<1>5. /\ \A job \in durable'.delivered : job \in durable.delivered \/ job \in r.tells
      /\ \A job \in live'.delivered : job \in live.delivered \/ job \in r.tells
  BY <1>1, <1>2, AppliedDelivered
<1>6. \A job \in r.tells : Told(job)'
  BY <1>3
<1>7. (\A job \in durable'.delivered : Told(job)')
      /\ (\A job \in live'.delivered : Told(job)')
  BY <1>3, <1>5 DEF Acknowledged, AllTold
<1>8. AcknowledgedIsJournaled'
  BY <1>3, <1>4 DEF Acknowledged, AcknowledgedIsJournaled
<1>9. NoStaleAnnouncement'
  BY <1>1, NewsIsNotStale DEF Announcing
<1>10. \A job \in Unacknowledged' : job \in Unacknowledged \/ job \in r.tells
  BY <1>3, <1>4 DEF Unacknowledged
<1>11. (\A job \in Jobs : Told(job) => jobs[job] \in {"finished", "gone"})'
  BY <1>3, <1>4 DEF Announcing
<1>12. QED  BY <1>6, <1>7, <1>8, <1>9, <1>10, <1>11 DEF AllTold

\* An event is about jobs that ended and that nobody was told of; one that is
\* already known is acknowledged, and none is written.
LEMMA DeliverEventKeeps ==
  ASSUME TypeOK, TypeOK', Acknowledged, Announcing, DeliverEvent
  PROVE  Acknowledged' /\ Announcing'
<1>1. /\ pc = "deliver" /\ Synced
      /\ offers \cap seen = {}
      /\ \A job \in offers : jobs[job] = "finished"
      /\ offers \in SUBSET Jobs
  BY DEF DeliverEvent, Announcing, Synced, RunSteps, Looping, TypeOK
<1>2. CASE Goto("request") /\ UNCHANGED <<store, live, work, used>>
  <2>1. Plain
    BY <1>1, <1>2, Exits, PlainMove DEF SilentStep, store, Telling
  <2>2. QED  BY <2>1, PlainKeeps
<1>3. ASSUME NEW job \in offers \cap live.delivered,
             MarkDelivered({job}), offers' = offers \ {job},
             UNCHANGED <<run, iterations, limited, status, reply, after, tells,
                         control, pc, store, live, used>>
      PROVE  Acknowledged' /\ Announcing'
  <2>1. /\ UNCHANGED <<store, live, pc>> /\ {job} \in SUBSET Jobs
        /\ AllTold({job})
    BY <1>1, <1>3 DEF Acknowledged, AllTold
  <2>2. Acknowledged'
    BY <1>1, <1>3, <2>1, MarkKeeps DEF Acknowledged
  <2>3. ~failed' => Unacknowledged' = {}
    <3>1. ~failed' => Unacknowledged = {}
      BY <1>1, <2>1 DEF Announcing, store
    <3>2. QED  BY <1>3, <2>1, <3>1, MarkKeeps
  <2>4. /\ offers' \cap seen' = {}
        /\ \A other \in offers' : jobs'[other] = "finished"
    BY <1>1, <1>3, <2>1, MarkKeeps
  <2>5. Announcing'
    BY <1>1, <1>3, <2>1, <2>3, <2>4, MarkKeeps DEF Announcing
  <2>6. QED  BY <2>2, <2>5
<1>4. ASSUME NEW job \in offers \ live.delivered, UNCHANGED work,
             NEW r, r = [kind |-> "boundary_event", run |-> run, tells |-> {job}],
             \/ /\ Written(r)
                /\ tells' = {job}
                /\ offers' = offers \ {job}
                /\ pc' = "told"
             \/ AppendFails(r) /\ FinishError
      PROVE  Acknowledged' /\ Announcing'
  <2>1. UNCHANGED <<jobs, seen, marked>>
    BY <1>4 DEF work
  <2>2. /\ r.kind = "boundary_event" /\ r.tells = {job}
        /\ job \in Jobs /\ jobs[job] = "finished" /\ job \notin seen
    BY <1>1, <1>4
  <2>3. ~failed => ~Told(job) /\ Unacknowledged = {}
    BY <1>1, <2>2 DEF Announcing, Unacknowledged
  <2>4. CASE /\ Written(r)
             /\ tells' = {job}
             /\ offers' = offers \ {job}
             /\ pc' = "told"
    <3>1. Stored(r) /\ live' = Apply(live, r) /\ ~failed /\ failed' = failed
      BY <2>4 DEF Written, Persisted
    <3>2. /\ \A j \in r.tells : Told(j)'
          /\ AllTold(durable.delivered)' /\ AllTold(live.delivered)'
          /\ AcknowledgedIsJournaled'
          /\ NoStaleAnnouncement'
          /\ \A j \in Unacknowledged' : j \in Unacknowledged \/ j \in r.tells
          /\ (\A j \in Jobs : Told(j) => jobs[j] \in {"finished", "gone"})'
      BY <1>4, <2>2, <2>3, <3>1, TellingAppend
    <3>3. Acknowledged'
      BY <2>2, <2>4, <3>2 DEF Acknowledged, AllTold
    <3>4. Unacknowledged' \subseteq tells'
      BY <2>2, <2>3, <2>4, <3>1, <3>2
    <3>5. /\ offers' \cap seen' = {} /\ tells' \cap offers' = {}
          /\ \A other \in offers' : jobs'[other] = "finished"
      BY <1>1, <2>1, <2>4
    <3>6. Announcing'
      BY <2>4, <3>2, <3>4, <3>5 DEF Announcing, Synced, RunSteps
    <3>7. QED  BY <3>3, <3>6
  <2>5. CASE AppendFails(r) /\ FinishError
    <3>1. pc' = "finish" /\ live' = live
      BY <2>5, Exits
    <3>2. \/ UNCHANGED store
          \/ failed' /\ UNCHANGED <<journal, durable>>
          \/ ~failed /\ failed' /\ Stored(r)
      BY <2>5 DEF AppendFails, store
    <3>3. CASE UNCHANGED store \/ (failed' /\ UNCHANGED <<journal, durable>>)
      <4>1. SilentStep /\ (failed => failed')
        BY <3>1, <3>3 DEF SilentStep, store
      <4>2. Plain
        BY <1>1, <1>4, <3>1, <4>1, PlainMove DEF Telling
      <4>3. QED  BY <4>2, PlainKeeps
    <3>4. CASE ~failed /\ failed' /\ Stored(r)
      <4>1. /\ AllTold(durable.delivered)' /\ AllTold(live.delivered)'
            /\ AcknowledgedIsJournaled'
            /\ NoStaleAnnouncement'
            /\ (\A j \in Jobs : Told(j) => jobs[j] \in {"finished", "gone"})'
        BY <1>4, <2>2, <2>3, <3>1, <3>4, TellingAppend
      <4>2. Acknowledged'
        BY <3>1, <4>1 DEF Acknowledged
      <4>3. Announcing'
        BY <3>1, <3>4, <4>1 DEF Announcing
      <4>4. QED  BY <4>2, <4>3
    <3>5. QED  BY <3>2, <3>3, <3>4
  <2>6. QED  BY <1>4, <2>4, <2>5
<1>5. QED  BY <1>2, <1>3, <1>4 DEF DeliverEvent

\* A tool starts a job or reports one that ended.
LEMMA ExecuteToolKeeps ==
  ASSUME TypeOK, TypeOK', Acknowledged, Announcing, ExecuteTool
  PROVE  Acknowledged' /\ Announcing'
<1>1. /\ pc = "tools" /\ Synced
      /\ UNCHANGED <<store, failed, journal, durable, live, seen, marked>>
  BY DEF ExecuteTool, Synced, RunSteps, Looping, store
<1>2. SilentStep
  BY <1>1 DEF SilentStep
<1>3. \/ pc' \in {"boundary", "settle"} /\ UNCHANGED jobs
      \/ ToolEffect /\ pc' \in {"settle", "result"}
  BY Exits DEF ExecuteTool
<1>4. CASE pc' \in {"boundary", "settle"} /\ UNCHANGED jobs
  <2>1. UNCHANGED work
    BY <1>1, <1>4 DEF work
  <2>2. Plain
    BY <1>1, <1>2, <1>4, <2>1, PlainMove DEF Telling
  <2>3. QED  BY <2>2, PlainKeeps
<1>5. CASE ToolEffect /\ pc' \in {"settle", "result"}
  <2>1. /\ \A job : Told(job)' <=> Told(job)
        /\ \A job \in durable'.delivered : Told(job)
        /\ \A job \in live'.delivered : Told(job)
        /\ NoStaleAnnouncement'
    BY <1>2, SilentTells DEF Acknowledged, Announcing
  <2>2. /\ \A j \in Jobs : \/ jobs'[j] = jobs[j]
                           \/ jobs[j] = "unused" /\ jobs'[j] = "running"
        /\ \A j \in tells' : jobs'[j] = "finished"
    BY <1>5 DEF ToolEffect, TypeOK
  <2>3. AcknowledgedIsJournaled'
    BY <1>1, <2>1, <2>2 DEF Acknowledged, AcknowledgedIsJournaled, DetachedJobs
  <2>4. Acknowledged'
    BY <1>5, <2>1, <2>3 DEF Acknowledged, AllTold
  <2>5. Unacknowledged' = Unacknowledged
    BY <1>1, <2>1, <2>2 DEF Unacknowledged
  <2>6. (\A job \in Jobs : Told(job) => jobs[job] \in {"finished", "gone"})'
    BY <2>1, <2>2 DEF Announcing
  <2>7. (Synced /\ ~failed => Unacknowledged = {})'
    BY <1>1, <2>5 DEF Announcing
  <2>8. Announcing'
    BY <1>5, <2>1, <2>2, <2>6, <2>7 DEF Announcing
  <2>9. QED  BY <2>4, <2>8
<1>6. QED  BY <1>3, <1>4, <1>5

\* The result of a tool tells what the tool saw of ended jobs.
LEMMA CommitToolResultKeeps ==
  ASSUME TypeOK, TypeOK', Acknowledged, Announcing, CommitToolResult
  PROVE  Acknowledged' /\ Announcing'
<1>1. /\ pc = "result" /\ Synced /\ UNCHANGED work
      /\ \A job \in tells : jobs[job] \in {"finished", "gone"}
  BY DEF CommitToolResult, Announcing, Synced, RunSteps, Looping
<1>2. PICK p : \/ Written(ResultRecord(p, tells)) /\ Goto("resulted")
               \/ AppendFails(ResultRecord(p, tells)) /\ Leave
  BY DEF CommitToolResult
<1> PICK r : r = ResultRecord(p, tells)
  OBVIOUS
<1>3. r.kind = "tool_result" /\ r.tells = tells
  BY DEF ResultRecord
<1>4. \/ Written(r) /\ Goto("resulted")
      \/ AppendFails(r) /\ Leave
  BY <1>2, Zenon
<1>5. CASE Written(r) /\ Goto("resulted")
  <2>1. /\ Stored(r) /\ live' = Apply(live, r) /\ ~failed /\ failed' = failed
        /\ pc' = "resulted" /\ tells' = tells
    BY <1>5 DEF Written, Persisted, Goto, locals
  <2>2. /\ \A j \in r.tells : Told(j)'
        /\ AllTold(durable.delivered)' /\ AllTold(live.delivered)'
        /\ AcknowledgedIsJournaled'
        /\ NoStaleAnnouncement'
        /\ \A j \in Unacknowledged' : j \in Unacknowledged \/ j \in r.tells
        /\ (\A j \in Jobs : Told(j) => jobs[j] \in {"finished", "gone"})'
    BY <1>1, <1>3, <2>1, TellingAppend
  <2>3. AllTold(tells)'
    BY <1>3, <2>1, <2>2 DEF AllTold
  <2>4. Acknowledged'
    BY <2>2, <2>3 DEF Acknowledged
  <2>5. Unacknowledged' \subseteq tells'
    BY <1>1, <1>3, <2>1, <2>2 DEF Announcing
  <2>6. Announcing'
    BY <2>1, <2>2, <2>5 DEF Announcing, Synced, RunSteps
  <2>7. QED  BY <2>4, <2>6
<1>6. CASE AppendFails(r) /\ Leave
  <2>1. pc' = "release" /\ live' = live
    BY <1>6, Exits
  <2>2. UNCHANGED <<journal, durable>> \/ Stored(r)
    BY <1>6 DEF AppendFails, store
  <2>3. CASE UNCHANGED <<journal, durable>>
    <3>1. SilentStep /\ (failed => failed')
      BY <1>6, <2>1, <2>3 DEF SilentStep, AppendFails, store
    <3>2. Plain
      BY <1>1, <2>1, <3>1, PlainMove DEF Telling
    <3>3. QED  BY <3>2, PlainKeeps
  <2>4. CASE Stored(r)
    <3>1. /\ AllTold(durable.delivered)' /\ AllTold(live.delivered)'
          /\ AcknowledgedIsJournaled'
          /\ NoStaleAnnouncement'
          /\ (\A j \in Jobs : Told(j) => jobs[j] \in {"finished", "gone"})'
      BY <1>1, <1>3, <2>1, <2>4, TellingAppend
    <3>2. Acknowledged'
      BY <2>1, <3>1 DEF Acknowledged
    <3>3. Announcing'
      BY <2>1, <3>1 DEF Announcing, Synced, RunSteps, Looping
    <3>4. QED  BY <3>2, <3>3
  <2>5. QED  BY <2>2, <2>3, <2>4
<1>7. QED  BY <1>4, <1>5, <1>6

-----------------------------------------------------------------------------
(* The theorems.                                                           *)

\* An empty journal tells nothing, and nobody has acknowledged anything.
LEMMA InitAnnouncing ==
  ASSUME Init
  PROVE  Acknowledged /\ Announcing
<1>1. /\ journal = <<>> /\ \A job : ~Told(job)
      /\ durable.delivered = {} /\ live.delivered = {}
      /\ pc = "down" /\ seen = {} /\ marked = {}
      /\ \A job \in Jobs : jobs[job] = "unused"
  BY DEF Init, NewState, Told
<1>2. Acknowledged
  BY <1>1 DEF Acknowledged, AllTold, AcknowledgedIsJournaled, DetachedJobs
<1>3. Announcing
  BY <1>1 DEF Announcing, NoStaleAnnouncement, Synced, RunSteps, Looping
<1>4. QED  BY <1>2, <1>3

\* Every step of the runtime and of its surroundings keeps both.
LEMMA StepAnnouncing ==
  ASSUME TypeOK, TypeOK', Consistent, Acknowledged, Announcing, [Next]_vars
  PROVE  Acknowledged' /\ Announcing'
<1>1. CASE \/ ReconcileCall \/ ReconcileRun \/ Open \/ Reopen \/ StartRun
           \/ StartShell \/ PrepareSession \/ PrepareModel \/ PrepareConfiguration
  BY <1>1, ReconcilePlain, StartPlain, PreparePlain, PrepareConfigurationPlain,
     PlainKeeps
<1>2. CASE \/ RecordRunStarted \/ RecordInput \/ Boundary \/ Request \/ Await
           \/ DeliverInput \/ AcceptResponse
  BY <1>2, RunBeginsPlain, BoundaryPlain, DeliverInputPlain, AcceptResponsePlain,
     PlainKeeps
<1>3. CASE \/ SettleCancelled \/ RejectOverLimit \/ FinishRun
           \/ ShellCall \/ ShellRun \/ ShellResult \/ ShellFinish
  BY <1>3, StopLoopPlain, ShellPlain, PlainKeeps
<1>4. CASE ApplyModel \/ ApplyConfiguration \/ Release \/ ApplySelection
  BY <1>4, ApplyModelPlain, ApplyConfigurationPlain, ReleasePlain, PlainKeeps
<1>5. CASE \/ Cancel \/ DeferSelection \/ SetScope \/ QueueInput \/ TakeInput
           \/ Rest \/ UNCHANGED vars
  BY <1>5, OutsidePlain, PlainKeeps
<1>6. CASE Attach \/ Crash \/ Close \/ \E job \in Jobs : JobFinishes(job)
  BY <1>6, ProcessKeeps, JobFinishesKeeps
<1>7. CASE SyncExternalWork \/ EventCommitted \/ ToolResultCommitted
  BY <1>7, SyncKeeps, CommittedKeeps
<1>8. CASE OfferEvents \/ DeliverEvent \/ ExecuteTool \/ CommitToolResult
  BY <1>8, OfferEventsKeeps, DeliverEventKeeps, ExecuteToolKeeps,
     CommitToolResultKeeps
<1>9. QED
  BY <1>1, <1>2, <1>3, <1>4, <1>5, <1>6, <1>7, <1>8 DEF Next, RunStep, OutsideStep

\* What is acknowledged is journaled and what is journaled is not announced, in
\* every state.
LEMMA SpecAnnouncing == Spec => [](Acknowledged /\ Announcing)
<1>1. Init => Acknowledged /\ Announcing
  BY InitAnnouncing
<1>2. /\ TypeOK /\ TypeOK' /\ Consistent
      /\ Acknowledged /\ Announcing /\ [Next]_vars
      => Acknowledged' /\ Announcing'
  BY StepAnnouncing
<1>3. QED  BY <1>1, <1>2, SpecConsistent, PTL DEF Spec

\* No completion of a job is lost: when its mailbox is dropped, the journal
\* tells how the job ended, however the process died and whatever write failed.
THEOREM SpecAcknowledgedIsJournaled == Spec => []AcknowledgedIsJournaled
<1>1. Acknowledged => AcknowledgedIsJournaled
  BY DEF Acknowledged
<1>2. QED  BY <1>1, SpecAnnouncing, PTL

\* No boundary event tells the model of a job whose end the journal already
\* tells, even after a crash between the record and its acknowledgement.
THEOREM SpecNoStaleAnnouncement == Spec => []NoStaleAnnouncement
<1>1. Announcing => NoStaleAnnouncement
  BY DEF Announcing
<1>2. QED  BY <1>1, SpecAnnouncing, PTL

-----------------------------------------------------------------------------
(* The steps, grouped by where they lead.                                  *)

\* Steps of the loop of a run.
LoopSteps == {"boundary", "queue", "offer", "deliver", "told", "request", "accept",
              "await", "tools", "result", "resulted", "reject", "settle", "finish"}

ShellSteps == {"shell_call", "shell_run", "shell_result", "shell_finish"}

ApplySteps == {"apply_select", "apply_configure"}

LoopWork ==
  \/ DeliverInput \/ OfferEvents \/ DeliverEvent \/ EventCommitted
  \/ ToolResultCommitted \/ Request \/ AcceptResponse \/ Await \/ ExecuteTool
  \/ CommitToolResult \/ SettleCancelled \/ RejectOverLimit \/ FinishRun

ShellWork == ShellCall \/ ShellRun \/ ShellResult \/ ShellFinish

Preparation ==
  \/ PrepareSession \/ PrepareModel \/ PrepareConfiguration \/ SyncExternalWork
  \/ RecordRunStarted \/ RecordInput

\* What leaves the operation where it is.
Aside == Cancel \/ QueueInput \/ TakeInput \/ \E job \in Jobs : JobFinishes(job)

\* The loop of a run goes on in the loop, or returns an error.
LEMMA LoopFlow ==
  ASSUME LoopWork
  PROVE  /\ UNCHANGED <<selection, op, after, opened, cancelled, run>>
         /\ pc \in LoopSteps
         /\ pc' \in LoopSteps \cup {"release"}
<1> USE DEF LoopSteps, locals, control
<1>1. FinishError => /\ UNCHANGED <<op, after, opened, cancelled, run>>
                     /\ pc' = "finish"
  BY DEF FinishError, FinishWith
<1>2. \A s : FinishWith(s) => /\ UNCHANGED <<op, after, opened, cancelled, run>>
                              /\ pc' = "finish"
  BY DEF FinishWith
<1>3. Leave => UNCHANGED <<op, after, opened, cancelled, run>> /\ pc' = "release"
  BY DEF Leave, Goto
<1>4. \A next : Goto(next) => /\ UNCHANGED <<op, after, opened, cancelled, run>>
                              /\ pc' = next
  BY DEF Goto
<1>5. CASE DeliverInput \/ OfferEvents \/ DeliverEvent
  BY <1>1, <1>4, <1>5 DEF DeliverInput, OfferEvents, DeliverEvent
<1>6. CASE EventCommitted \/ ToolResultCommitted \/ Request \/ Await
  BY <1>1, <1>2, <1>4, <1>6 DEF EventCommitted, ToolResultCommitted, Request, Await
<1>7. CASE AcceptResponse
  <2>1. AfterResponse => /\ UNCHANGED <<op, after, opened, cancelled, run>>
                         /\ pc' \in {"finish", "await", "reject", "tools"}
    BY <1>2, <1>4 DEF AfterResponse
  <2>2. QED  BY <1>2, <1>3, <1>7, <2>1 DEF AcceptResponse
<1>8. CASE ExecuteTool \/ CommitToolResult \/ FinishRun
  BY <1>3, <1>4, <1>8 DEF ExecuteTool, CommitToolResult, FinishRun
<1>9. CASE SettleCancelled \/ RejectOverLimit
  BY <1>2, <1>3, <1>4, <1>9 DEF SettleCancelled, RejectOverLimit
<1>10. QED  BY <1>5, <1>6, <1>7, <1>8, <1>9 DEF LoopWork

\* A shell command goes through its steps, or returns an error.
LEMMA ShellFlow ==
  ASSUME ShellWork
  PROVE  /\ UNCHANGED <<selection, op, after, opened, cancelled, run>>
         /\ pc \in ShellSteps
         /\ pc' \in ShellSteps \cup {"release"}
BY DEF ShellWork, ShellCall, ShellRun, ShellResult, ShellFinish, Leave, Goto, locals,
       control, ShellSteps

\* A run is prepared step by step, or returns an error.
LEMMA PreparationFlow ==
  ASSUME Preparation
  PROVE  /\ UNCHANGED <<selection, op, after, opened, cancelled>>
         /\ pc \in Preparing \cup {"input"}
         /\ pc' \in (Preparing \ {"session"}) \cup {"input", "release", "boundary", "shell_call"}
         /\ pc' \in {"sync", "boundary"} => op = "run"
         /\ pc = "input" => UNCHANGED run
<1> USE DEF locals, control, Preparing, Leave, Goto
<1>1. CASE PrepareSession
  BY <1>1 DEF PrepareSession
<1>2. CASE PrepareModel
  BY <1>2 DEF PrepareModel, SelectModel
<1>3. CASE PrepareConfiguration
  BY <1>3 DEF PrepareConfiguration
<1>4. CASE SyncExternalWork
  BY <1>4 DEF SyncExternalWork
<1>5. CASE RecordRunStarted
  BY <1>5 DEF RecordRunStarted
<1>6. CASE RecordInput
  BY <1>6 DEF RecordInput
<1>7. QED  BY <1>1, <1>2, <1>3, <1>4, <1>5, <1>6 DEF Preparation

\* Nothing moves when the user, the scope or a job acts.
LEMMA AsideFlow ==
  ASSUME Aside
  PROVE  UNCHANGED <<selection, op, after, opened, run, pc, live, store>>
BY DEF Aside, Cancel, QueueInput, TakeInput, JobFinishes, locals, control

\* What is left of a process that ended.
LEMMA EndFlow ==
  ASSUME Crash \/ Close
  PROVE  /\ pc' = "down" /\ op' = "none" /\ after' = "idle" /\ ~opened' /\ ~cancelled'
         /\ live' = NewState /\ ~failed' /\ pendingConfig' = {}
         /\ queue' = <<>> /\ seen' = {}
         /\ UNCHANGED <<journal, durable, ids, config, scope, served, used, submitted>>
         /\ taken' = taken \cup QueuedInputs
BY DEF Crash, Close, ProcessEnds, Unlock, InitLocals, QueuedInputs

\* How an operation that applies a selection goes on.
LEMMA ApplyFlow ==
  ASSUME ApplyModel \/ ApplyConfiguration
  PROVE  /\ pc \in ApplySteps
         /\ \/ /\ UNCHANGED <<op, after, opened, cancelled, run>>
               /\ pc' \in {"apply_configure", "finish", after}
            \/ /\ after = "idle" /\ pc' = "idle" /\ op' = "none" /\ after' = "idle"
               /\ ~opened' /\ ~cancelled'
         /\ UNCHANGED selection \/ (pc = "apply_configure" /\ Publish)
<1> USE DEF locals, control, ApplySteps
<1>1. ApplyFails => \/ /\ UNCHANGED <<op, after, opened, cancelled, run>>
                       /\ pc' = "finish"
                    \/ /\ after = "idle" /\ pc' = "idle" /\ op' = "none" /\ after' = "idle"
                       /\ ~opened' /\ ~cancelled'
  BY DEF ApplyFails, FinishError, FinishWith, Unlock, InitLocals
<1>2. \A next : Goto(next) => UNCHANGED <<op, after, opened, cancelled, run>> /\ pc' = next
  BY DEF Goto
<1>3. Unlock("idle") => pc' = "idle" /\ op' = "none" /\ after' = "idle" /\ ~opened' /\ ~cancelled'
  BY DEF Unlock, InitLocals
<1>4. CASE ApplyModel
  <2>1. SelectModel(applying.info, "apply_configure", ApplyFails)
          => ApplyFails \/ Goto("apply_configure")
    BY DEF SelectModel
  <2>2. QED  BY <1>1, <1>2, <1>4, <2>1 DEF ApplyModel
<1>5. CASE ApplyConfiguration
  BY <1>1, <1>2, <1>3, <1>5 DEF ApplyConfiguration, Applied
<1>6. QED  BY <1>4, <1>5

\* Every step is one of these.
LEMMA NextSteps ==
  ASSUME [Next]_vars
  PROVE  \/ LoopWork \/ ShellWork \/ Preparation \/ Aside
         \/ Boundary \/ Release \/ Open \/ ApplyModel \/ ApplyConfiguration
         \/ ReconcileCall \/ ReconcileRun \/ Attach \/ Reopen \/ Crash \/ Close
         \/ StartRun \/ StartShell \/ DeferSelection \/ ApplySelection \/ SetScope
         \/ UNCHANGED vars
BY DEF Next, RunStep, OutsideStep, Rest, LoopWork, ShellWork, Preparation, Aside

-----------------------------------------------------------------------------
(* The selection.                                                          *)

\* What is selected is what the user was told: where an operation stands says
\* who holds the selection, and whether it is being applied.
Chosen ==
  /\ SelectionNeverLost
  /\ \A c, d \in pendingConfig : c = d
  /\ pc \in {"down", "reconcile", "idle"} => op = "none"
  /\ pc \in {"down", "reconcile"} => pendingConfig = {} /\ wanted = config
  /\ pc \in LoopSteps \cup {"sync"} => op = "run"
  /\ pc \in ApplySteps => op \in {"run", "configure"}
  /\ pc \in ApplySteps /\ after # "idle" => op = "run"
  /\ pc \in ApplySteps /\ op = "run" => pendingConfig = {applying}

\* The selection is what is pending, or else what is in use.
LEMMA SelectedIs ==
  /\ pendingConfig = {} => Selected = config
  /\ \A c : pendingConfig = {c} => Selected = c
  /\ (pendingConfig = {})' => (Selected = config)'
  /\ \A c : pendingConfig' = {c} => Selected' = c
BY DEF Selected

\* A step that leaves the selection alone keeps it.
LEMMA ChosenSame ==
  ASSUME Chosen, ProcessUp, UNCHANGED selection,
         pc' \in LoopSteps \cup {"sync"} => op' = "run",
         pc' \in {"down", "reconcile", "idle"} => op' = "none",
         pc' \notin {"down", "reconcile"},
         pc' \in ApplySteps => pc \in ApplySteps /\ UNCHANGED <<op, after>>
  PROVE  Chosen'
<1>1. Selected' = Selected
  BY DEF Selected, selection
<1>2. SelectionNeverLost'
  BY <1>1 DEF Chosen, SelectionNeverLost, selection
<1>3. QED  BY <1>2 DEF Chosen, selection

\* An operation on its way keeps the selection.
LEMMA WorkChosen ==
  ASSUME Chosen, LoopWork \/ ShellWork \/ Preparation \/ Aside \/ Open
  PROVE  Chosen'
<1>1. CASE LoopWork
  BY <1>1, LoopFlow, ChosenSame DEF LoopSteps, ApplySteps, Chosen, ProcessUp
<1>2. CASE ShellWork
  BY <1>2, ShellFlow, ChosenSame DEF LoopSteps, ShellSteps, ApplySteps, Chosen, ProcessUp
<1>3. CASE Preparation
  BY <1>3, PreparationFlow, ChosenSame
     DEF LoopSteps, Preparing, ApplySteps, Chosen, ProcessUp
<1>4. CASE Aside
  <2>1. UNCHANGED <<selection, op, after, pc>>
    BY <1>4, AsideFlow
  <2>2. Selected' = Selected /\ ProcessUp' = ProcessUp
    BY <2>1 DEF Selected, selection, ProcessUp
  <2>3. QED  BY <2>1, <2>2 DEF Chosen, SelectionNeverLost, selection
<1>5. CASE Open
  <2>1. UNCHANGED selection /\ op' = op /\ pc = "open" /\ pc' \in {"release", "session"}
    BY <1>5 DEF Open, Leave, Goto, control
  <2>2. QED  BY <2>1, ChosenSame DEF LoopSteps, ApplySteps, Chosen, ProcessUp
<1>6. QED  BY <1>1, <1>2, <1>3, <1>4, <1>5

\* So does the beginning of an application, by a run.
LEMMA StartApplyingChosen ==
  ASSUME Chosen, ProcessUp, op = "run", NEW next, StartApplying(next)
  PROVE  Chosen'
<1>1. /\ pendingConfig # {} /\ applying' \in pendingConfig
      /\ UNCHANGED <<op, config, pendingConfig, wanted>> /\ pc' = "apply_select"
  BY DEF StartApplying, control
<1>2. pendingConfig' = {applying'}
  BY <1>1 DEF Chosen
<1>3. Selected' = Selected /\ ProcessUp'
  BY <1>1 DEF Selected, ProcessUp
<1>4. SelectionNeverLost'
  BY <1>1, <1>3 DEF Chosen, SelectionNeverLost
<1>5. QED  BY <1>1, <1>2, <1>4 DEF Chosen, LoopSteps, ApplySteps

\* The top of the loop, and the end of an operation.
LEMMA BoundaryChosen ==
  ASSUME Chosen, Boundary \/ Release
  PROVE  Chosen'
<1>1. ProcessUp
  BY DEF Boundary, Release, ProcessUp
<1>2. CASE Boundary
  <2>1. \/ Goto(IF limited THEN "request" ELSE "queue") /\ UNCHANGED selection
        \/ StartApplying(IF limited THEN "request" ELSE "queue")
    BY <1>2 DEF Boundary
  <2>2. op = "run"
    BY <1>2 DEF Boundary, Chosen, LoopSteps
  <2>3. CASE Goto(IF limited THEN "request" ELSE "queue") /\ UNCHANGED selection
    <3>1. op' = op /\ pc' \in {"request", "queue"}
      BY <2>3 DEF Goto, control
    <3>2. QED  BY <1>1, <2>2, <2>3, <3>1, ChosenSame DEF ApplySteps
  <2>4. QED  BY <1>1, <2>1, <2>2, <2>3, StartApplyingChosen
<1>3. CASE Release
  <2>1. \/ op = "run" /\ StartApplying("idle")
        \/ Unlock("idle") /\ UNCHANGED selection
    BY <1>3 DEF Release
  <2>2. CASE Unlock("idle") /\ UNCHANGED selection
    <3>1. op' = "none" /\ pc' = "idle"
      BY <2>2 DEF Unlock
    <3>2. QED  BY <1>1, <2>2, <3>1, ChosenSame DEF ApplySteps, LoopSteps
  <2>3. QED  BY <1>1, <2>1, <2>2, StartApplyingChosen
<1>4. QED  BY <1>2, <1>3

\* Applying a selection keeps it, whether it succeeds or not.
LEMMA ApplyChosen ==
  ASSUME Chosen, ApplyModel \/ ApplyConfiguration, TypeOK
  PROVE  Chosen'
<1>1. ProcessUp
  BY ApplyFlow DEF ProcessUp, ApplySteps
<1>2. /\ pc \in ApplySteps /\ op \in {"run", "configure"}
      /\ \/ /\ UNCHANGED <<op, after>>
            /\ pc' \in {"apply_configure", "finish", after}
         \/ after = "idle" /\ pc' = "idle" /\ op' = "none"
      /\ after # "idle" => op = "run" /\ after \in {"queue", "request"}
  BY ApplyFlow DEF Chosen, TypeOK
<1>3. after = "idle" => pc' \in {"idle", "apply_configure"}
  BY DEF ApplyModel, ApplyConfiguration, ApplyFails, SelectModel, Applied, Unlock, Goto
<1>4. pc' = "idle" => op' = "none"
  BY DEF ApplyModel, ApplyConfiguration, ApplyFails, SelectModel, Applied, Unlock, Goto,
         FinishError, FinishWith, TypeOK
<1>5. CASE UNCHANGED selection
  BY <1>1, <1>2, <1>3, <1>4, <1>5, ChosenSame DEF ApplySteps, LoopSteps
<1>6. CASE ApplyConfiguration /\ Publish
  <2>1. /\ config' = applying /\ pendingConfig' = {}
        /\ wanted' = IF op = "configure" THEN applying ELSE wanted
    BY <1>6 DEF Publish
  <2>2. op = "run" => wanted = applying
    BY <1>1, <1>2, SelectedIs DEF Chosen, SelectionNeverLost
  <2>3. SelectionNeverLost'
    BY <1>2, <2>1, <2>2, SelectedIs DEF SelectionNeverLost
  <2>4. pc' \in {"idle", "finish", after}
    BY <1>6 DEF ApplyConfiguration, Applied, Unlock, Goto, ApplyFails, FinishError, FinishWith
  <2>5. QED  BY <1>2, <1>3, <1>4, <2>1, <2>3, <2>4 DEF Chosen, ApplySteps, LoopSteps
<1>7. pc = "apply_configure" => ApplyConfiguration
  BY DEF ApplyModel
<1>8. QED  BY <1>5, <1>6, <1>7, ApplyFlow

\* What users and processes do to the selection.
LEMMA OutsideChosen ==
  ASSUME Chosen, Placed, TypeOK,
         \/ ReconcileCall \/ ReconcileRun \/ Attach \/ Reopen \/ Crash \/ Close
         \/ StartRun \/ StartShell \/ DeferSelection \/ ApplySelection \/ SetScope
         \/ UNCHANGED vars
  PROVE  Chosen'
<1> USE DEF ApplySteps, LoopSteps
<1>1. CASE ReconcileCall \/ ReconcileRun \/ Attach
  <2>1. /\ UNCHANGED selection /\ pc = "reconcile"
        /\ \/ pc' = "reconcile" /\ op' = op
           \/ pc' \in {"down", "idle"} /\ op' = "none"
    BY <1>1 DEF ReconcileCall, ReconcileRun, Attach, ReconcileAppends, Goto, Unlock, control
  <2>2. /\ UNCHANGED <<config, pendingConfig, wanted>>
        /\ pendingConfig = {} /\ wanted = config
    BY <2>1 DEF Chosen, selection
  <2>3. SelectionNeverLost'
    BY <2>2, SelectedIs DEF SelectionNeverLost
  <2>4. QED  BY <2>1, <2>2, <2>3 DEF Chosen
<1>2. CASE Reopen
  BY <1>2, SelectedIs DEF Reopen, Chosen, SelectionNeverLost, control, ProcessUp
<1>3. CASE Crash \/ Close
  <2>1. wanted' = config'
    BY <1>3 DEF Crash, Close, ProcessEnds
  <2>2. QED  BY <1>3, <2>1, EndFlow DEF Chosen, SelectionNeverLost, ProcessUp
<1>4. CASE StartRun \/ StartShell
  <2>1. UNCHANGED selection /\ pc = "idle" /\ pc' = "open"
    BY <1>4 DEF StartRun, StartShell, Lock
  <2>2. QED  BY <2>1, ChosenSame DEF ProcessUp
<1>5. CASE DeferSelection
  <2>1. PICK c : pendingConfig' = {c} /\ wanted' = c
    BY <1>5 DEF DeferSelection
  <2>2. /\ op = "run" /\ pc \notin ApplySteps /\ UNCHANGED <<op, pc>>
    BY <1>5 DEF DeferSelection, ConfigFree, control
  <2>3. SelectionNeverLost'
    BY <2>1, SelectedIs DEF SelectionNeverLost
  <2>4. QED  BY <2>1, <2>2, <2>3 DEF Chosen
<1>6. CASE ApplySelection
  <2>1. /\ UNCHANGED <<config, pendingConfig, wanted, after>> /\ pc = "idle"
        /\ op' = "configure" /\ pc' = "apply_select" /\ after = "idle"
    BY <1>6 DEF ApplySelection, locals, Placed
  <2>2. Selected' = Selected
    BY <2>1 DEF Selected
  <2>3. SelectionNeverLost'
    BY <2>1, <2>2 DEF Chosen, SelectionNeverLost, ProcessUp
  <2>4. QED  BY <2>1, <2>3 DEF Chosen
<1>7. CASE SetScope \/ UNCHANGED vars
  <2>1. UNCHANGED <<config, pendingConfig, applying, wanted, op, pc, after>>
    BY <1>7 DEF SetScope, vars, selection, locals, control
  <2>2. Selected' = Selected /\ ProcessUp' = ProcessUp
    BY <2>1 DEF Selected, ProcessUp
  <2>3. QED  BY <2>1, <2>2 DEF Chosen, SelectionNeverLost
<1>8. QED  BY <1>1, <1>2, <1>3, <1>4, <1>5, <1>6, <1>7

-----------------------------------------------------------------------------
(* What the outside world did so far.                                      *)

\* Occasions are only added.
Spent ==
  \/ UNCHANGED used
  \/ \E o \in Occasions : Spend(o) \/ SpendOnFault(o)

\* A record costs nothing but a fault.
LEMMA AppendSpends ==
  ASSUME NEW r, Persisted(r) \/ Written(r) \/ AppendFails(r)
  PROVE  Spent
BY DEF Persisted, Written, AppendFails, Spent, Occasions

\* Every step spends one occasion at most.
LEMMA StepSpends ==
  ASSUME [Next]_vars
  PROVE  Spent
<1>1. CASE LoopWork
  <2>1. CASE UNCHANGED used
    BY <2>1 DEF Spent
  <2>2. CASE \E r : Written(r) \/ AppendFails(r)
    BY <2>2, AppendSpends
  <2>3. QED
    BY <1>1, <2>1, <2>2
       DEF LoopWork, DeliverInput, OfferEvents, DeliverEvent, EventCommitted,
           ToolResultCommitted, Request, AcceptResponse, Await, ExecuteTool,
           CommitToolResult, SettleCancelled, RejectOverLimit, FinishRun
<1>2. CASE ShellWork \/ Preparation
  <2>1. CASE UNCHANGED used
    BY <2>1 DEF Spent
  <2>2. CASE \E r : Written(r) \/ AppendFails(r)
    BY <2>2, AppendSpends
  <2>3. QED
    BY <1>2, <2>1, <2>2
       DEF ShellWork, ShellCall, ShellRun, ShellResult, ShellFinish, Preparation,
           PrepareSession, PrepareModel, SelectModel, PrepareConfiguration,
           SyncExternalWork, RecordRunStarted, RecordInput
<1>3. CASE Boundary \/ Release \/ Open \/ Attach \/ Crash \/ Close \/ UNCHANGED vars
  BY <1>3 DEF Boundary, Release, Open, Attach, Crash, Close, ProcessEnds, vars, Spent
<1>4. CASE ApplyModel \/ ApplyConfiguration \/ ReconcileCall \/ ReconcileRun
  <2>1. CASE UNCHANGED used
    BY <2>1 DEF Spent
  <2>2. CASE \E r : Written(r) \/ Persisted(r) \/ AppendFails(r)
    BY <2>2, AppendSpends
  <2>3. QED
    BY <1>4, <2>1, <2>2
       DEF ApplyModel, SelectModel, ApplyConfiguration, ReconcileCall, ReconcileRun,
           ReconcileAppends
<1>5. CASE \/ Aside \/ Reopen \/ StartRun \/ StartShell \/ DeferSelection
           \/ ApplySelection \/ SetScope
  BY <1>5 DEF Aside, Cancel, QueueInput, TakeInput, JobFinishes, Reopen, StartRun,
              StartShell, Lock, DeferSelection, ApplySelection, SetScope, Spent, Occasions
<1>6. QED  BY <1>1, <1>2, <1>3, <1>4, <1>5, NextSteps

\* What was not spent by now was not spent before.
LEMMA SpentBefore ==
  ASSUME TypeOK, [Next]_vars, NEW o \in Occasions, used'[o] = 0
  PROVE  used[o] = 0
<1>1. used \in [Occasions -> Nat]
  BY DEF TypeOK
<1>2. QED  BY <1>1, StepSpends DEF Spent, Spend, SpendOnFault, Occasions

\* Nothing keeps an operation from what it is about.
Undisturbed == Faultless /\ used["cancel"] = 0

\* An operation that nothing disturbs does not fail to append.
LEMMA AppendsCalmly ==
  ASSUME TypeOK, Undisturbed, Undisturbed', ~failed, ~cancelled, NEW r
  PROVE  ~AppendFails(r)
<1>1. ~Spend("fault")
  BY DEF TypeOK, Undisturbed, Faultless, Spend, Occasions
<1>2. QED  BY <1>1 DEF AppendFails, ContextDone

-----------------------------------------------------------------------------
(* Operations that nothing disturbs finish their work.                     *)

Finishing ==
  Undisturbed =>
    /\ ~failed /\ ~cancelled
    /\ pc \in {"idle", "open", "release"} => Settled(durable)
    /\ pc = "release" => opened
    /\ op # "run" => pendingConfig = {}

\* What nothing disturbs now, nothing disturbed before.
LEMMA CalmBefore ==
  ASSUME TypeOK, [Next]_vars, Undisturbed'
  PROVE  Undisturbed
BY SpentBefore DEF Undisturbed, Faultless, Occasions

\* The last record of a run settles the session.
LEMMA FinishSettles ==
  ASSUME TypeOK, TypeOK', Consistent, Consistent', InRun, live.pending = {}, ~failed',
         NEW s \in RunStatus, NEW o \in BOOLEAN, NEW d \in SUBSET Jobs,
         Written(FinishRecord(s, o, d)), opened'
  PROVE  Settled(durable')
<1> DEFINE r == FinishRecord(s, o, d)
<1>1. r \in Record /\ r.kind = "run_finished" /\ r.run = run
  BY RecordTypes DEF FinishRecord
<1>2. live.session
  BY DEF Consistent, Kept, Known, Sound, InRun
<1>3. Fits(live, r) /\ Known(live) /\ Written(r)
  BY <1>1, <1>2 DEF Fits, InRun, Consistent, Kept
<1> HIDE DEF r
<1>4. Becomes(live', live, r)
  BY <1>1, <1>3, WrittenFields
<1>5. live'.runs = {} /\ live'.pending = {}
  BY <1>1, <1>4 DEF Becomes, InRun
<1>6. Agree(live', durable')
  BY DEF Consistent, Kept, LiveFollowsJournal
<1>7. QED  BY <1>5, <1>6 DEF Settled, Agree

\* An operation that nothing disturbs releases the lock when it has finished.
LEMMA WorkSettles ==
  ASSUME TypeOK, TypeOK', Consistent, Consistent', Undisturbed, Undisturbed',
         ~failed, ~cancelled, LoopWork \/ ShellWork \/ Preparation
  PROVE  /\ ~failed' /\ ~cancelled'
         /\ pc' = "release" => opened' /\ Settled(durable')
<1>1. \A r : ~AppendFails(r)
  BY AppendsCalmly
<1>2. UNCHANGED <<cancelled, opened>>
  BY LoopFlow, ShellFlow, PreparationFlow
<1>3. CASE LoopWork /\ ~FinishRun
  <2>1. ~failed'
    BY <1>1, <1>3
       DEF LoopWork, DeliverInput, OfferEvents, DeliverEvent, EventCommitted,
           ToolResultCommitted, Request, AcceptResponse, Await, ExecuteTool,
           CommitToolResult, SettleCancelled, RejectOverLimit, Written, Persisted, store
  <2>2. /\ \A next : Goto(next) => pc' = next
        /\ \A s : FinishWith(s) => pc' = "finish"
        /\ FinishError => pc' = "finish"
        /\ AfterResponse => pc' # "release"
    BY DEF Goto, FinishWith, FinishError, AfterResponse
  <2>3. pc' # "release"
    BY <1>1, <1>3, <2>2
       DEF LoopWork, DeliverInput, OfferEvents, DeliverEvent, EventCommitted,
           ToolResultCommitted, Request, AcceptResponse, Await, ExecuteTool,
           CommitToolResult, SettleCancelled, RejectOverLimit, control
  <2>4. QED  BY <1>2, <2>1, <2>3
<1>4. CASE FinishRun
  <2>1. InRun /\ live.pending = {} /\ opened
    BY <1>4 DEF FinishRun, Consistent, Placed, Looping, Answered, InRun
  <2>2. status \in RunStatus /\ RunningDetached \in SUBSET Jobs
    BY DEF TypeOK, RunningDetached, DetachedJobs
  <2>3. Written(FinishRecord(status, TRUE, RunningDetached))
    BY <1>1, <1>4 DEF FinishRun
  <2>4. ~failed'
    BY <2>3 DEF Written, Persisted
  <2>5. QED  BY <1>2, <2>1, <2>2, <2>3, <2>4, FinishSettles
<1>5. CASE ShellFinish
  <2>1. InRun /\ live.pending = {} /\ opened
    BY <1>5 DEF ShellFinish, Consistent, Placed, Looping, Answered, InRun
  <2>2. PICK s \in {"cancelled", "completed", "failed"} : Written(FinishRecord(s, FALSE, {}))
    BY <1>1, <1>5 DEF ShellFinish
  <2>3. s \in RunStatus /\ {} \in SUBSET Jobs
    BY DEF RunStatus
  <2>4. ~failed'
    BY <2>2 DEF Written, Persisted
  <2>5. QED  BY <1>2, <2>1, <2>2, <2>3, <2>4, FinishSettles
<1>6. CASE ShellCall \/ ShellRun \/ ShellResult
  <2>1. ~failed' /\ pc' # "release"
    BY <1>1, <1>6 DEF ShellCall, ShellRun, ShellResult, Goto, Written, Persisted, store
  <2>2. QED  BY <1>2, <2>1
<1>7. CASE Preparation
  <2>1. ~failed'
    BY <1>1, <1>7
       DEF Preparation, PrepareSession, PrepareModel, SelectModel, PrepareConfiguration,
           SyncExternalWork, RecordRunStarted, RecordInput, Written, Persisted, store
  <2>2. \A next : Goto(next) => pc' = next
    BY DEF Goto
  <2>3. pc' # "release"
    BY <1>1, <1>7, <2>2
       DEF Preparation, PrepareSession, PrepareModel, SelectModel, PrepareConfiguration,
           SyncExternalWork, RecordRunStarted, RecordInput
  <2>4. QED  BY <1>2, <2>1, <2>3
<1>8. QED  BY <1>3, <1>4, <1>5, <1>6, <1>7 DEF ShellWork

\* A configuration record is about nothing that is to be settled.
LEMMA ConfigurationSettles ==
  ASSUME NEW st \in State, NEW c, NEW s
  PROVE  LET new == Apply(st, ConfigurationRecord(c, s)) IN
           new.runs = st.runs /\ new.pending = st.pending
BY DEF Apply, ConfigurationRecord, ApplySessionConfigured, Refuse, State

\* Applying a selection, nothing left to do.
LEMMA ApplySettles ==
  ASSUME TypeOK, Consistent, Undisturbed, Undisturbed', ~failed, ~cancelled,
         ApplyModel \/ ApplyConfiguration
  PROVE  /\ ~failed' /\ ~cancelled'
         /\ pc' = "idle" => Settled(durable')
         /\ pc' # "release"
         /\ op' # op => pendingConfig' = {}
<1>1. \A r : ~AppendFails(r)
  BY AppendsCalmly
<1>2. /\ pc \in ApplySteps /\ opened /\ live.pending = {}
      /\ after = "idle" => live.runs = {}
  BY ApplyFlow DEF Consistent, Placed, ApplySteps
<1>3. Agree(live, durable) /\ durable \in State
  BY <1>2 DEF Consistent, Kept, LiveFollowsJournal, TypeOK
<1>4. after = "idle" => Settled(durable)
  BY <1>2, <1>3 DEF Settled, Agree
<1>5. ~cancelled' /\ pc' # "release" /\ (pc' = "idle" => after = "idle")
  BY ApplyFlow DEF TypeOK
<1>6. CASE ApplyModel
  <2>1. ~failed' /\ pc' = "apply_configure" /\ op' = op
    BY <1>1, <1>6 DEF ApplyModel, SelectModel, Goto, Written, Persisted, store, control
  <2>2. QED  BY <1>5, <2>1
<1>7. CASE ApplyConfiguration
  <2>1. /\ Publish
        /\ \/ UNCHANGED store
           \/ Persisted(ConfigurationRecord(applying, scope))
    BY <1>1, <1>7 DEF ApplyConfiguration, Written
  <2>2. ~failed' /\ pendingConfig' = {}
    BY <2>1 DEF Persisted, Publish, store
  <2>3. durable'.runs = durable.runs /\ durable'.pending = durable.pending
    BY <1>3, <2>1, ConfigurationSettles DEF Persisted, Stored, store
  <2>4. QED  BY <1>4, <1>5, <2>2, <2>3 DEF Settled
<1>8. QED  BY <1>6, <1>7

\* The end of an operation, and of a restart.
LEMMA EndSettles ==
  ASSUME TypeOK, Consistent, Chosen, Finishing, Undisturbed, Undisturbed', ~failed, ~cancelled,
         Release \/ Open \/ Attach \/ ReconcileCall \/ ReconcileRun
  PROVE  Finishing'
<1>1. \A r : ~AppendFails(r)
  BY AppendsCalmly
<1>2. CASE Release
  <2>1. opened /\ Settled(durable) /\ UNCHANGED store
    BY <1>2 DEF Release, Finishing
  <2>2. Agree(live, durable)
    BY <2>1 DEF Consistent, Kept, LiveFollowsJournal
  <2>3. ~HasUnfinishedWork(live)
    BY <2>1, <2>2 DEF Settled, Agree, HasUnfinishedWork
  <2>4. CASE op = "run" /\ StartApplying("idle")
    BY <2>1, <2>4 DEF StartApplying, Finishing, store, control
  <2>5. CASE Unlock("idle") /\ UNCHANGED selection /\ (op # "run" \/ pendingConfig = {})
    <3>1. pendingConfig' = {}
      BY <2>5 DEF Finishing, selection
    <3>2. QED  BY <2>1, <2>5, <3>1 DEF Unlock, Finishing, store
  <2>6. QED  BY <1>2, <2>1, <2>3, <2>4, <2>5 DEF Release
<1>3. CASE Open
  <2>1. Settled(durable) /\ ~HasUnfinishedWork(durable)
    BY <1>3 DEF Open, Finishing, Settled, HasUnfinishedWork
  <2>2. pc' = "session" /\ UNCHANGED <<op, cancelled, failed, pendingConfig>>
    BY <1>3, <2>1 DEF Open, store, selection
  <2>3. QED  BY <2>2 DEF Finishing
<1>4. CASE Attach
  <2>1. ~HasUnfinishedWork(live) /\ UNCHANGED store /\ UNCHANGED selection /\ pc = "reconcile"
    BY <1>4 DEF Attach
  <2>2. Settled(durable)
    BY <2>1 DEF Consistent, Kept, LiveFollowsJournal, Agree, Settled, HasUnfinishedWork
  <2>3. pendingConfig = {}
    BY <2>1 DEF Chosen
  <2>4. Unlock("idle")
    BY <1>4 DEF Attach
  <2>5. QED  BY <2>1, <2>2, <2>3, <2>4 DEF Unlock, Finishing, store, selection
<1>5. CASE ReconcileCall \/ ReconcileRun
  <2>1. /\ pc = "reconcile" /\ UNCHANGED selection
        /\ \E r : Written(r) /\ Goto("reconcile")
    BY <1>1, <1>5 DEF ReconcileCall, ReconcileRun, ReconcileAppends
  <2>2. pendingConfig' = {} /\ ~failed' /\ ~cancelled' /\ pc' = "reconcile"
    BY <2>1 DEF Chosen, Written, Persisted, Goto, control, selection
  <2>3. QED  BY <2>2 DEF Finishing
<1>6. QED  BY <1>2, <1>3, <1>4, <1>5

\* What users, jobs and processes do disturbs an operation only at a cost.
LEMMA OutsideSettles ==
  ASSUME TypeOK, Consistent, Chosen, Finishing, Undisturbed, Undisturbed', ~failed, ~cancelled,
         \/ Aside \/ Boundary \/ Reopen \/ Crash \/ Close \/ StartRun \/ StartShell
         \/ DeferSelection \/ ApplySelection \/ SetScope \/ UNCHANGED vars
  PROVE  Finishing'
<1>1. CASE Aside
  <2>1. UNCHANGED <<op, opened, pc, store, selection>>
    BY <1>1, AsideFlow
  <2>2. cancelled' = cancelled
    BY <1>1 DEF Aside, Cancel, Spend, QueueInput, TakeInput, JobFinishes, control, TypeOK,
                Undisturbed, Occasions
  <2>3. QED  BY <2>1, <2>2 DEF Finishing, store, selection
<1>2. CASE Boundary
  <2>1. /\ UNCHANGED <<store, op, opened, cancelled, pendingConfig>>
        /\ pc' \in {"request", "queue", "apply_select"}
    BY <1>2 DEF Boundary, StartApplying, Goto, control, selection
  <2>2. QED  BY <2>1 DEF Finishing, store
<1>3. CASE Reopen
  BY <1>3 DEF Reopen, Finishing, Chosen, store, control
<1>4. CASE Crash \/ Close
  BY <1>4, EndFlow DEF Finishing
<1>5. CASE StartRun \/ StartShell
  <2>1. /\ pc = "idle" /\ op = "none" /\ pc' = "open"
        /\ UNCHANGED <<store, cancelled, pendingConfig>>
    BY <1>5 DEF StartRun, StartShell, Lock, selection
  <2>2. QED  BY <2>1 DEF Finishing, store
<1>6. CASE DeferSelection
  BY <1>6 DEF DeferSelection, Finishing, store, control
<1>7. CASE ApplySelection
  <2>1. /\ pc = "idle" /\ pc' = "apply_select"
        /\ UNCHANGED <<store, cancelled, pendingConfig>>
    BY <1>7 DEF ApplySelection
  <2>2. op # "run"
    BY <2>1 DEF Chosen
  <2>3. QED  BY <2>1, <2>2 DEF Finishing, store
<1>8. CASE SetScope
  <2>1. UNCHANGED <<pc, op, opened, cancelled, pendingConfig>>
    BY <1>8 DEF SetScope, control
  <2>2. ~SpendOnFault("scope")
    BY DEF SpendOnFault, Undisturbed, Faultless, TypeOK, Occasions
  <2>3. PICK s : \/ UNCHANGED store
                 \/ Stored(ConfigurationRecord(config, s)) /\ UNCHANGED failed
    BY <1>8, <2>2 DEF SetScope
  <2>4. durable'.runs = durable.runs /\ durable'.pending = durable.pending /\ ~failed'
    BY <2>3, ConfigurationSettles DEF Stored, store, TypeOK
  <2>5. QED  BY <2>1, <2>4 DEF Finishing, Settled
<1>9. CASE UNCHANGED vars
  BY <1>9 DEF vars, Finishing, store, control, selection
<1>10. QED
  BY <1>1, <1>2, <1>3, <1>4, <1>5, <1>6, <1>7, <1>8, <1>9

\* Every step.
LEMMA StepFinishing ==
  ASSUME TypeOK, TypeOK', Consistent, Consistent', Chosen, Finishing, [Next]_vars
  PROVE  Finishing'
<1> SUFFICES ASSUME Undisturbed'
             PROVE  Finishing'
  BY DEF Finishing
<1>1. Undisturbed /\ ~failed /\ ~cancelled
  BY CalmBefore DEF Finishing
<1>2. CASE LoopWork \/ ShellWork \/ Preparation
  <2>1. UNCHANGED <<selection, op>> /\ pc' \notin {"idle", "open"}
    BY <1>2, LoopFlow, ShellFlow, PreparationFlow DEF LoopSteps, ShellSteps, Preparing
  <2>2. /\ ~failed' /\ ~cancelled'
        /\ pc' = "release" => opened' /\ Settled(durable')
    BY <1>1, <1>2, WorkSettles
  <2>3. QED  BY <1>1, <2>1, <2>2 DEF Finishing, selection
<1>3. CASE ApplyModel \/ ApplyConfiguration
  <2>1. /\ ~failed' /\ ~cancelled'
        /\ pc' = "idle" => Settled(durable')
        /\ pc' # "release"
        /\ op' # op => pendingConfig' = {}
    BY <1>1, <1>3, ApplySettles
  <2>2. pc' # "open"
    BY <1>3, ApplyFlow DEF TypeOK
  <2>3. op' = op /\ op # "run" => pendingConfig' = {}
    BY <1>1, <1>3, ApplyFlow DEF Finishing, selection, Publish
  <2>4. QED  BY <2>1, <2>2, <2>3 DEF Finishing
<1>4. CASE Release \/ Open \/ Attach \/ ReconcileCall \/ ReconcileRun
  BY <1>1, <1>4, EndSettles
<1>5. CASE \/ Aside \/ Boundary \/ Reopen \/ Crash \/ Close \/ StartRun \/ StartShell
           \/ DeferSelection \/ ApplySelection \/ SetScope \/ UNCHANGED vars
  BY <1>1, <1>5, OutsideSettles
<1>6. QED  BY <1>2, <1>3, <1>4, <1>5, NextSteps

\* Every step keeps the selection.
LEMMA StepChosen ==
  ASSUME TypeOK, Consistent, Chosen, [Next]_vars
  PROVE  Chosen'
<1>1. Placed
  BY DEF Consistent
<1>2. QED
  BY <1>1, NextSteps, WorkChosen, BoundaryChosen, ApplyChosen, OutsideChosen

\* The selection is kept and operations finish, in every state.
LEMMA SpecChosen == Spec => [](Chosen /\ Finishing)
<1>1. Init => Chosen /\ Finishing
  <2>1. ASSUME Init PROVE Chosen
    BY <2>1, SelectedIs DEF Init, Chosen, SelectionNeverLost, ProcessUp, LoopSteps, ApplySteps
  <2>2. ASSUME Init PROVE Finishing
    BY <2>2 DEF Init, Finishing
  <2>3. QED  BY <2>1, <2>2
<1>2. /\ TypeOK /\ TypeOK' /\ Consistent /\ Consistent'
      /\ Chosen /\ Finishing /\ [Next]_vars
      => Chosen' /\ Finishing'
  BY StepChosen, StepFinishing
<1>3. QED  BY <1>1, <1>2, SpecConsistent, PTL DEF Spec

\* Whatever a selection had to wait for, what the user was last told is selected is
\* what the runtime uses or is about to use; and between operations nothing waits,
\* unless a write failed, somebody cancelled or the session needs a restart.
THEOREM SpecSelectionKept == Spec => []SelectionKept
<1>1. TypeOK /\ Chosen /\ Finishing => SelectionKept
  <2>1. Chosen /\ Finishing /\ pc = "idle" /\ Undisturbed => pendingConfig = {}
    BY DEF Chosen, Finishing
  <2>2. TypeOK => used["cancel"] \in Nat
    BY DEF TypeOK, Occasions
  <2>3. TypeOK /\ ~(used["cancel"] > 0) => used["cancel"] = 0
    BY <2>2
  <2>4. QED
    BY <2>1, <2>3 DEF Chosen, SelectionKept, PendingSelectionSettles, Undisturbed
<1>2. QED  BY <1>1, SpecChosen, SpecTypeOK, PTL

\* Nothing but a failed write or a cancellation leaves work that only a restart settles.
THEOREM SpecIdleIsSettled == Spec => []IdleIsSettled
<1>1. Finishing => IdleIsSettled
  BY DEF Finishing, IdleIsSettled, Undisturbed, Settled, HasUnfinishedWork
<1>2. QED  BY <1>1, SpecChosen, PTL

-----------------------------------------------------------------------------
(* A completed run has joined its jobs.                                    *)

Joined ==
  pc = "finish" /\ status = "completed" /\ AwaitJobs /\ ~limited =>
    \A job \in LocalJobs : jobs[job] \in {"running", "finished"} => job \in seen

\* Only a run whose jobs are joined, or that ran into the limit, completes.
LEMMA CompletesJoined ==
  ASSUME LoopWork, pc' = "finish", status' = "completed", AwaitJobs, ~limited'
  PROVE  RequiredJobs = {} /\ UNCHANGED <<jobs, seen>>
<1>1. FinishError => status' # "completed"
  BY DEF FinishError, FinishWith
<1>2. /\ \A s : FinishWith(s) => status' = s /\ limited' = limited
      /\ \A next : Goto(next) => pc' = next
      /\ Leave => pc' = "release"
  BY DEF FinishWith, Leave, Goto
<1>3. CASE Await
  <2>1. FinishWith("completed") /\ RequiredJobs = {}
    BY <1>1, <1>2, <1>3 DEF Await
  <2>2. QED  BY <1>3, <2>1 DEF Await, work
<1>4. CASE AcceptResponse
  <2>1. ~AfterResponse
    BY <1>2 DEF AfterResponse
  <2>2. QED  BY <1>2, <1>4, <2>1 DEF AcceptResponse
<1>5. ~FinishRun /\ ~CommitToolResult /\ ~ExecuteTool
  BY <1>2 DEF FinishRun, CommitToolResult, ExecuteTool
<1>6. ~DeliverInput /\ ~OfferEvents /\ ~DeliverEvent /\ ~Request
  BY <1>1, <1>2 DEF DeliverInput, OfferEvents, DeliverEvent, Request
<1>7. ~EventCommitted /\ ~ToolResultCommitted /\ ~SettleCancelled /\ ~RejectOverLimit
  BY <1>2 DEF EventCommitted, ToolResultCommitted, SettleCancelled, RejectOverLimit
<1>8. QED  BY <1>3, <1>4, <1>5, <1>6, <1>7 DEF LoopWork

\* Every step.
LEMMA StepJoined ==
  ASSUME TypeOK, Joined, [Next]_vars
  PROVE  Joined'
<1> SUFFICES ASSUME pc' = "finish", status' = "completed", AwaitJobs, ~limited',
                    NEW job \in LocalJobs, jobs'[job] \in {"running", "finished"}
             PROVE  job \in seen'
  BY DEF Joined
<1>1. CASE LoopWork
  <2>1. RequiredJobs = {} /\ UNCHANGED <<jobs, seen>>
    BY <1>1, CompletesJoined
  <2>2. QED  BY <2>1 DEF RequiredJobs
<1>2. CASE Aside
  <2>1. pc = "finish" /\ UNCHANGED <<locals, seen>>
    BY <1>2 DEF Aside, Cancel, QueueInput, TakeInput, JobFinishes, work
  <2>2. jobs[job] \in {"running", "finished"}
    BY <1>2, RuntimeAssumption
       DEF Aside, Cancel, QueueInput, TakeInput, JobFinishes, work, TypeOK
  <2>3. QED  BY <2>1, <2>2 DEF Joined, locals
<1>3. CASE SetScope \/ DeferSelection \/ UNCHANGED vars
  <2>1. UNCHANGED <<pc, locals, work>>
    BY <1>3 DEF SetScope, DeferSelection, vars
  <2>2. QED  BY <2>1 DEF Joined, locals, work
<1>4. ~ApplyModel /\ ~ApplyConfiguration
  <2>1. FinishError => status' # "completed"
    BY DEF FinishError, FinishWith
  <2>2. ApplyFails => pc' = "idle" \/ status' # "completed"
    BY <2>1 DEF ApplyFails, Unlock
  <2>3. /\ \A next : Goto(next) => pc' = next
        /\ Unlock("idle") => pc' = "idle"
    BY DEF Goto, Unlock
  <2>4. after # "finish"
    BY DEF TypeOK
  <2>5. QED  BY <2>2, <2>3, <2>4 DEF ApplyModel, SelectModel, ApplyConfiguration, Applied
<1>5. ~ShellWork /\ ~Preparation /\ ~Crash /\ ~Close
  BY ShellFlow, PreparationFlow, EndFlow DEF ShellSteps, Preparing
<1>6. ~Boundary /\ ~Release /\ ~Open /\ ~Attach /\ ~ReconcileCall /\ ~ReconcileRun
  BY DEF Boundary, Release, Open, Attach, ReconcileCall, ReconcileRun, ReconcileAppends,
         StartApplying, Leave, Goto, Unlock
<1>7. ~Reopen /\ ~StartRun /\ ~StartShell /\ ~ApplySelection
  BY DEF Reopen, StartRun, StartShell, Lock, ApplySelection
<1>8. QED  BY <1>1, <1>2, <1>3, <1>4, <1>5, <1>6, <1>7, NextSteps

\* In a session that awaits its jobs, the journal tells how every foreground command
\* ended before a run completes below the limit of its tools.
THEOREM SpecCompletedRunJoinedItsJobs == Spec => []CompletedRunJoinedItsJobs
<1>1. Init => Joined
  BY DEF Init, Joined
<1>2. TypeOK /\ Joined /\ [Next]_vars => Joined'
  BY StepJoined
<1>3. Joined /\ Acknowledged => CompletedRunJoinedItsJobs
  BY RuntimeAssumption
     DEF Joined, Acknowledged, AcknowledgedIsJournaled, CompletedRunJoinedItsJobs
<1>4. QED  BY <1>1, <1>2, <1>3, SpecTypeOK, SpecAnnouncing, PTL DEF Spec

-----------------------------------------------------------------------------
(* What the journal says of the selection.                                 *)

\* Records about something else.
Neutral(r) ==
  r.kind \in {"session_started", "run_started", "run_input_added", "model_response",
              "tool_result", "boundary_event", "run_finished"}

NeutralStep ==
  \/ UNCHANGED <<store, live>>
  \/ \E r : Neutral(r) /\ (Written(r) \/ (AppendFails(r) /\ live' = live))

\* They leave the selection alone, refused or not.
LEMMA NeutralApplied ==
  ASSUME NEW st \in State, NEW r, Neutral(r)
  PROVE  LET new == Apply(st, r) IN
           /\ new.selection = st.selection /\ new.configured = st.configured
           /\ new.epoch = st.epoch
           /\ st.session => new.session
BY DEF Neutral, Apply, ApplySessionStarted, ApplyRunStarted, ApplyRunInputAdded,
       ApplyModelResponse, ApplyToolResult, ApplyBoundaryEvent, ApplyRunFinished, Refuse,
       State

\* A selection that is not refused begins an epoch that no configuration describes yet.
LEMMA SelectionApplied ==
  ASSUME NEW st \in State, NEW info, Apply(st, SelectionRecord(info)).ok
  PROVE  LET new == Apply(st, SelectionRecord(info)) IN
           /\ new.selection = {info} /\ new.configured = {}
           /\ new.epoch = epochs + 1 /\ new.session
BY DEF SelectionRecord, Apply, ApplyModelSelected, Refuse, State

\* The selection at the endpoint of a configuration.
Relocated(sel, c) == {[s EXCEPT !.endpoint = c.info.endpoint] : s \in sel}

\* A configuration that is not refused becomes what is configured, and moves the selection
\* to its endpoint.
LEMMA ConfigurationApplied ==
  ASSUME NEW st \in State, NEW c, NEW s, Apply(st, ConfigurationRecord(c, s)).ok
  PROVE  LET new == Apply(st, ConfigurationRecord(c, s)) IN
           /\ new.selection = Relocated(st.selection, c)
           /\ new.configured = {SnapshotOf(c, s)}
           /\ new.epoch = st.epoch /\ new.session
BY DEF ConfigurationRecord, SnapshotOf, Apply, ApplySessionConfigured, Refuse, State,
       Relocated

\* A selection that is at its endpoint stays there.
LEMMA RelocatedSame ==
  ASSUME NEW c \in Configuration
  PROVE  Relocated({c.info}, c) = {c.info}
BY DEF Relocated, Configuration, ModelInfo

\* What is relocated twice is relocated once.
LEMMA RelocatedTwice ==
  ASSUME NEW sel \in SUBSET ModelInfo, NEW c \in Configuration
  PROVE  Relocated(Relocated(sel, c), c) = Relocated(sel, c)
<1> DEFINE moved(s) == [s EXCEPT !.endpoint = c.info.endpoint]
<1>1. \A s \in sel : moved(moved(s)) = moved(s)
  BY DEF ModelInfo
<1>2. Relocated(Relocated(sel, c), c) = {moved(t) : t \in {moved(s) : s \in sel}}
  BY DEF Relocated
<1>3. Relocated(sel, c) = {moved(s) : s \in sel}
  BY DEF Relocated
<1> HIDE DEF moved
<1>4. QED  BY <1>1, <1>2, <1>3

\* A snapshot tells the selection and the scope it describes.
LEMMA SnapshotTells ==
  ASSUME NEW c \in Configuration, NEW d \in Configuration, NEW s, NEW t,
         SnapshotOf(c, s) = SnapshotOf(d, t)
  PROVE  c = d /\ s = t
<1>1. /\ c.info.model = d.info.model /\ c.info.endpoint = d.info.endpoint
      /\ c.tools = d.tools /\ s = t
  BY DEF SnapshotOf
<1>2. c.info = d.info
  BY <1>1 DEF Configuration, ModelInfo
<1>3. QED  BY <1>1, <1>2 DEF Configuration

\* A write that did not break the store left everything or nothing.
LEMMA UnbrokenAppend ==
  ASSUME TypeOK, NEW r, Written(r) \/ AppendFails(r), ~failed'
  PROVE  /\ ~failed \/ UNCHANGED store
         /\ \/ durable' = Apply(durable, r)
            \/ durable' = durable
         /\ AppendFails(r) /\ ~Written(r) => durable' = durable
         /\ Written(r) => durable' = Apply(durable, r) /\ live' = Apply(live, r)
         /\ ~failed
BY DEF Written, Persisted, Stored, AppendFails, store, TypeOK

\* A step that is neutral leaves the selection alone, in the journal and in memory.
LEMMA NeutralKeeps ==
  ASSUME TypeOK, NeutralStep, ~failed'
  PROVE  /\ ~failed
         /\ durable'.selection = durable.selection /\ durable'.configured = durable.configured
         /\ live'.selection = live.selection /\ live'.configured = live.configured
         /\ durable'.epoch = durable.epoch /\ live'.epoch = live.epoch
         /\ durable.session => durable'.session
         /\ live.session => live'.session
<1>1. durable \in State /\ live \in State
  BY DEF TypeOK
<1>2. CASE UNCHANGED <<store, live>>
  BY <1>2 DEF store
<1>3. CASE \E r : Neutral(r) /\ (Written(r) \/ (AppendFails(r) /\ live' = live))
  <2>1. PICK r : Neutral(r) /\ (Written(r) \/ (AppendFails(r) /\ live' = live))
    BY <1>3
  <2>2. CASE Written(r)
    BY <1>1, <2>1, <2>2, NeutralApplied, UnbrokenAppend
  <2>3. CASE ~Written(r)
    BY <2>1, <2>3, UnbrokenAppend
  <2>4. QED  BY <2>2, <2>3
<1>4. QED  BY <1>2, <1>3 DEF NeutralStep

\* An operation at work records nothing of the selection.
LEMMA WorkIsNeutral ==
  ASSUME \/ LoopWork \/ ShellWork
         \/ PrepareSession \/ SyncExternalWork \/ RecordRunStarted \/ RecordInput
  PROVE  NeutralStep
<1>1. /\ Neutral([kind |-> "session_started"])
      /\ \A n : Neutral([kind |-> "run_started", run |-> n])
      /\ \A n, i : Neutral([kind |-> "run_input_added", run |-> n, input |-> i])
      /\ \A n, t : Neutral([kind |-> "boundary_event", run |-> n, tells |-> t])
      /\ \A n, m, e, c : Neutral([kind |-> "model_response", run |-> n, model |-> m,
                                 epoch |-> e, calls |-> c])
      /\ \A n : Neutral(ResponseRecord(n))
      /\ \A p, t : Neutral(ResultRecord(p, t))
      /\ \A s, o, d : Neutral(FinishRecord(s, o, d))
  BY DEF Neutral, ResponseRecord, ResultRecord, FinishRecord
<1>2. /\ Leave => live' = live
      /\ FinishError => live' = live
  BY DEF Leave, FinishError
<1>3. /\ UNCHANGED <<store, live>> => NeutralStep
      /\ \A r : Neutral(r) /\ Written(r) => NeutralStep
      /\ \A r : Neutral(r) /\ AppendFails(r) /\ live' = live => NeutralStep
  <2>1. ASSUME NEW r, Neutral(r), Written(r)
        PROVE  NeutralStep
    BY <2>1, Zenon DEF NeutralStep
  <2>2. ASSUME NEW r, Neutral(r), AppendFails(r), live' = live
        PROVE  NeutralStep
    BY <2>2, Zenon DEF NeutralStep
  <2>3. UNCHANGED <<store, live>> => NeutralStep
    BY DEF NeutralStep
  <2>4. QED  BY <2>1, <2>2, <2>3
<1>4. CASE DeliverInput \/ OfferEvents \/ DeliverEvent \/ EventCommitted \/ ToolResultCommitted
  BY <1>1, <1>2, <1>3, <1>4
     DEF DeliverInput, OfferEvents, DeliverEvent, EventCommitted, ToolResultCommitted
<1>5. CASE AcceptResponse \/ CommitToolResult \/ SettleCancelled \/ RejectOverLimit \/ FinishRun
  BY <1>1, <1>2, <1>3, <1>5
     DEF AcceptResponse, CommitToolResult, SettleCancelled, RejectOverLimit, FinishRun
<1>6. CASE Request \/ Await \/ ExecuteTool
  BY <1>2, <1>3, <1>6 DEF Request, Await, ExecuteTool
<1>7. CASE ShellCall \/ ShellRun \/ ShellResult \/ ShellFinish
  BY <1>1, <1>2, <1>3, <1>7 DEF ShellCall, ShellRun, ShellResult, ShellFinish
<1>8. CASE PrepareSession \/ SyncExternalWork \/ RecordRunStarted \/ RecordInput
  BY <1>1, <1>2, <1>3, <1>8
     DEF PrepareSession, SyncExternalWork, RecordRunStarted, RecordInput
<1>9. QED
  BY <1>4, <1>5, <1>6, <1>7, <1>8 DEF LoopWork, ShellWork

-----------------------------------------------------------------------------
(* A request is described.                                                 *)

\* The journal says what the operation knows, or what a scope recorded since: the scope in
\* force, and the selection in force at its endpoint.
Trails ==
  \/ durable.selection = live.selection /\ durable.configured = live.configured
  \/ /\ durable.session
     /\ durable.selection = Relocated(live.selection, config)
     /\ durable.configured = {SnapshotOf(config, scope)}

\* The journal describes the selection in force, and so did the operation when it last
\* looked, under some scope.
Matches ==
  /\ durable.selection = {config.info} /\ live.selection = {config.info}
  /\ durable.configured = {SnapshotOf(config, scope)}
  /\ \E s \in Scopes : live.configured = {SnapshotOf(config, s)}

\* Where a run has described what its requests are made with.
DescribedSteps == (LoopSteps \cup ShellSteps \cup {"sync", "start", "input"}) \ {"finish"}

\* What the journal says of the selection where an operation stands.
Described ==
  ~failed /\ opened =>
    /\ pc \in {"session", "select", "configure"} => Trails
    /\ pc = "configure" => live.selection = {config.info}
    /\ pc \in DescribedSteps => Matches
    /\ pc = "apply_select" /\ after # "idle" => Matches
    /\ pc = "apply_configure" /\ after # "idle" =>
         /\ durable.selection = {applying.info} /\ live.selection = {applying.info}
         /\ \/ durable.configured = {} /\ live.configured = {}
            \/ config.info = applying.info /\ Matches

\* Where nothing is said.
LEMMA FreeDescribed ==
  ASSUME \/ ~opened'
         \/ failed'
         \/ pc' \in {"down", "reconcile", "idle", "open", "release", "finish"}
         \/ pc' = "apply_select" /\ after' = "idle"
         \/ pc' = "apply_configure" /\ after' = "idle"
  PROVE  Described'
BY DEF Described, DescribedSteps, LoopSteps, ShellSteps

\* An operation on its way leaves the selection alone.
LEMMA WorkDescribed ==
  ASSUME TypeOK, Described,
         \/ LoopWork \/ ShellWork
         \/ PrepareSession \/ SyncExternalWork \/ RecordRunStarted \/ RecordInput
  PROVE  Described'
<1> SUFFICES ASSUME ~failed', opened', pc' \notin {"release", "finish"}
             PROVE  Described'
  BY FreeDescribed
<1>1. /\ UNCHANGED <<config, scope>> /\ opened' = opened
      /\ \/ pc = "session" /\ pc' = "select"
         \/ pc \in DescribedSteps /\ pc' \in DescribedSteps
  <2>1. CASE LoopWork
    <3>1. pc # "finish"
      BY <2>1 DEF LoopWork, FinishRun, Leave, Goto, DeliverInput, OfferEvents, DeliverEvent,
                  EventCommitted, ToolResultCommitted, Request, AcceptResponse, Await,
                  ExecuteTool, CommitToolResult, SettleCancelled, RejectOverLimit
    <3>2. QED  BY <2>1, <3>1, LoopFlow DEF DescribedSteps, selection, LoopSteps
  <2>2. CASE ShellWork
    BY <2>2, ShellFlow DEF DescribedSteps, selection, ShellSteps
  <2>3. CASE PrepareSession \/ SyncExternalWork \/ RecordRunStarted \/ RecordInput
    <3>1. UNCHANGED <<selection, opened>>
      BY <2>3, PreparationFlow DEF Preparation
    <3>2. \/ pc = "session" /\ pc' = "select"
          \/ pc = "sync" /\ pc' = "start"
          \/ pc = "start" /\ pc' = "input"
          \/ pc = "input" /\ pc' \in {"boundary", "shell_call"}
      BY <2>3 DEF PrepareSession, SyncExternalWork, RecordRunStarted, RecordInput, Leave, Goto
    <3>3. QED  BY <3>1, <3>2 DEF DescribedSteps, LoopSteps, ShellSteps, selection
  <2>4. QED  BY <2>1, <2>2, <2>3
<1>2. /\ ~failed
      /\ durable'.selection = durable.selection /\ durable'.configured = durable.configured
      /\ live'.selection = live.selection /\ live'.configured = live.configured
      /\ durable.session => durable'.session
  BY WorkIsNeutral, NeutralKeeps
<1>3. SnapshotOf(config, scope)' = SnapshotOf(config, scope)
      /\ \A s : SnapshotOf(config, s)' = SnapshotOf(config, s)
      /\ Relocated(live.selection, config)' = Relocated(live.selection, config)
  BY <1>1, <1>2 DEF SnapshotOf, Relocated
<1>4. (Trails => Trails') /\ (Matches => Matches')
  BY <1>1, <1>2, <1>3 DEF Trails, Matches
<1>5. QED
  BY <1>1, <1>2, <1>4 DEF Described, DescribedSteps, LoopSteps, ShellSteps


\* Selecting a model, and describing it, while an operation is prepared.
LEMMA PrepareDescribed ==
  ASSUME TypeOK, Consistent, Consistent', Described, PrepareModel \/ PrepareConfiguration
  PROVE  Described'
<1> SUFFICES ASSUME ~failed', opened', pc' # "release"
             PROVE  Described'
  BY FreeDescribed
<1>1. /\ durable \in State /\ live \in State /\ config \in Configuration
      /\ scope \in Scopes
  BY DEF TypeOK
<1>2. durable'.ok /\ live'.ok
  BY DEF Consistent, Kept, Known, Sound
<1>3. /\ UNCHANGED <<config, scope, opened>>
      /\ pc \in {"select", "configure"} /\ live.session
  BY PreparationFlow DEF Preparation, selection, PrepareModel, PrepareConfiguration,
                         Consistent, Placed, Preparing
<1>4. /\ \A s, c : SnapshotOf(c, s)' = SnapshotOf(c, s)
      /\ SnapshotOf(config, scope)' = SnapshotOf(config, scope)
  BY <1>3 DEF SnapshotOf
<1>5. CASE PrepareModel
  <2>1. pc = "select" /\ SelectModel(config.info, "configure", Leave)
    BY <1>5 DEF PrepareModel
  <2>2. Leave => pc' = "release"
    BY DEF Leave, Goto
  <2>3. CASE KeepsEpoch(live, config.info) /\ Goto("configure")
             /\ UNCHANGED <<store, live, epochs, used>>
    <3>1. /\ pc' = "configure" /\ UNCHANGED <<durable, live, failed>>
          /\ live.selection = {config.info}
      BY <2>3 DEF KeepsEpoch, Goto, store
    <3>2. Trails
      BY <1>3, <2>1, <3>1 DEF Described
    <3>3. Trails'
      BY <1>3, <1>4, <3>1, <3>2 DEF Trails, Relocated
    <3>4. QED  BY <1>3, <3>1, <3>3 DEF Described, DescribedSteps, LoopSteps, ShellSteps
  <2>4. CASE Written(SelectionRecord(config.info)) /\ Goto("configure")
    <3>1. /\ pc' = "configure"
          /\ durable' = Apply(durable, SelectionRecord(config.info))
          /\ live' = Apply(live, SelectionRecord(config.info))
      BY <2>4 DEF Goto, Written, Persisted, Stored
    <3>2. /\ durable'.selection = {config.info} /\ live'.selection = {config.info}
          /\ durable'.configured = {} /\ live'.configured = {}
      BY <1>1, <1>2, <3>1, SelectionApplied
    <3>3. QED
      BY <1>3, <3>1, <3>2 DEF Described, DescribedSteps, LoopSteps, ShellSteps, Trails
  <2>5. QED  BY <2>1, <2>2, <2>3, <2>4 DEF SelectModel
<1>6. CASE PrepareConfiguration
  <2> DEFINE r == ConfigurationRecord(config, scope)
             next == IF op = "run" THEN "sync" ELSE "start"
  <2>1. pc = "configure" /\ live.selection = {config.info}
        /\ ~failed /\ Trails
    <3>1. ~failed
      <4>1. CASE UNCHANGED store
        BY <4>1 DEF store
      <4>2. CASE Written(r) \/ AppendFails(r)
        BY <4>2, UnbrokenAppend
      <4>3. QED  BY <1>6, <4>1, <4>2 DEF PrepareConfiguration
    <3>2. QED  BY <1>3, <1>6, <3>1 DEF PrepareConfiguration, Described
  <2>2. Relocated({config.info}, config) = {config.info}
    BY <1>1, RelocatedSame
  <2>3. durable.selection = {config.info}
    BY <2>1, <2>2 DEF Trails
  <2>4. pc' \in {"sync", "start"}
    BY <1>6 DEF PrepareConfiguration, Leave, Goto
  <2>5. CASE ~NeedsRecord(live, config, scope) /\ UNCHANGED <<store, live, used>>
    <3>1. live.configured = {SnapshotOf(config, scope)}
      BY <1>3, <2>5 DEF NeedsRecord
    <3>2. durable.configured = {SnapshotOf(config, scope)}
      BY <2>1, <3>1 DEF Trails
    <3>3. Matches'
      BY <1>1, <1>3, <1>4, <2>1, <2>3, <2>5, <3>1, <3>2 DEF Matches, store
    <3>4. QED
      BY <1>3, <2>4, <3>3 DEF Described, DescribedSteps, LoopSteps, ShellSteps
  <2>6. CASE Written(r)
    <3>1. durable' = Apply(durable, r) /\ live' = Apply(live, r)
      BY <2>6 DEF Written, Persisted, Stored
    <3>2. /\ durable'.selection = {config.info} /\ live'.selection = {config.info}
          /\ durable'.configured = {SnapshotOf(config, scope)}
          /\ live'.configured = {SnapshotOf(config, scope)}
      <4>1. Apply(durable, r).ok /\ Apply(live, r).ok
        BY <1>2, <3>1
      <4>2. /\ Apply(durable, r).selection = Relocated(durable.selection, config)
            /\ Apply(durable, r).configured = {SnapshotOf(config, scope)}
        BY <1>1, <4>1, ConfigurationApplied
      <4>3. /\ Apply(live, r).selection = Relocated(live.selection, config)
            /\ Apply(live, r).configured = {SnapshotOf(config, scope)}
        BY <1>1, <4>1, ConfigurationApplied
      <4> HIDE DEF r
      <4>4. QED  BY <2>1, <2>2, <2>3, <3>1, <4>2, <4>3
    <3>3. Matches'
      BY <1>1, <1>3, <1>4, <3>2 DEF Matches
    <3>4. QED
      BY <1>3, <2>4, <3>3 DEF Described, DescribedSteps, LoopSteps, ShellSteps
  <2>7. Leave => pc' = "release"
    BY DEF Leave, Goto
  <2>8. QED  BY <1>6, <2>5, <2>6, <2>7 DEF PrepareConfiguration
<1>7. QED  BY <1>5, <1>6

\* The top of the loop, the end and the beginning of an operation.
LEMMA BoundaryDescribed ==
  ASSUME TypeOK, Consistent, Described,
         Boundary \/ Release \/ Open \/ Aside \/ DeferSelection \/ ApplySelection
  PROVE  Described'
<1> USE DEF DescribedSteps, LoopSteps, ShellSteps
<1>1. CASE Boundary
  <2> DEFINE next == IF limited THEN "request" ELSE "queue"
  <2>1. /\ UNCHANGED <<durable, failed, live, config, scope, opened>>
        /\ \/ pc' \in {"queue", "request"}
           \/ pc' = "apply_select" /\ after' # "idle"
    BY <1>1 DEF Boundary, StartApplying, Goto, control, selection, store
  <2>2. ~failed /\ opened => Matches
    BY <1>1 DEF Described, Boundary
  <2>3. Matches => Matches'
    BY <2>1 DEF Matches, SnapshotOf
  <2>4. QED  BY <2>1, <2>2, <2>3 DEF Described
<1>2. CASE Release
  BY <1>2, FreeDescribed DEF Release, StartApplying, Unlock
<1>3. CASE Open
  <2>1. CASE Leave
    BY <2>1, FreeDescribed DEF Leave, Goto
  <2>2. CASE pc' = "release"
    BY <2>2, FreeDescribed
  <2>3. CASE live' = durable /\ pc' = "session"
    BY <1>3, <2>3 DEF Open, Described, Trails, store
  <2>4. QED  BY <1>3, <2>1, <2>2, <2>3 DEF Open
<1>4. CASE Aside \/ DeferSelection
  <2>1. UNCHANGED <<durable, failed, live, config, applying, scope, opened, pc, after>>
    BY <1>4, AsideFlow DEF DeferSelection, selection, locals, control, store
  <2>2. (Matches => Matches') /\ (Trails => Trails')
    BY <2>1 DEF Matches, Trails, SnapshotOf, Relocated
  <2>3. QED  BY <2>1, <2>2 DEF Described
<1>5. CASE ApplySelection
  BY <1>5, FreeDescribed DEF ApplySelection, Consistent, Placed, locals
<1>6. QED  BY <1>1, <1>2, <1>3, <1>4, <1>5


\* A deferred selection is recorded, or is the one that is recorded.
LEMMA ApplyModelDescribed ==
  ASSUME TypeOK, Consistent, Consistent', Described, ApplyModel
  PROVE  Described'
<1> DEFINE info == applying.info
<1> SUFFICES ASSUME ~failed', opened', pc' = "apply_configure", after # "idle"
             PROVE  Described'
  <2>1. /\ FinishError => pc' = "finish"
        /\ Unlock("idle") => ~opened'
        /\ Goto("apply_configure") => pc' = "apply_configure" /\ after' = after
    BY DEF FinishError, FinishWith, Unlock, Goto, locals
  <2>2. ApplyFails \/ Goto("apply_configure")
    BY DEF ApplyModel, SelectModel
  <2>3. QED  BY <2>1, <2>2, FreeDescribed DEF ApplyFails
<1>1. /\ pc = "apply_select" /\ opened /\ live.session
      /\ durable \in State /\ live \in State /\ durable'.ok /\ live'.ok
      /\ UNCHANGED <<config, scope, applying>>
  <2>1. InRun /\ opened
    BY DEF ApplyModel, Consistent, Placed
  <2>2. live.session
    BY <2>1 DEF InRun, Consistent, Kept, Known, Sound
  <2>3. QED
    BY <2>1, <2>2 DEF ApplyModel, TypeOK, Consistent, Kept, Known, Sound, selection
<1>2. SelectModel(info, "apply_configure", ApplyFails)
  BY <1>1 DEF ApplyModel
<1>3. ~ApplyFails
  BY DEF ApplyFails, FinishError, FinishWith
<1>4. CASE KeepsEpoch(live, info) /\ UNCHANGED <<store, live, epochs, used>>
  <2>1. ~failed /\ UNCHANGED <<durable, live>> /\ live.selection = {info}
    BY <1>4 DEF store, KeepsEpoch
  <2>2. Matches
    BY <1>1, <2>1 DEF Described
  <2>3. config.info = info /\ Matches'
    BY <1>1, <2>1, <2>2 DEF Matches, SnapshotOf
  <2>4. /\ durable'.selection = {info} /\ live'.selection = {info}
        /\ config'.info = applying'.info /\ applying'.info = info
    BY <1>1, <2>1, <2>2, <2>3 DEF Matches
  <2>5. QED
    BY <2>3, <2>4 DEF Described, DescribedSteps, LoopSteps, ShellSteps
<1>5. CASE Written(SelectionRecord(info))
  <2>1. durable' = Apply(durable, SelectionRecord(info))
        /\ live' = Apply(live, SelectionRecord(info))
    BY <1>5 DEF Written, Persisted, Stored
  <2>2. /\ durable'.selection = {info} /\ live'.selection = {info}
        /\ durable'.configured = {} /\ live'.configured = {} /\ applying'.info = info
    BY <1>1, <2>1, SelectionApplied
  <2>3. QED  BY <2>2 DEF Described, DescribedSteps, LoopSteps, ShellSteps
<1>6. QED  BY <1>2, <1>3, <1>4, <1>5 DEF SelectModel

\* What is published is described.
LEMMA ApplyConfigurationDescribed ==
  ASSUME TypeOK, Consistent, Consistent', Described, ApplyConfiguration
  PROVE  Described'
<1> DEFINE r == ConfigurationRecord(applying, scope)
<1>1. /\ FinishError => pc' = "finish"
      /\ Unlock("idle") => ~opened'
      /\ Goto(after) => pc' = after
  BY DEF FinishError, FinishWith, Unlock, Goto
<1> SUFFICES ASSUME ~failed', opened', Publish, after # "idle", Goto(after),
                    \/ Written(r)
                    \/ ~NeedsRecord(live, applying, scope) /\ UNCHANGED <<store, live>>
             PROVE  Described'
  BY <1>1, FreeDescribed DEF ApplyConfiguration, Applied, ApplyFails
<1>2. after \in {"queue", "request"} /\ pc = "apply_configure"
  BY DEF TypeOK, ApplyConfiguration
<1>3. /\ pc' \in {"queue", "request"}
      /\ config' = applying /\ scope' = scope
      /\ applying \in Configuration /\ scope \in Scopes /\ config \in Configuration
      /\ durable \in State /\ live \in State /\ durable'.ok /\ live'.ok
  BY <1>1, <1>2 DEF Publish, TypeOK, Consistent, Kept, Known, Sound
<1>4. opened /\ live.session
  <2>1. InRun /\ opened
    BY <1>2 DEF Consistent, Placed
  <2>2. QED  BY <2>1 DEF InRun, Consistent, Kept, Known, Sound
<1>5. ~failed
  BY UnbrokenAppend DEF store
<1>6. /\ durable.selection = {applying.info} /\ live.selection = {applying.info}
      /\ \/ durable.configured = {} /\ live.configured = {}
         \/ config.info = applying.info /\ Matches
  BY <1>2, <1>4, <1>5 DEF Described
<1>7. Matches'
  <2>1. CASE Written(r)
    <3>1. /\ durable' = Apply(durable, r) /\ live' = Apply(live, r)
          /\ Apply(durable, r).ok /\ Apply(live, r).ok
      BY <1>3, <2>1 DEF Written, Persisted, Stored
    <3>2. /\ Apply(durable, r).selection = Relocated(durable.selection, applying)
          /\ Apply(durable, r).configured = {SnapshotOf(applying, scope)}
      BY <1>3, <3>1, ConfigurationApplied
    <3>3. /\ Apply(live, r).selection = Relocated(live.selection, applying)
          /\ Apply(live, r).configured = {SnapshotOf(applying, scope)}
      BY <1>3, <3>1, ConfigurationApplied
    <3>4. Relocated({applying.info}, applying) = {applying.info}
      BY <1>3, RelocatedSame
    <3> HIDE DEF r
    <3>5. /\ durable'.selection = {applying.info} /\ live'.selection = {applying.info}
          /\ durable'.configured = {SnapshotOf(applying, scope)}
          /\ live'.configured = {SnapshotOf(applying, scope)}
      BY <1>6, <3>1, <3>2, <3>3, <3>4
    <3>6. \A s : SnapshotOf(config, s)' = SnapshotOf(applying, s)
          /\ SnapshotOf(config, scope)' = SnapshotOf(applying, scope)
      BY <1>3 DEF SnapshotOf
    <3>7. QED  BY <1>3, <3>5, <3>6 DEF Matches
  <2>2. CASE ~NeedsRecord(live, applying, scope) /\ UNCHANGED <<store, live>>
    <3>1. live.configured = {SnapshotOf(applying, scope)}
      BY <1>4, <2>2 DEF NeedsRecord
    <3>2. Matches
      BY <1>6, <3>1
    <3>3. PICK s \in Scopes : live.configured = {SnapshotOf(config, s)}
      BY <3>2 DEF Matches
    <3>4. SnapshotOf(config, s) = SnapshotOf(applying, scope)
      BY <3>1, <3>3
    <3>5. config = applying
      BY <1>3, <3>4, SnapshotTells
    <3>6. UNCHANGED <<config, scope, durable, live>>
      BY <1>3, <2>2, <3>5 DEF store
    <3>7. QED  BY <3>2, <3>6 DEF Matches, SnapshotOf
  <2>3. QED  BY <2>1, <2>2
<1>8. QED  BY <1>3, <1>7 DEF Described, DescribedSteps, LoopSteps, ShellSteps

\* A scope is recorded behind the back of the operation.
LEMMA SetScopeDescribed ==
  ASSUME TypeOK, Consistent, Consistent', Described, SetScope
  PROVE  Described'
<1> SUFFICES ASSUME ~failed', opened'
             PROVE  Described'
  BY FreeDescribed
<1>1. PICK s \in Scopes :
        /\ scope' = s
        /\ \/ ~NeedsRecord(durable, config, s) /\ UNCHANGED store
           \/ /\ NeedsRecord(durable, config, s)
              /\ Stored(ConfigurationRecord(config, s))
  BY DEF SetScope
<1>2. /\ UNCHANGED <<config, live, pc, opened, after>> /\ pc \notin ApplySteps
      /\ ~failed /\ opened
      /\ durable \in State /\ live \in State /\ config \in Configuration
      /\ durable'.ok
  BY DEF SetScope, ConfigFree, control, locals, ApplySteps, TypeOK, Consistent, Kept, Known,
         Sound
<1>3. /\ \A t : SnapshotOf(config, t)' = SnapshotOf(config, t)
      /\ Relocated(live.selection, config)' = Relocated(live.selection, config)
      /\ SnapshotOf(config, scope)' = SnapshotOf(config, s)
      /\ SnapshotOf(config', scope') = SnapshotOf(config, s)
      /\ Relocated(live'.selection, config') = Relocated(live.selection, config)
  BY <1>1, <1>2 DEF SnapshotOf, Relocated
<1>4. CASE NeedsRecord(durable, config, s) /\ Stored(ConfigurationRecord(config, s))
  <2>1. durable' = Apply(durable, ConfigurationRecord(config, s))
    BY <1>4 DEF Stored
  <2>2. /\ durable'.selection = Relocated(durable.selection, config)
        /\ durable'.configured = {SnapshotOf(config, s)} /\ durable'.session
    BY <1>2, <2>1, ConfigurationApplied
  <2>3. Trails => Trails'
    <3>1. live.selection \in SUBSET ModelInfo
      BY <1>2 DEF State
    <3>2. Trails => durable'.selection = Relocated(live.selection, config)
      BY <1>2, <2>2, <3>1, RelocatedTwice DEF Trails
    <3>3. QED  BY <1>3, <2>2, <3>2 DEF Trails
  <2>4. Matches => Matches'
    <3>1. Relocated({config.info}, config) = {config.info}
      BY <1>2, RelocatedSame
    <3>2. QED  BY <1>2, <1>3, <2>2, <3>1 DEF Matches
  <2>5. QED  BY <1>2, <2>3, <2>4 DEF Described, ApplySteps
<1>5. CASE ~NeedsRecord(durable, config, s) /\ UNCHANGED store
  <2>1. /\ durable' = durable
        /\ durable.session => durable.configured = {SnapshotOf(config, s)}
    BY <1>5 DEF NeedsRecord, store
  <2>2. Trails => Trails'
    <3>1. CASE durable.selection = live.selection /\ durable.configured = live.configured
      BY <1>2, <2>1, <3>1 DEF Trails
    <3>2. CASE durable.session /\ durable.selection = Relocated(live.selection, config)
      <4>1. durable'.session /\ durable'.selection = Relocated(live.selection, config)'
            /\ durable'.configured = {SnapshotOf(config, scope)'}
        BY <1>3, <2>1, <3>2
      <4>2. QED  BY <4>1, Zenon DEF Trails
    <3>3. QED  BY <3>1, <3>2 DEF Trails
  <2>3. pc \in DescribedSteps => durable.session
    <3>1. live.session = durable.session
      BY <1>2 DEF Consistent, Kept, LiveFollowsJournal, Agree
    <3>2. live.runs # {} => live.session
      BY DEF Consistent, Kept, Known, Sound
    <3>3. pc \in DescribedSteps => live.session
      BY <3>2 DEF Consistent, Placed, Preparing, Looping, InRun, DescribedSteps, LoopSteps,
                  ShellSteps
    <3>4. QED  BY <3>1, <3>3
  <2>4. ASSUME durable.session, Matches
        PROVE  Matches'
    <3>1. /\ durable'.selection = {config'.info} /\ live'.selection = {config'.info}
          /\ durable'.configured = {SnapshotOf(config, scope)'}
      BY <1>2, <1>3, <2>1, <2>4 DEF Matches
    <3>2. PICK t \in Scopes : live'.configured = {SnapshotOf(config, t)'}
      BY <1>2, <1>3, <2>4 DEF Matches
    <3>3. QED  BY <3>1, <3>2, Zenon DEF Matches
  <2>5. QED  BY <1>2, <2>2, <2>3, <2>4 DEF Described, ApplySteps
<1>6. QED  BY <1>1, <1>4, <1>5

\* Every step keeps the journal to what is in force.
LEMMA StepDescribed ==
  ASSUME TypeOK, Consistent, Consistent', Described, [Next]_vars
  PROVE  Described'
<1>1. CASE UNCHANGED vars
  BY <1>1 DEF vars, selection, control, locals, store, Described, Matches, Trails, SnapshotOf,
              Relocated
<1>2. CASE \/ ReconcileCall \/ ReconcileRun \/ Attach \/ Reopen \/ Crash \/ Close
           \/ StartRun \/ StartShell
  <2>1. ReconcileCall \/ ReconcileRun => pc' \in {"reconcile", "down"}
    BY DEF ReconcileCall, ReconcileRun, ReconcileAppends, Goto, Unlock
  <2>2. Attach \/ Reopen \/ StartRun \/ StartShell => pc' \in {"idle", "reconcile", "open"}
    BY DEF Attach, Reopen, StartRun, StartShell, Lock, Unlock
  <2>3. QED  BY <1>2, <2>1, <2>2, EndFlow, FreeDescribed
<1>3. QED
  BY <1>1, <1>2, NextSteps, WorkDescribed, PrepareDescribed, BoundaryDescribed,
     ApplyModelDescribed, ApplyConfigurationDescribed, SetScopeDescribed DEF Preparation

\* From the request to the last result of its calls, the journal names the model, the
\* endpoint, the tools and the scope in force, although another goroutine records the scope
\* and a selection may be waiting.
THEOREM SpecRequestIsDescribed == Spec => []RequestIsDescribed
<1>1. Init => Described
  BY DEF Init, Described
<1>2. TypeOK /\ Consistent /\ Consistent' /\ Described /\ [Next]_vars => Described'
  BY StepDescribed
<1>3. Consistent /\ Described => RequestIsDescribed
  BY DEF Consistent, Placed, InRun, Looping, Described, Matches, RequestIsDescribed,
         DescribedSteps, LoopSteps
<1>4. QED  BY <1>1, <1>2, <1>3, SpecConsistent, PTL DEF Spec

-----------------------------------------------------------------------------
(* An epoch has one source.                                                *)

\* Every response of an epoch so far was made with the selection the journal has for it.
Sources ==
  /\ EpochHasOneSource
  /\ \A s \in served :
       s.epoch <= epochs /\ (s.epoch = durable.epoch => durable.selection = {s.info})

\* While nobody tries to change the scope, an operation and the journal have one selection,
\* the one that is being described.
Sourced ==
  used["scope"] = 0 =>
    /\ Sources
    /\ opened /\ ~failed => durable.selection = live.selection
    /\ pc = "apply_configure" /\ live.session => live.selection = {applying.info}

\* Nothing is served, and the epoch goes on or a new one begins.
LEMMA SourcesSame ==
  ASSUME TypeOK, Sources, UNCHANGED served,
         \/ durable'.selection = durable.selection /\ durable'.epoch = durable.epoch
         \/ durable'.epoch = epochs + 1,
         epochs' \in {epochs, epochs + 1}
  PROVE  Sources'
<1>1. \A s \in served : s.epoch \in Nat
  BY DEF TypeOK
<1>2. epochs \in Nat
  BY DEF TypeOK
<1>3. \A s \in served : s.epoch <= epochs' /\ s.epoch # epochs + 1
  BY <1>1, <1>2 DEF Sources
<1>4. QED  BY <1>3 DEF Sources, EpochHasOneSource

\* A record about something else leaves the epoch alone, stored or not.
LEMMA NeutralEpoch ==
  ASSUME TypeOK, NEW r, Neutral(r), Written(r) \/ AppendFails(r)
  PROVE  durable'.selection = durable.selection /\ durable'.epoch = durable.epoch
<1>1. durable' \in {durable, Apply(durable, r)} /\ durable \in State
  BY DEF Written, Persisted, Stored, AppendFails, store, TypeOK
<1>2. QED  BY <1>1, NeutralApplied

\* The same for a step.
LEMMA NeutralStepEpoch ==
  ASSUME TypeOK, NeutralStep
  PROVE  durable'.selection = durable.selection /\ durable'.epoch = durable.epoch
<1>1. CASE UNCHANGED <<store, live>>
  BY <1>1 DEF store
<1>2. CASE \E r : Neutral(r) /\ (Written(r) \/ (AppendFails(r) /\ live' = live))
  BY <1>2, NeutralEpoch
<1>3. QED  BY <1>1, <1>2 DEF NeutralStep

\* Work that serves nothing.
LEMMA WorkSourced ==
  ASSUME TypeOK, Sourced, used["scope"] = 0,
         \/ LoopWork /\ ~AcceptResponse
         \/ ShellWork
         \/ PrepareSession \/ SyncExternalWork \/ RecordRunStarted \/ RecordInput
  PROVE  Sourced'
<1>1. UNCHANGED <<served, epochs, opened>> /\ pc' # "apply_configure"
  <2>1. UNCHANGED <<served, epochs>>
    BY DEF LoopWork, DeliverInput, OfferEvents, DeliverEvent, EventCommitted,
           ToolResultCommitted, Request, Await, ExecuteTool, CommitToolResult,
           SettleCancelled, RejectOverLimit, FinishRun, ShellWork, ShellCall, ShellRun,
           ShellResult, ShellFinish, PrepareSession, SyncExternalWork, RecordRunStarted,
           RecordInput, ids
  <2>2. QED
    BY <2>1, LoopFlow, ShellFlow, PreparationFlow
       DEF Preparation, LoopSteps, ShellSteps, Preparing
<1>2. Sources'
  BY <1>1, WorkIsNeutral, NeutralStepEpoch, SourcesSame DEF Sourced
<1>3. ~failed' /\ opened' => durable'.selection = live'.selection
  BY <1>1, WorkIsNeutral, NeutralKeeps DEF Sourced
<1>4. QED  BY <1>1, <1>2, <1>3 DEF Sourced

\* A response belongs to the epoch of the selection it was made with.
LEMMA AcceptSourced ==
  ASSUME TypeOK, TypeOK', Consistent, Described, Sourced, used["scope"] = 0, AcceptResponse
  PROVE  Sourced'
<1>1. /\ UNCHANGED <<epochs, opened>> /\ pc' # "apply_configure"
      /\ pc = "accept" /\ opened
  BY LoopFlow DEF LoopWork, LoopSteps, AcceptResponse, Consistent, Placed, Looping, InRun
<1>2. NeutralStep
  BY WorkIsNeutral DEF LoopWork
<1>3. durable'.selection = durable.selection /\ durable'.epoch = durable.epoch
  BY <1>2, NeutralStepEpoch
<1>4. Sources'
  <2>1. CASE UNCHANGED served
    BY <1>1, <1>3, <2>1, SourcesSame DEF Sourced
  <2>2. CASE /\ \E n : Written(ResponseRecord(n))
             /\ served' = served \cup {[epoch |-> live.epoch, info |-> config.info]}
    <3>1. ~failed
      BY <2>2 DEF Written, Persisted
    <3>2. durable.selection = {config.info}
      BY <1>1, <3>1 DEF Described, DescribedSteps, LoopSteps, Matches
    <3>3. durable.epoch = live.epoch
      BY <1>1, <3>1 DEF Consistent, Kept, LiveFollowsJournal, Agree
    <3>4. live.epoch <= epochs
      BY DEF Consistent, Kept, Known, Within
    <3>5. \A t \in served : t.epoch = live.epoch => t.info = config.info
      BY <3>2, <3>3 DEF Sourced, Sources
    <3>6. EpochHasOneSource'
      BY <2>2, <3>5 DEF Sourced, Sources, EpochHasOneSource
    <3>7. QED  BY <1>1, <1>3, <2>2, <3>2, <3>4, <3>6 DEF Sourced, Sources
  <2>3. QED  BY <2>1, <2>2 DEF AcceptResponse
<1>5. ~failed' /\ opened' => durable'.selection = live'.selection
  BY <1>1, <1>2, NeutralKeeps DEF Sourced
<1>6. QED  BY <1>1, <1>4, <1>5 DEF Sourced

\* A new selection begins an epoch nothing was served in.
LEMMA SelectSourced ==
  ASSUME TypeOK, Consistent', Sourced, used["scope"] = 0, PrepareModel \/ ApplyModel
  PROVE  Sourced'
<1> DEFINE info == IF pc = "select" THEN config.info ELSE applying.info
<1>1. /\ UNCHANGED <<served, applying>> /\ durable \in State /\ live \in State
      /\ durable'.ok /\ live'.ok
  BY DEF PrepareModel, ApplyModel, TypeOK, Consistent, Kept, Known, Sound, selection
<1>2. CASE UNCHANGED <<store, live, epochs>>
  <2>1. Sources'
    BY <1>1, <1>2, SourcesSame DEF store, Sourced
  <2>2. opened' => opened
    BY DEF PrepareModel, ApplyModel, SelectModel, Leave, ApplyFails, FinishError, FinishWith,
           Unlock, Goto, control
  <2>3. pc' = "apply_configure" /\ live.session => live.selection = {applying.info}
    BY <1>2 DEF PrepareModel, ApplyModel, SelectModel, KeepsEpoch, Leave, Goto, ApplyFails,
                FinishError, FinishWith, Unlock, SelectionRecord, TypeOK
  <2>4. QED  BY <1>1, <1>2, <2>1, <2>2, <2>3 DEF Sourced, store
<1>3. CASE /\ epochs' = epochs + 1
           /\ Written(SelectionRecord(info)) \/ AppendFails(SelectionRecord(info))
  <2>1. durable' \in {durable, Apply(durable, SelectionRecord(info))}
    BY <1>3 DEF Written, Persisted, Stored, AppendFails, store
  <2>2. \/ durable' = durable
        \/ durable'.epoch = epochs + 1 /\ durable'.selection = {info}
    BY <1>1, <2>1, SelectionApplied
  <2>3. Sources'
    BY <1>1, <1>3, <2>2, SourcesSame DEF Sourced
  <2>4. CASE Written(SelectionRecord(info))
    <3>1. /\ durable' = Apply(durable, SelectionRecord(info))
          /\ live' = Apply(live, SelectionRecord(info))
      BY <2>4 DEF Written, Persisted, Stored
    <3>2. durable'.selection = {info} /\ live'.selection = {info}
      BY <1>1, <3>1, SelectionApplied
    <3>3. pc' = "apply_configure" => info = applying.info
      BY DEF PrepareModel, ApplyModel, SelectModel, Goto, Leave
    <3>4. QED  BY <1>1, <2>3, <3>2, <3>3 DEF Sourced
  <2>5. CASE ~Written(SelectionRecord(info)) /\ AppendFails(SelectionRecord(info))
    <3>1. /\ pc' # "apply_configure"
          /\ opened' => opened /\ live' = live
      <4>1. epochs' # epochs
        BY <1>3 DEF TypeOK
      <4>2. Leave \/ ApplyFails
        BY <2>5, <4>1 DEF PrepareModel, ApplyModel, SelectModel
      <4>3. QED  BY <4>2 DEF Leave, ApplyFails, FinishError, FinishWith, Unlock, Goto, control
    <3>2. ~failed' => ~failed /\ durable' = durable
      BY <2>5, UnbrokenAppend
    <3>3. QED  BY <2>3, <3>1, <3>2 DEF Sourced
  <2>6. QED  BY <1>3, <2>4, <2>5
<1>4. QED
  BY <1>2, <1>3 DEF PrepareModel, ApplyModel, SelectModel


\* A configuration describes the selection there is.
LEMMA ConfigureSourced ==
  ASSUME TypeOK, Consistent, Consistent', Described, Sourced, used["scope"] = 0,
         PrepareConfiguration \/ ApplyConfiguration
  PROVE  Sourced'
<1> DEFINE c == IF pc = "configure" THEN config ELSE applying
           r == ConfigurationRecord(c, scope)
<1>1. /\ UNCHANGED <<served, epochs>> /\ opened /\ pc' # "apply_configure"
      /\ durable \in State /\ live \in State /\ durable'.ok /\ live'.ok
      /\ c \in Configuration /\ scope \in Scopes
  <2>1. UNCHANGED <<served, epochs>> /\ opened
    BY DEF PrepareConfiguration, ApplyConfiguration, ids, Consistent, Placed, Preparing
  <2>2. pc' # "apply_configure"
    BY DEF PrepareConfiguration, ApplyConfiguration, Applied, ApplyFails, FinishError,
           FinishWith, Unlock, Goto, Leave, TypeOK
  <2>3. QED  BY <2>1, <2>2 DEF TypeOK, Consistent, Kept, Known, Sound
<1>2. CASE UNCHANGED store /\ (live' = live \/ ~opened')
  <2>1. Sources'
    BY <1>1, <1>2, SourcesSame DEF store, Sourced
  <2>2. opened' /\ ~failed' => ~failed /\ durable' = durable /\ live' = live
    BY <1>2 DEF store
  <2>3. QED  BY <1>1, <2>1, <2>2 DEF Sourced
<1>3. CASE ~failed /\ (Written(r) \/ Persisted(r) \/ AppendFails(r)) /\ NeedsRecord(live, c, scope)
  <2>1. live.session /\ live.selection = {c.info} /\ durable.selection = {c.info}
    <3>1. live.session
      BY <1>3 DEF NeedsRecord
    <3>2. live.selection = {c.info}
      BY <1>1, <1>3, <3>1
         DEF PrepareConfiguration, ApplyConfiguration, Described, Sourced
    <3>3. QED  BY <1>1, <1>3, <3>1, <3>2 DEF Sourced
  <2>2. durable' \in {durable, Apply(durable, r)}
    BY <1>3 DEF Written, Persisted, Stored, AppendFails, store
  <2>3. Relocated({c.info}, c) = {c.info}
    BY <1>1, RelocatedSame
  <2>4. Apply(durable, r).ok =>
          Apply(durable, r).selection = {c.info} /\ Apply(durable, r).epoch = durable.epoch
    <3> HIDE DEF c
    <3>1. Apply(durable, r).ok =>
            /\ Apply(durable, r).selection = Relocated(durable.selection, c)
            /\ Apply(durable, r).epoch = durable.epoch
      BY <1>1, ConfigurationApplied
    <3> HIDE DEF r
    <3>2. QED  BY <2>1, <2>3, <3>1
  <2>5. Apply(live, r).ok => Apply(live, r).selection = {c.info}
    <3> HIDE DEF c
    <3>1. Apply(live, r).ok => Apply(live, r).selection = Relocated(live.selection, c)
      BY <1>1, ConfigurationApplied
    <3> HIDE DEF r
    <3>2. QED  BY <2>1, <2>3, <3>1
  <2> HIDE DEF c, r
  <2>6. durable'.selection = {c.info} /\ durable'.epoch = durable.epoch
    BY <1>1, <2>1, <2>2, <2>4
  <2>7. Sources'
    BY <1>1, <2>1, <2>6, SourcesSame DEF Sourced
  <2>8. opened' => live'.selection = {c.info}
    <3>1. opened' => live' = live \/ Written(r)
      BY DEF c, r, PrepareConfiguration, ApplyConfiguration, Applied, ApplyFails, FinishError,
             FinishWith, Unlock, Goto, Leave
    <3>2. Written(r) => live' = Apply(live, r)
      BY DEF Written
    <3>3. QED  BY <1>1, <2>1, <2>5, <3>1, <3>2
  <2>9. QED  BY <1>1, <2>6, <2>7, <2>8 DEF Sourced
<1>4. \/ UNCHANGED store /\ (live' = live \/ ~opened')
      \/ (Written(r) \/ Persisted(r) \/ AppendFails(r)) /\ NeedsRecord(live, c, scope)
  BY DEF PrepareConfiguration, ApplyConfiguration, Applied, Unlock
<1>5. failed /\ (Written(r) \/ Persisted(r) \/ AppendFails(r))
        => UNCHANGED store /\ (live' = live \/ ~opened')
  <2>1. failed /\ (Written(r) \/ Persisted(r) \/ AppendFails(r))
          => UNCHANGED store /\ ~Written(r) /\ ~Persisted(r)
    BY DEF Written, Persisted, AppendFails
  <2>2. \/ live' = live \/ ~opened' \/ Written(r)
    BY DEF PrepareConfiguration, ApplyConfiguration, Applied, ApplyFails, FinishError,
           FinishWith, Unlock, Goto, Leave
  <2>3. QED  BY <2>1, <2>2
<1>6. QED  BY <1>2, <1>3, <1>4, <1>5

\* Steps that write nothing, or something else.
LEMMA OtherSourced ==
  ASSUME TypeOK, Sourced, used["scope"] = 0,
         \/ ReconcileCall \/ ReconcileRun \/ Attach \/ Reopen \/ Crash \/ Close
         \/ StartRun \/ StartShell \/ DeferSelection \/ ApplySelection
         \/ Boundary \/ Release \/ Open \/ Aside \/ UNCHANGED vars
  PROVE  Sourced'
<1>1. CASE ReconcileCall \/ ReconcileRun
  <2>1. PICK r : Neutral(r) /\ ReconcileAppends(r)
    <3>1. /\ \A n, d : Neutral([kind |-> "tool_result", run |-> n, call |-> d, tells |-> {}])
          /\ \A n : Neutral([kind |-> "run_finished", run |-> n, status |-> "interrupted",
                             observed |-> FALSE, detached |-> {}])
      BY DEF Neutral
    <3>2. QED  BY <1>1, <3>1 DEF ReconcileCall, ReconcileRun
  <2>2. /\ UNCHANGED <<served, epochs>>
        /\ \/ Written(r) /\ opened' = opened /\ pc' = "reconcile"
           \/ AppendFails(r) /\ ~opened' /\ pc' = "down"
    BY <2>1 DEF ReconcileAppends, Goto, Unlock, control, ids
  <2>3. Sources'
    BY <2>1, <2>2, NeutralEpoch, SourcesSame DEF Sourced
  <2>4. Written(r) => NeutralStep
    BY <2>1, Zenon DEF NeutralStep
  <2>5. Written(r) /\ ~failed' /\ opened' => live'.selection = durable'.selection
    BY <2>2, <2>4, NeutralKeeps DEF Sourced
  <2>6. QED  BY <2>2, <2>3, <2>5 DEF Sourced
<1>2. UNCHANGED <<served, epochs, durable>> => Sources'
  BY SourcesSame DEF Sourced
<1>3. CASE Attach \/ Crash \/ Close
  <2>1. UNCHANGED <<served, epochs, durable>> /\ ~opened' /\ pc' # "apply_configure"
    BY <1>3, EndFlow DEF Attach, Unlock, ids, store
  <2>2. QED  BY <1>2, <2>1 DEF Sourced
<1>4. CASE Reopen \/ Open \/ ApplySelection
  <2>1. UNCHANGED <<served, epochs, durable>> /\ pc' # "apply_configure"
        /\ (live' = durable \/ UNCHANGED <<live, opened, failed>>)
    BY <1>4 DEF Reopen, Open, ApplySelection, Leave, Goto, ids, store, control
  <2>2. QED  BY <1>2, <2>1 DEF Sourced
<1>5. CASE StartRun \/ StartShell \/ Boundary \/ Release
  <2>1. UNCHANGED <<served, epochs, durable, failed>> /\ pc' # "apply_configure"
        /\ (~opened' \/ UNCHANGED <<live, opened>>)
    BY <1>5 DEF StartRun, StartShell, Lock, Boundary, Release, StartApplying, Unlock, Goto, ids,
                store, control
  <2>2. QED  BY <1>2, <2>1 DEF Sourced
<1>6. CASE DeferSelection \/ Aside \/ UNCHANGED vars
  <2>1. UNCHANGED <<served, epochs, durable, failed, pc, live, opened, applying>>
    BY <1>6 DEF DeferSelection, Aside, Cancel, QueueInput, TakeInput, JobFinishes, ids, store,
                control, selection, vars
  <2>2. QED  BY <1>2, <2>1 DEF Sourced
<1>7. QED  BY <1>1, <1>3, <1>4, <1>5, <1>6

\* Every step.
LEMMA StepSourced ==
  ASSUME TypeOK, TypeOK', Consistent, Consistent', Described, Sourced, [Next]_vars
  PROVE  Sourced'
<1> SUFFICES ASSUME used'["scope"] = 0
             PROVE  Sourced'
  BY DEF Sourced
<1>1. used["scope"] = 0
  BY SpentBefore DEF Occasions
<1>2. ~SetScope
  <2>1. SetScope => Spend("scope") \/ SpendOnFault("scope")
    BY DEF SetScope
  <2>2. ~Spend("scope") /\ ~SpendOnFault("scope")
    BY <1>1 DEF Spend, SpendOnFault, TypeOK, Occasions
  <2>3. QED  BY <2>1, <2>2
<1>3. CASE LoopWork
  BY <1>1, <1>3, WorkSourced, AcceptSourced
<1>4. CASE ShellWork \/ Preparation
  BY <1>1, <1>4, WorkSourced, SelectSourced, ConfigureSourced DEF Preparation
<1>5. CASE ApplyModel \/ ApplyConfiguration
  BY <1>1, <1>5, SelectSourced, ConfigureSourced
<1>6. QED  BY <1>1, <1>2, <1>3, <1>4, <1>5, OtherSourced, NextSteps

\* Replay state a provider issued for an epoch is only ever sent back to the model and the
\* endpoint that issued it, in sessions whose scope nobody tries to change.
THEOREM SpecEpochFollowsSelection == Spec => []EpochFollowsSelection
<1>1. Init => Sourced
  BY DEF Init, Sourced, Sources, EpochHasOneSource
<1>2. Init => Described
  BY DEF Init, Described
<1>3. TypeOK /\ Consistent /\ Consistent' /\ Described /\ [Next]_vars => Described'
  BY StepDescribed
<1>4. /\ TypeOK /\ TypeOK' /\ Consistent /\ Consistent' /\ Described /\ Sourced
      /\ [Next]_vars
      => Sourced'
  BY StepSourced
<1>5. Sourced => EpochFollowsSelection
  BY DEF Sourced, Sources, EpochFollowsSelection
<1>6. QED  BY <1>1, <1>2, <1>3, <1>4, <1>5, SpecConsistent, PTL DEF Spec

-----------------------------------------------------------------------------
(* What a step appends.                                                    *)

\* A record, told by its kind, and what the step that appends it does besides.
Admitted(r) ==
  \/ r.kind \in {"session_started", "model_selected", "session_configured", "tool_result",
                 "run_finished"}
  \/ r.kind = "run_started" /\ r.run = runs + 1 /\ runs' = runs + 1
  \/ /\ r.kind = "run_input_added"
     /\ r.input = 0 \/ (DeliverInput /\ queue # <<>> /\ r.input = Head(queue))
  \/ /\ r.kind = "model_response"
     /\ pc \in {"accept", "shell_call"}
     /\ r.calls \subseteq calls + 1 .. calls'
  \/ /\ r.kind = "boundary_event"
     /\ pc = "deliver"
     /\ \E job \in Jobs : r.tells = {job}

\* A store that failed stays so.
Recorded ==
  \/ UNCHANGED <<journal, durable>> /\ (failed => failed' \/ pc = "down")
  \/ \E r : Admitted(r) /\ ~failed /\ Stored(r)

\* An append stores its record, or nothing.
LEMMA AdmittedAppend ==
  ASSUME NEW r, Admitted(r), Written(r) \/ Persisted(r) \/ AppendFails(r)
  PROVE  Recorded
<1>1. \/ UNCHANGED <<journal, durable>> /\ (failed => failed')
      \/ ~failed /\ Stored(r)
  BY DEF Written, Persisted, AppendFails, store
<1>2. QED  BY <1>1, Zenon DEF Recorded

\* A step that appends nothing.
LEMMA NothingRecorded ==
  ASSUME UNCHANGED store
  PROVE  Recorded
BY DEF Recorded, store

\* The loop of a run.
LEMMA LoopRecorded ==
  ASSUME TypeOK, LoopWork
  PROVE  Recorded
<1>1. UNCHANGED store => Recorded
  BY NothingRecorded
<1>2. CASE DeliverInput
  <2> DEFINE r == [kind |-> "run_input_added", run |-> run, input |-> Head(queue)]
  <2>1. \/ UNCHANGED store
        \/ queue # <<>> /\ (Written(r) \/ AppendFails(r))
    BY <1>2 DEF DeliverInput
  <2>2. queue # <<>> => Admitted(r)
    BY <1>2 DEF Admitted
  <2> HIDE DEF r
  <2>3. QED  BY <1>1, <2>1, <2>2, AdmittedAppend
<1>3. CASE DeliverEvent
  <2>1. ASSUME NEW job \in offers \ live.delivered, NEW r,
               r = [kind |-> "boundary_event", run |-> run, tells |-> {job}],
               Written(r) \/ AppendFails(r)
        PROVE  Recorded
    <3>1. job \in Jobs
      BY DEF TypeOK
    <3>2. Admitted(r)
      BY <1>3, <2>1, <3>1 DEF DeliverEvent, Admitted
    <3>3. QED  BY <2>1, <3>2, AdmittedAppend
  <2>2. QED  BY <1>1, <1>3, <2>1 DEF DeliverEvent
<1>4. CASE AcceptResponse
  <2>1. ASSUME NEW n \in CallCount, calls' = calls + n,
               Written(ResponseRecord(n)) \/ AppendFails(ResponseRecord(n))
        PROVE  Recorded
    <3>1. pc = "accept"
      BY <1>4 DEF AcceptResponse
    <3>2. Admitted(ResponseRecord(n))
      BY <2>1, <3>1 DEF Admitted, ResponseRecord
    <3>3. QED  BY <2>1, <3>2, AdmittedAppend
  <2>2. QED  BY <1>1, <1>4, <2>1 DEF AcceptResponse
<1>5. CASE CommitToolResult \/ SettleCancelled \/ RejectOverLimit
  <2>1. \A p, t : Admitted(ResultRecord(p, t))
    BY DEF Admitted, ResultRecord
  <2>2. \/ UNCHANGED store
        \/ \E p, t : Written(ResultRecord(p, t)) \/ AppendFails(ResultRecord(p, t))
    BY <1>5 DEF CommitToolResult, SettleCancelled, RejectOverLimit
  <2>3. QED  BY <1>1, <2>1, <2>2, AdmittedAppend
<1>6. CASE FinishRun
  <2>1. Admitted(FinishRecord(status, TRUE, RunningDetached))
    BY DEF Admitted, FinishRecord
  <2>2. QED  BY <1>6, <2>1, AdmittedAppend DEF FinishRun
<1>7. CASE \/ OfferEvents \/ EventCommitted \/ ToolResultCommitted \/ Request \/ Await
           \/ ExecuteTool
  BY <1>1, <1>7
     DEF OfferEvents, EventCommitted, ToolResultCommitted, Request, Await, ExecuteTool
<1>8. QED  BY <1>2, <1>3, <1>4, <1>5, <1>6, <1>7 DEF LoopWork

\* A shell command.
LEMMA ShellRecorded ==
  ASSUME TypeOK, ShellWork
  PROVE  Recorded
<1>1. CASE ShellCall
  <2>1. ASSUME NEW r,
               r = [kind |-> "model_response", run |-> run,
                    model |-> (CHOOSE s \in live.selection : TRUE).model,
                    epoch |-> live.epoch, calls |-> {calls + 1}],
               Written(r) \/ AppendFails(r)
        PROVE  Recorded
    <3>1. {calls + 1} \subseteq calls + 1 .. calls'
      BY <1>1 DEF ShellCall, TypeOK
    <3>2. Admitted(r)
      BY <1>1, <2>1, <3>1 DEF ShellCall, Admitted
    <3>3. QED  BY <2>1, <3>2, AdmittedAppend
  <2>2. QED  BY <1>1, <2>1 DEF ShellCall
<1>2. CASE ShellRun
  BY <1>2, NothingRecorded DEF ShellRun
<1>3. CASE ShellResult
  <2>1. \A p : Admitted(ResultRecord(p, {}))
    BY DEF Admitted, ResultRecord
  <2>2. QED  BY <1>3, <2>1, AdmittedAppend DEF ShellResult
<1>4. CASE ShellFinish
  <2>1. \A s : Admitted(FinishRecord(s, FALSE, {}))
    BY DEF Admitted, FinishRecord
  <2>2. QED  BY <1>4, <2>1, AdmittedAppend DEF ShellFinish
<1>5. QED  BY <1>1, <1>2, <1>3, <1>4 DEF ShellWork

\* The preparation of an operation.
LEMMA PreparationRecorded ==
  ASSUME TypeOK, Preparation
  PROVE  Recorded
<1>1. UNCHANGED store => Recorded
  BY NothingRecorded
<1>2. /\ \A i : Admitted(SelectionRecord(i))
      /\ \A c, s : Admitted(ConfigurationRecord(c, s))
      /\ Admitted([kind |-> "session_started"])
      /\ \A n : Admitted([kind |-> "run_input_added", run |-> n, input |-> 0])
  BY DEF Admitted, SelectionRecord, ConfigurationRecord
<1>3. CASE PrepareSession \/ SyncExternalWork \/ RecordInput
  BY <1>1, <1>2, <1>3, AdmittedAppend DEF PrepareSession, SyncExternalWork, RecordInput
<1>4. CASE PrepareModel
  BY <1>1, <1>2, <1>4, AdmittedAppend DEF PrepareModel, SelectModel
<1>5. CASE PrepareConfiguration
  BY <1>1, <1>2, <1>5, AdmittedAppend DEF PrepareConfiguration
<1>6. CASE RecordRunStarted
  <2>1. Admitted([kind |-> "run_started", run |-> runs + 1])
    BY <1>6 DEF RecordRunStarted, Admitted
  <2>2. QED  BY <1>6, <2>1, AdmittedAppend DEF RecordRunStarted
<1>7. QED  BY <1>3, <1>4, <1>5, <1>6 DEF Preparation

\* Every step appends one of these, or nothing.
LEMMA StepRecorded ==
  ASSUME TypeOK, [Next]_vars
  PROVE  Recorded \/ Crash \/ Close
<1>1. UNCHANGED store => Recorded
  BY NothingRecorded
<1>2. /\ \A i : Admitted(SelectionRecord(i))
      /\ \A c, s : Admitted(ConfigurationRecord(c, s))
  BY DEF Admitted, SelectionRecord, ConfigurationRecord
<1>3. CASE ApplyModel
  BY <1>1, <1>2, <1>3, AdmittedAppend DEF ApplyModel, SelectModel
<1>4. CASE ApplyConfiguration
  BY <1>1, <1>2, <1>4, AdmittedAppend DEF ApplyConfiguration
<1>5. CASE ReconcileCall \/ ReconcileRun
  <2>1. PICK r : Admitted(r) /\ ReconcileAppends(r)
    <3>1. /\ \A n, d : Admitted([kind |-> "tool_result", run |-> n, call |-> d, tells |-> {}])
          /\ \A n : Admitted([kind |-> "run_finished", run |-> n, status |-> "interrupted",
                              observed |-> FALSE, detached |-> {}])
      BY DEF Admitted
    <3>2. QED  BY <1>5, <3>1 DEF ReconcileCall, ReconcileRun
  <2>2. QED  BY <2>1, AdmittedAppend DEF ReconcileAppends
<1>6. CASE SetScope
  <2>1. PICK s : \/ UNCHANGED <<journal, durable>> /\ (failed => failed')
                 \/ ~failed /\ Stored(ConfigurationRecord(config, s))
    BY <1>6 DEF SetScope, store
  <2>2. QED  BY <1>2, <2>1, Zenon DEF Recorded
<1>7. CASE \/ Boundary \/ Release \/ Open \/ Attach \/ Reopen \/ StartRun \/ StartShell
           \/ DeferSelection \/ ApplySelection \/ UNCHANGED vars
  <2>1. UNCHANGED store \/ (UNCHANGED <<journal, durable>> /\ pc = "down")
    BY <1>7
       DEF Boundary, Release, Open, Attach, Reopen, StartRun, StartShell, DeferSelection,
           ApplySelection, vars
  <2>2. QED  BY <1>1, <2>1 DEF Recorded
<1>8. CASE Aside
  BY <1>1, <1>8, AsideFlow
<1>9. QED
  BY <1>3, <1>4, <1>5, <1>6, <1>7, <1>8, LoopRecorded, ShellRecorded, PreparationRecorded,
     NextSteps

-----------------------------------------------------------------------------
(* Queued input.                                                           *)

Items(q) == {q[i] : i \in DOMAIN q}

Ordered(q) == \A i, k \in DOMAIN q : i < k => q[i] < q[k]

\* The oldest input leaves.
LEMMA HeadLeaves ==
  ASSUME NEW q \in Seq(Nat), q # <<>>, Ordered(q)
  PROVE  /\ Items(Tail(q)) = Items(q) \ {Head(q)} /\ Ordered(Tail(q))
         /\ Head(q) \in Items(q) /\ \A n \in Items(Tail(q)) : Head(q) < n
<1>1. /\ Len(q) \in Nat /\ Len(q) >= 1 /\ DOMAIN q = 1 .. Len(q) /\ Head(q) = q[1]
      /\ DOMAIN Tail(q) = 1 .. Len(q) - 1
      /\ \A i \in 1 .. Len(q) - 1 : Tail(q)[i] = q[i + 1]
  OBVIOUS
<1>2. \A i \in 1 .. Len(q) : q[i] \in Nat
  BY <1>1
<1> DEFINE t == Tail(q)
           n == Len(q)
<1>3. Head(q) \in Items(q)
  BY <1>1 DEF Items
<1>4. \A i \in 1 .. n - 1 : t[i] = q[i + 1] /\ i + 1 \in 1 .. n /\ q[1] < q[i + 1]
  BY <1>1 DEF Ordered
<1>5. \A i \in 1 .. n : i # 1 => i - 1 \in 1 .. n - 1 /\ t[i - 1] = q[i]
  BY <1>1
<1>6. DOMAIN t = 1 .. n - 1 /\ DOMAIN q = 1 .. n /\ Head(q) = q[1]
      /\ \A i \in 1 .. n : q[i] \in Nat
  BY <1>1, <1>2
<1>7. Ordered(t)
  <2>1. ASSUME NEW i \in DOMAIN t, NEW k \in DOMAIN t, i < k
        PROVE  t[i] < t[k]
    <3>1. i + 1 < k + 1 /\ i + 1 \in DOMAIN q /\ k + 1 \in DOMAIN q
      BY <1>1, <1>6, <2>1
    <3>2. QED  BY <1>4, <1>6, <2>1, <3>1 DEF Ordered
  <2>2. QED  BY <2>1 DEF Ordered
<1> HIDE DEF t, n
<1>8. \A x \in Items(t) : x \in Items(q) /\ Head(q) < x /\ x # Head(q)
  <2>1. ASSUME NEW i \in 1 .. n - 1
        PROVE  t[i] \in Items(q) /\ Head(q) < t[i] /\ t[i] # Head(q)
    <3>1. t[i] = q[i + 1] /\ i + 1 \in DOMAIN q /\ q[1] < q[i + 1] /\ q[1] \in Nat
          /\ q[i + 1] \in Nat
      BY <1>3, <1>4, <1>6, <1>1 DEF n
    <3>2. QED  BY <1>6, <3>1 DEF Items
  <2>2. QED  BY <1>6, <2>1 DEF Items
<1>9. \A x \in Items(q) : x # Head(q) => x \in Items(t)
  <2>1. ASSUME NEW i \in 1 .. n, i # 1 PROVE q[i] \in Items(t)
    <3>1. i - 1 \in DOMAIN t /\ t[i - 1] = q[i]
      BY <1>5, <1>6, <2>1
    <3>2. QED  BY <3>1 DEF Items
  <2>2. QED  BY <1>6, <2>1 DEF Items
<1>10. QED  BY <1>3, <1>7, <1>8, <1>9 DEF t

\* The newest input leaves.
LEMMA LastLeaves ==
  ASSUME NEW q \in Seq(Nat), q # <<>>, Ordered(q)
  PROVE  LET front == SubSeq(q, 1, Len(q) - 1) IN
           /\ Items(front) = Items(q) \ {q[Len(q)]} /\ Ordered(front)
           /\ q[Len(q)] \in Items(q)
<1> DEFINE t == SubSeq(q, 1, Len(q) - 1)
           n == Len(q)
<1>1. /\ n \in Nat /\ n >= 1 /\ DOMAIN q = 1 .. n
      /\ DOMAIN t = 1 .. n - 1 /\ \A i \in 1 .. n - 1 : t[i] = q[i]
      /\ \A i \in 1 .. n : q[i] \in Nat
  OBVIOUS
<1> HIDE DEF t, n
<1>2. Ordered(t)
  BY <1>1 DEF Ordered
<1>3. \A x \in Items(t) : x \in Items(q) /\ x # q[n]
  <2>1. ASSUME NEW i \in 1 .. n - 1
        PROVE  t[i] \in Items(q) /\ t[i] # q[n]
    <3>1. i \in DOMAIN q /\ n \in DOMAIN q /\ i < n /\ t[i] = q[i]
      BY <1>1
    <3>2. q[i] < q[n] /\ q[i] \in Nat /\ q[n] \in Nat
      BY <1>1, <3>1 DEF Ordered
    <3>3. QED  BY <3>1, <3>2 DEF Items
  <2>2. QED  BY <1>1, <2>1 DEF Items
<1>4. \A x \in Items(q) : x # q[n] => x \in Items(t)
  <2>1. ASSUME NEW i \in DOMAIN q, q[i] # q[n]
        PROVE  q[i] \in Items(t)
    <3>1. i \in 1 .. n - 1 /\ t[i] = q[i]
      BY <1>1, <2>1
    <3>2. QED  BY <1>1, <3>1 DEF Items
  <2>2. QED  BY <2>1 DEF Items
<1>5. q[n] \in Items(q)
  BY <1>1 DEF Items
<1>6. QED  BY <1>2, <1>3, <1>4, <1>5 DEF t, n

\* A newer input joins.
LEMMA NewestJoins ==
  ASSUME NEW q \in Seq(Nat), NEW m \in Nat, \A x \in Items(q) : x < m, Ordered(q)
  PROVE  Items(Append(q, m)) = Items(q) \cup {m} /\ Ordered(Append(q, m))
<1> DEFINE t == Append(q, m)
           n == Len(q)
<1>1. /\ n \in Nat /\ DOMAIN q = 1 .. n
      /\ DOMAIN t = 1 .. n + 1 /\ (\A i \in 1 .. n : t[i] = q[i]) /\ t[n + 1] = m
      /\ \A i \in 1 .. n : q[i] \in Nat
  OBVIOUS
<1> HIDE DEF t, n
<1>2. \A i \in 1 .. n + 1 : i \in 1 .. n \/ i = n + 1
  BY <1>1
<1>3. Ordered(t)
  <2>1. ASSUME NEW i \in DOMAIN t, NEW k \in DOMAIN t, i < k
        PROVE  t[i] < t[k]
    <3>1. i \in 1 .. n /\ q[i] \in Items(q) /\ t[i] = q[i]
      BY <1>1, <2>1 DEF Items
    <3>2. CASE k = n + 1
      BY <1>1, <3>1, <3>2
    <3>3. CASE k \in 1 .. n
      BY <1>1, <2>1, <3>1, <3>3 DEF Ordered
    <3>4. QED  BY <1>1, <1>2, <3>2, <3>3
  <2>2. QED  BY <2>1 DEF Ordered
<1>4. \A x \in Items(t) : x \in Items(q) \/ x = m
  BY <1>1, <1>2 DEF Items
<1>5. \A x \in Items(q) : x \in Items(t)
  <2>1. \A i \in 1 .. n : i \in DOMAIN t
    BY <1>1
  <2>2. QED  BY <1>1, <2>1 DEF Items
<1>6. m \in Items(t)
  <2>1. n + 1 \in DOMAIN t
    BY <1>1
  <2>2. QED  BY <1>1, <2>1 DEF Items
<1>7. QED  BY <1>3, <1>4, <1>5, <1>6 DEF t


\* A record that delivers queued input.
Delivers(r) == r.kind = "run_input_added" /\ r.input # 0

\* An append adds to the deliveries what its record delivers.
LEMMA DeliveriesAppended ==
  ASSUME TypeOK, TypeOK', NEW r, journal' = Append(journal, r)
  PROVE  /\ Deliveries' = Deliveries \cup {i \in {Len(journal) + 1} : Delivers(r)}
         /\ \A i \in Deliveries : i < Len(journal) + 1 /\ journal'[i] = journal[i]
         /\ journal'[Len(journal) + 1] = r
         /\ DeliveredInputs' = DeliveredInputs \cup {n \in {r.input} : Delivers(r)}
<1> DEFINE n == Len(journal)
<1>1. /\ DOMAIN journal = 1 .. n /\ DOMAIN journal' = 1 .. n + 1 /\ n \in Nat
      /\ \A i \in 1 .. n : journal'[i] = journal[i]
      /\ journal'[n + 1] = r
  BY AppendedRecords
<1> HIDE DEF n
<1>2. \A i : i \in 1 .. n + 1 <=> i \in 1 .. n \/ i = n + 1
  BY <1>1
<1>3. \A i : i \in Deliveries' <=> i \in Deliveries \/ (i = n + 1 /\ Delivers(r))
  BY <1>1, <1>2 DEF Deliveries, Delivers
<1>4. \A i \in Deliveries : i < n + 1 /\ journal'[i] = journal[i]
  BY <1>1 DEF Deliveries
<1>5. DeliveredInputs' = {journal'[i].input : i \in Deliveries'}
  BY DEF DeliveredInputs
<1>6. \A m \in DeliveredInputs' : m \in DeliveredInputs \/ (m = r.input /\ Delivers(r))
  BY <1>1, <1>3, <1>4, <1>5 DEF DeliveredInputs
<1>7. \A m \in DeliveredInputs : m \in DeliveredInputs'
  BY <1>3, <1>4, <1>5 DEF DeliveredInputs
<1>8. Delivers(r) => r.input \in DeliveredInputs'
  BY <1>1, <1>3, <1>5
<1>9. QED  BY <1>1, <1>3, <1>4, <1>6, <1>7, <1>8 DEF n

\* The journal has the inputs in the order they were queued.
InOrder == \A i, k \in Deliveries : i < k => journal[i].input < journal[k].input

\* What was delivered is older than what is in the queue, unless a write was reported as
\* failed and left its record, after which nothing is written.
Lined ==
  /\ Ordered(queue)
  /\ ~failed => \A d \in DeliveredInputs, q \in QueuedInputs : d < q
  /\ pc \in {"down", "reconcile"} => queue = <<>>
  /\ QueuedInputKept

\* A step that delivers nothing leaves what was delivered.
LEMMA NothingDelivered ==
  ASSUME TypeOK, TypeOK', Lined,
         \/ journal' = journal
         \/ \E r : ~Delivers(r) /\ journal' = Append(journal, r)
  PROVE  DeliveredInputs' = DeliveredInputs /\ InOrder'
<1>1. InOrder
  BY DEF Lined, QueuedInputKept, InOrder
<1>2. CASE journal' = journal
  BY <1>1, <1>2 DEF DeliveredInputs, Deliveries, InOrder
<1>3. CASE \E r : ~Delivers(r) /\ journal' = Append(journal, r)
  <2>1. PICK r : ~Delivers(r) /\ journal' = Append(journal, r)
    BY <1>3
  <2>2. /\ Deliveries' = Deliveries /\ DeliveredInputs' = DeliveredInputs
        /\ \A i \in Deliveries : journal'[i] = journal[i]
    BY <2>1, DeliveriesAppended
  <2>3. QED  BY <1>1, <2>2 DEF InOrder
<1>4. QED  BY <1>2, <1>3

\* A step that leaves the queue alone.
LEMMA QuietLined ==
  ASSUME TypeOK, TypeOK', Lined, UNCHANGED inputs, DeliveredInputs' = DeliveredInputs,
         InOrder', failed => failed' \/ pc = "down", Faultless' => Faultless,
         pc' \in {"down", "reconcile"} => pc \in {"down", "reconcile"}
  PROVE  Lined'
<1>1. UNCHANGED <<queue, submitted, taken, QueuedInputs>>
  BY DEF inputs, QueuedInputs
<1>2. failed => failed' \/ QueuedInputs = {}
  BY DEF Lined, QueuedInputs
<1>3. QED  BY <1>1, <1>2 DEF Lined, QueuedInputKept, InOrder, Ordered

\* Who changes the queue.
LEMMA InputsFlow ==
  ASSUME [Next]_vars
  PROVE  \/ UNCHANGED inputs
         \/ DeliverInput \/ QueueInput \/ TakeInput \/ Crash \/ Close
BY DEF Next, RunStep, OutsideStep, Rest, vars, OfferEvents, DeliverEvent, EventCommitted,
       ToolResultCommitted, Request, AcceptResponse, Await, ExecuteTool, CommitToolResult,
       SettleCancelled, RejectOverLimit, FinishRun, ShellCall, ShellRun, ShellResult,
       ShellFinish, PrepareSession, PrepareModel, PrepareConfiguration, SyncExternalWork,
       RecordRunStarted, RecordInput, Boundary, Release, Open, ApplyModel,
       ApplyConfiguration, ReconcileCall, ReconcileRun, ReconcileAppends, Attach, Reopen,
       StartRun, StartShell, DeferSelection, ApplySelection, SetScope, Cancel, JobFinishes

\* Where a process is neither down nor reconciling it stays so until it ends.
LEMMA DownFlow ==
  ASSUME TypeOK, [Next]_vars, pc' \in {"down", "reconcile"}
  PROVE  pc \in {"down", "reconcile"} \/ Crash \/ Close
<1>1. ~LoopWork /\ ~ShellWork /\ ~Preparation
  BY LoopFlow, ShellFlow, PreparationFlow DEF LoopSteps, ShellSteps, Preparing
<1>2. ~ApplyModel /\ ~ApplyConfiguration
  BY ApplyFlow DEF TypeOK
<1>3. ~Boundary /\ ~Release /\ ~Open /\ ~StartRun /\ ~StartShell /\ ~ApplySelection
  BY DEF Boundary, Release, Open, StartRun, StartShell, ApplySelection, Lock, StartApplying,
         Unlock, Goto, Leave
<1>4. Aside \/ DeferSelection \/ SetScope \/ UNCHANGED vars => pc' = pc
  BY AsideFlow DEF DeferSelection, SetScope, vars
<1>5. ReconcileCall \/ ReconcileRun \/ Attach \/ Reopen => pc \in {"down", "reconcile"}
  BY DEF ReconcileCall, ReconcileRun, Attach, Reopen
<1>6. QED  BY <1>1, <1>2, <1>3, <1>4, <1>5, NextSteps

\* Steps that neither deliver input nor touch the queue.
LEMMA OtherLined ==
  ASSUME TypeOK, TypeOK', Lined, [Next]_vars, UNCHANGED inputs,
         ~DeliverInput, ~Crash, ~Close
  PROVE  Lined'
<1>1. Recorded
  BY StepRecorded
<1>2. \/ journal' = journal
      \/ \E r : ~Delivers(r) /\ journal' = Append(journal, r)
  BY <1>1 DEF Recorded, Admitted, Delivers, Stored
<1>3. failed => failed' \/ pc = "down"
  BY <1>1 DEF Recorded
<1>4. Faultless' => Faultless
  BY SpentBefore DEF Faultless, Occasions
<1>5. QED  BY <1>2, <1>3, <1>4, NothingDelivered, QuietLined, DownFlow

\* Delivering an input moves it from the queue to the journal, or to both.
LEMMA DeliverLined ==
  ASSUME TypeOK, TypeOK', Lined, DeliverInput
  PROVE  Lined'
<1> DEFINE r == [kind |-> "run_input_added", run |-> run, input |-> Head(queue)]
<1>1. pc = "queue" /\ pc' \notin {"down", "reconcile"} /\ UNCHANGED <<submitted, taken>>
  BY DEF DeliverInput, Goto, FinishError, FinishWith, inputs
<1>2. Faultless' => Faultless
  BY SpentBefore DEF Faultless, Occasions, Next, RunStep
<1>3. CASE UNCHANGED <<journal, queue>> /\ (failed => failed')
  BY <1>1, <1>2, <1>3, NothingDelivered, QuietLined DEF inputs
<1>4. CASE queue # <<>> /\ ~failed /\ Stored(r)
  <2>1. journal' = Append(journal, r) /\ Delivers(r) /\ r.input = Head(queue)
        /\ Head(queue) \in Nat
    <3>1. queue \in Seq(Nat)
      BY DEF TypeOK
    <3>2. Head(queue) \in QueuedInputs /\ Head(queue) \in Nat
      BY <1>4, <3>1, HeadLeaves DEF Lined, QueuedInputs, Items
    <3>3. QueuedInputs \subseteq 1 .. submitted
      BY DEF Lined, QueuedInputKept
    <3>4. Head(queue) # 0
      BY <3>2, <3>3 DEF TypeOK
    <3>5. QED  BY <1>4, <3>2, <3>4 DEF Stored, Delivers
  <2> HIDE DEF r
  <2>2. /\ Deliveries' = Deliveries \cup {Len(journal) + 1}
        /\ \A i \in Deliveries : i < Len(journal) + 1 /\ journal'[i] = journal[i]
        /\ journal'[Len(journal) + 1] = r
        /\ DeliveredInputs' = DeliveredInputs \cup {Head(queue)}
    BY <2>1, DeliveriesAppended
  <2>3. /\ Items(Tail(queue)) = QueuedInputs \ {Head(queue)} /\ Ordered(Tail(queue))
        /\ Head(queue) \in QueuedInputs
        /\ \A n \in Items(Tail(queue)) : Head(queue) < n
    BY <1>4, HeadLeaves DEF Lined, QueuedInputs, Items, TypeOK
  <2>4. \A d \in DeliveredInputs : d < Head(queue)
    BY <1>4, <2>3 DEF Lined
  <2>5. InOrder'
    <3>1. \A i \in Deliveries : journal[i].input < Head(queue)
      BY <2>4 DEF DeliveredInputs
    <3>2. \A i, k \in Deliveries : i < k => journal[i].input < journal[k].input
      BY DEF Lined, QueuedInputKept
    <3>3. ASSUME NEW i \in Deliveries', NEW k \in Deliveries', i < k
          PROVE  journal'[i].input < journal'[k].input
      <4>1. Len(journal) \in Nat /\ \A j \in Deliveries : j \in Nat
        BY DEF TypeOK, Deliveries
      <4>2. i \in Deliveries
        BY <2>2, <3>3, <4>1
      <4>3. QED  BY <2>1, <2>2, <3>1, <3>2, <3>3, <4>2
    <3>4. QED  BY <3>3 DEF InOrder
  <2>6. /\ 1 .. submitted = QueuedInputs \cup DeliveredInputs \cup taken
        /\ QueuedInputs \cap taken = {}
        /\ Faultless => DeliveredInputs \cap (QueuedInputs \cup taken) = {}
    BY DEF Lined, QueuedInputKept
  <2>7. CASE queue' = Tail(queue)
    <3>1. QueuedInputs' = QueuedInputs \ {Head(queue)} /\ Ordered(queue)'
      BY <2>3, <2>7 DEF QueuedInputs, Items, Ordered
    <3>2. ~failed' => \A d \in DeliveredInputs', q \in QueuedInputs' : d < q
      <4>1. \A q \in QueuedInputs' : Head(queue) < q /\ q \in QueuedInputs
        BY <2>3, <3>1
      <4>2. QED  BY <1>4, <2>2, <4>1 DEF Lined
    <3>3. QueuedInputKept'
      BY <1>1, <1>2, <2>2, <2>3, <2>5, <2>6, <3>1 DEF QueuedInputKept, InOrder
    <3>4. QED  BY <1>1, <3>1, <3>2, <3>3 DEF Lined
  <2>8. CASE queue' = queue /\ failed' /\ ~Faultless'
    <3>1. QueuedInputs' = QueuedInputs /\ Ordered(queue)'
      BY <2>8 DEF QueuedInputs, Ordered, Lined
    <3>2. QueuedInputKept'
      BY <1>1, <2>2, <2>3, <2>5, <2>6, <2>8, <3>1 DEF QueuedInputKept, InOrder
    <3>3. QED  BY <1>1, <2>8, <3>1, <3>2 DEF Lined
  <2>9. QED
    <3>1. queue' = Tail(queue) \/ (AppendFails(r) /\ queue' = queue)
      BY <1>4 DEF DeliverInput, r
    <3>2. ~UNCHANGED journal
      <4>1. Len(journal) \in Nat /\ DOMAIN journal = 1 .. Len(journal)
            /\ DOMAIN journal' = 1 .. Len(journal) + 1
        BY <2>1, AppendedRecords
      <4>2. Len(journal) + 1 \in DOMAIN journal' /\ Len(journal) + 1 \notin DOMAIN journal
        BY <4>1
      <4>3. QED  BY <4>2
    <3>3. AppendFails(r) => failed' /\ Spend("fault")
      BY <3>2 DEF AppendFails, store
    <3>4. Spend("fault") => ~Faultless'
      <4>1. "fault" \in Occasions /\ used \in [Occasions -> Nat]
        BY DEF Occasions, TypeOK
      <4>2. Spend("fault") => used'["fault"] = used["fault"] + 1
        BY <4>1 DEF Spend
      <4>3. used["fault"] \in Nat
        BY <4>1
      <4>4. QED  BY <4>2, <4>3 DEF Faultless
    <3>5. QED  BY <2>7, <2>8, <3>1, <3>3, <3>4
<1>5. \/ UNCHANGED <<journal, queue>> /\ (failed => failed')
      \/ queue # <<>> /\ ~failed /\ Stored(r)
  BY DEF DeliverInput, Written, Persisted, AppendFails, store
<1>6. QED  BY <1>3, <1>4, <1>5

\* The user or the end of the process moves input: nothing is delivered.
LEMMA UserLined ==
  ASSUME TypeOK, TypeOK', Lined, QueueInput \/ TakeInput \/ Crash \/ Close
  PROVE  Lined'
<1>1. UNCHANGED journal
  BY EndFlow DEF QueueInput, TakeInput, store
<1>2. UNCHANGED <<Deliveries, DeliveredInputs>> /\ InOrder'
  BY <1>1, NothingDelivered DEF Deliveries, DeliveredInputs
<1>3. Faultless' => Faultless
  <2>1. Crash \/ Close => UNCHANGED used
    BY EndFlow
  <2>2. QueueInput \/ TakeInput => UNCHANGED used \/ used' = [used EXCEPT !["queue"] = @ + 1]
                                   \/ used' = [used EXCEPT !["take"] = @ + 1]
    BY DEF QueueInput, TakeInput, Spend
  <2>3. QED  BY <2>1, <2>2 DEF Faultless, TypeOK, Occasions
<1>4. /\ 1 .. submitted = QueuedInputs \cup DeliveredInputs \cup taken
      /\ QueuedInputs \cap taken = {}
      /\ Faultless => DeliveredInputs \cap (QueuedInputs \cup taken) = {}
      /\ Ordered(queue)
      /\ ~failed => \A d \in DeliveredInputs, q \in QueuedInputs : d < q
      /\ submitted \in Nat /\ queue \in Seq(Nat)
  BY DEF Lined, QueuedInputKept, TypeOK
<1> DEFINE old == Items(queue)
<1>0. QueuedInputs = old /\ QueuedInputs' = Items(queue')
  BY DEF QueuedInputs, Items
<1>5. CASE QueueInput
  <2> DEFINE new == submitted + 1
  <2>1. /\ queue' = Append(queue, new) /\ submitted' = new
        /\ UNCHANGED <<taken, failed, pc>> /\ ProcessUp
    BY <1>5 DEF QueueInput, store
  <2>2. /\ new \in Nat /\ new \notin 1 .. submitted /\ 1 .. new = 1 .. submitted \cup {new}
        /\ \A n \in 1 .. submitted : n < new
    BY <1>4
  <2> HIDE DEF new
  <2>3. QueuedInputs' = QueuedInputs \cup {new} /\ Ordered(queue')
    <3>1. \A x \in Items(queue) : x < new
      BY <1>0, <1>4, <2>2
    <3>2. Items(Append(queue, new)) = old \cup {new} /\ Ordered(Append(queue, new))
      BY <1>4, <2>2, <3>1, NewestJoins
    <3>3. QED  BY <1>0, <2>1, <3>2
  <2>4. ~failed' => \A d \in DeliveredInputs', q \in QueuedInputs' : d < q
    BY <1>2, <1>4, <2>1, <2>2, <2>3
  <2>5. /\ 1 .. submitted' = QueuedInputs' \cup DeliveredInputs' \cup taken'
        /\ QueuedInputs' \cap taken' = {}
        /\ Faultless' => DeliveredInputs' \cap (QueuedInputs' \cup taken') = {}
    BY <1>2, <1>3, <1>4, <2>1, <2>2, <2>3
  <2>6. QED
    BY <1>2, <2>1, <2>3, <2>4, <2>5 DEF Lined, QueuedInputKept, InOrder, ProcessUp, Ordered
<1>6. CASE TakeInput
  <2>1. PICK x \in QueuedInputs :
          /\ QueuedInputs' = QueuedInputs \ {x} /\ Ordered(queue')
          /\ taken' = taken \cup {x}
    <3>1. CASE taken' = taken \cup {Head(queue)} /\ queue' = Tail(queue)
      <4>1. queue # <<>>
        BY <1>6 DEF TakeInput
      <4>2. /\ Items(Tail(queue)) = old \ {Head(queue)} /\ Ordered(Tail(queue))
            /\ Head(queue) \in old
        BY <1>4, <4>1, HeadLeaves
      <4>3. QED  BY <1>0, <3>1, <4>2
    <3>2. CASE /\ taken' = taken \cup {queue[Len(queue)]}
               /\ queue' = SubSeq(queue, 1, Len(queue) - 1)
      <4>1. queue # <<>>
        BY <1>6 DEF TakeInput
      <4>2. LET front == SubSeq(queue, 1, Len(queue) - 1) IN
              /\ Items(front) = old \ {queue[Len(queue)]} /\ Ordered(front)
              /\ queue[Len(queue)] \in old
        BY <1>4, <4>1, LastLeaves
      <4>3. QED  BY <1>0, <3>2, <4>2
    <3>3. QED  BY <1>6, <3>1, <3>2 DEF TakeInput
  <2>2. UNCHANGED <<submitted, failed, pc>> /\ ProcessUp
    BY <1>6 DEF TakeInput, store
  <2>3. ~failed' => \A d \in DeliveredInputs', q \in QueuedInputs' : d < q
    BY <1>2, <1>4, <2>1, <2>2
  <2>4. /\ 1 .. submitted' = QueuedInputs' \cup DeliveredInputs' \cup taken'
        /\ QueuedInputs' \cap taken' = {}
        /\ Faultless' => DeliveredInputs' \cap (QueuedInputs' \cup taken') = {}
    BY <1>2, <1>3, <1>4, <2>1, <2>2
  <2>5. QED
    BY <1>2, <2>1, <2>2, <2>3, <2>4 DEF Lined, QueuedInputKept, InOrder, ProcessUp, Ordered
<1>7. CASE Crash \/ Close
  <2>1. queue' = <<>> /\ taken' = taken \cup QueuedInputs /\ UNCHANGED submitted
    BY <1>7, EndFlow
  <2>2. QueuedInputs' = {} /\ Ordered(queue')
    BY <2>1 DEF QueuedInputs, Ordered
  <2>3. /\ 1 .. submitted' = QueuedInputs' \cup DeliveredInputs' \cup taken'
        /\ QueuedInputs' \cap taken' = {}
        /\ Faultless' => DeliveredInputs' \cap (QueuedInputs' \cup taken') = {}
    BY <1>2, <1>3, <1>4, <2>1, <2>2
  <2>4. QED  BY <1>2, <2>1, <2>2, <2>3 DEF Lined, QueuedInputKept, InOrder, Ordered
<1>8. QED  BY <1>5, <1>6, <1>7

\* Every step.
LEMMA StepLined ==
  ASSUME TypeOK, TypeOK', Lined, [Next]_vars
  PROVE  Lined'
BY InputsFlow, OtherLined, DeliverLined, UserLined

\* An input the user queued is in the queue, in the journal or back with the user, and in no
\* two of them, however deliveries, withdrawals, cancellations, failing writes and crashes
\* fall; the journal has the inputs in the order they were queued.
THEOREM SpecQueuedInputKept == Spec => []QueuedInputKept
<1>1. Init => Lined
  <2> SUFFICES ASSUME Init PROVE Lined
    OBVIOUS
  <2>1. queue = <<>> /\ journal = <<>> /\ submitted = 0 /\ taken = {}
    BY DEF Init
  <2>2. Deliveries = {} /\ QueuedInputs = {} /\ Ordered(queue)
    BY <2>1 DEF Deliveries, QueuedInputs, Ordered
  <2>3. DeliveredInputs = {} /\ 1 .. submitted = {}
    BY <2>1, <2>2 DEF DeliveredInputs
  <2>4. QED  BY <2>1, <2>2, <2>3 DEF Lined, QueuedInputKept
<1>2. TypeOK /\ TypeOK' /\ Lined /\ [Next]_vars => Lined'
  BY StepLined
<1>3. Lined => QueuedInputKept
  BY DEF Lined
<1>4. QED  BY <1>1, <1>2, <1>3, SpecTypeOK, PTL DEF Spec


-----------------------------------------------------------------------------
(* The journal implements SessionLog.                                      *)

\* What a record that was not refused found, and what became of the open runs and calls.
LEMMA AcceptedRecord ==
  ASSUME NEW st \in State, NEW r \in Record, Apply(st, r).ok
  PROVE  /\ r.kind \in {"session_started", "model_selected", "session_configured",
                        "run_input_added"}
            => Apply(st, r).runs = st.runs /\ Apply(st, r).pending = st.pending
         /\ r.kind = "run_started"
            => /\ r.run \notin st.runs
               /\ Apply(st, r).runs = st.runs \cup {r.run}
               /\ Apply(st, r).pending = st.pending
         /\ r.kind = "model_response"
            => /\ r.run \in st.runs
               /\ Apply(st, r).runs = st.runs
               /\ Apply(st, r).pending
                    = st.pending \cup {[run |-> r.run, call |-> c] : c \in r.calls}
         /\ r.kind = "tool_result"
            => /\ [run |-> r.run, call |-> r.call] \in st.pending
               /\ Apply(st, r).runs = st.runs
               /\ Apply(st, r).pending
                    = st.pending \ {[run |-> r.run, call |-> r.call]}
         /\ r.kind = "boundary_event"
            => /\ r.run \in st.runs
               /\ Apply(st, r).runs = st.runs
               /\ Apply(st, r).pending = st.pending
         /\ r.kind = "run_finished"
            => /\ r.run \in st.runs
               /\ \A p \in st.pending : p.run # r.run
               /\ Apply(st, r).runs = st.runs \ {r.run}
               /\ Apply(st, r).pending = st.pending
<1>1. ~Refuse(st).ok
  BY DEF Refuse, State
<1>2. ~(~st.ok \/ (~st.session /\ r.kind # "session_started"))
  BY <1>1 DEF Apply
<1>3. CASE r.kind = "session_started"
  <2>1. Apply(st, r) = ApplySessionStarted(st, r)
    BY <1>2, <1>3 DEF Apply
  <2>2. QED  BY <1>1, <1>3, <2>1 DEF ApplySessionStarted, State
<1>4. CASE r.kind = "model_selected"
  <2>1. Apply(st, r) = ApplyModelSelected(st, r)
    BY <1>2, <1>4 DEF Apply
  <2>2. QED  BY <1>1, <1>4, <2>1 DEF ApplyModelSelected, State
<1>5. CASE r.kind = "session_configured"
  <2>1. Apply(st, r) = ApplySessionConfigured(st, r)
    BY <1>2, <1>5 DEF Apply
  <2>2. QED  BY <1>1, <1>5, <2>1 DEF ApplySessionConfigured, State
<1>6. CASE r.kind = "run_started"
  <2>1. Apply(st, r) = ApplyRunStarted(st, r)
    BY <1>2, <1>6 DEF Apply
  <2>2. QED  BY <1>1, <1>6, <2>1 DEF ApplyRunStarted, State
<1>7. CASE r.kind = "run_input_added"
  <2>1. Apply(st, r) = ApplyRunInputAdded(st, r)
    BY <1>2, <1>7 DEF Apply
  <2>2. QED  BY <1>1, <1>7, <2>1 DEF ApplyRunInputAdded, State
<1>8. CASE r.kind = "model_response"
  <2>1. Apply(st, r) = ApplyModelResponse(st, r)
    BY <1>2, <1>8 DEF Apply
  <2>2. QED  BY <1>1, <1>8, <2>1 DEF ApplyModelResponse, State
<1>9. CASE r.kind = "tool_result"
  <2>1. Apply(st, r) = ApplyToolResult(st, r)
    BY <1>2, <1>9 DEF Apply
  <2>2. QED  BY <1>1, <1>9, <2>1 DEF ApplyToolResult, State
<1>10. CASE r.kind = "boundary_event"
  <2>1. Apply(st, r) = ApplyBoundaryEvent(st, r)
    BY <1>2, <1>10 DEF Apply
  <2>2. QED  BY <1>1, <1>10, <2>1 DEF ApplyBoundaryEvent, State
<1>11. CASE r.kind = "run_finished"
  <2>1. Apply(st, r) = ApplyRunFinished(st, r)
    BY <1>2, <1>11 DEF Apply
  <2>2. QED  BY <1>1, <1>11, <2>1 DEF ApplyRunFinished, State
<1>12. QED
  BY <1>3, <1>4, <1>5, <1>6, <1>7, <1>8, <1>9, <1>10, <1>11

\* An append adds to the runs begun, the calls asked and the jobs told of what its record
\* tells of.
LEMMA LogAppended ==
  ASSUME TypeOK, TypeOK', NEW r, journal' = Append(journal, r)
  PROVE  /\ Began' = Began \cup {n \in {r.run} : r.kind = "run_started"}
         /\ Asked' = Asked \cup {c \in r.calls : r.kind = "model_response"}
         /\ JournalJobs' = JournalJobs \cup {j \in Jobs : ReportsEndOf(r, j)}
<1> DEFINE n == Len(journal)
<1>1. /\ DOMAIN journal = 1 .. n /\ DOMAIN journal' = 1 .. n + 1 /\ n \in Nat
      /\ \A i \in 1 .. n : journal'[i] = journal[i]
      /\ journal'[n + 1] = r
  BY AppendedRecords
<1> HIDE DEF n
<1>2. \A i : i \in 1 .. n + 1 <=> i \in 1 .. n \/ i = n + 1
  BY <1>1
<1> DEFINE Starts == {k \in DOMAIN journal : journal[k].kind = "run_started"}
           Answers == {k \in DOMAIN journal : journal[k].kind = "model_response"}
           Starts2 == {k \in DOMAIN journal' : journal'[k].kind = "run_started"}
           Answers2 == {k \in DOMAIN journal' : journal'[k].kind = "model_response"}
<1>3. /\ \A k : k \in Starts2 <=> k \in Starts \/ (k = n + 1 /\ r.kind = "run_started")
      /\ \A k : k \in Answers2 <=> k \in Answers \/ (k = n + 1 /\ r.kind = "model_response")
      /\ \A k \in Starts \cup Answers : journal'[k] = journal[k]
  BY <1>1, <1>2
<1>4. /\ Began = {journal[i].run : i \in Starts}
      /\ Began' = {journal'[i].run : i \in Starts2}
      /\ Asked = UNION {journal[i].calls : i \in Answers}
      /\ Asked' = UNION {journal'[i].calls : i \in Answers2}
  BY DEF Began, Asked
<1> HIDE DEF Starts, Starts2, Answers, Answers2
<1>5. \A m : m \in Began' <=> m \in Began \/ (m = r.run /\ r.kind = "run_started")
  BY <1>1, <1>3, <1>4
<1>6. \A m : m \in Asked' <=> m \in Asked \/ (m \in r.calls /\ r.kind = "model_response")
  <2>1. \A m : m \in Asked <=> \E i \in Answers : m \in journal[i].calls
    BY <1>4
  <2>2. \A m : m \in Asked' <=> \E i \in Answers2 : m \in journal'[i].calls
    BY <1>4
  <2>3. QED  BY <1>1, <1>3, <2>1, <2>2
<1>7. \A j \in Jobs : j \in JournalJobs' <=> j \in JournalJobs \/ ReportsEndOf(r, j)
  BY ToldAppended DEF JournalJobs
<1>8. JournalJobs \subseteq Jobs /\ JournalJobs' \subseteq Jobs
  BY DEF JournalJobs
<1>9. QED  BY <1>5, <1>6, <1>7, <1>8

\* The journal names no run and no call that was not handed out.
Numbered ==
  /\ \A n \in Began : n <= runs
  /\ \A c \in Asked : c <= calls


\* Identifiers are only handed out.
LEMMA IdsFlow ==
  ASSUME TypeOK, [Next]_vars
  PROVE  Later
<1>1. UNCHANGED ids => Later
  BY SameIds
<1>2. CASE RecordRunStarted \/ ShellCall
  BY <1>2 DEF RecordRunStarted, ShellCall, TypeOK, Later
<1>3. CASE AcceptResponse
  <2>1. \/ UNCHANGED ids
        \/ UNCHANGED <<runs, epochs>> /\ \E n \in CallCount : calls' = calls + n
    BY <1>3 DEF AcceptResponse, ids
  <2>2. CallCount \subseteq Nat
    BY RuntimeAssumption DEF CallCount
  <2>3. QED  BY <1>1, <2>1, <2>2 DEF TypeOK, Later
<1>4. CASE PrepareModel \/ ApplyModel
  <2>1. \/ UNCHANGED ids
        \/ UNCHANGED <<runs, calls>> /\ epochs' = epochs + 1
    BY <1>4 DEF PrepareModel, ApplyModel, SelectModel, ids
  <2>2. QED  BY <1>1, <2>1 DEF TypeOK, Later
<1>5. CASE Crash \/ Close
  BY <1>1, <1>5, EndFlow
<1>6. CASE Boundary \/ DeliverInput \/ OfferEvents \/ DeliverEvent \/ EventCommitted
           \/ ToolResultCommitted \/ Request \/ Await \/ ExecuteTool \/ CommitToolResult
           \/ SettleCancelled \/ RejectOverLimit \/ FinishRun
  BY <1>1, <1>6
     DEF Boundary, DeliverInput, OfferEvents, DeliverEvent, EventCommitted,
         ToolResultCommitted, Request, Await, ExecuteTool, CommitToolResult,
         SettleCancelled, RejectOverLimit, FinishRun
<1>7. CASE Release \/ ShellRun \/ ShellResult \/ ShellFinish \/ ApplyConfiguration
           \/ PrepareSession \/ PrepareConfiguration \/ SyncExternalWork \/ RecordInput
  BY <1>1, <1>7
     DEF Release, ShellRun, ShellResult, ShellFinish, ApplyConfiguration, PrepareSession,
         PrepareConfiguration, SyncExternalWork, RecordInput
<1>8. CASE ReconcileCall \/ ReconcileRun \/ Attach \/ Reopen \/ Open \/ StartRun \/ StartShell
           \/ ApplySelection \/ SetScope \/ DeferSelection \/ Aside \/ UNCHANGED vars
  BY <1>1, <1>8
     DEF ReconcileCall, ReconcileRun, ReconcileAppends, Attach, Reopen, Open, StartRun,
         StartShell, ApplySelection, SetScope, DeferSelection, Aside, Cancel, QueueInput,
         TakeInput, JobFinishes, Rest, vars
<1>9. QED
  BY <1>2, <1>3, <1>4, <1>5, <1>6, <1>7, <1>8, NextSteps
     DEF LoopWork, ShellWork, Preparation

\* Every step.
LEMMA StepNumbered ==
  ASSUME TypeOK, TypeOK', Numbered, [Next]_vars
  PROVE  Numbered'
<1>1. /\ runs \in Nat /\ runs' \in Nat /\ runs <= runs'
      /\ calls \in Nat /\ calls' \in Nat /\ calls <= calls'
  BY IdsFlow DEF TypeOK, Later
<1>2. Began \subseteq Nat /\ Asked \subseteq Nat
  <2>1. \A i \in DOMAIN journal : journal[i] \in Record
    BY DEF TypeOK
  <2>2. /\ \A i \in DOMAIN journal : journal[i].kind = "run_started" => journal[i].run \in Nat
        /\ \A i \in DOMAIN journal :
             journal[i].kind = "model_response" => journal[i].calls \subseteq Nat
    BY <2>1 DEF Record
  <2>3. QED  BY <2>2 DEF Began, Asked
<1>3. (\A n \in Began : n <= runs') /\ \A c \in Asked : c <= calls'
  BY <1>1, <1>2 DEF Numbered
<1>4. CASE Crash \/ Close
  <2>1. Began' = Began /\ Asked' = Asked
    BY <1>4, EndFlow DEF Began, Asked
  <2>2. QED  BY <1>3, <2>1 DEF Numbered
<1>5. CASE UNCHANGED journal
  <2>1. Began' = Began /\ Asked' = Asked
    BY <1>5 DEF Began, Asked
  <2>2. QED  BY <1>3, <2>1 DEF Numbered
<1>6. CASE \E r : Admitted(r) /\ Stored(r)
  <2>1. PICK r : Admitted(r) /\ Stored(r)
    BY <1>6
  <2>2. /\ Began' = Began \cup {n \in {r.run} : r.kind = "run_started"}
        /\ Asked' = Asked \cup {c \in r.calls : r.kind = "model_response"}
    BY <2>1, LogAppended DEF Stored
  <2>3. /\ r.kind = "run_started" => r.run = runs'
        /\ r.kind = "model_response" => r.calls \subseteq calls + 1 .. calls'
    BY <2>1 DEF Admitted
  <2>4. \A n \in Began' : n <= runs'
    BY <1>1, <1>3, <2>2, <2>3
  <2>5. \A c \in Asked' : c <= calls'
    BY <1>1, <1>3, <2>2, <2>3
  <2>6. QED  BY <2>4, <2>5 DEF Numbered
<1>7. QED  BY <1>4, <1>5, <1>6, StepRecorded DEF Recorded


OpenCalls == {p.call : p \in durable.pending}

\* What Crash and Close and every other step that appends nothing leave.
LEMMA LogStutters ==
  ASSUME UNCHANGED <<journal, durable>>
  PROVE  UNCHANGED <<Began, durable.runs, Asked, OpenCalls, JournalJobs>>
BY DEF Began, Asked, OpenCalls, JournalJobs, Told

\* Every append is a step of the log, or invisible to it.
LEMMA AppendSimulated ==
  ASSUME TypeOK, TypeOK', Consistent, Consistent', Numbered, NoStaleAnnouncement',
         NEW r, Admitted(r), ~failed, Stored(r)
  PROVE  \/ UNCHANGED <<Began, durable.runs, Asked, OpenCalls, JournalJobs>>
         \/ \E n \in Began' : Log!Begin(n)
         \/ Log!Ask(Asked' \ Asked)
         \/ \E c \in OpenCalls, ended \in SUBSET Jobs : Log!Answer(c, ended)
         \/ \E job \in Jobs : Log!Announce(job)
         \/ Log!End
<1>1. r \in Record
  BY AppendedIsRecord DEF Stored
<1>2. /\ Began' = Began \cup {n \in {r.run} : r.kind = "run_started"}
      /\ Asked' = Asked \cup {c \in r.calls : r.kind = "model_response"}
      /\ JournalJobs' = JournalJobs \cup {j \in Jobs : ReportsEndOf(r, j)}
  BY LogAppended DEF Stored
<1>3. /\ durable \in State /\ durable' = Apply(durable, r) /\ Apply(durable, r).ok
      /\ Sound(durable) /\ Sound(durable')
  BY DEF TypeOK, Stored, Consistent, Kept, Known, Sound
<1>4. /\ \A n, m \in durable.runs : n = m
      /\ \A n, m \in durable'.runs : n = m
      /\ \A p \in durable.pending : p.run \in durable.runs
  BY <1>3 DEF Sound
<1>5. pc \in {"accept", "shell_call", "deliver"} => durable.pending = {}
  BY DEF Consistent, Kept, Placed, LiveFollowsJournal, Agree, InRun, Looping, Answered
<1>6. CASE r.kind \in {"session_started", "model_selected", "session_configured",
                       "run_input_added"}
  <2>1. durable'.runs = durable.runs /\ durable'.pending = durable.pending
    BY <1>1, <1>3, <1>6, AcceptedRecord
  <2>2. Began' = Began /\ Asked' = Asked /\ JournalJobs' = JournalJobs
    BY <1>2, <1>6 DEF ReportsEndOf
  <2>3. QED  BY <2>1, <2>2 DEF OpenCalls
<1>7. CASE r.kind = "run_started"
  <2>1. /\ r.run \notin durable.runs /\ durable'.runs = durable.runs \cup {r.run}
        /\ durable'.pending = durable.pending
    <3>1. /\ r.run \notin durable.runs
          /\ Apply(durable, r).runs = durable.runs \cup {r.run}
          /\ Apply(durable, r).pending = durable.pending
      BY <1>1, <1>3, <1>7, AcceptedRecord
    <3>2. QED  BY <1>3, <3>1
  <2>2. durable.runs = {} /\ durable'.runs = {r.run}
    BY <1>4, <2>1
  <2>3. r.run = runs + 1 /\ runs \in Nat
    BY <1>7 DEF Admitted, TypeOK
  <2>4. r.run \notin Began
    BY <2>3 DEF Numbered
  <2>5. /\ Began' = Began \cup {r.run} /\ Asked' = Asked /\ JournalJobs' = JournalJobs
        /\ OpenCalls' = OpenCalls
    BY <1>2, <1>7, <2>1 DEF ReportsEndOf, OpenCalls
  <2>6. Log!Begin(r.run)
    BY <2>2, <2>4, <2>5 DEF Log!Begin, OpenCalls
  <2>7. QED  BY <2>5, <2>6
<1>8. CASE r.kind = "model_response"
  <2>1. /\ r.run \in durable.runs /\ durable'.runs = durable.runs
        /\ durable'.pending = durable.pending \cup {[run |-> r.run, call |-> c] : c \in r.calls}
    BY <1>1, <1>3, <1>8, AcceptedRecord
  <2>2. durable.pending = {} /\ r.calls \subseteq calls + 1 .. calls'
    BY <1>5, <1>8 DEF Admitted
  <2>3. r.calls \cap Asked = {}
    <3>1. calls \in Nat /\ \A c \in r.calls : c \in calls + 1 .. calls'
      BY <2>2 DEF TypeOK
    <3>2. \A c \in r.calls : ~(c <= calls)
      BY <3>1 DEF TypeOK
    <3>3. QED  BY <3>2 DEF Numbered
  <2>4. /\ Began' = Began /\ Asked' = Asked \cup r.calls /\ JournalJobs' = JournalJobs
    BY <1>2, <1>8 DEF ReportsEndOf
  <2>5. Asked' \ Asked = r.calls
    BY <2>3, <2>4
  <2>6. OpenCalls = {} /\ OpenCalls' = r.calls
    <3>1. durable'.pending = {[run |-> r.run, call |-> c] : c \in r.calls}
      BY <2>1, <2>2
    <3> DEFINE open(c) == [run |-> r.run, call |-> c]
    <3>2. \A c : open(c).call = c
      OBVIOUS
    <3>3. durable'.pending = {open(c) : c \in r.calls}
      BY <3>1
    <3> HIDE DEF open
    <3>4. \A p \in durable'.pending : p.call \in r.calls
      BY <3>2, <3>3
    <3>5. \A c \in r.calls : \E p \in durable'.pending : c = p.call
      BY <3>2, <3>3
    <3>6. \A c : c \in OpenCalls' <=> c \in r.calls
      BY <3>4, <3>5 DEF OpenCalls
    <3>7. QED  BY <2>2, <3>6 DEF OpenCalls
  <2>7. Log!Ask(Asked' \ Asked)
    BY <2>1, <2>3, <2>4, <2>5, <2>6 DEF Log!Ask, OpenCalls
  <2>8. QED  BY <2>7
<1>9. CASE r.kind = "tool_result"
  <2> DEFINE call == [run |-> r.run, call |-> r.call]
  <2>1. /\ call \in durable.pending /\ durable'.runs = durable.runs
        /\ durable'.pending = durable.pending \ {call}
    BY <1>1, <1>3, <1>9, AcceptedRecord
  <2>2. \A p \in durable.pending : p.call = r.call => p = call
    <3>1. \A p \in durable.pending : p \in PendingTool /\ p.run = call.run
      BY <1>3, <1>4, <2>1 DEF State
    <3>2. QED  BY <3>1 DEF PendingTool
  <2>3. OpenCalls' = OpenCalls \ {r.call} /\ r.call \in OpenCalls
    <3>1. call.call = r.call
      OBVIOUS
    <3> HIDE DEF call
    <3>2. QED  BY <2>1, <2>2, <3>1 DEF OpenCalls
  <2>4. r.tells \in SUBSET Jobs
    BY <1>1, <1>9 DEF Record
  <2>5. Began' = Began /\ Asked' = Asked /\ JournalJobs' = JournalJobs \cup r.tells
    BY <1>2, <1>9, <2>4 DEF ReportsEndOf
  <2>6. Log!Answer(r.call, r.tells)
    BY <2>1, <2>3, <2>5 DEF Log!Answer, OpenCalls
  <2>7. QED  BY <2>3, <2>4, <2>6
<1>10. CASE r.kind = "boundary_event"
  <2>1. /\ r.run \in durable.runs /\ durable'.runs = durable.runs
        /\ durable'.pending = durable.pending
    BY <1>1, <1>3, <1>10, AcceptedRecord
  <2>2. PICK job \in Jobs : r.tells = {job} /\ durable.pending = {}
    BY <1>5, <1>10 DEF Admitted
  <2>3. ~Told(job)
    <3> DEFINE n == Len(journal)
    <3>1. /\ DOMAIN journal = 1 .. n /\ DOMAIN journal' = 1 .. n + 1 /\ n \in Nat
          /\ \A i \in 1 .. n : journal'[i] = journal[i]
          /\ journal'[n + 1] = r
      BY AppendedRecords DEF Stored
    <3> HIDE DEF n
    <3>2. \A i \in 1 .. n : i \in 1 .. n + 1 /\ n + 1 \in 1 .. n + 1 /\ i < n + 1
      BY <3>1
    <3>3. \A i \in 1 .. n : ~ReportsEndOf(journal'[i], job)
      BY <1>10, <2>2, <3>1, <3>2 DEF NoStaleAnnouncement
    <3>4. QED  BY <3>1, <3>3 DEF Told
  <2>4. /\ Began' = Began /\ Asked' = Asked /\ JournalJobs' = JournalJobs \cup {job}
        /\ job \notin JournalJobs
    BY <1>2, <1>10, <2>2, <2>3 DEF ReportsEndOf, JournalJobs
  <2>5. Log!Announce(job)
    BY <2>1, <2>2, <2>4 DEF Log!Announce, OpenCalls
  <2>6. QED  BY <2>5
<1>11. CASE r.kind = "run_finished"
  <2>1. /\ r.run \in durable.runs /\ durable'.runs = durable.runs \ {r.run}
        /\ durable'.pending = durable.pending
        /\ \A p \in durable.pending : p.run # r.run
    BY <1>1, <1>3, <1>11, AcceptedRecord
  <2>2. durable.pending = {} /\ durable'.runs = {}
    BY <1>4, <2>1
  <2>3. Began' = Began /\ Asked' = Asked /\ JournalJobs' = JournalJobs
    BY <1>2, <1>11 DEF ReportsEndOf
  <2>4. Log!End
    BY <2>1, <2>2, <2>3 DEF Log!End, OpenCalls
  <2>5. QED  BY <2>4
<1>12. QED  BY <1>6, <1>7, <1>8, <1>9, <1>10, <1>11 DEF Admitted

\* Every step is a step of the log or leaves it alone.
LEMMA StepSimulated ==
  ASSUME TypeOK, TypeOK', Consistent, Consistent', Numbered, NoStaleAnnouncement',
         [Next]_vars
  PROVE  [Log!LogNext]_(Log!logVars)
<1>1. CASE UNCHANGED <<journal, durable>>
  BY <1>1, LogStutters DEF Log!logVars, OpenCalls
<1>2. CASE \E r : Admitted(r) /\ ~failed /\ Stored(r)
  <2>1. PICK r : Admitted(r) /\ ~failed /\ Stored(r)
    BY <1>2
  <2>2. QED  BY <2>1, AppendSimulated DEF Log!LogNext, Log!logVars, OpenCalls
<1>3. QED  BY <1>1, <1>2, StepRecorded, EndFlow DEF Recorded

\* The journal is one that SessionLog describes: runs one after the other, each call answered
\* once and before the end of its run, no run or call named twice by however many processes,
\* and no announcement of a job whose end is told.
THEOREM SpecImplementsLog == Spec => ImplementsLog
<1>1. Init => Numbered /\ Log!LogInit
  <2> SUFFICES ASSUME Init PROVE Numbered /\ Log!LogInit
    OBVIOUS
  <2>1. journal = <<>> /\ durable.runs = {} /\ durable.pending = {}
    BY DEF Init, NewState
  <2>2. Began = {} /\ Asked = {} /\ JournalJobs = {}
    BY <2>1 DEF Began, Asked, JournalJobs, Told
  <2>3. QED  BY <2>1, <2>2 DEF Numbered, Log!LogInit
<1>2. TypeOK /\ TypeOK' /\ Numbered /\ [Next]_vars => Numbered'
  BY StepNumbered
<1>3. /\ TypeOK /\ TypeOK' /\ Consistent /\ Consistent' /\ Numbered /\ NoStaleAnnouncement'
      /\ [Next]_vars
      => [Log!LogNext]_(Log!logVars)
  BY StepSimulated
<1>4. QED
  BY <1>1, <1>2, <1>3, SpecConsistent, SpecNoStaleAnnouncement, PTL
     DEF Spec, ImplementsLog, Log!LogSpec
=============================================================================
