-------------------------------- MODULE Screen --------------------------------
(***************************************************************************)
(* The terminal screen (src/internal/ui): one event loop takes keys and    *)
(* the messages of the work it has started, and decides when a session may *)
(* be replaced or the program left; with the application's side of it: a   *)
(* session that is installed and one that is retired, and the scope that   *)
(* changes meanwhile (src/app/application.go).                             *)
(***************************************************************************)
EXTENDS Naturals, Sequences, FiniteSets

CONSTANTS
  MaxKeys,      \* how much work is asked for
  MaxQueued,    \* how many inputs wait for the next turn
  MaxEvents,    \* what a turn tells before it ends
  ChannelSize,  \* what it may tell before it is heard
  MaxSessions

VARIABLE scr

Session == 1..MaxSessions
Scope == {"workspace", "machine"}
Work == {"turn", "shell", "compaction", "clear", "scope", "logout"}
Slot == {"none", "turn", "shell", "compaction", "clear"}  \* operation.kind
Installer == {"clear", "resume"}

ScreenTypeOK ==
  /\ scr.op \in Slot /\ scr.action \in {"none", "clear", "exit"} /\ scr.exit \in {"no", "clean", "forced"}
  /\ scr.work \in [Work -> {"none", "running", "cancelled", "done", "failed"}]
  /\ scr.picker \in {"none", "scope", "session"} /\ scr.field \in {"text", "path"}
  /\ scr.prompt \in BOOLEAN /\ scr.queue \in 0..MaxQueued /\ scr.listeners \in 0..2
  /\ scr.overtaken \subseteq Work /\ scr.resume \in 0..MaxKeys
  /\ DOMAIN scr.install = Installer /\ scr.live \in Session
  /\ scr.journals \subseteq Session /\ scr.children \subseteq Session
  /\ scr.security \in Scope /\ scr.policy \in Scope /\ scr.known \in [Session -> Scope]

NoInstall == [at |-> "none", id |-> 1, old |-> 1, took |-> "workspace"]
NoChange == [at |-> "none", to |-> "workspace", on |-> 1]

Init ==
  scr = [op |-> "none", action |-> "none", exit |-> "no", work |-> [w \in Work |-> "none"], prompt |-> FALSE,
         picker |-> "none", field |-> "text", queue |-> 0, keys |-> 0, channel |-> <<>>, sent |-> 0,
         listeners |-> 0, arrived |-> <<>>, resume |-> 0, install |-> [by \in Installer |-> NoInstall], change |-> NoChange,
         live |-> 1, journals |-> {1}, children |-> {1}, closed |-> {}, security |-> "workspace",
         policy |-> "workspace", childScope |-> "workspace", known |-> [s \in Session |-> "workspace"],
         overtaken |-> {}, refused |-> FALSE]

Busy(w) == scr.work[w] # "none"
Active(w) == scr.work[w] \in {"running", "cancelled"}
NoWork == \A w \in Work : ~Busy(w)
Cancelled(s, w) == IF s.work[w] = "running" THEN [s EXCEPT !.work[w] = "cancelled"] ELSE s
Started(s, w) == [s EXCEPT !.work[w] = "running"]

\* The event loop is in ResumeSession until the session is installed.
Free == scr.exit = "no" /\ scr.install["resume"].at = "none"
Loop(s) == Free /\ scr' = s
Key(s) == scr.keys < MaxKeys /\ Loop([s EXCEPT !.keys = @ + 1])

\* Mutant: a change of the scope leaves the keys to the composer.
MaintenanceOfSlots ==
  IF scr.op \in {"shell", "compaction", "clear"} THEN scr.op ELSE "none"

\* maintenanceOperation, by the work that Esc would cancel.
Maintenance ==
  CASE Busy("logout") -> "logout"
    [] scr.op \in {"shell", "compaction", "clear"} -> scr.op
    [] Busy("scope") /\ scr.op # "turn" -> "scope"
    [] OTHER -> "none"

\* The line the user types in: where keys and text go when nothing owns it.
Composing == scr.action = "none" /\ scr.picker = "none" /\ Maintenance \in {"none", "compaction"}
AtText == Composing /\ scr.field = "text"

-----------------------------------------------------------------------------
(* Work, and what it makes of the screen.                                    *)
TurnStarted(s) ==
  [Started(s, "turn") EXCEPT !.op = "turn", !.channel = <<>>, !.sent = 0, !.listeners = @ + 1]

\* Claim, and start a turn with what was queued.
NextTurn(s) == IF s.queue = 0 THEN s ELSE TurnStarted([s EXCEPT !.queue = @ - 1])

\* Mutant: the session action looks at its own slot only.
ContinuedAfterTurn(s) ==
  IF s.action = "none" \/ s.op # "none" THEN s
  ELSE IF s.action = "clear" THEN Started([s EXCEPT !.op = "clear"], "clear")
  ELSE [s EXCEPT !.action = "none", !.exit = "clean"]

\* continueSessionAction
Continued(s) ==
  IF s.action = "none" \/ s.op # "none" \/ s.work["scope"] # "none" THEN s
  ELSE IF s.action = "clear" THEN Started([s EXCEPT !.op = "clear"], "clear")
  ELSE [s EXCEPT !.action = "none", !.exit = "clean"]

\* Mutant: the prompt of a change that is called off comes back.
SessionActionKeepsPrompt(a) ==
  Continued(Cancelled(Cancelled([scr EXCEPT !.action = a], "turn"), "scope"))

\* Mutant: a turn is waited for and not cancelled.
SessionActionWaits(a) == Continued(Cancelled([scr EXCEPT !.action = a, !.prompt = FALSE], "scope"))

\* startSessionAction
SessionAction(a) ==
  Continued(Cancelled(Cancelled([scr EXCEPT !.action = a, !.prompt = FALSE], "turn"), "scope"))

\* submitInput: a turn, or input for the next one.
Submit ==
  /\ AtText
  /\ \/ scr.op \in {"turn", "compaction"} /\ scr.queue < MaxQueued /\ Key([scr EXCEPT !.queue = @ + 1])
     \/ scr.op = "none" /\ Key(TurnStarted(scr))

Commanding == AtText /\ scr.op # "compaction"
Idle == Commanding /\ scr.op = "none"

\* Sessions are numbered in the order they are opened in.
Newest == CHOOSE id \in scr.journals \cup {scr.live} : \A other \in scr.journals : other <= id

Shell == Idle /\ Key(Started([scr EXCEPT !.op = "shell"], "shell"))
Compact == Idle /\ Key(Started([scr EXCEPT !.op = "compaction"], "compaction"))
Logout == Commanding /\ Key(Started(scr, "logout"))
Clear == Commanding /\ Newest < MaxSessions /\ Key(SessionAction("clear"))
Exit == Commanding /\ Key(SessionAction("exit"))

ScopeStarted(s, prompted) ==
  LET to == CHOOSE c \in Scope : c # scr.security
  IN [Started(s, "scope") EXCEPT !.prompt = prompted, !.change = [at |-> "begin", to |-> to, on |-> scr.live]]

\* A switch that is in progress refuses another.
StartScope(s, prompted) == Key(IF Busy("scope") THEN s ELSE ScopeStarted(s, prompted))

Cycle == Composing /\ Maintenance = "none" /\ StartScope(scr, FALSE)

\* /resume, and the picker of sessions: a message asks for it.
Resume == Idle /\ Newest < MaxSessions /\ Key([scr EXCEPT !.resume = @ + 1])
OpenSessions == Idle /\ Newest < MaxSessions /\ scr.picker = "none" /\ Key([scr EXCEPT !.picker = "session"])

OpenScopes == Commanding /\ Loop([scr EXCEPT !.picker = "scope"])
Picking == scr.action = "none" /\ scr.picker # "none"

\* Escape closes; a scope is chosen, a path is removed, the prompt is opened.
Pick ==
  /\ Picking
  /\ LET closed == [scr EXCEPT !.picker = "none"] IN
     \/ Loop(closed)
     \/ scr.picker = "session" /\ Loop([closed EXCEPT !.resume = @ + 1])
     \/ scr.picker = "scope" /\ \/ StartScope(closed, FALSE) \/ StartScope(scr, FALSE)
                                \/ Loop([closed EXCEPT !.field = "path"])

\* The prompt takes a path, or leads back to the picker.
AnswerPath ==
  /\ Composing /\ scr.field = "path"
  /\ \/ StartScope([scr EXCEPT !.field = "text"], TRUE)
     \/ Loop([scr EXCEPT !.field = "text", !.picker = "scope"])

(* Ctrl+C: in this order (handleKey). Escape cancels without leaving.        *)
Interrupt ==
  IF scr.action # "none" THEN Loop([scr EXCEPT !.exit = "forced"])
  ELSE /\ scr.picker = "none"
       /\ IF Maintenance # "none" THEN Loop(Cancelled(scr, Maintenance))
          ELSE IF scr.op = "turn" THEN Loop(Cancelled(scr, "turn"))
          ELSE Loop([scr EXCEPT !.exit = "clean"])

Keys ==
  \/ Submit \/ Shell \/ Compact \/ Logout \/ Clear \/ Exit \/ Cycle \/ Resume
  \/ OpenSessions \/ OpenScopes \/ Pick \/ AnswerPath \/ Interrupt

-----------------------------------------------------------------------------
(* What turns and other work do meanwhile.                                   *)
Tell(m) == /\ Active("turn") /\ Len(scr.channel) < ChannelSize
           /\ scr' = [scr EXCEPT !.channel = Append(@, m), !.sent = @ + 1,
                                 !.work["turn"] = IF m = "end" THEN "none" ELSE @]
TurnTells == scr.sent < MaxEvents /\ Tell("event")
TurnEnds == Tell("end")

\* waitAgentMsg: a goroutine takes what is next in the channel.
Hear ==
  /\ scr.listeners > 0 /\ scr.channel # <<>> /\ scr.exit = "no"
  /\ scr' = [scr EXCEPT !.listeners = @ - 1, !.channel = Tail(@), !.arrived = Append(@, Head(scr.channel))]

\* How such work ended makes no difference to what the screen does next.
WorkEnds(w) == Active(w) /\ scr' = [scr EXCEPT !.work[w] = "done"]

-----------------------------------------------------------------------------
(* Messages, in any order but those of one channel.                          *)
\* Mutant: the end of a turn is waited for like an event.
HandleAnyTurn ==
  /\ scr.arrived # <<>>
  /\ LET s == [scr EXCEPT !.arrived = Tail(@)] IN
     IF Head(scr.arrived) = "event" THEN Loop([s EXCEPT !.listeners = @ + 1])
     ELSE LET idle == [s EXCEPT !.op = "none", !.listeners = @ + 1]
          IN Loop(IF s.action # "none" THEN Continued(idle) ELSE NextTurn(idle))

\* Mutant: the end of a turn leaves what was queued.
HandleTurnOnly ==
  /\ scr.arrived # <<>>
  /\ LET s == [scr EXCEPT !.arrived = Tail(@)] IN
     IF Head(scr.arrived) = "event" THEN Loop([s EXCEPT !.listeners = @ + 1])
     ELSE Loop(Continued([s EXCEPT !.op = "none"]))

HandleTurn ==
  /\ scr.arrived # <<>>
  /\ LET s == [scr EXCEPT !.arrived = Tail(@)] IN
     IF Head(scr.arrived) = "event" THEN Loop([s EXCEPT !.listeners = @ + 1])
     ELSE LET idle == [s EXCEPT !.op = "none"]
          IN Loop(IF s.action # "none" THEN Continued(idle) ELSE NextTurn(idle))

Told(w) == scr.work[w] \in {"done", "failed"}
Taken(w) == [scr EXCEPT !.work[w] = "none"]

HandleShell == Told("shell") /\ Loop([Taken("shell") EXCEPT !.op = "none"])
HandleCompaction == Told("compaction") /\ Loop(NextTurn([Taken("compaction") EXCEPT !.op = "none"]))
HandleLogout == Told("logout") /\ Loop(Taken("logout"))

\* finishScopeSwitch gives a refused path back, or shows the menu it came from.
ScopeFinished ==
  LET s == [Taken("scope") EXCEPT !.prompt = FALSE]
  IN IF ~scr.prompt THEN s
     ELSE IF scr.work["scope"] = "failed" THEN [s EXCEPT !.field = "path"] ELSE [s EXCEPT !.picker = "scope"]
HandleScope == Told("scope") /\ Loop(Continued(ScopeFinished))

\* finishClearSession: a session that could not be made leaves the old one.
HandleClear ==
  /\ Told("clear")
  /\ Loop([Taken("clear") EXCEPT !.op = "none", !.action = "none",
             !.queue = IF scr.work["clear"] = "done" THEN 0 ELSE @,
             !.refused = @ \/ scr.work["clear"] = "failed"])

\* resumeSession runs in the event loop, whatever was started since it was asked for.
HandleResume ==
  /\ scr.resume > 0
  /\ Loop([scr EXCEPT !.resume = @ - 1, !.install["resume"].at = "begin",
                      !.overtaken = @ \cup {w \in Work : Busy(w)}])

Messages ==
  HandleTurn \/ HandleShell \/ HandleCompaction \/ HandleLogout \/ HandleScope \/ HandleClear \/ HandleResume

-----------------------------------------------------------------------------
(* The application: a session is installed, then the old one retired. Clear  *)
(* has a goroutine of its own.                                               *)
Installing(by, at) == scr.install[by].at = at /\ scr.exit # "forced"
Step(s, by, at) == scr' = [s EXCEPT !.install[by].at = at]

ClearBegins == Active("clear") /\ scr.install["clear"].at = "none" /\ Step(scr, "clear", "begin")

\* What waits for the next turn is the runtime's, and goes with it.
InstallEnds(s, by, outcome) ==
  LET over == [s EXCEPT !.install[by] = NoInstall]
  IN scr' = IF by = "clear" THEN [over EXCEPT !.work["clear"] = outcome]
            ELSE IF outcome = "done" THEN [over EXCEPT !.queue = 0] ELSE over

\* session.Create, or OpenManaged, and what the new session starts from.
InstallBegins(by) ==
  /\ Installing(by, "begin") /\ Newest < MaxSessions
  /\ LET id == Newest + 1 IN
     scr' = [scr EXCEPT !.journals = @ \cup {id}, !.known[id] = scr.security,
               !.install[by] = [at |-> "load", id |-> id, old |-> scr.live, took |-> scr.security]]

\* Mutant: children that were loaded stay when jobs cannot be attached.
InstallFailsPlainly(by) ==
  /\ scr.install[by].at \in {"begin", "load", "attach"} /\ scr.exit # "forced"
  /\ LET i == scr.install[by]
     IN InstallEnds(IF i.at = "begin" THEN scr ELSE [scr EXCEPT !.journals = @ \ {i.id}], by, "failed")

\* Until the jobs of the session are attached, anything may fail.
InstallFails(by) ==
  /\ scr.install[by].at \in {"begin", "load", "attach"} /\ scr.exit # "forced"
  /\ LET i == scr.install[by]
     IN InstallEnds(IF i.at = "begin" THEN scr
                    ELSE [scr EXCEPT !.journals = @ \ {i.id}, !.children = @ \ {i.id}], by, "failed")

LoadChildren(by) ==
  Installing(by, "load") /\ Step([scr EXCEPT !.children = @ \cup {scr.install[by].id}], by, "attach")
AttachJobs(by) == Installing(by, "attach") /\ Step(scr, by, "publish")
Publish(by) ==
  /\ Installing(by, "publish")
  /\ Step([scr EXCEPT !.live = scr.install[by].id, !.childScope = scr.install[by].took], by, "retire")
Retire(by) ==
  /\ Installing(by, "retire")
  /\ LET old == scr.install[by].old
     IN InstallEnds([scr EXCEPT !.children = @ \ {old}, !.journals = @ \ {old}], by, "done")

Install ==
  \/ ClearBegins
  \/ \E by \in Installer : InstallBegins(by) \/ InstallFails(by) \/ LoadChildren(by) \/ AttachJobs(by)
                             \/ Publish(by) \/ Retire(by)

(* A change of the scope, on the session it found (applyFilesystemPolicy).    *)
Changing(at) == scr.change.at = at /\ Active("scope") /\ scr.exit # "forced"
ChangeEnds(s, outcome) == scr' = [s EXCEPT !.change = NoChange, !.work["scope"] = outcome]

Validate == Changing("begin") /\ scr' = [scr EXCEPT !.change.at = "check", !.change.on = scr.live]
ChangeFails == scr.change.at \in {"begin", "check", "set"} /\ Active("scope") /\ ChangeEnds(scr, "failed")
Check ==
  /\ Changing("check")
  /\ IF scr.live # scr.change.on THEN ChangeEnds(scr, "failed") ELSE scr' = [scr EXCEPT !.change.at = "set"]

\* Mutant: children that refuse leave the session with the new scope.
SetScopePlainly ==
  /\ Changing("set")
  /\ LET s == [scr EXCEPT !.known[scr.change.on] = scr.change.to]
     IN \/ ChangeEnds(s, "failed")
        \/ scr' = [s EXCEPT !.change.at = "publish", !.policy = scr.change.to, !.childScope = scr.change.to]

\* The boundary of process launches: the runtime, then the children, or neither.
SetScope ==
  /\ Changing("set")
  /\ scr' = [scr EXCEPT !.known[scr.change.on] = scr.change.to, !.change.at = "publish",
                        !.policy = scr.change.to, !.childScope = scr.change.to]

\* The preference may not be kept; the scope has changed all the same.
PublishScope == Changing("publish") /\ ChangeEnds([scr EXCEPT !.security = scr.change.to], "done")

Change == Validate \/ ChangeFails \/ Check \/ SetScope \/ PublishScope

\* Mutant: the journal is released first.
CloseAnyOrder == \E part \in {"children", "jobs", "journal"} :
  /\ scr.exit = "clean" /\ part \notin scr.closed
  /\ scr' = [scr EXCEPT !.closed = @ \cup {part},
                        !.journals = IF part = "journal" THEN @ \ {scr.live} ELSE @]

(* Close, when the screen has been left by its own choice (run).             *)
Close == \E part \in {"children", "jobs", "journal"} :
  /\ scr.exit = "clean" /\ part \notin scr.closed
  /\ part = "jobs" => "children" \in scr.closed
  /\ part = "journal" => "jobs" \in scr.closed
  /\ scr' = [scr EXCEPT !.closed = @ \cup {part},
                        !.journals = IF part = "journal" THEN @ \ {scr.live} ELSE @]

-----------------------------------------------------------------------------
Others == \E w \in {"shell", "compaction", "logout"} : WorkEnds(w)
Next == Keys \/ TurnTells \/ TurnEnds \/ Hear \/ Others \/ Messages \/ Install \/ Change \/ Close
Spec == Init /\ [][Next]_scr

CalledOff == \/ scr.work["turn"] = "cancelled" /\ TurnEnds
             \/ \E w \in {"shell", "compaction", "logout"} : scr.work[w] = "cancelled" /\ WorkEnds(w)

-----------------------------------------------------------------------------
(* Who leaves by choice leaves nothing at work behind, a change of the scope *)
(* or a credential that is being written included (continueSessionAction,    *)
(* handleKey): the application is closed under it otherwise.                 *)
LeavesNothing == scr.exit = "clean" => NoWork /\ scr.op = "none"

(* A session is cleared when no turn, command or change uses it              *)
(* (startSessionAction, continueSessionAction).                              *)
ClearedQuietly ==
  scr.install["clear"].at # "none" => \A w \in Work \ {"clear"} : ~Busy(w)

(* The same of every replacement: "Callers must serialize Close and session  *)
(* replacement with Run and with configuration changes" (application.go:26). *)
ReplacedQuietly ==
  \A by \in Installer : scr.install[by].at # "none" => \A w \in Work \ {by} : ~Active(w)

Installed == \A by \in Installer : scr.install[by].at = "none"

(* The scope that tools obey is the one the application shows and the one    *)
(* the session and its children were told, whenever nothing is changing it.  *)
(* Excepted is a session that was resumed under the change.                  *)
PolicyAgrees ==
  scr.exit = "no" /\ scr.change.at = "none" /\ Installed /\ "scope" \notin scr.overtaken =>
    scr.policy = scr.security /\ scr.known[scr.live] = scr.policy /\ scr.childScope = scr.policy

(* One goroutine waits for what a turn tells, none when there is no turn, so *)
(* that events are seen in their order and the end is the last (startTurn).  *)
TurnIsHeard == scr.listeners + Len(scr.arrived) = IF scr.op = "turn" THEN 1 ELSE 0

(* Input that waits has a turn or a compaction to wait for, unless a session *)
(* that was to be cleared could not be (agentDoneMsg, finishClearSession).   *)
NothingStranded ==
  scr.op = "none" /\ scr.action = "none" /\ scr.exit = "no" /\ ~scr.refused => scr.queue = 0

(* While a session is being left nothing asks for keys that are not taken,   *)
(* nor for what the application's locks protect (startSessionAction).        *)
NothingOpens == scr.action # "none" => scr.picker = "none" /\ scr.field = "text"

(* The session in use owns its journal and its children, and a session that  *)
(* was left or could not be installed owns nothing (installSession). Of two  *)
(* that were installed at once, one is left open.                            *)
SessionsOwn ==
  /\ Installed /\ scr.closed = {} /\ "clear" \notin scr.overtaken =>
       scr.journals = {scr.live} /\ scr.children = {scr.live}
  /\ scr.closed = {} => scr.live \in scr.journals

(* A journal is released last: whoever opens it next must not adopt work     *)
(* that is still being stopped (Application.Close).                          *)
ReleasedLast == "journal" \in scr.closed => {"children", "jobs"} \subseteq scr.closed

ScreenIsSound ==
  /\ LeavesNothing /\ ClearedQuietly /\ PolicyAgrees /\ TurnIsHeard
  /\ NothingStranded /\ NothingOpens /\ SessionsOwn /\ ReleasedLast

\* A session that is being left is left.
Leaving == scr.action # "none"
Left == scr.action = "none" \/ scr.exit # "no"
=============================================================================
