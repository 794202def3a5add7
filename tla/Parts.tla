-------------------------------- MODULE Parts --------------------------------
(***************************************************************************)
(* The parts of the program that share no state while they work, side by   *)
(* side: the initial state chooses one of them, so that the states of a    *)
(* run are the sum of theirs and not the product.  A property is explained *)
(* where the part states it.                                               *)
(***************************************************************************)
EXTENDS ConcurrentParts

CONSTANTS InputLimit, VerbatimBudget, CheckpointBudget, ItemSize, PrunedSize,
          ResultSizes, MaxRecords, MaxCalls
CONSTANTS Models, MaxHistory, MaxSaves
CONSTANTS MaxPieces, MaxReports
CONSTANTS MaxResponses, MaxEpochs, MaxInputs
CONSTANTS MaxKeys, MaxQueued, MaxEvents, ChannelSize, MaxSessions
CONSTANTS MaxAsked, MaxSignIns
CONSTANTS MaxPathChanges, MaxMoves, MaxStarts
CONSTANTS Writers, MaxTroubles
CONSTANTS MaxPattern, MaxPath, MaxBraces
CONSTANTS MaxRules, MaxReplaced
CONSTANTS MaxTranscript, MaxDynamic, Heights, MaxResizes
CONSTANTS MaxExtras, ScreenRows
CONSTANTS MaxBlocks, MaxRefusals
CONSTANTS MaxOld, MaxUpdated, diffContextLines, Distances, DisplayLimits
CONSTANTS MaxBytes, BufferSize, LineLimit
CONSTANTS MaxSelected, MaxUpsets, MaxInterventions

vars == <<part, state>>

Context == INSTANCE ContextMaintenance WITH session <- state
Preferences == INSTANCE Preferences WITH prefs <- state
Completion == INSTANCE Completions WITH ans <- state
History == INSTANCE ProviderHistory WITH conv <- state
Terminal == INSTANCE Screen WITH scr <- state
Login == INSTANCE SignIn WITH si <- state
Policy == INSTANCE FilesystemPolicy WITH fs <- state
Tools == INSTANCE FileTools WITH ft <- state
Globs == INSTANCE Globs WITH gm <- state
Search == INSTANCE FileSearch WITH fw <- state
Drawing == INSTANCE Renderer WITH rd <- state
Blocks == INSTANCE Transcript WITH ts <- state
Streaming == INSTANCE AnswerStream WITH ap <- state
Diff == INSTANCE FileDiff WITH df <- state
Scan == INSTANCE TextScan WITH sc <- state
Attached == INSTANCE Skills WITH sk <- state

Init ==
  \/ part = "batch" /\ Batch!Init
  \/ part = "request" /\ Request!Init
  \/ part = "context" /\ Context!Init
  \/ part = "store" /\ Store!Init
  \/ part = "credentials" /\ Credentials!Init
  \/ part = "preferences" /\ Preferences!Init
  \/ part = "jobs" /\ Commands!Init
  \/ part = "stream" /\ Stream!Init
  \/ part = "completion" /\ Completion!Init
  \/ part = "history" /\ History!Init
  \/ part = "screen" /\ Terminal!Init
  \/ part = "signin" /\ Login!Init
  \/ part = "paths" /\ Policy!Init
  \/ part = "tools" /\ Tools!Init
  \/ part = "globs" /\ Globs!Init
  \/ part = "search" /\ Search!Init
  \/ part = "renderer" /\ Drawing!Init
  \/ part = "transcript" /\ Blocks!Init
  \/ part = "answer" /\ Streaming!Init
  \/ part = "diff" /\ Diff!Init
  \/ part = "scan" /\ Scan!Init
  \/ part = "skills" /\ Attached!Init

Next ==
  /\ UNCHANGED part
  /\ \/ part = "batch" /\ Batch!Next
     \/ part = "request" /\ Request!Next
     \/ part = "context" /\ Context!Next
     \/ part = "store" /\ Store!Next
     \/ part = "credentials" /\ Credentials!Next
     \/ part = "preferences" /\ Preferences!Next
     \/ part = "jobs" /\ Commands!Next
     \/ part = "stream" /\ Stream!Next
     \/ part = "completion" /\ Completion!Next
     \/ part = "history" /\ History!Next
     \/ part = "screen" /\ Terminal!Next
     \/ part = "signin" /\ Login!Next
     \/ part = "paths" /\ Policy!Next
     \/ part = "tools" /\ Tools!Next
     \/ part = "globs" /\ Globs!Next
     \/ part = "search" /\ Search!Next
     \/ part = "renderer" /\ Drawing!Next
     \/ part = "transcript" /\ Blocks!Next
     \/ part = "answer" /\ Streaming!Next
     \/ part = "diff" /\ Diff!Next
     \/ part = "scan" /\ Scan!Next
     \/ part = "skills" /\ Attached!Next

\* What is fair is said where a part states it; as only one part is at work, the
\* first fair action of each may be stated together, and so may the others.
FairStrongly1 ==
  /\ UNCHANGED part
  /\ \/ part = "jobs" /\ (\E c \in 1..Jobs : Commands!Kill(c))

Fair1 ==
  /\ UNCHANGED part
  /\ \/ part = "batch" /\ Batch!Step
     \/ part = "request" /\ Request!Step
     \/ part = "jobs" /\ (\E c \in 1..Jobs : Commands!Monitor(c))
     \/ part = "stream" /\ Stream!Steps
     \/ part = "screen" /\ Terminal!Messages

Fair2 ==
  /\ UNCHANGED part
  /\ \/ part = "batch" /\ (\E c \in 1..Calls : Batch!Ends(c))
     \/ part = "request" /\ Request!Tick
     \/ part = "jobs" /\ (\E c \in 1..Jobs : Commands!Caller(c))
     \/ part = "stream" /\ Stream!Reads
     \/ part = "screen" /\ Terminal!Hear

Fair3 ==
  /\ UNCHANGED part
  /\ \/ part = "jobs" /\ (\E c \in 1..Jobs : Commands!Closer(c))
     \/ part = "stream" /\ Stream!TimerFires
     \/ part = "screen" /\ Terminal!Install

Fair4 ==
  /\ UNCHANGED part
  /\ \/ part = "stream" /\ Stream!Closed
     \/ part = "screen" /\ Terminal!Change

Fair5 ==
  /\ UNCHANGED part
  /\ \/ part = "stream" /\ Stream!Tick
     \/ part = "screen" /\ Terminal!CalledOff

Fairness == SF_vars(FairStrongly1) /\ WF_vars(Fair1) /\ WF_vars(Fair2) /\ WF_vars(Fair3) /\ WF_vars(Fair4) /\ WF_vars(Fair5)

Spec == Init /\ [][Next]_vars /\ Fairness

-----------------------------------------------------------------------------
(* The state of the part at work has its type.                               *)
TypeOK ==
  /\ part = "batch" => Batch!BatchTypeOK
  /\ part = "request" => Request!ReqTypeOK
  /\ part = "context" => Context!CtxTypeOK
  /\ part = "store" => Store!StoreTypeOK
  /\ part = "credentials" => Credentials!CredTypeOK
  /\ part = "preferences" => Preferences!PrefsTypeOK
  /\ part = "jobs" => Commands!JobsTypeOK
  /\ part = "stream" => Stream!StreamTypeOK
  /\ part = "completion" => Completion!AnsTypeOK
  /\ part = "history" => History!HistoryTypeOK
  /\ part = "screen" => Terminal!ScreenTypeOK
  /\ part = "signin" => Login!SignInTypeOK
  /\ part = "paths" => Policy!FilesTypeOK
  /\ part = "tools" => Tools!ToolsTypeOK
  /\ part = "globs" => Globs!GlobsTypeOK
  /\ part = "search" => Search!FilesTypeOK
  /\ part = "renderer" => Drawing!RendererTypeOK
  /\ part = "transcript" => Blocks!TranscriptTypeOK
  /\ part = "answer" => Streaming!AnswerTypeOK
  /\ part = "diff" => Diff!DiffTypeOK
  /\ part = "scan" => Scan!ScanTypeOK
  /\ part = "skills" => Attached!SkillsTypeOK

(* Whatever order tools end in, the journal tells of them in order, once,    *)
(* and of all (executeToolCalls). What a request returns, learns and leaves  *)
(* in the journal agree (completeRunRequest, finishModelAttempt).            *)
RunsAreSound ==
  /\ part = "batch" => Batch!BatchIsSound
  /\ part = "request" => Request!RequestIsSound

(* Pruning and compaction leave a conversation the model can go on with      *)
(* (contextBoundaries, commitCompaction). What an adapter returns of a       *)
(* stream is what the server said, whole, or cut and told so (Complete). A   *)
(* request pairs calls and results, and takes state to the model it came     *)
(* from (ProjectItems, buildMessages). A skill is what the user attached,    *)
(* for the model and for its tools (PrepareInput, withNewInstructions,       *)
(* modelItemsFromSequence, authorizeSkillPaths).                             *)
AnswersAreSound ==
  /\ part = "context" => Context!ContextIsSound
  /\ part = "completion" => Completion!CompletionsAreSound
  /\ part = "history" => History!HistoryIsSound
  /\ part = "skills" => Attached!SkillsAreSound

(* Whoever opens, writes, repairs, reads or deletes a journal beside others  *)
(* leaves it whole (openStore, Store.Append, Inspect, Delete).               *)
StoreIsSound == part = "store" => Store!StoreIsSound

(* Credentials survive what processes do to them at the same time            *)
(* (UpdateCredential, CurrentTokens).                                        *)
StateIsSound == part = "credentials" => Credentials!CredentialsAreSound

(* The model selected last leads a history without duplicates                *)
(* (pushModelHistory). Whatever a session adds, removes and protects,        *)
(* processes and tools are confined alike and the layers it does not own     *)
(* stay (AddDirectory, UnprotectPath, landlockPathsExcept). A call of edit   *)
(* or write replaces what it has read, inside the workspace, and nothing     *)
(* else (resolveWriteTarget, atomicReplace). A pattern matches what it says  *)
(* (matchSegments, expandBraces). A search finds what its ignore files and   *)
(* its glob say, in the order of the paths (walkDirectory,                   *)
(* childIgnoredParts). The change of a file that is shown is its change      *)
(* (myersLineDiff, buildDiffHunks). A search tells the lines of text files   *)
(* that match, and only those (validateTextFile, readBoundedLine).           *)
FilesAreSound ==
  /\ part = "preferences" => Preferences!PreferencesAreSound
  /\ part = "paths" => Policy!PolicyIsSound
  /\ part = "tools" => Tools!ToolsAreSound
  /\ part = "globs" => Globs!GlobsAreSound
  /\ part = "search" => Search!SearchIsSound
  /\ part = "diff" => Diff!DiffIsSound
  /\ part = "scan" => Scan!ScanIsSound

(* A command that is waited for, handed over, stopped, timed out and closed  *)
(* over is reported once and truly, and joined (monitor, stop,               *)
(* yieldForeground, AwaitRequiredJobs, Close).                               *)
JobsAreSound == part = "jobs" => Commands!JobsAreSound

(* What a server sends is delivered once, in order and to the end, while     *)
(* timers, the context and Close race for it (EventStream).                  *)
StreamIsSound == part = "stream" => Stream!StreamIsSound

(* A session is left or replaced by a screen with nothing at work, and the   *)
(* scope and the input of its user are kept (Update, startSessionAction,     *)
(* installSession). A login or a selection that was given up has no effect,  *)
(* and what the user is told of it is true (finishBrowserLogin,              *)
(* finishCredentialUpdate, switchModel). Nothing stale or doubled is on the  *)
(* terminal, and nothing is lost from it (RenderFrame, appendFrame,          *)
(* commitOutput, Stop). The transcript says what happened, and the terminal  *)
(* shows it, without a row that is stale (renderLinesFromDirty,              *)
(* discardAttempt, showModelRetry). What is on the terminal is the run's     *)
(* text and its calls, once, and its answer (projectTranscript,              *)
(* snapshotProgressBlocks, finishAnswer).                                    *)
TerminalIsSound ==
  /\ part = "screen" => Terminal!ScreenIsSound
  /\ part = "signin" => Login!SignInIsSound
  /\ part = "renderer" => Drawing!RendererIsSound
  /\ part = "transcript" => Blocks!TranscriptIsSound
  /\ part = "answer" => Streaming!StreamedIsSound

(* What a step may never do: shrinking a request makes it smaller            *)
(* (prepareRunRequestContext); a change of the interactive state touches its *)
(* own field only (mutate); how a job ended is decided once, and a job is    *)
(* known until then (monitor, forget); a drain ends a stream at its limit or *)
(* in quiet, idleness after silence, and no event is returned after the      *)
(* context ended (updateDrainLocked, Next); the model changes to what was    *)
(* asked for last (switchModel); a removal takes the entry it names          *)
(* (resolvePathRemoval).                                                     *)
StepsAreSound ==
  [][ /\ part = "context" => Context!Advances
      /\ part = "preferences" => Preferences!ChangesOwnField
      /\ part = "jobs" => Commands!EndsOnce
      /\ part = "stream" => Stream!EndsForCause
      /\ part = "signin" => Login!ChangesAsAsked
      /\ part = "paths" => Policy!RemovesWhatIsNamed ]_vars

Begun1 ==
  \/ part = "batch" /\ Batch!CalledOff
  \/ part = "request" /\ Request!Bounded
  \/ part = "jobs" /\ Commands!Leaving
  \/ part = "stream" /\ Stream!Draining
  \/ part = "screen" /\ Terminal!Leaving

Ended1 ==
  \/ part = "batch" /\ Batch!Done
  \/ part = "request" /\ Request!Done
  \/ part = "jobs" /\ Commands!Quiet
  \/ part = "stream" /\ Stream!StreamEnds
  \/ part = "screen" /\ Terminal!Left

Begun2 ==
  \/ part = "jobs" /\ Commands!CallOff
  \/ part = "stream" /\ Stream!Stopping

Ended2 ==
  \/ part = "jobs" /\ Commands!CalledBack
  \/ part = "stream" /\ Stream!IsClosed

(* What comes to an end: a cancelled batch (executeToolCalls); a request     *)
(* with a budget, or of a cancelled run, whatever the backend does           *)
(* (completeRequest); once the manager is closed no command that can be      *)
(* killed goes on (Close, start); a cancelled run's calls return (runBash);  *)
(* a drain ends the stream however much the server sends (BeginDrain);       *)
(* closing a stream ends its reader (Close); a session that is to be cleared *)
(* or left is (continueSessionAction).                                       *)
WorkEnds == (Begun1 ~> Ended1) /\ (Begun2 ~> Ended2)
=============================================================================
