SPECIFICATION Spec
CONSTANTS
  Calls = 4 MaxActive = 2
  MaxAttempts = 2 Budget = 3 BaseDelay = 1 MaxDelay = 3 RetryAfter = 3 MaxShrinks = 1
  InputLimit = 8 VerbatimBudget = 3 CheckpointBudget = 2 ItemSize = 1 PrunedSize = 1
  ResultSizes = {1, 5} MaxRecords = 8 MaxCalls = 2
  Processes = 2 MaxFiles = 3 MaxWrites = 3
  Users = 2 MaxTokens = 3 MaxLogins = 1 MaxChanges = 1 MaxFaults = 1
  Models = 3 MaxHistory = 2 MaxSaves = 3
  Jobs = 1 MaxStrays = 1
  IdleLimit = 1 MinComments = 1 QuietLimit = 1 DrainLimit = 2
  MaxPieces = 2 MaxReports = 2
  MaxResponses = 2 MaxEpochs = 2 MaxInputs = 2
  MaxKeys = 3 MaxQueued = 1 MaxEvents = 1 ChannelSize = 1 MaxSessions = 3
  MaxAsked = 3 MaxSignIns = 2
  MaxPathChanges = 2 MaxMoves = 1 MaxStarts = 1
  Writers = 2 MaxTroubles = 1
  MaxPattern = 3 MaxPath = 4 MaxBraces = 5
  MaxRules = 2 MaxReplaced = 1
  MaxTranscript = 2 MaxDynamic = 2 Heights = {2, 3} MaxResizes = 1
  MaxExtras = 2 ScreenRows = 4
  MaxBlocks = 2 MaxRefusals = 2
  MaxOld = 5 MaxUpdated = 3 diffContextLines = 1 Distances = {1, 4} DisplayLimits = {4}
  MaxBytes = 5 BufferSize = 2 LineLimit = 1
  MaxSelected = 3 MaxUpsets = 2 MaxInterventions = 4
INVARIANTS
  TypeOK RunsAreSound AnswersAreSound StoreIsSound StateIsSound
  FilesAreSound JobsAreSound StreamIsSound TerminalIsSound
PROPERTIES
  StepsAreSound WorkEnds
CHECK_DEADLOCK FALSE
