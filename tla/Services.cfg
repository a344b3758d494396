SPECIFICATION Spec
CONSTANTS
  Turns = {"t1"}
  Retains = {"n1"}
  Clears = {"k1"}
  Homes = {"a", "b"}
  Home <- MCHome
  Pages = {"profile"}
  MaxMemoryFaults = 2
  Owners = {"alice", "bob"}
  Stranger = "stranger"
  Units = {1, 2}
  Room = 7
  Longest = 3
  TopK = 1
  BriefingTopK = 2
  Replicas = {"a", "b"}
  Workers = {"a1", "b1"}
  At <- MCAt
  MaxConsents = 2
  MaxTokens = 3
  Users = {"alice"}
  Calls = {"drain", "list"}
  Destructive = {"drain"}
  Chats = {"p1"}
  Background = {"b1"}
  Routes = {"r1", "r2"}
  Devices = {"d1", "d2"}
  Capacity = 1
  MaxFaults = 1
  ReceiptCalls = {"z1", "z2", "p1"}
  Args <- MCArgs
  Rows = {"p", "q", "r"}
  Strays = {"x"}
  Inventories = {"full", "less", "two"}
  Ambiguous = {"two"}
  AutoId = TRUE
  MaxCommands = 3
  MaxCrashes = 1
  Imports = {"i1", "i2", "i3"}
  Mode <- MCMode
  Labels <- MCLabels
  OldProfile <- MCOld
  InventoryPage = 1
  InventoryMax = 2
  TurnSizes <- MCTurns
  MaxTurnChars = 8
  MaxPartChars = 6
  MaxStoreFaults = 1
  MaxForgets = 1
  Files = {"root", "mid", "bottom", "whole"}
  NoFile = "NoFile"
  Root = "root"
  Deployments <- MCDeployments
  Defines <- MCDefines
  Retired = {"user_interaction"}
  Factories = {"nat_nv_ingest"}
  Uploads = "uploads"
  MaxDepth = 3
  MaxIterations = 2
  MaxRetries = 2
  MaxTimeout = 2
  ServerTools <- MCServerTools
  Fold <- MCFold
  Undescribed = {}
  Required = {"g1"}
  IdleTicks = 1
  StartupMaxFaults = 1
  MaxTicks = 2
  AccessRequests = {"r1", "r2"}
  AccessConnection <- MCConnection
  AccessUsers = {"u1"}
  NoUser = "nobody"
  AccessDeployments <- MCAccessDeployments
  Workflow = {"t1", "g"}
  GroupOf <- MCGroupOf
  Contract <- MCContract
  AccessEnabled = {"execute", "write"}
  Fields <- MCFields
  MayBeEmpty = {"content"}
  Arguments <- MCArguments
  Runs = {"n1", "n2"}
  Paths = {"p1"}
  FeedCandidates <- MCCandidates
  Digits <- MCDigits
  Dedupe = TRUE
  Caps = {1, 3}
  Window = 1
  MaxBatch = 2
  MaxItems = 3
  MaxClock = 2
  Makers = {"m1", "m2", "m3"}
  Ensuring = {"m1", "m2"}
  MaxKills = 1
  McpServers <- MCServers
  OtherProbes <- MCOther
  Tools = {"read", "list"}
  MaxRotations = 2
  ImageInventories <- MCImageInventories
  Cases <- MCCases
  Workload <- MCSuite
  Repetitions = 1
  Overlays <- MCOverlays
  Streams <- MCStreams
  HeardEvents <- MCHeard
  MaxHeard = 4
  MaxModelCalls = 1
  MaxDrifts = 2
  PerStratum = 2
  LiveStrata = 2
  LiveRepetitions = 3
  ErrorClasses = {"ConnectError", "ReadTimeout"}
  Sources = {"alpha", "bravo"}
  MissingSource = "charlie"
  Reads <- MCReads
  MaxReads = 6
INVARIANTS ActsAuthorised MemoryKept
PROPERTIES ServiceSound NoUnapprovedChange
CHECK_DEADLOCK FALSE
