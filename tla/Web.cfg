SPECIFICATION Spec
CONSTANTS
  Scrapers = {"a", "b"}
  ScrapeSlots = 2
  PolicyLife = 2
  MaxRedirects = 1
  ReaderHosts = TRUE
  TokenLimit = 3
  ParagraphShare = 40
  SentenceShare = 30
  NoteTokens = 1
  MaxPageLen = 5
  MaxScrapeClock = 3
  Phrases = {"a", "A", "b", ""}
  FoldOf <- MCFold
  MaxQueries = 2
  MaxRetries = 2
  MaxFound = 2
  DefaultFound = 1
  HaveKey = TRUE
  Reports = {"a", "b", "c"}
  PlaceOf <- MCPlaceOf
  WithObservations = {"a"}
  PointLife = 1
  PointCap = 1
  PendingCap = 1
  MaxHops = 3
  Horizon = 5
  MaxPeriods = 3
  MaxWeatherClock = 2
  Searches = {"s", "t"}
  Scopes = {"x", "y"}
  FeedOf <- MCFeedOf
  Discover = {"s"}
  FetchSlots = 1
  SnapshotLife = 1
  LongestArticle = 2
  ArticleLimit = 1
  Rankings <- MCRankings
  MaxFeedEntries = 1
  MaxFeedClock = 1
  Readers = {"c1", "c2", "c3"}
  Requests <- MCRequests
  Private = {"w"}
  Size <- MCSize
  MaxEntries = 2
  MaxBytes = 2
  MaxPending = 1
  Slots = 1
  MaxAttempts = 1
  MaxClock = 1
  Links = {"u", "v", "w", "x"}
  NoLink = "none"
  Unsafe = {"x"}
  LedgerItems <- MCLedgerItems
  Numbers = {1, 3, 4}
  MaxLines = 3
  Selections <- MCSelections
  Marker = 1
  Lengths = {5, 9, 14, 20}
  Limits = {7, 8, 10, 13}
  Shortest = 5
  Least = 6
  Callers = {"u", "v"}
  Results = {"r"}
  ResultLife = 1
  RetryAfter = 1
  MaxItems = 7
  MaxRows = 9
  MaxMarked = 2
  ExcerptChars = 8
  WindowCap = 2
  MaxArticle = 13
  ChunkChars = 2
  MaxMatches = 2
  ContextChars = 1
  QueryLen = 2
  MaxContent = 3
  MaxText = 7
  MaxHistory = 3
  HistoryTokens = 3
  ToolResults <- MCShrinking
  MinChars = 4
  MaxOriginal = 10
  MinifyGain = 1
  MinSavings = 3
  MaxRatio = 70
  MaxResultClock = 2
  Calls = {"c1", "c2"}
  Editions <- MCEditions
  PolicyDesks <- MCPolicyDesks
  RailDesks <- MCRailDesks
  MaxPhotos = 2
  EditionSchemas <- MCEditionSchemas
  MaxErrors = 2
  RunWorkers = {"w1", "w2"}
  Sections <- MCSections
  Mutable = {"memory"}
  Legacy <- MCLegacy
  MaxSection = 2
  RunPolicies <- MCPolicies
  SourceIds = {"web", "mail"}
  MaxCalls = 3
  RunRequest <- MCRequest
  RunGoals <- MCGoals
  PastRuns <- MCPastRuns
  RecentRuns = 1
  Feed <- MCFeed
  Shown = 2
  Chunks <- MCChunks
  MaxChunks = 2
  MaxParts = 3
  MaxRuns = 1
INVARIANTS WebHonest FactsHonest
PROPERTY ResultsKept
CHECK_DEADLOCK FALSE
