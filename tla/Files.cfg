SPECIFICATION Spec
CONSTANTS
  DocumentReaders = {"u", "anonymous"}
  Uploads = {"d"}
  MaxDocBytes = 2
  MaxExtracted = 5
  MarkerLen = 1
  InlineLimit = 4
  Bases = {"docs", "nvidia"}
  SharedBases = {"nvidia"}
  Words = {"x", "y", "z"}
  DocumentMaxEntries = 3
  MaxBatch = 3
  RetrievalSearches = {"s1", "s2"}
  Domains = {"k", "p"}
  Existing = {"k"}
  CallSlots = 1
  MetadataTTL = 1
  RetrievalMaxEntries = 1
  HitLists <- MCHits
  Cutoff = 2
  RankReplies <- MCReplies
  TopN = 1
  MinScore = 2
  Texts = {"t1", "t2", "t3"}
  EmbedSlots = 2
  MaxNow = 1
  MaxChanges = 1
  MaxFaults = 1
  ImageUsers = {"u", "v"}
  Pictures = {1, 2}
  MaxRefs = 2
  MaxFileSize = 2
  ImageMaxBytes = 2
  MaxEvents = 1
  MaxChunks = 2
  Signing = "local"
  GenerationModel = "gpt-image-2.6-sunburst"
  EditModel = "gpt-image-2.6-sunburst"
  MaxChosen = 1
  MaxEdits = 2
  Steps = {"p", "a", "x"}
  SandboxAsked <- MCAsked
  Capability <- MCCapability
  MaxTimeout = 2
  DefaultTimeout = 1
  MaxCommand = 2
  MaxReleases = 1
  SkillCalls = {"run", "l1", "l2"}
  SkillAsked <- MCSkillAsked
  Folders <- MCFolders
  Frontmatter <- MCFrontmatter
  DailyName = "daily"
  Bundled = {"r1"}
  Operations = {"list_skills", "load_skill", "run_skill_script"}
  AllowScripts = TRUE
  Extensions = {".py"}
  OutputLimit = 3
  SkillChunk = 2
  SkillMaxEdits = 1
  Rounds = {"r1", "r2"}
  Ideas = {"i1"}
  Edits = {"e1", "e2"}
  MaxForeign = 2
  MaxCommits = 4
  LoopIdeas = {"i1", "i2"}
  Cases = {"c1", "c2"}
  MaxRounds = 2
  MaxLoopRuns = 2
  MaxInterventions = 2
  PublicOrder <- MCPublic
  HeldoutOrder <- MCHeldout
  MaxSteps = 5
  MaxMeasures = 3
  MaxShifts = 1
  Library <- MCLibrary
  PinnedSkills = {"s1"}
  DecayDays = 1
  RuleTopK = 2
  Budget = 4
  Patterns = {"p1", "p2"}
  Sources = {"u1", "u2"}
  MaxDay = 3
  MaxPromotions = 3
INVARIANTS DocumentsKept ImagesSound ActsOnceAndWhole SkillsEarned
CHECK_DEADLOCK FALSE
