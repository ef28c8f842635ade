CONSTANTS
  \* memories
  Turns = {t1, t2}
  Overrides = {o1, o2}
  Malformed = {o2}
  Enforcement <- MCEnforcement
  Contest = 1
  Expiry = 1
  MaxTime = 2
  MaxRecords = 2
  \* events
  Writers = {w1, w2}
  DenyReasons <- MCDenyReasons
  Limit = 2
  MaxEvents = 3
  \* context packs
  PackAgents = {a1, a2}
  RunOf <- MCRunOf
  Blockable = {a1}
  PackTurns = {t1, t2}
  PackFiles = {"f1", "f2"}
  FirstFiles <- MCFirstFiles
  MaxPacks = 2
  MaxEscalations = 2
  \* graph synchronisation
  Seeds <- MCSeeds
  Constrained = {"Entity", "SymbolDefinition", "DomainAnchor"}
  MaxProcesses = 4
  \* HTTP kernel
  Calls = {c1, c2}
  Keys = {k1, k2}
  MaxRetries = 1
  BaseBackoffMs = 1
  CacheTtlMs = 2
  MinIntervalMs = 2
  MaxMs = 7
  \* plans
  Plans <- MCPlans
  Memories <- MCMemories
  Bundles <- MCBundles
  NoBundle = NoBundle
  PackHashes = {"h1"}
  \* reads
  RepoPaths <- MCRepoPaths
  ReadForms = {"relative", "dotted", "absolute", "rooted"}
  PackLists <- MCPackLists
  Allowlists <- MCAllowlists
  PlanRoots <- MCPlanRoots
  OnDisk <- MCOnDisk
  MaxNames = 1
  \* initialize_work
  Sessions = {"s1", "s2"}
  Prompts = {{"migration"}}
  IndexText = {}
  InboxFiles = {"n1", "n2"}
  ContentOf <- MCContentOf
  RefText <- MCRefText
  IndexedFiles = {"i1"}
  AnchorsOf <- MCAnchorsOf
  Signals <- MCSignals
  Tickets <- MCTickets
  AllowedByPlan = {{"i1"}}
  MaxVerbs <- MCMaxVerbs
  Attachments <- MCAttachments
  \* seed facts
  SourceFiles <- MCSourceFiles
  FileContents <- MCFileContents
  LowerCase <- MCLowerCase
  Folders <- MCFolders
  IgnoredFolders <- MCIgnoredFolders
  UnanchoredFolders <- MCUnanchoredFolders
  ForcedAnchors <- MCForcedAnchors
  AnchorDepth = 1
  HeaderLimit = 5
  SearchLimit = 2
  MaxEdits = 1
SPECIFICATION ServicesSpec
INVARIANTS
  ServicesTypeOK
  RecordsAsWritten
  PromotedOnTime
  OverrideOnce
  RingIsLatest
  CopiesWithinDisk
  SiblingsAgree
  SyncedIsSeed
  NothingLeftOut
  SpacedUnlessTogether
  AnswerOfOwnKey
  VerdictIsSound
  InboxOnce
  ChainInOrder
  EdgesResolve
PROPERTIES
  PackNeverShrinks
  NamingDoesNotMatter
CHECK_DEADLOCK FALSE
