\* The components that share no state with one another.
CONSTANTS
  Files <- MCFiles
  Roots <- MCRoots
  Keys <- MCKeys
  Name <- MCName
  Sources = {"v1", "v2"}
  Facts <- MCFacts
  KeyOrder <- MCKeyOrder
  FileOrder <- MCFileOrder
  None = None
  Threads = {t1, t2}
  Flushers = {t1}
  StoreFiles = {f1, f2}
  SourceHashes = {s1, s2}
  Nobody = Nobody
  MaxRetries = 3
  MaxOps = 3
  MaxClears = 1
  MaxFaults = 1
  NoCall = NoCall
  Eof = Eof
  MaxFailures = 2
  MaxLines = 2
  MaxCalls = 2
  ConfiguredRoots = {rootP}
  LateRoots = {rootQ}
  Primary = rootP
  Ghost = Ghost
  Nothing = Nothing
  MaxEdits = 1
  MaxRequests = 3
  MaxFailed = 1
  MaxRestarts = 1
  pathA = pathA
  pathAB = pathAB
  Paths = {pathA, pathAB}
  NoPath = NoPath
  PartOf <- MCPartOf
  MaxAgeTurns = 2
  PreserveFloor = 1
  MaxMessages = 4
  Tuples <- MCTuples
  Keyed = {"BODY"}
  MaxLen = 3
  MaxTotal = 10
  MaxVersions = 3
SPECIFICATION AllSpec
CHECK_DEADLOCK FALSE
INVARIANT IndexExact
INVARIANT CoverageHonest
INVARIANT IndexAnswersCurrent
INVARIANT IndexWitnessExact
INVARIANT IndexDependenciesExact
INVARIANT AcceptedOnceInOrder
INVARIANT ClearedStaysCleared
INVARIANT AnswersMatch
INVARIANT FreshAnswers
INVARIANT BreakpointsOrdered
INVARIANT SpliceExact
INVARIANT ReplicaExact
INVARIANT DeltaApplies
INVARIANT TotalsExact
INVARIANT HierarchyExact
PROPERTY StubsStay
