CONSTANTS
  ConfiguredRoots = {p}
  LateRoots = {q}
  Primary = p
  Ghost = Ghost
  Nothing = Nothing
  MaxEdits = 1
  MaxRequests = 3
  MaxFailed = 1
  MaxRestarts = 1
SPECIFICATION BridgeSpec
CHECK_DEADLOCK FALSE
INVARIANTS AnswersAsked
