SPECIFICATION GameSpec
CONSTANTS
  MaxRelease = 2
  MaxInstalls = 2
  Grace = 1
  StopTime = 1
  ModNames = {"a", "b", "c"}
  MaxVersion = 2
  Releases <- SmallPortal
  MaxDepth = 10
  MaxEdits = 2
  MaxWorlds = 2
  MaxClock = 4
  Window = 1
  DayLength = 4
  Intervals = {0, 2}
  ResetHours = {0}
  MaxOrders = 2
  Voters = {"u", "w", "m"}
  Selections = {"new-map", "save"}
  Strong = {"m"}
  Moderators = {"m"}
  VotesNeeded = 2
  MapCooldown = 2
  VoteCooldown = 1
  VoteExpire = 2
  MaxVoteChanges = 1
  MaxVotesPerMap = 2
  MaxTicks = 4
  MaxOps = 2
  Descriptions = {"x"}
  AnnounceDelay = 1
  Throttle = 1
  MaxUpdatesPerOp = 2
  MaxSecond = 3
  Senders = {g, h}
  Targets = {"embed", "other", "chat"}
  MaxMessages = 3
  ChanSize = 2
  MaxTokens = 1
  MaxErrors = 1
SYMMETRY SenderSymmetry
INVARIANTS
  GameTypeOK
  InstallSound
  WorldAsAsked
  ScheduleObeyed
  VotesDecide
  StatusTrue
  MessagesKept
PROPERTIES
  ModsSafe
CHECK_DEADLOCK FALSE
