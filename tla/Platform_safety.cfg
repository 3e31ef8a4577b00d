CONSTANTS
  Talks = {t1, m1}
  Conversations = {t1}
  Requests = {r1, r2}
  Eraser = Eraser
  Nobody = Nobody
  RowIds = {1, 2, 3, 4}
  Instants = {1, 2}
  PageSize = 2
  Devices = {d1, d2}
  c1 = c1
  p1 = p1
  p2 = p2
  Callers = {c1, c2, c3}
  Proxies <- ProxyChain
  Garbage = Garbage
  MaxHits = 2
  Window = 2
  MaxKeys = 2
  LastSecond = 3
  MaxId = 2
  MaxStart = 2
  Answers <- Texts
  Chain = 2
  Deadline = 2
  Calls = {a1, a2}
  PoolSize = 1
  NoCall = NoCall
  Talked = {1, 2, 3}
  Started <- StartedAt
  Contents <- Samples
  Recent = 2
  TopErrors = 2
  TrendPoints = 2
  Instances = {i1, i2}
  Threads = {1, 2}
  Deployments <- Settings
  Features = {"turn"}
  CacheSize = 1
  MaxBuilds = 3
  Interval = 2
  Mailboxes = {b1}
  Clients = {k1, k2, k3}
  MaxResets = 2
  Tries <- Utterances
  NoScore = NoScore
  Probabilities = {NoScore, 0, 120}
SPECIFICATION PlatformSpec
SYMMETRY Symmetry
INVARIANTS
  SpeechErased
  ExportComplete
  LimitHolds
  SchemaIsRevisions
  ReplyIsOneAnswer
  VoiceFollowsText
  NoIdleConnection
  OrderlyProcesses
  CredentialsCurrent
  FairVerdicts
PROPERTIES
  OnlyAskedForChanges
  UpgradeKeepsLearners
  HonestReports
CHECK_DEADLOCK FALSE
