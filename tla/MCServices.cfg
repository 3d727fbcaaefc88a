SPECIFICATION ServicesSpec
CONSTANTS
  Tasks = {t1}
  Executions = {c1, c2}
  CronOf <- EverySecond
  TimeOf <- FromTen
  MaxConcurrentRuns = 1
  None = None
  MaxMinute = 2
  MaxInstances = 2
  MaxFaults = 1
  MediaJob = {c1, c2}
  MaxMediaRestarts = 2
  MaxMediaFaults = 1
  Training = {c1, c2}
  OutputName <- OneName
  TrainingRequests <- Requests
  MaxTrainingRestarts = 1
  MaxTrainingFaults = 1
  i1 = i1
  i2 = i2
  i3 = i3
  Install = {i1, i2, i3}
  UserOf <- Installs
  ModelOf <- Wants
  DiffusersModel = {"diffusers"}
  RepoFiles <- Weights
  Host <- Machine
  MaxInstallers = 2
  n1 = n1
  n2 = n2
  Turn = {n1, n2}
  TurnRequests <- TurnKinds
  MaxRecordFaults = 1
  u1 = u1
  k1 = k1
  k2 = k2
  m1 = m1
  m2 = m2
  a0 = a0
  User = {u1, u2}
  Key = {k1, k2}
  Model = {m1, m2}
  Agent = {a0, a1}
  SystemAgent = {a0}
  Role = {"default", "image"}
  Unset = Unset
  KeyForm <- KeyRows
  ModelForm <- ModelRows
  KeyChange <- KeyChanges
  ModelChange <- ModelChanges
  BindRequest <- Bindings
  Call = {c1, c2}
  MaxCalls = 5
  fa = fa
  fb = fb
  File = {fa, fb}
  Path = {"a", "./a", "b", "out"}
  Symbol = {"p", "q", "x", "y", "NL", "P", "E", "e"}
  FileOf <- Spelt
  NL = "NL"
  NoFile = NoFile
  Texts <- Saves
  ChangeLists <- Changes
  MaxEdits = 2
  PathOrder <- FilesByPath
  TextLike = {fa, fb}
  PathWords <- WordsOf
  Manifest = {fb}
  ShortWords = {"x"}
  ToLower <- Lower
  Queries <- Asked
  MaxReadLength = 5
  MaxExcerpt = 3
  MaxContext = 4
  MaxContextFiles = 2
  MaxScan = 3
  MaxSearchHits = 3
  Dirs = {"root", "sub", "build"}
  Within <- Held
  Ignored = {"build"}
  Dangling = {"link"}
  MaxTreeEntries = 3
  Credential = {w1}
  Address = {x, y}
  Account = {p, q}
  Absent = Absent
  Visit = {c1, c2}
  MaxVisits = 4
  MaxVaultFaults = 1
  Request = {c1, c2}
  NoRequest = NoRequest
  self = self
  rt = rt
  twin = twin
  other = other
  Proc = {self, twin, rt, other}
  Self = self
  Runtime = rt
  PortOf <- Listens
  ServiceOf <- Answers
  Ports <- PortsOf
  Confirmations <- Confirmed
  MaxInstance = 3
  MaxRequests = 4
  Run = {"first", "second"}
  AskForms <- AsksOf
  AgentName = {"", "a"}
  Nobody = Nobody
  Memory = {1, 2, 3, 4}
  MemoryForm <- MemoryRows
  Learned <- Leavings
  MaxSteps = 3
  MaxHistory = 2
  MaxRecalled = 2
  Attachments <- Shots
  MaxMemoryCalls = 1
  MaxMemoryFaults = 1
  Member = {p1, p2}
  MemberName = {"n"}
  Token = {s1}
  Visitor = {c1, c2}
  MaxVisitorCalls = 4
  MaxMemberFaults = 1
  Without = Without
  Package = {"whole", "bare", "bad"}
  Contents <- Packed
  Uploader = {c1, c2}
  MaxUploads = 3
  MaxSkills = 2
  MaxSkillFaults = 1
  NoSkill = NoSkill
  Torn = Torn
  Item = {"a", "b", "plain"}
  IdOf <- IdsOf
  NoId = "none"
  Editor = {c1, c2}
  NoDraft = NoDraft
  MaxPrompts = 2
  MaxViews = 2
  MaxItems = 2
  v1 = v1
  v2 = v2
  v3 = v3
  v4 = v4
  Speaker = {u1, u2}
  Portrait = {v1, v2, v3, v4}
  PortraitForm <- Portraits
  MaxImage = 1
  MaxVideo = 3
  MaxAvatars = 2
  Caller = {c1, c2}
  MaxHandlers = 2
  MaxFileFaults = 1
SYMMETRY Symmetric
CONSTRAINT Followed
CHECK_DEADLOCK FALSE
INVARIANTS ServicesTypeOK RunsOnceReviewed MediaRowHonest TrainedOrEnded InstalledOnceAndWhole RecordedAsTold BindingsHold LinesAsNumbered ShownAsRead SecretFollowsRow RestartAsAsked AskedAsMeant AccountsKept SkillsApart PromptsKept AvatarsListed
PROPERTIES StartedAsAsked
