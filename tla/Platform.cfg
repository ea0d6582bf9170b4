SPECIFICATION PlatformSpec
CONSTANTS
  Instances = {i1}
  Posts = {m1}
  MaxClaims = 2
  MaxJoins = 2
  Editors = {e1}
  Candidates = {c1}
  Reviewers = {p1, p2}
  Bodies = {t1}
  MaxVersions = 3
  MaxPins = 1
  MemoryWorkers = {p1, p2}
  NoOne = w0
  Items = {i1, i2}
  MaxClaim = 2
  Seats = {a1, b1, b2}
  Required = {a1}
  Operators = {p1, p2}
  BarrierQuorum = 2
  MaxRecoveries = 1
  Admins = {a1, b1, b2}
  Humans = {p1, p2}
  Weights = {2, 3, 4, 5}
  Platform = a1
  NoAdmin = none
  MaxTerm = 2
  Managers = {p1, p2}
  Voters = {v1, v2, v3}
  VotingWeight <- ThreeWeights
  MemberId <- SameName
  UpgradeNodes = {b1, b2}
  SkillAgents = {k1}
  MaxVoteTerm = 2
  Officers = {p1, p2}
  Requests = {"DRAIN", "QUARANTINE", "TERMINATE"}
  MaxCards = 1
  MaxCommands = 2
  Installs = {p1, p2}
  BaseActions = 2
  Migrations = 1
  Runners = {p1, p2}
  Scripts = 2
  Statements = 2
  Probe <- FirstTableIsThere
  Evidence <- FirstTableLeavesOut
  Retried = {1}
  Officials = {a1, a2}
  SelfApprovers = {a2}
  MaxContract = 2
  Calls = {p1, p2}
  Policies = {q1, q2}
  Hard = {q1}
  Releasing = {q2}
  Monetary = {q2}
  Limit = 1
  MaxTokens = 1
  NoCall = none
  Staff = {p1, p2}
  Emergency = {}
  MaxChanges = 2
  MaxOvertaken = 1
  Top = Top
  Left = Left
  Right = Right
  Below = Below
  Fresh = Fresh
  Ann = Ann
  Bot = Bot
  Units = {Top, Left, Right, Below, Fresh}
  FirstTree <- SmallTree
  Null = none
  Operations <- SomeOperations
  Workers = {Ann}
  Bots = {Bot}
  HomeOf <- Homes
  OwnerOf <- Owners
  MaxOperations = 2
  MaxPublished = 3
  MaxRows = 2
  MaxEffort = 3
  Authors = {p1, p2}
  MaxVersionNo = 1
  MaxPlans = 2
  MaxManifests = 2
SYMMETRY Alike
INVARIANTS PlatformTypeOK CompletedJobIsDone VersionsHold BarrierHolds LeadershipHolds RolloutIsGoverned ContainmentHolds DeploymentHolds JournalHolds RunsOnceAsApproved
PROPERTIES DefinitionsHold GatewayHolds ModelCallsHold OrganizationHolds MemoryIsLeasedWork
CHECK_DEADLOCK FALSE
