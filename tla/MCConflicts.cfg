CONSTANTS
  Conflict = {c1, c2}
  Detected = {"CRITICAL", "MEDIUM"}
  User = {"ada", "rob"}
  RoleOf <- MCRoleOf
  Sent = {"open", "acknowledged", "resolved", "suppressed", "closed"}
  NoConflict = NoConflict
  None = None
  ToolName <- MCToolName
  Lower <- MCLower
  Tokens <- MCTokens
  Distance <- MCDistance
  Environment = {"dev", "prod", "lab"}
  NoEnvironment = "none"
  PolicyOf <- MCPolicyOf
  OrgOf <- MCOrgOf
  EnvNameOf <- MCEnvNameOf
  ApiKey = {"k1", "k2", "k3"}
  KeyOrg <- MCKeyOrg
  ToolDef <- MCToolDef
  Hits <- MCHits
  MaxActive = 2
  NoAnswer = NoAnswer
  Registered <- MCRegistered
  HandedOver <- MCHandedOver
  MaxConflicts = 2
  Answer <- MCAnswer
  Ballots <- MCBallots
  Advice <- MCAdvice
  ProbeCount = 2
  AdversarialCount = 1
  Raised = Raised
  Channels <- MCChannels
  ClassOf <- MCClassOf
  MinSeverity = "CRITICAL"
  RemoteName <- MCRemoteName
  Bare <- MCBare
  Long = {"long", "long ", "other"}
  Registrable = {"s"}
  Stripped <- MCStripped
  Definition <- MCDefinition
  NoSchema = "{}"
  MaxListed = 2

SPECIFICATION MCSpec

INVARIANTS
  TypeOK
  SettledHasResolver
  StagesAreSymmetric
  GateBlocksOnWorst
  ShortCircuitKeepsWorst
  FailuresAreIsolated
  RiskFollowsSeverity
  WorstIsNotified
  SyncConverges

PROPERTIES
  CriticalSuppressedByAdmin
  ScoreFallsOnlyByOpening
