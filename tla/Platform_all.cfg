\* Parts of the platform, each on its own.
SPECIFICATION Spec
CONSTANTS
  None = None
  \* tenants
  Tenant = {"tenant_main", "t"} MainTenant = "tenant_main" MainSlug = "main" Slugs = {"main", "slug"} Emails = {"e"}
  Permissions <- TenantPermissions Updates <- TenantUpdates TenantRequest = {1} Needs <- TenantNeeds
  AccessTokenTime = 1 TenantWindow = 1 MaxRequests = 2 MaxUsers = 1 MaxTokens = 1 TenantTime = 2
  \* row security
  Connection = {1, 2} Operation = {1, 2, 3, 4, 5} KindOf <- KindOfOperation UserOf <- UserOfOperation
  \* review queue
  Conflicts <- ReviewConflicts Decisions = {"y"} DaysOld = 1 MaxItems = 2 ReviewTime = 3
  \* zero trust
  Session = {"s"} Methods = {"mfa"} Addresses = {"10.0.0.999"} Factors <- TrustFactors Policies <- TrustPolicies
  Events <- TrustEvents Behaviours <- TrustBehaviours Hours = {8} SessionAge = 0 MaxLength = 2 TrustTime = 1
  \* gateways
  GatewayId = {"g"} Configs <- GatewayConfigs PassingRequest = {1, 2, 3} Arrivals <- GatewayRequests
  GatewayWindow = 1 ResponseAge = 1 MaxGateways = 2 GatewayTime = 2
  \* test cards: two runs, and a page of one card
  Load = {1, 2} Lines <- TestLines Names <- TestNames Numbers <- TestNumbers PageLimit = 1 MaxPageLimit = 100 MaxLoads = 2
  \* card statistics: two runs of the script, about midnight
  Calculation = {1, 2} Reader = {1} Today = Today Bin = Bin DayLength = 1 DayTime = 1 TodayTime = 1 BinTime = 1
  MaxCards = 1 StatisticsTime = 1
  \* start and shutdown: two requests, and a signal that comes twice
  ServedRequest = {1, 2} Handler = {1, 2} MaxRetries = 3
  \* rate limiting
  LimitedRequest = {1, 2, 3} User = {"u"} Tier = {"free", "premium"} PointsOf <- TierPoints Path = {"/login", "/"}
  Routes <- LimitedRoutes DefaultPoints = 3 DefaultDuration = 1 BlockDuration = 1 Second = 2 MaxCacheSize = 1
  FailPolicy = "open" LimitTime = 3
  \* identity: two proofs of two sessions
  Holder = {"s", "t"} Proofs <- IdentityProofs Patterns <- IdentityBehaviours Platforms = {"", "p"} PatternHours = {8, 23}
  PatternAge = 0 MaxProofs = 2 MaxPatterns = 1 IdentityTime = 1
  \* golden set
  GoldenBin = {1, 2} Sources <- Listings Entries <- GoldenEntries WeightOf <- WeightOfSource
  Modes = {"all", "core", "loose", "strict"} MinRecords = 2 SampleSize = 1 MaxProcesses = 3
INVARIANT ServedAsItsUser QueryRunsAsItsUser ActiveHasContext EveryRequestIsCounted DoneIsLoaded PagesMissNothing CachedRowIsTheRow PlanIsComplete ExitIsClean RetryAfterHolds GoldenIsAgreed MeasuresAgree TrustIsEarned
PROPERTY EveryWorkflowEnds OpenIsKept StartAndStopEnd
CHECK_DEADLOCK FALSE
