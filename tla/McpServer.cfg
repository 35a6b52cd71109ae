SPECIFICATION Spec
CONSTANTS
  Workers = {w1, w2}
  Credentials = {"k"}
  People = {"ann"}
  Contents <- NobodyOrBob
  Axes <- OneAxis
  CacheTime = 1
  ProviderTimeout = 1
  MaxChanges = 2
  Uids = {"d", "e"}
  Fields = {"title", "untyped"}
  Values = {0, 1}
  Folders = {"x", "y"}
  Operations <- DashboardCalls
  First <- Untouched
  MaxOutside = 1
  ApiDirectories <- ApiFiles
  AllowedMethods = {"POST"}
  Params = {"id"}
  Deployments <- TenantDeployments
  Searches <- LogCalls
  MaxWait = 3
  Interval = 1
  CallTime = 2
  Repositories <- PagedSources
  Limits <- ListLimits
  PageCap = 2
  Described = {"a", "b"}
  Batch = 2
  Environments <- TwoEnvironments
  Requested <- RequestedNames
  Lifetimes = {2, 4}
  Buffer = 2
  EndpointTimeout = 1
  MaxConns = 1
  MaxCrashes = 1
  SkillDirectories <- SkillFiles
  Context <- SkillContext
  Budget = 5
  Questions = {"blocks", "rates", "else"}
  Investigations = {"waf", "general-diagnostic", "lost"}
  Principals <- AnnsPrincipals
  Documents <- AnnsDocuments
  NoPolicy <- Off
  MaxEdits = 1
INVARIANTS TypeOK ListsCurrent ReportsAreTrue SlotsAreCalls SentAsChecked
INVARIANTS EmptyAnswersLeadOn OnlyAllowedTenants ReadsAreWhole SkillsAsPermitted SentAsConfigured
PROPERTIES WithdrawnExpires RefusedOnlyByRace EditsKeepTheRest CallsEnd
CHECK_DEADLOCK FALSE
