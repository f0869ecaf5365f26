SPECIFICATION RuntimeSpec
CONSTANTS
  NoTools = NoTools  NoCache = NoCache
  Servers <- TwoServers
  UpstreamTools <- OneTool
  CustomTools <- OneCustom
  MaxList = 1
INVARIANTS RegistriesMirrorSessions CacheFollows DisposeEmpties
CHECK_DEADLOCK FALSE
