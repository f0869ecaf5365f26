SPECIFICATION DisclosureSpec
CONSTANTS
  NotListed = NotListed
  LowerCase <- InLowerCase
  d1 = d1  d2 = d2
  Clients <- TwoClients
  Servers <- ToolbxServer
  UpstreamTools <- TwoTools
  CustomTools <- OneCustom
  Disabled <- CustomIsDisabled
  MaxList = 1
CONSTRAINT SendsThatFail
VIEW StateView
SYMMETRY AnyClient
INVARIANTS ListedIsCallable ListAgreesWithCall StaleSessionIsTold
