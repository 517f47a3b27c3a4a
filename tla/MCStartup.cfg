SPECIFICATION FairSpec
CONSTANTS
  Languages = {"en", "vi", "ar"}
  Default = "en"
  MaxCalls = 4
  MaxRoutes = 3
INVARIANTS
  SettledOnTheLastTap
PROPERTIES
  SplashGivesWay
  TabsStay
