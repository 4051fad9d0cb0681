CONSTANTS
  Pages <- SmallPages
  Root = "home"
  Key <- SmallKey
  Acts <- SmallActs
  Hidden <- SmallHidden
  Leads <- SmallLeads
  Scrolls = {"scroll"}
  Surface <- SmallSurface
  OutOfScope = {"far"}
  Schedulers = {TRUE, FALSE}
SPECIFICATION FairSpec
INVARIANT FrontierInOrder
PROPERTIES ActsOnParent AtMostOnce ExplorationEnds
