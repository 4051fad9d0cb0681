CONSTANTS
  Pages <- SmallPages
  Root = "home"
  Key <- SmallKey
  Acts <- SmallActs
  Hidden <- SmallHidden
  Leads <- SmallLeads
  Scrolls = {"scroll"}
  Surface <- SmallSurface
  OutOfScope = {"far"}
  Schedulers = {TRUE}
SPECIFICATION Spec
PROPERTY CaptureIsCurrent
