SPECIFICATION Spec
CONSTANTS
  None = None
  f1 = f1
  f2 = f2
  f3 = f3
  i1 = i1
  i2 = i2
  s1 = s1
  s2 = s2
  InitFunding = f1
  ChannelValue <- MCChannelValue
  Total <- MCTotal
  Fundings = {f1, f2, f3}
  ValidSetups = {f1, f2}
  Infos = {i1, i2}
  Seeds = {s1}
  MaxNum = 3
  MaxSplices = 2
  MaxHolder = 3
  MaxCloseSigned = 1
  MaxCpSigned = 0
CONSTRAINT HistoryBound
INVARIANTS
  ReleasedBehind
  BoundedAfterClose
  SlotsInStep
  DurableCounters
