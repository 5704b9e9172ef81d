SPECIFICATION Spec
CONSTANTS
  None = None
  f1 = f1
  f2 = f2
  f3 = f3
  i1 = i1
  i2 = i2
  s1 = s1
  s2 = s2
  InitFunding = f1
  ChannelValue <- MCChannelValue
  Total <- MCTotal
  Fundings = {f1, f2}
  ValidSetups = {f1, f2}
  Infos = {i1}
  Seeds = {s1}
  MaxNum = 3
  MaxSplices = 1
  MaxHolder = 1
  MaxCloseSigned = 0
  MaxCpSigned = 6
CONSTRAINT HistoryBound
INVARIANTS
  CounterpartyWindow
  RevokedSecretsKept
PROPERTIES
  ImplementsProtocol
