SPECIFICATION MCFairSpec
CONSTANTS
  Parts = {"follower", "session", "client", "transport", "locks", "lnrod"}
  MaxHeight = 3
  MaxReorgs = 2
  MaxReorg = 2
  Chunks = 2
  Streams = {TRUE, FALSE}
  MaxFaults = 2
  SignerMax = {4, 6}
  NodeRanges <- MCRanges
  OtherRoot <- MCRoot
  OtherChannel <- MCChannel
  Refusable <- MCRefusable
  Hot = FALSE
  MaxNum = 2
  MaxBreaks = 3
  Sides <- MCSides
  LastCommit = 3
  MaxRestarts = 2
  root = root
  child = child
  front = front
  Clients = {root, child, front}
  Root = root
  Fronts = {front}
  MaxCalls <- MCMaxCalls
  MaxTries = 1
  MaxConns = 2
  Overlap = FALSE
  c1 = c1
  c2 = c2
  stream = stream
  chain = chain
  admin = admin
  NoThread = NoThread
  Threads = {stream, chain, admin}
  Slots <- MCSlots
  Work <- MCWork
  MaxOps <- MCMaxOps
  Closes = {TRUE, FALSE}
  LnChannels = {"c1"}
  Invoices = {"i1"}
  Outgoing = {"o1"}
  MaxPays = 2
  MaxFinal = 2
  MaxLnCrashes = 1
  LnUses = {{"channels"}, {"invoices", "payments"}}
INVARIANTS
  
  LocksOrdered
  
  ClientKeepsUp
  
PROPERTIES
  
  OperationsEnd
  FollowerLives
  ChannelAdvances
CHECK_DEADLOCK FALSE
