SPECIFICATION MCSpec
CONSTANTS
  Parts = {"cloud", "file", "backup", "approve", "clock", "ledger", "life",
           "commit", "spend", "secrets", "keys", "device"}
  p = p  q = q  writer = writer  allow = allow  payload = payload
  Signers = {p, q}
  Primary = p
  Allowlist = allow
  DataKeys = {allow, payload}
  LAST_WRITER = writer
  LssWriters = {}
  MaxValues = 4
  MaxNet = 2
  Values <- MCValues
  MaxPuts = 4
  MaxWrites = 4
  MaxLosses = 2
  None = None  chanA = chanA  chanB = chanB  h1 = h1  h2 = h2
  Channels <- MCChannels
  Hashes <- MCHashes
  Requests <- MCRequests
  InHtlcs <- MCInHtlcs
  OutHtlcs <- MCOutHtlcs
  Interval = 2  NumBuckets = 2  NoLimit = 99
  IssuedAmount = 1  MaxFee = 0  MaxFeePercent = 10  CltvDelta = 1
  MaxInvoices = 2  NodeLimit = 3  ApproverLimit = 1
  KeysendExpiry = 1  IssuedExpiry = 1  InvoicePruneTime = 1  MinInvoiceExpiry = 1
  Ordered = TRUE
  LedgerTime = 2  MaxTime = 4  MaxSetbacks = 1  MaxRestarts = 1
  Dbids = {1, 2}  AllowEntries = {"e"}  ShutdownEntry = "e"
  MaxChannels = 1  StubPruneBlocks = 1
  AtomicStores = {TRUE, FALSE}
  MaxHeight = 2  MaxSplices = 1  MaxCrashes = 2
  policy <- MCPolicy
  U32 = 1000000000
  WalletPairs <- MCWallet
  AllowedPairs <- MCAllowed
  CommitSetups <- MCSetups
  CommitPrevs <- MCPrevs
  CommitAmounts = {0, 354, 1000, 3000}
  HtlcLists <- MCLists
  CommitFees = {200, 700, 5000}
  CommitRates = {253, 700}
  TxHashes = {"p", "q"}
  TxHeights = {4, 5, 6}
  CloseSetups <- MCClose
  CloseValues = {0, 900, 1000, 3000}
  CloseFees = {200, 1500, 4000}
  Scripts = {1, 2, 3}
  Paths = {0, 1}
  SweepOutputs <- MCOuts
  SweepSeqs <- MCSeqs
  SweepAmounts = {900, 1200, 1300, 1700, 5000}
  LockTimes = {0, 9, 12, 13}
  HtlcRates = {253, 254, 700, 1999, 2998, 2999, 3000}
  HtlcSats = {500, 2000, 3000}
  Descriptors <- MCDescriptors
  Bits = 4
  SeedsGiven = {1, 2}
  KeyStyles = {"native", "ldk", "lnd"}
  KeyDbids = {1}
  StartTimes = {1, 2}
  MaxDerived = 3  MaxStarts = 2
  CardNodes = {"n1"}
  Stored = {"node", "nodestate", "c1"}
  ChannelFiles = {"c1"}
  MaxVersion = 3  MaxCuts = 2  MaxTouches = 2
CONSTRAINT LateBound
INVARIANTS
  StoresAgree
  NothingLost
  
  LedgerHolds
  VelocityBounded
  RestartRestores
  NoReuse
  
  SecretsRecovered
  KeysKept
  CardHolds

  
CHECK_DEADLOCK FALSE
