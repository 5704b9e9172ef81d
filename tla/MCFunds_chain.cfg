SPECIFICATION FundsSpec
CONSTANTS
  Parts = {"chain", "onchain", "recovery", "trace", "signatures", "serial"}
  c1 = c1  c2 = c2  u1 = u1  u2 = u2
  None = None
  Txs = {"funding", "double_spend", "mutual", "unilateral", "htlc_tx", "second_sweep", "splice"}
  Spends <- MCSpends
  Commitments = {"unilateral"}
  Outputs <- MCHtlcOutput
  FundingTx = "funding"
  SpliceTx = "splice"
  MinDepth = 2
  MaxReorg = 2
  MaxHeight = 3
  MaxTxs = 2
  MaxOrphans = 1
  Withdrawals <- MCWithdrawals
  Funded <- MCFunded
  SplicedTo <- MCSpliced
  OnchainEntries <- MCEntries
  FeeLimit = 1  MaxCommit = 2  MaxOnchain = 2
  Nodes <- MCNodes
  Kind <- MCKind
  Htlcs <- MCHtlcs
  WalletOuts <- MCWalletOuts
  FeeInputs <- MCFeeInputs
  Delay = 2  SignerHeight = 0  ChunkSize = 2  LastHeight = 3  MaxWork = 4
  Traced = {"c1", "c2"}
  TraceLevel = 0
  Workloads <- MCWorkloads
  EraCount = 3
  MaxSinks = 2
  Connections = {"c1"}
  Bodies = {"x"}
  Wrap = 2  CacheSize = 1  CacheTTL = 1
  MaxNow = 1  MaxAsked = 4  MaxProxies = 2
  EraValues = {100, 200}
  EraKeys = {"k1", "k2"}
  ChannelTypes = {"static", "anchors"}
  HolderDelay = 5  CounterpartyDelay = 7
  HtlcValue = 10  MainValue = 50  MaxEras = 4
CONSTRAINT OneConcern
INVARIANTS
  TrackerDurable
  ChainViewTrue
  
  
  TraceReadable
  SignaturesSpend
  SerialPairs
PROPERTIES
  PruneIsFinal
