SPECIFICATION Spec
CONSTANTS
  None = None
  Txs = {"funding", "unilateral", "sweep", "htlc_tx", "second_sweep"}
  Spends <- MCSpends
  Commitments = {"unilateral"}
  Outputs <- MCOutputs
  FundingTx = "funding"
  SpliceTx = None
  MinDepth = 2
  MaxReorg = 2
  MaxHeight = 4
  MaxTxs = 1
  MaxOrphans = 0
INVARIANTS
  OutputsWatched
