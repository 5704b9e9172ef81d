SPECIFICATION Spec
CONSTANTS
  None = None
  Txs = {"funding", "mutual", "splice"}
  Spends <- MCSpends
  Commitments = {"unilateral"}
  Outputs <- MCOutputs
  FundingTx = "funding"
  SpliceTx = "splice"
  MinDepth = 2
  MaxReorg = 2
  MaxHeight = 3
  MaxTxs = 1
  MaxOrphans = 0
INVARIANTS
  PushIsSafe
