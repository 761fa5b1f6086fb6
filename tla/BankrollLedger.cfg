SPECIFICATION Spec
CONSTANTS
  Wager = {w1, w2}
  NoWager = NoWager
  NoStake = NoStake
  Stakes = {3}
  Prices <- MCPrices
  MaxMoney = 9
  Balances = {4}
  Risks = {"Normal"}
  MaxRows = 4
SYMMETRY MCWagerSymmetry
INVARIANTS
  PostedIsTarget
  SummaryBalances
  LedgerIsAStatement
PROPERTIES
  ImplementsBankroll
