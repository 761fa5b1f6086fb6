SPECIFICATION ApiSpec
CONSTANTS
  Wager = {w1, w2}
  NoWager = NoWager
  NoStake = NoStake
  Stakes = {3}
  Prices <- MCPrices
  MaxMoney = 9
  Balances = {4}
  Risks = {"Normal"}
  MaxRows = 2
  Req = {r1, r2}
  Key = {k1, k2}
  NoKey = NoKey
  MaxProduct = 2
  VersionOf <- MCVersionOf
  Lane <- MCLane
  Offer <- MCOffer
  NoBet = NoBet
  PriceOf <- MCPriceOf
  HeadlineOf <- MCHeadlineOf
  Evaluated <- MCEvaluated
  Form <- MCForm
  favourite = favourite
  underdog = underdog
  other = other
SYMMETRY MCSymmetry
INVARIANTS
  OneWagerPerKey
PROPERTIES
  ResendIsHarmless
