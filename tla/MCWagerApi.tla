---------------------------- MODULE MCWagerApi ----------------------------
(***************************************************************************)
(* WagerApi for TLC: two products of one week, of which the second moves a *)
(* lane's bet to another price, makes the next lane its duplicate and no   *)
(* longer bets on the third nor evaluates what it bet on; then a week      *)
(* more.                                                                   *)
(***************************************************************************)
EXTENDS WagerApi, TLC

CONSTANTS favourite, underdog, other

MCPrices == {-200, 150}
MCVersionOf == [p \in 0..MaxProduct |-> p \div 2]
MCLane == 1..3
MCOffer == {favourite, underdog, other}
MCPriceOf == [o \in MCOffer |-> IF o = favourite THEN -200 ELSE 150]
MCHeadlineOf == [p \in 0..MaxProduct |->
  IF p = 0 THEN <<favourite, underdog, other>> ELSE <<underdog, underdog, NoBet>>]
MCEvaluated == [p \in 0..MaxProduct |-> IF p = 0 THEN MCOffer ELSE MCOffer \ {other}]

Submits(version, card, status) ==
  [version |-> version, card |-> card, stake |-> 3, status |-> status]
MCForm == {Submits(0, 1, "OPEN"), Submits(0, 2, "OPEN"), Submits(0, 3, "WON"),
           Submits(0, other, "OPEN"), Submits(1, 1, "OPEN")}
MCSymmetry == Permutations(Wager) \cup Permutations(Req) \cup Permutations(Key)
===========================================================================
