---------------------------- MODULE LiveProduct ----------------------------
(***************************************************************************)
(* A week of the live product.  A refresh buys the provider's response,    *)
(* keeps it, and builds and serves a product from it; readers have the     *)
(* backend evaluate offers against the product it serves; after the games  *)
(* the value lane learns from the rows last built before kickoff.  The     *)
(* provider's prices move all the while, so what is served is always the   *)
(* board of an earlier moment.                                             *)
(***************************************************************************)
EXTENDS Selectors

CONSTANTS
  Feeds,        \* the responses the provider may give
  Moves(_),     \* the responses that may follow one
  Trusts,       \* what the value lane may have learnt before the week
  Times,        \* when the first refresh may run
  Pause,        \* how long until the next refresh
  LastTime      \* when the games are over

\* A response is finite and its prices and lines are numbers.  A price beyond
\* 100000 has a break-even that ten-thousandths do not tell from 0 or 1.
ASSUME LiveAssumption ==
  /\ \A response \in Feeds :
       /\ IsFiniteSet(DOMAIN response)
       /\ \A i \in DOMAIN response :
            /\ IsFiniteSet(response[i].quotes)
            /\ \A q \in response[i].quotes :
                 /\ q.price \in Int /\ Abs(q.price) <= 100000
                 /\ {q.line, q.seen, q.bookSeen} \subseteq Int
  /\ \A response \in Feeds : Moves(response) \subseteq Feeds
  /\ \A state \in Trusts : \A seen \in {state.ml, state.spread} :
       seen.n \in Nat /\ {seen.predicted, seen.realized} \subseteq Int
  /\ Times \subseteq Int /\ Pause \in Nat /\ LastTime \in Int

VARIABLES
  now,
  feed,         \* what the provider would answer now
  capture,      \* the response bought last and not yet built from: No, or
                \* [response, at]
  served,       \* the product served: No, or [at, snapshot, rows,
                \* headlines, roofs]
  pregame,      \* the rows last built before the first kickoff
  trust

liveVars == <<now, feed, capture, served, pregame, trust>>

Kickoff == Min({g.kickoff : g \in Schedule})

LiveInit ==
  /\ now \in Times
  /\ feed \in Feeds
  /\ trust \in Trusts
  /\ capture = No
  /\ served = No
  /\ pregame = {}

MoveFeed ==
  /\ now < LastTime
  /\ capture = No
  /\ feed' \in Moves(feed)
  /\ now' = now + Pause
  /\ UNCHANGED <<capture, served, pregame, trust>>

\* The paid response is kept as a file before it is parsed.
AcquireLiveResponse ==
  /\ now < LastTime
  /\ served # No => served.at # now
  /\ capture = No
  /\ capture' = [response |-> feed, at |-> now]
  /\ UNCHANGED <<now, feed, served, pregame, trust>>

\* A response that cannot be matched or read ends the refresh: what was served
\* stays served.
RefuseCapture ==
  /\ capture # No
  /\ ~Normalizes(capture.response, capture.at)
  /\ capture' = No
  /\ now' = now + 1
  /\ UNCHANGED <<feed, served, pregame, trust>>

BuildProduct ==
  /\ capture # No
  /\ Normalizes(capture.response, capture.at)
  /\ LET snapshot == MarketSnapshot(capture.response, capture.at)
         rows == EvaluateCandidates(snapshot)
     IN /\ served' = [at |-> capture.at, snapshot |-> snapshot, rows |-> rows,
                      headlines |-> Headlines(rows, trust),
                      roofs |-> [g \in Schedule |-> RoofScenarios(g, MarketSnapshotIndex(snapshot[g.id], g))]]
        /\ pregame' = IF capture.at < Kickoff THEN rows ELSE pregame
  /\ capture' = No
  /\ UNCHANGED <<now, feed, trust>>

\* The week is over: its final rows are settled, once.
SettleWeek ==
  /\ now = LastTime
  /\ pregame # {}
  /\ \E won \in SUBSET {<<r.game, r.offer.market>> : r \in pregame} :
       LET first(r) == r.offer.side \in {"home", "over"}
           result == [r \in pregame |->
                        IF (<<r.game, r.offer.market>> \in won) = first(r) THEN "WIN" ELSE "LOSS"]
       IN trust' = AdvanceValueState(trust, pregame, result)
  /\ pregame' = {}
  /\ UNCHANGED <<now, feed, capture, served>>

LiveNext == MoveFeed \/ AcquireLiveResponse \/ RefuseCapture \/ BuildProduct \/ SettleWeek

LiveSpec == LiveInit /\ [][LiveNext]_liveVars

-----------------------------------------------------------------------------
\* ExactOfferEngine.evaluate: what the backend answers of an offer [market,
\* side, line, price] on a game of the product it serves.
EvaluateExactOffer(g, offer) ==
  LET board == served.snapshot[g.id]
      anchor == ServedAnchor(ServedIndex(board, g), offer.market)
      e == IF anchor = No THEN Unsupported(0) ELSE EvaluateOffer(Outputs(g.id), offer, anchor)
      reliability == Fit.reliability[offer.market]
      units == Units(e, reliability, offer.price)
  IN [supported |-> e.supported, q |-> e.q, units |-> units,
      verdict |-> IF ~e.supported THEN "UNSUPPORTED" ELSE IF units > 0 THEN "BET" ELSE "NO",
      through |-> IF e.supported THEN Threshold(PlayableTo(e, reliability)) ELSE Absent]

Lanes == {"hit_rate", "balanced", "value"}

HeadlineOf(lane) == served.headlines[lane]

\* A headline is an offer the served board shows for its game, at one of the
\* two books that can be bet, still fresh when the board was bought, with no
\* better number or price of that side on the board.  No lane presents a row the
\* evaluator does not support, nor a moneyline that a roof still to be reported
\* would change.
HeadlinesRestOnTheBoard ==
  served # No =>
    \A lane \in Lanes : HeadlineOf(lane).row # No =>
      LET h == HeadlineOf(lane).row
          g == CHOOSE x \in Schedule : x.id = h.game
          name == IF h.offer.side = "home" THEN g.home ELSE g.away
          quoted == {o \in served.snapshot[g.id] :
                       /\ o.market = h.offer.market /\ o.name = name
                       /\ o.book \in Actionable /\ served.at - o.seen <= Threshold900}
      IN /\ h.eval.supported
         /\ served.roofs[g] = "ROOF_SENSITIVE" => h.offer.market # "moneyline"
         /\ \E o \in quoted : o.price = h.offer.price /\ o.line = h.offer.line /\ o.book = h.offer.book
         /\ \A o \in quoted : \/ o.line < h.offer.line
                              \/ o.line = h.offer.line /\ o.price <= h.offer.price

\* The builder and the backend index the board and take its anchor in two
\* pieces of code.  Asked about the very offer a row of the served product is
\* about, the backend supports it exactly when the row does, gives it the same
\* probability, and bets it exactly when the row's own units say so.
EvaluatorsAgree ==
  served # No =>
    \A r \in served.rows :
      LET g == CHOOSE x \in Schedule : x.id = r.game
          answer == EvaluateExactOffer(g, r.offer)
      IN /\ answer.supported = r.eval.supported
         /\ answer.q = r.eval.q
         /\ answer.units = RowUnits(r)
         /\ r.status = "LEAN" => answer.verdict = "NO"

\* The prices a reader is told to wait for or to play down to.  The boundary
\* of a supported offer is one that would itself be bet or played, and the
\* next worse price is neither, but for an offer that wins more than 99 times
\* in a hundred, whose boundary stops at that.  A bet headline's own boundary
\* is a worse price than the current one, and in the value lane still worth
\* more than it costs; a price to wait for eases the break-even by a point,
\* and no more than a point and a half.
BoundariesPay ==
  served # No =>
    /\ \A r \in served.rows : r.eval.supported =>
         LET reliability == Fit.reliability[r.offer.market]
             boundary == Threshold(PlayableTo(r.eval, reliability))
             plays(price) == Status(r.eval, reliability, price) \in {"VALUE", "PLAYABLE"}
         IN plays(boundary) /\ (r.eval.q <= 9900 => ~plays(NextWorse(boundary)))
    /\ \A lane \in Lanes :
         LET h == HeadlineOf(lane)
         IN /\ h.through # Absent =>
                 /\ h.state = "BET" /\ h.through < Odds(h.row)
                 /\ lane = "value" => Worth(h.row.eval.q, h.through) > 0
            /\ h.valueAt # Absent =>
                 /\ h.state = "TARGET_ONLY"
                 /\ Worth(h.row.eval.q, Odds(h.row)) > 0
                 /\ Eases(Odds(h.row), h.valueAt, 1, 100)
                 /\ EasesAtMost(Odds(h.row), h.valueAt, 15, 1000)

=============================================================================
