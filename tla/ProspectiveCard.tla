------------------------- MODULE ProspectiveCard -------------------------
(***************************************************************************)
(* What prospective/derive_v1.py and results_v1.py derive from a week's    *)
(* publications: the episodes a recommendation lived in, the official      *)
(* state of every lane and game before its kickoff, and the portfolio.     *)
(*                                                                         *)
(* A history is a sequence of publications ordered by published_at_utc,    *)
(* then by identity.  A lane shows a row, or none when it names no game.   *)
(***************************************************************************)
EXTENDS Naturals, Sequences, SequencesExt, FiniteSetsExt

CONSTANTS
  Lane,
  Rank,           \* position of a lane in LANE_ORDER
  Row,            \* [game, pick, price, state, kick]: what a lane may show
  NoRow

ASSUME CardAssumption ==
  /\ Rank \in [Lane -> Nat]
  /\ \A l, m \in Lane : Rank[l] = Rank[m] => l = m
  /\ \A row \in Row : row.state \in {"BET", "TARGET_ONLY"} /\ row.kick \in Nat
  /\ NoRow \notin Row

\* A publication is [id, at, boundary, lanes]: lanes maps every lane to its row or
\* NoRow, boundary is source_week_last_kickoff_at_utc, over all games of the product.

\* logical_identity leaves the line and the price out, exact_offer_tuple not.
Logical(row) == <<row.game, row.pick>>
ExactOffer(row) == <<row.game, row.pick, row.price>>

Played(p) == {l \in Lane : p.lanes[l] # NoRow}
Games(h) == UNION {{h[i].lanes[l].game : l \in Played(h[i])} : i \in 1..Len(h)}

----------------------------------------------------------------------------
\* The duplicates build_publication_snapshot marks on a card: a BET that the
\* first lane in LANE_ORDER shows with the same exact offer.
Duplicates(p, l) ==
  {m \in Lane : /\ p.lanes[l] # NoRow /\ p.lanes[m] # NoRow
                /\ p.lanes[l].state = "BET" /\ p.lanes[m].state = "BET"
                /\ ExactOffer(p.lanes[m]) = ExactOffer(p.lanes[l])}
First(lanes) == CHOOSE l \in lanes : \A m \in lanes : Rank[l] <= Rank[m]
DuplicateOf(p, l) == IF Duplicates(p, l) = {} THEN l ELSE First(Duplicates(p, l))

----------------------------------------------------------------------------
\* derive_episodes, one lane at a time: open is the episode under way.
NoEpisode == [observed |-> {}]

Close(acc, reason) ==
  IF acc.open = NoEpisode THEN acc
  ELSE [acc EXCEPT !.open = NoEpisode,
                   !.closed = @ \cup {[reason |-> reason, logical |-> acc.open.logical,
                                       observed |-> acc.open.observed,
                                       returned |-> acc.open.returned]}]

\* Mutant: any recommendation continues the episode.
ContinuesAlways(acc, row) == acc.open # NoEpisode

Continues(acc, row) ==
  acc.open # NoEpisode /\ acc.open.logical = Logical(row)

Opened(acc, row) ==
  [acc EXCEPT !.open = [logical |-> Logical(row), observed |-> {},
                        returned |-> Logical(row) \in acc.seen],
              !.seen = @ \cup {Logical(row)}]

Noted(acc, row, i) ==
  LET current == IF Continues(acc, row) THEN acc
                 ELSE Opened(Close(acc, "REPLACED"), row)
  IN [current EXCEPT !.open.observed = @ \cup {i}]

EpisodesOf(h, l) ==
  LET Observe(acc, i) ==
        IF h[i].lanes[l] = NoRow THEN Close(acc, "DISAPPEARED")
        ELSE Noted(acc, h[i].lanes[l], i)
      start == [open |-> NoEpisode, closed |-> {}, seen |-> {}]
      end == FoldLeft(Observe, start, [i \in 1..Len(h) |-> i])
  IN Close(end, "WEEK_HISTORY_END").closed

----------------------------------------------------------------------------
\* resolve_official.
Shows(p, l, g) == p.lanes[l] # NoRow /\ p.lanes[l].game = g

Candidates(h) ==
  {c \in Lane \X Games(h) : \E i \in 1..Len(h) : Shows(h[i], c[1], c[2])}

\* A game moved between two publications: resolve_official raises.
KickoffDrift(h) ==
  \E c \in Candidates(h) : \E i, j \in 1..Len(h) :
    /\ Shows(h[i], c[1], c[2]) /\ Shows(h[j], c[1], c[2])
    /\ h[i].lanes[c[1]].kick # h[j].lanes[c[1]].kick

\* The kickoff of the first publication that shows the game in the lane.
KickoffOf(h, c) ==
  h[Min({i \in 1..Len(h) : Shows(h[i], c[1], c[2])})].lanes[c[1]].kick

\* Mutant: a publication at the kickoff is still eligible.
EligibleAtKickoff(h, c) == {i \in 1..Len(h) : h[i].at <= KickoffOf(h, c)}

Eligible(h, c) == {i \in 1..Len(h) : h[i].at < KickoffOf(h, c)}

Unresolved == [state |-> "NO_ELIGIBLE_PREKICK_PUBLICATION", source |-> 0,
               wager |-> NoRow, first |-> 0]

Resolution(h, c) ==
  LET final == Max(Eligible(h, c))
      row == h[final].lanes[c[1]]
      same == {i \in Eligible(h, c) : /\ h[i].lanes[c[1]] # NoRow
                                      /\ Logical(h[i].lanes[c[1]]) = Logical(row)}
  IN CASE Eligible(h, c) = {} -> Unresolved
       [] Eligible(h, c) # {} /\ ~Shows(h[final], c[1], c[2]) ->
            [state |-> "OFFICIAL_NO_PLAY_OR_REPLACED", source |-> h[final].id,
             wager |-> NoRow, first |-> 0]
       [] Eligible(h, c) # {} /\ Shows(h[final], c[1], c[2]) ->
            IF row.state = "BET"
              THEN [state |-> "OFFICIAL_BET", source |-> h[final].id,
                    wager |-> row, first |-> h[Min(same)].id]
              ELSE [state |-> "OFFICIAL_TARGET_ONLY", source |-> h[final].id,
                    wager |-> NoRow, first |-> 0]

\* What a lane's game comes to.
Resolutions ==
  [state: {"NO_ELIGIBLE_PREKICK_PUBLICATION", "OFFICIAL_NO_PLAY_OR_REPLACED",
           "OFFICIAL_BET", "OFFICIAL_TARGET_ONLY"},
   source: Nat, wager: Row \cup {NoRow}, first: Nat]

Official(h) == [c \in Candidates(h) |-> Resolution(h, c)]

Wagers(official) == {c \in DOMAIN official : official[c].wager # NoRow}

\* Mutant: wagers are merged whatever their price.
PortfolioByPick(official) ==
  {[offer |-> ExactOffer(official[w].wager),
    lanes |-> {c[1] : c \in {d \in Wagers(official) :
                       Logical(official[d].wager) = Logical(official[w].wager)}}]
     : w \in Wagers(official)}

\* One entry per exact offer, whichever lanes bet it; the first lane leads it.
Portfolio(official) ==
  {[offer |-> o,
    lanes |-> {c[1] : c \in {d \in Wagers(official) : ExactOffer(official[d].wager) = o}}]
     : o \in {ExactOffer(official[c].wager) : c \in Wagers(official)}}
Primary(entry) == First(entry.lanes)
===========================================================================
