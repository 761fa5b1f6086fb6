--------------------------- MODULE CardHistory ---------------------------
(***************************************************************************)
(* A week of publications, one after the other, and what the derivations   *)
(* of ProspectiveCard make of every history they can form.                 *)
(***************************************************************************)
EXTENDS ProspectiveCard

CONSTANTS
  HistorySpan,      \* bound: hours of the week
  MaxHistory        \* bound: publications of the week

ASSUME HistoryAssumption == HistorySpan \in Nat

VARIABLE history

HistoryInit == history = << >>

LastAt == IF history = << >> THEN 0 ELSE history[Len(history)].at

\* A refresh publishes a product and captures its card.
Publish(lanes, at) ==
  history' = Append(history, [id |-> Len(history) + 1, at |-> at,
                                 boundary |-> HistorySpan, lanes |-> lanes])

HistoryNext ==
  /\ Len(history) < MaxHistory
  /\ \E lanes \in [Lane -> Row \cup {NoRow}], at \in LastAt..HistorySpan : Publish(lanes, at)

HistorySpec == HistoryInit /\ [][HistoryNext]_history

----------------------------------------------------------------------------
Same(i, j, l) ==
  /\ history[i].lanes[l] # NoRow /\ history[j].lanes[l] # NoRow
  /\ Logical(history[i].lanes[l]) = Logical(history[j].lanes[l])

\* A stretch of publications showing one recommendation, as long as can be.
IsRun(l, a, b) ==
  /\ \A i \in a..b : Same(a, i, l)
  /\ a = 1 \/ ~Same(a - 1, a, l)
  /\ b = Len(history) \/ ~Same(b, b + 1, l)

EndOf(l, b) == CASE b = Len(history) -> "WEEK_HISTORY_END"
                 [] b < Len(history) /\ history[b + 1].lanes[l] = NoRow -> "DISAPPEARED"
                 [] b < Len(history) /\ history[b + 1].lanes[l] # NoRow -> "REPLACED"

Runs(l) ==
  {[logical |-> Logical(history[r[1]].lanes[l]), observed |-> r[1]..r[2],
    returned |-> \E i \in 1..(r[1] - 1) : Same(i, r[1], l),
    reason |-> EndOf(l, r[2])]
     : r \in {x \in (1..Len(history)) \X (1..Len(history)) :
                x[1] <= x[2] /\ IsRun(l, x[1], x[2])}}

(***************************************************************************)
(* The episodes derive_episodes builds in one pass are the maximal runs of *)
(* publications that show one recommendation, each closed for its reason   *)
(* and marked as returned when it was there before a gap.                  *)
(***************************************************************************)
EpisodesAreRuns == \A l \in Lane : EpisodesOf(history, l) = Runs(l)

(***************************************************************************)
(* Nothing published at or after a game's kickoff changes what is official *)
(* for the game, and it adds no official wager: "the final eligible lane   *)
(* state strictly before each referenced game kickoff".                    *)
(***************************************************************************)
KickoffFreezes ==
  [][LET at == LastAt'
         before == Official(history)
         after == Official(history')
     IN /\ \A c \in Candidates(history) :
             at >= KickoffOf(history, c) => after[c] = before[c]
        /\ \A c \in Wagers(after) : c \notin Wagers(before)
             => at < KickoffOf(history', c)]_history

\* No game was moved in the week: whichever card shows it gives it one kickoff.
GamesStay ==
  \A i, j \in 1..Len(history) : \A l \in Played(history[i]), m \in Played(history[j]) :
    history[i].lanes[l].game = history[j].lanes[m].game
      => history[i].lanes[l].kick = history[j].lanes[m].kick

(***************************************************************************)
(* Unless a game was moved, the portfolio merges two official wagers       *)
(* exactly when the card both were last seen on already marked one as the  *)
(* other's duplicate, so the stake a user was not asked to double is not   *)
(* counted twice.                                                          *)
(***************************************************************************)
PortfolioAgreesWithCards ==
  GamesStay =>
  LET official == Official(history)
  IN \A c \in Wagers(official) :
       \E entry \in Portfolio(official) :
         /\ c[1] \in entry.lanes
         /\ entry.offer = ExactOffer(official[c].wager)
         /\ Primary(entry) = DuplicateOf(history[official[c].source], c[1])
===========================================================================
