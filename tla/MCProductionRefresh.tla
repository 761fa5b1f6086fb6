------------------------ MODULE MCProductionRefresh ------------------------
(***************************************************************************)
(* ProductionRefresh for TLC: weeks of two ticks, week 2 with a game that  *)
(* is kicked off in the middle of it and one at its end.                   *)
(***************************************************************************)
EXTENDS ProductionRefresh

CONSTANTS early, late, timer, manual

MCWeekOf == [g \in {early, late} |-> 2]
MCKickoff == [g \in {early, late} |-> IF g = early THEN 3 ELSE 4]
MCProcess == {timer, manual}
MCSymmetry == Permutations(MCProcess)
===========================================================================
