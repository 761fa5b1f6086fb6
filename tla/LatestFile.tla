---------------------------- MODULE LatestFile ----------------------------
(***************************************************************************)
(* What publishing promises the readers of latest.json, whatever publishers*)
(* and disk do: each replacement is a product that was validated and was   *)
(* never latest before, and only a loss of power takes replacements back,  *)
(* the last ones first and none that was fsynced.  Publication implements  *)
(* this; ProductStore reads it.                                            *)
(***************************************************************************)
EXTENDS Naturals, Sequences

CONSTANTS
  Valid,          \* the products that validate_product_snapshot accepts
  NoProduct

VARIABLES
  log,            \* the products that became latest.json, in order
  synced          \* how much of the log a loss of power cannot take back

fileVars == <<log, synced>>

Latest == IF log = << >> THEN NoProduct ELSE log[Len(log)]

FileInit == log = << >> /\ synced = 0

\* Mutant: the first product may be promoted again.
PromoteAgain(v) ==
  /\ \A i \in 2..Len(log) : log[i] # v
  /\ log' = Append(log, v)
  /\ UNCHANGED synced

Promote(v) ==
  /\ \A i \in 1..Len(log) : log[i] # v
  /\ log' = Append(log, v)
  /\ UNCHANGED synced

Persist ==
  /\ synced' = Len(log)
  /\ UNCHANGED log

LosePower ==
  \E n \in synced..Len(log) :
    /\ log' = SubSeq(log, 1, n)
    /\ synced' = n

FileNext == (\E v \in Valid : Promote(v)) \/ Persist \/ LosePower

FileSpec == FileInit /\ [][FileNext]_fileVars
===========================================================================
