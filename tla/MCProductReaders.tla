-------------------------- MODULE MCProductReaders --------------------------
(***************************************************************************)
(* What becomes of a published product, for TLC: the store that serves it  *)
(* and the evidence branch its cards are persisted to.  They share nothing *)
(* once a product is out, so that a behaviour moves one of them.           *)
(***************************************************************************)
EXTENDS ProspectiveEvidence, ProductStore, TLC

CONSTANTS balanced, v1, v2, v3, v4

VARIABLE subject

\* The evidence: one lane, an early game that may be moved, and a late one.
MCRank == balanced :> 1
Bet(game, kick) ==
  [game |-> game, pick |-> "home", price |-> -110, state |-> "BET", kick |-> kick]
MCRow == {Bet("thu", 1), Bet("thu", 2), Bet("mon", 2)}

-----------------------------------------------------------------------------
ReadersInit ==
  /\ subject \in {"evidence", "store"}
  /\ Init /\ StoreInit
  /\ subject # "evidence" => ~rough
  /\ subject # "store" => ~flaky

EvidenceMoves == subject = "evidence" /\ Next /\ UNCHANGED <<subject, productVars>>
StoreMoves == subject = "store" /\ StoreNext /\ UNCHANGED <<subject, vars>>

ReadersNext == EvidenceMoves \/ StoreMoves
readersVars == <<subject, vars, productVars>>

\* The fairness of the part that moves: FairSpec's and StoreSpec's.
ReadersSpec ==
  /\ ReadersInit /\ [][ReadersNext]_readersVars
  /\ WF_vars(subject = "evidence" /\ JobStart) /\ WF_vars(subject = "evidence" /\ JobStep)
  /\ WF_vars(subject = "evidence" /\ CaptureEnd)
  /\ SF_vars(subject = "evidence" /\ PushRetried) /\ SF_vars(subject = "evidence" /\ Push)
  /\ WF_productVars(subject = "store" /\ Reading) /\ WF_productVars(subject = "store" /\ Ask)
=============================================================================
