------------------------- MODULE QualityPilotLedger -------------------------
(***************************************************************************)
(* What the quality pilot promises of its capture campaign, whatever the   *)
(* number of overlapping or crashed job executions: the campaign is one    *)
(* list of capture actions; an action is taken up once, only when the      *)
(* outcome of every earlier action is sealed, and the market-data provider *)
(* is asked at most once for it.  An action that was taken up and never    *)
(* sealed stays that way, and nothing after it is ever taken up.           *)
(***************************************************************************)
EXTENDS Naturals

CONSTANT NumActions  \* the number of capture actions of the campaign

Actions == 1 .. NumActions

VARIABLES
  claimed,   \* the actions some execution has taken up
  requests,  \* how often the provider was asked for each action
  sealed     \* the actions whose outcome is in the ledger

ledgerVars == <<claimed, requests, sealed>>

LedgerInit ==
  /\ claimed = {}
  /\ requests = [a \in Actions |-> 0]
  /\ sealed = {}

TakeUp(a) ==
  /\ a \notin claimed
  /\ a > 1 => a - 1 \in sealed
  /\ claimed' = claimed \cup {a}
  /\ UNCHANGED <<requests, sealed>>

Request(a) ==
  /\ a \in claimed
  /\ requests[a] = 0
  /\ requests' = [requests EXCEPT ![a] = 1]
  /\ UNCHANGED <<claimed, sealed>>

SealOutcome(a) ==
  /\ requests[a] = 1
  /\ a \notin sealed
  /\ sealed' = sealed \cup {a}
  /\ UNCHANGED <<claimed, requests>>

LedgerNext == \E a \in Actions : TakeUp(a) \/ Request(a) \/ SealOutcome(a)

LedgerSpec == LedgerInit /\ [][LedgerNext]_ledgerVars
=============================================================================
