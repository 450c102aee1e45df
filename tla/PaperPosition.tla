--------------------------- MODULE PaperPosition ---------------------------
(***************************************************************************)
(* What the paper portfolio promises of every registered paper trade: it   *)
(* is entered at most once, ends at most once, after its entry (exit) or   *)
(* instead of it (expiry), and its profit is counted at most once, after   *)
(* it was closed, together with the others one batch found closed.         *)
(***************************************************************************)
CONSTANTS
  Registrations,  \* the registered paper trades
  Batches         \* the batches that may count a profit

VARIABLES
  phase,   \* registration -> the phase of its life
  counted  \* registration -> the batches that counted its profit

positionVars == <<phase, counted>>

PositionInit ==
  /\ phase = [r \in Registrations |-> "ALERTED"]
  /\ counted = [r \in Registrations |-> {}]

Move(r, from, to) ==
  /\ phase[r] = from
  /\ phase' = [phase EXCEPT ![r] = to]
  /\ UNCHANGED counted

Enter(r) == Move(r, "ALERTED", "OPEN")
Exit(r) == Move(r, "OPEN", "CLOSED")
Expire(r) == Move(r, "ALERTED", "EXPIRED")

Count(b, closed) ==
  /\ \A r \in closed : phase[r] = "CLOSED" /\ counted[r] = {}
  /\ counted' = [r \in Registrations |-> IF r \in closed THEN {b} ELSE counted[r]]
  /\ UNCHANGED phase

PositionNext ==
  \/ \E r \in Registrations : Enter(r) \/ Exit(r) \/ Expire(r)
  \/ \E b \in Batches, closed \in SUBSET Registrations : Count(b, closed)

PositionSpec == PositionInit /\ [][PositionNext]_positionVars
=============================================================================
