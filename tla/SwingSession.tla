---------------------------- MODULE SwingSession ----------------------------
(***************************************************************************)
(* What the swing operation promises of one scheduled decision.  A state   *)
(* root settles on at most one terminal result and never changes it; what  *)
(* is published is a result some root settled on; the operator is told of  *)
(* published results only; and a root that did not take a decision itself  *)
(* can only take over a published one.  Results are named by the execution *)
(* that produced them.                                                     *)
(***************************************************************************)
CONSTANTS
  Executions,  \* the executions that may produce a result
  Roots,       \* the state roots
  None         \* no result yet

VARIABLES
  settled,    \* root -> the result it settled on
  published,  \* the results with a manifest in the bucket
  told        \* the results the operator was told of

sessionVars == <<settled, published, told>>

SessionInit ==
  /\ settled = [s \in Roots |-> None]
  /\ published = {}
  /\ told = {}

\* A result is new, or it is taken over from the bucket.
Settle(s, e) ==
  /\ settled[s] = None
  /\ e \in published \/ \A t \in Roots : settled[t] # e
  /\ settled' = [settled EXCEPT ![s] = e]
  /\ UNCHANGED <<published, told>>

PublishResult(e) ==
  /\ \E s \in Roots : settled[s] = e
  /\ published' = published \cup {e}
  /\ UNCHANGED <<settled, told>>

Tell(e) ==
  /\ e \in published
  /\ told' = told \cup {e}
  /\ UNCHANGED <<settled, published>>

SessionNext ==
  \E e \in Executions : PublishResult(e) \/ Tell(e) \/ \E s \in Roots : Settle(s, e)

SessionSpec == SessionInit /\ [][SessionNext]_sessionVars
=============================================================================
