---------------------------- MODULE TrialHistory ----------------------------
(***************************************************************************)
(* What the records of a strategy family promise: a trial is started once, *)
(* its holdout is unsealed once, its one outcome is never replaced, only a *)
(* completed trial is promoted, and what is invalidated stays so.  A       *)
(* confirmatory trial does not start on a holdout that its parent has      *)
(* unsealed.                                                               *)
(***************************************************************************)
CONSTANTS
  Trials,       \* the trials of the family
  Results,      \* what a trial can be completed with
  Tainting,     \* pairs of a trial and a confirmatory successor on its holdout
  None          \* no outcome

VARIABLES
  started,      \* trials that have been started
  unsealed,     \* trials whose holdout has been unsealed
  outcome,      \* trial -> its result, "FAILED", "ABORTED", or None
  promoted,     \* trials that have been promoted
  invalidated   \* trials that have been invalidated

history == <<started, unsealed, outcome, promoted, invalidated>>

Init ==
  /\ started = {} /\ unsealed = {} /\ promoted = {} /\ invalidated = {}
  /\ outcome = [t \in Trials |-> None]

Running(t) == t \in started \ invalidated /\ outcome[t] = None

Start(t) ==
  /\ t \notin started /\ \A p \in unsealed : <<p, t>> \notin Tainting
  /\ started' = started \cup {t}
  /\ UNCHANGED <<unsealed, outcome, promoted, invalidated>>

Unseal(t) ==
  /\ Running(t) /\ t \notin unsealed
  /\ unsealed' = unsealed \cup {t}
  /\ UNCHANGED <<started, outcome, promoted, invalidated>>

Conclude(t) ==
  /\ Running(t)
  /\ \E o \in Results \cup {"FAILED", "ABORTED"} : outcome' = [outcome EXCEPT ![t] = o]
  /\ UNCHANGED <<started, unsealed, promoted, invalidated>>

Promote(t) ==
  /\ outcome[t] \in Results /\ t \notin promoted \cup invalidated
  /\ promoted' = promoted \cup {t}
  /\ UNCHANGED <<started, unsealed, outcome, invalidated>>

Invalidate(t) ==
  /\ t \in started \ invalidated
  /\ invalidated' = invalidated \cup {t}
  /\ UNCHANGED <<started, unsealed, outcome, promoted>>

Next ==
  \E t \in Trials :
    Start(t) \/ Unseal(t) \/ Conclude(t) \/ Promote(t) \/ Invalidate(t)

Spec == Init /\ [][Next]_history
=============================================================================
