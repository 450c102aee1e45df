-------------------------- MODULE MCTrialLifecycle --------------------------
(* Three generations of one family. *)
EXTENDS TrialLifecycle

CONSTANTS root, child, grand, h, runRoot, runChild, rerunChild, b

Line == root :> None @@ child :> root @@ grand :> child

Ids == root :> 3 @@ child :> 1 @@ grand :> 2

Folds(n, base, stressed) == [folds |-> n, base |-> base, stressed |-> stressed]

\* 1/32, 1/32 and 1/64.
Evidences ==
  runRoot :> Folds(5, 5, 5) @@ runChild :> Folds(5, 5, 5) @@ rerunChild :> Folds(6, 6, 6)

RunsOf == runRoot :> root @@ runChild :> child @@ rerunChild :> child

Batches == [c \in Comparisons |-> b]

OneHoldout == [t \in Trials |-> h]

Events == root :> 5 @@ child :> 6 @@ grand :> 1
=============================================================================
