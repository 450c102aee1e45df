----------------------------- MODULE TrialFamily -----------------------------
(***************************************************************************)
(* The multiple-testing gate over a family of trials: the exact sign test  *)
(* of the folds a trial wins, and Holm's step-down over the whole family   *)
(* (evaluation/family_aggregation.py).  A p-value is an integer over two   *)
(* to the number of folds, so that nothing here is rounded.                *)
(***************************************************************************)
EXTENDS Integers, FiniteSets, FiniteSetsExt, Functions, Combinatorics

CONSTANTS
  IdOrder,     \* trial -> its place in the order of the trial ids
  AlphaParts   \* FOLD_SIGN_HOLM_ALPHA is one over this: 20

ASSUME AlphaAssumption == AlphaParts \in Nat \ {0}

\* What a run says of its folds: how many there are, and in how many the
\* strategy is strictly better at base and at stressed slippage.
SoundEvidence(e) == e.folds \in Nat \ {0} /\ {e.base, e.stressed} \subseteq 0 .. e.folds

SignTail(wins, folds) == SumFunction([won \in wins .. folds |-> choose(folds, won)])

\* The worse p-value of the two scenarios.
RawTail(e) == Max({SignTail(e.base, e.folds), SignTail(e.stressed, e.folds)})

Scale(e) == 2 ^ e.folds

Smaller(e, f) == RawTail(e) * Scale(f) < RawTail(f) * Scale(e)

-----------------------------------------------------------------------------
(* In what follows ev maps each trial of the family S to its evidence. *)

Precedes(t, u, ev) ==
  \/ Smaller(ev[t], ev[u])
  \/ ~Smaller(ev[u], ev[t]) /\ IdOrder[t] < IdOrder[u]

HolmRank(t, S, ev) == 1 + Cardinality({u \in S : Precedes(u, t, ev)})

WithinThreshold(t, S, ev) ==
  RawTail(ev[t]) * AlphaParts * (Cardinality(S) - HolmRank(t, S, ev) + 1) <= Scale(ev[t])

\* A mutation: every trial is held against its own threshold.
RejectedAlone(t, S, ev) == WithinThreshold(t, S, ev)

\* The step-down stops at the first trial that is above its threshold.
Rejected(t, S, ev) ==
  \A u \in S : u = t \/ Precedes(u, t, ev) => WithinThreshold(u, S, ev)

-----------------------------------------------------------------------------
(* The definitions that the two above are meant to compute. *)

\* Outcomes of fair coins with at least as many wins.
AsExtreme(wins, folds) == Cardinality({W \in SUBSET (1 .. folds) : Cardinality(W) >= wins})

\* The closed test: t is rejected when each set of hypotheses that has t in it
\* is, by its smallest p-value against alpha shared among its members.
ClosedTest(t, S, ev) ==
  \A J \in SUBSET S : t \in J =>
    \E u \in J :
      Max({AsExtreme(ev[u].base, ev[u].folds), AsExtreme(ev[u].stressed, ev[u].folds)})
        * AlphaParts * Cardinality(J) <= Scale(ev[u])
=============================================================================
