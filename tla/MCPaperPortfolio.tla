-------------------------- MODULE MCPaperPortfolio --------------------------
EXTENDS PaperPortfolio, TLC

CONSTANTS l1, l2, l3

Held == [enters |-> 1, ends |-> 2, how |-> "EXITS"]
StoppedAtOnce == [enters |-> 1, ends |-> 1, how |-> "EXITS"]
Unfilled == [enters |-> 1, ends |-> 1, how |-> "EXPIRES"]

\* Two trades under one lineage; one is stopped in the session of its entry.
OneLineage == (l1 :> <<Held, StoppedAtOnce>>)

\* One trade, which the second lineage stops in the session of its entry and
\* the third one never fills.
ThreeLineages == (l1 :> <<Held>>) @@ (l2 :> <<StoppedAtOnce>>) @@ (l3 :> <<Unfilled>>)

TwoDecided == <<0, 1>>
OneDecided == <<0>>

WorkerSymmetry == Permutations(Workers) \cup Permutations(Batches)
=============================================================================
