-------------------------- MODULE MCQualityPilotDue --------------------------
EXTENDS QualityPilotDue, TLC

ShortWindowOf == <<1, 2, 2>>
ShortCatalog == {1}
ShortOpens == <<0, 2>>
ShortCloses == <<1, 3>>

LongWindowOf == <<1, 2, 2, 3>>
LongCatalog == {1}
LongOpens == <<0, 2, 4>>
LongCloses == <<1, 3, 5>>

InvocationSymmetry == Permutations(Invocations)

\* The campaign after prepare-genesis, before its first window.
PreparedInit == InitFrom({Genesis}, Genesis) /\ NoFirings

PreparedSpec == PreparedInit /\ [][DueNext]_dueVars

\* An empty store or a prepared one: with a genesis to prepare, a pilot of two
\* windows is complete only for a fourth execution.
EitherSpec == (DueInit \/ PreparedInit) /\ [][DueNext]_dueVars
=============================================================================
