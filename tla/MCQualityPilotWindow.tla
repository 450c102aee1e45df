------------------------ MODULE MCQualityPilotWindow ------------------------
EXTENDS QualityPilotWindow, TLC

\* One session: a catalog window, then a window of two captures.
ShortWindowOf == <<1, 2, 2>>
ShortCatalog == {1}
ShortOpens == <<0, 2>>
ShortCloses == <<1, 3>>

\* Two sessions: the third window bootstraps the second session.
LongWindowOf == <<1, 2, 2, 3>>
LongCatalog == {1, 3}
LongOpens == <<0, 2, 4>>
LongCloses == <<1, 3, 5>>

\* The campaign after prepare-genesis, before its first window.
PreparedSpec == InitFrom({Genesis}, Genesis) /\ [][Next]_vars

InvocationSymmetry == Permutations(Invocations)
=============================================================================
