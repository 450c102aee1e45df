---------------------- MODULE MCHistoricalBackfill ----------------------
EXTENDS HistoricalBackfill, TLC

CONSTANTS v1, v2

TwoVersions == {v1, v2}
NoneOrTwo == {None, 2}
VersionSymmetry == Permutations(TwoVersions)
=============================================================================
