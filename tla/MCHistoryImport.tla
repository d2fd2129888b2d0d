--------------------------- MODULE MCHistoryImport ---------------------------
EXTENDS HistoryImport, TLC

Alike == Permutations(Requests) \cup Permutations(Machines) \cup Permutations(Scanners)
=============================================================================
