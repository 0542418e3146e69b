------------------------------- MODULE MCCGNAT -------------------------------
EXTENDS CGNAT, TLC
CONSTANTS s1, s2, a1, a2
TheBlocks == 0..2
TheExcluded == {1}
Alike == Permutations(Sessions) \cup Permutations(IPs)
=============================================================================
