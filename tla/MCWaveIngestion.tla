-------------------------- MODULE MCWaveIngestion --------------------------
EXTENDS WaveIngestion, TLC

CONSTANTS r1, r2, h1, h2, s1

Alike == Permutations(Run) \cup Permutations(Handler)
=============================================================================
