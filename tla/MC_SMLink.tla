------------------------------ MODULE MC_SMLink ------------------------------
EXTENDS SMLink

CONSTANTS a1, a2

MC_Apps == {a1}
MC_TwoApps == {a1, a2}
=============================================================================
