---------------------------- MODULE MC_LinkRpcs -----------------------------
EXTENDS LinkRpcs
=============================================================================
