---------------------------- MODULE MC_Ingestion ----------------------------
EXTENDS Ingestion, TLC
Symmetry == Permutations(Docs)
=============================================================================
