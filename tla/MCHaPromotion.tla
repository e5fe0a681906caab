---------------------------- MODULE MCHaPromotion ----------------------------
EXTENDS HaPromotion, TLC

\* The standbys differ only in name.
StandbySymmetry == Permutations(Nodes \ {Original})
=============================================================================
