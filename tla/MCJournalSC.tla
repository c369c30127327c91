---- MODULE MCJournalSC ----
EXTENDS JournalSC, TLC
CONSTANTS p1, p2
OneSub == {"Sub1"}
Symmetry == Permutations(Producers)
====
