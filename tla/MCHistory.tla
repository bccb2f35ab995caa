---- MODULE MCHistory ----
EXTENDS HistoryStore, TLC

Symmetry == Permutations(Conns) \cup Permutations(Identities)
====
