---------------------------- MODULE MCInformerFactory ----------------------------
(* Bounded instances of InformerFactory for TLC.                           *)
EXTENDS InformerFactory, TLC

CONSTANTS g1, g2, vaultMaps, secrets

MCThreads == {g1, g2}
MCTypes == {vaultMaps, secrets}
MCOneType == {vaultMaps}

\* Goroutines and types are interchangeable; used in the safety run only.
MCSymmetry == Permutations(MCThreads) \cup Permutations(MCTypes)
=============================================================================
