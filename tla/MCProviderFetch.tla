-------------------------- MODULE MCProviderFetch --------------------------
(* Instances of ProviderFetch for TLC. *)
EXTENDS ProviderFetch, TLC

\* Slots, run ids and operators are interchangeable, and so are definitions.
Symmetry == Permutations(Workers) \cup Permutations(RunIds) \cup Permutations(Defs)
=============================================================================
