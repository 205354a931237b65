-------------------------- MODULE MCCacheGenerations --------------------------
(* A small site for CacheGenerations: the links are interchangeable.        *)
EXTENDS CacheGenerations, TLC

Symmetry == Permutations(Links)

=============================================================================
