-------------------------- MODULE MCSharedCollection --------------------------
EXTENDS CollectionInvariant, TLC

Symmetry == Permutations(Ids) \union Permutations(Flushers)
===============================================================================
