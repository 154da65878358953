----------------------------- MODULE MCCatalog -----------------------------
\* Catalog with two connections of one database.
EXTENDS Catalog, TLC

CONSTANTS c1, c2, d, t, u

AllInD    == [c \in {c1, c2} |-> d]
ListsOfT  == {<<t>>}
ListsOfTU == {<<t>>, <<t, u>>}
Symmetry  == Permutations({c1, c2})

=============================================================================
