-------------------------- MODULE MCLibraryImports --------------------------
(* An upload and an import that want the same name.                        *)
EXTENDS LibraryImports, TLC

CONSTANTS n1

OneName == {n1}
SameName == [u \in Upload |-> n1]
Symmetry == Permutations(Url)

=============================================================================
