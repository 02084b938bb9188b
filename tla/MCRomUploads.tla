---------------------------- MODULE MCRomUploads ----------------------------
(* One upload into a game, and another request that promotes it as well.   *)
EXTENDS RomUploads

CONSTANTS n1

OneName == {n1}
SameName == [u \in Upload |-> n1]

=============================================================================
