---------------------------- MODULE MCSessionCas ----------------------------
(* Small instances of SessionCas: one field per update a session takes.    *)
EXTENDS SessionCas, TLC

CONSTANTS p1, p2, seenField, discField, k1

Procs2 == {p1, p2}
Tokens == {k1}
Claims == {1, 2}
Fields == {seenField, discField}

(* Every kind of operation.                                                *)
AllOps == CasOp

(* A reader, an update and a release, for the run that starts corrupt.     *)
FewOps == ReadOnly \cup MutateLive \cup ReleaseOwn

Symmetry2 == Permutations(Procs2) \cup Permutations(Fields)
=============================================================================
