--------------------------- MODULE MCProviderJobs ---------------------------
(* Small instances of ProviderJobs.                                        *)
EXTENDS ProviderJobs, TLC

CONSTANTS c1, c2

Clients == {c1, c2}

(* Requests are told apart only by what they do.                           *)
Symmetry == Permutations(Client)
=============================================================================
