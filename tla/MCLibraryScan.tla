--------------------------- MODULE MCLibraryScan ----------------------------
(* One platform or two, with one ROM or two in the first.                  *)
EXTENDS LibraryScan

CONSTANTS p1, p2, a, b

OnePlatform == {p1}
TwoPlatforms == {p1, p2}
OneRom == {a}
TwoRoms == {a, b}
HomeOfOne == [r \in OneRom |-> p1]
HomeOfTwo == [r \in TwoRoms |-> p1]

(* A scan of the library, one for new platforms and one of a named ROM.    *)
Requests == {NoKind, [NoKind EXCEPT !.type = "new_platforms"], [NoKind EXCEPT !.roms = {a}]}

=============================================================================
