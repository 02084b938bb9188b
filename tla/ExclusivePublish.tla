-------------------------- MODULE ExclusivePublish --------------------------
(***************************************************************************)
(* What every way of adding a file to the library promises its directory:  *)
(* "Existing filenames are never overwritten" (docs/ROM_PROVIDERS.md), and *)
(* "two completions racing for the same name cannot overwrite each other's *)
(* bytes" (_claim_destination in endpoints/roms/upload.py).  A publisher   *)
(* takes an unused name with an empty file and holds it until it fills the *)
(* file, takes it back or dies.                                            *)
(***************************************************************************)
CONSTANTS
    Name, Publisher,
    Nobody  \* no publisher

VARIABLES
    file,   \* file[n]: "absent", "empty", or whose bytes it holds
    holder  \* holder[n]: who may still fill or remove the file

vars == <<file, holder>>

Init ==
    /\ file = [n \in Name |-> "absent"]
    /\ holder = [n \in Name |-> Nobody]

Claim(p, n) ==
    /\ file[n] = "absent"
    /\ file' = [file EXCEPT ![n] = "empty"]
    /\ holder' = [holder EXCEPT ![n] = p]

Fill(p, n) ==
    /\ holder[n] = p
    /\ file' = [file EXCEPT ![n] = p]
    /\ holder' = [holder EXCEPT ![n] = Nobody]

Withdraw(p, n) ==
    /\ holder[n] = p
    /\ file' = [file EXCEPT ![n] = "absent"]
    /\ holder' = [holder EXCEPT ![n] = Nobody]

(* The publisher dies; the empty file stays.                               *)
Abandon(p, n) ==
    /\ holder[n] = p
    /\ holder' = [holder EXCEPT ![n] = Nobody]
    /\ UNCHANGED file

Next ==
    \E p \in Publisher, n \in Name :
      Claim(p, n) \/ Fill(p, n) \/ Withdraw(p, n) \/ Abandon(p, n)

Spec == Init /\ [][Next]_vars

=============================================================================
