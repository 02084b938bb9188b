------------------------ MODULE MCStreamingSessions -------------------------
(* Small instances of StreamingSessions.                                   *)
EXTENDS StreamingSessions, TLC

CONSTANTS r1, r2, r3, r4, h1, h2, c1, c2

OneContainer == <<c1>>
TwoContainers == <<c1, c2>>

(* Requests are told apart only by what they do, and so are takeovers.     *)
Symmetry == Permutations(Request) \cup Permutations(Helper)

(* What can still matter: nothing reads the locals of a task that ended,   *)
(* but for the operation of a claim and the card it created.               *)
View ==
    <<key, broker, pc, op, blank,
      [t \in {u \in Task : Alive(u)} |->
         <<at[t], sess[t], tok[t], lapsed[t], beat[t], probe[t], safe[t], saved[t],
           waits[t], idx[t], wait[t]>>]>>
=============================================================================
