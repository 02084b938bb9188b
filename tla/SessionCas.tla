----------------------------- MODULE SessionCas -----------------------------
(***************************************************************************)
(* cas_session of handler/streaming/session_store.py command by command:   *)
(* WATCH, GET, the plan, MULTI/EXEC with SET XX or DEL, a bounded number   *)
(* of retries, and the DELETE that drops a corrupt entry.  The key is      *)
(* shared with the single-command writers (SET NX, EXPIRE, DEL) and with   *)
(* Redis expiring it, which may or may not abort a transaction that        *)
(* watches it (it depends on the Redis version; the code allows for both). *)
(***************************************************************************)
EXTENDS SessionKey, Naturals

CONSTANTS
    Attempts,  \* _STREAMING_SESSION_CAS_ATTEMPTS
    Ops        \* the operations the tasks are called with

ASSUME AttemptsAssumption == Attempts \in Nat \ {0}
ASSUME OpsAssumption == Ops \subseteq CasOp

VARIABLES
    pc,        \* pc[p]: where p is in cas_session
    seen,      \* seen[p]: the session p's plan was given
    dirty,     \* dirty[p]: the key p watches was modified since its WATCH
    tries,     \* tries[p]: attempts of p that EXEC aborted
    issued,    \* claim identities handed out so far
    ended,     \* history: claims that have left the key
    acked,     \* history: <<claim, field>> updates reported as written
    moved      \* history: modifications of the key while p ran, up to Attempts

casVars == <<key, op, result, pc, seen, dirty, tries, issued, ended, acked, moved>>
history == <<issued, ended, acked, moved>>

Procs(s) == [p \in Proc |-> s]

Init0 ==
    /\ op = Procs(NoOp)
    /\ result = Procs("pending")
    /\ pc = Procs("idle")
    /\ seen = Procs(Gone)
    /\ dirty = Procs(FALSE)
    /\ tries = Procs(0)
    /\ issued = {}
    /\ ended = {}
    /\ acked = {}
    /\ moved = Procs(0)

CasInit == key = Gone /\ Init0

(* A key left by something that does not write sessions.                   *)
CorruptInit == key = Corrupt /\ Init0

-----------------------------------------------------------------------------
(* Redis: what a modification of the key does to the tasks watching it.    *)

Watching(p) == pc[p] \in {"read", "exec"}

Running(p) == pc[p] \notin {"idle", "done"}

Touch == dirty' = [p \in Proc |-> dirty[p] \/ Watching(p)]

(* The history a write of v by q (or by nobody) leaves.                    *)
Record(v) ==
    /\ ended' = IF key.kind = "claim" /\ ~same_claim(v, key.id)
                THEN ended \cup {key.id} ELSE ended
    /\ moved' = [p \in Proc |->
                   IF Running(p) /\ moved[p] < Attempts THEN moved[p] + 1
                                                        ELSE moved[p]]

Modify(v) ==
    /\ key' = v
    /\ Touch
    /\ Record(v)

(* The session or token an operation names is one its caller was handed.   *)
Known(o) ==
    /\ o.name \in {"mutate_own", "release_own", "claim_marker"} => o.id \in issued
    /\ o.name = "claim_marker" =>
         \A q \in Proc : op[q].name = "claim_marker" => op[q].token # o.token
    /\ o.name \in {"hold_marker", "drop_marker"} =>
         \E q \in Proc : /\ op[q].name = "claim_marker"
                         /\ op[q].token = o.token
                         /\ result[q] = "wrote"

-----------------------------------------------------------------------------
(* cas_session, and get_session which only reads.                          *)

Start(p, o) ==
    /\ pc[p] = "idle"
    /\ Known(o)
    /\ op' = [op EXCEPT ![p] = o]
    /\ pc' = [pc EXCEPT ![p] = IF o.name = "read" THEN "read" ELSE "watch"]
    /\ UNCHANGED <<key, result, seen, dirty, tries, history>>

Return(p, r) ==
    /\ pc' = [pc EXCEPT ![p] = "done"]
    /\ result' = [result EXCEPT ![p] = r]

Watch(p) ==
    /\ pc[p] = "watch"
    /\ tries[p] < Attempts
    /\ pc' = [pc EXCEPT ![p] = "read"]
    /\ dirty' = [dirty EXCEPT ![p] = FALSE]
    /\ UNCHANGED <<key, op, result, seen, tries, history>>

(* Variant: one attempt too few.                                           *)
GiveUpEarly(p) ==
    /\ pc[p] = "watch"
    /\ tries[p] + 1 >= Attempts
    /\ Return(p, "contended")
    /\ UNCHANGED <<key, op, seen, dirty, tries, history>>

GiveUp(p) ==
    /\ pc[p] = "watch"
    /\ tries[p] = Attempts
    /\ Return(p, "contended")
    /\ UNCHANGED <<key, op, seen, dirty, tries, history>>

GetMissing(p) ==
    /\ pc[p] = "read"
    /\ key = Gone
    /\ Return(p, "missing")
    /\ UNCHANGED <<key, op, seen, dirty, tries, history>>

GetCorrupt(p) ==
    /\ pc[p] = "read"
    /\ key = Corrupt
    /\ pc' = [pc EXCEPT ![p] = "drop"]
    /\ UNCHANGED <<key, op, result, seen, dirty, tries, history>>

GetRejected(p) ==
    /\ pc[p] = "read"
    /\ key \in Session
    /\ ~Accepts(op[p], key)
    /\ Return(p, "rejected")
    /\ UNCHANGED <<key, op, seen, dirty, tries, history>>

GetPlanned(p) ==
    /\ pc[p] = "read"
    /\ key \in Session
    /\ Accepts(op[p], key)
    /\ seen' = [seen EXCEPT ![p] = key]
    /\ pc' = [pc EXCEPT ![p] = "exec"]
    /\ UNCHANGED <<key, op, result, dirty, tries, history>>

(* The DELETE of a corrupt entry, after the UNWATCH and guarded by nothing. *)
DropCorrupt(p) ==
    /\ pc[p] = "drop"
    /\ Return(p, "corrupt")
    /\ Modify(Gone)
    /\ UNCHANGED <<op, seen, tries, issued, acked>>

(* Variant: the retry watches the key again but keeps its plan.            *)
RetryKeepsPlan(p) ==
    /\ pc[p] = "exec"
    /\ dirty[p]
    /\ tries[p] + 1 < Attempts
    /\ dirty' = [dirty EXCEPT ![p] = FALSE]
    /\ tries' = [tries EXCEPT ![p] = @ + 1]
    /\ UNCHANGED <<key, op, result, pc, seen, history>>

(* Variant: the retries are not counted.                                   *)
RetryUncounted(p) ==
    /\ pc[p] = "exec"
    /\ dirty[p]
    /\ pc' = [pc EXCEPT ![p] = "watch"]
    /\ UNCHANGED <<key, op, result, seen, dirty, tries, history>>

ExecAborted(p) ==
    /\ pc[p] = "exec"
    /\ dirty[p]
    /\ pc' = [pc EXCEPT ![p] = "watch"]
    /\ tries' = [tries EXCEPT ![p] = @ + 1]
    /\ UNCHANGED <<key, op, result, seen, dirty, history>>

(* SET XX on a key that expired without aborting the transaction.          *)
ExecVanished(p) ==
    /\ pc[p] = "exec"
    /\ ~dirty[p]
    /\ key = Gone
    /\ ~IsDelete(op[p])
    /\ Return(p, "vanished")
    /\ UNCHANGED <<key, op, seen, dirty, tries, history>>

Acknowledge(p) ==
    acked' = IF op[p].name \in {"mutate_own", "mutate_live", "mutate_any"}
                  /\ seen[p].kind = "claim"
             THEN acked \cup {<<seen[p].id, op[p].field>>} ELSE acked

(* Variant: a plain SET brings an expired key back.                        *)
ExecWithoutXX(p) ==
    /\ pc[p] = "exec"
    /\ ~dirty[p]
    /\ Return(p, "wrote")
    /\ Modify(Write(op[p], seen[p]))
    /\ Acknowledge(p)
    /\ UNCHANGED <<op, seen, tries, issued>>

(* Variant: a transaction that watches nothing.                            *)
ExecUnwatched(p) ==
    /\ pc[p] = "exec"
    /\ key # Gone \/ IsDelete(op[p])
    /\ Return(p, "wrote")
    /\ Modify(Write(op[p], seen[p]))
    /\ Acknowledge(p)
    /\ UNCHANGED <<op, seen, tries, issued>>

ExecWrote(p) ==
    /\ pc[p] = "exec"
    /\ ~dirty[p]
    /\ key # Gone \/ IsDelete(op[p])
    /\ Return(p, "wrote")
    /\ Modify(Write(op[p], seen[p]))
    /\ Acknowledge(p)
    /\ UNCHANGED <<op, seen, tries, issued>>

CasStep(p) ==
    \/ Watch(p) \/ GiveUp(p)
    \/ GetMissing(p) \/ GetCorrupt(p) \/ GetRejected(p) \/ GetPlanned(p)
    \/ DropCorrupt(p)
    \/ ExecAborted(p) \/ ExecVanished(p) \/ ExecWrote(p)

-----------------------------------------------------------------------------
(* The writers that are one Redis command.                                 *)

(* try_claim: SET NX of a session no other claim has the identity of.      *)
TryClaim(i) ==
    /\ key = Gone
    /\ i \notin issued
    /\ issued' = issued \cup {i}
    /\ Modify(NewClaim(i))
    /\ UNCHANGED <<op, result, pc, seen, tries, acked>>

(* refresh_session: EXPIRE touches the key whatever it holds.              *)
RefreshSession ==
    /\ key \in Session
    /\ Modify([key EXCEPT !.ttl = "full"])
    /\ UNCHANGED <<op, result, pc, seen, tries, issued, acked>>

(* The delete of force_release_all.                                        *)
UnguardedDelete ==
    /\ key # Gone
    /\ Modify(Gone)
    /\ UNCHANGED <<op, result, pc, seen, tries, issued, acked>>

(* The TTL lapses; a watched transaction may go through regardless.        *)
KeyExpires ==
    /\ key \in Session
    /\ key' = Gone
    /\ Record(Gone)
    /\ \/ Touch
       \/ UNCHANGED dirty
    /\ UNCHANGED <<op, result, pc, seen, tries, issued, acked>>

Done ==
    /\ \A p \in Proc : pc[p] = "done"
    /\ UNCHANGED casVars

CasNext ==
    \/ \E p \in Proc, o \in Ops : Start(p, o)
    \/ \E p \in Proc : CasStep(p)
    \/ \E i \in ClaimId : TryClaim(i)
    \/ RefreshSession
    \/ UnguardedDelete
    \/ KeyExpires
    \/ Done

CasSpec == CasInit /\ [][CasNext]_casVars

(* A task that has called cas_session is run on by the event loop.         *)
FairCorruptSpec ==
    /\ CorruptInit
    /\ [][CasNext]_casVars
    /\ \A p \in Proc : WF_casVars(CasStep(p))

-----------------------------------------------------------------------------
(* Properties.                                                             *)

Outcomes == {"pending", "wrote", "missing", "corrupt", "rejected", "vanished",
             "contended"}

(* Every variable of the key and of the tasks in cas_session has its type. *)
TypeOK ==
    /\ key \in KeyValue
    /\ op \in [Proc -> CasOp \cup {NoOp}]
    /\ result \in [Proc -> Outcomes]
    /\ pc \in [Proc -> {"idle", "watch", "read", "exec", "drop", "done"}]
    /\ seen \in [Proc -> KeyValue]
    /\ dirty \in [Proc -> BOOLEAN]
    /\ tries \in [Proc -> 0..Attempts]
    /\ issued \in SUBSET ClaimId
    /\ ended \in SUBSET issued
    /\ acked \in SUBSET (ClaimId \X Field)
    /\ moved \in [Proc -> 0..Attempts]

-----------------------------------------------------------------------------
(* The parts of the inductive invariant.                                   *)

(* What a task's place in cas_session says of its operation and result.    *)
Control ==
    \A p \in Proc :
      /\ pc[p] = "idle" => op[p] = NoOp /\ ~dirty[p] /\ tries[p] = 0
      /\ pc[p] # "idle" => op[p] \in CasOp
      /\ pc[p] # "done" => result[p] = "pending"
      /\ pc[p] # "drop" /\ result[p] # "corrupt"
      /\ op[p].name \in {"mutate_own", "release_own", "claim_marker"} =>
           op[p].id \in issued

(* A plan that reached EXEC accepted the session it was given.             *)
Planned ==
    \A p \in Proc : pc[p] = "exec" =>
      seen[p] \in Session /\ Accepts(op[p], seen[p])

(* cas_session's WATCH: as long as EXEC would go through, the session the  *)
(* plan was given is the one at the key, unless that one expired.          *)
WatchIsCurrent ==
    \A p \in Proc : (pc[p] = "exec" /\ ~dirty[p]) => key \in {seen[p], Gone}

(* cas_session: no update that was reported as written is dropped by a     *)
(* concurrent update of the same claim (a heartbeat racing a disc swap).   *)
NoLostUpdate ==
    \A p \in acked : same_claim(key, p[1]) => p[2] \in key.fields

(* SET XX: a claim that was released, drained or expired never comes back. *)
NoResurrection == key.kind = "claim" => key.id \notin ended

(* Every claim handed out is the one at the key or has left it.            *)
Accounted ==
    /\ key # Corrupt
    /\ \A i \in issued : i \in ended \/ same_claim(key, i)
    /\ key.kind = "claim" => key.id \in issued
    /\ \A a \in acked : a[1] \in issued

(* A release or a drain that reported success ended its claim.             *)
ReleasedHasEnded ==
    \A p \in Proc :
      /\ op[p].name \in {"release_own", "claim_marker"}
      /\ result[p] \in {"wrote", "missing"}
      => op[p].id \in ended

(* replace_session_if: a release or a drain that reports success (the      *)
(* claim replaced, or a delete that found nothing) leaves no such claim.   *)
ReleasedIsGone ==
    \A p \in Proc :
      /\ op[p].name \in {"release_own", "claim_marker"}
      /\ result[p] \in {"wrote", "missing"}
      => ~same_claim(key, op[p].id)

(* StreamingSessionContended is raised only after that many other writers  *)
(* moved the key: an undisturbed caller never runs out of attempts.        *)
ContentionIsReal ==
    \A p \in Proc : /\ tries[p] <= moved[p]
                    /\ result[p] = "contended" => moved[p] = Attempts

(* An attempt that EXEC will abort has seen the key move once more.        *)
AttemptsCounted ==
    \A p \in Proc :
      /\ tries[p] <= moved[p]
      /\ Watching(p) => tries[p] < Attempts
      /\ Watching(p) /\ dirty[p] => tries[p] < moved[p]
      /\ result[p] = "contended" => moved[p] = Attempts

Removed(i) == same_claim(key, i) /\ ~same_claim(key', i)

(* release_own_session, claim_drain_marker: a claim leaves the key only by *)
(* its own release or drain, an expiry, or the admin's unguarded delete.   *)
OnlyOwnRemoval ==
    [][\A i \in ClaimId : Removed(i) =>
          \/ \E p \in Proc : /\ op[p].name \in {"release_own", "claim_marker"}
                             /\ op[p].id = i
                             /\ result[p] = "pending" /\ result'[p] = "wrote"
          \/ key' = Gone /\ UNCHANGED <<op, result, pc>>]_casVars

(* The conjunction that is inductive.                                      *)
IInv ==
    /\ TypeOK
    /\ Control
    /\ Planned
    /\ WatchIsCurrent
    /\ Accounted
    /\ NoLostUpdate
    /\ NoResurrection
    /\ ReleasedHasEnded
    /\ AttemptsCounted

(* The command-by-command specification implements the atomic one.         *)
ImplementsSessionKey == Spec

(* The attempt budget: every call of cas_session returns.                  *)
CasReturns == \A p \in Proc : Running(p) ~> pc[p] = "done"

=============================================================================
