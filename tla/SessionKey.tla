----------------------------- MODULE SessionKey -----------------------------
(***************************************************************************)
(* What handler/streaming/session_store.py promises of one session key:    *)
(* every read-modify-write takes effect at one instant, against the value  *)
(* the key holds at that instant, or not at all.                           *)
(*                                                                         *)
(* A key holds nothing, something that is not a session, a claim or a      *)
(* drain marker.  A claim is told apart by its identity (the holder plus   *)
(* the moment they took it) and carries the set of fields merged into it   *)
(* since; a marker by its token.  The TTL is a class: "full" (six hours),  *)
(* "marker" (a minute, refreshed) or "drain" (five seconds).               *)
(***************************************************************************)
CONSTANTS
    Proc,      \* tasks (requests, background work) running one operation each
    ClaimId,   \* identities of claims
    Token,     \* drain tokens (secrets.token_hex)
    Field      \* the fields a session is updated with

VARIABLES
    key,       \* what Redis holds at the session key
    op,        \* op[p]: the operation p was called with, or NoOp
    result     \* result[p]: how it ended, or "pending"

absVars == <<key, op, result>>

TTLs == {"full", "marker", "drain"}

Gone == [kind |-> "gone"]
Corrupt == [kind |-> "corrupt"]
Claim == [kind: {"claim"}, id: ClaimId, fields: SUBSET Field, ttl: TTLs]
Marker == [kind: {"marker"}, token: Token, ttl: TTLs]
Session == Claim \cup Marker
KeyValue == {Gone, Corrupt} \cup Session

NewClaim(i) == [kind |-> "claim", id |-> i, fields |-> {}, ttl |-> "full"]
drain_marker(k, t) == [kind |-> "marker", token |-> k, ttl |-> t]

-----------------------------------------------------------------------------
(* The requirements a plan may put on the session it reads.                *)

same_claim(s, i) == s.kind = "claim" /\ s.id = i
not_draining(s) == s.kind = "claim"
own_marker(s, k) == s.kind = "marker" /\ s.token = k

-----------------------------------------------------------------------------
(* The callers of cas_session, by what they require and what they write.   *)

NoOp == [name |-> "none"]

(* mutate_session with require = same_claim: hold_session_claim,           *)
(* stamp_launched and the guarded writers of the launch path.              *)
MutateOwn == [name: {"mutate_own"}, id: ClaimId, field: Field]
(* mutate_session with require = not draining: the heartbeat, and          *)
(* set_session_disc for a session without a broker session id.             *)
MutateLive == [name: {"mutate_live"}, field: Field]
(* mutate_session without require: the memory card a claim settles on.     *)
MutateAny == [name: {"mutate_any"}, field: Field]
ReleaseOwn == [name: {"release_own"}, id: ClaimId]
ClaimMarker == [name: {"claim_marker"}, id: ClaimId, token: Token,
                ttl: {"marker", "drain"}]
HoldMarker == [name: {"hold_marker"}, token: Token]
DropMarker == [name: {"drop_marker"}, token: Token]

(* get_session: a plain GET that never writes a session.                   *)
ReadOnly == [name: {"read"}]

CasOp == ReadOnly \cup MutateOwn \cup MutateLive \cup MutateAny \cup ReleaseOwn
           \cup ClaimMarker \cup HoldMarker \cup DropMarker

(* Variant: a release that does not ask whose claim it is.                 *)
AcceptsAnyClaim(o, s) ==
    \/ o.name \in {"mutate_own", "claim_marker"} /\ same_claim(s, o.id)
    \/ o.name \in {"release_own", "mutate_live"} /\ not_draining(s)
    \/ o.name = "mutate_any"
    \/ o.name \in {"hold_marker", "drop_marker"} /\ own_marker(s, o.token)

(* The plan's verdict on the session it was given.                         *)
Accepts(o, s) ==
    \/ o.name \in {"mutate_own", "release_own", "claim_marker"}
         /\ same_claim(s, o.id)
    \/ o.name = "mutate_live" /\ not_draining(s)
    \/ o.name = "mutate_any"
    \/ o.name \in {"hold_marker", "drop_marker"} /\ own_marker(s, o.token)

(* session.update(changes): only a claim's fields are told apart.          *)
Merge(s, f) ==
    IF s.kind = "claim"
    THEN [s EXCEPT !.fields = @ \cup {f}, !.ttl = "full"]
    ELSE [s EXCEPT !.ttl = "full"]

(* What the plan wants left at the key, computed from what it read.        *)
Write(o, s) ==
    CASE o.name \in {"mutate_own", "mutate_live", "mutate_any"} -> Merge(s, o.field)
      [] o.name = "claim_marker" -> drain_marker(o.token, o.ttl)
      [] o.name = "hold_marker" -> drain_marker(o.token, "marker")
      [] OTHER -> Gone

IsDelete(o) == o.name \in {"release_own", "drop_marker"}

-----------------------------------------------------------------------------
(* One atomic step per way an operation can end.                           *)

Init ==
    /\ key = Gone
    /\ op = [p \in Proc |-> NoOp]
    /\ result = [p \in Proc |-> "pending"]

Call(p, o) ==
    /\ op[p] = NoOp
    /\ op' = [op EXCEPT ![p] = o]
    /\ UNCHANGED <<key, result>>

Finish(p, r) ==
    /\ op[p] # NoOp
    /\ result[p] = "pending"
    /\ result' = [result EXCEPT ![p] = r]
    /\ UNCHANGED op

(* The operation takes effect on the session the key holds now.            *)
Apply(p) ==
    /\ key \in Session
    /\ Accepts(op[p], key)
    /\ Finish(p, "wrote")
    /\ key' = Write(op[p], key)

(* A delete that finds nothing left to delete.                             *)
ApplyToNothing(p) ==
    /\ key = Gone
    /\ IsDelete(op[p])
    /\ Finish(p, "wrote")
    /\ UNCHANGED key

Refuse(p) ==
    /\ key \in Session
    /\ ~Accepts(op[p], key)
    /\ Finish(p, "rejected")
    /\ UNCHANGED key

Missing(p) ==
    /\ key = Gone
    /\ Finish(p, "missing")
    /\ UNCHANGED key

Vanished(p) ==
    /\ key = Gone
    /\ ~IsDelete(op[p])
    /\ Finish(p, "vanished")
    /\ UNCHANGED key

Contended(p) ==
    /\ Finish(p, "contended")
    /\ UNCHANGED key

(* The writers that are a single Redis command already.                    *)

SetNX(i) ==
    /\ key = Gone
    /\ key' = NewClaim(i)
    /\ UNCHANGED <<op, result>>

Refresh ==
    /\ key \in Session
    /\ key' = [key EXCEPT !.ttl = "full"]
    /\ UNCHANGED <<op, result>>

ForceDelete ==
    /\ key' = Gone
    /\ UNCHANGED <<op, result>>

Expire ==
    /\ key # Gone
    /\ key' = Gone
    /\ UNCHANGED <<op, result>>

Next ==
    \/ \E p \in Proc, o \in CasOp : Call(p, o)
    \/ \E p \in Proc :
         \/ Apply(p) \/ ApplyToNothing(p) \/ Refuse(p)
         \/ Missing(p) \/ Vanished(p) \/ Contended(p)
    \/ \E i \in ClaimId : SetNX(i)
    \/ Refresh
    \/ ForceDelete
    \/ Expire

Spec == Init /\ [][Next]_absVars

=============================================================================
