------------------------- MODULE SessionCas_proofs --------------------------
(***************************************************************************)
(* The invariant of SessionCas is inductive, and every step of cas_session *)
(* is a step of the atomic SessionKey or a stutter, for any number of      *)
(* tasks, claims, tokens, fields and attempts.                             *)
(***************************************************************************)
EXTENDS SessionCas, TLAPS

-----------------------------------------------------------------------------
(* Facts about the plans.                                                  *)

(* The seven callers of cas_session, by name.                              *)
LEMMA OpNames ==
    ASSUME NEW o \in CasOp
    PROVE  /\ o.name \in {"read", "mutate_own", "mutate_live", "mutate_any",
                          "release_own", "claim_marker", "hold_marker", "drop_marker"}
           /\ o.name \in {"mutate_own", "mutate_live", "mutate_any"} => o.field \in Field
           /\ o.name \in {"mutate_own", "release_own", "claim_marker"} => o.id \in ClaimId
           /\ o.name \in {"claim_marker", "hold_marker", "drop_marker"} => o.token \in Token
           /\ o.name = "claim_marker" => o.ttl \in TTLs
BY DEF CasOp, ReadOnly, MutateOwn, MutateLive, MutateAny, ReleaseOwn, ClaimMarker,
       HoldMarker, DropMarker, TTLs

(* What each kind of key value is, told by its kind.                       *)
LEMMA KeyKinds ==
    ASSUME NEW s \in KeyValue
    PROVE  /\ s \in Session <=> s.kind \in {"claim", "marker"}
           /\ s.kind = "claim" <=> s \in Claim
           /\ s.kind = "marker" <=> s \in Marker
           /\ s.kind = "gone" <=> s = Gone
           /\ s.kind = "corrupt" <=> s = Corrupt
BY DEF KeyValue, Session, Claim, Marker, Gone, Corrupt

(* session.update keeps the identity and the fields a claim already had.   *)
LEMMA MergeKeeps ==
    ASSUME NEW s \in Session, NEW f \in Field
    PROVE  /\ Merge(s, f) \in Session
           /\ Merge(s, f).kind = s.kind
           /\ s.kind = "claim" => /\ Merge(s, f).id = s.id
                                  /\ Merge(s, f).fields = s.fields \cup {f}
<1>1. CASE s \in Claim
  BY <1>1 DEF Claim, Marker, Session, Merge, TTLs
<1>2. CASE s \in Marker
  BY <1>2 DEF Claim, Marker, Session, Merge, TTLs
<1> QED BY <1>1, <1>2 DEF Session

(* What a plan leaves at the key is a session or nothing, and it is the    *)
(* same claim exactly when the plan is a merge.                            *)
LEMMA WriteType ==
    ASSUME NEW o \in CasOp, NEW s \in Session, Accepts(o, s)
    PROVE  /\ Write(o, s) \in KeyValue
           /\ Write(o, s) # Corrupt
           /\ IsDelete(o) <=> Write(o, s) = Gone
           /\ o.name \in {"mutate_own", "mutate_live", "mutate_any"} =>
                Write(o, s) = Merge(s, o.field)
           /\ o.name \notin {"mutate_own", "mutate_live", "mutate_any"} =>
                Write(o, s).kind # "claim"
<1> USE OpNames
<1>1. CASE o.name \in {"mutate_own", "mutate_live", "mutate_any"}
  <2>1. Write(o, s) = Merge(s, o.field)
    BY <1>1 DEF Write
  <2>2. Merge(s, o.field) \in Session
    BY <1>1, MergeKeeps
  <2>3. Merge(s, o.field).kind \in {"claim", "marker"}
    BY <2>2, KeyKinds DEF KeyValue
  <2> QED BY <1>1, <2>1, <2>2, <2>3 DEF KeyValue, IsDelete, Gone, Corrupt
<1>2. CASE o.name \in {"claim_marker", "hold_marker"}
  <2>1. Write(o, s) \in Marker /\ Write(o, s).kind = "marker"
    BY <1>2 DEF Write, drain_marker, Marker, TTLs
  <2> QED BY <1>2, <2>1 DEF KeyValue, Session, IsDelete, Gone, Corrupt
<1>3. CASE o.name \in {"release_own", "drop_marker"}
  <2>1. Write(o, s) = Gone
    BY <1>3 DEF Write
  <2> QED BY <1>3, <2>1 DEF KeyValue, IsDelete, Gone, Corrupt
<1>4. o.name # "read"
  BY DEF Accepts
<1> QED BY <1>1, <1>2, <1>3, <1>4

-----------------------------------------------------------------------------
(* Typing.                                                                 *)

(* Every step of the commands keeps the type invariant.                    *)
LEMMA NextTypeOK ==
    ASSUME IInv, [CasNext]_casVars
    PROVE  TypeOK'
<1> USE AttemptsAssumption, OpsAssumption DEF TypeOK, Outcomes
<1>0. TypeOK /\ Control /\ Planned /\ Accounted
  BY DEF IInv
<1>gone. Gone \in KeyValue
  BY DEF KeyValue
<1>mod. ASSUME NEW v \in KeyValue, Modify(v)
        PROVE  /\ key' \in KeyValue
               /\ dirty' \in [Proc -> BOOLEAN]
               /\ ended' \in SUBSET issued
               /\ moved' \in [Proc -> 0..Attempts]
  BY <1>0, <1>mod DEF Modify, Touch, Record, Accounted
<1>1. ASSUME NEW p \in Proc, NEW o \in Ops, Start(p, o)  PROVE TypeOK'
  BY <1>0, <1>1 DEF Start, history
<1>2. ASSUME NEW p \in Proc, CasStep(p)  PROVE TypeOK'
  <2>1. CASE Watch(p)
    BY <1>0, <2>1 DEF Watch, history
  <2>2. CASE GiveUp(p)
    BY <1>0, <2>2 DEF GiveUp, Return, history
  <2>3. CASE GetMissing(p)
    BY <1>0, <2>3 DEF GetMissing, Return, history
  <2>4. CASE GetCorrupt(p)
    BY <1>0, <2>4 DEF GetCorrupt, history
  <2>5. CASE GetRejected(p)
    BY <1>0, <2>5 DEF GetRejected, Return, history
  <2>6. CASE GetPlanned(p)
    BY <1>0, <2>6 DEF GetPlanned, history
  <2>7. CASE DropCorrupt(p)
    BY <1>0, <1>gone, <1>mod, <2>7 DEF DropCorrupt, Return
  <2>8. CASE ExecAborted(p)
    <3>1. tries[p] < Attempts
      BY <2>8 DEF ExecAborted, IInv, AttemptsCounted, Watching
    <3> QED BY <1>0, <2>8, <3>1 DEF ExecAborted, history
  <2>9. CASE ExecVanished(p)
    BY <1>0, <2>9 DEF ExecVanished, Return, history
  <2>10. CASE ExecWrote(p)
    <3>1. op[p] \in CasOp /\ seen[p] \in Session /\ Accepts(op[p], seen[p])
      BY <1>0, <2>10 DEF ExecWrote, Acknowledge, Control, Planned
    <3>2. Write(op[p], seen[p]) \in KeyValue
      BY <3>1, WriteType
    <3>3. acked' \in SUBSET (ClaimId \X Field)
      <4>1. CASE op[p].name \in {"mutate_own", "mutate_live", "mutate_any"}
                   /\ seen[p].kind = "claim"
        <5>1. op[p].field \in Field
          BY <4>1, <3>1, OpNames
        <5>2. seen[p].id \in ClaimId
          BY <4>1, <3>1 DEF Session, Claim, Marker
        <5> QED BY <1>0, <2>10, <4>1, <5>1, <5>2 DEF ExecWrote, Acknowledge
      <4>2. CASE ~(op[p].name \in {"mutate_own", "mutate_live", "mutate_any"}
                   /\ seen[p].kind = "claim")
        BY <1>0, <2>10, <4>2 DEF ExecWrote, Acknowledge
      <4> QED BY <4>1, <4>2
    <3> QED BY <1>0, <1>mod, <2>10, <3>2, <3>3 DEF ExecWrote, Acknowledge, Return
  <2> QED BY <1>2, <2>1, <2>2, <2>3, <2>4, <2>5, <2>6, <2>7, <2>8, <2>9, <2>10
          DEF CasStep
<1>3. ASSUME NEW i \in ClaimId, TryClaim(i)  PROVE TypeOK'
  <2>1. NewClaim(i) \in KeyValue
    BY DEF NewClaim, KeyValue, Session, Claim, TTLs
  <2> QED BY <1>0, <1>mod, <1>3, <2>1 DEF TryClaim
<1>4. CASE RefreshSession
  <2>1. [key EXCEPT !.ttl = "full"] \in KeyValue
    BY <1>4 DEF RefreshSession, KeyValue, Session, Claim, Marker, TTLs
  <2> QED BY <1>0, <1>mod, <1>4, <2>1 DEF RefreshSession
<1>5. CASE UnguardedDelete
  BY <1>0, <1>gone, <1>mod, <1>5 DEF UnguardedDelete
<1>6. CASE KeyExpires
  <2>1. dirty' \in [Proc -> BOOLEAN]
    BY <1>0, <1>6 DEF KeyExpires, Touch
  <2>2. ended' \in SUBSET issued /\ moved' \in [Proc -> 0..Attempts]
    BY <1>0, <1>6 DEF KeyExpires, Record, Accounted
  <2> QED BY <1>0, <1>gone, <1>6, <2>1, <2>2 DEF KeyExpires
<1>7. CASE Done \/ UNCHANGED casVars
  BY <1>0, <1>7 DEF Done, casVars
<1> QED BY <1>1, <1>2, <1>3, <1>4, <1>5, <1>6, <1>7 DEF CasNext

-----------------------------------------------------------------------------
(* The steps of cas_session that leave the key alone.                      *)

Quiet(p) ==
    \/ Watch(p) \/ GiveUp(p) \/ GetMissing(p) \/ GetRejected(p) \/ GetPlanned(p)
    \/ ExecAborted(p) \/ ExecVanished(p)

(* The steps of cas_session that only read Redis, or give up, leave the    *)
(* key and the histories alone.                                            *)
LEMMA QuietKeepsKey ==
    ASSUME NEW p \in Proc, Quiet(p)
    PROVE  UNCHANGED <<key, op, issued, ended, acked, moved>>
BY DEF Quiet, Watch, GiveUp, GetMissing, GetRejected, GetPlanned, ExecAborted,
       ExecVanished, history

(* Without a corrupt entry a step of cas_session is quiet or a write.      *)
LEMMA CasStepCases ==
    ASSUME IInv, NEW p \in Proc, CasStep(p)
    PROVE  Quiet(p) \/ ExecWrote(p)
BY DEF IInv, Control, Accounted, CasStep, Quiet, GetCorrupt, DropCorrupt

(* An EXEC that goes through writes what the plan made of the session now  *)
(* at the key, or deletes what has already expired.                        *)
LEMMA ExecIsCurrent ==
    ASSUME IInv, NEW p \in Proc, ExecWrote(p)
    PROVE  /\ op[p] \in CasOp
           /\ seen[p] \in Session
           /\ Accepts(op[p], seen[p])
           /\ \/ key = seen[p]
              \/ key = Gone /\ IsDelete(op[p])
<1>1. /\ op[p] \in CasOp
      /\ seen[p] \in Session
      /\ Accepts(op[p], seen[p])
  BY DEF IInv, Control, Planned, ExecWrote, Acknowledge
<1>2. key \in {seen[p], Gone}
  BY DEF IInv, WatchIsCurrent, ExecWrote, Acknowledge
<1> QED BY <1>1, <1>2 DEF ExecWrote, Acknowledge

-----------------------------------------------------------------------------
(* The control state of the tasks.                                         *)

(* Every step keeps a task's place in line with its operation and result.  *)
LEMMA NextControl ==
    ASSUME IInv, [CasNext]_casVars
    PROVE  Control'
<1> USE OpsAssumption
<1>0. TypeOK /\ Control
  BY DEF IInv
<1>1. ASSUME NEW p \in Proc, NEW o \in Ops, Start(p, o)  PROVE Control'
  BY <1>0, <1>1 DEF TypeOK, Control, Start, Known, history
<1>2. ASSUME NEW p \in Proc, CasStep(p)  PROVE Control'
  <2>1. CASE Watch(p)
    BY <1>0, <2>1 DEF TypeOK, Control, Watch, history
  <2>2. CASE GiveUp(p) \/ GetMissing(p) \/ GetRejected(p) \/ ExecVanished(p)
    BY <1>0, <2>2 DEF TypeOK, Control, GiveUp, GetMissing, GetRejected,
                      ExecVanished, Return, history
  <2>3. CASE GetPlanned(p) \/ ExecAborted(p)
    BY <1>0, <2>3 DEF TypeOK, Control, GetPlanned, ExecAborted, history
  <2>4. CASE ExecWrote(p)
    <3>1. \A q \in Proc : pc[q] = "idle" => ~dirty'[q]
      BY <1>0, <2>4 DEF TypeOK, Control, ExecWrote, Acknowledge, Modify, Touch, Watching
    <3> QED BY <1>0, <2>4, <3>1 DEF TypeOK, Control, ExecWrote, Acknowledge, Return
  <2> QED BY <1>2, <2>1, <2>2, <2>3, <2>4, CasStepCases DEF Quiet
<1>3. CASE (\E i \in ClaimId : TryClaim(i)) \/ RefreshSession \/ UnguardedDelete
           \/ KeyExpires
  <2>1. /\ UNCHANGED <<op, result, pc, tries>>
        /\ issued \subseteq issued'
        /\ \A q \in Proc : pc[q] = "idle" => ~dirty'[q]
    BY <1>0, <1>3 DEF TypeOK, Control, TryClaim, RefreshSession, UnguardedDelete,
                      KeyExpires, Modify, Touch, Watching
  <2> QED BY <1>0, <2>1 DEF Control
<1>4. CASE Done \/ UNCHANGED casVars
  BY <1>0, <1>4 DEF Control, Done, casVars
<1> QED BY <1>1, <1>2, <1>3, <1>4 DEF CasNext

(* A plan is only taken to EXEC with a session it accepted.                *)
LEMMA NextPlanned ==
    ASSUME IInv, [CasNext]_casVars
    PROVE  Planned'
<1>0. TypeOK /\ Planned
  BY DEF IInv
<1>1. ASSUME NEW p \in Proc, NEW o \in Ops, Start(p, o)  PROVE Planned'
  BY <1>0, <1>1 DEF TypeOK, Planned, Start
<1>2. ASSUME NEW p \in Proc, CasStep(p)  PROVE Planned'
  <2>1. CASE GetPlanned(p)
    BY <1>0, <2>1 DEF TypeOK, Planned, GetPlanned
  <2>2. CASE ~GetPlanned(p)
    <3>1. /\ UNCHANGED <<op, seen>>
          /\ \A q \in Proc : pc'[q] = "exec" => pc[q] = "exec"
      BY <1>0, <1>2, <2>2, CasStepCases
         DEF TypeOK, Quiet, Watch, GiveUp, GetMissing, GetRejected, ExecAborted,
             ExecVanished, ExecWrote, Acknowledge, Return
    <3> QED BY <1>0, <3>1 DEF Planned
  <2> QED BY <2>1, <2>2
<1>3. CASE (\E i \in ClaimId : TryClaim(i)) \/ RefreshSession \/ UnguardedDelete
           \/ KeyExpires \/ Done \/ UNCHANGED casVars
  <2>1. UNCHANGED <<op, seen, pc>>
    BY <1>3 DEF TryClaim, RefreshSession, UnguardedDelete, KeyExpires, Done, casVars
  <2> QED BY <1>0, <2>1 DEF Planned
<1> QED BY <1>1, <1>2, <1>3 DEF CasNext

-----------------------------------------------------------------------------
(* WATCH: every writer but an expiry marks the tasks watching the key.     *)

(* A write to the key marks every task that watches it, so the session a   *)
(* clean transaction was planned on is still the one at the key.           *)
LEMMA NextWatchIsCurrent ==
    ASSUME IInv, [CasNext]_casVars
    PROVE  WatchIsCurrent'
<1>0. TypeOK /\ WatchIsCurrent /\ Accounted
  BY DEF IInv
<1>mod. ASSUME NEW v, Modify(v), UNCHANGED seen,
               \A q \in Proc : pc'[q] = "exec" => pc[q] = "exec"
        PROVE  WatchIsCurrent'
  BY <1>0, <1>mod DEF TypeOK, WatchIsCurrent, Modify, Touch, Watching
<1>1. ASSUME NEW p \in Proc, NEW o \in Ops, Start(p, o)  PROVE WatchIsCurrent'
  BY <1>0, <1>1 DEF TypeOK, WatchIsCurrent, Start
<1>2. ASSUME NEW p \in Proc, CasStep(p)  PROVE WatchIsCurrent'
  <2>1. CASE GetPlanned(p)
    BY <1>0, <2>1 DEF TypeOK, WatchIsCurrent, GetPlanned
  <2>2. CASE Watch(p)
    BY <1>0, <2>2 DEF TypeOK, WatchIsCurrent, Watch
  <2>3. CASE ExecWrote(p)
    <3>1. \A q \in Proc : pc'[q] = "exec" => pc[q] = "exec"
      BY <1>0, <2>3 DEF TypeOK, ExecWrote, Acknowledge, Return
    <3> QED BY <1>mod, <2>3, <3>1 DEF ExecWrote, Acknowledge
  <2>4. CASE GiveUp(p) \/ GetMissing(p) \/ GetRejected(p) \/ ExecAborted(p)
             \/ ExecVanished(p)
    <3>1. /\ UNCHANGED <<key, seen, dirty>>
          /\ \A q \in Proc : pc'[q] = "exec" => pc[q] = "exec"
      BY <1>0, <2>4 DEF TypeOK, GiveUp, GetMissing, GetRejected, ExecAborted,
                        ExecVanished, Return
    <3> QED BY <1>0, <3>1 DEF WatchIsCurrent
  <2> QED BY <1>2, <2>1, <2>2, <2>3, <2>4, CasStepCases DEF Quiet
<1>3. ASSUME NEW i \in ClaimId, TryClaim(i)  PROVE WatchIsCurrent'
  BY <1>mod, <1>3 DEF TryClaim
<1>4. CASE RefreshSession
  BY <1>mod, <1>4 DEF RefreshSession
<1>5. CASE UnguardedDelete
  BY <1>mod, <1>5 DEF UnguardedDelete
<1>6. CASE KeyExpires
  <2>1. key' = Gone /\ UNCHANGED seen
    BY <1>6 DEF KeyExpires
  <2> QED BY <2>1 DEF WatchIsCurrent
<1>7. CASE Done \/ UNCHANGED casVars
  BY <1>0, <1>7 DEF WatchIsCurrent, Done, casVars
<1> QED BY <1>1, <1>2, <1>3, <1>4, <1>5, <1>6, <1>7 DEF CasNext

-----------------------------------------------------------------------------
(* The history of the claims.                                              *)

Histories == Accounted /\ NoLostUpdate /\ NoResurrection

(* A write that keeps the identity and the fields of the claim at the key, *)
(* or leaves no claim, keeps the histories.                                *)
LEMMA WriteKeepsHistories ==
    ASSUME IInv, NEW v \in KeyValue, v # Corrupt,
           key' = v, Record(v), UNCHANGED issued,
           v.kind = "claim" => /\ key.kind = "claim"
                               /\ v.id = key.id
                               /\ key.fields \subseteq v.fields,
           \A a \in acked' : \/ a \in acked
                             \/ /\ v.kind = "claim" /\ a[1] = v.id
                                /\ a[2] \in v.fields
    PROVE  Histories'
<1>0. TypeOK /\ Accounted /\ NoLostUpdate /\ NoResurrection
  BY DEF IInv
<1>1. Accounted'
  BY <1>0 DEF Accounted, Record, same_claim
<1>2. NoLostUpdate'
  BY <1>0 DEF NoLostUpdate, Accounted, same_claim
<1>3. NoResurrection'
  BY <1>0 DEF NoResurrection, Record, same_claim
<1> QED BY <1>1, <1>2, <1>3 DEF Histories

(* No step loses an acknowledged update, brings back a claim that ended or *)
(* lets go of a claim without recording that it did.                       *)
LEMMA NextHistories ==
    ASSUME IInv, [CasNext]_casVars
    PROVE  Histories'
<1>0. TypeOK /\ Accounted /\ NoLostUpdate /\ NoResurrection
  BY DEF IInv
<1>gone. Gone \in KeyValue /\ Gone # Corrupt /\ Gone.kind # "claim"
  BY DEF KeyValue, Gone, Corrupt
<1>same. ASSUME UNCHANGED <<key, issued, ended, acked>>  PROVE Histories'
  BY <1>0, <1>same DEF Histories, Accounted, NoLostUpdate, NoResurrection
<1>1. ASSUME NEW p \in Proc, NEW o \in Ops, Start(p, o)  PROVE Histories'
  BY <1>1, <1>same DEF Start, history
<1>2. ASSUME NEW p \in Proc, CasStep(p)  PROVE Histories'
  <2>1. CASE Quiet(p)
    BY <2>1, <1>same, QuietKeepsKey
  <2>2. CASE ExecWrote(p)
    <3> DEFINE o == op[p]
               s == seen[p]
               v == Write(o, s)
    <3>1. o \in CasOp /\ s \in Session /\ Accepts(o, s)
      BY <2>2, ExecIsCurrent
    <3>2. v \in KeyValue /\ v # Corrupt
      BY <3>1, WriteType
    <3>3. CASE o.name \in {"mutate_own", "mutate_live", "mutate_any"}
      <4>1. key = s
        BY <2>2, <3>3, ExecIsCurrent DEF IsDelete
      <4>2. v = Merge(s, o.field) /\ o.field \in Field
        BY <3>1, <3>3, WriteType, OpNames
      <4>3. /\ v.kind = s.kind
            /\ s.kind = "claim" => v.id = s.id /\ v.fields = s.fields \cup {o.field}
        BY <3>1, <4>2, MergeKeeps
      <4>4. acked' = IF s.kind = "claim" THEN acked \cup {<<s.id, o.field>>} ELSE acked
        BY <2>2, <3>3 DEF ExecWrote, Acknowledge
      <4>5. key' = v /\ Record(v) /\ UNCHANGED issued
        BY <2>2 DEF ExecWrote, Acknowledge, Modify
      <4> HIDE DEF v
      <4> QED BY <3>2, <4>1, <4>3, <4>4, <4>5, WriteKeepsHistories
    <3>4. CASE o.name \notin {"mutate_own", "mutate_live", "mutate_any"}
      <4>1. v.kind # "claim"
        BY <3>1, <3>4, WriteType
      <4>2. key' = v /\ Record(v) /\ UNCHANGED <<issued, acked>>
        BY <2>2, <3>4 DEF ExecWrote, Acknowledge, Modify
      <4> HIDE DEF v
      <4> QED BY <3>2, <4>1, <4>2, WriteKeepsHistories
    <3> QED BY <3>3, <3>4
  <2> QED BY <1>2, <2>1, <2>2, CasStepCases
<1>3. ASSUME NEW i \in ClaimId, TryClaim(i)  PROVE Histories'
  <2>1. /\ key = Gone /\ key' = NewClaim(i) /\ i \notin issued
        /\ issued' = issued \cup {i} /\ ended' = ended /\ acked' = acked
    BY <1>3, <1>gone DEF TryClaim, Modify, Record
  <2>2. /\ NewClaim(i).kind = "claim" /\ NewClaim(i).id = i
        /\ NewClaim(i) # Corrupt
    BY DEF NewClaim, Corrupt
  <2>3. Accounted'
    BY <1>0, <1>gone, <2>1, <2>2 DEF Accounted, same_claim
  <2>4. NoLostUpdate' /\ NoResurrection'
    BY <1>0, <2>1, <2>2 DEF TypeOK, Accounted, NoLostUpdate, NoResurrection, same_claim
  <2> QED BY <2>3, <2>4 DEF Histories
<1>4. CASE RefreshSession
  <2> DEFINE v == [key EXCEPT !.ttl = "full"]
  <2>1. key' = v /\ Record(v) /\ UNCHANGED <<issued, acked>> /\ key \in Session
    BY <1>4 DEF RefreshSession, Modify
  <2>2. /\ v \in KeyValue /\ v # Corrupt /\ v.kind = key.kind
        /\ v.kind = "claim" => v.id = key.id /\ v.fields = key.fields
    BY <2>1 DEF KeyValue, Session, Claim, Marker, Corrupt, TTLs
  <2> HIDE DEF v
  <2> QED BY <2>1, <2>2, WriteKeepsHistories
<1>5. CASE UnguardedDelete
  BY <1>5, <1>gone, WriteKeepsHistories DEF UnguardedDelete, Modify
<1>6. CASE KeyExpires
  BY <1>6, <1>gone, WriteKeepsHistories DEF KeyExpires
<1>7. CASE Done \/ UNCHANGED casVars
  BY <1>7, <1>same DEF Done, casVars
<1> QED BY <1>1, <1>2, <1>3, <1>4, <1>5, <1>6, <1>7 DEF CasNext

(* A release or a drain reports success only for a claim that has ended.   *)
LEMMA NextReleasedHasEnded ==
    ASSUME IInv, [CasNext]_casVars
    PROVE  ReleasedHasEnded'
<1>0. TypeOK /\ Control /\ Accounted /\ ReleasedHasEnded
  BY DEF IInv
<1>1. ASSUME NEW p \in Proc, NEW o \in Ops, Start(p, o)  PROVE ReleasedHasEnded'
  BY <1>0, <1>1 DEF TypeOK, Control, ReleasedHasEnded, Start, history
<1>2. ASSUME NEW p \in Proc, CasStep(p)  PROVE ReleasedHasEnded'
  <2>1. CASE GetMissing(p)
    <3>1. key = Gone /\ \A i \in issued : i \in ended
      BY <1>0, <2>1 DEF GetMissing, Accounted, same_claim, Gone
    <3> QED BY <1>0, <2>1, <3>1
            DEF TypeOK, Control, ReleasedHasEnded, GetMissing, Return, history
  <2>2. CASE Quiet(p) /\ ~GetMissing(p)
    <3>1. /\ UNCHANGED <<op, ended>>
          /\ \A q \in Proc : result'[q] \in {"wrote", "missing"} =>
               result[q] \in {"wrote", "missing"}
      BY <1>0, <2>2 DEF TypeOK, Quiet, Watch, GiveUp, GetRejected, GetPlanned,
                        ExecAborted, ExecVanished, Return, history
    <3> QED BY <1>0, <3>1 DEF ReleasedHasEnded
  <2>3. CASE ExecWrote(p)
    <3>1. ended \subseteq ended' /\ UNCHANGED op
      BY <2>3 DEF ExecWrote, Acknowledge, Modify, Record
    <3>2. ASSUME op[p].name \in {"release_own", "claim_marker"}
          PROVE  op[p].id \in ended'
      <4>1. op[p].id \in issued
        BY <1>0, <3>2 DEF Control
      <4>2. /\ key' = Write(op[p], seen[p])
            /\ key' # Corrupt /\ key'.kind # "claim"
        BY <2>3, <3>2, ExecIsCurrent, WriteType DEF ExecWrote, Acknowledge, Modify
      <4>3. Accounted' /\ UNCHANGED issued
        BY <2>3, NextHistories DEF Histories, ExecWrote, Acknowledge
      <4> QED BY <4>1, <4>2, <4>3 DEF Accounted, same_claim
    <3>3. \A q \in Proc \ {p} : result'[q] = result[q]
      BY <1>0, <2>3 DEF TypeOK, ExecWrote, Acknowledge, Return
    <3> QED BY <1>0, <3>1, <3>2, <3>3 DEF ReleasedHasEnded
  <2> QED BY <1>2, <2>1, <2>2, <2>3, CasStepCases
<1>3. CASE (\E i \in ClaimId : TryClaim(i)) \/ RefreshSession \/ UnguardedDelete
           \/ KeyExpires \/ Done \/ UNCHANGED casVars
  <2>1. UNCHANGED <<op, result>> /\ ended \subseteq ended'
    BY <1>3 DEF TryClaim, RefreshSession, UnguardedDelete, KeyExpires, Done, casVars,
                Modify, Record
  <2> QED BY <1>0, <2>1 DEF ReleasedHasEnded
<1> QED BY <1>1, <1>2, <1>3 DEF CasNext

-----------------------------------------------------------------------------
(* The attempts.                                                           *)

(* Every attempt an EXEC aborts is paid for by a write of somebody else.   *)
LEMMA NextAttemptsCounted ==
    ASSUME IInv, [CasNext]_casVars
    PROVE  AttemptsCounted'
<1> USE AttemptsAssumption
<1>0. TypeOK /\ Control /\ AttemptsCounted
  BY DEF IInv
<1>mod. ASSUME Record(key'), UNCHANGED tries,
               Touch \/ UNCHANGED dirty,
               \A q \in Proc : \/ pc'[q] = pc[q] /\ result'[q] = result[q]
                               \/ pc'[q] = "done" /\ result'[q] # "contended"
        PROVE  AttemptsCounted'
  <2> SUFFICES ASSUME NEW q \in Proc
               PROVE  /\ tries'[q] <= moved'[q]
                      /\ Watching(q)' => tries'[q] < Attempts
                      /\ Watching(q)' /\ dirty'[q] => tries'[q] < moved'[q]
                      /\ result'[q] = "contended" => moved'[q] = Attempts
    BY DEF AttemptsCounted
  <2>1. /\ moved'[q] = IF Running(q) /\ moved[q] < Attempts THEN moved[q] + 1
                                                           ELSE moved[q]
        /\ moved[q] \in 0..Attempts /\ tries[q] \in 0..Attempts
    BY <1>0, <1>mod DEF TypeOK, Record
  <2>2. Watching(q)' => Watching(q) /\ Running(q)
    BY <1>mod DEF Watching, Running
  <2>3. /\ tries[q] <= moved[q]
        /\ Watching(q) => tries[q] < Attempts
        /\ result[q] = "contended" => moved[q] = Attempts
    BY <1>0 DEF AttemptsCounted
  <2> QED BY <1>mod, <2>1, <2>2, <2>3
<1>1. ASSUME NEW p \in Proc, NEW o \in Ops, Start(p, o)  PROVE AttemptsCounted'
  BY <1>0, <1>1 DEF TypeOK, Control, AttemptsCounted, Watching, Start, history
<1>2. ASSUME NEW p \in Proc, CasStep(p)  PROVE AttemptsCounted'
  <2>1. CASE Watch(p)
    BY <1>0, <2>1 DEF TypeOK, AttemptsCounted, Watching, Watch, history
  <2>2. CASE GiveUp(p)
    BY <1>0, <2>2 DEF TypeOK, AttemptsCounted, Watching, GiveUp, Return, history
  <2>3. CASE GetMissing(p) \/ GetRejected(p) \/ ExecVanished(p)
    BY <1>0, <2>3 DEF TypeOK, AttemptsCounted, Watching, GetMissing, GetRejected,
                      ExecVanished, Return, history
  <2>4. CASE GetPlanned(p)
    BY <1>0, <2>4 DEF TypeOK, AttemptsCounted, Watching, GetPlanned, history
  <2>5. CASE ExecAborted(p)
    BY <1>0, <2>5 DEF TypeOK, AttemptsCounted, Watching, ExecAborted, history
  <2>6. CASE ExecWrote(p)
    <3>1. \A q \in Proc : \/ pc'[q] = pc[q] /\ result'[q] = result[q]
                          \/ pc'[q] = "done" /\ result'[q] # "contended"
      BY <1>0, <2>6 DEF TypeOK, ExecWrote, Acknowledge, Return
    <3> QED BY <1>mod, <2>6, <3>1 DEF ExecWrote, Acknowledge, Modify
  <2> QED BY <1>2, <2>1, <2>2, <2>3, <2>4, <2>5, <2>6, CasStepCases DEF Quiet
<1>3. ASSUME NEW i \in ClaimId, TryClaim(i)  PROVE AttemptsCounted'
  BY <1>mod, <1>3 DEF TryClaim, Modify
<1>4. CASE RefreshSession \/ UnguardedDelete
  BY <1>mod, <1>4 DEF RefreshSession, UnguardedDelete, Modify
<1>5. CASE KeyExpires
  BY <1>mod, <1>5 DEF KeyExpires
<1>6. CASE Done \/ UNCHANGED casVars
  BY <1>0, <1>6 DEF AttemptsCounted, Watching, Done, casVars
<1> QED BY <1>1, <1>2, <1>3, <1>4, <1>5, <1>6 DEF CasNext

-----------------------------------------------------------------------------
(* The theorems.                                                           *)

(* The inductive invariant holds of an empty key.                          *)
LEMMA InitIInv == CasInit => IInv
<1> SUFFICES ASSUME CasInit PROVE IInv
  OBVIOUS
<1> USE AttemptsAssumption DEF CasInit, Init0, Procs
<1>1. TypeOK
  BY DEF TypeOK, Outcomes, KeyValue
<1>2. Control /\ Planned /\ WatchIsCurrent
  BY DEF Control, Planned, WatchIsCurrent, NoOp
<1>3. Accounted /\ NoLostUpdate /\ NoResurrection
  BY DEF Accounted, NoLostUpdate, NoResurrection, Gone, Corrupt
<1>4. ReleasedHasEnded /\ AttemptsCounted
  BY DEF ReleasedHasEnded, AttemptsCounted, Watching
<1> QED BY <1>1, <1>2, <1>3, <1>4 DEF IInv

(* The inductive invariant is inductive.                                   *)
LEMMA NextIInv == IInv /\ [CasNext]_casVars => IInv'
BY NextTypeOK, NextControl, NextPlanned, NextWatchIsCurrent, NextHistories,
   NextReleasedHasEnded, NextAttemptsCounted DEF IInv, Histories

(* cas_session, command by command, keeps its invariant whatever the tasks *)
(* are called with and however their commands interleave.                  *)
THEOREM CasInvariant == CasSpec => []IInv
BY InitIInv, NextIInv, PTL DEF CasSpec

(* Type correctness of the key and of the tasks.                           *)
THEOREM CasTypeOK == CasSpec => []TypeOK
<1>1. IInv => TypeOK
  BY DEF IInv
<1> QED BY <1>1, CasInvariant, PTL

(* No update that cas_session reported as written is lost.                 *)
THEOREM CasNoLostUpdate == CasSpec => []NoLostUpdate
<1>1. IInv => NoLostUpdate
  BY DEF IInv
<1> QED BY <1>1, CasInvariant, PTL

(* No write brings back a claim that was released, drained or expired.     *)
THEOREM CasNoResurrection == CasSpec => []NoResurrection
<1>1. IInv => NoResurrection
  BY DEF IInv
<1> QED BY <1>1, CasInvariant, PTL

(* A release or drain that reports success leaves no such claim behind.    *)
THEOREM CasReleasedIsGone == CasSpec => []ReleasedIsGone
<1>1. IInv => ReleasedIsGone
  BY DEF IInv, ReleasedHasEnded, NoResurrection, ReleasedIsGone, same_claim
<1> QED BY <1>1, CasInvariant, PTL

(* StreamingSessionContended is only raised after Attempts other writes.   *)
THEOREM CasContentionIsReal == CasSpec => []ContentionIsReal
<1>1. IInv => ContentionIsReal
  BY DEF IInv, AttemptsCounted, ContentionIsReal
<1> QED BY <1>1, CasInvariant, PTL

(* A claim leaves the key only by its own release or drain, by an expiry   *)
(* or by the admin's unguarded delete.                                     *)
LEMMA StepOnlyOwnRemoval ==
    ASSUME IInv, [CasNext]_casVars, NEW i \in ClaimId, Removed(i)
    PROVE  \/ \E p \in Proc : /\ op[p].name \in {"release_own", "claim_marker"}
                              /\ op[p].id = i
                              /\ result[p] = "pending" /\ result'[p] = "wrote"
           \/ key' = Gone /\ UNCHANGED <<op, result, pc>>
<1>0. TypeOK /\ Control /\ key \in Claim /\ key # Gone
  BY KeyKinds DEF IInv, TypeOK, Removed, same_claim, Gone
<1>same. key' # key
  BY DEF Removed
<1>1. ASSUME NEW p \in Proc, ExecWrote(p)
      PROVE  /\ op[p].name \in {"release_own", "claim_marker"}
             /\ op[p].id = i
             /\ result[p] = "pending" /\ result'[p] = "wrote"
  <2>1. /\ op[p] \in CasOp /\ key = seen[p] /\ Accepts(op[p], key)
        /\ key' = Write(op[p], key) /\ key \in Session
    BY <1>0, <1>1, ExecIsCurrent DEF ExecWrote, Acknowledge, Modify
  <2>2. op[p].name \notin {"mutate_own", "mutate_live", "mutate_any"}
    <3> SUFFICES ASSUME op[p].name \in {"mutate_own", "mutate_live", "mutate_any"}
                 PROVE  FALSE
      OBVIOUS
    <3>1. key' = Merge(key, op[p].field) /\ op[p].field \in Field
      BY <2>1, WriteType, OpNames
    <3> QED BY <1>0, <2>1, <3>1, MergeKeeps DEF Removed, same_claim
  <2>3. op[p].name \notin {"hold_marker", "drop_marker", "read"}
    BY <2>1 DEF Accepts, own_marker, Removed, same_claim
  <2>4. op[p].name \in {"release_own", "claim_marker"}
    BY <2>1, <2>2, <2>3, OpNames
  <2>5. op[p].id = i
    BY <2>1, <2>4 DEF Accepts, same_claim, Removed
  <2> QED BY <1>0, <1>1, <2>4, <2>5 DEF TypeOK, Control, ExecWrote, Acknowledge, Return
<1>2. ASSUME NEW p \in Proc, CasStep(p)  PROVE ExecWrote(p)
  BY <1>2, <1>same, CasStepCases, QuietKeepsKey
<1>3. ASSUME NEW p \in Proc, NEW o \in Ops, Start(p, o)  PROVE FALSE
  BY <1>3, <1>same DEF Start
<1>4. ASSUME NEW j \in ClaimId, TryClaim(j)  PROVE FALSE
  BY <1>0, <1>4 DEF TryClaim
<1>5. CASE RefreshSession
  <2>1. key' = [key EXCEPT !.ttl = "full"]
    BY <1>5 DEF RefreshSession, Modify
  <2> QED BY <1>0, <2>1 DEF Removed, same_claim, Claim
<1>6. CASE UnguardedDelete \/ KeyExpires
  BY <1>6 DEF UnguardedDelete, KeyExpires, Modify
<1>7. CASE Done \/ UNCHANGED casVars
  BY <1>7, <1>same DEF Done, casVars
<1> QED BY <1>1, <1>2, <1>3, <1>4, <1>5, <1>6, <1>7 DEF CasNext

(* No release and no drain ever removes a claim other than its own.        *)
THEOREM CasOnlyOwnRemoval == CasSpec => OnlyOwnRemoval
<1>1. IInv /\ [CasNext]_casVars =>
        [\A i \in ClaimId : Removed(i) =>
          \/ \E p \in Proc : /\ op[p].name \in {"release_own", "claim_marker"}
                             /\ op[p].id = i
                             /\ result[p] = "pending" /\ result'[p] = "wrote"
          \/ key' = Gone /\ UNCHANGED <<op, result, pc>>]_casVars
  BY StepOnlyOwnRemoval
<1> QED BY <1>1, CasInvariant, PTL DEF CasSpec, OnlyOwnRemoval

-----------------------------------------------------------------------------
(* Refinement.                                                             *)

(* Every Redis command is one atomic operation on the key, or a stutter.   *)
LEMMA StepRefines ==
    ASSUME IInv, [CasNext]_casVars
    PROVE  [Next]_absVars
<1> USE OpsAssumption
<1>0. TypeOK /\ Control /\ Accounted
  BY DEF IInv
<1>1. ASSUME NEW p \in Proc, NEW o \in Ops, Start(p, o)  PROVE Call(p, o)
  BY <1>0, <1>1 DEF TypeOK, Control, Start, Call
<1>2. ASSUME NEW p \in Proc, CasStep(p)  PROVE [Next]_absVars
  <2>0. ASSUME pc[p] \notin {"idle", "done"}, NEW r, Return(p, r), UNCHANGED op
        PROVE  Finish(p, r)
    <3>1. op[p] \in CasOp /\ result[p] = "pending"
      BY <1>0, <2>0 DEF TypeOK, Control
    <3>2. op[p] # NoOp
      BY <3>1, OpNames DEF NoOp
    <3> QED BY <2>0, <3>1, <3>2 DEF Finish, Return
  <2>1. CASE Watch(p) \/ GetPlanned(p) \/ ExecAborted(p)
    BY <2>1 DEF Watch, GetPlanned, ExecAborted, absVars
  <2>2. CASE GiveUp(p)
    BY <2>0, <2>2 DEF GiveUp, Contended, Next
  <2>3. CASE GetMissing(p)
    BY <2>0, <2>3 DEF GetMissing, Missing, Next
  <2>4. CASE GetRejected(p)
    BY <2>0, <2>4 DEF GetRejected, Refuse, Next
  <2>5. CASE ExecVanished(p)
    BY <2>0, <2>5 DEF ExecVanished, Vanished, Next
  <2>6. CASE ExecWrote(p)
    <3>1. Finish(p, "wrote") /\ key' = Write(op[p], seen[p])
      BY <2>0, <2>6 DEF ExecWrote, Acknowledge, Modify
    <3>2. CASE key = seen[p]
      <4>1. Apply(p)
        BY <2>6, <3>1, <3>2, ExecIsCurrent DEF Apply
      <4> QED BY <4>1 DEF Next
    <3>3. CASE key = Gone /\ IsDelete(op[p])
      <4>1. key' = Gone
        BY <2>6, <3>1, <3>3, ExecIsCurrent, WriteType
      <4>2. ApplyToNothing(p)
        BY <3>1, <3>3, <4>1 DEF ApplyToNothing
      <4> QED BY <4>2 DEF Next
    <3> QED BY <2>6, <3>2, <3>3, ExecIsCurrent
  <2> QED BY <1>2, <2>1, <2>2, <2>3, <2>4, <2>5, <2>6, CasStepCases DEF Quiet
<1>3. ASSUME NEW i \in ClaimId, TryClaim(i)  PROVE SetNX(i)
  BY <1>3 DEF TryClaim, Modify, SetNX
<1>4. CASE RefreshSession
  <2>1. Refresh
    BY <1>4 DEF RefreshSession, Modify, Refresh
  <2> QED BY <2>1 DEF Next
<1>5. CASE UnguardedDelete
  <2>1. ForceDelete
    BY <1>5 DEF UnguardedDelete, Modify, ForceDelete
  <2> QED BY <2>1 DEF Next
<1>6. CASE KeyExpires
  <2>1. Expire
    <3>1. key # Gone
      BY <1>6 DEF KeyExpires, Session, Claim, Marker, Gone
    <3> QED BY <1>6, <3>1 DEF KeyExpires, Expire
  <2> QED BY <2>1 DEF Next
<1>7. CASE Done \/ UNCHANGED casVars
  BY <1>7 DEF Done, casVars, absVars
<1> QED BY <1>1, <1>2, <1>3, <1>4, <1>5, <1>6, <1>7 DEF CasNext, Next

(* Every read-modify-write of session_store takes effect at one instant on *)
(* the value the key holds then: cas_session implements the atomic key.    *)
THEOREM CasImplementsSessionKey == CasSpec => ImplementsSessionKey
<1>1. CasInit => Init
  BY DEF CasInit, Init0, Init, Procs
<1>2. IInv /\ [CasNext]_casVars => [Next]_absVars
  BY StepRefines
<1> QED BY <1>1, <1>2, CasInvariant, PTL DEF CasSpec, Spec, ImplementsSessionKey

=============================================================================
