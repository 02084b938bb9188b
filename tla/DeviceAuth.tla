----------------------------- MODULE DeviceAuth -----------------------------
(***************************************************************************)
(* Pairing a device: utils/device_auth.py and endpoints/device_auth.py.    *)
(* The device polls with its device code; a user who was shown the user    *)
(* code approves or denies.  Requests run in several processes and share   *)
(* the two Redis keys of a flow and the tokens of the database; a step is  *)
(* one Redis command or one database transaction.                          *)
(*                                                                         *)
(* Codes are random: flows never share one, and keys of different flows    *)
(* are independent.                                                        *)
(***************************************************************************)
EXTENDS Naturals, FiniteSets

CONSTANTS
    Flow,      \* calls of /init
    Request    \* calls of /approve, /deny and /token; a token is named for
               \* the approval that made it

None == "none"

ASSUME RequestAssumption == None \notin Request

VARIABLES
    inited,     \* flows started
    dc,         \* dc[f]: the status and token under the device code
    uc,         \* uc: flows whose user code leads to the device code
    tokens,     \* tokens in the database
    pc, op, flow,  \* per request: its step, what it is, the flow it is about
    saw,        \* saw[r]: what its last read of dc returned
    delivered,  \* history: delivered[t]: polls that were given token t
    denied,     \* history: flows a deny was answered for
    raced,      \* history: flows with two answers in flight at once
    lapsed      \* history: flows whose code expired or with an answer that died

locals == <<pc, op, flow, saw>>
hist == <<delivered, denied, raced, lapsed>>
vars == <<inited, dc, uc, tokens, locals, hist>>

(* Only the pending record holds the user code.                            *)
Absent == [status |-> "absent", token |-> None]
Pending == [status |-> "pending", token |-> None]
Denied == [status |-> "denied", token |-> None]
Approved(r) == [status |-> "approved", token |-> r]

Op == {"approve", "deny", "token"}

Init ==
    /\ inited = {} /\ dc = [f \in Flow |-> Absent] /\ uc = {} /\ tokens = {}
    /\ pc = [r \in Request |-> "new"]
    /\ op \in [Request -> Op] /\ flow \in [Request -> Flow]
    /\ saw = [r \in Request |-> Absent]
    /\ delivered = [r \in Request |-> {}] /\ denied = {} /\ raced = {} /\ lapsed = {}

Goto(r, step) == pc' = [pc EXCEPT ![r] = step]
At(r, step) == pc[r] = step
Is(r, o) == op[r] = o
Returns(r) == Goto(r, "done") /\ UNCHANGED <<op, flow, saw>>

(* Answers past their check of the status, not returned yet.               *)
Answers(r) == Is(r, "approve") \/ Is(r, "deny")
Answering(f) == {r \in Request : /\ Answers(r) /\ flow[r] = f
                                 /\ pc[r] \in {"create", "load", "set", "delete"}}
NoteRace(f) == raced' = IF Answering(f) # {} THEN raced \cup {f} ELSE raced

-----------------------------------------------------------------------------
(* store_pending: nobody knows the codes before the response.              *)
device_auth_init(f) ==
    /\ f \notin inited /\ inited' = inited \cup {f}
    /\ dc' = [dc EXCEPT ![f] = Pending] /\ uc' = uc \cup {f}
    /\ UNCHANGED <<tokens, locals, hist>>

(* resolve_device_code_from_user_code                                      *)
Resolve(r) ==
    /\ At(r, "new") /\ Answers(r) /\ flow[r] \in inited
    /\ \/ flow[r] \in uc /\ Goto(r, "check") /\ UNCHANGED <<op, flow, saw>>
       \/ flow[r] \notin uc /\ Returns(r)
    /\ UNCHANGED <<inited, dc, uc, tokens, hist>>

(* Variant: a code that was answered is answered again.                    *)
CheckNothing(r) ==
    /\ At(r, "check") /\ UNCHANGED <<inited, dc, uc, tokens, delivered, denied, lapsed>>
    /\ Goto(r, IF Is(r, "approve") THEN "create" ELSE "load")
    /\ NoteRace(flow[r])
    /\ UNCHANGED <<op, flow, saw>>

(* load_pending: the request goes on only if it is pending.                *)
CheckPending(r) ==
    /\ At(r, "check") /\ UNCHANGED <<inited, dc, uc, tokens, delivered, denied, lapsed>>
    /\ \/ /\ dc[flow[r]].status = "pending"
          /\ Goto(r, IF Is(r, "approve") THEN "create" ELSE "load")
          /\ NoteRace(flow[r])
          /\ UNCHANGED <<op, flow, saw>>
       \/ dc[flow[r]].status # "pending" /\ Returns(r) /\ UNCHANGED raced

(* The Device and its ClientToken, in one transaction.                     *)
CreateToken(r) ==
    /\ At(r, "create") /\ Goto(r, "load") /\ tokens' = tokens \cup {r}
    /\ UNCHANGED <<inited, dc, uc, op, flow, saw, hist>>

NoteDenied(r) == denied' = IF Is(r, "deny") THEN denied \cup {flow[r]} ELSE denied

(* mark_approved and mark_denied read the record again.                    *)
MarkLoad(r) ==
    /\ At(r, "load") /\ UNCHANGED <<inited, dc, uc, tokens, delivered, raced, lapsed>>
    /\ \/ /\ dc[flow[r]] # Absent /\ Goto(r, "set")
          /\ saw' = [saw EXCEPT ![r] = dc[flow[r]]]
          /\ UNCHANGED <<op, flow, denied>>
       \/ dc[flow[r]] = Absent /\ Returns(r) /\ NoteDenied(r)

(* setex, whatever is there by now.                                        *)
MarkSet(r) ==
    /\ At(r, "set") /\ Goto(r, "delete")
    /\ dc' = [dc EXCEPT ![flow[r]] = IF Is(r, "approve") THEN Approved(r) ELSE Denied]
    /\ UNCHANGED <<inited, uc, tokens, op, flow, saw, hist>>

(* The user code is dropped if the record that was read still had it.      *)
MarkDelete(r) ==
    /\ At(r, "delete") /\ Returns(r) /\ NoteDenied(r)
    /\ uc' = IF saw[r].status = "pending" THEN uc \ {flow[r]} ELSE uc
    /\ UNCHANGED <<inited, dc, tokens, delivered, raced, lapsed>>

-----------------------------------------------------------------------------
(* Variant: the record is consumed whatever its status.                    *)
PollConsumes(r) ==
    /\ At(r, "new") /\ Is(r, "token") /\ flow[r] \in inited /\ Goto(r, "getdel")
    /\ UNCHANGED <<inited, dc, uc, tokens, op, flow, saw, hist>>

(* token: only an approved record is consumed.                             *)
Poll(r) ==
    /\ At(r, "new") /\ Is(r, "token") /\ flow[r] \in inited
    /\ \/ dc[flow[r]].status = "approved" /\ Goto(r, "getdel") /\ UNCHANGED <<op, flow, saw>>
       \/ dc[flow[r]].status # "approved" /\ Returns(r)
    /\ UNCHANGED <<inited, dc, uc, tokens, hist>>

(* Variant: the record is read and left to expire.                         *)
ConsumeByGet(r) ==
    /\ At(r, "getdel") /\ UNCHANGED <<inited, dc, uc, tokens, denied, raced, lapsed>>
    /\ IF dc[flow[r]].status = "approved"
       THEN delivered' = [delivered EXCEPT ![dc[flow[r]].token] = @ \cup {r}] /\ Returns(r)
       ELSE Returns(r) /\ UNCHANGED delivered

(* consume_approved: GETDEL; what is not approved is put back.             *)
ConsumeApproved(r) ==
    LET record == dc[flow[r]]
    IN  /\ At(r, "getdel") /\ UNCHANGED <<inited, uc, tokens, denied, raced, lapsed>>
        /\ dc' = [dc EXCEPT ![flow[r]] = Absent]
        /\ \/ /\ record.status = "approved" /\ Returns(r)
              /\ delivered' = [delivered EXCEPT ![record.token] = @ \cup {r}]
           \/ /\ record.status \in {"pending", "denied"} /\ Goto(r, "reinsert")
              /\ saw' = [saw EXCEPT ![r] = record] /\ UNCHANGED <<op, flow, delivered>>
           \/ record = Absent /\ Returns(r) /\ UNCHANGED delivered

Reinsert(r) ==
    /\ At(r, "reinsert") /\ Returns(r)
    /\ dc' = [dc EXCEPT ![flow[r]] = saw[r]]
    /\ UNCHANGED <<inited, uc, tokens, hist>>

-----------------------------------------------------------------------------
(* A key's TTL is over; the two keys do not expire together once one of    *)
(* them was written again.                                                 *)
ExpireDeviceCode(f) ==
    /\ dc[f] # Absent /\ dc' = [dc EXCEPT ![f] = Absent]
    /\ lapsed' = lapsed \cup {f}
    /\ UNCHANGED <<inited, uc, tokens, locals, delivered, denied, raced>>

ExpireUserCode(f) ==
    /\ f \in uc /\ uc' = uc \ {f}
    /\ UNCHANGED <<inited, dc, tokens, locals, hist>>

(* The process dies under a request.                                       *)
RequestDies(r) ==
    /\ pc[r] \notin {"new", "done"} /\ Returns(r)
    /\ lapsed' = IF Answers(r) THEN lapsed \cup {flow[r]} ELSE lapsed
    /\ UNCHANGED <<inited, dc, uc, tokens, delivered, denied, raced>>

Serves(r) ==
    \/ Resolve(r) \/ CheckPending(r) \/ CreateToken(r) \/ MarkLoad(r)
    \/ MarkSet(r) \/ MarkDelete(r) \/ Poll(r) \/ ConsumeApproved(r)
    \/ Reinsert(r) \/ RequestDies(r)

Next ==
    \/ \E f \in Flow : device_auth_init(f) \/ ExpireDeviceCode(f) \/ ExpireUserCode(f)
    \/ \E r \in Request : Serves(r)

Spec == Init /\ [][Next]_vars

-----------------------------------------------------------------------------
(* "One-shot read" (device_auth.py:198): however polls, answers, expiries  *)
(* and crashes interleave, a token is handed to at most one poll.          *)
DeliveredOnce == \A t \in Request : Cardinality(delivered[t]) <= 1

DeliveredOf(f) == {t \in Request : flow[t] = f /\ delivered[t] # {}}

(* Answers are final, even when one died half way and was repeated: a      *)
(* pairing gives out at most one token, and none once a deny was answered, *)
(* unless two answers were in flight at once, since their read, check and  *)
(* write are not one (device_auth.py:151).                                 *)
AnswerIsFinal ==
    \A f \in Flow \ raced :
      /\ Cardinality(DeliveredOf(f)) <= 1
      /\ f \in denied => DeliveredOf(f) = {}

(* A token whose approval was answered is under the device code until a    *)
(* poll takes it; it is out of the device's reach only if answers were in  *)
(* flight together, the code expired or an answer died.                    *)
TokenIsReachable ==
    \A t \in tokens :
      \/ At(t, "load") \/ At(t, "set") \/ flow[t] \in raced \cup lapsed
      \/ dc[flow[t]] = Approved(t) \/ delivered[t] # {}

=============================================================================
