-------------------------- MODULE DeviceAuth_proofs -------------------------
(***************************************************************************)
(* Pairing: a token is delivered once, answers that do not race are final  *)
(* and an answered token can be fetched, for every set of flows and        *)
(* requests.                                                               *)
(***************************************************************************)
EXTENDS DeviceAuth, FiniteSetTheorems, TLAPS

-----------------------------------------------------------------------------
(* The inductive invariant.                                                *)
Record == {Absent, Pending, Denied} \cup {Approved(t) : t \in Request}

Steps ==
    {"new", "check", "create", "load", "set", "delete", "getdel", "reinsert", "done"}

TypeOK ==
    /\ inited \subseteq Flow /\ dc \in [Flow -> Record] /\ uc \subseteq Flow
    /\ tokens \subseteq Request
    /\ pc \in [Request -> Steps] /\ op \in [Request -> Op] /\ flow \in [Request -> Flow]
    /\ saw \in [Request -> Record]
    /\ delivered \in [Request -> SUBSET Request]
    /\ denied \subseteq Flow /\ raced \subseteq Flow /\ lapsed \subseteq Flow

(* A request is at a step of what it is, about a flow that was started;    *)
(* what it puts back is not a token.                                       *)
Placed ==
    \A r \in Request :
      /\ pc[r] \in {"check", "create", "load", "set", "delete"} => Answers(r)
      /\ pc[r] = "create" => Is(r, "approve")
      /\ pc[r] \in {"getdel", "reinsert"} => Is(r, "token")
      /\ pc[r] = "reinsert" => saw[r].status # "approved"
      /\ pc[r] # "new" => flow[r] \in inited

(* Tokens are named for approvals past their transaction, and one is       *)
(* stored or delivered only after its approval wrote it.                   *)
Written(t) == Is(t, "approve") /\ pc[t] \in {"delete", "done"}

Issued ==
    /\ \A t \in tokens : Is(t, "approve") /\ pc[t] \in {"load", "set", "delete", "done"}
    /\ \A f \in Flow, t \in Request :
         dc[f] = Approved(t) => flow[t] = f /\ Written(t) /\ delivered[t] = {}
    /\ \A t \in Request :
         /\ delivered[t] # {} => Written(t)
         /\ \A q, r \in delivered[t] : q = r

(* Answers of flow f that did not write yet, and polls about to consume.   *)
Open(r, f) == flow[r] = f /\ pc[r] \in {"create", "load", "set"}
Writing(r, f) == flow[r] = f /\ pc[r] = "delete"
Polling(r, f) == flow[r] = f /\ pc[r] \in {"getdel", "reinsert"}
Given(t, f) == flow[t] = f /\ delivered[t] # {}

(* Nothing came of flow f yet.                                             *)
Untouched(f) ==
    /\ f \notin denied
    /\ \A q \in Request : ~Given(q, f) /\ ~Polling(q, f)

(* A flow whose answers did not race goes from pending, past one answer at *)
(* a time, to denied or to one approval, and from there to nothing.        *)
OneAnswer(f) == \A q, r \in Answering(f) : q = r

OpenIsUntouched(f) ==
    \A r \in Request : Open(r, f) => dc[f] \in {Pending, Absent} /\ Untouched(f)

PendingIsUntouched(f) == dc[f] = Pending => Untouched(f)

DeniedIsFinal(f) ==
    f \in denied => dc[f] \in {Denied, Absent} /\ \A t \in Request : ~Given(t, f)

WritingHolds(f) ==
    \A r \in Request : Writing(r, f) =>
      \/ /\ Is(r, "deny") /\ dc[f] \in {Denied, Absent}
         /\ \A t \in Request : ~Given(t, f) /\ ~Polling(t, f)
      \/ Is(r, "approve") /\ dc[f] \in {Approved(r), Absent} /\ f \notin denied

PollingHolds(f) ==
    \A r \in Request : Polling(r, f) =>
      pc[r] = "getdel" /\ dc[f] # Pending /\ dc[f] # Denied /\ f \notin denied

GivenIsGone(f) ==
    \A t \in Request : Given(t, f) => dc[f] = Absent /\ f \notin denied

GivenOnce(f) == \A s, t \in Request : Given(s, f) /\ Given(t, f) => s = t

Sequential(f) ==
    /\ OneAnswer(f) /\ OpenIsUntouched(f) /\ PendingIsUntouched(f) /\ DeniedIsFinal(f)
    /\ WritingHolds(f) /\ PollingHolds(f) /\ GivenIsGone(f) /\ GivenOnce(f)

AllSequential == \A f \in Flow \ raced : Sequential(f)

(* While nothing lapsed either, an answer under way finds the record.      *)
Present ==
    \A f \in Flow \ (raced \cup lapsed), r \in Request : Open(r, f) => dc[f] = Pending

IInv == /\ TypeOK /\ Placed /\ Issued /\ AllSequential /\ Present
        /\ denied \subseteq inited /\ TokenIsReachable

-----------------------------------------------------------------------------
(* A set whose members are all the same has at most one.                   *)
LEMMA AtMostOne ==
    ASSUME NEW S, \A x, y \in S : x = y PROVE Cardinality(S) <= 1
<1>1. CASE S = {}
  BY <1>1, FS_EmptySet
<1>2. CASE S # {}
  <2> PICK x \in S : TRUE
    BY <1>2
  <2> S = {x}
    OBVIOUS
  <2> QED
    BY FS_Singleton
<1> QED
  BY <1>1, <1>2

(* What tells the records apart.                                           *)
LEMMA Statuses ==
    /\ Absent.status = "absent" /\ Pending.status = "pending" /\ Denied.status = "denied"
    /\ \A t : Approved(t).status = "approved" /\ Approved(t).token = t
BY DEF Absent, Pending, Denied, Approved

(* The requests of flow g stay where they are, go on before they write, or *)
(* are out of it.                                                          *)
Stays(q) ==
    \/ pc'[q] = pc[q]
    \/ pc'[q] \in {"check", "done"}
    \/ pc[q] \in {"create", "load"} /\ pc'[q] \in {"load", "set"}

(* A step that leaves the record of flow g alone, or drops it, and moves   *)
(* no request of it past a write or a poll, keeps g sequential.            *)
LEMMA Frame ==
    ASSUME TypeOK, NEW g \in Flow, Sequential(g), op' = op, flow' = flow,
           dc'[g] \in {dc[g], Absent}, g \in denied' <=> g \in denied,
           \A q \in Request : flow[q] = g => Stays(q) /\ delivered'[q] = delivered[q]
    PROVE  Sequential(g)'
<1> USE DEF Stays, Answers, Is, Absent, Pending, Denied, Approved
<1>1. OneAnswer(g)'
  BY DEF Sequential, OneAnswer, Answering
<1>2. OpenIsUntouched(g)'
  BY DEF Sequential, OpenIsUntouched, Open, Polling, Given, Untouched
<1>3. PendingIsUntouched(g)'
  BY DEF Sequential, PendingIsUntouched, Polling, Given, Untouched
<1>4. DeniedIsFinal(g)'
  BY DEF Sequential, DeniedIsFinal, Given
<1>5. WritingHolds(g)'
  BY DEF Sequential, WritingHolds, Writing, Polling, Given
<1>6. PollingHolds(g)'
  BY DEF Sequential, PollingHolds, Polling
<1>7. GivenIsGone(g)'
  BY DEF Sequential, GivenIsGone, Given
<1>8. GivenOnce(g)'
  BY DEF Sequential, GivenOnce, Given
<1> QED
  BY <1>1, <1>2, <1>3, <1>4, <1>5, <1>6, <1>7, <1>8 DEF Sequential

(* An approved record is that of a token of its flow, not given yet.       *)
LEMMA ApprovedRecord ==
    ASSUME TypeOK, Issued, NEW f \in Flow, dc[f].status = "approved"
    PROVE  /\ dc[f].token \in Request /\ dc[f] = Approved(dc[f].token)
           /\ flow[dc[f].token] = f /\ delivered[dc[f].token] = {}
<1>1. dc[f] \in Record
  BY DEF TypeOK
<1>2. PICK t \in Request : dc[f] = Approved(t)
  BY <1>1 DEF Record, Absent, Pending, Denied
<1>3. dc[f].token = t
  BY <1>2 DEF Approved
<1> QED
  BY <1>2, <1>3 DEF Issued

(* A request that had not written moves on, and is about nothing issued.   *)
LEMMA IssuedFrame ==
    ASSUME Issued, NEW r \in Request, UNCHANGED <<tokens, op, flow, dc, delivered>>,
           tokens \subseteq Request, \A t \in Request \ {r} : pc'[t] = pc[t],
           pc[r] \in {"new", "check"} \/ (pc[r] = "load" /\ pc'[r] \in {"set", "done"})
    PROVE  Issued'
<1>1. ~Written(r) /\ \A t \in Request \ {r} : Written(t)' <=> Written(t)
  BY DEF Written, Is
<1>2. \A t \in tokens' : Is(t, "approve")' /\ pc'[t] \in {"load", "set", "delete", "done"}
  BY DEF Issued, Is
<1>3. \A f \in Flow, t \in Request :
        dc'[f] = Approved(t) => flow'[t] = f /\ Written(t)' /\ delivered'[t] = {}
  BY <1>1 DEF Issued
<1>4. \A t \in Request : /\ delivered'[t] # {} => Written(t)'
                         /\ \A p, q \in delivered'[t] : p = q
  BY <1>1 DEF Issued
<1> QED
  BY <1>2, <1>3, <1>4 DEF Issued, Approved

(* resolve_device_code_from_user_code finds the flow of an answer.         *)
LEMMA ResolveStep ==
    ASSUME IInv, NEW r \in Request, Resolve(r) PROVE IInv'
<1> USE RequestAssumption DEF locals, hist, Goto, At, Is, Returns, Answers, Absent,
        Pending, Denied, Approved, Record, Steps, Op, Resolve
<1>0. /\ TypeOK /\ Placed /\ Issued /\ AllSequential /\ Present
      /\ denied \subseteq inited /\ TokenIsReachable
  BY DEF IInv
<1>1. TypeOK'
  BY <1>0 DEF TypeOK
<1>2. Placed' /\ (denied \subseteq inited)'
  BY <1>0 DEF TypeOK, Placed
<1>3. Issued'
  <2>1. UNCHANGED <<tokens, op, flow, dc, delivered>> /\ tokens \subseteq Request
    BY <1>0 DEF TypeOK
  <2>2. PICK s : pc' = [pc EXCEPT ![r] = s]
    OBVIOUS
  <2>3. pc[r] \in {"new", "check"} \/ (pc[r] = "load" /\ pc'[r] \in {"set", "done"})
    BY <1>0 DEF TypeOK
  <2>4. \A t \in Request \ {r} : pc'[t] = pc[t]
    <3> HIDE DEF Resolve
    <3> QED
      BY <1>0, <2>2 DEF TypeOK
  <2> QED
    BY <1>0, <2>1, <2>3, <2>4, IssuedFrame
<1>4. AllSequential'
  <2> SUFFICES ASSUME NEW g \in Flow \ raced' PROVE Sequential(g)'
    BY DEF AllSequential
  <2>0. Sequential(g)
    BY <1>0 DEF AllSequential, TypeOK
  <2> QED
    BY <1>0, <2>0, Frame DEF TypeOK, Stays
<1>5. Present'
  BY <1>0 DEF TypeOK, Present, Open
<1>6. TokenIsReachable'
  <2> SUFFICES ASSUME NEW t \in tokens', flow[t] \notin raced' \cup lapsed',
                      pc'[t] \notin {"load", "set"}
               PROVE  dc'[flow[t]] = Approved(t) \/ delivered'[t] # {}
    BY DEF TokenIsReachable
  <2>1. t \in Request /\ flow[t] \in Flow /\ Sequential(flow[t])
    BY <1>0, <1>1 DEF TypeOK, AllSequential
  <2>2. t \in tokens => \/ pc[t] \in {"load", "set"} /\ dc[flow[t]] = Pending
                        \/ dc[flow[t]] = Approved(t) \/ delivered[t] # {}
    BY <1>0, <2>1 DEF TypeOK, TokenIsReachable, Present, Open
  <2>3. t \in tokens => Is(t, "approve") /\ pc[t] \in {"load", "set", "delete", "done"}
    BY <1>0, <2>1 DEF Issued
  <2> QED
    BY <1>0, <2>1, <2>2, <2>3 DEF TypeOK
<1> QED
  BY <1>1, <1>2, <1>3, <1>4, <1>5, <1>6 DEF IInv

(* load_pending: an answer goes on only from a pending record; another of  *)
(* the flow past this look makes it raced.                                 *)
LEMMA CheckPendingStep ==
    ASSUME IInv, NEW r \in Request, CheckPending(r) PROVE IInv'
<1> USE RequestAssumption DEF locals, hist, Goto, At, Is, Returns, Answers, Absent,
        Pending, Denied, Approved, Record, Steps, Op, CheckPending, NoteRace
<1>0. /\ TypeOK /\ Placed /\ Issued /\ AllSequential /\ Present
      /\ denied \subseteq inited /\ TokenIsReachable
  BY DEF IInv
<1>1. TypeOK'
  BY <1>0 DEF TypeOK
<1>2. Placed' /\ (denied \subseteq inited)'
  BY <1>0 DEF TypeOK, Placed
<1>3. Issued'
  <2>1. UNCHANGED <<tokens, op, flow, dc, delivered>> /\ tokens \subseteq Request
    BY <1>0 DEF TypeOK
  <2>2. PICK s : pc' = [pc EXCEPT ![r] = s]
    OBVIOUS
  <2>3. pc[r] \in {"new", "check"} \/ (pc[r] = "load" /\ pc'[r] \in {"set", "done"})
    BY <1>0 DEF TypeOK
  <2>4. \A t \in Request \ {r} : pc'[t] = pc[t]
    <3> HIDE DEF CheckPending
    <3> QED
      BY <1>0, <2>2 DEF TypeOK
  <2> QED
    BY <1>0, <2>1, <2>3, <2>4, IssuedFrame
<1>4. AllSequential'
  <2> SUFFICES ASSUME NEW g \in Flow \ raced' PROVE Sequential(g)'
    BY DEF AllSequential
  <2>0. Sequential(g)
    BY <1>0 DEF AllSequential, TypeOK
  <2>1. CASE g # flow[r]
    BY <1>0, <2>0, <2>1, Frame DEF TypeOK, Stays
  <2>2. CASE g = flow[r]
    <3>1. OneAnswer(g)'
      BY <1>0, <2>0, <2>2 DEF TypeOK, Sequential, Answering, OneAnswer
    <3>2. OpenIsUntouched(g)'
      BY <1>0, <2>0, <2>2
      DEF TypeOK, Sequential, Open, Polling, Given, Untouched, OpenIsUntouched,
          DeniedIsFinal, PollingHolds, GivenIsGone
    <3>3. PendingIsUntouched(g)'
      BY <1>0, <2>0, <2>2
      DEF TypeOK, Sequential, Polling, Given, Untouched, PendingIsUntouched
    <3>4. DeniedIsFinal(g)'
      BY <1>0, <2>0, <2>2 DEF Sequential, Given, DeniedIsFinal
    <3>5. WritingHolds(g)'
      BY <1>0, <2>0, <2>2
         DEF TypeOK, Sequential, Writing, Polling, Given, WritingHolds
    <3>6. PollingHolds(g)'
      BY <1>0, <2>0, <2>2 DEF TypeOK, Sequential, Polling, PollingHolds
    <3>7. GivenIsGone(g)'
      BY <1>0, <2>0, <2>2 DEF Sequential, Given, GivenIsGone
    <3>8. GivenOnce(g)'
      BY <1>0, <2>0, <2>2 DEF Sequential, Given, GivenOnce
    <3> QED
      BY <3>1, <3>2, <3>3, <3>4, <3>5, <3>6, <3>7, <3>8 DEF Sequential
  <2> QED
    BY <2>1, <2>2
<1>5. Present'
  BY <1>0 DEF TypeOK, Present, Open
<1>6. TokenIsReachable'
  <2> SUFFICES ASSUME NEW t \in tokens', flow[t] \notin raced' \cup lapsed',
                      pc'[t] \notin {"load", "set"}
               PROVE  dc'[flow[t]] = Approved(t) \/ delivered'[t] # {}
    BY DEF TokenIsReachable
  <2>1. t \in Request /\ flow[t] \in Flow /\ Sequential(flow[t])
    BY <1>0, <1>1 DEF TypeOK, AllSequential
  <2>2. t \in tokens => \/ pc[t] \in {"load", "set"} /\ dc[flow[t]] = Pending
                        \/ dc[flow[t]] = Approved(t) \/ delivered[t] # {}
    BY <1>0, <2>1 DEF TypeOK, TokenIsReachable, Present, Open
  <2>3. t \in tokens => Is(t, "approve") /\ pc[t] \in {"load", "set", "delete", "done"}
    BY <1>0, <2>1 DEF Issued
  <2> QED
    BY <1>0, <2>1, <2>2, <2>3 DEF TypeOK
<1> QED
  BY <1>1, <1>2, <1>3, <1>4, <1>5, <1>6 DEF IInv

(* approve commits the client token.                                       *)
LEMMA CreateTokenStep ==
    ASSUME IInv, NEW r \in Request, CreateToken(r) PROVE IInv'
<1> USE RequestAssumption DEF locals, hist, Goto, At, Is, Returns, Answers, Absent,
        Pending, Denied, Approved, Record, Steps, Op, CreateToken
<1>0. /\ TypeOK /\ Placed /\ Issued /\ AllSequential /\ Present
      /\ denied \subseteq inited /\ TokenIsReachable
  BY DEF IInv
<1>1. TypeOK'
  BY <1>0 DEF TypeOK
<1>2. Placed' /\ (denied \subseteq inited)'
  BY <1>0 DEF TypeOK, Placed
<1>3. Issued'
  BY <1>0 DEF TypeOK, Placed, Issued, Written
<1>4. AllSequential'
  <2> SUFFICES ASSUME NEW g \in Flow \ raced' PROVE Sequential(g)'
    BY DEF AllSequential
  <2>0. Sequential(g)
    BY <1>0 DEF AllSequential, TypeOK
  <2> QED
    BY <1>0, <2>0, Frame DEF TypeOK, Stays
<1>5. Present'
  BY <1>0 DEF Present, Open
<1>6. TokenIsReachable'
  <2> SUFFICES ASSUME NEW t \in tokens', flow[t] \notin raced' \cup lapsed',
                      pc'[t] \notin {"load", "set"}
               PROVE  dc'[flow[t]] = Approved(t) \/ delivered'[t] # {}
    BY DEF TokenIsReachable
  <2>1. t \in Request /\ flow[t] \in Flow /\ Sequential(flow[t])
    BY <1>0, <1>1 DEF TypeOK, AllSequential
  <2>2. t \in tokens => \/ pc[t] \in {"load", "set"} /\ dc[flow[t]] = Pending
                        \/ dc[flow[t]] = Approved(t) \/ delivered[t] # {}
    BY <1>0, <2>1 DEF TypeOK, TokenIsReachable, Present, Open
  <2>3. t \in tokens => Is(t, "approve") /\ pc[t] \in {"load", "set", "delete", "done"}
    BY <1>0, <2>1 DEF Issued
  <2> QED
    BY <1>0, <2>1, <2>2, <2>3 DEF TypeOK
<1> QED
  BY <1>1, <1>2, <1>3, <1>4, <1>5, <1>6 DEF IInv

(* mark_approved and mark_denied read the record they will rewrite, or     *)
(* find it gone.                                                           *)
LEMMA MarkLoadStep ==
    ASSUME IInv, NEW r \in Request, MarkLoad(r) PROVE IInv'
<1> USE RequestAssumption DEF locals, hist, Goto, At, Is, Returns, Answers, Absent,
        Pending, Denied, Approved, Record, Steps, Op, MarkLoad, NoteDenied
<1>0. /\ TypeOK /\ Placed /\ Issued /\ AllSequential /\ Present
      /\ denied \subseteq inited /\ TokenIsReachable
  BY DEF IInv
<1>1. TypeOK'
  BY <1>0 DEF TypeOK
<1>2. Placed' /\ (denied \subseteq inited)'
  BY <1>0 DEF TypeOK, Placed
<1>3. Issued'
  <2>1. UNCHANGED <<tokens, op, flow, dc, delivered>> /\ tokens \subseteq Request
    BY <1>0 DEF TypeOK
  <2>2. PICK s : pc' = [pc EXCEPT ![r] = s]
    OBVIOUS
  <2>3. pc[r] \in {"new", "check"} \/ (pc[r] = "load" /\ pc'[r] \in {"set", "done"})
    BY <1>0 DEF TypeOK
  <2>4. \A t \in Request \ {r} : pc'[t] = pc[t]
    <3> HIDE DEF MarkLoad
    <3> QED
      BY <1>0, <2>2 DEF TypeOK
  <2> QED
    BY <1>0, <2>1, <2>3, <2>4, IssuedFrame
<1>4. AllSequential'
  <2> SUFFICES ASSUME NEW g \in Flow \ raced' PROVE Sequential(g)'
    BY DEF AllSequential
  <2>0. Sequential(g)
    BY <1>0 DEF AllSequential, TypeOK
  <2>1. CASE g # flow[r]
    BY <1>0, <2>0, <2>1, Frame DEF TypeOK, Stays
  <2>2. CASE g = flow[r]
    <3>1. OneAnswer(g)'
      BY <1>0, <2>0, <2>2 DEF TypeOK, Sequential, Answering, OneAnswer
    <3>2. OpenIsUntouched(g)'
      BY <1>0, <2>0, <2>2
      DEF TypeOK, Placed, Sequential, Answering, Open, Polling, Given, Untouched,
          OneAnswer, OpenIsUntouched
    <3>3. PendingIsUntouched(g)'
      BY <1>0, <2>0, <2>2
      DEF TypeOK, Sequential, Polling, Given, Untouched, PendingIsUntouched
    <3>4. DeniedIsFinal(g)'
      BY <1>0, <2>0, <2>2
      DEF Sequential, Open, Given, Untouched, OpenIsUntouched, DeniedIsFinal
    <3>5. WritingHolds(g)'
      BY <1>0, <2>0, <2>2
      DEF TypeOK, Sequential, Answering, Writing, Polling, Given, OneAnswer,
          WritingHolds
    <3>6. PollingHolds(g)'
      BY <1>0, <2>0, <2>2
      DEF TypeOK, Sequential, Open, Polling, Untouched, OpenIsUntouched, PollingHolds
    <3>7. GivenIsGone(g)'
      BY <1>0, <2>0, <2>2
      DEF Sequential, Open, Given, Untouched, OpenIsUntouched, GivenIsGone
    <3>8. GivenOnce(g)'
      BY <1>0, <2>0, <2>2 DEF Sequential, Given, GivenOnce
    <3> QED
      BY <3>1, <3>2, <3>3, <3>4, <3>5, <3>6, <3>7, <3>8 DEF Sequential
  <2> QED
    BY <2>1, <2>2
<1>5. Present'
  BY <1>0 DEF TypeOK, Present, Open
<1>6. TokenIsReachable'
  <2> SUFFICES ASSUME NEW t \in tokens', flow[t] \notin raced' \cup lapsed',
                      pc'[t] \notin {"load", "set"}
               PROVE  dc'[flow[t]] = Approved(t) \/ delivered'[t] # {}
    BY DEF TokenIsReachable
  <2>1. t \in Request /\ flow[t] \in Flow /\ Sequential(flow[t])
    BY <1>0, <1>1 DEF TypeOK, AllSequential
  <2>2. t \in tokens => \/ pc[t] \in {"load", "set"} /\ dc[flow[t]] = Pending
                        \/ dc[flow[t]] = Approved(t) \/ delivered[t] # {}
    BY <1>0, <2>1 DEF TypeOK, TokenIsReachable, Present, Open
  <2>3. t \in tokens => Is(t, "approve") /\ pc[t] \in {"load", "set", "delete", "done"}
    BY <1>0, <2>1 DEF Issued
  <2> QED
    BY <1>0, <2>1, <2>2, <2>3 DEF TypeOK
<1> QED
  BY <1>1, <1>2, <1>3, <1>4, <1>5, <1>6 DEF IInv

(* mark_approved and mark_denied write the answer; of a flow that did not  *)
(* race it is the first one.                                               *)
LEMMA MarkSetStep ==
    ASSUME IInv, NEW r \in Request, MarkSet(r) PROVE IInv'
<1> USE RequestAssumption DEF locals, hist, Goto, At, Is, Returns, Answers, Absent,
        Pending, Denied, Approved, Record, Steps, Op, MarkSet
<1>0. /\ TypeOK /\ Placed /\ Issued /\ AllSequential /\ Present
      /\ denied \subseteq inited /\ TokenIsReachable
  BY DEF IInv
<1>1. TypeOK'
  BY <1>0 DEF TypeOK
<1>2. Placed' /\ (denied \subseteq inited)'
  BY <1>0 DEF TypeOK, Placed
<1>3. Issued'
  BY <1>0 DEF TypeOK, Placed, Issued, Written
<1>4. AllSequential'
  <2> SUFFICES ASSUME NEW g \in Flow \ raced' PROVE Sequential(g)'
    BY DEF AllSequential
  <2>0. Sequential(g)
    BY <1>0 DEF AllSequential, TypeOK
  <2>1. CASE g # flow[r]
    BY <1>0, <2>0, <2>1, Frame DEF TypeOK, Stays
  <2>2. CASE g = flow[r]
    <3>1. OneAnswer(g)'
      BY <1>0, <2>0, <2>2 DEF Sequential, Answering, OneAnswer
    <3>2. OpenIsUntouched(g)'
      BY <1>0, <2>0, <2>2
      DEF TypeOK, Placed, Sequential, Answering, Open, OneAnswer, OpenIsUntouched
    <3>3. PendingIsUntouched(g)'
      BY <1>0, <2>0, <2>2
         DEF Sequential, Polling, Given, Untouched, PendingIsUntouched
    <3>4. DeniedIsFinal(g)'
      BY <1>0, <2>0, <2>2
      DEF Sequential, Open, Untouched, OpenIsUntouched, DeniedIsFinal
    <3>5. WritingHolds(g)'
      BY <1>0, <2>0, <2>2
      DEF TypeOK, Placed, Sequential, Answering, Open, Writing, Polling, Given,
          Untouched, OneAnswer, OpenIsUntouched, WritingHolds
    <3>6. PollingHolds(g)'
      BY <1>0, <2>0, <2>2
      DEF Sequential, Open, Polling, Untouched, OpenIsUntouched, PollingHolds
    <3>7. GivenIsGone(g)'
      BY <1>0, <2>0, <2>2
      DEF Sequential, Open, Given, Untouched, OpenIsUntouched, GivenIsGone
    <3>8. GivenOnce(g)'
      BY <1>0, <2>0, <2>2 DEF Sequential, Given, GivenOnce
    <3> QED
      BY <3>1, <3>2, <3>3, <3>4, <3>5, <3>6, <3>7, <3>8 DEF Sequential
  <2> QED
    BY <2>1, <2>2
<1>5. Present'
  BY <1>0
  DEF TypeOK, Placed, Present, AllSequential, Sequential, OneAnswer, Answering, Open
<1>6. TokenIsReachable'
  <2> SUFFICES ASSUME NEW t \in tokens', flow[t] \notin raced' \cup lapsed',
                      pc'[t] \notin {"load", "set"}
               PROVE  dc'[flow[t]] = Approved(t) \/ delivered'[t] # {}
    BY DEF TokenIsReachable
  <2>1. t \in Request /\ flow[t] \in Flow /\ Sequential(flow[t])
    BY <1>0, <1>1 DEF TypeOK, AllSequential
  <2>2. t \in tokens => \/ pc[t] \in {"load", "set"} /\ dc[flow[t]] = Pending
                        \/ dc[flow[t]] = Approved(t) \/ delivered[t] # {}
    BY <1>0, <2>1 DEF TypeOK, TokenIsReachable, Present, Open
  <2>3. t \in tokens => Is(t, "approve") /\ pc[t] \in {"load", "set", "delete", "done"}
    BY <1>0, <2>1 DEF Issued
  <2> QED
    BY <1>0, <2>1, <2>2, <2>3 DEF TypeOK, Sequential, OpenIsUntouched, Open
<1> QED
  BY <1>1, <1>2, <1>3, <1>4, <1>5, <1>6 DEF IInv

(* Then they delete the user code.                                         *)
LEMMA MarkDeleteStep ==
    ASSUME IInv, NEW r \in Request, MarkDelete(r) PROVE IInv'
<1> USE RequestAssumption DEF locals, hist, Goto, At, Is, Returns, Answers, Absent,
        Pending, Denied, Approved, Record, Steps, Op, MarkDelete, NoteDenied
<1>0. /\ TypeOK /\ Placed /\ Issued /\ AllSequential /\ Present
      /\ denied \subseteq inited /\ TokenIsReachable
  BY DEF IInv
<1>1. TypeOK'
  BY <1>0 DEF TypeOK
<1>2. Placed' /\ (denied \subseteq inited)'
  BY <1>0 DEF TypeOK, Placed
<1>3. Issued'
  BY <1>0 DEF TypeOK, Placed, Issued, Written
<1>4. AllSequential'
  <2> SUFFICES ASSUME NEW g \in Flow \ raced' PROVE Sequential(g)'
    BY DEF AllSequential
  <2>0. Sequential(g)
    BY <1>0 DEF AllSequential, TypeOK
  <2>1. CASE g # flow[r]
    BY <1>0, <2>0, <2>1, Frame DEF TypeOK, Stays
  <2>2. CASE g = flow[r]
    <3>0. dc[g] # Pending
      <4>1. dc[g] \in {Denied, Absent, Approved(r)}
        BY <2>0, <2>2 DEF Sequential, WritingHolds, Writing
      <4> QED
        BY <4>1, Statuses
    <3>1. OneAnswer(g)'
      BY <1>0, <2>0, <2>2 DEF Sequential, Answering, OneAnswer
    <3>2. OpenIsUntouched(g)'
      BY <1>0, <2>0, <2>2
      DEF Placed, Sequential, Answering, Open, OneAnswer, OpenIsUntouched
    <3>3. PendingIsUntouched(g)'
      BY <3>0, <1>0, <2>0, <2>2 DEF PendingIsUntouched
    <3>4. DeniedIsFinal(g)'
      BY <1>0, <2>0, <2>2
         DEF Sequential, Writing, Given, DeniedIsFinal, WritingHolds
    <3>5. WritingHolds(g)'
      BY <1>0, <2>0, <2>2
      DEF Sequential, Answering, Writing, Polling, Given, OneAnswer, WritingHolds
    <3>6. PollingHolds(g)'
      BY <1>0, <2>0, <2>2
      DEF TypeOK, Sequential, Writing, Polling, WritingHolds, PollingHolds
    <3>7. GivenIsGone(g)'
      BY <1>0, <2>0, <2>2
         DEF Sequential, Writing, Given, WritingHolds, GivenIsGone
    <3>8. GivenOnce(g)'
      BY <1>0, <2>0, <2>2 DEF Sequential, Given, GivenOnce
    <3> QED
      BY <3>1, <3>2, <3>3, <3>4, <3>5, <3>6, <3>7, <3>8 DEF Sequential
  <2> QED
    BY <2>1, <2>2
<1>5. Present'
  BY <1>0 DEF Present, Open
<1>6. TokenIsReachable'
  <2> SUFFICES ASSUME NEW t \in tokens', flow[t] \notin raced' \cup lapsed',
                      pc'[t] \notin {"load", "set"}
               PROVE  dc'[flow[t]] = Approved(t) \/ delivered'[t] # {}
    BY DEF TokenIsReachable
  <2>1. t \in Request /\ flow[t] \in Flow /\ Sequential(flow[t])
    BY <1>0, <1>1 DEF TypeOK, AllSequential
  <2>2. t \in tokens => \/ pc[t] \in {"load", "set"} /\ dc[flow[t]] = Pending
                        \/ dc[flow[t]] = Approved(t) \/ delivered[t] # {}
    BY <1>0, <2>1 DEF TypeOK, TokenIsReachable, Present, Open
  <2>3. t \in tokens => Is(t, "approve") /\ pc[t] \in {"load", "set", "delete", "done"}
    BY <1>0, <2>1 DEF Issued
  <2> QED
    BY <1>0, <2>1, <2>2, <2>3
<1> QED
  BY <1>1, <1>2, <1>3, <1>4, <1>5, <1>6 DEF IInv

(* token: a poll goes on to consume only an approved record.               *)
LEMMA PollStep ==
    ASSUME IInv, NEW r \in Request, Poll(r) PROVE IInv'
<1> USE RequestAssumption DEF locals, hist, Goto, At, Is, Returns, Answers, Absent,
        Pending, Denied, Approved, Record, Steps, Op, Poll
<1>0. /\ TypeOK /\ Placed /\ Issued /\ AllSequential /\ Present
      /\ denied \subseteq inited /\ TokenIsReachable
  BY DEF IInv
<1>1. TypeOK'
  BY <1>0 DEF TypeOK
<1>2. Placed' /\ (denied \subseteq inited)'
  BY <1>0 DEF TypeOK, Placed
<1>3. Issued'
  <2>1. UNCHANGED <<tokens, op, flow, dc, delivered>> /\ tokens \subseteq Request
    BY <1>0 DEF TypeOK
  <2>2. PICK s : pc' = [pc EXCEPT ![r] = s]
    OBVIOUS
  <2>3. pc[r] \in {"new", "check"} \/ (pc[r] = "load" /\ pc'[r] \in {"set", "done"})
    BY <1>0 DEF TypeOK
  <2>4. \A t \in Request \ {r} : pc'[t] = pc[t]
    <3> HIDE DEF Poll
    <3> QED
      BY <1>0, <2>2 DEF TypeOK
  <2> QED
    BY <1>0, <2>1, <2>3, <2>4, IssuedFrame
<1>4. AllSequential'
  <2> SUFFICES ASSUME NEW g \in Flow \ raced' PROVE Sequential(g)'
    BY DEF AllSequential
  <2>0. Sequential(g)
    BY <1>0 DEF AllSequential, TypeOK
  <2>1. CASE g # flow[r]
    BY <1>0, <2>0, <2>1, Frame DEF TypeOK, Stays
  <2>2. CASE g = flow[r]
    <3>1. OneAnswer(g)'
      BY <1>0, <2>0, <2>2 DEF TypeOK, Sequential, Answering, OneAnswer
    <3>2. OpenIsUntouched(g)'
      BY <1>0, <2>0, <2>2
      DEF TypeOK, Sequential, Open, Polling, Given, Untouched, OpenIsUntouched
    <3>3. PendingIsUntouched(g)'
      BY <1>0, <2>0, <2>2
      DEF TypeOK, Sequential, Polling, Given, Untouched, PendingIsUntouched
    <3>4. DeniedIsFinal(g)'
      BY <1>0, <2>0, <2>2 DEF Sequential, Given, DeniedIsFinal
    <3>5. WritingHolds(g)'
      BY <1>0, <2>0, <2>2
         DEF TypeOK, Sequential, Writing, Polling, Given, WritingHolds
    <3>6. PollingHolds(g)'
      BY <1>0, <2>0, <2>2
         DEF TypeOK, Sequential, Polling, DeniedIsFinal, PollingHolds
    <3>7. GivenIsGone(g)'
      BY <1>0, <2>0, <2>2 DEF Sequential, Given, GivenIsGone
    <3>8. GivenOnce(g)'
      BY <1>0, <2>0, <2>2 DEF Sequential, Given, GivenOnce
    <3> QED
      BY <3>1, <3>2, <3>3, <3>4, <3>5, <3>6, <3>7, <3>8 DEF Sequential
  <2> QED
    BY <2>1, <2>2
<1>5. Present'
  BY <1>0 DEF TypeOK, Present, Open
<1>6. TokenIsReachable'
  <2> SUFFICES ASSUME NEW t \in tokens', flow[t] \notin raced' \cup lapsed',
                      pc'[t] \notin {"load", "set"}
               PROVE  dc'[flow[t]] = Approved(t) \/ delivered'[t] # {}
    BY DEF TokenIsReachable
  <2>1. t \in Request /\ flow[t] \in Flow /\ Sequential(flow[t])
    BY <1>0, <1>1 DEF TypeOK, AllSequential
  <2>2. t \in tokens => \/ pc[t] \in {"load", "set"} /\ dc[flow[t]] = Pending
                        \/ dc[flow[t]] = Approved(t) \/ delivered[t] # {}
    BY <1>0, <2>1 DEF TypeOK, TokenIsReachable, Present, Open
  <2>3. t \in tokens => Is(t, "approve") /\ pc[t] \in {"load", "set", "delete", "done"}
    BY <1>0, <2>1 DEF Issued
  <2> QED
    BY <1>0, <2>1, <2>2, <2>3 DEF TypeOK
<1> QED
  BY <1>1, <1>2, <1>3, <1>4, <1>5, <1>6 DEF IInv

(* consume_approved: GETDEL takes the record, so that its token goes to    *)
(* one poll.                                                               *)
LEMMA ConsumeApprovedStep ==
    ASSUME IInv, NEW r \in Request, ConsumeApproved(r) PROVE IInv'
<1> USE RequestAssumption DEF locals, hist, Goto, At, Is, Returns, Answers, Absent,
        Pending, Denied, Approved, Record, Steps, Op, ConsumeApproved
<1>0. /\ TypeOK /\ Placed /\ Issued /\ AllSequential /\ Present
      /\ denied \subseteq inited /\ TokenIsReachable
  BY DEF IInv
<1>r. dc[flow[r]].status = "approved" =>
        LET t == dc[flow[r]].token
        IN  t \in Request /\ dc[flow[r]] = Approved(t) /\ flow[t] = flow[r]
  BY <1>0, ApprovedRecord DEF TypeOK
<1>m. /\ UNCHANGED <<inited, uc, tokens, denied, raced, lapsed, op, flow>>
      /\ pc[r] = "getdel" /\ dc' = [dc EXCEPT ![flow[r]] = Absent]
      /\ pc' = [pc EXCEPT ![r] = "done"] \/ pc' = [pc EXCEPT ![r] = "reinsert"]
      /\ saw' = saw \/ saw' = [saw EXCEPT ![r] = dc[flow[r]]]
  OBVIOUS
<1>d. /\ delivered' \in [Request -> SUBSET Request]
      /\ \A t \in Request : \/ delivered'[t] = delivered[t]
                            \/ /\ dc[flow[r]] = Approved(t) /\ delivered[t] = {}
                               /\ delivered'[t] = {r}
  <2>1. delivered \in [Request -> SUBSET Request] /\ flow[r] \in Flow
    BY <1>0 DEF TypeOK
  <2>d. UNCHANGED delivered \/ (dc[flow[r]].status = "approved" /\
          delivered' = [delivered EXCEPT ![dc[flow[r]].token] = @ \cup {r}])
    OBVIOUS
  <2> HIDE DEF ConsumeApproved, Approved, Record
  <2>2. CASE UNCHANGED delivered
    BY <2>1, <2>2
  <2>3. CASE dc[flow[r]].status = "approved" /\
             delivered' = [delivered EXCEPT ![dc[flow[r]].token] = @ \cup {r}]
    <3>1. PICK t \in Request : t = dc[flow[r]].token /\ dc[flow[r]] = Approved(t)
                              /\ delivered[t] = {}
      BY <1>0, <2>1, <2>3, ApprovedRecord
    <3> QED
      BY <2>1, <2>3, <3>1
  <2> QED
    BY <2>d, <2>2, <2>3
<1>1. TypeOK'
  <2> HIDE DEF ConsumeApproved, Approved, Pending, Denied, Absent
  <2>1. pc' \in [Request -> Steps]
    BY <1>0, <1>m DEF TypeOK
  <2>2. saw' \in [Request -> Record] /\ dc' \in [Flow -> Record]
    BY <1>0, <1>m DEF TypeOK
  <2> QED
    BY <1>0, <1>m, <1>d, <2>1, <2>2 DEF TypeOK
<1>2. Placed' /\ (denied \subseteq inited)'
  BY <1>0 DEF TypeOK, Placed
<1>3. Issued'
  <2> HIDE DEF ConsumeApproved, Approved, Record
  <2>1. ~Written(r) /\ \A t \in Request \ {r} : Written(t)' <=> Written(t)
    BY <1>0, <1>m DEF TypeOK, Written
  <2>2. \A t \in tokens' : Is(t, "approve")' /\ pc'[t] \in {"load", "set", "delete", "done"}
    BY <1>0, <1>m DEF TypeOK, Issued
  <2>3. ASSUME NEW f \in Flow, NEW t \in Request, dc'[f] = Approved(t)
        PROVE  flow'[t] = f /\ Written(t)' /\ delivered'[t] = {}
    <3>1. f # flow[r] /\ dc[f] = Approved(t)
      BY <1>0, <1>m, <2>3 DEF TypeOK, Approved
    <3>2. flow[t] = f /\ Written(t) /\ delivered[t] = {}
      BY <1>0, <3>1 DEF Issued
    <3>3. dc[flow[r]] # Approved(t)
      BY <1>0, <3>1, <3>2 DEF TypeOK, Issued
    <3> QED
      BY <1>d, <1>m, <2>1, <3>2, <3>3
  <2>4. ASSUME NEW t \in Request
        PROVE  (delivered'[t] # {} => Written(t)') /\ \A p, q \in delivered'[t] : p = q
    <3>1. dc[flow[r]] = Approved(t) => Written(t)
      BY <1>0 DEF TypeOK, Issued
    <3> QED
      BY <1>0, <1>d, <2>1, <3>1 DEF Issued
  <2> QED
    BY <2>2, <2>3, <2>4 DEF Issued, Approved
<1>4. AllSequential'
  <2> SUFFICES ASSUME NEW g \in Flow \ raced' PROVE Sequential(g)'
    BY DEF AllSequential
  <2>0. Sequential(g)
    BY <1>0 DEF AllSequential, TypeOK
  <2>1. CASE g # flow[r]
    BY <1>0, <1>r, <2>0, <2>1, Frame DEF TypeOK, Stays
  <2>2. CASE g = flow[r]
    <3>1. OneAnswer(g)'
      BY <1>0, <2>0, <2>2 DEF TypeOK, Sequential, Answering, OneAnswer
    <3>2. OpenIsUntouched(g)'
      BY <1>0, <2>0, <2>2
      DEF TypeOK, Sequential, Open, Polling, Untouched, OpenIsUntouched
    <3>3. PendingIsUntouched(g)'
      BY <1>0, <2>0, <2>2
         DEF Sequential, Polling, PendingIsUntouched, PollingHolds
    <3>4. DeniedIsFinal(g)'
      BY <1>0, <2>0, <2>2 DEF Sequential, Given, DeniedIsFinal
    <3>5. WritingHolds(g)'
      BY <1>0, <2>0, <2>2 DEF TypeOK, Sequential, Writing, Polling, WritingHolds
    <3>6. PollingHolds(g)'
      BY <1>0, <2>0, <2>2 DEF TypeOK, Sequential, Polling, PollingHolds
    <3>7. GivenIsGone(g)'
      BY <1>0, <2>0, <2>2
         DEF TypeOK, Sequential, Given, DeniedIsFinal, GivenIsGone
    <3>8. GivenOnce(g)'
      <4>1. GivenIsGone(g) /\ GivenOnce(g) /\ UNCHANGED flow
        BY <1>m, <2>0 DEF Sequential
      <4>2. ASSUME NEW t \in Request, Given(t, g)', ~Given(t, g)
            PROVE  dc[g] = Approved(t) /\ \A q \in Request : ~Given(q, g)
        <5>1. dc[g] = Approved(t)
          BY <1>d, <2>2, <4>1, <4>2 DEF Given
        <5> QED
          BY <4>1, <5>1, Statuses DEF GivenIsGone
      <4>3. \A s, t \in Request : Approved(s) = Approved(t) => s = t
        BY Statuses, Zenon
      <4> HIDE DEF ConsumeApproved, Approved
      <4> QED
        BY <4>1, <4>2, <4>3, Zenon DEF GivenOnce
    <3> QED
      BY <3>1, <3>2, <3>3, <3>4, <3>5, <3>6, <3>7, <3>8 DEF Sequential
  <2> QED
    BY <2>1, <2>2
<1>5. Present'
  BY <1>0
     DEF TypeOK, Present, AllSequential, Sequential, PollingHolds, Open, Polling
<1>6. TokenIsReachable'
  <2> SUFFICES ASSUME NEW t \in tokens', flow[t] \notin raced' \cup lapsed',
                      pc'[t] \notin {"load", "set"}
               PROVE  dc'[flow[t]] = Approved(t) \/ delivered'[t] # {}
    BY DEF TokenIsReachable
  <2>1. t \in Request /\ flow[t] \in Flow /\ Sequential(flow[t])
    BY <1>0, <1>1 DEF TypeOK, AllSequential
  <2>2. t \in tokens => \/ pc[t] \in {"load", "set"} /\ dc[flow[t]] = Pending
                        \/ dc[flow[t]] = Approved(t) \/ delivered[t] # {}
    BY <1>0, <2>1 DEF TypeOK, TokenIsReachable, Present, Open
  <2>3. t \in tokens => Is(t, "approve") /\ pc[t] \in {"load", "set", "delete", "done"}
    BY <1>0, <2>1 DEF Issued
  <2>4. dc[flow[t]] = Approved(t) => dc[flow[t]].status = "approved" /\ dc[flow[t]].token = t
    BY Statuses
  <2>5. pc[t] \notin {"load", "set"}
    BY <1>0 DEF TypeOK
  <2>6. delivered[t] \subseteq delivered'[t]
    BY <1>0, <1>r, <2>1 DEF TypeOK
  <2>7. CASE flow[t] # flow[r]
    BY <1>0, <2>1, <2>2, <2>3, <2>5, <2>6, <2>7 DEF TypeOK
  <2>8. CASE flow[t] = flow[r] /\ dc[flow[t]] = Approved(t)
    <3>1. dc[flow[r]].status = "approved" /\ dc[flow[r]].token = t /\ dc[flow[r]] # Absent
      BY <2>4, <2>8, Statuses
    <3>2. delivered' = [delivered EXCEPT ![t] = @ \cup {r}]
      BY <3>1
    <3> QED
      BY <1>0, <2>1, <3>2 DEF TypeOK
  <2> QED
    BY <2>2, <2>3, <2>5, <2>6, <2>7, <2>8
<1> QED
  BY <1>1, <1>2, <1>3, <1>4, <1>5, <1>6 DEF IInv

(* consume_approved puts back a record that was not approved.              *)
LEMMA ReinsertStep ==
    ASSUME IInv, NEW r \in Request, Reinsert(r) PROVE IInv'
<1> USE RequestAssumption DEF locals, hist, Goto, At, Is, Returns, Answers, Absent,
        Pending, Denied, Approved, Record, Steps, Op, Reinsert
<1>0. /\ TypeOK /\ Placed /\ Issued /\ AllSequential /\ Present
      /\ denied \subseteq inited /\ TokenIsReachable
  BY DEF IInv
<1>1. TypeOK'
  BY <1>0 DEF TypeOK
<1>2. Placed' /\ (denied \subseteq inited)'
  BY <1>0 DEF TypeOK, Placed
<1>3. Issued'
  BY <1>0 DEF TypeOK, Placed, Issued, Written
<1>4. AllSequential'
  <2> SUFFICES ASSUME NEW g \in Flow \ raced' PROVE Sequential(g)'
    BY DEF AllSequential
  <2>0. Sequential(g)
    BY <1>0 DEF AllSequential, TypeOK
  <2>1. CASE g # flow[r]
    BY <1>0, <2>0, <2>1, Frame DEF TypeOK, Stays
  <2>2. CASE g = flow[r]
    <3>1. OneAnswer(g)'
      BY <1>0, <2>0, <2>2 DEF Sequential, Polling, PollingHolds
    <3>2. OpenIsUntouched(g)'
      BY <1>0, <2>0, <2>2 DEF Sequential, Polling, PollingHolds
    <3>3. PendingIsUntouched(g)'
      BY <1>0, <2>0, <2>2 DEF Sequential, Polling, PollingHolds
    <3>4. DeniedIsFinal(g)'
      BY <1>0, <2>0, <2>2 DEF Sequential, Polling, PollingHolds
    <3>5. WritingHolds(g)'
      BY <1>0, <2>0, <2>2 DEF Sequential, Polling, PollingHolds
    <3>6. PollingHolds(g)'
      BY <1>0, <2>0, <2>2 DEF Sequential, Polling, PollingHolds
    <3>7. GivenIsGone(g)'
      BY <1>0, <2>0, <2>2 DEF Sequential, Polling, PollingHolds
    <3>8. GivenOnce(g)'
      BY <1>0, <2>0, <2>2 DEF Sequential, Given, GivenOnce
    <3> QED
      BY <3>1, <3>2, <3>3, <3>4, <3>5, <3>6, <3>7, <3>8 DEF Sequential
  <2> QED
    BY <2>1, <2>2
<1>5. Present'
  BY <1>0 DEF Present, AllSequential, Sequential, PollingHolds, Open, Polling
<1>6. TokenIsReachable'
  <2> SUFFICES ASSUME NEW t \in tokens', flow[t] \notin raced' \cup lapsed',
                      pc'[t] \notin {"load", "set"}
               PROVE  dc'[flow[t]] = Approved(t) \/ delivered'[t] # {}
    BY DEF TokenIsReachable
  <2>1. t \in Request /\ flow[t] \in Flow /\ Sequential(flow[t])
    BY <1>0, <1>1 DEF TypeOK, AllSequential
  <2>2. t \in tokens => \/ pc[t] \in {"load", "set"} /\ dc[flow[t]] = Pending
                        \/ dc[flow[t]] = Approved(t) \/ delivered[t] # {}
    BY <1>0, <2>1 DEF TypeOK, TokenIsReachable, Present, Open
  <2>3. t \in tokens => Is(t, "approve") /\ pc[t] \in {"load", "set", "delete", "done"}
    BY <1>0, <2>1 DEF Issued
  <2> QED
    BY <1>0, <2>1, <2>2, <2>3 DEF Sequential, PollingHolds, Polling
<1> QED
  BY <1>1, <1>2, <1>3, <1>4, <1>5, <1>6 DEF IInv

(* The process dies under a request; the flow of an answer is lapsed.      *)
LEMMA RequestDiesStep ==
    ASSUME IInv, NEW r \in Request, RequestDies(r) PROVE IInv'
<1> USE RequestAssumption DEF locals, hist, Goto, At, Is, Returns, Answers, Absent,
        Pending, Denied, Approved, Record, Steps, Op, RequestDies
<1>0. /\ TypeOK /\ Placed /\ Issued /\ AllSequential /\ Present
      /\ denied \subseteq inited /\ TokenIsReachable
  BY DEF IInv
<1>1. TypeOK'
  BY <1>0 DEF TypeOK
<1>2. Placed' /\ (denied \subseteq inited)'
  BY <1>0 DEF TypeOK, Placed
<1>3. Issued'
  BY <1>0 DEF TypeOK, Placed, Issued, Written
<1>4. AllSequential'
  <2> SUFFICES ASSUME NEW g \in Flow \ raced' PROVE Sequential(g)'
    BY DEF AllSequential
  <2>0. Sequential(g)
    BY <1>0 DEF AllSequential, TypeOK
  <2> QED
    BY <1>0, <2>0, Frame DEF TypeOK, Stays
<1>5. Present'
  BY <1>0 DEF Present, Open
<1>6. TokenIsReachable'
  <2> SUFFICES ASSUME NEW t \in tokens', flow[t] \notin raced' \cup lapsed',
                      pc'[t] \notin {"load", "set"}
               PROVE  dc'[flow[t]] = Approved(t) \/ delivered'[t] # {}
    BY DEF TokenIsReachable
  <2>1. t \in Request /\ flow[t] \in Flow /\ Sequential(flow[t])
    BY <1>0, <1>1 DEF TypeOK, AllSequential
  <2>2. t \in tokens => \/ pc[t] \in {"load", "set"} /\ dc[flow[t]] = Pending
                        \/ dc[flow[t]] = Approved(t) \/ delivered[t] # {}
    BY <1>0, <2>1 DEF TypeOK, TokenIsReachable, Present, Open
  <2>3. t \in tokens => Is(t, "approve") /\ pc[t] \in {"load", "set", "delete", "done"}
    BY <1>0, <2>1 DEF Issued
  <2> QED
    BY <1>0, <2>1, <2>2, <2>3
<1> QED
  BY <1>1, <1>2, <1>3, <1>4, <1>5, <1>6 DEF IInv

(* device_auth_init starts a flow, of which no request is under way.       *)
LEMMA device_auth_initStep ==
    ASSUME IInv, NEW f \in Flow, device_auth_init(f) PROVE IInv'
<1> USE RequestAssumption DEF locals, hist, Goto, At, Is, Returns, Answers, Absent,
        Pending, Denied, Approved, Record, Steps, Op, device_auth_init
<1>0. /\ TypeOK /\ Placed /\ Issued /\ AllSequential /\ Present
      /\ denied \subseteq inited /\ TokenIsReachable
  BY DEF IInv
<1>1. TypeOK'
  BY <1>0 DEF TypeOK
<1>2. Placed' /\ (denied \subseteq inited)'
  BY <1>0 DEF TypeOK, Placed
<1>3. Issued'
  BY <1>0 DEF TypeOK, Placed, Issued, Written
<1>4. AllSequential'
  <2> SUFFICES ASSUME NEW g \in Flow \ raced' PROVE Sequential(g)'
    BY DEF AllSequential
  <2>0. Sequential(g)
    BY <1>0 DEF AllSequential, TypeOK
  <2>1. CASE g # f
    BY <1>0, <2>0, <2>1, Frame DEF TypeOK, Stays
  <2>2. CASE g = f
    <3>1. OneAnswer(g)'
      BY <1>0, <2>0, <2>2 DEF Sequential, Answering, OneAnswer
    <3>2. OpenIsUntouched(g)'
      BY <1>0, <2>0, <2>2
      DEF Sequential, Open, Polling, Given, Untouched, OpenIsUntouched
    <3>3. PendingIsUntouched(g)'
      BY <1>0, <2>0, <2>2
      DEF Placed, Issued, Written, Polling, Given, Untouched, PendingIsUntouched
    <3>4. DeniedIsFinal(g)'
      BY <1>0, <2>0, <2>2 DEF DeniedIsFinal
    <3>5. WritingHolds(g)'
      BY <1>0, <2>0, <2>2 DEF Placed, Writing, WritingHolds
    <3>6. PollingHolds(g)'
      BY <1>0, <2>0, <2>2 DEF Placed, Polling, PollingHolds
    <3>7. GivenIsGone(g)'
      BY <1>0, <2>0, <2>2 DEF Placed, Issued, Written, Given, GivenIsGone
    <3>8. GivenOnce(g)'
      BY <1>0, <2>0, <2>2 DEF Sequential, Given, GivenOnce
    <3> QED
      BY <3>1, <3>2, <3>3, <3>4, <3>5, <3>6, <3>7, <3>8 DEF Sequential
  <2> QED
    BY <2>1, <2>2
<1>5. Present'
  BY <1>0 DEF Present, Open
<1>6. TokenIsReachable'
  <2> SUFFICES ASSUME NEW t \in tokens', flow[t] \notin raced' \cup lapsed',
                      pc'[t] \notin {"load", "set"}
               PROVE  dc'[flow[t]] = Approved(t) \/ delivered'[t] # {}
    BY DEF TokenIsReachable
  <2>1. t \in Request /\ flow[t] \in Flow /\ Sequential(flow[t])
    BY <1>0, <1>1 DEF TypeOK, AllSequential
  <2>2. t \in tokens => \/ pc[t] \in {"load", "set"} /\ dc[flow[t]] = Pending
                        \/ dc[flow[t]] = Approved(t) \/ delivered[t] # {}
    BY <1>0, <2>1 DEF TypeOK, TokenIsReachable, Present, Open
  <2>3. t \in tokens => Is(t, "approve") /\ pc[t] \in {"load", "set", "delete", "done"}
    BY <1>0, <2>1 DEF Issued
  <2> QED
    BY <1>0, <2>1, <2>2, <2>3 DEF Placed
<1> QED
  BY <1>1, <1>2, <1>3, <1>4, <1>5, <1>6 DEF IInv

(* The device code's record expires.                                       *)
LEMMA ExpireDeviceCodeStep ==
    ASSUME IInv, NEW f \in Flow, ExpireDeviceCode(f) PROVE IInv'
<1> USE RequestAssumption DEF locals, hist, Goto, At, Is, Returns, Answers, Absent,
        Pending, Denied, Approved, Record, Steps, Op, ExpireDeviceCode
<1>0. /\ TypeOK /\ Placed /\ Issued /\ AllSequential /\ Present
      /\ denied \subseteq inited /\ TokenIsReachable
  BY DEF IInv
<1>1. TypeOK'
  BY <1>0 DEF TypeOK
<1>2. Placed' /\ (denied \subseteq inited)'
  BY <1>0 DEF TypeOK, Placed
<1>3. Issued'
  BY <1>0 DEF TypeOK, Placed, Issued, Written
<1>4. AllSequential'
  <2> SUFFICES ASSUME NEW g \in Flow \ raced' PROVE Sequential(g)'
    BY DEF AllSequential
  <2>0. Sequential(g)
    BY <1>0 DEF AllSequential, TypeOK
  <2> QED
    BY <1>0, <2>0, Frame DEF TypeOK, Stays
<1>5. Present'
  BY <1>0 DEF Present, Open
<1>6. TokenIsReachable'
  <2> SUFFICES ASSUME NEW t \in tokens', flow[t] \notin raced' \cup lapsed',
                      pc'[t] \notin {"load", "set"}
               PROVE  dc'[flow[t]] = Approved(t) \/ delivered'[t] # {}
    BY DEF TokenIsReachable
  <2>1. t \in Request /\ flow[t] \in Flow /\ Sequential(flow[t])
    BY <1>0, <1>1 DEF TypeOK, AllSequential
  <2>2. t \in tokens => \/ pc[t] \in {"load", "set"} /\ dc[flow[t]] = Pending
                        \/ dc[flow[t]] = Approved(t) \/ delivered[t] # {}
    BY <1>0, <2>1 DEF TypeOK, TokenIsReachable, Present, Open
  <2>3. t \in tokens => Is(t, "approve") /\ pc[t] \in {"load", "set", "delete", "done"}
    BY <1>0, <2>1 DEF Issued
  <2> QED
    BY <1>0, <2>1, <2>2, <2>3
<1> QED
  BY <1>1, <1>2, <1>3, <1>4, <1>5, <1>6 DEF IInv

(* The user code expires.                                                  *)
LEMMA ExpireUserCodeStep ==
    ASSUME IInv, NEW f \in Flow, ExpireUserCode(f) PROVE IInv'
<1> USE RequestAssumption DEF locals, hist, Goto, At, Is, Returns, Answers, Absent,
        Pending, Denied, Approved, Record, Steps, Op, ExpireUserCode
<1>0. /\ TypeOK /\ Placed /\ Issued /\ AllSequential /\ Present
      /\ denied \subseteq inited /\ TokenIsReachable
  BY DEF IInv
<1>1. TypeOK'
  BY <1>0 DEF TypeOK
<1>2. Placed' /\ (denied \subseteq inited)'
  BY <1>0 DEF TypeOK, Placed
<1>3. Issued'
  BY <1>0 DEF TypeOK, Placed, Issued, Written
<1>4. AllSequential'
  <2> SUFFICES ASSUME NEW g \in Flow \ raced' PROVE Sequential(g)'
    BY DEF AllSequential
  <2>0. Sequential(g)
    BY <1>0 DEF AllSequential, TypeOK
  <2> QED
    BY <1>0, <2>0, Frame DEF TypeOK, Stays
<1>5. Present'
  BY <1>0 DEF Present, Open
<1>6. TokenIsReachable'
  <2> SUFFICES ASSUME NEW t \in tokens', flow[t] \notin raced' \cup lapsed',
                      pc'[t] \notin {"load", "set"}
               PROVE  dc'[flow[t]] = Approved(t) \/ delivered'[t] # {}
    BY DEF TokenIsReachable
  <2>1. t \in Request /\ flow[t] \in Flow /\ Sequential(flow[t])
    BY <1>0, <1>1 DEF TypeOK, AllSequential
  <2>2. t \in tokens => \/ pc[t] \in {"load", "set"} /\ dc[flow[t]] = Pending
                        \/ dc[flow[t]] = Approved(t) \/ delivered[t] # {}
    BY <1>0, <2>1 DEF TypeOK, TokenIsReachable, Present, Open
  <2>3. t \in tokens => Is(t, "approve") /\ pc[t] \in {"load", "set", "delete", "done"}
    BY <1>0, <2>1 DEF Issued
  <2> QED
    BY <1>0, <2>1, <2>2, <2>3
<1> QED
  BY <1>1, <1>2, <1>3, <1>4, <1>5, <1>6 DEF IInv

-----------------------------------------------------------------------------
(* No flow was started.                                                    *)
LEMMA InitHolds == Init => IInv
<1> SUFFICES ASSUME Init PROVE IInv
  OBVIOUS
<1> USE DEF Init, Answers, Is, At, Absent, Pending, Denied, Approved
<1>1. TypeOK
  BY DEF TypeOK, Record, Steps
<1>2. Placed /\ Issued /\ Present /\ denied \subseteq inited /\ TokenIsReachable
  BY DEF Placed, Issued, Present, TokenIsReachable, Open
<1>3. AllSequential
  BY DEF AllSequential, Sequential, Answering, Writing, Polling, Given,
         Untouched,
         OneAnswer, OpenIsUntouched, PendingIsUntouched, DeniedIsFinal, WritingHolds,
         PollingHolds, GivenIsGone, GivenOnce
<1> QED
  BY <1>1, <1>2, <1>3 DEF IInv

(* Every step of a flow's requests and keys keeps the invariant.           *)
LEMMA NextHolds == IInv /\ [Next]_vars => IInv'
<1> SUFFICES ASSUME IInv, [Next]_vars PROVE IInv'
  OBVIOUS
<1>1. CASE \E f \in Flow : device_auth_init(f) \/ ExpireDeviceCode(f) \/ ExpireUserCode(f)
  BY <1>1, device_auth_initStep, ExpireDeviceCodeStep, ExpireUserCodeStep
<1>2. CASE \E r \in Request : Serves(r)
  BY <1>2, ResolveStep, CheckPendingStep, CreateTokenStep, MarkLoadStep,
     MarkSetStep,
     MarkDeleteStep, PollStep, ConsumeApprovedStep, ReinsertStep, RequestDiesStep
  DEF Serves
<1>3. CASE UNCHANGED vars
  <2>1. /\ TypeOK' /\ Placed' /\ Issued' /\ Present' /\ (denied \subseteq inited)'
        /\ TokenIsReachable'
    BY <1>3
    DEF vars, locals, hist, IInv, TypeOK, Placed, Issued, Present, TokenIsReachable,
        Written, Answers, Is, At, Open
  <2>2. AllSequential'
    BY <1>3, Frame DEF vars, locals, hist, IInv, AllSequential, Stays
  <2> QED
    BY <2>1, <2>2 DEF IInv
<1> QED
  BY <1>1, <1>2, <1>3 DEF Next

(* A token is handed to at most one poll (device_auth.py, consume_approved *)
(* by GETDEL), however polls, answers, expiries and crashes interleave.    *)
THEOREM TokenDeliveredOnce == Spec => []DeliveredOnce
<1>1. IInv => DeliveredOnce
  BY AtMostOne DEF IInv, Issued, DeliveredOnce
<1> QED
  BY <1>1, InitHolds, NextHolds, PTL DEF Spec

(* A pairing whose answers did not race gives out at most one token, and   *)
(* none once a deny was answered (device_auth.py, mark_approved and        *)
(* mark_denied), also when an answer died half way and was repeated.       *)
THEOREM AnswersAreFinal == Spec => []AnswerIsFinal
<1>1. ASSUME IInv PROVE AnswerIsFinal
  <2> SUFFICES ASSUME NEW f \in Flow \ raced
               PROVE  /\ Cardinality(DeliveredOf(f)) <= 1
                      /\ f \in denied => DeliveredOf(f) = {}
    BY DEF AnswerIsFinal
  <2>1. GivenOnce(f) /\ DeniedIsFinal(f)
    BY <1>1 DEF IInv, AllSequential, Sequential
  <2>2. \A s, t \in DeliveredOf(f) : s = t
    BY <2>1 DEF DeliveredOf, GivenOnce, Given
  <2> QED
    BY <2>1, <2>2, AtMostOne DEF DeliveredOf, DeniedIsFinal, Given
<1> QED
  BY <1>1, InitHolds, NextHolds, PTL DEF Spec

(* The token of an answered approval is under the device code until a poll *)
(* takes it, unless answers raced, the code expired or an answer died      *)
(* (endpoints/device_auth.py, approve; device_auth.py, mark_approved).     *)
THEOREM TokensAreReachable == Spec => []TokenIsReachable
<1>1. IInv => TokenIsReachable
  BY DEF IInv
<1> QED
  BY <1>1, InitHolds, NextHolds, PTL DEF Spec

=============================================================================
