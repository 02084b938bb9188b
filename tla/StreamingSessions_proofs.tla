----------------------- MODULE StreamingSessions_proofs -----------------------
(***************************************************************************)
(* Proofs about StreamingSessions, for every number of requests, takeovers *)
(* and containers: who may write a key whatever goes wrong, under which    *)
(* mishaps a card is still taken out, adopted and filed for the session it *)
(* belongs to, and whose game runs on whose card where nothing goes wrong. *)
(***************************************************************************)
EXTENDS StreamingSessions, TLAPS

-----------------------------------------------------------------------------
(* Facts about the values at a key.                                        *)

(* The kind of a session record tells what it is.                          *)
LEMMA KeyKinds ==
    ASSUME NEW s \in KeyValue
    PROVE  /\ s.kind \in {"none", "claim", "marker"}
           /\ s.kind = "claim" => s \in Claim
           /\ s.kind = "marker" => s \in Marker
           /\ s.kind = "none" <=> s = NoKey
BY DEF KeyValue, NoKey, Claim, Marker

(* The writes to one field of a claim or of a marker.                      *)
LEMMA FieldWrites ==
    /\ \A s \in Claim, b \in BOOLEAN : [s EXCEPT !.stale = b] \in Claim
    /\ \A s \in Claim, b \in BOOLEAN : [s EXCEPT !.launched = b] \in Claim
    /\ \A s \in Claim, t \in Task : [s EXCEPT !.card = t] \in Claim
    /\ \A s \in Marker : [s EXCEPT !.ttl = "full"] \in Marker
BY DEF Claim, Marker

(* The records the operations make.                                        *)
LEMMA NewRecords ==
    /\ NoKey \in KeyValue
    /\ \A t \in Task, card \in Task \cup {Nobody} : NewClaim(t, card) \in Claim
    /\ \A t \in Task, ttl \in {"drain", "marker", "full"} : drain_marker(t, ttl) \in Marker
BY DEF KeyValue, NoKey, Claim, Marker, NewClaim, drain_marker

(* A container by its place in the pool.                                   *)
LEMMA PoolMembers == \A n \in 1..Len(Pool) : Pool[n] \in Container
BY DEF Container

(* The cards a slot is left with.                                          *)
LEMMA Cards ==
    /\ Blank \in Card
    /\ \A t \in Task \cup Container, b \in BOOLEAN : [of |-> t, unsaved |-> b] \in Card
    /\ \A s \in Card, b \in BOOLEAN : [s EXCEPT !.unsaved = b] \in Card
    /\ \A s \in Card : s.of \in Task \cup Container \cup {Nobody} /\ s.unsaved \in BOOLEAN
BY DEF Blank, Card

-----------------------------------------------------------------------------
(* Type correctness, variable by variable.                                 *)

(* What a step leaves alone keeps its type.                                *)
LEMMA Unchanged ==
    /\ BrokerTypeOK /\ UNCHANGED broker => BrokerTypeOK'
    /\ HoldTypeOK /\ UNCHANGED hold => HoldTypeOK'
    /\ FlagsTypeOK /\ UNCHANGED flags => FlagsTypeOK'
    /\ WalkTypeOK /\ UNCHANGED walk => WalkTypeOK'
BY DEF BrokerTypeOK, HoldTypeOK, FlagsTypeOK, WalkTypeOK, broker, hold, flags, walk

(* A task only ever goes to a phase.                                       *)
LEMMA GotoType ==
    ASSUME pc \in [Task -> Phases], NEW t \in Task, NEW p \in Phases, Goto(t, p)
    PROVE  pc' \in [Task -> Phases]
BY DEF Goto

(* The names of the phases.                                                *)
LEMMA PhaseNames ==
    Phases = {"idle", "walk", "sweep", "await", "retry", "launch", "stamp", "abort",
              "mark", "takeover", "kill", "exit", "read", "delete", "refresh",
              "beat", "done", "failed", "dead", "probe", "settle", "store", "record",
              "hydrate", "stop", "evacuate", "wipe", "pull", "drop"}
BY DEF Phases, Preparing, Teardown

(* A write of a key value at one container.                                *)
LEMMA KeyWrite ==
    ASSUME key \in [Container -> KeyValue], NEW c \in Container, NEW v \in KeyValue,
           key' = [key EXCEPT ![c] = v]
    PROVE  key' \in [Container -> KeyValue]
OBVIOUS

(* The initial states have their type.                                     *)
LEMMA InitTypeOK == Init => TypeOK
<1> SUFFICES ASSUME Init PROVE TypeOK
  OBVIOUS
<1>1. key \in [Container -> KeyValue] /\ sess \in [Task -> KeyValue]
  BY NewRecords DEF Init
<1>2. BrokerTypeOK
  BY DEF Init, BrokerTypeOK
<1>3. FlagsTypeOK
  BY DEF Init, FlagsTypeOK, HoldTypeOK
<1>4. WalkTypeOK /\ at \in [Task -> Container]
  BY PoolAssumption, PoolMembers DEF Init, WalkTypeOK
<1>5. op \in [Task -> Ops \cup {"none", "takeover"}] /\ pc \in [Task -> Phases]
  BY PhaseNames DEF Init
<1> QED BY <1>1, <1>2, <1>3, <1>4, <1>5 DEF TypeOK

(* The sweep stays within the pool.                                        *)
LEMMA NextCandidateType ==
    ASSUME TypeOK, NEW t \in Task, NextCandidate(t)
    PROVE  /\ idx' \in [Task -> 1..Len(Pool)]
           /\ pc' \in [Task -> Phases]
<1>1. idx \in [Task -> 1..Len(Pool)] /\ pc \in [Task -> Phases]
  BY DEF TypeOK, WalkTypeOK
<1>2. idx[t] < Len(Pool) => idx[t] + 1 \in 1..Len(Pool)
  BY <1>1, PoolAssumption
<1> QED BY <1>1, <1>2, PhaseNames DEF NextCandidate, Goto

(* Winning a container writes the claim's record at its key.               *)
LEMMA WinType ==
    ASSUME TypeOK, NEW t \in Task, NEW c \in Container, NEW p \in Phases, Win(t, c, p)
    PROVE  TypeOK'
<1>1. key' \in [Container -> KeyValue] /\ at' \in [Task -> Container]
  BY DEF TypeOK, Win
<1>2. pc' \in [Task -> Phases]
  BY GotoType DEF TypeOK, Win
<1> QED BY <1>1, <1>2, Unchanged DEF TypeOK, Win

(* The steps that claim a container keep the types.                        *)
LEMMA ClaimingTypeOK ==
    ASSUME TypeOK, NEW t \in Task,
           \/ StartClaim(t) \/ StartDesktop(t) \/ Walk(t) \/ SweepSkips(t)
           \/ (\E u \in Task : SweepSpawns(t, u)) \/ AwaitDone(t) \/ AwaitTimeout(t)
           \/ Retry(t) \/ DesktopClaim(t)
    PROVE  TypeOK'
<1>c. Pool[idx[t]] \in Container
  BY PoolMembers DEF TypeOK, WalkTypeOK
<1>1. CASE StartClaim(t)
  <2>1. sess' \in [Task -> KeyValue] /\ op' \in [Task -> Ops \cup {"none", "takeover"}]
    BY <1>1, NewRecords DEF TypeOK, StartClaim, Begin, KeyValue
  <2>2. pc' \in [Task -> Phases]
    BY <1>1, PhaseNames DEF TypeOK, StartClaim, Begin, Goto
  <2> QED BY <1>1, <2>1, <2>2, Unchanged DEF TypeOK, StartClaim
<1>2. CASE StartDesktop(t)
  <2>1. sess' \in [Task -> KeyValue] /\ op' \in [Task -> Ops \cup {"none", "takeover"}]
    BY <1>2, NewRecords DEF TypeOK, StartDesktop, Begin, KeyValue
  <2>2. pc' \in [Task -> Phases]
    BY <1>2, PhaseNames DEF TypeOK, StartDesktop, Begin, Goto
  <2>3. WalkTypeOK'
    BY <1>2 DEF TypeOK, StartDesktop, WalkTypeOK
  <2> QED BY <1>2, <2>1, <2>2, <2>3, Unchanged DEF TypeOK, StartDesktop
<1>3. CASE Walk(t)
  <2>1. CASE Win(t, Pool[idx[t]], Won)
    BY <2>1, <1>c, WinType, PhaseNames DEF Won
  <2>2. CASE ~Win(t, Pool[idx[t]], Won)
    <3>1. idx \in [Task -> 1..Len(Pool)] /\ pc \in [Task -> Phases]
      BY DEF TypeOK, WalkTypeOK
    <3>2. 1 \in 1..Len(Pool) /\ (idx[t] < Len(Pool) => idx[t] + 1 \in 1..Len(Pool))
      BY <3>1, PoolAssumption
    <3>3. idx' \in [Task -> 1..Len(Pool)] /\ pc' \in [Task -> Phases]
      BY <1>3, <2>2, <3>1, <3>2, PhaseNames DEF Walk, Goto
    <3> QED BY <1>3, <2>2, <3>3, Unchanged DEF TypeOK, Walk, WalkTypeOK
  <2> QED BY <2>1, <2>2
<1>4. CASE SweepSkips(t)
  <2>1. NextCandidate(t) /\ UNCHANGED <<key, broker, op, at, sess, flags, wait>>
    BY <1>4 DEF SweepSkips
  <2> QED BY <2>1, NextCandidateType, Unchanged DEF TypeOK, WalkTypeOK
<1>5. CASE \E u \in Task : SweepSpawns(t, u)
  <2>1. PICK u \in Task : SweepSpawns(t, u)
    BY <1>5
  <2>2. /\ op' \in [Task -> Ops \cup {"none", "takeover"}]
        /\ at' \in [Task -> Container]
        /\ sess' \in [Task -> KeyValue]
    BY <2>1, <1>c DEF TypeOK, SweepSpawns
  <2>3. pc' \in [Task -> Phases]
    BY <2>1, PhaseNames DEF TypeOK, SweepSpawns
  <2>4. WalkTypeOK'
    BY <2>1 DEF TypeOK, SweepSpawns, WalkTypeOK
  <2> QED BY <2>1, <2>2, <2>3, <2>4, Unchanged DEF TypeOK, SweepSpawns
<1>6. CASE AwaitDone(t)
  <2>1. idx' \in [Task -> 1..Len(Pool)] /\ pc' \in [Task -> Phases]
    BY <1>6, NextCandidateType, GotoType, PhaseNames DEF TypeOK, AwaitDone, WalkTypeOK
  <2> QED BY <1>6, <2>1, Unchanged DEF TypeOK, AwaitDone, WalkTypeOK
<1>7. CASE AwaitTimeout(t)
  <2>1. FlagsTypeOK'
    BY <1>7 DEF TypeOK, AwaitTimeout, FlagsTypeOK, HoldTypeOK
  <2> QED BY <1>7, <2>1, NextCandidateType, Unchanged DEF TypeOK, AwaitTimeout, WalkTypeOK
<1>8. CASE Retry(t)
  <2>1. CASE Win(t, Pool[idx[t]], Won)
    BY <2>1, <1>c, WinType, PhaseNames DEF Won
  <2>2. CASE ~Win(t, Pool[idx[t]], Won)
    BY <1>8, <2>2, NextCandidateType, Unchanged DEF TypeOK, Retry, WalkTypeOK
  <2> QED BY <2>1, <2>2
<1>9. CASE DesktopClaim(t)
  <2>1. CASE Win(t, Pool[idx[t]], "launch")
    BY <2>1, <1>c, WinType, PhaseNames
  <2>2. CASE ~Win(t, Pool[idx[t]], "launch")
    BY <1>9, <2>2, GotoType, PhaseNames, Unchanged DEF TypeOK, DesktopClaim, locals
  <2> QED BY <2>1, <2>2
<1> QED BY <1>1, <1>2, <1>3, <1>4, <1>5, <1>6, <1>7, <1>8, <1>9

(* Preparing a container keeps the types.  Settling a card writes a field  *)
(* of the session the claim works on, which is the claim it made.          *)
LEMMA PreparingTypeOK ==
    ASSUME TypeOK, Phased, ClaimsOwnSession, RecordsDecision, NEW t \in Task,
           \/ ProbeKnown(t)
           \/ (\E i \in {"none", "adopt", "discard"}, r \in BOOLEAN : ProbeAsks(t, i, r))
           \/ Settle(t) \/ StoreAdopted(t) \/ RecordAdoption(t) \/ AdoptionFails(t)
           \/ Hydrate(t) \/ HydrateFails(t)
    PROVE  TypeOK'
<1>1. CASE ProbeKnown(t)
  BY <1>1, GotoType, PhaseNames, Unchanged DEF TypeOK, ProbeKnown, locals
<1>2. CASE \E i \in {"none", "adopt", "discard"}, r \in BOOLEAN : ProbeAsks(t, i, r)
  <2>1. PICK i \in {"none", "adopt", "discard"}, r \in BOOLEAN : ProbeAsks(t, i, r)
    BY <1>2
  <2>2. pc' \in [Task -> Phases]
    BY <2>1, PhaseNames DEF TypeOK, ProbeAsks, Goto
  <2>3. FlagsTypeOK'
    BY <2>1, Unchanged DEF TypeOK, ProbeAsks, FlagsTypeOK
  <2> QED BY <2>1, <2>2, <2>3, Unchanged DEF TypeOK, ProbeAsks
<1>3. CASE Settle(t)
  <2>1. sess[t] \in Claim /\ at[t] \in Container /\ key[at[t]] \in KeyValue
    BY <1>3, KeyKinds DEF TypeOK, Phased, InPhase, ClaimsOwnSession, Settle, Preparing, Teardown
  <2>2. sess' \in [Task -> KeyValue]
    BY <1>3, <2>1, FieldWrites DEF TypeOK, Settle, KeyValue
  <2>3. RecordCard(key[at[t]], t) \in KeyValue
    BY <2>1, KeyKinds, FieldWrites DEF RecordCard, KeyValue
  <2>4. key' \in [Container -> KeyValue]
    BY <1>3, <2>1, <2>3 DEF TypeOK, Settle
  <2>5. FlagsTypeOK'
    BY <1>3, Unchanged DEF TypeOK, Settle, FlagsTypeOK
  <2>6. pc' \in [Task -> Phases]
    BY <1>3, PhaseNames DEF TypeOK, Settle, Goto
  <2> QED BY <1>3, <2>2, <2>4, <2>5, <2>6, Unchanged DEF TypeOK, Settle
<1>4. CASE RecordAdoption(t)
  <2>1. BrokerTypeOK'
    <3>1. /\ at[t] \in Container /\ slot[at[t]] \in Card
          /\ probe[t] \in {"decided", "adopt", "discard"}
      BY DEF TypeOK, BrokerTypeOK, FlagsTypeOK
    <3>2. probe[t] # "decided"
      BY <1>4 DEF RecordAdoption, RecordsDecision
    <3>3. slot' \in [Container -> Card]
      BY <1>4, <3>1, Cards DEF TypeOK, BrokerTypeOK, RecordAdoption
    <3> QED BY <1>4, <3>1, <3>2, <3>3 DEF TypeOK, BrokerTypeOK, RecordAdoption
  <2>2. pc' \in [Task -> Phases]
    BY <1>4, PhaseNames DEF TypeOK, RecordAdoption, Goto
  <2> QED BY <1>4, <2>1, <2>2, Unchanged DEF TypeOK, RecordAdoption, locals
<1>5. CASE AdoptionFails(t)
  BY <1>5, GotoType, PhaseNames, Unchanged DEF TypeOK, AdoptionFails, locals
<1>6. CASE Hydrate(t)
  <2>1. BrokerTypeOK'
    BY <1>6, Cards DEF TypeOK, BrokerTypeOK, Hydrate
  <2> QED BY <1>6, <2>1, GotoType, PhaseNames, Unchanged DEF TypeOK, Hydrate, locals
<1>7. CASE HydrateFails(t)
  BY <1>7, GotoType, PhaseNames, Unchanged DEF TypeOK, HydrateFails, locals
<1>8. CASE StoreAdopted(t)
  <2>1. BrokerTypeOK'
    <3>1. at[t] \in Container /\ slot[at[t]] \in Card
      BY DEF TypeOK, BrokerTypeOK
    <3>2. slot' \in [Container -> Card]
      BY <1>8, <3>1, Cards DEF TypeOK, BrokerTypeOK, StoreAdopted
    <3>3. filed' \in SUBSET (Task \X (Task \cup Container \cup {Nobody}))
      BY <1>8, <3>1 DEF TypeOK, BrokerTypeOK, StoreAdopted
    <3> QED BY <1>8, <3>2, <3>3 DEF TypeOK, BrokerTypeOK, StoreAdopted
  <2>2. pc' \in [Task -> Phases]
    BY <1>8, PhaseNames DEF TypeOK, StoreAdopted, Goto
  <2> QED BY <1>8, <2>1, <2>2, Unchanged DEF TypeOK, StoreAdopted, locals
<1> QED BY <1>1, <1>2, <1>3, <1>4, <1>5, <1>6, <1>7, <1>8

(* Deleting a key, writing a marker or one field of a claim leaves a       *)
(* session record at the key.                                              *)
LEMMA KeyWrites ==
    ASSUME key \in [Container -> KeyValue], NEW c \in Container
    PROVE  /\ [key EXCEPT ![c] = NoKey] \in [Container -> KeyValue]
           /\ \A t \in Task, ttl \in {"drain", "marker", "full"} :
                [key EXCEPT ![c] = drain_marker(t, ttl)] \in [Container -> KeyValue]
           /\ key[c].kind = "claim" => \A b \in BOOLEAN :
                /\ [key EXCEPT ![c].stale = b] \in [Container -> KeyValue]
                /\ [key EXCEPT ![c].launched = b] \in [Container -> KeyValue]
           /\ key[c].kind = "marker" =>
                [key EXCEPT ![c].ttl = "full"] \in [Container -> KeyValue]
BY NewRecords, FieldWrites, KeyKinds DEF KeyValue

(* The guarded writes of the session store keep the type of the keys.      *)
LEMMA StoreType ==
    ASSUME TypeOK, NEW t \in Task
    PROVE  /\ release_own_session(t) => key' \in [Container -> KeyValue]
           /\ drop_drain_marker(t) => key' \in [Container -> KeyValue]
           /\ \A ttl \in {"drain", "marker", "full"} :
                MarkerLands(t, ttl) => key' \in [Container -> KeyValue]
           /\ MarkerContended(t) => key' \in [Container -> KeyValue]
<1>1. key \in [Container -> KeyValue] /\ at[t] \in Container
  BY DEF TypeOK
<1>2. \A ttl \in {"drain", "marker", "full"} :
         [key EXCEPT ![at[t]] = drain_marker(t, ttl)] \in [Container -> KeyValue]
  BY <1>1, KeyWrites
<1>3. [key EXCEPT ![at[t]] = NoKey] \in [Container -> KeyValue]
  BY <1>1, KeyWrites
<1> QED BY <1>1, <1>2, <1>3 DEF release_own_session, drop_drain_marker, MarkerLands,
                                MarkerContended

(* Launching, and backing out of a claim, keep the types.                  *)
LEMMA LaunchingTypeOK ==
    ASSUME TypeOK, NEW t \in Task,
           Launch(t) \/ LaunchFails(t) \/ Stamp(t) \/ Abort(t)
    PROVE  TypeOK'
<1>k. key \in [Container -> KeyValue] /\ at[t] \in Container
  BY DEF TypeOK
<1>1. CASE Launch(t)
  <2>1. BrokerTypeOK'
    BY <1>1 DEF TypeOK, BrokerTypeOK, Launch
  <2> QED BY <1>1, <2>1, GotoType, PhaseNames, Unchanged DEF TypeOK, Launch, locals
<1>2. CASE LaunchFails(t)
  BY <1>2, GotoType, PhaseNames, Unchanged DEF TypeOK, LaunchFails, locals
<1>3. CASE Stamp(t)
  <2>1. CASE UNCHANGED key
    BY <1>3, <2>1, GotoType, PhaseNames, Unchanged DEF TypeOK, Stamp, locals
  <2>2. CASE key[at[t]].kind = "claim" /\ key' = [key EXCEPT ![at[t]].launched = TRUE]
    <3>1. key' \in [Container -> KeyValue]
      BY <2>2, <1>k, KeyWrites
    <3> QED BY <1>3, <3>1, GotoType, PhaseNames, Unchanged DEF TypeOK, Stamp, locals
  <2> QED BY <1>3, <2>1, <2>2 DEF Stamp, same_claim
<1>4. CASE Abort(t)
  <2>1. key' \in [Container -> KeyValue]
    BY <1>4, StoreType DEF Abort
  <2>2. BrokerTypeOK'
    BY <1>4 DEF TypeOK, BrokerTypeOK, Abort
  <2> QED BY <1>4, <2>1, <2>2, GotoType, PhaseNames, Unchanged DEF TypeOK, Abort, locals
<1> QED BY <1>1, <1>2, <1>3, <1>4

(* A request that resolves the session it is about keeps the types.        *)
LEMMA ResolvingTypeOK ==
    ASSUME TypeOK, NEW t \in Task, NEW c \in Container,
           \/ StartRelease(t, c) \/ StartSaveAndExit(t, c) \/ StartForce(t, c)
           \/ StartControl(t, c) \/ StartHeartbeat(t, c)
    PROVE  TypeOK'
<1>1. /\ pc' \in [Task -> Phases]
      /\ op' \in [Task -> Ops \cup {"none", "takeover"}]
  BY PhaseNames DEF TypeOK, StartRelease, StartSaveAndExit, StartForce, StartControl,
                    StartHeartbeat, Begin, Goto
<1>2. at' \in [Task -> Container] /\ sess' \in [Task -> KeyValue]
  BY DEF TypeOK, StartRelease, StartSaveAndExit, StartForce, StartControl,
         StartHeartbeat, Resolve
<1>3. UNCHANGED <<key, broker, flags, walk>>
  BY DEF StartRelease, StartSaveAndExit, StartForce, StartControl, StartHeartbeat, Resolve
<1> QED BY <1>1, <1>2, <1>3, Unchanged DEF TypeOK

(* The openings of a teardown keep the types.                              *)
LEMMA OpeningTypeOK ==
    ASSUME TypeOK, NEW t \in Task,
           Mark(t) \/ TakeoverMark(t) \/ ExitPulls(t) \/ ExitReleases(t)
    PROVE  TypeOK'
<1>1. ASSUME NEW p \in Phases, Drain(t, p)
      PROVE  /\ key' \in [Container -> KeyValue] /\ pc' \in [Task -> Phases]
             /\ tok' \in [Task -> BOOLEAN]
  <2>1. key' \in [Container -> KeyValue]
    BY <1>1, StoreType DEF Drain, TypeOK
  <2>2. pc' \in [Task -> Phases]
    BY <1>1, GotoType, PhaseNames DEF Drain, TypeOK
  <2>3. tok' \in [Task -> BOOLEAN]
    BY <1>1 DEF Drain, TypeOK, FlagsTypeOK, HoldTypeOK
  <2> QED BY <2>1, <2>2, <2>3
<1>2. ASSUME tok' \in [Task -> BOOLEAN],
             UNCHANGED <<lapsed, beat, blank, probe, safe, saved, waits>>
      PROVE  FlagsTypeOK'
  BY <1>2 DEF TypeOK, FlagsTypeOK, HoldTypeOK
<1>3. CASE Mark(t)
  BY <1>1, <1>2, <1>3, PhaseNames, Unchanged DEF TypeOK, Mark
<1>4. CASE ExitPulls(t)
  BY <1>1, <1>2, <1>4, PhaseNames, Unchanged DEF TypeOK, ExitPulls
<1>5. CASE TakeoverMark(t)
  <2>1. key' \in [Container -> KeyValue]
    BY <1>5, StoreType DEF TakeoverMark, TypeOK
  <2>2. pc' \in [Task -> Phases]
    BY <1>5, GotoType, PhaseNames DEF TakeoverMark, TypeOK
  <2>3. tok' \in [Task -> BOOLEAN]
    BY <1>5 DEF TakeoverMark, TypeOK, FlagsTypeOK, HoldTypeOK
  <2> QED BY <1>2, <1>5, <2>1, <2>2, <2>3, Unchanged DEF TypeOK, TakeoverMark
<1>6. CASE ExitReleases(t)
  <2>1. key' \in [Container -> KeyValue]
    BY <1>6, StoreType DEF ExitReleases, TypeOK
  <2> QED BY <1>6, <2>1, GotoType, PhaseNames, Unchanged DEF TypeOK, ExitReleases, locals
<1> QED BY <1>3, <1>4, <1>5, <1>6

(* The steps of a teardown keep the types: a card or a state is filed      *)
(* under the claim in the session record, never under a marker.            *)
LEMMA TeardownTypeOK ==
    ASSUME TypeOK, NEW t \in Task,
           Stop(t) \/ Evacuate(t) \/ Wipe(t) \/ Pull(t) \/ Drop(t) \/ Kill(t)
    PROVE  TypeOK'
<1>k. /\ at[t] \in Container /\ emu[at[t]] \in Task \cup {Nobody}
      /\ slot[at[t]] \in Card /\ exitState[at[t]] \in Task \cup {Nobody}
      /\ sess[t] \in KeyValue
  BY DEF TypeOK, BrokerTypeOK
<1>s. ASSUME NEW state \in BOOLEAN, Stopped(t, state)
      PROVE  /\ emu' \in [Container -> Task \cup {Nobody}]
             /\ exitState' \in [Container -> Task \cup {Nobody}]
             /\ saved' \in [Task -> BOOLEAN]
  BY <1>s, <1>k DEF Stopped, TypeOK, BrokerTypeOK, FlagsTypeOK
<1>1. CASE Stop(t)
  <2>1. /\ emu' \in [Container -> Task \cup {Nobody}]
        /\ exitState' \in [Container -> Task \cup {Nobody}]
        /\ saved' \in [Task -> BOOLEAN]
    <3>1. /\ emu \in [Container -> Task \cup {Nobody}]
          /\ exitState \in [Container -> Task \cup {Nobody}]
          /\ saved \in [Task -> BOOLEAN]
      BY DEF TypeOK, BrokerTypeOK, FlagsTypeOK
    <3>2. (\E state \in BOOLEAN : Stopped(t, state)) \/ UNCHANGED <<emu, exitState, saved>>
      BY <1>1 DEF Stop
    <3> QED
      BY <1>s, <3>1, <3>2
  <2>2. BrokerTypeOK' /\ FlagsTypeOK'
    BY <1>1, <2>1, Unchanged DEF Stop, TypeOK, BrokerTypeOK, FlagsTypeOK
  <2> QED BY <1>1, <2>2, GotoType, PhaseNames, Unchanged DEF TypeOK, Stop
<1>2. CASE Evacuate(t)
  <2>1. safe' \in [Task -> BOOLEAN]
    BY <1>2 DEF Evacuate, TypeOK, FlagsTypeOK
  <2>2. FlagsTypeOK'
    BY <1>2, <2>1, Unchanged DEF Evacuate, TypeOK, FlagsTypeOK
  <2>3. slot' \in [Container -> Card]
    BY <1>2, <1>k, Cards DEF Evacuate, TypeOK, BrokerTypeOK
  <2>4. (sess[t].kind = "claim" /\ sess[t].card # Nobody) => sess[t].card \in Task
    BY <1>k, KeyKinds DEF Claim
  <2>5. slot[at[t]].of \in Task \cup Container \cup {Nobody}
    BY <1>k, Cards
  <2>6. filed' \in SUBSET (Task \X (Task \cup Container \cup {Nobody}))
    BY <1>2, <2>4, <2>5 DEF Evacuate, TypeOK, BrokerTypeOK
  <2>7. BrokerTypeOK'
    BY <1>2, <2>3, <2>6 DEF Evacuate, TypeOK, BrokerTypeOK
  <2> QED BY <1>2, <2>2, <2>7, GotoType, PhaseNames, Unchanged DEF TypeOK, Evacuate
<1>3. CASE Wipe(t)
  <2>1. BrokerTypeOK'
    BY <1>3, Cards DEF TypeOK, BrokerTypeOK, Wipe
  <2>2. pc' \in [Task -> Phases]
    BY <1>3, PhaseNames DEF TypeOK, Wipe, Goto
  <2> QED BY <1>3, <2>1, <2>2, Unchanged DEF TypeOK, Wipe, locals
<1>4. CASE Pull(t)
  <2>1. sess[t].kind = "claim" => sess[t].by \in Task
    BY <1>k, KeyKinds DEF Claim
  <2>2. filed' \in SUBSET (Task \X (Task \cup Container \cup {Nobody}))
    BY <1>4, <1>k, <2>1 DEF Pull, HasState, HasRom, TypeOK, BrokerTypeOK
  <2>3. BrokerTypeOK'
    BY <1>4, <2>2 DEF TypeOK, BrokerTypeOK, Pull
  <2>4. pc' \in [Task -> Phases]
    BY <1>4, PhaseNames DEF TypeOK, Pull, Goto
  <2> QED BY <1>4, <2>3, <2>4, Unchanged DEF TypeOK, Pull, locals
<1>5. CASE Drop(t)
  <2>1. key' \in [Container -> KeyValue]
    BY <1>5, StoreType DEF Drop
  <2> QED BY <1>5, <2>1, GotoType, PhaseNames, Unchanged DEF TypeOK, Drop, locals
<1>6. CASE Kill(t)
  <2>1. /\ emu' \in [Container -> Task \cup {Nobody}]
        /\ exitState' \in [Container -> Task \cup {Nobody}]
        /\ saved' \in [Task -> BOOLEAN]
    BY <1>6, <1>s DEF Kill, TypeOK, BrokerTypeOK, FlagsTypeOK
  <2>2. dying' \in SUBSET Container
    BY <1>6, <1>k DEF Kill, TypeOK, BrokerTypeOK
  <2>3. waits' \in [Task -> BOOLEAN]
    BY <1>6 DEF Kill, TypeOK, FlagsTypeOK
  <2>4. BrokerTypeOK' /\ FlagsTypeOK'
    BY <1>6, <2>1, <2>2, <2>3, Unchanged DEF Kill, TypeOK, BrokerTypeOK, FlagsTypeOK
  <2> QED BY <1>6, <2>4, GotoType, PhaseNames, Unchanged DEF TypeOK, Kill
<1> QED BY <1>1, <1>2, <1>3, <1>4, <1>5, <1>6

(* The forced release and a player's own requests keep the types.          *)
LEMMA RequestTypeOK ==
    ASSUME TypeOK, NEW t \in Task,
           ForceRead(t) \/ ForceDelete(t) \/ refresh_session(t) \/ Heartbeat(t)
    PROVE  TypeOK'
<1>k. key \in [Container -> KeyValue] /\ at[t] \in Container
  BY DEF TypeOK
<1>1. CASE ForceRead(t)
  <2>1. sess' \in [Task -> KeyValue]
    BY <1>1 DEF ForceRead, TypeOK
  <2> QED BY <1>1, <2>1, GotoType, PhaseNames, Unchanged DEF TypeOK, ForceRead
<1>2. CASE ForceDelete(t)
  <2>1. key' \in [Container -> KeyValue]
    BY <1>2, <1>k, KeyWrites DEF ForceDelete
  <2> QED BY <1>2, <2>1, GotoType, PhaseNames, Unchanged DEF TypeOK, ForceDelete, locals
<1>3. CASE refresh_session(t)
  <2>1. key[at[t]].kind = "marker" => [key EXCEPT ![at[t]].ttl = "full"] \in [Container -> KeyValue]
    BY <1>k, KeyWrites
  <2>2. key' \in [Container -> KeyValue]
    BY <1>3, <1>k, <2>1 DEF refresh_session
  <2> QED BY <1>3, <2>2, GotoType, PhaseNames, Unchanged DEF TypeOK, refresh_session, locals
<1>4. CASE Heartbeat(t)
  <2>1. key[at[t]].kind = "claim" => [key EXCEPT ![at[t]].stale = FALSE] \in [Container -> KeyValue]
    BY <1>k, KeyWrites
  <2>2. key' \in [Container -> KeyValue]
    BY <1>4, <1>k, <2>1 DEF Heartbeat
  <2> QED BY <1>4, <2>2, GotoType, PhaseNames, Unchanged DEF TypeOK, Heartbeat, locals
<1> QED BY <1>1, <1>2, <1>3, <1>4

(* Keepalives and crashes keep the types.                                  *)
LEMMA HoldingTypeOK ==
    ASSUME TypeOK, NEW t \in Task,
           HoldMarker(t) \/ HoldClaim(t) \/ HoldCeiling(t) \/ Crash(t)
    PROVE  TypeOK'
<1>k. key \in [Container -> KeyValue] /\ at[t] \in Container
  BY DEF TypeOK
<1>1. CASE HoldMarker(t)
  <2>1. [key EXCEPT ![at[t]] = drain_marker(t, "marker")] \in [Container -> KeyValue]
    BY <1>k, KeyWrites
  <2>2. key' \in [Container -> KeyValue]
    BY <1>1, <1>k, <2>1 DEF HoldMarker
  <2>3. FlagsTypeOK'
    BY <1>1 DEF HoldMarker, TypeOK, FlagsTypeOK, HoldTypeOK
  <2> QED BY <1>1, <2>2, <2>3, Unchanged DEF TypeOK, HoldMarker
<1>2. CASE HoldClaim(t)
  <2>1. key[at[t]].kind = "claim" => [key EXCEPT ![at[t]].stale = FALSE] \in [Container -> KeyValue]
    BY <1>k, KeyWrites
  <2>2. key' \in [Container -> KeyValue]
    BY <1>2, <1>k, <2>1 DEF HoldClaim, same_claim
  <2>3. FlagsTypeOK'
    BY <1>2 DEF HoldClaim, TypeOK, FlagsTypeOK, HoldTypeOK
  <2> QED BY <1>2, <2>2, <2>3, Unchanged DEF TypeOK, HoldClaim
<1>3. CASE HoldCeiling(t)
  <2>1. FlagsTypeOK'
    BY <1>3 DEF HoldCeiling, TypeOK, FlagsTypeOK, HoldTypeOK
  <2> QED BY <1>3, <2>1, Unchanged DEF TypeOK, HoldCeiling
<1>4. CASE Crash(t)
  BY <1>4, GotoType, PhaseNames, Unchanged DEF TypeOK, Crash, locals
<1> QED BY <1>1, <1>2, <1>3, <1>4

(* What a container, its key and its player do by themselves keeps the     *)
(* types.                                                                  *)
LEMMA ContainerTypeOK ==
    ASSUME TypeOK, NEW c \in Container,
           KillLands(c) \/ GoStale(c) \/ Expire(c) \/ Play(c)
    PROVE  TypeOK'
<1>k. /\ key \in [Container -> KeyValue] /\ emu[c] \in Task \cup {Nobody}
      /\ slot[c] \in Card
  BY DEF TypeOK, BrokerTypeOK
<1>1. CASE KillLands(c)
  <2>1. BrokerTypeOK'
    BY <1>1, <1>k DEF KillLands, TypeOK, BrokerTypeOK
  <2> QED BY <1>1, <2>1, Unchanged DEF TypeOK, KillLands, locals
<1>2. CASE GoStale(c)
  <2>1. key' \in [Container -> KeyValue]
    BY <1>2, <1>k, KeyWrites DEF GoStale
  <2> QED BY <1>2, <2>1, Unchanged DEF TypeOK, GoStale, locals
<1>3. CASE Expire(c)
  <2>1. key' \in [Container -> KeyValue]
    BY <1>3, <1>k, KeyWrites DEF Expire
  <2> QED BY <1>3, <2>1, Unchanged DEF TypeOK, Expire, locals
<1>4. CASE Play(c)
  <2>1. emu[c] \in Task /\ slot[c].of \in Task \cup Container \cup {Nobody}
    BY <1>4, <1>k, Cards DEF Play
  <2>2. slot' \in [Container -> Card]
    BY <1>4, <2>1, Cards DEF Play, TypeOK, BrokerTypeOK
  <2>3. BrokerTypeOK'
    BY <1>4, <2>2 DEF Play, TypeOK, BrokerTypeOK
  <2> QED BY <1>4, <2>3, Unchanged DEF TypeOK, Play, locals
<1> QED BY <1>1, <1>2, <1>3, <1>4

-----------------------------------------------------------------------------
(* Control: which operation is in which phase, with which session.         *)

ControlInv ==
    /\ TypeOK /\ Phased /\ ClaimsOwnSession /\ RecordsDecision /\ TokenPlaced

(* Every step keeps the types.                                             *)
LEMMA NextTypeOK == ControlInv /\ [Next]_vars => TypeOK'
<1> SUFFICES ASSUME ControlInv, [Next]_vars PROVE TypeOK'
  OBVIOUS
<1> USE DEF ControlInv
<1>1. CASE UNCHANGED vars
  BY <1>1, Unchanged DEF TypeOK, vars, locals
<1>2. CASE Next
  <2>1. ASSUME NEW t \in Task,
               Starts(t) \/ Work(t) \/ AwaitTimeout(t) \/ HoldMarker(t)
               \/ HoldClaim(t) \/ HoldCeiling(t) \/ Crash(t)
        PROVE  TypeOK'
    <3>1. CASE Starts(t)
      BY <3>1, ClaimingTypeOK, ResolvingTypeOK DEF Starts
    <3>2. CASE Work(t)
      BY <3>2, ClaimingTypeOK, PreparingTypeOK, LaunchingTypeOK, OpeningTypeOK,
         TeardownTypeOK, RequestTypeOK DEF Work
    <3>3. CASE AwaitTimeout(t) \/ HoldMarker(t) \/ HoldClaim(t) \/ HoldCeiling(t)
               \/ Crash(t)
      BY <3>3, ClaimingTypeOK, HoldingTypeOK
    <3> QED BY <2>1, <3>1, <3>2, <3>3
  <2>2. CASE Quiet
    BY <2>2, <1>1 DEF Quiet
  <2> QED BY <1>2, <2>1, <2>2, ContainerTypeOK DEF Next
<1> QED BY <1>1, <1>2

(* A task that moves to another phase of its operation keeps Phased.       *)
LEMMA MovePhased ==
    ASSUME TypeOK, Phased, NEW t \in Task, NEW p, Goto(t, p), UNCHANGED op,
           InPhase(op[t], p)
    PROVE  Phased'
<1>1. op \in [Task -> Ops \cup {"none", "takeover"}] /\ pc \in [Task -> Phases]
  BY DEF TypeOK
<1> QED BY <1>1 DEF Phased, Goto

(* A request that starts is in the first phase of its operation.           *)
LEMMA BeginPhased ==
    ASSUME TypeOK, Phased, NEW t \in Task, NEW o, NEW p, Begin(t, o, p), InPhase(o, p)
    PROVE  Phased'
<1>1. op \in [Task -> Ops \cup {"none", "takeover"}] /\ pc \in [Task -> Phases]
  BY DEF TypeOK
<1> QED BY <1>1 DEF Phased, Goto, Begin

(* The sweep goes on or fails.                                             *)
LEMMA NextCandidatePhased ==
    ASSUME TypeOK, Phased, NEW t \in Task, NextCandidate(t), UNCHANGED op, op[t] = "claim"
    PROVE  Phased'
BY MovePhased DEF NextCandidate, InPhase

(* The steps that claim and prepare a container keep Phased.               *)
LEMMA ClaimPhased ==
    ASSUME TypeOK, Phased, NEW t \in Task,
           \/ StartClaim(t) \/ StartDesktop(t) \/ Walk(t) \/ SweepSkips(t)
           \/ (\E u \in Task : SweepSpawns(t, u)) \/ AwaitDone(t) \/ AwaitTimeout(t)
           \/ Retry(t) \/ DesktopClaim(t) \/ ProbeKnown(t)
           \/ (\E i \in {"none", "adopt", "discard"}, r \in BOOLEAN : ProbeAsks(t, i, r))
           \/ Settle(t) \/ StoreAdopted(t) \/ RecordAdoption(t) \/ AdoptionFails(t)
           \/ Hydrate(t) \/ HydrateFails(t)
           \/ Launch(t) \/ LaunchFails(t) \/ Stamp(t) \/ Abort(t)
    PROVE  Phased'
<1>p. InPhase(op[t], pc[t])
  BY DEF Phased
<1> USE DEF InPhase, Preparing, Teardown
<1>1. CASE StartClaim(t) \/ StartDesktop(t)
  BY <1>1, BeginPhased DEF StartClaim, StartDesktop
<1>2. CASE Walk(t)
  BY <1>2, <1>p, MovePhased DEF Walk, Win, Won, Phased
<1>3. CASE SweepSkips(t)
  BY <1>3, <1>p, NextCandidatePhased DEF SweepSkips
<1>4. CASE \E u \in Task : SweepSpawns(t, u)
  <2>1. PICK u \in Task : SweepSpawns(t, u)
    BY <1>4
  <2>2. op \in [Task -> Ops \cup {"none", "takeover"}] /\ pc \in [Task -> Phases]
    BY DEF TypeOK
  <2>3. op[t] = "claim" /\ t # u
    BY <2>1, <1>p DEF SweepSpawns
  <2> QED BY <2>1, <2>2, <2>3 DEF SweepSpawns, Phased
<1>5. CASE AwaitDone(t)
  BY <1>5, <1>p, NextCandidatePhased, MovePhased DEF AwaitDone
<1>6. CASE AwaitTimeout(t)
  BY <1>6, <1>p, NextCandidatePhased DEF AwaitTimeout
<1>7. CASE Retry(t)
  BY <1>7, <1>p, NextCandidatePhased, MovePhased DEF Retry, Win, Won
<1>8. CASE DesktopClaim(t)
  BY <1>8, MovePhased DEF DesktopClaim, Win, locals
<1>9. CASE ProbeKnown(t)
  BY <1>9, <1>p, MovePhased DEF ProbeKnown, locals
<1>10. CASE \E i \in {"none", "adopt", "discard"}, r \in BOOLEAN : ProbeAsks(t, i, r)
  BY <1>10, <1>p, MovePhased DEF ProbeAsks
<1>11. CASE Settle(t)
  BY <1>11, <1>p, MovePhased DEF Settle
<1>12. CASE StoreAdopted(t) \/ RecordAdoption(t) \/ AdoptionFails(t)
  BY <1>12, <1>p, MovePhased DEF StoreAdopted, RecordAdoption, AdoptionFails, locals
<1>13. CASE Hydrate(t) \/ HydrateFails(t)
  BY <1>13, <1>p, MovePhased DEF Hydrate, HydrateFails, locals
<1>14. CASE Launch(t) \/ LaunchFails(t) \/ Stamp(t) \/ Abort(t)
  BY <1>14, <1>p, MovePhased DEF Launch, LaunchFails, Stamp, Abort, locals
<1> QED BY <1>1, <1>2, <1>3, <1>4, <1>5, <1>6, <1>7, <1>8, <1>9, <1>10, <1>11, <1>12,
           <1>13, <1>14

(* The steps that end a session, and a player's requests, keep Phased.     *)
LEMMA EndPhased ==
    ASSUME TypeOK, Phased, NEW t \in Task,
           \/ \E c \in Container :
                \/ StartRelease(t, c) \/ StartSaveAndExit(t, c) \/ StartForce(t, c)
                \/ StartControl(t, c) \/ StartHeartbeat(t, c)
           \/ Mark(t) \/ TakeoverMark(t) \/ ExitPulls(t) \/ ExitReleases(t)
           \/ Stop(t) \/ Evacuate(t) \/ Wipe(t) \/ Pull(t) \/ Drop(t) \/ Kill(t)
           \/ ForceRead(t) \/ ForceDelete(t) \/ refresh_session(t) \/ Heartbeat(t)
           \/ HoldMarker(t) \/ HoldClaim(t) \/ HoldCeiling(t) \/ Crash(t)
    PROVE  Phased'
<1>p. InPhase(op[t], pc[t])
  BY DEF Phased
<1>1. CASE \E c \in Container :
             \/ StartRelease(t, c) \/ StartSaveAndExit(t, c) \/ StartForce(t, c)
             \/ StartControl(t, c) \/ StartHeartbeat(t, c)
  BY <1>1, BeginPhased DEF StartRelease, StartSaveAndExit, StartForce, StartControl,
                           StartHeartbeat, InPhase, Teardown
<1>2. CASE HoldMarker(t) \/ HoldClaim(t) \/ HoldCeiling(t)
  BY <1>2 DEF HoldMarker, HoldClaim, HoldCeiling, Phased
<1> USE DEF InPhase, Preparing, Teardown
<1>3. CASE Mark(t) \/ TakeoverMark(t)
  BY <1>3, <1>p, MovePhased DEF Mark, TakeoverMark, Drain
<1>4. CASE ExitPulls(t) \/ ExitReleases(t)
  BY <1>4, <1>p, MovePhased DEF ExitPulls, ExitReleases, Drain, locals
<1>5. CASE Stop(t) \/ Evacuate(t)
  BY <1>5, <1>p, MovePhased DEF Stop, Evacuate
<1>6. CASE Wipe(t) \/ Pull(t) \/ Drop(t)
  BY <1>6, <1>p, MovePhased DEF Wipe, Pull, Drop, locals
<1>7. CASE Kill(t)
  BY <1>7, <1>p, MovePhased DEF Kill
<1>8. CASE ForceRead(t) \/ ForceDelete(t) \/ refresh_session(t) \/ Heartbeat(t)
  BY <1>8, <1>p, MovePhased DEF ForceRead, ForceDelete, refresh_session, Heartbeat, locals
<1>9. CASE Crash(t)
  BY <1>9, <1>p, MovePhased DEF Crash, Alive, locals
<1> QED BY <1>1, <1>2, <1>3, <1>4, <1>5, <1>6, <1>7, <1>8, <1>9

(* Every step keeps Phased.                                                *)
LEMMA NextPhased == ControlInv /\ [Next]_vars => Phased'
<1> SUFFICES ASSUME ControlInv, [Next]_vars PROVE Phased'
  OBVIOUS
<1> USE DEF ControlInv
<1>1. CASE UNCHANGED vars
  BY <1>1 DEF Phased, vars, locals
<1>2. CASE Next
  <2>1. ASSUME NEW t \in Task, Starts(t)
        PROVE  Phased'
    BY <2>1, ClaimPhased, EndPhased DEF Starts
  <2>2. ASSUME NEW t \in Task, Work(t)
        PROVE  Phased'
    BY <2>2, ClaimPhased, EndPhased DEF Work
  <2>3. ASSUME NEW t \in Task,
               AwaitTimeout(t) \/ HoldMarker(t) \/ HoldClaim(t) \/ HoldCeiling(t)
               \/ Crash(t)
        PROVE  Phased'
    BY <2>3, ClaimPhased, EndPhased
  <2>4. ASSUME NEW c \in Container, KillLands(c) \/ GoStale(c) \/ Expire(c) \/ Play(c)
        PROVE  Phased'
    BY <2>4 DEF KillLands, GoStale, Expire, Play, Phased, locals
  <2>5. CASE Quiet
    BY <2>5, <1>1 DEF Quiet
  <2> QED BY <1>2, <2>1, <2>2, <2>3, <2>4, <2>5 DEF Next
<1> QED BY <1>1, <1>2

(* A step that changes the session a task works on is the start of a       *)
(* request, a takeover being spawned, a settled card or a forced release's *)
(* read.                                                                   *)
LEMMA SessionSteps ==
    ASSUME TypeOK, Next
    PROVE  \/ UNCHANGED <<op, sess>>
           \/ \E t \in Task : StartClaim(t) \/ StartDesktop(t) \/ Settle(t) \/ ForceRead(t)
           \/ \E t \in Task, u \in Task : SweepSpawns(t, u)
           \/ \E t \in Task, c \in Container :
                \/ StartRelease(t, c) \/ StartSaveAndExit(t, c) \/ StartForce(t, c)
                \/ StartControl(t, c) \/ StartHeartbeat(t, c)
<1> DEFINE Unaltered == UNCHANGED <<op, sess>>
<1>1. ASSUME NEW t \in Task,
             \/ Walk(t) \/ SweepSkips(t) \/ AwaitDone(t) \/ AwaitTimeout(t) \/ Retry(t)
             \/ DesktopClaim(t) \/ ProbeKnown(t)
             \/ (\E i \in {"none", "adopt", "discard"}, r \in BOOLEAN : ProbeAsks(t, i, r))
             \/ StoreAdopted(t) \/ RecordAdoption(t) \/ AdoptionFails(t)
             \/ Hydrate(t) \/ HydrateFails(t)
             \/ Launch(t) \/ LaunchFails(t) \/ Stamp(t) \/ Abort(t)
      PROVE  Unaltered
  BY <1>1 DEF Walk, SweepSkips, AwaitDone, AwaitTimeout, Retry, Win, DesktopClaim,
              ProbeKnown, ProbeAsks, StoreAdopted, RecordAdoption, AdoptionFails, Hydrate,
              HydrateFails, Launch, LaunchFails, Stamp, Abort, locals
<1>2. ASSUME NEW t \in Task,
             \/ Mark(t) \/ TakeoverMark(t) \/ ExitPulls(t) \/ ExitReleases(t)
             \/ Stop(t) \/ Evacuate(t) \/ Wipe(t) \/ Pull(t) \/ Drop(t) \/ Kill(t)
             \/ ForceDelete(t) \/ refresh_session(t) \/ Heartbeat(t)
             \/ HoldMarker(t) \/ HoldClaim(t) \/ HoldCeiling(t) \/ Crash(t)
      PROVE  Unaltered
  BY <1>2 DEF Mark, TakeoverMark, ExitPulls, ExitReleases, Stop, Evacuate, Wipe, Pull,
              Drop, Kill, ForceDelete, refresh_session, Heartbeat, HoldMarker, HoldClaim,
              HoldCeiling, Crash, locals
<1>3. ASSUME NEW c \in Container, KillLands(c) \/ GoStale(c) \/ Expire(c) \/ Play(c)
      PROVE  Unaltered
  BY <1>3 DEF KillLands, GoStale, Expire, Play, locals
<1>4. Quiet => Unaltered
  BY DEF Quiet, vars, locals
<1> HIDE DEF Unaltered
<1>5. ASSUME NEW t \in Task, Work(t), ~Unaltered
      PROVE  Settle(t) \/ ForceRead(t) \/ \E u \in Task : SweepSpawns(t, u)
  BY <1>5, <1>1, <1>2 DEF Work
<1>6. \/ Unaltered
      \/ \E t \in Task : \/ Starts(t) \/ Settle(t) \/ ForceRead(t)
                         \/ \E u \in Task : SweepSpawns(t, u)
  BY <1>1, <1>2, <1>3, <1>4, <1>5 DEF Next
<1> QED BY <1>6 DEF Starts, Unaltered

(* Every step keeps the session of a claim its own.                        *)
LEMMA NextClaimsOwnSession == ControlInv /\ [Next]_vars => ClaimsOwnSession'
<1> SUFFICES ASSUME ControlInv, [Next]_vars PROVE ClaimsOwnSession'
  OBVIOUS
<1> USE DEF ControlInv
<1>k. /\ op \in [Task -> Ops \cup {"none", "takeover"}]
      /\ sess \in [Task -> KeyValue]
  BY DEF TypeOK
<1>1. CASE UNCHANGED <<op, sess>>
  BY <1>1 DEF ClaimsOwnSession
<1>2. ASSUME NEW t \in Task, StartClaim(t) \/ StartDesktop(t)
      PROVE  ClaimsOwnSession'
  BY <1>2, <1>k DEF ClaimsOwnSession, StartClaim, StartDesktop, Begin, NewClaim
<1>3. ASSUME NEW t \in Task, Settle(t)
      PROVE  ClaimsOwnSession'
  <2>1. op[t] = "claim"
    BY <1>3 DEF Phased, InPhase, Settle, Preparing, Teardown
  <2>2. sess[t] \in Claim
    BY <2>1, <1>k, KeyKinds DEF ClaimsOwnSession
  <2>3. sess'[t].kind = "claim" /\ sess'[t].by = t
    BY <1>3, <1>k, <2>1, <2>2 DEF Settle, ClaimsOwnSession, Claim
  <2>4. \A u \in Task : u # t => sess'[u] = sess[u]
    BY <1>3, <1>k DEF Settle
  <2>5. UNCHANGED op
    BY <1>3 DEF Settle
  <2> QED BY <2>3, <2>4, <2>5 DEF ClaimsOwnSession
<1>4. ASSUME NEW t \in Task, ForceRead(t)
      PROVE  ClaimsOwnSession'
  <2>1. op[t] = "force" /\ UNCHANGED op
    BY <1>4 DEF Phased, InPhase, ForceRead, Preparing, Teardown
  <2> QED BY <1>4, <1>k, <2>1 DEF ClaimsOwnSession, ForceRead
<1>5. ASSUME NEW t \in Task, NEW u \in Task, SweepSpawns(t, u)
      PROVE  ClaimsOwnSession'
  BY <1>5, <1>k DEF ClaimsOwnSession, SweepSpawns
<1>6. ASSUME NEW t \in Task, NEW c \in Container,
             \/ StartRelease(t, c) \/ StartSaveAndExit(t, c) \/ StartForce(t, c)
             \/ StartControl(t, c) \/ StartHeartbeat(t, c)
      PROVE  ClaimsOwnSession'
  <2>1. op' = [op EXCEPT ![t] = op'[t]] /\ op'[t] \notin {"claim", "desktop"}
    BY <1>6, <1>k DEF StartRelease, StartSaveAndExit, StartForce, StartControl,
                      StartHeartbeat, Begin
  <2>2. \A u \in Task : u # t => sess'[u] = sess[u]
    BY <1>6, <1>k DEF StartRelease, StartSaveAndExit, StartForce, StartControl,
                      StartHeartbeat, Resolve
  <2> QED BY <1>k, <2>1, <2>2 DEF ClaimsOwnSession
<1>7. CASE UNCHANGED vars
  BY <1>7, <1>1 DEF vars, locals
<1> QED BY <1>1, <1>2, <1>3, <1>4, <1>5, <1>6, <1>7, SessionSteps

Placed(o, p) ==
    \/ o \in {"release", "takeover"} /\ p \in Teardown \cup {"done", "dead"}
    \/ o = "save_and_exit" /\ p \in {"pull", "drop", "done", "dead"}

DecisionInv == RecordsDecision /\ TokenPlaced

(* A task that moves on with its token and its decision.                   *)
LEMMA MoveDecision ==
    ASSUME TypeOK, DecisionInv, NEW t \in Task, NEW p, Goto(t, p),
           UNCHANGED <<op, tok, probe>>, p \notin {"store", "record"},
           tok[t] => Placed(op[t], p)
    PROVE  DecisionInv'
<1>1. pc \in [Task -> Phases]
  BY DEF TypeOK
<1> QED BY <1>1 DEF DecisionInv, RecordsDecision, TokenPlaced, Goto, Placed

(* A request that starts has neither a token nor a decision to record.     *)
LEMMA BeginDecision ==
    ASSUME TypeOK, DecisionInv, NEW t \in Task, NEW o, NEW p, Begin(t, o, p),
           UNCHANGED <<tok, probe>>, p \notin {"store", "record"}
    PROVE  DecisionInv'
<1>1. /\ op \in [Task -> Ops \cup {"none", "takeover"}] /\ pc \in [Task -> Phases]
  BY DEF TypeOK
<1>2. ~tok[t]
  BY DEF DecisionInv, TokenPlaced, Begin, Teardown
<1> QED BY <1>1, <1>2 DEF DecisionInv, RecordsDecision, TokenPlaced, Goto, Begin

(* The openings of a teardown: the token comes with the phase it is for.   *)
LEMMA DrainDecision ==
    ASSUME TypeOK, DecisionInv, NEW t \in Task, NEW p \in Phases, Drain(t, p),
           UNCHANGED <<op, probe>>, p \notin {"store", "record"}, Placed(op[t], p),
           ~tok[t]
    PROVE  DecisionInv'
<1>1. /\ op \in [Task -> Ops \cup {"none", "takeover"}] /\ pc \in [Task -> Phases]
      /\ tok \in [Task -> BOOLEAN]
  BY DEF TypeOK, FlagsTypeOK, HoldTypeOK
<1> QED BY <1>1 DEF DecisionInv, RecordsDecision, TokenPlaced, Goto, Drain, Placed

(* The steps that claim and prepare a container keep DecisionInv.          *)
LEMMA ClaimDecision ==
    ASSUME TypeOK, Phased, DecisionInv, NEW t \in Task,
           \/ StartClaim(t) \/ StartDesktop(t) \/ Walk(t) \/ SweepSkips(t)
           \/ (\E u \in Task : SweepSpawns(t, u)) \/ AwaitDone(t) \/ AwaitTimeout(t)
           \/ Retry(t) \/ DesktopClaim(t) \/ ProbeKnown(t)
           \/ (\E i \in {"none", "adopt", "discard"}, r \in BOOLEAN : ProbeAsks(t, i, r))
           \/ Settle(t) \/ StoreAdopted(t) \/ RecordAdoption(t) \/ AdoptionFails(t)
           \/ Hydrate(t) \/ HydrateFails(t)
           \/ Launch(t) \/ LaunchFails(t) \/ Stamp(t) \/ Abort(t)
    PROVE  DecisionInv'
<1>k. /\ op \in [Task -> Ops \cup {"none", "takeover"}] /\ pc \in [Task -> Phases]
      /\ probe \in [Task -> {"decided", "adopt", "discard"}]
  BY DEF TypeOK, FlagsTypeOK
<1>p. pc[t] \notin Teardown \cup {"done", "dead"} => ~tok[t]
  BY DEF DecisionInv, TokenPlaced, Teardown
<1>1. CASE StartClaim(t) \/ StartDesktop(t)
  BY <1>1, BeginDecision DEF StartClaim, StartDesktop, flags, hold
<1>2. CASE Walk(t)
  <2>1. CASE UNCHANGED <<op, pc, tok, probe>>
    BY <2>1 DEF DecisionInv, RecordsDecision, TokenPlaced
  <2> QED BY <1>2, <2>1, <1>p, MoveDecision DEF Walk, Win, Won, flags, hold, Teardown
<1>3. CASE SweepSkips(t)
  BY <1>3, <1>p, MoveDecision DEF SweepSkips, NextCandidate, flags, hold, Teardown
<1>4. CASE \E u \in Task : SweepSpawns(t, u)
  <2>1. PICK u \in Task : SweepSpawns(t, u)
    BY <1>4
  <2>2. ~tok[t] /\ ~tok[u] /\ UNCHANGED <<tok, probe>>
    BY <2>1 DEF SweepSpawns, DecisionInv, TokenPlaced, Teardown, flags, hold
  <2> QED BY <2>1, <2>2, <1>k DEF SweepSpawns, DecisionInv, RecordsDecision, TokenPlaced
<1>5. CASE AwaitDone(t)
  BY <1>5, <1>p, MoveDecision DEF AwaitDone, NextCandidate, flags, hold, Teardown
<1>6. CASE AwaitTimeout(t)
  BY <1>6, <1>p, MoveDecision DEF AwaitTimeout, NextCandidate, Teardown
<1>7. CASE Retry(t)
  BY <1>7, <1>p, MoveDecision DEF Retry, NextCandidate, Win, Won, flags, hold, Teardown
<1>8. CASE DesktopClaim(t)
  BY <1>8, <1>p, MoveDecision DEF DesktopClaim, Win, locals, flags, hold, Teardown
<1>9. CASE ProbeKnown(t)
  BY <1>9, <1>p, MoveDecision DEF ProbeKnown, locals, flags, hold, Teardown
<1>10. CASE \E i \in {"none", "adopt", "discard"}, r \in BOOLEAN : ProbeAsks(t, i, r)
  <2>1. ~tok[t] /\ UNCHANGED tok
    BY <1>10, <1>p DEF ProbeAsks, hold, Teardown
  <2> QED BY <1>10, <2>1, <1>k DEF ProbeAsks, Goto, DecisionInv, RecordsDecision, TokenPlaced
<1>11. CASE Settle(t)
  <2>1. ~tok[t] /\ UNCHANGED <<tok, probe, op>>
    BY <1>11, <1>p DEF Settle, hold, Teardown
  <2> QED BY <1>11, <2>1, <1>k DEF Settle, Goto, DecisionInv, RecordsDecision, TokenPlaced
<1>12. CASE RecordAdoption(t) \/ AdoptionFails(t)
  BY <1>12, <1>p, MoveDecision DEF RecordAdoption, AdoptionFails, locals, flags, hold, Teardown
<1>15. CASE StoreAdopted(t)
  <2>1. ~tok[t] /\ UNCHANGED <<tok, probe, op>>
    BY <1>15, <1>p DEF StoreAdopted, locals, flags, hold, Teardown
  <2> QED
    BY <1>15, <2>1, <1>k DEF StoreAdopted, Goto, DecisionInv, RecordsDecision, TokenPlaced
<1>13. CASE Hydrate(t) \/ HydrateFails(t)
  BY <1>13, <1>p, MoveDecision DEF Hydrate, HydrateFails, locals, flags, hold, Teardown
<1>14. CASE Launch(t) \/ LaunchFails(t) \/ Stamp(t) \/ Abort(t)
  BY <1>14, <1>p, MoveDecision DEF Launch, LaunchFails, Stamp, Abort, locals, flags, hold,
                                   Teardown
<1> QED BY <1>1, <1>2, <1>3, <1>4, <1>5, <1>6, <1>7, <1>8, <1>9, <1>10, <1>11, <1>12,
           <1>13, <1>14, <1>15

(* The steps that end a session keep DecisionInv.                          *)
LEMMA EndDecision ==
    ASSUME TypeOK, Phased, DecisionInv, NEW t \in Task,
           \/ \E c \in Container :
                \/ StartRelease(t, c) \/ StartSaveAndExit(t, c) \/ StartForce(t, c)
                \/ StartControl(t, c) \/ StartHeartbeat(t, c)
           \/ Mark(t) \/ TakeoverMark(t) \/ ExitPulls(t) \/ ExitReleases(t)
           \/ Stop(t) \/ Evacuate(t) \/ Wipe(t) \/ Pull(t) \/ Drop(t) \/ Kill(t)
           \/ ForceRead(t) \/ ForceDelete(t) \/ refresh_session(t) \/ Heartbeat(t)
           \/ HoldMarker(t) \/ HoldClaim(t) \/ HoldCeiling(t) \/ Crash(t)
    PROVE  DecisionInv'
<1>p. /\ InPhase(op[t], pc[t])
      /\ tok[t] => Placed(op[t], pc[t])
  BY DEF Phased, DecisionInv, TokenPlaced, Placed
<1>1. CASE \E c \in Container :
             \/ StartRelease(t, c) \/ StartSaveAndExit(t, c) \/ StartForce(t, c)
             \/ StartControl(t, c) \/ StartHeartbeat(t, c)
  BY <1>1, BeginDecision DEF StartRelease, StartSaveAndExit, StartForce, StartControl,
                             StartHeartbeat, Resolve, flags, hold
<1>2. CASE HoldMarker(t) \/ HoldClaim(t) \/ HoldCeiling(t)
  BY <1>2 DEF HoldMarker, HoldClaim, HoldCeiling, DecisionInv, RecordsDecision, TokenPlaced
<1> USE DEF Placed, Teardown
<1>3. CASE Mark(t)
  BY <1>3, <1>p, DrainDecision, PhaseNames DEF Mark, InPhase, Preparing
<1>4. CASE TakeoverMark(t)
  <2>1. /\ op \in [Task -> Ops \cup {"none", "takeover"}] /\ pc \in [Task -> Phases]
        /\ tok \in [Task -> BOOLEAN]
    BY DEF TypeOK, FlagsTypeOK, HoldTypeOK
  <2>2. ~tok[t] /\ op[t] = "takeover" /\ UNCHANGED <<op, probe>>
    BY <1>4, <1>p DEF TakeoverMark, InPhase, Preparing
  <2> QED BY <1>4, <2>1, <2>2 DEF TakeoverMark, Goto, DecisionInv, RecordsDecision, TokenPlaced
<1>5. CASE ExitPulls(t)
  BY <1>5, <1>p, DrainDecision, PhaseNames DEF ExitPulls, InPhase, Preparing
<1>6. CASE ExitReleases(t)
  BY <1>6, <1>p, MoveDecision DEF ExitReleases, locals, flags, hold
<1>7. CASE Stop(t) \/ Evacuate(t)
  BY <1>7, <1>p, MoveDecision DEF Stop, Evacuate, hold
<1>8. CASE Wipe(t) \/ Pull(t) \/ Drop(t)
  BY <1>8, <1>p, MoveDecision DEF Wipe, Pull, Drop, locals, flags, hold, InPhase, Preparing
<1>9. CASE Kill(t)
  BY <1>9, <1>p, MoveDecision DEF Kill, hold
<1>10. CASE ForceRead(t) \/ ForceDelete(t) \/ refresh_session(t) \/ Heartbeat(t)
  BY <1>10, <1>p, MoveDecision DEF ForceRead, ForceDelete, refresh_session, Heartbeat,
                                   locals, flags, hold
<1>11. CASE Crash(t)
  BY <1>11, <1>p, MoveDecision DEF Crash, locals, flags, hold
<1> QED BY <1>1, <1>2, <1>3, <1>4, <1>5, <1>6, <1>7, <1>8, <1>9, <1>10, <1>11

(* Every step keeps DecisionInv.                                           *)
LEMMA NextDecision == ControlInv /\ [Next]_vars => DecisionInv'
<1> SUFFICES ASSUME ControlInv, [Next]_vars PROVE DecisionInv'
  OBVIOUS
<1>k. TypeOK /\ Phased /\ DecisionInv
  BY DEF ControlInv, DecisionInv
<1>1. CASE UNCHANGED vars
  BY <1>1, <1>k DEF DecisionInv, RecordsDecision, TokenPlaced, vars, locals, flags, hold
<1>2. CASE Next
  <2>1. ASSUME NEW t \in Task, Starts(t)
        PROVE  DecisionInv'
    BY <1>k, <2>1, ClaimDecision, EndDecision DEF Starts
  <2>2. ASSUME NEW t \in Task, Work(t)
        PROVE  DecisionInv'
    BY <1>k, <2>2, ClaimDecision, EndDecision DEF Work
  <2>3. ASSUME NEW t \in Task,
               AwaitTimeout(t) \/ HoldMarker(t) \/ HoldClaim(t) \/ HoldCeiling(t)
               \/ Crash(t)
        PROVE  DecisionInv'
    BY <1>k, <2>3, ClaimDecision, EndDecision
  <2>4. ASSUME NEW c \in Container, KillLands(c) \/ GoStale(c) \/ Expire(c) \/ Play(c)
        PROVE  DecisionInv'
    BY <1>k, <2>4 DEF KillLands, GoStale, Expire, Play, DecisionInv, RecordsDecision,
                      TokenPlaced, locals, flags, hold
  <2>5. CASE Quiet
    BY <2>5, <1>1 DEF Quiet
  <2> QED BY <1>2, <2>1, <2>2, <2>3, <2>4, <2>5 DEF Next
<1> QED BY <1>1, <1>2

(* The initial states satisfy the control invariant.                       *)
LEMMA InitControl == Init => ControlInv
<1> SUFFICES ASSUME Init PROVE ControlInv
  OBVIOUS
<1>1. Phased /\ ClaimsOwnSession /\ RecordsDecision /\ TokenPlaced
  BY DEF Init, Phased, InPhase, ClaimsOwnSession, RecordsDecision, TokenPlaced
<1> QED BY <1>1, InitTypeOK DEF ControlInv

(* The control invariant holds of every behaviour.                         *)
THEOREM SessionsControl == Spec => []ControlInv
<1>1. ControlInv /\ [Next]_vars => ControlInv'
  BY NextTypeOK, NextPhased, NextClaimsOwnSession, NextDecision DEF ControlInv, DecisionInv
<1> QED BY InitControl, <1>1, PTL DEF Spec

(* Type correctness of the pool of containers, its keys and its tasks: in  *)
(* particular the walk and the sweep of _win_container never run off the   *)
(* end of the pool and nothing is ever filed under a drain marker.         *)
THEOREM SessionsTypeOK == Spec => []TypeOK
<1>1. ControlInv => TypeOK
  BY DEF ControlInv
<1> QED BY SessionsControl, <1>1, PTL

-----------------------------------------------------------------------------
(* Who writes a key: every step that changes one is of one of these kinds. *)

(* A free key is taken by a claim, which stops looking.                    *)
Taken(c) ==
    /\ key[c] = NoKey
    /\ \E t \in Task : /\ key'[c] = sess[t] /\ at'[t] = c
                       /\ op[t] \in {"claim", "desktop"}
                       /\ pc'[t] \in {"probe", "hydrate", "launch"}

(* The key changes but not hands.                                          *)
SameHolder(c) ==
    \/ key[c].kind = "claim" /\ same_claim(key'[c], key[c])
    \/ /\ key[c].kind = "marker" /\ key'[c].kind = "marker"
       /\ key'[c].by = key[c].by

(* A task that ends the claim at the key puts its marker there, or nothing.*)
Ended(c) ==
    /\ key'[c].kind # "claim"
    /\ \E t \in Task :
         /\ same_claim(key[c], sess[t]) /\ at[t] = c
         /\ \/ Steps(t, "mark") \/ Steps(t, "exit") \/ Steps(t, "drop") \/ Steps(t, "abort")
            \/ Steps(t, "takeover") /\ key[c].stale

(* A task drops its own marker.                                            *)
Dropped(c) ==
    /\ key'[c] = NoKey
    /\ \E t \in Task : own_marker(key[c], t) /\ at[t] = c /\ pc[t] = "drop" /\ pc'[t] = "done"

KeyWritten(c) ==
    \/ Taken(c) \/ SameHolder(c) \/ Ended(c) \/ Dropped(c) \/ Expire(c)
    \/ \E t \in Task : ForceDelete(t)

(* A step that leaves the keys alone, or one.                              *)
LEMMA OneKey ==
    ASSUME TypeOK, NEW c \in Container, NEW d \in Container, NEW v,
           key' = [key EXCEPT ![d] = v], key'[c] # key[c]
    PROVE  c = d /\ key'[c] = v
BY DEF TypeOK

(* release_own_session ends the claim of the task that calls it.           *)
LEMMA ReleaseWrites ==
    ASSUME ControlInv, NEW t \in Task, release_own_session(t), NEW c \in Container,
           key'[c] # key[c]
    PROVE  /\ c = at[t] /\ same_claim(key[c], sess[t])
           /\ key'[c] = NoKey /\ key'[c].kind # "claim"
BY OneKey DEF release_own_session, ControlInv, TypeOK, NoKey

(* A marker lands on the claim of the task that writes it.                 *)
LEMMA MarkerWrites ==
    ASSUME ControlInv, NEW t \in Task, NEW ttl, MarkerLands(t, ttl), NEW c \in Container,
           key'[c] # key[c]
    PROVE  /\ c = at[t] /\ same_claim(key[c], sess[t])
           /\ key'[c].kind # "claim"
BY OneKey DEF MarkerLands, ControlInv, TypeOK, drain_marker

(* Winning a container takes a free key.                                   *)
LEMMA WinWrites ==
    ASSUME ControlInv, NEW t \in Task, NEW d \in Container, NEW p, Win(t, d, p),
           op[t] \in {"claim", "desktop"}, p \in {"probe", "hydrate", "launch"},
           NEW c \in Container, key'[c] # key[c]
    PROVE  Taken(c)
<1>1. c = d /\ key'[c] = sess[t]
  BY OneKey DEF Win, ControlInv
<1>2. at'[t] = c /\ pc'[t] = p /\ key[c] = NoKey
  BY <1>1 DEF Win, ControlInv, TypeOK, Goto
<1> QED BY <1>1, <1>2 DEF Taken

(* The steps of claims write keys in one of the kinds.                     *)
LEMMA ClaimWrites ==
    ASSUME ControlInv, NEW t \in Task, NEW c \in Container, key'[c] # key[c],
           \/ Walk(t) \/ Retry(t) \/ DesktopClaim(t) \/ Settle(t) \/ Stamp(t) \/ Abort(t)
    PROVE  KeyWritten(c)
<1>k. /\ TypeOK /\ key \in [Container -> KeyValue] /\ at[t] \in Container
      /\ pc \in [Task -> Phases] /\ key[c] \in KeyValue
      /\ Pool[idx[t]] \in Container /\ InPhase(op[t], pc[t])
  BY PoolMembers DEF ControlInv, TypeOK, WalkTypeOK, Phased
<1>1. CASE Walk(t) \/ Retry(t)
  <2>1. op[t] = "claim" /\ Win(t, Pool[idx[t]], Won)
    BY <1>1, <1>k DEF Walk, Retry, InPhase, Preparing, Teardown
  <2>2. Taken(c)
    BY <2>1, <1>k, WinWrites DEF Won
  <2> QED BY <2>2 DEF KeyWritten
<1>2. CASE DesktopClaim(t)
  <2>1. op[t] = "desktop" /\ Win(t, Pool[idx[t]], "launch")
    BY <1>2 DEF DesktopClaim
  <2>2. Taken(c)
    BY <2>1, <1>k, WinWrites
  <2> QED BY <2>2 DEF KeyWritten
<1>3. CASE Settle(t)
  <2>1. key' = [key EXCEPT ![at[t]] = RecordCard(key[at[t]], t)]
    BY <1>3 DEF Settle
  <2>2. c = at[t] /\ key'[c] = RecordCard(key[c], t)
    BY <2>1, <1>k, OneKey
  <2>3. SameHolder(c)
    BY <2>2, <1>k, KeyKinds DEF SameHolder, RecordCard, same_claim, Claim, Marker
  <2> QED BY <2>3 DEF KeyWritten
<1>4. CASE Stamp(t)
  <2>1. key[at[t]].kind = "claim" /\ key' = [key EXCEPT ![at[t]].launched = TRUE]
    BY <1>4 DEF Stamp, same_claim
  <2>2. c = at[t] /\ key'[c] = [key[c] EXCEPT !.launched = TRUE] /\ key[c] \in Claim
    BY <2>1, <1>k, KeyKinds
  <2>3. SameHolder(c)
    BY <2>1, <2>2 DEF SameHolder, same_claim, Claim
  <2> QED BY <2>3 DEF KeyWritten
<1>5. CASE Abort(t)
  <2>1. release_own_session(t) /\ pc[t] = "abort" /\ pc'[t] = "failed"
    BY <1>5, <1>k DEF Abort, Goto
  <2>2. Ended(c)
    BY <2>1, ReleaseWrites DEF Ended, Steps
  <2> QED BY <2>2 DEF KeyWritten
<1> QED BY <1>1, <1>2, <1>3, <1>4, <1>5

(* The steps that end a session write keys in one of the kinds.            *)
LEMMA EndWrites ==
    ASSUME ControlInv, NEW t \in Task, NEW c \in Container, key'[c] # key[c],
           \/ Mark(t) \/ TakeoverMark(t) \/ ExitPulls(t) \/ ExitReleases(t) \/ Drop(t)
    PROVE  KeyWritten(c)
<1>k. TypeOK /\ pc \in [Task -> Phases] /\ at[t] \in Container
  BY DEF ControlInv, TypeOK
<1>1. CASE Mark(t)
  <2>1. MarkerLands(t, "marker") /\ Steps(t, "mark")
    BY <1>1, <1>k DEF Mark, Drain, MarkerContended, Goto, Steps
  <2>2. Ended(c)
    BY <2>1, MarkerWrites DEF Ended
  <2> QED BY <2>2 DEF KeyWritten
<1>2. CASE TakeoverMark(t)
  <2>1. MarkerLands(t, "marker") /\ Steps(t, "takeover") /\ key[at[t]].stale
    BY <1>2, <1>k DEF TakeoverMark, Goto, Steps
  <2>2. Ended(c)
    BY <2>1, MarkerWrites DEF Ended
  <2> QED BY <2>2 DEF KeyWritten
<1>3. CASE ExitPulls(t)
  <2>1. MarkerLands(t, "marker") /\ Steps(t, "exit")
    BY <1>3, <1>k DEF ExitPulls, Drain, MarkerContended, Goto, Steps
  <2>2. Ended(c)
    BY <2>1, MarkerWrites DEF Ended
  <2> QED BY <2>2 DEF KeyWritten
<1>4. CASE ExitReleases(t)
  <2>1. (release_own_session(t) \/ MarkerLands(t, "drain")) /\ Steps(t, "exit")
    BY <1>4, <1>k DEF ExitReleases, MarkerContended, Goto, Steps
  <2>2. Ended(c)
    BY <2>1, MarkerWrites, ReleaseWrites DEF Ended
  <2> QED BY <2>2 DEF KeyWritten
<1>5. CASE Drop(t)
  <2>1. pc[t] = "drop" /\ pc'[t] = "done" /\ Steps(t, "drop")
    BY <1>5, <1>k DEF Drop, Goto, Steps
  <2>2. CASE release_own_session(t)
    <3>1. Ended(c)
      BY <2>1, <2>2, ReleaseWrites DEF Ended
    <3> QED BY <3>1 DEF KeyWritten
  <2>3. CASE drop_drain_marker(t)
    <3>1. own_marker(key[at[t]], t) /\ key' = [key EXCEPT ![at[t]] = NoKey]
      BY <2>3 DEF drop_drain_marker
    <3>2. c = at[t] /\ key'[c] = NoKey
      BY <3>1, <1>k, OneKey
    <3>3. Dropped(c)
      BY <2>1, <3>1, <3>2 DEF Dropped
    <3> QED BY <3>3 DEF KeyWritten
  <2> QED BY <1>5, <2>2, <2>3 DEF Drop
<1> QED BY <1>1, <1>2, <1>3, <1>4, <1>5

(* Refreshing a key leaves it to the one who holds it.                     *)
LEMMA RefreshWrites ==
    ASSUME ControlInv, NEW t \in Task, NEW c \in Container, key'[c] # key[c],
           \/ refresh_session(t) \/ Heartbeat(t) \/ HoldMarker(t) \/ HoldClaim(t)
    PROVE  KeyWritten(c)
<1>k. /\ key \in [Container -> KeyValue] /\ at[t] \in Container /\ key[c] \in KeyValue
  BY DEF ControlInv, TypeOK
<1>1. CASE refresh_session(t)
  <2>1. key[at[t]].kind = "marker" /\ key' = [key EXCEPT ![at[t]].ttl = "full"]
    BY <1>1 DEF refresh_session
  <2>2. c = at[t] /\ key'[c] = [key[c] EXCEPT !.ttl = "full"] /\ key[c] \in Marker
    BY <2>1, <1>k, KeyKinds
  <2>3. SameHolder(c)
    BY <2>1, <2>2 DEF SameHolder, Marker
  <2> QED BY <2>3 DEF KeyWritten
<1>2. CASE Heartbeat(t) \/ HoldClaim(t)
  <2>1. key[at[t]].kind = "claim" /\ key' = [key EXCEPT ![at[t]].stale = FALSE]
    BY <1>2 DEF Heartbeat, HoldClaim, same_claim
  <2>2. c = at[t] /\ key'[c] = [key[c] EXCEPT !.stale = FALSE] /\ key[c] \in Claim
    BY <2>1, <1>k, KeyKinds
  <2>3. SameHolder(c)
    BY <2>1, <2>2 DEF SameHolder, same_claim, Claim
  <2> QED BY <2>3 DEF KeyWritten
<1>3. CASE HoldMarker(t)
  <2>1. own_marker(key[at[t]], t) /\ key' = [key EXCEPT ![at[t]] = drain_marker(t, "marker")]
    BY <1>3 DEF HoldMarker
  <2>2. c = at[t] /\ key'[c] = drain_marker(t, "marker")
    BY <2>1, <1>k
  <2>3. SameHolder(c)
    BY <2>1, <2>2 DEF SameHolder, own_marker, drain_marker
  <2> QED BY <2>3 DEF KeyWritten
<1> QED BY <1>1, <1>2, <1>3

(* The steps that write a key.                                             *)
LEMMA KeyWriters ==
    ASSUME Next, key' # key
    PROVE  \/ \E t \in Task :
                \/ Walk(t) \/ Retry(t) \/ DesktopClaim(t) \/ Settle(t) \/ Stamp(t) \/ Abort(t)
                \/ Mark(t) \/ TakeoverMark(t) \/ ExitPulls(t) \/ ExitReleases(t) \/ Drop(t)
                \/ refresh_session(t) \/ Heartbeat(t) \/ HoldMarker(t) \/ HoldClaim(t)
                \/ ForceDelete(t)
           \/ \E c \in Container : GoStale(c) \/ Expire(c)
<1>1. ASSUME NEW t \in Task, Starts(t)
      PROVE  FALSE
  BY <1>1 DEF Starts, StartClaim, StartDesktop, StartRelease, StartSaveAndExit,
              StartForce, StartControl, StartHeartbeat, Resolve
<1>2. ASSUME NEW t \in Task,
             \/ SweepSkips(t) \/ (\E u \in Task : SweepSpawns(t, u)) \/ AwaitDone(t)
             \/ AwaitTimeout(t) \/ ProbeKnown(t)
             \/ (\E i \in {"none", "adopt", "discard"}, r \in BOOLEAN : ProbeAsks(t, i, r))
             \/ StoreAdopted(t) \/ RecordAdoption(t) \/ AdoptionFails(t)
             \/ Hydrate(t) \/ HydrateFails(t)
             \/ Launch(t) \/ LaunchFails(t) \/ Stop(t) \/ Evacuate(t) \/ Wipe(t)
             \/ Pull(t) \/ Kill(t) \/ ForceRead(t) \/ HoldCeiling(t) \/ Crash(t)
      PROVE  FALSE
  BY <1>2 DEF SweepSkips, SweepSpawns, AwaitDone, AwaitTimeout, ProbeKnown, ProbeAsks,
              StoreAdopted, RecordAdoption, AdoptionFails, Hydrate, HydrateFails, Launch, LaunchFails,
              Stop, Evacuate, Wipe, Pull, Kill, ForceRead, HoldCeiling, Crash
<1>3. ASSUME NEW c \in Container, KillLands(c) \/ Play(c) PROVE FALSE
  BY <1>3 DEF KillLands, Play
<1>4. ~Quiet
  BY DEF Quiet, vars
<1> QED BY <1>1, <1>2, <1>3, <1>4 DEF Next, Work

(* Every write of a key is of one of the kinds.                            *)
LEMMA KeySteps ==
    ASSUME ControlInv, Next, NEW c \in Container, key'[c] # key[c]
    PROVE  KeyWritten(c)
<1>k. key \in [Container -> KeyValue] /\ key[c] \in KeyValue
  BY DEF ControlInv, TypeOK
<1>1. ASSUME NEW d \in Container, GoStale(d)
      PROVE  KeyWritten(c)
  <2>1. key[d].kind = "claim" /\ key' = [key EXCEPT ![d].stale = TRUE]
    BY <1>1 DEF GoStale
  <2>2. c = d /\ key'[c] = [key[c] EXCEPT !.stale = TRUE] /\ key[c] \in Claim
    BY <2>1, <1>k, KeyKinds
  <2>3. SameHolder(c)
    BY <2>1, <2>2 DEF SameHolder, same_claim, Claim
  <2> QED BY <2>3 DEF KeyWritten
<1>2. ASSUME NEW d \in Container, Expire(d)
      PROVE  KeyWritten(c)
  <2>1. c = d
    BY <1>2, <1>k DEF Expire
  <2> QED BY <1>2, <2>1 DEF KeyWritten
<1>3. (\E t \in Task : ForceDelete(t)) => KeyWritten(c)
  BY DEF KeyWritten
<1> QED BY <1>1, <1>2, <1>3, KeyWriters, ClaimWrites, EndWrites, RefreshWrites

-----------------------------------------------------------------------------
(* What the guarded writes of the session store guarantee, as long as no   *)
(* admin forces a release: force_release_all deletes the key unguarded.    *)

(* Without the operation there is no forced delete.                        *)
LEMMA NoForce ==
    ASSUME ControlInv, "force" \notin Ops, NEW t \in Task
    PROVE  ~ForceDelete(t)
<1>1. op[t] # "force" /\ InPhase(op[t], pc[t])
  BY DEF ControlInv, TypeOK, Phased
<1> QED BY <1>1 DEF InPhase, ForceDelete, Preparing, Teardown

(* A claim is ended only by a task that ends that very claim, by a         *)
(* takeover of a stale one or by its TTL, whatever the number of requests, *)
(* takeovers and containers and whatever goes wrong on the way.            *)
THEOREM SessionsClaimEndsByItsOwn ==
    ASSUME "force" \notin Ops
    PROVE  Spec => ClaimEndsByItsOwn
<1>1. ControlInv /\ [Next]_vars =>
        [\A c \in Container : ClaimEnds(c) => ByItsOwn(c)]_vars
  <2> SUFFICES ASSUME ControlInv, Next, NEW c \in Container, ClaimEnds(c)
               PROVE  ByItsOwn(c)
    OBVIOUS
  <2>1. key'[c] # key[c]
    BY DEF ClaimEnds, same_claim
  <2>2. ~Taken(c) /\ ~SameHolder(c) /\ ~Dropped(c)
    BY DEF ClaimEnds, Taken, SameHolder, Dropped, own_marker, NoKey
  <2>3. CASE Ended(c)
    BY <2>3 DEF Ended, ByItsOwn
  <2>4. CASE Expire(c)
    <3>1. key[c].stale /\ UNCHANGED pc
      BY <2>4 DEF Expire, ClaimEnds
    <3>2. key'[c] = NoKey
      BY <2>4 DEF Expire, ControlInv, TypeOK
    <3> QED BY <3>1, <3>2 DEF ByItsOwn
  <2> QED BY <2>1, <2>2, <2>3, <2>4, KeySteps, NoForce DEF KeyWritten
<1> QED BY <1>1, SessionsControl, PTL DEF Spec, ClaimEndsByItsOwn

(* A marker leaves the key only by its own task's drop or by expiry.       *)
LEMMA MarkerStays ==
    ASSUME ControlInv, "force" \notin Ops, Next, NEW u \in Task, NEW c \in Container,
           own_marker(key[c], u)
    PROVE  \/ own_marker(key'[c], u)
           \/ pc[u] = "drop" /\ pc'[u] = "done"
           \/ ~Kept(c)
<1>1. CASE key'[c] = key[c]
  BY <1>1
<1>2. CASE key'[c] # key[c]
  <2>1. ~Taken(c) /\ ~Ended(c)
    BY DEF Taken, Ended, own_marker, same_claim, NoKey
  <2>2. SameHolder(c) => own_marker(key'[c], u)
    BY DEF SameHolder, own_marker
  <2>3. Dropped(c) => pc[u] = "drop" /\ pc'[u] = "done"
    BY DEF Dropped, own_marker
  <2>4. Expire(c) => ~Kept(c)
    BY DEF Expire
  <2> QED BY <1>2, <2>1, <2>2, <2>3, <2>4, KeySteps, NoForce DEF KeyWritten
<1> QED BY <1>1, <1>2

(* A claim that has no container yet.                                      *)
Searching == {"walk", "sweep", "await", "retry"}

(* What a step may do to a task: it keeps its operation, it stays at its   *)
(* container once it has one, an ended keepalive stays ended, a token      *)
(* comes with the marker at the key, and a task that is over stays so.     *)
Follows(u) ==
    /\ pc[u] # "idle" => op'[u] = op[u]
    /\ pc[u] \notin Searching \cup {"idle"} => at'[u] = at[u] /\ pc'[u] \notin Searching
    /\ lapsed[u] => lapsed'[u]
    /\ tok'[u] => tok[u] \/ own_marker(key'[at'[u]], u)
    /\ pc[u] \in {"done", "failed", "dead"} => pc'[u] = pc[u]

(* The types the lemmas on Follows use.                                    *)
LEMMA FollowTypes ==
    ASSUME TypeOK
    PROVE  /\ op \in [Task -> Ops \cup {"none", "takeover"}]
           /\ pc \in [Task -> Phases] /\ at \in [Task -> Container]
           /\ tok \in [Task -> BOOLEAN] /\ lapsed \in [Task -> BOOLEAN]
BY DEF TypeOK, FlagsTypeOK, HoldTypeOK

(* A request that starts, at a container or without one.                   *)
LEMMA BeginFollows ==
    ASSUME TypeOK, NEW t \in Task, NEW o, NEW p, Begin(t, o, p), UNCHANGED hold,
           UNCHANGED at \/ (\E c \in Container : at' = [at EXCEPT ![t] = c]),
           NEW u \in Task
    PROVE  Follows(u)
BY FollowTypes DEF Follows, Begin, Goto, hold, Searching

(* A task that moves on and leaves tokens, keepalives and places alone.    *)
LEMMA MoveFollows ==
    ASSUME TypeOK, NEW t \in Task, NEW p, Goto(t, p), UNCHANGED <<op, at, hold>>,
           pc[t] \notin {"done", "failed", "dead"}, p \in Searching => pc[t] \in Searching,
           NEW u \in Task
    PROVE  Follows(u)
BY FollowTypes DEF Follows, Goto, hold

(* A claim that wins a container was still looking for one.                *)
LEMMA WinFollows ==
    ASSUME TypeOK, NEW t \in Task, NEW p, NEW c, Win(t, c, p), pc[t] \in Searching,
           NEW u \in Task
    PROVE  Follows(u)
BY FollowTypes DEF Follows, Win, Goto, flags, hold, Searching

(* A marker lands at the task's container with its token.                  *)
LEMMA MarkFollows ==
    ASSUME TypeOK, NEW t \in Task, NEW p, Goto(t, p), UNCHANGED <<op, at, lapsed>>,
           pc[t] \notin {"done", "failed", "dead"}, p \notin Searching, NEW u \in Task,
           \/ UNCHANGED tok
           \/ MarkerLands(t, "marker") /\ tok' = [tok EXCEPT ![t] = TRUE]
    PROVE  Follows(u)
<1>1. MarkerLands(t, "marker") => own_marker(key'[at[t]], t)
  BY DEF MarkerLands, own_marker, drain_marker, TypeOK
<1> QED BY <1>1, FollowTypes DEF Follows, Goto

(* Every step of a claim.                                                  *)
LEMMA ClaimFollows ==
    ASSUME TypeOK, NEW u \in Task, NEW t \in Task,
           \/ StartClaim(t) \/ StartDesktop(t) \/ Walk(t) \/ SweepSkips(t)
           \/ (\E v \in Task : SweepSpawns(t, v)) \/ AwaitDone(t) \/ AwaitTimeout(t)
           \/ Retry(t) \/ DesktopClaim(t) \/ ProbeKnown(t)
           \/ (\E i \in {"none", "adopt", "discard"}, r \in BOOLEAN : ProbeAsks(t, i, r))
           \/ Settle(t) \/ StoreAdopted(t) \/ RecordAdoption(t) \/ AdoptionFails(t)
           \/ Hydrate(t) \/ HydrateFails(t)
           \/ Launch(t) \/ LaunchFails(t) \/ Stamp(t) \/ Abort(t)
    PROVE  Follows(u)
<1> USE DEF Searching
<1>1. CASE StartClaim(t) \/ StartDesktop(t)
  BY <1>1, BeginFollows DEF StartClaim, StartDesktop, flags
<1>2. CASE Walk(t)
  <2>1. CASE UNCHANGED <<op, pc, at, flags>>
    BY <2>1 DEF Follows, flags, hold
  <2>2. CASE Win(t, Pool[idx[t]], Won)
    BY <1>2, <2>2, WinFollows DEF Walk
  <2> QED BY <1>2, <2>1, <2>2, MoveFollows DEF Walk, flags
<1>3. CASE SweepSkips(t) \/ AwaitDone(t)
  BY <1>3, MoveFollows DEF SweepSkips, AwaitDone, NextCandidate, flags
<1>4. CASE \E v \in Task : SweepSpawns(t, v)
  BY <1>4, FollowTypes DEF SweepSpawns, Follows, flags, hold
<1>5. CASE AwaitTimeout(t)
  BY <1>5, FollowTypes DEF AwaitTimeout, NextCandidate, Goto, Follows
<1>6. CASE Retry(t)
  BY <1>6, MoveFollows, WinFollows DEF Retry, NextCandidate, flags
<1>7. CASE DesktopClaim(t)
  BY <1>7, MoveFollows, WinFollows DEF DesktopClaim, locals, flags
<1>8. CASE \/ ProbeKnown(t)
           \/ \E i \in {"none", "adopt", "discard"}, r \in BOOLEAN : ProbeAsks(t, i, r)
  BY <1>8, MoveFollows DEF ProbeKnown, ProbeAsks, locals, flags
<1>9. CASE Settle(t) \/ StoreAdopted(t) \/ RecordAdoption(t) \/ AdoptionFails(t)
  BY <1>9, MoveFollows DEF Settle, StoreAdopted, RecordAdoption, AdoptionFails, locals, flags
<1>10. CASE Hydrate(t) \/ HydrateFails(t) \/ Launch(t) \/ LaunchFails(t)
  BY <1>10, MoveFollows DEF Hydrate, HydrateFails, Launch, LaunchFails, locals, flags
<1>11. CASE Stamp(t) \/ Abort(t)
  BY <1>11, MoveFollows DEF Stamp, Abort, locals, flags
<1> QED BY <1>1, <1>2, <1>3, <1>4, <1>5, <1>6, <1>7, <1>8, <1>9, <1>10, <1>11

(* Every step of a task that ends a session, and of a player's request.    *)
LEMMA EndFollows ==
    ASSUME TypeOK, NEW u \in Task, NEW t \in Task,
           \/ \E c \in Container :
                \/ StartRelease(t, c) \/ StartSaveAndExit(t, c) \/ StartForce(t, c)
                \/ StartControl(t, c) \/ StartHeartbeat(t, c)
           \/ Mark(t) \/ TakeoverMark(t) \/ ExitPulls(t) \/ ExitReleases(t)
           \/ Stop(t) \/ Evacuate(t) \/ Wipe(t) \/ Pull(t) \/ Drop(t) \/ Kill(t)
           \/ ForceRead(t) \/ ForceDelete(t) \/ refresh_session(t) \/ Heartbeat(t)
           \/ HoldMarker(t) \/ HoldClaim(t) \/ HoldCeiling(t) \/ Crash(t)
    PROVE  Follows(u)
<1> USE DEF Searching
<1>1. CASE \E c \in Container :
             \/ StartRelease(t, c) \/ StartSaveAndExit(t, c) \/ StartForce(t, c)
             \/ StartControl(t, c) \/ StartHeartbeat(t, c)
  BY <1>1, BeginFollows DEF StartRelease, StartSaveAndExit, StartForce, StartControl,
                            StartHeartbeat, Resolve, flags
<1>2. CASE Mark(t) \/ TakeoverMark(t) \/ ExitPulls(t)
  BY <1>2, MarkFollows DEF Mark, TakeoverMark, ExitPulls, Drain
<1>3. CASE ExitReleases(t)
  BY <1>3, MoveFollows DEF ExitReleases, locals, flags
<1>4. CASE Stop(t) \/ Evacuate(t) \/ Kill(t)
  BY <1>4, MoveFollows DEF Stop, Evacuate, Kill
<1>5. CASE Wipe(t) \/ Pull(t) \/ Drop(t)
  BY <1>5, MoveFollows DEF Wipe, Pull, Drop, locals, flags
<1>6. CASE ForceRead(t) \/ ForceDelete(t) \/ refresh_session(t) \/ Heartbeat(t)
  BY <1>6, MoveFollows DEF ForceRead, ForceDelete, refresh_session, Heartbeat, locals, flags
<1>7. CASE HoldMarker(t) \/ HoldClaim(t) \/ HoldCeiling(t)
  BY <1>7, FollowTypes DEF HoldMarker, HoldClaim, HoldCeiling, Follows
<1>8. CASE Crash(t)
  BY <1>8, MoveFollows DEF Crash, Alive, locals, flags
<1> QED BY <1>1, <1>2, <1>3, <1>4, <1>5, <1>6, <1>7, <1>8

(* Every step.                                                             *)
LEMMA NextFollows ==
    ASSUME TypeOK, Next, NEW u \in Task
    PROVE  Follows(u)
<1>1. ASSUME NEW t \in Task, Starts(t)
      PROVE  Follows(u)
  BY <1>1, ClaimFollows, EndFollows DEF Starts
<1>2. ASSUME NEW t \in Task, Work(t)
      PROVE  Follows(u)
  BY <1>2, ClaimFollows, EndFollows DEF Work
<1>3. ASSUME NEW c \in Container, KillLands(c) \/ GoStale(c) \/ Expire(c) \/ Play(c)
      PROVE  Follows(u)
  BY <1>3 DEF KillLands, GoStale, Expire, Play, Follows, locals, flags, hold
<1>4. CASE Quiet
  BY <1>4 DEF Quiet, vars, Follows, locals, flags, hold
<1> QED BY <1>1, <1>2, <1>3, <1>4, ClaimFollows, EndFollows DEF Next

(* From the step that writes its marker to the one that drops it, a        *)
(* teardown whose keepalive has not been stopped reserves its container:   *)
(* no claim, no other teardown and no expiry gets in between, for every    *)
(* number of requests, takeovers and containers.                           *)
THEOREM SessionsTeardownHoldsMarker ==
    ASSUME "force" \notin Ops
    PROVE  Spec => []TeardownHoldsMarker
<1>1. Init => TeardownHoldsMarker
  BY DEF Init, TeardownHoldsMarker, UnderMarker
<1>2. ControlInv /\ TeardownHoldsMarker /\ [Next]_vars => TeardownHoldsMarker'
  <2> SUFFICES ASSUME ControlInv, TeardownHoldsMarker, [Next]_vars
               PROVE  TeardownHoldsMarker'
    OBVIOUS
  <2>1. CASE UNCHANGED vars
    BY <2>1 DEF TeardownHoldsMarker, UnderMarker, vars, locals, flags, hold
  <2>2. CASE Next
    <3> SUFFICES ASSUME NEW u \in Task, pc'[u] \in Teardown, tok'[u], ~lapsed'[u]
                 PROVE  own_marker(key'[at'[u]], u)
      BY DEF TeardownHoldsMarker, UnderMarker, own_marker
    <3>1. Follows(u)
      BY <2>2, NextFollows DEF ControlInv
    <3>2. CASE ~tok[u]
      BY <3>1, <3>2 DEF Follows
    <3>3. CASE tok[u]
      <4>1. pc[u] \in Teardown \cup {"done", "dead"}
        BY <3>3 DEF ControlInv, TokenPlaced, Teardown
      <4>2. pc[u] \in Teardown
        BY <3>1, <4>1 DEF Follows, Teardown
      <4>3. UnderMarker(u) /\ ~lapsed[u] /\ at'[u] = at[u]
        BY <3>1, <3>3, <4>2 DEF Follows, UnderMarker, Teardown, Searching
      <4>4. own_marker(key[at[u]], u)
        BY <4>3 DEF TeardownHoldsMarker
      <4>5. at[u] \in Container
        BY DEF ControlInv, TypeOK
      <4>6. Kept(at[u])
        BY <4>3, <4>4 DEF Kept
      <4>7. pc'[u] # "done"
        BY DEF Teardown
      <4> QED BY <2>2, <4>3, <4>4, <4>5, <4>6, <4>7, MarkerStays
    <3> QED BY <3>2, <3>3
  <2> QED BY <2>1, <2>2
<1> QED BY <1>1, <1>2, SessionsControl, PTL DEF Spec

-----------------------------------------------------------------------------
(* One container per claim.                                                *)

(* The claim at a key is of a task that found its container there and has  *)
(* stopped looking.                                                        *)
ClaimPlaced ==
    \A c \in Container : key[c].kind = "claim" =>
      /\ op[key[c].by] \in {"claim", "desktop"}
      /\ at[key[c].by] = c
      /\ pc[key[c].by] \notin Searching

(* Every step keeps claims where they were made.                           *)
LEMMA NextClaimPlaced == ControlInv /\ ClaimPlaced /\ [Next]_vars => ClaimPlaced'
<1> SUFFICES ASSUME ControlInv, ClaimPlaced, [Next]_vars PROVE ClaimPlaced'
  OBVIOUS
<1>1. CASE UNCHANGED vars
  BY <1>1 DEF ClaimPlaced, vars, locals
<1>2. CASE Next
  <2> SUFFICES ASSUME NEW c \in Container, key'[c].kind = "claim"
               PROVE  /\ op'[key'[c].by] \in {"claim", "desktop"}
                      /\ at'[key'[c].by] = c
                      /\ pc'[key'[c].by] \notin Searching
    BY DEF ClaimPlaced
  <2>k. key[c] \in KeyValue
    BY DEF ControlInv, TypeOK
  <2>1. CASE key[c].kind = "claim" /\ key'[c].by = key[c].by
    <3>1. key[c].by \in Task
      BY <2>1, <2>k, KeyKinds DEF Claim
    <3>2. Follows(key[c].by) /\ InPhase(op[key[c].by], pc[key[c].by])
      BY <1>2, <3>1, NextFollows DEF ControlInv, Phased
    <3>3. /\ op[key[c].by] \in {"claim", "desktop"} /\ at[key[c].by] = c
          /\ pc[key[c].by] \notin Searching
      BY <2>1 DEF ClaimPlaced
    <3>4. pc[key[c].by] # "idle"
      BY <3>2, <3>3 DEF InPhase, Preparing, Teardown
    <3> QED BY <2>1, <3>2, <3>3, <3>4 DEF Follows
  <2>2. CASE Taken(c)
    <3>1. PICK t \in Task : /\ key'[c] = sess[t] /\ at'[t] = c
                            /\ op[t] \in {"claim", "desktop"}
                            /\ pc'[t] \in {"probe", "hydrate", "launch"}
      BY <2>2 DEF Taken
    <3>2. key'[c].by = t
      BY <3>1 DEF ControlInv, ClaimsOwnSession
    <3>3. Follows(t) /\ InPhase(op[t], pc[t])
      BY <1>2, NextFollows DEF ControlInv, Phased
    <3>4. op'[t] = op[t]
      BY <3>1, <3>3 DEF Follows, InPhase, Preparing, Teardown
    <3> QED BY <3>1, <3>2, <3>4 DEF Searching
  <2>3. CASE key'[c] # key[c] /\ ~Taken(c)
    <3>1. ~Ended(c) /\ ~Dropped(c)
      BY DEF Ended, Dropped, NoKey
    <3>2. ~Expire(c)
      BY DEF Expire, ControlInv, TypeOK, NoKey
    <3>3. ASSUME NEW t \in Task, ForceDelete(t)
          PROVE  FALSE
      BY <2>3, <3>3, OneKey DEF ForceDelete, ControlInv, TypeOK, NoKey
    <3>4. SameHolder(c)
      BY <1>2, <2>3, <3>1, <3>2, <3>3, KeySteps DEF KeyWritten
    <3> QED BY <2>1, <3>4 DEF SameHolder, same_claim
  <2> QED BY <2>1, <2>2, <2>3
<1> QED BY <1>1, <1>2

(* A claim ends up with one container of the pool at most, however long    *)
(* the pool, whoever races it and whatever is taken over on the way.       *)
THEOREM SessionsClaimHoldsOne == Spec => []ClaimHoldsOne
<1>1. Init => ClaimPlaced
  BY DEF Init, ClaimPlaced, NoKey
<1>2. ClaimPlaced => ClaimHoldsOne
  BY DEF ClaimPlaced, ClaimHoldsOne
<1> QED BY <1>1, <1>2, NextClaimPlaced, SessionsControl, PTL DEF Spec

-----------------------------------------------------------------------------
(* A launch has its container reserved.                                    *)

(* No session ends before its launch returned, preparing a claim does not  *)
(* outlast the stale window, and nobody forces a release.                  *)
Timely == {"early_exit", "slow_start"} \cap Mishaps = {} /\ "force" \notin Ops

Over(t) == pc[t] \in {"done", "failed", "dead"}

(* A claim that works on its container is the one at the key.              *)
StartReserved ==
    \A t \in Task : Starting(t) => key[at[t]].kind = "claim" /\ key[at[t]].by = t

(* A claim that says it is launched, or is stale, is through with its      *)
(* start, and so is the claim of a session that somebody is ending.        *)
LaunchedIsOver ==
    \A c \in Container :
      key[c].kind = "claim" /\ (key[c].launched \/ key[c].stale) => Over(key[c].by)

EndedIsOver ==
    \A u \in Task : op[u] \in {"release", "save_and_exit", "takeover"} =>
      sess[u].kind = "claim" /\ Over(sess[u].by)

(* The session a claim is made of says neither.                            *)
FreshSessions ==
    \A t \in Task : op[t] \in {"claim", "desktop"} => ~sess[t].launched /\ ~sess[t].stale

ReservedInv == StartReserved /\ LaunchedIsOver /\ EndedIsOver /\ FreshSessions

(* A task that is about to start, or is starting, was starting before or   *)
(* has just won its container.                                             *)
LEMMA StartSteps ==
    ASSUME ControlInv, Next, NEW t \in Task, Starting(t)'
    PROVE  \/ Starting(t) /\ (pc[t] = "abort" => pc'[t] = "abort")
           \/ \E c \in Container : /\ key'[c] = sess[t] /\ at'[t] = c
                                   /\ op[t] \in {"claim", "desktop"}
<1> DEFINE Started == \/ Starting(t) /\ (pc[t] = "abort" => pc'[t] = "abort")
                      \/ \E c \in Container : /\ key'[c] = sess[t] /\ at'[t] = c
                                              /\ op[t] \in {"claim", "desktop"}
<1>k. /\ pc \in [Task -> Phases] /\ at \in [Task -> Container]
      /\ key \in [Container -> KeyValue]
  BY DEF ControlInv, TypeOK
<1>s. Starting(t)' <=> pc'[t] \in {"probe", "settle", "store", "record", "hydrate", "launch",
                                   "stamp", "abort"}
  BY DEF Starting, Preparing
<1>t. Starting(t) <=> pc[t] \in {"probe", "settle", "store", "record", "hydrate", "launch",
                                 "stamp", "abort"}
  BY DEF Starting, Preparing
<1>1. CASE pc'[t] = pc[t]
  BY <1>1, <1>s, <1>t
<1>2. ASSUME NEW u \in Task, NEW p, Win(u, Pool[idx[u]], p), op[u] \in {"claim", "desktop"}
      PROVE  Started
  <2>1. Pool[idx[u]] \in Container
    BY PoolMembers DEF ControlInv, TypeOK, WalkTypeOK
  <2>2. CASE t = u
    BY <1>2, <1>k, <2>1, <2>2 DEF Win
  <2>3. CASE t # u
    BY <1>1, <1>2, <1>k, <2>3 DEF Win, Goto
  <2> QED BY <2>2, <2>3
<1>3. ASSUME NEW u \in Task,
             \/ Starts(u) \/ SweepSkips(u) \/ (\E v \in Task : SweepSpawns(u, v))
             \/ AwaitDone(u) \/ AwaitTimeout(u)
      PROVE  pc'[t] = pc[t]
  BY <1>3, <1>k, <1>s
  DEF Starts, StartClaim, StartDesktop, StartRelease, StartSaveAndExit, StartForce,
      StartControl, StartHeartbeat, Begin, SweepSkips, SweepSpawns, AwaitDone,
      AwaitTimeout, NextCandidate, Goto
<1>4. ASSUME NEW u \in Task, Walk(u) \/ Retry(u) \/ DesktopClaim(u)
      PROVE  Started
  <2>1. op[u] \in {"claim", "desktop"}
    BY <1>4 DEF Walk, Retry, DesktopClaim, ControlInv, Phased, InPhase, Preparing, Teardown
  <2>2. CASE \E p : Win(u, Pool[idx[u]], p)
    BY <1>2, <2>1, <2>2
  <2>3. CASE ~\E p : Win(u, Pool[idx[u]], p)
    BY <1>1, <1>4, <1>k, <1>s, <2>3 DEF Walk, Retry, DesktopClaim, NextCandidate, Goto
  <2> QED BY <2>2, <2>3
<1>5. ASSUME NEW u \in Task,
             \/ ProbeKnown(u)
             \/ (\E i \in {"none", "adopt", "discard"}, r \in BOOLEAN : ProbeAsks(u, i, r))
             \/ Settle(u) \/ StoreAdopted(u) \/ RecordAdoption(u) \/ AdoptionFails(u)
             \/ Hydrate(u) \/ HydrateFails(u) \/ Launch(u) \/ LaunchFails(u) \/ Stamp(u) \/ Abort(u)
      PROVE  Started
  <2>1. CASE t = u
    BY <1>5, <1>k, <1>s, <1>t, <2>1
    DEF ProbeKnown, ProbeAsks, Settle, StoreAdopted, RecordAdoption, AdoptionFails, Hydrate,
        HydrateFails, Launch, LaunchFails, Stamp, Abort, Goto
  <2>2. CASE t # u
    BY <1>1, <1>5, <1>k, <2>2
    DEF ProbeKnown, ProbeAsks, Settle, StoreAdopted, RecordAdoption, AdoptionFails, Hydrate,
        HydrateFails, Launch, LaunchFails, Stamp, Abort, Goto
  <2> QED BY <2>1, <2>2
<1>6. ASSUME NEW u \in Task,
             \/ Mark(u) \/ TakeoverMark(u) \/ ExitPulls(u) \/ ExitReleases(u)
             \/ Stop(u) \/ Evacuate(u) \/ Wipe(u) \/ Pull(u) \/ Drop(u) \/ Kill(u)
             \/ ForceRead(u) \/ ForceDelete(u) \/ refresh_session(u) \/ Heartbeat(u)
             \/ Crash(u)
      PROVE  pc'[t] = pc[t]
  BY <1>6, <1>k, <1>s
  DEF Mark, TakeoverMark, ExitPulls, ExitReleases, Drain, Stop, Evacuate, Wipe, Pull,
      Drop, Kill, ForceRead, ForceDelete, refresh_session, Heartbeat, Crash, Goto
<1>7. ASSUME NEW u \in Task, HoldMarker(u) \/ HoldClaim(u) \/ HoldCeiling(u)
      PROVE  pc'[t] = pc[t]
  BY <1>7 DEF HoldMarker, HoldClaim, HoldCeiling
<1>8. ASSUME NEW c \in Container, KillLands(c) \/ GoStale(c) \/ Expire(c) \/ Play(c)
      PROVE  pc'[t] = pc[t]
  BY <1>8 DEF KillLands, GoStale, Expire, Play
<1>9. Quiet => pc'[t] = pc[t]
  BY DEF Quiet, vars
<1> HIDE DEF Started
<1>10. ASSUME NEW u \in Task, Work(u) PROVE Started
  BY <1>1, <1>3, <1>4, <1>5, <1>6, <1>10 DEF Work, Started
<1> QED BY <1>1, <1>3, <1>6, <1>7, <1>8, <1>9, <1>10 DEF Next, Started

(* A claim that is over stays over.                                        *)
LEMMA OverStays ==
    ASSUME ControlInv, Next, NEW t \in Task, Over(t)
    PROVE  Over(t)'
BY NextFollows DEF Over, Follows, ControlInv

(* A claim comes to say that it is launched by its stamp, and goes stale   *)
(* by the clock, after its start in either case.                           *)
LEMMA FlagSteps ==
    ASSUME ControlInv, Timely, StartReserved, Next, NEW c \in Container,
           key[c].kind = "claim", same_claim(key'[c], key[c]),
           key'[c].launched \/ key'[c].stale
    PROVE  key[c].launched \/ key[c].stale \/ ~Starting(key[c].by)'
<1>k. key \in [Container -> KeyValue] /\ key[c] \in Claim /\ key[c].by \in Task
  BY KeyKinds DEF ControlInv, TypeOK, Claim
<1>c. key'[c].kind = "claim" /\ pc \in [Task -> Phases]
  BY DEF same_claim, ControlInv, TypeOK
<1>1. CASE key'[c] = key[c]
  BY <1>1
<1>2. ASSUME NEW t \in Task, key'[c] # key[c],
             Walk(t) \/ Retry(t) \/ DesktopClaim(t) \/ Abort(t)
      PROVE  FALSE
  <2>1. at[t] \in Container /\ Pool[idx[t]] \in Container
    BY PoolMembers DEF ControlInv, TypeOK, WalkTypeOK
  <2> QED
    BY <1>2, <1>k, <1>c, <2>1
    DEF Walk, Retry, DesktopClaim, Win, Abort, release_own_session, NoKey
<1>3. ASSUME NEW t \in Task, key'[c] # key[c],
             Mark(t) \/ TakeoverMark(t) \/ ExitPulls(t) \/ ExitReleases(t) \/ Drop(t)
      PROVE  FALSE
  <2>1. at[t] \in Container
    BY DEF ControlInv, TypeOK
  <2>2. \/ (\E ttl : MarkerLands(t, ttl)) \/ drop_drain_marker(t) \/ release_own_session(t)
        \/ UNCHANGED key
    BY <1>3 DEF Mark, TakeoverMark, ExitPulls, ExitReleases, Drop, Drain, MarkerContended
  <2>3. CASE drop_drain_marker(t)
    BY <1>3, <1>k, <1>c, <2>1, <2>3 DEF drop_drain_marker, NoKey
  <2> QED
    BY <1>3, <1>c, <2>2, <2>3, MarkerWrites, ReleaseWrites
<1>4. ASSUME NEW t \in Task, key'[c] # key[c],
             Settle(t) \/ refresh_session(t) \/ Heartbeat(t) \/ HoldMarker(t) \/ HoldClaim(t)
      PROVE  key[c].launched \/ key[c].stale
  <2>1. at[t] \in Container
    BY DEF ControlInv, TypeOK
  <2>2. CASE Settle(t)
    <3>1. key'[c] = RecordCard(key[c], t)
      BY <1>4, <1>k, <2>1, <2>2 DEF Settle
    <3> QED BY <1>k, <3>1 DEF RecordCard, Claim
  <2>3. CASE refresh_session(t) \/ HoldMarker(t)
    BY <1>4, <1>k, <1>c, <2>1, <2>3 DEF refresh_session, HoldMarker, drain_marker, own_marker
  <2>4. CASE Heartbeat(t) \/ HoldClaim(t)
    <3>1. key'[c] = [key[c] EXCEPT !.stale = FALSE]
      BY <1>4, <1>k, <2>1, <2>4 DEF Heartbeat, HoldClaim
    <3> QED BY <1>k, <3>1 DEF Claim
  <2> QED BY <1>4, <2>2, <2>3, <2>4
<1>5. ASSUME NEW t \in Task, key'[c] # key[c], Stamp(t)
      PROVE  ~Starting(key[c].by)'
  <2>1. at[t] = c /\ pc'[t] = "done"
    BY <1>5, <1>k, <1>c DEF Stamp, Goto, ControlInv, TypeOK
  <2>2. Starting(t)
    BY <1>5 DEF Stamp, Starting
  <2>3. key'[c].by = t
    BY <2>1, <2>2 DEF StartReserved, same_claim
  <2> QED BY <2>1, <2>3 DEF Starting, Preparing
<1>6. ASSUME NEW d \in Container, key'[c] # key[c], GoStale(d)
      PROVE  ~Starting(key[c].by)'
  <2>1. c = d /\ UNCHANGED pc
    BY <1>6, <1>k DEF GoStale
  <2> QED BY <1>6, <2>1 DEF GoStale, Timely, May, Starting
<1>7. ASSUME NEW d \in Container, key'[c] # key[c], Expire(d)
      PROVE  FALSE
  BY <1>7, <1>k, <1>c DEF Expire, NoKey
<1> QED BY <1>1, <1>2, <1>3, <1>4, <1>5, <1>6, <1>7, KeyWriters, NoForce DEF Timely

(* Nobody ends the claim of a task that is starting.                       *)
LEMMA StartingStays ==
    ASSUME ControlInv, Timely, ReservedInv, Next, NEW t \in Task, Starting(t), Starting(t)',
           pc[t] = "abort" => pc'[t] = "abort"
    PROVE  at'[t] = at[t] /\ key'[at[t]].kind = "claim" /\ key'[at[t]].by = t
<1> DEFINE c == at[t]
<1>1. c \in Container /\ at'[t] = c
  <2>1. pc[t] \notin Searching \cup {"idle"}
    BY DEF Starting, Preparing, Searching
  <2> QED BY <2>1, NextFollows DEF ControlInv, TypeOK, Follows
<1>2. key[c].kind = "claim" /\ key[c].by = t
  BY DEF ReservedInv, StartReserved
<1>3. ~Over(t)
  BY DEF Over, Starting, Preparing
<1>4. CASE key'[c] = key[c]
  BY <1>1, <1>2, <1>4
<1>5. CASE SameHolder(c)
  BY <1>1, <1>2, <1>5 DEF SameHolder, same_claim
<1>6. CASE Ended(c)
  <2>1. PICK u \in Task :
          /\ same_claim(key[c], sess[u])
          /\ \/ Steps(u, "mark") \/ Steps(u, "exit") \/ Steps(u, "drop")
             \/ Steps(u, "abort") \/ Steps(u, "takeover")
    BY <1>6 DEF Ended
  <2>2. InPhase(op[u], pc[u]) /\ sess[u].by = t
    BY <1>2, <2>1 DEF same_claim, ControlInv, Phased
  <2>3. CASE Steps(u, "abort")
    <3>1. op[u] \in {"claim", "desktop"}
      BY <2>2, <2>3 DEF Steps, InPhase, Preparing, Teardown
    <3>2. u = t
      BY <2>2, <3>1 DEF ControlInv, ClaimsOwnSession
    <3> QED BY <2>3, <3>2 DEF Steps
  <2>4. CASE ~Steps(u, "abort")
    <3>1. op[u] \in {"release", "save_and_exit", "takeover"}
      BY <2>1, <2>2, <2>4 DEF Steps, InPhase, Preparing, Teardown
    <3> QED BY <1>3, <2>2, <3>1 DEF ReservedInv, EndedIsOver
  <2> QED BY <2>3, <2>4
<1>7. ~Taken(c) /\ ~Dropped(c)
  BY <1>2 DEF Taken, Dropped, own_marker, NoKey
<1>8. ~Expire(c)
  BY <1>1, <1>2, <1>3 DEF Expire, ReservedInv, LaunchedIsOver
<1> QED
  BY <1>1, <1>4, <1>5, <1>6, <1>7, <1>8, KeySteps, NoForce DEF KeyWritten, Timely

(* A starting claim keeps the container it won.                            *)
LEMMA NextStartReserved ==
    ASSUME ControlInv, Timely, ReservedInv, Next
    PROVE  StartReserved'
<1> SUFFICES ASSUME NEW t \in Task, Starting(t)'
             PROVE  key'[at'[t]].kind = "claim" /\ key'[at'[t]].by = t
  BY DEF StartReserved
<1>1. CASE Starting(t) /\ (pc[t] = "abort" => pc'[t] = "abort")
  BY <1>1, StartingStays
<1>2. CASE \E c \in Container : /\ key'[c] = sess[t] /\ at'[t] = c
                                /\ op[t] \in {"claim", "desktop"}
  BY <1>2 DEF ControlInv, ClaimsOwnSession
<1> QED BY <1>1, <1>2, StartSteps

(* A claim says that it is launched, or is stale, only after its start.    *)
LEMMA NextLaunchedIsOver ==
    ASSUME ControlInv, Phased', Timely, ReservedInv, ClaimPlaced, ClaimPlaced', Next
    PROVE  LaunchedIsOver'
<1> SUFFICES ASSUME NEW c \in Container, key'[c].kind = "claim",
                    key'[c].launched \/ key'[c].stale
             PROVE  Over(key[c].by)'
  BY DEF LaunchedIsOver
<1>k. key[c] \in KeyValue
  BY DEF ControlInv, TypeOK
<1>1. CASE key[c].kind = "claim" /\ same_claim(key'[c], key[c])
  <2>1. PICK t \in Task : t = key[c].by /\ t = key'[c].by
    BY <1>1, <1>k, KeyKinds DEF same_claim, Claim
  <2>2. CASE key[c].launched \/ key[c].stale
    BY <1>1, <2>1, <2>2, OverStays DEF ReservedInv, LaunchedIsOver, Over
  <2>3. CASE ~Starting(key[c].by)'
    <3>1. /\ op'[t] \in {"claim", "desktop"} /\ pc'[t] \notin Searching
          /\ InPhase(op'[t], pc'[t])
      BY <2>1 DEF ClaimPlaced, Phased
    <3> QED
      BY <2>1, <2>3, <3>1 DEF InPhase, Searching, Starting, Preparing, Teardown, Over
  <2> QED BY <1>1, <2>2, <2>3, FlagSteps DEF ReservedInv
<1>2. CASE key'[c] = key[c]
  BY <1>1, <1>2 DEF same_claim
<1>3. CASE Taken(c)
  BY <1>3 DEF Taken, ReservedInv, FreshSessions
<1>4. ~Ended(c) /\ ~Dropped(c)
  BY DEF Ended, Dropped, NoKey
<1>5. ~Expire(c)
  BY DEF Expire, ControlInv, TypeOK, NoKey
<1> QED
  BY <1>1, <1>2, <1>3, <1>4, <1>5, KeySteps, NoForce DEF KeyWritten, SameHolder, Timely

(* Sessions are ended only after their start, and claims are made fresh.   *)
LEMMA NextEndedIsOver ==
    ASSUME ControlInv, Timely, ReservedInv, Next
    PROVE  EndedIsOver' /\ FreshSessions'
<1>k. /\ op \in [Task -> Ops \cup {"none", "takeover"}]
      /\ sess \in [Task -> KeyValue] /\ key \in [Container -> KeyValue]
  BY DEF ControlInv, TypeOK
<1>e. ASSUME NEW u \in Task, op'[u] = op[u], sess'[u] = sess[u],
             op'[u] \in {"release", "save_and_exit", "takeover"}
      PROVE  sess'[u].kind = "claim" /\ Over(sess[u].by)'
  <2>1. sess[u].kind = "claim" /\ Over(sess[u].by)
    BY <1>e DEF ReservedInv, EndedIsOver
  <2>2. sess[u].by \in Task
    BY <1>k, <2>1, KeyKinds DEF Claim
  <2> QED BY <1>e, <2>1, <2>2, OverStays DEF Over
<1>1. CASE UNCHANGED <<op, sess>>
  <2>1. FreshSessions'
    BY <1>1 DEF ReservedInv, FreshSessions
  <2> QED BY <1>1, <1>e, <2>1 DEF EndedIsOver
<1>2. ASSUME NEW t \in Task, StartClaim(t) \/ StartDesktop(t)
      PROVE  EndedIsOver' /\ FreshSessions'
  <2>1. /\ op'[t] \in {"claim", "desktop"} /\ ~sess'[t].launched /\ ~sess'[t].stale
        /\ \A u \in Task \ {t} : op'[u] = op[u] /\ sess'[u] = sess[u]
    BY <1>2, <1>k DEF StartClaim, StartDesktop, Begin, NewClaim
  <2>2. FreshSessions'
    BY <2>1 DEF ReservedInv, FreshSessions
  <2> QED BY <1>e, <2>1, <2>2 DEF EndedIsOver
<1>3. ASSUME NEW t \in Task, Settle(t)
      PROVE  EndedIsOver' /\ FreshSessions'
  <2>1. op[t] = "claim" /\ UNCHANGED op
    BY <1>3 DEF ControlInv, Phased, InPhase, Settle, Preparing, Teardown
  <2>2. sess[t] \in Claim
    BY <1>k, <2>1, KeyKinds DEF ControlInv, ClaimsOwnSession
  <2>3. /\ sess'[t].launched = sess[t].launched /\ sess'[t].stale = sess[t].stale
        /\ \A u \in Task \ {t} : sess'[u] = sess[u]
    BY <1>3, <1>k, <2>2 DEF Settle, Claim
  <2>4. FreshSessions'
    BY <2>1, <2>3 DEF ReservedInv, FreshSessions
  <2> QED BY <1>e, <2>1, <2>3, <2>4 DEF EndedIsOver
<1>4. ASSUME NEW t \in Task PROVE ~ForceRead(t)
  <2>1. op[t] # "force" /\ InPhase(op[t], pc[t])
    BY <1>k, OpsAssumption DEF ControlInv, Phased, Timely
  <2> QED BY <2>1 DEF InPhase, ForceRead, Preparing, Teardown
<1>5. ASSUME NEW u \in Task, NEW c \in Container, sess'[u] = key[c], key[c].kind = "claim",
             key[c].launched \/ key[c].stale
      PROVE  sess'[u].kind = "claim" /\ Over(sess[u].by)'
  <2>1. Over(key[c].by) /\ key[c].by \in Task
    BY <1>5, <1>k, KeyKinds DEF ReservedInv, LaunchedIsOver, Claim
  <2> QED BY <1>5, <2>1, OverStays DEF Over
<1>6. ASSUME NEW t \in Task, NEW u \in Task, SweepSpawns(t, u)
      PROVE  EndedIsOver' /\ FreshSessions'
  <2>1. Pool[idx[t]] \in Container
    BY PoolMembers DEF ControlInv, TypeOK, WalkTypeOK
  <2>2. /\ op'[u] = "takeover" /\ sess'[u] = key[Pool[idx[t]]]
        /\ key[Pool[idx[t]]].kind = "claim" /\ key[Pool[idx[t]]].stale
        /\ \A v \in Task \ {u} : op'[v] = op[v] /\ sess'[v] = sess[v]
    BY <1>6, <1>k DEF SweepSpawns
  <2>3. FreshSessions'
    BY <2>2 DEF ReservedInv, FreshSessions
  <2> QED BY <1>e, <1>5, <2>1, <2>2, <2>3 DEF EndedIsOver
<1>7. ASSUME NEW t \in Task, NEW c \in Container,
             \/ StartRelease(t, c) \/ StartSaveAndExit(t, c) \/ StartForce(t, c)
             \/ StartControl(t, c) \/ StartHeartbeat(t, c)
      PROVE  EndedIsOver' /\ FreshSessions'
  <2>1. /\ op'[t] \in {"release", "save_and_exit", "control", "heartbeat"}
        /\ \A u \in Task \ {t} : op'[u] = op[u] /\ sess'[u] = sess[u]
        /\ sess'[t] = key[c] /\ key[c].kind = "claim"
        /\ op'[t] \in {"release", "save_and_exit"} => key[c].launched
    BY <1>7, <1>k
    DEF StartRelease, StartSaveAndExit, StartForce, StartControl, StartHeartbeat, Begin,
        Resolve, Timely, May
  <2>2. FreshSessions'
    BY <2>1 DEF ReservedInv, FreshSessions
  <2> QED BY <1>e, <1>5, <2>1, <2>2 DEF EndedIsOver
<1> QED
  BY <1>1, <1>2, <1>3, <1>4, <1>6, <1>7, SessionSteps DEF ControlInv

(* Claims are where they were made and hold what they start on.            *)
LEMMA SessionsReserved ==
    ASSUME Timely
    PROVE  Spec => [](ClaimPlaced /\ ReservedInv)
<1> DEFINE Inv == ControlInv /\ ClaimPlaced /\ ReservedInv
<1>1. Init => ClaimPlaced /\ ReservedInv
  BY DEF Init, ClaimPlaced, NoKey, ReservedInv, StartReserved, LaunchedIsOver, EndedIsOver,
         FreshSessions, Starting, Preparing
<1>2. Inv /\ ControlInv' /\ [Next]_vars => ClaimPlaced' /\ ReservedInv'
  <2> SUFFICES ASSUME Inv, ControlInv', [Next]_vars PROVE ClaimPlaced' /\ ReservedInv'
    OBVIOUS
  <2>1. ClaimPlaced'
    BY NextClaimPlaced
  <2>2. CASE Next
    BY <2>1, <2>2, NextStartReserved, NextLaunchedIsOver, NextEndedIsOver
    DEF ReservedInv, ControlInv
  <2>3. CASE UNCHANGED vars
    <3>1. UNCHANGED key /\ UNCHANGED pc /\ UNCHANGED op /\ UNCHANGED at /\ UNCHANGED sess
      BY <2>3 DEF vars, locals
    <3>2. \A t \in Task : (Starting(t)' <=> Starting(t)) /\ (Over(t)' <=> Over(t))
      BY <3>1 DEF Starting, Over
    <3>3. StartReserved'
      BY <3>1, <3>2 DEF ReservedInv, StartReserved
    <3>4. LaunchedIsOver'
      BY <3>1 DEF ReservedInv, LaunchedIsOver, Over
    <3>5. EndedIsOver'
      BY <3>1 DEF ReservedInv, EndedIsOver, Over
    <3>6. FreshSessions'
      BY <3>1 DEF ReservedInv, FreshSessions
    <3> QED BY <2>1, <3>3, <3>4, <3>5, <3>6 DEF ReservedInv
  <2> QED BY <2>1, <2>2, <2>3
<1> QED BY <1>1, <1>2, SessionsControl, PTL DEF Spec

-----------------------------------------------------------------------------
(* Cards are taken out under the reservation.                              *)

(* No compare-and-set runs out of attempts, no work outlasts its keepalive,*)
(* and sessions end by a release or a takeover.                            *)
Undisturbed ==
    /\ {"contention", "overrun"} \cap Mishaps = {}
    /\ {"save_and_exit", "force"} \cap Ops = {}

(* A teardown has its marker, and its keepalive runs.                      *)
MarkerIsKept ==
    \A t \in Task : op[t] \in {"none", "release", "takeover"} =>
      ~lapsed[t] /\ (pc[t] \in Teardown => tok[t])

(* Tokens and keepalives change where a marker is written and where a      *)
(* keepalive, or the patience of a sweep, ends.                            *)
LEMMA HoldSteps ==
    ASSUME Next
    PROVE  \/ UNCHANGED hold
           \/ \E t \in Task : \/ Mark(t) \/ TakeoverMark(t) \/ ExitPulls(t)
                              \/ AwaitTimeout(t) \/ HoldMarker(t) \/ HoldClaim(t)
                              \/ HoldCeiling(t)
<1>1. ASSUME NEW t \in Task, Starts(t)
      PROVE  UNCHANGED hold
  BY <1>1
  DEF Starts, StartClaim, StartDesktop, StartRelease, StartSaveAndExit, StartForce,
      StartControl, StartHeartbeat, Resolve, flags
<1>2. ASSUME NEW t \in Task,
             \/ Walk(t) \/ SweepSkips(t) \/ (\E v \in Task : SweepSpawns(t, v))
             \/ AwaitDone(t) \/ Retry(t) \/ DesktopClaim(t)
      PROVE  UNCHANGED hold
  BY <1>2
  DEF Walk, SweepSkips, SweepSpawns, AwaitDone, Retry, DesktopClaim, Win, locals, flags
<1>3. ASSUME NEW t \in Task,
             \/ ProbeKnown(t)
             \/ (\E i \in {"none", "adopt", "discard"}, r \in BOOLEAN : ProbeAsks(t, i, r))
             \/ Settle(t) \/ StoreAdopted(t) \/ RecordAdoption(t) \/ AdoptionFails(t)
             \/ Hydrate(t) \/ HydrateFails(t) \/ Launch(t) \/ LaunchFails(t) \/ Stamp(t) \/ Abort(t)
      PROVE  UNCHANGED hold
  BY <1>3
  DEF ProbeKnown, ProbeAsks, Settle, StoreAdopted, RecordAdoption, AdoptionFails, Hydrate,
      HydrateFails,
      Launch, LaunchFails, Stamp, Abort, locals, flags
<1>4. ASSUME NEW t \in Task,
             \/ ExitReleases(t) \/ Stop(t) \/ Evacuate(t) \/ Wipe(t) \/ Pull(t) \/ Drop(t)
             \/ Kill(t) \/ ForceRead(t) \/ ForceDelete(t) \/ refresh_session(t)
             \/ Heartbeat(t) \/ Crash(t)
      PROVE  UNCHANGED hold
  BY <1>4
  DEF ExitReleases, Stop, Evacuate, Wipe, Pull, Drop, Kill, ForceRead, ForceDelete,
      refresh_session, Heartbeat, Crash, locals, flags
<1>5. ASSUME NEW c \in Container, KillLands(c) \/ GoStale(c) \/ Expire(c) \/ Play(c)
      PROVE  UNCHANGED hold
  BY <1>5 DEF KillLands, GoStale, Expire, Play, locals, flags
<1>6. Quiet => UNCHANGED hold
  BY DEF Quiet, vars, locals, flags
<1> QED BY <1>1, <1>2, <1>3, <1>4, <1>5, <1>6 DEF Next, Work

(* A release and a takeover begin their teardown with the marker.          *)
LEMMA TeardownBegins ==
    ASSUME ControlInv, Undisturbed, Next, NEW u \in Task,
           op'[u] \in {"none", "release", "takeover"},
           pc'[u] \in Teardown, pc[u] \notin Teardown
    PROVE  tok'[u]
<1>k. /\ pc \in [Task -> Phases] /\ tok \in [Task -> BOOLEAN]
      /\ op \in [Task -> Ops \cup {"none", "takeover"}]
      /\ \A t \in Task : InPhase(op[t], pc[t])
  BY DEF ControlInv, Phased, TypeOK, FlagsTypeOK, HoldTypeOK
<1>p. pc'[u] # pc[u] /\ pc' # pc
  OBVIOUS
<1>1. ASSUME NEW t \in Task, Starts(t)
      PROVE  FALSE
  BY <1>1, <1>k, <1>p
  DEF Starts, StartClaim, StartDesktop, StartRelease, StartSaveAndExit, StartForce,
      StartControl, StartHeartbeat, Begin, Goto, Teardown, Undisturbed
<1>2. ASSUME NEW t \in Task,
             \/ Walk(t) \/ SweepSkips(t) \/ (\E v \in Task : SweepSpawns(t, v))
             \/ AwaitDone(t) \/ AwaitTimeout(t) \/ Retry(t) \/ DesktopClaim(t)
      PROVE  FALSE
  BY <1>2, <1>k, <1>p
  DEF Walk, SweepSkips, SweepSpawns, AwaitDone, AwaitTimeout, Retry, DesktopClaim, Win, Won,
      NextCandidate, Goto, Teardown
<1>3. ASSUME NEW t \in Task,
             \/ ProbeKnown(t)
             \/ (\E i \in {"none", "adopt", "discard"}, r \in BOOLEAN : ProbeAsks(t, i, r))
             \/ Settle(t) \/ StoreAdopted(t) \/ RecordAdoption(t) \/ AdoptionFails(t)
             \/ Hydrate(t) \/ HydrateFails(t) \/ Launch(t) \/ LaunchFails(t) \/ Stamp(t) \/ Abort(t)
      PROVE  FALSE
  BY <1>3, <1>k, <1>p
  DEF ProbeKnown, ProbeAsks, Settle, StoreAdopted, RecordAdoption, AdoptionFails, Hydrate,
      HydrateFails,
      Launch, LaunchFails, Stamp, Abort, Goto, Teardown
<1>4. ASSUME NEW t \in Task, Mark(t) \/ TakeoverMark(t)
      PROVE  tok'[u]
  BY <1>4, <1>k, <1>p
  DEF Mark, TakeoverMark, Drain, MarkerContended, May, Undisturbed, Goto, Teardown
<1>5. ASSUME NEW t \in Task,
             \/ Kill(t) \/ ExitPulls(t) \/ ExitReleases(t) \/ ForceRead(t) \/ ForceDelete(t)
      PROVE  FALSE
  <2>1. op[t] \notin {"save_and_exit", "force"} /\ InPhase(op[t], pc[t])
    BY <1>k DEF Undisturbed
  <2> QED
    BY <1>5, <2>1
    DEF Kill, ExitPulls, ExitReleases, ForceRead, ForceDelete, InPhase, Preparing, Teardown
<1>6. ASSUME NEW t \in Task,
             \/ Stop(t) \/ Evacuate(t) \/ Wipe(t) \/ Pull(t) \/ Drop(t)
             \/ refresh_session(t) \/ Heartbeat(t) \/ Crash(t)
      PROVE  FALSE
  BY <1>6, <1>k, <1>p
  DEF Stop, Evacuate, Wipe, Pull, Drop, refresh_session, Heartbeat, Crash, Goto, Teardown
<1>7. ASSUME NEW t \in Task, HoldMarker(t) \/ HoldClaim(t) \/ HoldCeiling(t)
      PROVE  FALSE
  BY <1>7, <1>p DEF HoldMarker, HoldClaim, HoldCeiling
<1>8. ASSUME NEW c \in Container, KillLands(c) \/ GoStale(c) \/ Expire(c) \/ Play(c)
      PROVE  FALSE
  BY <1>8, <1>p DEF KillLands, GoStale, Expire, Play
<1>9. ~Quiet
  BY <1>p DEF Quiet, vars
<1> QED BY <1>1, <1>2, <1>3, <1>4, <1>5, <1>6, <1>7, <1>8, <1>9 DEF Next, Work

(* Every step leaves a release or a takeover its marker and its keepalive. *)
LEMMA NextMarkerIsKept ==
    ASSUME ControlInv, Undisturbed, TeardownHoldsMarker, MarkerIsKept, Next
    PROVE  MarkerIsKept'
<1>k. /\ lapsed \in [Task -> BOOLEAN] /\ tok \in [Task -> BOOLEAN]
      /\ \A t \in Task : InPhase(op[t], pc[t])
  BY DEF ControlInv, Phased, TypeOK, FlagsTypeOK, HoldTypeOK
<1> SUFFICES ASSUME NEW u \in Task, op'[u] \in {"none", "release", "takeover"}
             PROVE  ~lapsed'[u] /\ (pc'[u] \in Teardown => tok'[u])
  BY DEF MarkerIsKept
<1>1. op[u] \in {"none", "release", "takeover"}
  BY <1>k, NextFollows DEF Follows, ControlInv, InPhase, Preparing, Teardown
<1>2. ~lapsed[u] /\ (pc[u] \in Teardown => tok[u])
  BY <1>1 DEF MarkerIsKept
<1>3. ASSUME NEW t \in Task,
             AwaitTimeout(t) \/ HoldMarker(t) \/ HoldClaim(t) \/ HoldCeiling(t)
      PROVE  ~lapsed'[u] /\ UNCHANGED tok
  <2>1. CASE t # u
    BY <1>2, <1>3, <1>k, <2>1 DEF AwaitTimeout, HoldMarker, HoldClaim, HoldCeiling
  <2>2. CASE t = u
    <3>1. ~AwaitTimeout(u) /\ ~HoldCeiling(u)
      BY <1>1, <1>k DEF AwaitTimeout, HoldCeiling, Undisturbed, May, InPhase, Preparing, Teardown
    <3>2. ~UnderClaim(u)
      BY <1>1, <1>2 DEF UnderClaim
    <3>3. HoldMarker(u)
      BY <1>3, <2>2, <3>1, <3>2 DEF HoldClaim
    <3>4. own_marker(key[at[u]], u)
      BY <3>3 DEF HoldMarker, TeardownHoldsMarker
    <3> QED BY <1>2, <3>3, <3>4 DEF HoldMarker
  <2> QED BY <2>1, <2>2
<1>4. ASSUME NEW t \in Task, Mark(t) \/ TakeoverMark(t) \/ ExitPulls(t)
      PROVE  UNCHANGED lapsed /\ (tok[u] => tok'[u])
  BY <1>4, <1>k DEF Mark, TakeoverMark, ExitPulls, Drain
<1>5. ~lapsed'[u] /\ (tok[u] => tok'[u])
  BY <1>2, <1>3, <1>4, HoldSteps DEF hold
<1> QED BY <1>2, <1>5, TeardownBegins

(* Teardowns have their marker and their keepalive in every behaviour.     *)
LEMMA SessionsMarkerIsKept ==
    ASSUME Undisturbed
    PROVE  Spec => [](TeardownHoldsMarker /\ MarkerIsKept)
<1>1. Init => MarkerIsKept
  BY DEF Init, MarkerIsKept, Teardown
<1>2. ControlInv /\ TeardownHoldsMarker /\ MarkerIsKept /\ [Next]_vars => MarkerIsKept'
  <2>1. MarkerIsKept /\ UNCHANGED vars => MarkerIsKept'
    BY DEF MarkerIsKept, vars, locals, flags, hold
  <2> QED BY <2>1, NextMarkerIsKept
<1>3. Spec => []TeardownHoldsMarker
  BY SessionsTeardownHoldsMarker DEF Undisturbed
<1> QED BY <1>1, <1>2, <1>3, SessionsControl, PTL DEF Spec

(* evacuate_session_card, wipe_session_card: a teardown takes a card out   *)
(* of a container only while the container is reserved for it, whatever    *)
(* brokers fail, tasks die and sessions start slowly, end early, go stale  *)
(* or are forgotten.                                                       *)
THEOREM SessionsEvacuatesUnderReservation ==
    ASSUME Undisturbed
    PROVE  Spec => EvacuatesUnderReservation
<1>1. ControlInv /\ TeardownHoldsMarker /\ MarkerIsKept /\ [Next]_vars =>
        [\A t \in Task :
           ((Steps(t, "evacuate") \/ Steps(t, "wipe")) /\ slot' # slot) =>
             own_marker(key[at[t]], t) \/ same_claim(key[at[t]], sess[t])]_vars
  <2> SUFFICES ASSUME ControlInv, TeardownHoldsMarker, MarkerIsKept, NEW t \in Task,
                      Steps(t, "evacuate") \/ Steps(t, "wipe")
               PROVE  own_marker(key[at[t]], t)
    OBVIOUS
  <2>1. InPhase(op[t], pc[t]) /\ op[t] \notin {"save_and_exit", "force"}
    BY DEF ControlInv, Phased, TypeOK, Undisturbed
  <2>2. op[t] \in {"release", "takeover"} /\ pc[t] \in Teardown
    BY <2>1 DEF Steps, InPhase, Preparing, Teardown
  <2> QED BY <2>2 DEF MarkerIsKept, TeardownHoldsMarker, UnderMarker
<1> QED BY <1>1, SessionsMarkerIsKept, SessionsControl, PTL DEF Spec, EvacuatesUnderReservation

-----------------------------------------------------------------------------
(* What is filed for a session is its own.                                 *)

(* Only broker calls fail and only abandoned sessions run out; sessions    *)
(* end by a release or a takeover.                                         *)
Steady ==
    /\ Mishaps \subseteq {"failure", "forgotten"}
    /\ {"save_and_exit", "force"} \cap Ops = {}

(* The session of a game names its player's card, and that of a desktop    *)
(* no card.                                                                *)
Settled(s) ==
    /\ op[s.by] \in {"claim", "desktop"}
    /\ op[s.by] = "desktop" => s.card = Nobody
    /\ CardSync /\ op[s.by] = "claim" => s.card = s.by

(* The card of t, or of nobody yet, is in the slot of t's game.            *)
Mounted(c, t) == CardSync /\ op[t] = "claim" => slot[c].of = t

(* A claim has its own card, in its record once it settled, in the slot    *)
(* once it hydrated, and its game runs once it launched.                   *)
StartsOwn(t) ==
    Starting(t) =>
      /\ key[at[t]].card = sess[t].card
      /\ pc[t] \in {"store", "record", "hydrate", "launch", "stamp"} => Settled(sess[t])
      /\ pc[t] \in {"launch", "stamp"} => Mounted(at[t], t)
      /\ pc[t] = "stamp" => emu[at[t]] = t

(* A container under a claim that is through with its start runs that      *)
(* claim's game on that claim's card.                                      *)
HostsOwn(c) ==
    (key[c].kind = "claim" /\ ~Starting(key[c].by)) =>
      Settled(key[c]) /\ Mounted(c, key[c].by) /\ emu[c] = key[c].by

(* A teardown stops the game of its session, takes that session's card out *)
(* and files that game's exit state.                                       *)
EndsOwn(t) ==
    op[t] \in {"release", "takeover"} =>
      /\ Settled(sess[t])
      /\ pc[t] \in {"mark", "takeover", "stop"} => ~saved[t]
      /\ pc[t] = "stop" => emu[at[t]] = sess[t].by
      /\ pc[t] \in {"stop", "evacuate"} => Mounted(at[t], sess[t].by)
      /\ pc[t] \in {"evacuate", "wipe", "pull"} /\ saved[t] => exitState[at[t]] = sess[t].by

(* A claim is made for its own card or for none, and nobody kills a game   *)
(* in the background.                                                      *)
Makes(t) ==
    /\ waits[t]
    /\ op[t] = "none" => ~saved[t]
    /\ op[t] = "claim" => sess[t].card \in {t, Nobody}
    /\ op[t] = "desktop" => sess[t].card = Nobody

OwnInv ==
    /\ dying = {}
    /\ \A t \in Task : Makes(t) /\ StartsOwn(t) /\ EndsOwn(t)
    /\ \A c \in Container : HostsOwn(c)
    /\ FiledIsOwn

(* Steady covers what the launches and the markers need.                   *)
LEMMA SteadyCovers ==
    ASSUME Steady
    PROVE  /\ Timely /\ Undisturbed
           /\ \A m \in {"contention", "crash", "early_exit", "slow_start", "overrun"} : ~May(m)
BY DEF Steady, Timely, Undisturbed, May

(* What the guarded keys give: claims and teardowns hold their container.  *)
GuardInv == ControlInv /\ ClaimPlaced /\ ReservedInv /\ TeardownHoldsMarker /\ MarkerIsKept

(* Steps that no operation here takes.                                     *)
LEMMA NoForcedSteps ==
    ASSUME ControlInv, Steady, NEW t \in Task
    PROVE  /\ op[t] \notin {"save_and_exit", "force"} /\ InPhase(op[t], pc[t])
           /\ ~Kill(t) /\ ~ExitPulls(t) /\ ~ExitReleases(t) /\ ~ForceRead(t) /\ ~ForceDelete(t)
           /\ ~Crash(t)
<1>1. op[t] \notin {"save_and_exit", "force"} /\ InPhase(op[t], pc[t])
  BY DEF ControlInv, TypeOK, Phased, Steady
<1>2. ~Kill(t) /\ ~ExitPulls(t) /\ ~ExitReleases(t) /\ ~ForceRead(t) /\ ~ForceDelete(t)
  BY <1>1
  DEF Kill, ExitPulls, ExitReleases, ForceRead, ForceDelete, InPhase, Preparing, Teardown
<1> QED BY <1>1, <1>2, SteadyCovers DEF Crash

(* A task that moves has begun, works, waited too long, died or was        *)
(* spawned.                                                                *)
LEMMA PcSteps ==
    ASSUME TypeOK, Next, NEW t \in Task, pc'[t] # pc[t]
    PROVE  \/ Starts(t) \/ Work(t) \/ AwaitTimeout(t) \/ Crash(t)
           \/ \E u \in Task : SweepSpawns(u, t)
<1>k. pc \in [Task -> Phases] /\ pc' # pc
  BY DEF TypeOK
<1>1. ASSUME NEW u \in Task, Starts(u) \/ AwaitTimeout(u) \/ Crash(u)
      PROVE  u = t
  BY <1>1, <1>k
  DEF Starts, StartClaim, StartDesktop, StartRelease, StartSaveAndExit, StartForce,
      StartControl, StartHeartbeat, Begin, AwaitTimeout, NextCandidate, Crash, Goto
<1>2. ASSUME NEW u \in Task,
             \/ Walk(u) \/ SweepSkips(u) \/ AwaitDone(u) \/ Retry(u) \/ DesktopClaim(u)
      PROVE  u = t
  BY <1>2, <1>k
  DEF Walk, SweepSkips, AwaitDone, Retry, DesktopClaim, Win, NextCandidate, Goto
<1>3. ASSUME NEW u \in Task,
             \/ ProbeKnown(u)
             \/ (\E i \in {"none", "adopt", "discard"}, r \in BOOLEAN : ProbeAsks(u, i, r))
             \/ Settle(u) \/ StoreAdopted(u) \/ RecordAdoption(u) \/ AdoptionFails(u)
             \/ Hydrate(u) \/ HydrateFails(u) \/ Launch(u) \/ LaunchFails(u) \/ Stamp(u) \/ Abort(u)
      PROVE  u = t
  BY <1>3, <1>k
  DEF ProbeKnown, ProbeAsks, Settle, StoreAdopted, RecordAdoption, AdoptionFails, Hydrate,
      HydrateFails,
      Launch, LaunchFails, Stamp, Abort, Goto
<1>4. ASSUME NEW u \in Task,
             \/ Mark(u) \/ TakeoverMark(u) \/ ExitPulls(u) \/ ExitReleases(u)
             \/ Stop(u) \/ Evacuate(u) \/ Wipe(u) \/ Pull(u) \/ Drop(u) \/ Kill(u)
             \/ ForceRead(u) \/ ForceDelete(u) \/ refresh_session(u) \/ Heartbeat(u)
      PROVE  u = t
  BY <1>4, <1>k
  DEF Mark, TakeoverMark, ExitPulls, ExitReleases, Drain, Stop, Evacuate, Wipe, Pull, Drop,
      Kill, ForceRead, ForceDelete, refresh_session, Heartbeat, Goto
<1>5. ASSUME NEW u \in Task, HoldMarker(u) \/ HoldClaim(u) \/ HoldCeiling(u)
      PROVE  FALSE
  BY <1>5, <1>k DEF HoldMarker, HoldClaim, HoldCeiling
<1>6. ASSUME NEW c \in Container, KillLands(c) \/ GoStale(c) \/ Expire(c) \/ Play(c)
      PROVE  FALSE
  BY <1>6, <1>k DEF KillLands, GoStale, Expire, Play
<1>7. ~Quiet
  BY <1>k DEF Quiet, vars
<1>8. ASSUME NEW u \in Task, NEW v \in Task, SweepSpawns(u, v)
      PROVE  t = u \/ t = v
  BY <1>8, <1>k DEF SweepSpawns
<1>9. ASSUME NEW u \in Task, Work(u) PROVE t = u \/ SweepSpawns(u, t)
  BY <1>2, <1>3, <1>4, <1>8, <1>9 DEF Work
<1> QED BY <1>1, <1>5, <1>6, <1>7, <1>9 DEF Next

(* The steps that touch a game, a card or an exit state.                   *)
LEMMA EffectSteps ==
    ASSUME Next
    PROVE  \/ UNCHANGED <<emu, slot, exitState, dying, saved, waits>>
           \/ \E t \in Task : \/ StoreAdopted(t) \/ RecordAdoption(t) \/ Hydrate(t)
                              \/ Launch(t) \/ Stop(t) \/ Evacuate(t) \/ Wipe(t) \/ Kill(t)
           \/ \E c \in Container : Play(c) \/ KillLands(c)
<1> DEFINE Same == UNCHANGED <<emu, slot, exitState, dying, saved, waits>>
<1>1. ASSUME NEW t \in Task,
             Starts(t) \/ AwaitTimeout(t) \/ HoldMarker(t) \/ HoldClaim(t)
             \/ HoldCeiling(t) \/ Crash(t)
      PROVE  Same
  BY <1>1
  DEF Starts, StartClaim, StartDesktop, StartRelease, StartSaveAndExit, StartForce,
      StartControl, StartHeartbeat, Resolve, AwaitTimeout, HoldMarker, HoldClaim,
      HoldCeiling, Crash, broker, locals, flags
<1>2. ASSUME NEW t \in Task,
             \/ Walk(t) \/ SweepSkips(t) \/ (\E u \in Task : SweepSpawns(t, u))
             \/ AwaitDone(t) \/ Retry(t) \/ DesktopClaim(t)
      PROVE  Same
  BY <1>2
  DEF Walk, SweepSkips, SweepSpawns, AwaitDone, Retry, DesktopClaim, Win, broker, locals, flags
<1>3. ASSUME NEW t \in Task,
             \/ ProbeKnown(t)
             \/ (\E i \in {"none", "adopt", "discard"}, r \in BOOLEAN : ProbeAsks(t, i, r))
             \/ Settle(t) \/ AdoptionFails(t) \/ HydrateFails(t) \/ LaunchFails(t)
             \/ Stamp(t) \/ Abort(t)
      PROVE  Same
  BY <1>3
  DEF ProbeKnown, ProbeAsks, Settle, AdoptionFails, HydrateFails, LaunchFails, Stamp, Abort,
      broker, locals, flags
<1>4. ASSUME NEW t \in Task,
             \/ Mark(t) \/ TakeoverMark(t) \/ ExitPulls(t) \/ ExitReleases(t) \/ Pull(t)
             \/ Drop(t) \/ ForceRead(t) \/ ForceDelete(t) \/ refresh_session(t) \/ Heartbeat(t)
      PROVE  Same
  BY <1>4
  DEF Mark, TakeoverMark, ExitPulls, ExitReleases, Pull, Drop, ForceRead, ForceDelete,
      refresh_session, Heartbeat, broker, locals, flags
<1>5. ASSUME NEW c \in Container, GoStale(c) \/ Expire(c)
      PROVE  Same
  BY <1>5 DEF GoStale, Expire, broker, locals, flags
<1>6. Quiet => Same
  BY DEF Quiet, vars, broker, locals, flags
<1> HIDE DEF Same
<1> QED BY <1>1, <1>2, <1>3, <1>4, <1>5, <1>6 DEF Next, Work, Same

(* The card in a claim's record changes only where a claim settles.        *)
LEMMA RecordedCard ==
    ASSUME ControlInv, Next, NEW c \in Container, key[c].kind = "claim",
           same_claim(key'[c], key[c]), key'[c].card # key[c].card
    PROVE  \E t \in Task : Settle(t) /\ at[t] = c
<1>k. /\ key \in [Container -> KeyValue] /\ key[c] \in Claim
      /\ key'[c].kind = "claim" /\ at \in [Task -> Container]
  BY KeyKinds DEF ControlInv, TypeOK, same_claim
<1>1. ASSUME NEW t \in Task, Walk(t) \/ Retry(t) \/ DesktopClaim(t) \/ Abort(t)
      PROVE  FALSE
  <2>1. Pool[idx[t]] \in Container
    BY PoolMembers DEF ControlInv, TypeOK, WalkTypeOK
  <2> QED
    BY <1>1, <1>k, <2>1
    DEF Walk, Retry, DesktopClaim, Win, Abort, release_own_session, NoKey
<1>2. ASSUME NEW t \in Task,
             \/ Mark(t) \/ TakeoverMark(t) \/ ExitPulls(t) \/ ExitReleases(t) \/ Drop(t)
             \/ ForceDelete(t)
      PROVE  FALSE
  <2>1. \/ (\E ttl : MarkerLands(t, ttl)) \/ drop_drain_marker(t) \/ release_own_session(t)
        \/ UNCHANGED key \/ key' = [key EXCEPT ![at[t]] = NoKey]
    BY <1>2
    DEF Mark, TakeoverMark, ExitPulls, ExitReleases, Drop, Drain, MarkerContended, ForceDelete
  <2>2. CASE drop_drain_marker(t) \/ key' = [key EXCEPT ![at[t]] = NoKey]
    BY <1>k, <2>2 DEF drop_drain_marker, NoKey
  <2> QED BY <1>k, <2>1, <2>2, MarkerWrites, ReleaseWrites
<1>3. ASSUME NEW t \in Task,
             \/ Stamp(t) \/ refresh_session(t) \/ Heartbeat(t) \/ HoldMarker(t) \/ HoldClaim(t)
      PROVE  FALSE
  <2>1. CASE Stamp(t)
    BY <1>k, <2>1 DEF Stamp, Claim
  <2>2. CASE refresh_session(t) \/ HoldMarker(t)
    BY <1>k, <2>2 DEF refresh_session, HoldMarker, own_marker, drain_marker
  <2>3. CASE Heartbeat(t) \/ HoldClaim(t)
    BY <1>k, <2>3 DEF Heartbeat, HoldClaim, Claim
  <2> QED BY <1>3, <2>1, <2>2, <2>3
<1>4. ASSUME NEW d \in Container, GoStale(d) \/ Expire(d)
      PROVE  FALSE
  BY <1>4, <1>k DEF GoStale, Expire, NoKey, Claim
<1>5. ASSUME NEW t \in Task, Settle(t)
      PROVE  at[t] = c
  BY <1>5, <1>k DEF Settle
<1> QED BY <1>1, <1>2, <1>3, <1>4, <1>5, KeyWriters

(* What other tasks see of a container: nobody but the holder of its key   *)
(* starts or stops a game there or changes whose card is in the slot.      *)
Untouched(c) ==
    /\ emu'[c] = emu[c] /\ exitState'[c] = exitState[c]
    /\ slot'[c].of = slot[c].of \/ slot[c].of = Nobody

LEMMA Touches ==
    ASSUME GuardInv, Steady, dying = {}, Next, NEW c \in Container
    PROVE  \/ Untouched(c)
           \/ \E t \in Task : /\ at[t] = c /\ key[c].kind = "claim" /\ key[c].by = t
                              /\ Hydrate(t) \/ Launch(t)
           \/ \E t \in Task : at[t] = c /\ own_marker(key[c], t) /\ (Stop(t) \/ Wipe(t))
<1>k. /\ emu \in [Container -> Task \cup {Nobody}] /\ slot \in [Container -> Card]
      /\ exitState \in [Container -> Task \cup {Nobody}] /\ at \in [Task -> Container]
  BY DEF GuardInv, ControlInv, TypeOK, BrokerTypeOK
<1>1. CASE UNCHANGED <<emu, slot, exitState>>
  BY <1>1 DEF Untouched
<1>2. ASSUME NEW t \in Task, StoreAdopted(t) \/ RecordAdoption(t) \/ Evacuate(t)
      PROVE  Untouched(c)
  <2>1. PICK b : UNCHANGED slot \/ slot' = [slot EXCEPT ![at[t]].unsaved = b]
    <3>1. CASE StoreAdopted(t) \/ RecordAdoption(t)
      BY <3>1, Zenon DEF StoreAdopted, RecordAdoption
    <3>2. CASE Evacuate(t)
      BY <3>2, Zenon DEF Evacuate
    <3> QED BY <1>2, <3>1, <3>2
  <2>2. UNCHANGED <<emu, exitState>>
    BY <1>2 DEF StoreAdopted, RecordAdoption, Evacuate
  <2> QED BY <1>k, <2>1, <2>2 DEF Untouched, Card
<1>3. ASSUME NEW t \in Task, Hydrate(t) \/ Launch(t)
      PROVE  \/ Untouched(c)
             \/ at[t] = c /\ key[c].kind = "claim" /\ key[c].by = t
  <2>1. CASE at[t] = c
    <3>1. Starting(t)
      BY <1>3 DEF Hydrate, Launch, Starting, Preparing
    <3> QED BY <2>1, <3>1 DEF GuardInv, ReservedInv, StartReserved
  <2>2. CASE at[t] # c
    BY <1>3, <1>k, <2>2 DEF Hydrate, Launch, Untouched
  <2> QED BY <2>1, <2>2
<1>4. ASSUME NEW t \in Task, Stop(t) \/ Wipe(t)
      PROVE  Untouched(c) \/ (at[t] = c /\ own_marker(key[c], t))
  <2>1. CASE at[t] = c
    <3>1. pc[t] \in {"stop", "wipe"}
      BY <1>4 DEF Stop, Wipe
    <3>2. op[t] \in {"release", "takeover"} /\ pc[t] \in Teardown
      BY <3>1, NoForcedSteps DEF GuardInv, InPhase, Preparing, Teardown
    <3>3. UnderMarker(t) /\ ~lapsed[t]
      BY <3>2 DEF GuardInv, MarkerIsKept, UnderMarker
    <3> QED BY <2>1, <3>3 DEF GuardInv, TeardownHoldsMarker
  <2>2. CASE at[t] # c
    BY <1>4, <1>k, <2>2 DEF Stop, Stopped, Wipe, Untouched
  <2> QED BY <2>1, <2>2
<1>5. ASSUME NEW d \in Container, Play(d)
      PROVE  Untouched(c)
  BY <1>5, <1>k DEF Play, Untouched
<1>6. ASSUME NEW d \in Container PROVE ~KillLands(d)
  BY DEF KillLands
<1>7. ASSUME NEW t \in Task PROVE ~Kill(t)
  BY NoForcedSteps DEF GuardInv
<1> QED BY <1>1, <1>2, <1>3, <1>4, <1>5, <1>6, <1>7, EffectSteps

(* A card that is a task's stays in an untouched slot.                     *)
LEMMA UntouchedMount ==
    ASSUME NEW c \in Container, NEW t \in Task, Untouched(c), Mounted(c, t), op'[t] = op[t]
    PROVE  Mounted(c, t)'
BY TaskAssumption DEF Untouched, Mounted

(* Operations of tasks that have begun, and sessions of tasks that neither *)
(* begin nor settle, stay as they are.                                     *)
LEMMA SessionStays ==
    ASSUME ControlInv, Steady, Next, NEW t \in Task, pc[t] # "idle"
    PROVE  /\ op'[t] = op[t]
           /\ sess'[t] = sess[t] \/ Settle(t)
<1>k. sess \in [Task -> KeyValue] /\ op \in [Task -> Ops \cup {"none", "takeover"}]
  BY DEF ControlInv, TypeOK
<1>1. op'[t] = op[t]
  BY NextFollows DEF Follows, ControlInv
<1>2. ASSUME NEW u \in Task, \/ StartClaim(u) \/ StartDesktop(u) \/ Settle(u)
      PROVE  sess'[t] = sess[t] \/ Settle(t)
  BY <1>2, <1>k DEF StartClaim, StartDesktop, Begin, Settle
<1>3. ASSUME NEW u \in Task, NEW v \in Task, SweepSpawns(u, v)
      PROVE  sess'[t] = sess[t]
  BY <1>3, <1>k DEF SweepSpawns
<1>4. ASSUME NEW u \in Task, NEW c \in Container,
             \/ StartRelease(u, c) \/ StartSaveAndExit(u, c) \/ StartForce(u, c)
             \/ StartControl(u, c) \/ StartHeartbeat(u, c)
      PROVE  sess'[t] = sess[t]
  BY <1>4, <1>k
  DEF StartRelease, StartSaveAndExit, StartForce, StartControl, StartHeartbeat, Begin, Resolve
<1> QED
  BY <1>1, <1>2, <1>3, <1>4, SessionSteps, NoForcedSteps DEF ControlInv

(* The sessions claims are made of, and what nobody does here.             *)
LEMMA NextMakes ==
    ASSUME GuardInv, Steady, OwnInv, Next
    PROVE  dying' = {} /\ \A t \in Task : Makes(t)'
<1>k. /\ sess \in [Task -> KeyValue] /\ op \in [Task -> Ops \cup {"none", "takeover"}]
      /\ saved \in [Task -> BOOLEAN] /\ waits \in [Task -> BOOLEAN] /\ ControlInv
  BY DEF GuardInv, ControlInv, TypeOK, FlagsTypeOK
<1>1. dying' = {} /\ UNCHANGED waits
  <2>1. ASSUME NEW t \in Task,
               \/ StoreAdopted(t) \/ RecordAdoption(t) \/ Hydrate(t) \/ Launch(t)
               \/ Stop(t) \/ Evacuate(t) \/ Wipe(t)
        PROVE  UNCHANGED <<dying, waits>>
    BY <2>1
    DEF StoreAdopted, RecordAdoption, Hydrate, Launch, Stop, Evacuate, Wipe, locals, flags
  <2>2. ASSUME NEW c \in Container, Play(c) \/ KillLands(c)
        PROVE  UNCHANGED <<dying, waits>>
    BY <2>2 DEF Play, KillLands, OwnInv, locals, flags
  <2> QED BY <1>k, <2>1, <2>2, EffectSteps, NoForcedSteps DEF OwnInv
<1> SUFFICES ASSUME NEW t \in Task PROVE Makes(t)'
  BY <1>1
<1>2. Makes(t)
  BY DEF OwnInv
<1>3. op'[t] = "none" => ~saved'[t]
  <2> SUFFICES ASSUME op'[t] = "none" PROVE ~saved'[t]
    OBVIOUS
  <2>1. op[t] = "none" /\ pc[t] = "idle" /\ ~saved[t]
    <3>1. op[t] # "none" => pc[t] # "idle"
      BY NoForcedSteps, <1>k DEF InPhase, Preparing, Teardown
    <3> QED BY <1>2, <1>k, <3>1, NextFollows, NoForcedSteps
            DEF Follows, ControlInv, Makes, InPhase
  <2>2. ASSUME NEW u \in Task, saved'[t] # saved[t], Stop(u) PROVE FALSE
    BY <1>k, <2>1, <2>2 DEF Stop, Stopped
  <2>3. ASSUME NEW u \in Task,
               \/ StoreAdopted(u) \/ RecordAdoption(u) \/ Hydrate(u) \/ Launch(u)
               \/ Evacuate(u) \/ Wipe(u)
        PROVE  UNCHANGED saved
    BY <2>3
    DEF StoreAdopted, RecordAdoption, Hydrate, Launch, Evacuate, Wipe, locals, flags
  <2>4. ASSUME NEW c \in Container, Play(c) \/ KillLands(c)
        PROVE  UNCHANGED saved
    BY <2>4 DEF Play, KillLands, locals, flags
  <2> QED BY <1>k, <2>1, <2>2, <2>3, <2>4, EffectSteps, NoForcedSteps
<1>4. /\ op'[t] = "claim" => sess'[t].card \in {t, Nobody}
      /\ op'[t] = "desktop" => sess'[t].card = Nobody
  <2>1. CASE op'[t] = op[t] /\ sess'[t] = sess[t]
    BY <1>2, <2>1 DEF Makes
  <2>2. CASE Settle(t)
    <3>1. op[t] = "claim" /\ UNCHANGED op
      BY <1>k, <2>2, NoForcedSteps DEF Settle, InPhase, Preparing, Teardown
    <3>2. sess[t] \in Claim
      BY <1>k, <3>1, KeyKinds DEF ControlInv, ClaimsOwnSession
    <3> QED BY <1>2, <1>k, <2>2, <3>1, <3>2 DEF Settle, Makes, Claim
  <2>3. ASSUME NEW u \in Task, StartClaim(u) \/ StartDesktop(u) \/ (Settle(u) /\ u # t)
        PROVE  \/ op'[t] = op[t] /\ sess'[t] = sess[t]
               \/ sess'[t].card \in {t, Nobody} /\ (op'[t] = "desktop" => sess'[t].card = Nobody)
    BY <1>k, <2>3 DEF StartClaim, StartDesktop, Begin, NewClaim, Settle
  <2>4. ASSUME NEW u \in Task, NEW v \in Task, SweepSpawns(u, v)
        PROVE  (op'[t] = op[t] /\ sess'[t] = sess[t]) \/ op'[t] = "takeover"
    BY <1>k, <2>4 DEF SweepSpawns
  <2>5. ASSUME NEW u \in Task, NEW c \in Container,
               \/ StartRelease(u, c) \/ StartSaveAndExit(u, c) \/ StartForce(u, c)
               \/ StartControl(u, c) \/ StartHeartbeat(u, c)
        PROVE  \/ op'[t] = op[t] /\ sess'[t] = sess[t]
               \/ op'[t] \notin {"claim", "desktop"}
    BY <1>k, <2>5
    DEF StartRelease, StartSaveAndExit, StartForce, StartControl, StartHeartbeat, Begin, Resolve
  <2> QED BY <1>k, <2>1, <2>2, <2>3, <2>4, <2>5, SessionSteps, NoForcedSteps DEF ControlInv
<1> QED BY <1>1, <1>2, <1>3, <1>4 DEF Makes

(* Nobody else settles at the container of a claim that is starting.       *)
LEMMA SettlesOwn ==
    ASSUME GuardInv, NEW t \in Task, NEW c \in Container, Settle(t), at[t] = c
    PROVE  Starting(t) /\ key[c].kind = "claim" /\ key[c].by = t
<1>1. Starting(t)
  BY DEF Settle, Starting, Preparing
<1> QED BY <1>1 DEF GuardInv, ReservedInv, StartReserved

(* The steps of a claim that is starting.                                  *)
LEMMA StartingMoves ==
    ASSUME GuardInv, Steady, Next, NEW t \in Task, Starting(t), pc'[t] # pc[t]
    PROVE  \/ ProbeKnown(t)
           \/ \E i \in {"none", "adopt", "discard"}, r \in BOOLEAN : ProbeAsks(t, i, r)
           \/ Settle(t) \/ StoreAdopted(t) \/ RecordAdoption(t) \/ AdoptionFails(t)
           \/ Hydrate(t) \/ HydrateFails(t) \/ Launch(t) \/ LaunchFails(t) \/ Stamp(t) \/ Abort(t)
<1>1. pc[t] \in {"probe", "settle", "store", "record", "hydrate", "launch", "stamp", "abort"}
  BY DEF Starting, Preparing
<1>2. ~Starts(t) /\ ~AwaitTimeout(t) /\ \A u \in Task : ~SweepSpawns(u, t)
  BY <1>1
  DEF Starts, StartClaim, StartDesktop, StartRelease, StartSaveAndExit, StartForce,
      StartControl, StartHeartbeat, Begin, AwaitTimeout, SweepSpawns
<1>3. Work(t)
  BY <1>2, PcSteps, NoForcedSteps DEF GuardInv, ControlInv
<1>4. ~Walk(t) /\ ~SweepSkips(t) /\ ~AwaitDone(t) /\ ~Retry(t) /\ ~DesktopClaim(t)
      /\ \A u \in Task : ~SweepSpawns(t, u)
  BY <1>1 DEF Walk, SweepSkips, AwaitDone, Retry, DesktopClaim, SweepSpawns
<1>5. /\ ~Mark(t) /\ ~TakeoverMark(t) /\ ~Stop(t) /\ ~Evacuate(t) /\ ~Wipe(t) /\ ~Pull(t)
      /\ ~Drop(t) /\ ~refresh_session(t) /\ ~Heartbeat(t)
  BY <1>1
  DEF Mark, TakeoverMark, Stop, Evacuate, Wipe, Pull, Drop, refresh_session, Heartbeat
<1> QED BY <1>3, <1>4, <1>5, NoForcedSteps DEF Work, GuardInv

(* A claim that is starting and stays where it is in its start.            *)
LEMMA StartRests ==
    ASSUME GuardInv, Steady, OwnInv, Next, NEW t \in Task, Starting(t), pc'[t] = pc[t]
    PROVE  StartsOwn(t)'
<1> DEFINE c == at[t]
<1>0. StartsOwn(t) /\ Timely /\ pc[t] # "idle" /\ c \in Container /\ dying = {}
  BY SteadyCovers DEF OwnInv, Starting, Preparing, GuardInv, ControlInv, TypeOK
<1>1. at'[t] = c /\ key'[c].kind = "claim" /\ key'[c].by = t
  <2>1. Starting(t)'
    BY DEF Starting
  <2> QED BY <1>0, <2>1, StartingStays DEF GuardInv
<1>2. key[c].kind = "claim" /\ key[c].by = t
  BY DEF GuardInv, ReservedInv, StartReserved
<1>3. ~Settle(t) /\ ~Hydrate(t) /\ ~Launch(t)
  BY DEF Settle, Hydrate, Launch, Goto, GuardInv, ControlInv, TypeOK
<1>4. key'[c].card = key[c].card
  <2>1. same_claim(key'[c], key[c])
    BY <1>1, <1>2 DEF same_claim
  <2> QED BY <1>0, <1>2, <1>3, <2>1, RecordedCard, SettlesOwn DEF GuardInv
<1>5. op'[t] = op[t] /\ sess'[t] = sess[t]
  BY <1>0, <1>3, SessionStays DEF GuardInv
<1>6. Untouched(c)
  BY <1>0, <1>2, <1>3, Touches DEF own_marker
<1>7. sess[t].by = t
  <2>1. op[t] \in {"claim", "desktop"}
    BY NoForcedSteps DEF GuardInv, Starting, InPhase, Preparing, Teardown
  <2> QED BY <2>1 DEF GuardInv, ControlInv, ClaimsOwnSession
<1>8. Mounted(c, t) => (CardSync /\ op'[t] = "claim" => slot'[c].of = t)
  BY <1>5, <1>6, TaskAssumption DEF Untouched, Mounted
<1>9. Settled(sess[t]) => Settled(sess[t])'
  BY <1>5, <1>7 DEF Settled
<1> QED
  BY <1>0, <1>1, <1>4, <1>5, <1>6, <1>8, <1>9 DEF StartsOwn, Untouched, Mounted

(* A claim that is starting and goes on.                                   *)
LEMMA StartMoves ==
    ASSUME GuardInv, Steady, OwnInv, Next, NEW t \in Task, Starting(t), pc'[t] # pc[t]
    PROVE  StartsOwn(t)'
<1> DEFINE c == at[t]
<1>0. StartsOwn(t) /\ Makes(t) /\ c \in Container
  BY DEF OwnInv, GuardInv, ControlInv, TypeOK
<1>k. /\ pc \in [Task -> Phases] /\ key \in [Container -> KeyValue]
      /\ sess \in [Task -> KeyValue] /\ slot \in [Container -> Card]
      /\ emu \in [Container -> Task \cup {Nobody}]
  BY DEF GuardInv, ControlInv, TypeOK, BrokerTypeOK
<1>1. key[c].kind = "claim" /\ key[c].by = t /\ key[c] \in Claim
  BY <1>0, <1>k, KeyKinds DEF GuardInv, ReservedInv, StartReserved
<1>2. op[t] \in {"claim", "desktop"} /\ InPhase(op[t], pc[t])
  BY NoForcedSteps DEF GuardInv, Starting, InPhase, Preparing, Teardown
<1>3. sess[t].by = t /\ sess[t] \in Claim
  BY <1>2, <1>k, KeyKinds DEF GuardInv, ControlInv, ClaimsOwnSession
<1>4. CASE \/ ProbeKnown(t)
           \/ \E i \in {"none", "adopt", "discard"}, r \in BOOLEAN : ProbeAsks(t, i, r)
           \/ AdoptionFails(t) \/ HydrateFails(t) \/ LaunchFails(t)
  <2>1. UNCHANGED <<key, at, sess>> /\ pc'[t] \in {"settle", "abort"}
    BY <1>4, <1>k
    DEF ProbeKnown, ProbeAsks, AdoptionFails, HydrateFails, LaunchFails, Goto, locals
  <2> QED BY <1>0, <2>1 DEF StartsOwn
<1>5. CASE Settle(t)
  <2>1. op[t] = "claim" /\ UNCHANGED <<op, at>> /\ pc'[t] \in {"hydrate", "store", "record"}
    BY <1>5, <1>2, <1>k DEF Settle, Goto, InPhase, Preparing, Teardown
  <2>2. sess'[t].card = t /\ sess'[t].by = t
    BY <1>5, <1>0, <1>3, <1>k, <2>1 DEF Settle, Makes, Claim
  <2>3. key'[c].card = t
    <3>1. CASE sess[t].card = Nobody
      <4>1. key'[c] = RecordCard(key[c], t)
        BY <1>5, <1>0, <1>k, <3>1, SteadyCovers DEF Settle
      <4> QED BY <4>1, <1>1 DEF RecordCard, Claim
    <3>2. CASE sess[t].card # Nobody
      BY <1>5, <1>0, <2>1, <3>2 DEF Settle, Makes, StartsOwn
    <3> QED BY <3>1, <3>2
  <2>4. Settled(sess[t])'
    BY <2>1, <2>2 DEF Settled
  <2> QED BY <2>1, <2>2, <2>3, <2>4 DEF StartsOwn
<1>6. CASE StoreAdopted(t) \/ RecordAdoption(t)
  <2>1. /\ UNCHANGED <<key, at, sess, op>>
        /\ pc'[t] \in {"record", "hydrate"} /\ pc[t] \in {"store", "record"}
    BY <1>6, <1>k DEF StoreAdopted, RecordAdoption, Goto, locals
  <2>2. Settled(sess[t])'
    BY <1>0, <2>1 DEF StartsOwn, Settled
  <2> QED BY <1>0, <2>1, <2>2 DEF StartsOwn
<1>7. CASE Hydrate(t)
  <2>1. UNCHANGED <<key, at, sess, op>> /\ pc'[t] = "launch" /\ pc[t] = "hydrate"
    BY <1>7, <1>k DEF Hydrate, Goto, locals
  <2>2. Settled(sess[t])'
    BY <1>0, <2>1 DEF StartsOwn, Settled
  <2>3. CardSync => slot'[c].of = t
    BY <1>7, <1>0, <1>k DEF Hydrate
  <2> QED BY <1>0, <2>1, <2>2, <2>3 DEF StartsOwn, Mounted
<1>8. CASE Launch(t)
  <2>1. /\ UNCHANGED <<key, at, sess, op, slot>> /\ pc'[t] = "stamp" /\ pc[t] = "launch"
        /\ emu'[c] = t
    BY <1>8, <1>0, <1>k DEF Launch, Goto, locals
  <2>2. Settled(sess[t])'
    BY <1>0, <2>1 DEF StartsOwn, Settled
  <2> QED BY <1>0, <2>1, <2>2 DEF StartsOwn, Mounted
<1>9. CASE Stamp(t) \/ Abort(t)
  BY <1>9, <1>k DEF Stamp, Abort, Goto, StartsOwn, Starting, Preparing
<1> QED BY <1>4, <1>5, <1>6, <1>7, <1>8, <1>9, StartingMoves

(* Every step leaves a claim its own card and its own game.                *)
LEMMA NextStartsOwn ==
    ASSUME GuardInv, Steady, OwnInv, Next, NEW t \in Task
    PROVE  StartsOwn(t)'
<1>1. CASE ~Starting(t)'
  BY <1>1 DEF StartsOwn
<1>2. CASE Starting(t)
  BY <1>2, StartRests, StartMoves
<1>3. CASE Starting(t)' /\ ~Starting(t)
  <2>k. /\ pc \in [Task -> Phases] /\ at \in [Task -> Container]
        /\ key \in [Container -> KeyValue] /\ Pool[idx[t]] \in Container /\ Makes(t)
    BY PoolMembers DEF GuardInv, ControlInv, TypeOK, WalkTypeOK, OwnInv
  <2>1. pc'[t] \in {"probe", "settle", "store", "record", "hydrate", "launch", "stamp", "abort"}
        /\ pc'[t] # pc[t]
        /\ pc[t] \notin {"probe", "settle", "store", "record", "hydrate", "launch", "stamp",
                         "abort"}
    BY <1>3 DEF Starting, Preparing
  <2>2. ~Starts(t) /\ ~AwaitTimeout(t) /\ \A u \in Task : ~SweepSpawns(u, t)
    BY <2>1, <2>k
    DEF Starts, StartClaim, StartDesktop, StartRelease, StartSaveAndExit, StartForce,
        StartControl, StartHeartbeat, Begin, AwaitTimeout, NextCandidate, Goto, SweepSpawns
  <2>3. Work(t)
    BY <2>1, <2>2, PcSteps, NoForcedSteps DEF GuardInv, ControlInv
  <2>4. ~SweepSkips(t) /\ ~AwaitDone(t) /\ \A u \in Task : ~SweepSpawns(t, u)
    BY <2>1, <2>k DEF SweepSkips, AwaitDone, NextCandidate, Goto, SweepSpawns
  <2>5. /\ ~ProbeKnown(t) /\ ~Settle(t) /\ ~StoreAdopted(t)
        /\ ~RecordAdoption(t) /\ ~AdoptionFails(t)
        /\ \A i \in {"none", "adopt", "discard"}, r \in BOOLEAN : ~ProbeAsks(t, i, r)
        /\ ~Hydrate(t) /\ ~HydrateFails(t) /\ ~Launch(t) /\ ~LaunchFails(t)
        /\ ~Stamp(t) /\ ~Abort(t)
    BY <2>1
    DEF ProbeKnown, ProbeAsks, Settle, StoreAdopted, RecordAdoption, AdoptionFails, Hydrate,
        HydrateFails,
        Launch, LaunchFails, Stamp, Abort
  <2>6. /\ ~Mark(t) /\ ~TakeoverMark(t) /\ ~Stop(t) /\ ~Evacuate(t) /\ ~Wipe(t) /\ ~Pull(t)
        /\ ~Drop(t) /\ ~refresh_session(t) /\ ~Heartbeat(t)
    BY <2>1, <2>k
    DEF Mark, TakeoverMark, Drain, Stop, Evacuate, Wipe, Pull, Drop, refresh_session,
        Heartbeat, Goto
  <2>7. Walk(t) \/ Retry(t) \/ DesktopClaim(t)
    BY <2>3, <2>4, <2>5, <2>6, NoForcedSteps DEF Work, GuardInv
  <2>8. InPhase(op[t], pc[t])
    BY NoForcedSteps DEF GuardInv
  <2>9. \/ op[t] = "claim" /\ Win(t, Pool[idx[t]], Won)
        \/ op[t] = "desktop" /\ Win(t, Pool[idx[t]], "launch")
    BY <2>1, <2>7, <2>8, <2>k
    DEF Walk, Retry, DesktopClaim, NextCandidate, Goto, InPhase, Preparing, Teardown
  <2>10. key'[at'[t]] = sess[t] /\ UNCHANGED <<sess, op>>
    BY <2>9, <2>k DEF Win
  <2>11. sess[t].by = t
    BY <2>9 DEF GuardInv, ControlInv, ClaimsOwnSession
  <2>12. CASE op[t] = "claim"
    <3>1. pc'[t] = "probe" \/ (pc'[t] = "hydrate" /\ ~CardSync)
      BY <2>9, <2>12, <2>k DEF Win, Won, Goto
    <3> QED BY <2>10, <2>11, <2>12, <3>1 DEF StartsOwn, Settled
  <2>13. CASE op[t] = "desktop"
    <3>1. pc'[t] = "launch" /\ sess[t].card = Nobody
      BY <2>9, <2>13, <2>k DEF Win, Goto, Makes
    <3> QED BY <2>10, <2>11, <2>13, <3>1 DEF StartsOwn, Settled, Mounted
  <2> QED BY <2>9, <2>12, <2>13
<1> QED BY <1>1, <1>2, <1>3

(* A container under a claim that is through with its start.               *)
LEMMA NextHostsOwn ==
    ASSUME GuardInv, Steady, OwnInv, Next, ClaimPlaced', NEW c \in Container
    PROVE  HostsOwn(c)'
<1> SUFFICES ASSUME key'[c].kind = "claim", NEW u, u = key'[c].by, ~Starting(u)'
             PROVE  Settled(key[c])' /\ Mounted(c, u)' /\ emu'[c] = u
  BY DEF HostsOwn, Starting, Mounted
<1>k. /\ key \in [Container -> KeyValue] /\ key[c] \in KeyValue /\ pc \in [Task -> Phases]
      /\ ControlInv /\ dying = {} /\ at \in [Task -> Container]
  BY DEF GuardInv, ControlInv, TypeOK, OwnInv
<1>1. CASE Taken(c)
  <2>1. PICK t \in Task : /\ key'[c] = sess[t] /\ op[t] \in {"claim", "desktop"}
                          /\ pc'[t] \in {"probe", "hydrate", "launch"}
    BY <1>1 DEF Taken
  <2>2. u = t
    BY <2>1, <1>k DEF ControlInv, ClaimsOwnSession
  <2> QED BY <2>1, <2>2 DEF Starting, Preparing
<1>2. CASE ~Taken(c)
  <2>1. ~Ended(c) /\ ~Dropped(c)
    BY DEF Ended, Dropped, NoKey
  <2>2. ~Expire(c)
    BY <1>k DEF Expire, NoKey
  <2>3. SameHolder(c) \/ key'[c] = key[c]
    BY <1>2, <1>k, <2>1, <2>2, KeySteps, NoForcedSteps DEF KeyWritten
  <2>4. key[c].kind = "claim" /\ key[c].by = u /\ same_claim(key'[c], key[c]) /\ u \in Task
    BY <1>k, <2>3, KeyKinds DEF SameHolder, same_claim, Claim
  <2>5. op[u] \in {"claim", "desktop"} /\ at[u] = c /\ op'[u] = op[u] /\ pc[u] # "idle"
    <3>1. op[u] \in {"claim", "desktop"} /\ at[u] = c
      BY <2>4 DEF GuardInv, ClaimPlaced
    <3>2. pc[u] # "idle"
      BY <1>k, <2>4, <3>1, NoForcedSteps DEF InPhase, Preparing, Teardown
    <3> QED BY <1>k, <2>4, <3>1, <3>2, SessionStays
  <2>6. CASE ~Starting(u)
    <3>1. Settled(key[c]) /\ Mounted(c, u) /\ emu[c] = u
      BY <2>4, <2>6 DEF OwnInv, HostsOwn
    <3>2. key'[c].card = key[c].card
      BY <1>k, <2>4, <2>6, RecordedCard, SettlesOwn
    <3>3. ASSUME NEW t \in Task, at[t] = c, key[c].by = t, Hydrate(t) \/ Launch(t)
          PROVE  FALSE
      BY <2>4, <2>6, <3>3 DEF Hydrate, Launch, Starting, Preparing
    <3>4. Untouched(c)
      BY <1>k, <2>4, <3>3, Touches DEF own_marker
    <3>5. Mounted(c, u)'
      BY <2>4, <2>5, <3>1, <3>4, UntouchedMount
    <3>6. Settled(key[c])'
      BY <2>4, <2>5, <3>1, <3>2 DEF Settled
    <3> QED BY <3>1, <3>4, <3>5, <3>6 DEF Untouched
  <2>7. CASE Starting(u)
    <3>1. pc'[u] # pc[u] /\ pc'[u] \notin {"probe", "settle", "store", "record",
                                           "hydrate", "launch", "stamp", "abort"}
      BY <2>7 DEF Starting, Preparing
    <3>2. Stamp(u) \/ Abort(u)
      <4>1. /\ ~ProbeKnown(u) /\ ~Settle(u) /\ ~StoreAdopted(u)
            /\ ~RecordAdoption(u) /\ ~AdoptionFails(u)
            /\ \A i \in {"none", "adopt", "discard"}, r \in BOOLEAN : ~ProbeAsks(u, i, r)
            /\ ~Hydrate(u) /\ ~HydrateFails(u) /\ ~Launch(u) /\ ~LaunchFails(u)
        BY <1>k, <2>4, <3>1
        DEF ProbeKnown, ProbeAsks, Settle, StoreAdopted, RecordAdoption, AdoptionFails, Hydrate,
            HydrateFails, Launch, LaunchFails, Goto
      <4>2. u \in Task /\ pc'[u] # pc[u]
        BY <2>4, <3>1
      <4>3. \/ ProbeKnown(u)
            \/ \E i \in {"none", "adopt", "discard"}, r \in BOOLEAN : ProbeAsks(u, i, r)
            \/ Settle(u) \/ StoreAdopted(u) \/ RecordAdoption(u) \/ AdoptionFails(u)
            \/ Hydrate(u) \/ HydrateFails(u) \/ Launch(u) \/ LaunchFails(u) \/ Stamp(u) \/ Abort(u)
        BY <2>7, <4>2, StartingMoves
      <4> QED BY <4>1, <4>3, Zenon
    <3>3. ~Abort(u)
      <4>1. same_claim(key[c], sess[u])
        BY <1>k, <2>4, <2>5 DEF same_claim, ControlInv, ClaimsOwnSession
      <4> QED BY <1>k, <2>5, <4>1, SteadyCovers DEF Abort, release_own_session, NoKey
    <3>4. StartsOwn(u) /\ sess[u].by = u /\ Stamp(u)
      BY <1>k, <2>4, <2>5, <3>2, <3>3 DEF OwnInv, ControlInv, ClaimsOwnSession
    <3>5. /\ key[c].card = sess[u].card /\ Settled(sess[u])
          /\ Mounted(c, u) /\ emu[c] = u
      BY <2>5, <2>7, <3>4 DEF StartsOwn, Stamp
    <3>6. UNCHANGED <<emu, slot>>
      BY <3>4 DEF Stamp, broker
    <3>7. key'[c].card = key[c].card
      <4>1. key[c] \in Claim
        BY <1>k, <2>4, KeyKinds
      <4> QED BY <1>k, <2>5, <3>4, <4>1 DEF Stamp, Claim
    <3> QED BY <2>4, <2>5, <3>4, <3>5, <3>6, <3>7 DEF Settled, Mounted
  <2> QED BY <2>6, <2>7
<1> QED BY <1>1, <1>2

(* Sessions are read for an ending where they are settled.                 *)
LEMMA EndBegins ==
    ASSUME GuardInv, Steady, OwnInv, Next, NEW t \in Task, pc[t] = "idle",
           op'[t] \in {"release", "takeover"}
    PROVE  EndsOwn(t)'
<1>k. /\ op \in [Task -> Ops \cup {"none", "takeover"}] /\ sess \in [Task -> KeyValue]
      /\ key \in [Container -> KeyValue] /\ ControlInv /\ pc \in [Task -> Phases]
  BY DEF GuardInv, ControlInv, TypeOK
<1>0. op[t] = "none" /\ ~saved[t] /\ t \in Task
  BY <1>k, NoForcedSteps DEF OwnInv, Makes, InPhase, Preparing, Teardown
<1>1. ASSUME NEW c \in Container, sess'[t] = key[c], key[c].kind = "claim",
             key[c].launched \/ key[c].stale, \A v \in Task \ {t} : op'[v] = op[v]
      PROVE  Settled(sess[t])'
  <2>1. PICK u \in Task : u = key[c].by /\ Over(u)
    BY <1>1, <1>k, KeyKinds DEF GuardInv, ReservedInv, LaunchedIsOver, Claim
  <2>2. ~Starting(u) /\ u # t
    BY <2>1 DEF Over, Starting, Preparing
  <2>3. Settled(key[c])
    BY <1>1, <2>1, <2>2 DEF OwnInv, HostsOwn
  <2> QED BY <1>1, <2>1, <2>2, <2>3 DEF Settled
<1>2. ASSUME NEW u \in Task, SweepSpawns(u, t)
      PROVE  EndsOwn(t)'
  <2>1. /\ sess'[t] = key[Pool[idx[u]]] /\ key[Pool[idx[u]]].kind = "claim"
        /\ key[Pool[idx[u]]].stale /\ \A v \in Task \ {t} : op'[v] = op[v]
        /\ pc'[t] = "takeover" /\ UNCHANGED saved
    BY <1>2, <1>k DEF SweepSpawns, flags
  <2>2. Pool[idx[u]] \in Container
    BY PoolMembers DEF GuardInv, ControlInv, TypeOK, WalkTypeOK
  <2> QED BY <1>0, <1>1, <2>1, <2>2 DEF EndsOwn
<1>3. ASSUME NEW c \in Container, StartRelease(t, c)
      PROVE  EndsOwn(t)'
  <2>1. /\ sess'[t] = key[c] /\ key[c].kind = "claim" /\ key[c].launched
        /\ \A v \in Task \ {t} : op'[v] = op[v]
        /\ pc'[t] = "mark" /\ UNCHANGED saved
    BY <1>3, <1>k, SteadyCovers DEF StartRelease, Begin, Resolve, Goto, flags
  <2> QED BY <1>0, <1>1, <2>1 DEF EndsOwn
<1>4. ASSUME NEW u \in Task, StartClaim(u) \/ StartDesktop(u)
      PROVE  FALSE
  BY <1>4, <1>k, <1>0 DEF StartClaim, StartDesktop, Begin
<1>5. ASSUME NEW u \in Task, NEW v \in Task, SweepSpawns(u, v)
      PROVE  v = t
  BY <1>5, <1>k, <1>0 DEF SweepSpawns
<1>6. ASSUME NEW u \in Task, NEW c \in Container,
             \/ StartRelease(u, c) \/ StartSaveAndExit(u, c) \/ StartForce(u, c)
             \/ StartControl(u, c) \/ StartHeartbeat(u, c)
      PROVE  u = t /\ StartRelease(t, c)
  BY <1>6, <1>k, <1>0
  DEF StartRelease, StartSaveAndExit, StartForce, StartControl, StartHeartbeat, Begin
<1>7. ASSUME NEW u \in Task, Settle(u)
      PROVE  UNCHANGED op
  BY <1>7 DEF Settle
<1> QED
  BY <1>k, <1>0, <1>2, <1>3, <1>4, <1>5, <1>6, <1>7, SessionSteps, NoForcedSteps DEF ControlInv

(* A teardown that does not move.                                          *)
LEMMA EndRests ==
    ASSUME GuardInv, Steady, OwnInv, Next, NEW t \in Task,
           op[t] \in {"release", "takeover"}, pc'[t] = pc[t]
    PROVE  EndsOwn(t)'
<1>k. /\ pc \in [Task -> Phases] /\ saved \in [Task -> BOOLEAN] /\ ControlInv /\ dying = {}
      /\ InPhase(op[t], pc[t])
  BY NoForcedSteps DEF GuardInv, ControlInv, TypeOK, FlagsTypeOK, OwnInv
<1>0. EndsOwn(t) /\ pc[t] # "idle"
  BY <1>k DEF OwnInv, InPhase, Preparing, Teardown
<1>1. ~Settle(t) /\ ~Stop(t) /\ ~Wipe(t)
  BY <1>k DEF Settle, Stop, Wipe, Goto, InPhase, Preparing, Teardown
<1>2. op'[t] = op[t] /\ sess'[t] = sess[t]
  BY <1>k, <1>0, <1>1, SessionStays
<1>3. sess[t].by \in Task /\ op'[sess[t].by] = op[sess[t].by]
  <2>1. sess[t].kind = "claim" /\ Over(sess[t].by) /\ sess[t] \in KeyValue
    BY DEF GuardInv, ReservedInv, EndedIsOver, ControlInv, TypeOK
  <2>2. sess[t].by \in Task
    BY <2>1, KeyKinds DEF Claim
  <2> QED BY <1>k, <2>1, <2>2, SessionStays DEF Over
<1>4. Settled(sess[t])'
  BY <1>0, <1>2, <1>3 DEF EndsOwn, Settled
<1>5. saved'[t] = saved[t]
  <2>1. ASSUME NEW u \in Task, Stop(u) PROVE saved'[t] = saved[t]
    BY <1>k, <1>1, <2>1 DEF Stop, Stopped
  <2>2. ASSUME NEW u \in Task,
               \/ StoreAdopted(u) \/ RecordAdoption(u) \/ Hydrate(u) \/ Launch(u)
               \/ Evacuate(u) \/ Wipe(u)
        PROVE  UNCHANGED saved
    BY <2>2
    DEF StoreAdopted, RecordAdoption, Hydrate, Launch, Evacuate, Wipe, locals, flags
  <2>3. ASSUME NEW c \in Container, Play(c) \/ KillLands(c)
        PROVE  UNCHANGED saved
    BY <2>3 DEF Play, KillLands, locals, flags
  <2> QED BY <1>k, <2>1, <2>2, <2>3, EffectSteps, NoForcedSteps
<1>6. CASE pc[t] \notin Teardown
  BY <1>0, <1>2, <1>4, <1>5, <1>6 DEF EndsOwn, Teardown
<1>7. CASE pc[t] \in Teardown
  <2>1. PICK c \in Container : c = at[t]
    BY DEF GuardInv, ControlInv, TypeOK
  <2>2. own_marker(key[c], t)
    BY <1>7, <2>1 DEF GuardInv, MarkerIsKept, TeardownHoldsMarker, UnderMarker
  <2>3. at'[t] = c
    BY <1>k, <1>7, <2>1, NextFollows DEF ControlInv, Follows, Searching, Teardown
  <2>4. Untouched(c)
    BY <1>k, <1>1, <2>2, Touches DEF own_marker
  <2>5. Mounted(c, sess[t].by) =>
          (CardSync /\ op[sess[t].by] = "claim" => slot'[c].of = sess[t].by)
    BY <1>3, <2>4, TaskAssumption DEF Untouched, Mounted
  <2> QED
    BY <1>0, <1>2, <1>3, <1>4, <1>5, <2>1, <2>3, <2>4, <2>5
    DEF EndsOwn, Untouched, Mounted
<1> QED BY <1>6, <1>7

(* The steps of a release or a takeover that has begun.                    *)
LEMMA EndingMoves ==
    ASSUME GuardInv, Steady, Next, NEW t \in Task, op[t] \in {"release", "takeover"},
           pc'[t] # pc[t]
    PROVE  Mark(t) \/ TakeoverMark(t) \/ Stop(t) \/ Evacuate(t) \/ Wipe(t) \/ Pull(t) \/ Drop(t)
<1>1. pc[t] \in {"mark", "takeover", "stop", "evacuate", "wipe", "pull", "drop", "done",
                 "failed", "dead"}
  BY NoForcedSteps DEF GuardInv, InPhase, Preparing, Teardown
<1>2. ~Starts(t) /\ ~AwaitTimeout(t) /\ \A u \in Task : ~SweepSpawns(u, t)
  BY <1>1
  DEF Starts, StartClaim, StartDesktop, StartRelease, StartSaveAndExit, StartForce,
      StartControl, StartHeartbeat, Begin, AwaitTimeout, SweepSpawns
<1>3. Work(t)
  BY <1>2, PcSteps, NoForcedSteps DEF GuardInv, ControlInv
<1>4. ~Walk(t) /\ ~SweepSkips(t) /\ ~AwaitDone(t) /\ ~Retry(t) /\ ~DesktopClaim(t)
      /\ \A u \in Task : ~SweepSpawns(t, u)
  BY <1>1 DEF Walk, SweepSkips, AwaitDone, Retry, DesktopClaim, SweepSpawns
<1>5. /\ ~ProbeKnown(t) /\ ~Settle(t) /\ ~StoreAdopted(t)
      /\ ~RecordAdoption(t) /\ ~AdoptionFails(t)
      /\ \A i \in {"none", "adopt", "discard"}, r \in BOOLEAN : ~ProbeAsks(t, i, r)
      /\ ~Hydrate(t) /\ ~HydrateFails(t) /\ ~Launch(t) /\ ~LaunchFails(t)
      /\ ~Stamp(t) /\ ~Abort(t) /\ ~refresh_session(t) /\ ~Heartbeat(t)
  BY <1>1
  DEF ProbeKnown, ProbeAsks, Settle, StoreAdopted, RecordAdoption, AdoptionFails, Hydrate,
      HydrateFails,
      Launch, LaunchFails, Stamp, Abort, refresh_session, Heartbeat
<1> QED BY <1>3, <1>4, <1>5, NoForcedSteps DEF Work, GuardInv

(* A teardown that goes on: it finds its session's game and card under the *)
(* claim its marker replaces.                                              *)
LEMMA EndMoves ==
    ASSUME GuardInv, Steady, OwnInv, Next, NEW t \in Task,
           op[t] \in {"release", "takeover"}, pc'[t] # pc[t]
    PROVE  EndsOwn(t)'
<1>c. PICK c \in Container : c = at[t]
  BY DEF GuardInv, ControlInv, TypeOK
<1>k. /\ pc \in [Task -> Phases] /\ saved \in [Task -> BOOLEAN] /\ ControlInv
      /\ emu \in [Container -> Task \cup {Nobody}] /\ slot \in [Container -> Card]
      /\ exitState \in [Container -> Task \cup {Nobody}]
  BY DEF GuardInv, ControlInv, TypeOK, FlagsTypeOK, BrokerTypeOK
<1>0. EndsOwn(t) /\ pc[t] # "idle"
  BY <1>k, NoForcedSteps DEF OwnInv, InPhase, Preparing, Teardown
<1>1. sess[t].kind = "claim" /\ Over(sess[t].by) /\ sess[t] \in KeyValue
  BY DEF GuardInv, ReservedInv, EndedIsOver, ControlInv, TypeOK
<1>2. UNCHANGED <<op, at, sess>>
  BY EndingMoves
  DEF Mark, TakeoverMark, Stop, Evacuate, Wipe, Pull, Drop, locals
<1>3. Settled(sess[t])'
  BY <1>0, <1>2 DEF EndsOwn, Settled
<1>4. CASE Mark(t) \/ TakeoverMark(t)
  <2>1. UNCHANGED <<emu, slot, exitState, saved>> /\ pc'[t] \in {"stop", "done", "failed"}
    BY <1>4, <1>k DEF Mark, TakeoverMark, Drain, Goto, broker
  <2>2. ~saved[t]
    BY <1>0, <1>4 DEF EndsOwn, Mark, TakeoverMark
  <2>3. pc'[t] = "stop" => same_claim(key[c], sess[t])
    BY <1>4, <1>k, <1>c, SteadyCovers
    DEF Mark, TakeoverMark, Drain, MarkerLands, MarkerContended, Goto
  <2>4. same_claim(key[c], sess[t]) => emu[c] = sess[t].by /\ Mounted(c, sess[t].by)
    <3>1. ~Starting(sess[t].by)
      BY <1>1 DEF Over, Starting, Preparing
    <3> QED BY <3>1 DEF same_claim, OwnInv, HostsOwn
  <2> QED BY <1>c, <1>2, <1>3, <2>1, <2>2, <2>3, <2>4 DEF EndsOwn, Mounted
<1>5. CASE Stop(t)
  <2>1. UNCHANGED slot /\ pc[t] = "stop" /\ pc'[t] = "evacuate"
    BY <1>5, <1>k DEF Stop, Goto
  <2>2. ~saved[t] /\ emu[c] = sess[t].by /\ Mounted(c, sess[t].by)
    BY <1>0, <1>c, <2>1 DEF EndsOwn
  <2>3. saved'[t] => exitState'[c] = sess[t].by
    BY <1>5, <1>k, <1>c, <2>2 DEF Stop, Stopped
  <2> QED BY <1>c, <1>2, <1>3, <2>1, <2>2, <2>3 DEF EndsOwn, Mounted
<1>6. CASE Evacuate(t) \/ Wipe(t) \/ Pull(t) \/ Drop(t)
  <2>1. /\ UNCHANGED <<exitState, saved>>
        /\ pc'[t] \in {"wipe", "pull", "drop", "delete", "exit", "done"}
        /\ pc'[t] \in {"wipe", "pull"} => pc[t] \in {"evacuate", "wipe"}
    BY <1>6, <1>k DEF Evacuate, Wipe, Pull, Drop, Goto, broker, locals, flags
  <2> QED BY <1>0, <1>2, <1>3, <2>1 DEF EndsOwn
<1> QED BY <1>4, <1>5, <1>6, EndingMoves

(* Every step leaves an ending its own session's game and card.            *)
LEMMA NextEndsOwn ==
    ASSUME GuardInv, Steady, OwnInv, Next, NEW t \in Task
    PROVE  EndsOwn(t)'
<1>k. ControlInv /\ InPhase(op[t], pc[t])
  BY NoForcedSteps DEF GuardInv
<1>1. CASE op'[t] \notin {"release", "takeover"}
  BY <1>1 DEF EndsOwn
<1>2. CASE op'[t] \in {"release", "takeover"} /\ pc[t] = "idle"
  BY <1>2, EndBegins
<1>3. CASE op'[t] \in {"release", "takeover"} /\ pc[t] # "idle"
  <2>1. op[t] \in {"release", "takeover"}
    BY <1>k, <1>3, SessionStays
  <2> QED BY <2>1, EndRests, EndMoves
<1> QED BY <1>1, <1>2, <1>3

(* The steps that file something or take it out of the library.            *)
LEMMA LibrarySteps ==
    ASSUME Next
    PROVE  \/ \E t \in Task : StoreAdopted(t) \/ Abort(t) \/ Evacuate(t) \/ Pull(t)
           \/ UNCHANGED filed
<1>1. ASSUME NEW t \in Task, Starts(t)
      PROVE  UNCHANGED filed
  BY <1>1
  DEF Starts, StartClaim, StartDesktop, StartRelease, StartSaveAndExit, StartForce,
      StartControl, StartHeartbeat, Resolve, broker
<1>2. ASSUME NEW t \in Task,
             \/ Walk(t) \/ SweepSkips(t) \/ (\E v \in Task : SweepSpawns(t, v))
             \/ AwaitDone(t) \/ AwaitTimeout(t) \/ Retry(t) \/ DesktopClaim(t)
      PROVE  UNCHANGED filed
  BY <1>2
  DEF Walk, SweepSkips, SweepSpawns, AwaitDone, AwaitTimeout, Retry, DesktopClaim, Win, broker
<1>3. ASSUME NEW t \in Task,
             \/ ProbeKnown(t)
             \/ (\E i \in {"none", "adopt", "discard"}, r \in BOOLEAN : ProbeAsks(t, i, r))
             \/ Settle(t) \/ RecordAdoption(t) \/ AdoptionFails(t) \/ Hydrate(t)
             \/ HydrateFails(t) \/ Launch(t) \/ LaunchFails(t) \/ Stamp(t)
      PROVE  UNCHANGED filed
  BY <1>3
  DEF ProbeKnown, ProbeAsks, Settle, RecordAdoption, AdoptionFails, Hydrate, HydrateFails, Launch,
      LaunchFails, Stamp, broker
<1>4. ASSUME NEW t \in Task,
             \/ Mark(t) \/ TakeoverMark(t) \/ ExitPulls(t) \/ ExitReleases(t)
             \/ Stop(t) \/ Wipe(t) \/ Drop(t) \/ Kill(t)
             \/ ForceRead(t) \/ ForceDelete(t) \/ refresh_session(t) \/ Heartbeat(t)
             \/ HoldMarker(t) \/ HoldClaim(t) \/ HoldCeiling(t) \/ Crash(t)
      PROVE  UNCHANGED filed
  BY <1>4
  DEF Mark, TakeoverMark, ExitPulls, ExitReleases, Stop, Wipe, Drop, Kill,
      ForceRead, ForceDelete, refresh_session, Heartbeat, HoldMarker, HoldClaim,
      HoldCeiling, Crash, broker
<1>5. ASSUME NEW c \in Container, KillLands(c) \/ GoStale(c) \/ Expire(c) \/ Play(c)
      PROVE  UNCHANGED filed
  BY <1>5 DEF KillLands, GoStale, Expire, Play, broker
<1>6. Quiet => UNCHANGED filed
  BY DEF Quiet, vars, broker
<1> QED BY <1>1, <1>2, <1>3, <1>4, <1>5, <1>6 DEF Next, Work

(* What is filed: adopted cards, the card in the slot under the session's  *)
(* card, and the exit state of the session's game.                         *)
LEMMA NextFiledOwn ==
    ASSUME GuardInv, Steady, OwnInv, Next
    PROVE  FiledIsOwn'
<1>k. ControlInv /\ FiledIsOwn /\ at \in [Task -> Container]
  BY DEF GuardInv, ControlInv, TypeOK, OwnInv
<1>1. ASSUME NEW t \in Task, StoreAdopted(t)
      PROVE  FiledIsOwn'
  <2>1. filed' \subseteq filed \cup {<<t, at[t]>>} /\ at[t] \in Container
    BY <1>1, <1>k DEF StoreAdopted
  <2> QED BY <1>k, <2>1 DEF FiledIsOwn
<1>2. ASSUME NEW t \in Task, Abort(t)
      PROVE  FiledIsOwn'
  BY <1>2, <1>k DEF Abort, FiledIsOwn
<1>3. ASSUME NEW t \in Task, Evacuate(t) \/ Pull(t)
      PROVE  op[t] \in {"release", "takeover"} /\ EndsOwn(t) /\ waits[t]
  <2>1. op[t] \in {"release", "takeover"}
    BY <1>3, <1>k, NoForcedSteps DEF Evacuate, Pull, InPhase, Preparing, Teardown
  <2> QED BY <2>1 DEF OwnInv, Makes
<1>4. ASSUME NEW t \in Task, Evacuate(t)
      PROVE  FiledIsOwn'
  <2>1. \/ UNCHANGED filed
        \/ /\ CardSync /\ sess[t].card # Nobody
           /\ filed' = filed \cup {<<sess[t].card, slot[at[t]].of>>}
    BY <1>4 DEF Evacuate
  <2>2. Settled(sess[t]) /\ Mounted(at[t], sess[t].by)
    BY <1>3, <1>4 DEF EndsOwn, Evacuate
  <2>3. CardSync /\ sess[t].card # Nobody => slot[at[t]].of = sess[t].card
    BY <2>2 DEF Settled, Mounted
  <2> QED BY <1>k, <2>1, <2>3 DEF FiledIsOwn
<1>5. ASSUME NEW t \in Task, Pull(t)
      PROVE  FiledIsOwn'
  <2>1. \/ UNCHANGED filed
        \/ saved[t] /\ filed' = filed \cup {<<sess[t].by, exitState[at[t]]>>}
    BY <1>3, <1>5 DEF Pull, HasState
  <2>2. saved[t] => exitState[at[t]] = sess[t].by
    BY <1>3, <1>5 DEF EndsOwn, Pull
  <2> QED BY <1>k, <2>1, <2>2 DEF FiledIsOwn
<1>6. UNCHANGED filed => FiledIsOwn'
  BY <1>k DEF FiledIsOwn
<1> QED BY <1>1, <1>2, <1>4, <1>5, <1>6, LibrarySteps

(* Every step keeps what is filed, hosted and ended the session's own.     *)
LEMMA NextOwn ==
    ASSUME Steady
    PROVE  GuardInv /\ ClaimPlaced' /\ OwnInv /\ [Next]_vars => OwnInv'
<1> SUFFICES ASSUME GuardInv, ClaimPlaced', OwnInv, [Next]_vars PROVE OwnInv'
  OBVIOUS
<1>1. CASE UNCHANGED vars
  <2>1. /\ UNCHANGED <<key, emu, slot, exitState, dying, filed, pc, op, at, sess, saved, waits>>
    BY <1>1 DEF vars, broker, locals, flags
  <2>2. \A t \in Task : Makes(t)' /\ StartsOwn(t)'
    BY <2>1 DEF OwnInv, Makes, StartsOwn, Starting, Settled, Mounted
  <2>3. \A t \in Task : EndsOwn(t)'
    BY <2>1 DEF OwnInv, EndsOwn, Settled, Mounted
  <2>4. \A c \in Container : HostsOwn(c)'
    BY <2>1 DEF OwnInv, HostsOwn, Starting, Settled, Mounted
  <2> QED BY <2>1, <2>2, <2>3, <2>4 DEF OwnInv, FiledIsOwn
<1>2. CASE Next
  BY <1>2, NextMakes, NextStartsOwn, NextHostsOwn, NextEndsOwn, NextFiledOwn DEF OwnInv
<1> QED BY <1>1, <1>2

(* evacuate_session_card, collect_exit_state: only a session's own card    *)
(* and exit state are filed for it, or a card its player adopted, also     *)
(* where broker calls fail at any point and abandoned sessions run out     *)
(* with their game still up.                                               *)
THEOREM SessionsFiledIsOwn == ASSUME Steady PROVE Spec => []FiledIsOwn
<1>1. Init => OwnInv
  BY DEF Init, OwnInv, Makes, StartsOwn, Starting, Preparing, EndsOwn, HostsOwn, NoKey,
         FiledIsOwn
<1>2. Spec => []GuardInv
  <2>1. Spec => [](ClaimPlaced /\ ReservedInv)
    BY SteadyCovers, SessionsReserved
  <2>2. Spec => [](TeardownHoldsMarker /\ MarkerIsKept)
    BY SteadyCovers, SessionsMarkerIsKept
  <2> QED BY <2>1, <2>2, SessionsControl, PTL DEF GuardInv
<1>3. GuardInv /\ GuardInv' /\ OwnInv /\ [Next]_vars => OwnInv'
  BY NextOwn DEF GuardInv
<1>4. OwnInv => FiledIsOwn
  BY DEF OwnInv
<1> QED BY <1>1, <1>2, <1>3, <1>4, PTL DEF Spec

-----------------------------------------------------------------------------
(* Cards, games and exit states, where nothing goes wrong and a session    *)
(* ends by a release or a takeover.                                        *)

Calm == Mishaps = {} /\ {"save_and_exit", "force"} \cap Ops = {}

(* A session that ended up with a game, or with the desktop.               *)
Began(t) == op[t] \in {"claim", "desktop"} /\ pc[t] = "done"

(* Its card, in the slot and in its record.                                *)
Mounts(t) == CardSync /\ op[t] = "claim"

(* What a task relies on: the key is its own while it works on a           *)
(* container, its card is in its record once it is settled, a decision is  *)
(* on record before a card is laid down, and a teardown is of a session    *)
(* that began.                                                             *)
Held(t) ==
    /\ Starting(t) => key[at[t]].kind = "claim" /\ key[at[t]].by = t
    /\ pc[t] \in Teardown => tok[t] /\ own_marker(key[at[t]], t)
    /\ op[t] \in {"claim", "desktop"} =>
         /\ ~sess[t].stale /\ ~sess[t].launched /\ sess[t].card \in {t, Nobody}
         /\ ~Mounts(t) => sess[t].card = Nobody
    /\ pc[t] \in {"probe", "settle", "store", "record"} => CardSync
    /\ Mounts(t) /\ pc[t] \in {"store", "record", "hydrate", "launch", "stamp", "done"}
         => sess[t].card = t
    /\ Mounts(t) /\ (pc[t] = "hydrate" \/ (pc[t] = "settle" /\ probe[t] = "decided"))
         => adoption[at[t]] # "none"
    /\ op[t] \in {"release", "takeover"} =>
         /\ sess[t].kind = "claim" /\ Began(sess[t].by)
         /\ sess[t].card = (IF Mounts(sess[t].by) THEN sess[t].by ELSE Nobody)
    /\ waits[t] /\ (lapsed[t] => op[t] = "claim")

(* No card but the one the container came with, which holds progress only  *)
(* until a decision is on record.                                          *)
Clean(c) ==
    /\ slot[c].of \in {Nobody, c}
    /\ slot[c].unsaved => slot[c].of = c /\ adoption[c] = "none"

OnCard(c, t) == IF Mounts(t) THEN slot[c].of = t ELSE Clean(c)

(* A container nobody reserves is empty.                                   *)
HostsNobody(c) == emu[c] = Nobody /\ Clean(c)

(* One that claim k reserves is the claimant's, who is past the walk.      *)
HostsClaim(c, t) ==
    /\ at[t] = c /\ op[t] \in {"claim", "desktop"} /\ (Starting(t) \/ pc[t] = "done")
    /\ key[c].launched \/ key[c].stale => pc[t] = "done"
    /\ key[c].card = sess[t].card
    /\ pc[t] = "record" /\ probe[t] = "adopt" => ~slot[c].unsaved
    /\ emu[c] = IF pc[t] \in {"stamp", "done"} THEN t ELSE Nobody
    /\ IF pc[t] \in {"launch", "stamp", "done"} THEN OnCard(c, t) ELSE Clean(c)

(* One under the marker of teardown u goes through its phases.             *)
HostsTeardown(c, u) ==
    LET t == sess[u].by IN
    /\ at[u] = c /\ pc[u] \in Teardown
    /\ emu[c] = IF pc[u] = "stop" THEN t ELSE Nobody
    /\ pc[u] # "stop" /\ saved[u] => exitState[c] = t
    /\ IF pc[u] \in {"stop", "evacuate", "wipe"} THEN OnCard(c, t) ELSE Clean(c)
    /\ pc[u] = "wipe" => /\ safe[u] <=> Mounts(t)
                         /\ safe[u] => ~slot[c].unsaved

Hosts(c) ==
    /\ key[c].kind = "none" => HostsNobody(c)
    /\ key[c].kind = "claim" => HostsClaim(c, key[c].by)
    /\ key[c].kind = "marker" => HostsTeardown(c, key[c].by)

CardInv ==
    /\ dying = {} /\ FiledIsOwn
    /\ \A t \in Task : Held(t)
    /\ \A c \in Container : Hosts(c)

-----------------------------------------------------------------------------
(* Which operation a task in a given phase runs.                           *)
LEMMA PhaseOps ==
    ASSUME ControlInv, Calm, NEW t \in Task
    PROVE  /\ pc[t] \in Preparing => op[t] = "claim"
           /\ Starting(t) \/ pc[t] \in Searching => op[t] \in {"claim", "desktop"}
           /\ pc[t] \in Teardown \cup {"mark", "takeover"} => op[t] \in {"release", "takeover"}
           /\ pc[t] = "mark" => op[t] = "release"
           /\ pc[t] = "takeover" => op[t] = "takeover"
           /\ pc[t] \in {"refresh", "beat"} => op[t] \in {"control", "heartbeat"}
           /\ pc[t] = "idle" <=> op[t] = "none"
           /\ pc[t] \notin {"kill", "exit", "read", "delete"}
           /\ op[t] \notin {"save_and_exit", "force"}
<1>1. op[t] \notin {"save_and_exit", "force"} /\ InPhase(op[t], pc[t])
  BY DEF ControlInv, TypeOK, Phased, Calm
<1> QED
  BY <1>1 DEF InPhase, Preparing, Teardown, Searching, Starting

(* Types of what CardInv reads.                                            *)
LEMMA CardTypes ==
    ASSUME ControlInv
    PROVE  /\ \A c \in Container :
                /\ key[c] \in KeyValue /\ key[c].kind \in {"none", "claim", "marker"}
                /\ key[c].kind # "none" => key[c].by \in Task
                /\ emu[c] \in Task \cup {Nobody} /\ slot[c] \in Card
           /\ \A t \in Task :
                /\ at[t] \in Container
                /\ sess[t].kind = "claim" => sess[t].by \in Task
           /\ key \in [Container -> KeyValue]
           /\ emu \in [Container -> Task \cup {Nobody}] /\ slot \in [Container -> Card]
           /\ exitState \in [Container -> Task \cup {Nobody}]
           /\ adoption \in [Container -> {"none", "adopt", "discard"}]
           /\ pc \in [Task -> Phases] /\ at \in [Task -> Container]
           /\ op \in [Task -> Ops \cup {"none", "takeover"}]
           /\ sess \in [Task -> KeyValue] /\ tok \in [Task -> BOOLEAN]
           /\ lapsed \in [Task -> BOOLEAN]
           /\ probe \in [Task -> {"decided", "adopt", "discard"}]
           /\ safe \in [Task -> BOOLEAN] /\ saved \in [Task -> BOOLEAN]
           /\ waits \in [Task -> BOOLEAN]
<1>1. /\ key \in [Container -> KeyValue] /\ sess \in [Task -> KeyValue]
      /\ emu \in [Container -> Task \cup {Nobody}] /\ slot \in [Container -> Card]
      /\ exitState \in [Container -> Task \cup {Nobody}]
      /\ adoption \in [Container -> {"none", "adopt", "discard"}]
      /\ pc \in [Task -> Phases] /\ at \in [Task -> Container]
      /\ op \in [Task -> Ops \cup {"none", "takeover"}]
      /\ tok \in [Task -> BOOLEAN] /\ lapsed \in [Task -> BOOLEAN]
      /\ probe \in [Task -> {"decided", "adopt", "discard"}]
      /\ safe \in [Task -> BOOLEAN] /\ saved \in [Task -> BOOLEAN]
      /\ waits \in [Task -> BOOLEAN]
  BY DEF ControlInv, TypeOK, BrokerTypeOK, FlagsTypeOK, HoldTypeOK
<1>2. \A s \in KeyValue : /\ s.kind \in {"none", "claim", "marker"}
                          /\ s.kind # "none" => s.by \in Task
  BY KeyKinds DEF Claim, Marker
<1> QED
  BY <1>1, <1>2

-----------------------------------------------------------------------------
(* What a step does not touch keeps its part of the invariant.             *)

(* A task that works on a container.                                       *)
Works(t) == Starting(t) \/ pc[t] \in Teardown

SameTask(x) ==
    /\ pc'[x] = pc[x] /\ op'[x] = op[x] /\ at'[x] = at[x] /\ sess'[x] = sess[x]
    /\ tok'[x] = tok[x] /\ probe'[x] = probe[x] /\ safe'[x] = safe[x]
    /\ saved'[x] = saved[x] /\ waits'[x] = waits[x]
    /\ lapsed'[x] => lapsed[x] \/ op[x] = "claim"

SameBroker(c) ==
    /\ emu'[c] = emu[c] /\ slot'[c] = slot[c] /\ exitState'[c] = exitState[c]
    /\ adoption'[c] = adoption[c]

(* The key keeps its holder; a claim grows stale only after its start.     *)
SameKey(c) ==
    /\ key'[c].kind = key[c].kind
    /\ key[c].kind # "none" => key'[c].by = key[c].by
    /\ key[c].kind = "claim" =>
         /\ key'[c].card = key[c].card /\ key'[c].launched = key[c].launched
         /\ key'[c].stale => key[c].stale \/ pc[key[c].by] = "done"

(* A session that began stays so.                                          *)
BegunStay == \A y \in Task : Began(y) => SameTask(y)

(* A task the step does not move relies on what it relied on.              *)
LEMMA HeldKeeps ==
    ASSUME ControlInv, NEW x \in Task, Held(x), SameTask(x), BegunStay,
           Works(x) => SameKey(at[x]) /\ adoption'[at[x]] = adoption[at[x]]
    PROVE  Held(x)'
<1>t. at[x] \in Container /\ (sess[x].kind = "claim" => sess[x].by \in Task)
  BY CardTypes
<1>1. op[x] \in {"release", "takeover"} => SameTask(sess[x].by)
  BY <1>t DEF Held, BegunStay
<1>2. /\ (Starting(x) => key[at[x]].kind = "claim" /\ key[at[x]].by = x)'
      /\ (pc[x] \in Teardown => tok[x] /\ own_marker(key[at[x]], x))'
  BY DEF Held, SameTask, SameKey, Works, Starting, own_marker
<1>3. /\ (op[x] \in {"claim", "desktop"} =>
             /\ ~sess[x].stale /\ ~sess[x].launched /\ sess[x].card \in {x, Nobody}
             /\ ~Mounts(x) => sess[x].card = Nobody)'
      /\ (pc[x] \in {"probe", "settle", "store", "record"} => CardSync)'
      /\ (Mounts(x) /\ pc[x] \in {"store", "record", "hydrate", "launch", "stamp", "done"}
            => sess[x].card = x)'
      /\ (waits[x] /\ (lapsed[x] => op[x] = "claim"))'
  BY DEF Held, SameTask, Mounts
<1>4. (Mounts(x) /\ (pc[x] = "hydrate" \/ (pc[x] = "settle" /\ probe[x] = "decided"))
         => adoption[at[x]] # "none")'
  BY DEF Held, SameTask, Mounts, Works, Starting, Preparing
<1>5. (op[x] \in {"release", "takeover"} =>
         /\ sess[x].kind = "claim" /\ Began(sess[x].by)
         /\ sess[x].card = (IF Mounts(sess[x].by) THEN sess[x].by ELSE Nobody))'
  BY <1>1 DEF Held, SameTask, Mounts, Began
<1> QED
  BY <1>2, <1>3, <1>4, <1>5 DEF Held

(* A container the step does not touch hosts what it hosted.               *)
LEMMA HostsKeeps ==
    ASSUME ControlInv, Calm, NEW c \in Container, Hosts(c), SameBroker(c), SameKey(c),
           key[c].kind # "none" => SameTask(key[c].by) /\ Held(key[c].by), BegunStay
    PROVE  Hosts(c)'
<1>t. /\ key[c].kind \in {"none", "claim", "marker"}
      /\ key[c].kind # "none" => key[c].by \in Task
  BY CardTypes
<1>1. CASE key[c].kind = "none"
  BY <1>1 DEF Hosts, HostsNobody, Clean, SameBroker, SameKey
<1>2. CASE key[c].kind = "claim"
  <2>1. HostsClaim(c, key[c].by)'
    BY <1>t, <1>2
    DEF Hosts, HostsClaim, OnCard, Mounts, Clean, SameBroker, SameKey, SameTask, Starting
  <2> QED
    BY <1>2, <2>1 DEF Hosts, SameKey
<1>3. CASE key[c].kind = "marker"
  <2> DEFINE u == key[c].by
  <2>1. u \in Task /\ HostsTeardown(c, u) /\ SameTask(u) /\ Held(u) /\ key'[c].by = u
    BY <1>t, <1>3 DEF Hosts, SameKey
  <2>2. op[u] \in {"release", "takeover"}
    BY <2>1, PhaseOps DEF HostsTeardown
  <2>3. SameTask(sess[u].by)
    BY <2>1, <2>2, CardTypes DEF Held, BegunStay
  <2>4. HostsTeardown(c, u)'
    BY <2>1, <2>3
    DEF HostsTeardown, OnCard, Mounts, Clean, SameBroker, SameTask
  <2> QED
    BY <1>3, <2>1, <2>4 DEF Hosts, SameKey
<1> QED
  BY <1>t, <1>1, <1>2, <1>3

(* A step of tasks that work on no container, and of no other.             *)
LEMMA AsideStep ==
    ASSUME ControlInv, Calm, CardInv, NEW T \in SUBSET Task,
           \A x \in T : ~Works(x) /\ pc[x] # "done" /\ Held(x)',
           \A x \in Task \ T : SameTask(x),
           UNCHANGED broker,
           \A d \in Container : SameKey(d)
    PROVE  CardInv'
<1>1. BegunStay
  BY DEF BegunStay, Began
<1>2. \A x \in Task \ T : Held(x)'
  BY <1>1, HeldKeeps, CardTypes DEF CardInv, broker
<1>3. \A d \in Container : key[d].kind # "none" => key[d].by \in Task \ T
  BY CardTypes DEF CardInv, Hosts, HostsClaim, HostsTeardown, Works
<1>4. \A d \in Container : SameBroker(d)
  BY DEF SameBroker, broker
<1>5. \A d \in Container : Hosts(d)'
  BY <1>1, <1>3, <1>4, HostsKeeps DEF CardInv
<1> QED
  BY <1>2, <1>5 DEF CardInv, broker, FiledIsOwn

(* A step of task t at container c, where no other task works.             *)
LEMMA StepAt ==
    ASSUME ControlInv, Calm, CardInv, NEW t \in Task, NEW c \in Container,
           pc[t] # "done", Works(t) => at[t] = c,
           \A x \in Task \ {t} : SameTask(x) /\ (Works(x) => at[x] # c),
           \A d \in Container \ {c} : SameBroker(d) /\ key'[d] = key[d],
           UNCHANGED dying, FiledIsOwn', Held(t)', Hosts(c)'
    PROVE  CardInv'
<1>1. BegunStay
  BY DEF BegunStay, Began
<1>2. \A d \in Container \ {c} : SameKey(d)
  BY DEF SameKey
<1>3. \A x \in Task \ {t} : Held(x)'
  BY <1>1, <1>2, HeldKeeps, CardTypes DEF CardInv, SameBroker
<1>4. ASSUME NEW d \in Container \ {c}, key[d].kind # "none"
      PROVE  key[d].by \in Task \ {t}
  <2>1. key[d].by \in Task /\ key[d].kind \in {"claim", "marker"} /\ Hosts(d)
    BY <1>4, CardTypes DEF CardInv
  <2>2. at[key[d].by] = d /\ (Works(key[d].by) \/ pc[key[d].by] = "done")
    BY <2>1 DEF Hosts, HostsClaim, HostsTeardown, Works
  <2> QED
    BY <2>1, <2>2
<1>5. \A d \in Container \ {c} : Hosts(d)'
  BY <1>1, <1>2, <1>4, HostsKeeps DEF CardInv
<1> QED
  BY <1>3, <1>5 DEF CardInv

(* The task the key names is the only one that works there.                *)
LEMMA WorksAlone ==
    ASSUME ControlInv, CardInv, NEW c \in Container, NEW x \in Task, Works(x), at[x] = c
    PROVE  key[c].kind # "none" /\ key[c].by = x
BY DEF CardInv, Held, Works, own_marker

(* A step of the task that works on its container.                         *)
LEMMA OwnStep ==
    ASSUME ControlInv, Calm, CardInv, NEW t \in Task, Works(t), NEW c, c = at[t],
           \A x \in Task \ {t} : SameTask(x),
           \A d \in Container \ {c} : SameBroker(d) /\ key'[d] = key[d],
           UNCHANGED dying, FiledIsOwn', Held(t)', Hosts(c)'
    PROVE  CardInv'
<1>1. c \in Container /\ key[c].kind # "none" /\ key[c].by = t
  BY CardTypes, WorksAlone
<1>2. \A x \in Task \ {t} : Works(x) => at[x] # c
  BY <1>1, WorksAlone
<1>3. pc[t] # "done"
  BY DEF Works, Starting, Preparing, Teardown
<1> QED
  BY <1>1, <1>2, <1>3, StepAt

-----------------------------------------------------------------------------
(* Steps of tasks that have no container.                                  *)

(* A request comes in.                                                     *)
LEMMA StartsCard ==
    ASSUME ControlInv, Calm, CardInv, NEW t \in Task, Starts(t)
    PROVE  CardInv'
<1>1. pc[t] = "idle" /\ op[t] = "none" /\ ~Works(t)
  <2>1. pc[t] = "idle"
    BY DEF Starts, StartClaim, StartDesktop, StartRelease, StartSaveAndExit, StartForce,
           StartControl, StartHeartbeat, Begin
  <2> QED
    BY <2>1, PhaseOps DEF Works, Starting, Preparing, Teardown
<1>2. \A x \in Task \ {t} : SameTask(x)
  BY CardTypes
  DEF SameTask, Starts, StartClaim, StartDesktop, StartRelease, StartSaveAndExit, StartForce,
      StartControl, StartHeartbeat, Begin, Resolve, Goto, flags, hold
<1>3. UNCHANGED <<key, broker>>
  BY DEF Starts, StartClaim, StartDesktop, StartRelease, StartSaveAndExit, StartForce,
         StartControl, StartHeartbeat, Resolve
<1>4. waits'[t] /\ ~lapsed'[t]
  <2>1. UNCHANGED <<waits, lapsed>>
    BY DEF Starts, StartClaim, StartDesktop, StartRelease, StartSaveAndExit, StartForce,
           StartControl, StartHeartbeat, Resolve, flags, hold
  <2> QED
    BY <1>1, <2>1 DEF CardInv, Held
<1>5. ASSUME pc'[t] \in {"walk", "refresh", "beat"},
             op'[t] \in {"claim", "desktop", "control", "heartbeat"},
             op'[t] \in {"claim", "desktop"} =>
               /\ ~sess'[t].stale /\ ~sess'[t].launched /\ sess'[t].card \in {t, Nobody}
               /\ ~CardSync \/ op'[t] = "desktop" => sess'[t].card = Nobody
      PROVE  Held(t)'
  BY <1>4, <1>5 DEF Held, Starting, Preparing, Teardown, Mounts
<1>6. Held(t)'
  <2>1. CASE StartClaim(t)
    <3>1. /\ pc'[t] = "walk" /\ op'[t] = "claim"
          /\ ~sess'[t].stale /\ ~sess'[t].launched /\ sess'[t].card \in {t, Nobody}
          /\ ~CardSync => sess'[t].card = Nobody
      BY <2>1, CardTypes DEF StartClaim, Begin, Goto, NewClaim
    <3> QED
      BY <1>5, <3>1
  <2>2. CASE StartDesktop(t)
    <3>1. /\ pc'[t] = "walk" /\ op'[t] = "desktop"
          /\ ~sess'[t].stale /\ ~sess'[t].launched /\ sess'[t].card = Nobody
      BY <2>2, CardTypes DEF StartDesktop, Begin, Goto, NewClaim
    <3> QED
      BY <1>5, <3>1
  <2>3. ASSUME NEW c \in Container, StartRelease(t, c) PROVE Held(t)'
    <3>1. /\ pc'[t] = "mark" /\ op'[t] = "release" /\ sess'[t] = key[c]
          /\ key[c].kind = "claim" /\ key[c].launched
      BY <2>3, CardTypes DEF Calm, May, StartRelease, Begin, Goto, Resolve
    <3>2. PICK b \in Task : b = key[c].by
      BY <3>1, CardTypes
    <3>3. Began(b) /\ key[c].card = (IF Mounts(b) THEN b ELSE Nobody)
      BY <3>1, <3>2 DEF CardInv, Hosts, HostsClaim, Began, Held, Mounts
    <3>4. SameTask(b)
      BY <1>1, <1>2, <3>3 DEF Began
    <3>5. Began(b)' /\ (Mounts(b)' <=> Mounts(b))
      BY <3>3, <3>4 DEF Began, Mounts, SameTask
    <3> QED
      BY <1>4, <3>1, <3>2, <3>3, <3>5 DEF Held, Starting, Preparing, Teardown, Mounts
  <2>4. ASSUME NEW c \in Container, StartControl(t, c) \/ StartHeartbeat(t, c)
        PROVE  Held(t)'
    <3>1. pc'[t] \in {"refresh", "beat"} /\ op'[t] \in {"control", "heartbeat"}
      BY <2>4, CardTypes DEF StartControl, StartHeartbeat, Begin, Goto
    <3> QED
      BY <1>5, <3>1
  <2> QED
    BY <2>1, <2>2, <2>3, <2>4 DEF Starts, Calm, StartSaveAndExit, StartForce, Begin
<1>7. \A d \in Container : SameKey(d)
  BY <1>3 DEF SameKey
<1>8. {t} \in SUBSET Task
  OBVIOUS
<1> QED
  BY <1>1, <1>2, <1>3, <1>6, <1>7, <1>8, AsideStep

(* A task without a container goes on without one.                         *)
LEMMA MovesAside ==
    ASSUME ControlInv, Calm, CardInv, NEW t \in Task,
           pc[t] \in Searching \cup {"mark", "takeover", "refresh", "beat"},
           pc'[t] \in Searching \cup {"failed"}
             \/ (pc'[t] = "done" /\ pc[t] \in {"mark", "refresh", "beat"}),
           \A x \in Task \ {t} : pc'[x] = pc[x],
           UNCHANGED <<broker, op, at, sess, tok, probe, safe, saved, waits>>,
           \A x \in Task : lapsed'[x] => lapsed[x] \/ op[x] = "claim",
           \A d \in Container : SameKey(d)
    PROVE  CardInv'
<1>1. ~Works(t) /\ pc[t] # "done"
  BY DEF Works, Starting, Preparing, Teardown, Searching
<1>2. \A x \in Task \ {t} : SameTask(x)
  BY DEF SameTask
<1>3. op[t] \in {"claim", "desktop"} => pc'[t] \in Searching \cup {"failed"}
  BY PhaseOps DEF Searching
<1>4. Held(t)'
  <2>1. /\ pc'[t] \notin Teardown \cup Preparing \cup {"launch", "stamp"}
        /\ ~Starting(t)'
    BY DEF Searching, Teardown, Starting, Preparing
  <2>2. op[t] = "claim" => pc'[t] # "done"
    BY <1>3 DEF Searching
  <2>3. Held(t)
    BY DEF CardInv
  <2>4. op[t] \in {"release", "takeover"} => Began(sess[t].by)'
    BY <1>1, <1>2, <2>3, CardTypes DEF Held, Began, SameTask
  <2> QED
    BY <2>1, <2>2, <2>3, <2>4 DEF Held, Mounts, Preparing
<1>5. {t} \in SUBSET Task
  OBVIOUS
<1> QED
  BY <1>1, <1>2, <1>4, <1>5, AsideStep

(* Where the sweep goes next.                                              *)
LEMMA NextCandidateMoves ==
    ASSUME ControlInv, NEW t \in Task, NextCandidate(t)
    PROVE  pc'[t] \in {"sweep", "failed"} /\ \A x \in Task \ {t} : pc'[x] = pc[x]
BY CardTypes DEF NextCandidate, Goto

(* The sweep spawns a takeover of a session that began and is stale.       *)
LEMMA SpawnCard ==
    ASSUME ControlInv, Calm, CardInv, NEW t \in Task, NEW u \in Task, SweepSpawns(t, u)
    PROVE  CardInv'
<1> DEFINE c == Pool[idx[t]]
           k == key[c]
<1>1. c \in Container
  BY PoolMembers DEF ControlInv, TypeOK, WalkTypeOK
<1>2. /\ t # u /\ pc[t] = "sweep" /\ pc[u] = "idle" /\ pc'[t] = "await"
      /\ pc'[u] = "takeover" /\ op'[u] = "takeover" /\ sess'[u] = k
      /\ op'[t] = op[t] /\ sess'[t] = sess[t] /\ k.kind = "claim" /\ k.stale
      /\ UNCHANGED <<key, broker, flags>>
  BY CardTypes DEF SweepSpawns
<1>3. ~Works(t) /\ ~Works(u) /\ op[t] \in {"claim", "desktop"} /\ op[u] = "none"
  BY <1>2, PhaseOps DEF Works, Starting, Preparing, Teardown, Searching
<1>4. \A x \in Task \ {t, u} : SameTask(x)
  BY CardTypes DEF SweepSpawns, SameTask, flags, hold
<1>5. Held(t)'
  BY <1>2, <1>3 DEF CardInv, Held, Mounts, Starting, Preparing, Teardown, flags, hold
<1>6. Held(u)'
  <2>1. PICK b \in Task : b = k.by
    BY <1>1, <1>2, CardTypes
  <2>2. Began(b) /\ k.card = (IF Mounts(b) THEN b ELSE Nobody)
    BY <1>1, <1>2, <2>1 DEF CardInv, Hosts, HostsClaim, Began, Held, Mounts
  <2>3. SameTask(b)
    BY <1>2, <1>4, <2>2 DEF Began
  <2>4. Began(b)' /\ (Mounts(b)' <=> Mounts(b))
    BY <2>2, <2>3 DEF Began, Mounts, SameTask
  <2> QED
    BY <1>2, <1>3, <2>1, <2>2, <2>4
    DEF CardInv, Held, Starting, Preparing, Teardown, Mounts, flags, hold
<1>7. \A d \in Container : SameKey(d)
  BY <1>2 DEF SameKey
<1>8. {t, u} \in SUBSET Task
  OBVIOUS
<1> QED
  BY <1>2, <1>3, <1>4, <1>5, <1>6, <1>7, <1>8, AsideStep

(* A free container is won.                                                *)
LEMMA WinCard ==
    ASSUME ControlInv, Calm, CardInv, NEW t \in Task, NEW c \in Container,
           pc[t] \in Searching, NEW p, Win(t, c, p),
           IF op[t] = "claim" THEN p = Won ELSE p = "launch"
    PROVE  CardInv'
<1>1. /\ op[t] \in {"claim", "desktop"} /\ pc[t] # "done" /\ ~Works(t)
      /\ sess[t].kind = "claim" /\ sess[t].by = t
  BY PhaseOps DEF Works, Starting, Preparing, Teardown, Searching, ControlInv, ClaimsOwnSession
<1>2. /\ pc'[t] = p /\ at'[t] = c /\ key'[c] = sess[t] /\ key[c].kind = "none"
      /\ UNCHANGED <<broker, op, sess, flags>>
  BY CardTypes DEF Win, Goto, NoKey
<1>3. \A x \in Task \ {t} : SameTask(x) /\ (Works(x) => at[x] # c)
  BY <1>2, CardTypes, WorksAlone DEF Win, Goto, SameTask, flags, hold
<1>4. \A d \in Container \ {c} : SameBroker(d) /\ key'[d] = key[d]
  BY CardTypes DEF Win, SameBroker, broker
<1>5. /\ p \in {"probe", "hydrate", "launch"} /\ (p = "probe" => CardSync)
      /\ Mounts(t) => p = "probe"
  BY <1>1 DEF Won, Mounts
<1>6. Held(t)'
  BY <1>1, <1>2, <1>5
  DEF CardInv, Held, Starting, Preparing, Teardown, Mounts, flags, hold
<1>7. HostsNobody(c)
  BY <1>2 DEF CardInv, Hosts
<1>8. ~sess[t].stale /\ ~sess[t].launched
  BY <1>1 DEF CardInv, Held
<1>9. HostsClaim(c, t)'
  BY <1>1, <1>2, <1>5, <1>7, <1>8
  DEF HostsClaim, HostsNobody, OnCard, Clean, Mounts, Starting, Preparing, broker
<1>10. Hosts(c)'
  BY <1>1, <1>2, <1>9 DEF Hosts
<1> QED
  BY <1>1, <1>2, <1>3, <1>4, <1>6, <1>10, StepAt DEF CardInv, FiledIsOwn, broker

(* Looking for a container.                                                *)
LEMMA SearchCard ==
    ASSUME ControlInv, Calm, CardInv, NEW t \in Task,
           \/ Walk(t) \/ SweepSkips(t) \/ AwaitDone(t) \/ AwaitTimeout(t) \/ Retry(t)
           \/ DesktopClaim(t)
    PROVE  CardInv'
<1>1. Pool[idx[t]] \in Container /\ (pc[t] = "walk" \/ op[t] # "desktop")
  <2>1. pc[t] \in {"sweep", "await", "retry"} => op[t] # "desktop"
    BY DEF ControlInv, Phased, InPhase, Preparing, Teardown
  <2> QED
    BY <2>1, PoolMembers
    DEF ControlInv, TypeOK, WalkTypeOK, Walk, SweepSkips, AwaitDone, AwaitTimeout,
        Retry, DesktopClaim
<1>2. pc[t] \in Searching /\ op[t] \in {"claim", "desktop"}
  BY PhaseOps
  DEF Walk, SweepSkips, AwaitDone, AwaitTimeout, Retry, DesktopClaim, Searching
<1>3. CASE \E p : Win(t, Pool[idx[t]], p) /\ (IF op[t] = "claim" THEN p = Won ELSE p = "launch")
  BY <1>1, <1>2, <1>3, WinCard
<1>4. CASE ~\E p : Win(t, Pool[idx[t]], p) /\ (IF op[t] = "claim" THEN p = Won ELSE p = "launch")
  <2>1. /\ UNCHANGED <<key, broker, op, at, sess, tok, probe, safe, saved, waits>>
        /\ \A x \in Task : lapsed'[x] => lapsed[x] \/ op[x] = "claim"
        /\ pc'[t] \in Searching \cup {"failed"}
        /\ \A x \in Task \ {t} : pc'[x] = pc[x]
    <3>1. CASE Walk(t)
      BY <1>2, <1>4, <3>1, CardTypes DEF Walk, Goto, Searching, flags, hold
    <3>2. CASE SweepSkips(t)
      BY <3>2, NextCandidateMoves DEF SweepSkips, Searching, flags, hold
    <3>3. CASE AwaitDone(t)
      BY <3>3, NextCandidateMoves, CardTypes DEF AwaitDone, Goto, Searching, flags, hold
    <3>4. CASE AwaitTimeout(t)
      <4>1. op[t] = "claim"
        BY <1>1, <1>2, <3>4 DEF AwaitTimeout
      <4> QED
        BY <3>4, <4>1, NextCandidateMoves, CardTypes DEF AwaitTimeout, Searching
    <3>5. CASE Retry(t)
      <4>1. op[t] = "claim"
        BY <1>1, <1>2, <3>5 DEF Retry
      <4> QED
        BY <1>4, <3>5, <4>1, NextCandidateMoves DEF Retry, Searching, flags, hold
    <3>6. CASE DesktopClaim(t)
      BY <1>4, <3>6, CardTypes DEF DesktopClaim, Goto, locals, flags, hold
    <3> QED
      BY <3>1, <3>2, <3>3, <3>4, <3>5, <3>6
  <2>2. \A d \in Container : SameKey(d)
    BY <2>1 DEF SameKey
  <2> QED
    BY <1>2, <2>1, <2>2, MovesAside
<1> QED
  BY <1>3, <1>4

-----------------------------------------------------------------------------
(* Steps that refresh a key, and what time does to it.                     *)

(* A write of stale or of the TTL keeps the holder.                        *)
LEMMA TouchedKey ==
    ASSUME ControlInv, CardInv, NEW c \in Container, NEW b \in BOOLEAN,
           \/ key[c].kind = "claim" /\ key' = [key EXCEPT ![c].stale = b]
           \/ key[c].kind = "marker" /\ key' = [key EXCEPT ![c].ttl = "full"]
           \/ key[c].kind = "marker" /\ key' = [key EXCEPT ![c] = drain_marker(key[c].by, "marker")]
           \/ UNCHANGED key,
           b => pc[key[c].by] = "done"
    PROVE  \A d \in Container : SameKey(d)
<1>1. CASE key[c].kind = "claim" /\ key' = [key EXCEPT ![c].stale = b]
  <2>1. key[c] \in Claim /\ key'[c] = [key[c] EXCEPT !.stale = b]
        /\ \A d \in Container \ {c} : key'[d] = key[d]
    BY <1>1, CardTypes, KeyKinds
  <2> QED
    BY <2>1 DEF SameKey, Claim
<1>2. CASE key[c].kind = "marker" /\ key' = [key EXCEPT ![c].ttl = "full"]
  <2>1. key[c] \in Marker /\ key'[c] = [key[c] EXCEPT !.ttl = "full"]
        /\ \A d \in Container \ {c} : key'[d] = key[d]
    BY <1>2, CardTypes, KeyKinds
  <2> QED
    BY <2>1 DEF SameKey, Marker
<1>3. CASE key[c].kind = "marker" /\ key' = [key EXCEPT ![c] = drain_marker(key[c].by, "marker")]
  <2>1. key'[c] = drain_marker(key[c].by, "marker")
        /\ \A d \in Container \ {c} : key'[d] = key[d]
    BY <1>3, CardTypes
  <2> QED
    BY <1>3, <2>1 DEF SameKey, drain_marker
<1>4. CASE UNCHANGED key
  BY <1>4 DEF SameKey
<1> QED
  BY <1>1, <1>2, <1>3, <1>4

(* Control requests and heartbeats.                                        *)
LEMMA RefreshCard ==
    ASSUME ControlInv, Calm, CardInv, NEW t \in Task, refresh_session(t) \/ Heartbeat(t)
    PROVE  CardInv'
<1>1. at[t] \in Container
  BY CardTypes
<1>2. \A d \in Container : SameKey(d)
  BY <1>1, TouchedKey DEF refresh_session, Heartbeat
<1>3. /\ pc[t] \in {"refresh", "beat"} /\ pc'[t] = "done"
      /\ \A x \in Task \ {t} : pc'[x] = pc[x]
  BY CardTypes DEF refresh_session, Heartbeat, Goto
<1>4. UNCHANGED <<broker, locals>>
  BY DEF refresh_session, Heartbeat
<1>5. UNCHANGED <<broker, op, at, sess, tok, probe, safe, saved, waits>>
      /\ \A x \in Task : lapsed'[x] => lapsed[x] \/ op[x] = "claim"
  BY <1>4 DEF locals, flags, hold
<1> QED
  BY <1>2, <1>3, <1>5, MovesAside

(* Nothing moves but the clock and the keepalives, which keep what is kept *)
(* and let go of no teardown's marker.                                     *)
LEMMA ClockCard ==
    ASSUME ControlInv, Calm, CardInv,
           \/ \E t \in Task : HoldMarker(t) \/ HoldClaim(t)
           \/ \E c \in Container : GoStale(c)
           \/ UNCHANGED vars
    PROVE  CardInv'
<1>1. \A d \in Container : SameKey(d)
  <2>1. ASSUME NEW t \in Task, HoldMarker(t) PROVE \A d \in Container : SameKey(d)
    BY <2>1, CardTypes, TouchedKey DEF HoldMarker, own_marker
  <2>2. ASSUME NEW t \in Task, HoldClaim(t) PROVE \A d \in Container : SameKey(d)
    BY <2>2, CardTypes, TouchedKey DEF HoldClaim, same_claim
  <2>3. ASSUME NEW c \in Container, GoStale(c) PROVE \A d \in Container : SameKey(d)
    <3>1. /\ key[c].kind = "claim" /\ key' = [key EXCEPT ![c].stale = TRUE]
          /\ ~Starting(key[c].by)
      BY <2>3 DEF GoStale, Calm, May
    <3>2. pc[key[c].by] = "done"
      BY <3>1 DEF CardInv, Hosts, HostsClaim
    <3> QED
      BY <3>1, <3>2, TouchedKey
  <2>4. CASE UNCHANGED vars
    BY <2>4 DEF vars, SameKey
  <2> QED
    BY <2>1, <2>2, <2>3, <2>4
<1>2. UNCHANGED <<broker, pc, op, at, sess, tok, probe, safe, saved, waits>>
  BY DEF HoldMarker, HoldClaim, GoStale, vars, locals, flags, hold
<1>3. \A x \in Task : lapsed'[x] => lapsed[x] \/ op[x] = "claim"
  <2>1. ASSUME NEW t \in Task, HoldMarker(t) PROVE UNCHANGED lapsed
    BY <2>1 DEF HoldMarker, UnderMarker, CardInv, Held
  <2>2. ASSUME NEW t \in Task, HoldClaim(t)
        PROVE  \A x \in Task : lapsed'[x] => lapsed[x] \/ op[x] = "claim"
    <3>1. op[t] = "claim"
      BY <2>2, PhaseOps DEF HoldClaim, UnderClaim, CardInv, Held, Teardown
    <3> QED
      BY <2>2, <3>1, CardTypes DEF HoldClaim
  <2> QED
    BY <2>1, <2>2 DEF GoStale, vars, locals, flags, hold
<1>4. \A x \in Task : SameTask(x)
  BY <1>2, <1>3 DEF SameTask
<1>5. {} \in SUBSET Task
  OBVIOUS
<1> QED
  BY <1>1, <1>2, <1>4, <1>5, AsideStep

-----------------------------------------------------------------------------
(* Preparing and launching.                                                *)

(* What a claim that works on its container may rely on.                   *)
LEMMA StartingHosts ==
    ASSUME ControlInv, Calm, CardInv, NEW t \in Task, Starting(t), NEW c, c = at[t]
    PROVE  /\ c \in Container /\ Works(t) /\ Held(t) /\ HostsClaim(c, t)
           /\ key[c].kind = "claim" /\ key[c].by = t
           /\ op[t] \in {"claim", "desktop"}
           /\ sess[t] \in Claim /\ sess[t].by = t /\ key[c] \in Claim
<1>1. c \in Container /\ Works(t) /\ Held(t) /\ Hosts(c) /\ op[t] \in {"claim", "desktop"}
  BY CardTypes, PhaseOps DEF CardInv, Works
<1>2. key[c].kind = "claim" /\ key[c].by = t
  BY <1>1 DEF Held
<1>3. sess[t] \in Claim /\ sess[t].by = t /\ key[c] \in Claim
  BY <1>1, <1>2, CardTypes, KeyKinds DEF ControlInv, ClaimsOwnSession
<1> QED
  BY <1>1, <1>2, <1>3 DEF Hosts

(* The probe reads and decides.                                            *)
LEMMA ProbeCard ==
    ASSUME ControlInv, Calm, CardInv, NEW t \in Task,
           \/ ProbeKnown(t)
           \/ \E i \in {"none", "adopt", "discard"}, r \in BOOLEAN : ProbeAsks(t, i, r)
    PROVE  CardInv'
<1>0. PICK c \in Container : c = at[t]
  BY CardTypes
<1>1. /\ pc[t] = "probe" /\ Starting(t) /\ pc'[t] \in {"settle", "abort"}
      /\ UNCHANGED <<key, broker, op, at, sess, hold, safe, saved, waits>>
      /\ \A x \in Task \ {t} : pc'[x] = pc[x] /\ probe'[x] = probe[x]
      /\ pc'[t] = "settle" => adoption[c] # "none" \/ probe'[t] # "decided"
  BY <1>0, CardTypes DEF ProbeKnown, ProbeAsks, Goto, Starting, Preparing, locals, flags
<1>2. /\ c \in Container /\ Works(t) /\ Held(t) /\ HostsClaim(c, t)
      /\ key[c].kind = "claim" /\ key[c].by = t /\ op[t] \in {"claim", "desktop"}
  BY <1>0, <1>1, StartingHosts
<1>3. \A x \in Task \ {t} : SameTask(x)
  BY <1>1 DEF SameTask, hold
<1>4. Held(t)'
  BY <1>0, <1>1, <1>2
  DEF Held, Mounts, Starting, Preparing, Teardown, broker, hold
<1>5. HostsClaim(c, t)'
  BY <1>1, <1>2 DEF HostsClaim, Clean, Starting, Preparing, broker
<1>6. Hosts(c)'
  BY <1>1, <1>2, <1>5 DEF Hosts
<1>7. \A d \in Container \ {c} : SameBroker(d) /\ key'[d] = key[d]
  BY <1>1 DEF SameBroker, broker
<1> QED
  BY <1>0, <1>1, <1>2, <1>3, <1>4, <1>6, <1>7, OwnStep DEF CardInv, FiledIsOwn, broker

(* The card is settled and recorded in the claim, which is the one at the  *)
(* key.                                                                    *)
LEMMA SettleCard ==
    ASSUME ControlInv, Calm, CardInv, NEW t \in Task, Settle(t)
    PROVE  CardInv'
<1>0. PICK c \in Container : c = at[t]
  BY CardTypes
<1>1. /\ pc[t] = "settle" /\ Starting(t)
      /\ pc'[t] \in {"hydrate", "store", "record"}
      /\ pc'[t] = "hydrate" <=> probe[t] = "decided"
      /\ pc'[t] = "store" <=> probe[t] = "adopt"
      /\ UNCHANGED <<broker, op, at, hold, probe, safe, saved, waits>>
      /\ \A x \in Task \ {t} : pc'[x] = pc[x] /\ sess'[x] = sess[x]
      /\ \A d \in Container \ {c} : key'[d] = key[d]
  BY <1>0, CardTypes DEF Settle, Goto, Starting, Preparing
<1>2. /\ c \in Container /\ Works(t) /\ Held(t) /\ HostsClaim(c, t)
      /\ key[c].kind = "claim" /\ key[c].by = t /\ op[t] = "claim"
      /\ sess[t] \in Claim /\ sess[t].by = t /\ key[c] \in Claim
  BY <1>0, <1>1, StartingHosts, PhaseOps DEF Preparing
<1>3. /\ sess'[t].card \in {t, sess[t].card} /\ sess'[t].card # Nobody
      /\ key'[c].card = sess'[t].card /\ sess'[t] \in Claim /\ key'[c] \in Claim
      /\ sess'[t].by = t /\ sess'[t].stale = sess[t].stale
      /\ sess'[t].launched = sess[t].launched
      /\ key'[c].by = t /\ key'[c].stale = key[c].stale
      /\ key'[c].launched = key[c].launched
  <2>1. CASE sess[t].card = Nobody
    <3>1. sess'[t] = [sess[t] EXCEPT !.card = t]
          /\ key'[c] = [key[c] EXCEPT !.card = t]
      BY <1>0, <1>2, <2>1, CardTypes DEF Settle, RecordCard, Calm, May
    <3> QED
      BY <1>2, <3>1, TaskAssumption DEF Claim
  <2>2. CASE sess[t].card # Nobody
    BY <1>0, <1>2, <2>2 DEF Settle, HostsClaim
  <2> QED
    BY <2>1, <2>2
<1>4. \A x \in Task \ {t} : SameTask(x)
  BY <1>1 DEF SameTask, hold
<1>5. CardSync /\ Mounts(t)
  BY <1>1, <1>2 DEF Held, Mounts
<1>6. sess'[t].card = t
  <2>1. sess[t].card \in {t, Nobody}
    BY <1>1, <1>2, <1>5 DEF Held
  <2> QED
    BY <1>3, <2>1
<1>7. Held(t)'
  BY <1>0, <1>1, <1>2, <1>3, <1>5, <1>6
  DEF Held, Mounts, Starting, Preparing, Teardown, broker, hold, Claim
<1>8. HostsClaim(c, t)'
  BY <1>1, <1>2, <1>3 DEF HostsClaim, Clean, Starting, Preparing, broker
<1>9. Hosts(c)'
  BY <1>3, <1>8 DEF Hosts, Claim
<1>10. \A d \in Container \ {c} : SameBroker(d) /\ key'[d] = key[d]
  BY <1>1 DEF SameBroker, broker
<1> QED
  BY <1>0, <1>1, <1>2, <1>4, <1>7, <1>9, <1>10, OwnStep DEF CardInv, FiledIsOwn, broker

(* The card the container came with is stored, if it is to be kept.        *)
LEMMA StoreCardStep ==
    ASSUME ControlInv, Calm, CardInv, NEW t \in Task, StoreAdopted(t)
    PROVE  CardInv'
<1>0. PICK c \in Container : c = at[t]
  BY CardTypes
<1>1. /\ pc[t] = "store" /\ Starting(t) /\ pc'[t] = "record"
      /\ UNCHANGED <<key, emu, exitState, dying, adoption>>
      /\ UNCHANGED <<op, at, sess, hold, probe, safe, saved, waits>>
      /\ \A x \in Task \ {t} : pc'[x] = pc[x]
      /\ \A d \in Container \ {c} : slot'[d] = slot[d]
      /\ filed' \subseteq filed \cup {<<t, c>>}
  BY <1>0, CardTypes DEF StoreAdopted, Goto, Starting, Preparing, locals, flags
<1>2. /\ c \in Container /\ Works(t) /\ Held(t) /\ HostsClaim(c, t)
      /\ key[c].kind = "claim" /\ key[c].by = t /\ op[t] = "claim"
  BY <1>0, <1>1, StartingHosts, PhaseOps DEF Preparing
<1>3. slot'[c].of = slot[c].of /\ ~slot'[c].unsaved /\ Clean(c)
  <2>1. slot'[c] = [slot[c] EXCEPT !.unsaved = @ /\ slot[c].of # c]
    BY <1>0, CardTypes DEF StoreAdopted
  <2>2. Clean(c)
    BY <1>1, <1>2 DEF HostsClaim
  <2> QED
    BY <2>1, <2>2, CardTypes DEF Card, Clean
<1>4. \A x \in Task \ {t} : SameTask(x)
  BY <1>1 DEF SameTask, hold
<1>5. Held(t)'
  BY <1>0, <1>1, <1>2 DEF Held, Mounts, Starting, Preparing, Teardown, hold
<1>6. HostsClaim(c, t)'
  BY <1>1, <1>2, <1>3 DEF HostsClaim, Clean, Starting, Preparing
<1>7. Hosts(c)'
  BY <1>1, <1>2, <1>6 DEF Hosts
<1>8. FiledIsOwn'
  BY <1>1 DEF CardInv, FiledIsOwn
<1>9. \A d \in Container \ {c} : SameBroker(d) /\ key'[d] = key[d]
  BY <1>1 DEF SameBroker
<1> QED
  BY <1>0, <1>1, <1>2, <1>4, <1>5, <1>7, <1>8, <1>9, OwnStep

(* The decision goes on record: the container's own card is stored by now, *)
(* or it is not to be kept.                                                *)
LEMMA RecordCardStep ==
    ASSUME ControlInv, Calm, CardInv, NEW t \in Task, RecordAdoption(t)
    PROVE  CardInv'
<1>0. PICK c \in Container : c = at[t]
  BY CardTypes
<1>1. /\ pc[t] = "record" /\ Starting(t) /\ pc'[t] = "hydrate"
      /\ UNCHANGED <<key, emu, exitState, dying, filed>>
      /\ UNCHANGED <<op, at, sess, hold, probe, safe, saved, waits>>
      /\ \A x \in Task \ {t} : pc'[x] = pc[x]
      /\ \A d \in Container \ {c} : slot'[d] = slot[d] /\ adoption'[d] = adoption[d]
  BY <1>0, CardTypes DEF RecordAdoption, Goto, Starting, Preparing, locals, flags
<1>2. /\ c \in Container /\ Works(t) /\ Held(t) /\ HostsClaim(c, t)
      /\ key[c].kind = "claim" /\ key[c].by = t /\ op[t] = "claim"
  BY <1>0, <1>1, StartingHosts, PhaseOps DEF Preparing
<1>3. adoption'[c] # "none" /\ slot'[c].of = slot[c].of /\ ~slot'[c].unsaved /\ Clean(c)
  <2>1. /\ adoption'[c] = IF adoption[c] = "none" THEN probe[t] ELSE adoption[c]
        /\ slot'[c] = [slot[c] EXCEPT !.unsaved =
                          @ /\ ~(probe[t] = "discard" /\ slot[c].of = c)]
    BY <1>0, CardTypes DEF RecordAdoption
  <2>2. probe[t] \in {"adopt", "discard"}
    BY <1>1, CardTypes DEF ControlInv, RecordsDecision
  <2>3. Clean(c) /\ (probe[t] = "adopt" => ~slot[c].unsaved)
    BY <1>1, <1>2 DEF HostsClaim
  <2>4. slot[c] \in Card
    BY CardTypes
  <2> QED
    BY <2>1, <2>2, <2>3, <2>4 DEF Card, Clean
<1>4. \A x \in Task \ {t} : SameTask(x)
  BY <1>1 DEF SameTask, hold
<1>5. Held(t)'
  BY <1>0, <1>1, <1>2, <1>3 DEF Held, Mounts, Starting, Preparing, Teardown, hold
<1>6. HostsClaim(c, t)'
  BY <1>1, <1>2, <1>3 DEF HostsClaim, Clean, Starting, Preparing
<1>7. Hosts(c)'
  BY <1>1, <1>2, <1>6 DEF Hosts
<1>8. FiledIsOwn'
  BY <1>1 DEF CardInv, FiledIsOwn
<1>9. \A d \in Container \ {c} : SameBroker(d) /\ key'[d] = key[d]
  BY <1>1 DEF SameBroker
<1> QED
  BY <1>0, <1>1, <1>2, <1>4, <1>5, <1>7, <1>8, <1>9, OwnStep

(* The claim's card is laid down.                                          *)
LEMMA HydrateCard ==
    ASSUME ControlInv, Calm, CardInv, NEW t \in Task, Hydrate(t)
    PROVE  CardInv'
<1>0. PICK c \in Container : c = at[t]
  BY CardTypes
<1>1. /\ pc[t] = "hydrate" /\ Starting(t) /\ pc'[t] = "launch"
      /\ UNCHANGED <<key, emu, exitState, dying, adoption, filed, op, at, sess, hold,
                     probe, safe, saved, waits>>
      /\ \A x \in Task \ {t} : pc'[x] = pc[x]
      /\ \A d \in Container \ {c} : slot'[d] = slot[d]
      /\ IF CardSync THEN slot'[c].of = t ELSE slot'[c] = slot[c]
  BY <1>0, CardTypes DEF Hydrate, Goto, Starting, Preparing, locals, flags
<1>2. /\ c \in Container /\ Works(t) /\ Held(t) /\ HostsClaim(c, t)
      /\ key[c].kind = "claim" /\ key[c].by = t /\ op[t] = "claim"
  BY <1>0, <1>1, StartingHosts, PhaseOps DEF Preparing
<1>3. \A x \in Task \ {t} : SameTask(x)
  BY <1>1 DEF SameTask, hold
<1>4. Held(t)'
  BY <1>0, <1>1, <1>2 DEF Held, Mounts, Starting, Preparing, Teardown, hold
<1>5. HostsClaim(c, t)'
  BY <1>1, <1>2 DEF HostsClaim, OnCard, Mounts, Clean, Starting, Preparing
<1>6. Hosts(c)'
  BY <1>1, <1>2, <1>5 DEF Hosts
<1>7. \A d \in Container \ {c} : SameBroker(d) /\ key'[d] = key[d]
  BY <1>1 DEF SameBroker
<1> QED
  BY <1>0, <1>1, <1>2, <1>3, <1>4, <1>6, <1>7, OwnStep DEF CardInv, FiledIsOwn

(* The game comes up.                                                      *)
LEMMA LaunchCard ==
    ASSUME ControlInv, Calm, CardInv, NEW t \in Task, Launch(t)
    PROVE  CardInv'
<1>0. PICK c \in Container : c = at[t]
  BY CardTypes
<1>1. /\ pc[t] = "launch" /\ Starting(t) /\ pc'[t] = "stamp" /\ emu'[c] = t
      /\ UNCHANGED <<key, slot, dying, adoption, filed, op, at, sess, hold,
                     probe, safe, saved, waits>>
      /\ \A x \in Task \ {t} : pc'[x] = pc[x]
      /\ \A d \in Container \ {c} : emu'[d] = emu[d] /\ exitState'[d] = exitState[d]
  BY <1>0, CardTypes DEF Launch, Goto, Starting, Preparing, locals, flags
<1>2. /\ c \in Container /\ Works(t) /\ Held(t) /\ HostsClaim(c, t)
      /\ key[c].kind = "claim" /\ key[c].by = t /\ op[t] \in {"claim", "desktop"}
  BY <1>0, <1>1, StartingHosts
<1>3. \A x \in Task \ {t} : SameTask(x)
  BY <1>1 DEF SameTask, hold
<1>4. Held(t)'
  BY <1>0, <1>1, <1>2 DEF Held, Mounts, Starting, Preparing, Teardown, hold
<1>5. HostsClaim(c, t)'
  BY <1>1, <1>2 DEF HostsClaim, OnCard, Mounts, Clean, Starting, Preparing
<1>6. Hosts(c)'
  BY <1>1, <1>2, <1>5 DEF Hosts
<1>7. \A d \in Container \ {c} : SameBroker(d) /\ key'[d] = key[d]
  BY <1>1 DEF SameBroker
<1> QED
  BY <1>0, <1>1, <1>2, <1>3, <1>4, <1>6, <1>7, OwnStep DEF CardInv, FiledIsOwn

(* The claim says that it is launched.                                     *)
LEMMA StampCard ==
    ASSUME ControlInv, Calm, CardInv, NEW t \in Task, Stamp(t)
    PROVE  CardInv'
<1>0. PICK c \in Container : c = at[t]
  BY CardTypes
<1>1. /\ pc[t] = "stamp" /\ Starting(t) /\ pc'[t] = "done"
      /\ UNCHANGED <<broker, op, at, sess, hold, probe, safe, saved, waits>>
      /\ \A x \in Task \ {t} : pc'[x] = pc[x]
      /\ \A d \in Container \ {c} : key'[d] = key[d]
  BY <1>0, CardTypes DEF Stamp, Goto, Starting, Preparing, locals, flags
<1>2. /\ c \in Container /\ Works(t) /\ Held(t) /\ HostsClaim(c, t)
      /\ key[c].kind = "claim" /\ key[c].by = t /\ op[t] \in {"claim", "desktop"}
      /\ key[c] \in Claim
  BY <1>0, <1>1, StartingHosts
<1>3. /\ key'[c].kind = "claim" /\ key'[c].by = t /\ key'[c].card = key[c].card
      /\ key'[c].stale = key[c].stale
  <2>1. key'[c] = key[c] \/ key'[c] = [key[c] EXCEPT !.launched = TRUE]
    BY <1>0, CardTypes DEF Stamp
  <2> QED
    BY <1>2, <2>1 DEF Claim
<1>4. \A x \in Task \ {t} : SameTask(x)
  BY <1>1 DEF SameTask, hold
<1>5. Held(t)'
  BY <1>0, <1>1, <1>2 DEF Held, Mounts, Starting, Preparing, Teardown, hold
<1>6. HostsClaim(c, t)'
  BY <1>1, <1>2, <1>3 DEF HostsClaim, OnCard, Mounts, Clean, Starting, Preparing, broker
<1>7. Hosts(c)'
  BY <1>3, <1>6 DEF Hosts
<1>8. \A d \in Container \ {c} : SameBroker(d) /\ key'[d] = key[d]
  BY <1>1 DEF SameBroker, broker
<1> QED
  BY <1>0, <1>1, <1>2, <1>4, <1>5, <1>7, <1>8, OwnStep DEF CardInv, FiledIsOwn, broker

(* The claim backs out and frees its container.                            *)
LEMMA AbortCard ==
    ASSUME ControlInv, Calm, CardInv, NEW t \in Task, Abort(t)
    PROVE  CardInv'
<1>0. PICK c \in Container : c = at[t]
  BY CardTypes
<1>1. /\ pc[t] = "abort" /\ Starting(t) /\ pc'[t] = "failed"
      /\ UNCHANGED <<emu, slot, exitState, dying, adoption, op, at, sess, hold,
                     probe, safe, saved, waits>>
      /\ \A x \in Task \ {t} : pc'[x] = pc[x]
      /\ filed' \subseteq filed
  BY CardTypes DEF Abort, Goto, Starting, Preparing, locals, flags
<1>2. /\ c \in Container /\ Works(t) /\ Held(t) /\ HostsClaim(c, t)
      /\ key[c].kind = "claim" /\ key[c].by = t /\ op[t] \in {"claim", "desktop"}
      /\ sess[t] \in Claim /\ sess[t].by = t
  BY <1>0, <1>1, StartingHosts
<1>3. key'[c] = NoKey /\ \A d \in Container \ {c} : key'[d] = key[d]
  <2>1. same_claim(key[c], sess[t])
    BY <1>2 DEF same_claim, Claim
  <2> QED
    BY <1>0, <2>1, CardTypes DEF Abort, release_own_session, Calm, May
<1>4. \A x \in Task \ {t} : SameTask(x)
  BY <1>1 DEF SameTask, hold
<1>5. Held(t)'
  BY <1>0, <1>1, <1>2 DEF Held, Mounts, Starting, Preparing, Teardown, hold
<1>6. HostsNobody(c)'
  BY <1>1, <1>2 DEF HostsClaim, HostsNobody, Clean
<1>7. Hosts(c)'
  BY <1>3, <1>6 DEF Hosts, NoKey
<1>8. FiledIsOwn'
  BY <1>1 DEF CardInv, FiledIsOwn
<1>9. \A d \in Container \ {c} : SameBroker(d) /\ key'[d] = key[d]
  BY <1>1, <1>3 DEF SameBroker
<1> QED
  BY <1>0, <1>1, <1>2, <1>4, <1>5, <1>7, <1>8, <1>9, OwnStep

-----------------------------------------------------------------------------
(* Tearing a session down.                                                 *)

(* A session that began is no working task and not the teardown itself.    *)
LEMMA TeardownOf ==
    ASSUME ControlInv, Calm, CardInv, NEW t \in Task, op[t] \in {"release", "takeover"}
    PROVE  /\ sess[t] \in Claim /\ sess[t].by \in Task /\ sess[t].by # t
           /\ Began(sess[t].by) /\ Held(t)
           /\ sess[t].card = (IF Mounts(sess[t].by) THEN sess[t].by ELSE Nobody)
<1>1. Held(t)
  BY DEF CardInv
<1>2. sess[t].kind = "claim" /\ Began(sess[t].by)
  BY <1>1 DEF Held
<1>3. sess[t] \in Claim /\ sess[t].by \in Task
  BY <1>2, CardTypes, KeyKinds
<1> QED
  BY <1>1, <1>2, <1>3 DEF Held, Began

(* A marker lands on the claim of a session that began.                    *)
LEMMA MarkerCard ==
    ASSUME ControlInv, Calm, CardInv, NEW t \in Task, pc[t] \in {"mark", "takeover"},
           MarkerLands(t, "marker"), Goto(t, "stop"), tok' = [tok EXCEPT ![t] = TRUE],
           UNCHANGED <<broker, op, at, sess, lapsed, probe, safe, saved, waits>>
    PROVE  CardInv'
<1>0. PICK c \in Container : c = at[t]
  BY CardTypes
<1>1. op[t] \in {"release", "takeover"} /\ ~Works(t) /\ pc[t] # "done"
  BY PhaseOps DEF Works, Starting, Preparing, Teardown
<1>2. PICK b \in Task : b = sess[t].by
  BY <1>1, TeardownOf
<1>3. b # t /\ Began(b) /\ Held(t)
  BY <1>1, <1>2, TeardownOf
<1>4. key[c].kind = "claim" /\ key[c].by = b /\ HostsClaim(c, b)
  BY <1>0, <1>2 DEF MarkerLands, same_claim, CardInv, Hosts
<1>5. /\ key'[c] = drain_marker(t, "marker")
      /\ \A d \in Container \ {c} : SameBroker(d) /\ key'[d] = key[d]
  BY <1>0, CardTypes DEF MarkerLands, SameBroker, broker
<1>6. /\ pc'[t] = "stop" /\ tok'[t]
      /\ \A x \in Task \ {t} : SameTask(x)
  BY CardTypes DEF Goto, SameTask
<1>7. \A x \in Task \ {t} : Works(x) => at[x] # c
  BY <1>3, <1>4, WorksAlone DEF Began, Works, Starting, Preparing, Teardown
<1>8. Began(b)' /\ (Mounts(b)' <=> Mounts(b)) /\ at'[t] = c /\ sess'[t].by = b
  BY <1>0, <1>2, <1>3, <1>6 DEF SameTask, Began, Mounts
<1>9. Held(t)'
  BY <1>1, <1>2, <1>3, <1>5, <1>6, <1>8
  DEF Held, Mounts, Starting, Preparing, Teardown, own_marker, drain_marker
<1>10. HostsTeardown(c, t)'
  <2>1. emu[c] = b /\ OnCard(c, b)
    BY <1>3, <1>4 DEF HostsClaim, Began
  <2>2. OnCard(c, b)'
    BY <1>8, <2>1 DEF OnCard, Clean, broker
  <2> QED
    BY <1>6, <1>8, <2>1, <2>2 DEF HostsTeardown, Teardown, broker
<1>11. Hosts(c)'
  BY <1>5, <1>10 DEF Hosts, drain_marker
<1> QED
  BY <1>1, <1>5, <1>6, <1>7, <1>9, <1>11, StepAt DEF CardInv, FiledIsOwn, broker

(* The opening of a teardown.                                              *)
LEMMA MarkCard ==
    ASSUME ControlInv, Calm, CardInv, NEW t \in Task, Mark(t) \/ TakeoverMark(t)
    PROVE  CardInv'
<1>1. /\ UNCHANGED <<broker, op, at, sess, lapsed, probe, safe, saved, waits>>
      /\ pc[t] \in {"mark", "takeover"}
  BY DEF Mark, TakeoverMark
<1>2. \/ MarkerLands(t, "marker") /\ Goto(t, "stop") /\ tok' = [tok EXCEPT ![t] = TRUE]
      \/ Goto(t, "done") /\ UNCHANGED <<key, tok>> /\ pc[t] = "mark"
      \/ Goto(t, "failed") /\ UNCHANGED <<key, tok>>
  BY DEF Mark, TakeoverMark, Drain, MarkerContended, Calm, May
<1>3. CASE MarkerLands(t, "marker") /\ Goto(t, "stop") /\ tok' = [tok EXCEPT ![t] = TRUE]
  BY <1>1, <1>3, MarkerCard
<1>4. CASE \/ Goto(t, "done") /\ UNCHANGED <<key, tok>> /\ pc[t] = "mark"
           \/ Goto(t, "failed") /\ UNCHANGED <<key, tok>>
  <2>1. /\ pc'[t] = "failed" \/ (pc'[t] = "done" /\ pc[t] = "mark")
        /\ \A x \in Task \ {t} : pc'[x] = pc[x]
        /\ \A d \in Container : SameKey(d)
    BY <1>4, CardTypes DEF Goto, SameKey
  <2>2. UNCHANGED tok
    BY <1>4
  <2> QED
    BY <1>1, <2>1, <2>2, MovesAside
<1> QED
  BY <1>2, <1>3, <1>4

(* What a teardown may rely on.                                            *)
LEMMA TeardownHosts ==
    ASSUME ControlInv, Calm, CardInv, NEW t \in Task, pc[t] \in Teardown, NEW c, c = at[t]
    PROVE  /\ c \in Container /\ Works(t) /\ Held(t) /\ HostsTeardown(c, t)
           /\ op[t] \in {"release", "takeover"} /\ tok[t] /\ own_marker(key[c], t)
<1>1. /\ c \in Container /\ Works(t) /\ Held(t) /\ Hosts(c)
      /\ op[t] \in {"release", "takeover"}
  BY CardTypes, PhaseOps DEF CardInv, Works
<1>2. tok[t] /\ own_marker(key[c], t)
  BY <1>1 DEF Held
<1> QED
  BY <1>1, <1>2 DEF Hosts, own_marker

(* A teardown goes on to its next phase.                                   *)
LEMMA TeardownStep ==
    ASSUME ControlInv, Calm, CardInv, NEW t \in Task, pc[t] \in Teardown,
           NEW p \in Teardown, Goto(t, p), NEW c, c = at[t],
           UNCHANGED <<key, dying, adoption, op, at, sess, hold, probe, waits>>,
           \A x \in Task \ {t} : safe'[x] = safe[x] /\ saved'[x] = saved[x],
           \A d \in Container \ {c} :
             emu'[d] = emu[d] /\ slot'[d] = slot[d] /\ exitState'[d] = exitState[d],
           FiledIsOwn', HostsTeardown(c, t)'
    PROVE  CardInv'
<1>1. /\ c \in Container /\ Works(t) /\ Held(t) /\ op[t] \in {"release", "takeover"}
      /\ tok[t] /\ own_marker(key[c], t)
  BY TeardownHosts
<1>2. pc'[t] = p /\ \A x \in Task \ {t} : SameTask(x)
  BY CardTypes DEF Goto, SameTask, hold
<1>3. PICK b \in Task : b = sess[t].by
  BY <1>1, TeardownOf
<1>4. b # t /\ Began(b) /\ sess[t].kind = "claim"
      /\ sess[t].card = (IF Mounts(b) THEN b ELSE Nobody)
  BY <1>1, <1>3, TeardownOf DEF Held
<1>5. Began(b)' /\ (Mounts(b)' <=> Mounts(b))
  BY <1>2, <1>4 DEF SameTask, Began, Mounts
<1>6. Held(t)'
  BY <1>1, <1>2, <1>3, <1>4, <1>5
  DEF Held, Mounts, Starting, Preparing, Teardown, hold
<1>7. Hosts(c)'
  BY <1>1 DEF Hosts, own_marker
<1>8. \A d \in Container \ {c} : SameBroker(d) /\ key'[d] = key[d]
  BY DEF SameBroker
<1> QED
  BY <1>1, <1>2, <1>6, <1>7, <1>8, OwnStep

(* The game is stopped, and its exit state is its own.                     *)
LEMMA StopCard ==
    ASSUME ControlInv, Calm, CardInv, NEW t \in Task, Stop(t)
    PROVE  CardInv'
<1>0. PICK c \in Container : c = at[t]
  BY CardTypes
<1>1. /\ pc[t] = "stop" /\ pc[t] \in Teardown /\ "evacuate" \in Teardown
      /\ Goto(t, "evacuate") /\ pc'[t] = "evacuate"
      /\ UNCHANGED <<key, dying, adoption, op, at, sess, hold, probe, waits, slot, filed, safe>>
      /\ \A x \in Task \ {t} : pc'[x] = pc[x]
  BY CardTypes DEF Stop, Teardown, Goto
<1>2. PICK state \in BOOLEAN : Stopped(t, state)
  BY DEF Stop, Calm, May
<1>3. /\ emu'[c] = Nobody /\ saved'[t] = state /\ (state => exitState'[c] = emu[c])
      /\ \A x \in Task \ {t} : saved'[x] = saved[x]
      /\ \A d \in Container \ {c} : emu'[d] = emu[d] /\ exitState'[d] = exitState[d]
  BY <1>0, <1>2, CardTypes DEF Stopped
<1>4. HostsTeardown(c, t) /\ op[t] \in {"release", "takeover"}
  BY <1>0, <1>1, TeardownHosts
<1>5. PICK b \in Task : b = sess[t].by
  BY <1>4, TeardownOf
<1>6. emu[c] = b /\ OnCard(c, b)
  BY <1>1, <1>4, <1>5 DEF HostsTeardown
<1>7. OnCard(c, b)'
  BY <1>1, <1>6 DEF OnCard, Mounts, Clean
<1>8. HostsTeardown(c, t)'
  BY <1>0, <1>1, <1>3, <1>5, <1>6, <1>7 DEF HostsTeardown
<1> QED
  BY <1>0, <1>1, <1>3, <1>8, TeardownStep DEF CardInv, FiledIsOwn

(* The card is captured: it is the session's own.                          *)
LEMMA EvacuateCard ==
    ASSUME ControlInv, Calm, CardInv, NEW t \in Task, Evacuate(t)
    PROVE  CardInv'
<1>0. PICK c \in Container : c = at[t]
  BY CardTypes
<1>1. /\ pc[t] = "evacuate" /\ pc[t] \in Teardown /\ "wipe" \in Teardown
      /\ Goto(t, "wipe") /\ pc'[t] = "wipe"
      /\ UNCHANGED <<key, emu, exitState, dying, adoption, op, at, sess, hold, probe, saved,
                     waits>>
      /\ \A x \in Task \ {t} : pc'[x] = pc[x] /\ safe'[x] = safe[x]
      /\ \A d \in Container \ {c} : slot'[d] = slot[d]
  BY <1>0, CardTypes DEF Evacuate, Teardown, Goto
<1>2. HostsTeardown(c, t) /\ op[t] \in {"release", "takeover"}
  BY <1>0, <1>1, TeardownHosts
<1>3. PICK b \in Task : b = sess[t].by
  BY <1>2, TeardownOf
<1>4. /\ Began(b) /\ sess[t].kind = "claim"
      /\ sess[t].card = (IF Mounts(b) THEN b ELSE Nobody)
  BY <1>2, <1>3, TeardownOf DEF Held
<1>5. emu[c] = Nobody /\ (saved[t] => exitState[c] = b) /\ OnCard(c, b)
  BY <1>1, <1>2, <1>3 DEF HostsTeardown
<1>6. b # Nobody
  BY TaskAssumption
<1>7. CASE Mounts(b)
  <2>1. sess[t].card = b /\ slot[c].of = b /\ CardSync /\ ~CardGone(b)
    BY <1>4, <1>5, <1>7 DEF OnCard, Mounts, CardGone, Began
  <2>2. /\ safe'[t] /\ filed' = filed \cup {<<b, b>>}
        /\ slot'[c] = [slot[c] EXCEPT !.unsaved = FALSE]
    BY <1>0, <1>4, <1>6, <2>1, CardTypes DEF Evacuate, Calm, May
  <2>3. slot'[c].of = b /\ ~slot'[c].unsaved
    BY <2>1, <2>2, CardTypes DEF Card
  <2>4. FiledIsOwn'
    BY <2>2 DEF CardInv, FiledIsOwn
  <2>5. HostsTeardown(c, t)'
    BY <1>0, <1>1, <1>3, <1>5, <1>7, <2>2, <2>3 DEF HostsTeardown, OnCard, Mounts
  <2> QED
    BY <1>0, <1>1, <2>4, <2>5, TeardownStep
<1>8. CASE ~Mounts(b)
  <2>1. ~safe'[t] /\ UNCHANGED <<filed, slot>>
    BY <1>4, <1>8, CardTypes DEF Evacuate
  <2>2. HostsTeardown(c, t)'
    BY <1>0, <1>1, <1>3, <1>5, <1>8, <2>1 DEF HostsTeardown, OnCard, Mounts, Clean
  <2>3. FiledIsOwn'
    BY <2>1 DEF CardInv, FiledIsOwn
  <2> QED
    BY <1>0, <1>1, <2>2, <2>3, TeardownStep
<1> QED
  BY <1>7, <1>8

(* The captured card is wiped.                                             *)
LEMMA WipeCard ==
    ASSUME ControlInv, Calm, CardInv, NEW t \in Task, Wipe(t)
    PROVE  CardInv'
<1>0. PICK c \in Container : c = at[t]
  BY CardTypes
<1>1. /\ pc[t] = "wipe" /\ pc[t] \in Teardown /\ "pull" \in Teardown
  BY DEF Wipe, Teardown
<1>2. HostsTeardown(c, t) /\ op[t] \in {"release", "takeover"}
  BY <1>0, <1>1, TeardownHosts
<1>3. /\ Goto(t, "pull") /\ pc'[t] = "pull"
      /\ UNCHANGED <<key, emu, exitState, dying, adoption, op, at, sess, hold, probe, saved,
                     waits, safe, filed>>
      /\ \A d \in Container \ {c} : slot'[d] = slot[d]
      /\ slot'[c] = IF safe[t] THEN Blank ELSE slot[c]
  BY <1>0, <1>2, CardTypes DEF Wipe, Goto, locals, flags, Calm, May
<1>4. PICK b \in Task : b = sess[t].by
  BY <1>2, TeardownOf
<1>5. /\ emu[c] = Nobody /\ (saved[t] => exitState[c] = b) /\ OnCard(c, b)
      /\ safe[t] <=> Mounts(b)
  BY <1>1, <1>2, <1>4 DEF HostsTeardown
<1>6. Clean(c)'
  BY <1>3, <1>5 DEF Clean, OnCard, Blank
<1>7. HostsTeardown(c, t)'
  BY <1>0, <1>1, <1>3, <1>4, <1>5, <1>6 DEF HostsTeardown
<1> QED
  BY <1>0, <1>1, <1>3, <1>7, TeardownStep DEF CardInv, FiledIsOwn

(* The exit state is filed, which is the stopped game's.                   *)
LEMMA PullCard ==
    ASSUME ControlInv, Calm, CardInv, NEW t \in Task, Pull(t)
    PROVE  CardInv'
<1>0. PICK c \in Container : c = at[t]
  BY CardTypes
<1>1. pc[t] = "pull" /\ pc[t] \in Teardown /\ "drop" \in Teardown
  BY DEF Pull, Teardown
<1>2. HostsTeardown(c, t) /\ op[t] \in {"release", "takeover"} /\ Held(t)
  BY <1>0, <1>1, TeardownHosts
<1>3. /\ Goto(t, "drop") /\ pc'[t] = "drop"
      /\ UNCHANGED <<key, emu, slot, exitState, dying, adoption, op, at, sess, hold, probe,
                     saved, waits, safe>>
  BY <1>2, CardTypes DEF Pull, Goto, locals, flags
<1>4. PICK b \in Task : b = sess[t].by
  BY <1>2, TeardownOf
<1>5. emu[c] = Nobody /\ (saved[t] => exitState[c] = b) /\ Clean(c)
  BY <1>1, <1>2, <1>4 DEF HostsTeardown
<1>6. FiledIsOwn'
  <2>1. filed' = filed \/ (HasState(t) /\ filed' = filed \cup {<<b, exitState[c]>>})
    BY <1>0, <1>4 DEF Pull
  <2>2. HasState(t) => exitState[c] = b
    BY <1>2, <1>5 DEF HasState, Held
  <2> QED
    BY <2>1, <2>2 DEF CardInv, FiledIsOwn
<1>7. HostsTeardown(c, t)'
  BY <1>0, <1>1, <1>3, <1>4, <1>5 DEF HostsTeardown, Clean
<1> QED
  BY <1>0, <1>1, <1>3, <1>6, <1>7, TeardownStep

(* The marker goes, and the container is empty.                            *)
LEMMA DropCard ==
    ASSUME ControlInv, Calm, CardInv, NEW t \in Task, Drop(t)
    PROVE  CardInv'
<1>0. PICK c \in Container : c = at[t]
  BY CardTypes
<1>1. /\ pc[t] = "drop" /\ pc[t] \in Teardown /\ pc'[t] = "done"
      /\ UNCHANGED <<broker, op, at, sess, hold, probe, safe, saved, waits>>
      /\ \A x \in Task \ {t} : pc'[x] = pc[x]
  BY CardTypes DEF Drop, Goto, Teardown, locals, flags
<1>2. /\ c \in Container /\ Works(t) /\ Held(t) /\ HostsTeardown(c, t)
      /\ op[t] \in {"release", "takeover"} /\ tok[t] /\ own_marker(key[c], t)
  BY <1>0, <1>1, TeardownHosts
<1>3. key'[c] = NoKey /\ \A d \in Container \ {c} : key'[d] = key[d]
  BY <1>0, <1>2, CardTypes DEF Drop, drop_drain_marker, Calm, May
<1>4. \A x \in Task \ {t} : SameTask(x)
  BY <1>1 DEF SameTask, hold
<1>5. PICK b \in Task : b = sess[t].by
  BY <1>2, TeardownOf
<1>6. b # t /\ Began(b) /\ sess[t].kind = "claim"
      /\ sess[t].card = (IF Mounts(b) THEN b ELSE Nobody)
  BY <1>2, <1>5, TeardownOf DEF Held
<1>7. Began(b)' /\ (Mounts(b)' <=> Mounts(b))
  BY <1>4, <1>6 DEF SameTask, Began, Mounts
<1>8. Held(t)'
  BY <1>1, <1>2, <1>5, <1>6, <1>7
  DEF Held, Mounts, Starting, Preparing, Teardown, hold
<1>9. HostsNobody(c)'
  BY <1>1, <1>2 DEF HostsTeardown, HostsNobody, Clean, broker
<1>10. Hosts(c)'
  BY <1>3, <1>9 DEF Hosts, NoKey
<1>11. \A d \in Container \ {c} : SameBroker(d) /\ key'[d] = key[d]
  BY <1>1, <1>3 DEF SameBroker, broker
<1> QED
  BY <1>0, <1>1, <1>2, <1>4, <1>8, <1>10, <1>11, OwnStep DEF CardInv, FiledIsOwn, broker
-----------------------------------------------------------------------------
(* Whose game runs on whose card.                                          *)

(* A game runs under its own claim, or under the marker of the teardown    *)
(* that is about to stop it, and on its own card.                          *)
LEMMA RunningGame ==
    ASSUME ControlInv, Calm, CardInv, NEW c \in Container, emu[c] # Nobody
    PROVE  /\ emu[c] \in Task /\ key[c].kind \in {"claim", "marker"}
           /\ key[c].by \in Task /\ OnCard(c, emu[c])
           /\ key[c].kind = "claim" => key[c].by = emu[c] /\ pc[emu[c]] \in {"stamp", "done"}
           /\ key[c].kind = "marker" => /\ pc[key[c].by] = "stop" /\ at[key[c].by] = c
                                        /\ sess[key[c].by].by = emu[c]
<1>1. /\ emu[c] \in Task /\ key[c].kind \in {"claim", "marker"} /\ key[c].by \in Task
      /\ Hosts(c)
  BY CardTypes DEF CardInv, Hosts, HostsNobody
<1>2. CASE key[c].kind = "claim"
  BY <1>1, <1>2 DEF Hosts, HostsClaim
<1>3. CASE key[c].kind = "marker"
  BY <1>1, <1>3 DEF Hosts, HostsTeardown
<1> QED
  BY <1>1, <1>2, <1>3

(* The player plays, on the card that is in the slot.                      *)
LEMMA PlayCard ==
    ASSUME ControlInv, Calm, CardInv, NEW c \in Container, Play(c)
    PROVE  CardInv'
<1>1. PICK t \in Task : t = emu[c]
  BY RunningGame DEF Play
<1>2. /\ Mounts(t) /\ slot[c].of = t /\ key[c].kind \in {"claim", "marker"}
      /\ key[c].by \in Task
  BY <1>1, RunningGame DEF Play, Mounts, OnCard
<1>3. slot'[c].of = t /\ \A d \in Container \ {c} : slot'[d] = slot[d]
  BY <1>1, <1>2, CardTypes DEF Play
<1>4. UNCHANGED <<key, emu, exitState, dying, adoption, filed, pc, op, at, sess, tok, probe,
                  safe, saved, waits, lapsed>>
  BY DEF Play, locals, flags, hold
<1>5. /\ \A x \in Task : SameTask(x)
      /\ \A d \in Container : SameKey(d)
      /\ \A d \in Container \ {c} : SameBroker(d)
      /\ BegunStay
  BY <1>3, <1>4 DEF SameTask, SameKey, SameBroker, BegunStay
<1>6. \A x \in Task : Held(x)'
  BY <1>4, <1>5, HeldKeeps, CardTypes DEF CardInv
<1>7. \A d \in Container \ {c} : Hosts(d)'
  BY <1>5, HostsKeeps, CardTypes DEF CardInv
<1>8. Hosts(c)'
  <2>1. CASE key[c].kind = "claim"
    <3>1. key[c].by = t /\ HostsClaim(c, t) /\ pc[t] \in {"stamp", "done"}
      BY <1>1, <2>1, RunningGame DEF CardInv, Hosts, Play
    <3>2. HostsClaim(c, t)'
      BY <1>2, <1>3, <1>4, <3>1 DEF HostsClaim, OnCard, Mounts, Starting
    <3> QED
      BY <1>4, <2>1, <3>1, <3>2 DEF Hosts
  <2>2. CASE key[c].kind = "marker"
    <3>1. PICK u \in Task : u = key[c].by
      BY <1>2
    <3>2. HostsTeardown(c, u) /\ pc[u] = "stop" /\ sess[u].by = t
      BY <1>1, <2>2, <3>1, RunningGame DEF CardInv, Hosts, Play
    <3>3. HostsTeardown(c, u)'
      BY <1>2, <1>3, <1>4, <3>2 DEF HostsTeardown, OnCard, Mounts
    <3> QED
      BY <1>4, <2>2, <3>1, <3>3 DEF Hosts
  <2> QED
    BY <1>2, <2>1, <2>2
<1> QED
  BY <1>4, <1>6, <1>7, <1>8 DEF CardInv, FiledIsOwn

(* No marker expires: its teardown keeps it.                               *)
LEMMA NothingExpires ==
    ASSUME ControlInv, Calm, CardInv, NEW c \in Container
    PROVE  ~Expire(c)
<1>1. SUFFICES ASSUME key[c].kind = "marker" PROVE Kept(c)
  BY DEF Expire, Calm, May
<1>2. PICK u \in Task : u = key[c].by
  BY <1>1, CardTypes
<1>3. at[u] = c /\ pc[u] \in Teardown /\ Held(u)
  BY <1>1, <1>2 DEF CardInv, Hosts, HostsTeardown
<1>4. tok[u] /\ ~lapsed[u]
  BY <1>3, PhaseOps DEF Held
<1> QED
  BY <1>1, <1>2, <1>3, <1>4 DEF Kept, UnderMarker, own_marker

(* Steps that cannot be taken here.                                        *)
LEMMA Impossible ==
    ASSUME ControlInv, Calm, CardInv
    PROVE  /\ \A t \in Task : /\ ~AdoptionFails(t) /\ ~HydrateFails(t) /\ ~LaunchFails(t)
                              /\ ~HoldCeiling(t) /\ ~Crash(t)
                              /\ ~Kill(t) /\ ~ExitPulls(t) /\ ~ExitReleases(t)
                              /\ ~ForceRead(t) /\ ~ForceDelete(t)
           /\ \A c \in Container : ~KillLands(c)
<1>1. \A t \in Task : /\ ~AdoptionFails(t) /\ ~HydrateFails(t) /\ ~LaunchFails(t)
                      /\ ~HoldCeiling(t) /\ ~Crash(t)
  BY DEF AdoptionFails, HydrateFails, LaunchFails, HoldCeiling, Crash, Calm, May
<1>2. \A t \in Task : /\ ~Kill(t) /\ ~ExitPulls(t) /\ ~ExitReleases(t)
                      /\ ~ForceRead(t) /\ ~ForceDelete(t)
  BY PhaseOps DEF Kill, ExitPulls, ExitReleases, ForceRead, ForceDelete
<1> QED
  BY <1>1, <1>2 DEF CardInv, KillLands

(* Every step keeps the invariant.                                         *)
LEMMA NextCard == Calm /\ ControlInv /\ CardInv /\ [Next]_vars => CardInv'
<1> SUFFICES ASSUME Calm, ControlInv, CardInv, [Next]_vars PROVE CardInv'
  OBVIOUS
<1>1. ASSUME NEW t \in Task, Work(t) PROVE CardInv'
  <2>1. CASE Walk(t) \/ SweepSkips(t) \/ AwaitDone(t) \/ Retry(t) \/ DesktopClaim(t)
    BY <2>1, SearchCard
  <2>2. CASE \E u \in Task : SweepSpawns(t, u)
    BY <2>2, SpawnCard
  <2>3. CASE \/ ProbeKnown(t)
             \/ \E i \in {"none", "adopt", "discard"}, r \in BOOLEAN : ProbeAsks(t, i, r)
    BY <2>3, ProbeCard
  <2>4. CASE \/ Settle(t) \/ StoreAdopted(t) \/ RecordAdoption(t) \/ Hydrate(t)
             \/ Launch(t) \/ Stamp(t) \/ Abort(t)
    BY <2>4, SettleCard, StoreCardStep, RecordCardStep, HydrateCard, LaunchCard, StampCard,
        AbortCard
  <2>5. CASE \/ Mark(t) \/ TakeoverMark(t) \/ Stop(t) \/ Evacuate(t) \/ Wipe(t) \/ Pull(t)
             \/ Drop(t)
    BY <2>5, MarkCard, StopCard, EvacuateCard, WipeCard, PullCard, DropCard
  <2>6. CASE refresh_session(t) \/ Heartbeat(t)
    BY <2>6, RefreshCard
  <2> QED
    BY <1>1, <2>1, <2>2, <2>3, <2>4, <2>5, <2>6, Impossible DEF Work
<1>2. ASSUME NEW t \in Task,
             Starts(t) \/ AwaitTimeout(t) \/ HoldMarker(t) \/ HoldClaim(t)
             \/ HoldCeiling(t) \/ Crash(t)
      PROVE  CardInv'
  BY <1>2, StartsCard, SearchCard, ClockCard, Impossible
<1>3. ASSUME NEW c \in Container, KillLands(c) \/ GoStale(c) \/ Expire(c) \/ Play(c)
      PROVE  CardInv'
  BY <1>3, ClockCard, PlayCard, NothingExpires, Impossible
<1>4. CASE UNCHANGED vars
  BY <1>4, ClockCard
<1> QED
  BY <1>1, <1>2, <1>3, <1>4 DEF Next, Quiet

(* The initial states satisfy it: empty containers, idle tasks.            *)
LEMMA InitCard == Init => CardInv
<1> SUFFICES ASSUME Init PROVE CardInv
  OBVIOUS
<1>1. \A t \in Task : Held(t)
  BY DEF Init, Held, Starting, Preparing, Teardown, Mounts
<1>2. \A c \in Container : key[c].kind = "none" /\ HostsNobody(c)
  BY DEF Init, HostsNobody, Clean, Blank, NoKey
<1> QED
  BY <1>1, <1>2 DEF Init, CardInv, Hosts, FiledIsOwn

(* Where nothing goes wrong, the containers go through their sessions in   *)
(* order: what a claim or a teardown relies on holds throughout.           *)
LEMMA SessionsCard == ASSUME Calm PROVE Spec => [](ControlInv /\ CardInv)
<1>1. Init => CardInv
  BY InitCard
<1>2. ControlInv /\ CardInv /\ [Next]_vars => CardInv'
  BY NextCard
<1> QED
  BY <1>1, <1>2, SessionsControl, PTL DEF Spec

(* claim_session: a game runs on its player's card, never on another's.    *)
THEOREM SessionsGameOnOwnCard == ASSUME Calm PROVE Spec => []GameOnOwnCard
<1>1. ControlInv /\ CardInv => GameOnOwnCard
  BY RunningGame DEF GameOnOwnCard, OnCard, Mounts
<1> QED
  BY <1>1, SessionsCard, PTL

-----------------------------------------------------------------------------
(* What a step does to the games and the cards.                            *)

(* The steps that touch a game or a card.                                  *)
LEMMA BrokerSteps ==
    ASSUME Calm, ControlInv, CardInv, Next
    PROVE  \/ UNCHANGED <<emu, slot>>
           \/ \E t \in Task : \/ StoreAdopted(t) \/ RecordAdoption(t) \/ Hydrate(t)
                              \/ Launch(t) \/ Stop(t) \/ Evacuate(t) \/ Wipe(t)
           \/ \E c \in Container : Play(c)
<1>1. ASSUME NEW t \in Task, Work(t)
      PROVE  \/ UNCHANGED <<emu, slot>>
             \/ StoreAdopted(t) \/ RecordAdoption(t) \/ Hydrate(t) \/ Launch(t)
             \/ Stop(t) \/ Evacuate(t) \/ Wipe(t)
  <2>1. CASE \/ Walk(t) \/ SweepSkips(t) \/ (\E u \in Task : SweepSpawns(t, u))
             \/ AwaitDone(t) \/ Retry(t) \/ DesktopClaim(t)
    BY <2>1 DEF Walk, SweepSkips, SweepSpawns, AwaitDone, Retry, DesktopClaim, Win, broker
  <2>2. CASE \/ ProbeKnown(t)
             \/ \E i \in {"none", "adopt", "discard"}, r \in BOOLEAN : ProbeAsks(t, i, r)
             \/ Settle(t) \/ Stamp(t) \/ Abort(t)
    BY <2>2 DEF ProbeKnown, ProbeAsks, Settle, Stamp, Abort, broker
  <2>3. CASE \/ Mark(t) \/ TakeoverMark(t) \/ Pull(t) \/ Drop(t) \/ refresh_session(t)
             \/ Heartbeat(t)
    BY <2>3 DEF Mark, TakeoverMark, Pull, Drop, refresh_session, Heartbeat, broker
  <2> QED
    BY <1>1, <2>1, <2>2, <2>3, Impossible DEF Work
<1>2. ASSUME NEW t \in Task,
             Starts(t) \/ AwaitTimeout(t) \/ HoldMarker(t) \/ HoldClaim(t)
             \/ HoldCeiling(t) \/ Crash(t)
      PROVE  UNCHANGED <<emu, slot>>
  BY <1>2
  DEF Starts, StartClaim, StartDesktop, StartRelease, StartSaveAndExit, StartForce,
      StartControl, StartHeartbeat, Resolve, AwaitTimeout, HoldMarker, HoldClaim,
      HoldCeiling, Crash, broker
<1>3. ASSUME NEW c \in Container, KillLands(c) \/ GoStale(c) \/ Expire(c)
      PROVE  UNCHANGED <<emu, slot>>
  BY <1>3, Impossible DEF GoStale, Expire, broker
<1>4. Quiet => UNCHANGED <<emu, slot>>
  BY DEF Quiet, vars, broker
<1> QED
  BY <1>1, <1>2, <1>3, <1>4 DEF Next

(* hydrate_card_to_broker, wipe_session_card: a card is laid over or taken *)
(* out only when its progress is in the library.                           *)
THEOREM SessionsUnsavedIsKept == ASSUME Calm PROVE Spec => UnsavedIsKept
<1>1. ControlInv /\ CardInv /\ [Next]_vars =>
        [\A c \in Container : slot[c].unsaved => slot'[c].of = slot[c].of]_vars
  <2> SUFFICES ASSUME ControlInv, CardInv, Next, NEW c \in Container, slot[c].unsaved
               PROVE  slot'[c].of = slot[c].of
    OBVIOUS
  <2>1. CASE UNCHANGED <<emu, slot>>
    BY <2>1
  <2>2. ASSUME NEW t \in Task, StoreAdopted(t) \/ RecordAdoption(t) \/ Evacuate(t)
        PROVE  slot'[c].of = slot[c].of
    <3>1. slot \in [Container -> Card] /\ at[t] \in Container
      BY CardTypes
    <3>2. PICK b \in BOOLEAN :
            UNCHANGED slot \/ slot' = [slot EXCEPT ![at[t]].unsaved = b]
      <4>1. CASE StoreAdopted(t) \/ RecordAdoption(t)
        BY <4>1, Zenon DEF StoreAdopted, RecordAdoption
      <4>2. CASE Evacuate(t)
        BY <4>2, Zenon DEF Evacuate
      <4> QED
        BY <2>2, <4>1, <4>2
    <3> QED
      BY <3>1, <3>2 DEF Card
  <2>3. ASSUME NEW t \in Task, Hydrate(t) PROVE slot'[c].of = slot[c].of
    <3>1. CASE at[t] = c /\ CardSync
      <4>1. Starting(t) /\ op[t] = "claim" /\ pc[t] = "hydrate"
        BY <2>3, PhaseOps DEF Hydrate, Starting, Preparing
      <4>2. HostsClaim(c, t) /\ Held(t)
        BY <3>1, <4>1, StartingHosts
      <4> QED
        BY <3>1, <4>1, <4>2 DEF HostsClaim, Held, Clean, Mounts
    <3>2. CASE ~(at[t] = c /\ CardSync)
      BY <2>3, <3>2, CardTypes DEF Hydrate
    <3> QED
      BY <3>1, <3>2
  <2>4. ASSUME NEW t \in Task, Launch(t) \/ Stop(t) PROVE slot'[c].of = slot[c].of
    BY <2>4 DEF Launch, Stop
  <2>5. ASSUME NEW t \in Task, Wipe(t) PROVE slot'[c].of = slot[c].of
    <3>1. CASE at[t] = c
      <4>1. pc[t] = "wipe" /\ pc[t] \in Teardown
        BY <2>5 DEF Wipe, Teardown
      <4>2. ~safe[t]
        BY <3>1, <4>1, TeardownHosts DEF HostsTeardown
      <4> QED
        BY <2>5, <4>2 DEF Wipe
    <3>2. CASE at[t] # c
      BY <2>5, <3>2, CardTypes DEF Wipe
    <3> QED
      BY <3>1, <3>2
  <2>6. ASSUME NEW d \in Container, Play(d) PROVE slot'[c].of = slot[c].of
    BY <2>6, CardTypes DEF Play
  <2> QED
    BY <2>1, <2>2, <2>3, <2>4, <2>5, <2>6, BrokerSteps
<1> QED
  BY <1>1, SessionsCard, PTL DEF Spec, UnsavedIsKept

(* quiesce_container: no task stops the game of a session other than the   *)
(* one it is ending.                                                       *)
THEOREM SessionsStopsOwnGame == ASSUME Calm PROVE Spec => StopsOwnGame
<1> DEFINE Own(c) == \/ \E t \in Task : /\ Steps(t, "stop") \/ Steps(t, "kill")
                                        /\ at[t] = c
                                        /\ sess[t].kind = "claim" /\ sess[t].by = emu[c]
                     \/ c \in dying
<1>1. ControlInv /\ CardInv /\ [Next]_vars =>
        [\A c \in Container : (emu[c] # Nobody /\ emu'[c] # emu[c]) => Own(c)]_vars
  <2> SUFFICES ASSUME ControlInv, CardInv, Next, NEW c \in Container,
                      emu[c] # Nobody, emu'[c] # emu[c]
               PROVE  Own(c)
    OBVIOUS
  <2>1. ASSUME NEW t \in Task, Launch(t) PROVE FALSE
    <3>1. at[t] = c
      BY <2>1, CardTypes DEF Launch
    <3>2. pc[t] = "launch" /\ Starting(t)
      BY <2>1 DEF Launch, Starting
    <3> QED
      BY <3>1, <3>2, StartingHosts DEF HostsClaim
  <2>2. ASSUME NEW t \in Task, Stop(t) PROVE Own(c)
    <3>1. at[t] = c
      BY <2>2, CardTypes DEF Stop, Stopped, Calm, May
    <3>2. pc[t] = "stop" /\ pc[t] \in Teardown /\ pc'[t] = "evacuate"
      BY <2>2, CardTypes DEF Stop, Goto, Teardown
    <3>3. HostsTeardown(c, t) /\ op[t] \in {"release", "takeover"}
      BY <3>1, <3>2, TeardownHosts
    <3>4. sess[t].by = emu[c] /\ sess[t].kind = "claim"
      BY <3>2, <3>3, TeardownOf DEF HostsTeardown, Held
    <3> QED
      BY <3>1, <3>2, <3>4 DEF Steps
  <2>3. ASSUME NEW t \in Task,
               \/ StoreAdopted(t) \/ RecordAdoption(t) \/ Hydrate(t) \/ Evacuate(t)
               \/ Wipe(t)
        PROVE  FALSE
    BY <2>3 DEF StoreAdopted, RecordAdoption, Hydrate, Evacuate, Wipe
  <2>4. ASSUME NEW d \in Container, Play(d) PROVE FALSE
    BY <2>4 DEF Play
  <2> QED
    BY <2>1, <2>2, <2>3, <2>4, BrokerSteps
<1> QED
  BY <1>1, SessionsCard, PTL DEF Spec, StopsOwnGame

=============================================================================
