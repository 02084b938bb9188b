-------------------------- MODULE StreamingSessions --------------------------
(***************************************************************************)
(* A pool of emulator containers, the Redis key that reserves each one and *)
(* the requests and background tasks that work on them: endpoints/         *)
(* streaming.py with handler/streaming/lifecycle.py, launch.py, access.py, *)
(* memory_cards.py and session_store.py.                                   *)
(*                                                                         *)
(* A step is what runs between two awaits: one Redis round trip (a         *)
(* compare-and-set is one step, as SessionCas shows) or one broker call.   *)
(* A task is one request or one background task.  The task that wins a     *)
(* claim is the claim's identity (user_id and claimed_at), the name of the *)
(* card it mounts and of the game it runs; a teardown's task is its drain  *)
(* token.  The broker inside the container is external: only the running   *)
(* game, the card in the slot and the last exit state are kept.            *)
(***************************************************************************)
EXTENDS Naturals, Sequences

CONSTANTS
    Request,     \* requests, each with the background task it leaves behind
    Helper,      \* background takeovers a claim spawns
    Pool,        \* the containers of a platform, in config order
    Ops,         \* the operations requests come in for
    CardSync,    \* memory_card_sync of the pool
    Webstation,  \* whether the pool's brokers speak the webstation protocol
    Mishaps      \* what may go wrong, see AllMishaps

Task == Request \cup Helper
Container == {Pool[n] : n \in 1..Len(Pool)}

AllOps == {"claim", "desktop", "release", "save_and_exit", "force", "control",
           "heartbeat"}

AllMishaps ==
    {"contention",  \* a compare-and-set runs out of attempts
     "failure",     \* a broker call, or storing what it returned, fails
     "crash",       \* the backend dies under a task
     "early_exit",  \* a session is released before its launch returned
     "slow_start",  \* preparing a claim outlasts the stale window
     "overrun",     \* work outlasts _HOLD_CEILING_SECONDS
     "forgotten"}   \* an abandoned session outlives its TTL, nobody claiming

May(mishap) == mishap \in Mishaps

ASSUME PoolAssumption == Len(Pool) \in Nat \ {0}
ASSUME OpsAssumption == Ops \subseteq AllOps
ASSUME MishapsAssumption == Mishaps \subseteq AllMishaps
ASSUME FlagsAssumption == {CardSync, Webstation} \subseteq BOOLEAN

(* Also what a slot holds with no card in it.  The card a container held   *)
(* before it was managed is named by the container.                        *)
Nobody == "nobody"

ASSUME TaskAssumption == /\ Nobody \notin Task \cup Container
                         /\ Task \cap Container = {}

VARIABLES
    key,       \* key[c]: the value at the container's session key
    emu,       \* emu[c]: whose game the broker is running
    slot,      \* slot[c]: whose card is in the slot, with progress not stored
    exitState, \* exitState[c]: whose exit state the broker holds
    dying,     \* containers whose broker is killing the game in the background
    adoption,  \* adoption[c]: the decision on record for the container's card
    filed,     \* library: <<session, whose card or state was filed for it>>
    op, pc,    \* op[t], pc[t]: what task t runs and where it is
    at,        \* at[t]: the container t works on
    sess,      \* sess[t]: the session record t read
    tok,       \* tok[t]: t's drain marker landed
    blank,     \* blank[t]: claim t created the card it mounts
    probe,     \* probe[t]: what claim t's probe of the slot decided
    safe,      \* safe[t]: safe_to_wipe, the evacuation captured the card
    saved,     \* saved[t]: the stop wrote an exit state
    waits,     \* waits[t]: save_and_exit blocks until the game is dead
    lapsed,    \* lapsed[t]: t's keepalive has stopped, or its sweep budget is spent
    beat,      \* beat[t]: t's claim keepalive has restamped the claim
    idx,       \* idx[t]: a claim's place in the pool
    wait       \* wait[t]: the takeover a claim is waiting for

broker == <<emu, slot, exitState, dying, adoption, filed>>
hold == <<tok, lapsed, beat>>
flags == <<hold, blank, probe, safe, saved, waits>>
walk == <<idx, wait>>
locals == <<op, at, sess, flags, walk>>
vars == <<key, broker, pc, locals>>

-----------------------------------------------------------------------------
(* Session records.                                                        *)

NoKey == [kind |-> "none"]
Claim == [kind: {"claim"}, by: Task, card: Task \cup {Nobody},
          stale: BOOLEAN, launched: BOOLEAN]
Marker == [kind: {"marker"}, by: Task, ttl: {"drain", "marker", "full"}]
KeyValue == {NoKey} \cup Claim \cup Marker

Card == [of: Task \cup Container \cup {Nobody}, unsaved: BOOLEAN]
Blank == [of |-> Nobody, unsaved |-> FALSE]

(* Variant: a claim is a claim, whoever took it.                           *)
any_claim(s, claim) == s.kind = "claim" /\ claim.kind = "claim"

same_claim(s, claim) == s.kind = "claim" /\ claim.kind = "claim" /\ s.by = claim.by
own_marker(s, t) == s.kind = "marker" /\ s.by = t
drain_marker(t, ttl) == [kind |-> "marker", by |-> t, ttl |-> ttl]
NewClaim(t, card) == [kind |-> "claim", by |-> t, card |-> card,
                      stale |-> FALSE, launched |-> FALSE]

HasRom(s) == s.kind = "claim" /\ op[s.by] = "claim"

(* discard_blank_card went with the abort of the claim that created it.    *)
CardGone(t) == blank[t] /\ pc[t] = "failed"

-----------------------------------------------------------------------------
(* Phases.                                                                 *)

Preparing == {"probe", "settle", "store", "record", "hydrate"}
Teardown == {"stop", "evacuate", "wipe", "pull", "drop"}
Phases == {"idle", "walk", "sweep", "await", "retry", "launch", "stamp", "abort",
           "mark", "takeover", "kill", "exit", "read", "delete", "refresh",
           "beat", "done", "failed", "dead"} \cup Preparing \cup Teardown

Alive(t) == pc[t] \notin {"idle", "done", "failed", "dead"}

(* Work running under a drain marker: a teardown, or the pull of an exit   *)
(* state.  Its keepalive runs until the work ends, the ceiling or a crash. *)
UnderMarker(t) == pc[t] \in Teardown /\ tok[t]
(* Work running under the claim itself: a launch, or a teardown or pull    *)
(* whose marker could not be written.                                      *)
UnderClaim(t) ==
    \/ op[t] = "claim" /\ pc[t] = "launch"
    \/ /\ op[t] \in {"release", "save_and_exit"} /\ ~tok[t]
       /\ pc[t] \in (IF op[t] = "release" THEN Teardown ELSE {"pull", "drop"})

Goto(t, p) == pc' = [pc EXCEPT ![t] = p]

-----------------------------------------------------------------------------
(* Claiming a container: claim_session, _win_container and the desktop.    *)

Init ==
    /\ key = [c \in Container |-> NoKey]
    /\ emu = [c \in Container |-> Nobody]
    /\ slot \in [Container -> Card]
    /\ \A c \in Container : slot[c] \in {Blank, [of |-> c, unsaved |-> TRUE]}
    /\ exitState = [c \in Container |-> Nobody]
    /\ dying = {}
    /\ adoption = [c \in Container |-> "none"]
    /\ filed = {}
    /\ op = [t \in Task |-> "none"]
    /\ pc = [t \in Task |-> "idle"]
    /\ at = [t \in Task |-> Pool[1]]
    /\ sess = [t \in Task |-> NoKey]
    /\ tok = [t \in Task |-> FALSE]
    /\ safe = [t \in Task |-> FALSE]
    /\ blank = [t \in Task |-> FALSE]
    /\ probe = [t \in Task |-> "decided"]
    /\ saved = [t \in Task |-> FALSE]
    /\ waits = [t \in Task |-> TRUE]
    /\ lapsed = [t \in Task |-> FALSE]
    /\ beat = [t \in Task |-> FALSE]
    /\ idx = [t \in Task |-> 1]
    /\ wait = [t \in Task |-> Nobody]

Begin(t, o, p) ==
    /\ pc[t] = "idle"
    /\ t \in Request
    /\ o \in Ops
    /\ op' = [op EXCEPT ![t] = o]
    /\ Goto(t, p)

(* resolve_card picks the card before the claim, or none on a first play.  *)
StartClaim(t) ==
    /\ Begin(t, "claim", "walk")
    /\ \E card \in IF CardSync THEN {t, Nobody} ELSE {Nobody} :
         sess' = [sess EXCEPT ![t] = NewClaim(t, card)]
    /\ UNCHANGED <<key, broker, at, flags, walk>>

(* Variant: the walk does not stop at the container it won.                *)
WinGoesOn(t, c, p) ==
    /\ key[c] = NoKey
    /\ key' = [key EXCEPT ![c] = sess[t]]
    /\ at' = [at EXCEPT ![t] = c]
    /\ UNCHANGED <<broker, pc, op, sess, flags, walk>>

(* try_claim: SET NX, so only a free key is taken.                         *)
Win(t, c, p) ==
    /\ key[c] = NoKey
    /\ key' = [key EXCEPT ![c] = sess[t]]
    /\ at' = [at EXCEPT ![t] = c]
    /\ Goto(t, p)
    /\ UNCHANGED <<broker, op, sess, flags, walk>>

Won == IF CardSync THEN "probe" ELSE "hydrate"

(* Config order, first free wins; when none is, sweep from the start.      *)
Walk(t) ==
    /\ op[t] = "claim" /\ pc[t] = "walk"
    /\ \/ Win(t, Pool[idx[t]], Won)
       \/ /\ key[Pool[idx[t]]] # NoKey
          /\ \/ /\ idx[t] < Len(Pool)
                /\ idx' = [idx EXCEPT ![t] = @ + 1]
                /\ UNCHANGED pc
             \/ /\ idx[t] = Len(Pool)
                /\ idx' = [idx EXCEPT ![t] = 1]
                /\ Goto(t, "sweep")
          /\ UNCHANGED <<key, broker, op, at, sess, flags, wait>>

(* Variant: off by one at the end of the pool.                             *)
NextCandidatePast(t) ==
    /\ idx[t] <= Len(Pool)
    /\ idx' = [idx EXCEPT ![t] = @ + 1]
    /\ Goto(t, "sweep")

(* The sweep moves on to the next container, or answers 409.               *)
NextCandidate(t) ==
    \/ /\ idx[t] < Len(Pool)
       /\ idx' = [idx EXCEPT ![t] = @ + 1]
       /\ Goto(t, "sweep")
    \/ /\ idx[t] = Len(Pool)
       /\ Goto(t, "failed")
       /\ UNCHANGED idx

SweepSkips(t) ==
    LET s == key[Pool[idx[t]]] IN
    /\ pc[t] = "sweep"
    /\ ~(s.kind = "claim" /\ s.stale)
    /\ NextCandidate(t)
    /\ UNCHANGED <<key, broker, op, at, sess, flags, wait>>

(* await_teardown_within_budget spawns the takeover and waits for it.      *)
SweepSpawns(t, u) ==
    LET c == Pool[idx[t]] IN
    /\ pc[t] = "sweep"
    /\ key[c].kind = "claim" /\ key[c].stale
    /\ u \in Helper /\ pc[u] = "idle"
    /\ pc' = [pc EXCEPT ![t] = "await", ![u] = "takeover"]
    /\ op' = [op EXCEPT ![u] = "takeover"]
    /\ at' = [at EXCEPT ![u] = c]
    /\ sess' = [sess EXCEPT ![u] = key[c]]
    /\ wait' = [wait EXCEPT ![t] = u]
    /\ UNCHANGED <<key, broker, flags, idx>>

AwaitDone(t) ==
    /\ pc[t] = "await"
    /\ ~lapsed[t]
    /\ \/ pc[wait[t]] = "done" /\ Goto(t, "retry") /\ UNCHANGED idx
       \/ pc[wait[t]] = "failed" /\ NextCandidate(t)
    /\ UNCHANGED <<key, broker, op, at, sess, flags, wait>>

(* Variant: the claim waits for the takeover for as long as it takes.      *)
AwaitForever(t) == FALSE

(* The budget of the whole sweep is spent; the takeover runs on, shielded. *)
AwaitTimeout(t) ==
    /\ pc[t] = "await"
    /\ lapsed' = [lapsed EXCEPT ![t] = TRUE]
    /\ NextCandidate(t)
    /\ UNCHANGED <<key, broker, op, at, sess, tok, beat, blank, probe, safe, saved,
                   waits, wait>>

Retry(t) ==
    /\ pc[t] = "retry"
    /\ \/ Win(t, Pool[idx[t]], Won)
       \/ /\ key[Pool[idx[t]]] # NoKey
          /\ NextCandidate(t)
          /\ UNCHANGED <<key, broker, op, at, sess, flags, wait>>

(* claim_desktop_session names its container and never takes one over.     *)
StartDesktop(t) ==
    /\ Webstation
    /\ Begin(t, "desktop", "walk")
    /\ sess' = [sess EXCEPT ![t] = NewClaim(t, Nobody)]
    /\ \E n \in 1..Len(Pool) : idx' = [idx EXCEPT ![t] = n]
    /\ UNCHANGED <<key, broker, at, flags, wait>>

DesktopClaim(t) ==
    /\ op[t] = "desktop" /\ pc[t] = "walk"
    /\ \/ Win(t, Pool[idx[t]], "launch")
       \/ /\ key[Pool[idx[t]]] # NoKey
          /\ Goto(t, "failed")
          /\ UNCHANGED <<key, broker, locals>>

-----------------------------------------------------------------------------
(* Preparing the container: the card probe, the settled card, hydration.   *)

(* _probe_container_card: a decision on record is not asked for again.     *)
ProbeKnown(t) ==
    /\ pc[t] = "probe"
    /\ adoption[at[t]] # "none"
    /\ Goto(t, "settle")
    /\ UNCHANGED <<key, broker, locals>>

(* The first claim on a container says what becomes of the card it holds:  *)
(* adopt it, discard it, or nothing, which prompts when there is a card.   *)
ProbeAsks(t, card_import, readable) ==
    LET empty == slot[at[t]].of = Nobody
        stops == \/ ~readable /\ card_import # "discard"
                 \/ readable /\ empty /\ card_import = "adopt"
                 \/ readable /\ ~empty /\ card_import = "none"
    IN
    /\ pc[t] = "probe"
    /\ adoption[at[t]] = "none"
    /\ readable \/ May("failure")
    /\ Goto(t, IF stops THEN "abort" ELSE "settle")
    /\ probe' = [probe EXCEPT ![t] = IF card_import = "adopt" THEN "adopt"
                                                             ELSE "discard"]
    /\ UNCHANGED <<key, broker, op, at, sess, hold, blank, safe, saved, waits, walk>>

(* mutate_session without require: the key may by now be a drain marker or *)
(* somebody else's claim.                                                  *)
RecordCard(s, t) ==
    CASE s.kind = "claim" -> [s EXCEPT !.card = t]
      [] s.kind = "marker" -> [s EXCEPT !.ttl = "full"]
      [] OTHER -> s

(* _settle_memory_card makes a blank for a first play and records its id.  *)
Settle(t) ==
    /\ pc[t] = "settle"
    /\ \/ /\ sess[t].card = Nobody
          /\ sess' = [sess EXCEPT ![t].card = t]
          /\ blank' = [blank EXCEPT ![t] = TRUE]
          /\ \/ key' = [key EXCEPT ![at[t]] = RecordCard(@, t)]
             \/ May("contention") /\ UNCHANGED key
       \/ /\ sess[t].card # Nobody
          /\ UNCHANGED <<sess, blank, key>>
    /\ Goto(t, CASE probe[t] = "decided" -> "hydrate"
                 [] probe[t] = "adopt" -> "store"
                 [] OTHER -> "record")
    /\ UNCHANGED <<broker, op, at, hold, probe, safe, saved, waits, walk>>

(* The adopted card becomes a version of the claim's card.  What the probe *)
(* read is the container's own card: until a decision is on record no      *)
(* claim has laid another down.                                            *)
StoreAdopted(t) ==
    LET c == at[t] IN
    /\ pc[t] = "store"
    /\ filed' = filed \cup {<<t, c>>}
    /\ slot' = [slot EXCEPT ![c].unsaved = @ /\ slot[c].of # c]
    /\ Goto(t, "record")
    /\ UNCHANGED <<key, emu, exitState, dying, adoption, locals>>

(* The adopted card could not be stored, or only as an older version.      *)
AdoptionFails(t) ==
    /\ pc[t] = "store"
    /\ May("failure")
    /\ Goto(t, "abort")
    /\ UNCHANGED <<key, broker, locals>>

(* add_adoption: the first decision stays on record; what the user         *)
(* discarded is nobody's loss.                                             *)
RecordAdoption(t) ==
    LET c == at[t] IN
    /\ pc[t] = "record"
    /\ adoption' = [adoption EXCEPT ![c] = IF @ = "none" THEN probe[t] ELSE @]
    /\ slot' = [slot EXCEPT ![c].unsaved =
                    @ /\ ~(probe[t] = "discard" /\ slot[c].of = c)]
    /\ Goto(t, "hydrate")
    /\ UNCHANGED <<key, emu, exitState, dying, filed, locals>>

(* Variant: a blank card is not pushed.                                    *)
HydrateSkipped(t) ==
    /\ pc[t] = "hydrate"
    /\ Goto(t, "launch")
    /\ UNCHANGED <<key, broker, locals>>

(* hydrate_card_to_broker wipes the slot and lays the claim's card down;   *)
(* without card sync hydration is best-effort and keeps no card.           *)
Hydrate(t) ==
    /\ pc[t] = "hydrate"
    /\ slot' = IF CardSync THEN [slot EXCEPT ![at[t]] = [of |-> t, unsaved |-> FALSE]]
                           ELSE slot
    /\ Goto(t, "launch")
    /\ UNCHANGED <<key, emu, exitState, dying, adoption, filed, locals>>

HydrateFails(t) ==
    /\ pc[t] = "hydrate"
    /\ CardSync
    /\ May("failure")
    /\ Goto(t, "abort")
    /\ UNCHANGED <<key, broker, locals>>

-----------------------------------------------------------------------------
(* run_launch, detached from the request.                                  *)

(* The activate returned: the game is up, and the exit state of the game   *)
(* before it is gone.                                                      *)
Launch(t) ==
    /\ pc[t] = "launch"
    /\ emu' = [emu EXCEPT ![at[t]] = t]
    /\ exitState' = [exitState EXCEPT ![at[t]] = Nobody]
    /\ Goto(t, "stamp")
    /\ UNCHANGED <<key, slot, dying, adoption, filed, locals>>

LaunchFails(t) ==
    /\ pc[t] = "launch"
    /\ May("failure")
    /\ Goto(t, "abort")
    /\ UNCHANGED <<key, broker, locals>>

(* stamp_launched lands only on the claim it was made for.                 *)
Stamp(t) ==
    /\ pc[t] = "stamp"
    /\ \/ /\ same_claim(key[at[t]], sess[t])
          /\ key' = [key EXCEPT ![at[t]].launched = TRUE]
       \/ /\ same_claim(key[at[t]], sess[t]) => May("contention")
          /\ UNCHANGED key
    /\ Goto(t, "done")
    /\ UNCHANGED <<broker, locals>>

(* Variant: an unguarded delete.                                           *)
ReleaseAny(t) == key' = [key EXCEPT ![at[t]] = NoKey]

(* release_own_session: the key goes while it holds the claim released.    *)
release_own_session(t) ==
    \/ /\ same_claim(key[at[t]], sess[t])
       /\ key' = [key EXCEPT ![at[t]] = NoKey]
    \/ /\ same_claim(key[at[t]], sess[t]) => May("contention")
       /\ UNCHANGED key

(* abort_claim: every exit that is not a started session.  A card the      *)
(* claim created goes, with the versions it picked up on the way.          *)
Abort(t) ==
    /\ pc[t] = "abort"
    /\ release_own_session(t)
    /\ filed' = IF blank[t] THEN {f \in filed : f[1] # t} ELSE filed
    /\ Goto(t, "failed")
    /\ UNCHANGED <<emu, slot, exitState, dying, adoption, locals>>

-----------------------------------------------------------------------------
(* Ending a session: release_session, save_and_exit_session and the        *)
(* takeover of an abandoned one.                                           *)

(* get_live_session on the container the caller's session is on.           *)
Resolve(t, c) ==
    /\ key[c].kind = "claim"
    /\ at' = [at EXCEPT ![t] = c]
    /\ sess' = [sess EXCEPT ![t] = key[c]]
    /\ UNCHANGED <<key, broker, flags, walk>>

StartRelease(t, c) ==
    /\ Begin(t, "release", "mark")
    /\ Resolve(t, c)
    /\ key[c].launched \/ May("early_exit")

StartSaveAndExit(t, c) ==
    /\ Begin(t, "save_and_exit", "kill")
    /\ Resolve(t, c)
    /\ key[c].launched \/ May("early_exit")

(* claim_drain_marker: the marker lands while the key holds the claim.     *)
MarkerLands(t, ttl) ==
    /\ same_claim(key[at[t]], sess[t])
    /\ key' = [key EXCEPT ![at[t]] = drain_marker(t, ttl)]

(* It did not land, and nothing says who has the key.  An expiry between   *)
(* the read and the write is reported the same way.                        *)
MarkerContended(t) ==
    /\ May("contention")
    /\ same_claim(key[at[t]], sess[t]) \/ key[at[t]] = NoKey
    /\ UNCHANGED key

(* claim_drain_marker and what its caller does: go on to p under the       *)
(* marker, or under the claim when the write was contended; stop when the  *)
(* key has gone to somebody else.                                          *)
Drain(t, p) ==
    \/ MarkerLands(t, "marker") /\ Goto(t, p) /\ tok' = [tok EXCEPT ![t] = TRUE]
    \/ MarkerContended(t) /\ Goto(t, p) /\ UNCHANGED tok
    \/ ~same_claim(key[at[t]], sess[t]) /\ Goto(t, "done") /\ UNCHANGED <<key, tok>>

(* Variant: the teardown starts without a marker.                          *)
MarkUnguarded(t) ==
    /\ pc[t] = "mark"
    /\ Goto(t, "stop")
    /\ UNCHANGED <<key, broker, locals>>

(* The opening of teardown_released_session.                               *)
Mark(t) ==
    /\ pc[t] = "mark"
    /\ Drain(t, "stop")
    /\ UNCHANGED <<broker, op, at, sess, lapsed, beat, blank, probe, safe, saved,
                   waits, walk>>

(* The opening of _teardown_abandoned_session, which re-checks staleness.  *)
TakeoverMark(t) ==
    /\ pc[t] = "takeover"
    /\ \/ /\ key[at[t]].kind = "claim" /\ key[at[t]].stale
          /\ MarkerLands(t, "marker")
          /\ Goto(t, "stop")
          /\ tok' = [tok EXCEPT ![t] = TRUE]
       \/ /\ (same_claim(key[at[t]], sess[t]) /\ key[at[t]].stale) => May("contention")
          /\ Goto(t, "failed")
          /\ UNCHANGED <<key, tok>>
    /\ UNCHANGED <<broker, op, at, sess, lapsed, beat, blank, probe, safe, saved,
                   waits, walk>>

-----------------------------------------------------------------------------
(* quiesce_container and what follows it, for every kind of teardown.      *)

(* commands.stop: the game dies; a webstation broker may keep its state.   *)
(* The exit state is the running game's, whoever that is.                  *)
Stopped(t, state) ==
    LET c == at[t] IN
    /\ state => emu[c] # Nobody
    /\ emu' = [emu EXCEPT ![c] = Nobody]
    /\ exitState' = IF state THEN [exitState EXCEPT ![c] = emu[c]] ELSE exitState
    /\ saved' = [saved EXCEPT ![t] = state]

Stop(t) ==
    /\ pc[t] = "stop"
    /\ \/ \E state \in IF Webstation THEN BOOLEAN ELSE {FALSE} : Stopped(t, state)
       \/ May("failure") /\ UNCHANGED <<emu, exitState, saved>>
    /\ Goto(t, "evacuate")
    /\ UNCHANGED <<key, slot, dying, adoption, filed, op, at, sess, hold, blank,
                   probe, safe, waits, walk>>

(* Variant: a card that was not read counts as captured.                   *)
EvacuateUnread(t) ==
    /\ pc[t] = "evacuate"
    /\ safe' = [safe EXCEPT ![t] = CardSync]
    /\ Goto(t, "wipe")
    /\ UNCHANGED <<key, broker, op, at, sess, hold, blank, probe, saved, waits, walk>>

(* evacuate_session_card: what is in the slot becomes a version of the     *)
(* session's card.  False when there is no card to file it under, or when  *)
(* it could not be read or stored.                                         *)
Evacuate(t) ==
    LET c == at[t]
        mounts == /\ CardSync
                  /\ sess[t].kind = "claim" /\ sess[t].card # Nobody
                  /\ ~CardGone(sess[t].card)
    IN
    /\ pc[t] = "evacuate"
    /\ \/ /\ mounts
          /\ safe' = [safe EXCEPT ![t] = TRUE]
          /\ filed' = IF slot[c].of = Nobody THEN filed
                      ELSE filed \cup {<<sess[t].card, slot[c].of>>}
          /\ slot' = [slot EXCEPT ![c].unsaved = FALSE]
       \/ /\ mounts => May("failure")
          /\ safe' = [safe EXCEPT ![t] = FALSE]
          /\ UNCHANGED <<filed, slot>>
    /\ Goto(t, "wipe")
    /\ UNCHANGED <<key, emu, exitState, dying, adoption, op, at, sess, hold, blank, probe,
                   saved, waits, walk>>

(* wipe_session_card, only for a card that was captured.                   *)
Wipe(t) ==
    /\ pc[t] = "wipe"
    /\ \/ safe[t] /\ slot' = [slot EXCEPT ![at[t]] = Blank]
       \/ (safe[t] => May("failure")) /\ UNCHANGED slot
    /\ Goto(t, IF op[t] = "save_and_exit" THEN "exit" ELSE "pull")
    /\ UNCHANGED <<key, emu, exitState, dying, adoption, filed, locals>>

(* pull_state, state_slot: an exit state is coming for the session's rom.  *)
HasState(t) == HasRom(sess[t]) /\ (saved[t] \/ ~waits[t])

(* collect_exit_state / pull_state_to_library: blocks until the broker has *)
(* killed the game, then files the exit state under the session's owner.   *)
Pull(t) ==
    LET c == at[t]
        found == HasState(t) /\ exitState[c] # Nobody
    IN
    /\ pc[t] = "pull"
    /\ HasState(t) => c \notin dying
    /\ \/ found /\ filed' = filed \cup {<<sess[t].by, exitState[c]>>}
       \/ (found => May("failure")) /\ UNCHANGED filed
    /\ Goto(t, IF op[t] = "force" THEN "delete" ELSE "drop")
    /\ UNCHANGED <<key, emu, slot, exitState, dying, adoption, locals>>

(* The marker goes while it is the one the task wrote.                     *)
drop_drain_marker(t) ==
    \/ /\ own_marker(key[at[t]], t)
       /\ key' = [key EXCEPT ![at[t]] = NoKey]
    \/ /\ own_marker(key[at[t]], t) => May("contention")
       /\ UNCHANGED key

(* _drop_reservation: the marker while it is the task's own, or the claim. *)
Drop(t) ==
    /\ pc[t] = "drop"
    /\ \/ tok[t] /\ drop_drain_marker(t)
       \/ ~tok[t] /\ release_own_session(t)
    /\ Goto(t, "done")
    /\ UNCHANGED <<broker, locals>>

-----------------------------------------------------------------------------
(* save_and_exit_session: the broker saves and kills first, the key is     *)
(* looked at again only after the card is out.                             *)

(* effective_wait holds the request until the game is dead; a webstation   *)
(* broker has no background variant.                                       *)
Kill(t) ==
    /\ pc[t] = "kill"
    /\ \E w \in IF CardSync THEN {TRUE} ELSE BOOLEAN :
         /\ waits' = [waits EXCEPT ![t] = w]
         /\ \/ /\ w \/ Webstation
               /\ \E state \in BOOLEAN : Stopped(t, state)
               /\ UNCHANGED dying
            \/ /\ ~w /\ ~Webstation
               /\ dying' = dying \cup {at[t]}
               /\ UNCHANGED <<emu, exitState, saved>>
            \/ May("failure") /\ UNCHANGED <<emu, exitState, dying, saved>>
    /\ Goto(t, "evacuate")
    /\ UNCHANGED <<key, slot, adoption, filed, op, at, sess, hold, blank, probe, safe,
                   walk>>

(* The broker's background save and kill, of whatever runs by then.        *)
KillLands(c) ==
    /\ c \in dying
    /\ dying' = dying \ {c}
    /\ emu' = [emu EXCEPT ![c] = Nobody]
    /\ exitState' = [exitState EXCEPT ![c] = IF emu[c] = Nobody THEN @ ELSE emu[c]]
    /\ UNCHANGED <<key, slot, adoption, filed, pc, locals>>

(* An exit state is coming: hold the container for the pull.               *)
ExitPulls(t) ==
    /\ pc[t] = "exit"
    /\ HasState(t)
    /\ Drain(t, "pull")
    /\ UNCHANGED <<broker, op, at, sess, lapsed, beat, blank, probe, safe, saved,
                   waits, walk>>

(* Nothing to pull: the key goes now, or once the drain window has passed  *)
(* when the request did not wait for the game to die.                      *)
ExitReleases(t) ==
    /\ pc[t] = "exit"
    /\ ~HasState(t)
    /\ \/ waits[t] /\ release_own_session(t)
       \/ ~waits[t] /\ \/ MarkerLands(t, "drain")
                       \/ MarkerContended(t)
                       \/ ~same_claim(key[at[t]], sess[t]) /\ UNCHANGED key
    /\ Goto(t, "done")
    /\ UNCHANGED <<broker, locals>>

-----------------------------------------------------------------------------
(* force_release_all: one task per container it listed.                    *)

StartForce(t, c) ==
    /\ Begin(t, "force", "read")
    /\ key[c].kind = "claim"
    /\ at' = [at EXCEPT ![t] = c]
    /\ UNCHANGED <<key, broker, sess, flags, walk>>

ForceRead(t) ==
    /\ pc[t] = "read"
    /\ sess' = [sess EXCEPT ![t] = key[at[t]]]
    /\ Goto(t, "stop")
    /\ UNCHANGED <<key, broker, op, at, flags, walk>>

(* The key goes whatever it holds by now.                                  *)
ForceDelete(t) ==
    /\ pc[t] = "delete"
    /\ key' = [key EXCEPT ![at[t]] = NoKey]
    /\ Goto(t, "done")
    /\ UNCHANGED <<broker, locals>>

-----------------------------------------------------------------------------
(* Requests of a player in a session.                                      *)

StartControl(t, c) == Begin(t, "control", "refresh") /\ Resolve(t, c)
StartHeartbeat(t, c) == Begin(t, "heartbeat", "beat") /\ Resolve(t, c)

(* refresh_session after the broker call: EXPIRE, whatever the key holds.  *)
refresh_session(t) ==
    /\ pc[t] = "refresh"
    /\ key' = IF key[at[t]].kind = "marker"
              THEN [key EXCEPT ![at[t]].ttl = "full"] ELSE key
    /\ Goto(t, "done")
    /\ UNCHANGED <<broker, locals>>

(* heartbeat_session: stamps the claim at the key unless it is draining.   *)
Heartbeat(t) ==
    /\ pc[t] = "beat"
    /\ \/ /\ key[at[t]].kind = "claim"
          /\ key' = [key EXCEPT ![at[t]].stale = FALSE]
       \/ /\ key[at[t]].kind = "claim" => May("contention")
          /\ UNCHANGED key
    /\ Goto(t, "done")
    /\ UNCHANGED <<broker, locals>>

-----------------------------------------------------------------------------
(* Keepalives, clocks and crashes.                                         *)

(* hold_drain_marker: rewrites the task's own marker, stops at another's.  *)
HoldMarker(t) ==
    /\ UnderMarker(t) /\ ~lapsed[t]
    /\ \/ /\ own_marker(key[at[t]], t)
          /\ key' = [key EXCEPT ![at[t]] = drain_marker(t, "marker")]
          /\ UNCHANGED lapsed
       \/ /\ ~own_marker(key[at[t]], t)
          /\ lapsed' = [lapsed EXCEPT ![t] = TRUE]
          /\ UNCHANGED key
    /\ UNCHANGED <<broker, pc, op, at, sess, tok, beat, blank, probe, safe,
                   saved, waits, walk>>

(* hold_session_claim: restamps the claim, stops at another's.             *)
HoldClaim(t) ==
    /\ UnderClaim(t) /\ ~lapsed[t]
    /\ \/ /\ same_claim(key[at[t]], sess[t])
          /\ key' = [key EXCEPT ![at[t]].stale = FALSE]
          /\ beat' = [beat EXCEPT ![t] = TRUE]
          /\ UNCHANGED lapsed
       \/ /\ ~same_claim(key[at[t]], sess[t])
          /\ lapsed' = [lapsed EXCEPT ![t] = TRUE]
          /\ UNCHANGED <<key, beat>>
    /\ UNCHANGED <<broker, pc, op, at, sess, tok, blank, probe, safe, saved,
                   waits, walk>>

(* _HOLD_CEILING_SECONDS: the work runs on, nothing refreshes for it.      *)
HoldCeiling(t) ==
    /\ May("overrun")
    /\ UnderMarker(t) \/ UnderClaim(t)
    /\ ~lapsed[t]
    /\ lapsed' = [lapsed EXCEPT ![t] = TRUE]
    /\ UNCHANGED <<key, broker, pc, op, at, sess, tok, beat, blank, probe, safe,
                   saved, waits, walk>>

(* Variant: no keepalive.                                                  *)
KeptByNobody(c) == FALSE

Kept(c) ==
    \E t \in Task :
      /\ at[t] = c /\ ~lapsed[t]
      /\ \/ UnderMarker(t) /\ own_marker(key[c], t)
         \/ UnderClaim(t) /\ beat[t] /\ same_claim(key[c], sess[t])

(* The claimant still has the container to prepare or to launch on.        *)
Starting(t) == pc[t] \in Preparing \cup {"launch", "stamp", "abort"}

(* _STREAMING_SESSION_STALE_SECONDS pass without a stamp.                  *)
GoStale(c) ==
    /\ key[c].kind = "claim" /\ ~key[c].stale
    /\ ~Kept(c)
    /\ Starting(key[c].by) => May("slow_start")
    /\ key' = [key EXCEPT ![c].stale = TRUE]
    /\ UNCHANGED <<broker, pc, locals>>

(* Variant: a marker is written without a TTL.                             *)
ExpireClaims(c) ==
    /\ key[c].kind = "claim" /\ key[c].stale
    /\ ~Kept(c)
    /\ May("forgotten")
    /\ key' = [key EXCEPT ![c] = NoKey]
    /\ UNCHANGED <<broker, pc, locals>>

(* The TTL runs out: of a claim only long after it went stale, of a marker *)
(* once nothing refreshes it.                                              *)
Expire(c) ==
    /\ key[c].kind = "marker" \/ (key[c].kind = "claim" /\ key[c].stale)
    /\ ~Kept(c)
    /\ key[c].kind = "claim" => May("forgotten")
    /\ key' = [key EXCEPT ![c] = NoKey]
    /\ UNCHANGED <<broker, pc, locals>>

Crash(t) ==
    /\ May("crash")
    /\ Alive(t)
    /\ Goto(t, "dead")
    /\ UNCHANGED <<key, broker, locals>>

(* The player plays: the card in the slot holds progress nobody stored.    *)
Play(c) ==
    /\ CardSync
    /\ emu[c] # Nobody /\ op[emu[c]] = "claim"
    /\ ~slot[c].unsaved
    /\ slot' = [slot EXCEPT ![c] = [of |-> IF @.of = Nobody THEN emu[c] ELSE @.of,
                                    unsaved |-> TRUE]]
    /\ UNCHANGED <<key, emu, exitState, dying, adoption, filed, pc, locals>>

-----------------------------------------------------------------------------
(* The specification.                                                      *)

Starts(t) ==
    \/ StartClaim(t)
    \/ StartDesktop(t)
    \/ \E c \in Container :
         \/ StartRelease(t, c) \/ StartSaveAndExit(t, c) \/ StartForce(t, c)
         \/ StartControl(t, c) \/ StartHeartbeat(t, c)

(* What a task that runs does next.                                        *)
Work(t) ==
    \/ Walk(t) \/ SweepSkips(t) \/ (\E u \in Task : SweepSpawns(t, u))
    \/ AwaitDone(t) \/ Retry(t) \/ DesktopClaim(t)
    \/ ProbeKnown(t)
    \/ \E i \in {"none", "adopt", "discard"}, r \in BOOLEAN : ProbeAsks(t, i, r)
    \/ Settle(t) \/ StoreAdopted(t) \/ AdoptionFails(t) \/ RecordAdoption(t)
    \/ Hydrate(t) \/ HydrateFails(t)
    \/ Launch(t) \/ LaunchFails(t) \/ Stamp(t) \/ Abort(t)
    \/ Mark(t) \/ TakeoverMark(t)
    \/ Stop(t) \/ Evacuate(t) \/ Wipe(t) \/ Pull(t) \/ Drop(t)
    \/ Kill(t) \/ ExitPulls(t) \/ ExitReleases(t)
    \/ ForceRead(t) \/ ForceDelete(t)
    \/ refresh_session(t) \/ Heartbeat(t)

(* Nothing runs, but for sweeps that find no takeover left in the bound.   *)
Quiet ==
    /\ \A t \in Task :
         Alive(t) => pc[t] = "sweep" /\ \A u \in Helper : pc[u] # "idle"
    /\ UNCHANGED vars

Next ==
    \/ \E t \in Task :
         Starts(t) \/ Work(t) \/ AwaitTimeout(t)
         \/ HoldMarker(t) \/ HoldClaim(t) \/ HoldCeiling(t) \/ Crash(t)
    \/ \E c \in Container : KillLands(c) \/ GoStale(c) \/ Expire(c) \/ Play(c)
    \/ Quiet

Spec == Init /\ [][Next]_vars

(* The event loop runs its tasks, the sweep's budget runs out, the broker  *)
(* finishes its kill and Redis expires a key nothing refreshes.            *)
FairSpec ==
    /\ Spec
    /\ \A t \in Task : WF_vars(Work(t)) /\ WF_vars(AwaitTimeout(t))
    /\ \A c \in Container : /\ WF_vars(KillLands(c))
                            /\ WF_vars(GoStale(c)) /\ WF_vars(Expire(c))

-----------------------------------------------------------------------------
(* Properties.                                                             *)

BrokerTypeOK ==
    /\ emu \in [Container -> Task \cup {Nobody}]
    /\ slot \in [Container -> Card]
    /\ exitState \in [Container -> Task \cup {Nobody}]
    /\ dying \in SUBSET Container
    /\ adoption \in [Container -> {"none", "adopt", "discard"}]
    /\ filed \in SUBSET (Task \X (Task \cup Container \cup {Nobody}))

HoldTypeOK ==
    /\ tok \in [Task -> BOOLEAN]
    /\ lapsed \in [Task -> BOOLEAN]
    /\ beat \in [Task -> BOOLEAN]

FlagsTypeOK ==
    /\ HoldTypeOK
    /\ blank \in [Task -> BOOLEAN]
    /\ probe \in [Task -> {"decided", "adopt", "discard"}]
    /\ safe \in [Task -> BOOLEAN]
    /\ saved \in [Task -> BOOLEAN]
    /\ waits \in [Task -> BOOLEAN]

WalkTypeOK ==
    /\ idx \in [Task -> 1..Len(Pool)]
    /\ wait \in [Task -> Task \cup {Nobody}]

(* Every variable has its type.                                            *)
TypeOK ==
    /\ key \in [Container -> KeyValue]
    /\ BrokerTypeOK
    /\ op \in [Task -> Ops \cup {"none", "takeover"}]
    /\ pc \in [Task -> Phases]
    /\ at \in [Task -> Container]
    /\ sess \in [Task -> KeyValue]
    /\ FlagsTypeOK
    /\ WalkTypeOK

(* The phases an operation goes through.                                   *)
InPhase(o, p) ==
    \/ o = "none" /\ p = "idle"
    \/ o # "none" /\ p \in {"done", "failed", "dead"}
    \/ o = "claim" /\ p \in {"walk", "sweep", "await", "retry", "launch", "stamp",
                             "abort"} \cup Preparing
    \/ o = "desktop" /\ p \in {"walk", "launch", "stamp", "abort"}
    \/ o = "release" /\ p \in {"mark"} \cup Teardown
    \/ o = "takeover" /\ p \in {"takeover"} \cup Teardown
    \/ o = "save_and_exit" /\ p \in {"kill", "evacuate", "wipe", "exit", "pull", "drop"}
    \/ o = "force" /\ p \in {"read", "stop", "evacuate", "wipe", "pull", "delete"}
    \/ o = "control" /\ p = "refresh"
    \/ o = "heartbeat" /\ p = "beat"

(* Every task is in a phase of its operation.                              *)
Phased == \A t \in Task : InPhase(op[t], pc[t])

(* A claim works on the session it made, which is its own.                 *)
ClaimsOwnSession ==
    \A t \in Task :
      op[t] \in {"claim", "desktop"} => sess[t].kind = "claim" /\ sess[t].by = t

(* A decision goes on record only when the probe took one.                 *)
RecordsDecision ==
    \A t \in Task : pc[t] \in {"store", "record"} => probe[t] # "decided"

(* A task has a drain token from the step that wrote its marker on.        *)
TokenPlaced ==
    \A t \in Task : tok[t] =>
      \/ op[t] \in {"release", "takeover"} /\ pc[t] \in Teardown \cup {"done", "dead"}
      \/ op[t] = "save_and_exit" /\ pc[t] \in {"pull", "drop", "done", "dead"}

(* teardown_released_session, _teardown_abandoned_session: from the moment *)
(* its marker lands until it drops it, a teardown whose keepalive runs is  *)
(* what reserves the container, so no claim and no other teardown can get  *)
(* in between the stop, the evacuation, the wipe and the pull.             *)
TeardownHoldsMarker ==
    \A t \in Task : (UnderMarker(t) /\ ~lapsed[t]) => own_marker(key[at[t]], t)

(* No progress is left unsaved on a card that another card is laid over or *)
(* that is wiped.                                                          *)
UnsavedIsKept ==
    [][\A c \in Container : slot[c].unsaved => slot'[c].of = slot[c].of]_vars

(* The step of t from phase p.                                             *)
Steps(t, p) == pc[t] = p /\ pc'[t] # p /\ pc'[t] # "dead"

(* teardown_released_session, _settle_memory_card: what a failed teardown  *)
(* left on the card is there until a player answered the prompt for it, so *)
(* no claim lays its own card over progress nobody stored.                 *)
HydrateSparesUnsaved ==
    [][\A t \in Task :
         (Steps(t, "hydrate") /\ slot[at[t]].unsaved) => UNCHANGED slot]_vars

(* evacuate_session_card, collect_exit_state: only a session's own card    *)
(* and exit state are filed for it, besides a card its player adopted.     *)
FiledIsOwn == \A f \in filed : f[2] = f[1] \/ f[2] \in Container

(* claim_session: a game runs on its player's card, never on another's.    *)
GameOnOwnCard ==
    \A c \in Container :
      (CardSync /\ emu[c] # Nobody /\ op[emu[c]] = "claim") => slot[c].of = emu[c]

(* The claim at c's key ends in this step.                                 *)
ClaimEnds(c) == key[c].kind = "claim" /\ ~same_claim(key'[c], key[c])

(* A step of a task that ends the very claim at the key, of a takeover     *)
(* only while that claim is stale, or the claim's TTL running out.         *)
ByItsOwn(c) ==
    \/ \E t \in Task : /\ same_claim(key[c], sess[t]) /\ at[t] = c
                       /\ \/ Steps(t, "mark") \/ Steps(t, "exit") \/ Steps(t, "drop")
                          \/ Steps(t, "abort") \/ Steps(t, "delete")
                          \/ Steps(t, "takeover") /\ key[c].stale
    \/ key[c].stale /\ key'[c] = NoKey /\ UNCHANGED pc

(* release_own_session, claim_drain_marker, the takeover: a claim is ended *)
(* by a task that ends that claim, by a takeover only while it is stale,   *)
(* or by its own TTL.                                                      *)
ClaimEndsByItsOwn ==
    [][\A c \in Container : ClaimEnds(c) => ByItsOwn(c)]_vars

(* quiesce_container, save_and_exit: no task stops the game of a session   *)
(* other than the one it is ending.                                        *)
StopsOwnGame ==
    [][\A c \in Container :
         (emu[c] # Nobody /\ emu'[c] # emu[c]) =>
           \/ \E t \in Task : /\ Steps(t, "stop") \/ Steps(t, "kill")
                              /\ at[t] = c
                              /\ sess[t].kind = "claim" /\ sess[t].by = emu[c]
           \/ c \in dying]_vars

(* evacuate_session_card, wipe_session_card: a card is taken out of a      *)
(* container only while the key is held for the session that mounted it.   *)
EvacuatesUnderReservation ==
    [][\A t \in Task :
         ((Steps(t, "evacuate") \/ Steps(t, "wipe")) /\ slot' # slot) =>
           own_marker(key[at[t]], t) \/ same_claim(key[at[t]], sess[t])]_vars

Reserves(t, c) == key[c].kind # "none" /\ key[c].by = t

(* _win_container: a claim ends up with one container of the pool at most. *)
ClaimHoldsOne ==
    \A c, d \in Container :
      (key[c].kind = "claim" /\ key[d].kind = "claim" /\ key[c].by = key[d].by) => c = d

(* A container comes free once the players' requests stop: no claim and no *)
(* marker outlives the task behind it for good, however that task ended.   *)
ContainerIsFreed ==
    \A c \in Container, t \in Task : Reserves(t, c) ~> ~Reserves(t, c)

(* await_teardown_within_budget: a request ends, also one that waits for a *)
(* takeover that died.                                                     *)
RequestEnds == \A t \in Request : Alive(t) ~> ~Alive(t)

=============================================================================
