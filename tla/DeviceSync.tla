----------------------------- MODULE DeviceSync -----------------------------
(***************************************************************************)
(* One save kept in sync with devices over SSH: compare_save_state         *)
(* (handler/sync/comparison.py) as tasks/sync_push_pull_task.py uses it,   *)
(* while people play on the devices and in the browser (endpoints/         *)
(* saves.py).  A session of play loads a copy, and saves over the copy     *)
(* that is there by then what it loaded and what was played since: neither *)
(* an emulator nor update_save compares first.                             *)
(*                                                                         *)
(* A save is the set of the plays it has in it, so that equal hashes are   *)
(* equal sets and a play is lost when no copy has it.  One worker runs the *)
(* sync jobs, one device at a time; a step of it is what happens between   *)
(* two awaits or two transactions.  Clocks agree; a unit of time is the    *)
(* second of an SFTP mtime, in which several things may happen.            *)
(***************************************************************************)
EXTENDS Naturals, FiniteSets

CONSTANTS
    Device,     \* devices in push_pull mode
    MaxTime,    \* bound on the clock
    MaxPlays    \* bound on the number of plays

ASSUME BoundAssumption == MaxTime \in Nat \ {0} /\ MaxPlays \in Nat

Nobody == "nobody"
ASSUME DeviceAssumption == Nobody \notin Device

VARIABLES
    now,
    plays,      \* plays so far
    dev, mtime, \* each device's file and its modification time
    ram,        \* ram[d]: what the session of play on device d has in it
    file,       \* the server's file
    tab,        \* what the browser's session of play has in it
    hash, updated_at,   \* its row: content_hash, updated_at
    synced,     \* synced[d]: last_synced_at of the device's row, 0: no row
    web,        \* the play update_save has written and not yet recorded, or 0
    pc, cur,    \* the worker: its step, the device it syncs
    listed, got, rowHash, rowTime, last,  \* its locals
    excused     \* history: plays made or recorded during a sync or in the
                \* second of one, those a first sync gave up, those a sync
                \* wrote to the file and not to its row, and those a session
                \* that had not loaded them saved over

serverVars == <<file, hash, updated_at, web>>
deviceVars == <<dev, mtime>>
sessions == <<ram, tab>>
locals == <<listed, got, rowHash, rowTime, last>>
vars == <<now, plays, deviceVars, serverVars, sessions, synced, pc, cur, locals, excused>>

NoLocals == listed = 0 /\ got = {} /\ rowHash = {} /\ rowTime = 0 /\ last = 0

Init ==
    /\ now = 1 /\ plays = 0
    /\ dev = [d \in Device |-> {}] /\ mtime = [d \in Device |-> 1]
    /\ file = {} /\ hash = {} /\ updated_at = 1 /\ web = 0
    /\ ram = [d \in Device |-> {}] /\ tab = {}
    /\ synced = [d \in Device |-> 0]
    /\ pc = "idle" /\ cur = Nobody /\ NoLocals /\ excused = {}

Goto(step) == pc' = step

EndsSync ==
    /\ pc' = "idle" /\ cur' = Nobody
    /\ listed' = 0 /\ got' = {} /\ rowHash' = {} /\ rowTime' = 0 /\ last' = 0

Tick ==
    /\ now < MaxTime /\ now' = now + 1
    /\ UNCHANGED <<plays, sessions, deviceVars, serverVars, synced, pc, cur, locals, excused>>

-----------------------------------------------------------------------------
(* Variant: a change on the device wins over one on the server.            *)
CompareClientFirst(clientHash, clientTs, serverHash, serverTs, lastSynced) ==
    CASE clientHash = serverHash -> "no_op"
      [] clientHash # serverHash /\ clientTs > lastSynced -> "upload"
      [] OTHER -> "download"

compare_save_state(clientHash, clientTs, serverHash, serverTs, lastSynced) ==
    LET clientChanged == clientTs > lastSynced
        serverChanged == serverTs > lastSynced
    IN  CASE clientHash = serverHash -> "no_op"
          [] clientHash # serverHash /\ lastSynced # 0 ->
               (CASE clientChanged /\ serverChanged -> "conflict"
                  [] clientChanged /\ ~serverChanged -> "upload"
                  [] ~clientChanged /\ serverChanged -> "download"
                  [] OTHER -> "no_op")
          [] OTHER ->
               (CASE clientTs > serverTs -> "upload"
                  [] serverTs > clientTs -> "download"
                  [] OTHER -> "conflict")

-----------------------------------------------------------------------------
(* The play being made, in the case given.                                 *)
NewIf(case) == IF case THEN {plays + 1} ELSE {}

(* A session of play on device d loads the device's copy.                  *)
LoadOnDevice(d) ==
    /\ ram' = [ram EXCEPT ![d] = dev[d]]
    /\ UNCHANGED <<now, plays, deviceVars, serverVars, tab, synced, pc, cur, locals, excused>>

(* It saves over the copy, which a sync may have replaced since.           *)
PlayOnDevice(d) ==
    /\ plays < MaxPlays /\ plays' = plays + 1
    /\ ram' = [ram EXCEPT ![d] = @ \cup {plays + 1}]
    /\ dev' = [dev EXCEPT ![d] = ram[d] \cup {plays + 1}]
    /\ mtime' = [mtime EXCEPT ![d] = now]
    /\ excused' = excused \cup (dev[d] \ ram[d])
                    \cup NewIf(cur = d \/ synced[d] = now)
    /\ UNCHANGED <<now, serverVars, tab, synced, pc, cur, locals>>

(* download_save, for the browser's player: the file is read.              *)
LoadInBrowser ==
    /\ tab' = file
    /\ UNCHANGED <<now, plays, deviceVars, serverVars, ram, synced, pc, cur, locals, excused>>

(* update_save, of the browser's session: the file is replaced, whatever   *)
(* it has become since that session loaded it; the row follows.            *)
WebWritesFile ==
    /\ web = 0 /\ plays < MaxPlays /\ plays' = plays + 1
    /\ tab' = tab \cup {plays + 1}
    /\ file' = tab \cup {plays + 1} /\ web' = plays + 1
    /\ excused' = excused \cup (file \ tab) \cup NewIf(cur # Nobody)
    /\ UNCHANGED <<now, deviceVars, ram, hash, updated_at, synced, pc, cur, locals>>

(* The plays new in a row are those its hash, as it was, lacks; they may   *)
(* be recorded during another's sync or in the second of one.              *)
SetRow(content, during) ==
    /\ hash' = content /\ updated_at' = now
    /\ excused' = IF during \/ \E d \in Device : synced[d] = now
                  THEN excused \cup (content \ hash) ELSE excused

(* The hash is that of the file as it is by then.                          *)
WebUpdatesRow ==
    /\ web # 0 /\ SetRow(file, cur # Nobody) /\ web' = 0
    /\ UNCHANGED <<now, sessions, plays, deviceVars, file, synced, pc, cur, locals>>

-----------------------------------------------------------------------------
(* list_remote_saves; a play being recorded counts as during the sync.     *)
ListRemoteSaves(d) ==
    /\ pc = "idle" /\ Goto("match") /\ cur' = d
    /\ listed' = mtime[d]
    /\ excused' = IF web # 0 THEN excused \cup {web} ELSE excused
    /\ UNCHANGED <<now, sessions, plays, deviceVars, serverVars, synced, got, rowHash, rowTime, last>>

(* The save's row and the device's row are read.                           *)
MatchSave ==
    /\ pc = "match" /\ Goto("fetch")
    /\ rowHash' = hash /\ rowTime' = updated_at /\ last' = synced[cur]
    /\ UNCHANGED <<now, sessions, plays, deviceVars, serverVars, synced, cur, listed, got, excused>>

StepFor == [upload |-> "write", download |-> "push", no_op |-> "upsert",
            conflict |-> "conflict"]

(* download_save, and the decision with what was read before it.           *)
FetchAndCompare ==
    /\ pc = "fetch" /\ got' = dev[cur]
    /\ pc' = StepFor[compare_save_state(dev[cur], listed, rowHash, rowTime, last)]
    /\ UNCHANGED <<now, sessions, plays, deviceVars, serverVars, synced, cur, listed,
                   rowHash, rowTime, last, excused>>

(* Plays the first sync of a device gives up: with no last_synced_at the   *)
(* newer copy wins.                                                        *)
GivesUp(old, new) == IF last = 0 THEN old \ new ELSE {}

WriteFile ==
    /\ pc = "write" /\ Goto("update") /\ file' = got
    /\ excused' = excused \cup GivesUp(file, got)
    /\ UNCHANGED <<now, sessions, plays, deviceVars, hash, updated_at, web, synced, cur, locals>>

UpdateSave ==
    /\ pc = "update" /\ Goto("upsert") /\ SetRow(got, FALSE)
    /\ UNCHANGED <<now, sessions, plays, deviceVars, file, web, synced, cur, locals>>

(* upload_save, of the file as it is by then.                              *)
PushToDevice ==
    /\ pc = "push" /\ Goto("upsert")
    /\ dev' = [dev EXCEPT ![cur] = file] /\ mtime' = [mtime EXCEPT ![cur] = now]
    /\ excused' = excused \cup GivesUp(dev[cur], file)
    /\ UNCHANGED <<now, sessions, plays, serverVars, synced, cur, locals>>

UpsertSync ==
    /\ pc = "upsert" /\ synced' = [synced EXCEPT ![cur] = now] /\ EndsSync
    /\ UNCHANGED <<now, sessions, plays, deviceVars, serverVars, excused>>

(* Variant: a conflict is recorded as synced.                              *)
ConflictUpserts ==
    /\ pc = "conflict"
    /\ synced' = [synced EXCEPT ![cur] = now] /\ EndsSync
    /\ UNCHANGED <<now, sessions, plays, deviceVars, serverVars, excused>>

(* A conflict is reported and nothing is written.                          *)
ReportConflict ==
    /\ pc = "conflict" /\ EndsSync
    /\ UNCHANGED <<now, sessions, plays, deviceVars, serverVars, synced, excused>>

(* The connection breaks, a write fails or the worker dies.                *)
SyncFails ==
    /\ pc # "idle" /\ EndsSync
    /\ excused' = IF pc = "update" THEN excused \cup (got \ hash) ELSE excused
    /\ UNCHANGED <<now, sessions, plays, deviceVars, serverVars, synced>>

Next ==
    \/ Tick \/ LoadInBrowser \/ WebWritesFile \/ WebUpdatesRow
    \/ \E d \in Device : LoadOnDevice(d) \/ PlayOnDevice(d) \/ ListRemoteSaves(d)
    \/ MatchSave \/ FetchAndCompare \/ WriteFile \/ UpdateSave \/ PushToDevice
    \/ UpsertSync \/ ReportConflict \/ SyncFails

Spec == Init /\ [][Next]_vars

-----------------------------------------------------------------------------
(* No play is lost: however syncs of several devices, plays, failures and  *)
(* crashes follow on each other, a play is in some copy, unless it fell    *)
(* into a sync or into the second of one (sync_push_pull_task.py:304: the  *)
(* record says now, the listing was before), a sync stopped between        *)
(* writing it and recording it, a first sync, with no history, chose the   *)
(* newer of two copies, or a session of play that had not loaded it saved  *)
(* over it (saves.py:597: the upload replaces the file, uncompared).       *)
NoPlayIsLost ==
    \A p \in 1 .. plays : p \in excused \/ p \in file \/ \E d \in Device : p \in dev[d]

(* What the records call in sync is: when neither the device's file nor    *)
(* the row changed after last_synced_at, they differ at most by excused    *)
(* plays, so that "No changes since last sync" hides no others.            *)
InSyncIsEqual ==
    \A d \in Device :
      synced[d] # 0 /\ mtime[d] <= synced[d] /\ updated_at <= synced[d]
      => dev[d] \ excused = hash \ excused

=============================================================================
