-------------------------- MODULE DeviceSync_proofs -------------------------
(***************************************************************************)
(* Saves in sync with devices, for every set of devices and every number   *)
(* of plays and of seconds: no play is lost and what the records call in   *)
(* sync is equal, but for the plays DeviceSync excuses.                    *)
(***************************************************************************)
EXTENDS DeviceSync, TLAPS

-----------------------------------------------------------------------------
(* Copies compared without the excused plays: to excuse more plays keeps   *)
(* either relation.                                                        *)
Within(S, T) == S \ excused \subseteq T
Same(S, T) == Within(S, T) /\ Within(T, S)

(* The inductive invariant.                                                *)
Typed ==
    /\ now \in Nat /\ plays \in Nat /\ web \in Nat /\ updated_at \in Nat
    /\ mtime \in [Device -> Nat] /\ synced \in [Device -> Nat]
    /\ dev \in [Device -> SUBSET Nat] /\ excused \subseteq Nat
    /\ ram \in [Device -> SUBSET Nat] /\ tab \subseteq Nat
    /\ file \subseteq Nat /\ hash \subseteq Nat /\ got \subseteq Nat
    /\ listed \in Nat /\ rowTime \in Nat /\ last \in Nat
    /\ pc \in {"idle", "match", "fetch", "write", "update", "push", "upsert", "conflict"}
    /\ IF pc = "idle" THEN cur = Nobody ELSE cur \in Device

(* No record is from the future.                                           *)
Clocked ==
    /\ updated_at <= now
    /\ \A d \in Device : mtime[d] <= now /\ synced[d] <= now

(* What a session of play loaded was in the copy it loaded, and what that  *)
(* copy has lost since is excused.                                         *)
Loaded == Within(tab, file) /\ \A d \in Device : Within(ram[d], dev[d])

(* A device that was not played on since its last sync has nothing the row *)
(* lacks, whatever was recorded since; a row not written since the last    *)
(* sync of a device has nothing the device lacks, whatever was played.     *)
NothingNew(d, time) == synced[d] # 0 /\ time <= synced[d]

DeviceBehind == \A d \in Device : NothingNew(d, mtime[d]) => Within(dev[d], hash)
RowBehind == \A d \in Device : NothingNew(d, updated_at) => Within(hash, dev[d])

(* The file is what the row says, but for the play being recorded and      *)
(* while a sync stands between writing the one and the other.              *)
FileIsRow ==
    /\ pc # "update" => Within(hash, file) /\ (web = 0 => Within(file, hash))
    /\ pc = "idle" /\ web # 0 => Within(file, hash \cup {web})
    /\ pc \notin {"idle", "update"} => Within(file, hash)
    /\ pc # "idle" => web = 0 \/ web \in excused

(* What the worker read, however old it is by now, and what its decision   *)
(* rests on: the copy it is about to overwrite has nothing the other copy  *)
(* lacks, unless this is the device's first sync.                          *)
Decides ==
    /\ pc = "match" => (NothingNew(cur, listed) => Within(dev[cur], hash))
    /\ pc = "fetch" =>
         /\ last = synced[cur] /\ Same(rowHash, hash)
         /\ NothingNew(cur, listed) => Within(dev[cur], hash)
         /\ NothingNew(cur, rowTime) => Within(hash, dev[cur])
    /\ pc = "write" => Same(got, dev[cur]) /\ (last # 0 => Within(hash, got))
    /\ pc = "update" => Same(got, dev[cur]) /\ Same(file, got) /\ Within(hash, got)
    /\ pc = "push" => (last # 0 => Within(dev[cur], hash))
    /\ pc = "upsert" => Same(dev[cur], hash)

IInv == /\ Typed /\ Clocked /\ Loaded /\ DeviceBehind /\ RowBehind /\ FileIsRow
        /\ Decides /\ NoPlayIsLost

-----------------------------------------------------------------------------
(* The clock goes on, and every record is of the past as before.           *)
LEMMA TickStep ==
    ASSUME IInv, Tick
    PROVE  IInv'
<1> USE DeviceAssumption
        DEF IInv, Tick, Goto, SetRow, GivesUp, EndsSync, NewIf,
            serverVars, deviceVars, sessions, locals, Within, Same, NothingNew
<1>1. Typed'
  BY DEF Typed
<1>2. Clocked'
  BY DEF Typed, Clocked
<1>3. DeviceBehind'
  BY DEF Typed, Clocked, DeviceBehind, FileIsRow, Decides
<1>4. RowBehind'
  BY DEF Typed, Clocked, RowBehind, FileIsRow, Decides
<1>5. FileIsRow'
  BY DEF Typed, FileIsRow, Decides
<1>6. Decides'
  BY DEF Typed, DeviceBehind, RowBehind, FileIsRow, Decides
<1>7. NoPlayIsLost'
  BY DEF Typed, FileIsRow, Decides, NoPlayIsLost
<1>8. Loaded'
  BY DEF Typed, FileIsRow, Decides, Loaded
<1> QED
  BY <1>1, <1>2, <1>3, <1>4, <1>5, <1>6, <1>7, <1>8

(* update_save writes the file: the new play is excused during a sync.     *)
LEMMA WebWritesFileStep ==
    ASSUME IInv, WebWritesFile
    PROVE  IInv'
<1> USE DeviceAssumption
        DEF IInv, WebWritesFile, Goto, SetRow, GivesUp, EndsSync, NewIf,
            serverVars, deviceVars, sessions, locals, Within, Same, NothingNew
<1>0. plays + 1 \in Nat /\ NewIf(cur # Nobody) \subseteq Nat
  BY DEF Typed
<1>1. Typed'
  <2>1. excused' \subseteq Nat /\ tab' \subseteq Nat /\ file' \subseteq Nat
    BY <1>0 DEF Typed
  <2>2. plays' \in Nat /\ web' \in Nat
    BY <1>0
  <2> QED
    BY <2>1, <2>2 DEF Typed
<1>2. Clocked'
  BY DEF Typed, Clocked
<1>3. DeviceBehind'
  BY DEF Typed, Clocked, DeviceBehind, Loaded, FileIsRow, Decides
<1>4. RowBehind'
  BY DEF Typed, Clocked, RowBehind, Loaded, FileIsRow, Decides
<1>5. FileIsRow'
  BY DEF Typed, Loaded, FileIsRow, Decides
<1>6. Decides'
  BY DEF Typed, DeviceBehind, RowBehind, Loaded, FileIsRow, Decides
<1>7. NoPlayIsLost'
  BY DEF Typed, Loaded, FileIsRow, Decides, NoPlayIsLost
<1>8. Loaded'
  BY DEF Typed, FileIsRow, Decides, Loaded
<1> QED
  BY <1>1, <1>2, <1>3, <1>4, <1>5, <1>6, <1>7, <1>8

(* update_save writes the row: what it adds is new to every device, or     *)
(* excused.                                                                *)
LEMMA WebUpdatesRowStep ==
    ASSUME IInv, WebUpdatesRow
    PROVE  IInv'
<1> USE DeviceAssumption
        DEF IInv, WebUpdatesRow, Goto, SetRow, GivesUp, EndsSync, NewIf,
            serverVars, deviceVars, sessions, locals, Within, Same, NothingNew
<1>1. Typed'
  BY DEF Typed
<1>2. Clocked'
  BY DEF Typed, Clocked
<1>3. DeviceBehind'
  BY DEF Typed, Clocked, DeviceBehind, FileIsRow, Decides
<1>4. RowBehind'
  BY DEF Typed, Clocked, RowBehind, FileIsRow, Decides
<1>5. FileIsRow'
  BY DEF Typed, FileIsRow, Decides
<1>6. Decides'
  BY DEF Typed, DeviceBehind, RowBehind, FileIsRow, Decides
<1>7. NoPlayIsLost'
  BY DEF Typed, FileIsRow, Decides, NoPlayIsLost
<1>8. Loaded'
  BY DEF Typed, FileIsRow, Decides, Loaded
<1> QED
  BY <1>1, <1>2, <1>3, <1>4, <1>5, <1>6, <1>7, <1>8

(* The rows are read: what they say is true of the copies as they are.     *)
LEMMA MatchSaveStep ==
    ASSUME IInv, MatchSave
    PROVE  IInv'
<1> USE DeviceAssumption
        DEF IInv, MatchSave, Goto, SetRow, GivesUp, EndsSync, NewIf,
            serverVars, deviceVars, sessions, locals, Within, Same, NothingNew
<1>1. Typed'
  BY DEF Typed
<1>2. Clocked'
  BY DEF Typed, Clocked
<1>3. DeviceBehind'
  BY DEF Typed, Clocked, DeviceBehind, FileIsRow, Decides
<1>4. RowBehind'
  BY DEF Typed, Clocked, RowBehind, FileIsRow, Decides
<1>5. FileIsRow'
  BY DEF Typed, FileIsRow, Decides
<1>6. Decides'
  BY DEF Typed, DeviceBehind, RowBehind, FileIsRow, Decides
<1>7. NoPlayIsLost'
  BY DEF Typed, FileIsRow, Decides, NoPlayIsLost
<1>8. Loaded'
  BY DEF Typed, FileIsRow, Decides, Loaded
<1> QED
  BY <1>1, <1>2, <1>3, <1>4, <1>5, <1>6, <1>7, <1>8

(* compare_save_state: a copy is overwritten only if it is unchanged since *)
(* the last sync, or there was none; nothing is done only if the copies    *)
(* are equal or both unchanged.                                            *)
LEMMA Compared ==
    ASSUME NEW a, NEW ta \in Nat, NEW b, NEW tb \in Nat, NEW l \in Nat, NEW c,
           c = compare_save_state(a, ta, b, tb, l)
    PROVE  /\ c \in {"upload", "download", "no_op", "conflict"}
           /\ c = "upload" /\ l # 0 => tb <= l
           /\ c = "download" /\ l # 0 => ta <= l
           /\ c = "no_op" => a = b \/ (l # 0 /\ ta <= l /\ tb <= l)
<1>1. CASE a = b
  <2>1. c = "no_op"
    BY <1>1 DEF compare_save_state
  <2> QED
    BY <1>1, <2>1
<1>2. CASE a # b /\ l # 0
  BY <1>2 DEF compare_save_state
<1>3. CASE a # b /\ l = 0
  BY <1>3 DEF compare_save_state
<1> QED
  BY <1>1, <1>2, <1>3

(* compare_save_state decides on what was read before the download.        *)
LEMMA FetchAndCompareStep ==
    ASSUME IInv, FetchAndCompare
    PROVE  IInv'
<1> USE DeviceAssumption
        DEF IInv, FetchAndCompare, Goto, SetRow, GivesUp, EndsSync, NewIf,
            serverVars, deviceVars, sessions, locals, Within, Same, NothingNew
<1> DEFINE c == compare_save_state(dev[cur], listed, rowHash, rowTime, last)
<1>0. /\ cur \in Device /\ pc' = StepFor[c] /\ got' = dev[cur]
      /\ c \in {"upload", "download", "no_op", "conflict"}
      /\ c = "upload" /\ last # 0 => rowTime <= last
      /\ c = "download" /\ last # 0 => listed <= last
      /\ c = "no_op" => \/ dev[cur] = rowHash
                        \/ last # 0 /\ listed <= last /\ rowTime <= last
  <2>1. cur \in Device /\ listed \in Nat /\ rowTime \in Nat /\ last \in Nat
    BY DEF Typed
  <2> QED
    BY <2>1, Compared
<1> HIDE DEF c, FetchAndCompare
<1>a. /\ c = "upload" => pc' = "write"
      /\ c = "download" => pc' = "push"
      /\ c = "no_op" => pc' = "upsert"
      /\ c = "conflict" => pc' = "conflict"
  BY <1>0 DEF StepFor
<1>b. /\ pc = "fetch"
      /\ UNCHANGED <<now, plays, dev, mtime, ram, file, tab, hash, updated_at, web>>
      /\ UNCHANGED <<synced, cur, listed, rowHash, rowTime, last, excused>>
  BY DEF FetchAndCompare
<1> USE <1>0, <1>a, <1>b
<1>1. Typed'
  BY DEF Typed
<1>2. Clocked'
  BY DEF Typed, Clocked
<1>3. DeviceBehind'
  BY DEF Typed, Clocked, DeviceBehind, FileIsRow, Decides
<1>4. RowBehind'
  BY DEF Typed, Clocked, RowBehind, FileIsRow, Decides
<1>5. FileIsRow'
  BY DEF Typed, FileIsRow, Decides
<1>6. Decides'
  BY DEF Typed, Decides
<1>7. NoPlayIsLost'
  BY DEF Typed, FileIsRow, Decides, NoPlayIsLost
<1>8. Loaded'
  BY DEF Typed, FileIsRow, Decides, Loaded
<1> QED
  BY <1>1, <1>2, <1>3, <1>4, <1>5, <1>6, <1>7, <1>8

(* The device's copy replaces the server's, which has nothing else in it.  *)
LEMMA WriteFileStep ==
    ASSUME IInv, WriteFile
    PROVE  IInv'
<1> USE DeviceAssumption
        DEF IInv, WriteFile, Goto, SetRow, GivesUp, EndsSync, NewIf,
            serverVars, deviceVars, sessions, locals, Within, Same, NothingNew
<1>1. Typed'
  BY DEF Typed
<1>2. Clocked'
  BY DEF Typed, Clocked
<1>3. DeviceBehind'
  BY DEF Typed, Clocked, DeviceBehind, FileIsRow, Decides
<1>4. RowBehind'
  BY DEF Typed, Clocked, RowBehind, FileIsRow, Decides
<1>5. FileIsRow'
  BY DEF Typed, FileIsRow, Decides
<1>6. Decides'
  BY DEF Typed, DeviceBehind, RowBehind, FileIsRow, Decides
<1>7. NoPlayIsLost'
  BY DEF Typed, FileIsRow, Decides, NoPlayIsLost
<1>8. Loaded'
  BY DEF Typed, FileIsRow, Decides, Loaded
<1> QED
  BY <1>1, <1>2, <1>3, <1>4, <1>5, <1>6, <1>7, <1>8

(* The row is written: it has all it had.                                  *)
LEMMA UpdateSaveStep ==
    ASSUME IInv, UpdateSave
    PROVE  IInv'
<1> USE DeviceAssumption
        DEF IInv, UpdateSave, Goto, SetRow, GivesUp, EndsSync, NewIf,
            serverVars, deviceVars, sessions, locals, Within, Same, NothingNew
<1>1. Typed'
  BY DEF Typed
<1>2. Clocked'
  BY DEF Typed, Clocked
<1>3. DeviceBehind'
  BY DEF Typed, Clocked, DeviceBehind, FileIsRow, Decides
<1>4. RowBehind'
  BY DEF Typed, Clocked, RowBehind, FileIsRow, Decides
<1>5. FileIsRow'
  BY DEF Typed, FileIsRow, Decides
<1>6. Decides'
  BY DEF Typed, DeviceBehind, RowBehind, FileIsRow, Decides
<1>7. NoPlayIsLost'
  BY DEF Typed, FileIsRow, Decides, NoPlayIsLost
<1>8. Loaded'
  BY DEF Typed, FileIsRow, Decides, Loaded
<1> QED
  BY <1>1, <1>2, <1>3, <1>4, <1>5, <1>6, <1>7, <1>8

(* The server's copy replaces the device's, which has nothing else in it.  *)
LEMMA PushToDeviceStep ==
    ASSUME IInv, PushToDevice
    PROVE  IInv'
<1> USE DeviceAssumption
        DEF IInv, PushToDevice, Goto, SetRow, GivesUp, EndsSync, NewIf,
            serverVars, deviceVars, sessions, locals, Within, Same, NothingNew
<1>1. Typed'
  BY DEF Typed
<1>2. Clocked'
  BY DEF Typed, Clocked
<1>3. DeviceBehind'
  BY DEF Typed, Clocked, DeviceBehind, FileIsRow, Decides
<1>4. RowBehind'
  BY DEF Typed, Clocked, RowBehind, FileIsRow, Decides
<1>5. FileIsRow'
  BY DEF Typed, FileIsRow, Decides
<1>6. Decides'
  BY DEF Typed, DeviceBehind, RowBehind, FileIsRow, Decides
<1>7. NoPlayIsLost'
  BY DEF Typed, FileIsRow, Decides, NoPlayIsLost
<1>8. Loaded'
  BY DEF Typed, FileIsRow, Decides, Loaded
<1> QED
  BY <1>1, <1>2, <1>3, <1>4, <1>5, <1>6, <1>7, <1>8

(* The device is recorded as synced: the copies are equal.                 *)
LEMMA UpsertSyncStep ==
    ASSUME IInv, UpsertSync
    PROVE  IInv'
<1> USE DeviceAssumption
        DEF IInv, UpsertSync, Goto, SetRow, GivesUp, EndsSync, NewIf,
            serverVars, deviceVars, sessions, locals, Within, Same, NothingNew
<1>1. Typed'
  BY DEF Typed
<1>2. Clocked'
  BY DEF Typed, Clocked
<1>3. DeviceBehind'
  BY DEF Typed, Clocked, DeviceBehind, FileIsRow, Decides
<1>4. RowBehind'
  BY DEF Typed, Clocked, RowBehind, FileIsRow, Decides
<1>5. FileIsRow'
  BY DEF Typed, FileIsRow, Decides
<1>6. Decides'
  BY DEF Typed, DeviceBehind, RowBehind, FileIsRow, Decides
<1>7. NoPlayIsLost'
  BY DEF Typed, FileIsRow, Decides, NoPlayIsLost
<1>8. Loaded'
  BY DEF Typed, FileIsRow, Decides, Loaded
<1> QED
  BY <1>1, <1>2, <1>3, <1>4, <1>5, <1>6, <1>7, <1>8

(* A conflict changes nothing.                                             *)
LEMMA ReportConflictStep ==
    ASSUME IInv, ReportConflict
    PROVE  IInv'
<1> USE DeviceAssumption
        DEF IInv, ReportConflict, Goto, SetRow, GivesUp, EndsSync, NewIf,
            serverVars, deviceVars, sessions, locals, Within, Same, NothingNew
<1>1. Typed'
  BY DEF Typed
<1>2. Clocked'
  BY DEF Typed, Clocked
<1>3. DeviceBehind'
  BY DEF Typed, Clocked, DeviceBehind, FileIsRow, Decides
<1>4. RowBehind'
  BY DEF Typed, Clocked, RowBehind, FileIsRow, Decides
<1>5. FileIsRow'
  BY DEF Typed, FileIsRow, Decides
<1>6. Decides'
  BY DEF Typed, DeviceBehind, RowBehind, FileIsRow, Decides
<1>7. NoPlayIsLost'
  BY DEF Typed, FileIsRow, Decides, NoPlayIsLost
<1>8. Loaded'
  BY DEF Typed, FileIsRow, Decides, Loaded
<1> QED
  BY <1>1, <1>2, <1>3, <1>4, <1>5, <1>6, <1>7, <1>8

(* A sync that stops leaves what it wrote to the file excused.             *)
LEMMA SyncFailsStep ==
    ASSUME IInv, SyncFails
    PROVE  IInv'
<1> USE DeviceAssumption
        DEF IInv, SyncFails, Goto, SetRow, GivesUp, EndsSync, NewIf,
            serverVars, deviceVars, sessions, locals, Within, Same, NothingNew
<1>1. Typed'
  BY DEF Typed
<1>2. Clocked'
  BY DEF Typed, Clocked
<1>3. DeviceBehind'
  BY DEF Typed, Clocked, DeviceBehind, FileIsRow, Decides
<1>4. RowBehind'
  BY DEF Typed, Clocked, RowBehind, FileIsRow, Decides
<1>5. FileIsRow'
  BY DEF Typed, FileIsRow, Decides
<1>6. Decides'
  BY DEF Typed, DeviceBehind, RowBehind, FileIsRow, Decides
<1>7. NoPlayIsLost'
  BY DEF Typed, FileIsRow, Decides, NoPlayIsLost
<1>8. Loaded'
  BY DEF Typed, FileIsRow, Decides, Loaded
<1> QED
  BY <1>1, <1>2, <1>3, <1>4, <1>5, <1>6, <1>7, <1>8

(* A session of play loads what is there.                                  *)
LEMMA LoadOnDeviceStep ==
    ASSUME IInv, NEW d \in Device, LoadOnDevice(d)
    PROVE  IInv'
<1> USE DeviceAssumption
        DEF IInv, LoadOnDevice, Goto, SetRow, GivesUp, EndsSync, NewIf,
            serverVars, deviceVars, sessions, locals, Within, Same, NothingNew
<1>1. Typed'
  BY DEF Typed
<1>2. Clocked'
  BY DEF Typed, Clocked
<1>3. DeviceBehind'
  BY DEF Typed, Clocked, DeviceBehind, FileIsRow, Decides
<1>4. RowBehind'
  BY DEF Typed, Clocked, RowBehind, FileIsRow, Decides
<1>5. FileIsRow'
  BY DEF Typed, FileIsRow, Decides
<1>6. Decides'
  BY DEF Typed, DeviceBehind, RowBehind, FileIsRow, Decides
<1>7. NoPlayIsLost'
  BY DEF Typed, FileIsRow, Decides, NoPlayIsLost
<1>8. Loaded'
  BY DEF Typed, FileIsRow, Decides, Loaded
<1> QED
  BY <1>1, <1>2, <1>3, <1>4, <1>5, <1>6, <1>7, <1>8

(* So does the browser's.                                                  *)
LEMMA LoadInBrowserStep ==
    ASSUME IInv, LoadInBrowser
    PROVE  IInv'
<1> USE DeviceAssumption
        DEF IInv, LoadInBrowser, Goto, SetRow, GivesUp, EndsSync, NewIf,
            serverVars, deviceVars, sessions, locals, Within, Same, NothingNew
<1>1. Typed'
  BY DEF Typed
<1>2. Clocked'
  BY DEF Typed, Clocked
<1>3. DeviceBehind'
  BY DEF Typed, Clocked, DeviceBehind, FileIsRow, Decides
<1>4. RowBehind'
  BY DEF Typed, Clocked, RowBehind, FileIsRow, Decides
<1>5. FileIsRow'
  BY DEF Typed, FileIsRow, Decides
<1>6. Decides'
  BY DEF Typed, DeviceBehind, RowBehind, FileIsRow, Decides
<1>7. NoPlayIsLost'
  BY DEF Typed, FileIsRow, Decides, NoPlayIsLost
<1>8. Loaded'
  BY DEF Typed, FileIsRow, Decides, Loaded
<1> QED
  BY <1>1, <1>2, <1>3, <1>4, <1>5, <1>6, <1>7, <1>8

(* Somebody plays on a device: the play is new since its last sync, or     *)
(* excused.                                                                *)
LEMMA PlayOnDeviceStep ==
    ASSUME IInv, NEW d \in Device, PlayOnDevice(d)
    PROVE  IInv'
<1> USE DeviceAssumption
        DEF IInv, PlayOnDevice, Goto, SetRow, GivesUp, EndsSync, NewIf,
            serverVars, deviceVars, sessions, locals, Within, Same, NothingNew
<1>0. plays + 1 \in Nat /\ NewIf(cur = d \/ synced[d] = now) \subseteq Nat
  BY DEF Typed
<1>1. Typed'
  <2>1. excused' \subseteq Nat
    BY <1>0 DEF Typed
  <2>2. ram' \in [Device -> SUBSET Nat] /\ dev' \in [Device -> SUBSET Nat]
    BY <1>0 DEF Typed
  <2> QED
    BY <1>0, <2>1, <2>2 DEF Typed
<1>2. Clocked'
  BY DEF Typed, Clocked
<1>3. DeviceBehind'
  BY DEF Typed, Clocked, DeviceBehind, Loaded, FileIsRow, Decides
<1>4. RowBehind'
  BY DEF Typed, Clocked, RowBehind, Loaded, FileIsRow, Decides
<1>5. FileIsRow'
  BY DEF Typed, Loaded, FileIsRow, Decides
<1>6. Decides'
  BY DEF Typed, DeviceBehind, RowBehind, Loaded, FileIsRow, Decides
<1>7. NoPlayIsLost'
  BY DEF Typed, Loaded, FileIsRow, Decides, NoPlayIsLost
<1>8. Loaded'
  BY DEF Typed, FileIsRow, Decides, Loaded
<1> QED
  BY <1>1, <1>2, <1>3, <1>4, <1>5, <1>6, <1>7, <1>8

(* A sync begins with the listing of the remote saves.                     *)
LEMMA ListRemoteSavesStep ==
    ASSUME IInv, NEW d \in Device, ListRemoteSaves(d)
    PROVE  IInv'
<1> USE DeviceAssumption
        DEF IInv, ListRemoteSaves, Goto, SetRow, GivesUp, EndsSync, NewIf,
            serverVars, deviceVars, sessions, locals, Within, Same, NothingNew
<1>1. Typed'
  BY DEF Typed
<1>2. Clocked'
  BY DEF Typed, Clocked
<1>3. DeviceBehind'
  BY DEF Typed, Clocked, DeviceBehind, FileIsRow, Decides
<1>4. RowBehind'
  BY DEF Typed, Clocked, RowBehind, FileIsRow, Decides
<1>5. FileIsRow'
  BY DEF Typed, FileIsRow, Decides
<1>6. Decides'
  BY DEF Typed, DeviceBehind, RowBehind, FileIsRow, Decides
<1>7. NoPlayIsLost'
  BY DEF Typed, FileIsRow, Decides, NoPlayIsLost
<1>8. Loaded'
  BY DEF Typed, FileIsRow, Decides, Loaded
<1> QED
  BY <1>1, <1>2, <1>3, <1>4, <1>5, <1>6, <1>7, <1>8

-----------------------------------------------------------------------------
(* Nobody has played yet.                                                  *)
LEMMA InitHolds == Init => IInv
BY DEF Init, NoLocals, IInv, Typed, Clocked, Loaded, DeviceBehind, RowBehind, FileIsRow,
       Decides, Within, Same, NothingNew, NoPlayIsLost

(* Every step of players, of the clock and of the worker keeps it.         *)
LEMMA NextKeeps == IInv /\ [Next]_vars => IInv'
<1> SUFFICES ASSUME IInv, [Next]_vars PROVE IInv'
  OBVIOUS
<1>1. CASE UNCHANGED vars
  BY <1>1
     DEF vars, deviceVars, serverVars, sessions, locals, IInv, Typed, Clocked,
         Loaded, DeviceBehind, RowBehind, FileIsRow, Decides, Within, Same, NothingNew,
         NoPlayIsLost
<1> QED
  BY <1>1, TickStep, LoadInBrowserStep, LoadOnDeviceStep, WebWritesFileStep, WebUpdatesRowStep, PlayOnDeviceStep,
     ListRemoteSavesStep, MatchSaveStep, FetchAndCompareStep, WriteFileStep,
     UpdateSaveStep, PushToDeviceStep, UpsertSyncStep, ReportConflictStep, SyncFailsStep
     DEF Next

(* compare_save_state, _sync_device: a play is in some copy, but for the   *)
(* excused ones.                                                           *)
THEOREM PlaysAreKept == Spec => []NoPlayIsLost
<1>1. IInv => NoPlayIsLost
  BY DEF IInv
<1> QED
  BY InitHolds, NextKeeps, <1>1, PTL DEF Spec

(* "No changes since last sync" is said of equal copies.                   *)
THEOREM InSyncAreEqual == Spec => []InSyncIsEqual
<1>1. IInv => InSyncIsEqual
  BY DEF IInv, DeviceBehind, RowBehind, NothingNew, Within, InSyncIsEqual
<1> QED
  BY InitHolds, NextKeeps, <1>1, PTL DEF Spec

=============================================================================
