---------------------------- MODULE LibraryScan -----------------------------
(***************************************************************************)
(* Library scans: the requests and the filesystem watcher that enqueue     *)
(* them, the one worker that runs them, the stop flag, and what a scan     *)
(* does to the rows of platforms and ROMs (endpoints/sockets/scan.py,      *)
(* handler/scan_jobs.py, watcher.py).                                      *)
(*                                                                         *)
(* A ROM is the path of a file; what identifies it, its metadata and its   *)
(* firmware are left out.  A change of the disk is told to the watcher     *)
(* by watchfiles, in batches.                                              *)
(***************************************************************************)
EXTENDS Naturals, Sequences, SequencesExt

CONSTANTS
    Platform, Rom,
    home,         \* home[r]: the platform folder ROM r is in
    Request,      \* scans users ask for: [type, scope, roms]
    Mishap,       \* of "rom", "fail", "die", "meta", "watcher", "sources", "restart"
    MaxChanges, MaxRequests, MaxStops   \* bounds: changes of the disk, requests, stops

ASSUME PlatformAssumption == Platform # {}
ASSUME HomeAssumption == home \in [Rom -> Platform]
ASSUME BoundAssumption == MaxChanges \in Nat /\ MaxRequests \in Nat /\ MaxStops \in Nat

(* "quick" stands for complete and hashes, "update" for unmatched: they    *)
(* differ in what they fetch.                                              *)
Type == {"new_platforms", "quick", "update"}

(* A scan of named ROMs has roms, one of named platforms has scope.        *)
Kind == [type : Type, scope : SUBSET Platform, roms : SUBSET Rom]
ASSUME RequestAssumption == Request \subseteq Kind

(* Each change makes at most one job, see process_changes.                 *)
Job == 1 .. MaxChanges + MaxRequests
NoJob == 0
NoKind == [type |-> "quick", scope |-> {}, roms |-> {}]

VARIABLES
    disk, dirs,      \* ROM files and platform folders
    row,             \* row[r]: "none", "present" or "missing"
    known,           \* platforms with a row
    missed,          \* history: ROMs whose change was left to scans that add no
                     \* row, or whose scan failed
    changes, requests, stops,   \* how many there were
    events,          \* changes not yet handed to the watcher
    wpc, batch, cover,   \* the watcher: its step, its changes, what is pending
    last,            \* jobs made so far
    kind, state,     \* kind[j], state[j]: what a job scans, where it is
    queue,           \* the scan queue
    flag,            \* STOP_SCAN_FLAG
    spc, doomed, target,   \* the stop request: its step, the scans it has to
                     \* cancel, the running scan it found
    cur, stage, fin, \* the scan running, its step and that of its finish
    folders, todo, plat, listed, left,   \* its locals
    meta, told,      \* reported_terminal_event; terminal events emitted
    due,             \* history: whether a stop set the flag for the running
                     \* scan, "maybe" if the scan need not notice
    late,            \* history: the flag was set for a scan already over
    muted,           \* history: scans that ended between the mark and the event,
                     \* and those whose failure could not be reported
    unsure,          \* history: scans whose mark could not be written or read,
                     \* or whose finish raised after its event
    lost             \* history: a change may have been dropped, see Loses

files == <<disk, dirs, events, changes>>
rows == <<row, known, missed>>
watch == <<wpc, batch, cover>>
jobs == <<last, kind, state, queue>>
stopping == <<spc, doomed, target, stops>>
scan == <<cur, stage, fin, folders, todo, plat, listed, left>>
report == <<meta, told, muted, unsure>>
flags == <<due, late>>
vars == <<files, rows, watch, jobs, requests, flag, stopping, scan, report, flags, lost>>

State == {"none", "scheduled", "queued", "popped", "taken", "running", "abandoned", "over",
          "cancelled"}
Stage == {"idle", "next", "roms", "done", "quit", "stop", "fail"}

(* The rows, the jobs and the locals of the scan have their types, and the *)
(* scan queue holds the jobs that are queued.                              *)
TypeOK ==
    /\ disk \subseteq Rom /\ dirs \subseteq Platform /\ known \subseteq Platform
    /\ missed \subseteq Rom /\ row \in [Rom -> {"none", "present", "missing"}]
    /\ events \subseteq Rom \cup Platform /\ batch \subseteq Rom \cup Platform
    /\ wpc \in {"idle", "read", "schedule"} /\ cover \subseteq Platform
    /\ last \in {NoJob} \cup Job /\ kind \in [Job -> Kind] /\ state \in [Job -> State]
    /\ queue \in Seq(Job) /\ ToSet(queue) = {j \in Job : state[j] = "queued"}
    /\ flag \in BOOLEAN
    /\ spc \in {"idle", "list", "cancel", "find", "set"}
    /\ doomed \subseteq Job /\ target \in {NoJob} \cup Job
    /\ cur \in {NoJob} \cup Job /\ stage \in Stage /\ fin \in {"mark", "emit", "return"}
    /\ folders \subseteq Platform /\ todo \subseteq Platform /\ plat \in Platform
    /\ listed \subseteq Rom /\ left \subseteq Rom
    /\ meta \subseteq Job /\ told \in [Job -> 0 .. 3]

AnyPlatform == CHOOSE p \in Platform : TRUE

(* A library that was scanned, with any files and folders.                 *)
Init ==
    /\ disk \in SUBSET Rom /\ dirs \in SUBSET Platform /\ known = dirs
    /\ \A r \in disk : home[r] \in dirs
    /\ row = [r \in Rom |-> IF r \in disk THEN "present" ELSE "none"]
    /\ missed = {}
    /\ changes = 0 /\ requests = 0 /\ stops = 0 /\ events = {}
    /\ wpc = "idle" /\ batch = {} /\ cover = {}
    /\ last = NoJob /\ kind = [j \in Job |-> NoKind] /\ state = [j \in Job |-> "none"]
    /\ queue = <<>> /\ flag = FALSE /\ spc = "idle" /\ doomed = {} /\ target = NoJob
    /\ cur = NoJob /\ stage = "idle" /\ fin = "mark" /\ folders = {} /\ todo = {}
    /\ plat = AnyPlatform /\ listed = {} /\ left = {}
    /\ meta = {} /\ told = [j \in Job |-> 0] /\ muted = {} /\ unsure = {}
    /\ due = "no" /\ late = FALSE /\ lost = FALSE

Mine(p) == {r \in Rom : home[r] = p}

(* What can drop a change that a scan should have looked at.               *)
Loses(yes) == lost' = (lost \/ yes)

-----------------------------------------------------------------------------
(* The disk.                                                               *)
Change(d, f, e) ==
    /\ changes < MaxChanges /\ changes' = changes + 1
    /\ disk' = d /\ dirs' = f /\ events' = events \cup {e}
    /\ UNCHANGED <<rows, watch, jobs, requests, flag, stopping, scan, report, flags, lost>>

MakeFolder(p) == p \notin dirs /\ Change(disk, dirs \cup {p}, p)

RemoveFolder(p) ==
    p \in dirs /\ disk \cap Mine(p) = {} /\ Change(disk, dirs \ {p}, p)

AddFile(r) == r \notin disk /\ home[r] \in dirs /\ Change(disk \cup {r}, dirs, r)

RemoveFile(r) == r \in disk /\ Change(disk \ {r}, dirs, r)

-----------------------------------------------------------------------------
(* The watcher, a process that watchfiles starts for a batch of changes.   *)
WatcherStarts ==
    /\ wpc = "idle" /\ events # {}
    /\ wpc' = "read" /\ batch' = events /\ events' = {}
    /\ UNCHANGED <<disk, dirs, changes, rows, cover, jobs, requests, flag, stopping,
                   scan, report, flags, lost>>

(* watchfiles stops the process for the next batch.                        *)
WatcherRestarts ==
    /\ "watcher" \in Mishap /\ wpc # "idle" /\ events # {}
    /\ wpc' = "read" /\ batch' = events /\ events' = {} /\ Loses(TRUE)
    /\ UNCHANGED <<disk, dirs, changes, rows, cover, jobs, requests, flag, stopping,
                   scan, report, flags>>

(* Variant: a scan that is running counts as pending.                      *)
PendingOrRunning ==
    {j \in Job : state[j] \in {"queued", "scheduled", "running"} /\ kind[j].roms = {}}

(* Variant: so does one of named ROMs.                                     *)
PendingOfAnyKind == {j \in Job : state[j] \in {"queued", "scheduled"}}

(* get_pending_scan_jobs, those that walk the disk.                        *)
Pending == {j \in Job : state[j] \in {"queued", "scheduled"} /\ kind[j].roms = {}}

(* Where scans of J keep the watcher from scheduling one of its own,       *)
Covers(J) == IF \E j \in J : kind[j].scope = {} THEN Platform
             ELSE UNION {kind[j].scope : j \in J}

(* where the list of files will be compared with the rows (a scan for new  *)
(* platforms skips the others), and where files will get rows.             *)
Compares == {j \in Pending : kind[j].type # "new_platforms"}
Adds == {j \in Pending : kind[j].type = "quick"}

(* The platforms of the batch, and its changes in those of P.              *)
Touched == {home[r] : r \in batch \cap Rom} \cup (batch \cap Platform)
ChangedIn(P) == {r \in batch \cap Rom : home[r] \in P}

(* get_pending_scan_coverage: a pending scan of the library covers every   *)
(* change, whatever its type.                                              *)
get_pending_scan_coverage ==
    /\ wpc = "read"
    /\ IF \E j \in Pending : kind[j].scope = {}
       THEN /\ wpc' = "idle" /\ batch' = {} /\ UNCHANGED cover
            /\ Loses(~(Touched \subseteq Covers(Compares)))
       ELSE /\ wpc' = "schedule" /\ cover' = Covers(Pending) /\ UNCHANGED batch
            /\ Loses(~(Touched \cap Covers(Pending) \subseteq Covers(Compares)))
    /\ missed' = missed \cup ChangedIn(Covers(Pending) \ Covers(Adds))
    /\ UNCHANGED <<files, row, known, jobs, requests, flag, stopping, scan, report, flags>>

(* Without a metadata source nothing is scheduled.                         *)
NoSources ==
    /\ "sources" \in Mishap /\ wpc = "read" /\ wpc' = "idle" /\ batch' = {} /\ Loses(TRUE)
    /\ UNCHANGED <<files, rows, cover, jobs, requests, flag, stopping, scan, report, flags>>

NewJob(k, s) ==
    /\ last' = last + 1 /\ kind' = [kind EXCEPT ![last + 1] = k]
    /\ state' = [state EXCEPT ![last + 1] = s]

(* The platforms of the batch that have a row and no pending scan.         *)
ToRescan == {p \in known \ cover : \E r \in batch \cap Rom : home[r] = p}

(* schedule_rescan: the library if a folder changed, else the next of the  *)
(* platforms.                                                              *)
schedule_rescan ==
    /\ wpc = "schedule"
    /\ \/ /\ batch \cap Platform # {}
          /\ NewJob([NoKind EXCEPT !.type = "update"], "scheduled")
          /\ wpc' = "idle" /\ batch' = {} /\ cover' = {}
          /\ missed' = missed \cup (batch \cap Rom)
       \/ /\ batch \cap Platform = {}
          /\ \E p \in ToRescan :
               /\ NewJob([NoKind EXCEPT !.scope = {p}], "scheduled")
               /\ cover' = cover \cup {p}
          /\ UNCHANGED <<wpc, batch, missed>>
       \/ /\ batch \cap Platform = {} /\ ToRescan = {}
          /\ missed' = missed \cup ChangedIn(Platform \ known)
          /\ wpc' = "idle" /\ batch' = {} /\ cover' = {}
          /\ UNCHANGED <<last, kind, state>>
    /\ UNCHANGED <<files, row, known, queue, requests, flag, stopping, scan, report, flags, lost>>

-----------------------------------------------------------------------------
(* The requests.                                                           *)
Running == cur # NoJob /\ state[cur] \in {"taken", "running"}

(* get_blocking_library_scans                                              *)
Blocked ==
    \/ Running /\ kind[cur].roms = {}
    \/ \E j \in Job : state[j] = "queued" /\ kind[j].roms = {}

(* A library scan is refused while one is in the way; one of named ROMs    *)
(* goes to the front.                                                      *)
scan_handler(k) ==
    /\ requests < MaxRequests /\ requests' = requests + 1
    /\ k.roms # {} \/ ~Blocked
    /\ NewJob(k, "queued")
    /\ queue' = IF k.roms # {} THEN <<last + 1>> \o queue ELSE Append(queue, last + 1)
    /\ UNCHANGED <<files, rows, watch, flag, stopping, scan, report, flags, lost>>

(* Jobs J are in state s, and what they were to scan no longer matters.    *)
Ends(J, s) ==
    /\ state' = [j \in Job |-> IF j \in J THEN s ELSE state[j]]
    /\ kind' = [j \in Job |-> IF j \in J THEN NoKind ELSE kind[j]]

(* stop_scan_handler: the queued scans are listed,                         *)
stop_scan_handler ==
    /\ stops < MaxStops /\ stops' = stops + 1 /\ spc = "idle" /\ spc' = "list"
    /\ doomed' = {j \in Job : state[j] = "queued"}
    /\ UNCHANGED <<files, rows, watch, jobs, requests, flag, target, scan, report, flags, lost>>

(* then the scheduled ones; one released in between is in neither list.    *)
ListScheduled ==
    /\ spc = "list" /\ spc' = "cancel"
    /\ doomed' = doomed \cup {j \in Job : state[j] = "scheduled"}
    /\ UNCHANGED <<files, rows, watch, jobs, requests, flag, stops, target, scan, report,
                   flags, lost>>

CancelOthers == <<files, rows, watch, last, requests, flag, spc, stops, target, scan, report,
                  flags>>

(* Variant: what is cancelled is left on the queue.                        *)
CancelKeepsQueue(j) ==
    /\ spc = "cancel" /\ j \in doomed /\ doomed' = doomed \ {j}
    /\ Loses(TRUE) /\ UNCHANGED <<queue, CancelOthers>>
    /\ IF state[j] \in {"queued", "scheduled"} THEN Ends({j}, "cancelled")
       ELSE UNCHANGED <<kind, state>>

(* cancel_job of each: one that is still queued leaves the queue, one the  *)
(* worker has by now runs on, and one already cancelled is tolerated.      *)
CancelWaiting(j) ==
    /\ spc = "cancel" /\ j \in doomed /\ doomed' = doomed \ {j}
    /\ Loses(TRUE) /\ UNCHANGED CancelOthers
    /\ \/ /\ state[j] = "queued" /\ Ends({j}, "cancelled")
          /\ \E i \in 1 .. Len(queue) : queue[i] = j /\ queue' = RemoveAt(queue, i)
       \/ state[j] = "scheduled" /\ Ends({j}, "cancelled") /\ UNCHANGED queue
       \/ state[j] \notin {"queued", "scheduled"} /\ UNCHANGED <<kind, state, queue>>

AllCancelled ==
    /\ spc = "cancel" /\ doomed = {} /\ spc' = "find"
    /\ UNCHANGED <<files, rows, watch, jobs, requests, flag, stops, doomed, target, scan,
                   report, flags, lost>>

(* Then the running scan is looked up,                                     *)
FindRunning ==
    /\ spc = "find"
    /\ IF Running THEN target' = cur /\ spc' = "set"
       ELSE target' = NoJob /\ spc' = "idle"
    /\ UNCHANGED <<files, rows, watch, jobs, requests, flag, stops, doomed, scan, report,
                   flags, lost>>

(* The running scan looks at the flag no more.                             *)
NoLookLeft ==
    \/ stage \notin {"next", "roms"}
    \/ todo = {} /\ (stage = "next" \/ kind[cur].roms = {})

(* and cancelled, which only its status shows, and the flag is set for it. *)
SetFlag ==
    /\ spc = "set" /\ spc' = "idle" /\ target' = NoJob /\ flag' = TRUE
    /\ late' = (late \/ target # cur)
    /\ due' = IF target # cur \/ due = "yes" THEN due
              ELSE IF state[cur] = "taken" \/ NoLookLeft THEN "maybe" ELSE "yes"
    /\ Loses(TRUE)
    /\ UNCHANGED <<files, rows, watch, jobs, requests, stops, doomed, scan, report>>

(* drop_stale_scheduled_scans, when the server starts.                     *)
drop_stale_scheduled_scans ==
    /\ "restart" \in Mishap
    /\ \E j \in Job : state[j] = "scheduled" /\ Ends({j}, "cancelled")
    /\ Loses(TRUE)
    /\ UNCHANGED <<files, rows, watch, last, queue, requests, flag, stopping,
                   scan, report, flags>>

-----------------------------------------------------------------------------
(* The worker: a due scan is released to the queue, the first is popped    *)
(* and becomes the worker's current job before scan_platforms begins.      *)
Release(j) ==
    /\ state[j] = "scheduled" /\ state' = [state EXCEPT ![j] = "queued"]
    /\ queue' = Append(queue, j)
    /\ UNCHANGED <<files, rows, watch, last, kind, requests, flag, stopping, scan, report,
                   flags, lost>>

Pop ==
    /\ cur = NoJob /\ queue # <<>> /\ cur' = Head(queue) /\ queue' = Tail(queue)
    /\ state' = [state EXCEPT ![cur'] = "popped"]
    /\ UNCHANGED <<files, rows, watch, last, kind, requests, flag, stopping, stage, fin,
                   folders, todo, plat, listed, left, report, flags, lost>>

Take ==
    /\ cur # NoJob /\ state[cur] = "popped" /\ state' = [state EXCEPT ![cur] = "taken"]
    /\ UNCHANGED <<files, rows, watch, last, kind, queue, requests, flag, stopping, scan,
                   report, flags, lost>>

(* The platforms a scan goes through.                                      *)
Selected(k) ==
    IF k.roms # {} THEN {p \in known : \E r \in k.roms : home[r] = p /\ row[r] # "none"}
    ELSE IF k.scope = {} THEN dirs
    ELSE k.scope \cap (known \cup dirs)

(* Variant: the flag is left as it is.                                     *)
BeginsFlagged ==
    /\ cur # NoJob /\ state[cur] = "taken" /\ state' = [state EXCEPT ![cur] = "running"]
    /\ stage' = "next" /\ folders' = dirs /\ todo' = Selected(kind[cur])
    /\ UNCHANGED <<files, rows, watch, last, kind, queue, requests, flag, stopping, cur, fin,
                   plat, listed, left, report, flags, lost>>

(* scan_platforms begins: the flag is cleared, since the scan running is   *)
(* this one, and the folders are listed.  Folders in no known structure    *)
(* end it at once.                                                         *)
scan_platforms ==
    /\ cur # NoJob /\ state[cur] = "taken" /\ state' = [state EXCEPT ![cur] = "running"]
    /\ flag' = FALSE
    /\ \/ stage' = "next" /\ folders' = dirs /\ todo' = Selected(kind[cur]) /\ UNCHANGED lost
       \/ /\ "fail" \in Mishap /\ kind[cur].roms = {}
          /\ stage' = "quit" /\ Loses(TRUE) /\ UNCHANGED <<folders, todo>>
    /\ UNCHANGED <<files, rows, watch, last, kind, queue, requests, stopping, cur, fin, plat,
                   listed, left, report, flags>>

(* The rows of platform p agree with the files in keep.                    *)
mark_missing_roms(p, keep) ==
    [r \in Rom |-> IF home[r] # p \/ row[r] = "none" THEN row[r]
                   ELSE IF r \in keep THEN "present" ELSE "missing"]

(* should_scan_rom, of a ROM with this row and none selected by id.        *)
should_scan_rom(t, has) ==
    \/ t = "new_platforms" /\ has = "none"
    \/ t = "quick"
    \/ t = "update" /\ has # "none"

Others == <<files, watch, jobs, requests, flag, stopping, cur, fin, folders, report, flags,
            lost>>

(* Variant: the flag is not looked at between platforms.                   *)
IdentifyUnstopped(p) ==
    /\ stage = "next" /\ p \in todo /\ plat' = p /\ kind[cur].roms = {}
    /\ known' = known \cup {p} /\ stage' = "roms" /\ todo' = todo \ {p}
    /\ listed' = disk \cap Mine(p) /\ row' = mark_missing_roms(p, listed')
    /\ left' = {r \in listed' : should_scan_rom(kind[cur].type, row[r])}
    /\ UNCHANGED <<missed, Others>>

(* _identify_platform up to its ROMs: its row, the list of its files, the  *)
(* rows of files that are gone or back.                                    *)
_identify_platform(p) ==
    /\ stage = "next" /\ p \in todo /\ kind[cur].roms = {} /\ UNCHANGED <<missed, Others>>
    /\ \/ flag /\ stage' = "stop" /\ UNCHANGED <<row, known, todo, plat, listed, left>>
       \/ /\ ~flag /\ kind[cur].type = "new_platforms" /\ p \in known
          /\ todo' = todo \ {p} /\ UNCHANGED <<row, known, stage, plat, listed, left>>
       \/ /\ ~flag /\ ~(kind[cur].type = "new_platforms" /\ p \in known) /\ p \in dirs
          /\ plat' = p /\ known' = known \cup {p} /\ stage' = "roms" /\ todo' = todo \ {p}
          /\ listed' = disk \cap Mine(p) /\ row' = mark_missing_roms(p, listed')
          /\ left' = {r \in listed' : should_scan_rom(kind[cur].type, row[r])}
       \/ /\ ~flag /\ ~(kind[cur].type = "new_platforms" /\ p \in known) /\ p \notin dirs
          /\ known' = known \cup {p} /\ todo' = todo \ {p}
          /\ UNCHANGED <<row, stage, plat, listed, left>>

(* _scan_selected_roms, of the ROMs selected in platform p.                *)
_scan_selected_roms(p) ==
    /\ stage = "next" /\ p \in todo /\ kind[cur].roms # {} /\ UNCHANGED <<rows, Others>>
    /\ \/ flag /\ stage' = "stop" /\ UNCHANGED <<todo, plat, listed, left>>
       \/ /\ ~flag /\ plat' = p /\ stage' = "roms" /\ todo' = todo \ {p}
          /\ left' = {r \in kind[cur].roms \cap Mine(p) : row[r] # "none"}
          /\ UNCHANGED listed

(* _identify_rom: a file without a row gets one, or that of a missing ROM  *)
(* of the platform with the same hashes.  A selected ROM whose file is     *)
(* gone is marked so.  With the flag set nothing is done.                  *)
_identify_rom(r) ==
    /\ stage = "roms" /\ r \in left /\ left' = left \ {r}
    /\ UNCHANGED <<known, stage, todo, plat, listed, Others>>
    /\ \/ flag /\ (kind[cur].roms # {} => r \in disk) /\ UNCHANGED row
       \/ "rom" \in Mishap /\ UNCHANGED row
       \/ /\ kind[cur].roms # {} /\ r \notin disk
          /\ row' = [row EXCEPT ![r] = "missing"]
       \/ /\ ~flag /\ (kind[cur].roms # {} => r \in disk)
          /\ row' = [row EXCEPT ![r] = "present"]
       \/ /\ ~flag /\ row[r] = "none"
          /\ \E m \in Mine(plat) :
               /\ row[m] = "missing"
               /\ row' = [row EXCEPT ![m] = "none", ![r] = "present"]
    /\ missed' = IF row'[r] = "none" THEN missed \cup {r} ELSE missed

(* The end of a platform: its rows are marked again, by the same list; of  *)
(* selected ROMs, the flag is looked at again.                             *)
PlatformEnds ==
    /\ stage = "roms" /\ left = {} /\ UNCHANGED <<known, missed, todo, plat, left, Others>>
    /\ listed' = {}
    /\ \/ /\ kind[cur].roms = {} /\ row' = mark_missing_roms(plat, listed) /\ stage' = "next"
       \/ /\ kind[cur].roms # {} /\ UNCHANGED row
          /\ stage' = IF flag THEN "stop" ELSE "next"

(* mark_missing_platforms, by the folders listed at the beginning.         *)
mark_missing_platforms ==
    /\ stage = "next" /\ todo = {} /\ stage' = "done"
    /\ row' = IF kind[cur].roms # {} THEN row
              ELSE [r \in Rom |-> IF row[r] # "none" /\ home[r] \in known \ folders
                                  THEN "missing" ELSE row[r]]
    /\ UNCHANGED <<known, missed, todo, plat, listed, left, Others>>

(* The exception of a step other than a ROM's ends the scan, that of       *)
(* finish("scan:done") before, in or after its event included.             *)
ScanFails ==
    /\ "fail" \in Mishap /\ stage \in {"next", "roms", "done"}
    /\ stage' = "fail" /\ fin' = "mark" /\ Loses(TRUE)
    /\ unsure' = IF fin = "return" THEN unsure \cup {cur} ELSE unsure
    /\ UNCHANGED <<files, rows, watch, jobs, requests, flag, stopping, cur, folders, todo,
                   plat, listed, left, meta, told, muted, flags>>

(* The worker has no scan.                                                 *)
Idle ==
    /\ cur' = NoJob /\ stage' = "idle" /\ fin' = "mark" /\ folders' = {} /\ todo' = {}
    /\ plat' = AnyPlatform /\ listed' = {} /\ left' = {} /\ due' = "no"

Finishing == stage \in {"done", "quit", "stop", "fail"}

(* finish: the job is marked as reported, but update_job_meta swallows a   *)
(* failure to do so,                                                       *)
FinishMarks ==
    /\ Finishing /\ fin = "mark" /\ fin' = "emit"
    /\ \/ meta' = meta \cup {cur} /\ UNCHANGED unsure
       \/ "meta" \in Mishap /\ unsure' = unsure \cup {cur} /\ UNCHANGED meta
    /\ UNCHANGED <<files, rows, watch, jobs, requests, flag, stopping, cur, stage, folders,
                   todo, plat, listed, left, told, muted, flags, lost>>

(* and the event is emitted.                                               *)
FinishEmits ==
    /\ Finishing /\ fin = "emit" /\ fin' = "return"
    /\ told' = [told EXCEPT ![cur] = @ + 1]
    /\ UNCHANGED <<files, rows, watch, jobs, requests, flag, stopping, cur, stage, folders,
                   todo, plat, listed, left, meta, muted, unsure, flags, lost>>

(* A scan that was stopped clears the flag; one that failed raises its     *)
(* exception again.                                                        *)
JobReturns ==
    /\ Finishing /\ fin = "return" /\ Idle
    /\ flag' = IF stage = "stop" THEN FALSE ELSE flag
    /\ \/ stage = "fail" /\ Ends({cur}, "abandoned") /\ UNCHANGED meta
       \/ stage # "fail" /\ Ends({cur}, "over") /\ meta' = meta \ {cur}
    /\ UNCHANGED <<files, rows, watch, last, queue, requests, stopping, told, muted, unsure,
                   late, lost>>

(* The scan gets no further: its process is killed, its time is up between *)
(* two steps of its coroutine, or it raises where it catches nothing,      *)
(* before its first platform or in the finish of a scan that quits, was    *)
(* stopped or failed.                                                      *)
ScanDies ==
    /\ "die" \in Mishap /\ Running /\ Ends({cur}, "abandoned") /\ Idle
    /\ muted' = IF cur \in meta /\ told[cur] = 0 THEN muted \cup {cur} ELSE muted
    /\ Loses(TRUE)
    /\ UNCHANGED <<files, rows, watch, last, queue, requests, flag, stopping, meta, told,
                   unsure, late>>

(* Variant: it does not ask whether the scan reported itself.              *)
ReportAnyway(j) ==
    /\ state[j] = "abandoned" /\ Ends({j}, "over") /\ meta' = meta \ {j}
    /\ told' = [told EXCEPT ![j] = @ + 1]
    /\ UNCHANGED <<files, rows, watch, last, queue, requests, flag, stopping, scan, muted,
                   unsure, flags, lost>>

(* report_scan_failure, RQ's callback when a job raised or was found dead: *)
(* it is silent if the scan reported itself, tells the clients if it did   *)
(* not or the mark cannot be read, and swallows a failure to tell them.    *)
report_scan_failure(j) ==
    /\ state[j] = "abandoned" /\ Ends({j}, "over") /\ meta' = meta \ {j}
    /\ \/ j \in meta /\ UNCHANGED <<told, muted, unsure>>
       \/ /\ j \notin meta \/ "meta" \in Mishap
          /\ told' = [told EXCEPT ![j] = @ + 1]
          /\ unsure' = IF j \in meta THEN unsure \cup {j} ELSE unsure
          /\ UNCHANGED muted
       \/ /\ "fail" \in Mishap /\ muted' = muted \cup {j} /\ UNCHANGED <<told, unsure>>
          /\ j \notin meta \/ "meta" \in Mishap
    /\ UNCHANGED <<files, rows, watch, last, queue, requests, flag, stopping, scan, flags,
                   lost>>

-----------------------------------------------------------------------------
Watches == WatcherStarts \/ get_pending_scan_coverage \/ schedule_rescan

Works ==
    \/ Pop \/ Take \/ scan_platforms \/ PlatformEnds \/ mark_missing_platforms
    \/ FinishMarks \/ FinishEmits \/ JobReturns
    \/ \E p \in Platform : _identify_platform(p) \/ _scan_selected_roms(p)
    \/ \E r \in Rom : _identify_rom(r)

Next ==
    \/ \E p \in Platform : MakeFolder(p) \/ RemoveFolder(p)
    \/ \E r \in Rom : AddFile(r) \/ RemoveFile(r)
    \/ Watches \/ WatcherRestarts \/ NoSources \/ Works
    \/ \E k \in Request : scan_handler(k)
    \/ stop_scan_handler \/ ListScheduled \/ AllCancelled \/ FindRunning \/ SetFlag
    \/ drop_stale_scheduled_scans
    \/ \E j \in Job : CancelWaiting(j) \/ Release(j) \/ report_scan_failure(j)
    \/ ScanFails \/ ScanDies

Spec == Init /\ [][Next]_vars

(* The watcher is started for every batch, the scheduler of the worker     *)
(* releases what is due and the worker takes and runs one scan after the   *)
(* other.                                                                  *)
Fairness ==
    /\ WF_vars(Watches) /\ WF_vars(Works)
    /\ \A j \in Job : WF_vars(Release(j))

FairSpec == Spec /\ Fairness

-----------------------------------------------------------------------------
(* A flag "set against a scan that ended first would otherwise stop this   *)
(* one before it began" (scan.py:1123): a scan stops only if a stop        *)
(* request found it running, unless the flag was set when the scan it was  *)
(* meant for was over (scan.py:1530).                                      *)
StopsOwnScan == stage = "stop" => due # "no" \/ late

(* A scan does not run to its end once the flag was set for it, unless the *)
(* flag was set before scan_platforms cleared it (scan.py:1132) or during  *)
(* the last platform.                                                      *)
StopIsObeyed == stage = "done" => due # "yes"

(* Every scan that began tells the clients that it is over, however it     *)
(* ends, but for one that ends between the mark and the event of finish    *)
(* (scan.py:1149-1151) or whose failure cannot be reported (scan.py:141).  *)
(* It is told twice only where "saying so twice beats leaving a finished   *)
(* scan on screen" (scan.py:122): the mark was not written (tasks.py:47)   *)
(* or not read, or finish itself raised after its event (scan.py:1410).    *)
EndIsTold ==
    \A j \in Job :
      /\ told[j] >= 2 => j \in unsure
      /\ state[j] = "over" => told[j] >= 1 \/ j \in muted

(* Once the disk is left alone, the rows of ROMs agree with it: what was   *)
(* removed is missing, what is back is not, whatever the scans listed      *)
(* before the change, unless a scan was stopped or lost, or a change was   *)
(* left to a pending scan for new platforms (watcher.py:113), which skips  *)
(* the platforms there are (scan.py:894).                                  *)
MissingHeals ==
    <>[](lost \/ \A r \in Rom : row[r] # "none" => (row[r] = "present" <=> r \in disk))

(* A file added to a platform there is a row for gets a row of its own,    *)
(* whatever was listed, running or pending when it came, unless its change *)
(* was lost or left to scans that add none: of another type than quick, or *)
(* in a batch with a change of a platform folder (watcher.py:113, 236).    *)
AddedIsScanned ==
    <>[](lost \/ \A r \in disk \ missed : home[r] \in known => row[r] # "none")

=============================================================================
