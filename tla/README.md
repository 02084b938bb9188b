# Formal model of shardcade

shardcade is a self-hosted game library: a Python (FastAPI) backend over a SQL
database, Redis and the file system, a Vue frontend, RQ workers, and emulator
containers that stream games to the browser.  This directory holds TLA+ modules
that model its coordination logic, the TLC configurations that check them on
small instances, and TLAPS proofs that hold for instances of any size.

Paths below are relative to `src/backend/` unless they start with `src/`.

## 1. Inventory

### Streaming sessions

A *container* runs an emulator and a small HTTP broker.  The backend reserves a
container by a key in Redis; every backend process reads and writes that key.

| Part | State | Operations |
| --- | --- | --- |
| session store (`handler/streaming/session_store.py`) | one Redis key per container: a claim (JSON blob) or a drain marker, with a TTL | `cas_session` (WATCH/GET/EXEC) behind `mutate_session`, `replace_session_if`, `release_own_session`, `claim_drain_marker`, `drop_drain_marker`, `stamp_launched`, `set_session_disc`; the keepalives `hold_drain_marker` and `hold_session_claim`; `refresh_session` (EXPIRE); `session_is_stale` |
| lifecycle (`handler/streaming/lifecycle.py`) | none of its own | `abort_claim`, `teardown_released_session`, `_teardown_abandoned_session` (takeover), `await_teardown_within_budget`, `release_after_state_pull`, `quiesce_container`, `collect_exit_state` |
| launch (`handler/streaming/launch.py`) | none of its own | `run_launch`, detached from the request that won the claim |
| endpoints (`endpoints/streaming.py`) | the adoption decision per container | `claim_session` with `_win_container`, `_probe_container_card`, `_settle_memory_card`, `_hydrate_saves`; `claim_desktop_session`; `release_session`; `save_and_exit_session`; `force_release_all`; `heartbeat_session`; the control requests |
| memory cards (`handler/streaming/memory_cards.py`) | card versions in the library, the card in the container's slot | hydrate, evacuate, wipe, discard the blank |
| broker (`commands.py`, `webstation.py`, `states.py` under `handler/streaming/`) | in the container: the running game, the slot, the last exit state | activate, stop, save and exit, card and state routes |

Parts interact through the Redis key and the container alone.  A request reads
the session, then awaits broker calls that block for seconds to minutes, then
writes the key; other requests and detached tasks run in each await.

What is hard here:

- *read before an await, used after it*: the session that a release, exit,
  takeover, launch or control request read is old by the time it acts on it;
- *reservation hand-over*: a claim becomes a drain marker, a marker becomes
  nothing, and nobody may get in while the container is being emptied;
- *keepalives* that stop at a ceiling, at a crash or at a contended write, while
  the work they cover runs on;
- *partial failure* of stop, evacuate, wipe, pull, hydrate and activate;
- *takeover* of a session believed abandoned, racing the player's return;
- *data loss*: the slot is overwritten by every hydrate and the exit state by
  every activate, so both must be in the library by then.

What makes it correct: a claim is ended only by its own teardown, by a takeover
while it is stale or by its TTL; a teardown is the only one on its container; a
claim holds one container; a game runs on its own player's card; nothing played
is overwritten before it is stored or filed for the wrong player; and every
container comes free again.

### The other modelled parts

| Part | State | Operations | What is hard |
| --- | --- | --- | --- |
| ROM provider jobs (`handler/providers/jobs.py`, `endpoints/providers.py`) | the list `provider:jobs`, cancel keys and the enqueue lock in Redis; RQ jobs with their metadata | enqueue under a lock, list, cancel, retry, run, commit of an import | a list trimmed to 100, a crash between enqueue and push, dependents of a job that died, a cancel racing the commit |
| ROM provider downloads (`handler/providers/downloads.py`) | staging file, resume metadata, the library's folder | `http_download`, `publish_file` | a crash between metadata and truncation, or between placeholder and rename; a file that changes behind its link; somebody else taking the name |
| chunked upload (`endpoints/roms/upload.py`, `tasks/scheduled/cleanup_upload_tmp.py`, `handler/rom_conversion.py`) | session and chunks keys in Redis, a temp directory per upload, the library's folder; a game's file, its folder and its record | start, chunk, complete, cancel, hourly cleanup; promotion of a single-file game to a folder | requests of one upload at once over the same files; expiry and deaths between any two steps; workers that promote one game at once |
| device authorization (`utils/device_auth.py`, `endpoints/device_auth.py`) | a device code and a user code per pairing in Redis, tokens in the database | init, approve, deny, poll | read, check and write are not one; one-shot delivery of the token |
| device sync (`tasks/sync_push_pull_task.py`, `handler/sync/comparison.py`, `endpoints/saves.py`) | the save on each device and on the server, its row, a last-synced row per device | list, compare, pull, push, report a conflict; `update_save` from the browser | decisions from what was read before the transfer; seconds as the grain of time; a sync stopping half way |
| library scan (`endpoints/sockets/scan.py`, `handler/scan_jobs.py`, `watcher.py`) | the scan queue, the stop flag, the rows of platforms and ROMs, who was told what | request, stop, watcher batch, scan of the library or of named ROMs, failure callback | a stop racing the end of one scan and the start of the next; lists that are minutes old when rows are marked; a scan killed while it reports |

Provider imports and uploads meet in the library's folder and nowhere else; a
scan sees what both leave there.  Jobs of a provider and scans share RQ but not a
queue.

### Not modelled

| Part | Why |
| --- | --- |
| netplay rooms, activity board, play sessions, termination notices, zip cache | shared state worth a module of its own; see the plan |
| Minerva index | a crawl into a new file; the one moment that matters, its replacement, is `Publish` in ProviderJobs |
| torrent and Mega downloads | the protocol is an external client's; both end in the `publish_file` that is modelled |
| `_push_missing_saves`, the negotiate API and the file-transfer watcher of device sync | copies to a device that has no file yet, and decisions the device carries out itself |
| metadata providers, serialization, exports, feeds, recommendations, configuration, the frontend | requests to external services, parsing and queries without shared mutable state.  They are most of the repository's lines, which is why the modelled share of lines is small |
| database handlers | SQL queries; transactions are the database's.  The three that other parts rely on for their effect on rows (`mark_missing_roms`, `mark_missing_platforms`, `upsert_sync`) are modelled |

`PROJECT.json` lists every component with its status and every hazard at its line.

## 2. Modules

```
SessionKey              what one session key promises (abstract, atomic)
  ^ implemented by
SessionCas              cas_session, one Redis command per step
                                SessionCas_proofs, MCSessionCas
StreamingSessions       pool, containers, requests and background tasks
                                StreamingSessions_proofs, MCStreamingSessions

ExclusivePublish        what adding a file promises the library (abstract)
  ^ implemented by
LibraryImports          the composition of
    ChunkedUpload         uploads and their cleanup
                                ChunkedUpload_proofs
      RomUploads            uploads into a game that becomes a folder
                                (ChunkedUpload_proofs), MCRomUploads
    ProviderImport        attempts to import one file
                                LibraryImports_proofs, MCLibraryImports

ProviderJobs            the job queue around the imports
                                ProviderJobs_proofs, MCProviderJobs
DeviceAuth              pairing a device
                                DeviceAuth_proofs, MCDeviceAuth
DeviceSync              one save on devices and server
                                DeviceSync_proofs, MCDeviceSync
LibraryScan             scans, watcher, stop and rows
                                LibraryScan_proofs, MCLibraryScan
```

**SessionKey** says that every read-modify-write of a session takes effect at one
instant or not at all.  `key` is the Redis value, `op[p]` the operation a task was
called with, `result[p]` how it ended.  The callers of `cas_session` differ in
what they require of the session they read (`Accepts`) and what they leave at
the key (`Write`).

**SessionCas** is the code: WATCH, GET, the plan, MULTI/EXEC with SET XX or DEL,
the retry budget, the DELETE that drops a corrupt entry; beside it the writers
that are one command (SET NX of `try_claim`, EXPIRE of `refresh_session`, DEL of
`force_release_all`) and expiry, which may or may not abort a transaction that
watches the key.  `issued`, `ended`, `acked` and `moved` are history variables.

**StreamingSessions** composes the rest over a pool of containers.  A step is
what runs between two awaits: one Redis round trip (a compare-and-set is one
step, which is what SessionCas implementing SessionKey justifies) or one broker
call.  `key[c]` is the Redis value; `emu`, `slot`, `exitState` and `dying` are the
container; `adoption` and `filed` are the database; `op`, `pc`, `at`, `sess` and the
flags are the locals of each task.  Data is abstracted to whose it is: the task
that won a claim names the claim (`user_id` and `claimed_at`), its card and its
game, and the task of a teardown names its drain token.  So "filed for the wrong
player" is a pair in `filed` whose halves differ.  A card holds `unsaved`
progress from `Play` until it is stored.

| Actions | Code |
| --- | --- |
| `StartClaim`, `Walk`, `SweepSkips`, `SweepSpawns`, `AwaitDone`, `AwaitTimeout`, `Retry` | `claim_session` up to a won container: `_win_container`, `await_teardown_within_budget` |
| `ProbeKnown`, `ProbeAsks`, `Settle`, `StoreAdopted`, `AdoptionFails`, `RecordAdoption`, `Hydrate`, `HydrateFails` | the rest of `claim_session` |
| `Launch`, `LaunchFails`, `Stamp`, `Abort` | `run_launch`, `abort_claim` |
| `StartDesktop`, `DesktopClaim` | `claim_desktop_session` |
| `StartRelease`, `Mark`, `Stop`, `Evacuate`, `Wipe`, `Pull`, `Drop` | `release_session`, `teardown_released_session` |
| `TakeoverMark`, then the same teardown | `_teardown_abandoned_session` |
| `StartSaveAndExit`, `Kill`, `KillLands`, `Evacuate`, `Wipe`, `ExitPulls`, `ExitReleases` | `save_and_exit_session`, `release_after_state_pull` |
| `StartForce`, `ForceRead`, `ForceDelete` | `force_release_all` |
| `StartControl`, `refresh_session`, `StartHeartbeat`, `Heartbeat` | volume, mute, save state, disc; heartbeat |
| `HoldMarker`, `HoldClaim`, `HoldCeiling` | the keepalives |
| `GoStale`, `Expire`, `Crash`, `Play` | clock, Redis, process death, the player (external) |

`Mishaps` is the set of things allowed to go wrong in an instance: contended
compare-and-sets, failing broker calls, crashes, exits before the launch returned,
preparations that outlast the stale window, work that outlasts the keepalive's
ceiling, sessions forgotten until their TTL.  Where the code does not keep a
property under a mishap or beside an operation, the passing run excludes it, and
section 3 says what happens when it is added back: what a property depends on is
visible in the constants.

**ExclusivePublish** is the promise that existing files are never overwritten: a
publisher takes an unused name with an empty file and is then the only one that
may fill or remove it, until it does or dies.

**ChunkedUpload** models the four routes and the hourly task.  A step is a Redis
round trip or a file operation.  A chunk's body is two writes at the request's
own offset, so two PUTs of one chunk, a PUT that fails late (and unlinks the
file) and a complete that reads meanwhile meet in the file as they do on disk;
`ChunkFile` has the outcomes.  `overlap`, `damaged` and `orphaned` are history.

**RomUploads** extends it with the uploads into a game (`Target`).  `record` is what the
database says of the game, `folder` whether its folder exists, `at` where its file is.
`task[r]` is the step of a promotion, called by a complete (`_free_rom_destination`) or by
another endpoint (`convert_rom_to_folder`).  The lock around a promotion is one of
each process, and the backend runs four workers by default
(`src/docker/init_scripts/init:141`): every promotion here has a worker of its own, which
is the case the comment in `_promote` is about.  `LookForFolder`, `MakeFolder`, `MoveIn` and
`Convert` are the promotion; `Restore`, `LookIntoFolder` and `RemoveFolder` its rollback.
`OtherStep` is every other step of ChunkedUpload.  `stranded` and `late` are history.  The
game's file has an extension, no upload asks for the path of that file, and
`refresh_rom_files`, which registers the upload afterwards, is left out.

**ProviderImport** models one result's attempts: what `http_download` reads from the
staging directory, the 200 and 206 answers of a server whose file may have
changed, the order of metadata, truncation and blocks, and `publish_file`.  An
attempt fails, is cancelled or dies at every step; the next one resumes from what
it left.  A body whose length was neither announced nor known (`sized` is FALSE) is
accepted as soon as it is not empty, as the code does.

**LibraryImports** runs both over one folder.  `AnyHolder` is the refinement mapping:
the owner of a name is whoever is between the exclusive open and the rename.

**ProviderJobs** models `enqueue` step by step (lock, list, RQ enqueue, push and
trim), the routes that call it, cancellation, and `run` as its reports and the
moment its result becomes visible.  RQ (dependencies with `allow_failure`, workers,
a killed horse) is external.

**DeviceAuth** models the two Redis keys of a pairing.  `mark_approved` and
`mark_denied` are a read, a write and a delete; `consume_approved` is a GETDEL with
its re-insertion.  A token is named for the approval that made it.

**DeviceSync** models one save.  Its content is the set of plays in it, so equal
hashes are equal sets, and a lost play is one that no copy has.  The clock counts
the seconds of an SFTP mtime; several things happen in one second.  A session of
play, in the browser (`tab`) or on a device (`ram`), loads a copy at one time and saves
over that copy at another, whatever the copy has become since: `update_save` replaces
the file with the upload.  `excused` collects the plays that fall into the windows the
code leaves open, which section 3 names.

**LibraryScan** models the requests, the watcher (its read of the pending scans and
its scheduling are separate steps), the single scan worker, the stop request (it lists
the queued and the scheduled scans, cancels them one by one, looks up the running
one and sets the flag), and a scan as its looks at the flag, its listings and its
writes of rows.  `fin` is the step of `finish`: the mark in the job's meta, the event, the
return; `update_job_meta` may swallow the mark and `_scan_reported_itself` may fail to
read it.  `due`, `late`, `muted`, `unsure`, `missed` and `lost` are history.

Definitions introduced by a comment that starts with *Variant* are plausible
mistakes in the definition that follows.  They belong to no specification; each
is substituted for its original to see that a property notices.

## 3. Runs

Run from this directory, for example
`tlc -workers 2 -config StreamingSessions_cards.cfg MCStreamingSessions`.

| Run | Instance | Shows |
| --- | --- | --- |
| `cas_atomic` | two tasks, every operation, two attempts | no acknowledged update is lost (`NoLostUpdate`), no ended claim comes back (`NoResurrection`), only its own release removes a claim (`OnlyOwnRemoval`), and the whole implements SessionKey (`ImplementsSessionKey`) |
| `cas_corrupt` | from a value that is not a session; fairness | giving up means real contention (`ContentionIsReal`) and every call returns (`CasReturns`) |
| `cards` | one card-sync container, four requests, claim, desktop, release, heartbeat, control; no mishaps | `GameOnOwnCard`, `FiledIsOwn`, `UnsavedIsKept`, `StopsOwnGame` |
| `pool` | two containers, three requests, forced releases; failures of the broker | `ClaimHoldsOne` |
| `live` | one container whose broker is not a webstation (it takes the kill command), every player's operation but the desktop; crashes, contention, forgotten sessions, overruns, slow starts, failures, early exits; fairness | `TeardownHoldsMarker`, `ClaimEndsByItsOwn`, `ContainerIsFreed`, `RequestEnds` |
| `provider_jobs` | two requests, two workers, three jobs, a list of two, one cancel key | `ListedAreSerial`, `CancelledLeavesNothing`, `WaitsForLiveJob` |
| `upload` | one upload of two chunks into a single-file game, two requests, either of which may promote the game; fairness | `OneAssembler`, `SessionHasDirectory`, `DamagedOnlyByOverlap`, `TmpIsReclaimed`; of the promotions `RecordIsRight`, `FileIsKept` |
| `imports` | an upload and an import for the same name; two links, a strong and a weak validator, two blocks | `ImportIsOneVersion`, `NoStrayPlaceholder`, `LibraryIsExclusive` |
| `device_auth` | one pairing, four requests of any kind | `DeliveredOnce`, `AnswerIsFinal`, `TokenIsReachable` |
| `device_sync` | two devices and the browser, three plays, three seconds | `NoPlayIsLost`, `InSyncIsEqual` |
| `scan_stop` | two platforms, one ROM, one change, one request of any kind, two stops, every mishap | `StopsOwnScan`, `StopIsObeyed`, `EndIsTold` |
| `scan_rows` | one platform, two ROMs, three changes of the disk, one request of any kind, ROMs that fail, a watcher restarted for the next batch; fairness | `MissingHeals`, `AddedIsScanned` |

### Bounds

*SessionCas.*  Two tasks are enough for atomicity because interference on one key
is pairwise and the single-command writers are always enabled as well; two
attempts are the least at which a retry happens and still can run out; two
claim identities are the least at which "another claim" exists.

*StreamingSessions.*  The races need three requests and one takeover per
container: the session's own claim, the request that ends it and the claim that
comes in meanwhile, plus the takeover that claim spawns; `cards` has a fourth for
a control or a desktop beside them.  One container is enough wherever the
property speaks of one container, since containers share nothing; `pool` has two
for the walk and the sweep.  `live` has two requests, because symmetry and views
are not sound for liveness and are not used there.  The other runs use the
symmetry of requests and of takeovers, and a view that drops the locals of ended
tasks, which no action and no checked property reads.  `Quiet` is the stuttering
step of a state in which nothing is left to run; every other state without a
successor is reported as a deadlock.  When every takeover of the bound has been
used, a sweep that would start one more stays where it is: a bound of the model,
not of the code.  `RequestEnds` is not affected in `live`, where at most one claim
can ever sweep a given session.

*ProviderJobs.*  The list is trimmed to two and refuses at two pending jobs, against
100 and 99 in the code: with three jobs a running one can fall off the list, which
is the case that matters.  Two workers are the least that can run two jobs at once.

*ChunkedUpload, RomUploads, LibraryImports.*  Two requests of one upload meet in every
pair of steps, and two promotions of one game do: a request may promote it several times,
before and after the other.  Two chunks are the least that can be assembled half; in `imports` the
uploads' inner races are left to `upload`, so one chunk and one request do.  Two
blocks are the least that can be of two versions.

*DeviceAuth.*  Four requests allow two answers and two polls, in any mixture.

*DeviceSync.*  Three plays on two devices and the browser allow a conflict, a
transfer of it and one more change; three seconds are a second before, one during
and one after a sync.  Nobody needs a second session of play on one copy: a session
loads again at any time.

*LibraryScan.*  `MaxChanges`, `MaxRequests` and `MaxStops` bound the environment only; every
change makes one job at most, so jobs do not run out.  Two stops are needed for a
flag that comes late to meet the next scan's own, and two platforms for a stop that
must be seen between them; of the rows, a platform is on its own but for the
changes of folders, so `scan_rows` has one, with a ROM that can take another's row.

Deadlock is not checked in the runs from `provider_jobs` on: when their bounded
environment has nothing left to do, the system rightly rests.

### Fairness

`FairSpec` assumes weak fairness of four things.  `Work(t)`: the event loop runs a
task that can run, and every broker call has a timeout.  `AwaitTimeout(t)`: the
sweep waits under `asyncio.wait_for` with a budget.  `KillLands(c)`: a broker
finishes a kill it accepted.  `GoStale(c)` and `Expire(c)`: clocks advance and
Redis expires keys.  Nothing is assumed of starts, keepalives, mishaps or play:
a crashed task never moves again, and containers are freed all the same.

`Fairness` of ChunkedUpload and RomUploads assumes that Redis expires keys, that directories age
and that the hourly task runs; nothing of clients or requests, which may die at
any step.  That of LibraryScan assumes that the watcher process, the RQ scheduler
and the scan worker run; nothing of users.  `FairCorruptSpec` of SessionCas assumes
that a task in `cas_session` takes its next step.

### Where the code does not keep what a comment says

Some properties hold only without certain mishaps or operations, or except in
windows that the property names.  What a passing run excludes is visible in its
constants and in the history variables of the property.

- Streaming, with the constants that show it:
  - `OnlyOwnRemoval` under `FairCorruptSpec`: a reader of a corrupt value deletes the key
    after its UNWATCH, and with it a claim made in between
    (`session_store.py:199`).
  - A launch whose claim is gone, with `"early_exit"`: a release that comes in while
    `run_launch` waits for its activate frees the container, and the game then comes up
    on a free container, though "the container stays reserved throughout"
    (`launch.py:54`).  So does the takeover of a claim that went stale while it was
    prepared (`"slow_start"`), and a forced release of a claim that is starting
    (`"force"`).  No property claims the reservation: where none of the three happens
    it says no more than SET NX does.
  - `HydrateSparesUnsaved` with `"failure"` and card sync: a card whose evacuation failed
    is overwritten by the next claim without the prompt that `lifecycle.py:367`
    promises, once a decision about the container's first card is on record.
  - An adopted card that is lost, with `"failure"` and card sync: the claim that adopted
    the container's card fails after `RecordAdoption`; the version `StoreAdopted` filed
    is discarded with the blank card and the decision stays on record
    (`endpoints/streaming.py:531`), so the next claim wipes the slot unasked.  A crash
    between the two steps is harmless: the next claim asks again.  No property claims
    that adopted cards stay, which without a failure nothing could disturb.
  - `EvacuatesUnderReservation`, which no run checks, with `"save_and_exit"`: a
    save-and-exit whose claim ended while the broker saved still evacuates and wipes
    the slot, though "the claim still guards the container"
    (`endpoints/streaming.py:803`).  So does a forced
    release, which writes no marker (`"force"`), and a teardown whose marker did not
    land (`"contention"`) or lapsed (`"overrun"`) once something else took the key.
  - `ClaimEndsByItsOwn` with `"force"`: `force_release_all` deletes a claim that began while
    it was stopping the previous one.
  - `FiledIsOwn` with `"crash"` and card sync: a teardown that dies leaves its session's
    card in the slot and its marker expires; if the next claim dies before its own
    hydrate, the takeover of that claim files the card for the wrong session.  An
    ending that comes in before the launch returned (`"early_exit"`, `"slow_start"`,
    `"force"`), a marker that does not land or lapses (`"contention"`, `"overrun"`) and a
    save-and-exit lead there too.
  - `GameOnOwnCard`, `UnsavedIsKept` and `StopsOwnGame` with any one mishap, and with
    `"save_and_exit"` or `"force"`: each of them can leave a game or a card behind in a
    container that is free for the next claim.
- Provider jobs: `docs/ROM_PROVIDERS.md` says downloads run sequentially.
  `ListedAreSerial` holds of jobs the list shows; one that was trimmed off, or whose
  push was lost to a crash, is not waited for.
- Imports: `torn` excuses an attempt that stops between writing the metadata of a
  new version and truncating the old bytes (`downloads.py:141-148`); the next attempt
  then appends to the old bytes.  `orphaned` excuses a publisher that dies between
  the exclusive open and the rename; the empty file stays and blocks the name.
  A body without a known length may be published cut short
  (`downloads.py:174-180`): one version, but not all of it.
- Uploads: `overlap` excuses a client that sends a chunk twice at once, or completes
  while it sends one; the sizes then add up and the bytes need not.
- Promotions: `stranded` excuses one that dies, or cannot roll back, between its move and
  its record (`rom_conversion.py:84-90`): the record says file, the file is in the folder.
  `late` excuses a removal whose look found the folder empty before another worker moved the
  file in (`rom_conversion.py:52-53`): the file goes with the folder.
- Pairing: `raced` excuses an approve and a deny, or two approves, in flight at once.
- Device sync: `excused`, see DeviceSync: plays during a sync or in the second of one
  (`sync_push_pull_task.py:304` records the time of the end), a sync that stops
  between the file and its row, the first sync of a device, where the newer
  copy wins, and a session of play that saves over what it had not loaded:
  a browser that loaded the save before a pull and uploads after it drops what was
  pulled (`saves.py:598` compares nothing), and the emulator of a device does the same
  to a push.  What the properties show is that syncs lose nothing outside these
  windows, not that the windows are closed.
- Scans: `late` and the value `"maybe"` of `due` excuse a flag set for a scan that is over
  (`scan.py:1530`), before the scan clears it (`scan.py:1132`) or after its last look.
  `muted` excuses a scan that ends between its mark and its event (`scan.py:1149`) and a
  failure that cannot be told (`scan.py:141`); `unsure` is where the code itself prefers to
  say so twice (`scan.py:122`): a mark that was not written (`tasks.py:47`) or not read, and
  an exception in `finish` after its event, which the scan answers with a second
  one (`scan.py:1410`, `1416`).
  `lost` excuses scans that were stopped, failed, died or were dropped as stale, a
  batch the watcher was restarted over or had no metadata source for (`watcher.py:208`),
  and a change that a pending scan for new platforms absorbs: the watcher counts
  it as a scan of the library (`watcher.py:113`), but it skips the platforms there are
  (`scan.py:894`), so a removed file's row stays present.  `missed` excuses, for `AddedIsScanned`
  only, a change that is left to scans which add no row (an update, pending or
  scheduled for a changed folder, `watcher.py:236`) and a ROM whose own scan failed.

## 4. Proofs

Run `tlapm M_proofs.tla` for M one of SessionCas, StreamingSessions,
LibraryImports, ChunkedUpload, ProviderJobs, DeviceAuth, DeviceSync and
LibraryScan.  The constants are arbitrary but for the named assumptions of the
modules (a pool, a platform or an upload exists, bounds are natural numbers, the
values that stand for "nobody" or "nothing" are no task, request, upload or
device), which TLC evaluates on every run.

An invariant that a run checks is seldom inductive.  Each module below defines
the invariant that is, named `IInv` unless stated otherwise, proves it of the
initial states and of every action in a lemma per action or group of actions, and
derives the theorems from it.

**SessionCas_proofs**, for any sets of tasks, claims, tokens and fields, any set
of operations (`OpsAssumption`) and any positive number of attempts
(`AttemptsAssumption`).  The inductive invariant `IInv` adds to the checked
properties what they rest on: `Control` (what a task's place says of its
operation and result), `Planned` (a plan that reached EXEC accepted what it
read), `WatchIsCurrent` (while EXEC would go through, the key still holds what
the plan was given, or expired), `Accounted` (every claim handed out is at the
key or has ended), `ReleasedHasEnded` and `AttemptsCounted`.  `WatchIsCurrent` is
the heart: it turns EXEC into an atomic step on the current value.  From `IInv`
follow `CasTypeOK`, `CasNoLostUpdate`, `CasNoResurrection`, `CasReleasedIsGone`,
`CasContentionIsReal`, `CasOnlyOwnRemoval` and `CasImplementsSessionKey`: WATCH,
GET and an aborted EXEC map to stutters, a GET that rejects and an EXEC that
writes to the one atomic step of the operation.

**StreamingSessions_proofs**, for every pool, every set of requests and
takeovers, every set of operations and every set of mishaps, unless a bullet assumes
more.

- `SessionsControl`: `ControlInv` is invariant.  It consists of `TypeOK`, `Phased`
  (a task is in a phase of its operation), `ClaimsOwnSession` (a claim works on
  the session it made), `RecordsDecision` and `TokenPlaced` (a task has a token
  only from its marker on).  `SessionsTypeOK` follows.
- `SessionsClaimEndsByItsOwn`, `SessionsTeardownHoldsMarker`, both assuming
  `"force" \notin Ops`, since a forced release breaks the first one (section 3).  The
  lemma `KeySteps` sorts every write of a key into a claim taken, the same holder
  kept, a claim ended by its own teardown, a marker dropped by its own task, an
  expiry, or a forced delete; `Follows` bounds what a step does to any other task.  The two theorems are then a case analysis on
  what happened to the key.
- `SessionsClaimHoldsOne`, forced releases included.  Two keys holding claims of
  one task is not excluded by `ControlInv` alone: the strengthening `ClaimPlaced`
  says that a claim at a key is where its task is, and that a task which is still
  walking the pool holds none.
- The lemma `SessionsReserved`, under `Timely`: no session ends before its launch
  returned, preparing a claim does not outlast the stale window, and nobody forces a
  release; brokers may fail, tasks crash, work overrun, sessions be forgotten.  The
  invariant `ReservedInv` says that a claim at work on its container
  is the one at the key (`StartReserved`).  Only an ending of its own session could
  take the key from it, so it adds that a claim at a key which is launched or stale,
  and the claim of any session being ended, is through with its start
  (`LaunchedIsOver`, `EndedIsOver`), and that a new session is neither
  (`FreshSessions`).  It is a step towards `SessionsFiledIsOwn`, not a result.
- `SessionsEvacuatesUnderReservation` assumes `Undisturbed`: no compare-and-set runs out
  of attempts, no work outlasts its keepalive, and sessions end by a release or a
  takeover.  A step that takes a card out is a teardown's, so by `TeardownHoldsMarker`
  the key is its own if its marker landed and its keepalive runs; that is the
  invariant `MarkerIsKept`.  Crashes, failing brokers, slow starts, early exits and
  forgotten sessions are allowed; each of the four things excluded breaks it.
- `SessionsFiledIsOwn` assumes `Steady`: broker calls may fail at any point and abandoned
  sessions may run out with their game still up, but nothing else goes wrong and
  sessions end by a release or a takeover.  Everything else that the model has breaks
  it (section 3), a crash or an early exit only with a fourth request.  `GuardInv`
  collects what the theorems above give: claims and teardowns hold their containers.
  On top of it `OwnInv` follows the card.  A session's record names its own card or
  none (`Makes`); a claim past its hydration has its card in the slot and in the record
  (`StartsOwn`); a container under a claim that is through with its start has that
  claim's game and card (`HostsOwn`); a teardown has that card in the slot until it is
  evacuated, and the exit state it pulls is that game's (`EndsOwn`).  A free container
  is not constrained at all: a failed preparation may leave its card there.
- `SessionsGameOnOwnCard`, `SessionsUnsavedIsKept` and `SessionsStopsOwnGame` assume
  `Calm`: no mishap, no save-and-exit and no forced release, which is what `cards`
  checks on one container with four requests.  Any one of them breaks each of the
  three (section 3).  The invariant `CardInv` has two halves.  `Held(t)` is what a
  task relies on: the key is its own while it works on a container, its card is in
  its record once it is settled, a decision is on record before a card is laid
  down, a teardown is of a session that began.  `Hosts(c)` is what a container may
  be, by what is at its key: empty and clean when nobody reserves it; under a
  claim, the claimant's game and card from the launch and the hydration on; under a
  marker, what the phases of that teardown have left.  Clean means that
  the slot holds no player's card, and progress only on the container's own card
  while nobody decided about it.  The halves need each other: a step at a container
  is its reserver's (`WorksAlone`), and a marker does not expire under
  its teardown (`NothingExpires`).

**LibraryImports_proofs**, for every set of names, uploads, requests, chunks, links
and validators and every file length.

- `Exclusive`: `AllSpec` implements ExclusivePublish.  The abstract holder is read off
  the requests' places, so the mapping needs the invariant that at most one
  publisher is between the exclusive open and the rename of a name, and that the
  name is then an empty file.  Every step maps to Claim, Fill, Withdraw or Abandon
  of one publisher, or to a stutter.
- `Placeholders`: an empty file has a holder or lost it to a death.  It follows from
  the same invariant and from what each step does to the holder.
- `OneVersionPublished`: the invariant says that, unless an attempt was torn, the
  staging file is of one version, that a strong validator in the metadata beside it
  is that version's, and that the blocks still to come are of it too.

- `ImportsTyped`: type correctness of the composition, with the bound on the
  staging file, for which the invariant of `OneVersionPublished` is needed.

**ChunkedUpload_proofs**, for every set of names, uploads, requests and chunks:
`UploadTyped`, `UploadOneAssembler`, `UploadSessionHasDirectory`,
`UploadDamagedOnlyByOverlap`.  The invariant adds `Claimed` (a request past the claim
has ended the session, and no start brings it back), `OldIsEnded` (a directory
grows old only without its session), `OneSender` (without overlap a chunk has one
sender, which finds the file as it left it) and `SizeTells` (what was assembled with
the right size then has the right bytes).  Of RomUploads, for every number of
promotions: `RomUploadsAreUploads` (every step is a step of an upload or leaves the
same invariant true, so the three properties hold there too), `PromotionsRecordRight` and
`PromotionsKeepFile`.  `OneMover` says that at most one promotion has the file moved and its
record not changed, while the record says file and the file is not beside the folder; `LookIsTrue` says that a folder about
to be removed does not hold the file unless the removal is in `late`.

**ProviderJobs_proofs**, for every set of clients, every number of workers and jobs
and every bound of the list: `JobsTyped`, `JobsAreSerial`, `CancelledJobsLeaveNothing`,
`DeferredWaitForLive`.  The heart is `QueuedBehind`: a job enqueued after a listed,
unfinished job of its kind is deferred behind it or behind a newer one.  It rests on
`Locking` (from the look to the push a request has the lock), `KnowsNewest` (what the
look returned is still the newest when it enqueues), `DependsOnOlder`, `ListedExist`
and `JobsAgree` (RQ's status, the saved state and the place of the horse).

**DeviceAuth_proofs**, for every set of pairings and requests: `TokenDeliveredOnce`,
`AnswersAreFinal`, `TokensAreReachable`.  `Issued` says that a token stored is
undelivered and was written by its approval.  `Sequential(f)` describes a pairing
whose answers did not race: pending and untouched, then one answer at a time, then
denied for good or approved once, then gone.

**DeviceSync_proofs**, for every set of devices and every number of plays and
seconds: `PlaysAreKept`, `InSyncAreEqual`.  Copies are compared without the excused
plays (`Within`).  `DeviceBehind` and `RowBehind` say what the timestamps mean: a device
not played on since its last sync has nothing the row lacks, and a row not written
since has nothing the device lacks.  `Decides` carries that from what the worker read
to the copy it overwrites; `FileIsRow` and `Clocked` support it.  `Loaded` says that what a
session of play has loaded and its copy has lost since is excused, which is what a save
of that session may bring back.

**LibraryScan_proofs**, for every library and every number of changes, requests and
stops: `ScansTyped`, `ScansStopForCause`, `StopsAreObeyed`, `EndsAreTold`.  `Counted` bounds
the jobs: those made, those the watcher's batch can still make and the events
not yet read are together at most the changes and requests so far.  `Queued` and
`JobsAgree` tie the queue, the worker's job, the mark and the event to a job's state;
`Reports` says what the running scan told by the step of its finish: one event, two
when its first finish failed after the event, which makes it unsure.
`FlagIsOwn` says that the flag during a scan is that scan's or came late, and that a
scan that must notice it still has a look ahead of it.

Only model-checked is liveness under fairness, which is out of the prover's reach:
`CasReturns`, `ContainerIsFreed`, `RequestEnds`, `TmpIsReclaimed`, `MissingHeals` and `AddedIsScanned`.  Every
other property of a run is a theorem.  The type invariants of SessionCas, ChunkedUpload and
LibraryImports are theorems that no run repeats; `cards`, `provider_jobs` and `scan_stop`
check theirs, which also bound a walk, a list and a queue.

## 5. Abstractions

- A claim's identity is unique.  The code compares `user_id` and `claimed_at`.
- TTLs and stamps are classes (`stale`, `launched`, `drain`/`marker`/`full`);
  a claim that is kept alive does not go stale, everything else may at any time
  its mishap allows.
- The keepalive period is shorter than what it refreshes
  (`_DRAIN_MARKER_REFRESH` against `DRAIN_MARKER_TTL`), so a running keepalive
  keeps its key.
- Authorization only restricts who may call an operation; any request may
  address any claimed container here.
- A card's versions are the set of contents filed for it; pruning is left out.
- Not modelled inside the streaming component: termination notices and socket
  pushes, the activity board and playtime, the fire-and-forget save archive, state
  slots and resume states, the disc swap's broker call, joining a session.
- A provider job's list and the jobs on it are read in one step: in between a job
  can only stop being pending.  The enqueue lock outlives the few commands under it.
- An upload into a game whose file has no extension, which goes by way of a staged
  name, is not modelled: there a second worker may take the new folder for the file.
- Starting an upload and a pairing are one step each: nobody knows the random id
  before the response.
- The server of a provider keeps HTTP's rules: a 206 to If-Range is of the version
  asked for, and a strong validator names one content.
- Clocks of server and devices agree (`DeviceSync`).
- There is one scan worker.  RQ calls `on_failure` for every job that raised or was
  found dead; cancelling a job the worker already has only changes its status.
  A ROM is a path; hashes only matter where a new file
  takes over the row of a missing one, which is a choice.  The listing of a
  platform and the first marking of its rows are one step, and a row's metadata,
  its files and the firmware are left out.

## 6. Plan

1. Termination notices and the activity board beside the session key, as a
   composition with SessionKey.
2. Promotions of games without an extension, and `refresh_rom_files` after an upload.
3. Netplay rooms and the zip cache as far as the code warrants.
