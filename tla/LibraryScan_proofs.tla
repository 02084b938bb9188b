------------------------- MODULE LibraryScan_proofs -------------------------
(***************************************************************************)
(* Library scans, for every set of platforms, ROMs and requests, every     *)
(* mishap and every number of changes, requests and stops: a scan stops    *)
(* only when it was asked to, does not outrun a stop that met it in time,  *)
(* and its end is told, twice only where the code cannot know better.      *)
(***************************************************************************)
EXTENDS LibraryScan, FiniteSets, FiniteSetTheorems, SequenceTheorems, TLAPS

-----------------------------------------------------------------------------
(* The inductive invariant, in parts that few actions touch.               *)

(* The library, the locals of the watcher and of the scan.                 *)
Typed ==
    /\ disk \subseteq Rom /\ dirs \subseteq Platform /\ known \subseteq Platform
    /\ missed \subseteq Rom /\ row \in [Rom -> {"none", "present", "missing"}]
    /\ cover \subseteq Platform /\ folders \subseteq Platform
    /\ todo \subseteq Platform /\ plat \in Platform
    /\ listed \subseteq Rom /\ left \subseteq Rom

(* The platforms of the batch that may still get a rescan.                 *)
Uncovered == {home[r] : r \in batch \cap Rom} \ cover

(* How many jobs the batch in the watcher's hands can still make.          *)
Debt ==
    CASE wpc = "idle" -> 0
      [] wpc = "read" -> Cardinality(batch)
      [] wpc = "schedule" ->
           IF batch \cap Platform # {} THEN 1 ELSE Cardinality(Uncovered)

(* Each change of the disk makes at most one job, so that the numbers of   *)
(* jobs suffice.                                                           *)
Counted ==
    /\ events \subseteq Rom \cup Platform /\ batch \subseteq Rom \cup Platform
    /\ IsFiniteSet(events) /\ IsFiniteSet(batch)
    /\ wpc \in {"idle", "read", "schedule"}
    /\ last \in Nat /\ changes \in 0 .. MaxChanges /\ requests \in 0 .. MaxRequests
    /\ last + Debt + Cardinality(events) <= changes + requests

(* The queue has every queued job once.                                    *)
Queued ==
    /\ state \in [Job -> State] /\ kind \in [Job -> Kind] /\ queue \in Seq(Job)
    /\ \A j \in Job : state[j] = "queued" <=> \E i \in 1 .. Len(queue) : queue[i] = j
    /\ \A i, k \in 1 .. Len(queue) : queue[i] = queue[k] => i = k

(* One job is in the worker's hands; the mark in its meta and the events   *)
(* told go with the state of a job.  Until it is over, a job that told an  *)
(* event is marked or unsure.                                              *)
Agrees(j) ==
    /\ state[j] = "none" <=> j > last
    /\ j = cur <=> state[j] \in {"popped", "taken", "running"}
    /\ j \in meta => state[j] \in {"running", "abandoned"}
    /\ told[j] >= 1 => state[j] \in {"running", "abandoned", "over"}
    /\ told[j] >= 1 /\ state[j] # "over" => j \in meta \cup unsure
    /\ told[j] >= 2 => j \in unsure
    /\ state[j] = "abandoned" => /\ told[j] <= 2
                                 /\ j \in meta => told[j] >= 1 \/ j \in muted
    /\ state[j] = "over" => told[j] >= 1 \/ j \in muted

(* What the running scan told, by the step of its finish: one event, two   *)
(* when its first finish failed.                                           *)
Reports ==
    /\ fin \in {"mark", "emit", "return"}
    /\ Finishing \/ (fin = "mark" /\ cur \notin meta)
    /\ cur # NoJob =>
         /\ fin = "emit" => cur \in meta \cup unsure
         /\ fin = "return" => told[cur] >= 1
         /\ fin # "return" /\ told[cur] >= 1 => stage = "fail" /\ cur \in unsure
         /\ told[cur] >= 2 => stage = "fail" /\ fin = "return"
         /\ told[cur] <= 2

JobsAgree ==
    /\ cur \in {NoJob} \cup Job /\ stage \in Stage
    /\ meta \subseteq Job /\ told \in [Job -> 0 .. 3]
    /\ \A j \in Job : Agrees(j)
    /\ stage # "idle" <=> cur # NoJob /\ state[cur] = "running"
    /\ Reports

(* The scan has a look at the flag before it.                              *)
LooksAgain ==
    \/ stage \in {"stop", "fail"}
    \/ stage = "next" /\ todo # {}
    \/ stage = "roms" /\ (todo # {} \/ kind[cur].roms # {})

(* While a scan runs, the flag is its own or came late; one that must      *)
(* notice it will.                                                         *)
FlagIsOwn ==
    /\ flag \in BOOLEAN /\ due \in {"no", "maybe", "yes"}
    /\ spc \in {"idle", "list", "cancel", "find", "set"}
    /\ doomed \subseteq Job /\ target \in {NoJob} \cup Job
    /\ spc = "set" => target # NoJob
    /\ flag /\ stage # "idle" => due # "no" \/ late
    /\ stage = "stop" => due # "no" \/ late
    /\ due = "yes" => flag /\ LooksAgain

IInv == Typed /\ Counted /\ Queued /\ JobsAgree /\ FlagIsOwn

-----------------------------------------------------------------------------
(* What leaves the variables of a part alone keeps it.                     *)
LEMMA TypedFrame ==
    ASSUME Typed,
           UNCHANGED <<disk, dirs, rows, cover, folders, todo, plat, listed, left>>
    PROVE  Typed'
BY DEF Typed, rows

(* The same of the count of jobs,                                          *)
LEMMA CountedFrame ==
    ASSUME Counted, UNCHANGED <<events, batch, wpc, cover, last, changes, requests>>
    PROVE  Counted'
BY DEF Counted, Debt, Uncovered

(* of the queue,                                                           *)
LEMMA QueuedFrame ==
    ASSUME Queued, UNCHANGED <<state, kind, queue>>
    PROVE  Queued'
BY DEF Queued

(* of the jobs,                                                            *)
LEMMA JobsFrame ==
    ASSUME JobsAgree, UNCHANGED <<last, state, cur, stage, fin, report>>
    PROVE  JobsAgree'
BY DEF JobsAgree, Agrees, Reports, Finishing, report

(* and of the flag, where what the running scan scans stays as it is.      *)
LEMMA FlagFrame ==
    ASSUME JobsAgree, FlagIsOwn,
           UNCHANGED <<flag, due, late, spc, doomed, target, stage, todo, cur>>,
           cur # NoJob => kind'[cur] = kind[cur]
    PROVE  FlagIsOwn'
BY DEF JobsAgree, FlagIsOwn, LooksAgain

-----------------------------------------------------------------------------
(* The kinds of scan that the handlers and the watcher ask for.            *)
LEMMA Kinds ==
    /\ NoKind \in Kind
    /\ [NoKind EXCEPT !.type = "update"] \in Kind
    /\ \A p \in Platform : [NoKind EXCEPT !.scope = {p}] \in Kind
BY DEF NoKind, Kind, Type

(* Platforms of the batch are no more than its changes.                    *)
LEMMA UncoveredBound ==
    ASSUME IsFiniteSet(batch), NEW c
    PROVE  /\ IsFiniteSet({home[r] : r \in batch \cap Rom} \ c)
           /\ Cardinality({home[r] : r \in batch \cap Rom} \ c) \in Nat
           /\ Cardinality({home[r] : r \in batch \cap Rom} \ c) <= Cardinality(batch)
<1> DEFINE T == {home[r] : r \in batch \cap Rom}
           f == [r \in batch \cap Rom |-> home[r]]
<1>1. IsFiniteSet(batch \cap Rom) /\ Cardinality(batch \cap Rom) <= Cardinality(batch)
  BY FS_Subset
<1>2. f \in Surjection(batch \cap Rom, T)
  BY DEF Surjection
<1>3. IsFiniteSet(T) /\ Cardinality(T) <= Cardinality(batch \cap Rom)
  BY <1>1, <1>2, FS_Surjection
<1> HIDE DEF T
<1>4. T \ c \in SUBSET T
  OBVIOUS
<1>5. IsFiniteSet(T \ c) /\ Cardinality(T \ c) <= Cardinality(T)
  BY <1>3, <1>4, FS_Subset
<1>6. /\ Cardinality(batch) \in Nat /\ Cardinality(batch \cap Rom) \in Nat
      /\ Cardinality(T) \in Nat /\ Cardinality(T \ c) \in Nat
  BY <1>1, <1>3, <1>5, FS_CardinalityType
<1>7. Cardinality(T \ c) <= Cardinality(batch)
  BY <1>1, <1>3, <1>5, <1>6
<1> QED
  BY <1>5, <1>6, <1>7 DEF T

(* The jobs the batch can still make, by the step of the watcher.          *)
LEMMA DebtIs ==
    ASSUME Counted
    PROVE  /\ Cardinality(events) \in Nat /\ Debt \in Nat
           /\ wpc = "idle" => Debt = 0
           /\ wpc = "read" => Debt = Cardinality(batch)
           /\ wpc = "schedule" =>
                Debt = IF batch \cap Platform # {} THEN 1 ELSE Cardinality(Uncovered)
<1>1. Cardinality(events) \in Nat /\ Cardinality(batch) \in Nat
  BY FS_CardinalityType DEF Counted
<1>2. Cardinality(Uncovered) \in Nat
  BY UncoveredBound DEF Counted, Uncovered
<1> QED
  BY <1>1, <1>2 DEF Counted, Debt

-----------------------------------------------------------------------------
(* The disk changes, and the watcher is told of it once.                   *)
LEMMA ChangeStep ==
    ASSUME IInv, NEW d \in SUBSET Rom, NEW f \in SUBSET Platform,
           NEW e \in Rom \cup Platform, Change(d, f, e)
    PROVE  IInv'
<1> USE DEF IInv, Change, rows, watch, jobs, stopping, scan, report, flags
<1>1. Typed'
  BY DEF Typed
<1>2. Counted'
  <2>1. /\ IsFiniteSet(events \cup {e}) /\ Cardinality(events \cup {e}) \in Nat
        /\ Cardinality(events \cup {e}) <= Cardinality(events) + 1
    <3>1. IsFiniteSet(events) /\ Cardinality(events) \in Nat
      BY DebtIs DEF Counted
    <3>2. /\ IsFiniteSet(events \cup {e})
          /\ Cardinality(events \cup {e}) =
               IF e \in events THEN Cardinality(events) ELSE Cardinality(events) + 1
      BY <3>1, FS_AddElement
    <3> QED
      BY <3>1, <3>2
  <2>2. Debt' = Debt
    BY DEF Debt, Uncovered
  <2>3. /\ changes' \in 0 .. MaxChanges /\ last' = last /\ requests' = requests
        /\ last + Debt + Cardinality(events') <= changes' + requests
    BY <2>1, DebtIs, BoundAssumption DEF Counted
  <2> QED
    BY <2>1, <2>2, <2>3 DEF Counted
<1>3. Queued' /\ JobsAgree' /\ FlagIsOwn'
  BY QueuedFrame, JobsFrame, FlagFrame
<1> QED
  BY <1>1, <1>2, <1>3

(* Files and folders are added and removed.                                *)
LEMMA DiskStep ==
    ASSUME IInv,
           \/ \E p \in Platform : MakeFolder(p) \/ RemoveFolder(p)
           \/ \E r \in Rom : AddFile(r) \/ RemoveFile(r)
    PROVE  IInv'
<1>0. disk \subseteq Rom /\ dirs \subseteq Platform
  BY DEF IInv, Typed
<1>1. ASSUME NEW p \in Platform, MakeFolder(p) \/ RemoveFolder(p) PROVE IInv'
  <2>1. disk \in SUBSET Rom /\ dirs \cup {p} \in SUBSET Platform
        /\ dirs \ {p} \in SUBSET Platform
    BY <1>0
  <2> QED
    BY <1>1, <2>1, ChangeStep DEF MakeFolder, RemoveFolder
<1>2. ASSUME NEW r \in Rom, AddFile(r) \/ RemoveFile(r) PROVE IInv'
  <2>1. dirs \in SUBSET Platform /\ disk \cup {r} \in SUBSET Rom
        /\ disk \ {r} \in SUBSET Rom
    BY <1>0
  <2> QED
    BY <1>2, <2>1, ChangeStep DEF AddFile, RemoveFile
<1> QED
  BY <1>1, <1>2

(* watchfiles hands the changes over.                                      *)
LEMMA WatcherStep ==
    ASSUME IInv, WatcherStarts \/ WatcherRestarts
    PROVE  IInv'
<1> USE DEF IInv, WatcherStarts, WatcherRestarts, Loses, rows, jobs, stopping, scan,
            report, flags
<1>1. Typed' /\ Queued' /\ JobsAgree' /\ FlagIsOwn'
  BY TypedFrame, QueuedFrame, JobsFrame, FlagFrame
<1>2. Counted'
  <2>1. /\ batch' = events /\ events' = {} /\ wpc' = "read"
        /\ UNCHANGED <<last, changes, requests>>
    OBVIOUS
  <2>2. Debt' = Cardinality(events) /\ Cardinality(events') = 0 /\ IsFiniteSet(events')
    BY <2>1, FS_EmptySet DEF Debt
  <2>3. last + Cardinality(events) <= changes + requests
    BY DebtIs DEF Counted
  <2>4. last' + Debt' + Cardinality(events') <= changes' + requests'
    BY <2>1, <2>2, <2>3, DebtIs DEF Counted
  <2> QED
    BY <2>1, <2>2, <2>4 DEF Counted
<1> QED
  BY <1>1, <1>2

(* get_pending_scan_coverage drops the batch or goes on with it.           *)
LEMMA CoverageStep ==
    ASSUME IInv, get_pending_scan_coverage
    PROVE  IInv'
<1> USE DEF IInv, get_pending_scan_coverage, files, jobs, stopping, scan, report, flags
<1>1. Queued' /\ JobsAgree' /\ FlagIsOwn'
  BY QueuedFrame, JobsFrame, FlagFrame
<1>2. Typed'
  <2>1. cover' \subseteq Platform
    <3>1. \A j \in Pending : kind[j].scope \subseteq Platform
      BY DEF Pending, Queued, Kind
    <3>2. Covers(Pending) \subseteq Platform
      BY <3>1 DEF Covers
    <3> QED
      BY <3>2 DEF Typed
  <2>2. missed' \subseteq Rom
    BY DEF ChangedIn, Typed
  <2> QED
    BY <2>1, <2>2 DEF Typed
<1>3. Counted'
  <2>1. UNCHANGED <<events, last, changes, requests>> /\ Debt = Cardinality(batch)
        /\ Cardinality(batch) \in Nat
    BY DebtIs DEF Counted
  <2>2. CASE wpc' = "idle" /\ batch' = {}
    <3>1. Debt' = 0 /\ IsFiniteSet(batch')
      BY <2>2, FS_EmptySet DEF Debt
    <3> QED
      BY <2>1, <2>2, <3>1, DebtIs DEF Counted
  <2>3. CASE wpc' = "schedule" /\ UNCHANGED batch
    <3>1. Debt' = IF batch \cap Platform # {} THEN 1 ELSE Cardinality(Uncovered')
      BY <2>3 DEF Debt
    <3>2. Cardinality(Uncovered') \in Nat /\ Cardinality(Uncovered') <= Cardinality(batch)
      BY <2>3, UncoveredBound DEF Counted, Uncovered
    <3>3. batch # {} => Cardinality(batch) # 0
      BY FS_EmptySet DEF Counted
    <3>4. Debt' \in Nat /\ Debt' <= Debt
      BY <2>1, <3>1, <3>2, <3>3
    <3> QED
      BY <2>1, <2>3, <3>4, DebtIs DEF Counted
  <2> QED
    BY <2>2, <2>3
<1> QED
  BY <1>1, <1>2, <1>3

(* Without a metadata source the batch is dropped.                         *)
LEMMA NoSourcesStep ==
    ASSUME IInv, NoSources
    PROVE  IInv'
<1> USE DEF IInv, NoSources, files, rows, jobs, stopping, scan, report, flags
<1>1. Typed' /\ Queued' /\ JobsAgree' /\ FlagIsOwn'
  BY TypedFrame, QueuedFrame, JobsFrame, FlagFrame
<1>2. Counted'
  <2>1. Debt' = 0 /\ IsFiniteSet(batch') /\ wpc' = "idle" /\ batch' = {}
        /\ UNCHANGED <<events, last, changes, requests>>
    BY FS_EmptySet DEF Debt
  <2> QED
    BY <2>1, DebtIs DEF Counted
<1> QED
  BY <1>1, <1>2

-----------------------------------------------------------------------------
(* A new job, in the worker's hands at no time yet.                        *)
LEMMA NewJobKeeps ==
    ASSUME IInv, last + 1 \in Job, NEW k \in Kind, NEW s \in {"scheduled", "queued"},
           NewJob(k, s),
           UNCHANGED <<flag, due, late, spc, doomed, target, stage, fin, todo, cur, report>>
    PROVE  /\ JobsAgree' /\ FlagIsOwn'
           /\ state' \in [Job -> State] /\ kind' \in [Job -> Kind]
           /\ state[last + 1] = "none"
<1> USE DEF IInv, NewJob, report
<1>0. last \in Nat /\ Job \subseteq Nat /\ NoJob \notin Job
  BY BoundAssumption DEF Counted, Job, NoJob
<1>1. state[last + 1] = "none"
  BY <1>0 DEF JobsAgree, Agrees
<1>2. state' \in [Job -> State] /\ kind' \in [Job -> Kind]
  BY DEF Queued, State
<1>3. JobsAgree'
  <2>1. \A j \in Job : Agrees(j)'
    <3> SUFFICES ASSUME NEW j \in Job PROVE Agrees(j)'
      OBVIOUS
    <3>1. Agrees(j) /\ j \in Nat
      BY <1>0 DEF JobsAgree
    <3>2. CASE j = last + 1
      BY <1>0, <1>1, <3>1, <3>2 DEF Agrees, Queued
    <3>3. CASE j # last + 1
      BY <1>0, <3>1, <3>3 DEF Agrees, Queued
    <3> QED
      BY <3>2, <3>3
  <2>2. cur # NoJob => state'[cur] = state[cur]
    BY <1>1 DEF JobsAgree, Agrees, Queued
  <2> QED
    BY <2>1, <2>2 DEF JobsAgree, Reports, Finishing
<1>4. cur # NoJob => kind'[cur] = kind[cur]
  BY <1>1 DEF JobsAgree, Agrees, Queued
<1> QED
  BY <1>1, <1>2, <1>3, <1>4, FlagFrame

(* schedule_rescan: a job for the library or the next platform pays for a  *)
(* change of the batch.                                                    *)
LEMMA RescanStep ==
    ASSUME IInv, schedule_rescan
    PROVE  IInv'
<1> USE DEF IInv, schedule_rescan, files, rows, stopping, scan, report, flags
<1>0. /\ UNCHANGED <<queue, events, changes, requests, flag, due, late, spc, target, stage>>
      /\ UNCHANGED <<doomed, fin, todo, cur, report, disk, dirs, row, known, folders>>
      /\ UNCHANGED <<plat, listed, left>>
  OBVIOUS
<1>m. missed' \subseteq Rom
  BY DEF ChangedIn, Typed
<1>1. CASE ToRescan = {} /\ wpc' = "idle" /\ batch' = {} /\ cover' = {}
           /\ UNCHANGED <<last, kind, state>>
  <2>1. Debt' = 0 /\ IsFiniteSet(batch')
    BY <1>1, FS_EmptySet DEF Debt
  <2>2. Counted'
    BY <1>0, <1>1, <2>1, DebtIs DEF Counted
  <2>3. Typed'
    BY <1>0, <1>m, <1>1 DEF Typed
  <2> QED
    BY <1>0, <1>1, <2>2, <2>3, QueuedFrame, JobsFrame, FlagFrame
<1>2. ASSUME NEW k \in Kind, NewJob(k, "scheduled"), Debt' \in Nat, Debt' + 1 <= Debt,
             cover' \subseteq Platform, batch' \subseteq batch,
             wpc' \in {"idle", "schedule"}
      PROVE  IInv'
  <2>1. last + 1 \in Job /\ last' = last + 1
    BY <1>2, DebtIs, BoundAssumption DEF Counted, Job, NewJob
  <2>2. JobsAgree' /\ FlagIsOwn' /\ state' \in [Job -> State] /\ kind' \in [Job -> Kind]
        /\ state[last + 1] = "none"
    BY <1>0, <1>2, <2>1, NewJobKeeps
  <2>3. Typed'
    BY <1>0, <1>m, <1>2 DEF Typed
  <2>4. Queued'
    <3>1. \A j \in Job : state'[j] = "queued" <=> state[j] = "queued"
      BY <1>2, <2>2 DEF NewJob, Queued
    <3> QED
      BY <1>0, <2>2, <3>1 DEF Queued
  <2>5. Counted'
    <3>1. IsFiniteSet(batch')
      BY <1>2, FS_Subset DEF Counted
    <3> QED
      BY <1>0, <1>2, <2>1, <3>1, DebtIs DEF Counted
  <2> QED
    BY <2>2, <2>3, <2>4, <2>5
<1>3. CASE /\ batch \cap Platform # {} /\ NewJob([NoKind EXCEPT !.type = "update"], "scheduled")
           /\ wpc' = "idle" /\ batch' = {} /\ cover' = {}
  <2>1. Debt = 1 /\ Debt' = 0
    BY <1>3, DebtIs DEF Debt
  <2> QED
    BY <1>2, <1>3, <2>1, Kinds
<1>4. ASSUME batch \cap Platform = {}, NEW p \in ToRescan,
             NewJob([NoKind EXCEPT !.scope = {p}], "scheduled"),
             cover' = cover \cup {p}, UNCHANGED <<wpc, batch>>
      PROVE  IInv'
  <2>1. p \in Uncovered /\ p \in Platform
    BY DEF ToRescan, Uncovered, Typed
  <2>2. Uncovered' = Uncovered \ {p}
    BY <1>4 DEF Uncovered
  <2>3. Cardinality(Uncovered') = Cardinality(Uncovered) - 1
    <3>1. IsFiniteSet(Uncovered)
      BY UncoveredBound DEF Counted, Uncovered
    <3> QED
      BY <2>1, <2>2, <3>1, FS_RemoveElement
  <2>4. Cardinality(Uncovered) \in Nat /\ Cardinality(Uncovered') \in Nat
    BY <1>4, UncoveredBound DEF Counted, Uncovered
  <2>5. Debt = Cardinality(Uncovered) /\ Debt' = Cardinality(Uncovered')
    BY <1>4, DebtIs DEF Debt
  <2>6. Debt' \in Nat /\ Debt' + 1 <= Debt
    BY <2>3, <2>4, <2>5
  <2>7. cover' \subseteq Platform /\ [NoKind EXCEPT !.scope = {p}] \in Kind
    BY <1>4, <2>1, Kinds DEF Typed
  <2> QED
    BY <1>2, <1>4, <2>6, <2>7
<1> QED
  BY <1>1, <1>3, <1>4

(* A job at the front of the queue.                                        *)
LEMMA Prepended ==
    ASSUME NEW s \in Seq(Job), NEW n \in Job
    PROVE  /\ <<n>> \o s \in Seq(Job) /\ Len(<<n>> \o s) = Len(s) + 1
           /\ (<<n>> \o s)[1] = n
           /\ \A i \in 1 .. Len(s) : (<<n>> \o s)[i + 1] = s[i]
<1>1. <<n>> \in Seq(Job) /\ Len(<<n>>) = 1 /\ <<n>>[1] = n /\ Len(s) \in Nat
  OBVIOUS
<1>2. /\ <<n>> \o s \in Seq(Job) /\ Len(<<n>> \o s) = Len(<<n>>) + Len(s)
      /\ \A i \in 1 .. Len(<<n>>) + Len(s) : (<<n>> \o s)[i] =
           IF i <= Len(<<n>>) THEN <<n>>[i] ELSE s[i - Len(<<n>>)]
  BY <1>1, ConcatProperties, Zenon
<1>3. (<<n>> \o s)[1] = n
  BY <1>1, <1>2
<1>4. ASSUME NEW i \in 1 .. Len(s) PROVE (<<n>> \o s)[i + 1] = s[i]
  <2>1. /\ i + 1 \in 1 .. Len(<<n>>) + Len(s) /\ ~(i + 1 <= Len(<<n>>))
        /\ i + 1 - Len(<<n>>) = i
    BY <1>1
  <2> QED
    BY <1>2, <2>1
<1> QED
  BY <1>1, <1>2, <1>3, <1>4

(* A job that was not queued is, at the back of the queue.                 *)
LEMMA AppendedOnce ==
    ASSUME Queued, NEW n \in Job, state[n] # "queued", queue' = Append(queue, n),
           state' \in [Job -> State], kind' \in [Job -> Kind],
           \A j \in Job : state'[j] = "queued" <=> j = n \/ state[j] = "queued"
    PROVE  Queued'
<1>1. queue \in Seq(Job) /\ Len(queue) \in Nat /\ \A i \in 1 .. Len(queue) : queue[i] # n
  <2>1. ASSUME NEW i \in 1 .. Len(queue), queue[i] = n PROVE FALSE
    BY <2>1 DEF Queued
  <2> QED
    BY <2>1 DEF Queued
<1>2. /\ queue' \in Seq(Job) /\ Len(queue') = Len(queue) + 1
      /\ \A i \in 1 .. Len(queue) : queue'[i] = queue[i]
      /\ queue'[Len(queue) + 1] = n
  BY <1>1, AppendProperties
<1>3. \A j \in Job : state'[j] = "queued" <=> \E i \in 1 .. Len(queue') : queue'[i] = j
  BY <1>1, <1>2 DEF Queued
<1>4. \A i, l \in 1 .. Len(queue') : queue'[i] = queue'[l] => i = l
  <2>1. \A m \in 1 .. Len(queue') : m = Len(queue) + 1 \/ m \in 1 .. Len(queue)
    BY <1>1, <1>2
  <2> QED
    BY <1>1, <1>2, <2>1 DEF Queued
<1> QED
  BY <1>2, <1>3, <1>4 DEF Queued

(* scan_handler: a job at the back of the queue, or at the front.          *)
LEMMA HandlerStep ==
    ASSUME IInv, NEW k \in Request, scan_handler(k)
    PROVE  IInv'
<1> USE DEF files, rows, watch, stopping, scan, report, flags
<1> DEFINE n == last + 1
<1>0. /\ k \in Kind /\ NewJob(k, "queued")
      /\ requests < MaxRequests /\ requests' = requests + 1
      /\ queue' = Append(queue, n) \/ queue' = <<n>> \o queue
      /\ UNCHANGED <<files, rows, watch, flag, stopping, scan, report, flags, lost>>
  BY RequestAssumption DEF scan_handler
<1>c. Typed /\ Counted /\ Queued /\ Debt \in Nat /\ Cardinality(events) \in Nat
  BY DebtIs DEF IInv
<1>1. n \in Job /\ last' = n /\ requests' \in 0 .. MaxRequests
  BY <1>0, <1>c, BoundAssumption DEF Counted, Job, NewJob
<1>2. JobsAgree' /\ FlagIsOwn' /\ state' \in [Job -> State] /\ kind' \in [Job -> Kind]
      /\ state[n] = "none"
  BY <1>0, <1>1, NewJobKeeps
<1>3. Typed'
  BY <1>0, <1>c, TypedFrame
<1>4. Counted'
  <2>1. Debt' = Debt /\ UNCHANGED <<events, batch, wpc, changes>>
    BY <1>0 DEF Debt, Uncovered
  <2>2. last' + Debt + Cardinality(events) <= changes + requests'
    BY <1>0, <1>1, <1>c, BoundAssumption DEF Counted
  <2>3. last' \in Nat
    BY <1>1, <1>c DEF Counted
  <2> QED
    BY <1>1, <1>c, <2>1, <2>2, <2>3 DEF Counted
<1>5. Queued'
  <2>1. \A j \in Job : state'[j] = "queued" <=> j = n \/ state[j] = "queued"
    BY <1>0, <1>1, <1>c DEF NewJob, Queued
  <2>2. queue \in Seq(Job) /\ Len(queue) \in Nat /\ \A i \in 1 .. Len(queue) : queue[i] # n
    <3>1. ASSUME NEW i \in 1 .. Len(queue), queue[i] = n PROVE FALSE
      <4>1. state[n] = "queued"
        BY <1>1, <1>c, <3>1 DEF Queued
      <4> QED
        BY <1>2, <4>1
    <3> QED
      BY <1>c, <3>1 DEF Queued
  <2> HIDE DEF n
  <2>3. CASE queue' = Append(queue, n)
    BY <1>1, <1>2, <1>c, <2>1, <2>3, AppendedOnce
  <2>4. CASE queue' = <<n>> \o queue
    <3>1. /\ queue' \in Seq(Job) /\ Len(queue') = Len(queue) + 1 /\ queue'[1] = n
          /\ \A i \in 1 .. Len(queue) : queue'[i + 1] = queue[i]
      BY <1>1, <2>2, <2>4, Prepended
    <3>2. \A m \in 1 .. Len(queue') : m = 1 \/ \E i \in 1 .. Len(queue) : m = i + 1
      <4> SUFFICES ASSUME NEW m \in 1 .. Len(queue'), m # 1
                   PROVE  \E i \in 1 .. Len(queue) : m = i + 1
        OBVIOUS
      <4>1. m - 1 \in 1 .. Len(queue) /\ m = (m - 1) + 1
        BY <2>2, <3>1
      <4> QED
        BY <4>1
    <3>3. \A i \in 1 .. Len(queue) : i + 1 \in 1 .. Len(queue')
      BY <2>2, <3>1
    <3>4. \A j \in Job : state'[j] = "queued" <=> \E i \in 1 .. Len(queue') : queue'[i] = j
      <4> SUFFICES ASSUME NEW j \in Job
                   PROVE  state'[j] = "queued" <=> \E i \in 1 .. Len(queue') : queue'[i] = j
        OBVIOUS
      <4>1. 1 \in 1 .. Len(queue')
        BY <2>2, <3>1
      <4>2. (\E m \in 1 .. Len(queue') : queue'[m] = j) <=>
              j = n \/ \E i \in 1 .. Len(queue) : queue[i] = j
        <5>1. ASSUME NEW m \in 1 .. Len(queue'), queue'[m] = j
              PROVE  j = n \/ \E i \in 1 .. Len(queue) : queue[i] = j
          BY <3>1, <3>2, <5>1, Zenon
        <5>2. ASSUME NEW i \in 1 .. Len(queue), queue[i] = j
              PROVE  \E m \in 1 .. Len(queue') : queue'[m] = j
          BY <3>1, <3>3, <5>2, Zenon
        <5> QED
          BY <3>1, <4>1, <5>1, <5>2, Zenon
      <4>3. state[j] = "queued" <=> \E i \in 1 .. Len(queue) : queue[i] = j
        BY <1>c DEF Queued
      <4> QED
        BY <2>1, <4>2, <4>3, Zenon
    <3>5. \A i, l \in 1 .. Len(queue') : queue'[i] = queue'[l] => i = l
      <4>1. \A i, l \in 1 .. Len(queue) : queue[i] = queue[l] => i = l
        BY <1>c DEF Queued
      <4>2. \A i \in 1 .. Len(queue) : queue'[i + 1] # queue'[1]
        BY <2>2, <3>1, Zenon
      <4>3. \A i, l \in 1 .. Len(queue) : queue'[i + 1] = queue'[l + 1] => i = l
        BY <3>1, <4>1, Zenon
      <4> SUFFICES ASSUME NEW i \in 1 .. Len(queue'), NEW l \in 1 .. Len(queue'),
                          queue'[i] = queue'[l]
                   PROVE  i = l
        OBVIOUS
      <4>4. CASE i = 1 \/ l = 1
        BY <3>2, <4>2, <4>4, Zenon
      <4>5. CASE i # 1 /\ l # 1
        BY <3>2, <4>3, <4>5, Zenon
      <4> QED
        BY <4>4, <4>5
    <3> QED
      BY <1>2, <3>1, <3>4, <3>5 DEF Queued
  <2> QED
    BY <1>0, <2>3, <2>4 DEF n
<1> QED
  BY <1>2, <1>3, <1>4, <1>5 DEF IInv

-----------------------------------------------------------------------------
(* stop_scan_handler lists the queued scans, then the scheduled ones.      *)
LEMMA ListStep ==
    ASSUME IInv, stop_scan_handler \/ ListScheduled \/ AllCancelled
    PROVE  IInv'
<1> USE DEF IInv, stop_scan_handler, ListScheduled, AllCancelled, files, rows, watch, jobs,
            scan, report, flags
<1>1. Typed' /\ Counted' /\ Queued' /\ JobsAgree'
  BY TypedFrame, CountedFrame, QueuedFrame, JobsFrame
<1>2. FlagIsOwn'
  BY DEF FlagIsOwn, LooksAgain
<1> QED
  BY <1>1, <1>2

(* What a queue has without its element i.                                 *)
LEMMA Removed ==
    ASSUME NEW s \in Seq(Job), NEW i \in 1 .. Len(s)
    PROVE  /\ RemoveAt(s, i) \in Seq(Job) /\ Len(RemoveAt(s, i)) = Len(s) - 1
           /\ \A k \in 1 .. Len(s) - 1 :
                RemoveAt(s, i)[k] = IF k < i THEN s[k] ELSE s[k + 1]
<1> DEFINE front == SubSeq(s, 1, i - 1)
           back == SubSeq(s, i + 1, Len(s))
<1>1. Len(s) \in Nat /\ i \in Nat /\ 1 <= i /\ i <= Len(s)
      /\ \A k \in 1 .. Len(s) : s[k] \in Job
  OBVIOUS
<1>2. front \in Seq(Job) /\ Len(front) = i - 1 /\ \A k \in 1 .. i - 1 : front[k] = s[k]
  <2>1. \A k \in 1 .. i - 1 : s[k] \in Job
    BY <1>1
  <2>2. /\ front \in Seq(Job) /\ Len(front) = IF 1 <= i - 1 THEN i - 1 - 1 + 1 ELSE 0
        /\ \A k \in 1 .. i - 1 - 1 + 1 : front[k] = s[1 + k - 1]
    BY <1>1, <2>1, SubSeqProperties
  <2> QED
    BY <1>1, <2>2
<1>3. /\ back \in Seq(Job) /\ Len(back) = Len(s) - i
      /\ \A k \in 1 .. Len(s) - i : back[k] = s[k + i]
  <2>1. \A k \in i + 1 .. Len(s) : s[k] \in Job
    BY <1>1
  <2>2. /\ back \in Seq(Job)
        /\ Len(back) = IF i + 1 <= Len(s) THEN Len(s) - (i + 1) + 1 ELSE 0
        /\ \A k \in 1 .. Len(s) - (i + 1) + 1 : back[k] = s[i + 1 + k - 1]
    BY <1>1, <2>1, SubSeqProperties
  <2> QED
    BY <1>1, <2>2
<1> HIDE DEF front, back
<1>4. /\ front \o back \in Seq(Job) /\ Len(front \o back) = Len(front) + Len(back)
      /\ \A k \in 1 .. Len(front) + Len(back) : (front \o back)[k] =
           IF k <= Len(front) THEN front[k] ELSE back[k - Len(front)]
  BY <1>2, <1>3, ConcatProperties, Zenon
<1>5. ASSUME NEW k \in 1 .. Len(s) - 1
      PROVE  (front \o back)[k] = IF k < i THEN s[k] ELSE s[k + 1]
  <2>1. (front \o back)[k] = IF k <= i - 1 THEN front[k] ELSE back[k - (i - 1)]
    BY <1>1, <1>2, <1>3, <1>4
  <2>2. CASE k < i
    BY <1>1, <1>2, <2>1, <2>2
  <2>3. CASE ~(k < i)
    <3>1. k - (i - 1) \in 1 .. Len(s) - i /\ k - (i - 1) + i = k + 1
      BY <1>1, <2>3
    <3>2. back[k - (i - 1)] = s[k + 1]
      BY <1>3, <3>1
    <3> QED
      BY <1>1, <2>1, <2>3, <3>2
  <2> QED
    BY <2>2, <2>3
<1>6. RemoveAt(s, i) = front \o back
  BY DEF RemoveAt, front, back
<1>7. Len(front) + Len(back) = Len(s) - 1
  BY <1>1, <1>2, <1>3
<1> QED
  BY <1>4, <1>5, <1>6, <1>7

(* A job that leaves the queue from anywhere in it leaves the others.      *)
LEMMA RemovedOnce ==
    ASSUME Queued, NEW i \in 1 .. Len(queue), queue' = RemoveAt(queue, i),
           state' \in [Job -> State], kind' \in [Job -> Kind],
           \A j \in Job : state'[j] = "queued" <=> j # queue[i] /\ state[j] = "queued"
    PROVE  Queued'
<1>0. queue \in Seq(Job) /\ Len(queue) \in Nat
      /\ \A m, k \in 1 .. Len(queue) : queue[m] = queue[k] => m = k
  BY DEF Queued
<1>1. /\ queue' \in Seq(Job) /\ Len(queue') = Len(queue) - 1
      /\ \A k \in 1 .. Len(queue') : queue'[k] = IF k < i THEN queue[k] ELSE queue[k + 1]
  <2>1. /\ queue' \in Seq(Job) /\ Len(queue') = Len(queue) - 1
        /\ \A k \in 1 .. Len(queue) - 1 :
             queue'[k] = IF k < i THEN queue[k] ELSE queue[k + 1]
    BY <1>0, Removed, Zenon
  <2> QED
    BY <2>1
<1>2. \A k \in 1 .. Len(queue') : \E m \in 1 .. Len(queue) :
        queue'[k] = queue[m] /\ m # i /\ m = IF k < i THEN k ELSE k + 1
  BY <1>0, <1>1
<1>3. \A m \in 1 .. Len(queue) : m # i =>
        \E k \in 1 .. Len(queue') : queue'[k] = queue[m]
  <2> SUFFICES ASSUME NEW m \in 1 .. Len(queue), m # i
               PROVE  \E k \in 1 .. Len(queue') : queue'[k] = queue[m]
    OBVIOUS
  <2>1. CASE m < i
    <3>1. m \in 1 .. Len(queue')
      BY <1>0, <1>1, <2>1
    <3> QED
      BY <1>1, <2>1, <3>1
  <2>2. CASE i < m
    <3>1. m - 1 \in 1 .. Len(queue') /\ ~(m - 1 < i) /\ m - 1 + 1 = m
      BY <1>0, <1>1, <2>2
    <3> QED
      BY <1>1, <3>1
  <2> QED
    BY <2>1, <2>2
<1>4. \A j \in Job : state'[j] = "queued" <=> \E k \in 1 .. Len(queue') : queue'[k] = j
  <2> SUFFICES ASSUME NEW j \in Job
               PROVE  j # queue[i] /\ state[j] = "queued" <=>
                        \E k \in 1 .. Len(queue') : queue'[k] = j
    OBVIOUS
  <2>1. ASSUME j # queue[i], state[j] = "queued"
        PROVE  \E k \in 1 .. Len(queue') : queue'[k] = j
    <3>1. PICK m \in 1 .. Len(queue) : queue[m] = j
      BY <2>1 DEF Queued
    <3> QED
      BY <1>3, <2>1, <3>1
  <2>2. ASSUME NEW k \in 1 .. Len(queue'), queue'[k] = j
        PROVE  j # queue[i] /\ state[j] = "queued"
    <3>1. PICK m \in 1 .. Len(queue) : queue'[k] = queue[m] /\ m # i
      BY <1>2
    <3> QED
      BY <1>0, <2>2, <3>1 DEF Queued
  <2> QED
    BY <2>1, <2>2
<1>5. \A k, l \in 1 .. Len(queue') : queue'[k] = queue'[l] => k = l
  <2> SUFFICES ASSUME NEW k \in 1 .. Len(queue'), NEW l \in 1 .. Len(queue'),
                      queue'[k] = queue'[l]
               PROVE  k = l
    OBVIOUS
  <2>1. (IF k < i THEN k ELSE k + 1) = (IF l < i THEN l ELSE l + 1)
    BY <1>0, <1>2
  <2> QED
    BY <1>0, <1>1, <2>1
<1> QED
  BY <1>1, <1>4, <1>5 DEF Queued

(* cancel_job of one scan that waits; the job in the worker's hands is     *)
(* not touched.                                                            *)
LEMMA CancelStep ==
    ASSUME IInv, NEW n \in Job, CancelWaiting(n)
    PROVE  IInv'
<1> USE DEF IInv, CancelOthers, files, rows, watch, scan, report, flags
<1>1. Typed' /\ Counted'
  BY TypedFrame, CountedFrame DEF CancelWaiting
<1>2. \/ UNCHANGED <<kind, state>>
      \/ Ends({n}, "cancelled") /\ state[n] \in {"queued", "scheduled"}
  BY DEF CancelWaiting
<1>3. /\ state' \in [Job -> State] /\ kind' \in [Job -> Kind]
      /\ \A j \in Job : \/ state'[j] = state[j] /\ kind'[j] = kind[j]
                        \/ /\ j = n /\ state'[j] = "cancelled"
                           /\ state[j] \in {"queued", "scheduled"}
  BY <1>2, Kinds DEF Queued, State, Ends
<1>4. Queued'
  <2>1. CASE UNCHANGED <<kind, state, queue>>
    BY <2>1, QueuedFrame
  <2>2. CASE state[n] = "scheduled" /\ UNCHANGED queue
    <3>1. \A j \in Job : state'[j] = "queued" <=> state[j] = "queued"
      BY <1>3, <2>2
    <3> QED
      BY <1>3, <2>2, <3>1 DEF Queued
  <2>3. CASE state[n] = "queued" /\ Ends({n}, "cancelled")
             /\ \E i \in 1 .. Len(queue) : queue[i] = n /\ queue' = RemoveAt(queue, i)
    <3>1. PICK i \in 1 .. Len(queue) : queue[i] = n /\ queue' = RemoveAt(queue, i)
      BY <2>3
    <3>2. \A j \in Job : state'[j] = "queued" <=> j # n /\ state[j] = "queued"
      BY <2>3 DEF Ends
    <3> QED
      BY <1>3, <3>1, <3>2, RemovedOnce
  <2> QED
    BY <2>1, <2>2, <2>3 DEF CancelWaiting
<1>5. cur # NoJob => state'[cur] = state[cur] /\ kind'[cur] = kind[cur]
  BY <1>3 DEF JobsAgree, Agrees
<1>6. JobsAgree'
  <2>1. \A j \in Job : Agrees(j)'
    BY <1>3 DEF JobsAgree, Agrees, CancelWaiting
  <2> QED
    BY <1>5, <2>1 DEF JobsAgree, Reports, Finishing, CancelWaiting
<1>7. FlagIsOwn'
  BY <1>5 DEF JobsAgree, FlagIsOwn, LooksAgain, CancelWaiting
<1> QED
  BY <1>1, <1>4, <1>6, <1>7

(* drop_stale_scheduled_scans cancels a scheduled scan.                    *)
LEMMA DropStep ==
    ASSUME IInv, drop_stale_scheduled_scans
    PROVE  IInv'
<1> USE DEF IInv, files, rows, watch, stopping, scan, report, flags
<1>0. PICK d \in Job : state[d] = "scheduled" /\ Ends({d}, "cancelled")
  BY DEF drop_stale_scheduled_scans
<1>1. Typed' /\ Counted'
  BY TypedFrame, CountedFrame DEF drop_stale_scheduled_scans
<1>2. \A j \in Job : \/ state'[j] = state[j] /\ kind'[j] = kind[j]
                     \/ j = d /\ state'[j] = "cancelled"
  BY <1>0 DEF Ends
<1>3. Queued'
  <2>1. state' \in [Job -> State] /\ kind' \in [Job -> Kind] /\ queue' = queue
    BY <1>0, Kinds DEF Queued, State, Ends, drop_stale_scheduled_scans
  <2> QED
    BY <1>0, <1>2, <2>1 DEF Queued
<1>4. cur # NoJob => state'[cur] = state[cur] /\ kind'[cur] = kind[cur]
  BY <1>0, <1>2 DEF JobsAgree, Agrees
<1>5. JobsAgree'
  <2>1. \A j \in Job : Agrees(j)'
    BY <1>0, <1>2 DEF JobsAgree, Agrees, drop_stale_scheduled_scans
  <2> QED
    BY <1>4, <2>1 DEF JobsAgree, Reports, Finishing, drop_stale_scheduled_scans
<1>6. FlagIsOwn'
  BY <1>4, FlagFrame DEF drop_stale_scheduled_scans
<1> QED
  BY <1>1, <1>3, <1>5, <1>6

(* FindRunning and SetFlag: a flag for another scan than the running one   *)
(* is late, one for the running scan is due.                               *)
LEMMA FlagStep ==
    ASSUME IInv, FindRunning \/ SetFlag
    PROVE  IInv'
<1> USE DEF IInv, files, rows, watch, jobs, scan, report, flags
<1>1. Typed' /\ Counted' /\ Queued' /\ JobsAgree'
  BY TypedFrame, CountedFrame, QueuedFrame, JobsFrame DEF FindRunning, SetFlag
<1>2. CASE FindRunning
  BY <1>1, <1>2 DEF FindRunning, FlagIsOwn, LooksAgain, JobsAgree, Running
<1>3. CASE SetFlag
  <2>1. target \in Job /\ target # NoJob
    BY <1>3 DEF SetFlag, FlagIsOwn
  <2>2. CASE target # cur \/ due = "yes"
    BY <1>1, <1>3, <2>1, <2>2 DEF SetFlag, FlagIsOwn, LooksAgain
  <2>3. CASE target = cur /\ due # "yes"
    <3>1. due' \in {"maybe", "yes"} /\ (due' = "yes" => ~NoLookLeft)
      BY <1>3, <2>3 DEF SetFlag
    <3> QED
      BY <1>1, <1>3, <2>1, <3>1 DEF SetFlag, FlagIsOwn, LooksAgain, NoLookLeft
  <2> QED
    BY <1>1, <2>2, <2>3
<1> QED
  BY <1>2, <1>3

-----------------------------------------------------------------------------
(* The scheduler releases a job that is due.                               *)
LEMMA ReleaseStep ==
    ASSUME IInv, NEW n \in Job, Release(n)
    PROVE  IInv'
<1> USE DEF IInv, Release, files, rows, watch, stopping, scan, report, flags
<1>1. Typed' /\ Counted' /\ FlagIsOwn'
  BY TypedFrame, CountedFrame, FlagFrame
<1>2. Queued'
  <2>1. /\ state' \in [Job -> State] /\ kind' \in [Job -> Kind]
        /\ \A j \in Job : state'[j] = "queued" <=> j = n \/ state[j] = "queued"
    BY DEF Queued, State
  <2> QED
    BY <2>1, AppendedOnce
<1>3. JobsAgree'
  <2>1. \A j \in Job : Agrees(j)'
    BY DEF JobsAgree, Agrees, Queued
  <2>2. cur # NoJob => state'[cur] = state[cur]
    BY DEF JobsAgree, Agrees, Queued
  <2> QED
    BY <2>1, <2>2 DEF JobsAgree, Reports, Finishing
<1> QED
  BY <1>1, <1>2, <1>3

(* The worker pops the first job of the queue, which had it once.          *)
LEMMA PopStep ==
    ASSUME IInv, Pop
    PROVE  IInv'
<1> USE DEF IInv, files, rows, watch, stopping, scan, report, flags
<1> DEFINE n == Head(queue)
<1>0. /\ cur = NoJob /\ cur' = n /\ state' = [state EXCEPT ![n] = "popped"]
      /\ queue' = Tail(queue) /\ queue # <<>>
      /\ UNCHANGED <<flag, due, late, spc, doomed, target, stage, fin, todo, kind, last>>
      /\ UNCHANGED <<meta, told, muted, unsure>>
  BY DEF Pop
<1>1. /\ n \in Job /\ n # NoJob /\ Len(queue) \in Nat \ {0} /\ n = queue[1]
      /\ queue' \in Seq(Job) /\ Len(queue') = Len(queue) - 1
      /\ \A i \in 1 .. Len(queue') : queue'[i] = queue[i + 1]
  <2>1. queue \in Seq(Job) /\ queue # <<>>
    BY <1>0 DEF Queued
  <2> QED
    BY <1>0, <2>1, HeadTailProperties, BoundAssumption DEF Job, NoJob
<1> HIDE DEF n
<1>2. state[n] = "queued"
  BY <1>1 DEF Queued
<1>3. Typed' /\ Counted'
  BY TypedFrame, CountedFrame DEF Pop
<1>4. Queued'
  <2>1. \A j \in Job : state'[j] = "queued" <=> j # n /\ state[j] = "queued"
    BY <1>0, <1>1 DEF Queued
  <2>2. \A i \in 1 .. Len(queue') : i + 1 \in 1 .. Len(queue) /\ i + 1 # 1
    BY <1>1
  <2>3. \A m \in 1 .. Len(queue) : m = 1 \/ \E i \in 1 .. Len(queue') : m = i + 1
    <3> SUFFICES ASSUME NEW m \in 1 .. Len(queue), m # 1
                 PROVE  \E i \in 1 .. Len(queue') : m = i + 1
      OBVIOUS
    <3>1. m - 1 \in 1 .. Len(queue') /\ m = (m - 1) + 1
      BY <1>1
    <3> QED
      BY <3>1
  <2>4. 1 \in 1 .. Len(queue)
    BY <1>1
  <2>5. \A j \in Job : state'[j] = "queued" <=> \E i \in 1 .. Len(queue') : queue'[i] = j
    <3> SUFFICES ASSUME NEW j \in Job
                 PROVE  j # n /\ state[j] = "queued" <=> \E i \in 1 .. Len(queue') : queue'[i] = j
      BY <2>1
    <3>1. ASSUME j # n, state[j] = "queued" PROVE \E i \in 1 .. Len(queue') : queue'[i] = j
      <4>1. PICK m \in 1 .. Len(queue) : queue[m] = j
        BY <3>1 DEF Queued
      <4>2. PICK i \in 1 .. Len(queue') : m = i + 1
        BY <1>1, <2>3, <3>1, <4>1
      <4> QED
        BY <1>1, <4>1, <4>2
    <3>2. ASSUME NEW i \in 1 .. Len(queue'), queue'[i] = j PROVE j # n /\ state[j] = "queued"
      <4>1. queue[i + 1] = j /\ i + 1 \in 1 .. Len(queue) /\ i + 1 # 1
        BY <1>1, <2>2, <3>2
      <4> QED
        BY <1>1, <2>4, <4>1 DEF Queued
    <3> QED
      BY <3>1, <3>2
  <2>6. \A i, k \in 1 .. Len(queue') : queue'[i] = queue'[k] => i = k
    <3> SUFFICES ASSUME NEW i \in 1 .. Len(queue'), NEW k \in 1 .. Len(queue'),
                        queue'[i] = queue'[k]
                 PROVE  i = k
      OBVIOUS
    <3>1. i + 1 = k + 1
      BY <1>1, <2>2 DEF Queued
    <3> QED
      BY <3>1
  <2>7. state' \in [Job -> State] /\ kind' \in [Job -> Kind]
    BY <1>0 DEF Queued, State
  <2> QED
    BY <1>1, <2>5, <2>6, <2>7 DEF Queued
<1>5. JobsAgree'
  <2>1. \A j \in Job : Agrees(j)'
    <3> SUFFICES ASSUME NEW j \in Job PROVE Agrees(j)'
      OBVIOUS
    <3>1. Agrees(j) /\ j # NoJob
      BY BoundAssumption DEF JobsAgree, Job, NoJob
    <3>2. CASE j = n
      BY <1>0, <1>2, <3>1, <3>2 DEF Agrees, Queued
    <3>3. CASE j # n
      BY <1>0, <3>1, <3>3 DEF Agrees, Queued
    <3> QED
      BY <3>2, <3>3
  <2>2. stage = "idle" /\ state'[n] = "popped"
    BY <1>0, <1>1 DEF JobsAgree, Queued
  <2>3. told[n] = 0 /\ n \notin meta /\ fin = "mark"
    BY <1>1, <1>2, <2>2 DEF JobsAgree, Agrees, Reports, Finishing
  <2> QED
    BY <1>0, <1>1, <2>1, <2>2, <2>3 DEF JobsAgree, Reports, Finishing
<1>6. FlagIsOwn'
  BY <1>0 DEF JobsAgree, FlagIsOwn, LooksAgain
<1> QED
  BY <1>3, <1>4, <1>5, <1>6

(* The job becomes the worker's current job.                               *)
LEMMA TakeStep ==
    ASSUME IInv, Take
    PROVE  IInv'
<1> USE DEF IInv, Take, files, rows, watch, stopping, scan, report, flags
<1>1. Typed' /\ Counted' /\ FlagIsOwn'
  BY TypedFrame, CountedFrame, FlagFrame
<1>2. cur \in Job
  BY DEF JobsAgree
<1>3. Queued'
  BY <1>2 DEF Queued, State
<1>4. JobsAgree'
  <2>1. \A j \in Job : Agrees(j)'
    BY <1>2 DEF JobsAgree, Agrees, Queued
  <2> QED
    BY <1>2, <2>1 DEF JobsAgree, Reports, Finishing, Queued
<1> QED
  BY <1>1, <1>3, <1>4

(* scan_platforms begins with the flag cleared.                            *)
LEMMA BeginStep ==
    ASSUME IInv, scan_platforms
    PROVE  IInv'
<1> USE DEF IInv, scan_platforms, files, rows, watch, stopping, report, flags
<1>0. cur \in Job
  BY DEF JobsAgree
<1>1. Typed'
  <2>1. Selected(kind[cur]) \subseteq Platform
    BY <1>0 DEF Selected, Typed, Queued, Kind
  <2> QED
    BY <2>1 DEF Typed
<1>2. Counted'
  BY CountedFrame
<1>3. Queued'
  BY <1>0 DEF Queued, State
<1>4. JobsAgree'
  <2>1. \A j \in Job : Agrees(j)'
    BY <1>0 DEF JobsAgree, Agrees, Queued
  <2>2. stage = "idle" /\ fin = "mark" /\ cur \notin meta /\ told[cur] = 0
    BY <1>0 DEF JobsAgree, Agrees, Reports, Finishing
  <2> QED
    BY <1>0, <2>1, <2>2 DEF JobsAgree, Reports, Finishing, Queued, Stage
<1>5. FlagIsOwn'
  BY <1>0 DEF JobsAgree, FlagIsOwn, LooksAgain
<1> QED
  BY <1>1, <1>2, <1>3, <1>4, <1>5

(* A step of the running scan among its platforms and ROMs.                *)
LEMMA ScanKeeps ==
    ASSUME IInv, UNCHANGED Others, Typed', stage \in {"next", "roms"}, cur \in Job,
           stage' \in Stage \ {"idle"},
           stage' = "stop" => flag,
           due = "yes" => LooksAgain'
    PROVE  IInv'
<1> USE DEF IInv, Others, files, watch, jobs, stopping, report, flags
<1>1. Counted' /\ Queued'
  BY CountedFrame, QueuedFrame
<1>2. JobsAgree'
  <2>1. \A j \in Job : Agrees(j)'
    BY DEF JobsAgree, Agrees
  <2> QED
    BY <2>1 DEF JobsAgree, Reports, Finishing
<1>3. FlagIsOwn'
  BY DEF FlagIsOwn
<1> QED
  BY <1>1, <1>2, <1>3

(* A scan among its platforms has not reported itself.                     *)
LEMMA Unreported ==
    ASSUME IInv, stage \in {"next", "roms"}
    PROVE  cur \in Job /\ cur \notin meta
BY DEF IInv, JobsAgree, Reports, Finishing

(* mark_missing_roms returns rows.                                         *)
LEMMA MarkTyped ==
    ASSUME Typed, NEW p, NEW keep
    PROVE  mark_missing_roms(p, keep) \in [Rom -> {"none", "present", "missing"}]
BY DEF Typed, mark_missing_roms

(* _identify_platform and _scan_selected_roms look at the flag first.      *)
LEMMA PlatformStep ==
    ASSUME IInv, NEW p \in Platform, _identify_platform(p) \/ _scan_selected_roms(p)
    PROVE  IInv'
<1> USE DEF _identify_platform, _scan_selected_roms
<1>1. stage = "next" /\ cur \in Job /\ cur \notin meta /\ UNCHANGED Others /\ Typed
  BY Unreported DEF IInv
<1>2. Typed'
  <2>1. UNCHANGED <<disk, dirs, cover, folders>>
    BY <1>1 DEF Others, files, watch
  <2>2. CASE _identify_platform(p)
    BY <1>1, <2>1, <2>2, MarkTyped DEF Typed, rows
  <2>3. CASE _scan_selected_roms(p)
    <3>1. kind[cur].roms \subseteq Rom
      BY <1>1 DEF IInv, Queued, Kind
    <3> QED
      BY <1>1, <2>1, <2>3, <3>1 DEF Typed, rows
  <2> QED
    BY <2>2, <2>3
<1>3. stage' \in {"next", "roms", "stop"} /\ (stage' = "stop" => flag)
  BY <1>1
<1>4. due = "yes" => LooksAgain'
  <2>1. due = "yes" => flag
    BY DEF IInv, FlagIsOwn
  <2>2. flag => stage' = "stop"
    OBVIOUS
  <2> QED
    BY <2>1, <2>2 DEF LooksAgain
<1> QED
  BY <1>1, <1>2, <1>3, <1>4, ScanKeeps DEF Stage

(* _identify_rom leaves the step of the scan alone.                        *)
LEMMA RomStep ==
    ASSUME IInv, NEW r \in Rom, _identify_rom(r)
    PROVE  IInv'
<1> USE DEF _identify_rom
<1>1. stage = "roms" /\ cur \in Job /\ cur \notin meta /\ UNCHANGED Others /\ Typed
      /\ UNCHANGED <<stage, todo, kind, cur>>
  BY Unreported DEF IInv, Others, jobs
<1>2. Typed'
  <2>1. UNCHANGED <<disk, dirs, cover, folders, known, todo, plat, listed>>
    BY <1>1 DEF Others, files, watch
  <2>2. row' \in [Rom -> {"none", "present", "missing"}]
    BY DEF IInv, Typed, Mine
  <2>3. left' \subseteq Rom /\ missed' \subseteq Rom
    BY DEF IInv, Typed
  <2> QED
    BY <2>1, <2>2, <2>3, <1>1 DEF Typed
<1>3. due = "yes" => LooksAgain'
  BY <1>1 DEF IInv, FlagIsOwn, LooksAgain
<1> QED
  BY <1>1, <1>2, <1>3, ScanKeeps DEF Stage

(* The ends of a platform and of the platforms: a scan of selected ROMs    *)
(* looks at the flag once more after each.                                 *)
LEMMA PlatformsEndStep ==
    ASSUME IInv, PlatformEnds \/ mark_missing_platforms
    PROVE  IInv'
<1> USE DEF PlatformEnds, mark_missing_platforms
<1>1. /\ stage \in {"next", "roms"} /\ cur \in Job /\ cur \notin meta
      /\ UNCHANGED Others /\ UNCHANGED <<todo, kind, cur>> /\ Typed
  BY Unreported DEF IInv, Others, jobs
<1>2. Typed'
  <2>1. UNCHANGED <<disk, dirs, cover, folders>>
    BY <1>1 DEF Others, files, watch
  <2> QED
    BY <1>1, <2>1, MarkTyped DEF Typed
<1>3. due = "yes" => flag /\ LooksAgain
  BY DEF IInv, FlagIsOwn
<1>4. due = "yes" => LooksAgain'
  BY <1>1, <1>3 DEF LooksAgain
<1>5. stage' \in {"next", "stop", "done"} /\ (stage' = "stop" => flag)
  OBVIOUS
<1> QED
  BY <1>1, <1>2, <1>4, <1>5, ScanKeeps DEF Stage

(* An exception ends the scan.                                             *)
LEMMA FailStep ==
    ASSUME IInv, ScanFails
    PROVE  IInv'
<1> USE DEF IInv, ScanFails, files, rows, watch, jobs, stopping, report, flags
<1>1. Typed' /\ Counted' /\ Queued'
  BY TypedFrame, CountedFrame, QueuedFrame
<1>2. JobsAgree'
  <2>1. \A j \in Job : Agrees(j)'
    BY DEF JobsAgree, Agrees
  <2> QED
    BY <2>1 DEF JobsAgree, Reports, Finishing, Stage
<1>3. FlagIsOwn'
  BY DEF FlagIsOwn, LooksAgain
<1> QED
  BY <1>1, <1>2, <1>3

(* finish: the mark in the job's meta, then the event.                     *)
LEMMA FinishStep ==
    ASSUME IInv, FinishMarks \/ FinishEmits
    PROVE  IInv'
<1> USE DEF IInv, files, rows, watch, jobs, stopping, flags
<1>1. Typed' /\ Counted' /\ Queued' /\ FlagIsOwn'
  BY TypedFrame, CountedFrame, QueuedFrame, FlagFrame
     DEF FinishMarks, FinishEmits
<1>2. /\ cur \in Job /\ cur # NoJob /\ state[cur] = "running" /\ told[cur] \in 0 .. 3
      /\ Finishing /\ UNCHANGED <<last, state, cur, stage, muted>>
  BY DEF FinishMarks, FinishEmits, Finishing, JobsAgree
<1>3. CASE FinishMarks
  <2>1. \A j \in Job : Agrees(j)'
    BY <1>2, <1>3 DEF FinishMarks, JobsAgree, Agrees
  <2>2. /\ meta' \subseteq Job /\ fin' = "emit" /\ told'[cur] = told[cur]
        /\ cur \in meta' \cup unsure' /\ (cur \in unsure => cur \in unsure')
    BY <1>2, <1>3 DEF FinishMarks, JobsAgree
  <2>3. Reports'
    BY <1>2, <1>3, <2>2 DEF FinishMarks, JobsAgree, Reports, Finishing
  <2> QED
    BY <1>1, <1>2, <1>3, <2>1, <2>2, <2>3 DEF FinishMarks, JobsAgree
<1>4. CASE FinishEmits
  <2>0. fin = "emit" /\ told \in [Job -> 0 .. 3] /\ told' = [told EXCEPT ![cur] = @ + 1]
    BY <1>4 DEF FinishEmits, JobsAgree
  <2>Z. told[cur] \in 0 .. 1 /\ cur \in meta \cup unsure
        /\ (told[cur] = 1 => stage = "fail" /\ cur \in unsure)
    BY <1>2, <2>0 DEF JobsAgree, Reports
  <2>1. /\ told' \in [Job -> 0 .. 3] /\ told'[cur] = told[cur] + 1
        /\ \A j \in Job \ {cur} : told'[j] = told[j]
    BY <1>2, <2>0, <2>Z
  <2>2. Reports'
    BY <1>2, <1>4, <2>1, <2>Z DEF FinishEmits, JobsAgree, Reports, Finishing
  <2>3. \A j \in Job : Agrees(j)'
    <3> SUFFICES ASSUME NEW j \in Job PROVE Agrees(j)'
      OBVIOUS
    <3>1. CASE j = cur
      BY <1>2, <1>4, <2>1, <2>Z, <3>1 DEF FinishEmits, JobsAgree, Agrees
    <3>2. CASE j # cur
      BY <1>2, <1>4, <2>1, <3>2 DEF FinishEmits, JobsAgree, Agrees
    <3> QED
      BY <3>1, <3>2
  <2> QED
    BY <1>1, <1>2, <1>4, <2>1, <2>2, <2>3 DEF FinishEmits, JobsAgree
<1> QED
  BY <1>3, <1>4

(* The worker is idle again, with the job over or given up.                *)
LEMMA IdleKeeps ==
    ASSUME IInv, Idle, cur \in Job, state[cur] \in {"taken", "running"},
           NEW s \in {"abandoned", "over"}, Ends({cur}, s),
           UNCHANGED <<files, rows, watch, last, queue, requests, stopping, late>>,
           flag' \in BOOLEAN, told' = told, unsure' = unsure,
           meta' = IF s = "over" THEN meta \ {cur} ELSE meta,
           muted \subseteq muted',
           s = "over" => told[cur] >= 1,
           s = "abandoned" /\ cur \in meta => told[cur] >= 1 \/ cur \in muted'
    PROVE  IInv'
<1> USE DEF IInv, Idle, files, rows, watch, stopping
<1>0. NoJob \notin Job
  BY BoundAssumption DEF Job, NoJob
<1>1. Typed'
  BY PlatformAssumption DEF Typed, AnyPlatform
<1>2. Counted'
  BY CountedFrame
<1>3. /\ state' \in [Job -> State] /\ kind' \in [Job -> Kind] /\ state'[cur] = s
      /\ \A j \in Job \ {cur} : state'[j] = state[j]
  BY Kinds DEF Ends, Queued, State
<1>4. Queued'
  BY <1>3 DEF Queued
<1>5. JobsAgree'
  <2>1. \A j \in Job : Agrees(j)'
    <3> SUFFICES ASSUME NEW j \in Job PROVE Agrees(j)'
      OBVIOUS
    <3>1. Agrees(j)
      BY DEF JobsAgree
    <3>2. CASE j = cur
      BY <1>0, <1>3, <3>1, <3>2 DEF JobsAgree, Reports, Agrees
    <3>3. CASE j # cur
      BY <1>0, <1>3, <3>1, <3>3 DEF JobsAgree, Agrees
    <3> QED
      BY <3>2, <3>3
  <2>2. NoJob \notin meta'
    BY <1>0 DEF JobsAgree
  <2> QED
    BY <2>1, <2>2 DEF JobsAgree, Reports, Finishing, Stage
<1>6. FlagIsOwn'
  BY DEF FlagIsOwn
<1> QED
  BY <1>1, <1>2, <1>4, <1>5, <1>6

(* The job returns, or gets no further.                                    *)
LEMMA ReturnStep ==
    ASSUME IInv, JobReturns \/ ScanDies
    PROVE  IInv'
<1>1. CASE JobReturns
  <2>1. cur \in Job /\ state[cur] \in {"taken", "running"} /\ told[cur] >= 1
    BY <1>1 DEF IInv, JobsAgree, Reports, Finishing, JobReturns
  <2>2. flag' \in BOOLEAN
    BY <1>1 DEF IInv, FlagIsOwn, JobReturns
  <2>3. CASE stage = "fail"
    BY <1>1, <2>1, <2>2, <2>3, IdleKeeps DEF JobReturns
  <2>4. CASE stage # "fail"
    BY <1>1, <2>1, <2>2, <2>4, IdleKeeps DEF JobReturns
  <2> QED
    BY <2>3, <2>4
<1>2. CASE ScanDies
  <2>1. cur \in Job /\ state[cur] \in {"taken", "running"} /\ flag' \in BOOLEAN
        /\ told[cur] \in 0 .. 3
    BY <1>2 DEF IInv, JobsAgree, FlagIsOwn, ScanDies, Running
  <2>2. /\ muted \subseteq muted' /\ told' = told /\ unsure' = unsure /\ meta' = meta
        /\ cur \in meta => told[cur] >= 1 \/ cur \in muted'
    BY <1>2, <2>1 DEF ScanDies
  <2> QED
    BY <1>2, <2>1, <2>2, IdleKeeps DEF ScanDies
<1> QED
  BY <1>1, <1>2

(* report_scan_failure tells of a scan that did not report itself.         *)
LEMMA ReportStep ==
    ASSUME IInv, NEW n \in Job, report_scan_failure(n)
    PROVE  IInv'
<1> USE DEF IInv, report_scan_failure, files, rows, watch, stopping, scan, flags
<1>1. Typed' /\ Counted'
  BY TypedFrame, CountedFrame
<1>2. /\ state' \in [Job -> State] /\ kind' \in [Job -> Kind] /\ state'[n] = "over"
      /\ \A j \in Job \ {n} : state'[j] = state[j] /\ kind'[j] = kind[j]
  BY Kinds DEF Ends, Queued, State
<1>3. Queued'
  <2>1. Queued /\ queue' = queue /\ state[n] = "abandoned"
    OBVIOUS
  <2>2. \A j \in Job : state'[j] = "queued" <=> state[j] = "queued"
    BY <1>2, <2>1
  <2> HIDE DEF IInv, report_scan_failure
  <2> QED
    BY <1>2, <2>1, <2>2 DEF Queued
<1>4. /\ n # cur /\ told[n] \in 0 .. 2
      /\ told[n] >= 1 => n \in meta \cup unsure
      /\ n \in meta => told[n] >= 1 \/ n \in muted
  BY DEF JobsAgree, Agrees
<1>5. FlagIsOwn'
  <2>1. cur # NoJob => kind'[cur] = kind[cur]
    BY <1>2, <1>4 DEF JobsAgree
  <2> QED
    BY <2>1, FlagFrame
<1>6. JobsAgree'
  <2>1. /\ told' \in [Job -> 0 .. 3] /\ \A j \in Job \ {n} : told'[j] = told[j]
        /\ muted \subseteq muted' /\ unsure \subseteq unsure'
        /\ meta' = meta \ {n}
    BY <1>4 DEF JobsAgree
  <2>2. told'[n] >= 1 \/ n \in muted'
    BY <1>4 DEF JobsAgree
  <2>3. told'[n] >= 2 => n \in unsure'
    BY <1>4 DEF JobsAgree, Agrees
  <2>4. \A j \in Job : Agrees(j)'
    <3> SUFFICES ASSUME NEW j \in Job PROVE Agrees(j)'
      OBVIOUS
    <3>1. Agrees(j)
      BY DEF JobsAgree
    <3>2. CASE j = n
      BY <1>2, <1>4, <2>1, <2>2, <2>3, <3>1, <3>2 DEF Agrees
    <3>3. CASE j # n
      BY <1>2, <2>1, <3>1, <3>3 DEF Agrees
    <3> QED
      BY <3>2, <3>3
  <2>5. cur # NoJob => state'[cur] = state[cur] /\ told'[cur] = told[cur]
    BY <1>2, <1>4, <2>1 DEF JobsAgree
  <2>6. cur \in meta' <=> cur \in meta
    BY <1>4, <2>1
  <2>7. Reports'
    BY <2>1, <2>5, <2>6 DEF JobsAgree, Reports, Finishing
  <2> QED
    BY <2>1, <2>4, <2>5, <2>7 DEF JobsAgree
<1> QED
  BY <1>1, <1>3, <1>5, <1>6

-----------------------------------------------------------------------------
(* A library that was scanned, with nothing under way.                     *)
LEMMA InitHolds == Init => IInv
<1> SUFFICES ASSUME Init PROVE IInv
  OBVIOUS
<1> USE DEF Init
<1>1. Typed
  BY PlatformAssumption DEF Typed, AnyPlatform
<1>2. Counted
  <2>1. Debt = 0
    BY DEF Debt
  <2> QED
    BY <2>1, FS_EmptySet, BoundAssumption DEF Counted, NoJob
<1>3. Queued
  BY Kinds DEF Queued, State
<1>4. JobsAgree
  BY BoundAssumption DEF JobsAgree, Agrees, Reports, Finishing, Stage, NoJob, Job
<1>5. FlagIsOwn
  BY DEF FlagIsOwn
<1> QED
  BY <1>1, <1>2, <1>3, <1>4, <1>5 DEF IInv

(* Every step of the disk, the watcher, the requests and the worker keeps  *)
(* the invariant.                                                          *)
LEMMA NextKeeps == IInv /\ [Next]_vars => IInv'
<1> SUFFICES ASSUME IInv, [Next]_vars PROVE IInv'
  OBVIOUS
<1>1. CASE UNCHANGED vars
  <2>1. Typed' /\ Counted' /\ Queued' /\ JobsAgree' /\ FlagIsOwn'
    BY <1>1, TypedFrame, CountedFrame, QueuedFrame, JobsFrame, FlagFrame
       DEF IInv, vars, files, rows, watch, jobs, stopping, scan, report, flags
  <2> QED
    BY <2>1 DEF IInv
<1>2. CASE Watches
  BY <1>2, WatcherStep, CoverageStep, RescanStep DEF Watches
<1>3. CASE Works
  BY <1>3, PopStep, TakeStep, BeginStep, PlatformsEndStep, FinishStep,
     ReturnStep,
     PlatformStep, RomStep DEF Works
<1> QED
  BY <1>1, <1>2, <1>3, DiskStep, WatcherStep, NoSourcesStep, HandlerStep, ListStep,
     CancelStep, FlagStep, DropStep, ReleaseStep, ReportStep, FailStep, ReturnStep DEF Next

(* Type correctness; that the numbers of jobs suffice, since a change of   *)
(* the disk makes at most one job, and that the queue holds what is queued *)
(* are part of it.                                                         *)
THEOREM ScansTyped == Spec => []TypeOK
<1>1. IInv => TypeOK
  <2> SUFFICES ASSUME IInv PROVE TypeOK
    OBVIOUS
  <2>1. last \in {NoJob} \cup Job
    BY DebtIs, BoundAssumption DEF IInv, Counted, Job, NoJob
  <2>2. ToSet(queue) = {j \in Job : state[j] = "queued"}
    <3>1. ToSet(queue) = {queue[i] : i \in 1 .. Len(queue)}
      BY DEF IInv, Queued, ToSet
    <3>2. \A i \in 1 .. Len(queue) : queue[i] \in Job
      BY DEF IInv, Queued
    <3> QED
      BY <3>1, <3>2 DEF IInv, Queued
  <2>3. told \in [Job -> 0 .. 3] /\ fin \in {"mark", "emit", "return"}
    BY DEF IInv, JobsAgree, Reports
  <2> QED
    BY <2>1, <2>2, <2>3
       DEF IInv, Typed, Counted, Queued, JobsAgree, FlagIsOwn, TypeOK
<1> QED
  BY InitHolds, NextKeeps, <1>1, PTL DEF Spec

(* A scan stops only if a stop found it running, or the flag came late.    *)
THEOREM ScansStopForCause == Spec => []StopsOwnScan
<1>1. IInv => StopsOwnScan
  BY DEF IInv, FlagIsOwn, StopsOwnScan
<1> QED
  BY InitHolds, NextKeeps, <1>1, PTL DEF Spec

(* A scan does not run to its end once the flag was set for it in time.    *)
THEOREM StopsAreObeyed == Spec => []StopIsObeyed
<1>1. IInv => StopIsObeyed
  BY DEF IInv, FlagIsOwn, LooksAgain, StopIsObeyed
<1> QED
  BY InitHolds, NextKeeps, <1>1, PTL DEF Spec

(* The end of a scan is told, but for one that ends inside finish or whose *)
(* failure cannot be told, and twice only where its mark was not written   *)
(* or not read or finish raised after the event.                           *)
THEOREM EndsAreTold == Spec => []EndIsTold
<1>1. IInv => EndIsTold
  BY DEF IInv, JobsAgree, Agrees, EndIsTold
<1> QED
  BY InitHolds, NextKeeps, <1>1, PTL DEF Spec

=============================================================================
