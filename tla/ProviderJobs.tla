---------------------------- MODULE ProviderJobs ----------------------------
(***************************************************************************)
(* The queue of provider jobs: handler/providers/jobs.py, with the routes  *)
(* of endpoints/providers.py that start, cancel and retry a job.           *)
(*                                                                         *)
(* A job is a number, given in the order jobs are enqueued.  RQ and its    *)
(* workers are external: a job is deferred until the job it depends on is  *)
(* over, then any idle worker may take it; a work horse may die under it.  *)
(* What a job does to files is in ProviderImport; here a job's work is the *)
(* sequence of its progress reports and the moment its result becomes      *)
(* visible (the ROM in the library, the search index).                     *)
(***************************************************************************)
EXTENDS Naturals, Sequences, FiniteSets

CONSTANTS
    Client,      \* requests that enqueue a job
    Workers,     \* how many RQ workers serve the low priority queue
    MaxJobs,     \* bound on the jobs ever enqueued
    PendingMax,  \* pending jobs at which enqueue refuses, 99 in the code
    ListMax,     \* length provider:jobs is trimmed to, 100 in the code
    CancelMax    \* bound on the cancel keys held at a time

JobId == 1..MaxJobs
Kind == {"index", "download"}

ASSUME BoundsAssumption ==
    /\ Workers \in Nat \ {0} /\ MaxJobs \in Nat
    /\ PendingMax \in Nat /\ ListMax \in Nat \ {0} /\ CancelMax \in Nat

Nobody == "nobody"
ASSUME ClientAssumption == Nobody \notin Client

VARIABLES
    rq,         \* rq[j]: the status RQ keeps
    state,      \* state[j]: meta["state"], "none" until the job runs
    kind,       \* kind[j]: meta["kind"]
    dep,        \* dep[j]: the job j depends on, 0 for none
    at,         \* at[j]: where the work horse is
    committed,  \* jobs with meta["import_committed"]
    visible,    \* jobs whose ROM or index is in place
    cancelKey,  \* jobs with a provider:cancel key
    last,       \* the number of the job enqueued last
    jobs,       \* the list provider:jobs, newest first
    lock,       \* who holds provider:enqueue
    pc, want, prev   \* per request: its step, kind of job, dependency found

jobVars == <<rq, state, kind, dep, at, committed, visible, last>>
reqVars == <<lock, pc, want, prev>>
outside == <<last, cancelKey, jobs, reqVars>>
vars == <<jobVars, cancelKey, jobs, reqVars>>

RqStatus == {"none", "deferred", "queued", "started", "finished", "failed"}
MetaState == {"none", "started", "finished", "cancelled", "failed"}

(* The horse's way through run and import_rom or sync_index: after "sent"  *)
(* no report stands between it and the result.                             *)
Place == {"idle", "transfer", "sent", "visible", "registering", "over"}

(* Jobs, list and requests have their types, and the list is no longer    *)
(* than ltrim leaves it.                                                   *)
TypeOK ==
    /\ rq \in [JobId -> RqStatus] /\ state \in [JobId -> MetaState]
    /\ kind \in [JobId -> Kind \cup {"none"}] /\ dep \in [JobId -> 0..MaxJobs]
    /\ at \in [JobId -> Place]
    /\ committed \subseteq JobId /\ visible \subseteq JobId
    /\ cancelKey \subseteq JobId
    /\ last \in 0..MaxJobs /\ jobs \in Seq(JobId) /\ Len(jobs) <= ListMax
    /\ lock \in Client \cup {Nobody}
    /\ pc \in [Client -> {"idle", "acquire", "look", "enqueue", "push", "dead"}]
    /\ want \in [Client -> Kind] /\ prev \in [Client -> 0..MaxJobs]

Init ==
    /\ rq = [j \in JobId |-> "none"] /\ state = [j \in JobId |-> "none"]
    /\ kind = [j \in JobId |-> "none"] /\ dep = [j \in JobId |-> 0]
    /\ at = [j \in JobId |-> "idle"]
    /\ committed = {} /\ visible = {} /\ cancelKey = {}
    /\ last = 0 /\ jobs = <<>> /\ lock = Nobody
    /\ pc = [c \in Client |-> "idle"] /\ want = [c \in Client |-> "index"]
    /\ prev = [c \in Client |-> 0]

-----------------------------------------------------------------------------
(* What the list and the routes read.                                      *)

(* A terminal status of RQ hides the progress the job saved last.          *)
status(j) == IF rq[j] = "failed" \/ state[j] = "none" THEN rq[j] ELSE state[j]

Listed == {jobs[n] : n \in 1..Len(jobs)}

(* Variant: a job that waits behind another is not pending.                *)
PendingButDeferred(j) == status(j) \in {"queued", "started"}

IsPending(j) == status(j) \in {"queued", "started", "deferred"}
Pending == {j \in Listed : IsPending(j)}

Newest(S) == IF S = {} THEN 0 ELSE CHOOSE j \in S : \A i \in S : i <= j

Exists == 1..last

-----------------------------------------------------------------------------
(* Requests that enqueue a job.                                            *)

Goto(c, step) == pc' = [pc EXCEPT ![c] = step]

(* The request is answered; nothing reads its locals any more.             *)
Returns(c) ==
    /\ Goto(c, "idle")
    /\ want' = [want EXCEPT ![c] = "index"] /\ prev' = [prev EXCEPT ![c] = 0]

(* Bound: no more requests than there are numbers for jobs.                *)
Room == last + Cardinality({c \in Client : pc[c] # "idle"}) < MaxJobs

(* POST /index refuses while a refresh is queued or running; it looks      *)
(* before the lock is taken.                                               *)
refresh_index(c) ==
    /\ pc[c] = "idle" /\ Room
    /\ ~\E j \in Listed : kind[j] = "index" /\ status(j) \in {"queued", "started"}
    /\ want' = [want EXCEPT ![c] = "index"] /\ Goto(c, "acquire")
    /\ UNCHANGED <<jobVars, cancelKey, jobs, lock, prev>>

download(c) ==
    /\ pc[c] = "idle" /\ Room
    /\ want' = [want EXCEPT ![c] = "download"] /\ Goto(c, "acquire")
    /\ UNCHANGED <<jobVars, cancelKey, jobs, lock, prev>>

retry(c) ==
    /\ pc[c] = "idle" /\ Room
    /\ \E j \in Exists : /\ status(j) \in {"failed", "cancelled"}
                         /\ want' = [want EXCEPT ![c] = kind[j]]
    /\ Goto(c, "acquire")
    /\ UNCHANGED <<jobVars, cancelKey, jobs, lock, prev>>

AcquireLock(c) ==
    /\ pc[c] = "acquire" /\ lock = Nobody
    /\ lock' = c /\ Goto(c, "look")
    /\ UNCHANGED <<jobVars, cancelKey, jobs, want, prev>>

(* blocking_timeout ran out: LockError.                                    *)
LockTimesOut(c) ==
    /\ pc[c] = "acquire" /\ lock # Nobody /\ Returns(c)
    /\ UNCHANGED <<jobVars, cancelKey, jobs, lock>>

(* The list and every job on it are read as one: in between a job can only *)
(* stop being pending, which changes neither the newest pending job of the *)
(* kind nor lets the count grow.                                           *)
LookAtPending(c) ==
    /\ pc[c] = "look"
    /\ \/ /\ Cardinality(Pending) >= PendingMax
          /\ Returns(c) /\ lock' = Nobody
       \/ /\ Cardinality(Pending) < PendingMax
          /\ prev' = [prev EXCEPT ![c] = Newest({j \in Pending : kind[j] = want[c]})]
          /\ Goto(c, "enqueue") /\ UNCHANGED <<lock, want>>
    /\ UNCHANGED <<jobVars, cancelKey, jobs>>

Over(j) == rq[j] \in {"finished", "failed"}

(* low_prio_queue.enqueue: RQ defers the job unless what it depends on is  *)
(* over, a failed one included (allow_failure).                            *)
EnqueueJob(c) ==
    LET j == last + 1
        waits == prev[c] # 0 /\ ~Over(prev[c])
    IN  /\ pc[c] = "enqueue" /\ last < MaxJobs /\ last' = j
        /\ rq' = [rq EXCEPT ![j] = IF waits THEN "deferred" ELSE "queued"]
        /\ kind' = [kind EXCEPT ![j] = want[c]]
        /\ dep' = [dep EXCEPT ![j] = prev[c]]
        /\ prev' = [prev EXCEPT ![c] = j]
        /\ Goto(c, "push")
        /\ UNCHANGED <<state, at, committed, visible, cancelKey, jobs, lock, want>>

Trim(s) == SubSeq(s, 1, IF Len(s) < ListMax THEN Len(s) ELSE ListMax)

(* Variant: the list is never trimmed.                                     *)
PushUntrimmed(c) ==
    /\ pc[c] = "push"
    /\ jobs' = <<prev[c]>> \o jobs
    /\ lock' = Nobody /\ Returns(c)
    /\ UNCHANGED <<jobVars, cancelKey>>

(* lpush, ltrim and the release of the lock.                               *)
PushJob(c) ==
    /\ pc[c] = "push"
    /\ jobs' = Trim(<<prev[c]>> \o jobs)
    /\ lock' = Nobody /\ Returns(c)
    /\ UNCHANGED <<jobVars, cancelKey>>

(* The backend dies under the request that holds the lock; the lock goes   *)
(* when its timeout is up.                                                 *)
RequestDies(c) ==
    /\ pc[c] \in {"look", "enqueue", "push"} /\ Goto(c, "dead")
    /\ UNCHANGED <<jobVars, cancelKey, jobs, lock, want, prev>>

LockExpires(c) ==
    /\ pc[c] = "dead" /\ lock' = Nobody /\ Returns(c)
    /\ UNCHANGED <<jobVars, cancelKey, jobs>>

(* The key stays for eight days; nothing reads that of a job that is over. *)
cancel(j) ==
    /\ j \in Exists /\ ~Over(j) /\ Cardinality(cancelKey) < CancelMax
    /\ cancelKey' = cancelKey \cup {j}
    /\ UNCHANGED <<jobVars, jobs, reqVars>>

(* A job may wait longer than that; it does not run longer (job_timeout).  *)
CancelLapses(j) ==
    /\ j \in cancelKey /\ rq[j] \in {"deferred", "queued"}
    /\ cancelKey' = cancelKey \ {j}
    /\ UNCHANGED <<jobVars, jobs, reqVars>>

-----------------------------------------------------------------------------
(* The worker.                                                             *)

Running(j) == rq[j] = "started" /\ at[j] # "over"
Free == Cardinality({j \in JobId : rq[j] = "started"}) < Workers

(* The worker takes the job and run saves state "started".                 *)
run(j) ==
    /\ rq[j] = "queued" /\ Free
    /\ rq' = [rq EXCEPT ![j] = "started"]
    /\ state' = [state EXCEPT ![j] = "started"]
    /\ at' = [at EXCEPT ![j] = "transfer"]
    /\ UNCHANGED <<kind, dep, committed, visible, last, cancelKey, jobs, reqVars>>

(* Whether report raises Cancelled.                                        *)
Raises(j) == j \notin committed /\ j \in cancelKey

(* The except and finally clauses of run.                                  *)
Ends(j, outcome) ==
    /\ state' = [state EXCEPT ![j] = outcome]
    /\ at' = [at EXCEPT ![j] = "over"]

(* A report of the transfer ends the job or lets it go on; the step that   *)
(* goes on is the last of them, after the last chunk was copied.           *)
report(j) ==
    /\ Running(j) /\ at[j] = "transfer"
    /\ \/ Raises(j) /\ Ends(j, "cancelled")
       \/ ~Raises(j) /\ at' = [at EXCEPT ![j] = "sent"] /\ UNCHANGED state
    /\ UNCHANGED <<rq, kind, dep, committed, visible, outside>>

(* Any other error before the result is visible.                           *)
WorkFails(j) ==
    /\ Running(j) /\ at[j] \in {"transfer", "sent"}
    /\ Ends(j, "failed")
    /\ UNCHANGED <<rq, kind, dep, committed, visible, outside>>

(* publish_file's rename, or build_index replacing the index.              *)
Publish(j) ==
    /\ Running(j) /\ at[j] = "sent"
    /\ visible' = visible \cup {j}
    /\ at' = [at EXCEPT ![j] = "visible"]
    /\ UNCHANGED <<rq, state, kind, dep, committed, outside>>

(* Variant: this report looks for a cancellation as the others do.         *)
CommitChecksCancel(j) ==
    /\ Running(j) /\ at[j] = "visible"
    /\ \/ Raises(j) /\ Ends(j, "cancelled") /\ UNCHANGED committed
       \/ /\ ~Raises(j) /\ kind[j] = "download"
          /\ committed' = committed \cup {j}
          /\ at' = [at EXCEPT ![j] = "registering"] /\ UNCHANGED state
       \/ /\ ~Raises(j) /\ kind[j] = "index"
          /\ Ends(j, "finished") /\ UNCHANGED committed
    /\ UNCHANGED <<rq, kind, dep, visible, outside>>

(* report(phase="registering", import_committed=True), which never raises; *)
(* an index refresh is finished instead.                                   *)
CommitImport(j) ==
    /\ Running(j) /\ at[j] = "visible"
    /\ \/ /\ kind[j] = "download"
          /\ committed' = committed \cup {j}
          /\ at' = [at EXCEPT ![j] = "registering"] /\ UNCHANGED state
       \/ kind[j] = "index" /\ Ends(j, "finished") /\ UNCHANGED committed
    /\ UNCHANGED <<rq, kind, dep, visible, outside>>

(* register_rom and the report after it.                                   *)
Register(j) ==
    /\ Running(j) /\ at[j] = "registering"
    /\ \/ Raises(j) /\ Ends(j, "cancelled")
       \/ ~Raises(j) /\ \E outcome \in {"finished", "failed"} : Ends(j, outcome)
    /\ UNCHANGED <<rq, kind, dep, committed, visible, outside>>

(* RQ's side of the end of a job: its dependents are queued.               *)
Settle(j, outcome) ==
    rq' = [i \in JobId |-> IF i = j THEN outcome
                           ELSE IF rq[i] = "deferred" /\ dep[i] = j THEN "queued"
                           ELSE rq[i]]

WorkerSettles(j) ==
    /\ rq[j] = "started" /\ at[j] = "over" /\ Settle(j, "finished")
    /\ UNCHANGED <<state, kind, dep, at, committed, visible, outside>>

(* Variant: the dependency does not allow failure.                         *)
HorseDiesAlone(j) ==
    /\ rq[j] = "started" /\ rq' = [rq EXCEPT ![j] = "failed"]
    /\ at' = [at EXCEPT ![j] = "over"]
    /\ UNCHANGED <<state, kind, dep, committed, visible, outside>>

(* The horse is killed: RQ fails the job and, since the dependency allows  *)
(* failure, queues its dependents.                                         *)
HorseDies(j) ==
    /\ rq[j] = "started" /\ Settle(j, "failed")
    /\ at' = [at EXCEPT ![j] = "over"]
    /\ UNCHANGED <<state, kind, dep, committed, visible, outside>>

-----------------------------------------------------------------------------
Request(c) ==
    \/ AcquireLock(c) \/ LockTimesOut(c) \/ LookAtPending(c) \/ EnqueueJob(c)
    \/ PushJob(c) \/ LockExpires(c)

Work(j) ==
    \/ run(j) \/ report(j) \/ Publish(j) \/ CommitImport(j) \/ Register(j)
    \/ WorkerSettles(j)

Next ==
    \/ \E c \in Client : \/ refresh_index(c) \/ download(c) \/ retry(c)
                         \/ Request(c) \/ RequestDies(c)
    \/ \E j \in JobId : \/ Work(j) \/ cancel(j) \/ CancelLapses(j)
                        \/ WorkFails(j) \/ HorseDies(j)

Spec == Init /\ [][Next]_vars

-----------------------------------------------------------------------------
(* docs/ROM_PROVIDERS.md: "Downloads run sequentially so two imports       *)
(* cannot change the same torrent's file priorities concurrently."  This   *)
(* holds of jobs the list still shows: of two running jobs of a kind, the  *)
(* older has been trimmed off the list, or its push was lost.              *)
ListedAreSerial ==
    \A i, j \in JobId :
      (i < j /\ kind[i] = kind[j] /\ Running(i) /\ Running(j)) => i \notin Listed

IsAlive(j) == rq[j] \in {"deferred", "queued", "started"}

(* run, report: a job reported as cancelled has put nothing in the library *)
(* or in the index, wherever the cancellation met it.                      *)
CancelledLeavesNothing ==
    \A j \in JobId : status(j) = "cancelled" => j \notin visible

(* cancel, enqueue: "Let the worker finish cancelled jobs normally so RQ   *)
(* releases their dependents."  A deferred job waits for an older job that *)
(* is itself waiting or running, so no job waits for ever, also behind one *)
(* that was cancelled, failed or lost its worker.                          *)
WaitsForLiveJob ==
    \A j \in JobId :
      rq[j] = "deferred" =>
        dep[j] \in 1..(j - 1) /\ IsAlive(dep[j])

=============================================================================
