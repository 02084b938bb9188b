------------------------ MODULE ProviderJobs_proofs ------------------------
(***************************************************************************)
(* The queue of provider jobs, for every number of requests, workers and   *)
(* jobs and every limit of the list: jobs of a kind the list shows run one *)
(* at a time, a deferred job waits for a live one, and a cancelled job has *)
(* put nothing in place.                                                   *)
(***************************************************************************)
EXTENDS ProviderJobs, SequenceTheorems, WellFoundedInduction, TLAPS

-----------------------------------------------------------------------------
(* The inductive invariant.                                                *)

(* From the look at the list to the push a request holds the lock.         *)
Locking ==
    \A c \in Client : pc[c] \in {"look", "enqueue", "push", "dead"} => lock = c

(* A job that is not over, as enqueue sees it in the list.                 *)
Active(j) == rq[j] \in {"deferred", "queued"} \/ Running(j)

(* What has not started has done nothing; RQ's status, the state the job   *)
(* saved and the place of its horse agree.                                 *)
JobAgrees(j) ==
    /\ rq[j] = "none" <=> j > last
    /\ rq[j] \in {"none", "deferred", "queued"} =>
         state[j] = "none" /\ at[j] = "idle" /\ j \notin visible /\ j \notin committed
    /\ rq[j] = "started" =>
         \/ /\ at[j] \in {"transfer", "sent", "visible", "registering"}
            /\ state[j] = "started"
         \/ at[j] = "over" /\ state[j] \in {"finished", "cancelled", "failed"}
    /\ rq[j] = "finished" =>
         at[j] = "over" /\ state[j] \in {"finished", "cancelled", "failed"}
    /\ rq[j] = "failed" => at[j] = "over"
    /\ at[j] \in {"transfer", "sent"} => j \notin visible
    /\ at[j] = "registering" => j \in committed
    /\ state[j] = "cancelled" => j \notin visible
    /\ j <= last => kind[j] \in Kind

JobsAgree == \A j \in JobId : JobAgrees(j)

ListedExist == \A j \in Listed : j \in JobId /\ j <= last

DependsOnOlder ==
    \A j \in JobId : dep[j] # 0 =>
      dep[j] \in Exists /\ dep[j] < j /\ kind[dep[j]] = kind[j]

(* The request that looked knows the newest listed job of its kind, and    *)
(* what it pushes is the newest of all.                                    *)
KnowsNewest ==
    \A c \in Client :
      /\ pc[c] = "enqueue" =>
           /\ prev[c] # 0 => prev[c] <= last /\ kind[prev[c]] = want[c]
           /\ \A i \in JobId :
                i \in Listed /\ Active(i) /\ kind[i] = want[c] => i <= prev[c]
      /\ pc[c] = "push" => prev[c] = last /\ last # 0

(* A job enqueued after a listed job of its kind that is not over is       *)
(* deferred, behind that job or a newer one.                               *)
Behind(i, j) ==
    i < j /\ kind[i] = kind[j] /\ i \in Listed /\ Active(i) /\ j <= last
      => rq[j] = "deferred" /\ i <= dep[j]

QueuedBehind == \A i, j \in JobId : Behind(i, j)

IInv == /\ TypeOK /\ Locking /\ JobsAgree /\ ListedExist /\ DependsOnOlder
        /\ KnowsNewest /\ QueuedBehind /\ WaitsForLiveJob

-----------------------------------------------------------------------------
(* A set of jobs that is not empty has a newest one.                       *)
LEMMA NewestIs ==
    ASSUME NEW S \in SUBSET JobId, S # {}
    PROVE  Newest(S) \in S /\ \A i \in S : i <= Newest(S)
<1> DEFINE Below == {MaxJobs - j : j \in S}
<1>1. Below \subseteq Nat /\ Below # {}
  <2>1. ASSUME NEW j \in S PROVE MaxJobs - j \in Nat
    BY BoundsAssumption DEF JobId
  <2> QED
    BY <2>1
<1>2. PICK x \in Below : \A y \in Below : <<y, x>> \notin OpToRel(<, Nat)
  BY <1>1, WFMin, NatLessThanWellFounded, Zenon
<1>3. \A y \in Below : x <= y
  <2> HIDE DEF Below
  <2> SUFFICES ASSUME NEW y \in Below PROVE x <= y
    OBVIOUS
  <2>1. x \in Nat /\ y \in Nat
    BY <1>1, <1>2
  <2>2. ~(y < x)
    BY <1>2, <2>1 DEF OpToRel
  <2> QED
    BY <2>1, <2>2
<1>4. PICK j \in S : x = MaxJobs - j
  BY <1>2
<1>5. \A i \in S : i <= j
  BY <1>3, <1>4, BoundsAssumption DEF JobId
<1> QED
  BY <1>4, <1>5 DEF Newest

(* status: what the list calls pending is what is not over.                *)
LEMMA PendingIsActive ==
    ASSUME IInv, NEW j \in JobId
    PROVE  IsPending(j) <=> Active(j)
BY DEF IInv, TypeOK, RqStatus, MetaState, Place, JobsAgree, JobAgrees,
       IsPending,
       status, Active, Running

(* A step of requests that leaves the jobs and the list alone.             *)
LEMMA RequestKeeps ==
    ASSUME IInv, UNCHANGED <<jobVars, cancelKey, jobs>>, TypeOK', Locking', KnowsNewest'
    PROVE  IInv'
<1> USE DEF IInv, jobVars
<1>1. JobsAgree'
  BY DEF JobsAgree, JobAgrees
<1>2. ListedExist'
  BY DEF ListedExist, Listed
<1>3. DependsOnOlder'
  BY DEF DependsOnOlder, Exists
<1>4. QueuedBehind'
  BY DEF QueuedBehind, Behind, Active, Running, Listed
<1>5. WaitsForLiveJob'
  BY DEF WaitsForLiveJob, IsAlive
<1> QED
  BY <1>1, <1>2, <1>3, <1>4, <1>5

(* One whose request goes on without a job in hand, or returns.            *)
LEMMA RequestGoes ==
    ASSUME IInv, UNCHANGED <<jobVars, cancelKey, jobs>>, NEW c \in Client,
           NEW s \in {"idle", "acquire", "look", "dead"}, Goto(c, s),
           NEW w \in Kind, want' = [want EXCEPT ![c] = w],
           prev' \in [Client -> 0..MaxJobs],
           \A d \in Client \ {c} : prev'[d] = prev[d],
           lock' \in {lock, c, Nobody}, s \in {"look", "dead"} => lock' = c,
           lock' # lock => lock \in {c, Nobody}
    PROVE  IInv'
<1> USE ClientAssumption DEF IInv, Goto, jobVars
<1>1. TypeOK'
  BY DEF TypeOK
<1>2. Locking'
  BY DEF TypeOK, Locking
<1>3. KnowsNewest'
  <2> SUFFICES ASSUME NEW d \in Client PROVE
        /\ pc'[d] = "enqueue" =>
             /\ prev'[d] # 0 => prev'[d] <= last /\ kind[prev'[d]] = want'[d]
             /\ \A i \in JobId :
                  i \in Listed /\ Active(i) /\ kind[i] = want'[d] => i <= prev'[d]
        /\ pc'[d] = "push" => prev'[d] = last /\ last # 0
    BY DEF KnowsNewest, Listed, Active, Running
  <2> QED
    BY DEF TypeOK, KnowsNewest
<1> QED
  BY <1>1, <1>2, <1>3, RequestKeeps DEF jobVars

(* One whose request is answered.                                          *)
LEMMA RequestReturns ==
    ASSUME IInv, UNCHANGED <<jobVars, cancelKey, jobs>>, NEW c \in Client, Returns(c),
           lock' \in {lock, Nobody}, lock' # lock => lock \in {c, Nobody}
    PROVE  IInv'
<1>1. "index" \in Kind /\ 0 \in 0..MaxJobs
  BY BoundsAssumption DEF Kind
<1>2. prev' \in [Client -> 0..MaxJobs] /\ \A d \in Client \ {c} : prev'[d] = prev[d]
  BY <1>1 DEF IInv, TypeOK, Returns
<1>3. Goto(c, "idle") /\ want' = [want EXCEPT ![c] = "index"]
  BY DEF Returns
<1> QED
  BY <1>1, <1>2, <1>3, RequestGoes

-----------------------------------------------------------------------------
(* The routes and the lock: refresh_index, download and retry start a      *)
(* request, which waits for the lock or gives up.                          *)
LEMMA RoutesStep ==
    ASSUME IInv, NEW c \in Client,
           \/ refresh_index(c) \/ download(c) \/ retry(c) \/ AcquireLock(c)
           \/ LockTimesOut(c) \/ RequestDies(c) \/ LockExpires(c)
    PROVE  IInv'
<1> USE DEF IInv
<1>1. ASSUME refresh_index(c) \/ download(c) \/ retry(c) PROVE IInv'
  <2>1. PICK w \in Kind : want' = [want EXCEPT ![c] = w]
    <3>1. CASE retry(c)
      <4>1. PICK j \in Exists : want' = [want EXCEPT ![c] = kind[j]]
        BY <3>1 DEF retry
      <4>2. j \in JobId /\ j <= last
        BY BoundsAssumption DEF TypeOK, Exists, JobId
      <4> QED
        BY <4>1, <4>2 DEF JobsAgree, JobAgrees
    <3> QED
      BY <1>1, <3>1 DEF refresh_index, download, Kind
  <2>2. Goto(c, "acquire") /\ UNCHANGED <<jobVars, cancelKey, jobs, lock, prev>>
    BY <1>1 DEF refresh_index, download, retry
  <2>3. prev' \in [Client -> 0..MaxJobs] /\ lock' = lock
    BY <2>2 DEF TypeOK
  <2> HIDE DEF IInv
  <2> QED
    BY <2>1, <2>2, <2>3, RequestGoes
<1>2. ASSUME AcquireLock(c) PROVE IInv'
  <2>1. want' = [want EXCEPT ![c] = want[c]] /\ want[c] \in Kind
    BY <1>2 DEF AcquireLock, TypeOK
  <2> QED
    BY <1>2, <2>1, RequestGoes DEF TypeOK, AcquireLock
<1>3. ASSUME LockTimesOut(c) PROVE IInv'
  BY <1>3, RequestReturns DEF LockTimesOut
<1>4. ASSUME RequestDies(c) PROVE IInv'
  <2>1. want' = [want EXCEPT ![c] = want[c]] /\ want[c] \in Kind
    BY <1>4 DEF RequestDies, TypeOK
  <2>2. lock' = c
    BY <1>4 DEF RequestDies, Locking
  <2> QED
    BY <1>4, <2>1, <2>2, RequestGoes DEF TypeOK, RequestDies
<1>5. ASSUME LockExpires(c) PROVE IInv'
  <2>1. lock = c
    BY <1>5 DEF LockExpires, Locking
  <2> QED
    BY <1>5, <2>1, RequestReturns DEF LockExpires
<1> QED
  BY <1>1, <1>2, <1>3, <1>4, <1>5

(* enqueue under the lock: the list is full, or the newest pending job of  *)
(* the kind is found.                                                      *)
LEMMA LookStep ==
    ASSUME IInv, NEW c \in Client, LookAtPending(c)
    PROVE  IInv'
<1> USE DEF IInv
<1> DEFINE S == {j \in Pending : kind[j] = want[c]}
<1>0. lock = c
  BY DEF LookAtPending, Locking
<1>1. CASE Returns(c) /\ lock' = Nobody
  BY <1>0, <1>1, RequestReturns DEF LookAtPending
<1>2. CASE /\ prev' = [prev EXCEPT ![c] = Newest(S)]
           /\ Goto(c, "enqueue") /\ UNCHANGED <<lock, want>>
  <2> USE <1>2
  <2>1. S \in SUBSET JobId /\ \A j \in S : j <= last
    BY DEF ListedExist, Pending
  <2>2. \A i \in JobId : i \in Listed /\ Active(i) /\ kind[i] = want[c] => i \in S
    BY PendingIsActive DEF Pending
  <2> DEFINE n == Newest(S)
  <2>3. n \in 0..MaxJobs /\ (n # 0 => n \in S) /\ \A i \in S : i <= n
    <3>1. CASE S = {}
      BY <3>1, BoundsAssumption DEF Newest
    <3>2. CASE S # {}
      BY <3>2, <2>1, NewestIs, BoundsAssumption DEF JobId
    <3> QED
      BY <3>1, <3>2
  <2> HIDE DEF n
  <2>4. prev' = [prev EXCEPT ![c] = n]
    BY DEF n
  <2>5. n # 0 => n <= last /\ kind[n] = want[c]
    BY <2>1, <2>3
  <2>6. \A i \in JobId : i \in Listed /\ Active(i) /\ kind[i] = want[c] => i <= n
    BY <2>2, <2>3
  <2>7. /\ UNCHANGED <<jobVars, cancelKey, jobs>>
        /\ Goto(c, "enqueue") /\ UNCHANGED <<lock, want>>
    BY DEF LookAtPending
  <2> HIDE <1>2
  <2> USE <2>7 DEF Goto, jobVars
  <2>8. TypeOK'
    BY <2>3, <2>4 DEF TypeOK
  <2>9. Locking'
    BY <1>0 DEF TypeOK, Locking
  <2>10. KnowsNewest'
    <3> SUFFICES ASSUME NEW d \in Client PROVE
          /\ pc'[d] = "enqueue" =>
               /\ prev'[d] # 0 => prev'[d] <= last /\ kind[prev'[d]] = want[d]
               /\ \A i \in JobId :
                    i \in Listed /\ Active(i) /\ kind[i] = want[d] => i <= prev'[d]
          /\ pc'[d] = "push" => prev'[d] = last /\ last # 0
      BY DEF KnowsNewest, Listed, Active, Running
    <3> QED
      BY <2>4, <2>5, <2>6 DEF TypeOK, KnowsNewest
  <2> QED
    BY <2>8, <2>9, <2>10, RequestKeeps DEF jobVars
<1> QED
  BY <1>1, <1>2 DEF LookAtPending

(* low_prio_queue.enqueue: the job that was found may have become over     *)
(* since; then nothing of its kind in the list is active any more.         *)
LEMMA EnqueueStep ==
    ASSUME IInv, NEW c \in Client, EnqueueJob(c)
    PROVE  IInv'
<1> USE DEF IInv, EnqueueJob
<1> DEFINE j == last + 1
           p == prev[c]
<1>1. /\ j \in JobId /\ rq[j] = "none" /\ lock = c
      /\ UNCHANGED <<state, at, committed, visible, cancelKey, jobs, lock, want>>
      /\ last' = last + 1 /\ last \in Nat
  BY BoundsAssumption DEF TypeOK, JobId, JobsAgree, JobAgrees, Locking
<1>2. /\ p \in 0..MaxJobs /\ (p # 0 => p \in JobId /\ p <= last /\ kind[p] = want[c])
      /\ \A i \in JobId : i \in Listed /\ Active(i) /\ kind[i] = want[c] => i <= p
  BY DEF TypeOK, KnowsNewest, JobId
<1>3. \A i \in JobId : i # j =>
        /\ rq'[i] = rq[i] /\ kind'[i] = kind[i] /\ dep'[i] = dep[i]
        /\ Active(i)' <=> Active(i)
        /\ IsAlive(i) => rq'[i] \in {"deferred", "queued", "started"}
  BY <1>1 DEF TypeOK, Active, Running, IsAlive
<1>4. /\ rq'[j] = IF p # 0 /\ ~Over(p) THEN "deferred" ELSE "queued"
      /\ kind'[j] = want[c] /\ dep'[j] = p
  BY <1>1 DEF TypeOK
<1>5. TypeOK'
  BY <1>1, <1>2 DEF TypeOK, Goto, RqStatus, JobId
<1>6. Locking'
  BY <1>1 DEF TypeOK, Locking, Goto
<1>7. JobsAgree'
  <2> SUFFICES ASSUME NEW i \in JobId PROVE JobAgrees(i)'
    BY DEF JobsAgree
  <2>1. JobAgrees(i)
    BY DEF JobsAgree
  <2>2. CASE i = j
    BY <1>1, <1>4, <2>1, <2>2 DEF JobAgrees, TypeOK, JobId
  <2>3. CASE i # j
    BY <1>1, <1>3, <2>1, <2>3 DEF JobAgrees, JobId
  <2> QED
    BY <2>2, <2>3
<1>8. ListedExist'
  BY <1>1 DEF ListedExist, Listed, JobId
<1>9. DependsOnOlder'
  <2> SUFFICES ASSUME NEW i \in JobId, dep'[i] # 0
               PROVE  dep'[i] \in 1..last' /\ dep'[i] < i /\ kind'[dep'[i]] = kind'[i]
    BY DEF DependsOnOlder, Exists
  <2>1. CASE i = j
    BY <1>1, <1>2, <1>3, <1>4, <2>1 DEF JobId
  <2>2. CASE i # j
    <3>1. dep'[i] = dep[i] /\ kind'[i] = kind[i]
      BY <1>3, <2>2
    <3>2. dep[i] \in 1..last /\ dep[i] < i /\ kind[dep[i]] = kind[i]
      BY <3>1 DEF DependsOnOlder, Exists
    <3>3. dep[i] \in JobId /\ dep[i] # j
      BY <1>1, <3>2, BoundsAssumption DEF JobId, TypeOK
    <3> QED
      BY <1>1, <1>3, <3>1, <3>2, <3>3
  <2> QED
    BY <2>1, <2>2
<1>10. KnowsNewest'
  <2>1. \A d \in Client : d # c => pc'[d] \notin {"enqueue", "push"}
    BY <1>1 DEF Locking, TypeOK, Goto
  <2>2. pc'[c] = "push" /\ prev'[c] = j
    BY DEF TypeOK, Goto
  <2> QED
    BY <1>1, <2>1, <2>2 DEF KnowsNewest
<1>11. QueuedBehind'
  <2> SUFFICES ASSUME NEW h \in JobId, NEW i \in JobId, h < i, kind'[h] = kind'[i],
                      h \in Listed, Active(h)', i <= last + 1
               PROVE  rq'[i] = "deferred" /\ h <= dep'[i]
    BY <1>1 DEF QueuedBehind, Behind, Listed
  <2>1. h # j /\ Active(h) /\ kind'[h] = kind[h]
    BY <1>1, <1>3 DEF ListedExist, JobId
  <2>2. CASE i # j
    BY <1>1, <1>3, <2>1, <2>2 DEF QueuedBehind, Behind, JobId
  <2>3. CASE i = j
    <3>1. h <= p /\ p \in JobId /\ kind[p] = want[c] /\ p <= last
      BY <1>2, <1>4, <2>1, <2>3 DEF JobId
    <3>2. Active(p) \/ h < p
      BY <2>1, <3>1 DEF JobId
    <3>3. ~Over(p)
      BY <1>4, <2>1, <2>3, <3>1, <3>2
         DEF QueuedBehind, Behind, Over, Active, Running, JobId
    <3> QED
      BY <1>4, <2>3, <3>1, <3>3 DEF JobId
  <2> QED
    BY <2>2, <2>3
<1>12. WaitsForLiveJob'
  <2> SUFFICES ASSUME NEW i \in JobId, rq'[i] = "deferred"
               PROVE  /\ dep'[i] \in 1..(i - 1)
                      /\ rq'[dep'[i]] \in {"deferred", "queued", "started"}
    BY DEF WaitsForLiveJob, IsAlive
  <2>1. CASE i = j
    <3>1. p \in JobId /\ p <= last /\ p # j /\ ~Over(p)
      BY <1>1, <1>2, <1>4, <2>1 DEF JobId
    <3>2. rq[p] # "none"
      BY <1>1, <3>1 DEF JobsAgree, JobAgrees, JobId
    <3>3. IsAlive(p)
      BY <3>1, <3>2 DEF TypeOK, RqStatus, IsAlive, Over
    <3> QED
      BY <1>1, <1>3, <1>4, <2>1, <3>1, <3>3 DEF JobId
  <2>2. CASE i # j
    <3>1. dep[i] \in 1..(i - 1) /\ IsAlive(dep[i]) /\ dep'[i] = dep[i]
      BY <1>3, <2>2 DEF WaitsForLiveJob
    <3>2. dep[i] \in JobId
      BY <1>1, <3>1, BoundsAssumption DEF JobId
    <3>3. dep[i] # j
      BY <1>1, <3>1 DEF IsAlive
    <3> QED
      BY <1>3, <3>1, <3>2, <3>3
  <2> QED
    BY <2>1, <2>2
<1> QED
  BY <1>5, <1>6, <1>7, <1>8, <1>9, <1>10, <1>11, <1>12

-----------------------------------------------------------------------------
(* lpush and ltrim: the list grows by the new job and loses old ones.      *)
LEMMA TrimIs ==
    ASSUME NEW s \in Seq(JobId), NEW n \in JobId
    PROVE  /\ Trim(<<n>> \o s) \in Seq(JobId) /\ Len(Trim(<<n>> \o s)) <= ListMax
           /\ \A k \in 1..Len(Trim(<<n>> \o s)) :
                \/ Trim(<<n>> \o s)[k] = n
                \/ \E l \in 1..Len(s) : Trim(<<n>> \o s)[k] = s[l]
<1> DEFINE t == <<n>> \o s
           m == IF Len(t) < ListMax THEN Len(t) ELSE ListMax
<1>1. /\ t \in Seq(JobId) /\ Len(t) = 1 + Len(s) /\ Len(s) \in Nat
      /\ \A k \in 1..(1 + Len(s)) : t[k] = IF k <= 1 THEN n ELSE s[k - 1]
  <2>1. <<n>> \in Seq(JobId) /\ Len(<<n>>) = 1 /\ <<n>>[1] = n
    OBVIOUS
  <2>2. /\ <<n>> \o s \in Seq(JobId) /\ Len(<<n>> \o s) = Len(<<n>>) + Len(s)
        /\ \A k \in 1..Len(<<n>>) + Len(s) : (<<n>> \o s)[k] =
             IF k <= Len(<<n>>) THEN <<n>>[k] ELSE s[k - Len(<<n>>)]
    BY <2>1, ConcatProperties, Zenon
  <2> QED
    BY <2>1, <2>2
<1> HIDE DEF t
<1>2. m \in 1..Len(t) /\ m <= ListMax
  BY <1>1, BoundsAssumption
<1> HIDE DEF m
<1>3. \A k \in 1..m : t[k] \in JobId
  BY <1>1, <1>2
<1>4. /\ SubSeq(t, 1, m) \in Seq(JobId) /\ Len(SubSeq(t, 1, m)) = m
      /\ \A k \in 1..m : SubSeq(t, 1, m)[k] = t[k]
  <2>1. 1 \in Int /\ m \in Int /\ 1 <= m /\ m - 1 + 1 = m
    BY <1>1, <1>2
  <2>2. /\ SubSeq(t, 1, m) \in Seq(JobId)
        /\ Len(SubSeq(t, 1, m)) = IF 1 <= m THEN m - 1 + 1 ELSE 0
        /\ \A k \in 1..m - 1 + 1 : SubSeq(t, 1, m)[k] = t[1 + k - 1]
    BY <1>3, <2>1, SubSeqProperties
  <2> QED
    BY <2>1, <2>2
<1>5. Trim(<<n>> \o s) = SubSeq(t, 1, m)
  BY DEF Trim, t, m
<1>6. \A k \in 1..m : t[k] = n \/ \E l \in 1..Len(s) : t[k] = s[l]
  <2> SUFFICES ASSUME NEW k \in 1..m, k # 1 PROVE \E l \in 1..Len(s) : t[k] = s[l]
    BY <1>1, <1>2
  <2>1. k - 1 \in 1..Len(s) /\ t[k] = s[k - 1]
    BY <1>1, <1>2
  <2> QED
    BY <2>1
<1> QED
  BY <1>2, <1>4, <1>5, <1>6

(* lpush, ltrim and the release of the lock.                               *)
LEMMA PushStep ==
    ASSUME IInv, NEW c \in Client, PushJob(c)
    PROVE  IInv'
<1> USE DEF IInv, PushJob, jobVars
<1>1. prev[c] = last /\ last \in JobId /\ lock = c
  BY DEF KnowsNewest, TypeOK, JobId, Locking
<1>2. /\ jobs' \in Seq(JobId) /\ Len(jobs') <= ListMax
      /\ \A i \in Listed' : i = last \/ i \in Listed
  <2> DEFINE t == Trim(<<last>> \o jobs)
  <2>1. /\ t \in Seq(JobId) /\ Len(t) <= ListMax
        /\ \A k \in 1..Len(t) : t[k] = last \/ \E l \in 1..Len(jobs) : t[k] = jobs[l]
    <3>1. jobs \in Seq(JobId)
      BY DEF TypeOK
    <3> QED
      BY <1>1, <3>1, TrimIs, Zenon
  <2> HIDE DEF t
  <2>0. jobs' = t
    BY <1>1 DEF t
  <2>2. /\ jobs' \in Seq(JobId) /\ Len(jobs') <= ListMax
        /\ \A k \in 1..Len(jobs') :
             jobs'[k] = last \/ \E l \in 1..Len(jobs) : jobs'[k] = jobs[l]
    BY <2>0, <2>1
  <2> QED
    BY <2>2 DEF Listed
<1>3. TypeOK'
  BY <1>2, BoundsAssumption DEF TypeOK, Returns, Goto, Kind
<1>4. Locking' /\ KnowsNewest'
  BY <1>1 DEF TypeOK, Locking, KnowsNewest, Returns, Goto
<1>5. JobsAgree'
  BY DEF JobsAgree, JobAgrees
<1>6. ListedExist'
  BY <1>1, <1>2 DEF ListedExist, JobId
<1>7. DependsOnOlder' /\ WaitsForLiveJob'
  BY DEF DependsOnOlder, Exists, WaitsForLiveJob, IsAlive
<1>8. QueuedBehind'
  <2> SUFFICES ASSUME NEW h \in JobId, NEW i \in JobId, h < i, kind[h] = kind[i],
                      h \in Listed', Active(h), i <= last
               PROVE  rq[i] = "deferred" /\ h <= dep[i]
    BY DEF QueuedBehind, Behind, Active, Running
  <2>1. h \in Listed
    BY <1>1, <1>2 DEF JobId
  <2> QED
    BY <2>1 DEF QueuedBehind, Behind
<1> QED
  BY <1>3, <1>4, <1>5, <1>6, <1>7, <1>8

(* cancel sets a key, which may lapse.                                     *)
LEMMA CancelStep ==
    ASSUME IInv, NEW j \in JobId, cancel(j) \/ CancelLapses(j)
    PROVE  IInv'
<1> USE DEF IInv, cancel, CancelLapses, jobVars, reqVars
<1>1. TypeOK'
  BY DEF TypeOK
<1>2. Locking' /\ DependsOnOlder' /\ WaitsForLiveJob'
  BY DEF Locking, DependsOnOlder, Exists, WaitsForLiveJob, IsAlive
<1>3. JobsAgree'
  BY DEF JobsAgree, JobAgrees
<1>4. ListedExist'
  BY DEF ListedExist, Listed
<1>5. KnowsNewest' /\ QueuedBehind'
  BY DEF KnowsNewest, QueuedBehind, Behind, Active, Running, Listed
<1> QED
  BY <1>1, <1>2, <1>3, <1>4, <1>5

-----------------------------------------------------------------------------
(* A step of job j leaves what is known of the other jobs alone.           *)
Typed ==
    /\ rq' \in [JobId -> RqStatus] /\ state' \in [JobId -> MetaState]
    /\ at' \in [JobId -> Place] /\ committed' \subseteq JobId /\ visible' \subseteq JobId

OnlyTouches(j) ==
    \A i \in JobId \ {j} :
      /\ rq'[i] = rq[i] /\ state'[i] = state[i] /\ at'[i] = at[i]
      /\ i \in committed' <=> i \in committed
      /\ i \in visible' <=> i \in visible

(* A step of the horse of one job: the job stays in step with RQ, and no   *)
(* job becomes active or stops waiting.                                    *)
LEMMA WorkKeeps ==
    ASSUME IInv, NEW j \in JobId, UNCHANGED <<kind, dep, outside>>,
           Typed, OnlyTouches(j),
           rq[j] = "queued" \/ Running(j), rq'[j] = "started", JobAgrees(j)'
    PROVE  IInv'
<1> USE DEF IInv, outside, reqVars, Typed, OnlyTouches
<1>1. TypeOK'
  BY DEF TypeOK
<1>2. Locking' /\ DependsOnOlder' /\ ListedExist'
  BY DEF Locking, DependsOnOlder, Exists, ListedExist, Listed
<1>3. JobsAgree'
  BY DEF JobsAgree, JobAgrees
<1>4. \A i \in JobId : /\ Active(i)' => Active(i)
                       /\ IsAlive(i) => rq'[i] \in {"deferred", "queued", "started"}
                       /\ rq[i] = "deferred" <=> rq'[i] = "deferred"
  <2>1. Active(j)' => Active(j)
    BY DEF Active, Running
  <2> QED
    BY <2>1 DEF Active, Running, IsAlive
<1>5. KnowsNewest' /\ QueuedBehind'
  BY <1>4 DEF KnowsNewest, QueuedBehind, Behind, Listed
<1>6. WaitsForLiveJob'
  <2> SUFFICES ASSUME NEW i \in JobId, rq'[i] = "deferred"
               PROVE  /\ dep[i] \in 1..(i - 1)
                      /\ rq'[dep[i]] \in {"deferred", "queued", "started"}
    BY DEF WaitsForLiveJob, IsAlive
  <2>1. dep[i] \in 1..(i - 1) /\ IsAlive(dep[i])
    BY <1>4 DEF WaitsForLiveJob
  <2>2. dep[i] \in JobId
    BY <2>1, BoundsAssumption DEF JobId
  <2> QED
    BY <1>4, <2>1, <2>2
<1> QED
  BY <1>1, <1>2, <1>3, <1>5, <1>6

(* run, report, publish_file, import_rom: the steps of a job's work.       *)
LEMMA WorkStep ==
    ASSUME IInv, NEW j \in JobId,
           run(j) \/ report(j) \/ WorkFails(j) \/ Publish(j) \/ CommitImport(j) \/ Register(j)
    PROVE  IInv'
<1> USE DEF IInv
<1>0. JobAgrees(j)
  BY DEF JobsAgree
<1>1. ASSUME run(j) PROVE IInv'
  <2>1. JobAgrees(j)'
    BY <1>0, <1>1 DEF run, JobAgrees, TypeOK
  <2>2. Typed
    BY <1>1 DEF Typed, run, TypeOK, RqStatus, MetaState, Place
  <2>3. /\ UNCHANGED <<kind, dep, outside>>
        /\ OnlyTouches(j)
        /\ rq[j] = "queued" /\ rq'[j] = "started"
    BY <1>1 DEF OnlyTouches, run, TypeOK, outside
  <2> QED
    BY <2>1, <2>2, <2>3, WorkKeeps
<1>2. ASSUME report(j) PROVE IInv'
  <2>1. JobAgrees(j)'
    BY <1>0, <1>2 DEF report, Running, Raises, Ends, outside, JobAgrees, TypeOK
  <2>2. Typed
    BY <1>2 DEF Typed, report, Ends, TypeOK, MetaState, Place
  <2>3. /\ UNCHANGED <<kind, dep, outside>>
        /\ OnlyTouches(j)
        /\ Running(j) /\ rq'[j] = "started"
    BY <1>2 DEF OnlyTouches, report, Ends, Running, TypeOK
  <2> QED
    BY <2>1, <2>2, <2>3, WorkKeeps
<1>3. ASSUME WorkFails(j) PROVE IInv'
  <2>1. JobAgrees(j)'
    BY <1>0, <1>3 DEF WorkFails, Running, Ends, outside, JobAgrees, TypeOK
  <2> QED
    BY <1>3, <2>1, WorkKeeps
       DEF Typed, OnlyTouches, WorkFails, Running, Ends, TypeOK, MetaState,
           Place
<1>4. ASSUME Publish(j) PROVE IInv'
  <2>1. JobAgrees(j)'
    BY <1>0, <1>4 DEF Publish, Running, outside, JobAgrees, TypeOK
  <2>2. Typed
    BY <1>4 DEF Typed, Publish, TypeOK, Place
  <2>3. /\ UNCHANGED <<kind, dep, outside>>
        /\ OnlyTouches(j)
        /\ Running(j) /\ rq'[j] = "started"
    BY <1>4 DEF OnlyTouches, Publish, Running, TypeOK
  <2> QED
    BY <2>1, <2>2, <2>3, WorkKeeps
<1>5. ASSUME CommitImport(j) PROVE IInv'
  <2>1. JobAgrees(j)'
    BY <1>0, <1>5 DEF CommitImport, Running, Ends, outside, JobAgrees, TypeOK
  <2>2. Typed
    BY <1>5 DEF Typed, CommitImport, Ends, TypeOK, MetaState, Place
  <2>3. /\ UNCHANGED <<kind, dep, outside>>
        /\ OnlyTouches(j)
        /\ Running(j) /\ rq'[j] = "started"
    BY <1>5 DEF OnlyTouches, CommitImport, Ends, Running, TypeOK
  <2> QED
    BY <2>1, <2>2, <2>3, WorkKeeps
<1>6. ASSUME Register(j) PROVE IInv'
  <2>1. PICK o \in {"finished", "failed"} : Ends(j, o)
    BY <1>0, <1>6 DEF Register, Raises, JobAgrees
  <2>2. JobAgrees(j)'
    BY <1>0, <1>6, <2>1 DEF Register, Running, Ends, outside, JobAgrees, TypeOK
  <2> QED
    BY <1>6, <2>1, <2>2, WorkKeeps
       DEF Typed, OnlyTouches, Register, Running, Ends, TypeOK, MetaState, Place
<1> QED
  BY <1>1, <1>2, <1>3, <1>4, <1>5, <1>6

(* RQ's side of the end of a job, finished or with its horse dead: what    *)
(* waited for it is queued, and a job still behind an active one waits on. *)
LEMMA SettleStep ==
    ASSUME IInv, NEW j \in JobId, WorkerSettles(j) \/ HorseDies(j)
    PROVE  IInv'
<1> USE DEF IInv, outside, reqVars
<1>1. PICK o \in {"finished", "failed"} : Settle(j, o)
  BY DEF WorkerSettles, HorseDies
<1>2. /\ rq[j] = "started" /\ rq'[j] = o /\ at' = [at EXCEPT ![j] = "over"]
      /\ o = "finished" => at[j] = "over"
      /\ UNCHANGED <<state, kind, dep, committed, visible, outside>>
  <2>1. CASE WorkerSettles(j)
    BY <1>1, <2>1 DEF WorkerSettles, Settle, TypeOK
  <2>2. CASE HorseDies(j)
    BY <1>1, <2>2 DEF HorseDies, Settle, TypeOK
  <2> QED
    BY <2>1, <2>2
<1>3. \A i \in JobId \ {j} :
        /\ at'[i] = at[i]
        /\ rq'[i] = IF rq[i] = "deferred" /\ dep[i] = j THEN "queued" ELSE rq[i]
  BY <1>1, <1>2 DEF Settle, TypeOK
<1>4. rq' \in [JobId -> RqStatus]
  BY <1>1 DEF Settle, TypeOK, RqStatus
<1> HIDE DEF outside
<1>5. TypeOK'
  BY <1>2, <1>4 DEF TypeOK, Place, outside
<1>6. Locking' /\ DependsOnOlder' /\ ListedExist'
  BY <1>2 DEF Locking, DependsOnOlder, ListedExist, Listed, Exists, outside
<1>7. JobsAgree'
  <2> SUFFICES ASSUME NEW i \in JobId PROVE JobAgrees(i)'
    BY DEF JobsAgree
  <2>1. JobAgrees(i)
    BY DEF JobsAgree
  <2>2. CASE i = j
    BY <1>2, <2>1, <2>2 DEF JobAgrees, TypeOK, outside
  <2>3. CASE i # j
    BY <1>2, <1>3, <2>1, <2>3 DEF JobAgrees, outside
  <2> QED
    BY <2>2, <2>3
<1>8. ~Active(j)' /\ \A i \in JobId : Active(i)' => Active(i)
  <2>1. ~Active(j)'
    BY <1>2 DEF Active, Running
  <2>2. \A i \in JobId \ {j} : Active(i)' => Active(i)
    BY <1>3 DEF Active, Running
  <2> QED
    BY <2>1, <2>2
<1>9. KnowsNewest'
  BY <1>2, <1>8 DEF KnowsNewest, Listed, outside
<1>10. QueuedBehind'
  <2> SUFFICES ASSUME NEW h \in JobId, NEW i \in JobId, h < i, kind[h] = kind[i],
                      h \in Listed, Active(h)', i <= last
               PROVE  rq'[i] = "deferred" /\ h <= dep[i]
    BY <1>2 DEF QueuedBehind, Behind, Listed, outside
  <2>1. h # j /\ Active(h) /\ rq[i] = "deferred" /\ h <= dep[i]
    BY <1>8 DEF QueuedBehind, Behind
  <2>2. dep[i] # j
    <3>1. SUFFICES ASSUME dep[i] = j PROVE FALSE
      OBVIOUS
    <3>2. h < j /\ kind[h] = kind[j] /\ j <= last
      BY <2>1, <3>1 DEF DependsOnOlder, Exists, JobId
    <3> QED
      BY <1>2, <2>1, <3>2 DEF QueuedBehind, Behind
  <2> QED
    BY <1>2, <1>3, <2>1, <2>2
<1>11. WaitsForLiveJob'
  <2> SUFFICES ASSUME NEW i \in JobId, rq'[i] = "deferred"
               PROVE  /\ dep[i] \in 1..(i - 1)
                      /\ rq'[dep[i]] \in {"deferred", "queued", "started"}
    BY <1>2 DEF WaitsForLiveJob, IsAlive
  <2>1. rq[i] = "deferred" /\ dep[i] # j
    BY <1>2, <1>3
  <2>2. dep[i] \in 1..(i - 1) /\ rq[dep[i]] \in {"deferred", "queued", "started"}
    BY <2>1 DEF WaitsForLiveJob, IsAlive
  <2>3. dep[i] \in JobId
    BY <2>2, BoundsAssumption DEF JobId
  <2> QED
    BY <1>3, <2>1, <2>2, <2>3
<1> QED
  BY <1>5, <1>6, <1>7, <1>9, <1>10, <1>11

-----------------------------------------------------------------------------
(* The queue starts empty.                                                 *)
LEMMA InitHolds == Init => IInv
<1> SUFFICES ASSUME Init PROVE IInv
  OBVIOUS
<1> USE BoundsAssumption, ClientAssumption DEF Init
<1>1. TypeOK
  BY DEF TypeOK, RqStatus, MetaState, Place, Kind
<1>2. Locking /\ KnowsNewest
  BY DEF Locking, KnowsNewest
<1>3. JobsAgree
  BY DEF JobsAgree, JobAgrees, JobId
<1>4. Listed = {}
  BY DEF Listed
<1>5. ListedExist /\ DependsOnOlder /\ QueuedBehind /\ WaitsForLiveJob
  BY <1>4 DEF ListedExist, DependsOnOlder, QueuedBehind, Behind, WaitsForLiveJob
<1> QED
  BY <1>1, <1>2, <1>3, <1>5 DEF IInv

(* Every step of a request, of a worker and of RQ keeps the invariant.     *)
LEMMA NextKeeps == IInv /\ [Next]_vars => IInv'
<1> SUFFICES ASSUME IInv, [Next]_vars PROVE IInv'
  OBVIOUS
<1>1. CASE UNCHANGED vars
  <2>1. UNCHANGED <<jobVars, cancelKey, jobs>> /\ UNCHANGED <<lock, pc, want, prev>>
    BY <1>1 DEF vars, reqVars
  <2>2. TypeOK'
    BY <2>1 DEF IInv, TypeOK, jobVars
  <2>3. Locking' /\ KnowsNewest'
    BY <2>1 DEF IInv, Locking, KnowsNewest, Active, Running, Listed, jobVars
  <2> QED
    BY <2>1, <2>2, <2>3, RequestKeeps
<1>2. ASSUME NEW c \in Client,
             refresh_index(c) \/ download(c) \/ retry(c) \/ Request(c) \/ RequestDies(c)
      PROVE  IInv'
  BY <1>2, RoutesStep, LookStep, EnqueueStep, PushStep DEF Request
<1>3. ASSUME NEW j \in JobId,
             Work(j) \/ cancel(j) \/ CancelLapses(j) \/ WorkFails(j) \/ HorseDies(j)
      PROVE  IInv'
  BY <1>3, CancelStep, WorkStep, SettleStep DEF Work
<1> QED
  BY <1>1, <1>2, <1>3 DEF Next

(* Type correctness, and ltrim's bound on the list provider:jobs.          *)
THEOREM JobsTyped == Spec => []TypeOK
<1>1. IInv => TypeOK
  BY DEF IInv
<1> QED
  BY InitHolds, NextKeeps, <1>1, PTL DEF Spec

(* enqueue: of two running jobs of a kind, the older is off the list.  The *)
(* younger would have been deferred behind it.                             *)
THEOREM JobsAreSerial == Spec => []ListedAreSerial
<1>1. IInv => ListedAreSerial
  <2> SUFFICES ASSUME IInv, NEW i \in JobId, NEW j \in JobId, i < j, kind[i] = kind[j],
                      Running(i), Running(j), i \in Listed
               PROVE  FALSE
    BY DEF ListedAreSerial
  <2>1. j <= last
    BY DEF IInv, TypeOK, JobsAgree, JobAgrees, Running, JobId
  <2> QED
    BY <2>1 DEF IInv, QueuedBehind, Behind, Active, Running
<1> QED
  BY InitHolds, NextKeeps, <1>1, PTL DEF Spec

(* run, report: a job reported as cancelled has put nothing in place.      *)
THEOREM CancelledJobsLeaveNothing == Spec => []CancelledLeavesNothing
<1>1. IInv => CancelledLeavesNothing
  BY DEF IInv, TypeOK, RqStatus, JobsAgree, JobAgrees, CancelledLeavesNothing,
         status
<1> QED
  BY InitHolds, NextKeeps, <1>1, PTL DEF Spec

(* cancel, enqueue: a deferred job waits for an older job that is waiting  *)
(* or running.                                                             *)
THEOREM DeferredWaitForLive == Spec => []WaitsForLiveJob
<1>1. IInv => WaitsForLiveJob
  BY DEF IInv
<1> QED
  BY InitHolds, NextKeeps, <1>1, PTL DEF Spec

=============================================================================
