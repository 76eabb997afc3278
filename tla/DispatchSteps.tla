--------------------------- MODULE DispatchSteps ---------------------------
(***************************************************************************)
(* Every action of BrowserDispatch, as what it does to the jobs in memory  *)
(* and in jobs.json.  Every action but an enqueue moves each record        *)
(* lawfully; only four actions complete a dispatch.  The invariant         *)
(* Consistent follows: every record is sound, and memory agrees with the   *)
(* file.  The second part does the same for the worker registry.           *)
(***************************************************************************)
EXTENDS DispatchRecords

USE DEF PreOwned, PreStart, PostStart, Terminal, JobState, Lease

-----------------------------------------------------------------------------
(* Steps of the jobs. *)

Consistent ==
  /\ job \in [Job -> JobRecord] /\ disk \in [Job -> JobRecord]
  /\ \A d \in Job : Sound(job[d]) /\ Sound(disk[d])
  /\ MemoryMatchesDisk

\* What every step but an enqueue does.
CalmStep ==
  /\ job' \in [Job -> JobRecord] /\ disk' \in [Job -> JobRecord]
  /\ \A d \in Job : Calm(job[d], job'[d]) /\ Sound(disk'[d])
  /\ \A d \in Job : Durable(job'[d]) = Durable(disk'[d])

\* ... and what the steps that complete dispatches do.
LawfulStep ==
  /\ job' \in [Job -> JobRecord] /\ disk' \in [Job -> JobRecord]
  /\ \A d \in Job : Lawful(job[d], job'[d]) /\ Sound(disk'[d])
  /\ \A d \in Job : Durable(job'[d]) = Durable(disk'[d])

\* A step that completes nothing is a lawful one.
LEMMA CalmIsLawful == CalmStep => LawfulStep
  BY DEF CalmStep, LawfulStep, Calm

\* All jobs at once, committed or rolled back, some of them completed.
LEMMA AllLawful ==
  ASSUME Consistent, NEW nj, nj = [d \in Job |-> nj[d]],
         \A d \in Job : Lawful(job[d], nj[d]),
         NEW nw, Persist(nj, nw)
  PROVE  LawfulStep
<1>1. nj \in [Job -> JobRecord] /\ \A d \in Job : Sound(nj[d])
  BY Typing DEF Lawful, Sound
<1>2. CASE job' = nj /\ disk' = nj
  BY <1>1, <1>2 DEF LawfulStep, Lawful
<1>3. CASE job' = disk /\ disk' = disk
  BY <1>3, RollBackCalm DEF LawfulStep, Calm, Consistent, MemoryMatchesDisk
<1> QED  BY <1>2, <1>3 DEF Persist, Commit, RollBack

\* All jobs at once, committed or rolled back.
LEMMA AllStep ==
  ASSUME Consistent, NEW nj, nj = [d \in Job |-> nj[d]],
         \A d \in Job : Calm(job[d], nj[d]),
         NEW nw, Persist(nj, nw)
  PROVE  CalmStep
<1>1. nj \in [Job -> JobRecord] /\ \A d \in Job : Sound(nj[d])
  BY Typing DEF Calm, Lawful, Sound
<1>2. CASE job' = nj /\ disk' = nj
  BY <1>1, <1>2 DEF CalmStep, Calm, Lawful
<1>3. CASE job' = disk /\ disk' = disk
  BY <1>3, RollBackCalm DEF CalmStep, Consistent, MemoryMatchesDisk
<1> QED  BY <1>2, <1>3 DEF Persist, Commit, RollBack

\* PutJob changes one record and keeps the others.
LEMMA PutFunction ==
  ASSUME job \in [Job -> JobRecord], NEW d \in Job, NEW j
  PROVE  /\ PutJob(d, j) = [e \in Job |-> PutJob(d, j)[e]]
         /\ \A e \in Job : PutJob(d, j)[e] = IF e = d THEN j ELSE job[e]
  BY DEF PutJob

\* One job, committed or rolled back.
LEMMA PutStep ==
  ASSUME Consistent, NEW d \in Job, NEW j, Calm(job[d], j),
         NEW nw, Persist(PutJob(d, j), nw)
  PROVE  CalmStep
<1>1. PutJob(d, j) = [e \in Job |-> PutJob(d, j)[e]]
  BY PutFunction DEF Consistent
<1>2. \A e \in Job : Calm(job[e], PutJob(d, j)[e])
  BY PutFunction, SameCalm DEF Consistent
<1> QED  BY <1>1, <1>2, AllStep

\* A change in memory only, of what a commit does not order.
LEMMA MemoryStep ==
  ASSUME Consistent, NEW nj, nj = [d \in Job |-> nj[d]],
         \A d \in Job : Calm(job[d], nj[d]) /\ Frame(job[d], nj[d], {"left", "age", "bound"}),
         NEW nw, InMemory(nj, nw)
  PROVE  CalmStep
<1>1. job' = nj /\ disk' = disk
  BY DEF InMemory
<1>2. nj \in [Job -> JobRecord] /\ \A d \in Job : Sound(nj[d])
  BY Typing DEF Calm, Lawful, Sound
<1>3. \A d \in Job : Durable(job[d]) = Durable(nj[d])
  BY <1>2, DurableFrame DEF Consistent, Sound
<1> QED  BY <1>1, <1>2, <1>3 DEF CalmStep, Consistent, MemoryMatchesDisk

\* A change of one record in memory only.
LEMMA MemoryPutStep ==
  ASSUME Consistent, NEW d \in Job, NEW j, Calm(job[d], j),
         Frame(job[d], j, {"left", "age", "bound"}),
         NEW nw, InMemory(PutJob(d, j), nw)
  PROVE  CalmStep
<1>1. PutJob(d, j) = [e \in Job |-> PutJob(d, j)[e]]
  BY PutFunction DEF Consistent
<1>2. \A e \in Job : Calm(job[e], PutJob(d, j)[e])
  BY PutFunction, SameCalm DEF Consistent
<1>3. \A e \in Job : Frame(job[e], PutJob(d, j)[e], {"left", "age", "bound"})
  BY PutFunction DEF Consistent, Frame
<1> QED  BY <1>1, <1>2, <1>3, MemoryStep

\* A step that leaves the jobs alone.
LEMMA NoJobStep ==
  ASSUME Consistent, job' = job, disk' = disk
  PROVE  CalmStep
  BY SameCalm DEF CalmStep, Consistent, MemoryMatchesDisk

\* A change of the registry in memory only.
LEMMA NoRecordStep ==
  ASSUME Consistent, NEW nw, InMemory(job, nw)
  PROVE  CalmStep
  BY NoJobStep DEF InMemory

\* The line.
LEMMA ClaimStep ==
  ASSUME Consistent, NEW w \in Worker, NEW d \in Job, ClaimJob(w, d)
  PROVE  CalmStep
<1>1. PICK nw : Persist(PutJob(d, [job[d] EXCEPT !.state = "LEASED", !.owner = w,
                   !.lease = job[d].claims + 1, !.claims = @ + 1,
                   !.left = LeaseTicks, !.age = 0]), nw)
  BY DEF ClaimJob
<1>2. Sound(job[d]) /\ job[d].state \in {"QUEUED", "RETRYABLE"} /\ job[d].claims < MaxClaims
  BY DEF Consistent, ClaimJob, Eligible
<1>3. Calm(job[d], [job[d] EXCEPT !.state = "LEASED", !.owner = w,
                   !.lease = job[d].claims + 1, !.claims = @ + 1,
                   !.left = LeaseTicks, !.age = 0])
  BY <1>2, ClaimCalm
<1> QED  BY <1>1, <1>3, PutStep

\* The registry.
LEMMA RenewLeaseStep ==
  ASSUME Consistent, NEW w, NEW d \in Job, NEW l, RenewLease(w, d, l)
  PROVE  CalmStep
<1>1. PICK nw : InMemory(PutJob(d, Renewed(job[d])), nw)
  BY DEF RenewLease
<1>2. Sound(job[d])
  BY DEF Consistent
<1>3. Calm(job[d], Renewed(job[d]))
  BY <1>2, RenewCalm
<1>4. Frame(job[d], Renewed(job[d]), {"left", "age", "bound"})
  BY <1>2 DEF Sound, Whole, Frame, Field, Renewed
<1> QED  BY <1>1, <1>3, <1>4, MemoryPutStep

\* reconcile_job.
LEMMA ReconcileStep ==
  ASSUME Consistent, NEW w \in Worker, NEW d \in Job, NEW l \in 1..MaxClaims, NEW rc,
         ReconcileJob(w, d, l, rc)
  PROVE  CalmStep
<1>1. PICK nw : Persist(PutJob(d, Renewed([job[d] EXCEPT !.state = job[d].recovery])), nw)
  BY DEF ReconcileJob
<1>2. /\ Sound(job[d]) /\ Recovering(job[d])
      /\ job[d].owner \in Worker /\ job[d].lease # 0
  BY DEF Consistent, ReconcileJob
<1>3. Calm(job[d], Renewed([job[d] EXCEPT !.state = job[d].recovery]))
  BY <1>2, ReconcileCalm
<1> QED  BY <1>1, <1>3, PutStep

\* renew_owner_lease.
LEMMA RenewOwnerStep ==
  ASSUME Consistent, NEW w, NEW declared, RenewOwnerLease(w, declared)
  PROVE  CalmStep
<1>1. PICK d \in Job : InMemory(PutJob(d, [job[d] EXCEPT !.left = LeaseTicks]), worker)
  BY DEF RenewOwnerLease
<1>2. Sound(job[d])
  BY DEF Consistent
<1>3. Calm(job[d], [job[d] EXCEPT !.left = LeaseTicks])
  BY <1>2, LeftCalm
<1>4. PICK k : k = [job[d] EXCEPT !.left = LeaseTicks]
  OBVIOUS
<1>5. Frame(job[d], k, {"left", "age", "bound"})
  BY <1>2, <1>4 DEF Sound, Whole, Frame, Field
<1> QED  BY <1>1, <1>3, <1>4, <1>5, MemoryPutStep

\* The reports.
LEMMA AcknowledgeStep ==
  ASSUME Consistent, NEW d \in Job, NEW w, NEW l, NEW b \in BOOLEAN,
         NEW rc \in Token \cup {NoToken}, Acknowledge(d, w, l, b, rc)
  PROVE  CalmStep
<1> DEFINE to == job[d].state
           j == IF to \in Terminal \cup {"BLOCKED"}
                  THEN [Bind(job[d], b, rc) EXCEPT !.age = 0]
                  ELSE Renewed(Bind(job[d], b, rc))
<1>1. Persist(PutJob(d, j), worker)
  BY DEF Acknowledge
<1>2. Sound(job[d])
  BY DEF Consistent
<1>3. rc \in {NoToken, job[d].receipt}
  <2>1. <<b, rc>> \in Payload(to) /\ Agrees(job[d], rc)
    BY DEF Acknowledge
  <2>2. CASE to = "START_PREPARED"
    BY <1>2, <2>1, <2>2 DEF Sound, Fenced, Agrees
  <2>3. CASE to # "START_PREPARED"
    BY <2>1, <2>3 DEF Payload
  <2> QED  BY <2>2, <2>3
<1>4. Calm(job[d], j)
  <2>1. CASE to \in Terminal \cup {"BLOCKED"}
    BY <1>2, <1>3, <2>1, AckCalm
  <2>2. CASE to \notin Terminal \cup {"BLOCKED"}
    BY <1>2, <1>3, <2>2, AckRenewCalm
  <2> QED  BY <2>1, <2>2
<1> QED  BY <1>1, <1>4, PutStep

\* transition_job, START_PREPARED reported after the dispatch moved on.
LEMMA ReassertStep ==
  ASSUME Consistent, NEW d \in Job, NEW w, NEW l, NEW b \in BOOLEAN, NEW rc,
         ReassertStart(d, w, l, b, rc)
  PROVE  CalmStep
<1>1. Persist(PutJob(d, Renewed(Bind(job[d], b, rc))), worker) /\ rc = job[d].receipt
  BY DEF ReassertStart
<1>2. Calm(job[d], Renewed(Bind(job[d], b, rc)))
  BY <1>1, AckRenewCalm DEF Consistent
<1> QED  BY <1>1, <1>2, PutStep

\* transition_job, a forward move.
LEMMA AdvanceStep ==
  ASSUME Consistent, NEW d \in Job, NEW w \in Worker, NEW l, NEW to, NEW b, NEW rc,
         Advance(d, w, l, to, b, rc)
  PROVE  CalmStep
<1> DEFINE k == Renewed([Bind(job[d], b, rc) EXCEPT !.state = to])
<1>1. PICK nw : Persist(PutJob(d, k), nw)
  BY DEF Advance
<1>2. /\ Sound(job[d]) /\ job[d].owner \in Worker
      /\ to \in PreOwned \cup PostStart /\ to \in Successors[job[d].state]
      /\ <<b, rc>> \in Payload(to) /\ Agrees(job[d], rc)
      /\ to = "START_PREPARED" => Bind(job[d], b, rc).receipt # NoToken
  BY DEF Consistent, Advance, Owns
<1>3. Calm(job[d], k)
  BY <1>2, AdvanceCalm
<1> QED  BY <1>1, <1>3, PutStep

\* transition_job, a START refused for its receipt.
LEMMA RefuseStep ==
  ASSUME Consistent, NEW d \in Job, NEW w, NEW l, NEW rc, RefuseStart(d, w, l, rc)
  PROVE  CalmStep
<1>1. InMemory(PutJob(d, [job[d] EXCEPT !.bound = TRUE]), worker)
  BY DEF RefuseStart
<1>2. Sound(job[d])
  BY DEF Consistent
<1>3. Calm(job[d], [job[d] EXCEPT !.bound = TRUE])
  BY <1>2, BoundCalm
<1>4. PICK k : k = [job[d] EXCEPT !.bound = TRUE]
  OBVIOUS
<1>5. Frame(job[d], k, {"left", "age", "bound"})
  BY <1>2, <1>4 DEF Sound, Whole, Frame, Field
<1> QED  BY <1>1, <1>3, <1>4, <1>5, MemoryPutStep

\* transition_job, COMPLETE: closed, or held at FINALIZING.
LEMMA ReportCompleteStep ==
  ASSUME Consistent, NEW d \in Job, NEW w, NEW l, NEW confirmed,
         ReportComplete(d, w, l, confirmed)
  PROVE  LawfulStep
<1>1. Sound(job[d]) /\ job[d].state \in PostStart
  <2>1. Sound(job[d]) /\ job[d].state \in JobState
    BY DEF Consistent, Sound, Typed, Names
  <2>2. "COMPLETE" \in Successors[job[d].state]
    BY DEF ReportComplete
  <2> QED  BY <2>1, <2>2, Reachable
<1>2. Lawful(job[d], Completed(job[d]))
  BY <1>1, CompleteLawful DEF Sound, Fenced
<1>3. Calm(job[d], [job[d] EXCEPT !.state = "FINALIZING", !.age = 0])
  BY <1>1, HoldCalm
<1>4. PICK nw : \/ Persist(PutJob(d, Completed(job[d])), nw)
                \/ Persist(PutJob(d, [job[d] EXCEPT !.state = "FINALIZING", !.age = 0]), nw)
  BY DEF ReportComplete
<1>5. CASE \E after : Persist(PutJob(d, Completed(job[d])), after)
  <2>1. PutJob(d, Completed(job[d])) = [e \in Job |-> PutJob(d, Completed(job[d]))[e]]
    BY PutFunction DEF Consistent
  <2>2. \A e \in Job : Lawful(job[e], PutJob(d, Completed(job[d]))[e])
    BY <1>2, PutFunction, SameCalm DEF Consistent, Calm
  <2> QED  BY <1>5, <2>1, <2>2, AllLawful
<1> QED  BY <1>3, <1>4, <1>5, PutStep, CalmIsLawful

\* transition_job, BLOCKED, FAILED and CANCELLED.
LEMMA ReportStoppedStep ==
  ASSUME Consistent, NEW d \in Job, NEW w \in Worker, NEW l, NEW to, ReportStopped(d, w, l, to)
  PROVE  CalmStep
<1>1. /\ Sound(job[d]) /\ job[d].state \in JobState /\ job[d].owner = w
      /\ to \in WireStates /\ to \in {"BLOCKED", "FAILED", "CANCELLED"}
      /\ to \in Successors[job[d].state]
  BY DEF Consistent, Sound, Typed, Names, ReportStopped, Owns
<1>2. PICK nw : Persist(PutJob(d, IF to = "BLOCKED" THEN [job[d] EXCEPT !.state = to, !.age = 0]
                                                    ELSE Ended(job[d], to)), nw)
  BY DEF ReportStopped
<1>3. CASE to = "BLOCKED"
  <2>1. job[d].state \in {"BLOCKED"} \cup PreOwned \cup PostStart
    BY <1>1, <1>3, Reachable, NoneAssumption DEF Sound, Held
  <2>2. Calm(job[d], [job[d] EXCEPT !.state = "BLOCKED", !.age = 0])
    BY <1>1, <2>1, BlockCalm
  <2> QED  BY <1>2, <1>3, <2>2, PutStep
<1>4. CASE to # "BLOCKED"
  <2>1. /\ job[d].state \notin {"NONE"} \cup Terminal
        /\ to = "FAILED" => job[d].state \in {"BLOCKED"} \cup PreOwned \cup PostStart
    BY <1>1, Reachable
  <2>2. Calm(job[d], Ended(job[d], to))
    BY <1>1, <1>4, <2>1, EndCalm
  <2> QED  BY <1>2, <1>4, <2>2, PutStep
<1> QED  BY <1>3, <1>4

\* transition_job, RETRYABLE: waiting, or blocked when retries ran out.
LEMMA ReportRetryableStep ==
  ASSUME Consistent, NEW d \in Job, NEW w, NEW l, ReportRetryable(d, w, l)
  PROVE  CalmStep
<1>1. Sound(job[d]) /\ job[d].state \in PreOwned
  <2>1. Sound(job[d]) /\ job[d].state \in JobState
    BY DEF Consistent, Sound, Typed, Names
  <2>2. "RETRYABLE" \in Successors[job[d].state]
    BY DEF ReportRetryable
  <2> QED  BY <2>1, <2>2, Reachable
<1>2. PICK nw :
        Persist(PutJob(d, IF job[d].retries >= MaxRetries
                            THEN Released([job[d] EXCEPT !.state = "BLOCKED", !.retries = @ + 1])
                            ELSE Released([job[d] EXCEPT !.state = "RETRYABLE",
                                             !.retries = @ + 1, !.waiting = TRUE])), nw)
  BY DEF ReportRetryable
<1>3. CASE job[d].retries >= MaxRetries
  <2>1. Calm(job[d], Released([job[d] EXCEPT !.state = "BLOCKED", !.retries = @ + 1]))
    BY <1>1, ExhaustCalm
  <2> QED  BY <1>2, <1>3, <2>1, PutStep
<1>4. CASE ~(job[d].retries >= MaxRetries)
  <2>1. Calm(job[d], Released([job[d] EXCEPT !.state = "RETRYABLE",
                                 !.retries = @ + 1, !.waiting = TRUE]))
    BY <1>1, <1>4, RetryCalm
  <2> QED  BY <1>2, <1>4, <2>1, PutStep
<1> QED  BY <1>3, <1>4

\* transition_job, RETRYABLE to QUEUED.
LEMMA RequeueStep ==
  ASSUME Consistent, NEW d \in Job, NEW w, RequeueRetryable(d, w)
  PROVE  CalmStep
<1>1. PICK nw : Persist(PutJob(d, Released([job[d] EXCEPT !.state = "QUEUED"])), nw)
  BY DEF RequeueRetryable
<1>2. Sound(job[d]) /\ job[d].state \in PreStart
  BY DEF Consistent, RequeueRetryable
<1>3. Calm(job[d], Released([job[d] EXCEPT !.state = "QUEUED"]))
  BY <1>2, RequeueCalm
<1> QED  BY <1>1, <1>3, PutStep

\* transition_job as a whole.
LEMMA ReportStep ==
  ASSUME Consistent, NEW d \in Job, NEW w \in Worker, NEW l, Report(d, w, l)
  PROVE  CalmStep \/ \E confirmed \in BOOLEAN : ReportComplete(d, w, l, confirmed)
  BY AdvanceStep, AcknowledgeStep, ReassertStep, RefuseStep, ReportStoppedStep,
     ReportRetryableStep, RequeueStep DEF Report

\* The operator.
LEMMA AbandonStep ==
  ASSUME Consistent, NEW d \in Job, AbandonJob(d)
  PROVE  CalmStep
<1>1. PICK nw : Persist(PutJob(d, Released([job[d] EXCEPT !.state = "FAILED"])), nw)
  BY DEF AbandonJob
<1>2. Sound(job[d]) /\ job[d].state \in {"BLOCKED"} \cup PostStart
  BY DEF Consistent, AbandonJob
<1>3. Calm(job[d], Released([job[d] EXCEPT !.state = "FAILED"]))
  BY <1>2, AbandonCalm
<1> QED  BY <1>1, <1>3, PutStep

\* cancel_job.
LEMMA CancelStep ==
  ASSUME Consistent, NEW d \in Job, CancelJob(d)
  PROVE  CalmStep
<1>1. Persist(PutJob(d, Ended(job[d], "CANCELLED")), worker)
  BY DEF CancelJob
<1>2. /\ Sound(job[d]) /\ job[d].state \notin {"NONE"} \cup Terminal
      /\ job[d].receipt = NoToken
  BY DEF Consistent, CancelJob, SafePrestartCancel, Sound, Fenced
<1>3. Calm(job[d], Ended(job[d], "CANCELLED"))
  BY <1>2, EndCalm
<1> QED  BY <1>1, <1>3, PutStep

\* The passes.
LEMMA SweptCalm ==
  ASSUME Consistent, NEW d \in Job
  PROVE  Calm(job[d], Swept(job[d]))
<1> DEFINE j == job[d]
<1>1. Sound(j)
  BY DEF Consistent
<1>2. CASE Stranded(j)
  <2>1. Calm(j, Released([j EXCEPT !.state = "QUEUED"]))
    BY <1>1, <1>2, RequeueCalm DEF Stranded
  <2> QED  BY <1>2, <2>1 DEF Swept, Stranded, Overdue
<1>3. CASE Overdue(j) /\ ~Present(j)
  <2>1. Calm(j, [j EXCEPT !.recovery = j.state, !.state = "BLOCKED", !.age = 0])
    BY <1>1, <1>3, LostCalm DEF Overdue
  <2> QED  BY <1>3, <2>1 DEF Swept, Stranded, Overdue
<1>4. CASE Overdue(j) /\ Present(j)
  <2>1. Calm(j, [j EXCEPT !.left = LeaseTicks])
    BY <1>1, LeftCalm
  <2> QED  BY <1>4, <2>1 DEF Swept, Stranded, Overdue
<1>5. CASE ~Stranded(j) /\ ~Overdue(j)
  <2>1. Calm(j, j)
    BY <1>1, SameCalm
  <2> QED  BY <1>5, <2>1 DEF Swept
<1> QED  BY <1>2, <1>3, <1>4, <1>5

\* expire_leases.
LEMMA ExpireLeasesStep ==
  ASSUME Consistent, ExpireLeases
  PROVE  CalmStep
<1> DEFINE nj == [d \in Job |-> Swept(job[d])]
<1>1. \A d \in Job : Calm(job[d], nj[d])
  BY SweptCalm
<1>2. CASE Persist(nj, worker)
  <2> HIDE DEF nj
  <2>1. nj = [d \in Job |-> nj[d]]
    BY DEF nj
  <2> QED  BY <1>1, <1>2, <2>1, AllStep
<1>3. CASE /\ ~\E d \in Job : Stranded(job[d]) \/ (Overdue(job[d]) /\ ~Present(job[d]))
           /\ InMemory(nj, worker)
  <2>1. ASSUME NEW d \in Job PROVE Frame(job[d], nj[d], {"left", "age", "bound"})
    <3>1. Whole(job[d])
      BY DEF Consistent, Sound
    <3>2. CASE Overdue(job[d])
      <4>1. PICK k : k = [job[d] EXCEPT !.left = LeaseTicks]
        OBVIOUS
      <4>2. nj[d] = k
        BY <1>3, <3>2, <4>1 DEF Swept
      <4>3. Frame(job[d], k, {"left", "age", "bound"})
        BY <3>1, <4>1 DEF Whole, Frame, Field
      <4> QED  BY <4>2, <4>3
    <3>3. CASE ~Overdue(job[d])
      <4>1. nj[d] = job[d]
        BY <1>3, <3>3 DEF Swept
      <4> QED  BY <4>1 DEF Frame
    <3> QED  BY <3>2, <3>3
  <2>2. nj = [d \in Job |-> nj[d]]
    OBVIOUS
  <2> HIDE DEF nj
  <2> QED  BY <1>1, <1>3, <2>1, <2>2, MemoryStep
<1> QED  BY <1>2, <1>3 DEF ExpireLeases

\* reconcile_abandoned_runs.
LEMMA ReconcileAbandonedStep ==
  ASSUME Consistent, ReconcileAbandonedRuns
  PROVE  CalmStep
<1> DEFINE nj == [d \in Job |-> Disowned(job[d])]
<1>1. ASSUME NEW d \in Job PROVE Calm(job[d], Disowned(job[d]))
  <2>1. Sound(job[d])
    BY DEF Consistent
  <2>2. CASE Contradicted(job[d])
    BY <2>1, <2>2, ContradictCalm DEF Contradicted, Disowned
  <2>3. CASE ~Contradicted(job[d])
    BY <2>1, <2>3, SameCalm DEF Disowned
  <2> QED  BY <2>2, <2>3
<1>2. Persist(nj, worker) /\ nj = [d \in Job |-> nj[d]] /\ \A d \in Job : Calm(job[d], nj[d])
  BY <1>1 DEF ReconcileAbandonedRuns
<1> HIDE DEF nj
<1> QED  BY <1>2, AllStep

\* expire_unrecoverable_runs.
LEMMA ExpireUnrecoverableStep ==
  ASSUME Consistent, ExpireUnrecoverableRuns
  PROVE  CalmStep
<1> DEFINE nj == [d \in Job |-> GivenUp(job[d])]
<1>1. ASSUME NEW d \in Job PROVE Calm(job[d], GivenUp(job[d]))
  <2>1. Sound(job[d])
    BY DEF Consistent
  <2>2. CASE Unrecoverable(job[d])
    BY <2>1, <2>2, GiveUpCalm DEF Unrecoverable, GivenUp
  <2>3. CASE ~Unrecoverable(job[d])
    BY <2>1, <2>3, SameCalm DEF GivenUp
  <2> QED  BY <2>2, <2>3
<1>2. Persist(nj, worker) /\ nj = [d \in Job |-> nj[d]] /\ \A d \in Job : Calm(job[d], nj[d])
  BY <1>1 DEF ExpireUnrecoverableRuns
<1> HIDE DEF nj
<1> QED  BY <1>2, AllStep

\* Completion closes runs past START only.
LEMMA CompleteStep ==
  ASSUME Consistent, NEW ds, \A d \in ds : d \in Job /\ InFlight(job[d]),
         NEW nw, Persist(Complete(ds), nw)
  PROVE  LawfulStep
<1>1. ASSUME NEW d \in Job PROVE Lawful(job[d], Complete(ds)[d])
  <2>1. Sound(job[d])
    BY DEF Consistent
  <2>2. CASE d \in ds
    <3>1. job[d].receipt # NoToken /\ job[d].state \notin Terminal
      BY <2>1, <2>2 DEF Sound, Fenced, InFlight, Recovering
    <3>2. Lawful(job[d], Completed(job[d]))
      BY <2>1, <3>1, CompleteLawful
    <3> QED  BY <2>2, <3>2 DEF Complete
  <2>3. CASE d \notin ds
    BY <2>1, <2>3, SameCalm DEF Complete, Calm
  <2> QED  BY <2>2, <2>3
<1>2. Complete(ds) = [d \in Job |-> Complete(ds)[d]]
  BY DEF Complete
<1> QED  BY <1>1, <1>2, AllLawful

\* complete_for_run, called by the ingestion.
LEMMA CompleteForRunStep ==
  ASSUME Consistent, NEW p \in Project, CompleteForRun(p)
  PROVE  LawfulStep
<1> DEFINE ds == {d \in Job : /\ d = handoff[p].by
                              /\ \/ job[d].state \in {"AUDITING", "FINALIZING"}
                                 \/ Recovering(job[d])}
<1>1. \A d \in ds : d \in Job /\ InFlight(job[d])
  BY DEF InFlight
<1>2. CASE Persist(Complete(ds), FreeOwners(ds))
  <2> HIDE DEF ds
  <2> QED  BY <1>1, <1>2, CompleteStep
<1>3. CASE UNCHANGED <<job, disk, worker, saved>>
  BY <1>3, NoJobStep, CalmIsLawful
<1>4. CASE RollBack(FreeOwners(ds))
  BY <1>2, <1>4 DEF Persist
<1> QED  BY <1>2, <1>3, <1>4 DEF CompleteForRun, Persist

\* complete_runs_for_project, called by the ingestion.
LEMMA CompleteRunsStep ==
  ASSUME Consistent, NEW p \in Project, CompleteRunsForProject(p)
  PROVE  LawfulStep
<1>1. \A d \in Closable(p, MaxJobs) : d \in Job /\ InFlight(job[d])
  BY DEF Closable
<1>2. CASE Persist(Complete(Closable(p, MaxJobs)), FreeOwners(Closable(p, MaxJobs)))
  BY <1>1, <1>2, CompleteStep
<1>3. CASE UNCHANGED <<job, disk, worker, saved>>
  BY <1>3, NoJobStep, CalmIsLawful
<1> QED  BY <1>2, <1>3 DEF CompleteRunsForProject

\* reconcile_finished_campaigns, called by the supervisor.
LEMMA ReconcileFinishedStep ==
  ASSUME Consistent, NEW p \in Project, ReconcileFinishedCampaigns(p)
  PROVE  LawfulStep
<1>1. PICK at \in 0..handoff[p].at : CompleteOnVerdict(p, at)
  BY DEF ReconcileFinishedCampaigns
<1>2. \A d \in Closable(p, at) : d \in Job /\ InFlight(job[d])
  BY DEF Closable
<1> QED  BY <1>1, <1>2, CompleteStep DEF CompleteOnVerdict

\* Restart and time.
LEMMA RestartStep ==
  ASSUME Consistent, Restart
  PROVE  CalmStep
<1>1. ASSUME NEW d \in Job PROVE Calm(job[d], Loaded(disk[d]))
  <2>1. Sound(job[d]) /\ Sound(disk[d]) /\ Durable(job[d]) = Durable(disk[d])
    BY DEF Consistent, MemoryMatchesDisk
  <2>2. Frame(job[d], disk[d], {"left", "age", "bound"})
    BY <2>1, DurableFrame DEF Sound
  <2>3. Calm(disk[d], Loaded(disk[d]))
    BY <2>1, LoadedCalm
  <2> QED  BY <2>2, <2>3 DEF Calm, Lawful, Kept, Moved, Frame, Field
<1> DEFINE nj == [d \in Job |-> Loaded(disk[d])]
<1>2. nj = [d \in Job |-> nj[d]] /\ \A d \in Job : Calm(job[d], nj[d])
  BY <1>1
<1>3. PICK nw : Persist(nj, nw)
  BY DEF Restart, Persist
<1> HIDE DEF nj
<1> QED  BY <1>2, <1>3, AllStep

\* Time passes for memory and file alike.
LEMMA TickStep ==
  ASSUME Consistent, Tick
  PROVE  CalmStep
<1>1. /\ job' = [d \in Job |-> Older(job[d])]
      /\ disk' = [d \in Job |-> Older(disk[d])]
  BY DEF Tick
<1>2. \A d \in Job : Calm(job[d], Older(job[d])) /\ Calm(disk[d], Older(disk[d]))
  BY OlderCalm DEF Consistent
<1>3. ASSUME NEW d \in Job PROVE Durable(Older(job[d])) = Durable(Older(disk[d]))
  <2>1. PICK j, k : j = Older(job[d]) /\ k = Older(disk[d])
    OBVIOUS
  <2>2. Whole(job[d]) /\ Whole(disk[d]) /\ Whole(j) /\ Whole(k)
    BY <1>2, <2>1 DEF Consistent, Sound, Calm, Lawful
  <2>3. Frame(job[d], disk[d], {"left", "age", "bound"})
    BY <2>2, DurableFrame DEF Consistent, MemoryMatchesDisk
  <2>4. Frame(job[d], j, {"left", "age", "waiting"}) /\ j.waiting = FALSE
    BY <2>1, <2>2 DEF Whole, Frame, Field, Older
  <2>5. Frame(disk[d], k, {"left", "age", "waiting"}) /\ k.waiting = FALSE
    BY <2>1, <2>2 DEF Whole, Frame, Field, Older
  <2>6. Frame(j, k, {"left", "age", "bound"})
    BY <2>3, <2>4, <2>5 DEF Frame, Field
  <2> QED  BY <2>1, <2>2, <2>6, DurableFrame
<1>4. job' \in [Job -> JobRecord] /\ disk' \in [Job -> JobRecord]
  BY <1>1, <1>2, Typing DEF Calm, Lawful, Sound
<1> QED  BY <1>1, <1>2, <1>3, <1>4 DEF CalmStep, Calm, Lawful

-----------------------------------------------------------------------------
(* The jobs keep their invariant. *)

\* An enqueue that is committed.
OpenStep(p, d) ==
  /\ job[d].state = "NONE"
  /\ \A e \in Job : job[e].project = p => ~Open(job[e])
  /\ job' = PutJob(d, Queued(p)) /\ disk' = job'

\* The four sections that complete dispatches.
Completing ==
  \/ \E p \in Project :
       CompleteForRun(p) \/ CompleteRunsForProject(p) \/ ReconcileFinishedCampaigns(p)
  \/ \E d \in Job, w \in Worker, l \in 1..MaxClaims, confirmed \in BOOLEAN :
       ReportComplete(d, w, l, confirmed)

\* enqueue_job: the only section that creates a record.
LEMMA EnqueueStep ==
  ASSUME Consistent, NEW p \in Project, NEW d \in Job, EnqueueJob(p, d)
  PROVE  CalmStep \/ OpenStep(p, d)
<1>1. Persist(PutJob(d, Queued(p)), worker) /\ job[d].state = "NONE"
      /\ \A e \in Job : job[e].project = p => ~Open(job[e])
  BY DEF EnqueueJob, Fresh
<1>2. CASE job' = PutJob(d, Queued(p)) /\ disk' = PutJob(d, Queued(p))
  BY <1>1, <1>2 DEF OpenStep
<1>3. CASE job' = disk /\ disk' = disk
  BY <1>3, RollBackCalm DEF CalmStep, Consistent, MemoryMatchesDisk
<1> QED  BY <1>1, <1>2, <1>3 DEF Persist, Commit, RollBack

\* Every step of the specification is one of three kinds.
LEMMA StepKinds ==
  ASSUME Consistent, [Next]_vars
  PROVE  \/ CalmStep
         \/ LawfulStep /\ Completing
         \/ \E p \in Project, d \in Job : OpenStep(p, d) /\ UNCHANGED external
<1>1. ASSUME NEW p \in Project, NEW d \in Job, EnqueueJob(p, d)
      PROVE  CalmStep \/ (OpenStep(p, d) /\ UNCHANGED external)
  BY <1>1, EnqueueStep DEF EnqueueJob
<1>2. ASSUME NEW p \in Project, NEW d \in Job, WriteHandoff(p, d)
      PROVE  CalmStep
  BY <1>2, NoJobStep DEF WriteHandoff
<1>3. ASSUME NEW p \in Project,
             CompleteForRun(p) \/ CompleteRunsForProject(p) \/ ReconcileFinishedCampaigns(p)
      PROVE  LawfulStep /\ Completing
  BY <1>3, CompleteForRunStep, CompleteRunsStep, ReconcileFinishedStep DEF Completing
<1>4. ASSUME NEW w \in Worker, RegisterWorker(w) \/ GoOffline(w) \/ ClaimNothing(w)
      PROVE  CalmStep
  BY <1>4, NoRecordStep DEF RegisterWorker, GoOffline, ClaimNothing
<1>5. ASSUME NEW w \in Worker, NEW d \in Job, ClaimJob(w, d) \/ RenewOwnerLease(w, d)
      PROVE  CalmStep
  BY <1>5, ClaimStep, RenewOwnerStep
<1>6. ASSUME NEW w \in Worker, NEW d \in Job, NEW l \in 1..MaxClaims, RenewLease(w, d, l)
      PROVE  CalmStep
  BY <1>6, RenewLeaseStep
<1>7. ASSUME NEW w \in Worker, NEW d \in Job, NEW l \in 1..MaxClaims,
             NEW rc, ReconcileJob(w, d, l, rc)
      PROVE  CalmStep
  BY <1>7, ReconcileStep
<1>8. ASSUME NEW w \in Worker, NEW d \in Job, NEW l \in 1..MaxClaims, Report(d, w, l)
      PROVE  CalmStep \/ (LawfulStep /\ Completing)
  BY <1>8, ReportStep, ReportCompleteStep DEF Completing
<1>9. ASSUME NEW d \in Job, AbandonJob(d) \/ CancelJob(d)
      PROVE  CalmStep
  BY <1>9, AbandonStep, CancelStep
<1>10. CASE ExpireWorkers
  BY <1>10, NoRecordStep DEF ExpireWorkers
<1>11. CASE ExpireLeases \/ ReconcileAbandonedRuns \/ ExpireUnrecoverableRuns
  BY <1>11, ExpireLeasesStep, ReconcileAbandonedStep, ExpireUnrecoverableStep
<1>12. CASE Restart \/ Tick
  BY <1>12, RestartStep, TickStep
<1>13. CASE UNCHANGED vars
  BY <1>13, NoJobStep DEF vars
<1> QED
  BY <1>1, <1>2, <1>3, <1>4, <1>5, <1>6, <1>7, <1>8, <1>9, <1>10, <1>11, <1>12, <1>13
  DEF Next

\* An enqueue touches one record, which no window and no receipt has seen.
LEMMA OpenFrame ==
  ASSUME Consistent, NEW p \in Project, NEW d \in Job, OpenStep(p, d)
  PROVE  /\ job[d].receipt = NoToken /\ job[d].state = "NONE"
         /\ job'[d].state = "QUEUED" /\ job'[d].project = p
         /\ \A e \in Job \ {d} : job'[e] = job[e] /\ (Open(job[e]) => job[e].project # p)
<1>1. job[d].receipt = NoToken /\ job[d].state = "NONE"
  BY DEF OpenStep, Consistent, Sound, Fenced
<1>2. job'[d] = Queued(p) /\ \A e \in Job \ {d} : job'[e] = job[e]
  BY PutFunction DEF OpenStep, Consistent
<1>3. job'[d].state = "QUEUED" /\ job'[d].project = p
  BY <1>2, QueuedSound
<1> QED  BY <1>1, <1>2, <1>3 DEF OpenStep

\* The empty board is consistent.
LEMMA InitConsistent == Init => Consistent
<1> SUFFICES ASSUME Init PROVE Consistent
  OBVIOUS
<1>1. job = [d \in Job |-> NewJob] /\ disk = job
  BY DEF Init
<1>2. Sound(NewJob) /\ NewJob \in JobRecord
  BY NewSound, Typing DEF Sound
<1> QED  BY <1>1, <1>2 DEF Consistent, MemoryMatchesDisk

\* Every step keeps the board consistent.
LEMMA StepConsistent ==
  ASSUME Consistent, [Next]_vars
  PROVE  Consistent'
<1>1. CASE LawfulStep
  BY <1>1 DEF LawfulStep, Lawful, Consistent, MemoryMatchesDisk
<1>2. CASE \E p \in Project, d \in Job : OpenStep(p, d)
  <2>1. PICK p \in Project, d \in Job : OpenStep(p, d)
    BY <1>2
  <2>2. Sound(Queued(p)) /\ Queued(p) \in JobRecord
    BY QueuedSound, Typing DEF Sound
  <2>3. \A e \in Job : job'[e] = IF e = d THEN Queued(p) ELSE job[e]
    BY <2>1, PutFunction DEF OpenStep, Consistent
  <2>4. job' \in [Job -> JobRecord]
    BY <2>1, <2>2 DEF OpenStep, PutJob, Consistent
  <2> QED  BY <2>1, <2>2, <2>3, <2>4 DEF OpenStep, Consistent, MemoryMatchesDisk
<1> QED  BY <1>1, <1>2, StepKinds, CalmIsLawful

\* Every record, in memory and in jobs.json, is sound, and the two agree.
THEOREM Consistency == Spec => []Consistent
<1>1. Init => Consistent
  BY InitConsistent
<1>2. Consistent /\ [Next]_vars => Consistent'
  BY StepConsistent
<1> QED  BY <1>1, <1>2, PTL DEF Spec

-----------------------------------------------------------------------------
(* Every action, as what it does to the worker registry. *)

SavedRecord == [up: BOOLEAN, open: BOOLEAN, busy: BOOLEAN]

WorkersTyped == worker \in [Worker -> WorkerRecord] /\ saved \in [Worker -> SavedRecord]

WorkersStep == worker' \in [Worker -> WorkerRecord] /\ saved' \in [Worker -> SavedRecord]

\* A record of the registry stays one when its state and run change,
LEMMA WorkerUpdate ==
  ASSUME NEW r \in WorkerRecord, NEW a \in BOOLEAN, NEW b \in BOOLEAN
  PROVE  [r EXCEPT !.open = a, !.busy = b] \in WorkerRecord
<1>1. PICK q \in WorkerRecord : q = [r EXCEPT !.open = a]
  BY DEF WorkerRecord
<1>2. [r EXCEPT !.open = a, !.busy = b] = [q EXCEPT !.busy = b]
  BY <1>1 DEF WorkerRecord
<1>3. [q EXCEPT !.busy = b] \in WorkerRecord
  BY DEF WorkerRecord
<1> QED  BY <1>2, <1>3

\* or the time since it was seen.
LEMMA WorkerUnseen ==
  ASSUME NEW r \in WorkerRecord, NEW n \in 0..WorkerTTL + 1
  PROVE  [r EXCEPT !.unseen = n] \in WorkerRecord
  BY DEF WorkerRecord

\* A window that left has the record of one that never came.
LEMMA GoneTyped == Gone \in WorkerRecord
  BY Bounds DEF Gone, WorkerRecord

\* _expire_workers and the eviction of idle windows.
LEMMA RegistryTyped ==
  ASSUME WorkersTyped, NEW evicted
  PROVE  Registry(evicted) \in [Worker -> WorkerRecord]
  BY GoneTyped DEF Registry, WorkersTyped

\* A report of a window.
LEMMA SeenTyped ==
  ASSUME WorkersTyped, NEW w \in Worker, NEW r \in Reports, NEW evicted
  PROVE  Seen(w, r, evicted) \in [Worker -> WorkerRecord]
<1>1. [up |-> TRUE, unseen |-> 0, clean |-> r.clean, open |-> r.open, busy |-> r.busy]
        \in WorkerRecord
  <2>1. r.clean \in BOOLEAN /\ r.open \in BOOLEAN /\ r.busy \in BOOLEAN
    <3>1. CASE r = [clean |-> TRUE, open |-> TRUE, busy |-> FALSE]
      BY <3>1
    <3>2. CASE r = [clean |-> FALSE, open |-> FALSE, busy |-> FALSE]
      BY <3>2
    <3>3. CASE r = [clean |-> FALSE, open |-> FALSE, busy |-> TRUE]
      BY <3>3
    <3> QED  BY <3>1, <3>2, <3>3 DEF Reports
  <2> QED  BY <2>1, Bounds DEF WorkerRecord
<1>2. PICK g \in [Worker -> WorkerRecord] : g = Registry(evicted)
  BY RegistryTyped
<1> QED  BY <1>1, <1>2 DEF Seen

\* A window's state and run are set.
LEMMA SetWorkerTyped ==
  ASSUME WorkersTyped, NEW w \in Worker, NEW isOpen \in BOOLEAN, NEW isBusy \in BOOLEAN
  PROVE  SetWorker(w, isOpen, isBusy) \in [Worker -> WorkerRecord]
<1>1. worker[w] \in WorkerRecord /\ worker[w].clean \in BOOLEAN
  BY DEF WorkersTyped, WorkerRecord
<1>2. (isOpen /\ worker[w].clean) \in BOOLEAN
  OBVIOUS
<1>3. PICK r \in WorkerRecord :
        r = [worker[w] EXCEPT !.open = isOpen /\ worker[w].clean, !.busy = isBusy]
  <2> DEFINE a == isOpen /\ worker[w].clean
  <2>1. a \in BOOLEAN
    BY <1>2
  <2> HIDE DEF a
  <2>2. [worker[w] EXCEPT !.open = a, !.busy = isBusy] \in WorkerRecord
    BY <1>1, <2>1, WorkerUpdate
  <2> QED  BY <2>2 DEF a
<1>4. SetWorker(w, isOpen, isBusy) \in {worker, [worker EXCEPT ![w] = r]}
  BY <1>3 DEF SetWorker, WorkersTyped
<1> QED  BY <1>4 DEF WorkersTyped

\* The owners of closed runs are set FREE.
LEMMA FreeOwnersTyped ==
  ASSUME WorkersTyped, NEW ds
  PROVE  FreeOwners(ds) \in [Worker -> WorkerRecord]
<1>1. ASSUME NEW w \in Worker
      PROVE  [worker[w] EXCEPT !.open = worker[w].clean, !.busy = FALSE] \in WorkerRecord
  <2>1. worker[w] \in WorkerRecord /\ worker[w].clean \in BOOLEAN /\ FALSE \in BOOLEAN
    BY DEF WorkersTyped, WorkerRecord
  <2> QED  BY <2>1, WorkerUpdate
<1> QED  BY <1>1 DEF FreeOwners, WorkersTyped

\* A commit, or a rollback to the last one, types the registry.
LEMMA PersistWorkers ==
  ASSUME WorkersTyped, NEW nw \in [Worker -> WorkerRecord], NEW nj, Persist(nj, nw)
  PROVE  WorkersStep
<1>1. CASE Commit(nj, nw)
  <2>1. \A w \in Worker : [up |-> nw[w].up, open |-> nw[w].open, busy |-> nw[w].busy]
                            \in SavedRecord
    BY DEF WorkerRecord, SavedRecord
  <2> QED  BY <1>1, <2>1 DEF Commit, WorkersTyped, WorkersStep
<1>2. CASE RollBack(nw)
  <2>1. ASSUME NEW w \in Worker
        PROVE  [nw[w] EXCEPT !.open = saved[w].open /\ nw[w].clean, !.busy = saved[w].busy]
                 \in WorkerRecord
    <3> DEFINE a == saved[w].open /\ nw[w].clean
    <3>1. nw[w] \in WorkerRecord /\ a \in BOOLEAN /\ saved[w].busy \in BOOLEAN
      BY DEF WorkersTyped, WorkerRecord, SavedRecord
    <3> HIDE DEF a
    <3>2. [nw[w] EXCEPT !.open = a, !.busy = saved[w].busy] \in WorkerRecord
      BY <3>1, WorkerUpdate
    <3> QED  BY <3>2 DEF a
  <2> QED  BY <1>2, <2>1 DEF RollBack, WorkersTyped, WorkersStep
<1> QED  BY <1>1, <1>2 DEF Persist

\* So does a change in memory,
LEMMA MemoryWorkers ==
  ASSUME WorkersTyped, NEW nw \in [Worker -> WorkerRecord], NEW nj, InMemory(nj, nw)
  PROVE  WorkersStep
  BY DEF InMemory, WorkersTyped, WorkersStep

\* and no change at all.
LEMMA NoWorkers ==
  ASSUME WorkersTyped, UNCHANGED <<worker, saved>>
  PROVE  WorkersStep
  BY DEF WorkersTyped, WorkersStep

\* The fields of one record of the registry.
LEMMA WorkerTyped ==
  ASSUME WorkersTyped, NEW w \in Worker
  PROVE  /\ worker[w] \in WorkerRecord /\ worker[w].busy \in BOOLEAN
         /\ worker[w].clean \in BOOLEAN
  BY DEF WorkersTyped, WorkerRecord

\* The sections that a poll runs.
LEMMA PollWorkers ==
  ASSUME WorkersTyped, Consistent, NEW w \in Worker,
         \/ RegisterWorker(w) \/ GoOffline(w) \/ ClaimNothing(w)
         \/ \E d \in Job : ClaimJob(w, d) \/ RenewOwnerLease(w, d)
         \/ \E d \in Job, l \in 1..MaxClaims :
              \/ RenewLease(w, d, l)
              \/ \E rc \in Token \cup {NoToken} : ReconcileJob(w, d, l, rc)
  PROVE  WorkersStep
<1>1. CASE RegisterWorker(w)
  BY <1>1, SeenTyped, MemoryWorkers DEF RegisterWorker
<1>2. CASE GoOffline(w)
  BY <1>2, RegistryTyped, MemoryWorkers DEF GoOffline
<1>3. \A evicted : [Registry(evicted) EXCEPT ![w].unseen = 0] \in [Worker -> WorkerRecord]
  <2> TAKE evicted
  <2>1. PICK r \in [Worker -> WorkerRecord] : r = Registry(evicted)
    BY RegistryTyped
  <2>2. [r[w] EXCEPT !.unseen = 0] \in WorkerRecord
    BY Bounds, WorkerUnseen
  <2>3. [r EXCEPT ![w].unseen = 0] = [r EXCEPT ![w] = [r[w] EXCEPT !.unseen = 0]]
    OBVIOUS
  <2> QED  BY <2>1, <2>2, <2>3
<1>4. CASE ClaimNothing(w)
  BY <1>3, <1>4, MemoryWorkers DEF ClaimNothing
<1>5. ASSUME NEW d \in Job, ClaimJob(w, d) PROVE WorkersStep
  BY <1>3, <1>5, PersistWorkers DEF ClaimJob
<1>6. ASSUME NEW d \in Job, RenewOwnerLease(w, d) PROVE WorkersStep
  <2>1. worker \in [Worker -> WorkerRecord]
    BY DEF WorkersTyped
  <2> QED  BY <1>6, <2>1, MemoryWorkers DEF RenewOwnerLease
<1>7. ASSUME NEW d \in Job, NEW l, RenewLease(w, d, l) PROVE WorkersStep
  BY <1>7, SeenTyped, MemoryWorkers DEF RenewLease
<1>8. ASSUME NEW d \in Job, NEW l, NEW rc, ReconcileJob(w, d, l, rc) PROVE WorkersStep
  <2>1. PICK r \in Reports, evicted \in Evictable(w) :
          Persist(PutJob(d, Renewed([job[d] EXCEPT !.state = job[d].recovery])),
                  [Seen(w, r, evicted) EXCEPT ![w].open = FALSE, ![w].busy = job[d].bound])
    BY <1>8 DEF ReconcileJob
  <2>2. PICK s \in [Worker -> WorkerRecord] : s = Seen(w, r, evicted)
    BY SeenTyped
  <2>3. job[d].bound \in BOOLEAN /\ FALSE \in BOOLEAN
    BY DEF Consistent, Sound, Typed, Flags
  <2>4. [s[w] EXCEPT !.open = FALSE, !.busy = job[d].bound] \in WorkerRecord
    BY <2>3, WorkerUpdate
  <2>5. [s EXCEPT ![w].open = FALSE, ![w].busy = job[d].bound]
          = [s EXCEPT ![w] = [s[w] EXCEPT !.open = FALSE, !.busy = job[d].bound]]
    BY DEF WorkerRecord
  <2>6. [s EXCEPT ![w].open = FALSE, ![w].busy = job[d].bound] \in [Worker -> WorkerRecord]
    BY <2>4, <2>5
  <2> QED  BY <2>1, <2>2, <2>6, PersistWorkers
<1> QED  BY <1>1, <1>2, <1>4, <1>5, <1>6, <1>7, <1>8

\* transition_job.
LEMMA ReportWorkers ==
  ASSUME WorkersTyped, Consistent, NEW d \in Job, NEW w \in Worker, NEW l, Report(d, w, l)
  PROVE  WorkersStep
<1>1. worker \in [Worker -> WorkerRecord] /\ worker[w].busy \in BOOLEAN
  BY WorkerTyped DEF WorkersTyped
<1>2. ASSUME NEW to, NEW j, j.bound \in BOOLEAN
      PROVE  Worked(w, to, j) \in [Worker -> WorkerRecord]
  BY <1>1, <1>2, SetWorkerTyped DEF Worked
<1>3. Free(w) \in [Worker -> WorkerRecord]
  BY SetWorkerTyped DEF Free
<1>4. SetWorker(w, TRUE, worker[w].busy) \in [Worker -> WorkerRecord]
  BY <1>1, SetWorkerTyped
<1>5. job[d].bound \in BOOLEAN /\ Whole(job[d])
  BY DEF Consistent, Sound, Typed, Flags
<1>6. ASSUME NEW to, NEW b \in BOOLEAN, NEW rc, Advance(d, w, l, to, b, rc)
      PROVE  WorkersStep
  <2>1. PICK j : j = Bind(job[d], b, rc)
    OBVIOUS
  <2>2. j.bound = (job[d].bound \/ b)
    BY <1>5, <2>1 DEF Whole, Bind
  <2>3. j.bound \in BOOLEAN
    BY <2>2
  <2> QED  BY <1>2, <1>6, <2>1, <2>3, PersistWorkers DEF Advance
<1>7. ASSUME NEW b, NEW rc, Acknowledge(d, w, l, b, rc) \/ ReassertStart(d, w, l, b, rc)
      PROVE  WorkersStep
  BY <1>1, <1>7, PersistWorkers DEF Acknowledge, ReassertStart
<1>8. ASSUME NEW rc, RefuseStart(d, w, l, rc) PROVE WorkersStep
  BY <1>1, <1>8, MemoryWorkers DEF RefuseStart
<1>9. ASSUME NEW confirmed, ReportComplete(d, w, l, confirmed) PROVE WorkersStep
  BY <1>2, <1>3, <1>5, <1>9, PersistWorkers DEF ReportComplete
<1>10. ASSUME NEW to, ReportStopped(d, w, l, to) PROVE WorkersStep
  BY <1>1, <1>2, <1>5, <1>10, PersistWorkers DEF ReportStopped
<1>11. CASE ReportRetryable(d, w, l)
  BY <1>4, <1>11, PersistWorkers DEF ReportRetryable
<1>12. CASE RequeueRetryable(d, w)
  BY <1>4, <1>12, PersistWorkers DEF RequeueRetryable
<1> QED  BY <1>6, <1>7, <1>8, <1>9, <1>10, <1>11, <1>12 DEF Report

\* Every step types the registry.
LEMMA NextWorkers ==
  ASSUME WorkersTyped, Consistent, [Next]_vars
  PROVE  WorkersStep
<1>1. worker \in [Worker -> WorkerRecord]
  BY DEF WorkersTyped
<1>2. ASSUME NEW p, NEW d, EnqueueJob(p, d) PROVE WorkersStep
  BY <1>1, <1>2, PersistWorkers DEF EnqueueJob
<1>3. ASSUME NEW p, NEW d, WriteHandoff(p, d) PROVE WorkersStep
  BY <1>3, NoWorkers DEF WriteHandoff
<1>4. ASSUME NEW p, CompleteForRun(p) PROVE WorkersStep
  BY <1>4, FreeOwnersTyped, PersistWorkers, NoWorkers DEF CompleteForRun, Persist
<1>5. ASSUME NEW p, CompleteRunsForProject(p) PROVE WorkersStep
  BY <1>5, FreeOwnersTyped, PersistWorkers, NoWorkers DEF CompleteRunsForProject
<1>6. ASSUME NEW p, ReconcileFinishedCampaigns(p) PROVE WorkersStep
  BY <1>6, FreeOwnersTyped, PersistWorkers DEF ReconcileFinishedCampaigns, CompleteOnVerdict
<1>7. ASSUME NEW d \in Job, AbandonJob(d) \/ CancelJob(d) PROVE WorkersStep
  <2>1. \A w \in Worker : Free(w) \in [Worker -> WorkerRecord]
    BY SetWorkerTyped DEF Free
  <2> QED  BY <1>1, <1>7, <2>1, PersistWorkers DEF AbandonJob, CancelJob
<1>8. CASE ExpireWorkers
  BY <1>8, RegistryTyped, MemoryWorkers DEF ExpireWorkers
<1>9. CASE ExpireLeases \/ ReconcileAbandonedRuns \/ ExpireUnrecoverableRuns
  BY <1>1, <1>9, PersistWorkers, MemoryWorkers
  DEF ExpireLeases, ReconcileAbandonedRuns, ExpireUnrecoverableRuns
<1>10. CASE Restart
  <2>1. [w \in Worker |-> Gone] \in [Worker -> WorkerRecord]
    BY GoneTyped
  <2> QED  BY <1>10, <2>1, PersistWorkers DEF Restart, Persist
<1>11. CASE Tick
  <2>1. ASSUME NEW w \in Worker, worker[w].unseen <= WorkerTTL
        PROVE  [worker[w] EXCEPT !.unseen = @ + 1] \in WorkerRecord
    <3>1. worker[w] \in WorkerRecord /\ worker[w].unseen + 1 \in 0..WorkerTTL + 1
      BY <1>1, <2>1, Bounds DEF WorkerRecord
    <3> QED  BY <3>1, WorkerUnseen
  <2> QED  BY <1>11, <2>1 DEF Tick, WorkersTyped, WorkersStep
<1>12. CASE UNCHANGED vars
  BY <1>12, NoWorkers DEF vars
<1> QED
  BY <1>2, <1>3, <1>4, <1>5, <1>6, <1>7, <1>8, <1>9, <1>10, <1>11, <1>12,
     PollWorkers, ReportWorkers DEF Next
=============================================================================
