----------------------- MODULE BrowserDispatchProofs -----------------------
(***************************************************************************)
(* Theorems about BrowserDispatch, for every number of windows, projects,  *)
(* receipts and dispatches, and for every value of the timers and bounds.  *)
(*                                                                         *)
(* The first part follows from Consistent, the invariant of the jobs.  The *)
(* second has the invariant that joins the jobs to the ingestion, Backed: a*)
(* request past its commit, and every COMPLETE dispatch, has a handoff on  *)
(* disk, and a handoff is of the project of the run that produced it.      *)
(*                                                                         *)
(* The third shows that BrowserDispatch implements DispatchContract: the   *)
(* initial states map to initial states, and every step maps to a step or  *)
(* a stutter.                                                              *)
(***************************************************************************)
EXTENDS DispatchSteps, FiniteSetTheorems

USE DEF PreOwned, PreStart, PostStart, Terminal, JobState, Lease

-----------------------------------------------------------------------------
(* What follows for the jobs. *)

\* Whatever the interleaving of requests, passes, failed writes and restarts, work
\* that may still be given to a window has no START receipt, and a run past START
\* has one, in memory and on disk.
THEOREM StartFenceHolds == Spec => []StartFence
<1>1. Consistent => StartFence
  BY DEF Consistent, Sound, StartFence
<1> QED  BY <1>1, Consistency, PTL

\* _persist_jobs commits or restores: memory never runs ahead of the disk.
THEOREM MemoryNeverAhead == Spec => []MemoryMatchesDisk
<1>1. Consistent => MemoryMatchesDisk
  BY DEF Consistent
<1> QED  BY <1>1, Consistency, PTL

\* The token of an earlier claim never fits again.
THEOREM LeaseIsLatest == Spec => []LatestLeaseOnly
<1>1. Consistent => LatestLeaseOnly
  BY NoneAssumption DEF Consistent, Sound, Held, LatestLeaseOnly
<1> QED  BY <1>1, Consistency, PTL

\* When no window reports CANCELLED (the widget does not), cancellation is an
\* honest statement that the prompt was not sent.
THEOREM CancellationIsHonest ==
  ASSUME "CANCELLED" \notin WireStates
  PROVE  Spec => []CancelledWasNotSent
<1>1. Consistent => CancelledWasNotSent
  BY DEF Consistent, Sound, Outcome, CancelledWasNotSent
<1> QED  BY <1>1, Consistency, PTL

\* Exactly once: no step undoes or repeats the crossing of START.
THEOREM StartHappensOnce == Spec => NoSecondStart
<1> DEFINE Once == \A d \in Job : job[d].receipt # NoToken =>
                     /\ job'[d].receipt = job[d].receipt
                     /\ job'[d].claims = job[d].claims
                     /\ job'[d].owner \in {job[d].owner, NoWorker}
                     /\ job'[d].state \notin {"QUEUED"} \cup PreStart
<1>1. ASSUME Consistent, [Next]_vars PROVE Once
  <2>1. CASE LawfulStep
    BY <2>1 DEF LawfulStep, Lawful, Kept
  <2>2. ASSUME NEW p \in Project, NEW d \in Job, OpenStep(p, d) PROVE Once
    <3>1. ASSUME NEW e \in Job, job[e].receipt # NoToken
          PROVE  /\ job'[e] = job[e]
                 /\ job[e].state \notin {"QUEUED"} \cup PreStart
      BY <1>1, <2>2, <3>1, OpenFrame DEF Consistent, Sound, Fenced
    <3> QED  BY <3>1
  <2> QED  BY <1>1, <2>1, <2>2, StepKinds, CalmIsLawful
<1>2. Consistent /\ [Next]_vars => [Once]_vars
  BY <1>1
<1> QED  BY <1>2, Consistency, PTL DEF Spec, NoSecondStart

\* No failed write and no restart revives a dispatch that is over.
THEOREM OverIsOver == Spec => TerminalIsFinal
<1> DEFINE Final == \A d \in Job : job[d].state \in Terminal => job'[d].state = job[d].state
<1>1. ASSUME Consistent, [Next]_vars PROVE Final
  <2>1. CASE LawfulStep
    BY <2>1 DEF LawfulStep, Lawful, Kept
  <2>2. ASSUME NEW p \in Project, NEW d \in Job, OpenStep(p, d) PROVE Final
    <3>1. ASSUME NEW e \in Job, job[e].state \in Terminal PROVE job'[e] = job[e]
      BY <1>1, <2>2, <3>1, OpenFrame
    <3> QED  BY <3>1
  <2> QED  BY <1>1, <2>1, <2>2, StepKinds, CalmIsLawful
<1>2. Consistent /\ [Next]_vars => [Final]_vars
  BY <1>1
<1> QED  BY <1>2, Consistency, PTL DEF Spec, TerminalIsFinal

\* A project never has two dispatches that are not over.
THEOREM OneOpenDispatch == Spec => []OneOpenPerProject
<1>1. Init => OneOpenPerProject
  BY DEF Init, NewJob, OneOpenPerProject, Open
<1>2. ASSUME Consistent, OneOpenPerProject, [Next]_vars PROVE OneOpenPerProject'
  <2>1. CASE LawfulStep
    <3>1. \A d \in Job : Open(job'[d]) => Open(job[d]) /\ job'[d].project = job[d].project
      BY <2>1 DEF LawfulStep, Lawful, Kept, Open
    <3> QED  BY <1>2, <3>1 DEF OneOpenPerProject
  <2>2. ASSUME NEW p \in Project, NEW d \in Job, OpenStep(p, d) PROVE OneOpenPerProject'
    <3>1. /\ job'[d].project = p
          /\ \A e \in Job \ {d} : job'[e] = job[e] /\ (Open(job[e]) => job[e].project # p)
      BY <1>2, <2>2, OpenFrame
    <3> QED  BY <1>2, <3>1 DEF OneOpenPerProject
  <2> QED  BY <1>2, <2>1, <2>2, StepKinds, CalmIsLawful
<1>3. Consistent /\ OneOpenPerProject /\ [Next]_vars => OneOpenPerProject'
  BY <1>2
<1> QED  BY <1>1, <1>3, Consistency, PTL DEF Spec

-----------------------------------------------------------------------------
(* What COMPLETE rests on. *)

Finishing == {"idle", "run", "project"}

IngestionTyped ==
  handoff \in [Project -> HandoffRecord] /\ finishing \in [Project -> Finishing]

Backed ==
  /\ \A p \in Project : finishing[p] # "idle" => handoff[p].written
  /\ \A p \in Project : handoff[p].by \in Job =>
       job[handoff[p].by].project = p /\ job[handoff[p].by].state # "NONE"
  /\ \A d \in Job : job[d].state = "COMPLETE" => handoff[job[d].project].written

\* A handoff is dated by the number of dispatches there are.
LEMMA CreatedBound == Created \in 0..MaxJobs
<1> DEFINE S == {d \in Job : job[d].state # "NONE"}
<1>1. IsFiniteSet(Job) /\ Cardinality(Job) = MaxJobs
  <2>1. 1 \in Int /\ MaxJobs \in Int
    BY Bounds
  <2>2. /\ IsFiniteSet(1..MaxJobs)
        /\ Cardinality(1..MaxJobs) = IF 1 > MaxJobs THEN 0 ELSE MaxJobs - 1 + 1
    BY <2>1, FS_Interval
  <2> QED  BY <2>2, Bounds DEF Job
<1>2. S \in SUBSET Job
  OBVIOUS
<1> HIDE DEF S
<1>3. IsFiniteSet(S) /\ Cardinality(S) <= MaxJobs
  BY <1>1, <1>2, FS_Subset
<1>4. Cardinality(S) \in Nat
  BY <1>3, FS_CardinalityType
<1> QED  BY <1>3, <1>4, Bounds DEF Created, S

\* What a step does to the handoffs and to the requests that wrote them.
Ingests ==
  \/ \E p \in Project, d \in Job : WriteHandoff(p, d)
  \/ /\ handoff' = handoff
     /\ \/ finishing' = finishing
        \/ finishing' = [p \in Project |-> "idle"]
        \/ \E p \in Project, f \in Finishing :
             finishing[p] # "idle" /\ finishing' = [finishing EXCEPT ![p] = f]

\* Every step is one of those.
LEMMA NextIngests ==
  ASSUME [Next]_vars
  PROVE  Ingests
<1>1. ASSUME NEW p \in Project, CompleteForRun(p) \/ CompleteRunsForProject(p)
      PROVE  Ingests
  BY <1>1 DEF CompleteForRun, CompleteRunsForProject, Ingests, Finishing
<1>2. ASSUME NEW p \in Project, ReconcileFinishedCampaigns(p)
      PROVE  Ingests
  BY <1>2 DEF ReconcileFinishedCampaigns, CompleteOnVerdict, external, Ingests
<1>3. ASSUME NEW p \in Project, NEW d \in Job, EnqueueJob(p, d) \/ WriteHandoff(p, d)
      PROVE  Ingests
  BY <1>3 DEF EnqueueJob, external, Ingests
<1>4. ASSUME NEW w \in Worker, RegisterWorker(w) \/ GoOffline(w) \/ ClaimNothing(w)
      PROVE  Ingests
  BY <1>4 DEF RegisterWorker, GoOffline, ClaimNothing, external, Ingests
<1>5. ASSUME NEW w \in Worker, NEW d \in Job, ClaimJob(w, d) \/ RenewOwnerLease(w, d)
      PROVE  Ingests
  BY <1>5 DEF ClaimJob, RenewOwnerLease, external, Ingests
<1>6. ASSUME NEW w \in Worker, NEW d \in Job, NEW l, RenewLease(w, d, l)
             \/ \E rc \in Token \cup {NoToken} : ReconcileJob(w, d, l, rc)
      PROVE  Ingests
  BY <1>6 DEF RenewLease, ReconcileJob, external, Ingests
<1>7. ASSUME NEW w \in Worker, NEW d \in Job, NEW l, Report(d, w, l)
      PROVE  Ingests
  <2>1. UNCHANGED external
    BY <1>7
    DEF Report, Advance, Acknowledge, ReassertStart, RefuseStart, ReportComplete,
        ReportStopped, ReportRetryable, RequeueRetryable
  <2> QED  BY <2>1 DEF external, Ingests
<1>8. ASSUME NEW d \in Job, AbandonJob(d) \/ CancelJob(d)
      PROVE  Ingests
  BY <1>8 DEF AbandonJob, CancelJob, external, Ingests
<1>9. CASE ExpireWorkers \/ ExpireLeases \/ ReconcileAbandonedRuns \/ ExpireUnrecoverableRuns
  BY <1>9
  DEF ExpireWorkers, ExpireLeases, ReconcileAbandonedRuns, ExpireUnrecoverableRuns,
      external, Ingests
<1>10. CASE Restart \/ Tick \/ UNCHANGED vars
  BY <1>10 DEF Restart, Tick, vars, Ingests
<1> QED
  BY <1>1, <1>2, <1>3, <1>4, <1>5, <1>6, <1>7, <1>8, <1>9, <1>10 DEF Next

\* Every step keeps the types of the handoffs and the requests.
LEMMA IngestionStep ==
  ASSUME IngestionTyped, [Next]_vars
  PROVE  IngestionTyped'
<1>1. ASSUME NEW p \in Project, NEW d \in Job, WriteHandoff(p, d)
      PROVE  IngestionTyped'
  <2>1. [written |-> TRUE, by |-> d, at |-> Created] \in HandoffRecord
    BY CreatedBound, Bounds DEF HandoffRecord, Job
  <2> QED  BY <1>1, <2>1 DEF WriteHandoff, IngestionTyped, Finishing
<1>2. CASE handoff' = handoff /\ finishing' = finishing
  BY <1>2 DEF IngestionTyped
<1>3. CASE handoff' = handoff /\ finishing' = [p \in Project |-> "idle"]
  BY <1>3 DEF IngestionTyped, Finishing
<1>4. ASSUME NEW p \in Project, NEW f \in Finishing,
             handoff' = handoff, finishing' = [finishing EXCEPT ![p] = f]
      PROVE  IngestionTyped'
  BY <1>4 DEF IngestionTyped
<1> QED  BY <1>1, <1>2, <1>3, <1>4, NextIngests DEF Ingests

\* Every variable keeps its type, whatever the bounds and the timers.
THEOREM TypeCorrect == Spec => []TypeOK
<1> DEFINE Inv == WorkersTyped /\ IngestionTyped
<1>1. Init => Inv
  <2> SUFFICES ASSUME Init PROVE Inv
    OBVIOUS
  <2>1. WorkersTyped
    BY GoneTyped DEF Init, WorkersTyped, SavedRecord
  <2>2. IngestionTyped
    BY Bounds DEF Init, IngestionTyped, Finishing, HandoffRecord
  <2> QED  BY <2>1, <2>2
<1>2. ASSUME Consistent, Inv, [Next]_vars PROVE Inv'
  <2>1. WorkersTyped'
    BY <1>2, NextWorkers DEF WorkersTyped, WorkersStep
  <2>2. IngestionTyped'
    BY <1>2, IngestionStep
  <2> QED  BY <2>1, <2>2
<1>3. Consistent /\ Inv /\ [Next]_vars => Inv'
  BY <1>2
<1>4. Consistent /\ Inv => TypeOK
  BY DEF Consistent, WorkersTyped, IngestionTyped, SavedRecord, Finishing, TypeOK
<1> HIDE DEF Inv
<1> QED  BY <1>1, <1>3, <1>4, Consistency, PTL DEF Spec

\* A commit or a rollback of jobs that completes d had d completed in nj.
LEMMA PersistCloses ==
  ASSUME Consistent, NEW nj, NEW nw, Persist(nj, nw), NEW d \in Job, Closes(d)
  PROVE  nj[d].state = "COMPLETE"
<1>1. CASE job' = nj
  BY <1>1 DEF Closes
<1>2. CASE job' = disk
  <2>1. Calm(job[d], disk[d])
    BY RollBackCalm DEF Consistent, MemoryMatchesDisk
  <2> QED  BY <1>2, <2>1 DEF Closes, Calm
<1> QED  BY <1>1, <1>2 DEF Persist, Commit, RollBack

\* So a section that completes the dispatches ds closes no other.
LEMMA CompleteCloses ==
  ASSUME Consistent, NEW ds, NEW nw, Persist(Complete(ds), nw), NEW d \in Job, Closes(d)
  PROVE  d \in ds
<1>1. Complete(ds)[d].state = "COMPLETE"
  BY PersistCloses
<1> QED  BY <1>1 DEF Complete, Closes

\* A dispatch is closed by a request that wrote the handoff of its project, or
\* by the supervisor from a handoff no older than it, or by a confirmed report.
LEMMA Closers ==
  ASSUME Consistent, Backed, IngestionTyped, Completing, NEW d \in Job, Closes(d)
  PROVE  /\ handoff[job[d].project].written
         /\ \/ d <= handoff[job[d].project].at
            \/ finishing' # finishing
            \/ "COMPLETE" \in WireStates
<1>1. ASSUME NEW p \in Project, CompleteForRun(p)
      PROVE  job[d].project = p /\ handoff[p].written /\ finishing' # finishing
  <2> DEFINE ds == {e \in Job : /\ e = handoff[p].by
                                /\ \/ job[e].state \in {"AUDITING", "FINALIZING"}
                                   \/ Recovering(job[e])}
  <2>1. handoff[p].written /\ finishing[p] = "run" /\ finishing'[p] \in {"project", "idle"}
    BY <1>1 DEF CompleteForRun, IngestionTyped, Backed
  <2>2. job' # job
    BY DEF Closes
  <2>3. Persist(Complete(ds), FreeOwners(ds))
    BY <1>1, <2>2 DEF CompleteForRun, Persist
  <2>4. \A e \in ds : e = handoff[p].by
    OBVIOUS
  <2> HIDE DEF ds
  <2>5. d = handoff[p].by
    BY <2>3, <2>4, CompleteCloses
  <2> QED  BY <2>1, <2>5 DEF Backed
<1>2. ASSUME NEW p \in Project, CompleteRunsForProject(p)
      PROVE  job[d].project = p /\ handoff[p].written /\ finishing' # finishing
  <2>1. handoff[p].written /\ finishing[p] = "project" /\ finishing'[p] = "idle"
    BY <1>2 DEF CompleteRunsForProject, IngestionTyped, Backed
  <2>2. job' # job
    BY DEF Closes
  <2>3. Persist(Complete(Closable(p, MaxJobs)), FreeOwners(Closable(p, MaxJobs)))
    BY <1>2, <2>2 DEF CompleteRunsForProject
  <2>4. d \in Closable(p, MaxJobs)
    BY <2>3, CompleteCloses
  <2> QED  BY <2>1, <2>4 DEF Closable
<1>3. ASSUME NEW p \in Project, ReconcileFinishedCampaigns(p)
      PROVE  job[d].project = p /\ handoff[p].written /\ d <= handoff[p].at
  <2>1. PICK at \in 0..handoff[p].at : CompleteOnVerdict(p, at)
    BY <1>3 DEF ReconcileFinishedCampaigns
  <2>2. d \in Closable(p, at)
    BY <2>1, CompleteCloses DEF CompleteOnVerdict
  <2>3. handoff[p].at \in 0..MaxJobs
    BY DEF IngestionTyped, HandoffRecord
  <2>4. d <= handoff[p].at
    BY <2>2, <2>3, Bounds DEF Closable, Job
  <2> QED  BY <2>1, <2>2, <2>4 DEF Closable, CompleteOnVerdict
<1>4. ASSUME NEW e \in Job, NEW w \in Worker, NEW l, NEW confirmed \in BOOLEAN,
             ReportComplete(e, w, l, confirmed)
      PROVE  handoff[job[d].project].written /\ "COMPLETE" \in WireStates
  <2>1. /\ "COMPLETE" \in WireStates
        /\ confirmed => handoff[job[e].project].written
        /\ "COMPLETE" \in Successors[job[e].state]
    BY <1>4 DEF ReportComplete
  <2>2. Sound(job[e]) /\ job[e].state \in JobState
    BY DEF Consistent, Sound, Typed, Names
  <2>3. ~job[e].proven
    BY <2>1, <2>2, Reachable DEF Sound, Outcome
  <2>4. CASE confirmed
    <3>1. PICK nw : Persist(PutJob(e, Completed(job[e])), nw)
      BY <1>4, <2>4 DEF ReportComplete
    <3>2. PutJob(e, Completed(job[e]))[d].state = "COMPLETE"
      BY <3>1, PersistCloses
    <3>3. d = e
      BY <3>2, PutFunction DEF Consistent, Closes
    <3> QED  BY <2>1, <2>4, <3>3
  <2>5. CASE ~confirmed
    <3> DEFINE k == [job[e] EXCEPT !.state = "FINALIZING", !.age = 0]
    <3>1. k.state = "FINALIZING"
      BY <2>2 DEF Sound, Whole
    <3>2. PICK nw : Persist(PutJob(e, k), nw)
      BY <1>4, <2>3, <2>5 DEF ReportComplete
    <3> HIDE DEF k
    <3>3. PutJob(e, k)[d].state = "COMPLETE"
      BY <3>2, PersistCloses
    <3> QED  BY <3>1, <3>3, PutFunction DEF Consistent, Closes
  <2> QED  BY <2>1, <2>4, <2>5
<1> QED  BY <1>1, <1>2, <1>3, <1>4 DEF Completing

\* Handoffs of older audits are of no dispatch.
LEMMA InitBacked == Init => Backed
<1> SUFFICES ASSUME Init PROVE Backed
  OBVIOUS
<1>1. \A p \in Project : handoff[p].by = 0 /\ finishing[p] = "idle"
  BY DEF Init
<1>2. \A d \in Job : job[d].state = "NONE"
  BY DEF Init, NewJob
<1> QED  BY <1>1, <1>2 DEF Backed, Job

\* Whatever completes a dispatch finds the handoff of its project.
LEMMA ClosesProven ==
  ASSUME Consistent, IngestionTyped, Backed, [Next]_vars, NEW d \in Job, Closes(d)
  PROVE  handoff[job[d].project].written
<1>1. CASE CalmStep
  BY <1>1 DEF CalmStep, Calm, Closes
<1>2. ASSUME NEW p \in Project, NEW e \in Job, OpenStep(p, e)
      PROVE  FALSE
  BY <1>2, OpenFrame DEF Closes
<1>3. CASE Completing
  BY <1>3, Closers
<1> QED  BY <1>1, <1>2, <1>3, StepKinds

\* Every step keeps Backed.
LEMMA StepBacked ==
  ASSUME Consistent, IngestionTyped, Backed, [Next]_vars
  PROVE  Backed'
<1>1. \A d \in Job : Closes(d) => handoff[job[d].project].written
  BY ClosesProven
<1>2. ASSUME NEW d \in Job, job[d].state # "NONE"
      PROVE  job'[d].project = job[d].project /\ job'[d].state # "NONE"
  <2>1. CASE LawfulStep
    BY <1>2, <2>1 DEF LawfulStep, Lawful, Kept
  <2>2. ASSUME NEW p \in Project, NEW e \in Job, OpenStep(p, e)
        PROVE  job'[d] = job[d]
    BY <1>2, <2>2, OpenFrame
  <2> QED  BY <1>2, <2>1, <2>2, StepKinds, CalmIsLawful
<1>3. ASSUME NEW d \in Job, job'[d].state = "COMPLETE"
      PROVE  /\ job'[d].project = job[d].project /\ job[d].project \in Project
             /\ handoff[job[d].project].written
  <2>1. CASE job[d].state = "COMPLETE"
    BY <1>2, <2>1 DEF Consistent, Sound, Backed
  <2>2. CASE job[d].state # "COMPLETE" /\ job[d].state # "NONE"
    BY <1>1, <1>2, <1>3, <2>2 DEF Consistent, Sound, Closes
  <2>3. CASE job[d].state = "NONE"
    <3>1. CASE LawfulStep
      BY <1>3, <2>3, <3>1 DEF LawfulStep, Lawful, Kept
    <3>2. ASSUME NEW p \in Project, NEW e \in Job, OpenStep(p, e) PROVE FALSE
      BY <1>3, <2>3, <3>2, OpenFrame
    <3> QED  BY <3>1, <3>2, StepKinds, CalmIsLawful
  <2> QED  BY <2>1, <2>2, <2>3
<1>4. ASSUME NEW p \in Project, NEW e \in Job, WriteHandoff(p, e)
      PROVE  Backed'
  <2>1. /\ job' = job
        /\ job[e].project = p
        /\ job[e].receipt # NoToken
    BY <1>4 DEF WriteHandoff
  <2>2. /\ handoff'[p].written = TRUE /\ handoff'[p].by = e
        /\ \A q \in Project \ {p} : handoff'[q] = handoff[q] /\ finishing'[q] = finishing[q]
    BY <1>4 DEF WriteHandoff, IngestionTyped
  <2>3. job[e].state # "NONE"
    BY <2>1 DEF Consistent, Sound, Fenced
  <2> QED  BY <1>3, <2>1, <2>2, <2>3 DEF Backed
<1>5. ASSUME handoff' = handoff,
             \A p \in Project : finishing'[p] # "idle" => finishing[p] # "idle"
      PROVE  Backed'
  BY <1>2, <1>3, <1>5 DEF Backed
<1>6. CASE handoff' = handoff /\ finishing' = finishing
  BY <1>5, <1>6
<1>7. CASE handoff' = handoff /\ finishing' = [p \in Project |-> "idle"]
  BY <1>5, <1>7
<1>8. ASSUME NEW p \in Project, NEW f \in Finishing, finishing[p] # "idle",
             handoff' = handoff, finishing' = [finishing EXCEPT ![p] = f]
      PROVE  Backed'
  BY <1>5, <1>8 DEF IngestionTyped
<1> QED  BY <1>4, <1>6, <1>7, <1>8, NextIngests DEF Ingests

\* COMPLETE is never minted from a report alone: the run crossed START and its
\* project has a final handoff on disk.
THEOREM CompletionProven == Spec => []CompletionIsProven
<1>1. Init => Backed /\ IngestionTyped
  BY InitBacked, Bounds DEF Init, IngestionTyped, Finishing, HandoffRecord
<1>2. Consistent /\ IngestionTyped /\ Backed /\ [Next]_vars => IngestionTyped' /\ Backed'
  BY StepBacked, IngestionStep
<1>3. Consistent /\ Backed => CompletionIsProven
  BY DEF Consistent, Sound, Outcome, Backed, CompletionIsProven
<1> QED  BY <1>1, <1>2, <1>3, Consistency, PTL DEF Spec

\* When no window reports COMPLETE (the widget does not), nothing but the request
\* that wrote the handoff closes a dispatch on a handoff older than the dispatch.
THEOREM LateClosure ==
  ASSUME "COMPLETE" \notin WireStates
  PROVE  Spec => LateClosureIsFresh
<1> DEFINE Fresh1 == \A d \in Job : Closes(d) /\ finishing' = finishing =>
                       d <= handoff[job[d].project].at
<1>1. Init => Backed /\ IngestionTyped
  BY InitBacked, Bounds DEF Init, IngestionTyped, Finishing, HandoffRecord
<1>2. Consistent /\ IngestionTyped /\ Backed /\ [Next]_vars => IngestionTyped' /\ Backed'
  BY StepBacked, IngestionStep
<1>3. ASSUME Consistent, IngestionTyped, Backed, [Next]_vars
      PROVE  Fresh1
  <2> SUFFICES ASSUME NEW d \in Job, Closes(d), finishing' = finishing
               PROVE  d <= handoff[job[d].project].at
    OBVIOUS
  <2>1. CASE CalmStep
    BY <2>1 DEF CalmStep, Calm, Closes
  <2>2. ASSUME NEW p \in Project, NEW e \in Job, OpenStep(p, e)
        PROVE  FALSE
    BY <1>3, <2>2, OpenFrame DEF Closes
  <2>3. CASE Completing
    BY <1>3, <2>3, Closers
  <2> QED  BY <1>3, <2>1, <2>2, <2>3, StepKinds
<1>4. Consistent /\ IngestionTyped /\ Backed /\ [Next]_vars => [Fresh1]_vars
  BY <1>3
<1> QED  BY <1>1, <1>2, <1>4, Consistency, PTL DEF Spec, LateClosureIsFresh

-----------------------------------------------------------------------------
(* What the contract sees. *)

\* The fields of what the contract sees of a record.
LEMMA LifeFields ==
  ASSUME NEW j
  PROVE  /\ Life(j).status = Status(j) /\ Life(j).project = j.project
         /\ Life(j).fence = j.claims /\ Life(j).receipt = j.receipt
         /\ Life(j).holder = IF Status(j) \in {"held", "running", "lost"}
                               THEN j.owner ELSE NoWorker
  BY DEF Life

\* Two records look the same to the contract when these fields agree.
LEMMA LifeEqual ==
  ASSUME NEW j, NEW k,
         Status(k) = Status(j), k.project = j.project, k.claims = j.claims,
         k.receipt = j.receipt, Status(j) \in {"held", "running", "lost"} => k.owner = j.owner
  PROVE  Life(k) = Life(j)
  BY DEF Life

\* What the contract calls a move to another status, in terms of the records.
LEMMA LifeMoves ==
  ASSUME NEW j, NEW k, k.project = j.project, k.claims = j.claims, k.receipt = j.receipt
  PROVE  Contract!Moves(Life(j), Status(k), Life(k).holder, Life(k))
<1>1. Life(k) = [Life(j) EXCEPT !.status = Status(k), !.holder = Life(k).holder]
  <2>1. PICK h, h2 : h = Life(j).holder /\ h2 = Life(k).holder
    OBVIOUS
  <2>2. Life(j) = [status |-> Status(j), project |-> j.project, holder |-> h,
                   fence |-> j.claims, receipt |-> j.receipt]
    BY <2>1 DEF Life
  <2>3. Life(k) = [status |-> Status(k), project |-> j.project, holder |-> h2,
                   fence |-> j.claims, receipt |-> j.receipt]
    BY <2>1 DEF Life
  <2>4. PICK a : a = [status |-> Status(j), project |-> j.project, holder |-> h,
                      fence |-> j.claims, receipt |-> j.receipt]
    OBVIOUS
  <2>5. PICK s, c : s = Status(k) /\ c = [a EXCEPT !.status = s, !.holder = h2]
    OBVIOUS
  <2>6. c = [status |-> s, project |-> j.project, holder |-> h2,
             fence |-> j.claims, receipt |-> j.receipt]
    BY <2>4, <2>5
  <2> QED  BY <2>1, <2>2, <2>3, <2>4, <2>5, <2>6, Zenon
<1>2. \A a, b, s, h : b = [a EXCEPT !.status = s, !.holder = h] => Contract!Moves(a, s, h, b)
  BY Zenon DEF Contract!Moves
<1> QED  BY <1>1, <1>2, Zenon

\* The status of a sound record.
LEMMA StatusOf ==
  ASSUME NEW j, Sound(j)
  PROVE  /\ Status(j) \in Contract!Status
         /\ Status(j) = "absent" <=> j.state = "NONE"
         /\ Status(j) = "waiting" <=> j.state \in {"QUEUED", "RETRYABLE"}
         /\ Status(j) = "held" <=> j.state \in PreOwned
         /\ Status(j) = "running" <=> j.state \in PostStart
         /\ Status(j) = "parked" <=> j.state = "BLOCKED" /\ j.receipt = NoToken
         /\ Status(j) = "lost" <=> j.state = "BLOCKED" /\ j.receipt # NoToken
         /\ Status(j) = "complete" <=> j.state = "COMPLETE"
         /\ Status(j) = "failed" <=> j.state = "FAILED"
         /\ Status(j) = "cancelled" <=> j.state = "CANCELLED"
<1>1. j.state \in JobState
  BY DEF Sound, Typed, Names
<1> QED  BY <1>1 DEF Status, Contract!Status

\* What the contract sees is of the contract's type.
LEMMA LifeTyped ==
  ASSUME NEW j, Sound(j)
  PROVE  Life(j) \in Contract!Life
<1>1. /\ Status(j) \in Contract!Status /\ j.project \in Project \cup {NoProject}
      /\ j.claims \in Nat /\ j.receipt \in Token \cup {NoToken}
      /\ j.owner \in Worker \cup {NoWorker}
  BY StatusOf, Bounds DEF Sound, Typed, Names, Numbers
<1> QED  BY <1>1 DEF Life, Contract!Life

-----------------------------------------------------------------------------
(* Steps of one record. *)

\* The project of a dispatch that completes has a final handoff.
Proved(j, k) ==
  k.state = "COMPLETE" /\ j.state # "COMPLETE" =>
    j.project \in {p \in Project : handoff[p].written}

\* A lawful step of a record is a move that the contract has, or none.
LEMMA LawfulMove ==
  ASSUME "CANCELLED" \notin WireStates,
         NEW j, Sound(j), NEW k, Lawful(j, k), Proved(j, k)
  PROVE  Life(k) = Life(j) \/ Contract!Move(Life(j), Life(k))
<1> DEFINE a == Life(j)
           b == Life(k)
<1>1. /\ Sound(k) /\ Kept(j, k) /\ Moved(j, k) /\ k.project = j.project
      /\ j.state = "NONE" <=> k.state = "NONE"
      /\ j.state \in Terminal => k.state = j.state
  BY DEF Lawful, Kept
<1>2. /\ a.status = Status(j) /\ a.receipt = j.receipt /\ a.project = j.project
      /\ Status(j) \in {"held", "running", "lost"} => a.holder = j.owner
      /\ b.status = Status(k) /\ b.receipt = k.receipt
      /\ b.holder = IF Status(k) \in {"held", "running", "lost"} THEN k.owner ELSE NoWorker
  BY LifeFields
<1>3. ASSUME k.claims = j.claims, k.receipt = j.receipt
      PROVE  Contract!Moves(a, Status(k), b.holder, b)
  BY <1>1, <1>3, LifeMoves
<1> SUFFICES b = a \/ Contract!Move(a, b)
  OBVIOUS
<1> HIDE DEF a, b
<1>4. ASSUME Status(k) = Status(j), Status(j) \in {"held", "running", "lost"} => k.owner = j.owner,
             k.claims = j.claims, k.receipt = j.receipt
      PROVE  b = a
  BY <1>1, <1>4, LifeEqual DEF a, b
<1>5. /\ Status(j) = "waiting" <=> j.state \in {"QUEUED", "RETRYABLE"}
      /\ Status(j) = "held" <=> j.state \in PreOwned
      /\ Status(j) = "running" <=> j.state \in PostStart
      /\ Status(j) = "parked" <=> j.state = "BLOCKED" /\ j.receipt = NoToken
      /\ Status(j) = "lost" <=> j.state = "BLOCKED" /\ j.receipt # NoToken
      /\ k.state \in {"QUEUED", "RETRYABLE"} => Status(k) = "waiting"
      /\ k.state \in PreOwned => Status(k) = "held"
      /\ k.state \in PostStart => Status(k) = "running"
      /\ k.state = "BLOCKED" => Status(k) = IF k.receipt = NoToken THEN "parked" ELSE "lost"
      /\ k.state = "COMPLETE" => Status(k) = "complete"
      /\ k.state = "FAILED" => Status(k) = "failed"
      /\ k.state = "CANCELLED" => Status(k) = "cancelled"
  BY <1>1, StatusOf
<1>6. CASE k.state = j.state /\ k.state \in {"NONE"} \cup Terminal
  <2>1. k.claims = j.claims /\ k.receipt = j.receipt /\ Status(k) = Status(j)
        /\ Status(j) \notin {"held", "running", "lost"}
    BY <1>1, <1>5, <1>6, StatusOf DEF Moved
  <2> QED  BY <1>4, <2>1
<1>7. CASE k.state \in {"QUEUED", "RETRYABLE"}
  <2>1. k.claims = j.claims /\ k.receipt = j.receipt /\ Status(k) = "waiting"
    BY <1>1, <1>5, <1>7 DEF Moved
  <2>2. CASE j.state \in {"QUEUED", "RETRYABLE"}
    BY <1>4, <1>5, <2>1, <2>2
  <2>3. CASE j.state \in PreOwned
    BY <1>2, <1>3, <1>5, <2>1, <2>3 DEF Contract!Move, Contract!TakenBack
  <2> QED  BY <1>1, <1>7, <2>2, <2>3 DEF Moved
<1>8. CASE k.state \in PreOwned
  <2>1. k.receipt = j.receipt /\ Status(k) = "held"
    BY <1>1, <1>5, <1>8 DEF Moved
  <2>2. CASE j.state \in PreOwned /\ k.owner = j.owner
    <3>1. k.claims = j.claims
      BY <1>1, <2>2 DEF Moved
    <3> QED  BY <1>4, <1>5, <2>1, <2>2, <3>1
  <2>3. CASE j.state \in {"QUEUED", "RETRYABLE"} /\ k.claims = j.claims + 1
    <3>1. k.owner \in Worker
      BY <1>1, <1>8 DEF Sound, Held
    <3>2. b = [a EXCEPT !.status = "held", !.holder = k.owner, !.fence = a.fence + 1]
      <4>1. PICK h : h = a.holder
        OBVIOUS
      <4>2. a = [status |-> Status(j), project |-> j.project, holder |-> h,
                 fence |-> j.claims, receipt |-> j.receipt]
        BY <4>1 DEF a, Life
      <4>3. b = [status |-> "held", project |-> j.project, holder |-> k.owner,
                 fence |-> j.claims + 1, receipt |-> j.receipt]
        BY <1>1, <2>1, <2>3 DEF b, Life
      <4>4. a.fence = j.claims
        BY <4>2
      <4>5. PICK c : c = [a EXCEPT !.status = "held", !.holder = k.owner, !.fence = a.fence + 1]
        OBVIOUS
      <4>6. c = [status |-> "held", project |-> j.project, holder |-> k.owner,
                 fence |-> j.claims + 1, receipt |-> j.receipt]
        BY <4>2, <4>4, <4>5
      <4> QED  BY <4>3, <4>5, <4>6, Zenon
    <3>3. Contract!Handed(a, b)
      BY <1>2, <1>5, <2>3, <3>1, <3>2 DEF Contract!Handed
    <3> QED  BY <3>3 DEF Contract!Move
  <2> QED  BY <1>1, <1>8, <2>2, <2>3 DEF Moved
<1>9. CASE k.state \in PostStart
  <2>1. k.claims = j.claims /\ k.owner = j.owner /\ Status(k) = "running"
    BY <1>1, <1>5, <1>9 DEF Moved
  <2>2. k.owner \in Worker /\ k.receipt \in Token
    BY <1>1, <1>9 DEF Sound, Held, Fenced, Typed, Names
  <2>3. CASE j.state \in PreOwned
    <3>1. j.receipt = NoToken
      BY <2>3 DEF Sound, Fenced
    <3>2. b = [a EXCEPT !.status = "running", !.receipt = k.receipt]
      <4>1. a = [status |-> Status(j), project |-> j.project, holder |-> j.owner,
                 fence |-> j.claims, receipt |-> j.receipt]
        BY <1>5, <2>3 DEF a, Life
      <4>2. b = [status |-> "running", project |-> j.project, holder |-> j.owner,
                 fence |-> j.claims, receipt |-> k.receipt]
        BY <1>1, <2>1 DEF b, Life
      <4>3. PICK c : c = [a EXCEPT !.status = "running", !.receipt = k.receipt]
        OBVIOUS
      <4>4. c = [status |-> "running", project |-> j.project, holder |-> j.owner,
                 fence |-> j.claims, receipt |-> k.receipt]
        BY <4>1, <4>3
      <4> QED  BY <4>2, <4>3, <4>4, Zenon
    <3>3. Contract!Started(a, b)
      BY <1>2, <1>5, <2>2, <2>3, <3>1, <3>2 DEF Contract!Started
    <3> QED  BY <3>3 DEF Contract!Move
  <2>4. CASE j.state \in PostStart
    <3>1. k.receipt = j.receipt
      BY <1>1, <2>4 DEF Moved
    <3> QED  BY <1>4, <1>5, <2>1, <2>4, <3>1
  <2>5. CASE j.state = "BLOCKED" /\ j.receipt # NoToken
    <3>1. k.receipt = j.receipt
      BY <1>1, <2>5 DEF Moved
    <3>2. a.holder = j.owner /\ b.holder = j.owner /\ j.owner # NoWorker
      BY <1>2, <1>5, <2>1, <2>2, <2>5, NoneAssumption
    <3> QED  BY <1>2, <1>3, <1>5, <2>1, <2>5, <3>1, <3>2 DEF Contract!Move, Contract!Resumed
  <2> QED  BY <1>1, <1>9, <2>3, <2>4, <2>5 DEF Moved
<1>10. CASE k.state = "BLOCKED"
  <2>1. k.claims = j.claims /\ k.receipt = j.receipt
    BY <1>1, <1>10 DEF Moved
  <2>2. CASE j.state \in PreOwned
    <3>1. k.receipt = NoToken /\ Status(k) = "parked"
      BY <1>5, <1>10, <2>1, <2>2 DEF Sound, Fenced
    <3> QED  BY <1>2, <1>3, <1>5, <2>1, <2>2, <3>1 DEF Contract!Move, Contract!Parked
  <2>3. CASE j.state \in PostStart
    <3>1. k.receipt # NoToken /\ Status(k) = "lost" /\ k.owner \in {j.owner, NoWorker}
      BY <1>1, <1>5, <1>10, <2>1, <2>3 DEF Sound, Fenced, Kept
    <3>2. b.holder \in {a.holder, NoWorker}
      BY <1>2, <1>5, <2>3, <3>1
    <3> QED  BY <1>2, <1>3, <1>5, <2>1, <2>3, <3>1, <3>2 DEF Contract!Move, Contract!Lost
  <2>4. CASE j.state = "BLOCKED" /\ k.owner = j.owner
    <3>1. Status(k) = Status(j)
      BY <1>5, <1>10, <2>1, <2>4
    <3> QED  BY <1>4, <2>1, <2>4, <3>1
  <2> QED  BY <1>1, <1>10, <2>2, <2>3, <2>4 DEF Moved
<1>11. CASE k.state = "COMPLETE" /\ j.state # "COMPLETE"
  <2>1. k.claims = j.claims /\ k.receipt = j.receipt /\ Status(k) = "complete"
    BY <1>1, <1>5, <1>11 DEF Moved
  <2>2. j.receipt # NoToken
    BY <1>1, <1>11, <2>1 DEF Sound, Outcome
  <2>3. j.state \in PostStart \cup {"BLOCKED"}
    <3>1. j.state \in JobState /\ j.state \notin Terminal \cup {"NONE"}
      BY <1>1, <1>11 DEF Sound, Typed, Names
    <3> QED  BY <2>2, <3>1 DEF Sound, Fenced
  <2>4. Status(j) \in {"running", "lost"} /\ a.project \in {p \in Project : handoff[p].written}
    BY <1>2, <1>5, <1>11, <2>2, <2>3 DEF Proved
  <2> QED  BY <1>2, <1>3, <2>1, <2>4 DEF Contract!Move, Contract!Completed
<1>12. CASE k.state = "FAILED" /\ j.state # "FAILED"
  <2>1. k.claims = j.claims /\ k.receipt = j.receipt /\ Status(k) = "failed"
    BY <1>1, <1>5, <1>12 DEF Moved
  <2>2. Status(j) \in {"held", "parked", "running", "lost"}
    BY <1>1, <1>5, <1>12 DEF Moved
  <2> QED  BY <1>2, <1>3, <2>1, <2>2 DEF Contract!Move, Contract!Failed
<1>13. CASE k.state = "CANCELLED" /\ j.state # "CANCELLED"
  <2>1. k.claims = j.claims /\ k.receipt = j.receipt /\ Status(k) = "cancelled"
    BY <1>1, <1>5, <1>13 DEF Moved
  <2>2. j.receipt = NoToken
    BY <1>1, <1>13, <2>1 DEF Sound, Outcome
  <2>3. Status(j) \in {"waiting", "held", "parked"}
    <3>1. j.state \in JobState /\ j.state \notin Terminal \cup {"NONE"}
      BY <1>1, <1>13 DEF Sound, Typed, Names
    <3> QED  BY <1>5, <2>2, <3>1 DEF Sound, Fenced
  <2> QED  BY <1>2, <1>3, <2>1, <2>3 DEF Contract!Move, Contract!Cancelled
<1>14. k.state \in JobState
  BY <1>1 DEF Sound, Typed, Names
<1> QED  BY <1>1, <1>14, <1>6, <1>7, <1>8, <1>9, <1>10, <1>11, <1>12, <1>13

-----------------------------------------------------------------------------
(* Steps of the Bridge. *)

lives == [d \in Job |-> Life(job[d])]
handedOff == {p \in Project : handoff[p].written}

\* The ingestion writes a handoff.
LEMMA PublishStep ==
  ASSUME IngestionTyped, NEW p \in Project, NEW d \in Job, WriteHandoff(p, d)
  PROVE  Contract!Publish(p)
<1>1. job' = job
  BY DEF WriteHandoff
<1>2. handoff'[p].written = TRUE /\ \A q \in Project \ {p} : handoff'[q] = handoff[q]
  BY DEF WriteHandoff, IngestionTyped
<1>3. handedOff' = handedOff \cup {p}
  BY <1>2 DEF handedOff
<1> QED  BY <1>1, <1>3 DEF Contract!Publish, handedOff

\* A dispatch is enqueued.
LEMMA ContractEnqueue ==
  ASSUME Consistent, NEW p \in Project, NEW d \in Job, OpenStep(p, d), handoff' = handoff
  PROVE  Contract!Enqueue(d, p)
<1>1. /\ job[d].state = "NONE" /\ \A e \in Job : job[e].project = p => ~Open(job[e])
      /\ job' = PutJob(d, Queued(p))
  BY DEF OpenStep
<1>2. Life(job[d]) = Contract!Unborn
  <2>1. /\ Status(job[d]) = "absent" /\ job[d].project = NoProject /\ job[d].claims = 0
        /\ job[d].receipt = NoToken
    BY <1>1, StatusOf DEF Consistent, Sound, Fenced
  <2> QED  BY <2>1 DEF Life, Contract!Unborn
<1>3. \A e \in Job : Life(job[e]).project = p => Contract!Over(Life(job[e]))
  <2> SUFFICES ASSUME NEW e \in Job, job[e].project = p
               PROVE  Status(job[e]) \in {"complete", "failed", "cancelled"}
    BY LifeFields DEF Contract!Over
  <2>1. ~Open(job[e]) /\ Sound(job[e])
    BY <1>1 DEF Consistent
  <2>2. job[e].state # "NONE"
    BY <2>1, NoneAssumption DEF Sound
  <2> QED  BY <2>1, <2>2, StatusOf DEF Open, Sound, Typed, Names
<1>4. Life(Queued(p)) = [Contract!Unborn EXCEPT !.status = "waiting", !.project = p]
  <2>1. PICK k : k = Queued(p)
    OBVIOUS
  <2>2. /\ k.state = "QUEUED" /\ k.project = p /\ k.claims = 0 /\ k.receipt = NoToken
        /\ Sound(k)
    BY <2>1, QueuedSound DEF Queued, NewJob
  <2>3. Status(k) = "waiting"
    BY <2>2, StatusOf
  <2>4. Life(k) = [status |-> "waiting", project |-> p, holder |-> NoWorker,
                   fence |-> 0, receipt |-> NoToken]
    BY <2>2, <2>3 DEF Life
  <2>5. PICK c : c = [Contract!Unborn EXCEPT !.status = "waiting", !.project = p]
    OBVIOUS
  <2>6. c = [status |-> "waiting", project |-> p, holder |-> NoWorker,
             fence |-> 0, receipt |-> NoToken]
    BY <2>5 DEF Contract!Unborn
  <2> QED  BY <2>1, <2>4, <2>5, <2>6, Zenon
<1>5. lives' = [lives EXCEPT ![d] = [Contract!Unborn EXCEPT !.status = "waiting", !.project = p]]
  <2>1. \A e \in Job : job'[e] = IF e = d THEN Queued(p) ELSE job[e]
    BY <1>1, PutFunction DEF Consistent
  <2> QED  BY <1>4, <2>1 DEF lives
<1>6. lives' = [lives EXCEPT ![d].status = "waiting", ![d].project = p]
  <2>1. lives[d] = Contract!Unborn
    BY <1>2 DEF lives
  <2>2. PICK f : f = lives
    OBVIOUS
  <2>3. [f EXCEPT ![d].status = "waiting", ![d].project = p]
          = [f EXCEPT ![d] = [f[d] EXCEPT !.status = "waiting", !.project = p]]
    BY <2>1, <2>2 DEF lives
  <2> QED  BY <1>5, <2>1, <2>2, <2>3
<1>7. handedOff' = handedOff
  BY DEF handedOff
<1> QED  BY <1>2, <1>3, <1>6, <1>7 DEF Contract!Enqueue, lives, handedOff

\* Every other step moves each dispatch by a move of the contract.
LEMMA ContractAdvance ==
  ASSUME "CANCELLED" \notin WireStates, Consistent, LawfulStep, handoff' = handoff,
         \A d \in Job : Closes(d) => handoff[job[d].project].written
  PROVE  Contract!Advance
<1>1. ASSUME NEW d \in Job
      PROVE  /\ Life(job'[d]) = Life(job[d]) \/ Contract!Move(Life(job[d]), Life(job'[d]))
             /\ Life(job'[d]) \in Contract!Life
  <2>1. Sound(job[d]) /\ Lawful(job[d], job'[d]) /\ Sound(job'[d])
    BY DEF Consistent, LawfulStep, Lawful
  <2>2. Proved(job[d], job'[d])
    BY <2>1 DEF Proved, Closes, Lawful, Kept, Sound
  <2> QED  BY <2>1, <2>2, LawfulMove, LifeTyped
<1>2. handedOff' = handedOff
  BY DEF handedOff
<1> QED  BY <1>1, <1>2 DEF Contract!Advance, handedOff

\* When no window reports CANCELLED (the widget does not), the Bridge keeps the
\* contract: a dispatch is handed to one window at a time, started at most once,
\* completed on a proof and cancelled only unsent.
THEOREM BridgeKeepsContract ==
  ASSUME "CANCELLED" \notin WireStates
  PROVE  Spec => KeepsContract
<1>1. Init => Contract!Init
  <2> SUFFICES ASSUME Init PROVE Contract!Init
    OBVIOUS
  <2>1. Life(NewJob) = Contract!Unborn
    BY DEF Life, NewJob, Status, Contract!Unborn
  <2>2. lives = [d \in Job |-> Contract!Unborn]
    BY <2>1 DEF Init, lives
  <2> QED  BY <2>2 DEF Contract!Init, lives
<1>2. Init => Backed /\ IngestionTyped
  BY InitBacked, Bounds DEF Init, IngestionTyped, Finishing, HandoffRecord
<1>3. Consistent /\ IngestionTyped /\ Backed /\ [Next]_vars => IngestionTyped' /\ Backed'
  BY StepBacked, IngestionStep
<1>4. ASSUME Consistent, IngestionTyped, Backed, [Next]_vars
      PROVE  [Contract!Next]_<<lives, handedOff>>
  <2>1. ASSUME NEW p \in Project, NEW d \in Job, WriteHandoff(p, d)
        PROVE  Contract!Next
    BY <1>4, <2>1, PublishStep DEF Contract!Next
  <2>2. CASE handoff' = handoff /\ LawfulStep
    <3>1. \A d \in Job : Closes(d) => handoff[job[d].project].written
      BY <1>4, ClosesProven
    <3> QED  BY <1>4, <2>2, <3>1, ContractAdvance DEF Contract!Next
  <2>3. ASSUME NEW p \in Project, NEW d \in Job, OpenStep(p, d), handoff' = handoff
        PROVE  Contract!Next
    BY <1>4, <2>3, ContractEnqueue DEF Contract!Next
  <2> QED  BY <1>4, <2>1, <2>2, <2>3, NextIngests, StepKinds, CalmIsLawful DEF Ingests
<1>5. Consistent /\ IngestionTyped /\ Backed /\ [Next]_vars
        => [Contract!Next]_<<[d \in Job |-> Life(job[d])], {p \in Project : handoff[p].written}>>
  BY <1>4 DEF lives, handedOff
<1> QED  BY <1>1, <1>2, <1>3, <1>5, Consistency, PTL DEF Spec, KeepsContract, Contract!Spec
=============================================================================
