--------------------------- MODULE BrowserDispatch ---------------------------
(***************************************************************************)
(* The Bridge's authority over browser audits (bridge/browser_dispatch.py).*)
(*                                                                         *)
(* A dispatch is one audit of one project.  A browser window (a "worker")  *)
(* claims it under a lease, attaches the archive, and crosses the          *)
(* START_PREPARED boundary: from there the prompt may have been sent, so   *)
(* the dispatch is never handed to a second window.  The Bridge keeps the  *)
(* jobs in memory and writes all of them to jobs.json after every change;  *)
(* the worker registry lives in memory only.                               *)
(*                                                                         *)
(* Every action below is one section of code under BrowserDispatcher._lock.*)
(* Requests reach the Bridge from several HTTP threads and from the        *)
(* supervisor thread, so the sections interleave freely.  Time is counted  *)
(* in ticks by countdowns; Tick advances all of them.                      *)
(***************************************************************************)
EXTENDS Naturals, FiniteSets

CONSTANTS
  Worker, NoWorker,     \* browser windows, by worker_id
  Project, NoProject,   \* registered projects, by project_id
  Token, NoToken,       \* START receipts
  WireStates,           \* job states that workers report to the Bridge
  MaxJobs,              \* bound: dispatches ever created
  MaxClaims,            \* bound: claims of one dispatch
  MaxRetries,           \* PRE_START_MAX_RETRIES
  QueueBound,           \* QUEUE_BOUND
  LeaseTicks,           \* LEASE_SECONDS
  WorkerTTL,            \* WORKER_TTL_SECONDS
  OwnerGrace,           \* PRE_START_OWNER_GRACE_SECONDS
  AbandonGrace,         \* grace of reconcile_abandoned_runs
  RecoveryGrace,        \* POST_START_RECOVERY_GRACE_SECONDS
  FaultyDisk            \* TRUE when a write of jobs.json may fail

ASSUME NoneAssumption ==
  NoWorker \notin Worker /\ NoProject \notin Project /\ NoToken \notin Token

ASSUME BoundAssumption ==
  /\ {MaxJobs, MaxClaims, MaxRetries, QueueBound} \subseteq Nat
  /\ {WorkerTTL, OwnerGrace, AbandonGrace, RecoveryGrace} \subseteq Nat
  /\ LeaseTicks \in Nat \ {0}
  /\ FaultyDisk \in BOOLEAN
  /\ RecoveryGrace >= OwnerGrace
  /\ RecoveryGrace >= AbandonGrace + WorkerTTL

-----------------------------------------------------------------------------
(* Job states and the legal moves between them. *)

PreOwned  == {"LEASED", "ARTIFACT_FETCHED", "ATTACHED"}
PreStart  == PreOwned \cup {"RETRYABLE"}
PostStart == {"START_PREPARED", "STARTED", "AUDITING", "FINALIZING"}
Terminal  == {"COMPLETE", "FAILED", "CANCELLED"}
JobState  == {"NONE", "QUEUED", "BLOCKED"} \cup PreStart \cup PostStart \cup Terminal

ASSUME WireAssumption == WireStates \subseteq JobState \ {"NONE"}

\* JOB_TRANSITIONS, as the set of states reachable from each state.
Successors == [s \in JobState |->
  CASE s = "QUEUED"           -> {"LEASED", "CANCELLED"}
    [] s = "LEASED"           -> {"ARTIFACT_FETCHED", "RETRYABLE", "BLOCKED", "FAILED"}
    [] s = "ARTIFACT_FETCHED" -> {"ATTACHED", "RETRYABLE", "BLOCKED", "FAILED"}
    [] s = "ATTACHED"         -> {"START_PREPARED", "RETRYABLE", "BLOCKED", "FAILED"}
    [] s = "START_PREPARED"   -> {"STARTED", "BLOCKED", "FAILED"}
    [] s = "STARTED"          -> {"AUDITING", "FINALIZING", "COMPLETE", "BLOCKED", "FAILED"}
    [] s = "AUDITING"         -> {"FINALIZING", "COMPLETE", "BLOCKED", "FAILED"}
    [] s = "FINALIZING"       -> {"COMPLETE"}
    [] s = "RETRYABLE"        -> {"QUEUED", "BLOCKED"}
    [] s = "BLOCKED"          -> {"CANCELLED", "FAILED"}
    [] OTHER                  -> {}]

-----------------------------------------------------------------------------
(* State. *)

Job == 1..MaxJobs        \* dispatch ids, in order of creation
Lease == 0..MaxClaims    \* lease tokens: the claim that minted them; 0 is none

\* No test of an age tells larger values apart; ages stop counting here.
AgeCap == RecoveryGrace + 1

VARIABLES
  job,        \* _jobs
  disk,       \* jobs.json, and with it _committed_jobs
  worker,     \* _workers
  saved,      \* _committed_workers: the fields in _OWNED_WORKER_FIELDS
  handoff,    \* the last final handoff written for each project
  finishing   \* the request that wrote it, past its commit

vars == <<job, disk, worker, saved, handoff, finishing>>

\* left counts down to the lease's expiry, age counts up from updated_at,
\* waiting is the retry backoff, bound says that a campaign_run_id is known,
\* proven that final_handoff_path is set.
JobRecord ==
  [state: JobState, project: Project \cup {NoProject},
   owner: Worker \cup {NoWorker}, lease: Lease, left: 0..LeaseTicks,
   age: 0..AgeCap, claims: 0..MaxClaims, retries: 0..MaxRetries + 1,
   waiting: BOOLEAN, bound: BOOLEAN, receipt: Token \cup {NoToken},
   recovery: PostStart \cup {"NONE"}, proven: BOOLEAN]

\* unseen counts from last_seen_at; clean is the window's clean_for_audit
\* report, open a state of FREE or RESERVED (of a clean window: nothing reads
\* the state of another), busy a campaign_run_id.
WorkerRecord ==
  [up: BOOLEAN, unseen: 0..WorkerTTL + 1,
   clean: BOOLEAN, open: BOOLEAN, busy: BOOLEAN]

NewJob ==
  [state |-> "NONE", project |-> NoProject, owner |-> NoWorker, lease |-> 0,
   left |-> 0, age |-> 0, claims |-> 0, retries |-> 0, waiting |-> FALSE,
   bound |-> FALSE, receipt |-> NoToken, recovery |-> "NONE", proven |-> FALSE]

Gone == [up |-> FALSE, unseen |-> 0, clean |-> FALSE, open |-> FALSE, busy |-> FALSE]

\* by is the dispatch whose window produced the handoff, at the number of
\* dispatches that existed when it was written: both 0 for an older audit.
HandoffRecord == [written: BOOLEAN, by: 0..MaxJobs, at: 0..MaxJobs]

Init ==
  /\ job = [d \in Job |-> NewJob]
  /\ disk = job
  /\ worker = [w \in Worker |-> Gone]
  /\ saved = [w \in Worker |-> [up |-> FALSE, open |-> FALSE, busy |-> FALSE]]
  /\ handoff \in [Project -> [written: BOOLEAN, by: {0}, at: {0}]]
  /\ finishing = [p \in Project |-> "idle"]

-----------------------------------------------------------------------------
(* Predicates of a job record. *)

\* Mutant: a recovery_state is taken for a recovery block in any state.
RecoveringByField(j) == j.recovery \in PostStart

Recovering(j) == j.state = "BLOCKED" /\ j.recovery \in PostStart
InFlight(j)   == j.state \in PostStart \/ Recovering(j)
Live(j)       == j.state \in {"QUEUED"} \cup PreStart \cup PostStart
Open(j)       == j.state \notin Terminal \cup {"NONE"}

\* Mutant: a BLOCKED job is disposable unless a recovery_state says otherwise.
SafePrestartCancelByRecovery(j) ==
  j.state \notin PostStart /\ (j.state = "BLOCKED" => j.recovery \notin PostStart)

\* Positive evidence that no irreversible START occurred.
SafePrestartCancel(j) ==
  /\ j.state \notin PostStart
  /\ j.state = "BLOCKED" => /\ j.recovery \notin PostStart
                           /\ j.receipt = NoToken
                           /\ ~j.bound

\* _require_owner: the request proves the identity the claim handed out.
Owns(j, w, l) ==
  /\ j.owner = w
  /\ j.lease = l
  /\ j.state \in Terminal \/ j.left > 0

\* A job that is over: nothing reads its clocks any more.
Ended(j, state) == [j EXCEPT !.state = state, !.left = 0, !.age = 0]

Completed(j) == [Ended(j, "COMPLETE") EXCEPT !.proven = TRUE]

\* Mutant: the lease of the previous claim stays.
ReleasedWithLease(j) == [j EXCEPT !.owner = NoWorker, !.left = 0, !.age = 0]

\* A job with no owner and no lease, as every return to the queue leaves it.
Released(j) == [j EXCEPT !.owner = NoWorker, !.lease = 0, !.left = 0, !.age = 0]

Renewed(j) == [j EXCEPT !.left = LeaseTicks, !.age = 0]

Created == Cardinality({d \in Job : job[d].state # "NONE"})

-----------------------------------------------------------------------------
(* Predicates of the worker registry. *)

OwnsLive(w) == \E d \in Job : job[d].owner = w /\ Live(job[d])

\* Nothing ties the window to a run: only such a window may be dropped.
Idle(w) == ~worker[w].busy /\ ~OwnsLive(w)

\* Who may lose its lane when window w comes: _retire_duplicate_slots and the
\* capacity rules of register_worker drop idle windows only.
Evictable(w) == SUBSET {v \in Worker \ {w} : Idle(v)}

\* _expire_workers, with the windows that lose their lane to another.
Registry(evicted) ==
  [w \in Worker |->
     IF worker[w].unseen > WorkerTTL \/ w \in evicted THEN Gone ELSE worker[w]]

SetWorker(w, isOpen, isBusy) ==
  IF worker[w].up THEN [worker EXCEPT ![w].open = isOpen /\ worker[w].clean, ![w].busy = isBusy]
                  ELSE worker

Free(w) == SetWorker(w, TRUE, FALSE)

-----------------------------------------------------------------------------
(* _persist_jobs: the jobs and the registry nj, nw that a section computed  *)
(* are committed together, or neither the jobs nor the ownership fields of  *)
(* the workers move from where the last commit left them.  Only a failed    *)
(* write reads saved: a disk that never fails keeps no snapshot in it.      *)

Commit(nj, nw) ==
  /\ job' = nj
  /\ disk' = nj
  /\ worker' = nw
  /\ saved' = IF FaultyDisk
                THEN [w \in Worker |->
                       [up |-> nw[w].up, open |-> nw[w].open, busy |-> nw[w].busy]]
                ELSE saved

RollBack(nw) ==
  /\ FaultyDisk
  /\ job' = disk
  /\ worker' = [w \in Worker |->
       IF nw[w].up /\ saved[w].up
         THEN [nw[w] EXCEPT !.open = saved[w].open /\ nw[w].clean, !.busy = saved[w].busy]
         ELSE nw[w]]
  /\ UNCHANGED <<disk, saved>>

\* Mutant: a failed write leaves memory ahead of the disk.
PersistOrKeep(nj, nw) ==
  Commit(nj, nw) \/ (FaultyDisk /\ job' = nj /\ worker' = nw /\ UNCHANGED <<disk, saved>>)

Persist(nj, nw) == Commit(nj, nw) \/ RollBack(nw)

\* A section that changes memory without writing jobs.json.
InMemory(nj, nw) ==
  /\ job' = nj
  /\ worker' = nw
  /\ UNCHANGED <<disk, saved>>

PutJob(d, j) == [job EXCEPT ![d] = j]

external == <<handoff, finishing>>

-----------------------------------------------------------------------------
(* The queue. *)

\* Dispatch ids are handed out in order.
Fresh(d) == job[d].state = "NONE" /\ \A e \in Job : e < d => job[e].state # "NONE"

Queued(p) == [NewJob EXCEPT !.state = "QUEUED", !.project = p]

\* Mutant: only live jobs count as the project's active dispatch.
EnqueueBesideBlocked(p, d) ==
  /\ Fresh(d)
  /\ Cardinality({e \in Job : Open(job[e])}) < QueueBound
  /\ \A e \in Job : job[e].project = p => ~Live(job[e])
  /\ Persist(PutJob(d, Queued(p)), worker)
  /\ UNCHANGED external

\* enqueue_job refuses a project that has an open dispatch.
EnqueueJob(p, d) ==
  /\ Fresh(d)
  /\ Cardinality({e \in Job : Open(job[e])}) < QueueBound
  /\ \A e \in Job : job[e].project = p => ~Open(job[e])
  /\ Persist(PutJob(d, Queued(p)), worker)
  /\ UNCHANGED external

Eligible(j) ==
  /\ j.state = "QUEUED" \/ (j.state = "RETRYABLE" /\ ~j.waiting)
  /\ j.claims < MaxClaims

FreeForClaim(w) ==
  worker[w].clean /\ worker[w].open /\ ~worker[w].busy /\ ~OwnsLive(w)

\* claim_job, for any eligible job d: the line's order is not modelled here.
ClaimJob(w, d) ==
  /\ Eligible(job[d])
  /\ FreeForClaim(w)
  /\ \E evicted \in Evictable(w) :
       /\ Registry(evicted)[w].up
       /\ Persist(PutJob(d, [job[d] EXCEPT !.state = "LEASED", !.owner = w,
                               !.lease = job[d].claims + 1, !.claims = @ + 1,
                               !.left = LeaseTicks, !.age = 0]),
                  [Registry(evicted) EXCEPT ![w].unseen = 0])
  /\ UNCHANGED external

\* claim_job with nothing for this window still counts as a heartbeat: it may
\* hold every eligible job back for a window that is on the job's profile.
ClaimNothing(w) ==
  /\ \E evicted \in Evictable(w) :
       /\ Registry(evicted)[w].up
       /\ InMemory(job, [Registry(evicted) EXCEPT ![w].unseen = 0])
  /\ UNCHANGED external

-----------------------------------------------------------------------------
(* The worker registry: register_worker, and the polls it begins. *)

\* What a window can report: clean and free, showing something else (a lease,
\* a draft, a conversation), or running an audit.
Reports ==
  {[clean |-> TRUE,  open |-> TRUE,  busy |-> FALSE],
   [clean |-> FALSE, open |-> FALSE, busy |-> FALSE],
   [clean |-> FALSE, open |-> FALSE, busy |-> TRUE]}

\* The registry once window w has reported r.
Seen(w, r, evicted) ==
  [Registry(evicted) EXCEPT ![w] = [up |-> TRUE, unseen |-> 0, clean |-> r.clean,
                                    open |-> r.open, busy |-> r.busy]]

RegisterWorker(w) ==
  /\ \E r \in Reports, evicted \in Evictable(w) : InMemory(job, Seen(w, r, evicted))
  /\ UNCHANGED external

\* The report names a lease the window holds: renew_lease.
RenewLease(w, d, l) ==
  /\ Owns(job[d], w, l)
  /\ Live(job[d])
  /\ \E r \in Reports, evicted \in Evictable(w) :
       /\ ~r.clean
       /\ InMemory(PutJob(d, Renewed(job[d])), Seen(w, r, evicted))
  /\ UNCHANGED external

\* The report names the lease of a run that a restart or an expiry blocked.
ReconcileJob(w, d, l, rc) ==
  /\ Recovering(job[d])
  /\ job[d].owner = w /\ job[d].lease = l
  /\ rc = NoToken \/ rc = job[d].receipt \/ job[d].receipt = NoToken
  /\ \E r \in Reports, evicted \in Evictable(w) :
       /\ ~r.clean
       /\ Persist(PutJob(d, Renewed([job[d] EXCEPT !.state = job[d].recovery])),
                  [Seen(w, r, evicted) EXCEPT ![w].open = FALSE, ![w].busy = job[d].bound])
  /\ UNCHANGED external

\* The report says OFFLINE: the window is closing.
GoOffline(w) ==
  /\ worker[w].up
  /\ InMemory(job, Registry({w}))
  /\ UNCHANGED external

\* renew_owner_lease.  Before the boundary the poll must declare the dispatch.
RenewOwnerLease(w, declared) ==
  \E d \in Job :
    LET held == {e \in Job : job[e].owner = w /\ job[e].state \in PreOwned \cup PostStart} IN
    /\ d \in held /\ \A e \in held : d <= e
    /\ job[d].state \in PreOwned => declared = d
    /\ InMemory(PutJob(d, [job[d] EXCEPT !.left = LeaseTicks]), worker)
    /\ UNCHANGED external

\* status, called by the supervisor, the HTTP handlers and the desktop.
ExpireWorkers ==
  /\ \E w \in Worker : worker[w].unseen > WorkerTTL
  /\ InMemory(job, Registry({}))
  /\ UNCHANGED external

-----------------------------------------------------------------------------
(* transition_job: a worker's report that dispatch d, held under lease l,  *)
(* reached state to.  The report may carry a run id (b) and a receipt (rc);*)
(* windows send a receipt with START_PREPARED only.                        *)

Payload(to) == IF to = "START_PREPARED" THEN BOOLEAN \X (Token \cup {NoToken})
               ELSE IF to \in PostStart THEN BOOLEAN \X {NoToken}
               ELSE {<<FALSE, NoToken>>}

\* Mutant: a second receipt replaces the first.
AgreesAlways(j, rc) == TRUE

\* _apply_transition_metadata, and its refusal of a second receipt.
Agrees(j, rc) == rc = NoToken \/ j.receipt \in {NoToken, rc}

Bind(j, b, rc) == [j EXCEPT !.bound = @ \/ b,
                            !.receipt = IF rc = NoToken THEN @ ELSE rc]

\* The worker's state after its report was accepted.
Worked(w, to, j) ==
  SetWorker(w, FALSE, IF to \in {"STARTED", "AUDITING", "FINALIZING"} THEN j.bound
                                                                      ELSE worker[w].busy)

\* A lost response makes the worker repeat the same report.
Acknowledge(d, w, l, b, rc) ==
  LET to == job[d].state  j == Bind(job[d], b, rc) IN
  /\ to \in WireStates
  /\ Owns(job[d], w, l)
  /\ <<b, rc>> \in Payload(to)
  /\ Agrees(job[d], rc)
  /\ Persist(PutJob(d, IF to \in Terminal \cup {"BLOCKED"} THEN [j EXCEPT !.age = 0]
                                                          ELSE Renewed(j)),
             worker)
  /\ UNCHANGED external

\* START_PREPARED repeated after the dispatch moved on.
ReassertStart(d, w, l, b, rc) ==
  /\ "START_PREPARED" \in WireStates
  /\ Owns(job[d], w, l)
  /\ job[d].state \in PostStart \ {"START_PREPARED"}
  /\ rc = job[d].receipt
  /\ Persist(PutJob(d, Renewed(Bind(job[d], b, rc))), worker)
  /\ UNCHANGED external

Advance(d, w, l, to, b, rc) ==
  LET j == Bind(job[d], b, rc) IN
  /\ to \in WireStates \cap (PreOwned \cup PostStart)
  /\ Owns(job[d], w, l)
  /\ to \in Successors[job[d].state]
  /\ <<b, rc>> \in Payload(to)
  /\ Agrees(job[d], rc)
  /\ to = "START_PREPARED" => j.receipt # NoToken
  /\ Persist(PutJob(d, Renewed([j EXCEPT !.state = to])), Worked(w, to, j))
  /\ UNCHANGED external

\* A START_PREPARED refused for its receipt has already bound its run id.
RefuseStart(d, w, l, rc) ==
  /\ "START_PREPARED" \in WireStates
  /\ Owns(job[d], w, l)
  /\ \/ job[d].state = "ATTACHED" /\ rc = NoToken /\ job[d].receipt = NoToken
     \/ job[d].state = "START_PREPARED" /\ ~Agrees(job[d], rc)
  /\ InMemory(PutJob(d, [job[d] EXCEPT !.bound = TRUE]), worker)
  /\ UNCHANGED external

\* Mutant: the report itself is taken for the proof.
ReportCompleteOnWord(d, w, l, confirmed) ==
  /\ "COMPLETE" \in WireStates
  /\ Owns(job[d], w, l)
  /\ "COMPLETE" \in Successors[job[d].state]
  /\ Persist(PutJob(d, Completed(job[d])), Free(w))
  /\ UNCHANGED external

\* COMPLETE is honoured against a handoff on disk, else held at FINALIZING.
ReportComplete(d, w, l, confirmed) ==
  /\ "COMPLETE" \in WireStates
  /\ Owns(job[d], w, l)
  /\ "COMPLETE" \in Successors[job[d].state]
  /\ confirmed => handoff[job[d].project].written
  /\ IF confirmed \/ job[d].proven
       THEN Persist(PutJob(d, Completed(job[d])), Free(w))
       ELSE Persist(PutJob(d, [job[d] EXCEPT !.state = "FINALIZING", !.age = 0]),
                    Worked(w, "FINALIZING", job[d]))
  /\ UNCHANGED external

\* BLOCKED, FAILED and CANCELLED keep the owner and the lease.
ReportStopped(d, w, l, to) ==
  /\ to \in WireStates \cap {"BLOCKED", "FAILED", "CANCELLED"}
  /\ Owns(job[d], w, l)
  /\ to \in Successors[job[d].state]
  /\ Persist(PutJob(d, IF to = "BLOCKED" THEN [job[d] EXCEPT !.state = to, !.age = 0]
                                        ELSE Ended(job[d], to)),
             IF to = "CANCELLED" THEN worker ELSE Worked(w, to, job[d]))
  /\ UNCHANGED external

\* Mutant: retries are counted but never exhausted.
ReportRetryableForever(d, w, l) ==
  /\ "RETRYABLE" \in WireStates
  /\ Owns(job[d], w, l)
  /\ "RETRYABLE" \in Successors[job[d].state]
  /\ Persist(PutJob(d, Released([job[d] EXCEPT !.state = "RETRYABLE",
                                              !.retries = @ + 1, !.waiting = TRUE])),
             SetWorker(w, TRUE, worker[w].busy))
  /\ UNCHANGED external

\* The last allowed retry blocks the dispatch instead of requeueing it.
ReportRetryable(d, w, l) ==
  /\ "RETRYABLE" \in WireStates
  /\ Owns(job[d], w, l)
  /\ "RETRYABLE" \in Successors[job[d].state]
  /\ Persist(PutJob(d, IF job[d].retries >= MaxRetries
                         THEN Released([job[d] EXCEPT !.state = "BLOCKED", !.retries = @ + 1])
                         ELSE Released([job[d] EXCEPT !.state = "RETRYABLE",
                                                      !.retries = @ + 1, !.waiting = TRUE])),
             SetWorker(w, TRUE, worker[w].busy))
  /\ UNCHANGED external

\* RETRYABLE -> QUEUED asks for no owner: the job has none.
RequeueRetryable(d, w) ==
  /\ "QUEUED" \in WireStates
  /\ job[d].state = "RETRYABLE"
  /\ Persist(PutJob(d, Released([job[d] EXCEPT !.state = "QUEUED"])),
             SetWorker(w, TRUE, worker[w].busy))
  /\ UNCHANGED external

Report(d, w, l) ==
  \/ \E to \in WireStates : \E b \in BOOLEAN : \E rc \in Token \cup {NoToken} :
       Advance(d, w, l, to, b, rc)
  \/ \E b \in BOOLEAN, rc \in Token \cup {NoToken} :
       Acknowledge(d, w, l, b, rc) \/ ReassertStart(d, w, l, b, rc)
  \/ \E rc \in Token \cup {NoToken} : RefuseStart(d, w, l, rc)
  \/ \E confirmed \in BOOLEAN : ReportComplete(d, w, l, confirmed)
  \/ \E to \in WireStates : ReportStopped(d, w, l, to)
  \/ ReportRetryable(d, w, l)
  \/ RequeueRetryable(d, w)

-----------------------------------------------------------------------------
(* The operator. *)

AbandonJob(d) ==
  /\ job[d].state \in PostStart \cup {"BLOCKED"}
  /\ ~SafePrestartCancel(job[d])
  /\ Persist(PutJob(d, Released([job[d] EXCEPT !.state = "FAILED"])),
             IF job[d].owner \in Worker THEN Free(job[d].owner) ELSE worker)
  /\ UNCHANGED external

\* The owner and the lease stay, for the window to see its cancellation.
CancelJob(d) ==
  /\ job[d].state \in {"QUEUED", "BLOCKED"} \cup PreStart
  /\ job[d].state = "BLOCKED" => SafePrestartCancel(job[d])
  /\ Persist(PutJob(d, Ended(job[d], "CANCELLED")), worker)
  /\ UNCHANGED external

-----------------------------------------------------------------------------
(* Passes over all jobs.  Each writes jobs.json only if it moved a job.    *)

Registered(j) == j.owner \in Worker /\ worker[j.owner].up

\* The registry after every owner of the jobs in ds was set FREE.
FreeOwners(ds) ==
  [w \in Worker |-> IF worker[w].up /\ \E d \in ds : job[d].owner = w
                      THEN [worker[w] EXCEPT !.open = worker[w].clean, !.busy = FALSE]
                      ELSE worker[w]]

\* Mutant: a dispatch that only prepared its START counts as pre-START work.
StrandedPrepared(j) ==
  /\ j.state \in PreOwned \cup {"START_PREPARED"}
  /\ j.left = 0 \/ (~Registered(j) /\ j.owner \in Worker /\ j.age > OwnerGrace)

\* Pre-START work whose lease ran out, or whose window is gone.
Stranded(j) ==
  /\ j.state \in PreOwned
  /\ j.left = 0 \/ (~Registered(j) /\ j.owner \in Worker /\ j.age > OwnerGrace)

Overdue(j) == j.state \in PostStart /\ j.left = 0
Present(j) == Registered(j) /\ worker[j.owner].unseen <= WorkerTTL

\* What expire_leases makes of a job: stranded work goes back to the queue; a run
\* past START is renewed while its window heartbeats, and blocked otherwise.
Swept(j) ==
  CASE Stranded(j)               -> Released([j EXCEPT !.state = "QUEUED"])
    [] Overdue(j) /\ ~Present(j) -> [j EXCEPT !.recovery = j.state, !.state = "BLOCKED", !.age = 0]
    [] Overdue(j) /\ Present(j)  -> [j EXCEPT !.left = LeaseTicks]
    [] OTHER                     -> j

ExpireLeases ==
  LET nj == [d \in Job |-> Swept(job[d])] IN
  /\ nj # job
  /\ IF \E d \in Job : Stranded(job[d]) \/ (Overdue(job[d]) /\ ~Present(job[d]))
       THEN Persist(nj, worker)
       ELSE InMemory(nj, worker)
  /\ UNCHANGED external

\* A live window that reports itself clean long after the run's last progress
\* contradicts the run: the dispatch is blocked and loses its owner.
Contradicted(j) ==
  /\ j.state \in PostStart
  /\ Present(j)
  /\ j.age > AbandonGrace + worker[j.owner].unseen
  /\ worker[j.owner].clean /\ ~worker[j.owner].busy

Disowned(j) ==
  IF Contradicted(j) THEN Released([j EXCEPT !.recovery = j.state, !.state = "BLOCKED"]) ELSE j

ReconcileAbandonedRuns ==
  /\ \E d \in Job : Contradicted(job[d])
  /\ Persist([d \in Job |-> Disowned(job[d])], worker)
  /\ UNCHANGED external

\* Mutant: a run that lost its owner is never given up.
UnrecoverableOwned(j) ==
  InFlight(j) /\ j.owner \in Worker /\ ~Registered(j) /\ j.age > RecoveryGrace

\* A run whose window never came back.
Unrecoverable(j) == InFlight(j) /\ ~Registered(j) /\ j.age > RecoveryGrace

GivenUp(j) ==
  IF Unrecoverable(j) THEN [Ended(j, "FAILED") EXCEPT !.recovery = "NONE"] ELSE j

ExpireUnrecoverableRuns ==
  /\ \E d \in Job : Unrecoverable(job[d])
  /\ Persist([d \in Job |-> GivenUp(job[d])], worker)
  /\ UNCHANGED external

-----------------------------------------------------------------------------
(* Completion: the audit ingestion and the supervisor. *)

Complete(ds) == [d \in Job |-> IF d \in ds THEN Completed(job[d]) ELSE job[d]]

\* Mutants: the handoff's age is ignored; runs blocked for recovery are left out.
ClosableEver(p, last) == {d \in Job : InFlight(job[d]) /\ job[d].project = p}
ClosableLive(p, last) ==
  {d \in Job : d <= last /\ job[d].state \in PostStart /\ job[d].project = p}

\* complete_runs_for_project closes every run of p among the dispatches 1..last.
Closable(p, last) == {d \in Job : d <= last /\ InFlight(job[d]) /\ job[d].project = p}

\* The ingestion of a final wave committed the handoff of the run that a window
\* started for dispatch d: the window may be long past what the Bridge knows.
WriteHandoff(p, d) ==
  /\ finishing[p] = "idle"
  /\ job[d].project = p /\ job[d].receipt # NoToken
  /\ handoff' = [handoff EXCEPT ![p] = [written |-> TRUE, by |-> d, at |-> Created]]
  /\ finishing' = [finishing EXCEPT ![p] = "run"]
  /\ UNCHANGED <<job, disk, worker, saved>>

\* The same request then closes the dispatch of that run, if it finds one: the
\* run id of the campaign need not be the one that the dispatch recorded.
CompleteForRun(p) ==
  LET ds == {d \in Job : /\ d = handoff[p].by
                         /\ \/ job[d].state \in {"AUDITING", "FINALIZING"}
                            \/ Recovering(job[d])}
  IN
  /\ finishing[p] = "run"
  /\ \/ /\ ds # {}
        /\ Commit(Complete(ds), FreeOwners(ds))
        /\ finishing' = [finishing EXCEPT ![p] = "project"]
     \/ /\ ds # {}
        /\ RollBack(FreeOwners(ds))
        /\ finishing' = [finishing EXCEPT ![p] = "idle"]
     \/ /\ finishing' = [finishing EXCEPT ![p] = "project"]
        /\ UNCHANGED <<job, disk, worker, saved>>
  /\ UNCHANGED handoff

\* ... and then every run of the project, with no look at the handoff's age.
CompleteRunsForProject(p) ==
  LET ds == Closable(p, MaxJobs) IN
  /\ finishing[p] = "project"
  /\ finishing' = [finishing EXCEPT ![p] = "idle"]
  /\ IF ds # {} THEN Persist(Complete(ds), FreeOwners(ds))
                ELSE UNCHANGED <<job, disk, worker, saved>>
  /\ UNCHANGED handoff

\* The supervisor reaches the same conclusion late, on a handoff written when there
\* were so many dispatches.
CompleteOnVerdict(p, at) ==
  LET ds == Closable(p, at) IN
  /\ handoff[p].written
  /\ ds # {}
  /\ Persist(Complete(ds), FreeOwners(ds))
  /\ UNCHANGED external

\* It asks for the handoff before it takes the lock: while it does, a run may end,
\* another one begin, and a newer handoff may be written.
ReconcileFinishedCampaigns(p) == \E at \in 0..handoff[p].at : CompleteOnVerdict(p, at)

-----------------------------------------------------------------------------
(* The Bridge stops and starts again; time passes. *)

\* Mutant: a dispatch that only prepared its START is requeued.
LoadedBeforeSend(j) ==
  CASE j.state \in PreStart \cup {"START_PREPARED"} -> Released([j EXCEPT !.state = "QUEUED"])
    [] j.state \in PostStart -> [j EXCEPT !.recovery = j.state, !.state = "BLOCKED", !.age = 0]
    [] OTHER -> j

\* _load_jobs
Loaded(j) ==
  CASE j.state \in PreStart  -> Released([j EXCEPT !.state = "QUEUED"])
    [] j.state \in PostStart -> [j EXCEPT !.recovery = j.state, !.state = "BLOCKED", !.age = 0]
    [] OTHER -> j

Restart ==
  /\ Commit([d \in Job |-> Loaded(disk[d])], [w \in Worker |-> Gone])
  /\ finishing' = [p \in Project |-> "idle"]
  /\ UNCHANGED handoff

\* The clocks that some test still reads.
Older(j) ==
  IF j.state \in PreOwned \cup PostStart \cup {"BLOCKED"}
    THEN [j EXCEPT !.left = IF @ > 0 THEN @ - 1 ELSE 0,
                   !.age = IF @ < AgeCap THEN @ + 1 ELSE @,
                   !.waiting = FALSE]
    ELSE [j EXCEPT !.waiting = FALSE]

Tick ==
  /\ job' = [d \in Job |-> Older(job[d])]
  /\ disk' = [d \in Job |-> Older(disk[d])]
  /\ worker' = [w \in Worker |->
       IF worker[w].up /\ worker[w].unseen <= WorkerTTL
         THEN [worker[w] EXCEPT !.unseen = @ + 1]
         ELSE worker[w]]
  /\ UNCHANGED <<saved, handoff, finishing>>

-----------------------------------------------------------------------------

Next ==
  \/ \E p \in Project :
       \/ CompleteForRun(p) \/ CompleteRunsForProject(p)
       \/ ReconcileFinishedCampaigns(p)
       \/ \E d \in Job : EnqueueJob(p, d) \/ WriteHandoff(p, d)
  \/ \E w \in Worker :
       \/ RegisterWorker(w) \/ GoOffline(w) \/ ClaimNothing(w)
       \/ \E d \in Job : ClaimJob(w, d) \/ RenewOwnerLease(w, d)
       \/ \E d \in Job, l \in 1..MaxClaims :
            \/ RenewLease(w, d, l) \/ Report(d, w, l)
            \/ \E rc \in Token \cup {NoToken} : ReconcileJob(w, d, l, rc)
  \/ \E d \in Job : AbandonJob(d) \/ CancelJob(d)
  \/ ExpireWorkers \/ ExpireLeases \/ ReconcileAbandonedRuns
  \/ ExpireUnrecoverableRuns \/ Restart \/ Tick

Spec == Init /\ [][Next]_vars


\* Time passes, and each pass of DispatchSupervisor.tick runs again and again.
Fairness ==
  /\ WF_vars(Tick)
  /\ WF_vars(ExpireWorkers)
  /\ WF_vars(ExpireLeases)
  /\ WF_vars(ReconcileAbandonedRuns)
  /\ WF_vars(ExpireUnrecoverableRuns)
  /\ \A p \in Project : WF_vars(CompleteOnVerdict(p, handoff[p].at))

FairSpec == Spec /\ Fairness

-----------------------------------------------------------------------------
(* Properties. *)

\* Every variable keeps its type.
TypeOK ==
  /\ job \in [Job -> JobRecord]
  /\ disk \in [Job -> JobRecord]
  /\ worker \in [Worker -> WorkerRecord]
  /\ saved \in [Worker -> [up: BOOLEAN, open: BOOLEAN, busy: BOOLEAN]]
  /\ handoff \in [Project -> HandoffRecord]
  /\ finishing \in [Project -> {"idle", "run", "project"}]

Fenced(j) ==
  /\ j.state \in {"NONE", "QUEUED"} \cup PreStart => j.receipt = NoToken
  /\ j.state \in PostStart => j.receipt # NoToken
  /\ j.recovery # "NONE" => j.receipt # NoToken

\* The START boundary, in memory and in jobs.json: work that may still be given
\* to a window has no START receipt, and a run past START, or blocked there by
\* a restart or an expired lease, has one.
StartFence == \A d \in Job : Fenced(job[d]) /\ Fenced(disk[d])

\* Exactly-once: once a dispatch has its START receipt, no step, not a restart
\* and not a failed write, changes the receipt, mints another lease, gives the
\* dispatch to another window or takes it back to the waiting line.
NoSecondStart ==
  [][\A d \in Job : job[d].receipt # NoToken =>
       /\ job'[d].receipt = job[d].receipt
       /\ job'[d].claims = job[d].claims
       /\ job'[d].owner \in {job[d].owner, NoWorker}
       /\ job'[d].state \notin {"QUEUED"} \cup PreStart]_vars

\* What jobs.json records of a job; lease renewals and the run id of a refused
\* START are kept in memory only.
Durable(j) == [j EXCEPT !.left = 0, !.age = 0, !.bound = FALSE]

\* A failed write leaves memory where jobs.json is: no process ever acts on a
\* job state that a restart would not find.
MemoryMatchesDisk == \A d \in Job : Durable(job[d]) = Durable(disk[d])

\* A project never has two dispatches that are not over (enqueue_job refuses
\* the second, and no later step revives a first one).
OneOpenPerProject ==
  \A d, e \in Job :
    Open(job[d]) /\ Open(job[e]) /\ job[d].project = job[e].project => d = e

\* A window in possession holds the lease of the latest claim, and waiting work
\* belongs to no one: the token of an earlier claim never fits again.
LatestLeaseOnly ==
  \A d \in Job :
    /\ job[d].state \in PreOwned \cup PostStart =>
         job[d].owner # NoWorker /\ job[d].lease = job[d].claims
    /\ job[d].state \in {"NONE", "QUEUED", "RETRYABLE"} =>
         job[d].owner = NoWorker /\ job[d].lease = 0

\* COMPLETE is reached by runs that crossed START and whose project has a final
\* handoff on disk; it is never minted from a report alone.
CompletionIsProven ==
  \A d \in Job : job[d].state = "COMPLETE" =>
    /\ job[d].receipt # NoToken
    /\ job[d].proven
    /\ handoff[job[d].project].written

\* CANCELLED says that no prompt was sent: it never covers a dispatch that has
\* a START receipt.
CancelledWasNotSent ==
  \A d \in Job : job[d].state = "CANCELLED" => job[d].receipt = NoToken

\* A dispatch that is over stays over, across failed writes and restarts.
TerminalIsFinal ==
  [][\A d \in Job : job[d].state \in Terminal => job'[d].state = job[d].state]_vars

Closes(d) == job[d].state # "COMPLETE" /\ job'[d].state = "COMPLETE"

\* Outside the ingestion request that wrote the handoff, nothing closes a
\* dispatch on a handoff older than the dispatch.
LateClosureIsFresh ==
  [][\A d \in Job : Closes(d) /\ finishing' = finishing =>
       d <= handoff[job[d].project].at]_vars

\* Nothing stays in the hands of a window that is gone: work held or started by
\* a window always ends, returns to the line, is seen again or is heard from.
StrandedWorkMovesOn ==
  \A d \in Job : []<>(\/ job[d].state \notin PreOwned /\ ~InFlight(job[d])
                     \/ Registered(job[d])
                     \/ job[d].age = 0)

\* A run whose final handoff is on disk does not stay on the board, even if no
\* report of its window ever arrives.
FinishedRunsClose ==
  \A d \in Job :
    (/\ InFlight(job[d])
     /\ handoff[job[d].project].written
     /\ d <= handoff[job[d].project].at) ~> ~InFlight(job[d])

-----------------------------------------------------------------------------
(* The contract: what a caller of the Bridge is promised of each dispatch. *)

Status(j) ==
  CASE j.state = "NONE"                     -> "absent"
    [] j.state \in {"QUEUED", "RETRYABLE"}  -> "waiting"
    [] j.state \in PreOwned                 -> "held"
    [] j.state \in PostStart                -> "running"
    [] j.state = "BLOCKED"                  -> IF j.receipt = NoToken THEN "parked" ELSE "lost"
    [] j.state = "COMPLETE"                 -> "complete"
    [] j.state = "FAILED"                   -> "failed"
    [] j.state = "CANCELLED"                -> "cancelled"

Life(j) ==
  [status  |-> Status(j), project |-> j.project,
   holder  |-> IF Status(j) \in {"held", "running", "lost"} THEN j.owner ELSE NoWorker,
   fence   |-> j.claims, receipt |-> j.receipt]

Contract == INSTANCE DispatchContract
  WITH Dispatch <- Job, Receipt <- Token, NoReceipt <- NoToken,
       life     <- [d \in Job |-> Life(job[d])],
       proved   <- {p \in Project : handoff[p].written}

\* Every behaviour of the Bridge is one that the contract allows.
KeepsContract == Contract!Spec
=============================================================================
