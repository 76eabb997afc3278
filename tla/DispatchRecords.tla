-------------------------- MODULE DispatchRecords --------------------------
(***************************************************************************)
(* Lemmas about one dispatch, for every number of windows, projects,       *)
(* receipts and dispatches, and every value of the timers and bounds.      *)
(*                                                                         *)
(* Every section of the Bridge moves each dispatch by one of a few record  *)
(* changes.  Sound is what every record satisfies, in memory and on disk;  *)
(* Kept is what no step may do to a record.  Each lemma shows both for one *)
(* record change; DispatchSteps lifts them through _persist_jobs.          *)
(***************************************************************************)
EXTENDS BrowserDispatch, TLAPS

Field ==
  {"state", "project", "owner", "lease", "left", "age", "claims", "retries",
   "waiting", "bound", "receipt", "recovery", "proven"}

\* k agrees with j but for the fields in F.
Frame(j, k, F) == \A f \in Field \ F : k[f] = j[f]

\* The record type, in the form the provers work with: k is a record with these
\* fields, and each has its type.
Whole(k) ==
  k = [state |-> k.state, project |-> k.project, owner |-> k.owner,
       lease |-> k.lease, left |-> k.left, age |-> k.age, claims |-> k.claims,
       retries |-> k.retries, waiting |-> k.waiting, bound |-> k.bound,
       receipt |-> k.receipt, recovery |-> k.recovery, proven |-> k.proven]

Names(k) ==
  /\ k.state \in JobState /\ k.project \in Project \cup {NoProject}
  /\ k.owner \in Worker \cup {NoWorker} /\ k.receipt \in Token \cup {NoToken}
  /\ k.recovery \in PostStart \cup {"NONE"}

Numbers(k) ==
  /\ k.lease \in Lease /\ k.claims \in 0..MaxClaims /\ k.left \in 0..LeaseTicks
  /\ k.age \in 0..AgeCap /\ k.retries \in 0..MaxRetries + 1

Flags(k) == k.waiting \in BOOLEAN /\ k.bound \in BOOLEAN /\ k.proven \in BOOLEAN

Typed(k) == Names(k) /\ Numbers(k) /\ Flags(k)

\* Who holds a dispatch, and under which lease.
Held(j) ==
  /\ j.lease \in {0, j.claims}
  /\ j.state \in PreOwned \cup PostStart => j.owner \in Worker /\ j.lease = j.claims
  /\ j.state \in {"NONE", "QUEUED", "RETRYABLE"} => j.owner = NoWorker /\ j.lease = 0

\* How a dispatch may have ended.
Outcome(j) ==
  /\ j.proven <=> j.state = "COMPLETE"
  /\ j.proven => j.receipt # NoToken
  /\ j.state = "CANCELLED" /\ "CANCELLED" \notin WireStates => j.receipt = NoToken
  /\ j.retries > MaxRetries =>
       j.receipt = NoToken /\ j.state \in {"BLOCKED"} \cup Terminal

Sound(j) ==
  /\ Whole(j) /\ Typed(j)
  /\ IF j.state = "NONE" THEN j.project = NoProject /\ j.claims = 0
                         ELSE j.project \in Project
  /\ Fenced(j) /\ Held(j) /\ Outcome(j)

\* What no step does to a record: j before the step, k after it.
Kept(j, k) ==
  /\ j.state = "NONE" <=> k.state = "NONE"
  /\ k.project = j.project
  /\ j.state \in Terminal => k.state = j.state
  /\ j.receipt # NoToken =>
       /\ k.receipt = j.receipt
       /\ k.claims = j.claims
       /\ k.owner \in {j.owner, NoWorker}
       /\ k.state \notin {"QUEUED"} \cup PreStart

\* Where a record may have come from, state by state.
Moved(j, k) ==
  /\ k.state \in {"QUEUED", "RETRYABLE"} => j.state \in {"QUEUED"} \cup PreStart
  /\ k.state \in PreOwned =>
       \/ j.state \in PreOwned /\ k.owner = j.owner
       \/ j.state \in {"QUEUED", "RETRYABLE"} /\ k.claims = j.claims + 1
  /\ k.state \in PostStart =>
       \/ j.state \in PreOwned \cup PostStart /\ k.owner = j.owner
       \/ j.state = "BLOCKED" /\ j.receipt # NoToken /\ k.owner = j.owner
  /\ k.state = "BLOCKED" =>
       \/ j.state \in PreOwned \cup PostStart
       \/ j.state = "BLOCKED" /\ k.owner = j.owner
  /\ k.state = "FAILED" => j.state \in {"BLOCKED", "FAILED"} \cup PreOwned \cup PostStart
  /\ k.claims # j.claims => j.state \in {"QUEUED", "RETRYABLE"} /\ k.state \in PreOwned
  /\ k.receipt # j.receipt => j.state \in PreOwned /\ k.state \in PostStart

\* A step of one record, and one that does not complete the dispatch.
Lawful(j, k) == Sound(k) /\ Kept(j, k) /\ Moved(j, k)
Calm(j, k)   == Lawful(j, k) /\ (k.state = "COMPLETE" => j.state = "COMPLETE")

USE DEF PreOwned, PreStart, PostStart, Terminal, JobState, Lease

\* The bounds and the timers are numbers.
LEMMA Bounds ==
  /\ MaxJobs \in Nat /\ MaxClaims \in Nat /\ MaxRetries \in Nat /\ LeaseTicks \in Nat
  /\ WorkerTTL \in Nat /\ OwnerGrace \in Nat /\ AbandonGrace \in Nat
  /\ RecoveryGrace \in Nat /\ AgeCap \in Nat
  BY BoundAssumption DEF AgeCap

\* A record of type JobRecord, and its fields.
LEMMA Typing ==
  ASSUME NEW k
  PROVE  k \in JobRecord <=> Whole(k) /\ Typed(k)
<1>1. ASSUME k \in JobRecord PROVE Whole(k)
  BY <1>1 DEF Whole, JobRecord
<1>2. ASSUME k \in JobRecord PROVE Typed(k)
  BY <1>2 DEF Typed, Names, Numbers, Flags, JobRecord
<1>3. ASSUME Whole(k), Typed(k) PROVE k \in JobRecord
  BY <1>3 DEF Whole, Typed, Names, Numbers, Flags, JobRecord
<1> QED  BY <1>1, <1>2, <1>3

\* Where each reported state may be reached from.
LEMMA Reachable ==
  ASSUME NEW s \in JobState, NEW to \in Successors[s]
  PROVE  /\ s \notin {"NONE"} \cup Terminal
         /\ to = "LEASED" => s = "QUEUED"
         /\ to \in {"ARTIFACT_FETCHED", "ATTACHED"} => s \in PreOwned
         /\ to = "START_PREPARED" => s = "ATTACHED"
         /\ to \in {"STARTED", "AUDITING", "FINALIZING", "COMPLETE"} => s \in PostStart
         /\ to = "RETRYABLE" => s \in PreOwned
         /\ to = "CANCELLED" => s \in {"QUEUED", "BLOCKED"}
         /\ to = "BLOCKED" => s \in PreStart \cup PostStart
         /\ to = "FAILED" => s \in {"BLOCKED"} \cup PreOwned \cup PostStart
  BY DEF Successors

-----------------------------------------------------------------------------
(* Record changes. *)

\* A change of the clocks, the backoff or the run id is always good.
LEMMA ClockCalm ==
  ASSUME NEW j, Sound(j), NEW k, Whole(k), Typed(k),
         Frame(j, k, {"left", "age", "waiting", "bound"})
  PROVE  Calm(j, k)
  BY DEF Calm, Lawful, Sound, Kept, Moved, Fenced, Held, Outcome, Typed, Names, Numbers, Flags, Frame, Field

\* A dispatch that a step leaves alone.
LEMMA SameCalm ==
  ASSUME NEW j, Sound(j)
  PROVE  Calm(j, j)
  BY DEF Calm, Lawful, Sound, Kept, Moved, Fenced

\* Work that has not crossed START returns to the queue.
LEMMA RequeueCalm ==
  ASSUME NEW j, Sound(j), j.state \in PreStart,
         NEW k, k = Released([j EXCEPT !.state = "QUEUED"])
  PROVE  Calm(j, k)
<1>1. Whole(k) /\ Frame(j, k, {"state", "owner", "lease", "left", "age"})
  BY DEF Sound, Whole, Frame, Field, Released
<1>2. /\ k.state = "QUEUED"
      /\ k.owner = NoWorker
      /\ k.lease = 0
      /\ k.left = 0
      /\ k.age = 0
  BY DEF Sound, Whole, Released
<1>3. Names(k) /\ Flags(k)
  BY <1>1, <1>2 DEF Sound, Typed, Names, Flags, Frame, Field
<1>4. Numbers(k)
  BY <1>1, <1>2, Bounds DEF Sound, Typed, Numbers, Frame, Field
<1>5. Fenced(k) /\ Held(k) /\ Kept(j, k)
  BY <1>1, <1>2, <1>3, <1>4, NoneAssumption
  DEF Sound, Kept, Fenced, Held, Typed, Names, Numbers, Frame, Field
<1>6. Outcome(k)
  BY <1>1, <1>2, Bounds DEF Sound, Outcome, Typed, Names, Numbers, Flags, Frame, Field
<1>7. Moved(j, k)
  BY <1>1, <1>2, <1>5, NoneAssumption
  DEF Sound, Moved, Fenced, Held, Kept, Typed, Names, Numbers, Frame, Field
<1> QED
  BY <1>1, <1>2, <1>3, <1>4, <1>5, <1>6, <1>7 DEF Calm, Lawful, Sound, Typed, Kept, Names

\* A window claims waiting work.
LEMMA ClaimCalm ==
  ASSUME NEW j, Sound(j), j.state \in {"QUEUED", "RETRYABLE"},
         j.claims < MaxClaims,
         NEW w \in Worker,
         NEW k, k = [j EXCEPT !.state = "LEASED", !.owner = w, !.lease = j.claims + 1,
                           !.claims = @ + 1, !.left = LeaseTicks, !.age = 0]
  PROVE  Calm(j, k)
<1>1. Whole(k) /\ Frame(j, k, {"state", "owner", "lease", "claims", "left", "age"})
  BY DEF Sound, Whole, Frame, Field
<1>2. /\ k.state = "LEASED"
      /\ k.owner = w
      /\ k.lease = j.claims + 1
      /\ k.claims = j.claims + 1
      /\ k.left = LeaseTicks
      /\ k.age = 0
  BY DEF Sound, Whole
<1>3. Names(k) /\ Flags(k)
  BY <1>1, <1>2 DEF Sound, Typed, Names, Flags, Frame, Field
<1>4. Numbers(k)
  BY <1>1, <1>2, Bounds DEF Sound, Typed, Numbers, Frame, Field
<1>5. Fenced(k) /\ Held(k) /\ Kept(j, k)
  BY <1>1, <1>2, <1>3, <1>4, NoneAssumption
  DEF Sound, Kept, Fenced, Held, Typed, Names, Numbers, Frame, Field
<1>6. Outcome(k)
  BY <1>1, <1>2, Bounds DEF Sound, Outcome, Typed, Names, Numbers, Flags, Frame, Field
<1>7. Moved(j, k)
  BY <1>1, <1>2, <1>5, NoneAssumption
  DEF Sound, Moved, Fenced, Held, Kept, Typed, Names, Numbers, Frame, Field
<1> QED
  BY <1>1, <1>2, <1>3, <1>4, <1>5, <1>6, <1>7 DEF Calm, Lawful, Sound, Typed, Kept, Names

\* A lease is renewed.
LEMMA RenewCalm ==
  ASSUME NEW j, Sound(j), NEW k, k = Renewed(j)
  PROVE  Calm(j, k)
<1>1. Whole(k) /\ Frame(j, k, {"left", "age"})
  BY DEF Sound, Whole, Frame, Field, Renewed
<1>2. /\ k.left = LeaseTicks
      /\ k.age = 0
  BY DEF Sound, Whole, Renewed
<1>3. Names(k) /\ Flags(k)
  BY <1>1, <1>2 DEF Sound, Typed, Names, Flags, Frame, Field
<1>4. Numbers(k)
  BY <1>1, <1>2, Bounds DEF Sound, Typed, Numbers, Frame, Field
<1>5. Fenced(k) /\ Held(k) /\ Kept(j, k)
  BY <1>1, <1>2, <1>3, <1>4, NoneAssumption
  DEF Sound, Kept, Fenced, Held, Typed, Names, Numbers, Frame, Field
<1>6. Outcome(k)
  BY <1>1, <1>2, Bounds DEF Sound, Outcome, Typed, Names, Numbers, Flags, Frame, Field
<1>7. Moved(j, k)
  BY <1>1, <1>2, <1>5, NoneAssumption
  DEF Sound, Moved, Fenced, Held, Kept, Typed, Names, Numbers, Frame, Field
<1> QED
  BY <1>1, <1>2, <1>3, <1>4, <1>5, <1>6, <1>7 DEF Calm, Lawful, Sound, Typed, Kept, Names, Frame, Field

\* A lease is renewed, with no progress to record.
LEMMA LeftCalm ==
  ASSUME NEW j, Sound(j), NEW k, k = [j EXCEPT !.left = LeaseTicks]
  PROVE  Calm(j, k)
<1>1. Whole(k) /\ Frame(j, k, {"left"})
  BY DEF Sound, Whole, Frame, Field
<1>2. /\ k.left = LeaseTicks
  BY DEF Sound, Whole
<1>3. Names(k) /\ Flags(k)
  BY <1>1, <1>2 DEF Sound, Typed, Names, Flags, Frame, Field
<1>4. Numbers(k)
  BY <1>1, <1>2, Bounds DEF Sound, Typed, Numbers, Frame, Field
<1>5. Fenced(k) /\ Held(k) /\ Kept(j, k)
  BY <1>1, <1>2, <1>3, <1>4, NoneAssumption
  DEF Sound, Kept, Fenced, Held, Typed, Names, Numbers, Frame, Field
<1>6. Outcome(k)
  BY <1>1, <1>2, Bounds DEF Sound, Outcome, Typed, Names, Numbers, Flags, Frame, Field
<1>7. Moved(j, k)
  BY <1>1, <1>2, <1>5, NoneAssumption
  DEF Sound, Moved, Fenced, Held, Kept, Typed, Names, Numbers, Frame, Field
<1> QED
  BY <1>1, <1>2, <1>3, <1>4, <1>5, <1>6, <1>7 DEF Calm, Lawful, Sound, Typed, Kept, Names, Frame, Field

\* A refused START leaves its run id.
LEMMA BoundCalm ==
  ASSUME NEW j, Sound(j), NEW k, k = [j EXCEPT !.bound = TRUE]
  PROVE  Calm(j, k)
<1>1. Whole(k) /\ Frame(j, k, {"bound"})
  BY DEF Sound, Whole, Frame, Field
<1>2. /\ k.bound = TRUE
  BY DEF Sound, Whole
<1>3. Names(k) /\ Flags(k)
  BY <1>1, <1>2 DEF Sound, Typed, Names, Flags, Frame, Field
<1>4. Numbers(k)
  BY <1>1, <1>2, Bounds DEF Sound, Typed, Numbers, Frame, Field
<1>5. Fenced(k) /\ Held(k) /\ Kept(j, k)
  BY <1>1, <1>2, <1>3, <1>4, NoneAssumption
  DEF Sound, Kept, Fenced, Held, Typed, Names, Numbers, Frame, Field
<1>6. Outcome(k)
  BY <1>1, <1>2, Bounds DEF Sound, Outcome, Typed, Names, Numbers, Flags, Frame, Field
<1>7. Moved(j, k)
  BY <1>1, <1>2, <1>5, NoneAssumption
  DEF Sound, Moved, Fenced, Held, Kept, Typed, Names, Numbers, Frame, Field
<1> QED
  BY <1>1, <1>2, <1>3, <1>4, <1>5, <1>6, <1>7 DEF Calm, Lawful, Sound, Typed, Kept, Names, Frame, Field

\* A run comes back under the lease it was blocked with.
LEMMA ReconcileCalm ==
  ASSUME NEW j, Sound(j), Recovering(j),
         j.owner \in Worker,
         j.lease # 0,
         NEW k, k = Renewed([j EXCEPT !.state = j.recovery])
  PROVE  Calm(j, k)
<1>1. Whole(k) /\ Frame(j, k, {"state", "left", "age"})
  BY DEF Sound, Whole, Frame, Field, Renewed
<1>2. /\ k.state = j.recovery
      /\ k.left = LeaseTicks
      /\ k.age = 0
  BY DEF Sound, Whole, Renewed
<1>3. Names(k) /\ Flags(k)
  BY <1>1, <1>2 DEF Sound, Typed, Names, Flags, Frame, Field, Recovering
<1>4. Numbers(k)
  BY <1>1, <1>2, Bounds DEF Sound, Typed, Numbers, Frame, Field
<1>5. Fenced(k) /\ Held(k) /\ Kept(j, k)
  BY <1>1, <1>2, <1>3, <1>4, NoneAssumption
  DEF Sound, Kept, Fenced, Held, Typed, Names, Numbers, Frame, Field, Recovering
<1>6. Outcome(k)
  BY <1>1, <1>2, Bounds DEF Sound, Outcome, Fenced, Typed, Names, Numbers, Flags, Frame, Field, Recovering
<1>7. Moved(j, k)
  BY <1>1, <1>2, <1>5, NoneAssumption
  DEF Sound, Moved, Fenced, Held, Kept, Typed, Names, Numbers, Frame, Field, Recovering
<1> QED
  BY <1>1, <1>2, <1>3, <1>4, <1>5, <1>6, <1>7 DEF Calm, Lawful, Sound, Typed, Kept, Names, Recovering

\* A run past START is closed.
LEMMA CompleteLawful ==
  ASSUME NEW j, Sound(j), j.receipt # NoToken,
         j.state \notin Terminal,
         NEW k, k = Completed(j)
  PROVE  Lawful(j, k)
<1>1. Whole(k) /\ Frame(j, k, {"state", "left", "age", "proven"})
  BY DEF Sound, Whole, Frame, Field, Completed, Ended
<1>2. /\ k.state = "COMPLETE"
      /\ k.left = 0
      /\ k.age = 0
      /\ k.proven = TRUE
  BY DEF Sound, Whole, Completed, Ended
<1>3. Names(k) /\ Flags(k)
  BY <1>1, <1>2 DEF Sound, Typed, Names, Flags, Frame, Field
<1>4. Numbers(k)
  BY <1>1, <1>2, Bounds DEF Sound, Typed, Numbers, Frame, Field, Outcome
<1>5. Fenced(k) /\ Held(k) /\ Kept(j, k)
  BY <1>1, <1>2, <1>3, <1>4, NoneAssumption
  DEF Sound, Kept, Fenced, Held, Typed, Names, Numbers, Frame, Field
<1>6. Outcome(k)
  BY <1>1, <1>2, Bounds DEF Sound, Outcome, Fenced, Typed, Names, Numbers, Flags, Frame, Field
<1>7. Moved(j, k)
  BY <1>1, <1>2, <1>5, NoneAssumption
  DEF Sound, Moved, Fenced, Held, Kept, Typed, Names, Numbers, Frame, Field
<1> QED
  BY <1>1, <1>2, <1>3, <1>4, <1>5, <1>6, <1>7 DEF Calm, Lawful, Sound, Typed, Kept, Names

\* A run whose completion is not proved is held.
LEMMA HoldCalm ==
  ASSUME NEW j, Sound(j), j.state \in PostStart,
         NEW k, k = [j EXCEPT !.state = "FINALIZING", !.age = 0]
  PROVE  Calm(j, k)
<1>1. Whole(k) /\ Frame(j, k, {"state", "age"})
  BY DEF Sound, Whole, Frame, Field
<1>2. /\ k.state = "FINALIZING"
      /\ k.age = 0
  BY DEF Sound, Whole
<1>3. Names(k) /\ Flags(k)
  BY <1>1, <1>2 DEF Sound, Typed, Names, Flags, Frame, Field
<1>4. Numbers(k)
  BY <1>1, <1>2, Bounds DEF Sound, Typed, Numbers, Frame, Field
<1>5. Fenced(k) /\ Held(k) /\ Kept(j, k)
  BY <1>1, <1>2, <1>3, <1>4, NoneAssumption
  DEF Sound, Kept, Fenced, Held, Typed, Names, Numbers, Frame, Field
<1>6. Outcome(k)
  BY <1>1, <1>2, Bounds DEF Sound, Outcome, Typed, Names, Numbers, Flags, Frame, Field
<1>7. Moved(j, k)
  BY <1>1, <1>2, <1>5, NoneAssumption
  DEF Sound, Moved, Fenced, Held, Kept, Typed, Names, Numbers, Frame, Field
<1> QED
  BY <1>1, <1>2, <1>3, <1>4, <1>5, <1>6, <1>7 DEF Calm, Lawful, Sound, Typed, Kept, Names

\* A window reports a run that cannot go on.
LEMMA BlockCalm ==
  ASSUME NEW j, Sound(j), j.state \in {"BLOCKED"} \cup PreOwned \cup PostStart,
         NEW k, k = [j EXCEPT !.state = "BLOCKED", !.age = 0]
  PROVE  Calm(j, k)
<1>1. Whole(k) /\ Frame(j, k, {"state", "age"})
  BY DEF Sound, Whole, Frame, Field
<1>2. /\ k.state = "BLOCKED"
      /\ k.age = 0
  BY DEF Sound, Whole
<1>3. Names(k) /\ Flags(k)
  BY <1>1, <1>2 DEF Sound, Typed, Names, Flags, Frame, Field
<1>4. Numbers(k)
  BY <1>1, <1>2, Bounds DEF Sound, Typed, Numbers, Frame, Field
<1>5. Fenced(k) /\ Held(k) /\ Kept(j, k)
  BY <1>1, <1>2, <1>3, <1>4, NoneAssumption
  DEF Sound, Kept, Fenced, Held, Typed, Names, Numbers, Frame, Field
<1>6. Outcome(k)
  BY <1>1, <1>2, Bounds DEF Sound, Outcome, Typed, Names, Numbers, Flags, Frame, Field
<1>7. Moved(j, k)
  BY <1>1, <1>2, <1>5, NoneAssumption
  DEF Sound, Moved, Fenced, Held, Kept, Typed, Names, Numbers, Frame, Field
<1> QED
  BY <1>1, <1>2, <1>3, <1>4, <1>5, <1>6, <1>7 DEF Calm, Lawful, Sound, Typed, Kept, Names

\* A dispatch fails or is cancelled.
LEMMA EndCalm ==
  ASSUME NEW j, Sound(j), j.state \notin {"NONE"} \cup Terminal,
         NEW to \in {"FAILED", "CANCELLED"},
         to = "CANCELLED" /\ "CANCELLED" \notin WireStates => j.receipt = NoToken,
         to = "FAILED" => j.state \in {"BLOCKED"} \cup PreOwned \cup PostStart,
         NEW k, k = Ended(j, to)
  PROVE  Calm(j, k)
<1>1. Whole(k) /\ Frame(j, k, {"state", "left", "age"})
  BY DEF Sound, Whole, Frame, Field, Ended
<1>2. /\ k.state = to
      /\ k.left = 0
      /\ k.age = 0
  BY DEF Sound, Whole, Ended
<1>3. Names(k) /\ Flags(k)
  BY <1>1, <1>2 DEF Sound, Typed, Names, Flags, Frame, Field
<1>4. Numbers(k)
  BY <1>1, <1>2, Bounds DEF Sound, Typed, Numbers, Frame, Field
<1>5. Fenced(k) /\ Held(k) /\ Kept(j, k)
  BY <1>1, <1>2, <1>3, <1>4, NoneAssumption
  DEF Sound, Kept, Fenced, Held, Typed, Names, Numbers, Frame, Field
<1>6. Outcome(k)
  BY <1>1, <1>2, Bounds DEF Sound, Outcome, Typed, Names, Numbers, Flags, Frame, Field
<1>7. Moved(j, k)
  BY <1>1, <1>2, <1>5, NoneAssumption
  DEF Sound, Moved, Fenced, Held, Kept, Typed, Names, Numbers, Frame, Field
<1> QED
  BY <1>1, <1>2, <1>3, <1>4, <1>5, <1>6, <1>7 DEF Calm, Lawful, Sound, Typed, Kept, Names

\* A pre-START failure that leaves retries ...
LEMMA RetryCalm ==
  ASSUME NEW j, Sound(j), j.state \in PreOwned,
         ~(j.retries >= MaxRetries),
         NEW k, k = Released([j EXCEPT !.state = "RETRYABLE", !.retries = @ + 1,
                                   !.waiting = TRUE])
  PROVE  Calm(j, k)
<1>1. Whole(k) /\ Frame(j, k, {"state", "retries", "waiting", "owner", "lease", "left", "age"})
  BY DEF Sound, Whole, Frame, Field, Released
<1>2. /\ k.state = "RETRYABLE"
      /\ k.retries = j.retries + 1
      /\ k.waiting = TRUE
      /\ k.owner = NoWorker
      /\ k.lease = 0
      /\ k.left = 0
      /\ k.age = 0
  BY DEF Sound, Whole, Released
<1>3. Names(k) /\ Flags(k)
  BY <1>1, <1>2 DEF Sound, Typed, Names, Flags, Frame, Field
<1>4. Numbers(k)
  BY <1>1, <1>2, Bounds DEF Sound, Typed, Numbers, Frame, Field, Outcome
<1>5. Fenced(k) /\ Held(k) /\ Kept(j, k)
  BY <1>1, <1>2, <1>3, <1>4, NoneAssumption
  DEF Sound, Kept, Fenced, Held, Typed, Names, Numbers, Frame, Field
<1>6. Outcome(k)
  BY <1>1, <1>2, Bounds DEF Sound, Outcome, Fenced, Typed, Names, Numbers, Flags, Frame, Field
<1>7. Moved(j, k)
  BY <1>1, <1>2, <1>5, NoneAssumption
  DEF Sound, Moved, Fenced, Held, Kept, Typed, Names, Numbers, Frame, Field
<1> QED
  BY <1>1, <1>2, <1>3, <1>4, <1>5, <1>6, <1>7 DEF Calm, Lawful, Sound, Typed, Kept, Names

\* ... and the one that does not.
LEMMA ExhaustCalm ==
  ASSUME NEW j, Sound(j), j.state \in PreOwned,
         NEW k, k = Released([j EXCEPT !.state = "BLOCKED", !.retries = @ + 1])
  PROVE  Calm(j, k)
<1>1. Whole(k) /\ Frame(j, k, {"state", "retries", "owner", "lease", "left", "age"})
  BY DEF Sound, Whole, Frame, Field, Released
<1>2. /\ k.state = "BLOCKED"
      /\ k.retries = j.retries + 1
      /\ k.owner = NoWorker
      /\ k.lease = 0
      /\ k.left = 0
      /\ k.age = 0
  BY DEF Sound, Whole, Released
<1>3. Names(k) /\ Flags(k)
  BY <1>1, <1>2 DEF Sound, Typed, Names, Flags, Frame, Field
<1>4. Numbers(k)
  BY <1>1, <1>2, Bounds DEF Sound, Typed, Numbers, Frame, Field, Outcome
<1>5. Fenced(k) /\ Held(k) /\ Kept(j, k)
  BY <1>1, <1>2, <1>3, <1>4, NoneAssumption
  DEF Sound, Kept, Fenced, Held, Typed, Names, Numbers, Frame, Field
<1>6. Outcome(k)
  BY <1>1, <1>2, Bounds DEF Sound, Outcome, Fenced, Typed, Names, Numbers, Flags, Frame, Field
<1>7. Moved(j, k)
  BY <1>1, <1>2, <1>5, NoneAssumption
  DEF Sound, Moved, Fenced, Held, Kept, Typed, Names, Numbers, Frame, Field
<1> QED
  BY <1>1, <1>2, <1>3, <1>4, <1>5, <1>6, <1>7 DEF Calm, Lawful, Sound, Typed, Kept, Names

\* The operator gives a run up.
LEMMA AbandonCalm ==
  ASSUME NEW j, Sound(j), j.state \in {"BLOCKED"} \cup PostStart,
         NEW k, k = Released([j EXCEPT !.state = "FAILED"])
  PROVE  Calm(j, k)
<1>1. Whole(k) /\ Frame(j, k, {"state", "owner", "lease", "left", "age"})
  BY DEF Sound, Whole, Frame, Field, Released
<1>2. /\ k.state = "FAILED"
      /\ k.owner = NoWorker
      /\ k.lease = 0
      /\ k.left = 0
      /\ k.age = 0
  BY DEF Sound, Whole, Released
<1>3. Names(k) /\ Flags(k)
  BY <1>1, <1>2 DEF Sound, Typed, Names, Flags, Frame, Field
<1>4. Numbers(k)
  BY <1>1, <1>2, Bounds DEF Sound, Typed, Numbers, Frame, Field
<1>5. Fenced(k) /\ Held(k) /\ Kept(j, k)
  BY <1>1, <1>2, <1>3, <1>4, NoneAssumption
  DEF Sound, Kept, Fenced, Held, Typed, Names, Numbers, Frame, Field
<1>6. Outcome(k)
  BY <1>1, <1>2, Bounds DEF Sound, Outcome, Typed, Names, Numbers, Flags, Frame, Field
<1>7. Moved(j, k)
  BY <1>1, <1>2, <1>5, NoneAssumption
  DEF Sound, Moved, Fenced, Held, Kept, Typed, Names, Numbers, Frame, Field
<1> QED
  BY <1>1, <1>2, <1>3, <1>4, <1>5, <1>6, <1>7 DEF Calm, Lawful, Sound, Typed, Kept, Names

\* A run past START loses its window.
LEMMA LostCalm ==
  ASSUME NEW j, Sound(j), j.state \in PostStart,
         NEW k, k = [j EXCEPT !.recovery = j.state, !.state = "BLOCKED", !.age = 0]
  PROVE  Calm(j, k)
<1>1. Whole(k) /\ Frame(j, k, {"state", "recovery", "age"})
  BY DEF Sound, Whole, Frame, Field
<1>2. /\ k.state = "BLOCKED"
      /\ k.recovery = j.state
      /\ k.age = 0
  BY DEF Sound, Whole
<1>3. Names(k) /\ Flags(k)
  BY <1>1, <1>2 DEF Sound, Typed, Names, Flags, Frame, Field
<1>4. Numbers(k)
  BY <1>1, <1>2, Bounds DEF Sound, Typed, Numbers, Frame, Field
<1>5. Fenced(k) /\ Held(k) /\ Kept(j, k)
  BY <1>1, <1>2, <1>3, <1>4, NoneAssumption
  DEF Sound, Kept, Fenced, Held, Typed, Names, Numbers, Frame, Field
<1>6. Outcome(k)
  BY <1>1, <1>2, Bounds DEF Sound, Outcome, Typed, Names, Numbers, Flags, Frame, Field
<1>7. Moved(j, k)
  BY <1>1, <1>2, <1>5, NoneAssumption
  DEF Sound, Moved, Fenced, Held, Kept, Typed, Names, Numbers, Frame, Field
<1> QED
  BY <1>1, <1>2, <1>3, <1>4, <1>5, <1>6, <1>7 DEF Calm, Lawful, Sound, Typed, Kept, Names

\* A run past START is contradicted by its window.
LEMMA ContradictCalm ==
  ASSUME NEW j, Sound(j), j.state \in PostStart,
         NEW k, k = Released([j EXCEPT !.recovery = j.state, !.state = "BLOCKED"])
  PROVE  Calm(j, k)
<1>1. Whole(k) /\ Frame(j, k, {"state", "recovery", "owner", "lease", "left", "age"})
  BY DEF Sound, Whole, Frame, Field, Released
<1>2. /\ k.state = "BLOCKED"
      /\ k.recovery = j.state
      /\ k.owner = NoWorker
      /\ k.lease = 0
      /\ k.left = 0
      /\ k.age = 0
  BY DEF Sound, Whole, Released
<1>3. Names(k) /\ Flags(k)
  BY <1>1, <1>2 DEF Sound, Typed, Names, Flags, Frame, Field
<1>4. Numbers(k)
  BY <1>1, <1>2, Bounds DEF Sound, Typed, Numbers, Frame, Field
<1>5. Fenced(k) /\ Held(k) /\ Kept(j, k)
  BY <1>1, <1>2, <1>3, <1>4, NoneAssumption
  DEF Sound, Kept, Fenced, Held, Typed, Names, Numbers, Frame, Field
<1>6. Outcome(k)
  BY <1>1, <1>2, Bounds DEF Sound, Outcome, Typed, Names, Numbers, Flags, Frame, Field
<1>7. Moved(j, k)
  BY <1>1, <1>2, <1>5, NoneAssumption
  DEF Sound, Moved, Fenced, Held, Kept, Typed, Names, Numbers, Frame, Field
<1> QED
  BY <1>1, <1>2, <1>3, <1>4, <1>5, <1>6, <1>7 DEF Calm, Lawful, Sound, Typed, Kept, Names

\* A run whose window never came back.
LEMMA GiveUpCalm ==
  ASSUME NEW j, Sound(j), InFlight(j),
         NEW k, k = [Ended(j, "FAILED") EXCEPT !.recovery = "NONE"]
  PROVE  Calm(j, k)
<1>1. Whole(k) /\ Frame(j, k, {"state", "recovery", "left", "age"})
  BY DEF Sound, Whole, Frame, Field, Ended
<1>2. /\ k.state = "FAILED"
      /\ k.recovery = "NONE"
      /\ k.left = 0
      /\ k.age = 0
      /\ k.lease = j.lease
      /\ k.claims = j.claims
      /\ k.retries = j.retries
  BY DEF Sound, Whole, Ended
<1>3. Names(k) /\ Flags(k)
  BY <1>1, <1>2 DEF Sound, Typed, Names, Flags, Frame, Field, InFlight, Recovering
<1>4. Numbers(k)
  BY <1>1, <1>2, Bounds DEF Sound, Typed, Numbers, Frame, Field
<1>5. Fenced(k) /\ Held(k) /\ Kept(j, k)
  BY <1>1, <1>2, <1>3, <1>4, NoneAssumption
  DEF Sound, Kept, Fenced, Held, Typed, Names, Numbers, Frame, Field, InFlight, Recovering
<1>6. Outcome(k)
  BY <1>1, <1>2, Bounds DEF Sound, Outcome, Fenced, Typed, Names, Numbers, Flags, Frame, Field, InFlight, Recovering
<1>7. Moved(j, k)
  BY <1>1, <1>2, <1>5, NoneAssumption
  DEF Sound, Moved, Fenced, Held, Kept, Typed, Names, Numbers, Frame, Field, InFlight, Recovering
<1> QED
  BY <1>1, <1>2, <1>3, <1>4, <1>5, <1>6, <1>7 DEF Calm, Lawful, Sound, Typed, Kept, Names, InFlight, Recovering

\* The fields of a job that a report binds: the receipt moves only at the boundary.
LEMMA BindFrame ==
  ASSUME NEW j, Sound(j), NEW b \in BOOLEAN, NEW rc, rc \in {NoToken, j.receipt},
         NEW k, k = Bind(j, b, rc)
  PROVE  Whole(k) /\ Typed(k) /\ Frame(j, k, {"bound"})
<1>1. Whole(k) /\ Frame(j, k, {"bound", "receipt"})
  BY DEF Sound, Whole, Frame, Field, Bind
<1>2. k.receipt = j.receipt
  BY DEF Sound, Whole, Bind
<1>3. k.bound = (j.bound \/ b)
  BY DEF Sound, Whole, Bind
<1>4. k.bound \in BOOLEAN
  BY <1>3
<1>5. Frame(j, k, {"bound"})
  BY <1>1, <1>2 DEF Frame, Field
<1>6. Names(k) /\ Flags(k)
  BY <1>5, <1>4 DEF Sound, Typed, Names, Flags, Frame, Field
<1>7. Numbers(k)
  BY <1>5 DEF Sound, Typed, Numbers, Frame, Field
<1> QED  BY <1>1, <1>5, <1>6, <1>7 DEF Typed

\* A report repeated on a dispatch that is under way.
LEMMA AckRenewCalm ==
  ASSUME NEW j, Sound(j), NEW b \in BOOLEAN, NEW rc, rc \in {NoToken, j.receipt},
         NEW k, k = Renewed(Bind(j, b, rc))
  PROVE  Calm(j, k)
<1>1. PICK i : i = Bind(j, b, rc)
  OBVIOUS
<1>2. Whole(i) /\ Typed(i) /\ Frame(j, i, {"bound"})
  BY <1>1, BindFrame
<1>3. Whole(k) /\ Frame(i, k, {"left", "age"}) /\ k.left = LeaseTicks /\ k.age = 0
  BY <1>1, <1>2 DEF Whole, Frame, Field, Renewed
<1>4. Names(k) /\ Flags(k)
  BY <1>2, <1>3 DEF Typed, Names, Flags, Frame, Field
<1>5. Numbers(k)
  BY <1>2, <1>3, Bounds DEF Typed, Numbers, Frame, Field
<1>6. Frame(j, k, {"left", "age", "waiting", "bound"})
  BY <1>2, <1>3 DEF Frame, Field
<1> QED  BY <1>3, <1>4, <1>5, <1>6, ClockCalm DEF Typed

\* A report repeated on a dispatch that is blocked or over.
LEMMA AckCalm ==
  ASSUME NEW j, Sound(j), NEW b \in BOOLEAN, NEW rc, rc \in {NoToken, j.receipt},
         NEW k, k = [Bind(j, b, rc) EXCEPT !.age = 0]
  PROVE  Calm(j, k)
<1>1. PICK i : i = Bind(j, b, rc)
  OBVIOUS
<1>2. Whole(i) /\ Typed(i) /\ Frame(j, i, {"bound"})
  BY <1>1, BindFrame
<1>3. Whole(k) /\ Frame(i, k, {"age"}) /\ k.age = 0
  BY <1>1, <1>2 DEF Whole, Frame, Field
<1>4. Names(k) /\ Flags(k)
  BY <1>2, <1>3 DEF Typed, Names, Flags, Frame, Field
<1>5. Numbers(k)
  <2>1. k.age \in 0..AgeCap
    BY <1>3, Bounds
  <2> QED  BY <1>2, <1>3, <2>1 DEF Typed, Numbers, Frame, Field
<1>6. Frame(j, k, {"left", "age", "waiting", "bound"})
  BY <1>2, <1>3 DEF Frame, Field
<1> QED  BY <1>3, <1>4, <1>5, <1>6, ClockCalm DEF Typed

\* A report of progress by the window in possession.  The receipt appears with
\* START_PREPARED, and no later report brings another.
LEMMA AdvanceCalm ==
  ASSUME NEW j, Sound(j), j.owner \in Worker,
         NEW to \in PreOwned \cup PostStart, to \in Successors[j.state],
         NEW b, NEW rc, <<b, rc>> \in Payload(to), Agrees(j, rc),
         to = "START_PREPARED" => Bind(j, b, rc).receipt # NoToken,
         NEW k, k = Renewed([Bind(j, b, rc) EXCEPT !.state = to])
  PROVE  Calm(j, k)
<1>1. b \in BOOLEAN /\ rc \in Token \cup {NoToken} /\ (to # "START_PREPARED" => rc = NoToken)
  BY DEF Payload
<1>2. PICK i : i = Bind(j, b, rc)
  OBVIOUS
<1>3. Whole(i) /\ Frame(j, i, {"bound", "receipt"})
  BY <1>2 DEF Sound, Whole, Frame, Field, Bind
<1>4. i.receipt = IF rc = NoToken THEN j.receipt ELSE rc
  BY <1>2 DEF Sound, Whole, Bind
<1>5. i.bound \in BOOLEAN
  <2>1. i.bound = (j.bound \/ b)
    BY <1>2 DEF Sound, Whole, Bind
  <2> QED  BY <2>1
<1>6. Whole(k) /\ Frame(i, k, {"state", "left", "age"})
  BY <1>2, <1>3 DEF Whole, Frame, Field, Renewed
<1>7. k.state = to /\ k.left = LeaseTicks /\ k.age = 0
  BY <1>2, <1>3 DEF Whole, Renewed
<1>8. Frame(j, k, {"state", "left", "age", "bound", "receipt"})
  BY <1>3, <1>6 DEF Frame, Field
<1>9. k.receipt = i.receipt /\ k.bound = i.bound
  BY <1>6 DEF Frame, Field
<1>10. Names(k) /\ Flags(k)
  BY <1>1, <1>4, <1>5, <1>7, <1>8, <1>9 DEF Sound, Typed, Names, Flags, Frame, Field
<1>11. Numbers(k)
  BY <1>7, <1>8, Bounds DEF Sound, Typed, Numbers, Frame, Field
<1>12. /\ j.state \in JobState
       /\ j.state \notin {"NONE"} \cup Terminal
       /\ to # "LEASED"
       /\ to \in PreOwned => j.state \in PreOwned
       /\ to = "START_PREPARED" => j.state = "ATTACHED"
       /\ to \in PostStart /\ to # "START_PREPARED" => j.state \in PostStart
  <2>1. j.state \in JobState
    BY DEF Sound, Typed, Names
  <2>2. j.state # "QUEUED"
    BY NoneAssumption DEF Sound, Held
  <2> QED  BY <2>1, <2>2, Reachable
<1>13. k.receipt = j.receipt \/ (to = "START_PREPARED" /\ j.receipt = NoToken)
  BY <1>1, <1>4, <1>9 DEF Agrees
<1>14. to = "START_PREPARED" => k.receipt # NoToken
  BY <1>2, <1>9
<1>15. Fenced(k)
  BY <1>7, <1>8, <1>12, <1>13, <1>14 DEF Sound, Fenced, Frame, Field
<1>16. Held(k) /\ Kept(j, k)
  BY <1>7, <1>8, <1>12, <1>13 DEF Sound, Fenced, Held, Kept, Frame, Field
<1>17. Outcome(k)
  BY <1>7, <1>8, <1>12, <1>13 DEF Sound, Outcome, Frame, Field
<1>18. Moved(j, k)
  BY <1>7, <1>8, <1>12, <1>13 DEF Sound, Fenced, Moved, Frame, Field
<1> QED
  BY <1>6, <1>7, <1>10, <1>11, <1>15, <1>16, <1>17, <1>18
  DEF Calm, Lawful, Sound, Typed, Kept, Names

\* One tick of a job's clocks.
LEMMA OlderCalm ==
  ASSUME NEW j, Sound(j), NEW k, k = Older(j)
  PROVE  Calm(j, k)
<1>1. Whole(k) /\ Frame(j, k, {"left", "age", "waiting"}) /\ k.waiting = FALSE
  <2>1. CASE j.state \in PreOwned \cup PostStart \cup {"BLOCKED"}
    BY <2>1 DEF Sound, Whole, Frame, Field, Older
  <2>2. CASE j.state \notin PreOwned \cup PostStart \cup {"BLOCKED"}
    BY <2>2 DEF Sound, Whole, Frame, Field, Older
  <2> QED  BY <2>1, <2>2
<1>2. k.left \in 0..LeaseTicks /\ k.age \in 0..AgeCap
  <2>1. j.left \in 0..LeaseTicks /\ j.age \in 0..AgeCap
    BY DEF Sound, Typed, Numbers
  <2>2. k.left \in {j.left, j.left - 1, 0} /\ (k.left = j.left - 1 => j.left > 0)
        /\ k.age \in {j.age, j.age + 1} /\ (k.age = j.age + 1 => j.age < AgeCap)
    <3>1. CASE j.state \in PreOwned \cup PostStart \cup {"BLOCKED"}
      <4>1. k.left = (IF j.left > 0 THEN j.left - 1 ELSE 0)
        BY <3>1 DEF Sound, Whole, Older
      <4>2. k.age = (IF j.age < AgeCap THEN j.age + 1 ELSE j.age)
        BY <3>1 DEF Sound, Whole, Older
      <4> QED  BY <2>1, <4>1, <4>2, Bounds
    <3>2. CASE j.state \notin PreOwned \cup PostStart \cup {"BLOCKED"}
      <4>1. k.left = j.left /\ k.age = j.age
        BY <3>2 DEF Sound, Whole, Older
      <4> QED  BY <2>1, <4>1, Bounds
    <3> QED  BY <3>1, <3>2
  <2> QED  BY <2>1, <2>2, Bounds
<1>3. Names(k) /\ Flags(k)
  BY <1>1 DEF Sound, Typed, Names, Flags, Frame, Field
<1>4. Numbers(k)
  BY <1>1, <1>2 DEF Sound, Typed, Numbers, Frame, Field
<1>5. Frame(j, k, {"left", "age", "waiting", "bound"})
  BY <1>1 DEF Frame, Field
<1> QED  BY <1>1, <1>3, <1>4, <1>5, ClockCalm DEF Typed

\* A restart finds each record as the last commit left it.
LEMMA LoadedCalm ==
  ASSUME NEW j, Sound(j), NEW k, k = Loaded(j)
  PROVE  Calm(j, k)
<1>1. CASE j.state \in PreStart
  BY <1>1, RequeueCalm DEF Loaded
<1>2. CASE j.state \in PostStart
  BY <1>2, LostCalm DEF Loaded
<1>3. CASE j.state \notin PreStart \cup PostStart
  BY <1>3, SameCalm DEF Loaded
<1> QED  BY <1>1, <1>2, <1>3

\* Dispatches begin sound.
LEMMA NewSound == Sound(NewJob)
<1>1. Whole(NewJob)
  BY DEF Whole, NewJob
<1>2. Names(NewJob) /\ Flags(NewJob)
  BY DEF NewJob, Names, Flags
<1>3. Numbers(NewJob)
  BY Bounds DEF NewJob, Numbers
<1>4. Fenced(NewJob) /\ Held(NewJob) /\ Outcome(NewJob)
  BY Bounds DEF NewJob, Fenced, Held, Outcome
<1> QED  BY <1>1, <1>2, <1>3, <1>4 DEF Sound, Typed, NewJob

\* A dispatch that was just enqueued.
LEMMA QueuedSound ==
  ASSUME NEW p \in Project, NEW k, k = Queued(p)
  PROVE  Sound(k) /\ k.state = "QUEUED" /\ k.project = p
<1>1. /\ Whole(k) /\ k.state = "QUEUED" /\ k.project = p
      /\ Frame(NewJob, k, {"state", "project"})
  BY DEF Queued, NewJob, Whole, Frame, Field
<1>2. Names(k) /\ Flags(k)
  BY <1>1, NewSound DEF Sound, Typed, Names, Flags, Frame, Field
<1>3. Numbers(k)
  BY <1>1, NewSound DEF Sound, Typed, Numbers, Frame, Field
<1>4. Fenced(k) /\ Held(k) /\ Outcome(k)
  BY <1>1, Bounds DEF NewJob, Fenced, Held, Outcome, Frame, Field
<1> QED  BY <1>1, <1>2, <1>3, <1>4 DEF Sound, Typed

\* Two records that are durably equal differ in what a commit does not order.
LEMMA DurableFrame ==
  ASSUME NEW j, Whole(j), NEW k, Whole(k)
  PROVE  Durable(j) = Durable(k) <=> Frame(j, k, {"left", "age", "bound"})
<1>1. ASSUME Durable(j) = Durable(k) PROVE Frame(j, k, {"left", "age", "bound"})
  <2>1. PICK i : i = Durable(j)
    OBVIOUS
  <2>2. Frame(j, i, {"left", "age", "bound"})
    BY <2>1 DEF Whole, Durable, Frame, Field
  <2>3. Frame(k, i, {"left", "age", "bound"})
    BY <1>1, <2>1 DEF Whole, Durable, Frame, Field
  <2> QED  BY <2>2, <2>3 DEF Frame, Field
<1>2. ASSUME Frame(j, k, {"left", "age", "bound"}) PROVE Durable(j) = Durable(k)
  <2>1. PICK i : i = Durable(j)
    OBVIOUS
  <2>2. PICK h : h = Durable(k)
    OBVIOUS
  <2>3. Whole(i) /\ Frame(j, i, {"left", "age", "bound"})
        /\ i.left = 0 /\ i.age = 0 /\ i.bound = FALSE
    BY <2>1 DEF Whole, Durable, Frame, Field
  <2>4. Whole(h) /\ Frame(k, h, {"left", "age", "bound"})
        /\ h.left = 0 /\ h.age = 0 /\ h.bound = FALSE
    BY <2>2 DEF Whole, Durable, Frame, Field
  <2>5. /\ h.state = i.state /\ h.project = i.project /\ h.owner = i.owner
        /\ h.lease = i.lease /\ h.claims = i.claims /\ h.retries = i.retries
        /\ h.waiting = i.waiting /\ h.receipt = i.receipt
        /\ h.recovery = i.recovery /\ h.proven = i.proven
    BY <1>2, <2>3, <2>4 DEF Frame, Field
  <2> QED  BY <2>1, <2>2, <2>3, <2>4, <2>5 DEF Whole
<1> QED  BY <1>1, <1>2

\* Memory falls back on the last commit.
LEMMA RollBackCalm ==
  ASSUME NEW j, Sound(j), NEW k, Sound(k), Durable(j) = Durable(k)
  PROVE  Calm(j, k)
<1>1. Frame(j, k, {"left", "age", "bound"})
  BY DurableFrame DEF Sound
<1>2. Frame(j, k, {"left", "age", "waiting", "bound"})
  BY <1>1 DEF Frame, Field
<1> QED  BY <1>2, ClockCalm DEF Sound

=============================================================================
