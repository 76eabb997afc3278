---------------------------- MODULE PreparedStore ----------------------------
(***************************************************************************)
(* The tables of prepared launches (prepared.py): jobs, the receipts of    *)
(* their executions, and the accounts reserved for a launch.               *)
(*                                                                         *)
(* Every operator with a primed variable is one BEGIN IMMEDIATE ..         *)
(* COMMIT of PreparedStore, which SQLite serialises between the threads    *)
(* and the processes that share the database.  An account reservation and  *)
(* the lease of the receipt that owns it are always written with the same  *)
(* expiry, so the reservation is in force while that lease is live.        *)
(***************************************************************************)
EXTENDS Naturals, FiniteSets

CONSTANTS
  Job,              \* prepared_id
  Account,          \* account_id
  AutoAccount,      \* the account "AUTO"
  NoAccount,        \* no account
  ResetJobs,        \* jobs with trigger ON_RESET; the others are ON_TIME
  Recurring,        \* jobs with recurrence EVERY_RESET; the others are ONE_SHOT
  MaxEvents,        \* bound: trigger events of one job
  MaxExecs,         \* bound: receipts ever written
  MaxGen,           \* bound: claim_generation, which stops counting here
  StaleClock        \* TRUE when a caller may be suspended between reading
                    \* the clock and getting the database

ASSUME StoreAssumption ==
  /\ AutoAccount \notin Account /\ NoAccount \notin Account /\ AutoAccount # NoAccount
  /\ Recurring \subseteq ResetJobs /\ ResetJobs \subseteq Job
  /\ Job # {} /\ MaxExecs \in Nat
  /\ {MaxEvents, MaxGen} \subseteq Nat \ {0}
  /\ StaleClock \in BOOLEAN

Exec  == 1..MaxExecs      \* execution_id, in order of insertion
Event == 1..MaxEvents     \* trigger_event_id of a job; 0 is no event yet
Gen   == 1..MaxGen

Launching == {"CLAIMED", "PREPARING", "LAUNCHING"}
Worked    == Launching \cup {"DELIVERING", "VERIFYING", "RUNNING"}
Active    == Worked \cup {"RECOVERY_REQUIRED"}
Terminal  == {"DONE", "FAILED_TERMINAL", "MISSED", "CANCELLED"}
ExecState == Active \cup Terminal \cup {"FAILED_RETRYABLE"}
\* WAITING stands for WAITING_TRIGGER and WAITING_LIMIT.
BodyState == ExecState \cup {"ARMED", "WAITING", "DISABLED"}

VARIABLES
  body,     \* prepared_jobs
  row,      \* prepared_executions
  holder    \* prepared_account_reservations: the owner_execution, or 0

store == <<body, row, holder>>

\* event identifies the trigger configuration the operator or a reset set.
Body ==
  [enabled: BOOLEAN, state: BodyState, event: 0..MaxEvents,
   account: Account \cup {AutoAccount}]

\* launched is a recorded process_id (and, with it, a delivery_hash).  The
\* generation names the owner too: nothing writes owner_id without raising it.
Row ==
  [state: ExecState \cup {"NONE"}, job: Job, event: 0..MaxEvents, test: BOOLEAN,
   gen: 0..MaxGen, lease: {"none", "live", "expired"}, launched: BOOLEAN,
   account: Account \cup {NoAccount}]

NextGen(g) == IF g < MaxGen THEN g + 1 ELSE g

Fresh == {e \in Exec : row[e].state = "NONE" /\ \A f \in 1..(e - 1) : row[f].state # "NONE"}

ActiveRows(j)  == {e \in Exec : row[e].job = j /\ row[e].state \in Active}
ActiveTests(j) == {e \in ActiveRows(j) : row[e].test}

\* The scheduled receipts of a job, and those of one of its events.
Prior(j)       == {e \in Exec : row[e].state # "NONE" /\ row[e].job = j /\ ~row[e].test}
Receipts(j, v) == {e \in Prior(j) : row[e].event = v}

\* Mutant: the comparison with the expiry is the wrong way round.
HeldLapsed(a, e) == holder[a] \notin {0, e} /\ row[holder[a]].lease = "expired"

\* _reserve_account refuses receipt e the account a.
Held(a, e) == holder[a] \notin {0, e} /\ row[holder[a]].lease = "live"

Release(e) == [a \in Account |-> IF holder[a] = e THEN 0 ELSE holder[a]]

-----------------------------------------------------------------------------
(* The rows of prepared_jobs. *)

\* Mutant: the job is overwritten whatever is executing.
CanSaveAlways(j) == TRUE

\* save(): the whole body, unless an execution of the job is active.
CanSave(j) == ActiveRows(j) = {}

Save(j, b) ==
  /\ CanSave(j)
  /\ body' = [body EXCEPT ![j] = b]
  /\ UNCHANGED <<row, holder>>

\* A recurring job waits for the reset after the one it has just served.
Rearmed(b) == [b EXCEPT !.state = "ARMED", !.event = 0]

\* The job once its receipt is in state s.
Following(j, b, s) ==
  IF s = "DONE" /\ j \in Recurring
  THEN Rearmed(b)
  ELSE [b EXCEPT !.state = s, !.enabled = @ /\ s \notin Terminal]

-----------------------------------------------------------------------------
(* Claims. *)

\* claim() may retry an event whose only attempt failed before any side effect.
Retryable(j, v) ==
  {e \in Receipts(j, v) : row[e].state = "FAILED_RETRYABLE" /\ ~row[e].launched}

ClaimAccount(j, a) == IF body[j].account = AutoAccount THEN a ELSE body[j].account

\* Mutant: a ONE_SHOT job refuses only an event it has had.
ClaimableAgain(j, v, a) ==
  /\ body[j].enabled
  /\ IF body[j].account = AutoAccount THEN a # NoAccount ELSE a \in {NoAccount, body[j].account}
  /\ ActiveRows(j) = {} /\ Receipts(j, v) \subseteq Retryable(j, v)

\* claim() of event v of job j, with the account a selected for an AUTO job.
Claimable(j, v, a) ==
  /\ body[j].enabled
  /\ IF body[j].account = AutoAccount THEN a # NoAccount ELSE a \in {NoAccount, body[j].account}
  /\ ActiveRows(j) = {}
  /\ j \in Recurring \/ Prior(j) \subseteq Retryable(j, v)

Claimed(r, a) ==
  [r EXCEPT !.state = "CLAIMED", !.gen = NextGen(@), !.lease = "live", !.account = a]

CanRetry(e, j, v, a) ==
  LET account == ClaimAccount(j, a) IN
  /\ Claimable(j, v, a) /\ e \in Retryable(j, v)
  /\ body[j].account = AutoAccount \/ row[e].account = account
  /\ row[e].lease # "live" /\ ~Held(account, e)

Retry(e, j, v, a) ==
  LET account == ClaimAccount(j, a) IN
  /\ CanRetry(e, j, v, a)
  /\ row' = [row EXCEPT ![e] = Claimed(@, account)]
  /\ holder' = [Release(e) EXCEPT ![account] = e]
  /\ body' = [body EXCEPT ![j].state = "CLAIMED"]

\* Mutant: the receipt names the account of the job, which may be AUTO.
NewRowUnresolved(j, v, test, a) ==
  [state |-> "CLAIMED", job |-> j, event |-> v, test |-> test, gen |-> 1,
   lease |-> "live", launched |-> FALSE, account |-> body[j].account]

NewRow(j, v, test, a) ==
  [state |-> "CLAIMED", job |-> j, event |-> v, test |-> test, gen |-> 1,
   lease |-> "live", launched |-> FALSE, account |-> a]

CanClaimFirst(e, j, v, a) ==
  /\ Claimable(j, v, a) /\ Receipts(j, v) = {}
  /\ e \in Fresh /\ ~Held(ClaimAccount(j, a), e)

ClaimFirst(e, j, v, a) ==
  LET account == ClaimAccount(j, a) IN
  /\ CanClaimFirst(e, j, v, a)
  /\ row' = [row EXCEPT ![e] = NewRow(j, v, FALSE, account)]
  /\ holder' = [holder EXCEPT ![account] = e]
  /\ body' = [body EXCEPT ![j].state = "CLAIMED"]

CanClaim(e, j, v, a) == CanRetry(e, j, v, a) \/ CanClaimFirst(e, j, v, a)

\* Mutant: a test looks at other tests only.
ClaimTestBeside(e, j) ==
  /\ body[j].enabled /\ ActiveTests(j) = {} /\ body[j].account # AutoAccount
  /\ e \in Fresh /\ ~Held(body[j].account, e)
  /\ row' = [row EXCEPT ![e] = NewRow(j, 0, TRUE, body[j].account)]
  /\ holder' = [holder EXCEPT ![body[j].account] = e]
  /\ UNCHANGED body

\* claim_test(): an execution under an event of its own.
ClaimTest(e, j) ==
  /\ body[j].enabled /\ ActiveRows(j) = {} /\ body[j].account # AutoAccount
  /\ e \in Fresh /\ ~Held(body[j].account, e)
  /\ row' = [row EXCEPT ![e] = NewRow(j, 0, TRUE, body[j].account)]
  /\ holder' = [holder EXCEPT ![body[j].account] = e]
  /\ UNCHANGED body

\* settle_without_launch(): the receipt of an event that nothing may launch.
CanSettle(e, j, v) ==
  /\ body[j].enabled /\ ActiveTests(j) = {} /\ Receipts(j, v) = {}
  /\ e \in Fresh

Settle(e, j, v) ==
  /\ CanSettle(e, j, v)
  /\ row' = [row EXCEPT ![e] =
       [NewRow(j, v, FALSE, NoAccount) EXCEPT !.state = "MISSED", !.lease = "none"]]
  /\ body' = [body EXCEPT ![j] =
       IF j \in Recurring THEN Rearmed(@) ELSE Following(j, @, "MISSED")]
  /\ UNCHANGED holder

-----------------------------------------------------------------------------
(* The owner of a receipt, under generation g. *)

\* lease_expires_at > now, for a now that may have been read long ago; the new
\* lease is counted from the same now.
SeesLive(e) == row[e].lease = "live" \/ (StaleClock /\ row[e].lease = "expired")
NewLease(e) == IF row[e].lease = "live" THEN {"live"} ELSE {"live", "expired"}

Owns(e, g, s) == row[e].gen = g /\ row[e].state = s /\ SeesLive(e)

\* advance() deletes the reservation except on the way to a launch.
Releasing == ExecState \ Launching

Advanced(r, s, l) ==
  [r EXCEPT !.state = s, !.lease = l, !.launched = @ \/ s = "DELIVERING"]

\* advance() of a receipt that its caller owns, to state s.
Advance(e, s) ==
  /\ \E l \in NewLease(e) : row' = [row EXCEPT ![e] = Advanced(@, s, l)]
  /\ holder' = IF s \in Releasing THEN Release(e) ELSE holder
  /\ body' = IF row[e].test THEN body
             ELSE [body EXCEPT ![row[e].job] = Following(row[e].job, @, s)]

\* heartbeat().
Renew(e, g) ==
  /\ row[e].gen = g /\ row[e].state \in Worked /\ SeesLive(e)
  /\ \E l \in NewLease(e) : row' = [row EXCEPT ![e].lease = l]
  /\ UNCHANGED <<body, holder>>

-----------------------------------------------------------------------------
(* Recovery. *)

\* Nothing outside the program has happened yet.
PreSideEffect(r) == r.state \in {"CLAIMED", "PREPARING"} /\ ~r.launched

\* The state recover_expired() gives to a receipt; seen says that its process
\* is alive and is provably the one that was launched.
Recovered(r, seen) ==
  CASE r.test /\ PreSideEffect(r)  -> "CANCELLED"
    [] ~r.test /\ PreSideEffect(r) -> "CLAIMED"
    [] ~r.test /\ ~PreSideEffect(r) /\ r.launched /\ seen -> "RUNNING"
    [] OTHER -> "RECOVERY_REQUIRED"

\* The receipt can be launched again by the recovering owner.
Resumes(e) == ~row[e].test /\ PreSideEffect(row[e])

CanRecover(e) == row[e].lease = "expired" /\ (Resumes(e) => ~Held(row[e].account, e))

TakenOver(r, seen) ==
  [r EXCEPT !.state = Recovered(r, seen), !.gen = NextGen(@), !.lease = "live"]

Recover(e, seen) ==
  /\ CanRecover(e)
  /\ row' = [row EXCEPT ![e] = TakenOver(@, seen)]
  /\ holder' = IF Resumes(e) THEN [holder EXCEPT ![row[e].account] = e] ELSE Release(e)
  /\ body' = IF row[e].test THEN body
             ELSE [body EXCEPT ![row[e].job].state = Recovered(row[e], seen)]

\* Mutant: any test may be resolved.
ResolveAnyTest(e) ==
  /\ row[e].test /\ row[e].state \in ExecState
  /\ row' = [row EXCEPT ![e].state = "CANCELLED"]
  /\ UNCHANGED <<body, holder>>

\* resolve_test_recovery().
ResolveTest(e) ==
  /\ row[e].test /\ row[e].state = "RECOVERY_REQUIRED"
  /\ row' = [row EXCEPT ![e].state = "CANCELLED"]
  /\ UNCHANGED <<body, holder>>

=============================================================================
