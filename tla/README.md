# A formal model of AUDAPACK

AUDAPACK packs a project into an archive, has a chat window audit it, and brings the audit back
into the project. This directory holds TLA+ models of the part of it that is concurrent and
survives crashes, the TLC runs that check them, and theorems about them checked by TLAPS.

## 1. The system

Paths are under `src/audapack/` unless they start with `src/`.

| Component | State | Operations | Talks to |
|---|---|---|---|
| Browser dispatcher, `bridge/browser_dispatch.py` | dispatches (`_jobs`, mirrored in `jobs.json`), workers (`_workers`, memory only), generation counter | enqueue, poll (register, renew, expire, claim), transition, reconcile, cancel, abandon, sweeps, completion | HTTP handlers, supervisor, desktop; all under one lock |
| Dispatch supervisor, `bridge/supervisor.py` | launch budget, last launch | one pass every few seconds: five sweeps, then provisioning of windows | dispatcher, managed workers |
| Widget worker, `src/resources/AUDAPACK_WIDGET.user.js` | lease, run, receipt in the page's storage | poll, fetch, attach, START_PREPARED, send, report | dispatcher over HTTP |
| Audit ingestion, `bridge/server.py`, `bridge/storage.py`, `bridge/state.py` | run state, wave files, final handoff, `campaign.json`, generation | submit a wave, finalise, roll back, repair | widget, dispatcher, consumers |
| Prepared scheduler, `prepared*.py`, `auto_account.py` | jobs, executions, account reservations in SQLite | claim, advance, heartbeat, recover, deliver | several processes, launched CLIs |
| Audit run coordinator, `services/audit_run_service.py` | start intents, managed windows | start an audit, fence a start, supervise windows | dispatcher, browser |
| Campaign engine, `campaign.py`, `audits.py`, `ingest.py` | `campaign.json` | rebuild and read the index of a campaign | ingestion, UI |
| Single instance and lifecycle, `single_instance.py`, `bridge/lifecycle.py` | lock files, pipe | acquire, hand over, detect a dead owner | other processes of the program |
| INAUDIT, `inaudit*.py` | captures | capture, commit | UI |
| Inbox and drop, `agent_inbox.py`, `handoff_drop.py`, `saihandoff.py` | copies of handoffs | copy, mark as read | ingestion |
| Packing and evidence, `packing.py`, `fidelity.py`, `*freshness.py`, `source_inventory.py`, `saipen_*.py` | archives, receipts | walk, hash, pack, verify | file system |
| Projects and configuration, `projects.py`, `config.py` | registry, configuration file | load, save under a cross-process lock | everything |
| Qt task runner, `ui_qt/task_runner.py` | thread pool | submit, cancel, close | UI |
| Launching and accounts, `instances.py`, `launch_*.py`, `sai_accounts.py`, `limits.py`, ... | started programs | launch, read limits | operating system, network |
| Components manager, `components/` | installed files | install, migrate | operating system |
| User interface, `ui/`, `ui_qt/`, `app.py` | widgets | calls the operations above | everything |

### What is hard, and what makes each component correct

*Browser dispatcher.* Requests of many windows, the supervisor and the operator interleave; answers
are lost and reports repeated; windows die, sleep and come back; the Bridge dies between any two
writes; a write may fail after memory was changed. It is correct when an audit prompt is sent at most
once per dispatch and, for a project, never while another one may still run; when nothing is called complete
without a handoff and nothing is called cancelled that may have been sent; and when no lane is lost
for ever to a window that is gone.

*Supervisor.* Its sweeps are what liveness rests on. Its launch budget must neither open windows
for ever nor stop opening them for ever.

*Ingestion.* A wave is five files and a rename, and any of them may fail. It is correct when a
failure leaves all of them as they were, a repeated submission changes nothing, and a committed wave
is eventually announced.

*Prepared scheduler.* Several processes share the database and a process may die holding a claim.
It is correct when a payload is delivered at most once for each event of a job, a superseded
process can never write, an account serves one launch at a time, the job shows what its execution
does, and nothing stays claimed for ever.

*Audit run coordinator.* A start is an intent on disk, a dispatch and perhaps a window; a crash
between any two must neither lose nor double it.

*Single instance.* Two processes starting together must not both own the instance, and a dead
owner must not keep it.

The other components are sequential, or their correctness is about the contents of files.

## 2. Modules and plan

| Module | What it is | Runs |
|---|---|---|
| `BrowserDispatch` | the dispatcher and the sweeps of the supervisor | `writes`, `windows`, `sequence`, `liveness` |
| `DispatchContract` | the abstract specification of a dispatch; `BrowserDispatch` is shown to implement it | by `KeepsContract` in `windows` |
| `DispatchRecords`, `DispatchSteps`, `BrowserDispatchProofs` | proofs about `BrowserDispatch` | |
| `PreparedStore`, `PreparedWorker` | the prepared scheduler: its database, and everything that runs on it | `prepared_once`, `prepared_tables`, `prepared_liveness`, `prepared_account` |
| `PreparedProofs`, `PreparedAgreement` | proofs about `PreparedWorker` | |
| `WaveIngestion` | how an audit wave reaches the disk | `wave`, `wave_retry` |
| `WaveIngestionProofs` | proofs about `WaveIngestion` | |
| `AuditStart` | how an audit is started, over the journal of intents and a Bridge that moves dispatches as its contract allows | `starts` |
| `AuditStartProofs` | proofs about `AuditStart` | |
| `WorkerPool` | who opens browser windows, and when | `pool` |
| `WorkerPoolProofs` | proofs about `WorkerPool` | |

The `MC...` modules only give names to the values of the configurations.

The modules meet at three places. `BrowserDispatch` keeps of an ingestion request what follows its
commit (`WriteHandoff`, `CompleteForRun`, `CompleteRunsForProject`); `WaveIngestion` is that request up to
the commit and after it, and keeps of the dispatcher that a dispatch was closed, and by whom.
`AuditStart` assumes that the Bridge moves a dispatch as `DispatchContract` allows, which `BrowserDispatch` is
shown to do, and shows nothing about it. `WorkerPool` continues the pass of the
supervisor where `BrowserDispatch` leaves it and keeps of the dispatcher the length of the line and what
is registered.

What is left, in order: the line of the dispatcher (order, reorder, affinity, slots) as pure operators;
SYNC, PRIME and AUDIT jobs of the prepared scheduler; the single instance and the task runner, whose
operating system primitives would have to be stated first.

## 3. BrowserDispatch

### State

| Variable | Code |
|---|---|
| `job` | `BrowserDispatcher._jobs`, a record per dispatch |
| `disk` | `jobs.json`; `_committed_jobs` always equals it |
| `worker` | `_workers`; `open` is a state of FREE or RESERVED, `clean` is `clean_for_audit`, `busy` is a campaign run id |
| `saved` | the worker fields of `_committed_workers` |
| `handoff` | the newest final handoff of each project, by which dispatch and how old |
| `finishing` | the ingestion request of each project, past its commit |

A dispatch record keeps what decides anything: state, project, owner, lease token, claims, retries,
backoff, START receipt, recovery state, whether a run id is bound and whether a handoff path is set.
Lease tokens are the number of the claim that minted them. Time is countdowns: `left` to the expiry
of the lease, `age` since `updated_at`, `unseen` since the window was seen; `Tick` moves them all and
they stop where no test tells larger values apart.

### Actions

Each action is one section under `BrowserDispatcher._lock`, with everything it does.

| Action | Code |
|---|---|
| `EnqueueJob` | `enqueue_job` |
| `RegisterWorker`, `RenewLease`, `ReconcileJob`, `GoOffline` | `register_worker` and the branches it takes on what the window reports |
| `RenewOwnerLease`, `ExpireLeases`, `ClaimJob`, `ClaimNothing` | the rest of a poll; `_handle_browser_poll` takes the lock anew for each |
| `Acknowledge`, `ReassertStart`, `Advance`, `RefuseStart`, `ReportComplete`, `ReportStopped`, `ReportRetryable`, `RequeueRetryable` | the branches of `transition_job` |
| `AbandonJob`, `CancelJob` | `abandon_job`, `cancel_job` |
| `ExpireWorkers`, `ExpireLeases`, `ReconcileAbandonedRuns`, `ReconcileFinishedCampaigns`, `ExpireUnrecoverableRuns` | the passes of `DispatchSupervisor.tick` |
| `WriteHandoff`, `CompleteForRun`, `CompleteRunsForProject` | the end of `handle_audit_submission` after a final wave: commit, then two closing sections |
| `Restart` | the process ends and `_load_jobs` runs |
| `Tick` | time |

`Persist(nj, nw)` is `_persist_jobs`: the new jobs and workers are committed together, or, when
`FaultyDisk`, the write fails and jobs and worker ownership go back to the last commit.

Messages need no variable of their own: a report names a worker, a lease and a receipt, and any
report that passes the code's checks may arrive at any time, which covers delay, loss, repetition
and reordering. `WireStates` says which states workers report: those of the present widget, those
of older workers too, or all that the endpoint accepts.

### What is abstracted

- The order of the line and the affinity of windows to profiles: `ClaimJob` takes any eligible job
  and `ClaimNothing` may hold all of them back.
- Slots and the lane limit: registration may evict any set of idle windows, which is what
  `_retire_duplicate_slots` and the lane rules may do.
- Run ids are one Boolean; `CompleteForRun` may therefore miss a dispatch whose run id drifted.
- A completion proof carried by a report is a handoff of the project; the code asks for any
  existing file with the digest reported, and no widget sends one.
- Receipts come with START_PREPARED only, as in the widget.
- `ReconcileFinishedCampaigns` may act on a verdict that is older than the newest handoff, because it looks
  before it takes the lock. The dispatch itself it reads under the lock. The fairness is that of a look at
  the present handoff.
- `reconcile_completed_blocked_runs` looks for files under a directory nothing writes to, and
  `finalize_cancel` has no caller: neither is an action. Pruning of old terminal jobs, the
  generation file and `should_ask_widget_reload` are left out.

### Properties

*Invariants.* `TypeOK`; `StartFence` (work that may be handed out has no START receipt, started work
has one, in memory and on disk); `MemoryMatchesDisk`; `OneOpenPerProject`; `LatestLeaseOnly`;
`CompletionIsProven`; `CancelledWasNotSent`.

*Steps.* `NoSecondStart` (after the receipt no claim, no other owner, no return to the line);
`TerminalIsFinal`; `LateClosureIsFresh` (apart from the request that wrote the handoff, nothing
closes a dispatch on a handoff older than it).

*Liveness.* `StrandedWorkMovesOn`, `FinishedRunsClose`.

*Refinement.* `KeepsContract`: with `Life` as refinement mapping, the Bridge implements
`DispatchContract`, which knows only waiting, held, running, lost, parked and the three ends.

### Runs

| Run | Question | Bounds and why they are enough |
|---|---|---|
| `writes` | Do failed writes and restarts ever break the boundary, the agreement of memory and file, the proof of completion? | One window, one dispatch, two claims, no retry left at the second failure; every state the endpoint accepts may be reported. A second window adds nothing to a failed write; a second claim is what an old lease needs. |
| `windows` | Can two windows start the same dispatch, or an old lease be used? | Two windows, two receipts, two claims, one retry, a lease that survives one tick, so that expiry, eviction, restart and reconciliation all happen between any two reports. |
| `sequence` | Does the next dispatch of a project suffer from the previous one: two open at once, or the second closed on the handoff of the first? | Two dispatches of one project, failing writes, all timers at their shortest. |
| `liveness` | Do the passes free what is stranded, and close what is finished? | Two windows, one dispatch, under `Fairness`. |

Timers are one or two ticks. What matters is their order and which may run out first; `RecoveryGrace`
is the longest, as in the code.

### Fairness

`Fairness` asks that time passes and that each pass of the supervisor is taken again and again while
it has something to do. The supervisor thread runs `tick` in a loop and no exception of one pass
keeps the next from running, so weak fairness is what the code gives. Nothing is asked of windows or
of the operator: they may stop for ever, which is the case the passes exist for.

## 4. Proofs

`DispatchRecords` has a lemma for each change a section makes to one record. `Sound` says what every
record satisfies: its type, the START fence, the lease of the last claim, and what the terminal
states imply. `Kept` and `Moved` say what a step may not do to a record. `DispatchSteps` lifts the lemmas
through `Persist` to every action and proves the inductive invariant `Consistent`: all records, in
memory and on disk, are sound, and the two agree but for `left`, `age` and `bound`. The last conjunct
is needed because a failed write brings the record on disk back to memory, so what is on disk must
be sound, too, and may not differ from memory in anything that a step property speaks of.
Its second part does the same for the workers, and `BrowserDispatchProofs` draws the conclusions,
with the invariant `Backed` joining completed dispatches to handoffs. Its last part
shows that every action maps to a step of the contract or to a stutter.

Proved for every value of the constants allowed by `NoneAssumption`, `BoundAssumption` and
`WireAssumption`: `TypeOK`, `StartFence`, `MemoryMatchesDisk`, `LatestLeaseOnly`, `OneOpenPerProject`,
`CompletionIsProven`, `NoSecondStart`, `TerminalIsFinal`. Under the further assumption that no worker
reports CANCELLED, as the present widget never does: `CancelledWasNotSent` and the refinement
`KeepsContract`. Under the assumption that no worker reports COMPLETE: `LateClosureIsFresh`.

Only model-checked: the two liveness properties (fairness and ENABLED are beyond TLAPS).

## 5. PreparedStore and PreparedWorker

`PreparedStore` is the database of `prepared.py`: each of its operators that changes a variable is one
`BEGIN IMMEDIATE .. COMMIT`. `PreparedWorker` is everything that runs on it: the scheduler's pass,
the delivery threads, the CLI agents, the operator, time, and the ends and starts of the programs.

### State

| Variable | Code |
|---|---|
| `body` | `prepared_jobs`; `event` is the trigger configuration, which fixes the `trigger_event_id` |
| `row` | `prepared_executions`, in order of insertion |
| `holder` | `prepared_account_reservations` |
| `phase` | where the clock is for each event: early, due, past the catch-up deadline |
| `bridge` | the lifecycle of `PreparedWorker` and its process |
| `pass` | the local variables of `tick` |
| `thread` | an `execute_claimed` per receipt and generation, and the account it was given |
| `agent` | the CLI process that thread started |
| `edits`, `faults` | bounds |

### Actions

| Action | Code |
|---|---|
| `BeginPass`, `RecoverListed`, `ListJobs`, `EndPass` | `tick`: the expired receipts, then `jobs.list()`, then the end |
| `ParkListed`, `Choose`, `Rearm`, `Probe`, `SaveProbe`, `ParkVerified`, `Skip`, `ClaimDue`, `SettleMissed`, `Wait`, `Park` | what `tick` does for one job; each is one transaction or one read, because the operator's process may write between any two |
| `Refuse`, `Postpone`, `Raise`, `Prepare`, `Launch`, `Spawn`, `SpawnFails`, `Commit`, `Send`, `Verify`, `Finish` | `_deliver` and `_execute_claimed`, step by step |
| `Heartbeat` | the thread that renews the lease |
| `Arm`, `Disarm`, `TestNow`, `Resolve` | the buttons of `limits_prepared_widget.py` |
| `Stop`, `Exit`, `BridgeDies`, `OperatorDies`, `Start` | `stop()`, the end of a process, a crash, `start()` |
| `TimePasses`, `LeaseExpires` | the clock |

### What is abstracted

- A lease is live or expired. A lease that is renewed by its heartbeat expires only through a fault
  (a machine asleep, a full pool); one that nobody renews may expire at any time.
- A reservation and the lease of its owner are always written with the same expiry, so a reservation is
  in force while that lease is live.
- The generation stands for the owner too: nothing writes one without the other.
- WAITING_TRIGGER and WAITING_LIMIT are one state; reasons, attempts and probe counters are left out.
- The limits of an account are a choice: `Wait` and `ClaimDue` are both possible for a due event.
- `Choose` takes any account that is free for an AUTO job; the loop over further candidates is a later
  pass. Jobs of a pass come in any order.
- A manual test is planned for the account its job has at the claim. The code plans it from the copy of the job
  that the widget shows (`limits_prepared_widget.py:757-778`), so that an edit by another process in between is a
  second way to the finding of `prepared_account` (section 11). No other property depends on the account given.
- Disarming changes the job as it is; the code saves the copy that the widget shows, disarmed
  (`limits_prepared_widget.py:722`), and may so take back an edit by another process.
- An account that is unknown when a receipt is recovered is a fault, of which there are `MaxFaults`. An account
  removed for good is unknown to every pass: each takes the receipt over again, nothing is launched, and the
  receipt stays CLAIMED (`prepared_worker.py:1221`). `NothingHangs` is claimed without this case.
- A generation counts to `MaxGen`; a further recovery keeps it. The bound is above what the faults allow
  to be taken over while a payload is out.
- Clocks do not go back.

### Properties

`TypeOK`; `DeliveredOnce` (one payload per receipt, per event and per ONE_SHOT job); `SentIsOnRecord`
(a receipt whose payload may be out can not be launched again); `OneActivePerJob`; `AccountIsExclusive`;
`JobFollowsReceipt` (job and receipt agree, and no job claims an execution that does not exist);
`TerminalIsFinal`; `NothingHangs` (no execution in progress for ever, unless its agent is);
and the one that fails, `LaunchedAsClaimed`.

### Runs

| Run | Question | Bounds and why they are enough |
|---|---|---|
| `prepared_once` | Can a payload go out twice? | One job, two accounts and AUTO, two events, two receipts, three generations, two faults and one edit: a takeover, a takeover of the takeover, a second event after the first. `StaleClock` lets a caller be suspended with an old clock. |
| `prepared_tables` | Do jobs, receipts and reservations agree? | Two jobs that compete for one account, one of them AUTO, a receipt each or two of one (a test and an event), one fault, one edit. |
| `prepared_liveness` | Does anything stay claimed for ever? | A job that recurs once, under `Fairness`, one fault, one edit. |
| `prepared_account` | Does the delivery use the account it reserved? It does not. | One job, two accounts, one edit. |

### Fairness

`Fairness`: the scheduler's loop goes on (`_loop` catches what a pass raises and passes again within 30
seconds) and works on each of its jobs; a delivery thread goes on unless it fails; a lease that nobody
renews runs out; a program that ended is started again. Agents may work for ever.

## 6. Proofs about PreparedWorker

`PreparedProofs` gives, for each transaction of `PreparedStore`, the type of the tables after it and
what it did to its receipt, and proves `TypeOK`. It proves `DeliveredOnce` and
`SentIsOnRecord` from the invariant `SafeInv`, which has four parts besides the type:

- `OnRecord`: a receipt with a process on record is not in a state it could be launched from. Without it
  nothing would keep a recovered receipt from going through LAUNCHING again.
- `OneReceipt`: two scheduled receipts of a job have different events, and of two scheduled receipts of a
  ONE_SHOT job one is the receipt of a missed event, which nothing changes any more.
- `OutOnRecord`: a delivery past `Commit` has its process on record, also when it has lost its receipt or
  its program is gone.
- `OneOut`: one delivery of a receipt at most is past `Commit`.

The argument has two halves. Each step of the system is, for the receipts, a `RowStep`: none changes,
one is worked on, or one appears. And it is, for the deliveries, an `OutStep`: none gets out, or one
does whose receipt goes on record in the same transaction. A second delivery of the receipt would
have to find it in LAUNCHING, which `OnRecord` excludes. Neither the lease nor the generation is needed
for this: the states alone are the fence. So the theorems hold with old clocks too (`StaleClock`), and
with a generation that stops counting.

Both hold for every value of the constants allowed by `StoreAssumption` and `WorkerAssumption`.

`PreparedAgreement` proves `OneActivePerJob`, `AccountIsExclusive`, `JobFollowsReceipt` and
`TerminalIsFinal`, the first three from the invariant `Agreement`:

- `Tables`: the three properties, and `Placed`, a receipt on its way to a launch names an account.
- `ListedLapsed`: a receipt that the pass found expired is still expired, and in progress, when the pass
  comes to recover it. The transaction of a recovery asks only for the expired lease, not for the state,
  so a receipt that ended meanwhile would be brought back.
- `CopiesClear`: no copy a pass holds of a job shows an execution, and a job that the pass works on has
  no scheduled execution. `save()` refuses a job only while an execution is active, and it writes
  the whole copy; a copy that showed an execution would put the job in a state that nothing leaves.

Each transaction is one of three kinds: it begins an execution (`BeginTables`), moves or ends one
(`MoveTables`), or touches what no execution is using (`AsideTables`, `LapseTables`). What a step of any
process does to the receipts is `Moves`: no scheduled execution begins, what has lost its owner stays as
it is, what has ended stays ended. A pass survives any step that `Moves`, because its copies and its
list are about executions that did not exist or had lost their owner; only `ClaimDue` begins one, and
it takes its job out of the pass, and only `RecoverListed` touches one that has lost its owner, and it
takes that from the list.

These four theorems assume `~StaleClock`, as the run `prepared_tables` does: a caller that compares a lease
with a clock read long before may move a receipt whose reservation another has taken since.

Only model-checked: `NothingHangs`.

## 7. WaveIngestion

A wave is a history file, a canonical file, for the last wave the handoff of the campaign, the
campaign index and the state of the run. They are separate writes, under one lock for the run
(`state.py`) and one for the audit root (`campaign.py`), undone by a rollback that may itself fail.
Readers take neither lock, and one of them writes: a scan of the audit root (`audits.py:369`) that finds
every wave and no index composes the handoff itself.

### State

| Variable | Code |
|---|---|
| `disk` | the files of the audit root: canonical waves, history, the handoff, `campaign.json` |
| `saved` | the state file of each run: the accepted waves, and the marker of a generation to be published |
| `req` | where each request thread, and the desktop, is in its transaction: the files it has still to write or restore, its snapshot and the state of the run in its memory |
| `unannounced` | history: runs with an accepted wave that no generation has announced |
| `pasted`, `closed` | history: waves a paste committed, and dispatches closed by an ingestion or by the probe |
| `scan` | the scans under way: whether the handoff was listed, and the run of each wave read so far |
| `scanned` | history: the handoffs that scans have written |
| `asked`, `residue`, `cuts` | bounds |

A file holds the run it comes from, a handoff the run of each of its waves: nothing else about contents
decides anything. A plan of writes is the order of the code, and `Paths` the order of its rollback.

### Actions

| Action | Code |
|---|---|
| `Submit` | `handle_audit_submission` up to the lock of the audit root |
| `Retry`, `Recheck` | `_completed_wave_duplicate_response`: which files differ, decided before the lock; then the handoff |
| `Materialize` | `handle_audit_materialize` |
| `Paste`, `Compose` | `ingest.py` |
| `Lock`, `GiveUp`, `WriteFile`, `Commit`, `Fails`, `Restore` | the transaction, its snapshot, its last write and its rollback, file by file |
| `Announce`, `Clear`, `Close` | what follows the commit: the generation, the marker, the dispatch |
| `Probe` | a scan that finds an index: the supervisor of the dispatcher reads it, without a lock, and may close the dispatch |
| `ScanLook`, `ScanRead`, `ScanHandoff`, `ScanWrite`, `ScanEnds` | a scan that finds every wave and no index (`scan_project`, for the probe and for the desktop's refresh): it reads wave after wave, looks again for a handoff that it listed, and writes one composed of what it read; or it stops at a wave that is gone, an error or the end of its process |
| `Crash` | the end of the Bridge or of the desktop in the middle of anything |

### What is abstracted

- The canonical artifacts of a profile are one file, the handoff.
- The validation of a wave's text, the identity and placement of a project, receipts and
  verify-only requests refuse a request before it changes anything.
- Bytes, digests and timestamps: two deliveries of one wave of one run have the same bytes.
- The snapshot is of the whole root; the code takes it of the files on its list, and only those are
  restored.
- A scan takes its directory listing and its look for the index in one moment; its cache, its choice of a
  profile and an unreadable wave (which ends it before it writes) are left out.
- `auto_repair_index` (`campaign.py:1179-1191`), a third writer of `campaign.json` that looks at waves and handoff before it
  takes the lock, is left out: only the command-line entry point of `saipen.py` calls it (section 12).
- Runs are pruned at startup only; the repair of an incomplete finalisation (`server.py:1924`) is not
  reached from any state the transactions leave; a file of the wrong type or unreadable is `GiveUp`.

### Properties

`TypeOK`; `VisibleIsAccepted` (what a reader sees between transactions was accepted, as long as no
rollback left a file behind and no crash cut a transaction; a handoff that a scan wrote is excepted, because
a scan may write what a rollback has taken back: section 11); `CompleteHasHandoff` (the index never
sends a reader to a handoff that is not there, not even inside a transaction or after a crash, until a rollback
left a file behind);
`AcceptedKeepsHistory` (an accepted wave keeps its copy through everything); `AcceptedIsKept` (two
requests of one run do not lose a wave); `UnannouncedIsMarked` (what was not announced keeps its
marker); `ClosedIsAccepted` (a dispatch closed by a delivery has its whole campaign).

### Runs

| Run | Question | Bounds and why they are enough |
|---|---|---|
| `wave` | Do failures, rollbacks, crashes and crossing requests leave anything but what was accepted? | Two runs of two waves, two request threads, a pasting desktop and a thread that scans, three requests, one handoff written by a scan, one file a rollback cannot restore, one crash inside a transaction: a campaign and a second one in its way, with a scan between any two of their writes. |
| `wave_retry` | Does a repeated delivery change nothing? It does: see section 11. | Two runs of one wave, one thread, three requests, no scan, nothing fails. |

Runs, and threads, are interchangeable and every property is a safety property, so the symmetry is
sound.

### Proofs

`WaveIngestionProofs` proves every property above, for any number of runs, waves, threads and requests,
and however many rollbacks leave a file and crashes cut a transaction. It assumes only `WaveAssumption`: the
value for a missing file is none a file holds, and the desktop is no thread of the Bridge.

None of the properties is inductive, because a transaction is many steps. The invariant `IInv` follows one
request from its admission to its end:

- `Locked`: no two handlers work on one run, and no two threads on the audit root.
- `Holds`: a handler has in memory the state that its run has on disk or, before it commits a
  delivery, that state and its wave. This is what the lock of the run is for: `AcceptedIsKept` follows from it.
- `Planned`, `Todo`, `Wrote`: what is still to be written is on the list of the snapshot, the index comes last,
  and what the index needs (the handoff, the copy in the history) is on the plan or already on disk. What is not on the
  list of the snapshot is as the transaction found it, but for a handoff that a scan has written since (`AsFound`).
- `Snapped`, `Showing`, `Undone`: the snapshot has the properties of the disk; inside a transaction a reader
  sees what was accepted or will be by this commit; what a rollback is through with is as
  before. A rollback restores the index before it takes the handoff back.
- `Announced`: a marker is cleared only after its run was announced.

A crash may end a transaction between any two of its writes or restorations, so `CompleteHasHandoff` and
`AcceptedKeepsHistory`, which hold after crashes too, rest on the order of these lists and on nothing later.
As in the runs, `CompleteHasHandoff` is claimed until a rollback could not restore a file (`residue`), and
`VisibleIsAccepted` until then or until a crash cut a transaction.

The order of waves in a plan is built by a recursive function. Of the result the proof needs which files are
on it, and where the index is. `InOrderIs` proves this for every set of waves: the
recursion has a solution from its end down to any wave (`BuildsMore`, and a least wave with a solution can only be
the first), and it has one solution only.

Scans are followed through the same invariant (`ScanWritePreserves`): one that writes in the middle of a transaction
changes the handoff and nothing else, never takes one away, and what it wrote is in `scanned`. So
`CompleteHasHandoff` and `AcceptedKeepsHistory` need no exception for them.

Two results are theorems and in no run: `WaveLocked`, and `WaveRollbackRestores`, that a rollback which could restore
every file on its list has restored the whole audit root (but for a handoff that a scan wrote in the meantime). The second is about the lists: a file the
code writes but does not put on the list would break it, as the handoff of the other profile once was
(`server.py:405`).

What a repeated delivery does to a newer campaign, section 11, contradicts none of this: the old handoff was accepted too.

## 8. AuditStart

`start()` runs in the desktop, for the operator, and in the Bridge, for prepared executions. It writes
an intent in a journal all processes share, claims it under a fencing number, packs, asks the Bridge for a
dispatch and writes its name. Each action is one section under the journal's lock, or one request to the
Bridge; anything may happen in between.

### State

| Variable | Code |
|---|---|
| `intents` | the journal of start intents, with the tombstones of settled prepared ones |
| `jobs` | the dispatches of the project, in the states of `DispatchContract`, and which claim asked for each |
| `task` | where each thread is in `start()` |
| `flying` | submissions the Bridge has not yet served |
| `glance`, `command` | what a refresh of the board has read and not yet written, what an operator's command has still to write |
| `closing` | the close token of the desktop |
| `unheard` | history: claims that ended without knowing what became of their request: the Bridge was silent, or they adopted another dispatch while it still had the request |
| `events`, `faults` | bounds |

### Actions

| Action | Code |
|---|---|
| `Release`, `Released`, `Begin`, `Look`, `LookAgain`, `Retire` | `start()` up to the claim: the dispatch blocked before START, the journal, the open dispatch, the dispatch of the intent |
| `TakeClaim` | `claim_or_takeover` and the update after it |
| `Pack`, `Withdraw`, `Post`, `Serve`, `Timeout`, `Adopt`, `Queue` | the claimed section to its end, and the Bridge serving the request early, late or never |
| `Cancel`, `Abandon`, `Reset`, `CarryOut` | `cancel`, `abandon`, RESET ALL: the request, then the journal |
| `Glance`, `Reconcile` | `refresh_runs` |
| `Elsewhere` | what audits of other projects do to this journal: compaction |
| `Advance`, `Close`, `Crash` | windows and sweeps of the Bridge (`JobMoves`), the desktop closing, a process ending |

### What is abstracted

- The Bridge is an assumption: `Serve`, the commands and `Advance` move dispatches as `DispatchContract` allows,
  and nothing is claimed about that here. Section 4 proves that the dispatcher keeps the contract.
- One project, one thread that starts in each process. The journal can always be read and its lock comes in time.
- The owner of a claim is kept while its token is: no test reads it otherwise.
- READY and COMPLETE, which differ in the proof of the handoff, are `ENDED`. The board is refreshed for one
  dispatch at a time.
- The write of SUBMITTING and the request are one action: nothing acts on the difference.
- An operator's intent is dropped after a hundred newer ones; here any event may drop it.
- Starts and intents are used up in the end, so deadlock is not checked, and there is no liveness.

### Properties

`TypeOK`; `WrittenByLatest` (no superseded start writes); `ClosedNotSubmitted` (a start the closing desktop
calls cancelled has asked for nothing and never will); `FailedHidesNoAudit` (a start that calls itself failed
has no live audit, unless the Bridge was silent or still had the request); `NobodyIsLockedOut` (a claim
refuses others only while its thread lives); `SourceHasOneIntent` (a prepared execution is started once,
also when its intent is long compacted); `AuditIsOnRecord` (once the last claim of an intent has ended, the open
audit it asked for is the one its intent names, so that cancel, recover and the board find it; an audit nobody
has on record could only be ended in the Bridge. The exception is the same as that of `FailedHidesNoAudit`).

### Run

`starts`: an operator's start on the desktop and a prepared one in the Bridge, two intents, two dispatches, two
claims of an intent, one command, reading, compaction or close, and one crash or lost answer. Two claims are
what a superseded one needs; a second dispatch is what a late answer may be confused with.

### Proofs

`AuditStartProofs` proves every property above, for any number of processes, threads,
prepared executions, intents, dispatches, claims and faults, from `StartAssumption`. The invariant `IInv` has five
parts besides the type, the shape of each record and `SourceHasOneIntent`:

- `Fenced`: a claim (an intent and its fencing number) is given out once, no two threads work under one, and a thread
  that has not sent its request knows that nobody has under its claim. Fencing numbers only grow while the
  intent is in the journal, and an intent that left the journal is never claimed again.
- `Settled`: what a claim wrote last stays true of it. After CANCELLED its thread is gone, nothing is on its
  way and no dispatch is its; after FAILED the same, unless the Bridge never answered. `ClosedNotSubmitted` and
  `FailedHidesNoAudit` follow, although the Bridge may serve a request long after the thread has given up.
- `Attended`: a token whose owner lives is that of a thread under the last claim of the intent. So a
  claim that refuses others is on its way, and a crash, which clears the owner, opens the intent to a takeover.
- `Lawful`: at most one dispatch is open, and one that is over is no claim's.
- `Recorded`: while a thread works under the last claim of an intent, the token is there; when the token is gone
  (`Spent`), and before that when the thread has a name to write, what the claim asked for was served and is the
  dispatch of that name, if it is still open (`Served`). `AuditIsOnRecord` follows.

`Fenced` is needed for `Settled`: the request of another claim of the same intent must not be mistaken for that
of the claim that ended.

## 9. WorkerPool

The supervisor's pass, a start on the desktop and the operator's relaunch all open browser windows. Each
reads the registry of the Bridge first and then, under the lock of a ledger the processes share, takes the
vacant slots. What it read may be old by then.

### State

| Variable | Code |
|---|---|
| `ledger` | `managed_browser_workers.json`: state, launches and time of each slot |
| `row`, `seen` | the registered window of each slot, and the longer memory of slots (`managed_slot_lanes`) |
| `queued` | the length of the line |
| `lastQueued`, `unproductive`, `pace`, `due` | the budget of `DispatchSupervisor`, the pause between its launching passes, its interval |
| `bridge` | `start()`, `stop()`, the end of the process |
| `pass` | what each of the three is doing: what it read, what it holds taken, the slot it is at |
| `opened` | slots on which a window was ever opened |
| `silent`, `tries`, `outdated` in `pass` | history: windows opened since a slot was heard, launching passes since the line shrank, slots heard since the look |
| `events`, `faults` | bounds |

### Actions

| Action | Code |
|---|---|
| `SupervisorLooks` | the last part of `tick`: budget, pause, stop flag |
| `DesktopLooks` | `provision_capacity` and the windows of `start()` |
| `OperatorLooks`, `Relaunch` | `relaunch_managed_slot`, `launch_slot` |
| `Provision`, `Spawn`, `Record` | `ensure_capacity`: the reservation of the next vacant slot, the window, the record; then the next one |
| `Poll`, `Enqueue`, `Withdraw` | the dispatcher, as far as windows and the length of the line go |
| `Stop`, `Stopped`, `Exit`, `BridgeDies`, `StartBridge`, `BreaksOff` | the ends and starts of the processes, and a pass that fails |
| `Tick` | a unit of time |

### What is abstracted

- Time is in units longer than a pass, ordered as the constants of the code are (20, 45, 45, 75, 120, 150
  and 600 seconds): `PoolAssumption`. A unit ends only when no pass is under way and the supervisor has had its turn.
- Starting the Bridge takes longer than a pass on the desktop.
- A slot has one window; two busy ones on a slot count once, and personal tabs are left out.
- A claim and its poll are one action. A new generation of the ledger, the rebuilding of a corrupt one
  and of one in the old format are left out; a lock that does not come in time is `BreaksOff`.
- `stop()` that gives up after 20 seconds is followed by the end of the process: `BridgeDies`.

### Properties

`NoDoubleBoot` (no second window on a slot while one may be booting, whoever opens it and whoever dies
between reservation, window and record); `FutileIsBounded` (a slot that never answers gets a bounded number of
windows before its ban ends); `BudgetHolds` (the supervisor launches in a bounded number of passes while
the line does not shrink, however windows come and go); `StopIsFinal` (after `stop()` no pass opens a
window); `QueuedWorkMovesOn` (a waiting dispatch is claimed or the budget is used up, every slot was heard
lately, or the Bridge is gone). `NoDoubleBoot` does not count a window opened against a look that a
heartbeat has made untrue, or that failed: those are the duplicates of section 11. `TypeOK` is not in the
run, because it is proved.

### Run and fairness

`pool`: two slots, one waiting dispatch, two launches of a slot, two launching passes, times 1, 1, 1, 2, 3, 4,
one event of the operator, one crash or failure. The safety properties were found to hold with two events too
(21 million states). `Fairness`: the supervisor's loop passes again, a pass that was begun ends, time
goes by. All three are threads of the program or the clock; windows and the operator owe nothing.

## 10. Proofs about WorkerPool

`WorkerPoolProofs` proves `TypeOK`, `NoDoubleBoot`, `FutileIsBounded`, `BudgetHolds` and `StopIsFinal` for any
number of slots and all times `PoolAssumption` orders. None of them is inductive, because a pass acts on
the registry as it was. The invariant `IInv` says what may have changed since the look:

- `Looked`: what a pass read is still registered, and what is registered it read, or it was heard since
  (`outdated`), or the Bridge is gone, and then only the pass of the desktop is left.
- `Counted`: the windows that count against a slot show in its entry of the ledger, in an age not above
  theirs and a number of launches not below theirs. So whoever opens one must have got past `Pending`, `Cooled` and `Attempts`.
- `Reserving`: the slot a pass is about to open is reserved at age 0, nothing boots on it, and it had a launch
  left. The reservation is written before the window is opened: a crash in between leaves an entry too many, never a window too many.
- `OneHolds`, `Asked`, `Spent`: one pass has the lock; the slot the operator asked for has started over or was
  opened since; the budget counts at least the passes.

Only model-checked: `QueuedWorkMovesOn`.

## 11. Where code and documents disagree

`prepared_account`: `tick` delivers under the account of the copy of the job it read, while `claim`
reserves and records the account of the job as it is by then. An edit in between launches a different
account, which the comment on `BLOCKED` calls worse than not launching at all. The button of the manual test has
the same gap, between the copy its widget shows and `claim_test`; the model leaves it out (section 5).

`wave_retry`: a repeated delivery of an accepted wave compares the canonical files with what its own run
wrote, and never asks whether the index has moved on to a later run. It puts the old handoff back under
the index of the new campaign, where the comment at the call promises a no-op.

Observations that no run turns into a finding:

*Dispatcher.*

- An unproven COMPLETE is settled by `_durable_campaign_verdict`, which takes any complete campaign of the
  project, also one older than the dispatch, which `complete_runs_for_project` refuses to do. Only
  workers older than the present widget report it.
- The closing sections of the ingestion request pass no age of the handoff ("written just now"). If
  the run that produced it was abandoned and a new dispatch of the project is past START, the new one
  is closed.
- The wire lets the owner move BLOCKED to CANCELLED without `safe_prestart_cancel`, and lets anyone
  move RETRYABLE to QUEUED, where no owner is left to ask.
- A START_PREPARED refused for its receipt has already bound the run id, in memory only.
- A window that reports BLOCKED after START leaves no `recovery_state`; only the operator ends such
  a dispatch.
- A restart followed by a reconciliation can give one window two live dispatches; its poll renews
  the first of them only.

*Prepared scheduler.*

- A receipt left in FAILED_RETRYABLE keeps `settle_without_launch` from writing the one that settles the
  event as missed; the job stays armed and every pass tries again.
- With an old clock (`StaleClock`), `recover_expired` may take a receipt that its delivery has just
  finished back to RECOVERY_REQUIRED. It takes 120 seconds of suspension within one call.
- A pass's save of its copy of a job may undo the operator's disarming of it.
- No operation ends a scheduled execution in RECOVERY_REQUIRED.
- A receipt to be resumed under an account that is no longer known stays CLAIMED, with a new generation at each
  pass, and its job can not be edited meanwhile.

*Ingestion.*

- The probe may close a dispatch on a handoff that a rollback then takes back.
- A scan that finds all waves and no index writes the handoff without the lock of the audit root
  (`audits.py:593-617`, `654-687`), where `campaign.py:656` has every writer of a root serialized. One that read
  the waves of a first paste and writes after its rollback leaves a handoff nobody accepted; a slow one may
  overwrite the handoff of a campaign indexed since. `WaveIngestion` has both; `VisibleIsAccepted` excepts such handoffs.
- The index repair of `saipen.py` decides on waves and a handoff it read before it took the lock.
- Two runs whose deliveries interleave, followed by a paste, mix their waves in one handoff.
- A materialization and a paste announce a generation without a marker; when that fails nothing
  repeats it. When the lock of the generation does not come in time after a commit, the request ends
  before it closes its dispatch; the sweep does it.

*Starts.*

- `claim_or_takeover` refuses only PREPARING, PACKING and SUBMITTING, so a start that comes late is granted a
  claim on an intent already QUEUED or settled, and packs and submits once more. The Bridge refuses
  the second dispatch while the first is open.
- A POST gives up after ten seconds. When the Bridge still hashes the archive then, adoption finds nothing
  and the intent is FAILED while its audit is about to begin: `FailedHidesNoAudit` excepts this case.
- RESET ALL writes CANCELLED without a claim, and a start that is under way writes over it. With the Bridge down
  it writes off intents whose dispatches live.
- When two intents have adopted one dispatch the board keeps only the last of them up to date; a dispatch that was pruned
  leaves its intent RUNNING, and a start of the project is told it is already active, until RESET.
- An update that does not get the journal's lock leaves a token that refuses starts until the process ends.
- A prepared execution whose process dies between the submission and QUEUED stays in progress.

*Windows.*

- A status read before the lock, while the window it misses reports and another pass records its heartbeat,
  opens a second window on the slot. So does a status request of the desktop that fails after a good
  health check, which reads as no window at all.
- A stop request after the check of the flag lets the pass open all its windows, not one.
- What the Bridge remembers of silent slots is lost when it restarts, so a slot with a sleeping window
  counts as vacant.
- A pass that breaks off after its window is not charged to the budget.

## 12. Not modelled

`PROJECT.json` gives every component with its status and the reason. In short:

- Of modelled components: the order and affinity of the dispatcher's line, its slots and the pruning of history;
  the SYNC, PRIME and AUDIT jobs of the prepared scheduler, the limits and the ranking of accounts; the
  validation of a wave's text, the identity and placement of projects; the proof texts of the board;
  the entry point `saipen gg`, with its repair of the index.
- The single instance, the registry of projects and the Qt task runner are concurrent, but small beside the
  operating system calls (named pipes, file locks, Qt's queued signals) whose meaning a model would have to
  assume.
- Packing, evidence, source inventory, fidelity, INAUDIT and the drop of handoffs, the largest part of the
  source by lines, are sequential work of one thread on the contents of files; launching, accounts,
  components and the user interface are input and output, translations and layout. They have no steps of several
  actors to explore, and what they get right or wrong is in data these models leave out.
