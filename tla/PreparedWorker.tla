--------------------------- MODULE PreparedWorker ---------------------------
(***************************************************************************)
(* The processes that work on the tables of PreparedStore: the scheduler   *)
(* of the Bridge (prepared_worker.py), which passes over the jobs, claims  *)
(* the events that are due and recovers the receipts whose owner is lost;  *)
(* the deliveries (prepared_delivery.py), threads that start a CLI agent   *)
(* for one receipt and write the payload to its stdin; and the operator,   *)
(* who arms, disarms and tests jobs from another process.                  *)
(*                                                                         *)
(* Only the CLI launches are modelled: the pass hands audits, SYNC and     *)
(* PRIME jobs to code of their own.                                        *)
(***************************************************************************)
EXTENDS PreparedStore

CONSTANTS
  FirstAccount,   \* the account of each job at first
  StrictJobs,     \* jobs with availability_policy STRICT_TIME
  MaxEdits,       \* bound: edits and tests by the operator
  MaxFaults       \* bound: crashes, pauses and failures

ASSUME WorkerAssumption ==
  /\ FirstAccount \in [Job -> Account \cup {AutoAccount}]
  /\ \A j \in ResetJobs : FirstAccount[j] # AutoAccount
  /\ StrictJobs \subseteq Job \ ResetJobs
  /\ {MaxEdits, MaxFaults} \subseteq Nat

VARIABLES
  phase,     \* of each event: before its time, due, or past its catch-up deadline
  bridge,    \* the lifecycle of the Bridge and of its PreparedWorker
  pass,      \* the pass of tick() that is running
  thread,    \* the delivery of each receipt under each generation
  agent,     \* the CLI process which that delivery started
  edits,     \* edits and tests so far
  faults     \* faults so far

procs == <<bridge, pass, thread, agent>>
world == <<phase, edits, faults>>
vars  == <<body, row, holder, phase, bridge, pass, thread, agent, edits, faults>>

Phase == {"early", "due", "missed"}

\* A job of the pass: read by jobs.list(), with an account, with its reset moved,
\* read again after a probe of the limits, with the probe saved, with its reset
\* moved after that, or about to be parked.
Step == {"out", "listed", "verify", "rearmed", "probed", "decide", "final", "park"}

\* listed holds the receipts found expired; seen[j] is the pass's copy of a
\* job, use[j] the account it is going to launch with.
PassRecord ==
  [on: BOOLEAN, jobs: BOOLEAN, listed: SUBSET Exec, step: [Job -> Step],
   seen: [Job -> Body], use: [Job -> Account \cup {NoAccount}]]

\* Where a delivery is: submitted, after the advance to PREPARING or LAUNCHING,
\* with a process, after the advance to DELIVERING, with the payload written,
\* after the advance to VERIFYING, or over.
Running  == {"preparing", "launching", "spawned", "committed", "sent", "verifying"}
ThreadPC == {"none", "queued", "gone"} \cup Running

Thread == [pc: ThreadPC, account: Account \cup {NoAccount}]

\* An agent is idle until it gets the payload.
AgentState == {"none", "idle", "working", "finished", "killed"}
Given(e, g) == agent[e][g] \in {"working", "finished"}

FirstBody(j) ==
  [enabled |-> TRUE, state |-> "ARMED", account |-> FirstAccount[j],
   event |-> IF j \in ResetJobs THEN 0 ELSE 1]

NoPass ==
  [on |-> FALSE, jobs |-> FALSE, listed |-> {}, step |-> [j \in Job |-> "out"],
   seen |-> [j \in Job |-> FirstBody(j)], use |-> [j \in Job |-> NoAccount]]

NoRow(j) ==
  [state |-> "NONE", job |-> j, event |-> 0, test |-> FALSE, gen |-> 0,
   lease |-> "none", launched |-> FALSE, account |-> NoAccount]

Init ==
  /\ body = [j \in Job |-> FirstBody(j)]
  /\ row = [e \in Exec |-> NoRow(CHOOSE j \in Job : TRUE)]
  /\ holder = [a \in Account |-> 0]
  /\ phase = [j \in Job |-> [v \in Event |-> "early"]]
  /\ bridge = "up"
  /\ pass = NoPass
  /\ thread = [e \in Exec |-> [g \in Gen |-> [pc |-> "none", account |-> NoAccount]]]
  /\ agent = [e \in Exec |-> [g \in Gen |-> "none"]]
  /\ edits = 0 /\ faults = 0

Fault == faults < MaxFaults /\ faults' = faults + 1

-----------------------------------------------------------------------------
(* Deliveries: execute_claimed() for receipt e under generation g. *)

Goes(e, g, pc) == thread' = [thread EXCEPT ![e][g].pc = pc]

\* The thread asks for a move of its receipt; a refusal ends it.
Asks(e, g, from, to, pc) ==
  IF Owns(e, g, from) THEN Advance(e, to) /\ Goes(e, g, pc)
                      ELSE UNCHANGED store /\ Goes(e, g, "gone")

At(e, g, pc) == thread[e][g].pc = pc

\* _deliver() of a scheduled receipt: a preflight check fails for good.
Refuse(e, g) ==
  /\ At(e, g, "queued") /\ ~row[e].test
  /\ Asks(e, g, "CLAIMED", "FAILED_TERMINAL", "gone")
  /\ UNCHANGED <<agent, bridge, pass, world>>

\* A preflight check fails and may be tried again.
Postpone(e, g) ==
  /\ At(e, g, "queued") /\ ~row[e].test /\ Fault
  /\ Asks(e, g, "CLAIMED", "FAILED_RETRYABLE", "gone")
  /\ UNCHANGED <<agent, bridge, pass, phase, edits>>

Prepare(e, g) ==
  /\ At(e, g, "queued")
  /\ Asks(e, g, "CLAIMED", "PREPARING", "preparing")
  /\ UNCHANGED <<agent, bridge, pass, world>>

Launch(e, g) ==
  /\ At(e, g, "preparing")
  /\ Asks(e, g, "PREPARING", "LAUNCHING", "launching")
  /\ UNCHANGED <<agent, bridge, pass, world>>

\* create_agent_process().
Spawn(e, g) ==
  /\ At(e, g, "launching")
  /\ Goes(e, g, "spawned")
  /\ agent' = [agent EXCEPT ![e][g] = "idle"]
  /\ UNCHANGED <<store, bridge, pass, world>>

\* The process, its path to the delivery is lost: it fails to start (k is
\* "none"), or is terminated as it could not be registered (k is "killed").
SpawnFails(e, g, k) ==
  /\ At(e, g, "launching") /\ Fault /\ (k = "killed" => ~row[e].test)
  /\ Goes(e, g, "gone")
  /\ agent' = [agent EXCEPT ![e][g] = k]
  /\ UNCHANGED <<store, bridge, pass, phase, edits>>

\* Mutant: the answer of advance() is ignored.
CommitAnyway(e, g) ==
  /\ At(e, g, "spawned")
  /\ IF Owns(e, g, "LAUNCHING") THEN Advance(e, "DELIVERING") ELSE UNCHANGED store
  /\ Goes(e, g, "committed")
  /\ UNCHANGED <<agent, bridge, pass, world>>

\* The process and the payload's hash go on record before the payload is sent;
\* a delivery that lost its receipt terminates the process instead.
Commit(e, g) ==
  /\ At(e, g, "spawned")
  /\ Asks(e, g, "LAUNCHING", "DELIVERING", "committed")
  /\ agent' = IF Owns(e, g, "LAUNCHING") THEN agent
              ELSE [agent EXCEPT ![e][g] = "killed"]
  /\ UNCHANGED <<bridge, pass, world>>

\* communicate(input=payload).
Send(e, g) ==
  /\ At(e, g, "committed")
  /\ Goes(e, g, "sent")
  /\ agent' = [agent EXCEPT ![e][g] = "working"]
  /\ UNCHANGED <<store, bridge, pass, world>>

AgentEnds(e, g) ==
  /\ agent[e][g] = "working"
  /\ agent' = [agent EXCEPT ![e][g] = "finished"]
  /\ UNCHANGED <<store, bridge, pass, thread, world>>

Verify(e, g) ==
  /\ At(e, g, "sent") /\ agent[e][g] = "finished"
  /\ Asks(e, g, "DELIVERING", "VERIFYING", "verifying")
  /\ UNCHANGED <<agent, bridge, pass, world>>

\* The agent's exit status is the result.
Finish(e, g) ==
  /\ At(e, g, "verifying")
  /\ \E s \in {"DONE", "FAILED_TERMINAL"} : Asks(e, g, "VERIFYING", s, "gone")
  /\ UNCHANGED <<agent, bridge, pass, world>>

\* The thread that renews the lease every 30 seconds, from Prepare to Finish.
Heartbeat(e, g) ==
  /\ thread[e][g].pc \in Running
  /\ Renew(e, g)
  /\ UNCHANGED <<procs, world>>

\* _deliver() raises before it has claimed anything, outside its handlers.
Raise(e, g) ==
  /\ At(e, g, "queued") /\ Fault
  /\ Goes(e, g, "gone")
  /\ UNCHANGED <<store, agent, bridge, pass, phase, edits>>

-----------------------------------------------------------------------------
(* Time. *)

\* An event's time comes, or its catch-up deadline passes.
TimePasses(j, v) ==
  /\ phase[j][v] # "missed"
  /\ phase' = [phase EXCEPT ![j][v] = IF @ = "early" THEN "due" ELSE "missed"]
  /\ UNCHANGED <<store, procs, edits, faults>>

\* A delivery of the current generation is waiting for a pool thread or renewing.
Attended(e) ==
  \E g \in Gen : g = row[e].gen /\ thread[e][g].pc \in Running \cup {"queued"}

\* 120 seconds pass without a renewal.  While the delivery is alive this takes a
\* sleep of the machine, or a wait for one of the three threads of the pool.
LeaseExpires(e) ==
  /\ row[e].lease = "live" /\ row[e].state \in Worked \cup {"FAILED_RETRYABLE"}
  /\ row' = [row EXCEPT ![e].lease = "expired"]
  /\ IF row[e].state \in Worked /\ Attended(e) THEN Fault ELSE UNCHANGED faults
  /\ UNCHANGED <<body, holder, procs, phase, edits>>

-----------------------------------------------------------------------------
(* The pass of the scheduler: tick(). *)

\* _submit() of a delivery, which is refused once the worker is closing.
Submitted(e, g, a) ==
  thread' = IF bridge = "up"
            THEN [thread EXCEPT ![e][g] = [pc |-> "queued", account |-> a]]
            ELSE thread

\* Mutant: a receipt that is being verified is not looked at.
BeginPassUnverified ==
  /\ bridge = "up" /\ ~pass.on
  /\ pass' = [NoPass EXCEPT !.on = TRUE,
       !.listed = {e \in Exec : row[e].state \in Worked \ {"VERIFYING"} /\ row[e].lease = "expired"}]
  /\ UNCHANGED <<store, bridge, thread, agent, world>>

\* The pass reads the active receipts, and sets aside the expired ones.
BeginPass ==
  /\ bridge = "up" /\ ~pass.on
  /\ pass' = [NoPass EXCEPT !.on = TRUE,
       !.listed = {e \in Exec : row[e].state \in Worked /\ row[e].lease = "expired"}]
  /\ UNCHANGED <<store, bridge, thread, agent, world>>

\* The account a recovered receipt is launched with again.
ResumeAccount(e) ==
  IF body[row[e].job].account = AutoAccount THEN row[e].account ELSE body[row[e].job].account

\* Its process is alive; whether it can be told apart from others is not sure.
Observable(e) == {FALSE} \cup {\E g \in Gen : agent[e][g] \in {"idle", "working"}}

\* recover_expired() of a listed receipt, and its delivery if it may be resumed
\* and its account is known.  That it is not known counts as a fault: accounts
\* that come back, not one that is removed for good.
RecoverListed(e) ==
  /\ e \in pass.listed
  /\ pass' = [pass EXCEPT !.listed = @ \ {e}]
  /\ IF CanRecover(e)
     THEN /\ \E seen \in Observable(e) : Recover(e, seen)
          /\ \/ Resumes(e) /\ Submitted(e, NextGen(row[e].gen), ResumeAccount(e))
                           /\ UNCHANGED faults
             \/ Resumes(e) /\ Fault /\ UNCHANGED thread
             \/ ~Resumes(e) /\ UNCHANGED <<thread, faults>>
     ELSE UNCHANGED <<store, thread, faults>>
  /\ UNCHANGED <<bridge, agent, phase, edits>>

\* A pass looks only at jobs that are armed, not over and not being executed.
Scheduled(j) ==
  /\ body[j].enabled /\ body[j].state \notin Terminal \cup Active \cup {"DISABLED"}
  /\ ActiveTests(j) = {}

\* jobs.list(): the pass works on these copies from here on.
ListJobs ==
  /\ pass.on /\ ~pass.jobs /\ pass.listed = {}
  /\ pass' = [pass EXCEPT !.jobs = TRUE,
       !.seen = [j \in Job |-> IF Scheduled(j) THEN body[j] ELSE FirstBody(j)],
       !.step = [j \in Job |-> IF Scheduled(j) THEN "listed" ELSE "out"]]
  /\ UNCHANGED <<store, bridge, thread, agent, world>>

On(j, step)  == pass.jobs /\ pass.step[j] = step
Deciding(j)  == pass.jobs /\ pass.step[j] \in {"verify", "rearmed", "decide", "final"}
To(j, step)  == [pass EXCEPT !.step[j] = step]
Done(j)      ==
  [To(j, "out") EXCEPT !.seen[j] = FirstBody(j), !.use[j] = NoAccount]
Due(j)       == pass.seen[j].event # 0 /\ phase[j][pass.seen[j].event] # "early"

\* save() of a copy of the job.  It raises if the job became active in the
\* meantime, which ends the whole pass.
Writes(j, b, next) ==
  \/ Save(j, b) /\ pass' = next
  \/ ~CanSave(j) /\ pass' = NoPass /\ UNCHANGED store

\* The worker's own threads are the only others of its process.
PassOnly == UNCHANGED <<bridge, thread, agent, world>>

\* The copy of a job goes back as WAITING, unless it says so already.
PutsBack(j) ==
  \/ Writes(j, [pass.seen[j] EXCEPT !.state = "WAITING"], Done(j))
  \/ pass.seen[j].state = "WAITING" /\ pass' = Done(j) /\ UNCHANGED store

Early(j) == pass.seen[j].event # 0 /\ phase[j][pass.seen[j].event] = "early"

\* The job's account or quota pool is unknown, or an AUTO job is early.
ParkListed(j) ==
  /\ On(j, "listed") /\ bridge = "up"
  /\ pass.seen[j].account = AutoAccount => Early(j)
  /\ PutsBack(j)
  /\ PassOnly

\* The account to launch with: the job's own, or for an AUTO job one that
\* nothing has reserved, or none.
Choose(j, a) ==
  /\ On(j, "listed") /\ bridge = "up"
  /\ IF pass.seen[j].account = AutoAccount THEN ~Early(j) /\ (a # NoAccount => ~Held(a, 0))
                                    ELSE a = pass.seen[j].account
  /\ pass' = [To(j, "verify") EXCEPT !.use[j] = a]
  /\ UNCHANGED store /\ PassOnly

\* reconcile_reset(), in _verify_due() and again in due(): the next reset of the
\* account is another one than the job is armed for.
Rearm(j, v) ==
  /\ j \in ResetJobs /\ (On(j, "verify") \/ On(j, "decide")) /\ pass.use[j] # NoAccount
  /\ v # pass.seen[j].event
  /\ LET b == [pass.seen[j] EXCEPT !.event = v, !.account = pass.use[j]]
         next == IF On(j, "verify") THEN "rearmed" ELSE "final"
     IN Writes(j, b, [To(j, next) EXCEPT !.seen[j] = b])
  /\ PassOnly

\* A probe of the limits, and then another look at the job.
Probe(j) ==
  /\ (On(j, "verify") \/ On(j, "rearmed")) /\ Due(j) /\ pass.use[j] # NoAccount
  /\ pass' = [To(j, "probed") EXCEPT !.seen[j] = body[j]]
  /\ UNCHANGED store /\ PassOnly

\* The quota pools of the probe do not have the one of the job: the copy goes
\* back as WAITING, with the account that this pass has worked with.
ParkVerified(j) ==
  /\ pass.jobs /\ pass.step[j] \in {"verify", "rearmed", "decide"}
  /\ pass.use[j] # NoAccount /\ pass.seen[j].account # AutoAccount
  /\ Writes(j, [pass.seen[j] EXCEPT !.state = "WAITING", !.account = pass.use[j]], Done(j))
  /\ PassOnly

\* The number of probes goes into the job.
SaveProbe(j) ==
  /\ On(j, "probed")
  /\ Writes(j, pass.seen[j], To(j, "decide"))
  /\ PassOnly

\* evaluate_trigger() of the copy, whose event is in one of the phases p.
Wants(j, p) ==
  pass.seen[j].enabled /\ pass.seen[j].event # 0 /\ phase[j][pass.seen[j].event] \in p

Overdue(j) == Wants(j, IF j \in StrictJobs THEN {"due", "missed"} ELSE {"missed"})

Selected(j) == IF pass.seen[j].account = AutoAccount THEN pass.use[j] ELSE NoAccount

\* The copy is disarmed, or the claim or the settlement is refused.
Skip(j) ==
  /\ Deciding(j)
  /\ \/ ~pass.seen[j].enabled
     \/ /\ Wants(j, {"due"}) /\ pass.use[j] # NoAccount
        /\ \A e \in Exec : ~CanClaim(e, j, pass.seen[j].event, Selected(j))
     \/ Overdue(j) /\ \A e \in Exec : ~CanSettle(e, j, pass.seen[j].event)
  /\ pass' = Done(j)
  /\ UNCHANGED store /\ PassOnly

\* claim() of the due event, and its delivery.
ClaimDue(j, e) ==
  /\ Deciding(j) /\ Wants(j, {"due"})
  /\ \/ ClaimFirst(e, j, pass.seen[j].event, Selected(j))
     \/ Retry(e, j, pass.seen[j].event, Selected(j))
  /\ pass' = Done(j)
  /\ Submitted(e, IF row[e].state = "NONE" THEN 1 ELSE NextGen(row[e].gen), pass.use[j])
  /\ UNCHANGED <<bridge, agent, world>>

\* The deadline has passed, or the time has and the account cannot be used.
SettleMissed(j, e) ==
  /\ Deciding(j) /\ Overdue(j)
  /\ Settle(e, j, pass.seen[j].event)
  /\ pass' = Done(j)
  /\ PassOnly

\* Too early, or the account cannot be used: another look at the job.
Wait(j) ==
  /\ Deciding(j) /\ pass.seen[j].enabled
  /\ pass.seen[j].event = 0 \/ Wants(j, {"early", "due"})
  /\ pass' = [To(j, "park") EXCEPT !.seen[j] = body[j]]
  /\ UNCHANGED store /\ PassOnly

\* And then it is saved as WAITING.
Park(j) ==
  /\ On(j, "park") /\ PutsBack(j)
  /\ PassOnly

EndPass ==
  /\ pass.jobs /\ \A j \in Job : pass.step[j] = "out"
  /\ pass' = NoPass
  /\ UNCHANGED store /\ PassOnly

-----------------------------------------------------------------------------
(* The operator, and the lives of the two programs. *)

\* arm(): the editor saves the job with a new trigger.
Arm(j, v, a) ==
  /\ edits < MaxEdits /\ edits' = edits + 1
  /\ IF j \in ResetJobs THEN v = 0 /\ a # AutoAccount ELSE v # 0
  /\ Save(j, [enabled |-> TRUE, state |-> "ARMED", event |-> v, account |-> a])
  /\ UNCHANGED <<procs, phase, faults>>

\* disarm_selected().  The code saves the copy the widget shows; here it is the
\* job as it is, which a copy is older than only by what an Arm could undo too.
Disarm(j) ==
  /\ edits < MaxEdits /\ edits' = edits + 1
  /\ Save(j, [body[j] EXCEPT !.enabled = FALSE, !.state = "DISABLED"])
  /\ UNCHANGED <<procs, phase, faults>>

\* test_now_selected(): a delivery in the operator's own process.  The code
\* plans it for the account of the copy the widget shows; here that is the
\* account of the job.
TestNow(j, e) ==
  /\ edits < MaxEdits /\ edits' = edits + 1
  /\ ClaimTest(e, j)
  /\ thread' = [thread EXCEPT ![e][1] = [pc |-> "queued", account |-> body[j].account]]
  /\ UNCHANGED <<bridge, pass, agent, phase, faults>>

Resolve(e) ==
  /\ ResolveTest(e)
  /\ UNCHANGED <<procs, world>>

\* The deliveries of the Bridge, or of the operator's process, end with it.  An
\* agent that is still waiting for its payload reads an empty one and ends.
Dies(test) ==
  /\ thread' = [e \in Exec |-> [g \in Gen |->
       IF row[e].test = test /\ thread[e][g].pc # "none"
       THEN [thread[e][g] EXCEPT !.pc = "gone"] ELSE thread[e][g]]]
  /\ agent' = [e \in Exec |-> [g \in Gen |->
       IF row[e].test = test /\ agent[e][g] = "idle" THEN "killed" ELSE agent[e][g]]]

OperatorDies ==
  /\ Fault /\ Dies(TRUE)
  /\ UNCHANGED <<store, bridge, pass, phase, edits>>

BridgeDies ==
  /\ bridge # "down" /\ Fault /\ Dies(FALSE)
  /\ bridge' = "down" /\ pass' = NoPass
  /\ UNCHANGED <<store, phase, edits>>

\* stop(): no submission is admitted from here on.
Stop ==
  /\ bridge = "up" /\ Fault
  /\ bridge' = "closing"
  /\ UNCHANGED <<store, pass, thread, agent, phase, edits>>

\* The stopped worker leaves its pass, and its process ends.
Exit ==
  /\ bridge = "closing" /\ Dies(FALSE)
  /\ bridge' = "down" /\ pass' = NoPass
  /\ UNCHANGED <<store, world>>

Start ==
  /\ bridge = "down"
  /\ bridge' = "up"
  /\ UNCHANGED <<store, pass, thread, agent, world>>

-----------------------------------------------------------------------------
(* The specification. *)

Delivery(e, g) ==
  \/ Refuse(e, g) \/ Postpone(e, g) \/ Prepare(e, g) \/ Launch(e, g)
  \/ Spawn(e, g) \/ (\E k \in {"none", "killed"} : SpawnFails(e, g, k))
  \/ Commit(e, g) \/ Send(e, g) \/ Verify(e, g) \/ Finish(e, g)
  \/ Heartbeat(e, g) \/ Raise(e, g)

OfJob(j) ==
  \/ ParkListed(j) \/ (\E a \in Account \cup {NoAccount} : Choose(j, a)) \/ (\E v \in Event : Rearm(j, v))
  \/ Probe(j) \/ SaveProbe(j) \/ ParkVerified(j) \/ Skip(j) \/ Wait(j) \/ Park(j)
  \/ \E e \in Exec : ClaimDue(j, e) \/ SettleMissed(j, e)

Pass ==
  \/ BeginPass \/ ListJobs \/ EndPass
  \/ \E e \in Exec : RecoverListed(e)
  \/ \E j \in Job : OfJob(j)

Operator ==
  \/ \E j \in Job :
       \/ \E v \in 0..MaxEvents, a \in Account \cup {AutoAccount} : Arm(j, v, a)
       \/ Disarm(j)
       \/ \E e \in Exec : TestNow(j, e)
  \/ \E e \in Exec : Resolve(e)

Next ==
  \/ \E e \in Exec, g \in Gen : Delivery(e, g) \/ AgentEnds(e, g)
  \/ \E j \in Job, v \in Event : TimePasses(j, v)
  \/ \E e \in Exec : LeaseExpires(e)
  \/ Pass \/ Operator
  \/ OperatorDies \/ BridgeDies \/ Stop \/ Exit \/ Start

Spec == Init /\ [][Next]_vars

\* What a delivery does next, short of failing; it is not starved of a thread of
\* the pool as long as there are at most three deliveries.
Advances(e, g) ==
  \/ Refuse(e, g) \/ Prepare(e, g) \/ Launch(e, g) \/ Spawn(e, g)
  \/ Commit(e, g) \/ Send(e, g) \/ Verify(e, g) \/ Finish(e, g)

\* A lease that nobody renews.
Lapses(e) == ~Attended(e) /\ LeaseExpires(e)

\* The loop of the scheduler, the threads of the deliveries and the clock go on,
\* and a Bridge that ended is started again.  An agent may work for ever.
Fairness ==
  /\ WF_vars(BeginPass) /\ WF_vars(ListJobs) /\ WF_vars(EndPass)
  /\ \A j \in Job : WF_vars(OfJob(j))
  /\ \A e \in Exec :
       /\ WF_vars(RecoverListed(e)) /\ WF_vars(Lapses(e))
       /\ \A g \in Gen : WF_vars(Advances(e, g))
  /\ WF_vars(Exit) /\ WF_vars(Start)

FairSpec == Spec /\ Fairness

-----------------------------------------------------------------------------
(* Properties. *)

TypeOK ==
  /\ body \in [Job -> Body]
  /\ row \in [Exec -> Row]
  /\ holder \in [Account -> 0..MaxExecs]
  /\ phase \in [Job -> [Event -> Phase]]
  /\ bridge \in {"up", "closing", "down"}
  /\ pass \in PassRecord
  /\ thread \in [Exec -> [Gen -> Thread]]
  /\ agent \in [Exec -> [Gen -> AgentState]]
  /\ edits \in 0..MaxEdits /\ faults \in 0..MaxFaults

\* Whatever crashes, sleeps and takes over: the payload is written at most once
\* for a receipt, for an event of a job, and for a whole ONE_SHOT job.
DeliveredOnce ==
  \A e, f \in Exec : \A g, h \in Gen :
    /\ Given(e, g) /\ Given(f, h)
    /\ \/ e = f
       \/ /\ row[e].job = row[f].job /\ ~row[e].test /\ ~row[f].test
          /\ row[e].job \in Recurring => row[e].event = row[f].event
    => e = f /\ g = h

\* A receipt whose payload may have been written is never in a state from which
\* the program would launch it again.
SentIsOnRecord ==
  \A e \in Exec, g \in Gen :
    Given(e, g) => row[e].launched /\ row[e].state \notin Launching \cup {"FAILED_RETRYABLE"}

\* A job has at most one execution in progress, its manual tests included.
OneActivePerJob ==
  \A e, f \in Exec :
    row[e].state \in Active /\ row[f].state \in Active /\ row[e].job = row[f].job => e = f

\* An account is reserved by a receipt on its way to a launch, and by no other;
\* such a receipt has the reservation as long as its lease lives.
AccountIsExclusive ==
  /\ \A a \in Account :
       holder[a] # 0 => row[holder[a]].state \in Launching /\ row[holder[a]].account = a
  /\ \A e \in Exec :
       row[e].state \in Launching /\ row[e].lease = "live" => holder[row[e].account] = e

\* The job shows the state of its scheduled execution, and never shows one that
\* does not exist: a pass would leave such a job alone for ever.
JobFollowsReceipt ==
  \A j \in Job :
    /\ \A e \in ActiveRows(j) : ~row[e].test => body[j].state = row[e].state
    /\ body[j].state \in Active => \E e \in ActiveRows(j) : ~row[e].test

\* What has ended stays as it ended.
TerminalIsFinal ==
  [][\A e \in Exec : row[e].state \in Terminal => row'[e].state = row[e].state]_vars

\* No execution stays in progress for ever, unless its agent does: whoever held
\* it is found to be gone, and it is resumed, observed, or left to the operator.
\* It takes the account of a resumed receipt to be known again after MaxFaults
\* passes: under an account removed for good each pass would take it over anew.
NothingHangs ==
  \A e \in Exec :
    row[e].state \in Worked ~>
      row[e].state \notin Worked \/ \E g \in Gen : agent[e][g] = "working"

\* The agent runs under the account that the receipt names and reserved.
LaunchedAsClaimed ==
  \A e \in Exec, g \in Gen : Given(e, g) => thread[e][g].account = row[e].account

=============================================================================
