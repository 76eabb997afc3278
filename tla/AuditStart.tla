----------------------------- MODULE AuditStart -----------------------------
(***************************************************************************)
(* How an audit of one project is started (services/audit_run_service.py). *)
(* The desktop and the Bridge's scheduler both call start(): it writes an  *)
(* intent in a journal that all processes share, claims it under a fencing *)
(* number, packs the project and asks the Bridge for a dispatch.  Between  *)
(* these sections of the journal lock anything may happen: another start,  *)
(* the operator's commands, a refresh of the board that writes back what   *)
(* it read earlier, a lost or late answer of the Bridge, a crash.          *)
(*                                                                         *)
(* The Bridge is taken to move its dispatches as DispatchContract says,    *)
(* which BrowserDispatch is shown to implement; nothing is claimed of it   *)
(* here.                                                                   *)
(***************************************************************************)
EXTENDS Naturals, FiniteSets

CONSTANTS
  Process,       \* the processes that start audits
  NoProcess,     \* the owner of an intent whose process is gone
  BridgeProcess, \* the one of them that is the Bridge
  Caller,        \* the threads that call start()
  Home,          \* the process of each
  Source,        \* the prepared executions
  NoSource,      \* the key of a start that an operator asked for
  Key,           \* the key under which each thread starts
  MaxIntents,    \* bound: intents
  MaxDispatches, \* bound: dispatches
  MaxFence,      \* bound: claims of one intent
  MaxEvents,     \* bound: commands, the close of the desktop, readings of the board, compactions
  MaxFaults      \* bound: crashes and answers that do not arrive

ASSUME StartAssumption ==
  /\ BridgeProcess \in Process /\ NoProcess \notin Process
  /\ Home \in [Caller -> Process]
  /\ NoSource \notin Source /\ Key \in [Caller -> Source \cup {NoSource}]
  /\ {MaxIntents, MaxDispatches, MaxFence, MaxEvents, MaxFaults} \subseteq Nat

VARIABLES
  intents,   \* the journal, its tombstones included
  jobs,      \* the dispatches of the project, oldest first
  task,      \* where each thread is in start()
  flying,    \* the submissions on their way to the Bridge, each named by its claim
  glance,    \* the state of a dispatch that a refresh has read
  command,   \* what the operator's command has still to write in the journal
  closing,   \* whether the desktop is closing
  unheard,   \* history: the claims that ended without knowing what the Bridge did
  events, faults

vars == <<intents, jobs, task, flying, glance, command, closing, unheard, events, faults>>

Intent   == 1 .. MaxIntents
Dispatch == 1 .. MaxDispatches
Claim    == Intent \X (1 .. MaxFence)
NoClaim  == <<0, 0>>

PreDispatch == {"PREPARING", "PACKING", "SUBMITTING"}
ActiveIntent == PreDispatch \cup {"QUEUED", "RUNNING", "RECOVERY_NEEDED"}

\* ENDED stands for READY and COMPLETE, which differ in the proof of the handoff.
IntentState == ActiveIntent \cup {"ENDED", "BLOCKED", "FAILED", "CANCELLED"}

IntentRecord ==
  [where: {"nowhere", "journal", "tombstone", "dropped"}, status: IntentState,
   source: Source \cup {NoSource}, dispatch: 0 .. MaxDispatches, token: BOOLEAN,
   owner: Process \cup {NoProcess},   \* of the token, while it lives
   fence: 0 .. MaxFence,
   wrote: 0 .. MaxFence]   \* history: the claim that wrote the status, 0 for no claim

JobState == {"absent", "waiting", "held", "parked", "running", "lost",
             "complete", "failed", "cancelled"}
Ended == {"complete", "failed", "cancelled"}

\* by, a history: the claim that asked for it, while it is open.
JobRecord == [state: JobState, by: Claim \cup {NoClaim}]

\* The stages of start(): the block to release, the journal, the look at the
\* Bridge, what is to be written before the journal is read again, the claimed
\* section and its end.
Section == {"claimed", "packing", "posted", "adopting", "named"}
Pc == {"idle", "released", "begin", "look", "prior", "cancelled", "over", "claim"} \cup Section

\* again: why the journal is read a second time.
Task == [pc: Pc, intent: 0 .. MaxIntents, dispatch: 0 .. MaxDispatches,
         fence: 0 .. MaxFence, again: {"no", "cancelled", "over"}]

Unborn == [where |-> "nowhere", status |-> "PREPARING", source |-> NoSource, dispatch |-> 0,
           token |-> FALSE, owner |-> NoProcess, fence |-> 0, wrote |-> 0]
NoJob == [state |-> "absent", by |-> NoClaim]
Idle == [pc |-> "idle", intent |-> 0, dispatch |-> 0, fence |-> 0, again |-> "no"]
NoCommand == [status |-> "none", intent |-> 0, dispatch |-> 0]
Unread == [dispatch |-> 0, state |-> "absent"]

Init ==
  /\ intents = [i \in Intent |-> Unborn]
  /\ jobs = [d \in Dispatch |-> NoJob]
  /\ task = [c \in Caller |-> Idle]
  /\ flying = {} /\ glance = Unread /\ command = NoCommand /\ closing = FALSE
  /\ unheard = {} /\ events = 0 /\ faults = 0

-----------------------------------------------------------------------------
(* The journal. *)

Latest(S) == IF S = {} THEN 0 ELSE CHOOSE i \in S : \A k \in S : k <= i

InJournal(i) == i # 0 /\ intents[i].where = "journal"
Active(i)    == InJournal(i) /\ intents[i].status \in ActiveIntent
ActiveOne    == Latest({i \in Intent : Active(i)})

\* Mutant: compaction forgets the keys of settled prepared executions.
OfSourceInJournal(s) == Latest({i \in Intent : InJournal(i) /\ intents[i].source = s})

\* A key is found in the journal, or in the tombstones it was compacted to.
OfSource(s) ==
  Latest({i \in Intent : intents[i].where \in {"journal", "tombstone"} /\ intents[i].source = s})

\* The last intent of the journal that names d, else one of the tombstones.
Naming(d) == Latest({i \in Intent : InJournal(i) /\ intents[i].dispatch = d})

OfDispatch(d) ==
  IF Naming(d) # 0 THEN Naming(d)
  ELSE Latest({i \in Intent : intents[i].where = "tombstone" /\ intents[i].dispatch = d})

\* The journal with a new status in i, written by claim f; what is already so is not written.
Put(i, status, f) ==
  [intents EXCEPT ![i].status = status, ![i].wrote = IF intents[i].status = status THEN @ ELSE f]

\* An update without a claim; for a compacted intent it raises KeyError.
Set(i, status) == intents' = IF InJournal(i) THEN Put(i, status, 0) ELSE intents

\* Mutant: an update does not compare fencing numbers.
MayWriteStale(c) == InJournal(task[c].intent)

\* An update under the claim of c.
MayWrite(c) == InJournal(task[c].intent) /\ intents[task[c].intent].fence = task[c].fence

Goto(c, pc) == task' = [task EXCEPT ![c].pc = pc]
Leave(c)    == task' = [task EXCEPT ![c] = Idle]
MyClaim(c)  == <<task[c].intent, task[c].fence>>

\* c writes a status under its claim and goes on; a superseded c stands down.
Write(c, status, pc) ==
  IF MayWrite(c) THEN intents' = Put(task[c].intent, status, task[c].fence) /\ Goto(c, pc)
                 ELSE Leave(c) /\ UNCHANGED intents

\* Mutant: an intent that named a dispatch before keeps that one.
WriteLastOnce(c, status, d) ==
  /\ intents' = IF MayWrite(c)
                THEN [Put(task[c].intent, status, task[c].fence) EXCEPT
                        ![task[c].intent].token = FALSE,
                        ![task[c].intent].owner = NoProcess,
                        ![task[c].intent].dispatch = IF @ = 0 THEN d ELSE @]
                ELSE intents
  /\ Leave(c)

\* The last update of a claim gives up its token, and names the dispatch if there is one.
WriteLast(c, status, d) ==
  /\ intents' = IF MayWrite(c)
                THEN [Put(task[c].intent, status, task[c].fence) EXCEPT
                        ![task[c].intent].token = FALSE,
                        ![task[c].intent].owner = NoProcess,
                        ![task[c].intent].dispatch = IF d = 0 THEN @ ELSE d]
                ELSE intents
  /\ Leave(c)

\* What a step of start() that only writes the journal leaves alone.
Rest == <<jobs, flying, glance, command, closing, unheard, events, faults>>

-----------------------------------------------------------------------------
(* The dispatcher: these moves are an assumption, they are those of DispatchContract. *)

Open(d) == jobs[d].state \notin {"absent"} \cup Ended
OpenJob == Latest({d \in Dispatch : Open(d)})

MayEnqueue == OpenJob = 0

EndJob(d, state) == jobs' = [jobs EXCEPT ![d].state = state, ![d].by = NoClaim]

JobMoves ==
  {<<"waiting", "held">>, <<"held", "waiting">>, <<"held", "parked">>, <<"held", "running">>,
   <<"running", "lost">>, <<"lost", "running">>}

\* What a window, a restart or a pass of the supervisor does to a dispatch; the project
\* has a handoff of an earlier audit, so that a started one may complete at any time.
Advance(d) ==
  /\ \/ \E m \in JobMoves : jobs[d].state = m[1] /\ jobs' = [jobs EXCEPT ![d].state = m[2]]
     \/ jobs[d].state \in {"running", "lost"} /\ EndJob(d, "complete")
     \/ jobs[d].state \in {"held", "parked", "running", "lost"} /\ EndJob(d, "failed")
  /\ UNCHANGED <<intents, task, flying, glance, command, closing, unheard, events, faults>>

\* A dispatch that has not crossed START may be cancelled.
MayCancel(d) == jobs[d].state \in {"waiting", "held", "parked"}

CancelJob(d) == EndJob(d, "cancelled")

-----------------------------------------------------------------------------
(* start(): before the claim. *)

\* An operator's start frees the project of a dispatch blocked before START.
Release(c) ==
  /\ task[c].pc = "idle" /\ Key[c] = NoSource
  /\ OpenJob # 0 /\ jobs[OpenJob].state = "parked"
  /\ CancelJob(OpenJob)
  /\ task' = [task EXCEPT ![c].pc = "released", ![c].dispatch = OpenJob]
  /\ UNCHANGED <<intents, flying, glance, command, closing, unheard, events, faults>>

Released(c) ==
  /\ task[c].pc = "released"
  /\ LET i == OfDispatch(task[c].dispatch) IN
       /\ Set(i, "CANCELLED")
       /\ IF i = 0 \/ InJournal(i) THEN Goto(c, "begin") ELSE Leave(c)
  /\ UNCHANGED Rest

\* What start() does with an intent that was there.  A prepared start goes on only
\* with its own, and only before it has a dispatch or an end.
Resume(c, i) ==
  /\ IF Key[c] = NoSource
       THEN task' = [task EXCEPT ![c].intent = i, ![c].dispatch = intents[i].dispatch,
                                 ![c].pc = IF task[c].again = "no" THEN "look"
                                           ELSE IF task[c].again = "cancelled" THEN "prior"
                                           ELSE "claim"]
       ELSE IF i = OfSource(Key[c]) /\ intents[i].dispatch = 0 /\ Active(i)
              THEN task' = [task EXCEPT ![c].intent = i, ![c].pc = "claim"]
              ELSE Leave(c)
  /\ UNCHANGED intents

\* A new intent, claimed by nobody.
Create(c, i) ==
  /\ intents' = [intents EXCEPT ![i] = [Unborn EXCEPT
       !.where = "journal", !.source = Key[c]]]
  /\ task' = [task EXCEPT ![c].intent = i, ![c].pc = "claim"]

\* begin(): the intent of this key, else the active one of the project, else a new one.
Begin(c) ==
  /\ task[c].pc \in {"idle", "begin"}
  /\ LET keyed == IF Key[c] = NoSource THEN 0 ELSE OfSource(Key[c])
         new   == {i \in Intent : intents[i].where = "nowhere"}
     IN  \/ keyed # 0 /\ Resume(c, keyed)
         \/ keyed = 0 /\ ActiveOne # 0 /\ Resume(c, ActiveOne)
         \/ /\ keyed = 0 /\ ActiveOne = 0 /\ new # {}
            /\ Create(c, CHOOSE i \in new : \A k \in new : i <= k)
  /\ UNCHANGED Rest

\* The intent was there: the Bridge is asked for an open dispatch, and an answer that
\* does not come reads as none.  A blocked one is freed here too.
Look(c) ==
  /\ task[c].pc = "look"
  /\ \/ /\ OpenJob # 0 /\ UNCHANGED faults
        /\ IF jobs[OpenJob].state = "parked" THEN CancelJob(OpenJob) /\ Goto(c, "cancelled")
                                             ELSE UNCHANGED jobs /\ Leave(c)
     \/ OpenJob = 0 /\ Goto(c, "prior") /\ UNCHANGED <<jobs, faults>>
     \/ faults < MaxFaults /\ faults' = faults + 1 /\ Goto(c, "prior") /\ UNCHANGED jobs
  /\ UNCHANGED <<intents, flying, glance, command, closing, unheard, events>>

\* Then for the dispatch of the intent: unless that is known to be over, it is active.
LookAgain(c) ==
  /\ task[c].pc = "prior"
  /\ \/ task[c].dispatch = 0 /\ Goto(c, "claim") /\ UNCHANGED faults
     \/ /\ task[c].dispatch # 0 /\ UNCHANGED faults
        /\ IF jobs[task[c].dispatch].state \in Ended THEN Goto(c, "over") ELSE Leave(c)
     \/ task[c].dispatch # 0 /\ faults < MaxFaults /\ faults' = faults + 1 /\ Leave(c)
  /\ UNCHANGED <<intents, jobs, flying, glance, command, closing, unheard, events>>

Outcome == [complete |-> "ENDED", failed |-> "FAILED", cancelled |-> "CANCELLED"]

\* The intent follows its dispatch, and the journal is read again.
Retire(c) ==
  /\ task[c].pc \in {"cancelled", "over"}
  /\ Set(task[c].intent, IF task[c].pc = "cancelled" THEN "CANCELLED"
                         ELSE Outcome[jobs[task[c].dispatch].state])
  /\ IF InJournal(task[c].intent)
       THEN task' = [task EXCEPT ![c] = [Idle EXCEPT !.pc = "begin", !.again = task[c].pc]]
       ELSE Leave(c)
  /\ UNCHANGED Rest

-----------------------------------------------------------------------------
(* start(): the claim and the section it guards. *)

\* Mutant: a token counts although the process that holds it is gone.
RefusesForever(i) == intents[i].status \in PreDispatch /\ intents[i].token

\* A claim is refused while the process of another one lives.
Refuses(i) ==
  intents[i].status \in PreDispatch /\ intents[i].owner # NoProcess /\ intents[i].token

Claimed(c, i) ==
  [intents EXCEPT ![i].token = TRUE, ![i].fence = @ + 1, ![i].wrote = intents[i].fence + 1,
                  ![i].owner = Home[c], ![i].status = "PREPARING"]

\* claim_or_takeover(), and the update that writes PREPARING once more.
TakeClaim(c) ==
  /\ task[c].pc = "claim"
  /\ LET i == task[c].intent IN
       IF ~InJournal(i) \/ Refuses(i) THEN Leave(c) /\ UNCHANGED intents
       ELSE /\ intents[i].fence < MaxFence
            /\ intents' = Claimed(c, i)
            /\ task' = [task EXCEPT ![c].pc = "claimed", ![c].fence = intents[i].fence + 1,
                                    ![c].dispatch = 0, ![c].again = "no"]
  /\ UNCHANGED Rest

\* The desktop's batches carry its close token, the scheduler's starts do not.
ShouldAbort(c) == closing /\ Home[c] # BridgeProcess

SettledByClose(c) == ShouldAbort(c) /\ WriteLast(c, "CANCELLED", 0)

\* Whatever goes wrong in the section ends it.
Fail(c) == WriteLast(c, "FAILED", 0)

\* Health and windows.  A start whose batch has opened the windows does not ask for the
\* close token here.
Pack(c) ==
  /\ task[c].pc = "claimed"
  /\ SettledByClose(c) \/ Fail(c) \/ Write(c, "PACKING", "packing")
  /\ UNCHANGED Rest

\* The archive is there and the request goes out.
Post(c) ==
  /\ task[c].pc = "packing" /\ ~ShouldAbort(c)
  /\ Write(c, "SUBMITTING", "posted")
  /\ flying' = IF MayWrite(c) THEN flying \cup {MyClaim(c)} ELSE flying
  /\ UNCHANGED <<jobs, glance, command, closing, unheard, events, faults>>

\* Or it is not, or AUDAPACK is closing.
Withdraw(c) ==
  /\ task[c].pc = "packing"
  /\ SettledByClose(c) \/ Fail(c)
  /\ UNCHANGED Rest

\* The Bridge has hashed the archive: it enqueues a dispatch or refuses, and answers the
\* thread if it still waits.
Serve(k) ==
  /\ k \in flying /\ flying' = flying \ {k}
  /\ \E d \in {0} \cup Dispatch, heard \in BOOLEAN :
       /\ IF d = 0 THEN UNCHANGED jobs
          ELSE /\ MayEnqueue
               /\ d = Latest({e \in Dispatch : jobs[e].state # "absent"}) + 1
               /\ jobs' = [jobs EXCEPT ![d].state = "waiting", ![d].by = k]
       /\ heard \/ faults < MaxFaults
       /\ faults' = IF heard THEN faults ELSE faults + 1
       /\ task' = [c \in Caller |->
                     IF task[c].pc = "posted" /\ MyClaim(c) = k
                       THEN [task[c] EXCEPT !.pc = IF d # 0 /\ heard THEN "named" ELSE "adopting",
                                            !.dispatch = IF heard THEN d ELSE 0]
                       ELSE task[c]]
  /\ UNCHANGED <<intents, glance, command, closing, unheard, events>>

\* The thread waits no longer.
Timeout(c) ==
  /\ task[c].pc = "posted" /\ faults < MaxFaults /\ faults' = faults + 1
  /\ Goto(c, "adopting")
  /\ UNCHANGED <<intents, jobs, flying, glance, command, closing, unheard, events>>

\* Mutant: a submission without an answer is a failure.
AdoptNever(c) ==
  /\ task[c].pc = "adopting" /\ Fail(c) /\ UNCHANGED Rest

\* A submission without an answer is looked for before it is called a failure.
Adopt(c) ==
  /\ task[c].pc = "adopting"
  /\ \/ /\ OpenJob # 0 /\ UNCHANGED <<intents, faults>>
        /\ task' = [task EXCEPT ![c].pc = "named", ![c].dispatch = OpenJob]
        /\ unheard' = unheard \cup ({MyClaim(c)} \cap flying)
     \/ /\ OpenJob = 0 /\ UNCHANGED faults /\ Fail(c)
        /\ unheard' = unheard \cup ({MyClaim(c)} \cap flying)
     \/ /\ faults < MaxFaults /\ faults' = faults + 1 /\ Fail(c)
        /\ unheard' = unheard \cup {MyClaim(c)}
  /\ UNCHANGED <<jobs, flying, glance, command, closing, events>>

\* Mutant: a start that has a dispatch is still ended by the close.
QueueUnlessClosing(c) ==
  /\ task[c].pc = "named"
  /\ SettledByClose(c) \/ WriteLast(c, "QUEUED", task[c].dispatch)
  /\ UNCHANGED Rest

Queue(c) ==
  /\ task[c].pc = "named"
  /\ WriteLast(c, "QUEUED", task[c].dispatch)
  /\ UNCHANGED Rest

Start(c) ==
  \/ Release(c) \/ Released(c) \/ Begin(c) \/ Look(c) \/ LookAgain(c) \/ Retire(c)
  \/ TakeClaim(c) \/ Pack(c) \/ Post(c) \/ Withdraw(c) \/ Timeout(c) \/ Adopt(c) \/ Queue(c)

-----------------------------------------------------------------------------
(* The operator, the board, the other projects and the processes. *)

\* A command is the request to the Bridge, then what it writes in the journal.
Commanded(status, i, d) ==
  /\ command = NoCommand /\ events < MaxEvents /\ events' = events + 1
  /\ command' = [status |-> status, intent |-> i, dispatch |-> d]

Cancel(d) ==
  /\ Commanded("CANCELLED", 0, d)
  /\ \/ MayCancel(d) /\ CancelJob(d)
     \/ jobs[d].state = "cancelled" /\ UNCHANGED jobs
  /\ UNCHANGED <<intents, task, flying, glance, closing, unheard, faults>>

\* A run that is over stays what it is, and then only a FAILED one is written.
Abandon(d) ==
  /\ Commanded("FAILED", 0, d)
  /\ \/ jobs[d].state \in {"running", "lost"} /\ EndJob(d, "failed")
     \/ jobs[d].state = "failed" /\ UNCHANGED jobs
  /\ UNCHANGED <<intents, task, flying, glance, closing, unheard, faults>>

\* RESET ALL writes off the intents that have no dispatch, and with the Bridge silent any.
Reset(i) ==
  /\ Active(i) /\ Commanded("CANCELLED", i, 0)
  /\ \/ intents[i].dispatch = 0 /\ UNCHANGED faults
     \/ faults < MaxFaults /\ faults' = faults + 1
  /\ UNCHANGED <<intents, jobs, task, flying, glance, closing, unheard>>

CarryOut ==
  /\ command # NoCommand
  /\ Set(IF command.dispatch = 0 THEN command.intent ELSE OfDispatch(command.dispatch),
         command.status)
  /\ command' = NoCommand
  /\ UNCHANGED <<jobs, task, flying, glance, closing, unheard, events, faults>>

\* refresh_runs() reads the dispatches first ...
Glance(d) ==
  /\ glance = Unread /\ jobs[d].state # "absent"
  /\ events < MaxEvents /\ events' = events + 1
  /\ glance' = [dispatch |-> d, state |-> jobs[d].state]
  /\ UNCHANGED <<intents, jobs, task, flying, command, closing, unheard, faults>>

\* Mutant: the operator's word for a lost run is written as it is.
ShownRaw(state) ==
  CASE state \in {"waiting", "held", "running"} -> "RUNNING"
    [] state = "parked"                         -> "BLOCKED"
    [] state = "lost"                           -> "RECOVERY"
    [] OTHER                                    -> Outcome[state]

Shown(state) ==
  CASE state \in {"waiting", "held", "running"} -> "RUNNING"
    [] state = "parked"                         -> "BLOCKED"
    [] state = "lost"                           -> "RECOVERY_NEEDED"
    [] OTHER                                    -> Outcome[state]

\* ... and then writes what each was into the last intent that names it, under no claim.
Reconcile ==
  /\ glance # Unread
  /\ Set(Naming(glance.dispatch), Shown(glance.state))
  /\ glance' = Unread
  /\ UNCHANGED <<jobs, task, flying, command, closing, unheard, events, faults>>

\* Enough audits of other projects drop an operator's intent from the journal, and a
\* settled prepared one to a tombstone.
Elsewhere(i) ==
  /\ InJournal(i)
  /\ events < MaxEvents /\ events' = events + 1
  /\ intents[i].source # NoSource => ~Active(i)
  /\ intents' = [intents EXCEPT ![i] =
       IF intents[i].source = NoSource THEN [Unborn EXCEPT !.where = "dropped"]
       ELSE [Unborn EXCEPT !.where = "tombstone", !.status = intents[i].status,
                           !.source = intents[i].source, !.dispatch = intents[i].dispatch]]
  /\ UNCHANGED <<jobs, task, flying, glance, command, closing, unheard, faults>>

Close ==
  /\ ~closing /\ closing' = TRUE
  /\ events < MaxEvents /\ events' = events + 1
  /\ UNCHANGED <<intents, jobs, task, flying, glance, command, unheard, faults>>

\* The threads of p are gone; requests to a Bridge that is gone fail.
Crash(p) ==
  /\ faults < MaxFaults /\ faults' = faults + 1
  /\ intents' = [i \in Intent |-> [intents[i] EXCEPT !.owner = IF @ = p THEN NoProcess ELSE @]]
  /\ task' = [c \in Caller |->
                IF Home[c] = p THEN Idle
                ELSE IF p = BridgeProcess /\ task[c].pc = "posted"
                       THEN [task[c] EXCEPT !.pc = "adopting"] ELSE task[c]]
  /\ IF p = BridgeProcess
       THEN flying' = {} /\ UNCHANGED <<glance, command, closing>>
       ELSE /\ glance' = Unread /\ command' = NoCommand /\ closing' = FALSE
            /\ UNCHANGED flying
  /\ UNCHANGED <<jobs, unheard, events>>

Next ==
  \/ \E c \in Caller : Start(c)
  \/ \E k \in Claim : Serve(k)
  \/ \E d \in Dispatch : Advance(d) \/ Cancel(d) \/ Abandon(d) \/ Glance(d)
  \/ \E i \in Intent : Reset(i) \/ Elsewhere(i)
  \/ CarryOut \/ Reconcile \/ Close
  \/ \E p \in Process : Crash(p)

Spec == Init /\ [][Next]_vars

-----------------------------------------------------------------------------
(* Properties. *)

TypeOK ==
  /\ intents \in [Intent -> IntentRecord]
  /\ jobs \in [Dispatch -> JobRecord]
  /\ task \in [Caller -> Task]
  /\ flying \subseteq Claim /\ unheard \subseteq Claim
  /\ glance \in [dispatch : 0 .. MaxDispatches, state : JobState]
  /\ command \in [status : {"none", "CANCELLED", "FAILED"}, intent : 0 .. MaxIntents,
                  dispatch : 0 .. MaxDispatches]
  /\ closing \in BOOLEAN
  /\ events \in 0 .. MaxEvents /\ faults \in 0 .. MaxFaults

\* No claim writes an intent after a later one was granted; what is not written by the
\* latest claim was written by the operator or the board (audit_run_service.py:479).
WrittenByLatest == \A i \in Intent : intents[i].wrote \in {0, intents[i].fence}

\* A start that the closing of the desktop ended has asked for no dispatch, and never
\* will: only such a claim writes CANCELLED (audit_run_service.py:1200).
ClosedNotSubmitted ==
  \A i \in Intent :
    intents[i].status = "CANCELLED" /\ intents[i].wrote # 0 =>
      LET k == <<i, intents[i].wrote>> IN k \notin flying /\ \A d \in Dispatch : jobs[d].by # k

\* An intent that its own start calls FAILED hides no live audit, unless the Bridge was
\* silent or had not yet served the request (audit_run_service.py:1347).
FailedHidesNoAudit ==
  \A i \in Intent :
    intents[i].status = "FAILED" /\ intents[i].wrote # 0 =>
      LET k == <<i, intents[i].wrote>> IN k \in unheard \/ \A d \in Dispatch : Open(d) => jobs[d].by # k

\* A start is refused only while a thread that lives is on its way through the claimed
\* section of that very claim (audit_run_service.py:442).
NobodyIsLockedOut ==
  \A i \in Intent :
    InJournal(i) /\ Refuses(i) =>
      \E c \in Caller : task[c].pc \in Section /\ MyClaim(c) = <<i, intents[i].fence>>

\* A prepared execution has one intent, however often it is started, whatever crashes
\* and however old its record is (audit_run_service.py:358).
SourceHasOneIntent ==
  \A i, k \in Intent : intents[i].source # NoSource /\ intents[i].source = intents[k].source => i = k

\* Once a claim has ended, the audit it asked for is the one that its intent names, so that
\* cancel and recover find it, unless the Bridge was silent or had not yet served the
\* request (audit_run_service.py:1346-1362).
AuditIsOnRecord ==
  \A d \in Dispatch :
    LET k == jobs[d].by
        i == k[1]
    IN  Open(d) /\ InJournal(i) /\ intents[i].fence = k[2] /\ ~intents[i].token
          => intents[i].dispatch = d \/ k \in unheard
=============================================================================
