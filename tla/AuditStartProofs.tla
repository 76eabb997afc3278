-------------------------- MODULE AuditStartProofs --------------------------
(***************************************************************************)
(* Why an audit is started once, and why what the journal says of a start  *)
(* is true: for any number of processes, threads, prepared executions,     *)
(* intents, dispatches and faults.                                         *)
(*                                                                         *)
(* The argument is about claims.  A claim is given out once (Fenced), so a *)
(* thread that has not yet sent its request knows that nobody has, and     *)
(* what it writes last is true of the claim for ever (Settled).  A token   *)
(* whose owner lives is that of a thread on its way (Attended).  One       *)
(* dispatch is open (Lawful), and a claim that gave up its token has named *)
(* the one it asked for (Recorded).                                        *)
(***************************************************************************)
EXTENDS AuditStart, FiniteSetTheorems, TLAPS

-----------------------------------------------------------------------------
(* The inductive invariant. *)

Early == {"claimed", "packing"}

\* Thread c works under claim k.
Holds(c, k) == task[c].pc \in Section /\ MyClaim(c) = k

\* Claim k was given out, and of an intent in the journal none after the last.
Granted(k) ==
  /\ k[1] \in Intent /\ k[2] \in 1 .. MaxFence
  /\ intents[k[1]].where # "nowhere"
  /\ InJournal(k[1]) => k[2] <= intents[k[1]].fence

\* Claim k has no request on its way and no dispatch.
Unsent(k) == k \notin flying /\ \A d \in Dispatch : jobs[d].by # k

\* Where the threads, the board and a command are.
Shaped ==
  /\ \A c \in Caller :
       /\ task[c].pc \in {"look", "prior", "cancelled", "over", "claim"} => task[c].intent \in Intent
       /\ task[c].pc = "over" => task[c].dispatch # 0 /\ jobs[task[c].dispatch].state \in Ended
  /\ glance # Unread => glance.state # "absent"
  /\ command # NoCommand => command.status # "none"

\* What an intent is before it is written and after it has left the journal.
Written ==
  \A i \in Intent :
    /\ intents[i].where = "nowhere" => intents[i] = Unborn
    /\ intents[i].where = "dropped" => intents[i].source = NoSource
    /\ intents[i].where # "journal" => intents[i].wrote = 0
    /\ intents[i].wrote \in {0, intents[i].fence}

\* A claim is given out once, and is sent after its thread has packed.
Fenced ==
  /\ \A c \in Caller : task[c].pc \in Section => Granted(MyClaim(c))
  /\ \A k \in flying : Granted(k)
  /\ \A d \in Dispatch : jobs[d].by # NoClaim => Granted(jobs[d].by)
  /\ \A c, e \in Caller :
       task[c].pc \in Section /\ task[e].pc \in Section /\ MyClaim(c) = MyClaim(e) => c = e
  /\ \A c \in Caller : task[c].pc \in Early => Unsent(MyClaim(c))

\* A claim that wrote the end of its intent is over.
SettledOne(i) ==
  LET k == <<i, intents[i].wrote>> IN
  /\ intents[i].status \in {"CANCELLED", "FAILED"} /\ intents[i].wrote # 0 =>
       \A c \in Caller : ~Holds(c, k)
  /\ intents[i].status = "CANCELLED" /\ intents[i].wrote # 0 => Unsent(k)
  /\ intents[i].status = "FAILED" /\ intents[i].wrote # 0 => k \in unheard \/ Unsent(k)

Settled == \A i \in Intent : SettledOne(i)

\* A token whose owner lives is that of a thread under the last claim.
AttendedOne(i) ==
  InJournal(i) /\ intents[i].token /\ intents[i].owner # NoProcess =>
    \E c \in Caller : Holds(c, <<i, intents[i].fence>>) /\ Home[c] = intents[i].owner

Attended == \A i \in Intent : AttendedOne(i)

\* The dispatches.
LawfulOne(d) ==
  /\ jobs[d].state = "absent" => jobs[d] = NoJob
  /\ ~Open(d) => jobs[d].by = NoClaim

OneOpen == \A d, e \in Dispatch : Open(d) /\ Open(e) => d = e

Lawful == OneOpen /\ \A d \in Dispatch : LawfulOne(d)

\* Claim k is the last of its intent and has given up its token.
Spent(k) == InJournal(k[1]) /\ intents[k[1]].fence = k[2] /\ ~intents[k[1]].token

\* Whatever claim k asked for was served, and is dispatch d if it is still open.
Served(k, d) == k \notin flying /\ \A e \in Dispatch : jobs[e].by = k => e = d

\* A claim that has a dispatch to name, or named one, has the one it asked for.
RecordedOne(k) ==
  /\ Spent(k) => Served(k, intents[k[1]].dispatch)
  /\ \A c \in Caller : Holds(c, k) /\ task[c].pc = "named" => Served(k, task[c].dispatch)

\* And the token of an intent is there while a thread works under its last claim.
Recorded ==
  /\ \A c \in Caller : task[c].pc \in Section => ~Spent(MyClaim(c))
  /\ \A k \in Claim \ unheard : RecordedOne(k)

IInv ==
  /\ TypeOK /\ Shaped /\ Written /\ SourceHasOneIntent /\ Fenced /\ Settled /\ Attended
  /\ Lawful /\ Recorded

-----------------------------------------------------------------------------
(* The operators of the model. *)

\* A set of numbers that is not empty has a least element.
LEMMA Least ==
  ASSUME NEW S \in SUBSET Nat, S # {}
  PROVE  \E k \in S : \A m \in S : k <= m
<1> DEFINE Up(k) == 0 .. k
           T == {Up(k) : k \in S}
<1>1. T \subseteq FiniteSubsetsOf(Nat) /\ T # {}
  <2>1. ASSUME NEW k \in S PROVE Up(k) \in SUBSET Nat /\ IsFiniteSet(Up(k))
    BY FS_Interval
  <2> QED BY <2>1 DEF FiniteSubsetsOf
<1>2. PICK X \in T : \A Y \in T : <<Y, X>> \notin StrictSubsetOrdering(Nat)
  <2> HIDE DEF T
  <2> QED BY <1>1, FS_StrictSubsetOrderingWellFounded, WFMin
<1>3. PICK k \in S : X = Up(k)
  OBVIOUS
<1>4. ASSUME NEW m \in S, m < k PROVE FALSE
  <2>1. Up(m) \in SUBSET Nat /\ Up(k) \in SUBSET Nat /\ Up(m) \subseteq Up(k) /\ Up(m) # Up(k)
    <3>1. k \in Up(k) /\ k \notin Up(m)
      BY <1>4
    <3> QED BY <1>4, <3>1
  <2> HIDE DEF Up
  <2> QED BY <1>2, <1>3, <2>1 DEF StrictSubsetOrdering
<1> QED BY <1>4

LEMMA Greatest ==
  ASSUME NEW n \in Nat, NEW S \in SUBSET (1 .. n), S # {}
  PROVE  \E k \in S : \A m \in S : m <= k
<1> DEFINE T == {n - i : i \in S}
<1>1. T \in SUBSET Nat /\ T # {}
  <2>1. \A i \in S : n - i \in Nat
    OBVIOUS
  <2> QED BY <2>1
<1>2. PICK k \in T : \A m \in T : k <= m
  <2> HIDE DEF T
  <2> QED BY <1>1, Least
<1>3. PICK i \in S : k = n - i
  BY <1>2
<1>4. ASSUME NEW m \in S PROVE m <= i
  <2>1. n - m \in T
    OBVIOUS
  <2> QED BY <1>2, <1>3, <2>1
<1> QED BY <1>4

LEMMA Constants ==
  /\ MaxIntents \in Nat /\ MaxDispatches \in Nat /\ MaxFence \in Nat
  /\ MaxEvents \in Nat /\ MaxFaults \in Nat
BY StartAssumption

\* Latest is what its name says.
LEMMA LatestIs ==
  ASSUME NEW n \in Nat, NEW S \in SUBSET (1 .. n)
  PROVE  /\ S = {} => Latest(S) = 0
         /\ S # {} => Latest(S) \in S /\ \A k \in S : k <= Latest(S)
<1>1. ASSUME S # {} PROVE Latest(S) \in S /\ \A k \in S : k <= Latest(S)
  <2>1. \E i \in S : \A k \in S : k <= i
    BY <1>1, Greatest
  <2> QED BY <1>1, <2>1 DEF Latest
<1> QED BY <1>1 DEF Latest

LEMMA LatestOrNone ==
  ASSUME NEW n \in Nat, NEW S \in SUBSET (1 .. n)
  PROVE  Latest(S) \in {0} \cup S /\ (Latest(S) = 0 <=> S = {})
BY LatestIs

LEMMA LatestType ==
  /\ ActiveOne \in {0} \cup {i \in Intent : Active(i)}
  /\ \A s : OfSource(s) \in {0} \cup {i \in Intent : intents[i].source = s}
  /\ \A d : OfDispatch(d) \in 0 .. MaxIntents /\ Naming(d) \in 0 .. MaxIntents
  /\ OpenJob \in {0} \cup {d \in Dispatch : Open(d)}
<1>1. ActiveOne \in {0} \cup {i \in Intent : Active(i)}
  BY Constants, LatestIs DEF ActiveOne, Intent
<1>2. ASSUME NEW s PROVE OfSource(s) \in {0} \cup {i \in Intent : intents[i].source = s}
  BY Constants, LatestIs DEF OfSource, Intent
<1>3. ASSUME NEW d PROVE OfDispatch(d) \in 0 .. MaxIntents /\ Naming(d) \in 0 .. MaxIntents
  <2> DEFINE S == {i \in Intent : InJournal(i) /\ intents[i].dispatch = d}
             T == {i \in Intent : intents[i].where = "tombstone" /\ intents[i].dispatch = d}
  <2>1. S \in SUBSET (1 .. MaxIntents) /\ T \in SUBSET (1 .. MaxIntents)
    BY DEF Intent
  <2>2. ASSUME NEW X \in SUBSET (1 .. MaxIntents) PROVE Latest(X) \in 0 .. MaxIntents
    <3>1. Latest(X) = 0 \/ Latest(X) \in X
      BY Constants, LatestOrNone
    <3>2. Latest(X) \in X => Latest(X) \in 1 .. MaxIntents
      OBVIOUS
    <3>3. MaxIntents \in Nat
      BY Constants
    <3> QED BY <3>1, <3>2, <3>3
  <2>3. Latest(S) \in 0 .. MaxIntents /\ Latest(T) \in 0 .. MaxIntents
    <3> HIDE DEF S, T
    <3> QED BY <2>1, <2>2
  <2> QED BY <2>3 DEF OfDispatch, Naming
<1>4. OpenJob \in {0} \cup {d \in Dispatch : Open(d)}
  BY Constants, LatestIs DEF OpenJob, Dispatch
<1> QED BY <1>1, <1>2, <1>3, <1>4

\* No open dispatch is found when there is none, and no key when no intent has it.
LEMMA LatestNone ==
  /\ OpenJob = 0 => \A d \in Dispatch : ~Open(d)
  /\ \A s : OfSource(s) = 0 =>
       \A i \in Intent : intents[i].where \in {"journal", "tombstone"} => intents[i].source # s
<1>1. OpenJob = 0 => \A d \in Dispatch : ~Open(d)
  <2> DEFINE S == {d \in Dispatch : Open(d)}
  <2>1. S \in SUBSET (1 .. MaxDispatches)
    BY DEF Dispatch
  <2>2. Latest(S) = 0 => S = {}
    <3> HIDE DEF S
    <3> QED BY <2>1, Constants, LatestOrNone
  <2> QED BY <2>2 DEF OpenJob
<1>2. ASSUME NEW s, OfSource(s) = 0
      PROVE  \A i \in Intent : intents[i].where \in {"journal", "tombstone"} => intents[i].source # s
  <2> DEFINE S == {i \in Intent : intents[i].where \in {"journal", "tombstone"} /\ intents[i].source = s}
  <2>1. S \in SUBSET (1 .. MaxIntents)
    BY DEF Intent
  <2>2. Latest(S) = 0 => S = {}
    <3> HIDE DEF S
    <3> QED BY <2>1, Constants, LatestOrNone
  <2> QED BY <1>2, <2>2 DEF OfSource
<1> QED BY <1>1, <1>2

\* The dispatch that the Bridge enqueues is a new one.
LEMMA NextJob ==
  ASSUME NEW d \in Dispatch, d = Latest({e \in Dispatch : jobs[e].state # "absent"}) + 1
  PROVE  jobs[d].state = "absent"
<1> DEFINE S == {e \in Dispatch : jobs[e].state # "absent"}
<1>1. S \in SUBSET (1 .. MaxDispatches)
  BY DEF Dispatch
<1>2. S # {} => Latest(S) \in S /\ \A k \in S : k <= Latest(S)
  <2> HIDE DEF S
  <2> QED BY <1>1, Constants, LatestIs
<1>3. d \notin S
  BY <1>2 DEF Dispatch
<1> QED BY <1>3

-----------------------------------------------------------------------------
(* What the updates of the journal and of a thread do. *)

\* All of intent j but its status stays.
Same(j) ==
  /\ intents'[j].where = intents[j].where /\ intents'[j].source = intents[j].source
  /\ intents'[j].token = intents[j].token /\ intents'[j].owner = intents[j].owner
  /\ intents'[j].fence = intents[j].fence /\ intents'[j].dispatch = intents[j].dispatch

\* Its status stays too, and with it the claim that wrote it.
SameStatus(j) == intents'[j].status = intents[j].status /\ intents'[j].wrote = intents[j].wrote

\* No claim writes intent j, and what has left the journal stays as it is.
Keeps(j) ==
  /\ Same(j)
  /\ SameStatus(j) \/ (InJournal(j) /\ intents'[j].wrote = 0)
  /\ InJournal(j) \/ intents'[j] = intents[j]

LEMMA Values == Unborn \in IntentRecord /\ NoJob \in JobRecord /\ Idle \in Task
<1>1. Unborn \in IntentRecord
  BY Constants DEF Unborn, IntentRecord, IntentState, ActiveIntent, PreDispatch
<1>2. NoJob \in JobRecord
  BY DEF NoJob, JobRecord, JobState
<1>3. Idle \in Task
  BY Constants DEF Idle, Task, Pc
<1> QED  BY <1>1, <1>2, <1>3

LEMMA IntentFields ==
  ASSUME TypeOK, NEW i \in Intent
  PROVE  /\ intents[i].where \in {"nowhere", "journal", "tombstone", "dropped"}
         /\ intents[i].status \in IntentState
         /\ intents[i].source \in Source \cup {NoSource}
         /\ intents[i].dispatch \in 0 .. MaxDispatches
         /\ intents[i].token \in BOOLEAN
         /\ intents[i].owner \in Process \cup {NoProcess}
         /\ intents[i].fence \in 0 .. MaxFence /\ intents[i].wrote \in 0 .. MaxFence
BY DEF TypeOK, IntentRecord

LEMMA TaskFields ==
  ASSUME TypeOK, NEW c \in Caller
  PROVE  /\ task[c].pc \in Pc
         /\ task[c].intent \in 0 .. MaxIntents
         /\ task[c].dispatch \in 0 .. MaxDispatches
         /\ task[c].fence \in 0 .. MaxFence
         /\ task[c].again \in {"no", "cancelled", "over"}
BY DEF TypeOK, Task

LEMMA JobFields ==
  ASSUME TypeOK, NEW d \in Dispatch
  PROVE  /\ jobs[d].state \in JobState
         /\ jobs[d].by \in Claim \cup {NoClaim}
BY DEF TypeOK, JobRecord

LEMMA PutIs ==
  ASSUME TypeOK, NEW i \in Intent, NEW status \in IntentState, NEW f \in 0 .. MaxFence,
         NEW p, p = Put(i, status, f)
  PROVE  /\ p \in [Intent -> IntentRecord]
         /\ \A j \in Intent : j # i => p[j] = intents[j]
         /\ p[i].where = intents[i].where /\ p[i].source = intents[i].source
         /\ p[i].token = intents[i].token /\ p[i].owner = intents[i].owner
         /\ p[i].fence = intents[i].fence /\ p[i].dispatch = intents[i].dispatch
         /\ p[i].status = status
         /\ \/ intents[i].status = status /\ p[i].wrote = intents[i].wrote
            \/ p[i].wrote = f
<1> DEFINE r == [intents[i] EXCEPT !.status = status,
              !.wrote = IF intents[i].status = status THEN intents[i].wrote ELSE f]
<1>1. intents \in [Intent -> IntentRecord] /\ intents[i] \in IntentRecord
  BY DEF TypeOK
<1>2. r \in IntentRecord
  BY <1>1, IntentFields DEF IntentRecord
<1>3. p = [intents EXCEPT ![i] = r]
  BY <1>1 DEF Put, IntentRecord
<1>4. /\ r.where = intents[i].where /\ r.source = intents[i].source /\ r.token = intents[i].token
      /\ r.owner = intents[i].owner /\ r.fence = intents[i].fence /\ r.status = status
      /\ r.dispatch = intents[i].dispatch
  BY <1>1 DEF IntentRecord
<1>5. (r.status = intents[i].status /\ r.wrote = intents[i].wrote) \/ r.wrote = f
  BY <1>1 DEF IntentRecord
<1> HIDE DEF r
<1>6. /\ p \in [Intent -> IntentRecord] /\ p[i] = r
      /\ \A j \in Intent : j # i => p[j] = intents[j]
  BY <1>1, <1>2, <1>3
<1> QED  BY <1>4, <1>5, <1>6

\* An update without a claim leaves no claim's word behind it that was not there.
LEMMA SetIs ==
  ASSUME TypeOK, NEW i \in 0 .. MaxIntents, NEW status \in IntentState, Set(i, status)
  PROVE  /\ intents' \in [Intent -> IntentRecord]
         /\ \A j \in Intent : Keeps(j)
<1>1. CASE ~InJournal(i)
  BY <1>1 DEF Set, TypeOK, Same, SameStatus, Keeps
<1>2. CASE InJournal(i)
  <2>1. i \in Intent /\ 0 \in 0 .. MaxFence
    BY <1>2, Constants DEF InJournal, Intent
  <2>2. intents' = Put(i, status, 0)
    BY <1>2 DEF Set
  <2>3. /\ intents' \in [Intent -> IntentRecord] /\ Same(i)
        /\ SameStatus(i) \/ intents'[i].wrote = 0
        /\ \A j \in Intent : j # i => intents'[j] = intents[j]
    BY <2>1, <2>2, PutIs DEF Same, SameStatus
  <2>4. ASSUME NEW j \in Intent, j # i PROVE Same(j) /\ SameStatus(j)
    BY <2>3, <2>4 DEF Same, SameStatus
  <2> QED  BY <1>2, <2>3, <2>4 DEF Keeps
<1> QED  BY <1>1, <1>2

\* An update under a claim: the status is that of the claim, or was the same already.
LEMMA WriteIs ==
  ASSUME TypeOK, NEW c \in Caller, NEW status \in IntentState, MayWrite(c),
         intents' = Put(task[c].intent, status, task[c].fence)
  PROVE  /\ task[c].intent \in Intent
         /\ intents' \in [Intent -> IntentRecord]
         /\ \A j \in Intent : Same(j) /\ (j # task[c].intent => SameStatus(j))
         /\ intents'[task[c].intent].status = status
         /\ SameStatus(task[c].intent) \/ intents'[task[c].intent].wrote = task[c].fence
<1> DEFINE i == task[c].intent
<1>1. i \in Intent /\ task[c].fence \in 0 .. MaxFence
  BY TaskFields DEF MayWrite, InJournal, Intent
<1>2. /\ intents' \in [Intent -> IntentRecord] /\ Same(i) /\ intents'[i].status = status
      /\ SameStatus(i) \/ intents'[i].wrote = task[c].fence
      /\ \A j \in Intent : j # i => intents'[j] = intents[j]
  BY <1>1, PutIs DEF Same, SameStatus
<1>3. ASSUME NEW j \in Intent, j # i PROVE Same(j) /\ SameStatus(j)
  BY <1>2, <1>3 DEF Same, SameStatus
<1> QED  BY <1>1, <1>2, <1>3

\* The last update of a claim, that of a superseded claim included.
LEMMA WriteLastIs ==
  ASSUME TypeOK, NEW c \in Caller, NEW status \in IntentState, NEW d \in 0 .. MaxDispatches,
         WriteLast(c, status, d)
  PROVE  /\ intents' \in [Intent -> IntentRecord]
         /\ ~MayWrite(c) => intents' = intents
         /\ \A j \in Intent : j # task[c].intent => intents'[j] = intents[j]
         /\ MayWrite(c) =>
              /\ task[c].intent \in Intent
              /\ intents'[task[c].intent].where = intents[task[c].intent].where
              /\ intents'[task[c].intent].source = intents[task[c].intent].source
              /\ intents'[task[c].intent].fence = intents[task[c].intent].fence
              /\ ~intents'[task[c].intent].token
              /\ intents'[task[c].intent].dispatch \in {intents[task[c].intent].dispatch, d}
              /\ d # 0 => intents'[task[c].intent].dispatch = d
              /\ intents'[task[c].intent].status = status
              /\ SameStatus(task[c].intent) \/ intents'[task[c].intent].wrote = task[c].fence
<1>1. CASE ~MayWrite(c)
  BY <1>1 DEF WriteLast, TypeOK
<1>2. CASE MayWrite(c)
  <2> DEFINE i == task[c].intent
             p == Put(i, status, task[c].fence)
             r == [p[i] EXCEPT !.token = FALSE, !.owner = NoProcess,
                               !.dispatch = IF d = 0 THEN p[i].dispatch ELSE d]
  <2>1. i \in Intent /\ task[c].fence \in 0 .. MaxFence
    BY <1>2, TaskFields DEF MayWrite, InJournal, Intent
  <2>2. /\ p \in [Intent -> IntentRecord] /\ p[i] \in IntentRecord
        /\ \A j \in Intent : j # i => p[j] = intents[j]
        /\ p[i].where = intents[i].where /\ p[i].source = intents[i].source
        /\ p[i].fence = intents[i].fence /\ p[i].status = status
        /\ p[i].dispatch = intents[i].dispatch
        /\ \/ intents[i].status = status /\ p[i].wrote = intents[i].wrote
           \/ p[i].wrote = task[c].fence
    BY <2>1, PutIs
  <2>3. intents' = [p EXCEPT ![i].token = FALSE, ![i].owner = NoProcess,
                             ![i].dispatch = IF d = 0 THEN @ ELSE d]
    BY <1>2 DEF WriteLast
  <2> HIDE DEF p
  <2>4. r \in IntentRecord
    BY <2>2 DEF IntentRecord
  <2>5. intents' = [p EXCEPT ![i] = r]
    BY <2>1, <2>2, <2>3 DEF IntentRecord
  <2>6. /\ r.where = p[i].where /\ r.source = p[i].source /\ r.fence = p[i].fence
        /\ r.status = p[i].status /\ r.wrote = p[i].wrote /\ ~r.token
        /\ r.dispatch = (IF d = 0 THEN p[i].dispatch ELSE d)
    BY <2>2 DEF IntentRecord
  <2> HIDE DEF r
  <2>7. /\ intents' \in [Intent -> IntentRecord] /\ intents'[i] = r
        /\ \A j \in Intent : j # i => intents'[j] = intents[j]
    BY <2>1, <2>2, <2>4, <2>5
  <2> QED  BY <1>2, <2>1, <2>2, <2>6, <2>7 DEF SameStatus
<1> QED  BY <1>1, <1>2

-----------------------------------------------------------------------------
(* Types. *)

LEMMA TaskType ==
  ASSUME TypeOK, NEW c \in Caller, NEW t \in Task
  PROVE  [task EXCEPT ![c] = t] \in [Caller -> Task]
BY DEF TypeOK

LEMMA GotoType ==
  ASSUME TypeOK, NEW c \in Caller, NEW pc \in Pc, Goto(c, pc)
  PROVE  task' \in [Caller -> Task]
BY DEF Goto, TypeOK, Task

LEMMA LeaveType ==
  ASSUME TypeOK, NEW c \in Caller, Leave(c)
  PROVE  task' \in [Caller -> Task]
BY Values, TaskType DEF Leave

LEMMA EndJobType ==
  ASSUME TypeOK, NEW d \in Dispatch, NEW state \in JobState, EndJob(d, state)
  PROVE  jobs' \in [Dispatch -> JobRecord]
BY DEF EndJob, TypeOK, JobRecord

LEMMA WriteType ==
  ASSUME TypeOK, NEW c \in Caller, NEW status \in IntentState, NEW pc \in Pc, Write(c, status, pc)
  PROVE  intents' \in [Intent -> IntentRecord] /\ task' \in [Caller -> Task]
<1>1. CASE MayWrite(c)
  BY <1>1, WriteIs, GotoType DEF Write
<1>2. CASE ~MayWrite(c)
  BY <1>2, LeaveType DEF Write, TypeOK
<1> QED  BY <1>1, <1>2

LEMMA WriteLastType ==
  ASSUME TypeOK, NEW c \in Caller, NEW status \in IntentState, NEW d \in 0 .. MaxDispatches,
         WriteLast(c, status, d)
  PROVE  intents' \in [Intent -> IntentRecord] /\ task' \in [Caller -> Task]
BY WriteLastIs, LeaveType DEF WriteLast

LEMMA States ==
  /\ {"CANCELLED", "FAILED", "PREPARING", "PACKING", "SUBMITTING", "QUEUED"} \subseteq IntentState
  /\ {"ENDED", "BLOCKED", "RUNNING", "RECOVERY_NEEDED"} \subseteq IntentState
  /\ \A state \in Ended : Outcome[state] \in IntentState \ {"QUEUED"}
  /\ \A state \in JobState \ {"absent"} : Shown(state) \in IntentState
<1>1. \A state \in Ended : Outcome[state] \in IntentState \ {"QUEUED"}
  BY DEF Ended, Outcome, IntentState, ActiveIntent, PreDispatch
<1>2. ASSUME NEW state \in JobState \ {"absent"} PROVE Shown(state) \in IntentState
  <2>1. CASE state \in Ended
    BY <1>1, <2>1 DEF Shown, Ended
  <2>2. CASE state \notin Ended
    BY <2>2 DEF Shown, Ended, JobState, IntentState, ActiveIntent, PreDispatch
  <2> QED  BY <2>1, <2>2
<1> QED  BY <1>1, <1>2 DEF IntentState, ActiveIntent, PreDispatch

LEMMA ClaimType ==
  ASSUME Fenced, NEW c \in Caller, task[c].pc \in Section
  PROVE  MyClaim(c) \in Claim /\ task[c].intent \in Intent /\ task[c].fence \in 1 .. MaxFence
BY DEF Fenced, Granted, MyClaim, Claim

\* The steps of start() before the claim.
LEMMA TypeBefore ==
  ASSUME TypeOK, Shaped, NEW c \in Caller,
         Release(c) \/ Released(c) \/ Begin(c) \/ Look(c) \/ LookAgain(c) \/ Retire(c)
  PROVE  TypeOK'
<1>1. CASE Release(c)
  <2>1. OpenJob \in Dispatch
    BY <1>1, LatestType DEF Release
  <2>2. jobs' \in [Dispatch -> JobRecord]
    BY <1>1, <2>1, EndJobType DEF Release, CancelJob, JobState
  <2>3. task' \in [Caller -> Task]
    <3>1. OpenJob \in 0 .. MaxDispatches
      BY <2>1, Constants DEF Dispatch
    <3>2. [task[c] EXCEPT !.pc = "released", !.dispatch = OpenJob] \in Task
      BY <3>1, TaskFields DEF TypeOK, Task, Pc
    <3>3. task' = [task EXCEPT ![c] = [task[c] EXCEPT !.pc = "released", !.dispatch = OpenJob]]
      BY <1>1 DEF Release, TypeOK
    <3> QED  BY <3>2, <3>3, TaskType
  <2> QED  BY <1>1, <2>2, <2>3 DEF Release, TypeOK
<1>2. CASE Released(c)
  <2>1. intents' \in [Intent -> IntentRecord]
    BY <1>2, LatestType, SetIs, States DEF Released
  <2>2. task' \in [Caller -> Task]
    BY <1>2, GotoType, LeaveType DEF Released, Pc
  <2> QED  BY <1>2, <2>1, <2>2 DEF Released, Rest, TypeOK
<1>3. CASE Begin(c)
  <2>1. ASSUME NEW i \in Intent, Resume(c, i)
        PROVE  intents' \in [Intent -> IntentRecord] /\ task' \in [Caller -> Task]
    <3>1. i \in 0 .. MaxIntents
      BY Constants DEF Intent
    <3>2. CASE Key[c] = NoSource
      BY <2>1, <3>1, <3>2, IntentFields DEF Resume, TypeOK, Task, Pc
    <3>3. CASE Key[c] # NoSource
      BY <2>1, <3>1, <3>3, LeaveType DEF Resume, TypeOK, Task, Pc
    <3> QED  BY <3>2, <3>3
  <2>2. ASSUME NEW i \in Intent, Create(c, i)
        PROVE  intents' \in [Intent -> IntentRecord] /\ task' \in [Caller -> Task]
    <3>1. i \in 0 .. MaxIntents
      BY Constants DEF Intent
    <3>2. [Unborn EXCEPT !.where = "journal", !.source = Key[c]] \in IntentRecord
      BY Values, StartAssumption DEF IntentRecord, Unborn
    <3>3. intents' \in [Intent -> IntentRecord]
      BY <2>2, <3>2 DEF Create, TypeOK
    <3>4. task' \in [Caller -> Task]
      BY <2>2, <3>1 DEF Create, TypeOK, Task, Pc
    <3> QED  BY <3>3, <3>4
  <2>3. \A s : OfSource(s) # 0 => OfSource(s) \in Intent
    BY LatestType
  <2>4. ActiveOne # 0 => ActiveOne \in Intent
    BY LatestType
  <2>5. ASSUME NEW new \in SUBSET Intent, new # {}
        PROVE  (CHOOSE i \in new : \A k \in new : i <= k) \in Intent
    <3>1. new \in SUBSET Nat
      BY DEF Intent
    <3>2. \E i \in new : \A k \in new : i <= k
      BY <2>5, <3>1, Least
    <3> QED  BY <3>2
  <2>6. intents' \in [Intent -> IntentRecord] /\ task' \in [Caller -> Task]
    <3> DEFINE new == {i \in Intent : intents[i].where = "nowhere"}
               keyed == IF Key[c] = NoSource THEN 0 ELSE OfSource(Key[c])
               first == CHOOSE i \in new : \A k \in new : i <= k
    <3>1. \/ keyed # 0 /\ Resume(c, keyed)
          \/ ActiveOne # 0 /\ Resume(c, ActiveOne)
          \/ new # {} /\ Create(c, first)
      BY <1>3 DEF Begin
    <3>2. new \in SUBSET Intent
      OBVIOUS
    <3>3. keyed # 0 => keyed \in Intent
      BY <2>3
    <3> HIDE DEF new, keyed
    <3>4. new # {} => first \in Intent
      BY <2>5, <3>2
    <3> HIDE DEF first
    <3> QED  BY <2>1, <2>2, <2>4, <3>1, <3>3, <3>4
  <2> QED  BY <1>3, <2>6 DEF Begin, Rest, TypeOK
<1>4. CASE Look(c)
  <2>1. OpenJob # 0 => OpenJob \in Dispatch
    BY LatestType
  <2>2. jobs' \in [Dispatch -> JobRecord]
    BY <1>4, <2>1, EndJobType DEF Look, CancelJob, JobState, TypeOK
  <2>3. task' \in [Caller -> Task]
    BY <1>4, GotoType, LeaveType DEF Look, Pc
  <2>4. faults' \in 0 .. MaxFaults
    BY <1>4, Constants DEF Look, TypeOK
  <2> QED  BY <1>4, <2>2, <2>3, <2>4 DEF Look, TypeOK
<1>5. CASE LookAgain(c)
  <2>1. task' \in [Caller -> Task]
    BY <1>5, GotoType, LeaveType DEF LookAgain, Pc
  <2>2. faults' \in 0 .. MaxFaults
    BY <1>5, Constants DEF LookAgain, TypeOK
  <2> QED  BY <1>5, <2>1, <2>2 DEF LookAgain, TypeOK
<1>6. CASE Retire(c)
  <2> DEFINE status == IF task[c].pc = "cancelled" THEN "CANCELLED"
                       ELSE Outcome[jobs[task[c].dispatch].state]
  <2>1. status \in IntentState
    BY <1>6, States DEF Retire, Shaped
  <2>2. Set(task[c].intent, status)
    BY <1>6 DEF Retire
  <2> HIDE DEF status
  <2>3. intents' \in [Intent -> IntentRecord]
    BY <2>1, <2>2, SetIs, TaskFields
  <2>4. [Idle EXCEPT !.pc = "begin", !.again = task[c].pc] \in Task
    BY <1>6, Values DEF Retire, Task, Pc, Idle
  <2>5. task' \in [Caller -> Task]
    BY <1>6, <2>4, TaskType, LeaveType DEF Retire
  <2> QED  BY <1>6, <2>3, <2>5 DEF Retire, Rest, TypeOK
<1> QED  BY <1>1, <1>2, <1>3, <1>4, <1>5, <1>6

\* The claim and the section it guards.
LEMMA TypeWithin ==
  ASSUME TypeOK, Fenced, NEW c \in Caller,
         \/ TakeClaim(c) \/ Pack(c) \/ Post(c) \/ Withdraw(c) \/ Timeout(c) \/ Adopt(c) \/ Queue(c)
  PROVE  TypeOK'
<1> USE DEF Section
<1>1. CASE TakeClaim(c)
  <2> DEFINE i == task[c].intent
  <2>1. CASE ~InJournal(i) \/ Refuses(i)
    BY <1>1, <2>1, LeaveType DEF TakeClaim, Rest, TypeOK
  <2>2. CASE InJournal(i) /\ ~Refuses(i)
    <3>1. i \in Intent
      BY <2>2, TaskFields DEF InJournal, Intent
    <3>2. intents[i].fence + 1 \in 0 .. MaxFence
      BY <1>1, <2>2, <3>1, IntentFields, Constants DEF TakeClaim
    <3>3. Home[c] \in Process
      BY StartAssumption
    <3>4. "PREPARING" \in IntentState
      BY States
    <3>5. intents' = Claimed(c, i)
      BY <1>1, <2>2 DEF TakeClaim
    <3>6. intents' \in [Intent -> IntentRecord]
      BY <3>1, <3>2, <3>3, <3>4, <3>5 DEF Claimed, TypeOK, IntentRecord
    <3>7. task' = [task EXCEPT ![c].pc = "claimed", ![c].fence = intents[i].fence + 1,
                               ![c].dispatch = 0, ![c].again = "no"]
      BY <1>1, <2>2 DEF TakeClaim
    <3>8. task' = [task EXCEPT ![c] = [task[c] EXCEPT !.pc = "claimed",
                     !.fence = intents[i].fence + 1, !.dispatch = 0, !.again = "no"]]
      BY <3>7 DEF TypeOK, Task
    <3>9. [task[c] EXCEPT !.pc = "claimed", !.fence = intents[i].fence + 1,
                          !.dispatch = 0, !.again = "no"] \in Task
      <4>1. task[c] \in Task /\ 0 \in 0 .. MaxDispatches /\ "claimed" \in Pc
        BY Constants DEF TypeOK, Pc
      <4> QED  BY <3>2, <4>1 DEF Task
    <3>10. task' \in [Caller -> Task]
      BY <3>8, <3>9, TaskType
    <3> QED  BY <1>1, <3>6, <3>10 DEF TakeClaim, Rest, TypeOK
  <2> QED  BY <2>1, <2>2
<1>2. 0 \in 0 .. MaxDispatches
  BY Constants
<1>3. CASE Pack(c)
  <2>1. intents' \in [Intent -> IntentRecord] /\ task' \in [Caller -> Task]
    BY <1>2, <1>3, States, WriteType, WriteLastType DEF Pack, SettledByClose, Fail, Pc
  <2> QED  BY <1>3, <2>1 DEF Pack, Rest, TypeOK
<1>4. CASE Post(c)
  <2>1. intents' \in [Intent -> IntentRecord] /\ task' \in [Caller -> Task]
    BY <1>4, States, WriteType DEF Post, Pc
  <2>2. flying' \subseteq Claim
    BY <1>4, ClaimType DEF Post, TypeOK
  <2> QED  BY <1>4, <2>1, <2>2 DEF Post, TypeOK
<1>5. CASE Withdraw(c)
  <2>1. intents' \in [Intent -> IntentRecord] /\ task' \in [Caller -> Task]
    BY <1>2, <1>5, States, WriteLastType DEF Withdraw, SettledByClose, Fail
  <2> QED  BY <1>5, <2>1 DEF Withdraw, Rest, TypeOK
<1>6. CASE Timeout(c)
  <2>1. task' \in [Caller -> Task]
    BY <1>6, GotoType DEF Timeout, Pc
  <2>2. faults' \in 0 .. MaxFaults
    BY <1>6, Constants DEF Timeout, TypeOK
  <2> QED  BY <1>6, <2>1, <2>2 DEF Timeout, TypeOK
<1>7. CASE Adopt(c)
  <2>1. CASE OpenJob # 0 /\ UNCHANGED <<intents, faults>>
             /\ unheard' \subseteq unheard \cup {MyClaim(c)}
             /\ task' = [task EXCEPT ![c].pc = "named", ![c].dispatch = OpenJob]
    <3>1. OpenJob \in 0 .. MaxDispatches
      BY LatestType, Constants DEF Dispatch
    <3>2. task' \in [Caller -> Task]
      <4>1. task' = [task EXCEPT ![c].pc = "named", ![c].dispatch = OpenJob]
        BY <2>1
      <4>2. task[c] \in Task /\ "named" \in Pc
        BY DEF TypeOK, Pc
      <4>3. [task[c] EXCEPT !.pc = "named", !.dispatch = OpenJob] \in Task
        BY <3>1, <4>2 DEF Task
      <4>4. task' = [task EXCEPT ![c] = [task[c] EXCEPT !.pc = "named", !.dispatch = OpenJob]]
        BY <4>1, <4>2 DEF TypeOK, Task
      <4> QED  BY <4>3, <4>4, TaskType
    <3>3. unheard' \subseteq Claim
      BY <1>7, <2>1, ClaimType DEF Adopt, TypeOK
    <3> QED  BY <1>7, <2>1, <3>2, <3>3 DEF Adopt, TypeOK
  <2>2. CASE Fail(c) /\ faults' \in {faults, faults + 1} /\ (faults' = faults \/ faults < MaxFaults)
             /\ unheard' \subseteq unheard \cup {MyClaim(c)}
    <3>1. intents' \in [Intent -> IntentRecord] /\ task' \in [Caller -> Task]
      BY <1>2, <2>2, States, WriteLastType DEF Fail
    <3>2. unheard' \subseteq Claim
      BY <1>7, <2>2, ClaimType DEF Adopt, TypeOK
    <3>3. faults' \in 0 .. MaxFaults
      BY <2>2, Constants DEF TypeOK
    <3> QED  BY <1>7, <3>1, <3>2, <3>3 DEF Adopt, TypeOK
  <2> QED  BY <1>7, <2>1, <2>2 DEF Adopt
<1>8. CASE Queue(c)
  <2>1. intents' \in [Intent -> IntentRecord] /\ task' \in [Caller -> Task]
    BY <1>8, TaskFields, States, WriteLastType DEF Queue
  <2> QED  BY <1>8, <2>1 DEF Queue, Rest, TypeOK
<1> QED  BY <1>1, <1>3, <1>4, <1>5, <1>6, <1>7, <1>8

\* The Bridge, the operator and the board.
LEMMA TypeAround ==
  ASSUME TypeOK, Shaped,
         \/ \E k \in Claim : Serve(k)
         \/ \E d \in Dispatch : Advance(d) \/ Cancel(d) \/ Abandon(d) \/ Glance(d)
         \/ \E i \in Intent : Reset(i) \/ Elsewhere(i)
         \/ CarryOut \/ Reconcile \/ Close
         \/ \E p \in Process : Crash(p)
  PROVE  TypeOK'
<1> DEFINE Command == [status : {"none", "CANCELLED", "FAILED"}, intent : 0 .. MaxIntents,
                       dispatch : 0 .. MaxDispatches]
           Glances == [dispatch : 0 .. MaxDispatches, state : JobState]
<1>1. \A d \in Dispatch : d \in 0 .. MaxDispatches
  BY Constants DEF Dispatch
<1>2. \A i \in Intent : i \in 0 .. MaxIntents
  BY Constants DEF Intent
<1>3. NoCommand \in Command /\ Unread \in Glances
  BY Constants DEF NoCommand, Unread, JobState
<1>4. ASSUME NEW status \in {"CANCELLED", "FAILED"}, NEW i \in 0 .. MaxIntents,
             NEW d \in 0 .. MaxDispatches, Commanded(status, i, d)
      PROVE  command' \in Command /\ events' \in 0 .. MaxEvents
  BY <1>4, Constants DEF Commanded, TypeOK
<1>5. 0 \in 0 .. MaxIntents /\ 0 \in 0 .. MaxDispatches
  BY Constants
<1>6. ASSUME NEW k \in Claim, Serve(k) PROVE TypeOK'
  <2>1. \/ jobs' = jobs
        \/ \E d \in Dispatch : jobs' = [jobs EXCEPT ![d].state = "waiting", ![d].by = k]
    BY <1>6 DEF Serve
  <2>2. jobs' \in [Dispatch -> JobRecord]
    <3>1. ASSUME NEW d \in Dispatch, jobs' = [jobs EXCEPT ![d].state = "waiting", ![d].by = k]
          PROVE  jobs' \in [Dispatch -> JobRecord]
      <4>1. [jobs[d] EXCEPT !.state = "waiting", !.by = k] \in JobRecord
        BY DEF TypeOK, JobRecord, JobState
      <4>2. jobs' = [jobs EXCEPT ![d] = [jobs[d] EXCEPT !.state = "waiting", !.by = k]]
        BY <3>1 DEF TypeOK, JobRecord
      <4> QED  BY <4>1, <4>2 DEF TypeOK
    <3> QED  BY <2>1, <3>1 DEF TypeOK
  <2>3. faults' = faults \/ (faults < MaxFaults /\ faults' = faults + 1)
    BY <1>6 DEF Serve
  <2>4. faults' \in 0 .. MaxFaults
    BY <2>3, Constants DEF TypeOK
  <2>5. PICK d \in 0 .. MaxDispatches, pc \in {"named", "adopting"} :
          task' = [c \in Caller |-> IF task[c].pc = "posted" /\ MyClaim(c) = k
                                       THEN [task[c] EXCEPT !.pc = pc, !.dispatch = d] ELSE task[c]]
    <3>1. PICK d \in {0} \cup Dispatch, heard \in BOOLEAN :
            task' = [c \in Caller |->
               IF task[c].pc = "posted" /\ MyClaim(c) = k
                 THEN [task[c] EXCEPT !.pc = IF d # 0 /\ heard THEN "named" ELSE "adopting",
                                      !.dispatch = IF heard THEN d ELSE 0]
                 ELSE task[c]]
      BY <1>6 DEF Serve
    <3>2. d \in 0 .. MaxDispatches
      BY <1>1, <1>5
    <3> QED  BY <1>5, <3>1, <3>2
  <2>6. task' \in [Caller -> Task]
    <3>1. \A c \in Caller : [task[c] EXCEPT !.pc = pc, !.dispatch = d] \in Task
      BY DEF TypeOK, Task, Pc, Section
    <3> QED  BY <2>5, <3>1 DEF TypeOK
  <2> QED  BY <1>6, <2>2, <2>4, <2>6 DEF Serve, TypeOK
<1>7. ASSUME NEW d \in Dispatch, Advance(d) PROVE TypeOK'
  <2>1. jobs' \in [Dispatch -> JobRecord]
    <3>1. CASE \E m \in JobMoves : jobs[d].state = m[1] /\ jobs' = [jobs EXCEPT ![d].state = m[2]]
      <4>1. PICK m \in JobMoves : jobs' = [jobs EXCEPT ![d].state = m[2]]
        BY <3>1
      <4>2. m[2] \in JobState
        BY DEF JobMoves, JobState
      <4> QED  BY <4>1, <4>2 DEF TypeOK, JobRecord
    <3>2. ASSUME NEW over \in {"complete", "failed"}, EndJob(d, over) PROVE jobs' \in [Dispatch -> JobRecord]
      BY <3>2, EndJobType DEF JobState
    <3> QED  BY <1>7, <3>1, <3>2 DEF Advance
  <2> QED  BY <1>7, <2>1 DEF Advance, TypeOK
<1>8. ASSUME NEW d \in Dispatch, Cancel(d) PROVE TypeOK'
  <2>1. jobs' \in [Dispatch -> JobRecord]
    BY <1>8, EndJobType DEF Cancel, CancelJob, JobState, TypeOK
  <2>2. command' \in Command /\ events' \in 0 .. MaxEvents
    BY <1>1, <1>4, <1>5, <1>8 DEF Cancel
  <2> QED  BY <1>8, <2>1, <2>2 DEF Cancel, TypeOK
<1>9. ASSUME NEW d \in Dispatch, Abandon(d) PROVE TypeOK'
  <2>1. jobs' \in [Dispatch -> JobRecord]
    BY <1>9, EndJobType DEF Abandon, JobState, TypeOK
  <2>2. command' \in Command /\ events' \in 0 .. MaxEvents
    BY <1>1, <1>4, <1>5, <1>9 DEF Abandon
  <2> QED  BY <1>9, <2>1, <2>2 DEF Abandon, TypeOK
<1>10. ASSUME NEW d \in Dispatch, Glance(d) PROVE TypeOK'
  <2>1. glance' \in Glances /\ events' \in 0 .. MaxEvents
    BY <1>1, <1>10, JobFields, Constants DEF Glance, TypeOK
  <2> QED  BY <1>10, <2>1 DEF Glance, TypeOK
<1>11. ASSUME NEW i \in Intent, Reset(i) PROVE TypeOK'
  <2>1. command' \in Command /\ events' \in 0 .. MaxEvents
    BY <1>2, <1>4, <1>5, <1>11 DEF Reset
  <2>2. faults' \in 0 .. MaxFaults
    BY <1>11, Constants DEF Reset, TypeOK
  <2> QED  BY <1>11, <2>1, <2>2 DEF Reset, TypeOK
<1>12. ASSUME NEW i \in Intent, Elsewhere(i) PROVE TypeOK'
  <2> DEFINE gone == [Unborn EXCEPT !.where = "dropped"]
             old  == [Unborn EXCEPT !.where = "tombstone", !.status = intents[i].status,
                       !.source = intents[i].source, !.dispatch = intents[i].dispatch]
  <2>1. gone \in IntentRecord
    BY Values DEF IntentRecord, Unborn
  <2>2. old \in IntentRecord
    BY Values, IntentFields DEF IntentRecord, Unborn
  <2>3. intents' = [intents EXCEPT ![i] = gone] \/ intents' = [intents EXCEPT ![i] = old]
    BY <1>12 DEF Elsewhere
  <2> HIDE DEF gone, old
  <2>4. intents' \in [Intent -> IntentRecord]
    BY <2>1, <2>2, <2>3 DEF TypeOK
  <2>5. events' \in 0 .. MaxEvents
    <3>1. events < MaxEvents /\ events' = events + 1
      BY <1>12 DEF Elsewhere
    <3> QED  BY <3>1, Constants DEF TypeOK
  <2> QED  BY <1>12, <2>4, <2>5 DEF Elsewhere, TypeOK
<1>13. CASE CarryOut
  <2> DEFINE i == IF command.dispatch = 0 THEN command.intent ELSE OfDispatch(command.dispatch)
  <2>1. i \in 0 .. MaxIntents
    BY LatestType DEF TypeOK
  <2>2. command.status \in IntentState
    BY <1>13, States DEF CarryOut, Shaped, TypeOK
  <2>3. Set(i, command.status)
    BY <1>13 DEF CarryOut
  <2> HIDE DEF i
  <2>4. intents' \in [Intent -> IntentRecord]
    BY <2>1, <2>2, <2>3, SetIs
  <2> QED  BY <1>3, <1>13, <2>4 DEF CarryOut, TypeOK
<1>14. CASE Reconcile
  <2>1. Shown(glance.state) \in IntentState
    BY <1>14, States DEF Reconcile, Shaped, TypeOK
  <2>2. intents' \in [Intent -> IntentRecord]
    BY <1>14, <2>1, LatestType, SetIs DEF Reconcile
  <2> QED  BY <1>3, <1>14, <2>2 DEF Reconcile, TypeOK
<1>15. CASE Close
  <2>1. events' \in 0 .. MaxEvents
    BY <1>15, Constants DEF Close, TypeOK
  <2> QED  BY <1>15, <2>1 DEF Close, TypeOK
<1>16. ASSUME NEW p \in Process, Crash(p) PROVE TypeOK'
  <2>1. intents' \in [Intent -> IntentRecord]
    <3>1. ASSUME NEW i \in Intent, NEW o \in Process \cup {NoProcess}
          PROVE  [intents[i] EXCEPT !.owner = o] \in IntentRecord
      BY DEF TypeOK, IntentRecord
    <3>2. intents' = [i \in Intent |->
            [intents[i] EXCEPT !.owner = IF intents[i].owner = p THEN NoProcess ELSE intents[i].owner]]
      BY <1>16 DEF Crash
    <3> QED  BY <3>1, <3>2, IntentFields
  <2>2. task' \in [Caller -> Task]
    BY <1>16, Values DEF Crash, TypeOK, Task, Pc, Section
  <2>3. faults' \in 0 .. MaxFaults
    BY <1>16, Constants DEF Crash, TypeOK
  <2>4. flying' \subseteq Claim /\ glance' \in Glances /\ command' \in Command
    BY <1>3, <1>16 DEF Crash, TypeOK
  <2>5. closing' \in BOOLEAN
    BY <1>16 DEF Crash, TypeOK
  <2>6. unheard' \subseteq Claim /\ jobs' \in [Dispatch -> JobRecord] /\ events' \in 0 .. MaxEvents
    BY <1>16 DEF Crash, TypeOK
  <2> QED  BY <2>1, <2>2, <2>3, <2>4, <2>5, <2>6 DEF TypeOK
<1> QED  BY <1>6, <1>7, <1>8, <1>9, <1>10, <1>11, <1>12, <1>13, <1>14, <1>15, <1>16

-----------------------------------------------------------------------------
(* What keeps the rest of the invariant: who holds which claim, and what was sent. *)

\* No thread takes up a claim.
Calm ==
  \A c \in Caller :
    /\ task'[c].pc \in Section =>
         /\ task[c].pc \in Section
         /\ task'[c].intent = task[c].intent /\ task'[c].fence = task[c].fence
    /\ task'[c].pc \in Early => task[c].pc \in Early

\* Nor gives one up.
Stay ==
  \A c \in Caller :
    task[c].pc \in Section =>
      /\ task'[c].pc \in Section
      /\ task'[c].intent = task[c].intent /\ task'[c].fence = task[c].fence

\* Only who holds a claim sends it, and the Bridge serves only what was sent.
Sent ==
  /\ \A k \in flying' : k \in flying \/ \E c \in Caller : Holds(c, k) /\ task'[c].pc \notin Early
  /\ \A d \in Dispatch : jobs'[d].by \in {jobs[d].by, NoClaim} \cup flying

LEMMA EarlyInSection == Early \subseteq Section
BY DEF Early, Section

LEMMA GrantedIsClaim == \A k : Granted(k) => k # NoClaim
BY DEF Granted, NoClaim, Intent

LEMMA UnsentStays ==
  ASSUME Sent, NEW k, k # NoClaim, Unsent(k),
         \A c \in Caller : Holds(c, k) => task'[c].pc \in Early
  PROVE  Unsent(k)'
BY DEF Sent, Unsent

LEMMA FencedStep ==
  ASSUME Fenced, Calm, Sent, \A k : Granted(k) => Granted(k)'
  PROVE  Fenced'
<1>1. ASSUME NEW c \in Caller, task'[c].pc \in Section
      PROVE  MyClaim(c)' = MyClaim(c) /\ task[c].pc \in Section
  BY <1>1 DEF Calm, MyClaim
<1>2. ASSUME NEW c \in Caller, task'[c].pc \in Section PROVE Granted(MyClaim(c))'
  <2>1. PICK k : k = MyClaim(c)
    OBVIOUS
  <2>2. Granted(k)'
    BY <1>1, <1>2, <2>1 DEF Fenced
  <2>3. MyClaim(c)' = k
    BY <1>1, <1>2, <2>1
  <2> QED  BY <2>2, <2>3 DEF Granted
<1>3. ASSUME NEW k \in flying' PROVE Granted(k)'
  <2>1. Granted(k)
    BY DEF Sent, Fenced, Holds
  <2> QED  BY <2>1
<1>4. ASSUME NEW d \in Dispatch, jobs'[d].by # NoClaim PROVE Granted(jobs[d].by)'
  <2>1. PICK k : k = jobs'[d].by
    OBVIOUS
  <2>2. Granted(k)
    BY <1>4, <2>1 DEF Sent, Fenced
  <2>3. Granted(k)'
    BY <2>2
  <2> QED  BY <2>1, <2>3 DEF Granted
<1>5. ASSUME NEW c \in Caller, NEW e \in Caller, task'[c].pc \in Section, task'[e].pc \in Section,
             MyClaim(c)' = MyClaim(e)'
      PROVE  c = e
  BY <1>1, <1>5 DEF Fenced
<1>6. ASSUME NEW c \in Caller, task'[c].pc \in Early PROVE Unsent(MyClaim(c))'
  <2>1. PICK k : k = MyClaim(c)
    OBVIOUS
  <2>2. task[c].pc \in Early /\ task[c].pc \in Section /\ MyClaim(c)' = k
    BY <1>1, <1>6, <2>1, EarlyInSection DEF Calm
  <2>3. Unsent(k) /\ k # NoClaim
    BY <2>1, <2>2, GrantedIsClaim DEF Fenced
  <2>4. \A e \in Caller : Holds(e, k) => e = c
    BY <2>1, <2>2 DEF Fenced, Holds
  <2>5. Unsent(k)'
    BY <1>6, <2>3, <2>4, UnsentStays
  <2> QED  BY <2>2, <2>5 DEF Unsent
<1> QED  BY <1>2, <1>3, <1>4, <1>5, <1>6 DEF Fenced

\* The end of an intent stays true of the claim that wrote it.
LEMMA SettledStep ==
  ASSUME TypeOK, Calm, Sent, unheard \subseteq unheard', NEW i \in Intent, SettledOne(i),
         SameStatus(i) \/ intents'[i].wrote = 0
  PROVE  SettledOne(i)'
<1>1. CASE intents'[i].wrote = 0
  BY <1>1 DEF SettledOne
<1>2. CASE SameStatus(i) /\ intents'[i].wrote # 0
  <2>1. PICK k : k = <<i, intents[i].wrote>>
    OBVIOUS
  <2>2. k = <<i, intents'[i].wrote>> /\ intents'[i].status = intents[i].status /\ intents[i].wrote # 0
    BY <1>2, <2>1 DEF SameStatus
  <2>3. k # NoClaim
    BY <2>1 DEF NoClaim, Intent
  <2>4. \A c \in Caller : Holds(c, k)' => Holds(c, k)
    BY DEF Calm, Holds, MyClaim
  <2>5. /\ intents[i].status \in {"CANCELLED", "FAILED"} => \A c \in Caller : ~Holds(c, k)
        /\ intents[i].status = "CANCELLED" => Unsent(k)
        /\ intents[i].status = "FAILED" => k \in unheard \/ Unsent(k)
    BY <2>1, <2>2 DEF SettledOne
  <2>6. intents[i].status \in {"CANCELLED", "FAILED"} => \A c \in Caller : ~Holds(c, k)'
    BY <2>4, <2>5
  <2>7. ASSUME intents[i].status \in {"CANCELLED", "FAILED"}, Unsent(k) PROVE Unsent(k)'
    BY <2>3, <2>5, <2>7, UnsentStays
  <2>8. /\ intents[i].status = "CANCELLED" => Unsent(k)'
        /\ intents[i].status = "FAILED" => k \in unheard' \/ Unsent(k)'
    BY <2>5, <2>7
  <2> QED  BY <2>2, <2>6, <2>8 DEF SettledOne, Holds, Unsent, MyClaim
<1> QED  BY <1>1, <1>2

\* A token is still that of the thread that has the claim.
LEMMA AttendedStep ==
  ASSUME NEW i \in Intent, AttendedOne(i), Same(i),
         \A c \in Caller : \A k : k = <<i, intents[i].fence>> /\ Holds(c, k) => Holds(c, k)'
  PROVE  AttendedOne(i)'
BY DEF AttendedOne, Same, InJournal, Holds, MyClaim

\* Claims stay granted while no fencing number falls.
LEMMA GrantedStays ==
  ASSUME TypeOK, \A j \in Intent : Same(j), NEW k, Granted(k)
  PROVE  Granted(k)'
BY DEF Granted, Same, InJournal

\* A thread that has a dispatch to name has had it before, or it is the right one.
NamedRight ==
  \A c \in Caller : task'[c].pc = "named" =>
    \/ task[c].pc = "named" /\ task'[c].dispatch = task[c].dispatch
    \/ MyClaim(c) \in unheard'
    \/ /\ MyClaim(c) \notin flying'
       /\ \A e \in Dispatch : jobs'[e].by = MyClaim(c) => e = task'[c].dispatch

\* What was served stays so while it is not sent again.
LEMMA ServedStays ==
  ASSUME \A d \in Dispatch : jobs'[d].by \in {jobs[d].by, NoClaim} \cup flying,
         NEW k, NEW n, k # NoClaim, Served(k, n), k \notin flying'
  PROVE  Served(k, n)'
BY DEF Served

\* A claim names what it asked for, and no claim but the ones a step is about is touched.
LEMMA RecordedStep ==
  ASSUME TypeOK, Fenced, Recorded, Calm, NamedRight, unheard \subseteq unheard',
         \A d \in Dispatch : jobs'[d].by \in {jobs[d].by, NoClaim} \cup flying,
         \A k \in flying' : k \in flying \/ \E c \in Caller : Holds(c, k) /\ task'[c].pc # "named",
         \A k \in Claim : Granted(k) /\ Spent(k)' =>
           Spent(k) /\ intents'[k[1]].dispatch = intents[k[1]].dispatch
  PROVE  Recorded'
<1>1. ASSUME NEW c \in Caller, task'[c].pc \in Section
      PROVE  MyClaim(c)' = MyClaim(c) /\ Holds(c, MyClaim(c)) /\ MyClaim(c) \in Claim
  BY <1>1, ClaimType DEF Calm, MyClaim, Holds
<1>2. ASSUME NEW c \in Caller, task'[c].pc \in Section PROVE ~Spent(MyClaim(c))'
  <2>1. PICK k : k = MyClaim(c)
    OBVIOUS
  <2>2. Granted(k) /\ ~Spent(k) /\ k \in Claim /\ MyClaim(c)' = k
    BY <1>1, <1>2, <2>1 DEF Fenced, Recorded, Holds
  <2>3. ~Spent(k)'
    BY <2>2
  <2> QED  BY <2>2, <2>3 DEF Spent, InJournal
<1>3. ASSUME NEW k \in Claim, k \notin unheard' PROVE RecordedOne(k)'
  <2>1. RecordedOne(k) /\ k # NoClaim
    BY <1>3 DEF Recorded, NoClaim, Claim, Intent
  <2>2. \A c \in Caller : Holds(c, k)' => Holds(c, k)
    BY DEF Calm, Holds, MyClaim
  <2>3. ASSUME Spent(k)' PROVE Served(k, intents[k[1]].dispatch)'
    <3>1. CASE Granted(k)
      <4>1. Spent(k) /\ intents'[k[1]].dispatch = intents[k[1]].dispatch
        BY <2>3, <3>1
      <4>2. PICK n : n = intents[k[1]].dispatch
        OBVIOUS
      <4>3. Served(k, n)
        BY <2>1, <4>1, <4>2 DEF RecordedOne
      <4>4. \A c \in Caller : ~Holds(c, k)
        BY <4>1 DEF Holds, Recorded
      <4>5. k \notin flying'
        BY <4>3, <4>4 DEF Served
      <4>6. Served(k, n)'
        BY <2>1, <4>3, <4>5, ServedStays
      <4> QED  BY <4>1, <4>2, <4>6 DEF Served
    <3>2. CASE ~Granted(k)
      <4>1. k \notin flying /\ \A d \in Dispatch : jobs[d].by # k
        BY <2>1, <3>2 DEF Fenced
      <4>2. \A c \in Caller : ~Holds(c, k)
        BY <3>2 DEF Fenced, Holds
      <4> QED  BY <2>1, <4>1, <4>2 DEF Served
    <3> QED  BY <3>1, <3>2
  <2>4. ASSUME NEW c \in Caller, Holds(c, k)', task'[c].pc = "named"
        PROVE  Served(k, task[c].dispatch)'
    <3>1. Holds(c, k) /\ MyClaim(c) = k
      BY <2>2, <2>4 DEF Holds
    <3>2. \A e \in Caller : Holds(e, k) => e = c
      BY <3>1 DEF Fenced, Holds
    <3>3. CASE task[c].pc = "named" /\ task'[c].dispatch = task[c].dispatch
      <4>1. PICK n : n = task[c].dispatch
        OBVIOUS
      <4>2. Served(k, n)
        BY <2>1, <3>1, <3>3, <4>1 DEF RecordedOne
      <4>3. k \notin flying'
        BY <2>4, <3>2, <4>2 DEF Served
      <4>4. Served(k, n)'
        BY <2>1, <4>2, <4>3, ServedStays
      <4> QED  BY <3>3, <4>1, <4>4 DEF Served
    <3>4. CASE ~(task[c].pc = "named" /\ task'[c].dispatch = task[c].dispatch)
      BY <1>3, <2>4, <3>1, <3>4 DEF NamedRight, Served
    <3> QED  BY <3>3, <3>4
  <2> QED  BY <2>3, <2>4 DEF RecordedOne
<1> QED  BY <1>2, <1>3 DEF Recorded

\* The journal keeps its claims, or loses some to compaction.
LEMMA SpentStays ==
  ASSUME NEW k \in Claim, Spent(k)', InJournal(k[1])' => Same(k[1])
  PROVE  Spent(k) /\ intents'[k[1]].dispatch = intents[k[1]].dispatch
BY DEF Spent, Same, InJournal

\* A step that takes up no claim, gives up none and writes under none.
LEMMA CalmStep ==
  ASSUME IInv, Calm, Stay, Sent, NamedRight, unheard \subseteq unheard', \A j \in Intent : Keeps(j),
         flying' \subseteq flying
  PROVE  Written' /\ SourceHasOneIntent' /\ Fenced' /\ Settled' /\ Attended' /\ Recorded'
<1>1. \A j \in Intent : Same(j)
  BY DEF Keeps
<1>2. Written'
  <2>1. ASSUME NEW i \in Intent
        PROVE  /\ intents'[i].where = "nowhere" => intents'[i] = Unborn
               /\ intents'[i].where = "dropped" => intents'[i].source = NoSource
               /\ intents'[i].where # "journal" => intents'[i].wrote = 0
               /\ intents'[i].wrote \in {0, intents'[i].fence}
    <3>1. Keeps(i) /\ i # 0
      BY DEF Intent
    <3>2. CASE ~InJournal(i)
      BY <3>1, <3>2 DEF Keeps, IInv, Written
    <3>3. CASE InJournal(i)
      BY <3>1, <3>3 DEF Keeps, Same, SameStatus, InJournal, IInv, Written
    <3> QED  BY <3>2, <3>3
  <2> QED  BY <2>1 DEF Written
<1>3. SourceHasOneIntent'
  BY <1>1 DEF Same, IInv, SourceHasOneIntent
<1>4. Fenced'
  BY <1>1, GrantedStays, FencedStep DEF IInv
<1>5. ASSUME NEW i \in Intent PROVE SettledOne(i)'
  <2>1. SameStatus(i) \/ intents'[i].wrote = 0
    BY DEF Keeps
  <2> QED  BY <2>1, SettledStep DEF IInv, Settled
<1>6. ASSUME NEW i \in Intent PROVE AttendedOne(i)'
  <2>1. \A c \in Caller : \A k : k = <<i, intents[i].fence>> /\ Holds(c, k) => Holds(c, k)'
    BY DEF Stay, Holds, MyClaim
  <2> QED  BY <1>1, <2>1, AttendedStep DEF IInv, Attended
<1>7. Recorded'
  <2>1. \A k \in Claim : Spent(k)' => Spent(k) /\ intents'[k[1]].dispatch = intents[k[1]].dispatch
    BY <1>1, SpentStays DEF Claim
  <2> QED  BY <2>1, RecordedStep DEF IInv, Sent
<1> QED  BY <1>2, <1>3, <1>4, <1>5, <1>6, <1>7 DEF Settled, Attended

-----------------------------------------------------------------------------
(* The dispatches. *)

\* What may happen to dispatch d, whoever does it.
Moved(d) ==
  \/ MayCancel(d) /\ EndJob(d, "cancelled")
  \/ jobs[d].state \in {"held", "parked", "running", "lost"}
     /\ \E over \in {"complete", "failed"} : EndJob(d, over)
  \/ \E m \in JobMoves : jobs[d].state = m[1] /\ jobs' = [jobs EXCEPT ![d].state = m[2]]

Born(d, k) ==
  /\ jobs[d].state = "absent" /\ \A e \in Dispatch : ~Open(e)
  /\ jobs' = [jobs EXCEPT ![d].state = "waiting", ![d].by = k]

LEMMA JobsStep ==
  ASSUME TypeOK, Next
  PROVE  jobs' = jobs \/ \E d \in Dispatch : Moved(d) \/ \E k \in flying : Born(d, k)
<1>1. OpenJob # 0 => OpenJob \in Dispatch
  BY LatestType
<1>2. ASSUME NEW c \in Caller, Release(c) PROVE Moved(OpenJob)
  BY <1>2 DEF Release, CancelJob, Moved, MayCancel
<1>3. ASSUME NEW c \in Caller, Look(c) PROVE jobs' = jobs \/ (OpenJob # 0 /\ Moved(OpenJob))
  BY <1>3 DEF Look, CancelJob, Moved, MayCancel
<1>4. ASSUME NEW c \in Caller, Start(c) PROVE jobs' = jobs \/ \E d \in Dispatch : Moved(d)
  <2>1. CASE Release(c)
    BY <1>1, <1>2, <2>1 DEF Release
  <2>2. CASE Look(c)
    BY <1>1, <1>3, <2>2
  <2>3. CASE ~Release(c) /\ ~Look(c)
    BY <1>4, <2>3 DEF Start, Released, Begin, LookAgain, Retire, TakeClaim, Pack, Post, Withdraw,
                      Timeout, Adopt, Queue, Rest
  <2> QED  BY <2>1, <2>2, <2>3
<1>5. ASSUME NEW k \in Claim, Serve(k) PROVE jobs' = jobs \/ \E d \in Dispatch : Born(d, k) /\ k \in flying
  <2> DEFINE next == Latest({e \in Dispatch : jobs[e].state # "absent"}) + 1
  <2>1. /\ k \in flying
        /\ jobs' = jobs \/ \E d \in Dispatch : MayEnqueue /\ d = next /\
                             jobs' = [jobs EXCEPT ![d].state = "waiting", ![d].by = k]
    BY <1>5 DEF Serve
  <2>2. \A d \in Dispatch : d = next => jobs[d].state = "absent"
    BY NextJob
  <2>3. MayEnqueue => \A e \in Dispatch : ~Open(e)
    BY LatestNone DEF MayEnqueue
  <2> HIDE DEF next
  <2> QED  BY <2>1, <2>2, <2>3 DEF Born
<1>6. ASSUME NEW d \in Dispatch, Advance(d) \/ Cancel(d) \/ Abandon(d) \/ Glance(d)
      PROVE  jobs' = jobs \/ Moved(d)
  BY <1>6 DEF Advance, Cancel, Abandon, Glance, CancelJob, Moved
<1>7. ASSUME NEW i \in Intent, Reset(i) \/ Elsewhere(i) PROVE jobs' = jobs
  BY <1>7 DEF Reset, Elsewhere
<1>8. ASSUME CarryOut \/ Reconcile \/ Close PROVE jobs' = jobs
  BY <1>8 DEF CarryOut, Reconcile, Close
<1>9. ASSUME NEW p \in Process, Crash(p) PROVE jobs' = jobs
  BY <1>9 DEF Crash
<1> QED  BY <1>4, <1>5, <1>6, <1>7, <1>8, <1>9 DEF Next

\* One dispatch changes, and keeps to the law.
LEMMA JobsKept ==
  ASSUME TypeOK, Lawful, Next
  PROVE  /\ Lawful'
         /\ \A d \in Dispatch : jobs'[d].by \in {jobs[d].by, NoClaim} \cup flying
         /\ \A d \in Dispatch : jobs[d].state \in Ended => jobs'[d].state \in Ended
<1> DEFINE One(d) == /\ LawfulOne(d)'
                     /\ jobs'[d].by \in {jobs[d].by, NoClaim} \cup flying
                     /\ jobs[d].state \in Ended => jobs'[d].state \in Ended
<1>1. CASE jobs' = jobs
  BY <1>1 DEF Lawful, LawfulOne, OneOpen, Open
<1>2. ASSUME NEW e \in Dispatch, NEW d \in Dispatch, e # d, jobs'[d] = jobs[d] PROVE One(d)
  BY <1>2 DEF Lawful, LawfulOne, Open
<1>3. ASSUME NEW d \in Dispatch, Moved(d) PROVE OneOpen' /\ \A e \in Dispatch : One(e)
  <2>1. \A e \in Dispatch : e # d => jobs'[e] = jobs[e]
    BY <1>3 DEF Moved, EndJob, TypeOK
  <2>2. One(d) /\ Open(d)
    <3>1. jobs[d] = [state |-> jobs[d].state, by |-> jobs[d].by]
      BY DEF TypeOK, JobRecord
    <3>2. LawfulOne(d)
      BY DEF Lawful
    <3> QED  BY <1>3, <3>1, <3>2 DEF Moved, EndJob, MayCancel, JobMoves, LawfulOne, Open, Ended, NoJob,
                                     TypeOK, JobRecord
  <2>3. OneOpen'
    BY <2>1, <2>2 DEF Lawful, OneOpen, Open
  <2> QED  BY <1>2, <2>1, <2>2, <2>3
<1>4. ASSUME NEW d \in Dispatch, NEW k \in flying, Born(d, k) PROVE OneOpen' /\ \A e \in Dispatch : One(e)
  <2>1. \A e \in Dispatch : e # d => jobs'[e] = jobs[e]
    BY <1>4 DEF Born, TypeOK
  <2>2. One(d)
    <3>1. jobs[d] = NoJob
      BY <1>4 DEF Born, Lawful, LawfulOne
    <3>2. jobs'[d].state = "waiting" /\ jobs'[d].by = k
      BY <1>4, <3>1 DEF Born, NoJob, TypeOK
    <3> QED  BY <3>1, <3>2 DEF LawfulOne, Open, Ended, NoJob
  <2>3. OneOpen'
    BY <1>4, <2>1 DEF Born, OneOpen, Open
  <2> QED  BY <1>2, <2>1, <2>2, <2>3
<1>5. jobs' = jobs \/ (OneOpen' /\ \A d \in Dispatch : One(d))
  BY <1>3, <1>4, JobsStep
<1> QED  BY <1>1, <1>5 DEF Lawful

-----------------------------------------------------------------------------
(* Steps of one thread that write under no claim. *)

Kept == Shaped /\ Written /\ SourceHasOneIntent /\ Fenced /\ Settled /\ Attended /\ Recorded

LEMMA ShapedStep ==
  ASSUME IInv, Next, NEW c \in Caller, \A e \in Caller : e # c => task'[e] = task[e],
         task'[c].pc \in {"look", "prior", "cancelled", "over", "claim"} => task'[c].intent \in Intent,
         task'[c].pc = "over" => /\ task'[c].dispatch \in Dispatch
                                 /\ jobs[task'[c].dispatch].state \in Ended,
         UNCHANGED <<glance, command>>
  PROVE  Shaped'
<1>1. \A d \in Dispatch : jobs[d].state \in Ended => jobs'[d].state \in Ended
  BY JobsKept DEF IInv
<1>2. ASSUME NEW e \in Caller
      PROVE  /\ task'[e].pc \in {"look", "prior", "cancelled", "over", "claim"} => task'[e].intent \in Intent
             /\ task'[e].pc = "over" => task'[e].dispatch # 0 /\ jobs'[task'[e].dispatch].state \in Ended
  <2>1. CASE e = c
    BY <1>1, <2>1 DEF Dispatch
  <2>2. CASE e # c
    <3>1. task[e].dispatch # 0 => task[e].dispatch \in Dispatch
      BY TaskFields DEF IInv, Dispatch
    <3> QED  BY <1>1, <2>2, <3>1 DEF IInv, Shaped
  <2> QED  BY <2>1, <2>2
<1> QED  BY <1>2 DEF IInv, Shaped

LEMMA ThreadStep ==
  ASSUME IInv, Next, NEW c \in Caller, \A e \in Caller : e # c => task'[e] = task[e],
         task'[c].pc \in {"look", "prior", "cancelled", "over", "claim"} => task'[c].intent \in Intent,
         task'[c].pc = "over" => /\ task'[c].dispatch \in Dispatch
                                 /\ jobs[task'[c].dispatch].state \in Ended,
         \/ task[c].pc \notin Section /\ task'[c].pc \notin Section
         \/ /\ task[c].pc \in Section /\ task'[c].pc \in Section \ Early
            /\ task'[c].intent = task[c].intent /\ task'[c].fence = task[c].fence,
         \A j \in Intent : Keeps(j), flying' \subseteq flying, unheard \subseteq unheard', UNCHANGED <<glance, command>>,
         task'[c].pc = "named" =>
           \/ MyClaim(c) \in unheard'
           \/ /\ MyClaim(c) \notin flying'
              /\ \A e \in Dispatch : jobs'[e].by = MyClaim(c) => e = task'[c].dispatch
  PROVE  Kept'
<1>1. Calm /\ Stay
  BY EarlyInSection DEF Calm, Stay
<1>2. Sent
  BY JobsKept DEF Sent, IInv
<1>3. Shaped'
  BY ShapedStep
<1>4. NamedRight
  BY DEF NamedRight
<1> QED  BY <1>1, <1>2, <1>3, <1>4, CalmStep DEF Kept

\* A thread goes on before its claim, or comes back to the journal.
LEMMA BeforeStep ==
  ASSUME IInv, Next, NEW c \in Caller,
         Release(c) \/ Released(c) \/ Look(c) \/ LookAgain(c) \/ Retire(c) \/ Timeout(c)
  PROVE  Kept'
<1> USE DEF Section, Early
<1>1. task \in [Caller -> Task] /\ TypeOK
  BY DEF IInv, TypeOK
<1>2. \A pc \in Pc : Goto(c, pc) =>
        /\ \A e \in Caller : e # c => task'[e] = task[e]
        /\ task'[c].pc = pc /\ task'[c].intent = task[c].intent /\ task'[c].dispatch = task[c].dispatch
        /\ task'[c].fence = task[c].fence
  BY <1>1 DEF Goto, Task
<1>3. Leave(c) => task'[c].pc = "idle" /\ \A e \in Caller : e # c => task'[e] = task[e]
  BY <1>1 DEF Leave, Idle
<1>4. intents' = intents => \A j \in Intent : Keeps(j)
  BY DEF Keeps, Same, SameStatus
<1>5. /\ Goto(c, "begin") => task'[c].pc = "begin" /\ \A e \in Caller : e # c => task'[e] = task[e]
      /\ \A pc \in {"cancelled", "prior", "claim", "over", "adopting"} : Goto(c, pc) =>
           /\ \A e \in Caller : e # c => task'[e] = task[e]
           /\ task'[c].pc = pc /\ task'[c].intent = task[c].intent
           /\ task'[c].dispatch = task[c].dispatch /\ task'[c].fence = task[c].fence
  BY <1>2 DEF Pc
<1>6. CASE Release(c)
  <2>1. task'[c].pc = "released" /\ \A e \in Caller : e # c => task'[e] = task[e]
    BY <1>1, <1>6 DEF Release, Task
  <2> QED  BY <1>4, <1>6, <2>1, ThreadStep DEF Release
<1>7. CASE Released(c)
  <2>1. \A j \in Intent : Keeps(j)
    BY <1>1, <1>7, LatestType, SetIs, States DEF Released
  <2>2. task'[c].pc \in {"begin", "idle"} /\ \A e \in Caller : e # c => task'[e] = task[e]
    BY <1>3, <1>5, <1>7 DEF Released
  <2> QED  BY <1>7, <2>1, <2>2, ThreadStep DEF Released, Rest
<1>8. CASE Look(c)
  <2>1. task[c].intent \in Intent
    BY <1>8 DEF Look, IInv, Shaped
  <2>2. Goto(c, "cancelled") \/ Goto(c, "prior") \/ Leave(c)
    BY <1>8 DEF Look
  <2>3. /\ task'[c].pc \in {"cancelled", "prior", "idle"}
        /\ task'[c].pc # "idle" => task'[c].intent \in Intent
        /\ \A e \in Caller : e # c => task'[e] = task[e]
    BY <1>3, <1>5, <2>1, <2>2
  <2> QED  BY <1>4, <1>8, <2>3, ThreadStep DEF Look
<1>9. CASE LookAgain(c)
  <2>1. task[c].intent \in Intent
    BY <1>9 DEF LookAgain, IInv, Shaped
  <2>2. task[c].dispatch # 0 => task[c].dispatch \in Dispatch
    BY <1>1, TaskFields DEF Dispatch
  <2>3. \/ Goto(c, "claim") \/ Leave(c)
        \/ Goto(c, "over") /\ task[c].dispatch # 0 /\ jobs[task[c].dispatch].state \in Ended
    BY <1>9 DEF LookAgain
  <2>4. /\ task'[c].pc \in {"claim", "over", "idle"}
        /\ task'[c].pc # "idle" => task'[c].intent \in Intent
        /\ task'[c].pc = "over" => task'[c].dispatch \in Dispatch /\ jobs[task'[c].dispatch].state \in Ended
        /\ \A e \in Caller : e # c => task'[e] = task[e]
    BY <1>3, <1>5, <2>1, <2>2, <2>3
  <2> QED  BY <1>4, <1>9, <2>4, ThreadStep DEF LookAgain
<1>10. CASE Retire(c)
  <2>1. \A j \in Intent : Keeps(j)
    <3> DEFINE status == IF task[c].pc = "cancelled" THEN "CANCELLED"
                         ELSE Outcome[jobs[task[c].dispatch].state]
    <3>1. status \in IntentState
      BY <1>10, States DEF Retire, IInv, Shaped
    <3>2. Set(task[c].intent, status)
      BY <1>10 DEF Retire
    <3> HIDE DEF status
    <3> QED  BY <1>1, <3>1, <3>2, SetIs, TaskFields
  <2>2. task'[c].pc \in {"begin", "idle"} /\ \A e \in Caller : e # c => task'[e] = task[e]
    BY <1>1, <1>3, <1>10 DEF Retire, Idle
  <2> QED  BY <1>10, <2>1, <2>2, ThreadStep DEF Retire, Rest
<1>11. CASE Timeout(c)
  <2>1. /\ task'[c].pc = "adopting" /\ task'[c].intent = task[c].intent /\ task'[c].fence = task[c].fence
        /\ \A e \in Caller : e # c => task'[e] = task[e]
    BY <1>5, <1>11 DEF Timeout
  <2> QED  BY <1>4, <1>11, <2>1, ThreadStep DEF Timeout
<1> QED  BY <1>6, <1>7, <1>8, <1>9, <1>10, <1>11

\* begin() finds an intent or makes one.
LEMMA BeginStep ==
  ASSUME IInv, Next, NEW c \in Caller, Begin(c)
  PROVE  Kept'
<1> USE DEF Section, Early
<1>1. task \in [Caller -> Task] /\ TypeOK
  BY DEF IInv, TypeOK
<1>2. task[c].pc \notin Section /\ jobs' = jobs
  BY DEF Begin, Rest
<1>3. ASSUME NEW i \in Intent, Resume(c, i) PROVE Kept'
  <2>1. \A j \in Intent : Keeps(j)
    BY <1>3 DEF Resume, Keeps, Same, SameStatus
  <2>2. /\ \A e \in Caller : e # c => task'[e] = task[e]
        /\ task'[c].pc \in {"look", "prior", "claim", "idle"}
        /\ task'[c].pc # "idle" => task'[c].intent = i
    BY <1>1, <1>3 DEF Resume, Leave, Task, Idle
  <2> QED  BY <1>2, <2>1, <2>2, ThreadStep DEF Begin, Rest
<1>4. ASSUME NEW i \in Intent, intents[i].where = "nowhere", Create(c, i),
             Key[c] # NoSource => OfSource(Key[c]) = 0
      PROVE  Kept'
  <2> DEFINE r == [Unborn EXCEPT !.where = "journal", !.source = Key[c]]
  <2>1. /\ intents' = [intents EXCEPT ![i] = r]
        /\ \A e \in Caller : e # c => task'[e] = task[e]
        /\ task'[c].pc = "claim" /\ task'[c].intent = i
    BY <1>1, <1>4 DEF Create, Task
  <2>2. /\ r.where = "journal" /\ r.source = Key[c] /\ r.status = "PREPARING" /\ ~r.token
        /\ r.fence = 0 /\ r.wrote = 0
    BY DEF Unborn
  <2> HIDE DEF r
  <2>3. intents'[i] = r /\ \A j \in Intent : j # i => intents'[j] = intents[j]
    BY <1>1, <2>1 DEF TypeOK
  <2>4. Calm /\ Sent /\ unheard' = unheard
    BY <1>2, <2>1, EarlyInSection, JobsKept DEF Calm, Sent, IInv, Begin, Rest
  <2>5. Shaped'
    BY <2>1, ShapedStep DEF Begin, Rest
  <2>6. Written'
    BY <2>2, <2>3 DEF IInv, Written
  <2>7. SourceHasOneIntent'
    <3>1. ASSUME NEW j \in Intent, j # i PROVE intents[j].source # Key[c] \/ Key[c] = NoSource
      BY <1>1, <1>4, LatestNone, IntentFields DEF IInv, Written, Unborn
    <3> QED  BY <2>2, <2>3, <3>1 DEF IInv, SourceHasOneIntent
  <2>8. ASSUME NEW k, Granted(k) PROVE Granted(k)'
    BY <1>4, <2>3, <2>8 DEF Granted, InJournal
  <2>9. Fenced'
    BY <2>4, <2>8, FencedStep DEF IInv
  <2>10. ASSUME NEW j \in Intent PROVE SettledOne(j)'
    <3>1. SameStatus(j) \/ intents'[j].wrote = 0
      BY <2>2, <2>3 DEF SameStatus
    <3> QED  BY <1>1, <2>4, <3>1, SettledStep DEF IInv, Settled
  <2>11. ASSUME NEW j \in Intent PROVE AttendedOne(j)'
    <3>1. CASE j = i
      BY <2>2, <2>3, <3>1 DEF AttendedOne
    <3>2. CASE j # i
      <4>1. Same(j)
        BY <2>3, <3>2 DEF Same
      <4>2. \A e \in Caller : \A k : k = <<j, intents[j].fence>> /\ Holds(e, k) => Holds(e, k)'
        BY <1>2, <2>1 DEF Holds, MyClaim
      <4> QED  BY <4>1, <4>2, AttendedStep DEF IInv, Attended
    <3> QED  BY <3>1, <3>2
  <2>12. Recorded'
    <3>1. \A j \in Intent : j # i => Same(j)
      BY <2>3 DEF Same
    <3>2. \A k \in Claim : Granted(k) /\ Spent(k)' =>
            Spent(k) /\ intents'[k[1]].dispatch = intents[k[1]].dispatch
      BY <1>4, <3>1, SpentStays DEF Granted, Claim
    <3>3. NamedRight /\ flying' = flying
      BY <2>1 DEF NamedRight, Begin, Rest
    <3> QED  BY <1>1, <2>4, <3>2, <3>3, RecordedStep DEF IInv, Sent
  <2> QED  BY <2>5, <2>6, <2>7, <2>9, <2>10, <2>11, <2>12 DEF Kept, Settled, Attended
<1>5. \A s : OfSource(s) # 0 => OfSource(s) \in Intent
  BY LatestType
<1>6. ActiveOne # 0 => ActiveOne \in Intent
  BY LatestType
<1>7. ASSUME NEW new \in SUBSET Intent, new # {}
      PROVE  (CHOOSE i \in new : \A k \in new : i <= k) \in new
  <2>1. new \in SUBSET Nat
    BY DEF Intent
  <2>2. \E i \in new : \A k \in new : i <= k
    BY <1>7, <2>1, Least
  <2> QED  BY <2>2
<1> DEFINE new == {i \in Intent : intents[i].where = "nowhere"}
           keyed == IF Key[c] = NoSource THEN 0 ELSE OfSource(Key[c])
           first == CHOOSE i \in new : \A k \in new : i <= k
<1>8. \/ keyed # 0 /\ Resume(c, keyed)
      \/ ActiveOne # 0 /\ Resume(c, ActiveOne)
      \/ keyed = 0 /\ new # {} /\ Create(c, first)
  BY DEF Begin
<1>9. new \in SUBSET Intent /\ \A i \in new : intents[i].where = "nowhere"
  OBVIOUS
<1>10. /\ keyed # 0 => keyed \in Intent
       /\ keyed = 0 => (Key[c] # NoSource => OfSource(Key[c]) = 0)
  BY <1>5
<1> HIDE DEF new, keyed
<1>11. new # {} => first \in new
  BY <1>7, <1>9
<1> HIDE DEF first
<1> QED  BY <1>3, <1>4, <1>6, <1>8, <1>9, <1>10, <1>11

-----------------------------------------------------------------------------
(* The claimed section. *)

\* A new claim has a number that no claim of the intent had, so nothing of it is under way.
LEMMA TakeClaimStep ==
  ASSUME IInv, TypeOK', Next, NEW c \in Caller, TakeClaim(c)
  PROVE  Kept'
<1> USE DEF Section, Early
<1> DEFINE i == task[c].intent
<1>1. task \in [Caller -> Task] /\ TypeOK /\ i \in Intent /\ task[c].pc = "claim"
  BY DEF IInv, TypeOK, Shaped, TakeClaim
<1>2. UNCHANGED Rest
  BY DEF TakeClaim
<1>3. CASE ~InJournal(i) \/ Refuses(i)
  <2>1. intents' = intents /\ task'[c].pc = "idle" /\ \A e \in Caller : e # c => task'[e] = task[e]
    BY <1>1, <1>3 DEF TakeClaim, Leave, Idle
  <2>2. \A j \in Intent : Keeps(j)
    BY <2>1 DEF Keeps, Same, SameStatus
  <2> QED  BY <1>1, <1>2, <2>1, <2>2, ThreadStep DEF Rest
<1>4. CASE InJournal(i) /\ ~Refuses(i)
  <2> DEFINE k == <<i, intents[i].fence + 1>>
  <2>1. /\ intents' = Claimed(c, i)
        /\ task' = [task EXCEPT ![c].pc = "claimed", ![c].fence = intents[i].fence + 1,
                                ![c].dispatch = 0, ![c].again = "no"]
    BY <1>4 DEF TakeClaim
  <2>2. /\ \A j \in Intent : j # i => intents'[j] = intents[j]
        /\ intents'[i].where = intents[i].where /\ intents'[i].source = intents[i].source
        /\ intents'[i].token /\ intents'[i].fence = intents[i].fence + 1
        /\ intents'[i].wrote = intents[i].fence + 1 /\ intents'[i].owner = Home[c]
        /\ intents'[i].status = "PREPARING"
    BY <1>1, <2>1 DEF Claimed, TypeOK, IntentRecord
  <2>3. /\ \A e \in Caller : e # c => task'[e] = task[e]
        /\ task'[c].pc = "claimed" /\ task'[c].intent = i /\ task'[c].fence = intents[i].fence + 1
    BY <1>1, <2>1 DEF Task
  <2>4. intents[i].fence \in Nat /\ intents[i].fence + 1 \in 1 .. MaxFence
    BY <1>1, <2>2, IntentFields, Constants DEF TypeOK, IntentRecord
  <2>5. ASSUME NEW f, Granted(f) PROVE Granted(f)' /\ f # k
    BY <1>4, <2>2, <2>4, <2>5 DEF Granted, InJournal
  <2>6. Granted(k) = FALSE
    BY <2>5
  <2>7. /\ \A e \in Caller : MyClaim(e)' = IF e = c THEN k ELSE MyClaim(e)
        /\ \A e \in Caller : e # c => (Holds(e, k) => FALSE)
    BY <2>3, <2>6 DEF MyClaim, Holds, IInv, Fenced
  <2>8. Unsent(k)
    BY <2>4, <2>6 DEF IInv, Fenced, Unsent, NoClaim
  <2>9. Shaped'
    BY <1>2, <2>3, ShapedStep DEF Rest
  <2>10. Written'
    <3>1. intents'[i].where = "journal"
      BY <1>4, <2>2 DEF InJournal
    <3> QED  BY <2>2, <3>1 DEF IInv, Written
  <2>11. SourceHasOneIntent'
    BY <2>2 DEF IInv, SourceHasOneIntent
  <2>12. Fenced'
    <3>1. ASSUME NEW e \in Caller, task'[e].pc \in Section PROVE Granted(MyClaim(e))'
      <4>1. CASE e = c
        BY <1>1, <1>4, <2>2, <2>3, <2>4, <4>1 DEF Granted, MyClaim, InJournal
      <4>2. CASE e # c
        <5>1. PICK f : f = MyClaim(e)
          OBVIOUS
        <5>2. Granted(f)' /\ MyClaim(e)' = f
          BY <2>3, <2>5, <2>7, <3>1, <4>2, <5>1 DEF IInv, Fenced
        <5> QED  BY <5>2 DEF Granted
      <4> QED  BY <4>1, <4>2
    <3>2. ASSUME NEW f \in flying' PROVE Granted(f)'
      BY <1>2, <2>5 DEF Rest, IInv, Fenced
    <3>3. ASSUME NEW d \in Dispatch, jobs'[d].by # NoClaim PROVE Granted(jobs[d].by)'
      <4>1. PICK f : f = jobs[d].by
        OBVIOUS
      <4>2. Granted(f)'
        BY <1>2, <2>5, <3>3, <4>1 DEF Rest, IInv, Fenced
      <4> QED  BY <1>2, <4>1, <4>2 DEF Granted, Rest
    <3>4. ASSUME NEW a \in Caller, NEW b \in Caller, task'[a].pc \in Section, task'[b].pc \in Section,
                 MyClaim(a)' = MyClaim(b)'
          PROVE  a = b
      <4> HIDE DEF k
      <4> QED  BY <2>3, <2>7, <3>4 DEF IInv, Fenced, Holds
    <3>5. ASSUME NEW e \in Caller, task'[e].pc \in Early PROVE Unsent(MyClaim(e))'
      <4>1. Unsent(MyClaim(e)')
        BY <2>3, <2>7, <2>8, <3>5 DEF IInv, Fenced
      <4> QED  BY <1>2, <4>1 DEF Unsent, Rest
    <3> QED  BY <3>1, <3>2, <3>3, <3>4, <3>5 DEF Fenced
  <2>13. ASSUME NEW j \in Intent PROVE SettledOne(j)'
    <3>1. CASE j = i
      BY <2>2, <3>1 DEF SettledOne
    <3>2. CASE j # i
      <4>1. \A e \in Caller : \A f : f = <<j, intents[j].wrote>> /\ Holds(e, f)' => Holds(e, f)
        BY <2>3, <3>2 DEF Holds, MyClaim
      <4>2. intents'[j] = intents[j]
        BY <2>2, <3>2
      <4> QED  BY <1>2, <4>1, <4>2 DEF IInv, Settled, SettledOne, Holds, MyClaim, Unsent, Rest
    <3> QED  BY <3>1, <3>2
  <2>14. ASSUME NEW j \in Intent PROVE AttendedOne(j)'
    <3>1. CASE j = i
      BY <2>2, <2>3, <3>1 DEF AttendedOne, Holds, MyClaim
    <3>2. CASE j # i
      <4>1. Same(j)
        BY <2>2, <3>2 DEF Same
      <4>2. \A e \in Caller : \A f : f = <<j, intents[j].fence>> /\ Holds(e, f) => Holds(e, f)'
        BY <1>1, <2>3, <3>2 DEF Holds, MyClaim
      <4> QED  BY <4>1, <4>2, AttendedStep DEF IInv, Attended
    <3> QED  BY <3>1, <3>2
  <2>15. Recorded'
    <3> PICK g : g = k
      OBVIOUS
    <3>1. g \in Claim /\ ~Spent(g)'
      <4>1. g[1] = i /\ g[2] = intents[i].fence + 1
        OBVIOUS
      <4>2. intents'[i].token
        BY <2>2
      <4> QED  BY <1>1, <2>4, <4>1, <4>2 DEF Claim, Spent
    <3>2. ASSUME NEW f \in Claim, f # g, Spent(f)'
          PROVE  Spent(f) /\ intents'[f[1]].dispatch = intents[f[1]].dispatch
      <4>1. f[1] # i
        BY <2>2, <3>2 DEF Spent, Claim
      <4> QED  BY <2>2, <3>2, <4>1 DEF Spent, InJournal, Claim
    <3>3. ASSUME NEW e \in Caller, task'[e].pc \in Section PROVE ~Spent(MyClaim(e))'
      <4>1. PICK f : f = MyClaim(e)
        OBVIOUS
      <4>2. CASE e = c
        <5>1. MyClaim(e)' = g
          BY <2>7, <4>2
        <5> QED  BY <3>1, <5>1 DEF Spent, InJournal
      <4>3. CASE e # c
        <5>1. task[e].pc \in Section
          BY <2>3, <3>3, <4>3
        <5>2. f \in Claim /\ ~Spent(f) /\ Granted(f)
          BY <4>1, <5>1, ClaimType DEF IInv, Fenced, Recorded
        <5>3. MyClaim(e)' = f
          BY <2>7, <4>1, <4>3
        <5>4. f # g
          BY <2>5, <5>2
        <5>5. ~Spent(f)'
          BY <3>2, <5>2, <5>4
        <5> QED  BY <5>3, <5>5 DEF Spent, InJournal
      <4> QED  BY <4>2, <4>3
    <3>4. ASSUME NEW f \in Claim, f \notin unheard' PROVE RecordedOne(f)'
      <4>1. unheard' = unheard /\ flying' = flying /\ jobs' = jobs
        BY <1>2 DEF Rest
      <4>2. RecordedOne(f)
        BY <3>4, <4>1 DEF IInv, Recorded
      <4>3. Spent(f)' => Spent(f) /\ intents'[f[1]].dispatch = intents[f[1]].dispatch
        BY <3>1, <3>2
      <4>4. \A e \in Caller : Holds(e, f)' /\ task'[e].pc = "named" =>
              Holds(e, f) /\ task'[e] = task[e] /\ task[e].pc = "named"
        BY <2>3 DEF Holds, MyClaim
      <4> QED  BY <4>1, <4>2, <4>3, <4>4 DEF RecordedOne, Served
    <3> QED  BY <3>3, <3>4 DEF Recorded
  <2> QED  BY <2>9, <2>10, <2>11, <2>12, <2>13, <2>14, <2>15 DEF Kept, Settled, Attended
<1> QED  BY <1>3, <1>4

\* A thread that still has its claim goes on in the section, and may send it.
LEMMA WriteStep ==
  ASSUME IInv, Next, NEW c \in Caller, task[c].pc \in Section, MayWrite(c),
         NEW status \in {"PACKING", "SUBMITTING"}, NEW pc \in {"packing", "posted"},
         Write(c, status, pc), pc \in Early => task[c].pc \in Early /\ flying' = flying,
         flying' \in {flying, flying \cup {MyClaim(c)}},
         UNCHANGED <<jobs, glance, command, unheard>>
  PROVE  Kept'
<1> DEFINE i == task[c].intent
<1>1. task \in [Caller -> Task] /\ TypeOK /\ pc \in Pc
  BY DEF IInv, TypeOK, Pc, Section
<1>2. intents' = Put(i, status, task[c].fence) /\ Goto(c, pc)
  BY DEF Write
<1>3. /\ i \in Intent /\ \A j \in Intent : Same(j) /\ (j # i => SameStatus(j))
      /\ intents'[i].status = status /\ (SameStatus(i) \/ intents'[i].wrote = task[c].fence)
  BY <1>1, <1>2, WriteIs, States
<1>4. /\ \A e \in Caller : e # c => task'[e] = task[e]
      /\ task'[c].pc = pc /\ task'[c].intent = i /\ task'[c].fence = task[c].fence
  BY <1>1, <1>2 DEF Goto, Task
<1>5. Calm /\ Stay
  BY <1>4, EarlyInSection DEF Calm, Stay, Section
<1>6. Sent
  BY <1>4 DEF Sent, Holds, Early
<1>7. InJournal(i) /\ intents[i].fence = task[c].fence
  BY DEF MayWrite
<1>8. Shaped'
  BY <1>4, ShapedStep DEF Section
<1>9. Written'
  <2>1. ASSUME NEW j \in Intent
        PROVE  /\ intents'[j].where = "nowhere" => intents'[j] = Unborn
               /\ intents'[j].where = "dropped" => intents'[j].source = NoSource
               /\ intents'[j].where # "journal" => intents'[j].wrote = 0
               /\ intents'[j].wrote \in {0, intents'[j].fence}
    <3>1. CASE j = i
      BY <1>3, <1>7, <3>1 DEF Same, SameStatus, InJournal, IInv, Written
    <3>2. CASE j # i
      <4>1. intents'[j] = intents[j]
        BY <1>1, <1>2, <1>3, <3>2 DEF Put, TypeOK
      <4> QED  BY <4>1 DEF IInv, Written
    <3> QED  BY <3>1, <3>2
  <2> QED  BY <2>1 DEF Written
<1>10. SourceHasOneIntent'
  BY <1>3 DEF Same, IInv, SourceHasOneIntent
<1>11. Fenced'
  BY <1>1, <1>3, <1>5, <1>6, GrantedStays, FencedStep DEF IInv
<1>12. ASSUME NEW j \in Intent PROVE SettledOne(j)'
  <2>1. CASE j = i
    BY <1>3, <2>1 DEF SettledOne
  <2>2. CASE j # i
    BY <1>1, <1>3, <1>5, <1>6, <2>2, SettledStep DEF IInv, Settled
  <2> QED  BY <2>1, <2>2
<1>13. ASSUME NEW j \in Intent PROVE AttendedOne(j)'
  <2>1. \A e \in Caller : \A k : k = <<j, intents[j].fence>> /\ Holds(e, k) => Holds(e, k)'
    BY <1>5 DEF Stay, Holds, MyClaim
  <2> QED  BY <1>3, <2>1, AttendedStep DEF IInv, Attended
<1>14. Recorded'
  <2>1. \A k \in Claim : Spent(k)' => Spent(k) /\ intents'[k[1]].dispatch = intents[k[1]].dispatch
    BY <1>3, SpentStays DEF Claim
  <2>2. NamedRight
    BY <1>4 DEF NamedRight
  <2>3. \A k \in flying' : k \in flying \/ \E e \in Caller : Holds(e, k) /\ task'[e].pc # "named"
    BY <1>4 DEF Holds
  <2> QED  BY <1>1, <1>5, <2>1, <2>2, <2>3, RecordedStep DEF IInv
<1> QED  BY <1>8, <1>9, <1>10, <1>11, <1>12, <1>13, <1>14 DEF Kept, Settled, Attended

\* A thread ends its claim: nothing is cancelled that was sent, and nothing is called
\* failed that was sent unless the Bridge is known to have been silent.
LEMMA EndStep ==
  ASSUME IInv, Next, NEW c \in Caller, task[c].pc \in Section,
         NEW status \in {"CANCELLED", "FAILED", "QUEUED"}, NEW d \in 0 .. MaxDispatches,
         WriteLast(c, status, d), unheard \subseteq unheard', UNCHANGED <<jobs, flying, glance, command>>,
         status = "CANCELLED" => Unsent(MyClaim(c)),
         status = "FAILED" => MyClaim(c) \in unheard' \/ Unsent(MyClaim(c)),
         status = "QUEUED" => MyClaim(c) \in unheard' \/ Served(MyClaim(c), d)
  PROVE  Kept'
<1> DEFINE i == task[c].intent
<1>1. task \in [Caller -> Task] /\ TypeOK /\ status \in IntentState
  BY States DEF IInv, TypeOK
<1>2. task'[c].pc = "idle" /\ \A e \in Caller : e # c => task'[e] = task[e]
  BY <1>1 DEF WriteLast, Leave, Idle
<1>3. /\ ~MayWrite(c) => intents' = intents
      /\ \A j \in Intent : j # i => intents'[j] = intents[j]
      /\ MayWrite(c) =>
           /\ i \in Intent
           /\ intents'[i].where = intents[i].where /\ intents'[i].source = intents[i].source
           /\ intents'[i].fence = intents[i].fence /\ ~intents'[i].token
           /\ intents'[i].dispatch \in {intents[i].dispatch, d}
           /\ d # 0 => intents'[i].dispatch = d
           /\ intents'[i].status = status /\ (SameStatus(i) \/ intents'[i].wrote = task[c].fence)
  BY <1>1, WriteLastIs
<1>4. MayWrite(c) => InJournal(i) /\ intents[i].fence = task[c].fence
  BY DEF MayWrite
<1>5. Calm /\ Sent
  BY <1>2, EarlyInSection DEF Calm, Sent, Section
<1>6. Shaped'
  BY <1>2, ShapedStep
<1>7. Written'
  <2>1. ASSUME NEW j \in Intent
        PROVE  /\ intents'[j].where = "nowhere" => intents'[j] = Unborn
               /\ intents'[j].where = "dropped" => intents'[j].source = NoSource
               /\ intents'[j].where # "journal" => intents'[j].wrote = 0
               /\ intents'[j].wrote \in {0, intents'[j].fence}
    <3>1. CASE j = i /\ MayWrite(c)
      BY <1>3, <1>4, <3>1 DEF SameStatus, InJournal, IInv, Written
    <3>2. CASE j # i \/ ~MayWrite(c)
      <4>1. intents'[j] = intents[j]
        BY <1>3, <3>2
      <4> QED  BY <4>1 DEF IInv, Written
    <3> QED  BY <3>1, <3>2
  <2> QED  BY <2>1 DEF Written
<1>8. SourceHasOneIntent'
  <2>1. \A j \in Intent : intents'[j].source = intents[j].source
    BY <1>3
  <2> QED  BY <2>1 DEF IInv, SourceHasOneIntent
<1>9. Fenced'
  <2>1. ASSUME NEW k, Granted(k) PROVE Granted(k)'
    <3>1. \A j \in Intent : intents'[j].where = intents[j].where /\ intents'[j].fence = intents[j].fence
      BY <1>3
    <3> QED  BY <2>1, <3>1 DEF Granted, InJournal
  <2> QED  BY <1>5, <2>1, FencedStep DEF IInv
<1>10. ASSUME NEW j \in Intent PROVE SettledOne(j)'
  <2>1. CASE SameStatus(j) \/ intents'[j].wrote = 0
    BY <1>1, <1>5, <2>1, SettledStep DEF IInv, Settled
  <2>2. CASE ~SameStatus(j) /\ intents'[j].wrote # 0
    <3>1. j = i /\ MayWrite(c) /\ intents'[j].wrote = task[c].fence /\ intents'[j].status = status
      BY <1>3, <2>2 DEF SameStatus
    <3>2. PICK k : k = MyClaim(c)
      OBVIOUS
    <3>3. k = <<j, intents'[j].wrote>>
      BY <3>1, <3>2 DEF MyClaim
    <3>4. \A e \in Caller : ~Holds(e, k)'
      BY <1>2, <3>2 DEF Holds, MyClaim, IInv, Fenced, Section
    <3>5. Unsent(k) => Unsent(k)'
      BY DEF Unsent
    <3>6. /\ status = "CANCELLED" => Unsent(k)'
          /\ status = "FAILED" => k \in unheard' \/ Unsent(k)'
      BY <3>2, <3>5
    <3> QED  BY <3>1, <3>3, <3>4, <3>6 DEF SettledOne, Holds, MyClaim, Unsent
  <2> QED  BY <2>1, <2>2
<1>11. ASSUME NEW j \in Intent PROVE AttendedOne(j)'
  <2>1. CASE j = i /\ MayWrite(c)
    BY <1>3, <2>1 DEF AttendedOne
  <2>2. CASE j # i \/ ~MayWrite(c)
    <3>1. intents'[j] = intents[j]
      BY <1>3, <2>2
    <3>2. CASE ~InJournal(j)
      BY <3>1, <3>2 DEF AttendedOne, InJournal
    <3>3. CASE InJournal(j)
      <4>1. \A e \in Caller : \A k : k = <<j, intents[j].fence>> /\ Holds(e, k) => Holds(e, k)'
        BY <1>2, <2>2, <3>3 DEF Holds, MyClaim, MayWrite
      <4> QED  BY <3>1, <4>1, AttendedStep DEF IInv, Attended, Same
    <3> QED  BY <3>2, <3>3
  <2> QED  BY <2>1, <2>2
<1>12. Recorded'
  <2>1. PICK k : k = MyClaim(c)
    OBVIOUS
  <2>2. Holds(c, k) /\ \A e \in Caller : Holds(e, k) => e = c
    BY <2>1 DEF Holds, IInv, Fenced
  <2>3. ASSUME NEW f \in Claim, Spent(f)', f # k
        PROVE  Spent(f) /\ intents'[f[1]].dispatch = intents[f[1]].dispatch
    <3>1. f[1] # i \/ ~MayWrite(c)
      BY <1>3, <1>4, <2>1, <2>3 DEF Spent, Claim, MyClaim
    <3> QED  BY <1>3, <2>3, <3>1 DEF Spent, InJournal, Claim
  <2>4. ASSUME NEW e \in Caller, task'[e].pc \in Section PROVE ~Spent(MyClaim(e))'
    <3>1. PICK f : f = MyClaim(e)
      OBVIOUS
    <3>2. e # c /\ task[e].pc \in Section /\ MyClaim(e)' = f
      BY <1>2, <2>4, <3>1 DEF MyClaim, Section
    <3>3. f \in Claim /\ ~Spent(f) /\ f # k
      BY <2>2, <3>1, <3>2, ClaimType DEF IInv, Recorded, Holds
    <3>4. ~Spent(f)'
      BY <2>3, <3>3
    <3> QED  BY <3>2, <3>4 DEF Spent, InJournal
  <2>5. ASSUME NEW f \in Claim, f \notin unheard' PROVE RecordedOne(f)'
    <3>1. RecordedOne(f)
      BY <2>5 DEF IInv, Recorded
    <3>2. \A e \in Caller : Holds(e, f)' => Holds(e, f) /\ task'[e] = task[e]
      BY <1>2 DEF Holds, MyClaim, Section
    <3>3. ASSUME Spent(f)' PROVE Served(f, intents'[f[1]].dispatch)
      <4>1. CASE Spent(f) /\ intents'[f[1]].dispatch = intents[f[1]].dispatch
        BY <3>1, <4>1 DEF RecordedOne
      <4>2. CASE ~(Spent(f) /\ intents'[f[1]].dispatch = intents[f[1]].dispatch)
        <5>1. f = k
          BY <2>3, <3>3, <4>2
        <5>2. f[1] = i /\ f[2] = task[c].fence
          BY <2>1, <5>1 DEF MyClaim
        <5>3. ~Spent(k)
          BY <2>1 DEF IInv, Recorded
        <5>4. MayWrite(c)
          BY <1>3, <3>3, <5>1, <5>3 DEF Spent, InJournal
        <5>5. Unsent(k) \/ Served(k, d)
          BY <2>1, <2>5, <5>1
        <5>6. Served(k, intents'[i].dispatch)
          <6>1. CASE Unsent(k)
            BY <6>1 DEF Unsent, Served
          <6>2. CASE Served(k, d) /\ d # 0
            BY <1>3, <5>4, <6>2
          <6>3. CASE Served(k, d) /\ d = 0
            BY <6>3 DEF Served, Dispatch
          <6> QED  BY <5>5, <6>1, <6>2, <6>3
        <5> QED  BY <5>1, <5>2, <5>6
      <4> QED  BY <4>1, <4>2
    <3> QED  BY <3>1, <3>2, <3>3 DEF RecordedOne, Served
  <2> QED  BY <2>4, <2>5 DEF Recorded
<1> QED  BY <1>6, <1>7, <1>8, <1>9, <1>10, <1>11, <1>12 DEF Kept, Settled, Attended

LEMMA SectionStep ==
  ASSUME IInv, Next, NEW c \in Caller, Pack(c) \/ Post(c) \/ Withdraw(c) \/ Adopt(c) \/ Queue(c)
  PROVE  Kept'
<1>1. 0 \in 0 .. MaxDispatches
  BY Constants
<1>2. task[c].pc \in Early => task[c].pc \in Section /\ Unsent(MyClaim(c))
  BY EarlyInSection DEF IInv, Fenced
<1>3. ASSUME task[c].pc \in Early, SettledByClose(c) \/ Fail(c), UNCHANGED Rest PROVE Kept'
  <2>1. CASE SettledByClose(c)
    BY <1>1, <1>2, <1>3, <2>1, EndStep DEF SettledByClose, Rest
  <2>2. CASE Fail(c)
    BY <1>1, <1>2, <1>3, <2>2, EndStep DEF Fail, Rest
  <2> QED  BY <1>3, <2>1, <2>2
<1>4. ASSUME task[c].pc \in Early, ~MayWrite(c), Leave(c), UNCHANGED <<intents, Rest>> PROVE Kept'
  <2>1. Fail(c)
    BY <1>4 DEF Fail, WriteLast
  <2> QED  BY <1>3, <1>4, <2>1
<1>5. CASE Pack(c)
  <2>1. task[c].pc = "claimed" /\ UNCHANGED Rest
    BY <1>5 DEF Pack
  <2>2. CASE SettledByClose(c) \/ Fail(c)
    BY <1>3, <2>1, <2>2 DEF Early
  <2>3. CASE Write(c, "PACKING", "packing") /\ MayWrite(c)
    <3>1. UNCHANGED <<jobs, glance, command, unheard>> /\ flying' = flying
      BY <2>1 DEF Rest
    <3> QED  BY <1>2, <2>1, <2>3, <3>1, WriteStep DEF Early, Section
  <2>4. CASE Write(c, "PACKING", "packing") /\ ~MayWrite(c)
    <3>1. Leave(c) /\ intents' = intents
      BY <2>4 DEF Write
    <3> QED  BY <1>4, <2>1, <2>4, <3>1 DEF Early
  <2> QED  BY <1>5, <2>2, <2>3, <2>4 DEF Pack
<1>6. CASE Post(c)
  <2>1. /\ task[c].pc = "packing" /\ Write(c, "SUBMITTING", "posted")
        /\ UNCHANGED <<jobs, glance, command, closing, unheard, events, faults>>
        /\ flying' = IF MayWrite(c) THEN flying \cup {MyClaim(c)} ELSE flying
    BY <1>6 DEF Post
  <2>2. CASE MayWrite(c)
    BY <1>2, <2>1, <2>2, WriteStep DEF Early, Section
  <2>3. CASE ~MayWrite(c)
    <3>1. Leave(c) /\ UNCHANGED <<intents, Rest>>
      BY <2>1, <2>3 DEF Write, Rest
    <3> QED  BY <1>4, <2>1, <2>3, <3>1 DEF Early
  <2> QED  BY <2>2, <2>3
<1>7. CASE Withdraw(c)
  BY <1>3, <1>7 DEF Withdraw, Early
<1>8. CASE Adopt(c)
  <2>1. task[c].pc = "adopting" /\ UNCHANGED <<jobs, flying, glance, command, closing, events>>
    BY <1>8 DEF Adopt
  <2>2. CASE /\ OpenJob # 0 /\ UNCHANGED <<intents, faults>>
             /\ unheard' = unheard \cup ({MyClaim(c)} \cap flying)
             /\ task' = [task EXCEPT ![c].pc = "named", ![c].dispatch = OpenJob]
    <3>1. /\ task'[c].pc = "named" /\ task'[c].intent = task[c].intent /\ task'[c].fence = task[c].fence
          /\ task'[c].dispatch = OpenJob
          /\ \A e \in Caller : e # c => task'[e] = task[e]
      BY <2>2 DEF IInv, TypeOK, Task
    <3>2. \A j \in Intent : Keeps(j)
      BY <2>2 DEF Keeps, Same, SameStatus
    <3>3. MyClaim(c) # NoClaim
      BY <2>1, GrantedIsClaim DEF IInv, Fenced, Section
    <3>4. OpenJob \in Dispatch /\ Open(OpenJob)
      BY <2>2, LatestType
    <3>5. \A e \in Dispatch : jobs[e].by = MyClaim(c) => e = OpenJob
      BY <3>3, <3>4 DEF IInv, Lawful, LawfulOne, OneOpen
    <3>6. unheard \subseteq unheard' /\ (MyClaim(c) \in unheard' \/ MyClaim(c) \notin flying)
      BY <2>2
    <3> QED  BY <2>1, <2>2, <3>1, <3>2, <3>5, <3>6, ThreadStep DEF Section, Early
  <2>3. CASE OpenJob = 0 /\ Fail(c) /\ unheard' = unheard \cup ({MyClaim(c)} \cap flying)
    <3>1. \A d \in Dispatch : jobs[d].by = NoClaim
      BY <2>3, LatestNone DEF IInv, Lawful, LawfulOne
    <3>2. MyClaim(c) # NoClaim
      BY <2>1, GrantedIsClaim DEF IInv, Fenced, Section
    <3>3. MyClaim(c) \in unheard' \/ Unsent(MyClaim(c))
      BY <2>3, <3>1, <3>2 DEF Unsent
    <3> QED  BY <1>1, <2>1, <2>3, <3>3, EndStep DEF Fail, Section
  <2>4. CASE Fail(c) /\ unheard' = unheard \cup {MyClaim(c)}
    BY <1>1, <2>1, <2>4, EndStep DEF Fail, Section
  <2> QED  BY <1>8, <2>2, <2>3, <2>4 DEF Adopt
<1>9. CASE Queue(c)
  <2>1. task[c].pc = "named" /\ WriteLast(c, "QUEUED", task[c].dispatch) /\ UNCHANGED Rest
    BY <1>9 DEF Queue
  <2>2. MyClaim(c) \in Claim /\ Holds(c, MyClaim(c))
    BY <2>1, ClaimType DEF IInv, Holds, Section
  <2>3. MyClaim(c) \in unheard \/ Served(MyClaim(c), task[c].dispatch)
    BY <2>1, <2>2 DEF IInv, Recorded, RecordedOne
  <2>4. task[c].dispatch \in 0 .. MaxDispatches
    BY TaskFields DEF IInv
  <2> QED  BY <2>1, <2>3, <2>4, EndStep DEF Rest, Section
<1> QED  BY <1>5, <1>6, <1>7, <1>8, <1>9

-----------------------------------------------------------------------------
(* The Bridge, the operator, the board and the processes. *)

\* The thread whose request was served still waits for the answer, or is told.
LEMMA ServeStep ==
  ASSUME IInv, Next, NEW k \in Claim, Serve(k)
  PROVE  Kept'
<1>1. PICK d \in {0} \cup Dispatch, heard \in BOOLEAN :
        /\ task' = [c \in Caller |->
             IF task[c].pc = "posted" /\ MyClaim(c) = k
               THEN [task[c] EXCEPT !.pc = IF d # 0 /\ heard THEN "named" ELSE "adopting",
                                    !.dispatch = IF heard THEN d ELSE 0]
               ELSE task[c]]
        /\ d # 0 => jobs' = [jobs EXCEPT ![d].state = "waiting", ![d].by = k]
  BY DEF Serve
<1>2. ASSUME NEW c \in Caller
      PROVE  \/ task'[c] = task[c]
             \/ /\ task[c].pc = "posted" /\ task'[c].pc \in {"named", "adopting"}
                /\ task'[c].intent = task[c].intent /\ task'[c].fence = task[c].fence
                /\ task'[c].pc = "named" => MyClaim(c) = k /\ d # 0 /\ task'[c].dispatch = d
  <2>1. task[c] \in Task
    BY DEF IInv, TypeOK
  <2>2. CASE task[c].pc = "posted" /\ MyClaim(c) = k
    <3>1. task'[c] = [task[c] EXCEPT !.pc = IF d # 0 /\ heard THEN "named" ELSE "adopting",
                                     !.dispatch = IF heard THEN d ELSE 0]
      BY <1>1, <2>2
    <3>2. CASE d # 0 /\ heard
      <4>1. task'[c] = [task[c] EXCEPT !.pc = "named", !.dispatch = d]
        BY <3>1, <3>2
      <4> QED  BY <2>1, <2>2, <3>2, <4>1 DEF Task
    <3>3. CASE ~(d # 0 /\ heard)
      <4>1. PICK n : n = IF heard THEN d ELSE 0
        OBVIOUS
      <4>2. task'[c] = [task[c] EXCEPT !.pc = "adopting", !.dispatch = n]
        BY <3>1, <3>3, <4>1
      <4> QED  BY <2>1, <2>2, <4>2 DEF Task
    <3> QED  BY <3>2, <3>3
  <2>3. CASE ~(task[c].pc = "posted" /\ MyClaim(c) = k)
    BY <1>1, <2>3
  <2> QED  BY <2>2, <2>3
<1>3. Calm /\ Stay
  BY <1>2 DEF Calm, Stay, Section, Early
<1>4. flying' \subseteq flying /\ UNCHANGED <<intents, glance, command, unheard>>
  BY DEF Serve
<1>5. Sent
  BY <1>4, JobsKept DEF Sent, IInv
<1>6. \A j \in Intent : Keeps(j)
  BY <1>4 DEF Keeps, Same, SameStatus
<1>7. Shaped'
  <2>1. \A d1 \in Dispatch : jobs[d1].state \in Ended => jobs'[d1].state \in Ended
    BY JobsKept DEF IInv
  <2>2. \A e \in Caller : task[e].dispatch # 0 => task[e].dispatch \in Dispatch
    BY TaskFields DEF IInv, Dispatch
  <2>3. ASSUME NEW e \in Caller
        PROVE  /\ task'[e].pc \in {"look", "prior", "cancelled", "over", "claim"} => task'[e].intent \in Intent
               /\ task'[e].pc = "over" => task'[e].dispatch # 0 /\ jobs'[task'[e].dispatch].state \in Ended
    BY <1>2, <2>1, <2>2 DEF IInv, Shaped
  <2> QED  BY <1>4, <2>3 DEF IInv, Shaped
<1>8. NamedRight
  <2>1. k \notin flying' /\ k # NoClaim
    <3>1. flying' = flying \ {k}
      BY DEF Serve
    <3>2. k[1] # 0
      BY DEF Claim, Intent
    <3> QED  BY <3>1, <3>2 DEF NoClaim
  <2>2. ASSUME d # 0 PROVE \A e \in Dispatch : jobs'[e].by = k => e = d
    <3>1. d \in Dispatch /\ jobs'[d].state = "waiting"
      <4>1. d \in Dispatch /\ jobs \in [Dispatch -> JobRecord]
        BY <2>2 DEF IInv, TypeOK
      <4>2. jobs' = [jobs EXCEPT ![d].state = "waiting", ![d].by = k]
        BY <1>1, <2>2
      <4>3. jobs[d] \in JobRecord
        BY <4>1
      <4>4. jobs'[d] = [jobs[d] EXCEPT !.state = "waiting", !.by = k]
        BY <4>1, <4>2, <4>3 DEF JobRecord
      <4> QED  BY <4>1, <4>3, <4>4 DEF JobRecord
    <3>2. Lawful'
      BY JobsKept DEF IInv
    <3> QED  BY <2>1, <3>1, <3>2 DEF Lawful, LawfulOne, OneOpen, Open, Ended
  <2> QED  BY <1>2, <2>1, <2>2 DEF NamedRight
<1> QED  BY <1>3, <1>4, <1>5, <1>6, <1>7, <1>8, CalmStep DEF Kept

\* No thread moves.
LEMMA StillStep ==
  ASSUME IInv, Next, UNCHANGED <<task, flying, unheard>>, \A j \in Intent : Keeps(j),
         glance' # Unread => glance'.state # "absent", command' # NoCommand => command'.status # "none"
  PROVE  Kept'
<1>1. Calm /\ Stay
  BY DEF Calm, Stay
<1>2. Sent
  BY JobsKept DEF Sent, IInv
<1>3. Shaped'
  <2>1. \A d \in Dispatch : jobs[d].state \in Ended => jobs'[d].state \in Ended
    BY JobsKept DEF IInv
  <2>2. \A e \in Caller : task[e].dispatch # 0 => task[e].dispatch \in Dispatch
    BY TaskFields DEF IInv, Dispatch
  <2> QED  BY <2>1, <2>2 DEF IInv, Shaped
<1>4. NamedRight
  BY DEF NamedRight
<1> QED  BY <1>1, <1>2, <1>3, <1>4, CalmStep DEF Kept

LEMMA AroundStep ==
  ASSUME IInv, Next,
         \/ \E d \in Dispatch : Advance(d) \/ Cancel(d) \/ Abandon(d) \/ Glance(d)
         \/ \E i \in Intent : Reset(i)
         \/ CarryOut \/ Reconcile \/ Close
  PROVE  Kept'
<1>1. intents' = intents => \A j \in Intent : Keeps(j)
  BY DEF Keeps, Same, SameStatus
<1>2. \A status, i, d : Commanded(status, i, d) => command'.status = status
  BY DEF Commanded
<1>3. /\ glance # Unread => glance.state # "absent"
      /\ command # NoCommand => command.status # "none"
  BY DEF IInv, Shaped
<1>4. ASSUME NEW d \in Dispatch, Advance(d) PROVE Kept'
  BY <1>1, <1>3, <1>4, StillStep DEF Advance
<1>5. ASSUME NEW d \in Dispatch, Cancel(d) PROVE Kept'
  BY <1>1, <1>2, <1>3, <1>5, StillStep DEF Cancel
<1>6. ASSUME NEW d \in Dispatch, Abandon(d) PROVE Kept'
  BY <1>1, <1>2, <1>3, <1>6, StillStep DEF Abandon
<1>7. ASSUME NEW d \in Dispatch, Glance(d) PROVE Kept'
  BY <1>1, <1>3, <1>7, StillStep DEF Glance
<1>8. ASSUME NEW i \in Intent, Reset(i) PROVE Kept'
  BY <1>1, <1>2, <1>3, <1>8, StillStep DEF Reset
<1>9. CASE CarryOut
  <2> DEFINE i == IF command.dispatch = 0 THEN command.intent ELSE OfDispatch(command.dispatch)
  <2>1. i \in 0 .. MaxIntents
    BY LatestType DEF IInv, TypeOK
  <2>2. command.status \in IntentState
    BY <1>9, States DEF CarryOut, IInv, Shaped, TypeOK
  <2>3. Set(i, command.status)
    BY <1>9 DEF CarryOut
  <2> HIDE DEF i
  <2>4. \A j \in Intent : Keeps(j)
    BY <2>1, <2>2, <2>3, SetIs DEF IInv
  <2> QED  BY <1>3, <1>9, <2>4, StillStep DEF CarryOut
<1>10. CASE Reconcile
  <2>1. Shown(glance.state) \in IntentState
    BY <1>10, States DEF Reconcile, IInv, Shaped, TypeOK
  <2>2. \A j \in Intent : Keeps(j)
    BY <1>10, <2>1, LatestType, SetIs DEF Reconcile, IInv
  <2> QED  BY <1>3, <1>10, <2>2, StillStep DEF Reconcile
<1>11. CASE Close
  BY <1>1, <1>3, <1>11, StillStep DEF Close
<1> QED  BY <1>4, <1>5, <1>6, <1>7, <1>8, <1>9, <1>10, <1>11

\* What leaves the journal takes its claims with it.
LEMMA ElsewhereStep ==
  ASSUME IInv, Next, NEW i \in Intent, Elsewhere(i)
  PROVE  Kept'
<1>1. /\ InJournal(i) /\ TypeOK
      /\ UNCHANGED <<jobs, task, flying, glance, command, closing, unheard, faults>>
  BY DEF Elsewhere, IInv
<1> DEFINE r == IF intents[i].source = NoSource THEN [Unborn EXCEPT !.where = "dropped"]
                ELSE [Unborn EXCEPT !.where = "tombstone", !.status = intents[i].status,
                        !.source = intents[i].source, !.dispatch = intents[i].dispatch]
<1>2. intents' = [intents EXCEPT ![i] = r]
  BY DEF Elsewhere
<1>3. /\ r.where \in {"dropped", "tombstone"} /\ r.wrote = 0 /\ ~r.token
      /\ r.source = intents[i].source /\ (r.where = "dropped" => r.source = NoSource)
  BY DEF Unborn
<1> HIDE DEF r
<1>4. intents'[i] = r /\ \A j \in Intent : j # i => intents'[j] = intents[j]
  BY <1>1, <1>2 DEF TypeOK
<1>5. Calm /\ Sent
  BY <1>1 DEF Calm, Sent
<1>6. Shaped'
  BY <1>1 DEF IInv, Shaped
<1>7. Written'
  BY <1>3, <1>4 DEF IInv, Written
<1>8. SourceHasOneIntent'
  BY <1>3, <1>4 DEF IInv, SourceHasOneIntent
<1>9. ASSUME NEW k, Granted(k) PROVE Granted(k)'
  BY <1>3, <1>4, <1>9 DEF Granted, InJournal
<1>10. Fenced'
  BY <1>5, <1>9, FencedStep DEF IInv
<1>11. ASSUME NEW j \in Intent PROVE SettledOne(j)'
  <2>1. SameStatus(j) \/ intents'[j].wrote = 0
    BY <1>3, <1>4 DEF SameStatus
  <2> QED  BY <1>1, <1>5, <2>1, SettledStep DEF IInv, Settled
<1>12. ASSUME NEW j \in Intent PROVE AttendedOne(j)'
  <2>1. CASE j = i
    BY <1>3, <1>4, <2>1 DEF AttendedOne, InJournal
  <2>2. CASE j # i
    <3>1. \A e \in Caller : \A k : k = <<j, intents[j].fence>> /\ Holds(e, k) => Holds(e, k)'
      BY <1>1 DEF Holds, MyClaim
    <3> QED  BY <1>4, <2>2, <3>1, AttendedStep DEF IInv, Attended, Same
  <2> QED  BY <2>1, <2>2
<1>13. Recorded'
  <2>1. \A j \in Intent : InJournal(j)' => Same(j)
    BY <1>3, <1>4 DEF InJournal, Same
  <2>2. \A k \in Claim : Spent(k)' => Spent(k) /\ intents'[k[1]].dispatch = intents[k[1]].dispatch
    BY <2>1, SpentStays DEF Claim
  <2>3. NamedRight
    BY <1>1 DEF NamedRight
  <2> QED  BY <1>1, <1>5, <2>2, <2>3, RecordedStep DEF IInv, Sent
<1> QED  BY <1>6, <1>7, <1>8, <1>10, <1>11, <1>12, <1>13 DEF Kept, Settled, Attended

\* A process that is gone leaves its tokens to nobody.
LEMMA CrashStep ==
  ASSUME IInv, Next, NEW p \in Process, Crash(p)
  PROVE  Kept'
<1>1. TypeOK /\ UNCHANGED <<jobs, unheard, events>>
  BY DEF Crash, IInv
<1>2. ASSUME NEW c \in Caller
      PROVE  \/ Home[c] = p /\ task'[c] = Idle
             \/ Home[c] # p /\ task'[c] = task[c]
             \/ /\ Home[c] # p /\ task[c].pc = "posted" /\ task'[c].pc = "adopting"
                /\ task'[c].intent = task[c].intent /\ task'[c].fence = task[c].fence
  <2>1. task[c] \in Task
    BY <1>1 DEF TypeOK
  <2> QED  BY <2>1 DEF Crash, Task
<1>3. Calm
  <2>1. Idle.pc = "idle"
    BY DEF Idle
  <2> QED  BY <1>2, <2>1 DEF Calm, Section, Early
<1>4. flying' \subseteq flying
  BY DEF Crash
<1>5. Sent
  BY <1>1, <1>4 DEF Sent
<1>6. ASSUME NEW j \in Intent
      PROVE  /\ intents'[j].where = intents[j].where /\ intents'[j].source = intents[j].source
             /\ intents'[j].token = intents[j].token /\ intents'[j].fence = intents[j].fence
             /\ intents'[j].owner = (IF intents[j].owner = p THEN NoProcess ELSE intents[j].owner)
             /\ intents'[j].dispatch = intents[j].dispatch
             /\ SameStatus(j) /\ (intents[j] = Unborn => intents'[j] = Unborn)
  <2>1. intents[j] \in IntentRecord
    BY <1>1 DEF TypeOK
  <2>2. intents'[j] = [intents[j] EXCEPT !.owner = IF intents[j].owner = p THEN NoProcess ELSE intents[j].owner]
    BY DEF Crash
  <2>3. intents[j] = Unborn => intents'[j] = Unborn
    <3>1. intents[j].owner # p => intents'[j] = intents[j]
      BY <2>1, <2>2 DEF IntentRecord
    <3>2. Unborn.owner # p
      BY StartAssumption DEF Unborn
    <3> QED  BY <3>1, <3>2
  <2> QED  BY <2>1, <2>2, <2>3 DEF IntentRecord, SameStatus
<1>7. Shaped'
  <2>1. glance' \in {glance, Unread} /\ command' \in {command, NoCommand}
    BY DEF Crash
  <2>2. ASSUME NEW c \in Caller
        PROVE  /\ task'[c].pc \in {"look", "prior", "cancelled", "over", "claim"} => task'[c].intent \in Intent
               /\ task'[c].pc = "over" => task'[c].dispatch # 0 /\ jobs'[task'[c].dispatch].state \in Ended
    <3>1. Idle.pc = "idle"
      BY DEF Idle
    <3> QED  BY <1>1, <1>2, <3>1 DEF IInv, Shaped
  <2> QED  BY <2>1, <2>2 DEF IInv, Shaped
<1>8. Written'
  BY <1>6 DEF SameStatus, IInv, Written
<1>9. SourceHasOneIntent'
  BY <1>6 DEF IInv, SourceHasOneIntent
<1>10. ASSUME NEW k, Granted(k) PROVE Granted(k)'
  BY <1>6, <1>10 DEF Granted, InJournal
<1>11. Fenced'
  BY <1>3, <1>5, <1>10, FencedStep DEF IInv
<1>12. ASSUME NEW j \in Intent PROVE SettledOne(j)'
  BY <1>1, <1>3, <1>5, <1>6, SettledStep DEF IInv, Settled
<1>13. ASSUME NEW j \in Intent PROVE AttendedOne(j)'
  <2>1. CASE ~(InJournal(j) /\ intents[j].token /\ intents[j].owner # NoProcess /\ intents[j].owner # p)
    BY <1>6, <2>1 DEF AttendedOne, InJournal
  <2>2. CASE InJournal(j) /\ intents[j].token /\ intents[j].owner # NoProcess /\ intents[j].owner # p
    <3>1. PICK c \in Caller : Holds(c, <<j, intents[j].fence>>) /\ Home[c] = intents[j].owner
      BY <2>2 DEF IInv, Attended, AttendedOne
    <3>2. /\ task'[c].pc \in Section
          /\ task'[c].intent = task[c].intent /\ task'[c].fence = task[c].fence
      BY <1>2, <2>2, <3>1 DEF Holds, Section
    <3> QED  BY <1>6, <2>2, <3>1, <3>2 DEF AttendedOne, Holds, MyClaim
  <2> QED  BY <2>1, <2>2
<1>14. Recorded'
  <2>1. \A k \in Claim : Spent(k)' => Spent(k) /\ intents'[k[1]].dispatch = intents[k[1]].dispatch
    BY <1>6 DEF Spent, InJournal, Claim
  <2>2. NamedRight
    <3>1. Idle.pc = "idle"
      BY DEF Idle
    <3> QED  BY <1>2, <3>1 DEF NamedRight
  <2> QED  BY <1>1, <1>3, <1>4, <1>5, <2>1, <2>2, RecordedStep DEF IInv, Sent
<1> QED  BY <1>7, <1>8, <1>9, <1>11, <1>12, <1>13, <1>14 DEF Kept, Settled, Attended

-----------------------------------------------------------------------------
(* The invariant. *)

LEMMA InvInit == Init => IInv
<1> SUFFICES ASSUME Init PROVE IInv
  OBVIOUS
<1>1. TypeOK
  <2>1. intents \in [Intent -> IntentRecord] /\ jobs \in [Dispatch -> JobRecord] /\ task \in [Caller -> Task]
    BY Values DEF Init
  <2>2. glance \in [dispatch : 0 .. MaxDispatches, state : JobState]
    BY Constants DEF Init, Unread, JobState
  <2>3. command \in [status : {"none", "CANCELLED", "FAILED"}, intent : 0 .. MaxIntents,
                      dispatch : 0 .. MaxDispatches]
    BY Constants DEF Init, NoCommand
  <2>4. events \in 0 .. MaxEvents /\ faults \in 0 .. MaxFaults
    BY Constants DEF Init
  <2>5. flying \subseteq Claim /\ unheard \subseteq Claim
    BY DEF Init
  <2>6. closing \in BOOLEAN
    BY Zenon DEF Init
  <2> QED  BY <2>1, <2>2, <2>3, <2>4, <2>5, <2>6 DEF TypeOK
<1>2. /\ \A i \in Intent : intents[i] = Unborn
      /\ \A c \in Caller : task[c].pc = "idle"
      /\ \A d \in Dispatch : jobs[d] = NoJob
      /\ flying = {} /\ glance = Unread /\ command = NoCommand
  BY DEF Init, Idle
<1>3. Shaped
  BY <1>2 DEF Shaped
<1>4. Written /\ SourceHasOneIntent
  <2>1. Unborn.where = "nowhere" /\ Unborn.source = NoSource /\ Unborn.wrote = 0
    BY DEF Unborn
  <2>2. \A i \in Intent : /\ intents[i] = Unborn /\ intents[i].where = "nowhere"
                          /\ intents[i].source = NoSource /\ intents[i].wrote = 0
    BY <1>2, <2>1
  <2> QED  BY <2>2 DEF Written, SourceHasOneIntent
<1>5. Fenced
  BY <1>2 DEF Fenced, Section, Early, NoJob
<1>6. Settled /\ Attended
  BY <1>2 DEF Settled, SettledOne, Attended, AttendedOne, Unborn
<1>7. Lawful
  <2>1. NoJob.state = "absent" /\ NoJob.by = NoClaim
    BY DEF NoJob
  <2>2. \A d \in Dispatch : /\ jobs[d] = NoJob /\ jobs[d].state = "absent" /\ jobs[d].by = NoClaim
    BY <1>2, <2>1
  <2> QED  BY <2>2 DEF Lawful, LawfulOne, OneOpen, Open
<1>8. Recorded
  <2>1. \A i : ~InJournal(i) \/ i \notin Intent
    BY <1>2 DEF InJournal, Unborn
  <2>2. \A k \in Claim : ~Spent(k)
    BY <2>1 DEF Spent, Claim
  <2> QED  BY <1>2, <2>2 DEF Recorded, RecordedOne, Holds, Section
<1> QED  BY <1>1, <1>3, <1>4, <1>5, <1>6, <1>7, <1>8 DEF IInv

LEMMA InvNext == IInv /\ [Next]_vars => IInv'
<1> SUFFICES ASSUME IInv, [Next]_vars PROVE IInv'
  OBVIOUS
<1>1. CASE UNCHANGED vars
  <2> USE <1>1 DEF vars
  <2>1. TypeOK' /\ Shaped' /\ Written' /\ SourceHasOneIntent'
    BY DEF IInv, TypeOK, Shaped, Written, SourceHasOneIntent
  <2>2. Fenced'
    BY DEF IInv, Fenced, Granted, InJournal, Unsent, MyClaim
  <2>3. Settled' /\ Attended'
    BY DEF IInv, Settled, SettledOne, Attended, AttendedOne, Holds, MyClaim, Unsent, InJournal
  <2>4. Lawful'
    BY DEF IInv, Lawful, LawfulOne, OneOpen, Open
  <2>5. Recorded'
    BY DEF IInv, Recorded, RecordedOne, Spent, Served, Holds, MyClaim, InJournal
  <2> QED  BY <2>1, <2>2, <2>3, <2>4, <2>5 DEF IInv
<1>2. CASE Next
  <2>1. Lawful'
    BY <1>2, JobsKept DEF IInv
  <2>2. TypeOK /\ Shaped /\ Fenced
    BY DEF IInv
  <2>3. ASSUME NEW c \in Caller, Start(c) PROVE TypeOK' /\ Kept'
    BY <1>2, <2>2, <2>3, TypeBefore, TypeWithin, BeforeStep, BeginStep, TakeClaimStep, SectionStep
       DEF Start
  <2>4. ASSUME NEW k \in Claim, Serve(k) PROVE TypeOK' /\ Kept'
    BY <1>2, <2>2, <2>4, TypeAround, ServeStep
  <2>5. ASSUME NEW i \in Intent, Elsewhere(i) PROVE TypeOK' /\ Kept'
    BY <1>2, <2>2, <2>5, TypeAround, ElsewhereStep
  <2>6. ASSUME NEW p \in Process, Crash(p) PROVE TypeOK' /\ Kept'
    BY <1>2, <2>2, <2>6, TypeAround, CrashStep
  <2>7. ASSUME \/ \E d \in Dispatch : Advance(d) \/ Cancel(d) \/ Abandon(d) \/ Glance(d)
               \/ \E i \in Intent : Reset(i)
               \/ CarryOut \/ Reconcile \/ Close
        PROVE  TypeOK' /\ Kept'
    BY <1>2, <2>2, <2>7, TypeAround, AroundStep
  <2>8. TypeOK' /\ Kept'
    BY <1>2, <2>3, <2>4, <2>5, <2>6, <2>7 DEF Next
  <2> QED  BY <2>1, <2>8 DEF IInv, Kept
<1> QED  BY <1>1, <1>2

\* The inductive invariant holds whatever the threads of start(), the operator, the board,
\* the Bridge and the faults do, in any order; the theorems below follow from it.
THEOREM StartInvariant == Spec => []IInv
BY InvInit, InvNext, PTL DEF Spec

\* The variables keep their types: a thread works under a claim and on an intent that
\* exist, and no fencing number or counter leaves its range.
THEOREM StartTypeCorrect == Spec => []TypeOK
<1>1. IInv => TypeOK
  BY DEF IInv
<1> QED  BY <1>1, StartInvariant, PTL

\* No claim writes an intent after a later one was granted (audit_run_service.py:479).
THEOREM StartWrittenByLatest == Spec => []WrittenByLatest
<1>1. IInv => WrittenByLatest
  BY DEF IInv, Written, WrittenByLatest
<1> QED  BY <1>1, StartInvariant, PTL

\* What the close of the desktop ended asked for no dispatch, and never will
\* (audit_run_service.py:1200).
THEOREM StartClosedNotSubmitted == Spec => []ClosedNotSubmitted
<1>1. IInv => ClosedNotSubmitted
  BY DEF IInv, Settled, SettledOne, Unsent, ClosedNotSubmitted
<1> QED  BY <1>1, StartInvariant, PTL

\* What its own start calls FAILED hides no live audit, unless the Bridge was silent or
\* had not served the request (audit_run_service.py:1347).
THEOREM StartFailedHidesNoAudit == Spec => []FailedHidesNoAudit
<1>1. IInv => FailedHidesNoAudit
  BY DEF IInv, Settled, SettledOne, Unsent, FailedHidesNoAudit
<1> QED  BY <1>1, StartInvariant, PTL

\* A start is refused only while a living thread is in the section of the claim that
\* refuses it (audit_run_service.py:442).
THEOREM StartNobodyIsLockedOut == Spec => []NobodyIsLockedOut
<1>1. IInv => NobodyIsLockedOut
  BY DEF IInv, Attended, AttendedOne, Holds, Refuses, NobodyIsLockedOut
<1> QED  BY <1>1, StartInvariant, PTL

\* A prepared execution has one intent for ever (audit_run_service.py:358).
THEOREM StartSourceHasOneIntent == Spec => []SourceHasOneIntent
<1>1. IInv => SourceHasOneIntent
  BY DEF IInv
<1> QED  BY <1>1, StartInvariant, PTL

\* A claim that has ended has named the audit it asked for, if that is still open, unless
\* the Bridge was silent or had not served the request (audit_run_service.py:1346-1362).
THEOREM StartAuditIsOnRecord == Spec => []AuditIsOnRecord
<1>1. IInv => AuditIsOnRecord
  <2> SUFFICES ASSUME IInv, NEW d \in Dispatch, NEW k, k = jobs[d].by, Open(d), Spent(k), k \notin unheard
               PROVE  intents[k[1]].dispatch = d
    BY DEF AuditIsOnRecord, Spent
  <2>1. k \in Claim
    <3>1. k # NoClaim
      BY DEF Spent, InJournal, NoClaim
    <3> QED  BY <3>1, JobFields DEF IInv
  <2> QED  BY <2>1 DEF IInv, Recorded, RecordedOne, Served
<1> QED  BY <1>1, StartInvariant, PTL
=============================================================================
