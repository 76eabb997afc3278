-------------------------- MODULE PreparedAgreement --------------------------
(***************************************************************************)
(* Why the tables of jobs, receipts and reservations agree, as long as no  *)
(* caller acts on an old clock.                                            *)
(*                                                                         *)
(* A transaction begins an execution, moves one, ends one or saves a job.  *)
(* Each keeps the tables in agreement; what the pass adds is that its      *)
(* copies of the jobs, and its list of expired receipts, are still true    *)
(* when it acts on them.                                                   *)
(***************************************************************************)
EXTENDS PreparedProofs

-----------------------------------------------------------------------------
(* The inductive invariant. *)

Underway(e) == row[e].state \in Active /\ ~row[e].test

\* A receipt on its way to a launch names an account.
Placed == \A e \in Exec : row[e].state \in Launching => row[e].account \in Account

Tables == OneActivePerJob /\ AccountIsExclusive /\ JobFollowsReceipt /\ Placed

\* A receipt that the pass found expired stays so until the pass recovers it: its owner
\* can neither move nor renew it, and nobody else recovers.
ListedLapsed == \A e \in pass.listed : row[e].state \in Worked /\ row[e].lease = "expired"

\* A job that the pass works on has no scheduled execution, so what the pass saves for
\* it is not the state of one.
CopiesClear ==
  /\ \A j \in Job : pass.seen[j].state \notin Active
  /\ pass.jobs => pass.listed = {}
  /\ \A j \in Job : pass.jobs /\ pass.step[j] # "out" => \A e \in ActiveRows(j) : row[e].test

Agreement == Tables /\ ListedLapsed /\ CopiesClear

-----------------------------------------------------------------------------
(* What a transaction does to the receipts. *)

\* No scheduled execution begins, of job j at least.
Continues == \A f \in Exec : Underway(f)' => Underway(f) /\ row'[f].job = row[f].job
Spares(j) ==
  \A f \in Exec : Underway(f)' /\ row'[f].job # j => Underway(f) /\ row'[f].job = row[f].job

\* What has lost its owner stays as it is, apart from receipt e at most.
LeavesLapsed == \A f \in Exec : row[f].state \in Worked /\ row[f].lease = "expired" => row'[f] = row[f]
LeavesBut(e) ==
  \A f \in Exec \ {e} : row[f].state \in Worked /\ row[f].lease = "expired" => row'[f] = row[f]

\* What has ended stays ended.
Settles == \A f \in Exec : row[f].state \in Terminal => row'[f].state = row[f].state

LEMMA ActiveSets ==
  /\ Launching = {"CLAIMED", "PREPARING", "LAUNCHING"}
  /\ Worked = {"CLAIMED", "PREPARING", "LAUNCHING", "DELIVERING", "VERIFYING", "RUNNING"}
  /\ Active = {"CLAIMED", "PREPARING", "LAUNCHING", "DELIVERING", "VERIFYING", "RUNNING",
               "RECOVERY_REQUIRED"}
  /\ Terminal = {"DONE", "FAILED_TERMINAL", "MISSED", "CANCELLED"}
BY DEF Launching, Worked, Active, Terminal

LEMMA ExecIds == \A e \in Exec : e # 0
BY StoreAssumption DEF Exec

\* A receipt that is not on its way to a launch has no reservation.
LEMMA Unreserved ==
  ASSUME Tables, NEW e \in Exec, row[e].state \notin Launching
  PROVE  \A a \in Account : holder[a] # e
BY ExecIds DEF Tables, AccountIsExclusive

-----------------------------------------------------------------------------
(* The tables agree after each kind of transaction. *)

\* An execution begins.
LEMMA BeginTables ==
  ASSUME StoreOK, StoreOK', Tables, NEW e \in Exec, NEW j \in Job, NEW a \in Account,
         Only(e), row[e].state \notin Active, ActiveRows(j) = {}, ~Held(a, e),
         row'[e].job = j, row'[e].state = "CLAIMED", row'[e].account = a,
         holder'[a] = e, \A b \in Account : b # a => holder'[b] = holder[b],
         \/ row'[e].test /\ body' = body
         \/ /\ ~row'[e].test /\ body'[j].state = "CLAIMED"
            /\ \A k \in Job : k # j => body'[k] = body[k]
  PROVE  Tables'
<1> USE ActiveSets
<1>1. \A f \in Exec : f # e => row'[f] = row[f]
  BY DEF Only
<1>2. \A f \in Exec : row[f].state \in Active => row[f].job # j
  BY DEF ActiveRows
<1>3. OneActivePerJob'
  BY <1>1, <1>2 DEF Tables, OneActivePerJob
<1>4. AccountIsExclusive'
  <2>1. \A b \in Account : b # a => holder[b] # e
    BY Unreserved
  <2>2. ASSUME NEW b \in Account, holder'[b] # 0
        PROVE  row'[holder'[b]].state \in Launching /\ row'[holder'[b]].account = b
    <3>1. CASE b = a
      BY <3>1
    <3>2. CASE b # a
      <4>1. holder[b] \in Exec /\ holder[b] # e
        BY <2>1, <2>2, <3>2, StoreAssumption DEF StoreOK, Exec
      <4> QED  BY <1>1, <2>2, <3>2, <4>1 DEF Tables, AccountIsExclusive
    <3> QED  BY <3>1, <3>2
  <2>3. ASSUME NEW f \in Exec, row'[f].state \in Launching, row'[f].lease = "live"
        PROVE  holder'[row'[f].account] = f
    <3>1. CASE f = e
      BY <3>1
    <3>2. CASE f # e
      <4>1. row'[f] = row[f] /\ holder[row[f].account] = f /\ row[f].account \in Account
        BY <1>1, <2>3, <3>2 DEF Tables, AccountIsExclusive, Placed
      <4>2. row[f].account # a
        BY <2>3, <3>2, <4>1, ExecIds DEF Held
      <4> QED  BY <4>1, <4>2
    <3> QED  BY <3>1, <3>2
  <2> QED  BY <2>2, <2>3 DEF AccountIsExclusive
<1>5. JobFollowsReceipt'
  <2>1. body[j].state \notin Active
    BY <1>2 DEF Tables, JobFollowsReceipt, ActiveRows
  <2>2. ASSUME NEW k \in Job, NEW f \in Exec, row'[f].job = k, row'[f].state \in Active, ~row'[f].test
        PROVE  body'[k].state = row'[f].state
    BY <1>1, <1>2, <2>2 DEF Tables, JobFollowsReceipt, ActiveRows
  <2>3. ASSUME NEW k \in Job, body'[k].state \in Active
        PROVE  \E f \in Exec : row'[f].job = k /\ row'[f].state \in Active /\ ~row'[f].test
    <3>1. CASE k = j
      BY <2>1, <2>3, <3>1
    <3>2. CASE k # j
      <4>1. body[k].state \in Active
        BY <2>3, <3>2
      <4>2. PICK f \in Exec : row[f].job = k /\ row[f].state \in Active /\ ~row[f].test
        BY <4>1 DEF Tables, JobFollowsReceipt, ActiveRows
      <4> QED  BY <1>1, <4>2
    <3> QED  BY <3>1, <3>2
  <2> QED  BY <2>2, <2>3 DEF JobFollowsReceipt, ActiveRows
<1>6. Placed'
  BY <1>1 DEF Tables, Placed
<1> QED  BY <1>3, <1>4, <1>5, <1>6 DEF Tables

\* A reservation and the receipt it is for, when the receipt moves.
ReservationMoves(e) ==
  \/ /\ holder' = holder
     /\ row[e].state \in Launching => row'[e].state \in Launching
     /\ row'[e].state \in Launching /\ row'[e].lease = "live" => row[e].lease = "live"
  \/ holder' = Release(e) /\ row'[e].state \notin Launching
  \/ /\ holder' = [holder EXCEPT ![row[e].account] = e] /\ row'[e].state \in Launching
     /\ ~Held(row[e].account, e)

\* An execution moves or ends.
LEMMA MoveTables ==
  ASSUME StoreOK, StoreOK', Tables, NEW e \in Exec, Only(e), Same(e),
         row[e].state \in Active, row'[e].account = row[e].account,
         row'[e].state \in Launching => row[e].state \in Launching,
         ReservationMoves(e),
         \/ row[e].test /\ body' = body
         \/ /\ ~row[e].test /\ \A k \in Job : k # row[e].job => body'[k] = body[k]
            /\ \/ body'[row[e].job].state = row'[e].state
               \/ row'[e].state \notin Active /\ body'[row[e].job].state \notin Active
  PROVE  Tables'
<1> USE ActiveSets
<1>1. \A f \in Exec : f # e => row'[f] = row[f]
  BY DEF Only
<1>2. \A f \in Exec : row[f].state \in Active /\ row[f].job = row[e].job => f = e
  BY DEF Tables, OneActivePerJob
<1>3. row[e].job \in Job /\ row'[e].job = row[e].job /\ row'[e].test = row[e].test
  BY DEF StoreOK, Row, Same
<1>4. OneActivePerJob'
  BY <1>1, <1>2, <1>3 DEF Tables, OneActivePerJob
<1>5. Placed'
  BY <1>1 DEF Tables, Placed
<1>6. AccountIsExclusive'
  <2>1. ASSUME NEW b \in Account, holder'[b] # 0
        PROVE  row'[holder'[b]].state \in Launching /\ row'[holder'[b]].account = b
    <3>0. holder'[b] \in Exec
      BY <2>1, StoreAssumption DEF StoreOK, Exec
    <3>1. CASE holder'[b] = e
      <4>1. row'[e].state \in Launching
        BY <3>1, ExecIds DEF ReservationMoves, Tables, AccountIsExclusive, Release
      <4>2. row[e].account = b
        <5>1. CASE holder[b] = e
          BY <5>1, ExecIds DEF Tables, AccountIsExclusive
        <5>2. CASE holder[b] # e
          BY <3>1, <4>1, <5>2 DEF ReservationMoves, StoreOK
        <5> QED  BY <5>1, <5>2
      <4> QED  BY <3>1, <4>1, <4>2
    <3>2. CASE holder'[b] # e
      <4>1. holder'[b] = holder[b]
        BY <2>1, <3>2 DEF ReservationMoves, Release, StoreOK
      <4> QED  BY <1>1, <2>1, <3>0, <3>2, <4>1 DEF Tables, AccountIsExclusive
    <3> QED  BY <3>1, <3>2
  <2>2. ASSUME NEW f \in Exec, row'[f].state \in Launching, row'[f].lease = "live"
        PROVE  holder'[row'[f].account] = f
    <3>1. CASE f = e
      <4>1. row[e].state \in Launching /\ row[e].account \in Account
        BY <2>2, <3>1 DEF Tables, Placed
      <4> QED  BY <2>2, <3>1, <4>1 DEF ReservationMoves, Tables, AccountIsExclusive, StoreOK
    <3>2. CASE f # e
      <4>1. row'[f] = row[f] /\ holder[row[f].account] = f /\ row[f].account \in Account
        BY <1>1, <2>2, <3>2 DEF Tables, AccountIsExclusive, Placed
      <4>2. CASE holder' = holder
        BY <4>1, <4>2
      <4>3. CASE holder' = Release(e)
        BY <3>2, <4>1, <4>3 DEF Release
      <4>4. CASE holder' = [holder EXCEPT ![row[e].account] = e] /\ ~Held(row[e].account, e)
        <5>1. row[e].account # row[f].account
          BY <2>2, <3>2, <4>1, <4>4, ExecIds DEF Held
        <5> QED  BY <4>1, <4>4, <5>1 DEF StoreOK
      <4> QED  BY <4>2, <4>3, <4>4 DEF ReservationMoves
    <3> QED  BY <3>1, <3>2
  <2> QED  BY <2>1, <2>2 DEF AccountIsExclusive
<1>7. JobFollowsReceipt'
  <2>1. ASSUME NEW k \in Job, NEW f \in Exec, row'[f].job = k, row'[f].state \in Active, ~row'[f].test
        PROVE  body'[k].state = row'[f].state
    <3>1. CASE f = e
      BY <1>3, <2>1, <3>1
    <3>2. CASE f # e
      <4>1. row'[f] = row[f] /\ k # row[e].job
        BY <1>1, <1>2, <2>1, <3>2
      <4>2. body[k].state = row[f].state
        BY <2>1, <4>1 DEF Tables, JobFollowsReceipt, ActiveRows
      <4> QED  BY <4>1, <4>2
    <3> QED  BY <3>1, <3>2
  <2>2. ASSUME NEW k \in Job, body'[k].state \in Active
        PROVE  \E f \in Exec : row'[f].job = k /\ row'[f].state \in Active /\ ~row'[f].test
    <3>1. CASE ~row[e].test /\ k = row[e].job
      BY <1>3, <2>2, <3>1
    <3>2. CASE row[e].test \/ k # row[e].job
      <4>1. body[k].state \in Active
        BY <2>2, <3>2
      <4>2. PICK f \in Exec : row[f].job = k /\ row[f].state \in Active /\ ~row[f].test
        BY <4>1 DEF Tables, JobFollowsReceipt, ActiveRows
      <4>3. f # e
        BY <3>2, <4>2
      <4> QED  BY <1>1, <4>2, <4>3
    <3> QED  BY <3>1, <3>2
  <2> QED  BY <2>1, <2>2 DEF JobFollowsReceipt, ActiveRows
<1> QED  BY <1>4, <1>5, <1>6, <1>7 DEF Tables

\* A receipt that is not an execution changes and becomes none, and a job that has no
\* scheduled execution is saved, not in the state of one.
LEMMA AsideTables ==
  ASSUME StoreOK, Tables, holder' = holder,
         \/ row' = row
         \/ \E e \in Exec : Only(e) /\ row[e].state \notin Active /\ row'[e].state \notin Active,
         \/ body' = body
         \/ \E j \in Job : /\ \A k \in Job : k # j => body'[k] = body[k]
                          /\ body'[j].state \notin Active
                          /\ \A f \in ActiveRows(j) : row[f].test
  PROVE  Tables'
<1> USE ActiveSets
<1>1. /\ \A f \in Exec : row[f].state \in Active => row'[f] = row[f]
      /\ \A f \in Exec : row'[f].state \in Active => row'[f] = row[f]
  BY DEF Only
<1>2. OneActivePerJob' /\ Placed'
  BY <1>1 DEF Tables, OneActivePerJob, Placed
<1>3. AccountIsExclusive'
  <2>1. ASSUME NEW b \in Account, holder[b] # 0
        PROVE  row'[holder[b]] = row[holder[b]]
    <3>1. holder[b] \in Exec
      BY <2>1, StoreAssumption DEF StoreOK, Exec
    <3> QED  BY <1>1, <2>1, <3>1 DEF Tables, AccountIsExclusive
  <2> QED  BY <1>1, <2>1 DEF Tables, AccountIsExclusive
<1>4. JobFollowsReceipt'
  <2>1. \A k \in Job : ActiveRows(k)' = ActiveRows(k)
    BY <1>1 DEF ActiveRows
  <2>2. \A k \in Job : \A f \in ActiveRows(k) : row'[f] = row[f]
    BY <1>1 DEF ActiveRows
  <2> QED  BY <2>1, <2>2 DEF Tables, JobFollowsReceipt
<1> QED  BY <1>2, <1>3, <1>4 DEF Tables

\* A lease runs out.
LEMMA LapseTables ==
  ASSUME StoreOK, Tables, NEW e \in Exec, Only(e), Same(e),
         row'[e].state = row[e].state, row'[e].account = row[e].account, row'[e].lease # "live",
         UNCHANGED <<body, holder>>
  PROVE  Tables'
<1>1. \A f \in Exec : /\ row'[f].state = row[f].state /\ row'[f].account = row[f].account
                      /\ row'[f].job = row[f].job /\ row'[f].test = row[f].test
                      /\ row'[f].lease = "live" => row[f].lease = "live"
  BY DEF Only, Same
<1>2. \A k \in Job : ActiveRows(k)' = ActiveRows(k)
  BY <1>1 DEF ActiveRows
<1>3. \A a \in Account : holder[a] # 0 => holder[a] \in Exec
  BY StoreAssumption DEF StoreOK, Exec
<1>4. OneActivePerJob' /\ Placed'
  BY <1>1 DEF Tables, OneActivePerJob, Placed
<1>5. AccountIsExclusive'
  BY <1>1, <1>3 DEF Tables, AccountIsExclusive
<1>6. JobFollowsReceipt'
  <2>1. \A k \in Job : \A f \in ActiveRows(k) : f \in Exec
    BY DEF ActiveRows
  <2> QED  BY <1>1, <1>2, <2>1 DEF Tables, JobFollowsReceipt
<1> QED  BY <1>4, <1>5, <1>6 DEF Tables

-----------------------------------------------------------------------------
(* Every transaction, under clocks that are not old. *)

\* A transaction that moves one execution, or none, and begins none.
Moves == Tables' /\ Continues /\ LeavesLapsed /\ Settles

LEMMA NothingMoves ==
  ASSUME Tables, StoreOK, UNCHANGED store
  PROVE  Moves
BY AsideTables DEF store, Moves, Continues, Underway, LeavesLapsed, Settles

LEMMA SaveMoves ==
  ASSUME StoreOK, Tables, NEW j \in Job, NEW b, b.state \notin Active, Save(j, b)
  PROVE  Moves
<1>1. /\ \A k \in Job : k # j => body'[k] = body[k]
      /\ body'[j].state \notin Active /\ \A f \in ActiveRows(j) : row[f].test
  BY DEF Save, CanSave, StoreOK
<1> QED  BY <1>1, AsideTables DEF Save, Moves, Continues, Underway, LeavesLapsed, Settles

LEMMA FollowingState ==
  ASSUME NEW j \in Job, NEW b \in Body, NEW s \in ExecState
  PROVE  /\ s \in Active => Following(j, b, s).state = s
         /\ s \notin Active => Following(j, b, s).state \notin Active
         /\ Rearmed(b).state = "ARMED"
BY ActiveSets, Sets DEF Following, Rearmed, Body

LEMMA AdvanceMoves ==
  ASSUME ~StaleClock, StoreOK, Tables, NEW e \in Exec, NEW g, NEW from \in Worked, NEW s \in ExecState,
         s \in Launching => from \in Launching,
         Owns(e, g, from), Advance(e, s)
  PROVE  Moves
<1> USE ActiveSets
<1>1. /\ StoreOK' /\ Only(e) /\ Same(e) /\ row[e].state = from /\ row'[e].state = s
      /\ row[e].lease = "live"
  BY AdvanceType DEF Owns, SeesLive
<1>2. row'[e].account = row[e].account /\ row[e] \in Row
  BY DEF Advance, Advanced, StoreOK, Row
<1>3. ReservationMoves(e)
  BY <1>1 DEF Advance, Releasing, ReservationMoves
<1>4. CASE row[e].test
  <2>1. body' = body
    BY <1>4 DEF Advance
  <2> QED
    BY <1>1, <1>2, <1>3, <1>4, <2>1, MoveTables
      DEF Moves, Continues, Underway, LeavesLapsed, Settles, Only, Same
<1>5. CASE ~row[e].test
  <2>1. body' = [body EXCEPT ![row[e].job] = Following(row[e].job, @, s)]
    BY <1>5 DEF Advance
  <2>2. row[e].job \in Job /\ body[row[e].job] \in Body
    BY <1>2 DEF Row, StoreOK
  <2>3. body'[row[e].job] = Following(row[e].job, body[row[e].job], s)
    BY <2>1, <2>2 DEF StoreOK
  <2>4. \A k \in Job : k # row[e].job => body'[k] = body[k]
    BY <2>1, <2>2 DEF StoreOK
  <2>5. Tables'
    BY <1>1, <1>2, <1>3, <1>5, <2>2, <2>3, <2>4, FollowingState, MoveTables
  <2> QED
    BY <1>1, <2>5 DEF Moves, Continues, Underway, LeavesLapsed, Settles, Only, Same
<1> QED  BY <1>4, <1>5

LEMMA RenewMoves ==
  ASSUME ~StaleClock, StoreOK, Tables, NEW e \in Exec, NEW g, Renew(e, g)
  PROVE  Moves
<1>1. row[e].lease = "live" /\ row' = [row EXCEPT ![e].lease = "live"]
  BY DEF Renew, SeesLive, NewLease
<1>2. row' = row
  BY <1>1 DEF StoreOK, Row
<1> QED  BY <1>2, NothingMoves DEF Renew, store

LEMMA LapseMoves ==
  ASSUME StoreOK, Tables, NEW e \in Exec, LeaseExpires(e)
  PROVE  Moves
<1>1. row[e].lease = "live" /\ row' = [row EXCEPT ![e].lease = "expired"] /\ UNCHANGED <<body, holder>>
  BY DEF LeaseExpires
<1>2. Only(e) /\ Same(e) /\ row'[e].state = row[e].state /\ row'[e].lease = "expired"
  BY <1>1, LeaseType
<1>3. row'[e].account = row[e].account
  BY <1>1 DEF StoreOK, Row
<1>4. Tables'
  BY <1>1, <1>2, <1>3, LapseTables
<1> QED
  BY <1>1, <1>2, <1>4, ActiveSets DEF Moves, Continues, Underway, LeavesLapsed, Settles, Only, Same

LEMMA ResolveMoves ==
  ASSUME StoreOK, Tables, NEW e \in Exec, ResolveTest(e)
  PROVE  Moves
<1> USE ActiveSets
<1>1. /\ StoreOK' /\ Only(e) /\ Same(e) /\ row[e].state = "RECOVERY_REQUIRED"
      /\ row'[e].state = "CANCELLED"
  BY ResolveType
<1>2. row'[e].account = row[e].account /\ row[e].test /\ UNCHANGED <<body, holder>>
  BY DEF ResolveTest, StoreOK, Row
<1>3. Tables'
  BY <1>1, <1>2, MoveTables DEF ReservationMoves
<1> QED
  BY <1>1, <1>2, <1>3 DEF Moves, Continues, Underway, LeavesLapsed, Settles, Only, Same

LEMMA RecoverMoves ==
  ASSUME StoreOK, Tables, NEW e \in Exec, NEW seen \in BOOLEAN, row[e].state \in Worked,
         CanRecover(e), Recover(e, seen)
  PROVE  Tables' /\ Continues /\ LeavesBut(e) /\ Settles
<1> USE ActiveSets
<1>1. /\ StoreOK' /\ Only(e) /\ Same(e) /\ row'[e].state = Recovered(row[e], seen)
      /\ row[e] \in Row
  BY RecoverType DEF StoreOK
<1>2. row'[e].account = row[e].account
  <2>1. row'[e] = TakenOver(row[e], seen)
    BY DEF Recover, StoreOK
  <2> QED  BY <1>1, <2>1 DEF TakenOver, Row
<1>3. Resumes(e) => row[e].state \in {"CLAIMED", "PREPARING"} /\ row'[e].state = "CLAIMED"
  BY <1>1 DEF Resumes, PreSideEffect, Recovered
<1>4. ~Resumes(e) => row'[e].state \in {"CANCELLED", "RUNNING", "RECOVERY_REQUIRED"}
  BY <1>1 DEF Resumes, Recovered
<1>5. ~row[e].test => row'[e].state \in {"CLAIMED", "RUNNING", "RECOVERY_REQUIRED"}
  BY <1>1 DEF Recovered
<1>6. ReservationMoves(e)
  <2>1. CASE Resumes(e)
    <3>1. holder' = [holder EXCEPT ![row[e].account] = e] /\ ~Held(row[e].account, e)
      BY <2>1 DEF Recover, CanRecover
    <3> QED  BY <1>3, <2>1, <3>1 DEF ReservationMoves
  <2>2. CASE ~Resumes(e)
    <3>1. holder' = Release(e)
      BY <2>2 DEF Recover
    <3> QED  BY <1>4, <2>2, <3>1 DEF ReservationMoves
  <2> QED  BY <2>1, <2>2
<1>7. row'[e].state \in Launching => row[e].state \in Launching
  BY <1>3, <1>4
<1>8. CASE row[e].test
  <2>1. body' = body
    BY <1>8 DEF Recover
  <2>2. Tables'
    BY <1>1, <1>2, <1>6, <1>7, <1>8, <2>1, MoveTables
  <2> QED  BY <1>1, <1>8, <2>2 DEF Continues, Underway, LeavesBut, Settles, Only, Same
<1>9. CASE ~row[e].test
  <2>1. body' = [body EXCEPT ![row[e].job].state = Recovered(row[e], seen)]
    BY <1>9 DEF Recover
  <2>2. row[e].job \in Job
    BY <1>1 DEF Row
  <2>3. \A k \in Job : k # row[e].job => body'[k] = body[k]
    BY <2>1, <2>2 DEF StoreOK
  <2>4. body'[row[e].job].state = row'[e].state
    BY <1>1, <2>1, <2>2 DEF StoreOK, Body
  <2>5. Tables'
    BY <1>1, <1>2, <1>6, <1>7, <1>9, <2>3, <2>4, MoveTables
  <2> QED  BY <1>1, <1>9, <2>5 DEF Continues, Underway, LeavesBut, Settles, Only, Same
<1> QED  BY <1>8, <1>9

\* A receipt begins an execution of job j, scheduled or not.
Begins(j) == Tables' /\ Spares(j) /\ LeavesLapsed /\ Settles

LEMMA ClaimFirstBegins ==
  ASSUME StoreOK, Tables, NEW e \in Exec, NEW j \in Job, NEW v \in 0..MaxEvents,
         NEW a \in Account \cup {NoAccount}, ClaimFirst(e, j, v, a)
  PROVE  Begins(j)
<1> USE ActiveSets
<1>1. StoreOK' /\ Only(e) /\ row[e].state = "NONE"
  BY ClaimFirstType DEF New, Fresh
<1>2. PICK account \in Account : account = ClaimAccount(j, a)
  BY StoreAssumption DEF ClaimAccount, ClaimFirst, CanClaimFirst, Claimable, StoreOK, Body
<1>3. row'[e] = NewRow(j, v, FALSE, account)
  BY <1>2 DEF ClaimFirst, StoreOK
<1>4. ActiveRows(j) = {} /\ ~Held(account, e)
  BY <1>2 DEF ClaimFirst, CanClaimFirst, Claimable
<1>5. holder' = [holder EXCEPT ![account] = e] /\ body' = [body EXCEPT ![j].state = "CLAIMED"]
  BY <1>2 DEF ClaimFirst
<1>6. holder'[account] = e /\ \A b \in Account : b # account => holder'[b] = holder[b]
  BY <1>5 DEF StoreOK
<1>7. body'[j].state = "CLAIMED" /\ \A k \in Job : k # j => body'[k] = body[k]
  BY <1>5 DEF StoreOK, Body
<1>8. Tables'
  BY <1>1, <1>3, <1>4, <1>6, <1>7, BeginTables DEF NewRow
<1> QED  BY <1>1, <1>3, <1>8 DEF Begins, Spares, Underway, LeavesLapsed, Settles, Only, NewRow

LEMMA RetryBegins ==
  ASSUME StoreOK, Tables, NEW e \in Exec, NEW j \in Job, NEW v,
         NEW a \in Account \cup {NoAccount}, Retry(e, j, v, a)
  PROVE  Begins(j)
<1> USE ActiveSets
<1>1. StoreOK' /\ Only(e) /\ Same(e) /\ row[e].state = "FAILED_RETRYABLE" /\ row'[e].state = "CLAIMED"
  BY RetryType
<1>2. PICK account \in Account : account = ClaimAccount(j, a)
  BY StoreAssumption DEF ClaimAccount, Retry, CanRetry, Claimable, StoreOK, Body
<1>3. row[e] \in Row /\ row'[e] = Claimed(row[e], account)
  BY <1>2 DEF Retry, StoreOK
<1>4. row'[e].account = account
  BY <1>3 DEF Claimed, Row
<1>5. ActiveRows(j) = {} /\ ~Held(account, e) /\ row[e].job = j /\ ~row[e].test
  BY <1>2 DEF Retry, CanRetry, Claimable, Retryable, Receipts, Prior
<1>6. holder' = [Release(e) EXCEPT ![account] = e] /\ body' = [body EXCEPT ![j].state = "CLAIMED"]
  BY <1>2 DEF Retry
<1>7. \A b \in Account : holder[b] # e
  BY <1>1, Unreserved
<1>8. holder'[account] = e /\ \A b \in Account : b # account => holder'[b] = holder[b]
  BY <1>6, <1>7 DEF Release
<1>9. body'[j].state = "CLAIMED" /\ \A k \in Job : k # j => body'[k] = body[k]
  BY <1>6 DEF StoreOK, Body
<1>10. Tables'
  BY <1>1, <1>4, <1>5, <1>8, <1>9, BeginTables DEF Same
<1> QED  BY <1>1, <1>5, <1>10 DEF Begins, Spares, Underway, LeavesLapsed, Settles, Only, Same

LEMMA ClaimTestMoves ==
  ASSUME StoreOK, Tables, NEW e \in Exec, NEW j \in Job, ClaimTest(e, j)
  PROVE  Moves
<1> USE ActiveSets
<1>1. StoreOK' /\ Only(e) /\ row[e].state = "NONE" /\ body[j].account \in Account
  BY ClaimTestType DEF New, Fresh
<1>2. row'[e] = NewRow(j, 0, TRUE, body[j].account)
  BY DEF ClaimTest, StoreOK
<1>3. ActiveRows(j) = {} /\ ~Held(body[j].account, e) /\ body' = body
  BY DEF ClaimTest
<1>4. holder'[body[j].account] = e /\ \A b \in Account : b # body[j].account => holder'[b] = holder[b]
  BY <1>1 DEF ClaimTest, StoreOK
<1>5. Tables'
  BY <1>1, <1>2, <1>3, <1>4, BeginTables DEF NewRow
<1> QED  BY <1>1, <1>2, <1>5 DEF Moves, Continues, Underway, LeavesLapsed, Settles, Only, NewRow

LEMMA SettleMoves ==
  ASSUME StoreOK, Tables, NEW e \in Exec, NEW j \in Job, NEW v \in 0..MaxEvents,
         Settle(e, j, v), \A f \in ActiveRows(j) : row[f].test
  PROVE  Moves
<1> USE ActiveSets
<1>1. Only(e) /\ row[e].state = "NONE" /\ row'[e].state = "MISSED"
  BY SettleType DEF New, Fresh, Settled
<1>2. PICK b : /\ body' = [body EXCEPT ![j] = b]
               /\ b \in {Rearmed(body[j]), Following(j, body[j], "MISSED")}
  BY DEF Settle, StoreOK
<1>3. b.state \notin Active
  BY <1>2, FollowingState, Sets DEF StoreOK
<1>4. body'[j].state \notin Active /\ \A k \in Job : k # j => body'[k] = body[k]
  BY <1>2, <1>3 DEF StoreOK
<1>5. Tables'
  BY <1>1, <1>4, AsideTables DEF Settle
<1> QED  BY <1>1, <1>5 DEF Moves, Continues, Underway, LeavesLapsed, Settles, Only

-----------------------------------------------------------------------------
(* The deliveries. *)

LEMMA AsksMoves ==
  ASSUME ~StaleClock, StoreOK, Tables, NEW e \in Exec, NEW g \in Gen, NEW from \in Worked,
         NEW to \in ExecState, to \in Launching => from \in Launching, NEW pc,
         Asks(e, g, from, to, pc)
  PROVE  Moves
<1>1. CASE Owns(e, g, from)
  BY <1>1, AdvanceMoves DEF Asks
<1>2. CASE ~Owns(e, g, from)
  BY <1>2, NothingMoves DEF Asks
<1> QED  BY <1>1, <1>2

LEMMA DeliveryMoves ==
  ASSUME ~StaleClock, StoreOK, Tables, NEW e \in Exec, NEW g \in Gen, Delivery(e, g) \/ AgentEnds(e, g)
  PROVE  Moves /\ pass' = pass
<1> USE PCs, Sets, ActiveSets
<1>1. CASE Refuse(e, g)
  BY <1>1, AsksMoves DEF Refuse
<1>2. CASE Postpone(e, g)
  BY <1>2, AsksMoves DEF Postpone
<1>3. CASE Prepare(e, g)
  BY <1>3, AsksMoves DEF Prepare
<1>4. CASE Launch(e, g)
  BY <1>4, AsksMoves DEF Launch
<1>5. CASE Commit(e, g)
  BY <1>5, AsksMoves DEF Commit
<1>6. CASE Verify(e, g)
  BY <1>6, AsksMoves DEF Verify
<1>7. CASE Finish(e, g)
  BY <1>7, AsksMoves DEF Finish
<1>8. CASE Heartbeat(e, g)
  BY <1>8, RenewMoves DEF Heartbeat, procs
<1>9. CASE \/ Spawn(e, g) \/ \E k \in {"none", "killed"} : SpawnFails(e, g, k)
           \/ Send(e, g) \/ Raise(e, g) \/ AgentEnds(e, g)
  BY <1>9, NothingMoves DEF Spawn, SpawnFails, Send, Raise, AgentEnds
<1> QED
  BY <1>1, <1>2, <1>3, <1>4, <1>5, <1>6, <1>7, <1>8, <1>9 DEF Delivery

-----------------------------------------------------------------------------
(* The pass. *)

\* A step that leaves the pass alone.
LEMMA OtherStep ==
  ASSUME PassOK, Agreement, Moves, pass' = pass
  PROVE  Agreement' /\ Settles
<1>1. ListedLapsed'
  BY DEF Agreement, ListedLapsed, PassOK, PassRecord, Moves, LeavesLapsed
<1>2. CopiesClear'
  BY DEF Agreement, CopiesClear, ActiveRows, Moves, Continues, Underway
<1> QED  BY <1>1, <1>2 DEF Agreement, Moves

LEMMA NoPassFields ==
  /\ NoPass.listed = {} /\ NoPass.jobs = FALSE
  /\ \A j \in Job : NoPass.step[j] = "out" /\ NoPass.seen[j].state \notin Active
BY ActiveSets DEF NoPass, FirstBody

\* A step that ends the pass.
LEMMA LastStep ==
  ASSUME Agreement, Moves, pass' = NoPass
  PROVE  Agreement' /\ Settles
BY NoPassFields DEF Agreement, Moves, ListedLapsed, CopiesClear

\* A step of the pass for job j, which looks at it for the first time in no case.
StepFor(j) ==
  /\ pass'.jobs = pass.jobs /\ pass'.listed = pass.listed
  /\ pass'.seen[j].state \notin Active
  /\ pass.step[j] = "out" => pass'.step[j] = "out"
  /\ \A k \in Job : k # j => pass'.step[k] = pass.step[k] /\ pass'.seen[k] = pass.seen[k]

LEMMA JobStep ==
  ASSUME PassOK, Agreement, NEW j \in Job, StepFor(j),
         Moves \/ (Begins(j) /\ pass'.step[j] = "out")
  PROVE  Agreement' /\ Settles
<1>1. Tables' /\ LeavesLapsed /\ Settles
  BY DEF Moves, Begins
<1>2. ListedLapsed'
  BY <1>1 DEF StepFor, Agreement, ListedLapsed, LeavesLapsed, PassOK, PassRecord
<1>3. CopiesClear'
  <2>1. ASSUME NEW k \in Job, pass'.jobs, pass'.step[k] # "out", NEW f \in Exec,
               row'[f].job = k, row'[f].state \in Active
        PROVE  row'[f].test
    <3>1. pass.jobs /\ pass.step[k] # "out"
      BY <2>1 DEF StepFor
    <3>2. \A h \in ActiveRows(k) : row[h].test
      BY <3>1 DEF Agreement, CopiesClear
    <3>3. ASSUME ~row'[f].test PROVE FALSE
      <4>1. Underway(f)'
        BY <2>1, <3>3 DEF Underway
      <4>2. Underway(f) /\ row'[f].job = row[f].job
        BY <2>1, <4>1 DEF Moves, Begins, Continues, Spares
      <4> QED  BY <2>1, <3>2, <4>2 DEF ActiveRows, Underway
    <3> QED  BY <3>3
  <2>2. \A k \in Job : pass'.seen[k].state \notin Active
    BY DEF StepFor, Agreement, CopiesClear
  <2>3. pass'.jobs => pass'.listed = {}
    BY DEF StepFor, Agreement, CopiesClear
  <2> QED  BY <2>1, <2>2, <2>3 DEF CopiesClear, ActiveRows
<1> QED  BY <1>1, <1>2, <1>3 DEF Agreement

\* What a step of the pass for job j may put in its place.
LEMMA ToStep ==
  ASSUME PassOK, Agreement, NEW j \in Job, NEW s, pass.step[j] # "out", pass' = To(j, s)
  PROVE  StepFor(j)
<1>1. pass'.jobs = pass.jobs /\ pass'.listed = pass.listed /\ pass'.seen = pass.seen
  BY DEF To, PassOK, PassRecord
<1>2. \A k \in Job : k # j => pass'.step[k] = pass.step[k]
  BY DEF To, PassOK, PassRecord
<1> QED  BY <1>1, <1>2 DEF StepFor, Agreement, CopiesClear

LEMMA SeenStep ==
  ASSUME PassOK, Agreement, NEW j \in Job, NEW s, NEW b, pass.step[j] # "out", b.state \notin Active,
         pass' = [To(j, s) EXCEPT !.seen[j] = b]
  PROVE  StepFor(j)
<1>1. pass'.jobs = pass.jobs /\ pass'.listed = pass.listed
  BY DEF To, PassOK, PassRecord
<1>2. \A k \in Job : k # j => pass'.step[k] = pass.step[k] /\ pass'.seen[k] = pass.seen[k]
  BY DEF To, PassOK, PassRecord
<1>3. pass'.seen[j] = b
  BY DEF To, PassOK, PassRecord
<1> QED  BY <1>1, <1>2, <1>3 DEF StepFor

LEMMA UseStep ==
  ASSUME PassOK, Agreement, NEW j \in Job, NEW s, NEW a, pass.step[j] # "out",
         pass' = [To(j, s) EXCEPT !.use[j] = a]
  PROVE  StepFor(j)
<1>1. pass'.jobs = pass.jobs /\ pass'.listed = pass.listed /\ pass'.seen = pass.seen
  BY DEF To, PassOK, PassRecord
<1>2. \A k \in Job : k # j => pass'.step[k] = pass.step[k]
  BY DEF To, PassOK, PassRecord
<1> QED  BY <1>1, <1>2 DEF StepFor, Agreement, CopiesClear

LEMMA DoneStep ==
  ASSUME PassOK, Agreement, NEW j \in Job, pass' = Done(j)
  PROVE  StepFor(j) /\ pass'.step[j] = "out"
<1>1. pass'.jobs = pass.jobs /\ pass'.listed = pass.listed
  BY DEF Done, To, PassOK, PassRecord
<1>2. pass'.step[j] = "out" /\ \A k \in Job : k # j => pass'.step[k] = pass.step[k]
  BY DEF Done, To, PassOK, PassRecord
<1>3. pass'.seen[j] = FirstBody(j) /\ \A k \in Job : k # j => pass'.seen[k] = pass.seen[k]
  BY DEF Done, To, PassOK, PassRecord
<1> QED  BY <1>1, <1>2, <1>3, ActiveSets DEF StepFor, FirstBody

LEMMA WritesStep ==
  ASSUME StoreOK, PassOK, Agreement, NEW j \in Job, NEW b, b.state \notin Active, NEW next,
         pass' = next => StepFor(j), Writes(j, b, next)
  PROVE  Agreement' /\ Settles
<1>1. CASE Save(j, b) /\ pass' = next
  BY <1>1, SaveMoves, JobStep DEF Agreement
<1>2. CASE pass' = NoPass /\ UNCHANGED store
  BY <1>2, NothingMoves, LastStep DEF Agreement
<1> QED  BY <1>1, <1>2 DEF Writes

LEMMA PutsBackStep ==
  ASSUME StoreOK, PassOK, Agreement, NEW j \in Job, PutsBack(j)
  PROVE  Agreement' /\ Settles
<1>1. [pass.seen[j] EXCEPT !.state = "WAITING"].state \notin Active
  BY ActiveSets DEF PassOK, PassRecord, Body
<1>2. CASE Writes(j, [pass.seen[j] EXCEPT !.state = "WAITING"], Done(j))
  BY <1>1, <1>2, DoneStep, WritesStep
<1>3. CASE pass' = Done(j) /\ UNCHANGED store
  BY <1>3, DoneStep, NothingMoves, JobStep DEF Agreement
<1> QED  BY <1>2, <1>3 DEF PutsBack

\* The job of a copy that the pass still works on is not in the state of an execution.
LEMMA BodyClear ==
  ASSUME Agreement, NEW j \in Job, pass.jobs, pass.step[j] # "out"
  PROVE  body[j].state \notin Active
BY DEF Agreement, CopiesClear, Tables, JobFollowsReceipt

LEMMA OfJobAgrees ==
  ASSUME StoreOK, PassOK, Agreement, NEW j \in Job, OfJob(j)
  PROVE  Agreement' /\ Settles
<1>0. /\ pass.seen[j].state \notin Active /\ pass.seen[j] \in Body /\ body[j] \in Body
      /\ pass.seen[j].event \in 0..MaxEvents /\ Selected(j) \in Account \cup {NoAccount}
  BY SeenType DEF Agreement, CopiesClear
<1>1. CASE ParkListed(j) \/ Park(j)
  BY <1>1, PutsBackStep DEF ParkListed, Park
<1>2. CASE \E a \in Account \cup {NoAccount} : Choose(j, a)
  BY <1>2, UseStep, NothingMoves, JobStep DEF Choose, On, Agreement
<1>3. CASE \E v \in Event : Rearm(j, v)
  <2>1. PICK v \in Event : Rearm(j, v)
    BY <1>3
  <2> DEFINE b == [pass.seen[j] EXCEPT !.event = v, !.account = pass.use[j]]
             next == IF On(j, "verify") THEN "rearmed" ELSE "final"
  <2>2. Writes(j, b, [To(j, next) EXCEPT !.seen[j] = b]) /\ pass.step[j] # "out"
    BY <2>1 DEF Rearm, On
  <2>3. b.state \notin Active
    BY <1>0 DEF Body
  <2> HIDE DEF b, next
  <2>4. pass' = [To(j, next) EXCEPT !.seen[j] = b] => StepFor(j)
    BY <2>2, <2>3, SeenStep
  <2> QED  BY <2>2, <2>3, <2>4, WritesStep
<1>4. CASE Probe(j) \/ Wait(j)
  <2>1. /\ pass.jobs /\ pass.step[j] # "out" /\ UNCHANGED store
        /\ \E s : pass' = [To(j, s) EXCEPT !.seen[j] = body[j]]
    BY <1>4 DEF Probe, Wait, On, Deciding
  <2> QED  BY <2>1, BodyClear, SeenStep, NothingMoves, JobStep DEF Agreement
<1>5. CASE SaveProbe(j)
  <2>1. pass' = To(j, "decide") => StepFor(j)
    BY <1>5, ToStep DEF SaveProbe, On
  <2> QED  BY <1>0, <1>5, <2>1, WritesStep DEF SaveProbe
<1>6. CASE Skip(j)
  BY <1>6, DoneStep, NothingMoves, JobStep DEF Skip, Agreement
<1>7. CASE \E e \in Exec : ClaimDue(j, e)
  <2>1. PICK e \in Exec : ClaimDue(j, e)
    BY <1>7
  <2>2. Begins(j)
    BY <1>0, <2>1, ClaimFirstBegins, RetryBegins DEF ClaimDue, Agreement
  <2> QED  BY <2>1, <2>2, DoneStep, JobStep DEF ClaimDue
<1>8. CASE \E e \in Exec : SettleMissed(j, e)
  <2>1. PICK e \in Exec : SettleMissed(j, e)
    BY <1>8
  <2>2. \A f \in ActiveRows(j) : row[f].test
    BY <2>1 DEF SettleMissed, Deciding, Agreement, CopiesClear
  <2>3. Moves
    BY <1>0, <2>1, <2>2, SettleMoves DEF SettleMissed, Agreement
  <2> QED  BY <2>1, <2>3, DoneStep, JobStep DEF SettleMissed
<1>9. CASE ParkVerified(j)
  <2> DEFINE b == [pass.seen[j] EXCEPT !.state = "WAITING", !.account = pass.use[j]]
  <2>1. Writes(j, b, Done(j)) /\ pass.jobs /\ pass.step[j] # "out"
    BY <1>9 DEF ParkVerified
  <2>2. b.state \notin Active
    BY <1>0, ActiveSets DEF Body
  <2> HIDE DEF b
  <2> QED  BY <2>1, <2>2, DoneStep, WritesStep
<1> QED  BY <1>1, <1>2, <1>3, <1>4, <1>5, <1>6, <1>7, <1>8, <1>9 DEF OfJob

\* The pass takes the expired receipts in hand, and then the jobs.
LEMMA BeginPassAgrees ==
  ASSUME StoreOK, Agreement, BeginPass
  PROVE  Agreement' /\ Settles
<1>1. Moves
  BY NothingMoves DEF Agreement, BeginPass
<1>2. /\ pass'.listed = {e \in Exec : row[e].state \in Worked /\ row[e].lease = "expired"}
      /\ pass'.jobs = FALSE /\ pass'.seen = NoPass.seen
  BY DEF BeginPass, NoPass
<1>3. ListedLapsed'
  BY <1>2 DEF ListedLapsed, BeginPass, store
<1>4. CopiesClear'
  BY <1>2, NoPassFields DEF CopiesClear
<1> QED  BY <1>1, <1>3, <1>4 DEF Agreement, Moves

LEMMA ListJobsAgrees ==
  ASSUME StoreOK, PassOK, Agreement, ListJobs
  PROVE  Agreement' /\ Settles
<1>1. Moves
  BY NothingMoves DEF Agreement, ListJobs
<1>2. pass'.listed = {}
  BY DEF ListJobs, PassOK, PassRecord
<1>3. \A j \in Job : /\ pass'.seen[j] = IF Scheduled(j) THEN body[j] ELSE FirstBody(j)
                     /\ pass'.step[j] = IF Scheduled(j) THEN "listed" ELSE "out"
  BY DEF ListJobs, PassOK, PassRecord
<1>4. \A j \in Job : pass'.seen[j].state \notin Active
  <2>1. \A j \in Job : FirstBody(j).state \notin Active
    BY ActiveSets DEF FirstBody
  <2>2. \A j \in Job : Scheduled(j) => body[j].state \notin Active
    BY DEF Scheduled
  <2> QED  BY <1>3, <2>1, <2>2
<1>5. \A j \in Job : pass'.step[j] # "out" => \A e \in ActiveRows(j) : row[e].test
  BY <1>3 DEF Scheduled, Agreement, Tables, JobFollowsReceipt, ActiveRows
<1>6. \A j \in Job : ActiveRows(j)' = ActiveRows(j)
  BY DEF ListJobs, store, ActiveRows
<1>7. CopiesClear'
  BY <1>2, <1>4, <1>5, <1>6 DEF CopiesClear, ListJobs, store
<1>8. ListedLapsed'
  BY <1>2 DEF ListedLapsed
<1> QED  BY <1>1, <1>7, <1>8 DEF Agreement, Moves

\* A listed receipt is recovered while its lease is still the expired one.
LEMMA RecoverListedAgrees ==
  ASSUME StoreOK, PassOK, Agreement, NEW e \in Exec, RecoverListed(e)
  PROVE  Agreement' /\ Settles
<1>1. /\ pass'.listed = pass.listed \ {e} /\ pass'.jobs = pass.jobs
      /\ pass'.seen = pass.seen /\ pass'.step = pass.step
  BY DEF RecoverListed, PassOK, PassRecord
<1>2. row[e].state \in Worked /\ ~pass.jobs
  BY DEF RecoverListed, Agreement, ListedLapsed, CopiesClear
<1>3. Tables' /\ LeavesBut(e) /\ Settles
  <2>1. CASE CanRecover(e)
    <3>1. PICK seen \in Observable(e) : Recover(e, seen)
      BY <2>1 DEF RecoverListed
    <3>2. seen \in BOOLEAN
      BY DEF Observable
    <3> QED  BY <1>2, <2>1, <3>1, <3>2, RecoverMoves DEF Agreement
  <2>2. CASE ~CanRecover(e)
    <3>1. UNCHANGED store
      BY <2>2 DEF RecoverListed
    <3> QED  BY <3>1, NothingMoves DEF Agreement, Moves, LeavesLapsed, LeavesBut
  <2> QED  BY <2>1, <2>2
<1>4. ListedLapsed'
  BY <1>1, <1>3 DEF ListedLapsed, LeavesBut, Agreement, PassOK, PassRecord
<1>5. CopiesClear'
  BY <1>1, <1>2 DEF CopiesClear, Agreement
<1> QED  BY <1>3, <1>4, <1>5 DEF Agreement

LEMMA PassAgrees ==
  ASSUME StoreOK, PassOK, Agreement, Pass
  PROVE  Agreement' /\ Settles
<1>1. CASE EndPass
  BY <1>1, NothingMoves, LastStep DEF EndPass, Agreement
<1> QED
  BY <1>1, BeginPassAgrees, ListJobsAgrees, RecoverListedAgrees, OfJobAgrees DEF Pass

-----------------------------------------------------------------------------
(* The operator, the clock, and the two programs. *)

LEMMA OperatorAgrees ==
  ASSUME StoreOK, PassOK, Agreement, Operator
  PROVE  Agreement' /\ Settles
<1> USE ActiveSets DEF procs
<1>0. Tables
  BY DEF Agreement
<1>1. ASSUME NEW j \in Job, NEW v, NEW a, Arm(j, v, a) PROVE Moves /\ pass' = pass
  <2> DEFINE b == [enabled |-> TRUE, state |-> "ARMED", event |-> v, account |-> a]
  <2>1. Save(j, b) /\ b.state \notin Active
    BY <1>1 DEF Arm
  <2> HIDE DEF b
  <2> QED  BY <1>0, <1>1, <2>1, SaveMoves DEF Arm
<1>2. ASSUME NEW j \in Job, Disarm(j) PROVE Moves /\ pass' = pass
  <2> DEFINE b == [body[j] EXCEPT !.enabled = FALSE, !.state = "DISABLED"]
  <2>1. Save(j, b) /\ b.state \notin Active
    BY <1>2 DEF Disarm, StoreOK, Body
  <2> HIDE DEF b
  <2> QED  BY <1>0, <1>2, <2>1, SaveMoves DEF Disarm
<1>3. ASSUME NEW j \in Job, NEW e \in Exec, TestNow(j, e) PROVE Moves /\ pass' = pass
  BY <1>0, <1>3, ClaimTestMoves DEF TestNow
<1>4. ASSUME NEW e \in Exec, Resolve(e) PROVE Moves /\ pass' = pass
  BY <1>0, <1>4, ResolveMoves DEF Resolve
<1> QED
  <2>1. ASSUME NEW j \in Job,
               \/ \E v \in 0..MaxEvents, a \in Account \cup {AutoAccount} : Arm(j, v, a)
               \/ Disarm(j)
               \/ \E e \in Exec : TestNow(j, e)
        PROVE  Moves /\ pass' = pass
    BY <1>1, <1>2, <1>3, <2>1
  <2>2. Moves /\ pass' = pass
    BY <1>4, <2>1 DEF Operator
  <2> QED  BY <2>2, OtherStep

LEMMA WorldAgrees ==
  ASSUME StoreOK, PassOK, Agreement,
         \/ \E j \in Job, v \in Event : TimePasses(j, v)
         \/ \E e \in Exec : LeaseExpires(e)
         \/ OperatorDies \/ BridgeDies \/ Stop \/ Exit \/ Start
  PROVE  Agreement' /\ Settles
<1>0. Tables
  BY DEF Agreement
<1>1. CASE \E e \in Exec : LeaseExpires(e)
  BY <1>0, <1>1, LapseMoves, OtherStep DEF LeaseExpires, procs
<1>2. CASE (\E j \in Job, v \in Event : TimePasses(j, v)) \/ OperatorDies \/ Stop \/ Start
  <2>1. UNCHANGED store /\ pass' = pass
    BY <1>2 DEF TimePasses, OperatorDies, Stop, Start, procs
  <2> QED  BY <1>0, <2>1, NothingMoves, OtherStep
<1>3. CASE BridgeDies \/ Exit
  BY <1>0, <1>3, NothingMoves, LastStep DEF BridgeDies, Exit
<1> QED  BY <1>1, <1>2, <1>3

-----------------------------------------------------------------------------
(* The theorems. *)

LEMMA InitAgrees == Init => Agreement
<1> SUFFICES ASSUME Init PROVE Agreement
  OBVIOUS
<1>1. /\ \A e \in Exec : row[e].state = "NONE"
      /\ \A a \in Account : holder[a] = 0
      /\ \A j \in Job : body[j].state = "ARMED"
      /\ pass = NoPass
  BY DEF Init, NoRow, FirstBody
<1>2. Tables
  BY <1>1, ActiveSets
     DEF Tables, OneActivePerJob, AccountIsExclusive, JobFollowsReceipt, Placed, ActiveRows
<1>3. ListedLapsed /\ CopiesClear
  BY <1>1, NoPassFields DEF ListedLapsed, CopiesClear
<1> QED  BY <1>2, <1>3 DEF Agreement

LEMMA AgreementStep ==
  ASSUME ~StaleClock, TypeOK, Agreement, [Next]_vars
  PROVE  Agreement' /\ Settles
<1>0. StoreOK /\ PassOK /\ Tables
  BY Parts DEF Agreement
<1>1. ASSUME NEW e \in Exec, NEW g \in Gen, Delivery(e, g) \/ AgentEnds(e, g)
      PROVE  Agreement' /\ Settles
  BY <1>0, <1>1, DeliveryMoves, OtherStep
<1>2. CASE UNCHANGED vars
  <2>1. UNCHANGED store /\ pass' = pass
    BY <1>2 DEF vars, store
  <2> QED  BY <1>0, <2>1, NothingMoves, OtherStep
<1> QED
  BY <1>0, <1>1, <1>2, PassAgrees, OperatorAgrees, WorldAgrees DEF Next

LEMMA AgreementHolds ==
  ASSUME ~StaleClock
  PROVE  Spec => [](TypeOK /\ Agreement)
<1>1. Init => TypeOK /\ Agreement
  BY InitType, InitAgrees
<1>2. TypeOK /\ Agreement /\ [Next]_vars => (TypeOK /\ Agreement)'
  BY TypeStep, AgreementStep
<1> QED  BY <1>1, <1>2, PTL DEF Spec

\* However the passes, the deliveries, the operator's edits and tests, the crashes and
\* the recoveries interleave: a job has at most one execution in progress.
THEOREM OneExecutionPerJob ==
  ASSUME ~StaleClock
  PROVE  Spec => []OneActivePerJob
<1>1. Agreement => OneActivePerJob
  BY DEF Agreement, Tables
<1> QED  BY <1>1, AgreementHolds, PTL

\* An account is reserved by a receipt on its way to a launch and by no other, and such
\* a receipt keeps its reservation while its lease lives: of two jobs that select the
\* same account, only one launches.
THEOREM ReservationsAreSound ==
  ASSUME ~StaleClock
  PROVE  Spec => []AccountIsExclusive
<1>1. Agreement => AccountIsExclusive
  BY DEF Agreement, Tables
<1> QED  BY <1>1, AgreementHolds, PTL

\* A job shows the state of its scheduled execution and of nothing else, although the
\* pass writes jobs back from copies it read several transactions before.
THEOREM JobsFollowReceipts ==
  ASSUME ~StaleClock
  PROVE  Spec => []JobFollowsReceipt
<1>1. Agreement => JobFollowsReceipt
  BY DEF Agreement, Tables
<1> QED  BY <1>1, AgreementHolds, PTL

\* A receipt that has ended stays as it ended: a late delivery, a recovery and a retry
\* of its event all leave it alone.
THEOREM EndsAreFinal ==
  ASSUME ~StaleClock
  PROVE  Spec => TerminalIsFinal
<1> DEFINE Final == \A e \in Exec : row[e].state \in Terminal => row'[e].state = row[e].state
<1>1. TypeOK /\ Agreement /\ [Next]_vars => [Final]_vars
  BY AgreementStep DEF Settles
<1>2. Spec => [][Final]_vars
  BY <1>1, AgreementHolds, PTL DEF Spec
<1> QED  BY <1>2 DEF TerminalIsFinal
=============================================================================
