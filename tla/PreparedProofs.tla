---------------------------- MODULE PreparedProofs ----------------------------
(***************************************************************************)
(* What each transaction of PreparedStore does to the tables, the type     *)
(* invariant of PreparedWorker, and why a payload is never written twice.  *)
(*                                                                         *)
(* A transaction changes one receipt at most.  Each lemma of the first     *)
(* part gives the type of the tables after one of them, and those fields   *)
(* of its receipt that the invariants are about.                           *)
(*                                                                         *)
(* A delivery is out from the moment it has its process on record until    *)
(* the end.  Committing takes a receipt in LAUNCHING, and a receipt with a *)
(* process on record never returns there, whatever happens to its owner:   *)
(* so one delivery of a receipt can be out.  And an event, or a ONE_SHOT   *)
(* job, has one receipt that could be delivered.                           *)
(***************************************************************************)
EXTENDS PreparedWorker, TLAPS

StoreOK ==
  /\ body \in [Job -> Body]
  /\ row \in [Exec -> Row]
  /\ holder \in [Account -> 0..MaxExecs]

\* Only receipt e changes, and not what it is a receipt of.
Only(e)  == \A f \in Exec \ {e} : row'[f] = row[f]
Same(e)  == row'[e].job = row[e].job /\ row'[e].event = row[e].event /\ row'[e].test = row[e].test

LEMMA Sets ==
  /\ ExecState = {"CLAIMED", "PREPARING", "LAUNCHING", "DELIVERING", "VERIFYING", "RUNNING",
       "RECOVERY_REQUIRED", "DONE", "FAILED_TERMINAL", "MISSED", "CANCELLED", "FAILED_RETRYABLE"}
  /\ ExecState \subseteq BodyState /\ {"ARMED", "WAITING", "DISABLED"} \subseteq BodyState
  /\ Worked \subseteq ExecState
BY DEF ExecState, BodyState, Active, Worked, Launching, Terminal

LEMMA NextGenType == \A g \in 0..MaxGen : NextGen(g) \in Gen /\ NextGen(g) \in 0..MaxGen
BY StoreAssumption DEF NextGen, Gen

LEMMA ReleaseType ==
  ASSUME StoreOK, NEW e \in Exec
  PROVE  Release(e) \in [Account -> 0..MaxExecs]
BY StoreAssumption DEF StoreOK, Release, Exec

LEMMA RearmedType ==
  ASSUME NEW b \in Body
  PROVE  Rearmed(b) \in Body
<1>1. PICK c : c = Rearmed(b)
  OBVIOUS
<1>2. c = [enabled |-> c.enabled, state |-> c.state, event |-> c.event, account |-> c.account]
  BY <1>1 DEF Rearmed, Body
<1>3. c.enabled = b.enabled /\ c.state = "ARMED" /\ c.event = 0 /\ c.account = b.account
  BY <1>1 DEF Rearmed, Body
<1> QED  BY <1>1, <1>2, <1>3, Sets, StoreAssumption DEF Body

LEMMA FollowingType ==
  ASSUME NEW j \in Job, NEW b \in Body, NEW s \in ExecState
  PROVE  Following(j, b, s) \in Body
<1>1. PICK c : c = [b EXCEPT !.state = s, !.enabled = @ /\ s \notin Terminal]
  OBVIOUS
<1>2. c = [enabled |-> c.enabled, state |-> c.state, event |-> c.event, account |-> c.account]
  BY <1>1 DEF Body
<1>3. c.state = s /\ c.event = b.event /\ c.account = b.account
  BY <1>1 DEF Body
<1>4. c.enabled = (b.enabled /\ s \notin Terminal)
  BY <1>1 DEF Body
<1>5. c.enabled \in BOOLEAN
  BY <1>4
<1>6. c \in Body
  BY <1>2, <1>3, <1>5, Sets DEF Body
<1> QED  BY <1>1, <1>6, RearmedType DEF Following

\* The state of job j, when s is a state of its receipts.
LEMMA StateType ==
  ASSUME StoreOK, NEW j \in Job, NEW s \in BodyState
  PROVE  [body EXCEPT ![j].state = s] \in [Job -> Body]
BY DEF StoreOK, Body

LEMMA SaveType ==
  ASSUME StoreOK, NEW j \in Job, NEW b \in Body, Save(j, b)
  PROVE  StoreOK' /\ row' = row
BY DEF StoreOK, Save

\* A receipt r of the tables that becomes c.
LEMMA RowType ==
  ASSUME StoreOK, NEW e \in Exec, NEW c \in Row, row' = [row EXCEPT ![e] = c]
  PROVE  row' \in [Exec -> Row] /\ Only(e) /\ row'[e] = c
BY DEF StoreOK, Only

LEMMA ClaimedType ==
  ASSUME NEW r \in Row, NEW a \in Account, NEW c, c = Claimed(r, a)
  PROVE  /\ c \in Row /\ c.state = "CLAIMED" /\ c.launched = r.launched
         /\ c.job = r.job /\ c.event = r.event /\ c.test = r.test
<1>1. c = [state |-> c.state, job |-> c.job, event |-> c.event, test |-> c.test, gen |-> c.gen,
           lease |-> c.lease, launched |-> c.launched, account |-> c.account]
  BY DEF Claimed, Row
<1>2. /\ c.state = "CLAIMED" /\ c.launched = r.launched /\ c.gen = NextGen(r.gen)
      /\ c.lease = "live" /\ c.account = a
      /\ c.job = r.job /\ c.event = r.event /\ c.test = r.test
  BY DEF Claimed, Row
<1>3. c.gen \in 0..MaxGen
  BY <1>2, NextGenType DEF Row
<1> QED  BY <1>1, <1>2, <1>3, Sets DEF Row

LEMMA RetryType ==
  ASSUME StoreOK, NEW e \in Exec, NEW j \in Job, NEW v,
         NEW a \in Account \cup {NoAccount}, Retry(e, j, v, a)
  PROVE  /\ StoreOK' /\ Only(e) /\ Same(e)
         /\ row[e].state = "FAILED_RETRYABLE" /\ ~row[e].launched
         /\ row'[e].state = "CLAIMED" /\ ~row'[e].launched
<1> DEFINE account == ClaimAccount(j, a)
<1>1. account \in Account
  BY StoreAssumption DEF ClaimAccount, Retry, CanRetry, Claimable, StoreOK, Body
<1>2. PICK c : c = Claimed(row[e], account)
  OBVIOUS
<1>3. row[e] \in Row
  BY DEF StoreOK
<1>4. /\ c \in Row /\ c.state = "CLAIMED" /\ c.launched = row[e].launched
      /\ c.job = row[e].job /\ c.event = row[e].event /\ c.test = row[e].test
  BY <1>1, <1>2, <1>3, ClaimedType
<1>5. row' = [row EXCEPT ![e] = c]
  BY <1>2 DEF Retry
<1>6. body' \in [Job -> Body]
  BY StateType, Sets DEF Retry
<1>7. holder' \in [Account -> 0..MaxExecs]
  BY <1>1, ReleaseType, StoreAssumption DEF Retry, Exec
<1>8. row[e].state = "FAILED_RETRYABLE" /\ ~row[e].launched
  BY DEF Retry, CanRetry, Retryable
<1> QED  BY <1>4, <1>5, <1>6, <1>7, <1>8, RowType DEF StoreOK, Same

\* A receipt that is not one yet becomes c.
New(e) == e \in Fresh /\ Only(e) /\ ~row'[e].launched

LEMMA NewRowType ==
  ASSUME NEW j \in Job, NEW v \in 0..MaxEvents, NEW test \in BOOLEAN, NEW a \in Account \cup {NoAccount}
  PROVE  NewRow(j, v, test, a) \in Row
BY Sets, StoreAssumption DEF NewRow, Row

LEMMA ClaimFirstType ==
  ASSUME StoreOK, NEW e \in Exec, NEW j \in Job, NEW v \in 0..MaxEvents,
         NEW a \in Account \cup {NoAccount}, ClaimFirst(e, j, v, a)
  PROVE  /\ StoreOK' /\ New(e) /\ Receipts(j, v) = {}
         /\ j \in Recurring \/ Prior(j) = {}
         /\ row'[e].state = "CLAIMED" /\ row'[e].job = j /\ row'[e].event = v
<1> DEFINE account == ClaimAccount(j, a)
<1>1. account \in Account
  BY StoreAssumption DEF ClaimAccount, ClaimFirst, CanClaimFirst, Claimable, StoreOK, Body
<1>2. NewRow(j, v, FALSE, account) \in Row
  BY <1>1, NewRowType
<1>3. row' = [row EXCEPT ![e] = NewRow(j, v, FALSE, account)]
  BY DEF ClaimFirst
<1>4. body' \in [Job -> Body]
  BY StateType, Sets DEF ClaimFirst
<1>5. holder' \in [Account -> 0..MaxExecs]
  BY <1>1, StoreAssumption DEF ClaimFirst, StoreOK, Exec
<1>6. e \in Fresh /\ Receipts(j, v) = {}
  BY DEF ClaimFirst, CanClaimFirst
<1>7. j \in Recurring \/ Prior(j) = {}
  BY <1>6 DEF ClaimFirst, CanClaimFirst, Claimable, Retryable
<1> QED  BY <1>2, <1>3, <1>4, <1>5, <1>6, <1>7, RowType DEF StoreOK, New, NewRow

LEMMA ClaimTestType ==
  ASSUME StoreOK, NEW e \in Exec, NEW j \in Job, ClaimTest(e, j)
  PROVE  /\ StoreOK' /\ New(e) /\ row'[e].test /\ row'[e].state = "CLAIMED"
         /\ body[j].account \in Account
<1>1. body[j].account \in Account
  BY DEF ClaimTest, StoreOK, Body
<1>2. NewRow(j, 0, TRUE, body[j].account) \in Row
  <2>1. 0 \in 0..MaxEvents
    BY StoreAssumption
  <2> QED  BY <1>1, <2>1, NewRowType
<1>3. row' = [row EXCEPT ![e] = NewRow(j, 0, TRUE, body[j].account)]
  BY DEF ClaimTest
<1>4. holder' \in [Account -> 0..MaxExecs] /\ body' = body
  BY <1>1, StoreAssumption DEF ClaimTest, StoreOK, Exec
<1>5. e \in Fresh
  BY DEF ClaimTest
<1> QED  BY <1>1, <1>2, <1>3, <1>4, <1>5, RowType DEF StoreOK, New, NewRow

\* The receipt of a settled event, which nothing changes any more.
Settled(r) == r.state = "MISSED" /\ r.lease = "none" /\ ~r.launched

LEMMA SettleType ==
  ASSUME StoreOK, NEW e \in Exec, NEW j \in Job, NEW v \in 0..MaxEvents, Settle(e, j, v)
  PROVE  /\ StoreOK' /\ New(e) /\ Receipts(j, v) = {}
         /\ Settled(row'[e]) /\ row'[e].job = j /\ row'[e].event = v
<1>1. PICK c : c = [NewRow(j, v, FALSE, NoAccount) EXCEPT !.state = "MISSED", !.lease = "none"]
  OBVIOUS
<1>2. c = [state |-> "MISSED", job |-> j, event |-> v, test |-> FALSE, gen |-> 1,
           lease |-> "none", launched |-> FALSE, account |-> NoAccount]
  BY <1>1 DEF NewRow
<1>3. c \in Row
  BY <1>2, Sets, StoreAssumption DEF Row
<1>4. row' = [row EXCEPT ![e] = c]
  BY <1>1 DEF Settle
<1>5. \A b \in Body : Rearmed(b) \in Body /\ Following(j, b, "MISSED") \in Body
  BY RearmedType, FollowingType, Sets
<1>6. body' \in [Job -> Body]
  BY <1>5 DEF Settle, StoreOK
<1>7. holder' = holder /\ e \in Fresh /\ Receipts(j, v) = {}
  BY DEF Settle, CanSettle
<1> QED  BY <1>2, <1>3, <1>4, <1>6, <1>7, RowType DEF StoreOK, New, Settled

LEMMA AdvanceType ==
  ASSUME StoreOK, NEW e \in Exec, NEW g, NEW from \in Worked, NEW s \in ExecState,
         Owns(e, g, from), Advance(e, s)
  PROVE  /\ StoreOK' /\ Only(e) /\ Same(e)
         /\ row[e].state = from /\ row'[e].state = s /\ row'[e].lease # "none"
         /\ row'[e].launched = (row[e].launched \/ s = "DELIVERING")
<1>1. PICK l \in NewLease(e) : row' = [row EXCEPT ![e] = Advanced(@, s, l)]
  BY DEF Advance
<1>2. PICK c : c = Advanced(row[e], s, l)
  OBVIOUS
<1>3. row[e] \in Row
  BY DEF StoreOK
<1>4. c = [state |-> c.state, job |-> c.job, event |-> c.event, test |-> c.test, gen |-> c.gen,
           lease |-> c.lease, launched |-> c.launched, account |-> c.account]
  BY <1>2, <1>3 DEF Row, Advanced
<1>5. /\ c.state = s /\ c.lease = l /\ c.gen = row[e].gen /\ c.account = row[e].account
      /\ c.job = row[e].job /\ c.event = row[e].event /\ c.test = row[e].test
  BY <1>2, <1>3 DEF Row, Advanced
<1>6. c.launched = (row[e].launched \/ s = "DELIVERING")
  BY <1>2, <1>3 DEF Row, Advanced
<1>7. l \in {"live", "expired"} /\ c.launched \in BOOLEAN
  BY <1>6 DEF NewLease
<1>8. c \in Row
  BY <1>3, <1>4, <1>5, <1>7, Sets DEF Row
<1>9. row' \in [Exec -> Row] /\ Only(e) /\ row'[e] = c
  <2>1. row' = [row EXCEPT ![e] = c]
    BY <1>1, <1>2
  <2> QED  BY <1>8, <2>1, RowType
<1>10. holder' \in [Account -> 0..MaxExecs]
  BY ReleaseType DEF Advance, StoreOK
<1>11. body' \in [Job -> Body]
  BY <1>3, FollowingType DEF Advance, StoreOK, Row
<1>12. row[e].state = from
  BY DEF Owns
<1> QED  BY <1>5, <1>6, <1>7, <1>9, <1>10, <1>11, <1>12 DEF StoreOK, Same

\* A change of the lease alone.
LEMMA LeaseType ==
  ASSUME StoreOK, NEW e \in Exec, NEW l \in {"live", "expired"}, row' = [row EXCEPT ![e].lease = l]
  PROVE  /\ row' \in [Exec -> Row] /\ Only(e) /\ Same(e)
         /\ row'[e].state = row[e].state /\ row'[e].launched = row[e].launched
         /\ row'[e].lease = l
<1>1. row[e] \in Row
  BY DEF StoreOK
<1> QED  BY <1>1 DEF StoreOK, Row, Only, Same

LEMMA RenewType ==
  ASSUME StoreOK, NEW e \in Exec, NEW g, Renew(e, g)
  PROVE  /\ StoreOK' /\ Only(e) /\ Same(e)
         /\ row[e].state \in Worked /\ row'[e].lease # "none"
         /\ row'[e].state = row[e].state /\ row'[e].launched = row[e].launched
<1>1. PICK l \in NewLease(e) : row' = [row EXCEPT ![e].lease = l]
  BY DEF Renew
<1>2. l \in {"live", "expired"}
  BY DEF NewLease
<1>3. row[e].state \in Worked /\ body' = body /\ holder' = holder
  BY DEF Renew
<1> QED  BY <1>1, <1>2, <1>3, LeaseType DEF StoreOK

LEMMA RecoverType ==
  ASSUME StoreOK, NEW e \in Exec, NEW seen \in BOOLEAN, CanRecover(e), Recover(e, seen)
  PROVE  /\ StoreOK' /\ Only(e) /\ Same(e)
         /\ row'[e].state = Recovered(row[e], seen) /\ row'[e].launched = row[e].launched
         /\ row[e].lease = "expired" /\ row'[e].lease = "live"
<1> DEFINE s == Recovered(row[e], seen)
<1>1. s \in ExecState
  BY Sets DEF Recovered
<1>2. PICK c : c = TakenOver(row[e], seen)
  OBVIOUS
<1>3. row[e] \in Row
  BY DEF StoreOK
<1>4. c = [state |-> c.state, job |-> c.job, event |-> c.event, test |-> c.test, gen |-> c.gen,
           lease |-> c.lease, launched |-> c.launched, account |-> c.account]
  BY <1>2, <1>3 DEF Row, TakenOver
<1>5. /\ c.state = s /\ c.lease = "live" /\ c.gen = NextGen(row[e].gen)
      /\ c.account = row[e].account /\ c.launched = row[e].launched
      /\ c.job = row[e].job /\ c.event = row[e].event /\ c.test = row[e].test
  BY <1>2, <1>3 DEF Row, TakenOver
<1>6. c.gen \in 0..MaxGen
  BY <1>3, <1>5, NextGenType DEF Row
<1>7. c \in Row
  BY <1>1, <1>3, <1>4, <1>5, <1>6 DEF Row
<1>8. row' = [row EXCEPT ![e] = c]
  BY <1>2 DEF Recover
<1>9. holder' \in [Account -> 0..MaxExecs]
  <2>1. holder' = IF Resumes(e) THEN [holder EXCEPT ![row[e].account] = e] ELSE Release(e)
    BY Zenon DEF Recover
  <2>2. e \in 0..MaxExecs
    BY StoreAssumption DEF Exec
  <2>3. [holder EXCEPT ![row[e].account] = e] \in [Account -> 0..MaxExecs]
    BY <2>2 DEF StoreOK
  <2> QED  BY <2>1, <2>3, ReleaseType
<1>10. body' \in [Job -> Body]
  BY <1>1, <1>3, StateType, Sets DEF Recover, StoreOK, Row
<1> QED  BY <1>5, <1>7, <1>8, <1>9, <1>10, RowType DEF StoreOK, Same, CanRecover

LEMMA ResolveType ==
  ASSUME StoreOK, NEW e \in Exec, ResolveTest(e)
  PROVE  /\ StoreOK' /\ Only(e) /\ Same(e)
         /\ row[e].state = "RECOVERY_REQUIRED" /\ row'[e].state = "CANCELLED"
         /\ row'[e].launched = row[e].launched /\ row'[e].lease = row[e].lease
<1>1. row[e] \in Row
  BY DEF StoreOK
<1> QED  BY <1>1, Sets DEF StoreOK, ResolveTest, Row, Only, Same
-----------------------------------------------------------------------------
(* The type invariant. *)

ThreadOK == thread \in [Exec -> [Gen -> Thread]]
AgentOK  == agent \in [Exec -> [Gen -> AgentState]]
PassOK   == pass \in PassRecord
BridgeOK == bridge \in {"up", "closing", "down"}
PhaseOK  == phase \in [Job -> [Event -> Phase]]
CountOK  == edits \in 0..MaxEdits /\ faults \in 0..MaxFaults

LEMMA Parts ==
  /\ TypeOK => StoreOK /\ ThreadOK /\ AgentOK /\ PassOK /\ BridgeOK /\ PhaseOK /\ CountOK
  /\ StoreOK' /\ ThreadOK' /\ AgentOK' /\ PassOK' /\ BridgeOK' /\ PhaseOK' /\ CountOK' => TypeOK'
BY DEF TypeOK, StoreOK, ThreadOK, AgentOK, PassOK, BridgeOK, PhaseOK, CountOK

LEMMA FaultType ==
  ASSUME CountOK, Fault, edits' = edits
  PROVE  CountOK'
BY WorkerAssumption DEF CountOK, Fault

LEMMA EditType ==
  ASSUME CountOK, edits < MaxEdits, edits' = edits + 1, faults' = faults
  PROVE  CountOK'
BY WorkerAssumption DEF CountOK

\* One delivery moves.
LEMMA GoesType ==
  ASSUME ThreadOK, NEW e \in Exec, NEW g \in Gen, NEW pc \in ThreadPC, Goes(e, g, pc)
  PROVE  ThreadOK'
<1>1. thread[e][g] \in Thread /\ thread[e] \in [Gen -> Thread]
  BY DEF ThreadOK
<1>2. [thread[e][g] EXCEPT !.pc = pc] \in Thread
  BY <1>1 DEF Thread
<1>3. [thread[e] EXCEPT ![g] = [thread[e][g] EXCEPT !.pc = pc]] \in [Gen -> Thread]
  BY <1>1, <1>2
<1> QED  BY <1>3 DEF ThreadOK, Goes

LEMMA AsksType ==
  ASSUME StoreOK, ThreadOK, NEW e \in Exec, NEW g \in Gen, NEW from \in Worked, NEW to \in ExecState,
         NEW pc \in ThreadPC, Asks(e, g, from, to, pc)
  PROVE  StoreOK' /\ ThreadOK'
<1>1. CASE Owns(e, g, from)
  BY <1>1, AdvanceType, GoesType DEF Asks
<1>2. CASE ~Owns(e, g, from)
  BY <1>2, GoesType DEF Asks, StoreOK, store, ThreadPC
<1> QED  BY <1>1, <1>2

LEMMA AgentType ==
  ASSUME AgentOK, NEW e \in Exec, NEW g \in Gen, NEW k \in AgentState, agent' = [agent EXCEPT ![e][g] = k]
  PROVE  AgentOK'
BY DEF AgentOK

LEMMA PCs ==
  /\ {"gone", "preparing", "launching", "spawned", "committed", "sent", "verifying"} \subseteq ThreadPC
  /\ {"CLAIMED", "PREPARING", "LAUNCHING", "DELIVERING", "VERIFYING"} \subseteq Worked
  /\ {"none", "idle", "working", "finished", "killed"} \subseteq AgentState
BY DEF ThreadPC, Running, Worked, Launching, AgentState

LEMMA DeliveryType ==
  ASSUME TypeOK, NEW e \in Exec, NEW g \in Gen, Delivery(e, g) \/ AgentEnds(e, g)
  PROVE  TypeOK'
<1> USE PCs, Sets DEF world, procs
<1>0. StoreOK /\ ThreadOK /\ AgentOK /\ PassOK /\ BridgeOK /\ PhaseOK /\ CountOK
  BY Parts
<1>1. CASE Refuse(e, g)
  <2>1. StoreOK' /\ ThreadOK'
    BY <1>0, <1>1, AsksType DEF Refuse
  <2> QED  BY <1>0, <1>1, <2>1, Parts DEF Refuse, AgentOK, PassOK, BridgeOK, PhaseOK, CountOK
<1>2. CASE Postpone(e, g)
  <2>1. StoreOK' /\ ThreadOK'
    BY <1>0, <1>2, AsksType DEF Postpone
  <2>2. CountOK'
    BY <1>0, <1>2, FaultType DEF Postpone
  <2> QED  BY <1>0, <1>2, <2>1, <2>2, Parts DEF Postpone, AgentOK, PassOK, BridgeOK, PhaseOK
<1>3. CASE Prepare(e, g)
  <2>1. StoreOK' /\ ThreadOK'
    BY <1>0, <1>3, AsksType DEF Prepare
  <2> QED  BY <1>0, <1>3, <2>1, Parts DEF Prepare, AgentOK, PassOK, BridgeOK, PhaseOK, CountOK
<1>4. CASE Launch(e, g)
  <2>1. StoreOK' /\ ThreadOK'
    BY <1>0, <1>4, AsksType DEF Launch
  <2> QED  BY <1>0, <1>4, <2>1, Parts DEF Launch, AgentOK, PassOK, BridgeOK, PhaseOK, CountOK
<1>5. CASE Spawn(e, g)
  <2>1. ThreadOK' /\ AgentOK'
    BY <1>0, <1>5, GoesType, AgentType DEF Spawn
  <2> QED  BY <1>0, <1>5, <2>1, Parts DEF Spawn, StoreOK, store, PassOK, BridgeOK, PhaseOK, CountOK
<1>6. CASE \E k \in {"none", "killed"} : SpawnFails(e, g, k)
  <2>1. PICK k \in {"none", "killed"} : SpawnFails(e, g, k)
    BY <1>6
  <2>2. ThreadOK' /\ AgentOK'
    BY <1>0, <2>1, GoesType, AgentType DEF SpawnFails
  <2>3. CountOK'
    BY <1>0, <2>1, FaultType DEF SpawnFails
  <2> QED  BY <1>0, <2>1, <2>2, <2>3, Parts DEF SpawnFails, StoreOK, store, PassOK, BridgeOK, PhaseOK
<1>7. CASE Commit(e, g)
  <2>1. StoreOK' /\ ThreadOK'
    BY <1>0, <1>7, AsksType DEF Commit
  <2>2. AgentOK'
    BY <1>0, <1>7, AgentType DEF Commit, AgentOK
  <2> QED  BY <1>0, <1>7, <2>1, <2>2, Parts DEF Commit, PassOK, BridgeOK, PhaseOK, CountOK
<1>8. CASE Send(e, g)
  <2>1. ThreadOK' /\ AgentOK'
    BY <1>0, <1>8, GoesType, AgentType DEF Send
  <2> QED  BY <1>0, <1>8, <2>1, Parts DEF Send, StoreOK, store, PassOK, BridgeOK, PhaseOK, CountOK
<1>9. CASE Verify(e, g)
  <2>1. StoreOK' /\ ThreadOK'
    BY <1>0, <1>9, AsksType DEF Verify
  <2> QED  BY <1>0, <1>9, <2>1, Parts DEF Verify, AgentOK, PassOK, BridgeOK, PhaseOK, CountOK
<1>10. CASE Finish(e, g)
  <2>1. StoreOK' /\ ThreadOK'
    BY <1>0, <1>10, AsksType DEF Finish
  <2> QED  BY <1>0, <1>10, <2>1, Parts DEF Finish, AgentOK, PassOK, BridgeOK, PhaseOK, CountOK
<1>11. CASE Heartbeat(e, g)
  <2>1. StoreOK'
    BY <1>0, <1>11, RenewType DEF Heartbeat
  <2> QED  BY <1>0, <1>11, <2>1, Parts DEF Heartbeat, ThreadOK, AgentOK, PassOK, BridgeOK, PhaseOK, CountOK
<1>12. CASE Raise(e, g)
  <2>1. ThreadOK' /\ CountOK'
    BY <1>0, <1>12, GoesType, FaultType DEF Raise
  <2> QED  BY <1>0, <1>12, <2>1, Parts DEF Raise, StoreOK, store, AgentOK, PassOK, BridgeOK, PhaseOK
<1>13. CASE AgentEnds(e, g)
  <2>1. AgentOK'
    BY <1>0, <1>13, AgentType DEF AgentEnds
  <2> QED  BY <1>0, <1>13, <2>1, Parts DEF AgentEnds, StoreOK, store, ThreadOK, PassOK, BridgeOK, PhaseOK, CountOK
<1> QED
  BY <1>1, <1>2, <1>3, <1>4, <1>5, <1>6, <1>7, <1>8, <1>9, <1>10, <1>11, <1>12, <1>13 DEF Delivery
\* The delivery of a receipt is submitted, or refused.
LEMMA SubmittedType ==
  ASSUME ThreadOK, NEW e \in Exec, NEW g, NEW a \in Account \cup {NoAccount}, Submitted(e, g, a)
  PROVE  ThreadOK'
<1>1. [pc |-> "queued", account |-> a] \in Thread
  BY DEF Thread, ThreadPC
<1>2. [thread[e] EXCEPT ![g] = [pc |-> "queued", account |-> a]] \in [Gen -> Thread]
  BY <1>1 DEF ThreadOK
<1> QED  BY <1>2 DEF ThreadOK, Submitted

\* A change of one part of a pass.
LEMMA PassParts ==
  ASSUME NEW q \in PassRecord, NEW j \in Job
  PROVE  /\ \A s \in Step : [q EXCEPT !.step[j] = s] \in PassRecord
         /\ \A b \in Body : [q EXCEPT !.seen[j] = b] \in PassRecord
         /\ \A a \in Account \cup {NoAccount} : [q EXCEPT !.use[j] = a] \in PassRecord
<1>1. ASSUME NEW s \in Step PROVE [q EXCEPT !.step[j] = s] \in PassRecord
  <2>1. [q.step EXCEPT ![j] = s] \in [Job -> Step]
    BY DEF PassRecord
  <2> QED  BY <2>1 DEF PassRecord
<1>2. ASSUME NEW b \in Body PROVE [q EXCEPT !.seen[j] = b] \in PassRecord
  <2>1. [q.seen EXCEPT ![j] = b] \in [Job -> Body]
    BY DEF PassRecord
  <2> QED  BY <2>1 DEF PassRecord
<1>3. ASSUME NEW a \in Account \cup {NoAccount} PROVE [q EXCEPT !.use[j] = a] \in PassRecord
  <2>1. [q.use EXCEPT ![j] = a] \in [Job -> Account \cup {NoAccount}]
    BY DEF PassRecord
  <2> QED  BY <2>1 DEF PassRecord
<1> QED  BY <1>1, <1>2, <1>3

LEMMA FirstBodyType == \A j \in Job : FirstBody(j) \in Body
BY StoreAssumption, WorkerAssumption, Sets DEF FirstBody, Body

LEMMA NoPassType == NoPass \in PassRecord
<1>1. [j \in Job |-> FirstBody(j)] \in [Job -> Body]
  BY FirstBodyType
<1> QED  BY <1>1 DEF NoPass, PassRecord, Step

LEMMA ToType ==
  ASSUME PassOK, NEW j \in Job, NEW s \in Step
  PROVE  To(j, s) \in PassRecord
BY PassParts DEF PassOK, To

LEMMA DoneType ==
  ASSUME PassOK, NEW j \in Job
  PROVE  Done(j) \in PassRecord
<1> DEFINE p == To(j, "out")
           q == [p EXCEPT !.seen[j] = FirstBody(j)]
           r == [q EXCEPT !.use[j] = NoAccount]
<1>1. p \in PassRecord
  BY ToType DEF Step
<1>2. q \in PassRecord
  BY <1>1, PassParts, FirstBodyType
<1>3. r \in PassRecord
  BY <1>2, PassParts
<1>4. Done(j) = r
  BY <1>1 DEF Done, PassRecord
<1> QED  BY <1>3, <1>4

LEMMA WritesType ==
  ASSUME StoreOK, NEW j \in Job, NEW b \in Body, NEW q \in PassRecord, Writes(j, b, q)
  PROVE  StoreOK' /\ PassOK' /\ row' = row
BY SaveType, NoPassType DEF Writes, StoreOK, PassOK, store

LEMMA PutsBackType ==
  ASSUME StoreOK, PassOK, NEW j \in Job, PutsBack(j)
  PROVE  StoreOK' /\ PassOK' /\ row' = row
<1>1. [pass.seen[j] EXCEPT !.state = "WAITING"] \in Body
  BY Sets DEF PassOK, PassRecord, Body
<1> QED  BY <1>1, WritesType, DoneType DEF PutsBack, StoreOK, PassOK, store

LEMMA SeenType ==
  ASSUME StoreOK, PassOK, NEW j \in Job
  PROVE  /\ pass.seen[j] \in Body /\ body[j] \in Body
         /\ pass.seen[j].event \in 0..MaxEvents
         /\ pass.use[j] \in Account \cup {NoAccount}
         /\ Selected(j) \in Account \cup {NoAccount}
BY DEF StoreOK, PassOK, PassRecord, Body, Selected

LEMMA OfJobType ==
  ASSUME TypeOK, NEW j \in Job, OfJob(j)
  PROVE  TypeOK'
<1> USE DEF world, PassOnly
<1>0. /\ StoreOK /\ ThreadOK /\ AgentOK /\ PassOK /\ BridgeOK /\ PhaseOK /\ CountOK
      /\ pass.seen[j] \in Body /\ body[j] \in Body /\ pass.seen[j].event \in 0..MaxEvents
      /\ pass.use[j] \in Account \cup {NoAccount} /\ Selected(j) \in Account \cup {NoAccount}
  BY Parts, SeenType
<1> DEFINE Quiet == StoreOK' /\ PassOK' /\ PassOnly
<1>a. Quiet => TypeOK'
  BY <1>0, Parts DEF ThreadOK, AgentOK, BridgeOK, PhaseOK, CountOK
<1>b. store' = store => StoreOK'
  BY <1>0 DEF StoreOK, store
<1>c. \A s \in {"verify", "rearmed", "probed", "decide", "final", "park"} : To(j, s) \in PassRecord
  BY <1>0, ToType DEF Step
<1>1. CASE ParkListed(j)
  BY <1>0, <1>1, <1>a, PutsBackType DEF ParkListed
<1>2. CASE \E a \in Account \cup {NoAccount} : Choose(j, a)
  <2>1. PICK a \in Account \cup {NoAccount} : Choose(j, a)
    BY <1>2
  <2>2. PassOK'
    BY <1>c, <2>1, PassParts DEF Choose, PassOK
  <2> QED  BY <1>a, <1>b, <2>1, <2>2 DEF Choose
<1>3. CASE \E v \in Event : Rearm(j, v)
  <2>1. PICK v \in Event : Rearm(j, v)
    BY <1>3
  <2> DEFINE next == IF On(j, "verify") THEN "rearmed" ELSE "final"
  <2>2. PICK b : b = [pass.seen[j] EXCEPT !.event = v, !.account = pass.use[j]]
    OBVIOUS
  <2>3. b \in Body
    <3>1. b = [enabled |-> b.enabled, state |-> b.state, event |-> b.event, account |-> b.account]
      BY <1>0, <2>2 DEF Body
    <3>2. /\ b.enabled = pass.seen[j].enabled /\ b.state = pass.seen[j].state
          /\ b.event = v /\ b.account = pass.use[j]
      BY <1>0, <2>2 DEF Body
    <3>3. pass.use[j] \in Account
      BY <1>0, <2>1 DEF Rearm
    <3>4. v \in 0..MaxEvents
      BY StoreAssumption DEF Event
    <3> QED  BY <1>0, <3>1, <3>2, <3>3, <3>4 DEF Body
  <2>4. [To(j, next) EXCEPT !.seen[j] = b] \in PassRecord
    BY <1>c, <2>3, PassParts
  <2>5. Writes(j, b, [To(j, next) EXCEPT !.seen[j] = b]) /\ PassOnly
    BY <2>1, <2>2 DEF Rearm
  <2> QED  BY <1>0, <1>a, <2>3, <2>4, <2>5, WritesType
<1>4. CASE Probe(j)
  <2>1. PassOK'
    BY <1>0, <1>c, <1>4, PassParts DEF Probe, PassOK
  <2> QED  BY <1>a, <1>b, <1>4, <2>1 DEF Probe
<1>5. CASE SaveProbe(j)
  BY <1>0, <1>a, <1>c, <1>5, WritesType DEF SaveProbe
<1>6. CASE Skip(j)
  BY <1>0, <1>a, <1>b, <1>6, DoneType DEF Skip, PassOK
<1>7. CASE Wait(j)
  <2>1. PassOK'
    BY <1>0, <1>c, <1>7, PassParts DEF Wait, PassOK
  <2> QED  BY <1>a, <1>b, <1>7, <2>1 DEF Wait
<1>8. CASE Park(j)
  BY <1>0, <1>8, <1>a, PutsBackType DEF Park
<1>9. CASE \E e \in Exec : ClaimDue(j, e)
  <2>1. PICK e \in Exec : ClaimDue(j, e)
    BY <1>9
  <2>2. StoreOK'
    BY <1>0, <2>1, ClaimFirstType, RetryType DEF ClaimDue
  <2>3. ThreadOK'
    BY <1>0, <2>1, SubmittedType DEF ClaimDue
  <2>4. PassOK'
    BY <1>0, <2>1, DoneType DEF ClaimDue, PassOK
  <2> QED  BY <1>0, <2>1, <2>2, <2>3, <2>4, Parts DEF ClaimDue, AgentOK, BridgeOK, PhaseOK, CountOK
<1>10. CASE \E e \in Exec : SettleMissed(j, e)
  <2>1. PICK e \in Exec : SettleMissed(j, e)
    BY <1>10
  <2>2. StoreOK'
    BY <1>0, <2>1, SettleType DEF SettleMissed
  <2>3. PassOK'
    BY <1>0, <2>1, DoneType DEF SettleMissed, PassOK
  <2> QED  BY <1>a, <2>1, <2>2, <2>3 DEF SettleMissed
<1>11. CASE ParkVerified(j)
  <2>1. PICK b : b = [pass.seen[j] EXCEPT !.state = "WAITING", !.account = pass.use[j]]
    OBVIOUS
  <2>2. b \in Body
    <3>1. b = [enabled |-> b.enabled, state |-> b.state, event |-> b.event, account |-> b.account]
      BY <1>0, <2>1 DEF Body
    <3>2. /\ b.enabled = pass.seen[j].enabled /\ b.state = "WAITING"
          /\ b.event = pass.seen[j].event /\ b.account = pass.use[j]
      BY <1>0, <2>1 DEF Body
    <3>3. pass.use[j] \in Account
      BY <1>0, <1>11 DEF ParkVerified
    <3> QED  BY <1>0, <3>1, <3>2, <3>3, Sets DEF Body
  <2>3. Writes(j, b, Done(j)) /\ PassOnly
    BY <1>11, <2>1 DEF ParkVerified
  <2>4. Done(j) \in PassRecord
    BY <1>0, DoneType
  <2> QED  BY <1>0, <1>a, <2>2, <2>3, <2>4, WritesType
<1> QED
  BY <1>1, <1>2, <1>3, <1>4, <1>5, <1>6, <1>7, <1>8, <1>9, <1>10, <1>11 DEF OfJob
LEMMA PassType ==
  ASSUME TypeOK, Pass
  PROVE  TypeOK'
<1> USE DEF world, PassOnly
<1>0. StoreOK /\ ThreadOK /\ AgentOK /\ PassOK /\ BridgeOK /\ PhaseOK /\ CountOK
  BY Parts
<1>b. store' = store => StoreOK'
  BY <1>0 DEF StoreOK, store
<1>1. CASE BeginPass
  <2>1. PassOK'
    BY <1>1, NoPassType DEF BeginPass, PassOK, PassRecord
  <2> QED  BY <1>0, <1>b, <1>1, <2>1, Parts DEF BeginPass, ThreadOK, AgentOK, BridgeOK, PhaseOK, CountOK
<1>2. CASE ListJobs
  <2> DEFINE seen == [j \in Job |-> IF Scheduled(j) THEN body[j] ELSE FirstBody(j)]
             step == [j \in Job |-> IF Scheduled(j) THEN "listed" ELSE "out"]
  <2>1. seen \in [Job -> Body] /\ step \in [Job -> Step]
    BY <1>0, FirstBodyType DEF StoreOK, Step
  <2>2. PICK q : q = [pass EXCEPT !.jobs = TRUE, !.seen = seen, !.step = step]
    OBVIOUS
  <2>3. q = [on |-> q.on, jobs |-> q.jobs, listed |-> q.listed, step |-> q.step,
             seen |-> q.seen, use |-> q.use]
    BY <1>0, <2>2 DEF PassOK, PassRecord
  <2>4. /\ q.on = pass.on /\ q.jobs = TRUE /\ q.listed = pass.listed /\ q.use = pass.use
        /\ q.seen = seen /\ q.step = step
    BY <1>0, <2>2 DEF PassOK, PassRecord
  <2>5. q \in PassRecord
    <3> HIDE DEF seen, step
    <3> QED  BY <1>0, <2>1, <2>3, <2>4 DEF PassOK, PassRecord
  <2>6. PassOK'
    BY <1>2, <2>2, <2>5 DEF ListJobs, PassOK
  <2> QED  BY <1>0, <1>b, <1>2, <2>6, Parts DEF ListJobs, ThreadOK, AgentOK, BridgeOK, PhaseOK, CountOK
<1>3. CASE EndPass
  <2>1. PassOK'
    BY <1>3, NoPassType DEF EndPass, PassOK
  <2> QED  BY <1>0, <1>b, <1>3, <2>1, Parts DEF EndPass, ThreadOK, AgentOK, BridgeOK, PhaseOK, CountOK
<1>4. CASE \E e \in Exec : RecoverListed(e)
  <2>1. PICK e \in Exec : RecoverListed(e)
    BY <1>4
  <2>2. PassOK'
    BY <1>0, <2>1 DEF RecoverListed, PassOK, PassRecord
  <2>3. Observable(e) \subseteq BOOLEAN
    BY DEF Observable
  <2>4. StoreOK'
    BY <1>0, <1>b, <2>1, <2>3, RecoverType DEF RecoverListed, store
  <2>5. ResumeAccount(e) \in Account \cup {NoAccount}
    BY <1>0 DEF ResumeAccount, StoreOK, Row, Body
  <2>6. ThreadOK'
    BY <1>0, <2>1, <2>5, SubmittedType DEF RecoverListed, ThreadOK
  <2>7. CountOK'
    <3>1. CountOK /\ edits' = edits /\ (Fault \/ faults' = faults)
      BY <1>0, <2>1 DEF RecoverListed
    <3> QED  BY <3>1, FaultType DEF CountOK
  <2> QED  BY <1>0, <2>1, <2>2, <2>4, <2>6, <2>7, Parts DEF RecoverListed, AgentOK, BridgeOK, PhaseOK
<1> QED  BY <1>1, <1>2, <1>3, <1>4, OfJobType DEF Pass

LEMMA OperatorType ==
  ASSUME TypeOK, Operator
  PROVE  TypeOK'
<1> USE DEF world, procs
<1>0. StoreOK /\ ThreadOK /\ AgentOK /\ PassOK /\ BridgeOK /\ PhaseOK /\ CountOK
  BY Parts
<1>1. ASSUME NEW j \in Job, NEW v \in 0..MaxEvents, NEW a \in Account \cup {AutoAccount}, Arm(j, v, a)
      PROVE  TypeOK'
  <2>1. [enabled |-> TRUE, state |-> "ARMED", event |-> v, account |-> a] \in Body
    <3>1. PICK b : b = [enabled |-> TRUE, state |-> "ARMED", event |-> v, account |-> a]
      OBVIOUS
    <3>2. b.enabled = TRUE /\ b.state = "ARMED" /\ b.event = v /\ b.account = a
      BY <3>1
    <3>3. b = [enabled |-> b.enabled, state |-> b.state, event |-> b.event, account |-> b.account]
      BY <3>1
    <3>4. b.enabled \in BOOLEAN /\ b.state \in BodyState
      BY <3>2, Sets
    <3>5. b.event \in 0..MaxEvents /\ b.account \in Account \cup {AutoAccount}
      BY <3>2
    <3>6. b \in Body
      BY <3>3, <3>4, <3>5 DEF Body
    <3> QED  BY <3>1, <3>6
  <2>2. StoreOK'
    BY <1>0, <1>1, <2>1, SaveType DEF Arm
  <2>3. CountOK'
    BY <1>0, <1>1, EditType DEF Arm
  <2> QED  BY <1>0, <1>1, <2>2, <2>3, Parts DEF Arm, ThreadOK, AgentOK, PassOK, BridgeOK, PhaseOK
<1>2. ASSUME NEW j \in Job, Disarm(j)
      PROVE  TypeOK'
  <2>1. PICK b : b = [body[j] EXCEPT !.enabled = FALSE, !.state = "DISABLED"]
    OBVIOUS
  <2>2. body[j] \in Body
    BY <1>0 DEF StoreOK
  <2>3. b = [enabled |-> b.enabled, state |-> b.state, event |-> b.event, account |-> b.account]
    BY <2>1, <2>2 DEF Body
  <2>4. /\ b.enabled = FALSE /\ b.state = "DISABLED"
        /\ b.event = body[j].event /\ b.account = body[j].account
    BY <2>1, <2>2 DEF Body
  <2>5. b \in Body
    BY <2>2, <2>3, <2>4, Sets DEF Body
  <2>6. StoreOK'
    BY <1>0, <1>2, <2>1, <2>5, SaveType DEF Disarm
  <2>7. CountOK'
    BY <1>0, <1>2, EditType DEF Disarm
  <2> QED  BY <1>0, <1>2, <2>6, <2>7, Parts DEF Disarm, ThreadOK, AgentOK, PassOK, BridgeOK, PhaseOK
<1>3. ASSUME NEW j \in Job, NEW e \in Exec, TestNow(j, e)
      PROVE  TypeOK'
  <2>1. StoreOK' /\ body[j].account \in Account
    BY <1>0, <1>3, ClaimTestType DEF TestNow
  <2>2. [pc |-> "queued", account |-> body[j].account] \in Thread
    BY <2>1 DEF Thread, ThreadPC
  <2>3. [thread[e] EXCEPT ![1] = [pc |-> "queued", account |-> body[j].account]] \in [Gen -> Thread]
    BY <1>0, <2>2 DEF ThreadOK
  <2>4. ThreadOK'
    BY <1>0, <1>3, <2>3 DEF ThreadOK, TestNow
  <2>5. CountOK'
    BY <1>0, <1>3, EditType DEF TestNow
  <2> QED  BY <1>0, <1>3, <2>1, <2>4, <2>5, Parts DEF TestNow, AgentOK, PassOK, BridgeOK, PhaseOK
<1>4. ASSUME NEW e \in Exec, Resolve(e)
      PROVE  TypeOK'
  <2>1. StoreOK'
    BY <1>0, <1>4, ResolveType DEF Resolve
  <2> QED  BY <1>0, <1>4, <2>1, Parts DEF Resolve, ThreadOK, AgentOK, PassOK, BridgeOK, PhaseOK, CountOK
<1>5. ASSUME NEW j \in Job, \E v \in 0..MaxEvents, a \in Account \cup {AutoAccount} : Arm(j, v, a)
      PROVE  TypeOK'
  BY <1>1, <1>5
<1>6. ASSUME NEW j \in Job, \E e \in Exec : TestNow(j, e)
      PROVE  TypeOK'
  BY <1>3, <1>6
<1>7. CASE \E j \in Job :
             \/ \E v \in 0..MaxEvents, a \in Account \cup {AutoAccount} : Arm(j, v, a)
             \/ Disarm(j)
             \/ \E e \in Exec : TestNow(j, e)
  <2>1. PICK j \in Job :
             \/ \E v \in 0..MaxEvents, a \in Account \cup {AutoAccount} : Arm(j, v, a)
             \/ Disarm(j)
             \/ \E e \in Exec : TestNow(j, e)
    BY <1>7
  <2>2. CASE \E v \in 0..MaxEvents, a \in Account \cup {AutoAccount} : Arm(j, v, a)
    BY <1>5, <2>2
  <2>3. CASE Disarm(j)
    BY <1>2, <2>3
  <2>4. CASE \E e \in Exec : TestNow(j, e)
    BY <1>6, <2>4
  <2> QED  BY <2>1, <2>2, <2>3, <2>4
<1> QED  BY <1>4, <1>7 DEF Operator

\* The deliveries of a program end with it.
LEMMA DiesType ==
  ASSUME ThreadOK, AgentOK, NEW test, Dies(test)
  PROVE  ThreadOK' /\ AgentOK'
<1>1. ASSUME NEW e \in Exec, NEW g \in Gen
      PROVE  [thread[e][g] EXCEPT !.pc = "gone"] \in Thread /\ thread[e][g] \in Thread
  BY DEF ThreadOK, Thread, ThreadPC
<1>2. ThreadOK'
  BY <1>1 DEF Dies, ThreadOK
<1>3. AgentOK'
  BY DEF Dies, AgentOK, AgentState
<1> QED  BY <1>2, <1>3

LEMMA LifeType ==
  ASSUME TypeOK, OperatorDies \/ BridgeDies \/ Stop \/ Exit \/ Start
  PROVE  TypeOK'
<1> USE DEF world
<1>0. StoreOK /\ ThreadOK /\ AgentOK /\ PassOK /\ BridgeOK /\ PhaseOK /\ CountOK
  BY Parts
<1>b. store' = store => StoreOK'
  BY <1>0 DEF StoreOK, store
<1>1. CASE OperatorDies
  <2>1. ThreadOK' /\ AgentOK' /\ CountOK'
    BY <1>0, <1>1, DiesType, FaultType DEF OperatorDies
  <2> QED  BY <1>0, <1>b, <1>1, <2>1, Parts DEF OperatorDies, PassOK, BridgeOK, PhaseOK
<1>2. CASE BridgeDies
  <2>1. ThreadOK' /\ AgentOK' /\ CountOK'
    BY <1>0, <1>2, DiesType, FaultType DEF BridgeDies
  <2>2. PassOK'
    BY <1>2, NoPassType DEF BridgeDies, PassOK
  <2> QED  BY <1>0, <1>b, <1>2, <2>1, <2>2, Parts DEF BridgeDies, BridgeOK, PhaseOK
<1>3. CASE Stop
  <2>1. CountOK'
    BY <1>0, <1>3, FaultType DEF Stop
  <2> QED  BY <1>0, <1>b, <1>3, <2>1, Parts DEF Stop, ThreadOK, AgentOK, PassOK, BridgeOK, PhaseOK
<1>4. CASE Exit
  <2>1. ThreadOK' /\ AgentOK'
    BY <1>0, <1>4, DiesType DEF Exit
  <2>2. PassOK'
    BY <1>4, NoPassType DEF Exit, PassOK
  <2> QED  BY <1>0, <1>b, <1>4, <2>1, <2>2, Parts DEF Exit, BridgeOK, PhaseOK, CountOK
<1>5. CASE Start
  BY <1>0, <1>b, <1>5, Parts DEF Start, ThreadOK, AgentOK, PassOK, BridgeOK, PhaseOK, CountOK
<1> QED  BY <1>1, <1>2, <1>3, <1>4, <1>5

LEMMA TimeType ==
  ASSUME TypeOK, (\E j \in Job, v \in Event : TimePasses(j, v)) \/ (\E e \in Exec : LeaseExpires(e))
  PROVE  TypeOK'
<1> USE DEF procs
<1>0. StoreOK /\ ThreadOK /\ AgentOK /\ PassOK /\ BridgeOK /\ PhaseOK /\ CountOK
  BY Parts
<1>1. ASSUME NEW j \in Job, NEW v \in Event, TimePasses(j, v)
      PROVE  TypeOK'
  <2>1. PhaseOK'
    BY <1>0, <1>1 DEF PhaseOK, TimePasses, Phase
  <2> QED  BY <1>0, <1>1, <2>1, Parts DEF TimePasses, StoreOK, store, ThreadOK, AgentOK, PassOK, BridgeOK, CountOK
<1>2. ASSUME NEW e \in Exec, LeaseExpires(e)
      PROVE  TypeOK'
  <2>1. StoreOK'
    BY <1>0, <1>2, LeaseType DEF LeaseExpires, StoreOK
  <2>2. CountOK'
    BY <1>0, <1>2, FaultType DEF LeaseExpires, CountOK
  <2> QED  BY <1>0, <1>2, <2>1, <2>2, Parts DEF LeaseExpires, ThreadOK, AgentOK, PassOK, BridgeOK, PhaseOK
<1> QED  BY <1>1, <1>2

LEMMA InitType == Init => TypeOK
<1> SUFFICES ASSUME Init PROVE TypeOK
  OBVIOUS
<1>1. body \in [Job -> Body]
  BY FirstBodyType DEF Init
<1>2. \A j \in Job : NoRow(j) \in Row
  BY StoreAssumption DEF NoRow, Row
<1>3. row \in [Exec -> Row]
  BY <1>2, StoreAssumption DEF Init
<1>4. holder \in [Account -> 0..MaxExecs]
  BY StoreAssumption DEF Init
<1>5. phase \in [Job -> [Event -> Phase]]
  BY DEF Init, Phase
<1>6. thread \in [Exec -> [Gen -> Thread]]
  BY DEF Init, Thread, ThreadPC
<1>7. agent \in [Exec -> [Gen -> AgentState]]
  BY DEF Init, AgentState
<1>8. pass \in PassRecord /\ bridge \in {"up", "closing", "down"}
  BY NoPassType DEF Init
<1>9. edits \in 0..MaxEdits /\ faults \in 0..MaxFaults
  BY WorkerAssumption DEF Init
<1> QED  BY <1>1, <1>3, <1>4, <1>5, <1>6, <1>7, <1>8, <1>9 DEF TypeOK

LEMMA TypeStep == TypeOK /\ [Next]_vars => TypeOK'
<1> SUFFICES ASSUME TypeOK, [Next]_vars PROVE TypeOK'
  OBVIOUS
<1>1. CASE Next
  BY <1>1, DeliveryType, PassType, OperatorType, LifeType, TimeType DEF Next
<1>2. CASE UNCHANGED vars
  BY <1>2 DEF vars, TypeOK
<1> QED  BY <1>1, <1>2

\* Every reachable state is well typed: no transaction of the scheduler, of a
\* delivery or of the operator leaves a table or a local copy out of shape.
THEOREM PreparedTypeCorrect == Spec => []TypeOK
BY InitType, TypeStep, PTL DEF Spec

-----------------------------------------------------------------------------
(* A payload is written once. *)

Relaunchable == Launching \cup {"FAILED_RETRYABLE", "NONE"}

OutPC     == {"committed", "sent", "verifying"}
Out(e, g) == thread[e][g].pc \in OutPC \/ Given(e, g)

Planned(e) == row[e].state # "NONE" /\ ~row[e].test

\* What is on record is out of the program's reach, and an absent receipt has
\* no lease that could expire.
OnRecord ==
  \A e \in Exec :
    /\ row[e].launched => row[e].state \notin Relaunchable
    /\ row[e].state = "NONE" => row[e].lease = "none"

\* One receipt for an event, and one that can be launched for a ONE_SHOT job.
OneReceipt ==
  \A e, f \in Exec :
    Planned(e) /\ Planned(f) /\ row[e].job = row[f].job /\ e # f =>
      /\ row[e].event # row[f].event
      /\ row[e].job \notin Recurring => Settled(row[e]) \/ Settled(row[f])

OutOnRecord == \A e \in Exec, g \in Gen : Out(e, g) => row[e].launched
OneOut      == \A e \in Exec : \A g, h \in Gen : Out(e, g) /\ Out(e, h) => g = h

SafeInv == TypeOK /\ OnRecord /\ OneReceipt /\ OutOnRecord /\ OneOut

-----------------------------------------------------------------------------
(* What a step may do to the receipts. *)

\* Receipt e is worked on.
Works(e) ==
  /\ Only(e) /\ Same(e)
  /\ row[e].state # "NONE" /\ row'[e].state # "NONE" /\ ~Settled(row[e])
  /\ row[e].launched => row'[e].launched
  /\ row'[e].launched => row'[e].state \notin Relaunchable

\* Receipt e is written: no other has its event, and if its job is a ONE_SHOT
\* one either it is the first or it will never be launched.
Appears(e) ==
  /\ New(e) /\ row'[e].state # "NONE"
  /\ \/ row'[e].test
     \/ /\ Receipts(row'[e].job, row'[e].event) = {}
        /\ row'[e].job \in Recurring \/ Prior(row'[e].job) = {} \/ Settled(row'[e])

RowStep == row' = row \/ \E e \in Exec : Works(e) \/ Appears(e)

LEMMA RowStepSafe ==
  ASSUME StoreOK, StoreOK', OnRecord, OneReceipt, RowStep
  PROVE  /\ OnRecord' /\ OneReceipt'
         /\ \A e \in Exec : row[e].launched => row'[e].launched
<1>1. CASE row' = row
  BY <1>1 DEF OnRecord, OneReceipt, Planned
<1>2. ASSUME NEW e \in Exec, Works(e)
      PROVE  /\ OnRecord' /\ OneReceipt'
             /\ \A f \in Exec : row[f].launched => row'[f].launched
  <2>1. OnRecord'
    BY <1>2 DEF OnRecord, Works, Only
  <2>2. ASSUME NEW f \in Exec
        PROVE  /\ Planned(f)' => Planned(f)
               /\ row'[f].job = row[f].job /\ row'[f].event = row[f].event
               /\ Settled(row[f]) => Settled(row'[f])
    BY <1>2 DEF Works, Only, Same, Planned
  <2>3. OneReceipt'
    BY <2>2 DEF OneReceipt
  <2> QED  BY <1>2, <2>1, <2>3 DEF Works, Only
<1>3. ASSUME NEW e \in Exec, Appears(e)
      PROVE  /\ OnRecord' /\ OneReceipt'
             /\ \A f \in Exec : row[f].launched => row'[f].launched
  <2>1. row[e].state = "NONE" /\ ~row'[e].launched /\ Only(e) /\ row'[e].state # "NONE"
    BY <1>3 DEF Appears, New, Fresh
  <2>2. OnRecord'
    BY <2>1 DEF OnRecord, Only
  <2>3. ASSUME NEW f \in Exec \ {e}, Planned(e)', Planned(f)', row'[e].job = row'[f].job
        PROVE  /\ row'[e].event # row'[f].event
               /\ row'[e].job \notin Recurring => Settled(row'[e])
    <3>1. row'[f] = row[f] /\ ~row'[e].test
      BY <2>1, <2>3 DEF Only, Planned
    <3>2. f \in Prior(row'[e].job)
      BY <2>3, <3>1 DEF Prior, Planned
    <3>3. f \notin Receipts(row'[e].job, row'[e].event)
      BY <1>3, <3>1 DEF Appears
    <3> QED  BY <1>3, <3>1, <3>2, <3>3 DEF Appears, Receipts
  <2>4. ASSUME NEW f \in Exec \ {e}, NEW h \in Exec \ {e}, f # h,
               Planned(f)', Planned(h)', row'[f].job = row'[h].job
        PROVE  /\ row'[f].event # row'[h].event
               /\ row'[f].job \notin Recurring => Settled(row'[f]) \/ Settled(row'[h])
    <3>1. row'[f] = row[f] /\ row'[h] = row[h]
      BY <2>1 DEF Only
    <3> QED  BY <2>4, <3>1 DEF OneReceipt, Planned
  <2>5. OneReceipt'
    BY <2>3, <2>4 DEF OneReceipt
  <2>6. \A f \in Exec : row[f].launched => row'[f].launched
    BY <2>1 DEF OnRecord, Only, Relaunchable
  <2> QED  BY <2>2, <2>5, <2>6
<1> QED  BY <1>1, <1>2, <1>3 DEF RowStep

-----------------------------------------------------------------------------
(* Every transaction is such a step. *)

LEMMA StateSets ==
  /\ Launching \cap Terminal = {} /\ "NONE" \notin ExecState
  /\ Relaunchable = {"CLAIMED", "PREPARING", "LAUNCHING", "FAILED_RETRYABLE", "NONE"}
  /\ Launching = {"CLAIMED", "PREPARING", "LAUNCHING"}
  /\ Worked = {"CLAIMED", "PREPARING", "LAUNCHING", "DELIVERING", "VERIFYING", "RUNNING"}
BY Sets DEF Launching, Terminal, Relaunchable, Worked

LEMMA AdvanceStep ==
  ASSUME StoreOK, OnRecord, NEW e \in Exec, NEW g, NEW from \in Worked, NEW s \in ExecState,
         from \in Launching \/ s \notin Relaunchable,
         Owns(e, g, from), Advance(e, s)
  PROVE  Works(e)
<1>1. /\ Only(e) /\ Same(e) /\ row[e].state = from /\ row'[e].state = s
      /\ row'[e].launched = (row[e].launched \/ s = "DELIVERING")
  BY AdvanceType
<1>2. ~Settled(row[e]) /\ from # "NONE" /\ s # "NONE"
  BY <1>1, StateSets DEF Settled
<1>3. from \in Launching => ~row[e].launched
  BY <1>1 DEF OnRecord, Relaunchable
<1> QED  BY <1>1, <1>2, <1>3, StateSets DEF Works

LEMMA RenewStep ==
  ASSUME StoreOK, OnRecord, NEW e \in Exec, NEW g, Renew(e, g)
  PROVE  Works(e)
BY RenewType, StateSets DEF Works, OnRecord, Settled

LEMMA RetryStep ==
  ASSUME StoreOK, NEW e \in Exec, NEW j \in Job, NEW v,
         NEW a \in Account \cup {NoAccount}, Retry(e, j, v, a)
  PROVE  Works(e)
BY RetryType DEF Works, Settled

LEMMA RecoverStep ==
  ASSUME StoreOK, OnRecord, NEW e \in Exec, NEW seen \in BOOLEAN, CanRecover(e), Recover(e, seen)
  PROVE  Works(e)
<1>1. /\ Only(e) /\ Same(e) /\ row'[e].launched = row[e].launched
      /\ row'[e].state = Recovered(row[e], seen) /\ row[e].lease = "expired"
  BY RecoverType
<1>2. row[e].state # "NONE" /\ ~Settled(row[e])
  BY <1>1 DEF OnRecord, Settled
<1>3. row'[e].state \in {"CANCELLED", "CLAIMED", "RUNNING", "RECOVERY_REQUIRED"}
  BY <1>1 DEF Recovered
<1>4. row[e].launched => row'[e].state \in {"RUNNING", "RECOVERY_REQUIRED"}
  BY <1>1 DEF Recovered, PreSideEffect
<1> QED  BY <1>1, <1>2, <1>3, <1>4, StateSets DEF Works

LEMMA ResolveStep ==
  ASSUME StoreOK, NEW e \in Exec, ResolveTest(e)
  PROVE  Works(e)
BY ResolveType, StateSets DEF Works, Settled

LEMMA ExpiryStep ==
  ASSUME StoreOK, OnRecord, NEW e \in Exec, LeaseExpires(e)
  PROVE  Works(e)
<1>1. /\ row[e].lease = "live" /\ row[e].state \in Worked \cup {"FAILED_RETRYABLE"}
      /\ row' = [row EXCEPT ![e].lease = "expired"]
  BY DEF LeaseExpires
<1> QED  BY <1>1, LeaseType, StateSets DEF Works, OnRecord, Settled

LEMMA AppearStep ==
  ASSUME StoreOK, NEW e \in Exec, NEW j \in Job
  PROVE  /\ ClaimTest(e, j) => Appears(e)
         /\ \A v \in 0..MaxEvents : Settle(e, j, v) => Appears(e)
         /\ \A v \in 0..MaxEvents : \A a \in Account \cup {NoAccount} :
              ClaimFirst(e, j, v, a) => Appears(e)
<1>1. ClaimTest(e, j) => Appears(e)
  BY ClaimTestType DEF Appears
<1>2. ASSUME NEW v \in 0..MaxEvents, Settle(e, j, v) PROVE Appears(e)
  BY <1>2, SettleType DEF Appears, Settled
<1>3. ASSUME NEW v \in 0..MaxEvents, NEW a \in Account \cup {NoAccount}, ClaimFirst(e, j, v, a)
      PROVE  Appears(e)
  BY <1>3, ClaimFirstType DEF Appears
<1> QED  BY <1>1, <1>2, <1>3

(* What a step may do to the deliveries. *)

\* No delivery gets out, or one does, of a receipt that goes on record with it.
OutStep ==
  \/ \A f \in Exec, h \in Gen : Out(f, h)' => Out(f, h)
  \/ \E e \in Exec, g \in Gen :
       /\ ~row[e].launched /\ row'[e].launched
       /\ \A f \in Exec, h \in Gen : Out(f, h)' => Out(f, h) \/ (f = e /\ h = g)

LEMMA OutStepSafe ==
  ASSUME OutOnRecord, OneOut, OutStep, \A e \in Exec : row[e].launched => row'[e].launched
  PROVE  OutOnRecord' /\ OneOut'
<1>1. CASE \A f \in Exec, h \in Gen : Out(f, h)' => Out(f, h)
  BY <1>1 DEF OutOnRecord, OneOut
<1>2. ASSUME NEW e \in Exec, NEW g \in Gen, ~row[e].launched, row'[e].launched,
             \A f \in Exec, h \in Gen : Out(f, h)' => Out(f, h) \/ (f = e /\ h = g)
      PROVE  OutOnRecord' /\ OneOut'
  <2>1. \A h \in Gen : ~Out(e, h)
    BY <1>2 DEF OutOnRecord
  <2> QED  BY <1>2, <2>1 DEF OutOnRecord, OneOut
<1> QED  BY <1>1, <1>2 DEF OutStep

\* The other deliveries are left alone.
Elsewhere(e, g) ==
  \A f \in Exec, h \in Gen :
    (f = e /\ h = g) \/ (thread'[f][h] = thread[f][h] /\ agent'[f][h] = agent[f][h])

LEMMA ElsewhereOut ==
  ASSUME NEW e \in Exec, NEW g \in Gen, Elsewhere(e, g)
  PROVE  \A f \in Exec, h \in Gen : Out(f, h)' => Out(f, h) \/ (f = e /\ h = g)
BY DEF Elsewhere, Out, Given

LEMMA GoesElsewhere ==
  ASSUME ThreadOK, NEW e \in Exec, NEW g \in Gen, NEW pc, Goes(e, g, pc),
         agent' = agent \/ \E k \in AgentState : agent' = [agent EXCEPT ![e][g] = k], AgentOK
  PROVE  Elsewhere(e, g) /\ thread'[e][g].pc = pc
<1>1. thread[e][g] \in Thread /\ thread[e] \in [Gen -> Thread]
  BY DEF ThreadOK
<1>2. thread'[e][g] = [thread[e][g] EXCEPT !.pc = pc]
  BY <1>1 DEF Goes, ThreadOK
<1>3. \A f \in Exec, h \in Gen : (f = e /\ h = g) \/ thread'[f][h] = thread[f][h]
  BY <1>1 DEF Goes, ThreadOK
<1>4. \A f \in Exec, h \in Gen : (f = e /\ h = g) \/ agent'[f][h] = agent[f][h]
  BY DEF AgentOK
<1> QED  BY <1>1, <1>2, <1>3, <1>4 DEF Elsewhere, Thread

\* A move of a receipt on its own.
LEMMA AsksStep ==
  ASSUME StoreOK, OnRecord, ThreadOK, AgentOK, NEW e \in Exec, NEW g \in Gen,
         NEW from \in Worked, NEW to \in ExecState, from \in Launching \/ to \notin Relaunchable,
         NEW pc \in ThreadPC, Asks(e, g, from, to, pc),
         agent' = agent \/ \E k \in AgentState : agent' = [agent EXCEPT ![e][g] = k]
  PROVE  RowStep /\ Elsewhere(e, g) /\ thread'[e][g].pc \in {pc, "gone"}
<1>1. CASE Owns(e, g, from)
  BY <1>1, AdvanceStep, GoesElsewhere DEF Asks, RowStep
<1>2. CASE ~Owns(e, g, from)
  BY <1>2, GoesElsewhere DEF Asks, RowStep, store
<1> QED  BY <1>1, <1>2

\* A delivery that ends up nowhere near its payload is not out.
LEMMA NotOut ==
  ASSUME NEW e \in Exec, NEW g \in Gen, Elsewhere(e, g),
         Out(e, g)' => Out(e, g)
  PROVE  OutStep
BY ElsewhereOut DEF OutStep

LEMMA DeliverySteps ==
  ASSUME TypeOK, OnRecord, NEW e \in Exec, NEW g \in Gen, Delivery(e, g) \/ AgentEnds(e, g)
  PROVE  RowStep /\ OutStep
<1> USE PCs, Sets, StateSets
<1>0. StoreOK /\ ThreadOK /\ AgentOK
  BY Parts
<1>1. CASE Refuse(e, g)
  <2>1. RowStep /\ Elsewhere(e, g) /\ thread'[e][g].pc = "gone" /\ agent' = agent
    BY <1>0, <1>1, AsksStep DEF Refuse
  <2> QED  BY <2>1, NotOut DEF Out, OutPC, Given
<1>2. CASE Postpone(e, g)
  <2>1. RowStep /\ Elsewhere(e, g) /\ thread'[e][g].pc = "gone" /\ agent' = agent
    BY <1>0, <1>2, AsksStep DEF Postpone
  <2> QED  BY <2>1, NotOut DEF Out, OutPC, Given
<1>3. CASE Prepare(e, g)
  <2>1. RowStep /\ Elsewhere(e, g) /\ thread'[e][g].pc \in {"preparing", "gone"} /\ agent' = agent
    BY <1>0, <1>3, AsksStep DEF Prepare
  <2> QED  BY <2>1, NotOut DEF Out, OutPC, Given
<1>4. CASE Launch(e, g)
  <2>1. RowStep /\ Elsewhere(e, g) /\ thread'[e][g].pc \in {"launching", "gone"} /\ agent' = agent
    BY <1>0, <1>4, AsksStep DEF Launch
  <2> QED  BY <2>1, NotOut DEF Out, OutPC, Given
<1>5. CASE Spawn(e, g)
  <2>1. row' = row /\ Elsewhere(e, g) /\ thread'[e][g].pc = "spawned"
    BY <1>0, <1>5, GoesElsewhere DEF Spawn, store
  <2>2. agent'[e][g] = "idle"
    BY <1>0, <1>5 DEF Spawn, AgentOK
  <2> QED  BY <2>1, <2>2, NotOut DEF Out, OutPC, Given, RowStep
<1>6. CASE \E k \in {"none", "killed"} : SpawnFails(e, g, k)
  <2>1. PICK k \in {"none", "killed"} : SpawnFails(e, g, k)
    BY <1>6
  <2>2. row' = row /\ Elsewhere(e, g) /\ thread'[e][g].pc = "gone"
    BY <1>0, <2>1, GoesElsewhere DEF SpawnFails, store
  <2>3. agent'[e][g] = k
    BY <1>0, <2>1 DEF SpawnFails, AgentOK
  <2> QED  BY <2>2, <2>3, NotOut DEF Out, OutPC, Given, RowStep
<1>7. CASE Commit(e, g)
  <2>1. RowStep /\ Elsewhere(e, g)
    BY <1>0, <1>7, AsksStep DEF Commit
  <2>2. CASE Owns(e, g, "LAUNCHING")
    <3>1. Advance(e, "DELIVERING")
      BY <1>7, <2>2 DEF Commit, Asks
    <3>2. row[e].state = "LAUNCHING" /\ row'[e].launched
      BY <1>0, <2>2, <3>1, AdvanceType
    <3>3. ~row[e].launched
      BY <3>2 DEF OnRecord
    <3> QED  BY <2>1, <3>2, <3>3, ElsewhereOut DEF OutStep
  <2>3. CASE ~Owns(e, g, "LAUNCHING")
    <3>1. thread'[e][g].pc = "gone"
      BY <1>0, <1>7, <2>3, GoesElsewhere DEF Commit, Asks
    <3>2. agent'[e][g] = "killed"
      BY <1>0, <1>7, <2>3 DEF Commit, AgentOK
    <3> QED  BY <2>1, <3>1, <3>2, NotOut DEF Out, OutPC, Given
  <2> QED  BY <2>2, <2>3
<1>8. CASE Send(e, g)
  <2>1. row' = row /\ Elsewhere(e, g) /\ thread[e][g].pc = "committed"
    BY <1>0, <1>8, GoesElsewhere DEF Send, At, store
  <2> QED  BY <2>1, NotOut DEF Out, OutPC, RowStep
<1>9. CASE Verify(e, g)
  <2>1. RowStep /\ Elsewhere(e, g) /\ thread[e][g].pc = "sent"
    BY <1>0, <1>9, AsksStep DEF Verify, At
  <2> QED  BY <2>1, NotOut DEF Out, OutPC
<1>10. CASE Finish(e, g)
  <2>1. RowStep /\ Elsewhere(e, g) /\ thread[e][g].pc = "verifying"
    BY <1>0, <1>10, AsksStep DEF Finish, At
  <2> QED  BY <2>1, NotOut DEF Out, OutPC
<1>11. CASE Heartbeat(e, g)
  <2>1. Works(e) /\ thread' = thread /\ agent' = agent
    BY <1>0, <1>11, RenewStep DEF Heartbeat, procs
  <2> QED  BY <2>1 DEF RowStep, OutStep, Out, Given
<1>12. CASE Raise(e, g)
  <2>1. row' = row /\ Elsewhere(e, g) /\ thread'[e][g].pc = "gone" /\ agent' = agent
    BY <1>0, <1>12, GoesElsewhere DEF Raise, store
  <2> QED  BY <2>1, NotOut DEF Out, OutPC, Given, RowStep
<1>13. CASE AgentEnds(e, g)
  <2>1. row' = row /\ thread' = thread /\ agent[e][g] = "working"
    BY <1>13 DEF AgentEnds, store
  <2>2. Elsewhere(e, g)
    BY <1>0, <1>13, <2>1 DEF AgentEnds, AgentOK, Elsewhere
  <2> QED  BY <2>1, <2>2, NotOut DEF Out, Given, RowStep
<1> QED
  BY <1>1, <1>2, <1>3, <1>4, <1>5, <1>6, <1>7, <1>8, <1>9, <1>10, <1>11, <1>12, <1>13 DEF Delivery

\* The deliveries and the agents stay, but for one that is submitted.
LEMMA StillOut ==
  ASSUME agent' = agent,
         thread' = thread \/ \E e \in Exec, g \in Gen, a \in Account \cup {NoAccount} :
           thread' = [thread EXCEPT ![e][g] = [pc |-> "queued", account |-> a]],
         ThreadOK
  PROVE  OutStep
<1>1. CASE thread' = thread
  BY <1>1 DEF OutStep, Out, Given
<1>2. ASSUME NEW e \in Exec, NEW g \in Gen, NEW a \in Account \cup {NoAccount},
             thread' = [thread EXCEPT ![e][g] = [pc |-> "queued", account |-> a]]
      PROVE  OutStep
  <2>1. thread'[e][g] = [pc |-> "queued", account |-> a]
    BY <1>2 DEF ThreadOK
  <2>2. thread'[e][g].pc = "queued"
    BY <2>1
  <2>3. Elsewhere(e, g)
    BY <1>2 DEF ThreadOK, Elsewhere
  <2> QED  BY <2>2, <2>3, NotOut DEF Out, OutPC, Given
<1> QED  BY <1>1, <1>2

LEMMA SubmittedOut ==
  ASSUME ThreadOK, agent' = agent, NEW e \in Exec, NEW g \in Gen,
         NEW a \in Account \cup {NoAccount}, Submitted(e, g, a)
  PROVE  OutStep
BY StillOut DEF Submitted

LEMMA QuietSteps ==
  ASSUME ThreadOK, row' = row, thread' = thread, agent' = agent
  PROVE  RowStep /\ OutStep
BY StillOut DEF RowStep

LEMMA OfJobSteps ==
  ASSUME TypeOK, NEW j \in Job, OfJob(j)
  PROVE  RowStep /\ OutStep
<1>0. /\ StoreOK /\ ThreadOK /\ PassOK
      /\ pass.seen[j].event \in 0..MaxEvents
      /\ pass.use[j] \in Account \cup {NoAccount} /\ Selected(j) \in Account \cup {NoAccount}
  BY Parts, SeenType
<1>a. ASSUME PassOnly, row' = row
      PROVE  RowStep /\ OutStep
  BY <1>0, <1>a, QuietSteps DEF PassOnly
<1>b. \A b, q : Writes(j, b, q) => row' = row
  BY DEF Writes, Save, store
<1>1. CASE \/ ParkListed(j) \/ (\E a \in Account \cup {NoAccount} : Choose(j, a))
           \/ Probe(j) \/ Skip(j) \/ Wait(j) \/ Park(j)
  BY <1>1, <1>a, <1>b DEF ParkListed, PutsBack, Choose, Probe, Skip, Wait, Park, store
<1>2. CASE (\E v \in Event : Rearm(j, v)) \/ SaveProbe(j) \/ ParkVerified(j)
  BY <1>2, <1>a, <1>b DEF Rearm, SaveProbe, ParkVerified
<1>3. ASSUME NEW e \in Exec, ClaimDue(j, e)
      PROVE  RowStep /\ OutStep
  <2>1. RowStep
    BY <1>0, <1>3, AppearStep, RetryStep DEF ClaimDue, RowStep
  <2>2. (IF row[e].state = "NONE" THEN 1 ELSE NextGen(row[e].gen)) \in Gen
    BY <1>0, NextGenType, StoreAssumption DEF StoreOK, Row, Gen
  <2>3. OutStep
    BY <1>0, <1>3, <2>2, SubmittedOut DEF ClaimDue
  <2> QED  BY <2>1, <2>3
<1>4. ASSUME NEW e \in Exec, SettleMissed(j, e)
      PROVE  RowStep /\ OutStep
  BY <1>0, <1>4, AppearStep, StillOut DEF SettleMissed, RowStep, PassOnly
<1> QED  BY <1>1, <1>2, <1>3, <1>4 DEF OfJob

LEMMA PassSteps ==
  ASSUME TypeOK, OnRecord, Pass
  PROVE  RowStep /\ OutStep
<1>0. StoreOK /\ ThreadOK /\ PassOK
  BY Parts
<1>1. CASE BeginPass \/ ListJobs \/ EndPass
  BY <1>0, <1>1, QuietSteps DEF BeginPass, ListJobs, EndPass, PassOnly, store
<1>2. ASSUME NEW e \in Exec, RecoverListed(e)
      PROVE  RowStep /\ OutStep
  <2>1. Observable(e) \subseteq BOOLEAN
    BY DEF Observable
  <2>2. RowStep
    BY <1>0, <1>2, <2>1, RecoverStep DEF RecoverListed, RowStep, store
  <2>3. NextGen(row[e].gen) \in Gen /\ ResumeAccount(e) \in Account \cup {NoAccount}
    BY <1>0, NextGenType DEF StoreOK, Row, Body, ResumeAccount
  <2>4. agent' = agent /\ (thread' = thread \/ Submitted(e, NextGen(row[e].gen), ResumeAccount(e)))
    BY <1>2 DEF RecoverListed
  <2>5. OutStep
    BY <1>0, <2>3, <2>4, SubmittedOut, StillOut
  <2> QED  BY <2>2, <2>5
<1> QED  BY <1>1, <1>2, OfJobSteps DEF Pass

LEMMA OperatorSteps ==
  ASSUME TypeOK, Operator
  PROVE  RowStep /\ OutStep
<1>0. StoreOK /\ ThreadOK
  BY Parts
<1>1. ASSUME NEW j \in Job,
             (\E v \in 0..MaxEvents, a \in Account \cup {AutoAccount} : Arm(j, v, a)) \/ Disarm(j)
      PROVE  RowStep /\ OutStep
  BY <1>0, <1>1, QuietSteps DEF Arm, Disarm, Save, procs
<1>2. ASSUME NEW j \in Job, NEW e \in Exec, TestNow(j, e)
      PROVE  RowStep /\ OutStep
  <2>1. Appears(e) /\ body[j].account \in Account
    BY <1>0, <1>2, AppearStep, ClaimTestType DEF TestNow
  <2>2. 1 \in Gen
    BY StoreAssumption DEF Gen
  <2>3. OutStep
    BY <1>0, <1>2, <2>1, <2>2, StillOut DEF TestNow
  <2> QED  BY <2>1, <2>3 DEF RowStep
<1>3. ASSUME NEW e \in Exec, Resolve(e)
      PROVE  RowStep /\ OutStep
  BY <1>0, <1>3, ResolveStep, StillOut DEF Resolve, procs, RowStep
<1>4. CASE \E j \in Job :
             \/ \E v \in 0..MaxEvents, a \in Account \cup {AutoAccount} : Arm(j, v, a)
             \/ Disarm(j)
             \/ \E e \in Exec : TestNow(j, e)
  BY <1>1, <1>2, <1>4
<1> QED  BY <1>3, <1>4 DEF Operator

\* The end of a program takes no delivery out, and no agent the payload.
LEMMA DiesOut ==
  ASSUME ThreadOK, AgentOK, NEW test, Dies(test)
  PROVE  OutStep
<1>1. ASSUME NEW e \in Exec, NEW g \in Gen
      PROVE  /\ thread'[e][g].pc = "gone" \/ thread'[e][g] = thread[e][g]
             /\ agent'[e][g] = "killed" \/ agent'[e][g] = agent[e][g]
  <2>1. thread[e][g] \in Thread
    BY DEF ThreadOK
  <2> QED  BY <2>1 DEF Dies, Thread
<1> QED  BY <1>1 DEF OutStep, Out, OutPC, Given

LEMMA OtherSteps ==
  ASSUME TypeOK, OnRecord,
         \/ \E j \in Job, v \in Event : TimePasses(j, v)
         \/ \E e \in Exec : LeaseExpires(e)
         \/ OperatorDies \/ BridgeDies \/ Stop \/ Exit \/ Start
  PROVE  RowStep /\ OutStep
<1>0. StoreOK /\ ThreadOK /\ AgentOK
  BY Parts
<1>1. CASE (\E j \in Job, v \in Event : TimePasses(j, v)) \/ Stop \/ Start
  BY <1>0, <1>1, QuietSteps DEF TimePasses, Stop, Start, store, procs
<1>2. CASE \E e \in Exec : LeaseExpires(e)
  <2>1. PICK e \in Exec : LeaseExpires(e)
    BY <1>2
  <2>2. Works(e)
    BY <1>0, <2>1, ExpiryStep
  <2> QED  BY <1>0, <2>1, <2>2, StillOut DEF LeaseExpires, RowStep, procs
<1>3. CASE OperatorDies \/ BridgeDies \/ Exit
  BY <1>0, <1>3, DiesOut DEF OperatorDies, BridgeDies, Exit, RowStep, store
<1> QED  BY <1>1, <1>2, <1>3

-----------------------------------------------------------------------------
(* The invariant. *)

LEMMA SafeInit == Init => SafeInv
<1> SUFFICES ASSUME Init PROVE SafeInv
  OBVIOUS
<1>1. \A e \in Exec : row[e].state = "NONE" /\ row[e].lease = "none" /\ ~row[e].launched
  BY DEF Init, NoRow
<1>2. \A e \in Exec, g \in Gen : ~Out(e, g)
  BY DEF Init, Out, OutPC, Given
<1> QED  BY <1>1, <1>2, InitType DEF SafeInv, OnRecord, OneReceipt, Planned, OutOnRecord, OneOut

LEMMA SafeNext == SafeInv /\ [Next]_vars => SafeInv'
<1> SUFFICES ASSUME SafeInv, [Next]_vars PROVE SafeInv'
  OBVIOUS
<1>0. StoreOK /\ ThreadOK /\ TypeOK /\ OnRecord /\ OneReceipt /\ OutOnRecord /\ OneOut
  BY Parts DEF SafeInv
<1>1. TypeOK'
  BY <1>0, TypeStep
<1>2. StoreOK'
  BY <1>1 DEF TypeOK, StoreOK
<1>3. RowStep /\ OutStep
  <2>1. CASE Next
    BY <1>0, <2>1, DeliverySteps, PassSteps, OperatorSteps, OtherSteps DEF Next
  <2>2. CASE UNCHANGED vars
    BY <1>0, <2>2, QuietSteps DEF vars
  <2> QED  BY <2>1, <2>2
<1>4. OnRecord' /\ OneReceipt' /\ \A e \in Exec : row[e].launched => row'[e].launched
  BY <1>0, <1>2, <1>3, RowStepSafe
<1>5. OutOnRecord' /\ OneOut'
  BY <1>0, <1>3, <1>4, OutStepSafe
<1> QED  BY <1>1, <1>4, <1>5 DEF SafeInv

LEMMA SafeSpec == Spec => []SafeInv
BY SafeInit, SafeNext, PTL DEF Spec

\* A receipt whose payload may have been written is never in a state from which
\* claim() or recover_expired() would launch it again, whatever crashes, sleeps
\* and takes over in the meantime.
THEOREM SentStaysOnRecord == Spec => []SentIsOnRecord
<1>1. SafeInv => SentIsOnRecord
  BY DEF SafeInv, OnRecord, OutOnRecord, Out, SentIsOnRecord, Relaunchable
<1> QED  BY <1>1, SafeSpec, PTL

\* prepared_delivery writes the payload once at most for a receipt, for a
\* trigger event of a job, and for a whole ONE_SHOT job: advance() hands a
\* receipt to one delivery, and claim() writes one receipt that can be launched.
THEOREM PreparedDeliveredOnce == Spec => []DeliveredOnce
<1>1. ASSUME SafeInv, NEW e \in Exec, NEW f \in Exec, NEW g \in Gen, NEW h \in Gen,
             Given(e, g), Given(f, h),
             \/ e = f
             \/ /\ row[e].job = row[f].job /\ ~row[e].test /\ ~row[f].test
                /\ row[e].job \in Recurring => row[e].event = row[f].event
      PROVE  e = f /\ g = h
  <2>1. Out(e, g) /\ Out(f, h) /\ row[e].launched /\ row[f].launched
    BY <1>1 DEF SafeInv, OutOnRecord, Out
  <2>2. row[e].state # "NONE" /\ row[f].state # "NONE" /\ ~Settled(row[e]) /\ ~Settled(row[f])
    BY <1>1, <2>1 DEF SafeInv, OnRecord, Relaunchable, Settled
  <2>3. e = f
    BY <1>1, <2>2 DEF SafeInv, OneReceipt, Planned
  <2> QED  BY <1>1, <2>1, <2>3 DEF SafeInv, OneOut
<1>2. SafeInv => DeliveredOnce
  BY <1>1 DEF DeliveredOnce
<1> QED  BY <1>2, SafeSpec, PTL

=============================================================================
