-------------------------- MODULE WorkerPoolProofs --------------------------
(***************************************************************************)
(* Why no slot gets a second window while one boots, why a silent slot     *)
(* gets a bounded number of them, and why the budget of the supervisor     *)
(* holds: for any number of slots and any times that PoolAssumption        *)
(* orders.                                                                 *)
(*                                                                         *)
(* The argument is about an old look.  A pass acts on the registry as it   *)
(* was; what has changed since is a window that reported (outdated), a     *)
(* Bridge that is gone (then only the desktop's pass is left), or another  *)
(* pass, which leaves a reservation in the ledger.  So the windows that    *)
(* count against a slot always show in its entry of the ledger.            *)
(***************************************************************************)
EXTENDS WorkerPool, FiniteSetTheorems, TLAPS

-----------------------------------------------------------------------------
(* The inductive invariant. *)

Busy(p)  == pass[p].pc # "idle"
Holds(p) == pass[p].pc \in {"go", "spawn", "opened", "failed"}
Quiet(s) == silent[s].booting = 0 /\ silent[s].futile = 0

\* One pass at a time has the lock.
OneHolds == \A p, q \in Opener : Holds(p) /\ Holds(q) => p = q

\* What a pass under way knows: the windows it read are still registered while the Bridge
\* is, it knows of every registered window or one was heard since, and nothing was opened
\* on a slot whose window it read.
Looked == \A p \in Opener : Busy(p) =>
  /\ bridge = "down" => p = "desktop"
  /\ p # "operator" => pass[p].rows \subseteq pass[p].taken
  /\ p = "operator" => pass[p].taken = {} /\ pass[p].pc # "go" /\ pass[p].slot \in Slot
  /\ bridge # "down" => pass[p].rows \subseteq Rows
  /\ Rows \subseteq pass[p].taken \cup pass[p].rows \cup pass[p].outdated
  /\ \A s \in pass[p].rows : Quiet(s)

\* The slot a pass is opening is reserved; nothing boots on it, and there was a launch left.
Reserving == \A p \in Opener : pass[p].pc \in {"spawn", "opened", "failed"} =>
  /\ pass[p].slot \in Slot
  /\ ledger[pass[p].slot].state = "RESERVED" /\ ledger[pass[p].slot].age = 0
  /\ pass[p].pc # "opened" => silent[pass[p].slot].booting = 0
  /\ pass[p].pc = "spawn" =>
       /\ silent[pass[p].slot].futile < ledger[pass[p].slot].attempts
       /\ pass[p].slot \notin pass[p].rows
       /\ pass[p].slot \in Rows => pass[p].slot \in pass[p].outdated

\* What was opened on a slot shows in its entry.
Counted == \A s \in Slot :
  /\ s \in Rows => Quiet(s)
  /\ silent[s].booting <= 1
  /\ silent[s].booting = 1 =>
       /\ ledger[s].state \in {"RESERVED", "LAUNCHING"}
       /\ ledger[s].age <= silent[s].age /\ silent[s].age < BootGrace
  /\ silent[s].futile > 0 =>
       /\ silent[s].futile <= ledger[s].attempts
       /\ ledger[s].age <= silent[s].age /\ silent[s].age < Decay

\* The slot the operator asked for starts over, unless another pass opened it meanwhile.
Asked == pass["operator"].pc = "wait" =>
  \/ silent[pass["operator"].slot].futile = 0
  \/ /\ Pending(pass["operator"].slot)
     /\ \A p \in Opener : pass[p].pc \in {"spawn", "failed"} => pass[p].slot # pass["operator"].slot

\* The budget counts the passes at least.
Spent ==
  /\ tries <= unproductive
  /\ queued < lastQueued => tries = 0
  /\ Busy("supervisor") => unproductive < MaxUnproductive

Parts == OneHolds /\ Looked /\ Reserving /\ Counted /\ Asked /\ Spent

IInv == TypeOK /\ Parts

-----------------------------------------------------------------------------
(* Types. *)

LEMMA Constants ==
  /\ Lanes \in Nat /\ Cooldown \in Nat /\ Pace \in Nat /\ Ttl \in Nat /\ BootGrace \in Nat
  /\ Memory \in Nat /\ Decay \in Nat /\ MaxAttempts \in Nat /\ MaxUnproductive \in Nat
  /\ MaxQueued \in Nat /\ MaxEvents \in Nat /\ MaxFaults \in Nat
  /\ 0 < MaxAttempts /\ 0 < BootGrace /\ BootGrace < Decay
BY PoolAssumption

LEMMA Values ==
  /\ Idle \in Pass /\ NoEntry \in Entry /\ Heartbeat \in Entry /\ Heard \in Silence
BY Constants DEF Idle, Pass, NoEntry, Heartbeat, Entry, Heard, Silence, Slot

LEMMA ActiveType == Active \in Nat
<1>1. IsFiniteSet(Slot)
  BY Constants, FS_Interval DEF Slot
<1>2. IsFiniteSet(Rows)
  BY <1>1, FS_Subset DEF Rows
<1> QED  BY <1>2, FS_CardinalityType DEF Active

LEMMA LeastType == \A a, b \in Nat : Least(a, b) \in Nat /\ Least(a, b) <= a /\ Least(a, b) <= b
BY DEF Least

\* A pass with one or several fields changed is a pass.
LEMMA PassType ==
  ASSUME pass \in [Opener -> Pass], NEW p \in Opener, NEW pc \in {"idle", "wait", "go", "spawn", "opened", "failed"}
  PROVE  [pass EXCEPT ![p].pc = pc] \in [Opener -> Pass]
BY DEF Pass

LEMMA TypeInit == Init => TypeOK
<1> SUFFICES ASSUME Init PROVE TypeOK
  OBVIOUS
<1>1. ledger \in [Slot -> Entry] /\ pass \in [Opener -> Pass] /\ silent \in [Slot -> Silence]
  BY Values DEF Init
<1>2. row \in [Slot -> {"none", "free", "taken"}] /\ seen \in [Slot -> 0 .. Memory + 1]
  BY Constants DEF Init
<1>3. queued \in 0 .. MaxQueued /\ lastQueued \in 0 .. MaxQueued /\ pace \in 0 .. Pace
  BY Constants DEF Init
<1>4. /\ unproductive \in 0 .. MaxUnproductive /\ tries \in 0 .. MaxUnproductive + 1
      /\ events \in 0 .. MaxEvents /\ faults \in 0 .. MaxFaults
      /\ bridge \in {"up", "stopping", "stopped", "down"} /\ opened \subseteq Slot
  BY Constants DEF Init
<1>5. due \in BOOLEAN
  BY Zenon DEF Init
<1> QED  BY <1>1, <1>2, <1>3, <1>4, <1>5 DEF TypeOK

LEMMA TypeSupervisorLooks ==
  ASSUME TypeOK, SupervisorLooks
  PROVE  TypeOK'
<1>1. Budget \in 0 .. MaxUnproductive
  BY Constants DEF TypeOK, Budget
<1>2. ASSUME NEW d \in 0 .. Lanes
      PROVE  [Idle EXCEPT !.pc = "wait", !.rows = Rows, !.taken = Known, !.desired = d] \in Pass
  BY Values, Constants DEF Idle, Pass, Rows, Known, Slot
<1>3. Least(Lanes, Active + queued) \in 0 .. Lanes
  BY ActiveType, Constants DEF TypeOK, Least
<1>4. pass' \in [Opener -> Pass]
  BY <1>2, <1>3 DEF TypeOK, SupervisorLooks, Opener
<1> QED  BY <1>1, <1>4 DEF TypeOK, SupervisorLooks

LEMMA TypeDesktopLooks ==
  ASSUME TypeOK, DesktopLooks
  PROVE  TypeOK'
<1>1. ASSUME NEW d \in Slot
      PROVE  /\ [Idle EXCEPT !.pc = "wait", !.rows = Rows, !.taken = Known, !.desired = d] \in Pass
             /\ [Idle EXCEPT !.pc = "wait", !.desired = d, !.outdated = Slot] \in Pass
  <2>1. Rows \subseteq Slot /\ Known \subseteq Slot /\ d \in 0 .. Lanes
    BY Constants DEF Rows, Known, Slot
  <2> QED  BY <2>1, Values DEF Pass
<1>2. pass' \in [Opener -> Pass]
  BY <1>1 DEF TypeOK, DesktopLooks, Opener
<1>3. events' \in 0 .. MaxEvents /\ faults' \in 0 .. MaxFaults
  BY Constants DEF TypeOK, DesktopLooks, Event, Fault
<1> QED  BY <1>2, <1>3 DEF TypeOK, DesktopLooks

LEMMA TypeOperatorLooks ==
  ASSUME TypeOK, NEW s \in Slot, OperatorLooks(s)
  PROVE  TypeOK'
<1>1. [Idle EXCEPT !.pc = "wait", !.rows = Rows, !.slot = s] \in Pass
  <2>1. Rows \subseteq Slot /\ s \in 0 .. Lanes
    BY Constants DEF Rows, Slot
  <2> QED  BY <2>1, Values DEF Pass
<1>2. pass' \in [Opener -> Pass]
  BY <1>1 DEF TypeOK, OperatorLooks, Opener
<1>3. ledger' \in [Slot -> Entry]
  BY Values DEF TypeOK, OperatorLooks
<1>4. silent' \in [Slot -> Silence]
  BY Constants DEF TypeOK, OperatorLooks, Silence
<1>5. events' \in 0 .. MaxEvents
  BY Constants DEF TypeOK, OperatorLooks, Event
<1> QED  BY <1>2, <1>3, <1>4, <1>5, Constants DEF TypeOK, OperatorLooks

LEMMA TypeSpawn ==
  ASSUME TypeOK, Reserving, NEW p \in Opener, Spawn(p)
  PROVE  TypeOK'
<1>1. pass' \in [Opener -> Pass]
  BY PassType DEF TypeOK, Spawn
<1>2. pass[p].slot \in Slot
  BY DEF Spawn, Reserving
<1>3. opened' \subseteq Slot
  BY <1>2 DEF Spawn, TypeOK
<1>4. silent' \in [Slot -> Silence]
  BY <1>2, Constants DEF Spawn, TypeOK, Silence, Least
<1> QED  BY <1>1, <1>3, <1>4 DEF TypeOK, Spawn

LEMMA TypeCharge ==
  ASSUME TypeOK, Spent, NEW p \in Opener, Busy(p), Charge(p)
  PROVE  /\ unproductive' \in 0 .. MaxUnproductive /\ pace' \in 0 .. Pace
         /\ tries' \in 0 .. MaxUnproductive + 1
BY Constants DEF TypeOK, Spent, Charge, Least

LEMMA TypeReserved ==
  ASSUME NEW s, NEW a \in 0 .. MaxAttempts - 1
  PROVE  Reserved(s, a) \in Entry
BY Constants DEF Reserved, Entry

LEMMA TypeProvision ==
  ASSUME TypeOK, Spent, NEW p \in Opener, Provision(p)
  PROVE  TypeOK'
<1>1. PICK s \in 1 .. Lanes + 1 :
        /\ ComesTo(p, s)
        /\ IF Wanted(p) # {} /\ Cardinality(Taken(p)) < pass[p].desired
             THEN /\ ledger' = [Told(p, s) EXCEPT ![s] = Reserved(s, Attempts(s))]
                  /\ pass' = [pass EXCEPT ![p].pc = "spawn", ![p].slot = s,
                                          ![p].taken = Taken(p) \cup {s}]
                  /\ UNCHANGED <<unproductive, pace, tries>>
             ELSE /\ ledger' = Told(p, s) /\ Finish(p)
                  /\ IF pass[p].pc = "go" THEN Charge(p) ELSE UNCHANGED <<unproductive, pace, tries>>
  BY DEF Provision
<1>2. Told(p, s) \in [Slot -> Entry]
  BY Values DEF Told, TypeOK
<1>3. Busy(p)
  BY DEF Provision, Busy
<1>4. CASE Wanted(p) # {} /\ Cardinality(Taken(p)) < pass[p].desired
  <2>1. s \in Wanted(p)
    BY <1>1, <1>4 DEF ComesTo
  <2>2. s \in Slot /\ Attempts(s) \in 0 .. MaxAttempts - 1
    <3>1. pass[p].slot \in 0 .. Lanes /\ pass[p].desired \in 0 .. Lanes
      BY DEF TypeOK, Pass
    <3>2. s \in pass[p].slot + 1 .. pass[p].desired /\ Attempts(s) < MaxAttempts
      BY <2>1 DEF Wanted
    <3>3. s \in Slot
      BY <3>1, <3>2, Constants DEF Slot
    <3>4. Attempts(s) \in Nat
      BY <3>3, Constants DEF Attempts, TypeOK, Entry
    <3> QED  BY <3>2, <3>3, <3>4, Constants
  <2>3. ledger' \in [Slot -> Entry]
    BY <1>1, <1>2, <1>4, <2>2, TypeReserved
  <2>4. Taken(p) \cup {s} \subseteq Slot
    BY <2>2 DEF Taken, TypeOK, Pass
  <2>5. pass' \in [Opener -> Pass]
    <3>1. [pass[p] EXCEPT !.pc = "spawn", !.slot = s, !.taken = Taken(p) \cup {s}] \in Pass
      <4>1. pass[p] \in Pass /\ s \in 0 .. Lanes
        BY <2>2, Constants DEF TypeOK, Slot
      <4> QED  BY <4>1, <2>4 DEF Pass
    <3> QED  BY <1>1, <1>4, <3>1 DEF TypeOK
  <2> QED  BY <1>1, <1>4, <2>3, <2>5 DEF TypeOK, Provision
<1>5. CASE ~(Wanted(p) # {} /\ Cardinality(Taken(p)) < pass[p].desired)
  <2>1. /\ unproductive' \in 0 .. MaxUnproductive /\ pace' \in 0 .. Pace
        /\ tries' \in 0 .. MaxUnproductive + 1
    BY <1>1, <1>3, <1>5, TypeCharge DEF TypeOK
  <2>2. pass' \in [Opener -> Pass]
    BY <1>1, <1>5, Values DEF Finish, TypeOK
  <2> QED  BY <1>1, <1>2, <1>5, <2>1, <2>2 DEF TypeOK, Provision
<1> QED  BY <1>4, <1>5

LEMMA TypeRelaunch ==
  ASSUME TypeOK, Looked, Relaunch
  PROVE  TypeOK'
<1>1. pass["operator"].slot \in Slot
  BY DEF Looked, Relaunch, Busy, Opener
<1>2. ledger' \in [Slot -> Entry]
  BY <1>1, TypeReserved, Constants DEF Relaunch, TypeOK
<1>3. pass' \in [Opener -> Pass]
  BY PassType, Values DEF Relaunch, TypeOK, Finish, Opener
<1> QED  BY <1>2, <1>3 DEF TypeOK, Relaunch

LEMMA TypeRecord ==
  ASSUME TypeOK, NEW p \in Opener, Record(p)
  PROVE  TypeOK'
<1>1. pass' \in [Opener -> Pass]
  BY PassType, Values DEF Record, TypeOK, Finish
<1>2. ledger' \in [Slot -> Entry]
  <2>1. PICK st \in {"LAUNCHING", "LAUNCH_FAILED"} : ledger' = [ledger EXCEPT ![pass[p].slot].state = st]
    BY DEF Record
  <2>2. \A s \in Slot : [ledger[s] EXCEPT !.state = st] \in Entry
    BY DEF TypeOK, Entry
  <2> QED  BY <2>1, <2>2 DEF TypeOK
<1> QED  BY <1>1, <1>2 DEF TypeOK, Record

LEMMA TypePoll ==
  ASSUME TypeOK, NEW s \in Slot, NEW state \in {"free", "taken"}, Poll(s, state)
  PROVE  TypeOK'
<1>1. pass' \in [Opener -> Pass]
  BY DEF Poll, TypeOK, Pass
<1>2. queued' \in 0 .. MaxQueued /\ tries' \in 0 .. MaxUnproductive + 1
  BY Constants DEF Poll, TypeOK, Shrink
<1>3. silent' \in [Slot -> Silence] /\ row' \in [Slot -> {"none", "free", "taken"}]
  BY Values DEF Poll, TypeOK
<1>4. seen' \in [Slot -> 0 .. Memory + 1]
  BY Constants DEF Poll, TypeOK
<1> QED  BY <1>1, <1>2, <1>3, <1>4 DEF TypeOK, Poll

LEMMA TypeBridgeGone ==
  ASSUME TypeOK, BridgeGone, faults' \in 0 .. MaxFaults
  PROVE  TypeOK'
<1>1. pass' \in [Opener -> Pass]
  BY Values DEF BridgeGone, TypeOK
<1>2. row' \in [Slot -> {"none", "free", "taken"}] /\ seen' \in [Slot -> 0 .. Memory + 1]
  BY Constants DEF BridgeGone
<1>3. due' \in BOOLEAN
  BY Zenon DEF BridgeGone
<1>4. /\ lastQueued' \in 0 .. MaxQueued /\ unproductive' \in 0 .. MaxUnproductive
      /\ pace' \in 0 .. Pace /\ tries' \in 0 .. MaxUnproductive + 1
      /\ bridge' \in {"up", "stopping", "stopped", "down"}
  BY Constants DEF BridgeGone
<1>5. UNCHANGED <<ledger, queued, opened, silent, events>>
  BY DEF BridgeGone
<1> QED  BY <1>1, <1>2, <1>3, <1>4, <1>5 DEF TypeOK

LEMMA TypeBreaksOff ==
  ASSUME TypeOK, NEW p \in Opener, BreaksOff(p)
  PROVE  TypeOK'
<1>1. pass' \in [Opener -> Pass]
  BY Values DEF BreaksOff, Finish, TypeOK
<1> QED  BY <1>1, Constants DEF TypeOK, BreaksOff, Fault

LEMMA TypeTick ==
  ASSUME TypeOK, Tick
  PROVE  TypeOK'
<1>1. ledger' \in [Slot -> Entry]
  <2>1. ledger' = [s \in Slot |-> [ledger[s] EXCEPT !.age = Least(@ + 1, Decay)]]
    BY Zenon DEF Tick
  <2>2. \A s \in Slot : [ledger[s] EXCEPT !.age = Least(@ + 1, Decay)] \in Entry
    BY Constants DEF TypeOK, Entry, Least
  <2> QED  BY <2>1, <2>2
<1>2. silent' \in [Slot -> Silence]
  <2>1. silent' = [s \in Slot |->
       IF silent[s].age + 1 >= Decay THEN Heard
       ELSE [silent[s] EXCEPT !.age = @ + 1,
                              !.booting = IF silent[s].age + 1 >= BootGrace THEN 0 ELSE @]]
    BY Zenon DEF Tick
  <2>2. ASSUME NEW s \in Slot, ~(silent[s].age + 1 >= Decay)
        PROVE  [silent[s] EXCEPT !.age = @ + 1,
                  !.booting = IF silent[s].age + 1 >= BootGrace THEN 0 ELSE @] \in Silence
    <3>1. silent[s] \in Silence
      BY DEF TypeOK
    <3>2. \A a \in 0 .. Decay, b \in 0 .. 2 :
            [silent[s] EXCEPT !.age = a, !.booting = b] \in Silence
      BY <3>1 DEF Silence
    <3>3. silent[s].age \in Nat /\ silent[s].booting \in 0 .. 2
      BY <3>1, Constants DEF Silence
    <3>4. silent[s].age + 1 \in 0 .. Decay
      BY <2>2, <3>3, Constants
    <3>5. (IF silent[s].age + 1 >= BootGrace THEN 0 ELSE silent[s].booting) \in 0 .. 2
      BY <3>3
    <3> QED  BY <3>2, <3>4, <3>5
  <2>3. ASSUME NEW s \in Slot
        PROVE  silent'[s] \in Silence
    BY <2>1, <2>2, Values
  <2> QED  BY <2>1, <2>3
<1>3. row' \in [Slot -> {"none", "free", "taken"}]
  <2>1. row' = [s \in Slot |-> IF seen[s] + 1 > Ttl THEN "none" ELSE row[s]]
    BY Zenon DEF Tick
  <2> QED  BY <2>1 DEF TypeOK
<1>4. seen' \in [Slot -> 0 .. Memory + 1]
  <2>1. seen' = [s \in Slot |-> Least(seen[s] + 1, Memory + 1)]
    BY Zenon DEF Tick
  <2> QED  BY <2>1, Constants DEF TypeOK, Least
<1>5. pace' \in 0 .. Pace
  <2>1. pace' = Least(pace + 1, Pace)
    BY Zenon DEF Tick
  <2> QED  BY <2>1, Constants DEF TypeOK, Least
<1>6. due' \in BOOLEAN
  BY Zenon DEF Tick
<1>7. UNCHANGED <<queued, lastQueued, unproductive, bridge, opened, tries, events, faults, pass>>
  BY Zenon DEF Tick
<1> QED  BY <1>1, <1>2, <1>3, <1>4, <1>5, <1>6, <1>7 DEF TypeOK

LEMMA TypeOthers ==
  ASSUME TypeOK, Enqueue \/ Withdraw \/ Stop \/ Stopped \/ StartBridge
  PROVE  TypeOK'
<1>1. CASE Enqueue
  BY <1>1, Constants DEF TypeOK, Enqueue, Event
<1>2. CASE Withdraw
  BY <1>2, Constants DEF TypeOK, Withdraw, Event, Shrink
<1>3. CASE Stop
  BY <1>3, Constants DEF TypeOK, Stop, Event
<1>4. CASE Stopped \/ StartBridge
  BY <1>4, Constants DEF TypeOK, Stopped, StartBridge
<1> QED  BY <1>1, <1>2, <1>3, <1>4

-----------------------------------------------------------------------------
(* Every step keeps it. *)

LEMMA KeepsInit == Init => Parts
<1> SUFFICES ASSUME Init PROVE Parts
  OBVIOUS
<1>1. \A p \in Opener : pass[p].pc = "idle"
  BY DEF Init, Idle
<1>2. OneHolds /\ Looked /\ Reserving /\ Asked
  BY <1>1 DEF OneHolds, Holds, Looked, Busy, Reserving, Asked, Opener
<1>3. Counted
  BY Constants DEF Init, Counted, Rows, Quiet, Heard
<1>4. Spent
  BY <1>1, Constants DEF Init, Spent, Busy, Opener
<1> QED  BY <1>2, <1>3, <1>4 DEF Parts

LEMMA KeepsSupervisorLooks ==
  ASSUME IInv, SupervisorLooks
  PROVE  Parts'
<1>1. UNCHANGED <<ledger, row, bridge, silent, queued, tries>>
  BY DEF SupervisorLooks
<1>2. bridge = "up"
  BY DEF SupervisorLooks
<1>3. CASE pass' = pass
  <2>1. (OneHolds /\ Looked /\ Reserving /\ Counted /\ Asked)'
    BY <1>1, <1>3 DEF IInv, Parts, OneHolds, Holds, Looked, Busy, Rows, Quiet, Reserving, Counted, Asked, Pending
  <2>2. Spent'
    BY <1>1, <1>3 DEF IInv, Parts, SupervisorLooks, Spent, Busy, Budget, TypeOK
  <2> QED  BY <2>1, <2>2 DEF Parts
<1>4. CASE pass' # pass
  <2>1. /\ \A p \in Opener \ {"supervisor"} : pass'[p] = pass[p]
        /\ pass'["supervisor"].pc = "wait" /\ pass'["supervisor"].rows = Rows
        /\ pass'["supervisor"].taken = Known
    BY <1>4 DEF SupervisorLooks, IInv, Parts, TypeOK, Opener, Idle
  <2>2. OneHolds' /\ Reserving'
    BY <1>1, <2>1 DEF IInv, Parts, OneHolds, Holds, Reserving, Rows
  <2>3. Looked'
    <3> SUFFICES ASSUME NEW p \in Opener, Busy(p)'
                 PROVE  /\ bridge' = "down" => p = "desktop"
                        /\ p # "operator" => pass'[p].rows \subseteq pass'[p].taken
                        /\ p = "operator" => pass'[p].taken = {} /\ pass'[p].pc # "go" /\ pass'[p].slot \in Slot
                        /\ bridge' # "down" => pass'[p].rows \subseteq Rows'
                        /\ Rows' \subseteq pass'[p].taken \cup pass'[p].rows \cup pass'[p].outdated
                        /\ \A s \in pass'[p].rows : Quiet(s)'
      BY DEF Looked
    <3>1. CASE p = "supervisor"
      BY <3>1, <2>1, <1>1, <1>2 DEF IInv, Parts, Counted, Rows, Known, Quiet
    <3>2. CASE p # "supervisor"
      BY <3>2, <2>1, <1>1 DEF IInv, Parts, Looked, Rows, Quiet, Busy
    <3> QED  BY <3>1, <3>2
  <2>4. Counted' /\ Asked'
    BY <1>1, <2>1 DEF IInv, Parts, Counted, Rows, Quiet, Asked, Pending, Opener
  <2>5. Spent'
    BY <1>1, <1>4 DEF IInv, Parts, SupervisorLooks, Spent, Busy, Budget, TypeOK
  <2> QED  BY <2>2, <2>3, <2>4, <2>5 DEF Parts
<1> QED  BY <1>3, <1>4

LEMMA KeepsDesktopLooks ==
  ASSUME IInv, DesktopLooks
  PROVE  Parts'
<1>1. UNCHANGED <<ledger, row, bridge, silent, queued, lastQueued, unproductive, tries>>
  BY DEF DesktopLooks
<1>2. bridge = "up"
  BY DEF DesktopLooks
<1>3. /\ \A p \in Opener \ {"desktop"} : pass'[p] = pass[p]
      /\ pass'["desktop"].pc = "wait"
      /\ \/ pass'["desktop"].rows = Rows /\ pass'["desktop"].taken = Known
         \/ /\ pass'["desktop"].rows = {} /\ pass'["desktop"].taken = {}
            /\ pass'["desktop"].outdated = Slot
  <2>1. PICK d \in Slot :
          \/ pass' = [pass EXCEPT !["desktop"] =
               [Idle EXCEPT !.pc = "wait", !.rows = Rows, !.taken = Known, !.desired = d]]
          \/ pass' = [pass EXCEPT !["desktop"] =
               [Idle EXCEPT !.pc = "wait", !.desired = d, !.outdated = Slot]]
    BY DEF DesktopLooks
  <2>2. "desktop" \in Opener /\ pass \in [Opener -> Pass]
    BY DEF IInv, Parts, TypeOK, Opener
  <2> QED  BY <2>1, <2>2 DEF Idle
<1>4. OneHolds' /\ Reserving'
  BY <1>1, <1>3 DEF IInv, Parts, OneHolds, Holds, Reserving, Rows
<1>5. Looked'
  <2> SUFFICES ASSUME NEW p \in Opener, Busy(p)'
               PROVE  /\ bridge' = "down" => p = "desktop"
                      /\ p # "operator" => pass'[p].rows \subseteq pass'[p].taken
                      /\ p = "operator" => pass'[p].taken = {} /\ pass'[p].pc # "go" /\ pass'[p].slot \in Slot
                      /\ bridge' # "down" => pass'[p].rows \subseteq Rows'
                      /\ Rows' \subseteq pass'[p].taken \cup pass'[p].rows \cup pass'[p].outdated
                      /\ \A s \in pass'[p].rows : Quiet(s)'
    BY DEF Looked
  <2>1. CASE p = "desktop"
    BY <2>1, <1>1, <1>2, <1>3 DEF IInv, Parts, Counted, Rows, Known, Quiet
  <2>2. CASE p # "desktop"
    BY <2>2, <1>1, <1>3 DEF IInv, Parts, Looked, Rows, Quiet, Busy
  <2> QED  BY <2>1, <2>2
<1>6. Counted' /\ Asked' /\ Spent'
  BY <1>1, <1>3 DEF IInv, Parts, Counted, Rows, Quiet, Asked, Pending, Opener, Spent, Busy
<1> QED  BY <1>4, <1>5, <1>6 DEF Parts

LEMMA KeepsOperatorLooks ==
  ASSUME IInv, NEW s \in Slot, OperatorLooks(s)
  PROVE  Parts'
<1>1. UNCHANGED <<row, bridge, queued, lastQueued>> /\ bridge = "up"
  BY DEF OperatorLooks
<1>2. /\ \A p \in Opener \ {"operator"} : pass'[p] = pass[p]
      /\ pass'["operator"].pc = "wait" /\ pass'["operator"].rows = Rows
      /\ pass'["operator"].taken = {} /\ pass'["operator"].slot = s
  BY DEF OperatorLooks, IInv, Parts, TypeOK, Opener, Idle
<1>3. /\ \A r \in Slot \ {s} : ledger'[r] = ledger[r] /\ silent'[r] = silent[r]
      /\ silent'[s].futile = 0 /\ silent'[s].booting = silent[s].booting
      /\ silent'[s].age = silent[s].age
      /\ ledger'[s] = IF Pending(s) THEN ledger[s] ELSE NoEntry
  BY DEF OperatorLooks, IInv, Parts, TypeOK, Silence
<1>4. \A p \in Opener : pass[p].pc \in {"idle", "wait"} /\ pass'[p].pc \in {"idle", "wait"}
  BY <1>2 DEF OperatorLooks, Unlocked
<1>5. OneHolds' /\ Reserving'
  BY <1>4 DEF OneHolds, Holds, Reserving
<1>6. \A r \in Slot : Quiet(r) => Quiet(r)'
  BY <1>3 DEF Quiet
<1>7. Looked'
  <2> SUFFICES ASSUME NEW p \in Opener, Busy(p)'
               PROVE  /\ bridge' = "down" => p = "desktop"
                      /\ p # "operator" => pass'[p].rows \subseteq pass'[p].taken
                      /\ p = "operator" => pass'[p].taken = {} /\ pass'[p].pc # "go" /\ pass'[p].slot \in Slot
                      /\ bridge' # "down" => pass'[p].rows \subseteq Rows'
                      /\ Rows' \subseteq pass'[p].taken \cup pass'[p].rows \cup pass'[p].outdated
                      /\ \A r \in pass'[p].rows : Quiet(r)'
    BY DEF Looked
  <2>1. CASE p = "operator"
    BY <2>1, <1>1, <1>2, <1>6 DEF IInv, Parts, Counted, Rows
  <2>2. CASE p # "operator"
    <3>1. pass'[p] = pass[p] /\ pass[p].rows \subseteq Slot
      BY <2>2, <1>2 DEF IInv, Parts, TypeOK, Pass
    <3> QED  BY <3>1, <2>2, <1>1, <1>6 DEF IInv, Parts, Looked, Rows, Busy
  <2> QED  BY <2>1, <2>2
<1>8. Counted'
  <2>1. silent[s].booting = 1 => Pending(s)
    <3>1. silent[s].age \in Nat /\ ledger[s].age \in Nat
      BY Constants DEF IInv, Parts, TypeOK, Silence, Entry
    <3> QED  BY <3>1, Constants DEF IInv, Parts, Counted, Pending
  <2>2. Rows' = Rows
    BY <1>1 DEF Rows
  <2>3. silent[s].booting \in 0 .. 2 /\ silent'[s].booting <= 1
    BY <1>3 DEF IInv, Parts, Counted, TypeOK, Silence
  <2> SUFFICES ASSUME NEW r \in Slot
               PROVE  /\ r \in Rows' => Quiet(r)'
                      /\ silent'[r].booting <= 1
                      /\ silent'[r].booting = 1 =>
                           /\ ledger'[r].state \in {"RESERVED", "LAUNCHING"}
                           /\ ledger'[r].age <= silent'[r].age /\ silent'[r].age < BootGrace
                      /\ silent'[r].futile > 0 =>
                           /\ silent'[r].futile <= ledger'[r].attempts
                           /\ ledger'[r].age <= silent'[r].age /\ silent'[r].age < Decay
    BY DEF Counted
  <2>4. CASE r = s
    BY <2>1, <2>2, <2>3, <2>4, <1>3, <1>6 DEF IInv, Parts, Counted
  <2>5. CASE r # s
    BY <2>5, <2>2, <1>3, <1>6 DEF IInv, Parts, Counted
  <2> QED  BY <2>4, <2>5
<1>9. Asked'
  BY <1>2, <1>3 DEF Asked
<1>10. Spent'
  <2>1. unproductive' = 0 /\ tries' = 0
    BY DEF OperatorLooks
  <2>2. Busy("supervisor")' => 0 < MaxUnproductive
    BY <1>2, Constants DEF IInv, Parts, Spent, Busy, Opener, TypeOK
  <2> QED  BY <2>1, <2>2 DEF Spent
<1> QED  BY <1>5, <1>7, <1>8, <1>9, <1>10 DEF Parts

LEMMA KeepsBreaksOff ==
  ASSUME IInv, NEW p \in Opener, BreaksOff(p)
  PROVE  Parts'
<1>1. UNCHANGED <<ledger, row, bridge, silent, queued, lastQueued, unproductive, tries>>
  BY DEF BreaksOff
<1>2. pass'[p].pc = "idle" /\ \A q \in Opener \ {p} : pass'[q] = pass[q]
  BY DEF BreaksOff, Finish, IInv, Parts, TypeOK, Idle
<1>3. OneHolds' /\ Reserving'
  BY <1>1, <1>2 DEF IInv, Parts, OneHolds, Holds, Reserving, Rows
<1>4. Looked'
  BY <1>1, <1>2 DEF IInv, Parts, Looked, Rows, Quiet, Busy
<1>5. Counted' /\ Spent'
  BY <1>1, <1>2 DEF IInv, Parts, Counted, Rows, Quiet, Spent, Busy, Opener
<1>6. Asked'
  BY <1>1, <1>2 DEF IInv, Parts, Asked, Pending, Opener
<1> QED  BY <1>3, <1>4, <1>5, <1>6 DEF Parts

LEMMA KeepsBridgeGone ==
  ASSUME IInv, BridgeGone
  PROVE  Parts'
<1>1. UNCHANGED <<ledger, silent>> /\ bridge' = "down" /\ Rows' = {}
  BY DEF BridgeGone, Rows
<1>2. /\ pass'["supervisor"].pc = "idle" /\ pass'["operator"].pc = "idle"
      /\ pass'["desktop"] = pass["desktop"]
  BY DEF BridgeGone, IInv, Parts, TypeOK, Idle, Opener
<1>3. OneHolds' /\ Asked'
  BY <1>2 DEF OneHolds, Holds, Asked, Opener
<1>4. Reserving'
  BY <1>1, <1>2 DEF IInv, Parts, Reserving, Opener
<1>5. Looked'
  BY <1>1, <1>2 DEF IInv, Parts, Looked, Busy, Quiet, Opener
<1>6. Counted'
  BY <1>1 DEF IInv, Parts, Counted, Quiet
<1>7. Spent'
  <2>1. lastQueued' = 0 /\ unproductive' = 0 /\ tries' = 0 /\ queued' = queued
    BY DEF BridgeGone
  <2> QED  BY <2>1, <1>2 DEF IInv, Parts, TypeOK, Spent, Busy
<1> QED  BY <1>3, <1>4, <1>5, <1>6, <1>7 DEF Parts

LEMMA KeepsTick ==
  ASSUME IInv, Tick
  PROVE  Parts'
<1>1. \A p \in Opener : pass'[p].pc = "idle"
  BY Zenon DEF Tick
<1>2. (OneHolds /\ Looked /\ Reserving /\ Asked)'
  BY <1>1 DEF OneHolds, Holds, Looked, Busy, Reserving, Asked, Opener
<1>3. UNCHANGED <<queued, lastQueued, unproductive, tries>>
  BY Zenon DEF Tick
<1>4. Spent'
  BY <1>1, <1>3 DEF IInv, Parts, Spent, Busy, Opener
<1>5. Counted'
  <2> SUFFICES ASSUME NEW s \in Slot
               PROVE  /\ s \in Rows' => Quiet(s)'
                      /\ silent'[s].booting <= 1
                      /\ silent'[s].booting = 1 =>
                           /\ ledger'[s].state \in {"RESERVED", "LAUNCHING"}
                           /\ ledger'[s].age <= silent'[s].age /\ silent'[s].age < BootGrace
                      /\ silent'[s].futile > 0 =>
                           /\ silent'[s].futile <= ledger'[s].attempts
                           /\ ledger'[s].age <= silent'[s].age /\ silent'[s].age < Decay
    BY DEF Counted
  <2>1. /\ silent[s].age \in 0 .. Decay /\ silent[s].booting \in 0 .. 2
        /\ silent[s].futile \in 0 .. MaxAttempts + 1
        /\ ledger[s].age \in 0 .. Decay /\ ledger[s].attempts \in 0 .. MaxAttempts
    BY DEF IInv, Parts, TypeOK, Silence, Entry
  <2>2. /\ ledger'[s].state = ledger[s].state /\ ledger'[s].attempts = ledger[s].attempts
        /\ ledger'[s].age = Least(ledger[s].age + 1, Decay)
    <3>1. ledger' = [r \in Slot |-> [ledger[r] EXCEPT !.age = Least(@ + 1, Decay)]]
      BY Zenon DEF Tick
    <3>2. ledger[s] \in Entry
      BY DEF IInv, Parts, TypeOK
    <3> QED  BY <3>1, <3>2 DEF Entry
  <2>3. s \in Rows' => s \in Rows
    <3>1. row' = [r \in Slot |-> IF seen[r] + 1 > Ttl THEN "none" ELSE row[r]]
      BY Zenon DEF Tick
    <3> QED  BY <3>1 DEF Rows
  <2>4. silent'[s] = IF silent[s].age + 1 >= Decay THEN Heard
          ELSE [silent[s] EXCEPT !.age = @ + 1,
                  !.booting = IF silent[s].age + 1 >= BootGrace THEN 0 ELSE @]
    BY Zenon DEF Tick
  <2>5. CASE silent[s].age + 1 >= Decay
    <3>1. silent'[s].booting = 0 /\ silent'[s].futile = 0
      BY <2>4, <2>5 DEF Heard
    <3> QED  BY <3>1 DEF Quiet
  <2>6. CASE ~(silent[s].age + 1 >= Decay)
    <3>1. /\ silent'[s].age = silent[s].age + 1 /\ silent'[s].futile = silent[s].futile
          /\ silent'[s].booting = IF silent[s].age + 1 >= BootGrace THEN 0 ELSE silent[s].booting
      <4>1. silent[s] \in Silence
        BY DEF IInv, Parts, TypeOK
      <4> QED  BY <4>1, <2>4, <2>6 DEF Silence
    <3>2. Quiet(s) => Quiet(s)'
      BY <3>1 DEF Quiet
    <3> QED  BY <3>1, <3>2, <2>1, <2>2, <2>3, <2>6, Constants DEF IInv, Parts, Counted, Least
  <2> QED  BY <2>5, <2>6
<1> QED  BY <1>2, <1>4, <1>5 DEF Parts

LEMMA KeepsOthers ==
  ASSUME IInv, Enqueue \/ Withdraw \/ Stop \/ Stopped \/ StartBridge
  PROVE  Parts'
<1>1. UNCHANGED <<ledger, row, silent, lastQueued, unproductive, pass>>
  BY DEF Enqueue, Withdraw, Stop, Stopped, StartBridge
<1>2. OneHolds' /\ Reserving' /\ Counted' /\ Asked'
  BY <1>1 DEF IInv, Parts, OneHolds, Holds, Reserving, Rows, Counted, Quiet, Asked, Pending
<1>3. Looked'
  <2>1. CASE bridge' = bridge
    BY <1>1, <2>1 DEF IInv, Parts, Looked, Rows, Quiet, Busy
  <2>2. CASE bridge' # bridge /\ bridge # "down"
    <3>1. bridge' # "down"
      BY <2>2 DEF Enqueue, Withdraw, Stop, Stopped, StartBridge
    <3> QED  BY <1>1, <2>2, <3>1 DEF IInv, Parts, Looked, Rows, Quiet, Busy
  <2>3. CASE bridge' # bridge /\ bridge = "down"
    <3>1. pass["desktop"].pc = "idle"
      BY <2>3 DEF Enqueue, Withdraw, Stop, Stopped, StartBridge
    <3>2. \A p \in Opener : ~Busy(p)'
      BY <1>1, <2>3, <3>1 DEF IInv, Parts, Looked, Busy
    <3> QED  BY <3>2 DEF Looked
  <2> QED  BY <2>1, <2>2, <2>3
<1>4. Spent'
  <2>1. \/ UNCHANGED <<queued, tries>>
        \/ queued' = queued + 1 /\ UNCHANGED tries
        \/ queued' = queued - 1 /\ tries' = 0
    BY DEF Enqueue, Withdraw, Stop, Stopped, StartBridge, Shrink
  <2> QED  BY <1>1, <2>1 DEF IInv, Parts, Spent, Busy, TypeOK
<1> QED  BY <1>2, <1>3, <1>4 DEF Parts

LEMMA KeepsPoll ==
  ASSUME IInv, NEW s \in Slot, NEW state \in {"free", "taken"}, Poll(s, state)
  PROVE  Parts'
<1>1. UNCHANGED <<ledger, bridge, lastQueued, unproductive>> /\ bridge = "up"
  BY DEF Poll
<1>2. Rows' = Rows \cup {s}
  BY DEF Poll, Rows, IInv, Parts, TypeOK
<1>3. silent'[s] = Heard /\ \A r \in Slot \ {s} : silent'[r] = silent[r]
  BY DEF Poll, IInv, Parts, TypeOK
<1>4. \A p \in Opener :
        /\ pass'[p].pc = pass[p].pc /\ pass'[p].rows = pass[p].rows
        /\ pass'[p].taken = pass[p].taken /\ pass'[p].slot = pass[p].slot
        /\ Busy(p) => pass'[p].outdated = pass[p].outdated \cup {s}
  BY DEF Poll, IInv, Parts, TypeOK, Pass, Busy
<1>5. Quiet(s)' /\ \A r \in Slot : Quiet(r) => Quiet(r)'
  BY <1>3 DEF Quiet, Heard
<1>6. OneHolds'
  BY <1>4 DEF IInv, Parts, OneHolds, Holds
<1>7. Looked'
  <2> SUFFICES ASSUME NEW p \in Opener, Busy(p)
               PROVE  /\ bridge' = "down" => p = "desktop"
                      /\ p # "operator" => pass'[p].rows \subseteq pass'[p].taken
                      /\ p = "operator" => pass'[p].taken = {} /\ pass'[p].pc # "go" /\ pass'[p].slot \in Slot
                      /\ bridge' # "down" => pass'[p].rows \subseteq Rows'
                      /\ Rows' \subseteq pass'[p].taken \cup pass'[p].rows \cup pass'[p].outdated
                      /\ \A r \in pass'[p].rows : Quiet(r)'
    BY <1>4 DEF Looked, Busy
  <2>1. pass[p].rows \subseteq Slot
    BY DEF IInv, Parts, TypeOK, Pass
  <2> QED  BY <1>1, <1>2, <1>4, <1>5, <2>1 DEF IInv, Parts, Looked
<1>8. Reserving'
  <2> SUFFICES ASSUME NEW p \in Opener, pass[p].pc \in {"spawn", "opened", "failed"}
               PROVE  /\ pass'[p].slot \in Slot
                      /\ ledger'[pass'[p].slot].state = "RESERVED" /\ ledger'[pass'[p].slot].age = 0
                      /\ pass'[p].pc # "opened" => silent'[pass'[p].slot].booting = 0
                      /\ pass'[p].pc = "spawn" =>
                           /\ silent'[pass'[p].slot].futile < ledger'[pass'[p].slot].attempts
                           /\ pass'[p].slot \notin pass'[p].rows
                           /\ pass'[p].slot \in Rows' => pass'[p].slot \in pass'[p].outdated
    BY <1>4 DEF Reserving
  <2>1. pass[p].slot \in Slot /\ Busy(p)
    BY DEF IInv, Parts, Reserving, Busy
  <2>2. silent[pass[p].slot].futile \in Nat /\ ledger[pass[p].slot].attempts \in Nat
    BY <2>1, Constants DEF IInv, Parts, TypeOK, Silence, Entry
  <2>3. CASE pass[p].slot = s
    BY <1>1, <1>2, <1>4, <1>5, <2>1, <2>2, <2>3 DEF IInv, Parts, Reserving, Quiet
  <2>4. CASE pass[p].slot # s
    BY <1>1, <1>2, <1>3, <1>4, <2>1, <2>4 DEF IInv, Parts, Reserving
  <2> QED  BY <2>3, <2>4
<1>9. Counted'
  <2> SUFFICES ASSUME NEW r \in Slot
               PROVE  /\ r \in Rows' => Quiet(r)'
                      /\ silent'[r].booting <= 1
                      /\ silent'[r].booting = 1 =>
                           /\ ledger'[r].state \in {"RESERVED", "LAUNCHING"}
                           /\ ledger'[r].age <= silent'[r].age /\ silent'[r].age < BootGrace
                      /\ silent'[r].futile > 0 =>
                           /\ silent'[r].futile <= ledger'[r].attempts
                           /\ ledger'[r].age <= silent'[r].age /\ silent'[r].age < Decay
    BY DEF Counted
  <2>1. CASE r = s
    BY <2>1, <1>5 DEF Quiet
  <2>2. CASE r # s
    BY <2>2, <1>1, <1>2, <1>3, <1>5 DEF IInv, Parts, Counted
  <2> QED  BY <2>1, <2>2
<1>10. Asked'
  <2> SUFFICES ASSUME pass["operator"].pc = "wait"
               PROVE  \/ silent'[pass["operator"].slot].futile = 0
                      \/ /\ Pending(pass["operator"].slot)
                         /\ \A p \in Opener : pass[p].pc \in {"spawn", "failed"} =>
                                                pass[p].slot # pass["operator"].slot
    BY <1>1, <1>4 DEF Asked, Pending, Opener
  <2>1. pass["operator"].slot \in Slot
    BY DEF IInv, Parts, Looked, Busy, Opener
  <2>2. CASE pass["operator"].slot = s
    BY <2>2, <1>5 DEF Quiet
  <2>3. CASE pass["operator"].slot # s
    BY <2>1, <2>3, <1>3 DEF IInv, Parts, Asked
  <2> QED  BY <2>2, <2>3
<1>11. Spent'
  <2>1. \/ queued' = queued /\ tries' = tries
        \/ queued' = queued - 1 /\ tries' = 0
    <3>1. IF state = "free" /\ queued > 0 THEN Shrink ELSE UNCHANGED <<queued, tries>>
      BY Zenon DEF Poll
    <3> QED  BY <3>1 DEF Shrink
  <2> QED  BY <1>1, <1>4, <2>1 DEF IInv, Parts, Spent, Busy, TypeOK, Opener
<1> QED  BY <1>6, <1>7, <1>8, <1>9, <1>10, <1>11 DEF Parts

LEMMA KeepsProvision ==
  ASSUME IInv, NEW p \in Opener, Provision(p)
  PROVE  Parts'
<1>1. PICK s \in 1 .. Lanes + 1 :
        /\ ComesTo(p, s)
        /\ IF Wanted(p) # {} /\ Cardinality(Taken(p)) < pass[p].desired
             THEN /\ ledger' = [Told(p, s) EXCEPT ![s] = Reserved(s, Attempts(s))]
                  /\ pass' = [pass EXCEPT ![p].pc = "spawn", ![p].slot = s,
                                          ![p].taken = Taken(p) \cup {s}]
                  /\ UNCHANGED <<unproductive, pace, tries>>
             ELSE /\ ledger' = Told(p, s) /\ Finish(p)
                  /\ IF pass[p].pc = "go" THEN Charge(p) ELSE UNCHANGED <<unproductive, pace, tries>>
  BY DEF Provision
<1>2. /\ p # "operator" /\ Busy(p) /\ pass[p] \in Pass /\ pass \in [Opener -> Pass]
      /\ UNCHANGED <<row, bridge, silent, queued, lastQueued>> /\ Rows' = Rows
  BY DEF Provision, Busy, IInv, Parts, TypeOK, Rows
<1>3. \A q \in Opener \ {p} : ~Holds(q)
  <2>1. CASE pass[p].pc = "go"
    BY <2>1 DEF IInv, Parts, OneHolds, Holds
  <2>2. CASE Unlocked
    BY <2>2 DEF Unlocked, Holds
  <2> QED  BY <2>1, <2>2 DEF Provision
<1>4. \A r \in Slot : Told(p, s)[r] = ledger[r] \/ (Told(p, s)[r] = Heartbeat /\ Quiet(r))
  BY <1>2 DEF Told, IInv, Parts, Looked
<1>5. CASE Wanted(p) # {} /\ Cardinality(Taken(p)) < pass[p].desired
  <2>1. s \in Wanted(p)
    BY <1>1, <1>5 DEF ComesTo
  <2>2. s \in Slot /\ s \notin Taken(p) /\ Cooled(s)
    BY <1>2, <2>1, Constants DEF Wanted, Pass, Slot
  <2>3. /\ \A q \in Opener \ {p} : pass'[q] = pass[q]
        /\ pass'[p].pc = "spawn" /\ pass'[p].slot = s /\ pass'[p].taken = Taken(p) \cup {s}
        /\ pass'[p].rows = pass[p].rows /\ pass'[p].outdated = pass[p].outdated
    BY <1>1, <1>2, <1>5 DEF Pass
  <2>4. /\ ledger'[s] = [state |-> "RESERVED", attempts |-> Attempts(s) + 1, age |-> 0]
        /\ \A r \in Slot \ {s} : ledger'[r] = Told(p, s)[r]
    BY <1>1, <1>5, <2>2 DEF Told, Reserved
  <2>5. /\ silent[s].age \in Nat /\ silent[s].booting \in Nat /\ silent[s].futile \in Nat
        /\ ledger[s].age \in Nat /\ ledger[s].attempts \in Nat
    BY <2>2, Constants DEF IInv, Parts, TypeOK, Silence, Entry
  <2>6. ~Pending(s)
    BY <2>2, <2>5, Constants DEF Pending, Cooled
  <2>7. silent[s].booting = 0 /\ silent[s].futile < Attempts(s) + 1
    <3>1. silent[s].booting # 1
      BY <2>2, <2>5, <2>6, Constants DEF IInv, Parts, Counted, Pending
    <3>2. silent[s].booting = 0
      BY <2>2, <2>5, <3>1 DEF IInv, Parts, Counted
    <3>3. silent[s].futile < Attempts(s) + 1
      BY <2>2, <2>5, Constants DEF IInv, Parts, Counted, Attempts
    <3> QED  BY <3>2, <3>3
  <2>8. OneHolds'
    BY <1>3, <2>3 DEF OneHolds, Holds
  <2>9. Looked'
    BY <1>2, <2>3 DEF IInv, Parts, Looked, Busy, Quiet, Taken
  <2>10. Reserving'
    <3>1. s \notin pass[p].rows /\ (s \in Rows => s \in pass[p].outdated)
      BY <1>2, <2>2 DEF IInv, Parts, Looked, Taken
    <3> QED  BY <1>2, <1>3, <2>2, <2>3, <2>4, <2>7, <3>1 DEF Reserving, Holds
  <2>11. Counted'
    <3>1. ASSUME NEW r \in Slot
          PROVE  /\ r \in Rows => Quiet(r)
                 /\ silent[r].booting <= 1
                 /\ silent[r].booting = 1 =>
                      /\ ledger'[r].state \in {"RESERVED", "LAUNCHING"}
                      /\ ledger'[r].age <= silent[r].age /\ silent[r].age < BootGrace
                 /\ silent[r].futile > 0 =>
                      /\ silent[r].futile <= ledger'[r].attempts
                      /\ ledger'[r].age <= silent[r].age /\ silent[r].age < Decay
      <4>1. CASE r = s
        <5>1. Attempts(s) \in Nat
          BY <2>5 DEF Attempts
        <5> QED  BY <4>1, <5>1, <2>4, <2>5, <2>7 DEF IInv, Parts, Counted
      <4>2. CASE r # s /\ ledger'[r] = ledger[r]
        BY <4>2 DEF IInv, Parts, Counted
      <4>3. CASE r # s /\ ledger'[r] # ledger[r]
        BY <4>3, <1>4, <2>4 DEF Quiet
      <4> QED  BY <4>1, <4>2, <4>3
    <3> QED  BY <3>1, <1>2 DEF Counted, Quiet
  <2>12. Asked'
    <3> SUFFICES ASSUME pass["operator"].pc = "wait", silent[pass["operator"].slot].futile # 0
                 PROVE  /\ Pending(pass["operator"].slot)'
                        /\ \A q \in Opener : pass'[q].pc \in {"spawn", "failed"} =>
                                               pass'[q].slot # pass["operator"].slot
      BY <1>2, <2>3 DEF Asked, Opener
    <3> DEFINE x == pass["operator"].slot
    <3>1. x \in Slot /\ Pending(x)
      BY DEF IInv, Parts, Looked, Asked, Busy, Opener
    <3>2. x # s
      BY <2>6, <3>1
    <3>3. ledger'[x] = ledger[x]
      BY <1>4, <2>4, <3>1, <3>2 DEF Quiet
    <3>4. Pending(x)'
      BY <1>2, <2>3, <3>1, <3>3 DEF Pending, Opener
    <3>5. ASSUME NEW q \in Opener, pass'[q].pc \in {"spawn", "failed"}
          PROVE  pass'[q].slot # x
      BY <1>3, <2>3, <3>2, <3>5 DEF Holds
    <3> QED  BY <1>2, <2>3, <3>4, <3>5 DEF Pending, Opener
  <2>13. Spent'
    BY <1>1, <1>2, <1>5, <2>3 DEF IInv, Parts, Spent, Busy, Opener
  <2> QED  BY <2>8, <2>9, <2>10, <2>11, <2>12, <2>13 DEF Parts
<1>6. CASE ~(Wanted(p) # {} /\ Cardinality(Taken(p)) < pass[p].desired)
  <2>1. pass'[p].pc = "idle" /\ \A q \in Opener \ {p} : pass'[q] = pass[q]
    BY <1>1, <1>2, <1>6 DEF Finish, Idle
  <2>2. \A r \in Slot : ledger'[r] = ledger[r] \/ Quiet(r)
    BY <1>1, <1>4, <1>6
  <2>3. OneHolds' /\ Reserving'
    BY <1>3, <2>1 DEF OneHolds, Reserving, Holds
  <2>4. Looked'
    BY <1>2, <2>1 DEF IInv, Parts, Looked, Busy, Quiet
  <2>5. Counted'
    <3>1. \A r \in Slot : Quiet(r)' <=> Quiet(r)
      BY <1>2 DEF Quiet
    <3> QED  BY <1>2, <2>2, <3>1 DEF IInv, Parts, Counted, Quiet
  <2>6. Asked'
    <3> SUFFICES ASSUME pass["operator"].pc = "wait", silent[pass["operator"].slot].futile # 0
                 PROVE  /\ Pending(pass["operator"].slot)'
                        /\ \A q \in Opener : pass'[q].pc \in {"spawn", "failed"} =>
                                               pass'[q].slot # pass["operator"].slot
      BY <1>2, <2>1 DEF Asked, Opener
    <3>1. pass["operator"].slot \in Slot /\ Pending(pass["operator"].slot)
      BY DEF IInv, Parts, Looked, Asked, Busy, Opener
    <3>2. ledger'[pass["operator"].slot] = ledger[pass["operator"].slot]
      BY <2>2, <3>1 DEF Quiet
    <3> QED  BY <1>2, <1>3, <2>1, <3>1, <3>2 DEF Pending, Holds, Opener
  <2>7. Spent'
    <3>1. CASE pass[p].pc = "go" /\ p = "supervisor"
      BY <1>1, <1>2, <1>6, <2>1, <3>1, Constants DEF IInv, Parts, TypeOK, Spent, Busy, Charge, Least
    <3>2. CASE ~(pass[p].pc = "go" /\ p = "supervisor")
      BY <1>1, <1>2, <1>6, <2>1, <3>2 DEF IInv, Parts, Spent, Busy, Charge, Opener
    <3> QED  BY <3>1, <3>2
  <2> QED  BY <2>3, <2>4, <2>5, <2>6, <2>7 DEF Parts
<1> QED  BY <1>5, <1>6

LEMMA KeepsRelaunch ==
  ASSUME IInv, Relaunch
  PROVE  Parts'
<1> DEFINE s == pass["operator"].slot
<1>1. /\ "operator" \in Opener /\ Busy("operator") /\ pass["operator"].pc = "wait"
      /\ UNCHANGED <<row, bridge, silent, queued, lastQueued, unproductive, tries>> /\ Rows' = Rows
  BY DEF Relaunch, Busy, Opener, Rows
<1>2. pass["operator"] \in Pass /\ pass \in [Opener -> Pass] /\ s \in Slot
  BY <1>1 DEF IInv, Parts, TypeOK, Looked
<1>3. \A q \in Opener : ~Holds(q)
  BY DEF Relaunch, Unlocked, Holds
<1>4. Spent'
  <2>1. \A q \in Opener \ {"operator"} : pass'[q] = pass[q]
    BY <1>1, <1>2 DEF Relaunch, Finish
  <2> QED  BY <1>1, <2>1 DEF IInv, Parts, Spent, Busy, Opener
<1>5. CASE s \in pass["operator"].rows \/ Pending(s)
  <2>1. /\ ledger' = ledger /\ pass'["operator"].pc = "idle"
        /\ \A q \in Opener \ {"operator"} : pass'[q] = pass[q]
    BY <1>1, <1>2, <1>5 DEF Relaunch, Finish, Idle
  <2>2. OneHolds' /\ Reserving' /\ Asked'
    BY <1>3, <2>1 DEF OneHolds, Reserving, Asked, Holds
  <2>3. Looked' /\ Counted'
    BY <1>1, <2>1 DEF IInv, Parts, Looked, Counted, Busy, Quiet
  <2> QED  BY <1>4, <2>2, <2>3 DEF Parts
<1>6. CASE ~(s \in pass["operator"].rows \/ Pending(s))
  <2>1. /\ ledger'[s] = [state |-> "RESERVED", attempts |-> 1, age |-> 0]
        /\ \A r \in Slot \ {s} : ledger'[r] = ledger[r]
    BY <1>1, <1>2, <1>6 DEF Relaunch, Reserved, IInv, Parts, TypeOK
  <2>2. /\ \A q \in Opener \ {"operator"} : pass'[q] = pass[q]
        /\ pass'["operator"].pc = "spawn" /\ pass'["operator"].slot = s
        /\ pass'["operator"].rows = pass["operator"].rows
        /\ pass'["operator"].taken = pass["operator"].taken
        /\ pass'["operator"].outdated = pass["operator"].outdated
    BY <1>1, <1>2, <1>6 DEF Relaunch, Pass
  <2>3. silent[s].futile = 0 /\ silent[s].booting = 0
    <3>1. silent[s].futile = 0
      BY <1>1, <1>6 DEF IInv, Parts, Asked
    <3>2. /\ silent[s].age \in Nat /\ silent[s].booting \in Nat /\ ledger[s].age \in Nat
      BY <1>2, Constants DEF IInv, Parts, TypeOK, Silence, Entry
    <3>3. silent[s].booting # 1
      BY <1>2, <1>6, <3>2, Constants DEF IInv, Parts, Counted, Pending
    <3> QED  BY <1>2, <3>1, <3>2, <3>3 DEF IInv, Parts, Counted
  <2>4. OneHolds'
    BY <1>3, <2>2 DEF OneHolds, Holds
  <2>5. Looked'
    BY <1>1, <1>2, <2>2 DEF IInv, Parts, Looked, Busy, Quiet
  <2>6. Reserving'
    <3>1. s \in Rows => s \in pass["operator"].outdated
      BY <1>1, <1>2, <1>6 DEF IInv, Parts, Looked
    <3> QED  BY <1>1, <1>2, <1>3, <1>6, <2>1, <2>2, <2>3, <3>1 DEF Reserving, Holds
  <2>7. Counted'
    BY <1>1, <2>1, <2>3 DEF IInv, Parts, Counted, Quiet
  <2>8. Asked'
    BY <2>2 DEF Asked
  <2> QED  BY <1>4, <2>4, <2>5, <2>6, <2>7, <2>8 DEF Parts
<1> QED  BY <1>5, <1>6

LEMMA KeepsSpawn ==
  ASSUME IInv, NEW p \in Opener, Spawn(p)
  PROVE  Parts'
<1> DEFINE s == pass[p].slot
<1>1. /\ pass[p].pc = "spawn" /\ Busy(p) /\ Holds(p)
      /\ UNCHANGED <<ledger, row, bridge, queued, lastQueued, unproductive, tries>> /\ Rows' = Rows
  BY DEF Spawn, Busy, Holds, Rows
<1>2. /\ s \in Slot /\ ledger[s].state = "RESERVED" /\ ledger[s].age = 0
      /\ silent[s].booting = 0 /\ silent[s].futile < ledger[s].attempts
      /\ s \notin pass[p].rows /\ (s \in Rows => s \in pass[p].outdated)
  BY <1>1 DEF IInv, Parts, Reserving
<1>3. /\ pass'[p].pc \in {"opened", "failed"} /\ \A q \in Opener \ {p} : pass'[q] = pass[q]
      /\ pass'[p].slot = s /\ pass'[p].rows = pass[p].rows
      /\ pass'[p].taken = pass[p].taken /\ pass'[p].outdated = pass[p].outdated
      /\ pass'[p].pc = "failed" => silent' = silent
  BY DEF Spawn, IInv, Parts, TypeOK, Pass
<1>4. \A q \in Opener \ {p} : ~Holds(q)
  BY <1>1 DEF IInv, Parts, OneHolds
<1>5. \/ silent' = silent
      \/ /\ s \notin pass[p].outdated
         /\ \A r \in Slot \ {s} : silent'[r] = silent[r]
         /\ silent'[s].age = 0 /\ silent'[s].booting = 1
         /\ silent'[s].futile = Least(silent[s].futile + 1, MaxAttempts + 1)
  BY <1>2 DEF Spawn, IInv, Parts, TypeOK, Silence, Least
<1>6. silent[s].futile \in Nat /\ ledger[s].attempts \in 0 .. MaxAttempts
  BY <1>2, Constants DEF IInv, Parts, TypeOK, Silence, Entry
<1>7. OneHolds'
  BY <1>3, <1>4 DEF OneHolds, Holds
<1>8. ASSUME NEW q \in Opener, Busy(q), s \in pass[q].rows
      PROVE  silent' = silent
  <2>1. CASE bridge = "down"
    <3>1. q = p
      BY <1>1, <1>8, <2>1 DEF IInv, Parts, Looked
    <3> QED  BY <1>2, <1>8, <3>1
  <2>2. CASE bridge # "down"
    BY <1>2, <1>5, <1>8, <2>2 DEF IInv, Parts, Looked
  <2> QED  BY <2>1, <2>2
<1>9. Looked'
  <2>1. ASSUME NEW q \in Opener, Busy(q), NEW r \in pass[q].rows
        PROVE  Quiet(r)'
    <3>1. Quiet(r) /\ r \in Slot
      BY <2>1 DEF IInv, Parts, Looked, TypeOK, Pass
    <3> QED  BY <3>1, <1>5, <1>8, <2>1 DEF Quiet
  <2> QED  BY <1>1, <1>3, <2>1 DEF IInv, Parts, Looked, Busy
<1>10. Reserving'
  BY <1>1, <1>2, <1>3, <1>4 DEF Reserving, Holds
<1>11. Counted'
  <2>1. CASE silent' = silent
    BY <1>1, <2>1 DEF IInv, Parts, Counted, Quiet
  <2>2. CASE silent' # silent
    <3>1. /\ s \notin Rows /\ silent'[s].age = 0 /\ silent'[s].booting = 1
          /\ silent'[s].futile <= ledger[s].attempts
          /\ \A r \in Slot \ {s} : silent'[r] = silent[r]
      BY <1>2, <1>5, <1>6, <2>2, Constants DEF Least
    <3>2. ASSUME NEW r \in Slot
          PROVE  /\ r \in Rows => Quiet(r)'
                 /\ silent'[r].booting <= 1
                 /\ silent'[r].booting = 1 =>
                      /\ ledger[r].state \in {"RESERVED", "LAUNCHING"}
                      /\ ledger[r].age <= silent'[r].age /\ silent'[r].age < BootGrace
                 /\ silent'[r].futile > 0 =>
                      /\ silent'[r].futile <= ledger[r].attempts
                      /\ ledger[r].age <= silent'[r].age /\ silent'[r].age < Decay
      <4>1. CASE r = s
        BY <4>1, <1>2, <3>1, Constants
      <4>2. CASE r # s
        BY <4>2, <3>1 DEF IInv, Parts, Counted, Quiet
      <4> QED  BY <4>1, <4>2
    <3> QED  BY <1>1, <3>2 DEF Counted
  <2> QED  BY <2>1, <2>2
<1>12. Asked'
  <2> SUFFICES ASSUME pass["operator"].pc = "wait"
               PROVE  \/ silent'[pass["operator"].slot].futile = 0
                      \/ /\ Pending(pass["operator"].slot)
                         /\ \A q \in Opener : pass'[q].pc \in {"spawn", "failed"} =>
                                                pass'[q].slot # pass["operator"].slot
    <3>1. pass'["operator"].pc = "wait" => pass'["operator"] = pass["operator"]
      BY <1>3 DEF Opener
    <3> QED  BY <1>1, <1>3, <3>1 DEF Asked, Pending, Opener
  <2>1. pass["operator"].slot \in Slot
    BY DEF IInv, Parts, Looked, Busy, Opener
  <2>2. CASE pass["operator"].slot # s
    BY <1>3, <1>4, <1>5, <2>1, <2>2 DEF IInv, Parts, Asked, Holds
  <2>3. CASE pass["operator"].slot = s
    <3>1. silent[s].futile = 0
      BY <1>1, <2>3 DEF IInv, Parts, Asked
    <3>2. Pending(s)
      BY <1>2, Constants DEF Pending
    <3> QED  BY <1>3, <1>4, <2>3, <3>1, <3>2 DEF Holds
  <2> QED  BY <2>2, <2>3
<1>13. Spent'
  BY <1>1, <1>3 DEF IInv, Parts, Spent, Busy, Opener
<1> QED  BY <1>7, <1>9, <1>10, <1>11, <1>12, <1>13 DEF Parts

LEMMA KeepsRecord ==
  ASSUME IInv, NEW p \in Opener, Record(p)
  PROVE  Parts'
<1> DEFINE s == pass[p].slot
<1>1. /\ pass[p].pc \in {"opened", "failed"} /\ Busy(p) /\ Holds(p)
      /\ UNCHANGED <<row, bridge, queued, lastQueued, unproductive, tries, silent>> /\ Rows' = Rows
  BY DEF Record, Busy, Holds, Rows
<1>2. /\ s \in Slot /\ ledger[s].state = "RESERVED" /\ ledger[s].age = 0
      /\ pass[p].pc = "failed" => silent[s].booting = 0
  BY <1>1 DEF IInv, Parts, Reserving
<1>3. /\ \A r \in Slot \ {s} : ledger'[r] = ledger[r]
      /\ ledger'[s].state = (IF pass[p].pc = "opened" THEN "LAUNCHING" ELSE "LAUNCH_FAILED")
      /\ ledger'[s].age = 0 /\ ledger'[s].attempts = ledger[s].attempts
  BY <1>2 DEF Record, IInv, Parts, TypeOK, Entry
<1>4. /\ pass'[p].pc \in {"idle", "go"} /\ (p = "operator" => pass'[p].pc = "idle")
      /\ \A q \in Opener \ {p} : pass'[q] = pass[q]
      /\ pass'[p].pc # "idle" =>
           /\ pass'[p].slot = s /\ pass'[p].rows = pass[p].rows
           /\ pass'[p].taken = pass[p].taken /\ pass'[p].outdated = pass[p].outdated
  BY DEF Record, Finish, Idle, IInv, Parts, TypeOK, Pass
<1>5. \A q \in Opener \ {p} : ~Holds(q)
  BY <1>1 DEF IInv, Parts, OneHolds
<1>6. OneHolds' /\ Reserving'
  BY <1>4, <1>5 DEF OneHolds, Reserving, Holds
<1>7. Looked'
  BY <1>1, <1>4 DEF IInv, Parts, Looked, Busy, Quiet
<1>8. Counted'
  BY <1>1, <1>2, <1>3 DEF IInv, Parts, Counted, Quiet
<1>9. Asked'
  <2> SUFFICES ASSUME pass["operator"].pc = "wait", silent[pass["operator"].slot].futile # 0
               PROVE  /\ Pending(pass["operator"].slot)'
                      /\ \A q \in Opener : pass'[q].pc \in {"spawn", "failed"} =>
                                             pass'[q].slot # pass["operator"].slot
    <3>1. pass'["operator"].pc = "wait" => pass'["operator"] = pass["operator"]
      BY <1>4 DEF Opener
    <3> QED  BY <1>1, <1>4, <3>1 DEF Asked, Pending, Opener
  <2>1. /\ pass["operator"].slot \in Slot /\ Pending(pass["operator"].slot)
        /\ ~(pass[p].pc = "failed" /\ pass["operator"].slot = s)
    BY DEF IInv, Parts, Looked, Asked, Busy, Opener
  <2>2. pass'["operator"] = pass["operator"]
    BY <1>1, <1>4 DEF Opener
  <2>3. Pending(pass["operator"].slot)'
    BY <1>1, <1>2, <1>3, <2>1, <2>2, Constants DEF Pending
  <2> QED  BY <1>4, <1>5, <2>2, <2>3 DEF Pending, Holds
<1>10. Spent'
  BY <1>1, <1>4 DEF IInv, Parts, Spent, Busy, Opener
<1> QED  BY <1>6, <1>7, <1>8, <1>9, <1>10 DEF Parts

\* Every step of the system keeps the invariant.
LEMMA StepKeeps ==
  ASSUME IInv, [Next]_vars
  PROVE  IInv'
<1>1. TypeOK /\ Looked /\ Reserving /\ Spent
  BY DEF IInv, Parts
<1>2. CASE SupervisorLooks
  BY <1>1, <1>2, TypeSupervisorLooks, KeepsSupervisorLooks DEF IInv, Parts
<1>3. CASE DesktopLooks
  BY <1>1, <1>3, TypeDesktopLooks, KeepsDesktopLooks DEF IInv, Parts
<1>4. ASSUME NEW s \in Slot, OperatorLooks(s)
      PROVE  IInv'
  BY <1>1, <1>4, TypeOperatorLooks, KeepsOperatorLooks DEF IInv, Parts
<1>5. ASSUME NEW s \in Slot, NEW state \in {"free", "taken"}, Poll(s, state)
      PROVE  IInv'
  BY <1>1, <1>5, TypePoll, KeepsPoll DEF IInv, Parts
<1>6. CASE Relaunch
  BY <1>1, <1>6, TypeRelaunch, KeepsRelaunch DEF IInv, Parts
<1>7. ASSUME NEW p \in Opener, Provision(p)
      PROVE  IInv'
  BY <1>1, <1>7, TypeProvision, KeepsProvision DEF IInv, Parts
<1>8. ASSUME NEW p \in Opener, Spawn(p)
      PROVE  IInv'
  BY <1>1, <1>8, TypeSpawn, KeepsSpawn DEF IInv, Parts
<1>9. ASSUME NEW p \in Opener, Record(p)
      PROVE  IInv'
  BY <1>1, <1>9, TypeRecord, KeepsRecord DEF IInv, Parts
<1>10. ASSUME NEW p \in Opener, BreaksOff(p)
       PROVE  IInv'
  BY <1>1, <1>10, TypeBreaksOff, KeepsBreaksOff DEF IInv, Parts
<1>11. CASE Enqueue \/ Withdraw \/ Stop \/ Stopped \/ StartBridge
  BY <1>1, <1>11, TypeOthers, KeepsOthers DEF IInv, Parts
<1>12. CASE Exit \/ BridgeDies
  <2>1. BridgeGone /\ faults' \in 0 .. MaxFaults
    BY <1>1, <1>12, Constants DEF Exit, BridgeDies, Fault, TypeOK
  <2> QED  BY <1>1, <2>1, TypeBridgeGone, KeepsBridgeGone DEF IInv, Parts
<1>13. CASE Tick
  BY <1>1, <1>13, TypeTick, KeepsTick DEF IInv, Parts
<1>14. CASE UNCHANGED vars
  BY <1>14 DEF vars, IInv, Parts, TypeOK, OneHolds, Holds, Looked, Busy, Rows, Quiet, Reserving, Counted,
               Asked, Pending, Spent
<1> QED  BY <1>2, <1>3, <1>4, <1>5, <1>6, <1>7, <1>8, <1>9, <1>10, <1>11, <1>12, <1>13, <1>14
         DEF Next, Proceed

-----------------------------------------------------------------------------
(* Theorems. *)

\* The invariant holds: whatever a pass read and whoever else opens windows, the ledger
\* accounts for every window that may still be booting.
THEOREM Accounting == Spec => []IInv
<1>1. Init => IInv
  BY TypeInit, KeepsInit DEF IInv, Parts
<1>2. IInv /\ [Next]_vars => IInv'
  BY StepKeeps
<1> QED  BY <1>1, <1>2, PTL DEF Spec

\* Every reachable state is well typed: no launch count, age or budget leaves its range.
THEOREM PoolTypeCorrect == Spec => []TypeOK
<1>1. IInv => TypeOK
  BY DEF IInv, Parts
<1> QED  BY <1>1, Accounting, PTL

\* Three openers with old looks, crashes between the reservation, the window and the record:
\* no slot gets a second window while one may be booting (audit_run_service.py:742).
THEOREM OneWindowBoots == Spec => []NoDoubleBoot
<1>1. IInv => NoDoubleBoot
  BY DEF IInv, Parts, Counted, NoDoubleBoot
<1> QED  BY <1>1, Accounting, PTL

\* A slot that is never heard gets at most MaxAttempts windows before its ban expires
\* (audit_run_service.py:40).
THEOREM FutileBounded == Spec => []FutileIsBounded
<1>1. ASSUME IInv, NEW s \in Slot
      PROVE  silent[s].futile <= MaxAttempts
  <2>1. silent[s].futile \in 0 .. MaxAttempts + 1 /\ ledger[s].attempts \in 0 .. MaxAttempts
    BY <1>1 DEF IInv, Parts, TypeOK, Silence, Entry
  <2> QED  BY <1>1, <2>1, Constants DEF IInv, Parts, Counted
<1>2. IInv => FutileIsBounded
  BY <1>1 DEF FutileIsBounded
<1> QED  BY <1>2, Accounting, PTL

\* The supervisor launches in at most MaxUnproductive passes while the queue does not
\* shrink (supervisor.py:93).
THEOREM BudgetBounded == Spec => []BudgetHolds
<1>1. IInv => BudgetHolds
  BY Constants DEF IInv, Parts, TypeOK, Spent, BudgetHolds
<1> QED  BY <1>1, Accounting, PTL

\* When stop() has answered, no pass of the supervisor is under way (supervisor.py:281).
THEOREM StoppingWaits == Spec => []StopIsFinal
<1>1. Init => StopIsFinal
  BY DEF Init, StopIsFinal
<1>2. ASSUME TypeOK, StopIsFinal, [Next]_vars, bridge' = "stopped"
      PROVE  pass'["supervisor"].pc = "idle"
  <2>1. CASE bridge # "stopped"
    <3>1. Stopped
      BY <1>2, <2>1 DEF Next, Proceed, vars, SupervisorLooks, DesktopLooks, OperatorLooks, Poll,
             Relaunch, Provision, Spawn, Record, BreaksOff, Enqueue, Withdraw, Stop, Exit,
             BridgeDies, BridgeGone, StartBridge, Tick
    <3> QED  BY <3>1 DEF Stopped
  <2>2. CASE bridge = "stopped"
    <3>1. pass["supervisor"].pc = "idle" /\ "supervisor" \in Opener /\ pass \in [Opener -> Pass]
      BY <1>2, <2>2 DEF StopIsFinal, TypeOK, Opener
    <3>2. CASE DesktopLooks
      BY <3>1, <3>2 DEF DesktopLooks
    <3>3. CASE \E p \in Opener : Provision(p) \/ Spawn(p) \/ Record(p)
      <4>1. PICK p \in Opener : Provision(p) \/ Spawn(p) \/ Record(p)
        BY <3>3
      <4>2. p # "supervisor" /\ pass'["supervisor"] = pass["supervisor"]
        BY <3>1, <4>1 DEF Provision, Spawn, Record, Finish
      <4> QED  BY <3>1, <4>2
    <3>4. CASE Relaunch
      BY <3>1, <3>4 DEF Relaunch, Finish
    <3>5. CASE \E p \in Opener : BreaksOff(p)
      BY <3>1, <3>5 DEF BreaksOff, Finish, Idle
    <3>6. CASE Tick \/ UNCHANGED vars
      <4>1. pass' = pass
        BY <3>6, Zenon DEF Tick, vars
      <4> QED  BY <3>1, <4>1
    <3> QED  BY <1>2, <2>2, <3>2, <3>3, <3>4, <3>5, <3>6
             DEF Next, Proceed, SupervisorLooks, OperatorLooks, Poll, Enqueue, Withdraw, Stop, Stopped,
             Exit, BridgeDies, BridgeGone, StartBridge
  <2> QED  BY <2>1, <2>2
<1>3. TypeOK /\ StopIsFinal /\ [Next]_vars => StopIsFinal'
  BY <1>2 DEF StopIsFinal
<1> QED  BY <1>1, <1>3, PoolTypeCorrect, PTL DEF Spec

=============================================================================
