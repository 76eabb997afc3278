----------------------------- MODULE WorkerPool -----------------------------
(***************************************************************************)
(* Who opens browser windows, and when (ManagedWorkerSupervisor of         *)
(* services/audit_run_service.py, DispatchSupervisor of                    *)
(* bridge/supervisor.py).  The Bridge's supervisor, a start on the desktop *)
(* and the operator's relaunch each look at the registry of the Bridge     *)
(* first and then, under the lock of a ledger that the processes share,    *)
(* decide which slots are vacant.  What they looked at may be old by then, *)
(* a window may take its time or never answer, and a process may die       *)
(* between the reservation of a slot, the window and the record of it.     *)
(*                                                                         *)
(* Time is counted in units that are longer than a pass.                   *)
(***************************************************************************)
EXTENDS Naturals, FiniteSets

CONSTANTS
  Lanes,            \* managed slots
  Cooldown,         \* of a slot whose launch failed
  Pace,             \* between two launching passes of the supervisor
  Ttl,              \* how long the registry keeps a silent window
  BootGrace,        \* how long a launched window may take to answer
  Memory,           \* how long the Bridge remembers a silent slot
  Decay,            \* until the failed launches of a slot are forgiven
  MaxAttempts,      \* launches of a slot that does not answer
  MaxUnproductive,  \* launching passes while the queue does not shrink
  MaxQueued,        \* bound: waiting dispatches
  MaxEvents,        \* bound: what the operator does
  MaxFaults         \* bound: crashes and looks that fail

ASSUME PoolAssumption ==
  /\ {Lanes, Cooldown, Pace, Ttl, BootGrace, Memory, Decay, MaxAttempts,
      MaxUnproductive, MaxQueued, MaxEvents, MaxFaults} \subseteq Nat
  /\ 0 < Lanes /\ 0 < MaxAttempts /\ 0 < Cooldown /\ Cooldown <= Pace /\ Pace <= Ttl
  /\ Ttl < BootGrace /\ BootGrace < Memory /\ Memory < Decay

VARIABLES
  ledger,       \* managed_browser_workers.json
  row, seen,    \* the Bridge: the registered window of each slot, the time since it was heard
  queued,       \* waiting dispatches
  lastQueued, unproductive, pace,   \* the budget of the supervisor
  due,          \* whether its interval is over
  bridge,       \* the life of the Bridge
  pass,         \* what each of the three is doing
  opened,       \* the slots on which a window was ever opened
  silent,       \* history: the windows opened on each slot since it was last heard
  tries,        \* history: launching passes begun since the queue last shrank
  events, faults

vars == <<ledger, row, seen, queued, lastQueued, unproductive, pace, due, bridge, pass,
          opened, silent, tries, events, faults>>

Slot   == 1 .. Lanes
Opener == {"supervisor", "desktop", "operator"}

\* age is the time since launched_at; both other deadlines are counted from it.
Entry == [state: {"none", "RESERVED", "LAUNCHING", "LAUNCH_FAILED", "HEARTBEAT"},
          attempts: 0 .. MaxAttempts, age: 0 .. Decay]

NoEntry   == [state |-> "none", attempts |-> 0, age |-> Decay]
Heartbeat == [state |-> "HEARTBEAT", attempts |-> 0, age |-> Decay]

\* slot is the last one launched (the one asked for, of an operator's pass), taken what
\* is not vacant; outdated, a history: the slots heard since the look.
Pass == [pc: {"idle", "wait", "go", "spawn", "opened", "failed"}, rows: SUBSET Slot,
         taken: SUBSET Slot, desired: 0 .. Lanes, slot: 0 .. Lanes,
         outdated: SUBSET Slot]

Idle == [pc |-> "idle", rows |-> {}, taken |-> {}, desired |-> 0, slot |-> 0, outdated |-> {}]

\* booting counts the windows opened within the grace, futile those opened at all; an
\* operator's relaunch and Decay start futile over.
Silence == [age: 0 .. Decay, booting: 0 .. 2, futile: 0 .. MaxAttempts + 1]
Heard   == [age |-> Decay, booting |-> 0, futile |-> 0]

Init ==
  /\ ledger = [s \in Slot |-> NoEntry]
  /\ row = [s \in Slot |-> "none"] /\ seen = [s \in Slot |-> Memory + 1]
  /\ queued \in 0 .. MaxQueued
  /\ lastQueued = 0 /\ unproductive = 0 /\ pace = Pace /\ due = FALSE /\ bridge = "up"
  /\ pass = [p \in Opener |-> Idle]
  /\ opened = {} /\ silent = [s \in Slot |-> Heard] /\ tries = 0
  /\ events = 0 /\ faults = 0

Least(a, b) == IF a < b THEN a ELSE b

Event == events < MaxEvents /\ events' = events + 1
Fault == faults < MaxFaults /\ faults' = faults + 1

-----------------------------------------------------------------------------
(* What the Bridge knows of its windows. *)

Rows   == {s \in Slot : row[s] # "none"}
Free   == {s \in Slot : row[s] = "free"}
Active == Cardinality(Rows)

\* managed_slot_lanes: the registry, and the longer memory.
Known == Rows \cup {s \in Slot : seen[s] <= Memory}

-----------------------------------------------------------------------------
(* The ledger. *)

\* Mutant: a reservation that was not followed by a record counts for nothing.
PendingRecorded(s) == ledger[s].state = "LAUNCHING" /\ ledger[s].age < BootGrace

\* A window may be on its way.
Pending(s) == ledger[s].state \in {"RESERVED", "LAUNCHING"} /\ ledger[s].age < BootGrace

Cooled(s) ==
  CASE ledger[s].state \in {"RESERVED", "LAUNCHING"} -> ledger[s].age >= BootGrace
    [] ledger[s].state = "LAUNCH_FAILED"             -> ledger[s].age >= Cooldown
    [] OTHER                                         -> TRUE

\* Mutant: the launches of a slot are forgotten with its boot grace.
AttemptsInGrace(s) == IF ledger[s].age >= BootGrace THEN 0 ELSE ledger[s].attempts

\* Mutant: the ban of a slot does not expire.
AttemptsForever(s) == ledger[s].attempts

Attempts(s) == IF ledger[s].age >= Decay THEN 0 ELSE ledger[s].attempts

Reserved(s, attempts) == [state |-> "RESERVED", attempts |-> attempts + 1, age |-> 0]

Unlocked == \A p \in Opener : pass[p].pc \in {"idle", "wait"}

-----------------------------------------------------------------------------
(* The looks. *)

\* Mutant: a window that appears renews the budget.
BudgetOfWindows == IF queued < lastQueued \/ Rows # {} THEN 0 ELSE unproductive

\* Only a queue that shrank renews the budget.
Budget == IF queued < lastQueued THEN 0 ELSE unproductive

\* The last part of tick(), up to the check of the stop flag.  The sweeps before it are
\* in BrowserDispatch.
SupervisorLooks ==
  /\ bridge = "up" /\ due /\ pass["supervisor"].pc = "idle"
  /\ due' = FALSE /\ lastQueued' = queued /\ unproductive' = Budget
  /\ pass' = IF queued > 0 /\ Free = {} /\ Active < Lanes
                /\ Budget < MaxUnproductive /\ pace = Pace
             THEN [pass EXCEPT !["supervisor"] =
                    [Idle EXCEPT !.pc = "wait", !.rows = Rows, !.taken = Known,
                                 !.desired = Least(Lanes, Active + queued)]]
             ELSE pass
  /\ UNCHANGED <<ledger, row, seen, queued, pace, bridge, opened, silent, tries, events, faults>>

\* provision_capacity() and start(): the waiting, the running and the wanted.  A status
\* that fails behind a good health check reads as no window at all.
DesktopLooks ==
  /\ bridge = "up" /\ pass["desktop"].pc = "idle" /\ Event
  /\ \E d \in Slot :
       \/ /\ d >= Least(Lanes, queued + 1) /\ UNCHANGED faults
          /\ pass' = [pass EXCEPT !["desktop"] =
               [Idle EXCEPT !.pc = "wait", !.rows = Rows, !.taken = Known, !.desired = d]]
       \/ /\ Fault
          /\ pass' = [pass EXCEPT !["desktop"] =
               [Idle EXCEPT !.pc = "wait", !.desired = d, !.outdated = Slot]]
  /\ UNCHANGED <<ledger, row, seen, queued, lastQueued, unproductive, pace, due, bridge,
                 opened, silent, tries>>

\* relaunch_managed_slot(): the budget is renewed, the slot is forgotten unless a window
\* may be on its way, and the registry is read.
OperatorLooks(s) ==
  /\ bridge = "up" /\ pass["operator"].pc = "idle" /\ Unlocked /\ Event
  /\ unproductive' = 0 /\ pace' = Pace /\ tries' = 0
  /\ ledger' = IF Pending(s) THEN ledger ELSE [ledger EXCEPT ![s] = NoEntry]
  /\ silent' = [silent EXCEPT ![s].futile = 0]
  /\ pass' = [pass EXCEPT !["operator"] = [Idle EXCEPT !.pc = "wait", !.rows = Rows, !.slot = s]]
  /\ UNCHANGED <<row, seen, queued, lastQueued, due, bridge, opened, faults>>

-----------------------------------------------------------------------------
(* Under the lock of the ledger. *)

\* What a pass of the supervisor that launched costs.  One that saw a longer queue than
\* there is now began before it shrank.
Charge(p) ==
  IF p = "supervisor"
    THEN /\ unproductive' = unproductive + 1 /\ pace' = 0
         /\ tries' = IF queued < lastQueued THEN tries ELSE Least(tries + 1, MaxUnproductive + 1)
    ELSE UNCHANGED <<unproductive, pace, tries>>

Finish(p) == pass' = [pass EXCEPT ![p] = Idle]

\* What is not vacant for a pass: what its look told, a window on its way, what it launched.
Taken(p) == pass[p].taken \cup {s \in Slot : pass[p].pc = "wait" /\ Pending(s)}

Wanted(p) ==
  {s \in pass[p].slot + 1 .. pass[p].desired :
     s \notin Taken(p) /\ Attempts(s) < MaxAttempts /\ Cooled(s)}

\* The loop comes to s next, or to its end.
ComesTo(p, s) ==
  IF Wanted(p) = {} THEN s = pass[p].desired + 1
  ELSE s \in Wanted(p) /\ \A r \in Wanted(p) : s <= r

\* The heartbeats of the slots before s are recorded.
Told(p, s) == [r \in Slot |-> IF r \in pass[p].rows /\ pass[p].slot < r /\ r < s
                                THEN Heartbeat ELSE ledger[r]]

\* ensure_capacity(): on to the next vacant slot, which is reserved, or to the end.
Provision(p) ==
  /\ p # "operator"
  /\ \/ pass[p].pc = "wait" /\ Unlocked
     \/ pass[p].pc = "go"
  /\ \E s \in 1 .. Lanes + 1 :
       /\ ComesTo(p, s)
       /\ IF Wanted(p) # {} /\ Cardinality(Taken(p)) < pass[p].desired
            THEN /\ ledger' = [Told(p, s) EXCEPT ![s] = Reserved(s, Attempts(s))]
                 /\ pass' = [pass EXCEPT ![p].pc = "spawn", ![p].slot = s,
                                         ![p].taken = Taken(p) \cup {s}]
                 /\ UNCHANGED <<unproductive, pace, tries>>
            ELSE /\ ledger' = Told(p, s) /\ Finish(p)
                 /\ IF pass[p].pc = "go" THEN Charge(p) ELSE UNCHANGED <<unproductive, pace, tries>>
  /\ UNCHANGED <<row, seen, queued, lastQueued, due, bridge, opened, silent, events, faults>>

\* launch_slot(): exactly this one, unless it lives or may be on its way.
Relaunch ==
  LET s == pass["operator"].slot IN
  /\ pass["operator"].pc = "wait" /\ Unlocked
  /\ IF s \in pass["operator"].rows \/ Pending(s)
       THEN Finish("operator") /\ UNCHANGED ledger
       ELSE /\ ledger' = [ledger EXCEPT ![s] = Reserved(s, 0)]
            /\ pass' = [pass EXCEPT !["operator"].pc = "spawn"]
  /\ UNCHANGED <<row, seen, queued, lastQueued, unproductive, pace, due, bridge, opened,
                 silent, tries, events, faults>>

\* The window, if the browser starts.  Who opened it against a look that is no longer
\* true is not counted.
Spawn(p) ==
  LET s == pass[p].slot IN
  /\ pass[p].pc = "spawn"
  /\ \/ /\ pass' = [pass EXCEPT ![p].pc = "opened"] /\ opened' = opened \cup {s}
        /\ silent' = IF s \in pass[p].outdated THEN silent
                     ELSE [silent EXCEPT ![s] =
                            [age |-> 0, booting |-> Least(@.booting + 1, 2),
                             futile |-> Least(@.futile + 1, MaxAttempts + 1)]]
     \/ pass' = [pass EXCEPT ![p].pc = "failed"] /\ UNCHANGED <<opened, silent>>
  /\ UNCHANGED <<ledger, row, seen, queued, lastQueued, unproductive, pace, due, bridge,
                 tries, events, faults>>

Record(p) ==
  /\ pass[p].pc \in {"opened", "failed"}
  /\ ledger' = [ledger EXCEPT ![pass[p].slot].state =
                  IF pass[p].pc = "opened" THEN "LAUNCHING" ELSE "LAUNCH_FAILED"]
  /\ IF p = "operator" THEN Finish(p) ELSE pass' = [pass EXCEPT ![p].pc = "go"]
  /\ UNCHANGED <<row, seen, queued, lastQueued, unproductive, pace, due, bridge, opened,
                 silent, tries, events, faults>>

-----------------------------------------------------------------------------
(* The windows, the queue, the processes and time. *)

Shrink == queued' = queued - 1 /\ tries' = 0

\* A window of s reports: it takes the next dispatch if it is free, and is not if it is
\* auditing, signed out or in use.
Poll(s, state) ==
  LET claims == state = "free" /\ queued > 0 IN
  /\ bridge = "up" /\ s \in opened
  /\ row' = [row EXCEPT ![s] = IF claims THEN "taken" ELSE state]
  /\ seen' = [seen EXCEPT ![s] = 0] /\ silent' = [silent EXCEPT ![s] = Heard]
  /\ IF claims THEN Shrink ELSE UNCHANGED <<queued, tries>>
  /\ pass' = [p \in Opener |-> IF pass[p].pc = "idle" THEN pass[p]
                ELSE [pass[p] EXCEPT !.outdated = @ \cup {s}]]
  /\ UNCHANGED <<ledger, lastQueued, unproductive, pace, due, bridge, opened, events, faults>>

\* A new dispatch, or one that went back to the line; and one that is cancelled.
Enqueue ==
  /\ bridge = "up" /\ queued < MaxQueued /\ Event /\ queued' = queued + 1
  /\ UNCHANGED <<ledger, row, seen, lastQueued, unproductive, pace, due, bridge, pass, opened,
                 silent, tries, faults>>

Withdraw ==
  /\ bridge = "up" /\ queued > 0 /\ Event /\ Shrink
  /\ UNCHANGED <<ledger, row, seen, lastQueued, unproductive, pace, due, bridge, pass, opened,
                 silent, faults>>

\* The Bridge shuts down: the flag, the end of the running pass, the end of the process.
Stop ==
  /\ bridge = "up" /\ Event /\ bridge' = "stopping"
  /\ UNCHANGED <<ledger, row, seen, queued, lastQueued, unproductive, pace, due, pass, opened,
                 silent, tries, faults>>

\* Mutant: the end of the running pass is not waited for.
StoppedAtOnce ==
  /\ bridge = "stopping" /\ bridge' = "stopped"
  /\ UNCHANGED <<ledger, row, seen, queued, lastQueued, unproductive, pace, due, pass, opened,
                 silent, tries, events, faults>>

Stopped ==
  /\ bridge = "stopping" /\ pass["supervisor"].pc = "idle" /\ bridge' = "stopped"
  /\ UNCHANGED <<ledger, row, seen, queued, lastQueued, unproductive, pace, due, pass, opened,
                 silent, tries, events, faults>>

\* What the Bridge had in memory is gone, and its threads.
BridgeGone ==
  /\ bridge' = "down" /\ due' = FALSE
  /\ row' = [s \in Slot |-> "none"] /\ seen' = [s \in Slot |-> Memory + 1]
  /\ lastQueued' = 0 /\ unproductive' = 0 /\ pace' = Pace /\ tries' = 0
  /\ pass' = [pass EXCEPT !["supervisor"] = Idle, !["operator"] = Idle]
  /\ UNCHANGED <<ledger, queued, opened, silent, events>>

Exit == bridge = "stopped" /\ BridgeGone /\ UNCHANGED faults

BridgeDies == bridge # "down" /\ Fault /\ BridgeGone

\* An error, a ledger that cannot be written, or the end of the desktop: nothing is
\* recorded and nothing charged.
BreaksOff(p) ==
  /\ pass[p].pc # "idle" /\ Fault /\ Finish(p)
  /\ UNCHANGED <<ledger, row, seen, queued, lastQueued, unproductive, pace, due, bridge, opened,
                 silent, tries, events>>

\* It takes longer to start than a pass on the desktop takes.
StartBridge ==
  /\ bridge = "down" /\ pass["desktop"].pc = "idle" /\ bridge' = "up"
  /\ UNCHANGED <<ledger, row, seen, queued, lastQueued, unproductive, pace, due, pass, opened,
                 silent, tries, events, faults>>

\* A unit is longer than a pass, and the supervisor's interval is not longer than a unit.
Tick ==
  /\ \A p \in Opener : pass[p].pc = "idle"
  /\ due => bridge # "up"
  /\ due' = (bridge = "up") /\ pace' = Least(pace + 1, Pace)
  /\ ledger' = [s \in Slot |-> [ledger[s] EXCEPT !.age = Least(@ + 1, Decay)]]
  /\ seen' = [s \in Slot |-> Least(seen[s] + 1, Memory + 1)]
  /\ row' = [s \in Slot |-> IF seen[s] + 1 > Ttl THEN "none" ELSE row[s]]
  /\ silent' = [s \in Slot |->
       IF silent[s].age + 1 >= Decay THEN Heard
       ELSE [silent[s] EXCEPT !.age = @ + 1,
                              !.booting = IF silent[s].age + 1 >= BootGrace THEN 0 ELSE @]]
  /\ UNCHANGED <<queued, lastQueued, unproductive, bridge, pass, opened, tries, events, faults>>

Proceed == Relaunch \/ \E p \in Opener : Provision(p) \/ Spawn(p) \/ Record(p)

Next ==
  \/ SupervisorLooks \/ DesktopLooks
  \/ \E s \in Slot : OperatorLooks(s) \/ \E state \in {"free", "taken"} : Poll(s, state)
  \/ Proceed \/ \E p \in Opener : BreaksOff(p)
  \/ Enqueue \/ Withdraw \/ Stop \/ Stopped \/ Exit
  \/ BridgeDies \/ StartBridge \/ Tick

\* The supervisor's loop goes on, a pass that was begun comes to its end, and time goes
\* by; windows and the operator do as they like.
Fairness == WF_vars(SupervisorLooks) /\ WF_vars(Proceed) /\ WF_vars(Tick)

Spec == Init /\ [][Next]_vars /\ Fairness

-----------------------------------------------------------------------------
(* Properties. *)

TypeOK ==
  /\ ledger \in [Slot -> Entry]
  /\ row \in [Slot -> {"none", "free", "taken"}] /\ seen \in [Slot -> 0 .. Memory + 1]
  /\ queued \in 0 .. MaxQueued /\ lastQueued \in 0 .. MaxQueued
  /\ unproductive \in 0 .. MaxUnproductive /\ pace \in 0 .. Pace /\ due \in BOOLEAN
  /\ bridge \in {"up", "stopping", "stopped", "down"}
  /\ pass \in [Opener -> Pass] /\ opened \subseteq Slot
  /\ silent \in [Slot -> Silence] /\ tries \in 0 .. MaxUnproductive + 1
  /\ events \in 0 .. MaxEvents /\ faults \in 0 .. MaxFaults

\* Whoever opens windows, and whoever dies between the reservation of a slot and its
\* record: while a window may still be booting no other one is opened on its slot
\* (audit_run_service.py:742).
NoDoubleBoot == \A s \in Slot : silent[s].booting <= 1

\* A slot that never answers gets a bounded number of windows until its ban expires, the
\* operator asks for it or it is heard (audit_run_service.py:40).
FutileIsBounded == \A s \in Slot : silent[s].futile <= MaxAttempts

\* The supervisor launches in a bounded number of passes while the queue does not
\* shrink, however many windows come and go; a pass that breaks off is not among them
\* (supervisor.py:93).
BudgetHolds == tries <= MaxUnproductive

\* When stop() has answered, no pass of the supervisor can open a window any more
\* (supervisor.py:281).
StopIsFinal == bridge = "stopped" => pass["supervisor"].pc = "idle"

\* A waiting dispatch is claimed at last, unless the budget is used up, every slot has a
\* window that was heard lately or the Bridge goes away: no slot is banned for good
\* (audit_run_service.py:44).
QueuedWorkMovesOn ==
  \A n \in 1 .. MaxQueued :
    queued = n ~> \/ queued # n \/ unproductive = MaxUnproductive
                  \/ Known = Slot \/ bridge # "up"
=============================================================================
