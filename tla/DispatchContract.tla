-------------------------- MODULE DispatchContract --------------------------
(***************************************************************************)
(* What the Bridge promises about a dispatch, without leases, clocks,      *)
(* registries, files or reports: a dispatch is handed to one window at a   *)
(* time, is started at most once, by the window that held it, and never    *)
(* waits for a window again after that.  It is complete only when its      *)
(* project has a proof, and cancelled only when nothing was started.       *)
(*                                                                         *)
(* A pass or a restart of the Bridge may move any number of dispatches at  *)
(* once, but enqueueing is one dispatch at a time.                         *)
(***************************************************************************)
EXTENDS Naturals

CONSTANTS Dispatch, Worker, NoWorker, Project, NoProject, Receipt, NoReceipt

VARIABLES
  life,    \* of each dispatch
  proved   \* the projects that have a final handoff

Status ==
  {"absent", "waiting", "held", "parked", "running", "lost",
   "complete", "failed", "cancelled"}

Life ==
  [status: Status, project: Project \cup {NoProject}, holder: Worker \cup {NoWorker},
   fence: Nat, receipt: Receipt \cup {NoReceipt}]

Unborn ==
  [status |-> "absent", project |-> NoProject, holder |-> NoWorker,
   fence |-> 0, receipt |-> NoReceipt]

Init ==
  /\ life = [d \in Dispatch |-> Unborn]
  /\ proved \in SUBSET Project

-----------------------------------------------------------------------------
(* The moves of one dispatch, from a to b. *)

Moves(a, status, holder, b) == b = [a EXCEPT !.status = status, !.holder = holder]

\* The fence tells this hand-over from every earlier one.
Handed(a, b) ==
  /\ a.status = "waiting"
  /\ \E w \in Worker :
       b = [a EXCEPT !.status = "held", !.holder = w, !.fence = a.fence + 1]

TakenBack(a, b) == a.status = "held" /\ Moves(a, "waiting", NoWorker, b)
Parked(a, b)    == a.status = "held" /\ Moves(a, "parked", NoWorker, b)

\* The irreversible step: only the holder takes it, and it leaves a receipt.
Started(a, b) ==
  /\ a.status = "held" /\ a.receipt = NoReceipt
  /\ \E r \in Receipt : b = [a EXCEPT !.status = "running", !.receipt = r]

\* A lost run is resumed by the window that started it or by no one.
Lost(a, b)    == a.status = "running" /\ \E w \in {a.holder, NoWorker} : Moves(a, "lost", w, b)
Resumed(a, b) == a.status = "lost" /\ a.holder # NoWorker /\ Moves(a, "running", a.holder, b)

Completed(a, b) ==
  /\ a.status \in {"running", "lost"} /\ a.project \in proved
  /\ Moves(a, "complete", NoWorker, b)

Failed(a, b) ==
  a.status \in {"held", "parked", "running", "lost"} /\ Moves(a, "failed", NoWorker, b)

Cancelled(a, b) ==
  a.status \in {"waiting", "held", "parked"} /\ Moves(a, "cancelled", NoWorker, b)

Move(a, b) ==
  \/ Handed(a, b) \/ TakenBack(a, b) \/ Parked(a, b) \/ Started(a, b) \/ Lost(a, b)
  \/ Resumed(a, b) \/ Completed(a, b) \/ Failed(a, b) \/ Cancelled(a, b)

-----------------------------------------------------------------------------
(* The steps of the system. *)

Over(a) == a.status \in {"complete", "failed", "cancelled"}

\* A project has one dispatch at a time.
Enqueue(d, p) ==
  /\ life[d] = Unborn
  /\ \A e \in Dispatch : life[e].project = p => Over(life[e])
  /\ life' = [life EXCEPT ![d].status = "waiting", ![d].project = p]
  /\ UNCHANGED proved

Advance ==
  /\ life' \in [Dispatch -> Life]
  /\ \A d \in Dispatch : life'[d] = life[d] \/ Move(life[d], life'[d])
  /\ UNCHANGED proved

\* A proof, once there, stays.
Publish(p) == proved' = proved \cup {p} /\ UNCHANGED life

Next ==
  \/ \E d \in Dispatch, p \in Project : Enqueue(d, p)
  \/ Advance
  \/ \E p \in Project : Publish(p)

Spec == Init /\ [][Next]_<<life, proved>>
=============================================================================
