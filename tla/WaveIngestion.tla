--------------------------- MODULE WaveIngestion ---------------------------
(***************************************************************************)
(* How an audit wave reaches the disk.  The audit root of one project is   *)
(* written by the request threads of the Bridge (bridge/server.py), which  *)
(* take a wave that a worker delivers, answer a repeated delivery and      *)
(* write a campaign again on request, and by the desktop, where the        *)
(* operator pastes waves (ingest.py).  A wave is a history file, a         *)
(* canonical file, for the last wave the handoff of the campaign, the      *)
(* campaign index and the state of the run: separate writes, under one     *)
(* lock for the run and one for the audit root, undone by a rollback.      *)
(* Whoever reads the audit root scans it without a lock, and a scan that   *)
(* finds every wave but no index writes the handoff itself (audits.py).    *)
(*                                                                         *)
(* A file holds what tells it apart: the run a wave comes from.  The       *)
(* canonical artifacts of a profile are one file, the handoff.             *)
(***************************************************************************)
EXTENDS Naturals, Sequences, FiniteSets

CONSTANTS
  Run,          \* the runs of the campaign profile in this audit root
  NoFile,       \* what a file that does not exist holds
  Handler,      \* request threads of the Bridge
  Desk,         \* the thread of the desktop that ingests a paste
  Scanner,      \* threads that scan: the dispatcher's probe, the desktop's refresh
  Waves,        \* how many waves the profile has, each depending on the last
  MayPaste,     \* whether the operator pastes waves
  MaxAsked,     \* bound: requests
  MaxScanned,   \* bound: different handoffs that scans write
  MaxResidue,   \* bound: files that a rollback could not restore
  MaxCuts       \* bound: crashes inside a transaction

ASSUME WaveAssumption ==
  /\ NoFile \notin Run \cup [1 .. Waves -> Run] \cup [run: Run, done: SUBSET (1 .. Waves)]
  /\ Desk \notin Handler
  /\ Waves \in Nat \ {0}
  /\ MayPaste \in BOOLEAN
  /\ {MaxAsked, MaxScanned, MaxResidue, MaxCuts} \subseteq Nat

VARIABLES
  disk,          \* the files of the audit root
  saved,         \* the state file of each run
  req,           \* the request each thread works on
  unannounced,   \* runs with an accepted wave that no generation announced
  pasted,        \* history: the waves a paste has committed
  closed,        \* history: the runs whose dispatch was closed, and by whom
  asked,         \* requests so far
  residue,       \* files that a rollback left behind
  cuts,          \* crashes inside a transaction
  scan,          \* the scan each thread is in the middle of
  scanned        \* history: the handoffs that a scan has written

vars == <<disk, saved, req, unannounced, pasted, closed, asked, residue, cuts, scan, scanned>>

Actor == Handler \cup {Desk}
Wave  == 1 .. Waves

---------------------------------------------------------------------------
(* Files.  Wave 0 of the history of a run is the copy of its handoff.      *)

Latest(w)     == <<"latest", NoFile, w>>
History(r, w) == <<"history", r, w>>
Handoff       == <<"handoff", NoFile, 0>>
Index         == <<"index", NoFile, 0>>

LatestFile  == {Latest(w) : w \in Wave}
HistoryFile == {History(r, w) : r \in Run, w \in 0 .. Waves}
File        == LatestFile \cup HistoryFile \cup {Handoff, Index}

\* campaign.json: the run it indexes and the waves it calls complete; the
\* status is CAMPAIGN_COMPLETE when those are all of them.
IndexRecord == [run: Run, done: SUBSET Wave]
Complete(d) == d[Index] # NoFile /\ d[Index].done = Wave

\* A wave file holds a run's wave, a handoff the waves it is composed of.
IsDisk(d) ==
  /\ DOMAIN d = File
  /\ \A f \in LatestFile \cup HistoryFile : d[f] \in Run \cup {NoFile}
  /\ d[Handoff] \in [Wave -> Run] \cup {NoFile}
  /\ d[Index] \in IndexRecord \cup {NoFile}

\* The handoff of a campaign whose waves are all of one run.
AllOf(r) == [w \in Wave |-> r]

\* The state of a run: the waves accepted, and whether one waits to be announced.
RunState == [done: SUBSET Wave, pending: BOOLEAN]

Op == {"none", "submit", "retry", "refinal", "materialize", "paste"}

\* A request is admitted, writes under the lock of the audit root, may undo what
\* it wrote, and after the commit announces, clears the marker, closes the
\* dispatch or checks the handoff.
Pc == {"idle", "admitted", "write", "undo", "announce", "clear", "close", "recheck"}

IsRequest(q) ==
  /\ DOMAIN q = {"op", "run", "waves", "pc", "state", "plan", "before"}
  /\ q.op \in Op /\ q.run \in Run \cup {NoFile} /\ q.waves \subseteq Wave /\ q.pc \in Pc
  /\ q.state \in RunState     \* the state of the run in memory
  /\ q.plan \in Seq(File)     \* the files to write, or to restore, in order
  /\ IsDisk(q.before)         \* the snapshot

\* A scan looks, reads the waves in their order and may write: whether the handoff was
\* there when it looked, and the run of each wave it has read.
IsScan(q) ==
  /\ DOMAIN q = {"pc", "listed", "read"}
  /\ q.pc \in {"idle", "read", "write"} /\ q.listed \in BOOLEAN /\ q.read \in Seq(Run)
  /\ q.pc = "write" => q.read \in [Wave -> Run]

NoScan == [pc |-> "idle", listed |-> FALSE, read |-> <<>>]

Empty == [f \in File |-> NoFile]
Fresh == [done |-> {}, pending |-> FALSE]
Idle  == [op |-> "none", run |-> NoFile, waves |-> {}, pc |-> "idle",
          state |-> Fresh, plan |-> <<>>, before |-> Empty]

Init ==
  /\ disk = Empty
  /\ saved = [r \in Run |-> Fresh]
  /\ req = [a \in Actor |-> Idle]
  /\ unannounced = {} /\ pasted = {} /\ closed = {}
  /\ asked = 0 /\ residue = 0 /\ cuts = 0
  /\ scan = [s \in Scanner |-> NoScan] /\ scanned = {}

\* Mutant: requests of one run are not serialized.
RunFreeAlways(r) == TRUE

\* The lock of a run: only the handlers take it, for their whole request.
RunFree(r) == \A a \in Handler : req[a].pc = "idle" \/ req[a].run # r

\* The lock of the audit root.
InRoot(a) == req[a].pc \in {"write", "undo"}
RootFree  == \A a \in Actor : ~InRoot(a)

\* The waves of a set in their order, each as the files files[w].
InOrder(ws, files) ==
  LET from[k \in 1 .. Waves + 1] ==
        IF k > Waves THEN <<>> ELSE (IF k \in ws THEN files[k] ELSE <<>>) \o from[k + 1]
  IN  from[1]

\* The two files of a wave in the order they are written, and in that of a rollback;
\* a paste has only the canonical one.
Copies(r)   == [w \in Wave |-> <<History(r, w), Latest(w)>>]
Snapshot(r) == [w \in Wave |-> <<Latest(w), History(r, w)>>]
Canonical   == [w \in Wave |-> <<Latest(w)>>]

FinalPlan(r, done) == IF done = Wave THEN <<History(r, 0), Handoff>> ELSE <<>>

\* Mutant: the campaign index is written before the handoff it announces.
SubmitPlanIndexFirst(r, w, done) ==
  <<History(r, w), Latest(w), Index>> \o FinalPlan(r, done)

\* What a transaction writes, in order; the state of the run comes last.
SubmitPlan(r, w, done) ==
  <<History(r, w), Latest(w)>> \o FinalPlan(r, done) \o <<Index>>
MaterializePlan(r, ws, done) ==
  InOrder(ws, Copies(r)) \o FinalPlan(r, done) \o <<Index>>
RepairPlan(r, w) ==
  (IF disk[Latest(w)] # r THEN <<Latest(w)>> ELSE <<>>)
    \o (IF disk[History(r, w)] # r THEN <<History(r, w)>> ELSE <<>>)
RefinalPlan(r) == <<History(r, 0), Handoff>>
PastePlan(ws)  == InOrder(ws, Canonical)

\* Mutant: the rollback list from before the handoff of every profile was on it.
FinalPathsOfOneProfile(r) == <<History(r, 0)>>

\* What it takes a snapshot of, in the order a rollback restores it.
FinalPaths(r) == <<Handoff, History(r, 0)>>
Paths(q) ==
  CASE q.op = "submit" ->
         InOrder(q.waves, Snapshot(q.run))
           \o <<Index>> \o FinalPaths(q.run)
    [] q.op = "materialize" ->
         <<Index>> \o InOrder(q.waves, Snapshot(q.run))
           \o (IF q.state.done = Wave THEN FinalPaths(q.run) ELSE <<>>)
    [] q.op = "retry"   -> InOrder(q.waves, Snapshot(q.run))
    [] q.op = "refinal" -> <<Index>> \o FinalPaths(q.run)
    [] q.op = "paste"   -> InOrder(q.waves, Canonical) \o <<Handoff, Index>>
    [] OTHER -> <<>>

---------------------------------------------------------------------------
(* Requests                                                                *)

Take(a, op, r, ws, pc, state, plan) ==
  /\ req[a].pc = "idle"
  /\ asked < MaxAsked /\ asked' = asked + 1
  /\ req' = [req EXCEPT ![a] = [op |-> op, run |-> r, waves |-> ws, pc |-> pc,
                                state |-> state, plan |-> plan, before |-> Empty]]
  /\ UNCHANGED <<disk, saved, unannounced, pasted, closed, residue, cuts, scan, scanned>>

\* A worker delivers a wave, after the waves it depends on.
Submit(a, r, w) ==
  LET done == saved[r].done \cup {w} IN
  /\ RunFree(r)
  /\ w \notin saved[r].done /\ 1 .. w - 1 \subseteq saved[r].done
  /\ Take(a, "submit", r, {w}, "admitted", [saved[r] EXCEPT !.done = done],
          SubmitPlan(r, w, done))

\* It delivers an accepted wave again.  Which of its files are missing or differ
\* is decided here, before the lock of the audit root.
Retry(a, r, w) ==
  LET bad == RepairPlan(r, w) IN
  /\ RunFree(r)
  /\ w \in saved[r].done
  /\ Take(a, "retry", r, {w}, IF bad = <<>> THEN "announce" ELSE "admitted", saved[r], bad)

\* It asks for accepted waves to be written again.
Materialize(a, r, ws) ==
  /\ RunFree(r)
  /\ ws # {} /\ ws \subseteq saved[r].done
  /\ Take(a, "materialize", r, ws, "admitted", saved[r],
          MaterializePlan(r, ws, saved[r].done))

\* The operator pastes waves of a run.  The rest of the plan is made by Compose.
Paste(r, ws) ==
  /\ MayPaste
  /\ ws # {}
  /\ Take(Desk, "paste", r, ws, "admitted", Fresh, PastePlan(ws))

---------------------------------------------------------------------------
(* The transaction                                                         *)

Goto(a, pc) == req' = [req EXCEPT ![a].pc = pc]
Finish(a)   == req' = [req EXCEPT ![a] = Idle]

\* The lock of the audit root is free again and the snapshot is forgotten.
Released(a, pc, pending) ==
  req' = [req EXCEPT ![a].pc = pc, ![a].state.pending = pending, ![a].before = Empty]

Lock(a) ==
  /\ req[a].pc = "admitted"
  /\ RootFree
  /\ req' = [req EXCEPT ![a].pc = "write", ![a].before = disk]
  /\ UNCHANGED <<disk, saved, unannounced, pasted, closed, asked, residue, cuts, scan, scanned>>

\* The lock is not free in time, or a file cannot be read for the snapshot.
GiveUp(a) ==
  /\ req[a].pc = "admitted"
  /\ Finish(a)
  /\ UNCHANGED <<disk, saved, unannounced, pasted, closed, asked, residue, cuts, scan, scanned>>

\* A handoff made by the Bridge comes from the state of the run, one made by a
\* paste from the wave files.
Synthesis(q) == IF q.op = "paste" THEN [w \in Wave |-> disk[Latest(w)]] ELSE AllOf(q.run)

Written(q, f) ==
  CASE f = Index   -> [run |-> q.run, done |-> q.state.done]
    [] f = Handoff -> Synthesis(q)
    [] OTHER       -> q.run

\* Mutant: the dispatch is closed as soon as the handoff is on disk.
WriteFileAndClose(a) ==
  LET q == req[a]
      f == Head(q.plan)
  IN
  /\ q.pc = "write" /\ q.plan # <<>>
  /\ disk' = [disk EXCEPT ![f] = Written(q, f)]
  /\ req' = [req EXCEPT ![a].plan = Tail(q.plan)]
  /\ closed' = closed \cup (IF f = Handoff /\ q.op = "submit" THEN {<<q.run, "ingest">>} ELSE {})
  /\ UNCHANGED <<saved, unannounced, pasted, asked, residue, cuts, scan, scanned>>

WriteFile(a) ==
  LET q == req[a]
      f == Head(q.plan)
  IN
  /\ q.pc = "write" /\ q.plan # <<>>
  /\ disk' = [disk EXCEPT ![f] = Written(q, f)]
  /\ req' = [req EXCEPT ![a].plan = Tail(q.plan)]
  /\ UNCHANGED <<saved, unannounced, pasted, closed, asked, residue, cuts, scan, scanned>>

Undo(a) == req' = [req EXCEPT ![a].pc = "undo", ![a].plan = Paths(req[a])]

\* With its waves written a paste has yet to look at the files.
Composing(q) == q.op = "paste" /\ q.plan = <<>> /\ q.state.done = {}
\* Mutant: a paste does not ask whether every wave file exists.
OnDiskOrNot == Wave

OnDisk == {w \in Wave : disk[Latest(w)] # NoFile}

\* A paste whose waves name their run is refused when the index is of another; one whose
\* waves name none has a run of its own and is not.  It completes the campaign when every
\* wave is on disk, whatever run the files are of.
Compose(a) ==
  LET q == req[a] IN
  /\ q.pc = "write" /\ Composing(q)
  /\ \/ /\ disk[Index] # NoFile /\ disk[Index].run # q.run
        /\ Undo(a)
     \/ req' = [req EXCEPT ![a].state.done = OnDisk,
                           ![a].plan = (IF OnDisk = Wave THEN <<Handoff>> ELSE <<>>) \o <<Index>>]
  /\ UNCHANGED <<disk, saved, unannounced, pasted, closed, asked, residue, cuts, scan, scanned>>

\* Everything is written.  A delivery saves the state of the run with the marker;
\* a materialization and a repair of the handoff save the state they read.
Commit(a) ==
  LET q == req[a] IN
  /\ q.pc = "write" /\ q.plan = <<>> /\ ~Composing(q)
  /\ CASE q.op = "submit" ->
            /\ saved' = [saved EXCEPT ![q.run] = [q.state EXCEPT !.pending = TRUE]]
            /\ unannounced' = unannounced \cup {q.run}
            /\ Released(a, "announce", TRUE)
            /\ UNCHANGED pasted
       [] q.op \in {"materialize", "refinal"} ->
            /\ saved' = [saved EXCEPT ![q.run] = q.state]
            /\ IF q.op = "refinal" THEN Finish(a) ELSE Released(a, "announce", q.state.pending)
            /\ UNCHANGED <<unannounced, pasted>>
       [] q.op = "paste" ->
            /\ pasted' = pasted \cup {<<q.run, w>> : w \in q.waves}
            /\ Released(a, "announce", FALSE)
            /\ UNCHANGED <<saved, unannounced>>
       [] OTHER ->
            /\ Released(a, "announce", q.state.pending)
            /\ UNCHANGED <<saved, unannounced, pasted>>
  /\ UNCHANGED <<disk, closed, asked, residue, cuts, scan, scanned>>

\* A write fails, the last one being that of the run's state for those that save it.
Fails(a) ==
  /\ req[a].pc = "write"
  /\ req[a].plan # <<>> \/ req[a].op \in {"submit", "materialize", "refinal"}
  /\ Undo(a)
  /\ UNCHANGED <<disk, saved, unannounced, pasted, closed, asked, residue, cuts, scan, scanned>>

\* Mutant: a rollback deletes what the transaction wrote.
RestoredByRemoval(q, f) == NoFile

Restored(q, f) == q.before[f]

\* The rollback goes on to the next file when one cannot be restored.
Restore(a) ==
  LET q == req[a]
      f == Head(q.plan)
  IN
  /\ q.pc = "undo" /\ q.plan # <<>>
  /\ \/ disk' = [disk EXCEPT ![f] = Restored(q, f)] /\ UNCHANGED residue
     \/ /\ residue < MaxResidue /\ disk[f] # Restored(q, f)
        /\ residue' = residue + 1 /\ UNCHANGED disk
  /\ IF Len(q.plan) = 1 THEN Finish(a) ELSE req' = [req EXCEPT ![a].plan = Tail(q.plan)]
  /\ UNCHANGED <<saved, unannounced, pasted, closed, asked, cuts, scan, scanned>>

---------------------------------------------------------------------------
(* After the commit                                                        *)

\* Mutant: the marker is cleared whether or not the generation was published.
AfterAnnounceClear(op, published) ==
  IF op \in {"submit", "retry"} THEN "clear" ELSE "idle"

\* A new generation makes the desktop read the project again, so it announces
\* every run.
AfterAnnounce(op, published) ==
  CASE op = "submit" -> IF published THEN "clear" ELSE "close"
    [] op = "retry"  -> IF published THEN "clear" ELSE "recheck"
    [] OTHER         -> "idle"

\* A repeated delivery publishes only what is still pending.  The generation can not
\* be written, or its lock is not free in time, which ends the request.
Announce(a) ==
  LET q == req[a]
      Go(pc) == IF pc = "idle" THEN Finish(a) ELSE Goto(a, pc)
  IN
  /\ q.pc = "announce"
  /\ \/ /\ q.op = "retry" => q.state.pending
        /\ unannounced' = {}
        /\ Go(AfterAnnounce(q.op, TRUE))
     \/ UNCHANGED unannounced /\ (Go(AfterAnnounce(q.op, FALSE)) \/ Finish(a))
  /\ UNCHANGED <<disk, saved, pasted, closed, asked, residue, cuts, scan, scanned>>

\* The marker goes, or stays when the state can not be saved.
Clear(a) ==
  LET q == req[a] IN
  /\ q.pc = "clear"
  /\ \/ saved' = [saved EXCEPT ![q.run] = [q.state EXCEPT !.pending = FALSE]]
     \/ UNCHANGED saved
  /\ req' = [req EXCEPT ![a].pc = IF q.op = "submit" THEN "close" ELSE "recheck",
                        ![a].state.pending = saved'[q.run].pending]
  /\ UNCHANGED <<disk, unannounced, pasted, closed, asked, residue, cuts, scan, scanned>>

\* The last wave closes the dispatch, unless the dispatcher fails.
Close(a) ==
  LET q == req[a] IN
  /\ q.pc = "close"
  /\ \/ /\ q.state.done = Wave
        /\ closed' = closed \cup {<<q.run, "ingest">>}
     \/ UNCHANGED closed
  /\ Finish(a)
  /\ UNCHANGED <<disk, saved, unannounced, pasted, asked, residue, cuts, scan, scanned>>

\* A repeated delivery to a complete campaign looks at the handoff too, and writes
\* it again when it is not what this run wrote.
Recheck(a) ==
  LET q == req[a] IN
  /\ q.pc = "recheck"
  /\ IF q.state.done = Wave /\ disk[Handoff] # AllOf(q.run)
       THEN req' = [req EXCEPT ![a].op = "refinal", ![a].pc = "admitted",
                               ![a].plan = RefinalPlan(q.run)]
       ELSE Finish(a)
  /\ UNCHANGED <<disk, saved, unannounced, pasted, closed, asked, residue, cuts, scan, scanned>>

---------------------------------------------------------------------------
(* Scans: reads of the audit root without its lock.                        *)

\* An index tells whether the campaign is finished: a scan that finds one only reads,
\* and the supervisor of the dispatcher may close the dispatch on what it says.
Probe ==
  /\ Complete(disk) /\ disk[Handoff] # NoFile
  /\ closed' = closed \cup {<<disk[Index].run, "probe">>}
  /\ UNCHANGED <<disk, saved, req, unannounced, pasted, asked, residue, cuts, scan, scanned>>

\* There is no index, and every wave is there.
ScanLook(s) ==
  /\ scan[s].pc = "idle"
  /\ disk[Index] = NoFile /\ OnDisk = Wave
  /\ Cardinality(scanned) < MaxScanned
  /\ scan' = [scan EXCEPT ![s] = [pc |-> "read", listed |-> disk[Handoff] # NoFile, read |-> <<>>]]
  /\ UNCHANGED <<disk, saved, req, unannounced, pasted, closed, asked, residue, cuts, scanned>>

ScanRead(s) ==
  LET f == Latest(Len(scan[s].read) + 1) IN
  /\ scan[s].pc = "read" /\ Len(scan[s].read) < Waves
  /\ disk[f] # NoFile
  /\ scan' = [scan EXCEPT ![s].read = Append(@, disk[f])]
  /\ UNCHANGED <<disk, saved, req, unannounced, pasted, closed, asked, residue, cuts, scanned>>

\* The campaign is of the run of its first wave.  Only the supervisor closes on it.
MayClose(s) ==
  UNCHANGED closed \/ closed' = closed \cup {<<scan[s].read[1], "probe">>}

\* Every wave was read.  A handoff that was there and still is stays.
ScanHandoff(s) ==
  /\ scan[s].pc = "read" /\ Len(scan[s].read) = Waves
  /\ IF scan[s].listed /\ disk[Handoff] # NoFile
       THEN scan' = [scan EXCEPT ![s] = NoScan] /\ MayClose(s)
       ELSE scan' = [scan EXCEPT ![s].pc = "write"] /\ UNCHANGED closed
  /\ UNCHANGED <<disk, saved, req, unannounced, pasted, asked, residue, cuts, scanned>>

\* It composes the handoff of the waves it has read, whatever has become of them.
ScanWrite(s) ==
  /\ scan[s].pc = "write"
  /\ disk' = [disk EXCEPT ![Handoff] = scan[s].read]
  /\ scanned' = scanned \cup {scan[s].read}
  /\ scan' = [scan EXCEPT ![s] = NoScan]
  /\ MayClose(s)
  /\ UNCHANGED <<saved, req, unannounced, pasted, asked, residue, cuts>>

\* A wave is gone, a read or the write fails, or the process ends.
ScanEnds(s) ==
  /\ scan[s].pc # "idle"
  /\ scan' = [scan EXCEPT ![s] = NoScan]
  /\ UNCHANGED <<disk, saved, req, unannounced, pasted, closed, asked, residue, cuts, scanned>>

\* A process ends with its threads; the locks are free again and files stay.
Crash(threads) ==
  LET cut == \E a \in threads : InRoot(a) IN
  /\ \E a \in threads : req[a].pc # "idle"
  /\ cut => cuts < MaxCuts
  /\ cuts' = cuts + (IF cut THEN 1 ELSE 0)
  /\ req' = [a \in Actor |-> IF a \in threads THEN Idle ELSE req[a]]
  /\ UNCHANGED <<disk, saved, unannounced, pasted, closed, asked, residue, scan, scanned>>

Admit(a) ==
  \E r \in Run :
    \/ \E w \in Wave : Submit(a, r, w) \/ Retry(a, r, w)
    \/ \E ws \in SUBSET Wave : Materialize(a, r, ws)

Step(a) ==
  \/ Lock(a) \/ GiveUp(a) \/ WriteFile(a) \/ Compose(a) \/ Commit(a) \/ Fails(a)
  \/ Restore(a) \/ Announce(a) \/ Clear(a) \/ Close(a) \/ Recheck(a)

Scan(s) == ScanLook(s) \/ ScanRead(s) \/ ScanHandoff(s) \/ ScanWrite(s) \/ ScanEnds(s)

\* No more requests arrive.
Quiet == asked = MaxAsked /\ (\A a \in Actor : req[a].pc = "idle") /\ UNCHANGED vars

Next ==
  \/ \E a \in Handler : Admit(a)
  \/ \E r \in Run, ws \in SUBSET Wave : Paste(r, ws)
  \/ \E a \in Actor : Step(a)
  \/ Probe
  \/ \E s \in Scanner : Scan(s)
  \/ Crash(Handler) \/ Crash({Desk})
  \/ Quiet

Spec == Init /\ [][Next]_vars

---------------------------------------------------------------------------
(* Properties                                                              *)

\* The variables stay in their types.
TypeOK ==
  /\ IsDisk(disk)
  /\ saved \in [Run -> RunState]
  /\ DOMAIN req = Actor /\ \A a \in Actor : IsRequest(req[a])
  /\ unannounced \subseteq Run
  /\ pasted \subseteq Run \X Wave
  /\ closed \subseteq Run \X {"ingest", "probe"}
  /\ asked \in 0 .. MaxAsked /\ residue \in 0 .. MaxResidue /\ cuts \in 0 .. MaxCuts
  /\ DOMAIN scan = Scanner /\ \A s \in Scanner : IsScan(scan[s])
  /\ scanned \subseteq [Wave -> Run]

Accepted(r, w) == w \in saved[r].done \/ <<r, w>> \in pasted

\* What a reader sees while nobody is writing was accepted: every wave file, what a
\* handoff is composed of and every wave the index counts (server.py:331 "W2-001",
\* storage.py:189).  A rollback that misses a file, or takes one back that another
\* writer has committed since, breaks this.  It holds until a rollback could not
\* restore a file or a crash cut a transaction; a handoff that a scan wrote is not
\* claimed to be accepted, for the scan may have read what a rollback has taken back.
VisibleIsAccepted ==
  RootFree /\ residue = 0 /\ cuts = 0 =>
    \A w \in Wave :
      /\ disk[Latest(w)] # NoFile => Accepted(disk[Latest(w)], w)
      /\ disk[Handoff] \notin {NoFile} \cup scanned => Accepted(disk[Handoff][w], w)
      /\ \A r \in Run : disk[History(r, w)] # NoFile => w \in saved[r].done
      /\ disk[Index] # NoFile /\ w \in disk[Index].done =>
           \E r \in Run : Accepted(r, w)

\* The index calls a campaign complete only while its handoff exists, so that a
\* reader without the lock finds the file it is sent to (audits.py:369, the probe at
\* server.py:4089): in the middle of a transaction, of a rollback and after a crash.
CompleteHasHandoff == residue = 0 /\ Complete(disk) => disk[Handoff] # NoFile

\* An accepted wave keeps its copy in the history through every later failure, crash
\* and rollback: the state of the run is saved last, and a rollback restores what
\* the transaction found (server.py:3487 "CORE-003").
AcceptedKeepsHistory ==
  \A r \in Run : \A w \in saved[r].done : disk[History(r, w)] = r

\* No accepted wave is lost when threads work on the same run (state.py:91).
AcceptedIsKept == [][\A r \in Run : saved[r].done \subseteq saved'[r].done]_vars

\* An accepted wave that no generation has announced keeps its marker, through
\* crashes and failed publications, so that a repeated delivery announces it
\* (server.py:3583 "W2-002").
UnannouncedIsMarked == \A r \in unannounced : saved[r].pending

\* A dispatch closed by a delivery has its whole campaign accepted (server.py:3643).
ClosedIsAccepted ==
  \A r \in Run : <<r, "ingest">> \in closed => saved[r].done = Wave

\* A repeated delivery of accepted bytes changes nothing for a reader: the handoff a
\* complete index sends to is of the run it indexes (server.py:3377 "T04").
HandoffOfIndex ==
  RootFree /\ Complete(disk) /\ disk[Handoff] # NoFile =>
    disk[Handoff] = AllOf(disk[Index].run)
=============================================================================
