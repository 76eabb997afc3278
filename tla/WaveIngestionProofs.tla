------------------------ MODULE WaveIngestionProofs ------------------------
(***************************************************************************)
(* Why what a reader of the audit root sees was accepted, and why nothing  *)
(* accepted is lost: for any number of runs, threads, waves and requests,  *)
(* wherever a request fails, a rollback stops or a process ends.           *)
(*                                                                         *)
(* The argument follows one transaction.  Its plan is on its snapshot, so  *)
(* what it did not touch is as it found it; the index is written last and  *)
(* restored before the handoff; and the state in its memory is that of the *)
(* run on disk, because its lock has been held since it was read.  The     *)
(* plans are sequences that a recursion builds: of these the proof needs   *)
(* only which files are on them and where the index is.                    *)
(***************************************************************************)
EXTENDS WaveIngestion, SequenceTheorems, FiniteSetTheorems, TLAPS

-----------------------------------------------------------------------------
(* The inductive invariant. *)

On(f, s) == \E i \in 1 .. Len(s) : s[i] = f

\* The index is the last file of a sequence, or not on it.
IndexLast(s) == \A i \in 1 .. Len(s) : s[i] = Index => i = Len(s)

\* The index comes before the handoff.
IndexFirst(s) == \A i, j \in 1 .. Len(s) : s[i] = Index /\ s[j] = Handoff => i < j

Busy(a) == req[a].pc # "idle"

\* One request at a time has a run, and one has the audit root.
Locked ==
  /\ \A a, b \in Handler : a # b /\ Busy(a) /\ Busy(b) => req[a].run # req[b].run
  /\ \A a, b \in Actor : InRoot(a) /\ InRoot(b) => a = b

Shaped(a) ==
  LET q == req[a] IN
  Busy(a) =>
    /\ q.run \in Run
    /\ q.op \in {"submit", "retry", "refinal", "materialize", "paste"}
    /\ a = Desk <=> q.op = "paste"
    /\ q.pc \in {"clear", "close", "recheck"} => q.op \in {"submit", "retry"}

\* A delivery has its wave in memory before it saves it.
Uncommitted(q) == q.op = "submit" /\ q.pc \in {"admitted", "write", "undo"}

\* A handler works on the state that its run has on disk.
Holds(a) ==
  LET q == req[a] IN
  Busy(a) /\ a \in Handler =>
    IF Uncommitted(q)
    THEN q.state.done = saved[q.run].done \cup q.waves
    ELSE /\ q.state.done = saved[q.run].done /\ q.state.pending = saved[q.run].pending
         /\ q.waves \subseteq q.state.done

\* A marker is cleared after the announcement of its run.
Announced(a) == req[a].pc = "clear" => req[a].run \notin unannounced

\* What is still to be written.
Planned(a) ==
  LET q == req[a] IN
  q.pc \in {"admitted", "write"} =>
    /\ IndexLast(q.plan)
    /\ \A f : On(f, q.plan) => On(f, Paths(q))
    /\ On(Handoff, q.plan) => q.state.done = Wave
    /\ On(Index, q.plan) => q.op \notin {"retry", "refinal"} /\ q.state.done # {}

Todo(a) ==
  LET q == req[a] IN
  q.pc = "admitted" =>
    /\ On(Index, q.plan) /\ q.state.done = Wave => On(Handoff, q.plan)
    /\ q.op = "submit" => \A w \in q.waves : On(History(q.run, w), q.plan)
    /\ q.op = "paste" =>
         q.state.done = {} /\ q.waves # {} /\ \A w \in q.waves : On(Latest(w), q.plan)

\* A file is as a transaction found it, or is a handoff that a scan has written since.
AsFound(d, found, f) == d[f] = found[f] \/ (f = Handoff /\ d[f] \in scanned)

\* What has been written, or is still to be.
Wrote(a) ==
  LET q == req[a] IN
  q.pc = "write" =>
    /\ On(Index, q.plan) /\ q.state.done = Wave => On(Handoff, q.plan) \/ disk[Handoff] # NoFile
    /\ q.op = "submit" =>
         \A w \in q.waves : On(History(q.run, w), q.plan) \/ disk[History(q.run, w)] = q.run
    /\ q.op = "paste" =>
         /\ q.waves # {}
         /\ \A w \in q.waves : On(Latest(w), q.plan) \/ disk[Latest(w)] # NoFile
         /\ \A w \in q.state.done : disk[Latest(w)] # NoFile
         /\ q.plan # <<>> \/ q.state.done = {} => disk[Index] = q.before[Index]
    /\ \A f \in File : ~On(f, Paths(q)) => AsFound(disk, q.before, f)

KeepsHistory(d) == \A r \in Run : \A w \in saved[r].done : d[History(r, w)] = r
HasHandoff(d)   == Complete(d) => d[Handoff] # NoFile

Shown(d) ==
  \A w \in Wave :
    /\ d[Latest(w)] # NoFile => Accepted(d[Latest(w)], w)
    /\ d[Handoff] \notin {NoFile} \cup scanned => Accepted(d[Handoff][w], w)
    /\ \A r \in Run : d[History(r, w)] # NoFile => w \in saved[r].done
    /\ d[Index] # NoFile /\ w \in d[Index].done => \E r \in Run : Accepted(r, w)

\* What a transaction found has the properties of the disk.
Snapped(a) ==
  LET q == req[a] IN
  InRoot(a) =>
    /\ KeepsHistory(q.before)
    /\ q.before[Handoff] # NoFile => disk[Handoff] # NoFile
    /\ residue = 0 => HasHandoff(q.before)
    /\ residue = 0 /\ cuts = 0 => Shown(q.before)

\* A wave is accepted, or will be with the commit of the request.
Soon(a, r, w) == Accepted(r, w) \/ (r = req[a].run /\ w \in req[a].waves)
Saving(a, r, w) ==
  w \in saved[r].done \/ (req[a].op = "submit" /\ r = req[a].run /\ w \in req[a].waves)

Showing(a) ==
  req[a].pc = "write" /\ residue = 0 /\ cuts = 0 =>
    \A w \in Wave :
      /\ disk[Latest(w)] # NoFile => Soon(a, disk[Latest(w)], w)
      /\ disk[Handoff] \notin {NoFile} \cup scanned => Soon(a, disk[Handoff][w], w)
      /\ \A r \in Run : disk[History(r, w)] # NoFile => Saving(a, r, w)
      /\ disk[Index] # NoFile /\ w \in disk[Index].done => \E r \in Run : Soon(a, r, w)

\* What is not to be restored any more is as the transaction found it, and a paste
\* never undoes its index.
Undone(a) ==
  LET q == req[a] IN
  q.pc = "undo" =>
    /\ \A f : On(f, q.plan) => On(f, Paths(q))
    /\ residue = 0 => \A f \in File : ~On(f, q.plan) => AsFound(disk, q.before, f)
    /\ IF q.op = "paste" THEN disk[Index] = q.before[Index] ELSE IndexFirst(q.plan)

Sound(a) ==
  /\ Shaped(a) /\ Holds(a) /\ Announced(a) /\ Planned(a) /\ Todo(a)
  /\ Wrote(a) /\ Snapped(a) /\ Showing(a) /\ Undone(a)

Good ==
  /\ VisibleIsAccepted /\ CompleteHasHandoff /\ AcceptedKeepsHistory
  /\ UnannouncedIsMarked /\ ClosedIsAccepted

IInv == TypeOK /\ Locked /\ (\A a \in Actor : Sound(a)) /\ Good

\* A set of numbers that is not empty has a least element.
LEMMA Least ==
  ASSUME NEW S \in SUBSET Nat, S # {}
  PROVE  \E k \in S : \A m \in S : k <= m
<1> DEFINE Up(k) == 0 .. k
           T == {Up(k) : k \in S}
<1>1. T \subseteq FiniteSubsetsOf(Nat) /\ T # {}
  <2>1. ASSUME NEW k \in S PROVE Up(k) \in SUBSET Nat /\ IsFiniteSet(Up(k))
    BY FS_Interval
  <2> QED BY <2>1 DEF FiniteSubsetsOf
<1>2. PICK X \in T : \A Y \in T : <<Y, X>> \notin StrictSubsetOrdering(Nat)
  <2> HIDE DEF T
  <2> QED BY <1>1, FS_StrictSubsetOrderingWellFounded, WFMin
<1>3. PICK k \in S : X = Up(k)
  OBVIOUS
<1>4. ASSUME NEW m \in S, m < k PROVE FALSE
  <2>1. Up(m) \in SUBSET Nat /\ Up(k) \in SUBSET Nat /\ Up(m) \subseteq Up(k) /\ Up(m) # Up(k)
    <3>1. k \in Up(k) /\ k \notin Up(m)
      BY <1>4
    <3> QED BY <1>4, <3>1
  <2> HIDE DEF Up
  <2> QED BY <1>2, <1>3, <2>1 DEF StrictSubsetOrdering
<1> QED BY <1>4

------------------------------------------------------------------------------
(* Sequences. *)

LEMMA OnNone == \A f : ~On(f, <<>>)
  BY DEF On

LEMMA OnOne == \A f, g : On(f, <<g>>) <=> f = g
  BY DEF On

LEMMA OnTwo == \A f, g, h : On(f, <<g, h>>) <=> f = g \/ f = h
<1>1. ASSUME NEW f, NEW g, NEW h PROVE On(f, <<g, h>>) <=> f = g \/ f = h
  <2>1. Len(<<g, h>>) = 2 /\ <<g, h>>[1] = g /\ <<g, h>>[2] = h
    OBVIOUS
  <2>2. On(f, <<g, h>>) <=> \E i \in {1, 2} : <<g, h>>[i] = f
    BY <2>1 DEF On
  <2> QED BY <2>1, <2>2
<1> QED BY <1>1

LEMMA OnConcat ==
  ASSUME NEW s \in Seq(File), NEW t \in Seq(File)
  PROVE  \A f : On(f, s \o t) <=> On(f, s) \/ On(f, t)
<1>0. SUFFICES ASSUME NEW f PROVE On(f, s \o t) <=> On(f, s) \/ On(f, t)
  OBVIOUS
<1>1. ASSUME NEW i \in 1 .. Len(s \o t), (s \o t)[i] = f
      PROVE  On(f, s) \/ On(f, t)
  <2>1. CASE i <= Len(s)
    BY <1>1, <2>1, ConcatProperties DEF On
  <2>2. CASE i > Len(s)
    <3>1. i - Len(s) \in 1 .. Len(t) /\ t[i - Len(s)] = f
      BY <1>1, <2>2, ConcatProperties
    <3> QED BY <3>1 DEF On
  <2> QED BY <1>1, <2>1, <2>2
<1>2. ASSUME NEW i \in 1 .. Len(s), s[i] = f PROVE On(f, s \o t)
  <2>1. i \in 1 .. Len(s \o t) /\ (s \o t)[i] = f
    BY <1>2, ConcatProperties
  <2> QED BY <2>1 DEF On
<1>3. ASSUME NEW i \in 1 .. Len(t), t[i] = f PROVE On(f, s \o t)
  <2>1. Len(s) + i \in 1 .. Len(s \o t) /\ (s \o t)[Len(s) + i] = f
    BY <1>3, ConcatProperties
  <2> QED BY <2>1 DEF On
<1> QED BY <1>1, <1>2, <1>3 DEF On

LEMMA OnTail ==
  ASSUME NEW s \in Seq(File), s # <<>>
  PROVE  /\ Head(s) \in File /\ Tail(s) \in Seq(File)
         /\ On(Head(s), s)
         /\ \A f : On(f, Tail(s)) => On(f, s)
         /\ \A f : On(f, s) => f = Head(s) \/ On(f, Tail(s))
<1>1. /\ Len(s) \in Nat \ {0} /\ Head(s) = s[1] /\ s[1] \in File /\ Tail(s) \in Seq(File)
      /\ Len(Tail(s)) = Len(s) - 1
      /\ \A i \in 1 .. Len(Tail(s)) : Tail(s)[i] = s[i + 1]
  BY HeadTailProperties
<1>2. ASSUME NEW f, On(f, Tail(s)) PROVE On(f, s)
  <2>1. PICK i \in 1 .. Len(Tail(s)) : Tail(s)[i] = f
    BY <1>2 DEF On
  <2>2. i + 1 \in 1 .. Len(s) /\ s[i + 1] = f
    BY <1>1, <2>1
  <2> QED BY <2>2 DEF On
<1>3. ASSUME NEW f, On(f, s), f # Head(s) PROVE On(f, Tail(s))
  <2>1. PICK i \in 1 .. Len(s) : s[i] = f
    BY <1>3 DEF On
  <2>2. i # 1
    BY <1>1, <1>3, <2>1
  <2>3. i - 1 \in 1 .. Len(Tail(s)) /\ Tail(s)[i - 1] = s[(i - 1) + 1]
    BY <1>1, <2>2
  <2>4. Tail(s)[i - 1] = f
    BY <2>1, <2>3
  <2> QED BY <2>3, <2>4 DEF On
<1>4. 1 \in 1 .. Len(s)
  BY <1>1
<1>5. On(Head(s), s)
  BY <1>1, <1>4 DEF On
<1> QED BY <1>1, <1>2, <1>3, <1>5

LEMMA LastTail ==
  ASSUME NEW s \in Seq(File), s # <<>>, IndexLast(s)
  PROVE  /\ IndexLast(Tail(s))
         /\ Head(s) = Index => Tail(s) = <<>> /\ \A f : On(f, s) => f = Index
<1>1. /\ Len(s) \in Nat \ {0} /\ Head(s) = s[1] /\ Tail(s) \in Seq(File)
      /\ Len(Tail(s)) = Len(s) - 1
      /\ \A i \in 1 .. Len(Tail(s)) : Tail(s)[i] = s[i + 1]
  BY HeadTailProperties
<1>2. ASSUME NEW i \in 1 .. Len(Tail(s)), Tail(s)[i] = Index PROVE i = Len(Tail(s))
  <2>1. i + 1 \in 1 .. Len(s) /\ s[i + 1] = Index
    BY <1>1, <1>2
  <2>2. i + 1 = Len(s)
    BY <2>1 DEF IndexLast
  <2>3. i \in Nat /\ Len(s) \in Nat /\ Len(Tail(s)) = Len(s) - 1
    BY <1>1
  <2> QED BY <2>2, <2>3
<1>3. ASSUME Head(s) = Index PROVE Len(s) = 1
  <2>1. 1 \in 1 .. Len(s) /\ s[1] = Index
    BY <1>1, <1>3
  <2> QED BY <2>1 DEF IndexLast
<1>4. ASSUME Head(s) = Index PROVE Tail(s) = <<>> /\ \A f : On(f, s) => f = Index
  <2>1. Len(Tail(s)) = 0
    BY <1>1, <1>3, <1>4
  <2>2. Tail(s) = <<>>
    BY <1>1, <2>1, EmptySeq
  <2> QED BY <1>1, <1>3, <1>4, <2>2 DEF On
<1> QED BY <1>2, <1>4 DEF IndexLast

LEMMA FirstTail ==
  ASSUME NEW s \in Seq(File), s # <<>>, IndexFirst(s)
  PROVE  /\ IndexFirst(Tail(s))
         /\ Head(s) = Handoff => ~On(Index, s)
<1>1. /\ Len(s) \in Nat \ {0} /\ Head(s) = s[1] /\ Tail(s) \in Seq(File)
      /\ Len(Tail(s)) = Len(s) - 1
      /\ \A i \in 1 .. Len(Tail(s)) : Tail(s)[i] = s[i + 1]
  BY HeadTailProperties
<1>2. ASSUME NEW i \in 1 .. Len(Tail(s)), NEW j \in 1 .. Len(Tail(s)),
             Tail(s)[i] = Index, Tail(s)[j] = Handoff
      PROVE  i < j
  <2>1. i + 1 \in 1 .. Len(s) /\ s[i + 1] = Index /\ j + 1 \in 1 .. Len(s) /\ s[j + 1] = Handoff
    BY <1>1, <1>2
  <2>2. i + 1 < j + 1
    BY <2>1 DEF IndexFirst
  <2> QED BY <1>1, <2>2
<1>3. ASSUME Head(s) = Handoff, On(Index, s) PROVE FALSE
  <2>1. PICK i \in 1 .. Len(s) : s[i] = Index
    BY <1>3 DEF On
  <2>2. 1 \in 1 .. Len(s) /\ s[1] = Handoff
    BY <1>1, <1>3
  <2>3. i < 1
    BY <2>1, <2>2 DEF IndexFirst
  <2> QED BY <2>1, <2>3
<1> QED BY <1>2, <1>3 DEF IndexFirst

\* A sequence without the index, and the index at its end or nothing.
LEMMA LastOf ==
  ASSUME NEW s \in Seq(File), ~On(Index, s)
  PROVE  IndexLast(s) /\ IndexLast(s \o <<Index>>)
<1>1. <<Index>> \in Seq(File) /\ Len(<<Index>>) = 1
  BY DEF File
<1>2. ASSUME NEW i \in 1 .. Len(s \o <<Index>>), (s \o <<Index>>)[i] = Index
      PROVE  i = Len(s \o <<Index>>)
  <2>1. Len(s \o <<Index>>) = Len(s) + 1
    BY <1>1, ConcatProperties
  <2>2. ASSUME i <= Len(s) PROVE FALSE
    <3>1. s[i] = Index
      BY <1>1, <1>2, <2>2, ConcatProperties
    <3> QED BY <2>2, <3>1 DEF On
  <2> QED BY <2>1, <2>2
<1> QED BY <1>2 DEF IndexLast, On

LEMMA FirstOf ==
  ASSUME NEW s \in Seq(File), NEW t \in Seq(File), ~On(Handoff, s), ~On(Index, t)
  PROVE  IndexFirst(s \o t)
<1>1. ASSUME NEW i \in 1 .. Len(s \o t), NEW j \in 1 .. Len(s \o t),
             (s \o t)[i] = Index, (s \o t)[j] = Handoff
      PROVE  i < j
  <2>1. i <= Len(s)
    <3>1. ASSUME i > Len(s) PROVE FALSE
      <4>1. i - Len(s) \in 1 .. Len(t) /\ t[i - Len(s)] = Index
        BY <1>1, <3>1, ConcatProperties
      <4> QED BY <4>1 DEF On
    <3> QED BY <3>1, ConcatProperties
  <2>2. j > Len(s)
    <3>1. ASSUME j <= Len(s) PROVE FALSE
      <4>1. j \in 1 .. Len(s) /\ s[j] = Handoff
        BY <1>1, <3>1, ConcatProperties
      <4> QED BY <4>1 DEF On
    <3> QED BY <3>1, ConcatProperties
  <2> QED BY <2>1, <2>2, ConcatProperties
<1> QED BY <1>1 DEF IndexFirst

-----------------------------------------------------------------------------
(* What InOrder returns. *)

Part(ws, files, k) == IF k \in ws THEN files[k] ELSE <<>>

\* The recursion of InOrder, from its end down to k.
Builds(ws, files, k, g) ==
  /\ DOMAIN g = k .. Waves + 1
  /\ \A j \in k .. Waves + 1 :
       /\ g[j] \in Seq(File)
       /\ g[j] = IF j > Waves THEN <<>> ELSE Part(ws, files, j) \o g[j + 1]
       /\ \A f : On(f, g[j]) <=> \E w \in ws : w >= j /\ On(f, files[w])

LEMMA PartIs ==
  ASSUME NEW ws \in SUBSET Wave, NEW files \in [Wave -> Seq(File)], NEW k \in Wave
  PROVE  /\ Part(ws, files, k) \in Seq(File)
         /\ \A f : On(f, Part(ws, files, k)) <=> k \in ws /\ On(f, files[k])
<1>1. CASE k \in ws
  BY <1>1 DEF Part
<1>2. CASE k \notin ws
  BY <1>2, OnNone DEF Part
<1> QED BY <1>1, <1>2

LEMMA BuildsMore ==
  ASSUME NEW ws \in SUBSET Wave, NEW files \in [Wave -> Seq(File)],
         NEW m \in 2 .. Waves + 1, NEW g, Builds(ws, files, m, g)
  PROVE  \E h : Builds(ws, files, m - 1, h)
<1> DEFINE new == Part(ws, files, m - 1) \o g[m]
           h   == [j \in m - 1 .. Waves + 1 |-> IF j = m - 1 THEN new ELSE g[j]]
<1>0. Waves \in Nat /\ m - 1 \in Wave /\ m \in Nat /\ m \in m .. Waves + 1
  BY WaveAssumption DEF Wave
<1>1. /\ Part(ws, files, m - 1) \in Seq(File)
      /\ \A f : On(f, Part(ws, files, m - 1)) <=> m - 1 \in ws /\ On(f, files[m - 1])
  BY <1>0, PartIs
<1>2. g[m] \in Seq(File) /\ \A f : On(f, g[m]) <=> \E w \in ws : w >= m /\ On(f, files[w])
  BY <1>0 DEF Builds
<1>3. new \in Seq(File)
  BY <1>1, <1>2, ConcatProperties
<1>4. ASSUME NEW f PROVE On(f, new) <=> \E w \in ws : w >= m - 1 /\ On(f, files[w])
  <2>1. On(f, new) <=> (m - 1 \in ws /\ On(f, files[m - 1])) \/ \E w \in ws : w >= m /\ On(f, files[w])
    BY <1>1, <1>2, OnConcat
  <2>2. \A w \in ws : w >= m - 1 <=> w = m - 1 \/ w >= m
    BY <1>0 DEF Wave
  <2> QED BY <2>1, <2>2
<1>5. \A j \in m - 1 .. Waves + 1 : j = m - 1 \/ j \in m .. Waves + 1
  BY <1>0
<1>6. ASSUME NEW j \in m - 1 .. Waves + 1
      PROVE  /\ h[j] \in Seq(File)
             /\ h[j] = IF j > Waves THEN <<>> ELSE Part(ws, files, j) \o h[j + 1]
             /\ \A f : On(f, h[j]) <=> \E w \in ws : w >= j /\ On(f, files[w])
  <2>1. CASE j = m - 1
    <3>0. j + 1 = m /\ j + 1 # m - 1 /\ j + 1 \in m - 1 .. Waves + 1 /\ ~(j > Waves)
      BY <1>0, <2>1
    <3>1. h[j] = new /\ h[j + 1] = g[m] /\ ~(j > Waves)
      <4>1. h[j + 1] = g[j + 1]
        BY <3>0
      <4> QED BY <2>1, <3>0, <4>1
    <3>2. ASSUME NEW f PROVE On(f, h[j]) <=> \E w \in ws : w >= j /\ On(f, files[w])
      <4> HIDE DEF h, new
      <4> QED BY <1>4, <2>1, <3>1
    <3> HIDE DEF h, new
    <3>3. h[j] = Part(ws, files, j) \o h[j + 1]
      BY <2>1, <3>1 DEF new
    <3> QED BY <1>3, <3>1, <3>2, <3>3
  <2>2. CASE j \in m .. Waves + 1
    <3>1. h[j] = g[j]
      BY <1>0, <2>2
    <3>2. j <= Waves => h[j + 1] = g[j + 1]
      BY <1>0, <2>2
    <3>3. /\ g[j] \in Seq(File)
          /\ g[j] = IF j > Waves THEN <<>> ELSE Part(ws, files, j) \o g[j + 1]
          /\ \A f : On(f, g[j]) <=> \E w \in ws : w >= j /\ On(f, files[w])
      BY <2>2 DEF Builds
    <3>4. CASE j > Waves
      BY <3>1, <3>3, <3>4
    <3>5. CASE ~(j > Waves)
      <4>1. j <= Waves
        BY <1>0, <2>2, <3>5
      <4> HIDE DEF h
      <4> QED BY <3>1, <3>2, <3>3, <3>5, <4>1
    <3> QED BY <3>4, <3>5
  <2> QED BY <1>5, <2>1, <2>2
<1>7. DOMAIN h = m - 1 .. Waves + 1
  OBVIOUS
<1> HIDE DEF h
<1>8. Builds(ws, files, m - 1, h)
  BY <1>6, <1>7 DEF Builds
<1> QED BY <1>8

LEMMA BuildsAll ==
  ASSUME NEW ws \in SUBSET Wave, NEW files \in [Wave -> Seq(File)]
  PROVE  \E g : Builds(ws, files, 1, g)
<1> DEFINE S == {k \in 1 .. Waves + 1 : \E g : Builds(ws, files, k, g)}
<1>0. Waves \in Nat
  BY WaveAssumption
<1>1. Waves + 1 \in S
  <2> DEFINE g == [j \in Waves + 1 .. Waves + 1 |-> <<>>]
  <2>1. ASSUME NEW j \in Waves + 1 .. Waves + 1
        PROVE  /\ g[j] \in Seq(File)
               /\ g[j] = IF j > Waves THEN <<>> ELSE Part(ws, files, j) \o g[j + 1]
               /\ \A f : On(f, g[j]) <=> \E w \in ws : w >= j /\ On(f, files[w])
    <3>1. g[j] = <<>> /\ j > Waves /\ \A w \in ws : ~(w >= j)
      BY <1>0 DEF Wave
    <3> HIDE DEF g
    <3> QED BY <3>1, OnNone
  <2>2. DOMAIN g = Waves + 1 .. Waves + 1
    OBVIOUS
  <2> HIDE DEF g
  <2>3. Builds(ws, files, Waves + 1, g)
    BY <2>1, <2>2 DEF Builds
  <2> QED BY <1>0, <2>3
<1>2. S \in SUBSET Nat
  BY <1>0
<1>3. PICK m \in S : \A k \in S : m <= k
  <2> HIDE DEF S
  <2> QED BY <1>1, <1>2, Least
<1>4. m \in 1 .. Waves + 1
  OBVIOUS
<1>5. ASSUME m # 1 PROVE FALSE
  <2>1. m \in 2 .. Waves + 1 /\ m - 1 \in 1 .. Waves + 1 /\ ~(m <= m - 1)
    BY <1>0, <1>4, <1>5
  <2>2. \E h : Builds(ws, files, m - 1, h)
    BY <2>1, BuildsMore
  <2>3. m - 1 \in S
    BY <2>1, <2>2
  <2> QED BY <1>3, <2>1, <2>3
<1> QED BY <1>5

Recursion(ws, files, g) ==
  g = [k \in 1 .. Waves + 1 |->
         IF k > Waves THEN <<>> ELSE (IF k \in ws THEN files[k] ELSE <<>>) \o g[k + 1]]

\* The files of InOrder are those of the waves of the set.
LEMMA InOrderIs ==
  ASSUME NEW ws \in SUBSET Wave, NEW files \in [Wave -> Seq(File)]
  PROVE  /\ InOrder(ws, files) \in Seq(File)
         /\ \A f : On(f, InOrder(ws, files)) <=> \E w \in ws : On(f, files[w])
<1> DEFINE h == CHOOSE h : Recursion(ws, files, h)
<1>0. Waves \in Nat
  BY WaveAssumption
<1>1. PICK g : Builds(ws, files, 1, g)
  BY BuildsAll
<1>2. \E e : Recursion(ws, files, e)
  <2> DEFINE e == [k \in 1 .. Waves + 1 |-> g[k]]
  <2>1. ASSUME NEW k \in 1 .. Waves + 1
        PROVE  e[k] = IF k > Waves THEN <<>> ELSE (IF k \in ws THEN files[k] ELSE <<>>) \o e[k + 1]
    <3>1. e[k] = g[k] /\ (~(k > Waves) => e[k + 1] = g[k + 1])
      BY <1>0
    <3>2. g[k] = IF k > Waves THEN <<>> ELSE Part(ws, files, k) \o g[k + 1]
      BY <1>1 DEF Builds
    <3> HIDE DEF e
    <3>3. CASE k > Waves
      BY <3>1, <3>2, <3>3
    <3>4. CASE ~(k > Waves)
      BY <3>1, <3>2, <3>4 DEF Part
    <3> QED BY <3>3, <3>4
  <2>2. e = [k \in 1 .. Waves + 1 |-> e[k]]
    OBVIOUS
  <2> HIDE DEF e
  <2>3. e = [k \in 1 .. Waves + 1 |->
               IF k > Waves THEN <<>> ELSE (IF k \in ws THEN files[k] ELSE <<>>) \o e[k + 1]]
    BY <2>1, <2>2
  <2> QED BY <2>3 DEF Recursion
<1>3. Recursion(ws, files, h)
  BY <1>2
<1>4. InOrder(ws, files) = h[1]
  BY Zenon DEF InOrder, Recursion
<1> HIDE DEF h
<1>5. ASSUME NEW k \in 1 .. Waves + 1
      PROVE  h[k] = IF k > Waves THEN <<>> ELSE Part(ws, files, k) \o h[k + 1]
  <2>1. h[k] = IF k > Waves THEN <<>> ELSE (IF k \in ws THEN files[k] ELSE <<>>) \o h[k + 1]
    BY <1>3 DEF Recursion
  <2> QED BY <2>1 DEF Part
<1> DEFINE Different == {Waves + 1 - k : k \in {k \in 1 .. Waves + 1 : h[k] # g[k]}}
<1>6. Different = {}
  <2> SUFFICES ASSUME Different # {} PROVE FALSE
    OBVIOUS
  <2>1. Different \in SUBSET Nat
    BY <1>0
  <2>2. PICK d \in Different : \A e \in Different : d <= e
    <3> HIDE DEF Different
    <3> QED BY <2>1, Least
  <2>3. PICK k \in 1 .. Waves + 1 : d = Waves + 1 - k /\ h[k] # g[k]
    OBVIOUS
  <2>4. CASE k > Waves
    <3>1. g[k] = <<>> /\ h[k] = <<>>
      BY <1>1, <1>5, <2>4 DEF Builds
    <3> QED BY <2>3, <3>1
  <2>5. CASE ~(k > Waves)
    <3>1. k + 1 \in 1 .. Waves + 1 /\ ~(d <= Waves + 1 - (k + 1))
      BY <1>0, <2>3, <2>5
    <3>2. h[k + 1] = g[k + 1]
      BY <2>2, <3>1
    <3>3. g[k] = Part(ws, files, k) \o g[k + 1] /\ h[k] = Part(ws, files, k) \o h[k + 1]
      BY <1>1, <1>5, <2>5 DEF Builds
    <3> QED BY <2>3, <3>2, <3>3
  <2> QED BY <2>4, <2>5
<1>7. h[1] = g[1]
  <2>1. 1 \in 1 .. Waves + 1
    BY <1>0
  <2> QED BY <1>6, <2>1
<1>8. g[1] \in Seq(File) /\ \A f : On(f, g[1]) <=> \E w \in ws : w >= 1 /\ On(f, files[w])
  BY <1>0, <1>1 DEF Builds
<1> QED BY <1>4, <1>7, <1>8 DEF Wave

-----------------------------------------------------------------------------
(* The files, and what the plans and the snapshots are made of. *)

LEMMA WaveFacts ==
  /\ Waves \in Nat /\ 1 \in Wave /\ Wave \subseteq 0 .. Waves /\ 0 \in 0 .. Waves /\ 0 \notin Wave
  /\ NoFile \notin Run /\ NoFile \notin [Wave -> Run] /\ NoFile \notin IndexRecord
  /\ Desk \notin Handler
BY WaveAssumption DEF Wave, IndexRecord

LEMMA FileIs ==
  /\ Index \in File /\ Handoff \in File /\ Index # Handoff
  /\ \A w \in Wave : Latest(w) \in File /\ Latest(w) # Index /\ Latest(w) # Handoff
  /\ \A r \in Run : \A w \in 0 .. Waves :
       History(r, w) \in File /\ History(r, w) # Index /\ History(r, w) # Handoff
  /\ \A r, v, w : Latest(v) # History(r, w)
  /\ \A v, w : Latest(v) = Latest(w) => v = w
  /\ \A r, s, v, w : History(r, v) = History(s, w) => r = s /\ v = w
BY DEF File, LatestFile, HistoryFile, Latest, History, Handoff, Index

LEMMA FileCases ==
  ASSUME NEW f \in File
  PROVE  \/ f = Index \/ f = Handoff
         \/ \E w \in Wave : f = Latest(w)
         \/ \E r \in Run : \E w \in 0 .. Waves : f = History(r, w)
BY DEF File, LatestFile, HistoryFile

LEMMA TwoFiles ==
  ASSUME NEW f \in File, NEW g \in File
  PROVE  <<f>> \in Seq(File) /\ <<f, g>> \in Seq(File)
OBVIOUS

LEMMA WaveSequences ==
  ASSUME NEW r \in Run, NEW ws \in SUBSET Wave
  PROVE  /\ InOrder(ws, Copies(r)) \in Seq(File)
         /\ InOrder(ws, Snapshot(r)) \in Seq(File)
         /\ InOrder(ws, Canonical) \in Seq(File)
         /\ \A f : On(f, InOrder(ws, Copies(r))) <=> \E w \in ws : f = Latest(w) \/ f = History(r, w)
         /\ \A f : On(f, InOrder(ws, Snapshot(r))) <=> \E w \in ws : f = Latest(w) \/ f = History(r, w)
         /\ \A f : On(f, InOrder(ws, Canonical)) <=> \E w \in ws : f = Latest(w)
<1>0. \A w \in Wave : w \in 0 .. Waves
  BY WaveFacts
<1>1. /\ Copies(r) \in [Wave -> Seq(File)] /\ Snapshot(r) \in [Wave -> Seq(File)]
      /\ Canonical \in [Wave -> Seq(File)]
  <2>1. ASSUME NEW w \in Wave
        PROVE  /\ <<History(r, w), Latest(w)>> \in Seq(File)
               /\ <<Latest(w), History(r, w)>> \in Seq(File)
               /\ <<Latest(w)>> \in Seq(File)
    <3>1. Latest(w) \in File /\ History(r, w) \in File
      BY <1>0, FileIs
    <3> QED BY <3>1, TwoFiles
  <2> QED BY <2>1 DEF Copies, Snapshot, Canonical
<1>2. ASSUME NEW w \in Wave, NEW f
      PROVE  /\ On(f, Copies(r)[w]) <=> f = Latest(w) \/ f = History(r, w)
             /\ On(f, Snapshot(r)[w]) <=> f = Latest(w) \/ f = History(r, w)
             /\ On(f, Canonical[w]) <=> f = Latest(w)
  <2>1. /\ Copies(r)[w] = <<History(r, w), Latest(w)>>
        /\ Snapshot(r)[w] = <<Latest(w), History(r, w)>>
        /\ Canonical[w] = <<Latest(w)>>
    BY DEF Copies, Snapshot, Canonical
  <2> QED BY <2>1, OnOne, OnTwo
<1>3. ASSUME NEW f
      PROVE  /\ On(f, InOrder(ws, Copies(r))) <=> \E w \in ws : On(f, Copies(r)[w])
             /\ On(f, InOrder(ws, Snapshot(r))) <=> \E w \in ws : On(f, Snapshot(r)[w])
             /\ On(f, InOrder(ws, Canonical)) <=> \E w \in ws : On(f, Canonical[w])
  BY <1>1, InOrderIs
<1>4. /\ InOrder(ws, Copies(r)) \in Seq(File) /\ InOrder(ws, Snapshot(r)) \in Seq(File)
      /\ InOrder(ws, Canonical) \in Seq(File)
  BY <1>1, InOrderIs
<1> QED BY <1>2, <1>3, <1>4

LEMMA WaveSequencesLack ==
  ASSUME NEW r \in Run, NEW ws \in SUBSET Wave
  PROVE  /\ ~On(Index, InOrder(ws, Copies(r))) /\ ~On(Handoff, InOrder(ws, Copies(r)))
         /\ ~On(Index, InOrder(ws, Snapshot(r))) /\ ~On(Handoff, InOrder(ws, Snapshot(r)))
         /\ ~On(Index, InOrder(ws, Canonical)) /\ ~On(Handoff, InOrder(ws, Canonical))
<1>1. \A w \in ws : /\ Latest(w) # Index /\ Latest(w) # Handoff
                    /\ History(r, w) # Index /\ History(r, w) # Handoff
  BY FileIs, WaveFacts
<1> QED BY <1>1, WaveSequences

LEMMA FinalIs ==
  ASSUME NEW r \in Run
  PROVE  /\ FinalPaths(r) \in Seq(File) /\ RefinalPlan(r) \in Seq(File)
         /\ \A f : On(f, FinalPaths(r)) <=> f = Handoff \/ f = History(r, 0)
         /\ \A f : On(f, RefinalPlan(r)) <=> f = Handoff \/ f = History(r, 0)
         /\ \A done : /\ FinalPlan(r, done) \in Seq(File)
                      /\ \A f : On(f, FinalPlan(r, done)) <=>
                           done = Wave /\ (f = Handoff \/ f = History(r, 0))
<1>1. History(r, 0) \in File /\ Handoff \in File
  BY FileIs, WaveFacts
<1>2. FinalPaths(r) \in Seq(File) /\ RefinalPlan(r) \in Seq(File)
  BY <1>1, TwoFiles DEF FinalPaths, RefinalPlan
<1>3. /\ \A f : On(f, FinalPaths(r)) <=> f = Handoff \/ f = History(r, 0)
      /\ \A f : On(f, RefinalPlan(r)) <=> f = Handoff \/ f = History(r, 0)
  BY OnTwo DEF FinalPaths, RefinalPlan
<1>4. ASSUME NEW done
      PROVE  /\ FinalPlan(r, done) \in Seq(File)
             /\ \A f : On(f, FinalPlan(r, done)) <=> done = Wave /\ (f = Handoff \/ f = History(r, 0))
  <2>1. CASE done = Wave
    <3>1. FinalPlan(r, done) = RefinalPlan(r)
      BY <2>1 DEF FinalPlan, RefinalPlan
    <3> QED BY <1>2, <1>3, <2>1, <3>1
  <2>2. CASE done # Wave
    <3>1. FinalPlan(r, done) = <<>>
      BY <2>2 DEF FinalPlan
    <3> QED BY <2>2, <3>1, OnNone
  <2> QED BY <2>1, <2>2
<1> QED BY <1>2, <1>3, <1>4

\* The files a request may write, which are those its snapshot is of.
Touches(q, f) ==
  \/ q.op # "retry" /\ f = Index
  \/ q.op \in {"submit", "refinal", "paste"} /\ f = Handoff
  \/ q.op \in {"submit", "refinal"} /\ f = History(q.run, 0)
  \/ q.op = "materialize" /\ q.state.done = Wave /\ (f = Handoff \/ f = History(q.run, 0))
  \/ q.op # "refinal" /\ \E w \in q.waves : f = Latest(w)
  \/ q.op \in {"submit", "materialize", "retry"} /\ \E w \in q.waves : f = History(q.run, w)

LEMMA PathsAre ==
  ASSUME NEW q, q.run \in Run, q.waves \in SUBSET Wave,
         q.op \in {"submit", "retry", "refinal", "materialize", "paste"}
  PROVE  /\ Paths(q) \in Seq(File)
         /\ \A f : On(f, Paths(q)) <=> Touches(q, f)
         /\ q.op # "paste" => IndexFirst(Paths(q))
<1> DEFINE snap  == InOrder(q.waves, Snapshot(q.run))
           canon == InOrder(q.waves, Canonical)
           final == FinalPaths(q.run)
<1>1. /\ snap \in Seq(File) /\ canon \in Seq(File) /\ final \in Seq(File)
      /\ <<Index>> \in Seq(File) /\ <<Handoff, Index>> \in Seq(File) /\ <<>> \in Seq(File)
  <2>1. snap \in Seq(File) /\ canon \in Seq(File)
    BY WaveSequences
  <2>2. final \in Seq(File)
    BY FinalIs
  <2>3. <<Index>> \in Seq(File) /\ <<Handoff, Index>> \in Seq(File)
    BY FileIs, TwoFiles
  <2> QED BY <2>1, <2>2, <2>3
<1>2. /\ \A f : On(f, snap) <=> \E w \in q.waves : f = Latest(w) \/ f = History(q.run, w)
      /\ \A f : On(f, canon) <=> \E w \in q.waves : f = Latest(w)
      /\ \A f : On(f, final) <=> f = Handoff \/ f = History(q.run, 0)
      /\ \A f : On(f, <<Index>>) <=> f = Index
      /\ \A f : On(f, <<Handoff, Index>>) <=> f = Handoff \/ f = Index
      /\ \A f : ~On(f, <<>>)
  <2>1. /\ \A f : On(f, snap) <=> \E w \in q.waves : f = Latest(w) \/ f = History(q.run, w)
        /\ \A f : On(f, canon) <=> \E w \in q.waves : f = Latest(w)
    BY WaveSequences
  <2>2. \A f : On(f, final) <=> f = Handoff \/ f = History(q.run, 0)
    BY FinalIs
  <2>3. /\ \A f : On(f, <<Index>>) <=> f = Index
        /\ \A f : On(f, <<Handoff, Index>>) <=> f = Handoff \/ f = Index
        /\ \A f : ~On(f, <<>>)
    BY OnOne, OnTwo, OnNone
  <2> QED BY <2>1, <2>2, <2>3
<1>3. /\ ~On(Index, snap) /\ ~On(Handoff, snap) /\ ~On(Index, final)
      /\ ~On(Handoff, <<Index>>) /\ Index # Handoff
  <2>1. ~On(Index, snap) /\ ~On(Handoff, snap)
    BY WaveSequencesLack
  <2>2. Index # Handoff /\ Index # History(q.run, 0)
    BY FileIs, WaveFacts
  <2> QED BY <1>2, <2>1, <2>2
<1>4. CASE q.op = "submit"
  <2>1. Paths(q) = (snap \o <<Index>>) \o final
    BY <1>4 DEF Paths
  <2> HIDE DEF snap, final
  <2>2. snap \o <<Index>> \in Seq(File) /\ Paths(q) \in Seq(File)
    BY <1>1, <2>1, ConcatProperties
  <2>3. \A f : On(f, snap \o <<Index>>) <=> On(f, snap) \/ f = Index
    BY <1>1, <1>2, OnConcat
  <2>4. \A f : On(f, Paths(q)) <=> On(f, snap \o <<Index>>) \/ On(f, final)
    <3>1. \A f : On(f, (snap \o <<Index>>) \o final) <=> On(f, snap \o <<Index>>) \/ On(f, final)
      BY <1>1, <2>2, OnConcat
    <3> QED BY <2>1, <3>1
  <2>5. IndexFirst(Paths(q))
    BY <1>1, <1>3, <2>1, <2>2, <2>3, FirstOf
  <2>6. ASSUME NEW f PROVE On(f, Paths(q)) <=> Touches(q, f)
    BY <1>2, <1>4, <2>3, <2>4 DEF Touches
  <2> QED BY <2>2, <2>5, <2>6
<1>5. CASE q.op = "materialize"
  <2> DEFINE last == IF q.state.done = Wave THEN final ELSE <<>>
  <2>1. last \in Seq(File) /\ \A f : On(f, last) <=> q.state.done = Wave /\ On(f, final)
    BY <1>1, <1>2
  <2>2. Paths(q) = (<<Index>> \o snap) \o last
    BY <1>5 DEF Paths
  <2>3. (<<Index>> \o snap) \o last = <<Index>> \o (snap \o last)
    <3> HIDE DEF snap, last
    <3> QED BY <1>1, <2>1, ConcatAssociative
  <2> HIDE DEF snap, final, last
  <2>4. snap \o last \in Seq(File) /\ Paths(q) \in Seq(File)
    BY <1>1, <2>1, <2>2, <2>3, ConcatProperties
  <2>5. \A f : On(f, snap \o last) <=> On(f, snap) \/ On(f, last)
    BY <1>1, <2>1, OnConcat
  <2>6. \A f : On(f, Paths(q)) <=> f = Index \/ On(f, snap \o last)
    <3>1. \A f : On(f, <<Index>> \o (snap \o last)) <=> On(f, <<Index>>) \/ On(f, snap \o last)
      BY <1>1, <2>4, OnConcat
    <3> QED BY <1>2, <2>2, <2>3, <3>1
  <2>7. IndexFirst(Paths(q))
    <3>1. ~On(Index, snap \o last)
      BY <1>3, <2>1, <2>5
    <3> QED BY <1>1, <1>3, <2>2, <2>3, <2>4, <3>1, FirstOf
  <2>8. ASSUME NEW f PROVE On(f, Paths(q)) <=> Touches(q, f)
    BY <1>2, <1>5, <2>1, <2>5, <2>6 DEF Touches
  <2> QED BY <2>4, <2>7, <2>8
<1>6. CASE q.op = "retry"
  <2>1. Paths(q) = snap
    BY <1>6 DEF Paths
  <2> HIDE DEF snap
  <2>2. IndexFirst(Paths(q))
    BY <1>3, <2>1 DEF IndexFirst, On
  <2>3. ASSUME NEW f PROVE On(f, Paths(q)) <=> Touches(q, f)
    BY <1>2, <1>6, <2>1 DEF Touches
  <2> QED BY <1>1, <2>1, <2>2, <2>3
<1>7. CASE q.op = "refinal"
  <2>1. Paths(q) = <<Index>> \o final
    BY <1>7 DEF Paths
  <2> HIDE DEF final
  <2>2. Paths(q) \in Seq(File)
    BY <1>1, <2>1, ConcatProperties
  <2>3. \A f : On(f, Paths(q)) <=> f = Index \/ On(f, final)
    <3>1. \A f : On(f, <<Index>> \o final) <=> On(f, <<Index>>) \/ On(f, final)
      BY <1>1, OnConcat
    <3> QED BY <1>2, <2>1, <3>1
  <2>4. IndexFirst(Paths(q))
    BY <1>1, <1>3, <2>1, FirstOf
  <2>5. ASSUME NEW f PROVE On(f, Paths(q)) <=> Touches(q, f)
    BY <1>2, <1>7, <2>3 DEF Touches
  <2> QED BY <2>2, <2>4, <2>5
<1>8. CASE q.op = "paste"
  <2>1. Paths(q) = canon \o <<Handoff, Index>>
    BY <1>8 DEF Paths
  <2> HIDE DEF canon
  <2>2. Paths(q) \in Seq(File)
    BY <1>1, <2>1, ConcatProperties
  <2>3. \A f : On(f, Paths(q)) <=> On(f, canon) \/ f = Handoff \/ f = Index
    <3>1. \A f : On(f, canon \o <<Handoff, Index>>) <=> On(f, canon) \/ On(f, <<Handoff, Index>>)
      BY <1>1, OnConcat
    <3> QED BY <1>2, <2>1, <3>1
  <2>4. ASSUME NEW f PROVE On(f, Paths(q)) <=> Touches(q, f)
    BY <1>2, <1>8, <2>3 DEF Touches
  <2> QED BY <1>8, <2>2, <2>4
<1> QED BY <1>4, <1>5, <1>6, <1>7, <1>8

\* The plan of a delivery.
LEMMA SubmitPlanIs ==
  ASSUME NEW r \in Run, NEW w \in Wave, NEW done
  PROVE  /\ SubmitPlan(r, w, done) \in Seq(File)
         /\ IndexLast(SubmitPlan(r, w, done))
         /\ \A f : On(f, SubmitPlan(r, w, done)) <=>
              \/ f = History(r, w) \/ f = Latest(w) \/ f = Index
              \/ done = Wave /\ (f = Handoff \/ f = History(r, 0))
<1> DEFINE two   == <<History(r, w), Latest(w)>>
           final == FinalPlan(r, done)
           most  == two \o final
<1>1. two \in Seq(File) /\ final \in Seq(File) /\ <<Index>> \in Seq(File)
  <2>1. History(r, w) \in File /\ Latest(w) \in File /\ Index \in File
    BY FileIs, WaveFacts
  <2> QED BY <2>1, TwoFiles, FinalIs
<1>2. /\ \A f : On(f, two) <=> f = History(r, w) \/ f = Latest(w)
      /\ \A f : On(f, final) <=> done = Wave /\ (f = Handoff \/ f = History(r, 0))
  BY OnTwo, FinalIs
<1>3. SubmitPlan(r, w, done) = most \o <<Index>>
  BY DEF SubmitPlan
<1> HIDE DEF two, final
<1>4. most \in Seq(File) /\ \A f : On(f, most) <=> On(f, two) \/ On(f, final)
  BY <1>1, OnConcat, ConcatProperties
<1> HIDE DEF most
<1>5. SubmitPlan(r, w, done) \in Seq(File)
  BY <1>1, <1>3, <1>4, ConcatProperties
<1>6. \A f : On(f, SubmitPlan(r, w, done)) <=> On(f, most) \/ f = Index
  <2>1. \A f : On(f, most \o <<Index>>) <=> On(f, most) \/ On(f, <<Index>>)
    BY <1>1, <1>4, OnConcat
  <2> QED BY <1>3, <2>1, OnOne
<1>7. ~On(Index, most)
  <2>1. Index # History(r, w) /\ Index # Latest(w) /\ Index # Handoff /\ Index # History(r, 0)
    BY FileIs, WaveFacts
  <2> QED BY <1>2, <1>4, <2>1
<1>8. IndexLast(SubmitPlan(r, w, done))
  BY <1>3, <1>4, <1>7, LastOf
<1>9. ASSUME NEW f
      PROVE  On(f, SubmitPlan(r, w, done)) <=>
               \/ f = History(r, w) \/ f = Latest(w) \/ f = Index
               \/ done = Wave /\ (f = Handoff \/ f = History(r, 0))
  BY <1>2, <1>4, <1>6
<1> QED BY <1>5, <1>8, <1>9

LEMMA MaterializePlanIs ==
  ASSUME NEW r \in Run, NEW ws \in SUBSET Wave, NEW done
  PROVE  /\ MaterializePlan(r, ws, done) \in Seq(File)
         /\ IndexLast(MaterializePlan(r, ws, done))
         /\ \A f : On(f, MaterializePlan(r, ws, done)) <=>
              \/ f = Index \/ \E w \in ws : f = History(r, w) \/ f = Latest(w)
              \/ done = Wave /\ (f = Handoff \/ f = History(r, 0))
<1> DEFINE two   == InOrder(ws, Copies(r))
           final == FinalPlan(r, done)
           most  == two \o final
<1>1. two \in Seq(File) /\ final \in Seq(File) /\ <<Index>> \in Seq(File)
  BY FileIs, TwoFiles, FinalIs, WaveSequences
<1>2. /\ \A f : On(f, two) <=> \E w \in ws : f = Latest(w) \/ f = History(r, w)
      /\ \A f : On(f, final) <=> done = Wave /\ (f = Handoff \/ f = History(r, 0))
      /\ ~On(Index, two)
  BY WaveSequences, WaveSequencesLack, FinalIs
<1>3. MaterializePlan(r, ws, done) = most \o <<Index>>
  BY DEF MaterializePlan
<1> HIDE DEF two, final
<1>4. most \in Seq(File) /\ \A f : On(f, most) <=> On(f, two) \/ On(f, final)
  BY <1>1, OnConcat, ConcatProperties
<1> HIDE DEF most
<1>5. MaterializePlan(r, ws, done) \in Seq(File)
  BY <1>1, <1>3, <1>4, ConcatProperties
<1>6. \A f : On(f, MaterializePlan(r, ws, done)) <=> On(f, most) \/ f = Index
  <2>1. \A f : On(f, most \o <<Index>>) <=> On(f, most) \/ On(f, <<Index>>)
    BY <1>1, <1>4, OnConcat
  <2> QED BY <1>3, <2>1, OnOne
<1>7. ~On(Index, most)
  <2>1. Index # Handoff /\ Index # History(r, 0)
    BY FileIs, WaveFacts
  <2> QED BY <1>2, <1>4, <2>1
<1>8. IndexLast(MaterializePlan(r, ws, done))
  BY <1>3, <1>4, <1>7, LastOf
<1>9. ASSUME NEW f
      PROVE  On(f, MaterializePlan(r, ws, done)) <=>
              \/ f = Index \/ \E w \in ws : f = History(r, w) \/ f = Latest(w)
              \/ done = Wave /\ (f = Handoff \/ f = History(r, 0))
  BY <1>2, <1>4, <1>6
<1> QED BY <1>5, <1>8, <1>9

LEMMA RepairPlanIs ==
  ASSUME NEW r \in Run, NEW w \in Wave
  PROVE  /\ RepairPlan(r, w) \in Seq(File)
         /\ IndexLast(RepairPlan(r, w)) /\ ~On(Index, RepairPlan(r, w))
         /\ \A f : On(f, RepairPlan(r, w)) => f = History(r, w) \/ f = Latest(w)
<1> DEFINE first  == IF disk[Latest(w)] # r THEN <<Latest(w)>> ELSE <<>>
           second == IF disk[History(r, w)] # r THEN <<History(r, w)>> ELSE <<>>
<1>1. History(r, w) \in File /\ Latest(w) \in File /\ Index # History(r, w) /\ Index # Latest(w)
  BY FileIs, WaveFacts
<1>2. first \in Seq(File) /\ second \in Seq(File)
  BY <1>1, TwoFiles
<1>3. \A f : (On(f, first) => f = Latest(w)) /\ (On(f, second) => f = History(r, w))
  BY OnNone, OnOne
<1>4. RepairPlan(r, w) = first \o second
  BY DEF RepairPlan
<1> HIDE DEF first, second
<1>5. RepairPlan(r, w) \in Seq(File) /\ \A f : On(f, RepairPlan(r, w)) <=> On(f, first) \/ On(f, second)
  BY <1>2, <1>4, OnConcat, ConcatProperties
<1>6. ~On(Index, RepairPlan(r, w))
  BY <1>1, <1>3, <1>5
<1> QED BY <1>3, <1>5, <1>6, LastOf

LEMMA PastePlanIs ==
  ASSUME NEW ws \in SUBSET Wave, Run # {}
  PROVE  /\ PastePlan(ws) \in Seq(File)
         /\ IndexLast(PastePlan(ws))
         /\ \A f : On(f, PastePlan(ws)) <=> \E w \in ws : f = Latest(w)
<1>1. PICK r \in Run : TRUE
  OBVIOUS
<1> QED BY WaveSequences, WaveSequencesLack, LastOf DEF PastePlan

\* What a paste writes after the waves.
LEMMA ComposedIs ==
  ASSUME NEW s, s = <<Index>> \/ s = <<Handoff>> \o <<Index>>
  PROVE  /\ s \in Seq(File) /\ IndexLast(s) /\ s # <<>> /\ On(Index, s)
         /\ \A f : On(f, s) => f = Index \/ f = Handoff
         /\ On(Handoff, s) <=> s = <<Handoff>> \o <<Index>>
<1>1. /\ <<Index>> \in Seq(File) /\ <<Handoff>> \in Seq(File) /\ Index # Handoff
      /\ <<>> \in Seq(File)
  BY FileIs, TwoFiles
<1>2. /\ \A f : On(f, <<Index>>) <=> f = Index
      /\ \A f : On(f, <<Handoff>>) <=> f = Handoff
  BY OnOne
<1>3. /\ IndexLast(<<Handoff>> \o <<Index>>) /\ <<Handoff>> \o <<Index>> \in Seq(File)
      /\ \A f : On(f, <<Handoff>> \o <<Index>>) <=> f = Handoff \/ f = Index
  BY <1>1, <1>2, LastOf, OnConcat, ConcatProperties
<1>4. IndexLast(<<Index>>)
  BY DEF IndexLast
<1>5. CASE s = <<Index>>
  BY <1>1, <1>2, <1>3, <1>4, <1>5, OnNone
<1>6. CASE s = <<Handoff>> \o <<Index>>
  BY <1>1, <1>2, <1>3, <1>6, OnNone
<1> QED BY <1>5, <1>6

-----------------------------------------------------------------------------
(* What a step does to the requests. *)

RequestFields == {"op", "run", "waves", "pc", "state", "plan", "before"}

\* The request of one actor changes.
Becomes(a, op, r, ws, pc, plan, before) ==
  /\ DOMAIN req' = Actor
  /\ \A b \in Actor : b # a => req'[b] = req[b]
  /\ DOMAIN req'[a] = RequestFields
  /\ req'[a].op = op /\ req'[a].run = r /\ req'[a].waves = ws /\ req'[a].pc = pc
  /\ req'[a].plan = plan /\ req'[a].before = before

LEMMA EmptyIsDisk == IsDisk(Empty)
<1>1. DOMAIN Empty = File /\ \A f \in File : Empty[f] = NoFile
  BY DEF Empty
<1>2. \A f \in LatestFile \cup HistoryFile : f \in File
  BY DEF File
<1> QED BY <1>1, <1>2, FileIs DEF IsDisk

LEMMA FreshIs == Fresh \in RunState /\ Fresh.done = {} /\ Fresh.pending = FALSE
BY DEF Fresh, RunState

LEMMA RequestIs ==
  ASSUME TypeOK, NEW a \in Actor
  PROVE  /\ DOMAIN req = Actor /\ DOMAIN req[a] = RequestFields
         /\ req[a].op \in Op /\ req[a].run \in Run \cup {NoFile} /\ req[a].waves \subseteq Wave
         /\ req[a].pc \in Pc /\ req[a].state \in RunState /\ req[a].plan \in Seq(File)
         /\ IsDisk(req[a].before)
         /\ req[a].state.done \subseteq Wave /\ req[a].state.pending \in BOOLEAN
BY DEF TypeOK, IsRequest, RequestFields, RunState

LEMMA BecomesType ==
  ASSUME TypeOK, NEW a \in Actor, NEW op \in Op, NEW r \in Run \cup {NoFile}, NEW ws \in SUBSET Wave,
         NEW pc \in Pc, NEW plan \in Seq(File), NEW before, IsDisk(before),
         Becomes(a, op, r, ws, pc, plan, before), req'[a].state \in RunState
  PROVE  DOMAIN req' = Actor /\ \A b \in Actor : IsRequest(req'[b])
<1>1. IsRequest(req'[a])
  BY DEF Becomes, IsRequest, RequestFields
<1>2. ASSUME NEW b \in Actor, b # a PROVE IsRequest(req'[b])
  <2>1. req'[b] = req[b]
    BY <1>2 DEF Becomes
  <2> QED BY <2>1 DEF TypeOK
<1> QED BY <1>1, <1>2 DEF Becomes

LEMMA TakeIs ==
  ASSUME TypeOK, NEW a \in Actor, NEW op, NEW r, NEW ws, NEW pc, NEW state, NEW plan,
         Take(a, op, r, ws, pc, state, plan)
  PROVE  Becomes(a, op, r, ws, pc, plan, Empty) /\ req'[a].state = state
BY RequestIs DEF Take, Becomes, RequestFields

LEMMA GotoIs ==
  ASSUME TypeOK, NEW a \in Actor, NEW pc, Goto(a, pc)
  PROVE  /\ Becomes(a, req[a].op, req[a].run, req[a].waves, pc, req[a].plan, req[a].before)
         /\ req'[a].state = req[a].state
BY RequestIs DEF Goto, Becomes, RequestFields

LEMMA FinishIs ==
  ASSUME TypeOK, NEW a \in Actor, Finish(a)
  PROVE  Becomes(a, "none", NoFile, {}, "idle", <<>>, Empty) /\ req'[a].state = Fresh
BY RequestIs DEF Finish, Becomes, RequestFields, Idle

LEMMA ReleasedIs ==
  ASSUME TypeOK, NEW a \in Actor, NEW pc, NEW pending \in BOOLEAN, Released(a, pc, pending)
  PROVE  /\ Becomes(a, req[a].op, req[a].run, req[a].waves, pc, req[a].plan, Empty)
         /\ req'[a].state \in RunState
         /\ req'[a].state.done = req[a].state.done /\ req'[a].state.pending = pending
<1> PICK s : s = [req[a].state EXCEPT !.pending = pending]
  OBVIOUS
<1>1. s \in RunState /\ s.done = req[a].state.done /\ s.pending = pending
  BY RequestIs DEF RunState
<1>2. req' = [req EXCEPT ![a] = [req[a] EXCEPT !.pc = pc, !.state = s, !.before = Empty]]
  BY DEF Released
<1> QED BY <1>1, <1>2, RequestIs DEF Becomes, RequestFields

LEMMA UndoIs ==
  ASSUME TypeOK, NEW a \in Actor, Undo(a)
  PROVE  /\ Becomes(a, req[a].op, req[a].run, req[a].waves, "undo", Paths(req[a]), req[a].before)
         /\ req'[a].state = req[a].state
BY RequestIs DEF Undo, Becomes, RequestFields

\* An actor whose request is over.
LEMMA IdleSound ==
  ASSUME NEW b \in Actor, req'[b].pc = "idle"
  PROVE  Sound(b)'
BY DEF Sound, Shaped, Holds, Announced, Planned, Todo, Wrote, Snapped, Showing, Undone, Busy, InRoot

\* What another actor's step leaves to an actor.
Undisturbed(b) ==
  /\ req'[b] = req[b]
  /\ Busy(b) /\ b \in Handler =>
       /\ saved'[req[b].run].done = saved[req[b].run].done
       /\ saved'[req[b].run].pending = saved[req[b].run].pending
  /\ req[b].pc = "clear" => req[b].run \notin unannounced'
  /\ InRoot(b) => disk' = disk /\ pasted' = pasted /\ \A r \in Run : saved'[r].done = saved[r].done
  /\ residue' = 0 => residue = 0
  /\ cuts' = 0 => cuts = 0
  /\ scanned' = scanned

LEMMA UndisturbedSound ==
  ASSUME TypeOK, NEW b \in Actor, Sound(b), Undisturbed(b)
  PROVE  Sound(b)'
<1>1. Shaped(b)' /\ Planned(b)' /\ Todo(b)'
  BY DEF Sound, Shaped, Planned, Todo, Undisturbed, Busy
<1>2. Holds(b)'
  BY DEF Sound, Holds, Undisturbed, Busy
<1>3. Announced(b)'
  BY DEF Sound, Announced, Undisturbed
<1>4. Wrote(b)'
  BY DEF Sound, Wrote, Undisturbed, InRoot, AsFound
<1>5. Undone(b)'
  BY DEF Sound, Undone, Undisturbed, InRoot, AsFound
<1>6. Snapped(b)'
  <2> SUFFICES ASSUME InRoot(b)' PROVE Snapped(b)'
    BY DEF Snapped
  <2>1. /\ InRoot(b) /\ req'[b] = req[b] /\ disk' = disk /\ pasted' = pasted /\ scanned' = scanned
        /\ \A r \in Run : saved'[r].done = saved[r].done
        /\ residue' = 0 => residue = 0
        /\ cuts' = 0 => cuts = 0
    BY DEF Undisturbed, InRoot
  <2>2. /\ KeepsHistory(req[b].before)
        /\ req[b].before[Handoff] # NoFile => disk[Handoff] # NoFile
        /\ residue = 0 => HasHandoff(req[b].before)
        /\ residue = 0 /\ cuts = 0 => Shown(req[b].before)
    BY <2>1 DEF Sound, Snapped
  <2>3. KeepsHistory(req[b].before)'
    BY <2>1, <2>2 DEF KeepsHistory
  <2>4. HasHandoff(req[b].before) => HasHandoff(req[b].before)'
    BY <2>1 DEF HasHandoff, Complete
  <2>5. Shown(req[b].before) => Shown(req[b].before)'
    <3>1. \A r \in Run : \A w : Accepted(r, w) => Accepted(r, w)'
      BY <2>1 DEF Accepted
    <3>2. ASSUME NEW r, NEW w, Accepted(r, w) PROVE r \in Run => Accepted(r, w)'
      BY <3>1, <3>2
    <3>3. IsDisk(req[b].before)
      BY RequestIs
    <3>4. ASSUME NEW w \in Wave
          PROVE  /\ req[b].before[Latest(w)] # NoFile => req[b].before[Latest(w)] \in Run
                 /\ req[b].before[Handoff] # NoFile => req[b].before[Handoff][w] \in Run
      BY <3>3 DEF IsDisk, LatestFile
    <3> QED BY <2>1, <3>1, <3>4 DEF Shown
  <2> QED BY <2>1, <2>2, <2>3, <2>4, <2>5 DEF Snapped
<1>7. Showing(b)'
  <2> SUFFICES ASSUME (req[b].pc = "write" /\ residue = 0 /\ cuts = 0)' PROVE Showing(b)'
    BY DEF Showing
  <2>1. /\ req[b].pc = "write" /\ req'[b] = req[b] /\ disk' = disk /\ pasted' = pasted
        /\ scanned' = scanned
        /\ \A r \in Run : saved'[r].done = saved[r].done
        /\ residue = 0 /\ cuts = 0
    BY DEF Undisturbed, InRoot
  <2>2. \A r \in Run : \A w : (Soon(b, r, w) => Soon(b, r, w)') /\ (Saving(b, r, w) => Saving(b, r, w)')
    BY <2>1 DEF Soon, Saving, Accepted
  <2>3. ASSUME NEW w \in Wave
        PROVE  /\ disk[Latest(w)] # NoFile => disk[Latest(w)] \in Run
               /\ disk[Handoff] # NoFile => disk[Handoff][w] \in Run
    BY DEF TypeOK, IsDisk, LatestFile
  <2> QED BY <2>1, <2>2, <2>3 DEF Sound, Showing
<1> QED BY <1>1, <1>2, <1>3, <1>4, <1>5, <1>6, <1>7 DEF Sound

\* The locks, when nobody takes one.
LEMMA LockedKept ==
  ASSUME Locked,
         \A b \in Actor : \/ req'[b].pc = "idle"
                          \/ Busy(b) /\ req'[b].run = req[b].run /\ (InRoot(b)' => InRoot(b))
  PROVE  Locked'
<1>1. \A b \in Handler : b \in Actor
  BY DEF Actor
<1> QED BY <1>1 DEF Locked, Busy, InRoot

LEMMA LockedKeptBy ==
  ASSUME TypeOK, Locked, NEW a \in Actor, Busy(a), NEW op, NEW ws, NEW pc, NEW plan, NEW before,
         NEW r, pc = "idle" \/ r = req[a].run,
         Becomes(a, op, r, ws, pc, plan, before), pc \in {"write", "undo"} => InRoot(a)
  PROVE  Locked'
<1>1. ASSUME NEW b \in Actor
      PROVE  \/ req'[b].pc = "idle"
             \/ Busy(b) /\ req'[b].run = req[b].run /\ (InRoot(b)' => InRoot(b))
  <2>1. CASE b = a
    BY <2>1 DEF Becomes, InRoot
  <2>2. CASE b # a
    <3>1. req'[b] = req[b]
      BY <2>2 DEF Becomes
    <3> QED BY <3>1 DEF InRoot, Busy
  <2> QED BY <2>1, <2>2
<1> QED BY <1>1, LockedKept

\* A handler's run and the audit root are its own.
LEMMA OwnRun ==
  ASSUME Locked, NEW a \in Handler, Busy(a), NEW b \in Handler, Busy(b), b # a
  PROVE  req[b].run # req[a].run
BY DEF Locked

LEMMA OwnRoot ==
  ASSUME Locked, NEW a \in Actor, InRoot(a), NEW b \in Actor, b # a
  PROVE  ~InRoot(b)
BY DEF Locked

\* A step that writes no file, accepts nothing and leaves no transaction in the root.
Quietly ==
  /\ disk' = disk /\ pasted' = pasted /\ scanned' = scanned
  /\ \A r \in Run : saved'[r].done = saved[r].done
  /\ residue' = 0 => residue = 0
  /\ RootFree' /\ residue' = 0 /\ cuts' = 0 => RootFree /\ residue = 0 /\ cuts = 0

LEMMA QuietlyGood ==
  ASSUME TypeOK, Good, Quietly
  PROVE  VisibleIsAccepted' /\ CompleteHasHandoff' /\ AcceptedKeepsHistory'
<1>1. ASSUME NEW w \in Wave
      PROVE  /\ disk[Latest(w)] # NoFile => disk[Latest(w)] \in Run
             /\ disk[Handoff] # NoFile => disk[Handoff][w] \in Run
  BY DEF TypeOK, IsDisk, LatestFile
<1>2. \A r \in Run : \A w : Accepted(r, w) => Accepted(r, w)'
  BY DEF Quietly, Accepted
<1>3. VisibleIsAccepted'
  BY <1>1, <1>2 DEF Good, VisibleIsAccepted, Quietly
<1>4. CompleteHasHandoff'
  BY DEF Good, CompleteHasHandoff, Quietly, Complete
<1>5. AcceptedKeepsHistory'
  BY DEF Good, AcceptedKeepsHistory, Quietly
<1> QED BY <1>3, <1>4, <1>5

\* The marks and the closed dispatches, when they stay.
LEMMA MarksKept ==
  ASSUME Good, unannounced' \subseteq unannounced, unannounced \subseteq Run,
         \A r \in Run : saved'[r].pending = saved[r].pending
  PROVE  UnannouncedIsMarked'
BY DEF Good, UnannouncedIsMarked

LEMMA ClosedKept ==
  ASSUME TypeOK, TypeOK', Good,
         \A r \in Run : <<r, "ingest">> \in closed' => <<r, "ingest">> \in closed \/ saved'[r].done = Wave,
         \A r \in Run : saved[r].done \subseteq saved'[r].done
  PROVE  ClosedIsAccepted'
<1>1. ASSUME NEW r \in Run, <<r, "ingest">> \in closed' PROVE saved'[r].done = Wave
  <2>1. saved'[r].done \subseteq Wave
    BY DEF TypeOK, RunState
  <2> QED BY <1>1, <2>1 DEF Good, ClosedIsAccepted
<1> QED BY <1>1 DEF ClosedIsAccepted

\* Whoever is not in the root leaves the others undisturbed when it changes no file.
LEMMA RootFreeKept ==
  ASSUME TypeOK, NEW a \in Actor, NEW op, NEW r, NEW ws, NEW pc, NEW plan, NEW before,
         Becomes(a, op, r, ws, pc, plan, before), InRoot(a) => pc \in {"write", "undo"}
  PROVE  RootFree' => RootFree
<1>1. ASSUME NEW b \in Actor, RootFree' PROVE ~InRoot(b)
  <2>1. ~InRoot(b)'
    BY <1>1 DEF RootFree
  <2>2. CASE b = a
    BY <2>1, <2>2 DEF Becomes, InRoot
  <2>3. CASE b # a
    <3>1. req'[b] = req[b]
      BY <2>3 DEF Becomes
    <3> QED BY <2>1, <3>1 DEF InRoot
  <2> QED BY <2>2, <2>3
<1> QED BY <1>1 DEF RootFree

-----------------------------------------------------------------------------
(* A request is admitted. *)

\* What an admitted request must satisfy, and one that goes straight to announce.
LEMMA TakePreserves ==
  ASSUME IInv, NEW a \in Actor, NEW op \in Op \ {"none"}, NEW r \in Run, NEW ws \in SUBSET Wave,
         NEW pc \in {"admitted", "announce"}, NEW state \in RunState, NEW plan \in Seq(File),
         Take(a, op, r, ws, pc, state, plan),
         a = Desk <=> op = "paste",
         a \in Handler => RunFree(r),
         Holds(a)', Planned(a)', Todo(a)'
  PROVE  IInv'
<1>1. Becomes(a, op, r, ws, pc, plan, Empty) /\ req'[a].state = state
  BY TakeIs DEF IInv
<1>2. /\ req[a].pc = "idle" /\ asked' = asked + 1 /\ asked < MaxAsked
      /\ UNCHANGED <<disk, saved, unannounced, pasted, closed, residue, cuts, scan, scanned>>
  BY DEF Take
<1>3. TypeOK'
  <2>1. DOMAIN req' = Actor /\ \A b \in Actor : IsRequest(req'[b])
    BY <1>1, BecomesType, EmptyIsDisk DEF IInv, Pc
  <2>2. asked' \in 0 .. MaxAsked
    BY <1>2, WaveAssumption DEF IInv, TypeOK
  <2> QED BY <1>2, <2>1, <2>2 DEF IInv, TypeOK
<1>4. Locked'
  <2>1. ASSUME NEW b \in Handler, NEW c \in Handler, b # c, Busy(b)', Busy(c)'
        PROVE  req'[b].run # req'[c].run
    <3>0. b \in Actor /\ c \in Actor
      BY DEF Actor
    <3>1. CASE b # a /\ c # a
      <4>1. req'[b] = req[b] /\ req'[c] = req[c]
        BY <1>1, <3>0, <3>1 DEF Becomes
      <4> QED BY <2>1, <4>1, OwnRun DEF IInv, Busy
    <3>2. CASE b = a
      <4>1. req'[c] = req[c] /\ req'[b].run = r
        BY <1>1, <2>1, <3>0, <3>2 DEF Becomes
      <4> QED BY <2>1, <3>2, <4>1 DEF RunFree, Busy
    <3>3. CASE c = a
      <4>1. req'[b] = req[b] /\ req'[c].run = r
        BY <1>1, <2>1, <3>0, <3>3 DEF Becomes
      <4> QED BY <2>1, <3>3, <4>1 DEF RunFree, Busy
    <3> QED BY <3>1, <3>2, <3>3
  <2>2. ASSUME NEW b \in Actor, InRoot(b)' PROVE InRoot(b)
    <3>1. b # a
      BY <1>1, <2>2 DEF Becomes, InRoot
    <3> QED BY <1>1, <2>2, <3>1 DEF Becomes, InRoot
  <2> QED BY <2>1, <2>2 DEF Locked, IInv
<1>5. ASSUME NEW b \in Actor PROVE Sound(b)'
  <2>1. CASE b # a
    <3>1. Undisturbed(b)
      BY <1>1, <1>2, <2>1 DEF Becomes, Undisturbed, IInv, Sound, Announced
    <3> QED BY <3>1, UndisturbedSound DEF IInv
  <2>2. CASE b = a
    <3>1. /\ req'[a].pc = pc /\ req'[a].op = op /\ req'[a].run = r
      BY <1>1 DEF Becomes
    <3>2. op \in {"submit", "retry", "refinal", "materialize", "paste"}
      BY DEF Op
    <3>3. Shaped(a)'
      BY <3>1, <3>2 DEF Shaped
    <3>4. Announced(a)' /\ Wrote(a)' /\ Snapped(a)' /\ Showing(a)' /\ Undone(a)'
      BY <3>1 DEF Announced, Wrote, Snapped, Showing, Undone, InRoot
    <3> QED BY <2>2, <3>3, <3>4 DEF Sound
  <2> QED BY <2>1, <2>2
<1>6. Quietly
  <2>1. RootFree' => RootFree
    BY <1>1, <1>2, RootFreeKept DEF IInv, InRoot
  <2> QED BY <1>2, <2>1 DEF Quietly
<1>7. Good'
  <2>1. VisibleIsAccepted' /\ CompleteHasHandoff' /\ AcceptedKeepsHistory'
    BY <1>6, QuietlyGood DEF IInv
  <2>2. UnannouncedIsMarked' /\ ClosedIsAccepted'
    BY <1>2 DEF IInv, Good, UnannouncedIsMarked, ClosedIsAccepted
  <2> QED BY <2>1, <2>2 DEF Good
<1> QED BY <1>3, <1>4, <1>5, <1>7 DEF IInv

\* The plan of a request that is admitted, given its fields.
LEMMA PlannedBy ==
  ASSUME NEW a \in Actor, NEW op \in {"submit", "retry", "materialize", "paste"},
         NEW r \in Run, NEW ws \in SUBSET Wave, NEW plan \in Seq(File),
         NEW pc, NEW before,
         Becomes(a, op, r, ws, pc, plan, before),
         IndexLast(plan),
         \A f : On(f, plan) => Touches(req'[a], f),
         On(Handoff, plan) => req'[a].state.done = Wave,
         On(Index, plan) => op # "retry" /\ req'[a].state.done # {}
  PROVE  Planned(a)'
<1>1. /\ req'[a].op = op /\ req'[a].run = r /\ req'[a].waves = ws /\ req'[a].plan = plan
  BY DEF Becomes
<1> PICK q : q = req'[a]
  OBVIOUS
<1>2. \A f : On(f, Paths(q)) <=> Touches(q, f)
  BY <1>1, PathsAre
<1> QED BY <1>1, <1>2 DEF Planned

LEMMA SubmitPreserves ==
  ASSUME IInv, NEW a \in Handler, NEW r \in Run, NEW w \in Wave, Submit(a, r, w)
  PROVE  IInv'
<1> DEFINE done == saved[r].done \cup {w}
           plan == SubmitPlan(r, w, done)
<1> PICK state : state = [saved[r] EXCEPT !.done = done]
  OBVIOUS
<1>0. a \in Actor /\ a # Desk
  BY WaveFacts DEF Actor
<1>1. /\ saved[r] \in RunState /\ done \in SUBSET Wave
  BY DEF IInv, TypeOK, RunState
<1>2. state \in RunState /\ state.done = done
  BY <1>1 DEF RunState
<1>3. /\ plan \in Seq(File) /\ IndexLast(plan)
      /\ \A f : On(f, plan) <=>
              \/ f = History(r, w) \/ f = Latest(w) \/ f = Index
              \/ done = Wave /\ (f = Handoff \/ f = History(r, 0))
  <2> HIDE DEF done
  <2> QED BY SubmitPlanIs
<1>4. RunFree(r) /\ Take(a, "submit", r, {w}, "admitted", state, plan)
  BY DEF Submit
<1> HIDE DEF plan
<1>5. Becomes(a, "submit", r, {w}, "admitted", plan, Empty) /\ req'[a].state = state /\ saved' = saved
  <2>1. saved' = saved
    BY <1>4 DEF Take
  <2> QED BY <1>0, <1>4, <2>1, TakeIs DEF IInv
<1>6. /\ req'[a].op = "submit" /\ req'[a].run = r /\ req'[a].waves = {w} /\ req'[a].plan = plan
      /\ req'[a].state.done = done /\ req'[a].pc = "admitted"
  BY <1>2, <1>5 DEF Becomes
<1>7. Holds(a)'
  BY <1>0, <1>5, <1>6 DEF Holds, Uncommitted
<1>8. Planned(a)'
  <2>1. \A f : On(f, plan) => Touches(req'[a], f)
    BY <1>3, <1>6 DEF Touches
  <2>2. History(r, w) # Handoff /\ Latest(w) # Handoff /\ Index # Handoff
    BY FileIs, WaveFacts
  <2>3. On(Handoff, plan) => req'[a].state.done = Wave
    BY <1>3, <1>6, <2>2
  <2>4. req'[a].state.done # {}
    BY <1>6
  <2> HIDE DEF done
  <2> QED BY <1>0, <1>3, <1>5, <2>1, <2>3, <2>4, PlannedBy
<1>9. Todo(a)'
  BY <1>3, <1>6 DEF Todo
<1>11. "submit" \in Op \ {"none"} /\ (a = Desk <=> "submit" = "paste") /\ {w} \in SUBSET Wave
  BY <1>0 DEF Op
<1> QED BY <1>0, <1>2, <1>3, <1>4, <1>7, <1>8, <1>9, <1>11, TakePreserves

LEMMA RetryPreserves ==
  ASSUME IInv, NEW a \in Handler, NEW r \in Run, NEW w \in Wave, Retry(a, r, w)
  PROVE  IInv'
<1> DEFINE plan == RepairPlan(r, w)
<1> PICK pc : pc = IF plan = <<>> THEN "announce" ELSE "admitted"
  OBVIOUS
<1> PICK state : state = saved[r]
  OBVIOUS
<1>0. a \in Actor /\ a # Desk
  BY WaveFacts DEF Actor
<1>1. state \in RunState /\ state.done \subseteq Wave
  BY DEF IInv, TypeOK, RunState
<1>3. /\ plan \in Seq(File) /\ IndexLast(plan) /\ ~On(Index, plan)
      /\ \A f : On(f, plan) => f = History(r, w) \/ f = Latest(w)
  BY RepairPlanIs
<1>4. RunFree(r) /\ w \in saved[r].done /\ Take(a, "retry", r, {w}, pc, state, plan)
  BY DEF Retry
<1> HIDE DEF plan
<1>5. Becomes(a, "retry", r, {w}, pc, plan, Empty) /\ req'[a].state = state /\ saved' = saved
  <2>1. saved' = saved
    BY <1>4 DEF Take
  <2> QED BY <1>0, <1>4, <2>1, TakeIs DEF IInv
<1>6. /\ req'[a].op = "retry" /\ req'[a].run = r /\ req'[a].waves = {w} /\ req'[a].plan = plan
      /\ req'[a].state = saved[r]
  BY <1>5 DEF Becomes
<1>7. Holds(a)'
  BY <1>0, <1>4, <1>5, <1>6 DEF Holds, Uncommitted
<1>8. Planned(a)'
  <2>1. \A f : On(f, plan) => Touches(req'[a], f)
    BY <1>3, <1>6 DEF Touches
  <2>2. History(r, w) # Handoff /\ Latest(w) # Handoff
    BY FileIs, WaveFacts
  <2>3. ~On(Handoff, plan)
    BY <1>3, <2>2
  <2> QED BY <1>0, <1>3, <1>5, <2>1, <2>3, PlannedBy
<1>9. Todo(a)'
  BY <1>3, <1>6 DEF Todo
<1>10. pc \in {"admitted", "announce"}
  OBVIOUS
<1>11. "retry" \in Op \ {"none"} /\ (a = Desk <=> "retry" = "paste") /\ {w} \in SUBSET Wave
  BY <1>0 DEF Op
<1> QED BY <1>0, <1>1, <1>3, <1>4, <1>7, <1>8, <1>9, <1>10, <1>11, TakePreserves

LEMMA MaterializePreserves ==
  ASSUME IInv, NEW a \in Handler, NEW r \in Run, NEW ws \in SUBSET Wave, Materialize(a, r, ws)
  PROVE  IInv'
<1> PICK state : state = saved[r]
  OBVIOUS
<1> DEFINE done == state.done
           plan == MaterializePlan(r, ws, done)
<1>0. a \in Actor /\ a # Desk
  BY WaveFacts DEF Actor
<1>1. state \in RunState /\ done \subseteq Wave
  BY DEF IInv, TypeOK, RunState
<1>3. /\ plan \in Seq(File) /\ IndexLast(plan)
      /\ \A f : On(f, plan) <=>
              \/ f = Index \/ \E w \in ws : f = History(r, w) \/ f = Latest(w)
              \/ done = Wave /\ (f = Handoff \/ f = History(r, 0))
  <2> HIDE DEF done
  <2> QED BY MaterializePlanIs
<1>4. /\ RunFree(r) /\ ws # {} /\ ws \subseteq done
      /\ Take(a, "materialize", r, ws, "admitted", state, plan)
  BY DEF Materialize
<1> HIDE DEF plan
<1>5. Becomes(a, "materialize", r, ws, "admitted", plan, Empty) /\ req'[a].state = state /\ saved' = saved
  <2>1. saved' = saved
    BY <1>4 DEF Take
  <2> QED BY <1>0, <1>4, <2>1, TakeIs DEF IInv
<1>6. /\ req'[a].op = "materialize" /\ req'[a].run = r /\ req'[a].waves = ws /\ req'[a].plan = plan
      /\ req'[a].state.done = done /\ req'[a].pc = "admitted" /\ req'[a].state = saved[r]
  BY <1>5 DEF Becomes
<1>7. Holds(a)'
  BY <1>0, <1>4, <1>5, <1>6 DEF Holds, Uncommitted
<1>8. Planned(a)'
  <2>1. \A f : On(f, plan) => Touches(req'[a], f)
    BY <1>3, <1>6 DEF Touches
  <2>2. \A w \in ws : History(r, w) # Handoff /\ Latest(w) # Handoff
    BY FileIs, WaveFacts
  <2>3. On(Handoff, plan) => req'[a].state.done = Wave
    BY <1>3, <1>6, <2>2, FileIs
  <2>4. req'[a].state.done # {}
    BY <1>4, <1>6
  <2> HIDE DEF done
  <2> QED BY <1>0, <1>3, <1>5, <2>1, <2>3, <2>4, PlannedBy
<1>9. Todo(a)'
  BY <1>3, <1>6 DEF Todo
<1>11. "materialize" \in Op \ {"none"} /\ (a = Desk <=> "materialize" = "paste")
  BY <1>0 DEF Op
<1> QED BY <1>0, <1>1, <1>3, <1>4, <1>7, <1>8, <1>9, <1>11, TakePreserves

LEMMA PastePreserves ==
  ASSUME IInv, NEW r \in Run, NEW ws \in SUBSET Wave, Paste(r, ws)
  PROVE  IInv'
<1> DEFINE plan == PastePlan(ws)
<1>0. Desk \in Actor /\ Desk \notin Handler
  BY WaveFacts DEF Actor
<1>3. /\ plan \in Seq(File) /\ IndexLast(plan)
      /\ \A f : On(f, plan) <=> \E w \in ws : f = Latest(w)
  BY PastePlanIs
<1>4. ws # {} /\ Take(Desk, "paste", r, ws, "admitted", Fresh, plan)
  BY DEF Paste
<1> HIDE DEF plan
<1>5. Becomes(Desk, "paste", r, ws, "admitted", plan, Empty) /\ req'[Desk].state = Fresh
  BY <1>0, <1>4, TakeIs DEF IInv
<1>6. /\ req'[Desk].op = "paste" /\ req'[Desk].run = r /\ req'[Desk].waves = ws
      /\ req'[Desk].plan = plan /\ req'[Desk].pc = "admitted" /\ req'[Desk].state.done = {}
  BY <1>5, FreshIs DEF Becomes
<1>7. Holds(Desk)'
  BY <1>0 DEF Holds
<1>8. Planned(Desk)'
  <2>1. \A f : On(f, plan) => Touches(req'[Desk], f)
    BY <1>3, <1>6 DEF Touches
  <2>2. \A w \in ws : Latest(w) # Handoff /\ Latest(w) # Index
    BY FileIs
  <2>3. ~On(Handoff, plan) /\ ~On(Index, plan)
    BY <1>3, <2>2
  <2> QED BY <1>0, <1>3, <1>5, <2>1, <2>3, PlannedBy
<1>9. Todo(Desk)'
  BY <1>3, <1>4, <1>6 DEF Todo
<1> QED BY <1>0, <1>3, <1>4, <1>7, <1>8, <1>9, FreshIs, TakePreserves DEF Op

-----------------------------------------------------------------------------
(* Steps that change the request alone. *)

LEMMA StepPreserves ==
  ASSUME IInv, TypeOK', NEW a \in Actor, Busy(a), NEW op, NEW r, NEW ws, NEW pc, NEW plan, NEW before,
         Becomes(a, op, r, ws, pc, plan, before), pc = "idle" \/ r = req[a].run,
         pc \in {"write", "undo"} => InRoot(a),
         Sound(a)', \A b \in Actor : b # a => Undisturbed(b), Good'
  PROVE  IInv'
<1>1. Locked'
  BY LockedKeptBy DEF IInv
<1>2. ASSUME NEW b \in Actor PROVE Sound(b)'
  BY UndisturbedSound DEF IInv
<1> QED BY <1>1, <1>2 DEF IInv

LEMMA RequestPreserves ==
  ASSUME IInv, NEW a \in Actor, Busy(a), NEW op \in Op, NEW r \in Run \cup {NoFile}, NEW ws \in SUBSET Wave,
         NEW pc \in Pc, NEW plan \in Seq(File), NEW before, IsDisk(before),
         Becomes(a, op, r, ws, pc, plan, before), req'[a].state \in RunState,
         pc = "idle" \/ r = req[a].run,
         pc \in {"write", "undo"} <=> InRoot(a),
         UNCHANGED <<disk, saved, unannounced, pasted, closed, asked, residue, cuts, scan, scanned>>,
         Sound(a)'
  PROVE  IInv'
<1>1. TypeOK'
  <2>1. DOMAIN req' = Actor /\ \A b \in Actor : IsRequest(req'[b])
    BY BecomesType DEF IInv
  <2> QED BY <2>1 DEF IInv, TypeOK
<1>2. ASSUME NEW b \in Actor, b # a PROVE Undisturbed(b)
  <2>1. req'[b] = req[b] /\ Announced(b)
    BY <1>2 DEF Becomes, IInv, Sound
  <2> QED BY <2>1 DEF Undisturbed, Announced
<1>3. Good'
  <2>1. RootFree' => RootFree
    BY RootFreeKept DEF IInv
  <2>2. Quietly
    BY <2>1 DEF Quietly
  <2>3. VisibleIsAccepted' /\ CompleteHasHandoff' /\ AcceptedKeepsHistory'
    BY <2>2, QuietlyGood DEF IInv
  <2>4. UnannouncedIsMarked' /\ ClosedIsAccepted'
    BY DEF IInv, Good, UnannouncedIsMarked, ClosedIsAccepted
  <2> QED BY <2>3, <2>4 DEF Good
<1> QED BY <1>1, <1>2, <1>3, StepPreserves

\* The same for a request that is over and has not the root.
LEMMA FinishPreserves ==
  ASSUME IInv, NEW a \in Actor, Busy(a), ~InRoot(a), Finish(a),
         UNCHANGED <<disk, saved, unannounced, pasted, closed, asked, residue, cuts, scan, scanned>>
  PROVE  IInv'
<1>1. Becomes(a, "none", NoFile, {}, "idle", <<>>, Empty) /\ req'[a].state = Fresh
  BY FinishIs DEF IInv
<1>2. Sound(a)'
  <2>1. req'[a].pc = "idle"
    BY <1>1 DEF Becomes
  <2> QED BY <2>1, IdleSound
<1>3. "none" \in Op /\ "idle" \in Pc /\ <<>> \in Seq(File)
  BY DEF Op, Pc
<1> QED BY <1>1, <1>2, <1>3, EmptyIsDisk, FreshIs, RequestPreserves

LEMMA GiveUpPreserves ==
  ASSUME IInv, NEW a \in Actor, GiveUp(a)
  PROVE  IInv'
<1>1. Busy(a) /\ ~InRoot(a)
  BY DEF GiveUp, Busy, InRoot
<1>2. Finish(a) /\ UNCHANGED <<disk, saved, unannounced, pasted, closed, asked, residue, cuts, scan, scanned>>
  BY DEF GiveUp
<1> QED BY <1>1, <1>2, FinishPreserves

\* What a request is while it works.
LEMMA BusyIs ==
  ASSUME IInv, NEW a \in Actor, Busy(a)
  PROVE  /\ req[a].run \in Run /\ req[a].waves \in SUBSET Wave
         /\ req[a].op \in {"submit", "retry", "refinal", "materialize", "paste"}
         /\ (a = Desk <=> req[a].op = "paste") /\ (a \in Handler <=> req[a].op # "paste")
         /\ Paths(req[a]) \in Seq(File)
         /\ \A f : On(f, Paths(req[a])) <=> Touches(req[a], f)
         /\ req[a].op # "paste" => IndexFirst(Paths(req[a]))
<1>1. /\ req[a].run \in Run /\ req[a].waves \in SUBSET Wave
      /\ req[a].op \in {"submit", "retry", "refinal", "materialize", "paste"}
      /\ a = Desk <=> req[a].op = "paste"
  BY RequestIs DEF IInv, Sound, Shaped
<1>2. a \in Handler <=> req[a].op # "paste"
  BY <1>1, WaveFacts DEF Actor
<1> PICK q : q = req[a]
  OBVIOUS
<1>3. /\ Paths(q) \in Seq(File)
      /\ \A f : On(f, Paths(q)) <=> Touches(q, f)
      /\ q.op # "paste" => IndexFirst(Paths(q))
  BY <1>1, PathsAre
<1> QED BY <1>1, <1>2, <1>3

\* A rollback begins.
LEMMA UndoPreserves ==
  ASSUME IInv, NEW a \in Actor, req[a].pc = "write", Undo(a),
         req[a].op = "paste" => req[a].plan # <<>> \/ req[a].state.done = {},
         UNCHANGED <<disk, saved, unannounced, pasted, closed, asked, residue, cuts, scan, scanned>>
  PROVE  IInv'
<1>0. Busy(a) /\ InRoot(a) /\ Sound(a)
  BY DEF Busy, InRoot, IInv
<1>1. /\ Becomes(a, req[a].op, req[a].run, req[a].waves, "undo", Paths(req[a]), req[a].before)
      /\ req'[a].state = req[a].state
  BY UndoIs DEF IInv
<1>2. /\ req'[a].pc = "undo" /\ req'[a].op = req[a].op /\ req'[a].run = req[a].run
      /\ req'[a].waves = req[a].waves /\ req'[a].plan = Paths(req[a])
      /\ req'[a].before = req[a].before /\ req'[a].state = req[a].state
  BY <1>1 DEF Becomes
<1>3. Paths(req'[a]) = Paths(req[a])
  BY <1>2 DEF Paths
<1>4. Shaped(a)' /\ Holds(a)' /\ Announced(a)' /\ Planned(a)' /\ Todo(a)' /\ Wrote(a)' /\ Showing(a)'
  <2>1. Shaped(a)' /\ Announced(a)' /\ Planned(a)' /\ Todo(a)' /\ Wrote(a)' /\ Showing(a)'
    BY <1>0, <1>2 DEF Sound, Shaped, Announced, Planned, Todo, Wrote, Showing, Busy
  <2>2. Holds(a)'
    BY <1>0, <1>2 DEF Sound, Holds, Busy, Uncommitted
  <2> QED BY <2>1, <2>2
<1>5. Undone(a)'
  <2>1. \A f \in File : ~On(f, Paths(req[a])) => AsFound(disk, req[a].before, f)
    BY <1>0 DEF Sound, Wrote
  <2>2. req[a].op = "paste" => disk[Index] = req[a].before[Index]
    BY <1>0 DEF Sound, Wrote
  <2>3. req[a].op # "paste" => IndexFirst(Paths(req[a]))
    BY <1>0, BusyIs
  <2> QED BY <1>0, <1>2, <1>3, <2>1, <2>2, <2>3 DEF Undone, AsFound
<1>6. Snapped(a)'
  <2> PICK d : d = req[a].before
    OBVIOUS
  <2>1. /\ KeepsHistory(d) /\ (residue = 0 => HasHandoff(d)) /\ (residue = 0 /\ cuts = 0 => Shown(d))
        /\ d[Handoff] # NoFile => disk[Handoff] # NoFile
    BY <1>0 DEF Sound, Snapped
  <2>2. KeepsHistory(d)' /\ (HasHandoff(d) => HasHandoff(d)') /\ (Shown(d) => Shown(d)')
    BY <2>1 DEF KeepsHistory, HasHandoff, Shown, Accepted, Complete
  <2> QED BY <1>2, <2>1, <2>2 DEF Snapped
<1>7. /\ req[a].op \in Op /\ req[a].run \in Run \cup {NoFile} /\ req[a].waves \in SUBSET Wave
      /\ "undo" \in Pc /\ Paths(req[a]) \in Seq(File) /\ IsDisk(req[a].before)
      /\ req'[a].state \in RunState
  BY <1>0, <1>2, RequestIs, BusyIs DEF IInv, Pc
<1>8. Sound(a)'
  BY <1>4, <1>5, <1>6 DEF Sound
<1> QED BY <1>0, <1>1, <1>7, <1>8, RequestPreserves

LEMMA FailsPreserves ==
  ASSUME IInv, NEW a \in Actor, Fails(a)
  PROVE  IInv'
<1>1. /\ req[a].pc = "write" /\ Undo(a)
      /\ req[a].op = "paste" => req[a].plan # <<>>
      /\ UNCHANGED <<disk, saved, unannounced, pasted, closed, asked, residue, cuts, scan, scanned>>
  BY DEF Fails
<1> QED BY <1>1, UndoPreserves

LEMMA RecheckPreserves ==
  ASSUME IInv, NEW a \in Actor, Recheck(a)
  PROVE  IInv'
<1>0. /\ req[a].pc = "recheck" /\ Busy(a) /\ ~InRoot(a) /\ Sound(a)
      /\ UNCHANGED <<disk, saved, unannounced, pasted, closed, asked, residue, cuts, scan, scanned>>
  BY DEF Recheck, Busy, InRoot, IInv
<1>1. CASE Finish(a)
  BY <1>0, <1>1, FinishPreserves
<1>2. CASE ~Finish(a)
  <2> DEFINE plan == RefinalPlan(req[a].run)
  <2>1. /\ req[a].state.done = Wave
        /\ req' = [req EXCEPT ![a].op = "refinal", ![a].pc = "admitted", ![a].plan = plan]
    BY <1>2 DEF Recheck
  <2>2. /\ req[a].run \in Run /\ req[a].op \in {"submit", "retry"} /\ req[a].waves \in SUBSET Wave
    BY <1>0, BusyIs DEF Sound, Shaped
  <2>3. /\ plan \in Seq(File)
        /\ \A f : On(f, plan) <=> f = Handoff \/ f = History(req[a].run, 0)
    BY <2>2, FinalIs
  <2> HIDE DEF plan
  <2>4. /\ Becomes(a, "refinal", req[a].run, req[a].waves, "admitted", plan, req[a].before)
        /\ req'[a].state = req[a].state
    BY <2>1, RequestIs DEF IInv, Becomes, RequestFields
  <2>5. /\ req'[a].pc = "admitted" /\ req'[a].op = "refinal" /\ req'[a].run = req[a].run
        /\ req'[a].waves = req[a].waves /\ req'[a].plan = plan /\ req'[a].state = req[a].state
    BY <2>4 DEF Becomes
  <2>6. Index # Handoff /\ Index # History(req[a].run, 0)
    BY <2>2, FileIs, WaveFacts
  <2>7. ~On(Index, plan)
    BY <2>3, <2>6
  <2>8. Planned(a)'
    <3> PICK q : q = req'[a]
      OBVIOUS
    <3>1. q.op = "refinal" /\ q.run = req[a].run /\ q.waves = req[a].waves /\ q.plan = plan
      BY <2>5
    <3>2. \A f : On(f, Paths(q)) <=> Touches(q, f)
      BY <2>2, <3>1, PathsAre
    <3>3. IndexLast(plan)
      BY <2>3, <2>7, LastOf
    <3>4. \A f : On(f, plan) => On(f, Paths(q))
      BY <2>3, <3>1, <3>2 DEF Touches
    <3> QED BY <2>1, <2>5, <2>7, <3>1, <3>3, <3>4 DEF Planned
  <2>9. Shaped(a)' /\ Todo(a)' /\ Announced(a)'
    BY <1>0, <2>2, <2>5, <2>7 DEF Sound, Shaped, Todo, Announced, Busy
  <2>10. Holds(a)'
    BY <1>0, <2>5 DEF Sound, Holds, Uncommitted, Busy
  <2>11. Wrote(a)' /\ Snapped(a)' /\ Showing(a)' /\ Undone(a)'
    BY <2>5 DEF Wrote, Snapped, Showing, Undone, InRoot
  <2>12. Sound(a)'
    BY <2>8, <2>9, <2>10, <2>11 DEF Sound
  <2>13. "refinal" \in Op /\ "admitted" \in Pc /\ IsDisk(req[a].before) /\ req'[a].state \in RunState
    BY <2>5, RequestIs DEF Op, Pc, IInv
  <2> QED BY <1>0, <2>2, <2>3, <2>4, <2>12, <2>13, RequestPreserves
<1> QED BY <1>1, <1>2

\* A paste looks at the files it is to write the index of.
LEMMA ComposePreserves ==
  ASSUME IInv, NEW a \in Actor, Compose(a)
  PROVE  IInv'
<1>0. /\ req[a].pc = "write" /\ Busy(a) /\ InRoot(a) /\ Sound(a)
      /\ req[a].op = "paste" /\ req[a].plan = <<>> /\ req[a].state.done = {}
      /\ UNCHANGED <<disk, saved, unannounced, pasted, closed, asked, residue, cuts, scan, scanned>>
  BY DEF Compose, Composing, Busy, InRoot, IInv
<1>1. CASE Undo(a)
  BY <1>0, <1>1, UndoPreserves
<1>2. CASE ~Undo(a)
  <2> DEFINE plan == (IF OnDisk = Wave THEN <<Handoff>> ELSE <<>>) \o <<Index>>
  <2>1. req' = [req EXCEPT ![a].state.done = OnDisk, ![a].plan = plan]
    BY <1>2 DEF Compose
  <2>2. plan = IF OnDisk = Wave THEN <<Handoff>> \o <<Index>> ELSE <<Index>>
    <3>1. <<>> \o <<Index>> = <<Index>>
      BY FileIs, TwoFiles, ConcatEmptySeq
    <3> QED BY <3>1
  <2>3. /\ plan \in Seq(File) /\ IndexLast(plan) /\ plan # <<>> /\ On(Index, plan)
        /\ \A f : On(f, plan) => f = Index \/ f = Handoff
        /\ On(Handoff, plan) => plan = <<Handoff>> \o <<Index>>
    <3> HIDE DEF plan
    <3> QED BY <2>2, ComposedIs
  <2>4. On(Handoff, plan) <=> OnDisk = Wave
    <3>1. <<Handoff>> \o <<Index>> # <<Index>>
      <4>1. <<Handoff>> \in Seq(File) /\ <<Index>> \in Seq(File) /\ Len(<<Handoff>>) = 1 /\ Len(<<Index>>) = 1
        BY FileIs, TwoFiles
      <4>2. Len(<<Handoff>> \o <<Index>>) = 2
        BY <4>1, ConcatProperties
      <4> QED BY <4>1, <4>2
    <3>2. OnDisk = Wave => On(Handoff, plan)
      <4>1. /\ \A f : On(f, <<Handoff>> \o <<Index>>) <=> On(f, <<Handoff>>) \/ On(f, <<Index>>)
        BY FileIs, TwoFiles, OnConcat
      <4> QED BY <2>2, <4>1, OnOne
    <3> QED BY <2>2, <2>3, <3>1, <3>2
  <2>5. OnDisk \subseteq Wave /\ \A w \in Wave : w \in OnDisk <=> disk[Latest(w)] # NoFile
    BY DEF OnDisk
  <2> HIDE DEF plan
  <2> PICK on : on = OnDisk
    OBVIOUS
  <2>6. /\ Becomes(a, req[a].op, req[a].run, req[a].waves, req[a].pc, plan, req[a].before)
        /\ req'[a].state \in RunState /\ req'[a].state.done = on
        /\ req'[a].state.pending = req[a].state.pending
    <3> PICK s : s = [req[a].state EXCEPT !.done = on]
      OBVIOUS
    <3>1. s \in RunState /\ s.done = on /\ s.pending = req[a].state.pending
      BY <2>5, RequestIs DEF RunState, IInv
    <3>2. req' = [req EXCEPT ![a] = [req[a] EXCEPT !.state = s, !.plan = plan]]
      BY <2>1
    <3> QED BY <3>1, <3>2, RequestIs DEF Becomes, RequestFields, IInv
  <2>7. /\ req'[a].pc = "write" /\ req'[a].op = "paste" /\ req'[a].run = req[a].run
        /\ req'[a].waves = req[a].waves /\ req'[a].plan = plan /\ req'[a].before = req[a].before
    BY <1>0, <2>6 DEF Becomes
  <2>8. Paths(req'[a]) = Paths(req[a])
    BY <1>0, <2>7 DEF Paths
  <2>9. /\ req[a].run \in Run /\ req[a].waves \in SUBSET Wave /\ req[a].waves # {}
        /\ \A w \in req[a].waves : disk[Latest(w)] # NoFile
        /\ disk[Index] = req[a].before[Index]
        /\ \A f \in File : ~On(f, Paths(req[a])) => AsFound(disk, req[a].before, f)
    BY <1>0, BusyIs, OnNone DEF Sound, Wrote
  <2>10. on # {}
    BY <2>5, <2>9
  <2>11. Planned(a)'
    <3>1. \A f : On(f, plan) => On(f, Paths(req[a]))
      BY <1>0, <2>3, BusyIs DEF Touches
    <3> QED BY <2>3, <2>4, <2>6, <2>7, <2>8, <2>10, <3>1 DEF Planned
  <2>12. Wrote(a)'
    <3>1. disk' = disk /\ scanned' = scanned
      BY <1>0
    <3>2. On(Index, plan) /\ on = Wave => On(Handoff, plan)
      BY <2>4
    <3> QED BY <2>5, <2>6, <2>7, <2>8, <2>9, <3>1, <3>2 DEF Wrote, AsFound
  <2>13. Shaped(a)' /\ Announced(a)' /\ Todo(a)' /\ Undone(a)'
    BY <1>0, <2>7 DEF Sound, Shaped, Announced, Todo, Undone, Busy
  <2>14. Holds(a)'
    <3>1. a \notin Handler
      BY <1>0, BusyIs
    <3> QED BY <3>1 DEF Holds
  <2>15. Showing(a)'
    BY <1>0, <2>7 DEF Sound, Showing, Soon, Saving, Accepted
  <2>16. Snapped(a)'
    <3> PICK d : d = req[a].before
      OBVIOUS
    <3>1. /\ KeepsHistory(d) /\ (residue = 0 => HasHandoff(d)) /\ (residue = 0 /\ cuts = 0 => Shown(d))
          /\ d[Handoff] # NoFile => disk[Handoff] # NoFile
      BY <1>0 DEF Sound, Snapped
    <3>2. KeepsHistory(d)' /\ (HasHandoff(d) => HasHandoff(d)') /\ (Shown(d) => Shown(d)')
      BY <1>0, <3>1 DEF KeepsHistory, HasHandoff, Shown, Accepted, Complete
    <3> QED BY <1>0, <2>7, <3>1, <3>2 DEF Snapped
  <2>17. Sound(a)'
    BY <2>11, <2>12, <2>13, <2>14, <2>15, <2>16 DEF Sound
  <2>18. /\ req[a].op \in Op /\ req[a].run \in Run \cup {NoFile} /\ req[a].pc \in Pc
         /\ IsDisk(req[a].before)
    BY RequestIs DEF IInv
  <2> QED BY <1>0, <2>3, <2>6, <2>9, <2>17, <2>18, RequestPreserves
<1> QED BY <1>1, <1>2

\* The lock of the audit root, and the snapshot.
LEMMA LockPreserves ==
  ASSUME IInv, NEW a \in Actor, Lock(a)
  PROVE  IInv'
<1>0. /\ req[a].pc = "admitted" /\ RootFree /\ Sound(a) /\ Busy(a)
      /\ UNCHANGED <<disk, saved, unannounced, pasted, closed, asked, residue, cuts, scan, scanned>>
  BY DEF Lock, IInv, Busy
<1>1. /\ Becomes(a, req[a].op, req[a].run, req[a].waves, "write", req[a].plan, disk)
      /\ req'[a].state = req[a].state
  BY RequestIs DEF Lock, IInv, Becomes, RequestFields
<1>2. /\ req'[a].pc = "write" /\ req'[a].op = req[a].op /\ req'[a].run = req[a].run
      /\ req'[a].waves = req[a].waves /\ req'[a].plan = req[a].plan
      /\ req'[a].before = disk /\ req'[a].state = req[a].state
  BY <1>1 DEF Becomes
<1>3. Paths(req'[a]) = Paths(req[a])
  BY <1>2 DEF Paths
<1>4. TypeOK'
  <2>1. /\ req[a].op \in Op /\ req[a].run \in Run \cup {NoFile} /\ req[a].waves \in SUBSET Wave
        /\ "write" \in Pc /\ req[a].plan \in Seq(File) /\ req'[a].state \in RunState
    BY <1>2, RequestIs DEF IInv, Pc
  <2>2. IsDisk(disk)
    BY DEF IInv, TypeOK
  <2>3. DOMAIN req' = Actor /\ \A b \in Actor : IsRequest(req'[b])
    BY <1>1, <2>1, <2>2, BecomesType DEF IInv
  <2> QED BY <1>0, <2>3 DEF IInv, TypeOK
<1>5. Locked'
  <2>1. ASSUME NEW b \in Actor PROVE /\ req'[b].run = req[b].run
                                     /\ Busy(b)' => Busy(b)
                                     /\ InRoot(b)' => b = a
    <3>1. CASE b = a
      BY <1>0, <1>2, <3>1 DEF Busy
    <3>2. CASE b # a
      <4>1. req'[b] = req[b]
        BY <1>1, <3>2 DEF Becomes
      <4> QED BY <1>0, <4>1 DEF Busy, RootFree, InRoot
    <3> QED BY <3>1, <3>2
  <2>2. \A b \in Handler : b \in Actor
    BY DEF Actor
  <2> QED BY <2>1, <2>2 DEF IInv, Locked
<1>6. ASSUME NEW b \in Actor, b # a PROVE Undisturbed(b)
  <2>1. req'[b] = req[b] /\ Announced(b)
    BY <1>1, <1>6 DEF Becomes, IInv, Sound
  <2> QED BY <1>0, <2>1 DEF Undisturbed, Announced
<1>7. Sound(a)'
  <2>1. Shaped(a)' /\ Announced(a)' /\ Planned(a)' /\ Todo(a)' /\ Undone(a)'
    BY <1>0, <1>2, <1>3 DEF Sound, Shaped, Announced, Planned, Todo, Undone, Busy
  <2>2. Holds(a)'
    BY <1>0, <1>2 DEF Sound, Holds, Busy, Uncommitted
  <2>3. Wrote(a)'
    <3>1. /\ On(Index, req[a].plan) /\ req[a].state.done = Wave => On(Handoff, req[a].plan)
          /\ req[a].op = "submit" => \A w \in req[a].waves : On(History(req[a].run, w), req[a].plan)
          /\ req[a].op = "paste" =>
               /\ req[a].state.done = {} /\ req[a].waves # {}
               /\ \A w \in req[a].waves : On(Latest(w), req[a].plan)
      BY <1>0 DEF Sound, Todo
    <3> QED BY <1>0, <1>2, <3>1 DEF Wrote, AsFound
  <2>4. Snapped(a)'
    <3> PICK d : d = disk
      OBVIOUS
    <3>1. /\ KeepsHistory(d) /\ (residue = 0 => HasHandoff(d)) /\ (residue = 0 /\ cuts = 0 => Shown(d))
      BY <1>0 DEF IInv, Good, KeepsHistory, HasHandoff, Shown, VisibleIsAccepted, CompleteHasHandoff,
                  AcceptedKeepsHistory
    <3>2. KeepsHistory(d)' /\ (HasHandoff(d) => HasHandoff(d)') /\ (Shown(d) => Shown(d)')
      BY <1>0, <3>1 DEF KeepsHistory, HasHandoff, Shown, Accepted, Complete
    <3>3. req'[a].before = d /\ disk' = d /\ residue' = residue /\ cuts' = cuts
      BY <1>0, <1>2
    <3> QED BY <3>1, <3>2, <3>3 DEF Snapped
  <2>5. Showing(a)'
    <3> SUFFICES ASSUME residue = 0, cuts = 0 PROVE Showing(a)'
      BY <1>0 DEF Showing
    <3>1. \A w \in Wave :
            /\ disk[Latest(w)] # NoFile => Accepted(disk[Latest(w)], w)
            /\ disk[Handoff] \notin {NoFile} \cup scanned => Accepted(disk[Handoff][w], w)
            /\ \A r \in Run : disk[History(r, w)] # NoFile => w \in saved[r].done
            /\ disk[Index] # NoFile /\ w \in disk[Index].done => \E r \in Run : Accepted(r, w)
      BY <1>0 DEF IInv, Good, VisibleIsAccepted
    <3>2. \A r, w : (Accepted(r, w) => Soon(a, r, w)') /\ (w \in saved[r].done => Saving(a, r, w)')
      BY <1>0 DEF Accepted, Soon, Saving
    <3>3. disk' = disk /\ scanned' = scanned
      BY <1>0
    <3> QED BY <3>1, <3>2, <3>3 DEF Showing
  <2> QED BY <2>1, <2>2, <2>3, <2>4, <2>5 DEF Sound
<1>8. Good'
  <2>1. ~RootFree'
    BY <1>2 DEF RootFree, InRoot
  <2>2. Quietly
    BY <1>0, <2>1 DEF Quietly
  <2>3. VisibleIsAccepted' /\ CompleteHasHandoff' /\ AcceptedKeepsHistory'
    BY <2>2, QuietlyGood DEF IInv
  <2>4. UnannouncedIsMarked' /\ ClosedIsAccepted'
    BY <1>0 DEF IInv, Good, UnannouncedIsMarked, ClosedIsAccepted
  <2> QED BY <2>3, <2>4 DEF Good
<1>9. ASSUME NEW b \in Actor PROVE Sound(b)'
  BY <1>6, <1>7, UndisturbedSound DEF IInv
<1> QED BY <1>4, <1>5, <1>8, <1>9 DEF IInv

-----------------------------------------------------------------------------
(* After the commit. *)

LEMMA AfterPreserves ==
  ASSUME IInv, NEW a \in Actor, Busy(a), ~InRoot(a),
         NEW op \in Op, NEW r \in Run \cup {NoFile}, NEW ws \in SUBSET Wave,
         NEW pc \in Pc \ {"write", "undo"}, NEW plan \in Seq(File), NEW before, IsDisk(before),
         Becomes(a, op, r, ws, pc, plan, before), req'[a].state \in RunState,
         pc = "idle" \/ r = req[a].run,
         UNCHANGED <<disk, pasted, asked, residue, cuts, scan, scanned>>,
         saved' \in [Run -> RunState], unannounced' \subseteq unannounced,
         closed' \subseteq Run \X {"ingest", "probe"},
         \A s \in Run : saved'[s].done = saved[s].done,
         \A b \in Handler : b # a /\ Busy(b) => saved'[req[b].run].pending = saved[req[b].run].pending,
         Sound(a)', UnannouncedIsMarked',
         \A s \in Run : <<s, "ingest">> \in closed' => <<s, "ingest">> \in closed \/ saved'[s].done = Wave
  PROVE  IInv'
<1>1. TypeOK'
  <2>1. DOMAIN req' = Actor /\ \A b \in Actor : IsRequest(req'[b])
    BY BecomesType DEF IInv
  <2> QED BY <2>1 DEF IInv, TypeOK
<1>2. ASSUME NEW b \in Actor, b # a PROVE Undisturbed(b)
  <2>1. req'[b] = req[b] /\ Announced(b) /\ (Busy(b) => req[b].run \in Run)
    BY <1>2, BusyIs DEF Becomes, IInv, Sound
  <2> QED BY <1>2, <2>1 DEF Undisturbed, Announced
<1>3. Good'
  <2>1. RootFree' => RootFree
    BY RootFreeKept DEF IInv
  <2>2. Quietly
    BY <2>1 DEF Quietly
  <2>3. VisibleIsAccepted' /\ CompleteHasHandoff' /\ AcceptedKeepsHistory'
    BY <2>2, QuietlyGood DEF IInv
  <2>4. ClosedIsAccepted'
    BY <1>1, ClosedKept DEF IInv
  <2> QED BY <2>3, <2>4 DEF Good
<1> QED BY <1>1, <1>2, <1>3, StepPreserves

\* A request that ends here.
LEMMA OverIs ==
  ASSUME TypeOK, NEW a \in Actor, Finish(a)
  PROVE  /\ Becomes(a, "none", NoFile, {}, "idle", <<>>, Empty) /\ req'[a].state \in RunState
         /\ "none" \in Op /\ "idle" \in Pc \ {"write", "undo"} /\ <<>> \in Seq(File) /\ IsDisk(Empty)
         /\ Sound(a)'
<1>1. Becomes(a, "none", NoFile, {}, "idle", <<>>, Empty) /\ req'[a].state = Fresh
  BY FinishIs
<1>2. req'[a].pc = "idle"
  BY <1>1 DEF Becomes
<1> QED BY <1>1, <1>2, FreshIs, IdleSound, EmptyIsDisk DEF Op, Pc

\* One that goes on to another step.
LEMMA GoneIs ==
  ASSUME IInv, NEW a \in Actor, Busy(a), req[a].op \in {"submit", "retry"},
         req[a].pc \in {"announce", "clear"},
         NEW pc \in {"clear", "close", "recheck"},
         Becomes(a, req[a].op, req[a].run, req[a].waves, pc, req[a].plan, req[a].before),
         req'[a].state \in RunState, req'[a].state.done = req[a].state.done,
         \A s \in Run : saved'[s].done = saved[s].done,
         req'[a].state.pending = saved'[req[a].run].pending,
         pc = "clear" => unannounced' = {}
  PROVE  /\ req[a].op \in Op /\ req[a].run \in Run \cup {NoFile} /\ req[a].waves \in SUBSET Wave
         /\ pc \in Pc \ {"write", "undo"} /\ req[a].plan \in Seq(File) /\ IsDisk(req[a].before)
         /\ Sound(a)'
<1>1. /\ req'[a].pc = pc /\ req'[a].op = req[a].op /\ req'[a].run = req[a].run
      /\ req'[a].waves = req[a].waves
  BY DEF Becomes
<1>2. Sound(a) /\ req[a].run \in Run
  BY BusyIs DEF IInv
<1>3. Shaped(a)'
  BY <1>1, <1>2 DEF Sound, Shaped, Busy
<1>4. Holds(a)'
  BY <1>1, <1>2 DEF Sound, Holds, Uncommitted, Busy
<1>5. Announced(a)'
  BY <1>1 DEF Announced
<1>6. Planned(a)' /\ Todo(a)' /\ Wrote(a)' /\ Snapped(a)' /\ Showing(a)' /\ Undone(a)'
  BY <1>1 DEF Planned, Todo, Wrote, Snapped, Showing, Undone, InRoot
<1> QED BY <1>3, <1>4, <1>5, <1>6, RequestIs DEF Sound, Pc, IInv

LEMMA AnnouncePreserves ==
  ASSUME IInv, NEW a \in Actor, Announce(a)
  PROVE  IInv'
<1>0. /\ req[a].pc = "announce" /\ Busy(a) /\ ~InRoot(a) /\ Sound(a) /\ TypeOK
      /\ UNCHANGED <<disk, saved, pasted, closed, asked, residue, cuts, scan, scanned>>
  BY DEF Announce, Busy, InRoot, IInv
<1>1. /\ saved' \in [Run -> RunState]
      /\ closed' \subseteq Run \X {"ingest", "probe"}
      /\ \A s \in Run : saved'[s].done = saved[s].done
      /\ \A b \in Handler : b # a /\ Busy(b) => saved'[req[b].run].pending = saved[req[b].run].pending
      /\ \A s \in Run : <<s, "ingest">> \in closed' => <<s, "ingest">> \in closed \/ saved'[s].done = Wave
  BY <1>0 DEF TypeOK
<1>2. unannounced' = unannounced \/ unannounced' = {}
  BY DEF Announce
<1>3. unannounced' \subseteq unannounced /\ UnannouncedIsMarked'
  BY <1>0, <1>2 DEF IInv, Good, UnannouncedIsMarked
<1>4. CASE Finish(a)
  <2>1. /\ Becomes(a, "none", NoFile, {}, "idle", <<>>, Empty) /\ req'[a].state \in RunState
        /\ "none" \in Op /\ "idle" \in Pc \ {"write", "undo"} /\ <<>> \in Seq(File) /\ IsDisk(Empty)
        /\ Sound(a)'
    BY <1>0, <1>4, OverIs
  <2>2. NoFile \in Run \cup {NoFile} /\ {} \in SUBSET Wave
    OBVIOUS
  <2> QED BY <1>0, <1>1, <1>3, <2>1, <2>2, AfterPreserves
<1>5. CASE ~Finish(a)
  <2>1. PICK pc \in {"clear", "close", "recheck"} :
          /\ Goto(a, pc) /\ req[a].op \in {"submit", "retry"}
          /\ pc = "clear" => unannounced' = {}
    <3>1. CASE /\ unannounced' = {}
               /\ AfterAnnounce(req[a].op, TRUE) # "idle"
               /\ Goto(a, AfterAnnounce(req[a].op, TRUE))
      BY <3>1 DEF AfterAnnounce
    <3>2. CASE /\ AfterAnnounce(req[a].op, FALSE) # "idle"
               /\ Goto(a, AfterAnnounce(req[a].op, FALSE))
      BY <3>2 DEF AfterAnnounce
    <3> QED BY <1>5, <3>1, <3>2 DEF Announce
  <2>2. /\ Becomes(a, req[a].op, req[a].run, req[a].waves, pc, req[a].plan, req[a].before)
        /\ req'[a].state = req[a].state
    BY <1>0, <2>1, GotoIs
  <2>3. a \in Handler /\ req[a].run \in Run
    BY <1>0, <2>1, BusyIs
  <2>4. req'[a].state \in RunState /\ req'[a].state.pending = saved'[req[a].run].pending
    BY <1>0, <2>2, <2>3, RequestIs DEF Sound, Holds, Uncommitted
  <2>5. /\ req[a].op \in Op /\ req[a].run \in Run \cup {NoFile} /\ req[a].waves \in SUBSET Wave
        /\ pc \in Pc \ {"write", "undo"} /\ req[a].plan \in Seq(File) /\ IsDisk(req[a].before)
        /\ Sound(a)'
    BY <1>0, <1>1, <2>1, <2>2, <2>4, GoneIs
  <2> QED BY <1>0, <1>1, <1>3, <2>2, <2>4, <2>5, AfterPreserves
<1> QED BY <1>4, <1>5

LEMMA ClearPreserves ==
  ASSUME IInv, NEW a \in Actor, Clear(a)
  PROVE  IInv'
<1>0. /\ req[a].pc = "clear" /\ Busy(a) /\ ~InRoot(a) /\ Sound(a) /\ TypeOK
      /\ UNCHANGED <<disk, unannounced, pasted, closed, asked, residue, cuts, scan, scanned>>
  BY DEF Clear, Busy, InRoot, IInv
<1>1. /\ req[a].op \in {"submit", "retry"} /\ a \in Handler /\ req[a].run \in Run
      /\ req[a].state.done = saved[req[a].run].done
      /\ req[a].run \notin unannounced
  BY <1>0, BusyIs DEF Sound, Shaped, Holds, Announced, Uncommitted
<1> PICK s : s = [req[a].state EXCEPT !.pending = FALSE]
  OBVIOUS
<1>2. s \in RunState /\ s.done = saved[req[a].run].done /\ s.pending = FALSE
  BY <1>0, <1>1, RequestIs DEF RunState
<1>3. saved' = [saved EXCEPT ![req[a].run] = s] \/ saved' = saved
  BY DEF Clear
<1>4. /\ saved' \in [Run -> RunState]
      /\ \A r \in Run : saved'[r].done = saved[r].done
      /\ \A r \in Run : r # req[a].run => saved'[r].pending = saved[r].pending
  <2>1. saved \in [Run -> RunState]
    BY <1>0 DEF TypeOK
  <2> QED BY <1>1, <1>2, <1>3, <2>1
<1>5. saved'[req[a].run].pending \in BOOLEAN
  BY <1>1, <1>4 DEF RunState
<1> PICK pc : pc = IF req[a].op = "submit" THEN "close" ELSE "recheck"
  OBVIOUS
<1>6. /\ Becomes(a, req[a].op, req[a].run, req[a].waves, pc, req[a].plan, req[a].before)
      /\ req'[a].state \in RunState /\ req'[a].state.done = req[a].state.done
      /\ req'[a].state.pending = saved'[req[a].run].pending
  <2> PICK t : t = [req[a].state EXCEPT !.pending = saved'[req[a].run].pending]
    OBVIOUS
  <2>1. t \in RunState /\ t.done = req[a].state.done /\ t.pending = saved'[req[a].run].pending
    BY <1>0, <1>5, RequestIs DEF RunState
  <2>2. req' = [req EXCEPT ![a] = [req[a] EXCEPT !.pc = pc, !.state = t]]
    BY DEF Clear
  <2> QED BY <1>0, <2>1, <2>2, RequestIs DEF Becomes, RequestFields
<1>7. pc \in {"clear", "close", "recheck"} /\ pc # "clear"
  OBVIOUS
<1>8. /\ req[a].op \in Op /\ req[a].run \in Run \cup {NoFile} /\ req[a].waves \in SUBSET Wave
      /\ pc \in Pc \ {"write", "undo"} /\ req[a].plan \in Seq(File) /\ IsDisk(req[a].before)
      /\ Sound(a)'
  BY <1>0, <1>1, <1>4, <1>6, <1>7, GoneIs
<1>9. UnannouncedIsMarked'
  <2>1. unannounced \subseteq Run
    BY <1>0 DEF TypeOK
  <2> QED BY <1>0, <1>1, <1>4, <2>1 DEF IInv, Good, UnannouncedIsMarked
<1>10. \A b \in Handler : b # a /\ Busy(b) => saved'[req[b].run].pending = saved[req[b].run].pending
  <2>1. ASSUME NEW b \in Handler, b # a, Busy(b) PROVE req[b].run \in Run /\ req[b].run # req[a].run
    <3>1. b \in Actor
      BY DEF Actor
    <3> QED BY <1>0, <1>1, <2>1, <3>1, BusyIs, OwnRun DEF IInv
  <2> QED BY <1>4, <2>1
<1>11. /\ closed' \subseteq Run \X {"ingest", "probe"} /\ unannounced' \subseteq unannounced
       /\ \A r \in Run : <<r, "ingest">> \in closed' => <<r, "ingest">> \in closed \/ saved'[r].done = Wave
  BY <1>0 DEF TypeOK
<1> QED BY <1>0, <1>4, <1>6, <1>8, <1>9, <1>10, <1>11, AfterPreserves

LEMMA ClosePreserves ==
  ASSUME IInv, NEW a \in Actor, Close(a)
  PROVE  IInv'
<1>0. /\ req[a].pc = "close" /\ Busy(a) /\ ~InRoot(a) /\ Sound(a) /\ TypeOK /\ Finish(a)
      /\ UNCHANGED <<disk, saved, unannounced, pasted, asked, residue, cuts, scan, scanned>>
  BY DEF Close, Busy, InRoot, IInv
<1>1. /\ a \in Handler /\ req[a].run \in Run /\ req[a].state.done = saved[req[a].run].done
  BY <1>0, BusyIs DEF Sound, Shaped, Holds, Uncommitted
<1>2. \/ closed' = closed
      \/ closed' = closed \cup {<<req[a].run, "ingest">>} /\ saved[req[a].run].done = Wave
  BY <1>1 DEF Close
<1>3. /\ closed' \subseteq Run \X {"ingest", "probe"}
      /\ \A r \in Run : <<r, "ingest">> \in closed' => <<r, "ingest">> \in closed \/ saved'[r].done = Wave
  BY <1>0, <1>1, <1>2 DEF TypeOK
<1>4. /\ saved' \in [Run -> RunState] /\ unannounced' \subseteq unannounced
      /\ \A r \in Run : saved'[r].done = saved[r].done
      /\ \A b \in Handler : b # a /\ Busy(b) => saved'[req[b].run].pending = saved[req[b].run].pending
      /\ UnannouncedIsMarked'
  BY <1>0 DEF TypeOK, IInv, Good, UnannouncedIsMarked
<1>5. /\ Becomes(a, "none", NoFile, {}, "idle", <<>>, Empty) /\ req'[a].state \in RunState
      /\ "none" \in Op /\ "idle" \in Pc \ {"write", "undo"} /\ <<>> \in Seq(File) /\ IsDisk(Empty)
      /\ Sound(a)'
  BY <1>0, OverIs
<1>6. NoFile \in Run \cup {NoFile} /\ {} \in SUBSET Wave
  OBVIOUS
<1> QED BY <1>0, <1>3, <1>4, <1>5, <1>6, AfterPreserves

LEMMA ProbePreserves ==
  ASSUME IInv, Probe
  PROVE  IInv'
<1>1. /\ disk[Index] # NoFile /\ closed' = closed \cup {<<disk[Index].run, "probe">>}
      /\ UNCHANGED <<disk, saved, req, unannounced, pasted, asked, residue, cuts, scan, scanned>>
  BY DEF Probe, Complete
<1>2. disk[Index].run \in Run
  BY <1>1 DEF IInv, TypeOK, IsDisk, IndexRecord
<1>3. TypeOK'
  BY <1>1, <1>2 DEF IInv, TypeOK
<1>4. ASSUME NEW b \in Actor PROVE Sound(b)'
  <2>1. Announced(b)
    BY DEF IInv, Sound
  <2>2. Undisturbed(b)
    BY <1>1, <2>1 DEF Undisturbed, Announced
  <2> QED BY <2>2, UndisturbedSound DEF IInv
<1>5. Locked'
  BY <1>1 DEF IInv, Locked, Busy, InRoot
<1>6. Good'
  <2>1. Quietly
    BY <1>1 DEF Quietly, RootFree, InRoot
  <2>2. VisibleIsAccepted' /\ CompleteHasHandoff' /\ AcceptedKeepsHistory'
    BY <2>1, QuietlyGood DEF IInv
  <2>3. UnannouncedIsMarked' /\ ClosedIsAccepted'
    BY <1>1 DEF IInv, Good, UnannouncedIsMarked, ClosedIsAccepted
  <2> QED BY <2>2, <2>3 DEF Good
<1> QED BY <1>3, <1>4, <1>5, <1>6 DEF IInv

LEMMA CrashPreserves ==
  ASSUME IInv, NEW threads \in SUBSET Actor, Crash(threads)
  PROVE  IInv'
<1> PICK cut : cut = \E a \in threads : InRoot(a)
  OBVIOUS
<1>1. /\ cut => cuts < MaxCuts
      /\ cuts' = cuts + (IF cut THEN 1 ELSE 0)
      /\ req' = [a \in Actor |-> IF a \in threads THEN Idle ELSE req[a]]
      /\ UNCHANGED <<disk, saved, unannounced, pasted, closed, asked, residue, scan, scanned>>
  BY DEF Crash
<1>2. cuts' \in 0 .. MaxCuts /\ (cuts' = 0 => cuts = 0 /\ ~cut)
  <2>1. cuts \in 0 .. MaxCuts /\ MaxCuts \in Nat
    BY WaveAssumption DEF IInv, TypeOK
  <2>2. CASE cut
    BY <1>1, <2>1, <2>2
  <2>3. CASE ~cut
    BY <1>1, <2>1, <2>3
  <2> QED BY <2>2, <2>3
<1>3. ASSUME NEW b \in Actor
      PROVE  (b \in threads /\ req'[b] = Idle /\ req'[b].pc = "idle") \/ (b \notin threads /\ req'[b] = req[b])
  BY <1>1 DEF Idle
<1>4. TypeOK'
  <2>1. IsRequest(Idle)
    BY EmptyIsDisk, FreshIs DEF Idle, IsRequest, Op, Pc
  <2>2. DOMAIN req' = Actor /\ \A b \in Actor : IsRequest(req'[b])
    BY <1>1, <1>3, <2>1 DEF IInv, TypeOK
  <2> QED BY <1>1, <1>2, <2>2 DEF IInv, TypeOK
<1>5. Locked'
  <2>1. ASSUME NEW b \in Actor
        PROVE  \/ req'[b].pc = "idle"
               \/ Busy(b) /\ req'[b].run = req[b].run /\ (InRoot(b)' => InRoot(b))
    BY <1>3 DEF Busy, InRoot
  <2> QED BY <2>1, LockedKept DEF IInv
<1>6. ASSUME NEW b \in Actor PROVE Sound(b)'
  <2>1. CASE req'[b].pc = "idle"
    BY <2>1, IdleSound
  <2>2. CASE req'[b] = req[b]
    <3>1. Announced(b)
      BY DEF IInv, Sound
    <3>2. Undisturbed(b)
      BY <1>1, <1>2, <2>2, <3>1 DEF Undisturbed, Announced
    <3> QED BY <3>2, UndisturbedSound DEF IInv
  <2> QED BY <1>3, <2>1, <2>2
<1>7. Good'
  <2>1. ASSUME RootFree', cuts' = 0, NEW b \in Actor PROVE ~InRoot(b)
    <3>1. ~InRoot(b)' /\ ~cut
      BY <1>2, <2>1 DEF RootFree
    <3> QED BY <1>3, <3>1 DEF InRoot
  <2>2. Quietly
    BY <1>1, <1>2, <2>1 DEF Quietly, RootFree
  <2>3. VisibleIsAccepted' /\ CompleteHasHandoff' /\ AcceptedKeepsHistory'
    BY <2>2, QuietlyGood DEF IInv
  <2>4. UnannouncedIsMarked' /\ ClosedIsAccepted'
    BY <1>1 DEF IInv, Good, UnannouncedIsMarked, ClosedIsAccepted
  <2> QED BY <2>3, <2>4 DEF Good
<1> QED BY <1>4, <1>5, <1>6, <1>7 DEF IInv

-----------------------------------------------------------------------------
(* A file is written. *)

LEMMA WrittenIs ==
  ASSUME IInv, NEW a \in Actor, req[a].pc = "write", NEW f \in File, On(f, req[a].plan)
  PROVE  /\ f = Index =>
              /\ Written(req[a], f) \in IndexRecord
              /\ Written(req[a], f).run = req[a].run
              /\ Written(req[a], f).done = req[a].state.done
         /\ f = Handoff =>
              /\ Written(req[a], f) \in [Wave -> Run] /\ req[a].state.done = Wave
              /\ a \in Handler => \A w \in Wave : Written(req[a], f)[w] = req[a].run
              /\ a \notin Handler => \A w \in Wave : Written(req[a], f)[w] = disk[Latest(w)]
         /\ f # Index /\ f # Handoff => Written(req[a], f) = req[a].run
<1>0. Busy(a) /\ Sound(a)
  BY DEF Busy, IInv
<1>1. /\ req[a].run \in Run /\ req[a].state.done \in SUBSET Wave
      /\ a \in Handler <=> req[a].op # "paste"
  BY <1>0, BusyIs, RequestIs DEF IInv
<1>2. CASE f = Index
  <2>1. Written(req[a], f) = [run |-> req[a].run, done |-> req[a].state.done]
    BY <1>2, FileIs DEF Written
  <2> QED BY <1>1, <1>2, <2>1, FileIs DEF IndexRecord
<1>3. CASE f = Handoff
  <2>1. Written(req[a], f) = Synthesis(req[a])
    BY <1>3, FileIs DEF Written
  <2>2. req[a].state.done = Wave
    BY <1>0, <1>3 DEF Sound, Planned
  <2>3. CASE a \in Handler
    <3>1. Written(req[a], f) = AllOf(req[a].run)
      BY <1>1, <2>1, <2>3 DEF Synthesis
    <3>2. Written(req[a], f) \in [Wave -> Run] /\ \A w \in Wave : Written(req[a], f)[w] = req[a].run
      BY <1>1, <3>1 DEF AllOf
    <3> QED BY <1>3, <2>2, <2>3, <3>2, FileIs
  <2>4. CASE a \notin Handler
    <3>1. Written(req[a], f) = [w \in Wave |-> disk[Latest(w)]]
      BY <1>1, <2>1, <2>4 DEF Synthesis
    <3>2. \A w \in Wave : disk[Latest(w)] # NoFile
      BY <1>0, <1>1, <2>2, <2>4 DEF Sound, Wrote
    <3>3. \A w \in Wave : disk[Latest(w)] \in Run
      BY <3>2 DEF IInv, TypeOK, IsDisk, LatestFile
    <3> QED BY <1>3, <2>2, <2>4, <3>1, <3>3, FileIs
  <2> QED BY <2>3, <2>4
<1>4. CASE f # Index /\ f # Handoff
  BY <1>4 DEF Written
<1> QED BY <1>2, <1>3, <1>4

\* The disk with one file changed to what such a file may hold.
LEMMA DiskType ==
  ASSUME NEW d, IsDisk(d), NEW f \in File, NEW v, NEW e,
         DOMAIN e = File, e[f] = v, \A g \in File : g # f => e[g] = d[g],
         f = Index => v \in IndexRecord \cup {NoFile},
         f = Handoff => v \in [Wave -> Run] \cup {NoFile},
         f # Index /\ f # Handoff => v \in Run \cup {NoFile}
  PROVE  IsDisk(e)
<1>2. ASSUME NEW g \in LatestFile \cup HistoryFile PROVE e[g] \in Run \cup {NoFile}
  <2>1. g \in File /\ g # Index /\ g # Handoff
    BY FileIs DEF File, LatestFile, HistoryFile
  <2> QED BY <2>1 DEF IsDisk
<1>3. e[Handoff] \in [Wave -> Run] \cup {NoFile} /\ e[Index] \in IndexRecord \cup {NoFile}
  BY FileIs DEF IsDisk
<1> QED BY <1>2, <1>3 DEF IsDisk

LEMMA WriteFilePreserves ==
  ASSUME IInv, NEW a \in Actor, WriteFile(a)
  PROVE  IInv'
<1> DEFINE run == req[a].run
           plan == req[a].plan
           done == req[a].state.done
<1> PICK f : f = Head(plan)
  OBVIOUS
<1> PICK v : v = Written(req[a], f)
  OBVIOUS
<1>0. /\ req[a].pc = "write" /\ plan # <<>> /\ Busy(a) /\ InRoot(a) /\ Sound(a) /\ TypeOK
      /\ disk' = [disk EXCEPT ![f] = v]
      /\ req' = [req EXCEPT ![a].plan = Tail(plan)]
      /\ UNCHANGED <<saved, unannounced, pasted, closed, asked, residue, cuts, scan, scanned>>
  BY DEF WriteFile, Busy, InRoot, IInv
<1>1. /\ run \in Run /\ req[a].waves \in SUBSET Wave /\ done \in SUBSET Wave /\ plan \in Seq(File)
      /\ req[a].op \in {"submit", "retry", "refinal", "materialize", "paste"}
      /\ a \in Handler <=> req[a].op # "paste"
      /\ \A g : On(g, Paths(req[a])) <=> Touches(req[a], g)
  BY <1>0, BusyIs, RequestIs
<1>2. /\ f \in File /\ Tail(plan) \in Seq(File) /\ On(f, plan)
      /\ \A g : On(g, Tail(plan)) => On(g, plan)
      /\ \A g : On(g, plan) => g = f \/ On(g, Tail(plan))
      /\ IndexLast(Tail(plan))
      /\ f = Index => Tail(plan) = <<>> /\ \A g : On(g, plan) => g = Index
  <2>1. IndexLast(plan)
    BY <1>0 DEF Sound, Planned
  <2> HIDE DEF plan
  <2> QED BY <1>0, <1>1, <2>1, OnTail, LastTail
<1> HIDE DEF plan
<1>3. /\ f = Index => v \in IndexRecord /\ v.run = run /\ v.done = done
      /\ f = Handoff =>
           /\ v \in [Wave -> Run] /\ done = Wave
           /\ a \in Handler => \A w \in Wave : v[w] = run
           /\ a \notin Handler => \A w \in Wave : v[w] = disk[Latest(w)]
      /\ f # Index /\ f # Handoff => v = run
  BY <1>0, <1>2, WrittenIs DEF plan
<1>4. IsDisk(disk') /\ disk'[f] = v /\ \A g \in File : g # f => disk'[g] = disk[g]
  <2> PICK d : d = disk
    OBVIOUS
  <2> PICK e : e = disk'
    OBVIOUS
  <2>1. IsDisk(d) /\ DOMAIN e = File /\ e[f] = v /\ \A g \in File : g # f => e[g] = d[g]
    BY <1>0, <1>2 DEF TypeOK, IsDisk
  <2>2. /\ f = Index => v \in IndexRecord \cup {NoFile}
        /\ f = Handoff => v \in [Wave -> Run] \cup {NoFile}
        /\ f # Index /\ f # Handoff => v \in Run \cup {NoFile}
    BY <1>1, <1>3
  <2>3. IsDisk(e)
    BY <1>2, <2>1, <2>2, DiskType
  <2> QED BY <2>1, <2>3
<1>5. /\ Becomes(a, req[a].op, run, req[a].waves, "write", Tail(plan), req[a].before)
      /\ req'[a].state = req[a].state
  BY <1>0, RequestIs DEF Becomes, RequestFields
<1>6. /\ req'[a].pc = "write" /\ req'[a].op = req[a].op /\ req'[a].run = req[a].run
      /\ req'[a].waves = req[a].waves /\ req'[a].plan = Tail(plan)
      /\ req'[a].before = req[a].before /\ req'[a].state = req[a].state
      /\ Paths(req'[a]) = Paths(req[a])
  <2>1. /\ req'[a].pc = "write" /\ req'[a].op = req[a].op /\ req'[a].run = req[a].run
        /\ req'[a].waves = req[a].waves /\ req'[a].plan = Tail(plan)
        /\ req'[a].before = req[a].before /\ req'[a].state = req[a].state
    BY <1>5 DEF Becomes
  <2> QED BY <2>1 DEF Paths
<1>7. TypeOK'
  <2>1. /\ req[a].op \in Op /\ run \in Run \cup {NoFile} /\ "write" \in Pc
        /\ IsDisk(req[a].before) /\ req'[a].state \in RunState
    BY <1>0, <1>6, RequestIs DEF Pc
  <2>2. DOMAIN req' = Actor /\ \A b \in Actor : IsRequest(req'[b])
    BY <1>0, <1>1, <1>2, <1>5, <2>1, BecomesType
  <2> QED BY <1>0, <1>4, <2>2 DEF TypeOK
\* What it changes and what it does not.
<1>8. v # NoFile
  BY <1>1, <1>3, WaveFacts
<1>9. \A g \in File : disk[g] # NoFile => disk'[g] # NoFile
  BY <1>4, <1>8
<1>10. Touches(req[a], f)
  BY <1>0, <1>1, <1>2 DEF Sound, Planned, plan
<1>11. /\ Index \in File /\ Handoff \in File /\ Index # Handoff
       /\ \A w \in Wave : Latest(w) \in File /\ Latest(w) # Index /\ Latest(w) # Handoff
       /\ \A r \in Run : \A w \in 0 .. Waves :
            History(r, w) \in File /\ History(r, w) # Index /\ History(r, w) # Handoff
       /\ \A w \in Wave : w \in 0 .. Waves /\ w # 0
  BY FileIs, WaveFacts
<1>12. ASSUME NEW w \in Wave, f = Latest(w) PROVE w \in req[a].waves
  BY <1>10, <1>12, <1>11, FileIs DEF Touches
<1>13. ASSUME NEW r \in Run, NEW w \in Wave, f = History(r, w)
       PROVE  r = run /\ w \in req[a].waves /\ req[a].op # "paste"
  BY <1>10, <1>13, <1>11, FileIs DEF Touches
<1>14. Shaped(a)' /\ Holds(a)' /\ Announced(a)' /\ Planned(a)' /\ Todo(a)' /\ Undone(a)'
  <2>1. Shaped(a)' /\ Announced(a)' /\ Todo(a)' /\ Undone(a)'
    BY <1>0, <1>6 DEF Sound, Shaped, Announced, Todo, Undone, Busy
  <2>2. Holds(a)'
    BY <1>0, <1>6 DEF Sound, Holds, Uncommitted, Busy
  <2>3. Planned(a)'
    <3>1. /\ \A g : On(g, plan) => On(g, Paths(req[a]))
          /\ On(Handoff, plan) => done = Wave
          /\ On(Index, plan) => req[a].op \notin {"retry", "refinal"} /\ done # {}
      BY <1>0 DEF Sound, Planned, plan
    <3> QED BY <1>2, <1>6, <3>1 DEF Planned
  <2> QED BY <2>1, <2>2, <2>3
<1>15. Wrote(a)'
  <2>1. /\ On(Index, plan) /\ done = Wave => On(Handoff, plan) \/ disk[Handoff] # NoFile
        /\ req[a].op = "submit" =>
             \A w \in req[a].waves : On(History(run, w), plan) \/ disk[History(run, w)] = run
        /\ req[a].op = "paste" =>
             /\ req[a].waves # {}
             /\ \A w \in req[a].waves : On(Latest(w), plan) \/ disk[Latest(w)] # NoFile
             /\ \A w \in done : disk[Latest(w)] # NoFile
             /\ disk[Index] = req[a].before[Index]
        /\ \A g \in File : ~On(g, Paths(req[a])) => AsFound(disk, req[a].before, g)
    BY <1>0 DEF Sound, Wrote, plan
  <2>2. On(Index, Tail(plan)) /\ done = Wave => On(Handoff, Tail(plan)) \/ disk'[Handoff] # NoFile
    BY <1>2, <1>4, <1>8, <1>9, <1>11, <2>1
  <2>3. ASSUME req[a].op = "submit", NEW w \in req[a].waves
        PROVE  On(History(run, w), Tail(plan)) \/ disk'[History(run, w)] = run
    <3>1. History(run, w) \in File /\ History(run, w) # Index /\ History(run, w) # Handoff
      BY <1>1, <1>11
    <3>2. On(History(run, w), plan) \/ disk[History(run, w)] = run
      BY <2>1, <2>3
    <3>3. CASE f = History(run, w)
      BY <1>3, <1>4, <3>1, <3>3
    <3>4. CASE f # History(run, w)
      BY <1>2, <1>4, <3>1, <3>2, <3>4
    <3> QED BY <3>3, <3>4
  <2>4. ASSUME req[a].op = "paste"
        PROVE  /\ \A w \in req[a].waves : On(Latest(w), Tail(plan)) \/ disk'[Latest(w)] # NoFile
               /\ \A w \in done : disk'[Latest(w)] # NoFile
               /\ Tail(plan) # <<>> \/ done = {} => disk'[Index] = req[a].before[Index]
    <3>1. ASSUME NEW w \in req[a].waves PROVE On(Latest(w), Tail(plan)) \/ disk'[Latest(w)] # NoFile
      <4>1. Latest(w) \in File /\ (On(Latest(w), plan) \/ disk[Latest(w)] # NoFile)
        BY <1>1, <1>11, <2>1, <2>4
      <4> QED BY <1>2, <1>4, <1>8, <1>9, <4>1
    <3>2. \A w \in done : disk'[Latest(w)] # NoFile
      BY <1>1, <1>9, <1>11, <2>1, <2>4
    <3>3. ASSUME f = Index PROVE Tail(plan) = <<>> /\ done # {}
      BY <1>0, <1>2, <3>3 DEF Sound, Planned, plan
    <3>4. f # Index => disk'[Index] = disk[Index]
      BY <1>4, <1>11
    <3> QED BY <2>1, <2>4, <3>1, <3>2, <3>3, <3>4
  <2>5. ASSUME NEW g \in File, ~On(g, Paths(req[a])) PROVE AsFound(disk', req[a].before, g)
    <3>1. g # f
      BY <1>1, <1>10, <2>5
    <3> QED BY <1>4, <2>1, <2>5, <3>1 DEF AsFound
  <2> QED BY <1>0, <1>6, <2>1, <2>2, <2>3, <2>4, <2>5 DEF Wrote, AsFound
<1>16. Snapped(a)'
  <2> PICK d : d = req[a].before
    OBVIOUS
  <2>1. /\ KeepsHistory(d) /\ (residue = 0 => HasHandoff(d)) /\ (residue = 0 /\ cuts = 0 => Shown(d))
        /\ d[Handoff] # NoFile => disk[Handoff] # NoFile
    BY <1>0 DEF Sound, Snapped
  <2>2. KeepsHistory(d)' /\ (HasHandoff(d) => HasHandoff(d)') /\ (Shown(d) => Shown(d)')
    BY <1>0, <2>1 DEF KeepsHistory, HasHandoff, Shown, Accepted, Complete
  <2> QED BY <1>0, <1>6, <1>9, <1>11, <2>1, <2>2 DEF Snapped
<1>17. Showing(a)'
  <2> SUFFICES ASSUME residue = 0, cuts = 0, NEW w \in Wave
               PROVE  /\ disk'[Latest(w)] # NoFile => Soon(a, disk'[Latest(w)], w)
                      /\ disk'[Handoff] \notin {NoFile} \cup scanned => Soon(a, disk'[Handoff][w], w)
                      /\ \A r \in Run : disk'[History(r, w)] # NoFile => Saving(a, r, w)
                      /\ disk'[Index] # NoFile /\ w \in disk'[Index].done => \E r \in Run : Soon(a, r, w)
    <3>1. \A r, x : (Soon(a, r, x) => Soon(a, r, x)') /\ (Saving(a, r, x) => Saving(a, r, x)')
      BY <1>0, <1>6 DEF Soon, Saving, Accepted
    <3> QED BY <1>0, <3>1 DEF Showing
  <2>1. \A x \in Wave :
           /\ disk[Latest(x)] # NoFile => Soon(a, disk[Latest(x)], x)
           /\ disk[Handoff] \notin {NoFile} \cup scanned => Soon(a, disk[Handoff][x], x)
           /\ \A r \in Run : disk[History(r, x)] # NoFile => Saving(a, r, x)
           /\ disk[Index] # NoFile /\ x \in disk[Index].done => \E r \in Run : Soon(a, r, x)
    BY <1>0 DEF Sound, Showing
  <2>2. \A x \in req[a].waves : Soon(a, run, x)
    BY DEF Soon
  <2>3. a \in Handler => \A x \in done : Soon(a, run, x)
    BY <1>0, <1>1 DEF Sound, Holds, Soon, Accepted
  <2>4. a \notin Handler => \A x \in done : disk[Latest(x)] # NoFile /\ disk[Latest(x)] \in Run
    <3>1. a \notin Handler => \A x \in done : disk[Latest(x)] # NoFile
      BY <1>0, <1>1 DEF Sound, Wrote
    <3>2. \A x \in Wave : disk[Latest(x)] \in Run \cup {NoFile}
      BY <1>0 DEF TypeOK, IsDisk, LatestFile
    <3> QED BY <1>1, <3>1, <3>2
  <2>5. disk'[Latest(w)] # NoFile => Soon(a, disk'[Latest(w)], w)
    <3>1. CASE f = Latest(w)
      BY <1>3, <1>4, <1>11, <1>12, <2>2, <3>1
    <3>2. CASE f # Latest(w)
      BY <1>4, <1>11, <2>1, <3>2
    <3> QED BY <3>1, <3>2
  <2>6. disk'[Handoff] \notin {NoFile} \cup scanned => Soon(a, disk'[Handoff][w], w)
    <3>1. CASE f = Handoff /\ a \in Handler
      BY <1>3, <1>4, <2>3, <3>1
    <3>2. CASE f = Handoff /\ a \notin Handler
      <4>1. disk'[Handoff][w] = disk[Latest(w)] /\ disk[Latest(w)] # NoFile
        BY <1>3, <1>4, <2>4, <3>2
      <4> QED BY <2>1, <4>1
    <3>3. CASE f # Handoff
      BY <1>4, <1>11, <2>1, <3>3
    <3> QED BY <3>1, <3>2, <3>3
  <2>7. ASSUME NEW r \in Run, disk'[History(r, w)] # NoFile PROVE Saving(a, r, w)
    <3>1. CASE f = History(r, w)
      <4>1. r = run /\ w \in req[a].waves /\ a \in Handler
        BY <1>1, <1>13, <3>1
      <4> QED BY <1>0, <1>1, <4>1 DEF Sound, Holds, Uncommitted, Saving
    <3>2. CASE f # History(r, w)
      BY <1>4, <1>11, <2>1, <2>7, <3>2
    <3> QED BY <3>1, <3>2
  <2>8. ASSUME disk'[Index] # NoFile, w \in disk'[Index].done PROVE \E r \in Run : Soon(a, r, w)
    <3>1. CASE f = Index /\ a \in Handler
      <4>1. w \in done
        BY <1>3, <1>4, <2>8, <3>1
      <4> QED BY <1>1, <2>3, <3>1, <4>1
    <3>2. CASE f = Index /\ a \notin Handler
      <4>1. w \in done
        BY <1>3, <1>4, <2>8, <3>2
      <4> QED BY <1>1, <2>1, <2>4, <3>2, <4>1
    <3>3. CASE f # Index
      BY <1>4, <1>11, <2>1, <2>8, <3>3
    <3> QED BY <3>1, <3>2, <3>3
  <2> QED BY <2>5, <2>6, <2>7, <2>8
<1>18. Sound(a)'
  BY <1>14, <1>15, <1>16, <1>17 DEF Sound
<1>19. ASSUME NEW b \in Actor, b # a PROVE Undisturbed(b)
  <2>1. req'[b] = req[b] /\ ~InRoot(b) /\ Announced(b)
    BY <1>0, <1>5, <1>19, OwnRoot DEF Becomes, IInv, Sound
  <2> QED BY <1>0, <2>1 DEF Undisturbed, Announced
<1>20. Good'
  <2>1. VisibleIsAccepted'
    BY <1>6 DEF VisibleIsAccepted, RootFree, InRoot
  <2>2. CompleteHasHandoff'
    <3> SUFFICES ASSUME residue = 0, Complete(disk') PROVE disk'[Handoff] # NoFile
      BY <1>0 DEF CompleteHasHandoff, Complete
    <3>1. CASE f = Index
      <4>1. done = Wave
        BY <1>3, <1>4, <3>1 DEF Complete
      <4>2. On(Index, plan) /\ ~On(Handoff, plan)
        BY <1>2, <1>11, <3>1
      <4>3. disk[Handoff] # NoFile
        BY <1>0, <4>1, <4>2 DEF Sound, Wrote, plan
      <4> QED BY <1>9, <1>11, <4>3
    <3>2. CASE f = Handoff
      BY <1>4, <1>8, <3>2
    <3>3. CASE f # Index /\ f # Handoff
      BY <1>4, <1>11, <3>3 DEF IInv, Good, CompleteHasHandoff, Complete
    <3> QED BY <3>1, <3>2, <3>3
  <2>3. AcceptedKeepsHistory'
    <3>1. ASSUME NEW r \in Run, NEW w \in saved[r].done PROVE disk'[History(r, w)] = r
      <4>1. w \in Wave /\ disk[History(r, w)] = r
        BY <1>0 DEF IInv, Good, AcceptedKeepsHistory, TypeOK, RunState
      <4>2. CASE f = History(r, w)
        BY <1>3, <1>4, <1>11, <1>13, <4>1, <4>2
      <4>3. CASE f # History(r, w)
        BY <1>4, <1>11, <4>1, <4>3
      <4> QED BY <4>2, <4>3
    <3> QED BY <1>0, <3>1 DEF AcceptedKeepsHistory
  <2>4. UnannouncedIsMarked' /\ ClosedIsAccepted'
    BY <1>0 DEF IInv, Good, UnannouncedIsMarked, ClosedIsAccepted
  <2> QED BY <2>1, <2>2, <2>3, <2>4 DEF Good
<1> QED BY <1>0, <1>5, <1>7, <1>18, <1>19, <1>20, StepPreserves

-----------------------------------------------------------------------------
(* A file is restored. *)

LEMMA RestorePreserves ==
  ASSUME IInv, NEW a \in Actor, Restore(a)
  PROVE  IInv'
<1> DEFINE plan == req[a].plan
           old  == req[a].before
<1> PICK f : f = Head(plan)
  OBVIOUS
<1>0. /\ req[a].pc = "undo" /\ plan # <<>> /\ Busy(a) /\ InRoot(a) /\ Sound(a) /\ TypeOK
      /\ \/ disk' = [disk EXCEPT ![f] = old[f]] /\ residue' = residue
         \/ residue < MaxResidue /\ residue' = residue + 1 /\ disk' = disk
      /\ IF Len(plan) = 1 THEN Finish(a) ELSE req' = [req EXCEPT ![a].plan = Tail(plan)]
      /\ UNCHANGED <<saved, unannounced, pasted, closed, asked, cuts, scan, scanned>>
  BY DEF Restore, Restored, Busy, InRoot, IInv
<1>1. /\ req[a].run \in Run /\ req[a].waves \in SUBSET Wave /\ plan \in Seq(File)
      /\ IsDisk(old) /\ IsDisk(disk) /\ residue \in 0 .. MaxResidue /\ MaxResidue \in Nat
  BY <1>0, BusyIs, RequestIs, WaveAssumption DEF TypeOK
<1>2. /\ f \in File /\ Tail(plan) \in Seq(File)
      /\ \A g : On(g, Tail(plan)) => On(g, plan)
      /\ \A g : On(g, plan) => g = f \/ On(g, Tail(plan))
      /\ Len(plan) = 1 => \A g : ~On(g, Tail(plan))
  <2> HIDE DEF plan
  <2>1. Len(plan) = 1 => \A g : ~On(g, Tail(plan))
    <3>1. Len(plan) = 1 => Len(Tail(plan)) = 0
      BY <1>0, <1>1, HeadTailProperties
    <3> QED BY <3>1 DEF On
  <2> QED BY <1>0, <1>1, <2>1, OnTail
<1> HIDE DEF plan
<1>3. /\ IsDisk(disk') /\ \A g \in File : g # f => disk'[g] = disk[g]
      /\ disk'[f] \in {disk[f], old[f]}
      /\ residue' \in 0 .. MaxResidue
      /\ residue' = 0 => residue = 0 /\ disk'[f] = old[f]
  <2>1. CASE disk' = [disk EXCEPT ![f] = old[f]] /\ residue' = residue
    <3> PICK d : d = disk
      OBVIOUS
    <3> PICK e : e = disk'
      OBVIOUS
    <3> PICK v : v = old[f]
      OBVIOUS
    <3>1. IsDisk(d) /\ DOMAIN e = File /\ e[f] = v /\ \A g \in File : g # f => e[g] = d[g]
      BY <1>1, <1>2, <2>1 DEF IsDisk
    <3>2. /\ f = Index => v \in IndexRecord \cup {NoFile}
          /\ f = Handoff => v \in [Wave -> Run] \cup {NoFile}
          /\ f # Index /\ f # Handoff => v \in Run \cup {NoFile}
      BY <1>1, <1>2 DEF IsDisk, File
    <3>3. IsDisk(e)
      BY <1>2, <3>1, <3>2, DiskType
    <3> QED BY <1>1, <2>1, <3>1, <3>3
  <2>2. CASE residue < MaxResidue /\ residue' = residue + 1 /\ disk' = disk
    BY <1>1, <2>2
  <2> QED BY <1>0, <2>1, <2>2
<1>4. /\ KeepsHistory(old)
      /\ old[Handoff] # NoFile => disk[Handoff] # NoFile
      /\ residue = 0 => HasHandoff(old)
      /\ residue = 0 /\ cuts = 0 => Shown(old)
  BY <1>0 DEF Sound, Snapped
<1>5. /\ \A g : On(g, plan) => On(g, Paths(req[a]))
      /\ residue = 0 => \A g \in File : ~On(g, plan) => AsFound(disk, old, g)
      /\ req[a].op = "paste" => disk[Index] = old[Index]
      /\ req[a].op # "paste" => IndexFirst(plan)
  BY <1>0 DEF Sound, Undone, plan
<1>6. residue' = 0 => \A g \in File : ~On(g, Tail(plan)) => AsFound(disk', old, g)
  BY <1>2, <1>3, <1>5 DEF AsFound
<1>7. Index \in File /\ Handoff \in File /\ Index # Handoff
  BY FileIs
\* The properties of the disk.
<1>8. CompleteHasHandoff'
  <2> SUFFICES ASSUME residue' = 0, Complete(disk') PROVE disk'[Handoff] # NoFile
    BY DEF CompleteHasHandoff, Complete
  <2>1. residue = 0 /\ disk'[f] = old[f] /\ HasHandoff(old)
    BY <1>3, <1>4
  <2>2. CASE f = Handoff
    <3>1. disk'[Index] = disk[Index]
      BY <1>3, <1>7, <2>2
    <3>2. disk[Index] = old[Index]
      <4>1. CASE req[a].op = "paste"
        BY <1>5, <4>1
      <4>2. CASE req[a].op # "paste"
        <5>1. IndexFirst(plan) /\ Head(plan) = Handoff
          BY <1>5, <2>2, <4>2 DEF plan
        <5>2. ~On(Index, plan)
          BY <1>0, <1>1, <5>1, FirstTail
        <5> QED BY <1>5, <1>7, <2>1, <5>2 DEF AsFound
      <4> QED BY <4>1, <4>2
    <3> QED BY <2>1, <2>2, <3>1, <3>2 DEF HasHandoff, Complete
  <2>3. CASE f = Index
    <3>1. old[Handoff] # NoFile
      BY <2>1, <2>3 DEF HasHandoff, Complete
    <3> QED BY <1>3, <1>4, <1>7, <2>3, <3>1
  <2>4. CASE f # Handoff /\ f # Index
    <3>1. disk'[Handoff] = disk[Handoff] /\ disk'[Index] = disk[Index]
      BY <1>3, <1>7, <2>4
    <3> QED BY <2>1, <3>1 DEF IInv, Good, CompleteHasHandoff, Complete
  <2> QED BY <2>2, <2>3, <2>4
<1>9. AcceptedKeepsHistory'
  <2>1. ASSUME NEW r \in Run, NEW w \in saved[r].done PROVE disk'[History(r, w)] = r
    <3>1. w \in Wave /\ disk[History(r, w)] = r /\ old[History(r, w)] = r
      BY <1>0, <1>4 DEF IInv, Good, AcceptedKeepsHistory, KeepsHistory, TypeOK, RunState
    <3>2. History(r, w) \in File
      BY <3>1, FileIs, WaveFacts
    <3> QED BY <1>3, <3>1, <3>2
  <2> QED BY <1>0, <2>1 DEF AcceptedKeepsHistory
<1>10. UnannouncedIsMarked' /\ ClosedIsAccepted'
  BY <1>0 DEF IInv, Good, UnannouncedIsMarked, ClosedIsAccepted
<1>11. ASSUME NEW b \in Actor, b # a, req'[b] = req[b] PROVE Undisturbed(b)
  <2>1. ~InRoot(b) /\ Announced(b)
    BY <1>0, <1>11, OwnRoot DEF IInv, Sound
  <2> QED BY <1>0, <1>3, <1>11, <2>1 DEF Undisturbed, Announced
\* The last file, or one of several.
<1>12. CASE Len(plan) = 1
  <2>1. /\ Becomes(a, "none", NoFile, {}, "idle", <<>>, Empty) /\ req'[a].state \in RunState
        /\ "none" \in Op /\ "idle" \in Pc \ {"write", "undo"} /\ <<>> \in Seq(File) /\ IsDisk(Empty)
        /\ Sound(a)'
    BY <1>0, <1>12, OverIs
  <2>2. TypeOK'
    <3>1. NoFile \in Run \cup {NoFile} /\ {} \in SUBSET Wave
      OBVIOUS
    <3>2. DOMAIN req' = Actor /\ \A b \in Actor : IsRequest(req'[b])
      BY <1>0, <2>1, <3>1, BecomesType
    <3> QED BY <1>0, <1>3, <3>2 DEF TypeOK
  <2>3. VisibleIsAccepted'
    <3> SUFFICES ASSUME residue' = 0, cuts' = 0 PROVE VisibleIsAccepted'
      BY DEF VisibleIsAccepted
    <3>1. Shown(old) /\ \A g \in File : AsFound(disk', old, g)
      BY <1>0, <1>2, <1>3, <1>4, <1>6, <1>12
    <3>2. \A r, w : Accepted(r, w) => Accepted(r, w)'
      BY <1>0 DEF Accepted
    <3>3. saved' = saved /\ scanned' = scanned
      BY <1>0
    <3>4. ASSUME NEW w \in Wave
          PROVE  /\ disk'[Latest(w)] # NoFile => Accepted(disk[Latest(w)], w)'
                 /\ disk'[Handoff] \notin {NoFile} \cup scanned => Accepted(disk[Handoff][w], w)'
                 /\ \A r \in Run : disk'[History(r, w)] # NoFile => w \in saved'[r].done
                 /\ disk'[Index] # NoFile /\ w \in disk'[Index].done => \E r \in Run : Accepted(r, w)'
      <4>1. /\ Latest(w) \in File /\ Latest(w) # Handoff
            /\ \A r \in Run : History(r, w) \in File /\ History(r, w) # Handoff
        BY FileIs, WaveFacts
      <4>2. /\ disk'[Latest(w)] = old[Latest(w)] /\ disk'[Index] = old[Index]
            /\ disk'[Handoff] \notin scanned => disk'[Handoff] = old[Handoff]
        BY <1>7, <3>1, <4>1 DEF AsFound
      <4>3. \A r \in Run : disk'[History(r, w)] = old[History(r, w)]
        BY <3>1, <4>1 DEF AsFound
      <4>4. /\ old[Latest(w)] # NoFile => Accepted(old[Latest(w)], w)
            /\ old[Handoff] \notin {NoFile} \cup scanned => Accepted(old[Handoff][w], w)
            /\ \A r \in Run : old[History(r, w)] # NoFile => w \in saved[r].done
            /\ old[Index] # NoFile /\ w \in old[Index].done => \E r \in Run : Accepted(r, w)
        BY <3>1 DEF Shown
      <4>5. \A r \in Run : disk'[History(r, w)] # NoFile => w \in saved'[r].done
        BY <3>3, <4>3, <4>4
      <4>6. disk'[Latest(w)] # NoFile => Accepted(disk[Latest(w)], w)'
        <5> PICK x : x = old[Latest(w)]
          OBVIOUS
        <5>1. x # NoFile => Accepted(x, w)
          BY <4>4
        <5>2. x # NoFile => Accepted(x, w)'
          BY <3>2, <5>1
        <5>3. disk'[Latest(w)] = x
          BY <4>2
        <5> QED BY <5>2, <5>3 DEF Accepted
      <4>7. disk'[Handoff] \notin {NoFile} \cup scanned => Accepted(disk[Handoff][w], w)'
        <5> SUFFICES ASSUME disk'[Handoff] \notin {NoFile} \cup scanned
                     PROVE  Accepted(disk[Handoff][w], w)'
          OBVIOUS
        <5> PICK x : x = old[Handoff]
          OBVIOUS
        <5>1. disk'[Handoff] = x
          BY <4>2
        <5>2. Accepted(x[w], w)
          BY <4>4, <5>1
        <5>3. Accepted(x[w], w)'
          BY <3>2, <5>2
        <5> QED BY <5>1, <5>3 DEF Accepted
      <4>8. disk'[Index] # NoFile /\ w \in disk'[Index].done => \E r \in Run : Accepted(r, w)'
        BY <3>2, <4>2, <4>4
      <4> QED BY <4>5, <4>6, <4>7, <4>8
    <3> QED BY <3>3, <3>4 DEF VisibleIsAccepted
  <2>4. Good'
    BY <1>8, <1>9, <1>10, <2>3 DEF Good
  <2>5. \A b \in Actor : b # a => Undisturbed(b)
    BY <1>11, <2>1 DEF Becomes
  <2> QED BY <1>0, <2>1, <2>2, <2>4, <2>5, StepPreserves
<1>13. CASE Len(plan) # 1
  <2>1. /\ Becomes(a, req[a].op, req[a].run, req[a].waves, "undo", Tail(plan), old)
        /\ req'[a].state = req[a].state
    BY <1>0, <1>13, RequestIs DEF Becomes, RequestFields
  <2>2. /\ req'[a].pc = "undo" /\ req'[a].op = req[a].op /\ req'[a].run = req[a].run
        /\ req'[a].waves = req[a].waves /\ req'[a].plan = Tail(plan)
        /\ req'[a].before = old /\ req'[a].state = req[a].state
        /\ Paths(req'[a]) = Paths(req[a])
    <3>1. /\ req'[a].pc = "undo" /\ req'[a].op = req[a].op /\ req'[a].run = req[a].run
          /\ req'[a].waves = req[a].waves /\ req'[a].plan = Tail(plan)
          /\ req'[a].before = old /\ req'[a].state = req[a].state
      BY <2>1 DEF Becomes
    <3> QED BY <3>1 DEF Paths
  <2>3. TypeOK'
    <3>1. /\ req[a].op \in Op /\ req[a].run \in Run \cup {NoFile} /\ "undo" \in Pc
          /\ req'[a].state \in RunState
      BY <1>0, <2>2, RequestIs DEF Pc
    <3>2. DOMAIN req' = Actor /\ \A b \in Actor : IsRequest(req'[b])
      <4> HIDE DEF old
      <4> QED BY <1>0, <1>1, <1>2, <2>1, <3>1, BecomesType
    <3> QED BY <1>0, <1>3, <3>2 DEF TypeOK
  <2>4. Shaped(a)' /\ Holds(a)' /\ Announced(a)' /\ Planned(a)' /\ Todo(a)' /\ Wrote(a)' /\ Showing(a)'
    <3>1. Shaped(a)' /\ Announced(a)' /\ Planned(a)' /\ Todo(a)' /\ Wrote(a)' /\ Showing(a)'
      BY <1>0, <2>2 DEF Sound, Shaped, Announced, Planned, Todo, Wrote, Showing, Busy
    <3>2. Holds(a)'
      BY <1>0, <2>2 DEF Sound, Holds, Uncommitted, Busy
    <3> QED BY <3>1, <3>2
  <2>5. Undone(a)'
    <3>1. req[a].op = "paste" => disk'[Index] = old[Index]
      BY <1>3, <1>5, <1>7
    <3>2. req[a].op # "paste" => IndexFirst(Tail(plan))
      BY <1>0, <1>1, <1>5, FirstTail
    <3> QED BY <1>0, <1>2, <1>5, <1>6, <2>2, <3>1, <3>2 DEF Undone, AsFound
  <2>6. Snapped(a)'
    <3> PICK d : d = old
      OBVIOUS
    <3>1. /\ KeepsHistory(d) /\ (residue = 0 => HasHandoff(d)) /\ (residue = 0 /\ cuts = 0 => Shown(d))
          /\ d[Handoff] # NoFile => disk'[Handoff] # NoFile
      BY <1>3, <1>4, <1>7
    <3>2. KeepsHistory(d)' /\ (HasHandoff(d) => HasHandoff(d)') /\ (Shown(d) => Shown(d)')
      BY <1>0, <3>1 DEF KeepsHistory, HasHandoff, Shown, Accepted, Complete
    <3>3. (residue' = 0 => residue = 0) /\ cuts' = cuts /\ req'[a].before = d
      BY <1>0, <1>3, <2>2
    <3> QED BY <3>1, <3>2, <3>3 DEF Snapped
  <2>7. Sound(a)'
    BY <2>4, <2>5, <2>6 DEF Sound
  <2>8. VisibleIsAccepted'
    BY <2>2 DEF VisibleIsAccepted, RootFree, InRoot
  <2>9. Good'
    BY <1>8, <1>9, <1>10, <2>8 DEF Good
  <2>10. \A b \in Actor : b # a => Undisturbed(b)
    BY <1>11, <2>1 DEF Becomes
  <2> QED BY <1>0, <2>1, <2>3, <2>7, <2>9, <2>10, StepPreserves
<1> QED BY <1>12, <1>13

-----------------------------------------------------------------------------
(* A scan. *)

LEMMA NoScanIs == IsScan(NoScan)
BY DEF IsScan, NoScan

\* The run of a scan that has read every wave.
LEMMA ReadIs ==
  ASSUME TypeOK, NEW s \in Scanner, Len(scan[s].read) = Waves
  PROVE  scan[s].read \in [Wave -> Run] /\ scan[s].read[1] \in Run
<1>1. scan[s].read \in Seq(Run)
  BY DEF TypeOK, IsScan
<1> QED BY <1>1, WaveFacts DEF Wave

\* A scan moves and writes no file.
LEMMA ScanMovePreserves ==
  ASSUME IInv, NEW s \in Scanner, NEW q, IsScan(q), scan' = [scan EXCEPT ![s] = q],
         closed' = closed \/ \E r \in Run : closed' = closed \cup {<<r, "probe">>},
         UNCHANGED <<disk, saved, req, unannounced, pasted, asked, residue, cuts, scanned>>
  PROVE  IInv'
<1>1. TypeOK'
  <2>1. DOMAIN scan' = Scanner /\ \A t \in Scanner : IsScan(scan'[t])
    <3>1. ASSUME NEW t \in Scanner PROVE IsScan(scan'[t])
      <4>1. scan'[t] = IF t = s THEN q ELSE scan[t]
        BY DEF IInv, TypeOK
      <4> QED BY <4>1 DEF IInv, TypeOK
    <3> QED BY <3>1 DEF IInv, TypeOK
  <2> QED BY <2>1 DEF IInv, TypeOK
<1>2. ASSUME NEW b \in Actor PROVE Sound(b)'
  <2>1. Announced(b)
    BY DEF IInv, Sound
  <2>2. Undisturbed(b)
    BY <2>1 DEF Undisturbed, Announced
  <2> QED BY <2>2, UndisturbedSound DEF IInv
<1>3. Locked'
  BY DEF IInv, Locked, Busy, InRoot
<1>4. Good'
  <2>1. Quietly
    BY DEF Quietly, RootFree, InRoot
  <2>2. VisibleIsAccepted' /\ CompleteHasHandoff' /\ AcceptedKeepsHistory'
    BY <2>1, QuietlyGood DEF IInv
  <2>3. UnannouncedIsMarked' /\ ClosedIsAccepted'
    BY DEF IInv, Good, UnannouncedIsMarked, ClosedIsAccepted
  <2> QED BY <2>2, <2>3 DEF Good
<1> QED BY <1>1, <1>2, <1>3, <1>4 DEF IInv

\* A scan writes the handoff in the middle of whatever the others do: a transaction
\* does not find the handoff any more that it found, but one that a scan wrote.
LEMMA ScanWritePreserves ==
  ASSUME IInv, NEW s \in Scanner, ScanWrite(s)
  PROVE  IInv'
<1> PICK h : h = scan[s].read
  OBVIOUS
<1>0. /\ scan[s].pc = "write" /\ TypeOK
      /\ disk' = [disk EXCEPT ![Handoff] = h] /\ scanned' = scanned \cup {h}
      /\ scan' = [scan EXCEPT ![s] = NoScan]
      /\ closed' = closed \/ closed' = closed \cup {<<h[1], "probe">>}
      /\ UNCHANGED <<saved, req, unannounced, pasted, asked, residue, cuts>>
  BY DEF ScanWrite, MayClose, IInv
<1>1. h \in [Wave -> Run] /\ h[1] \in Run /\ h # NoFile
  <2>1. h \in [Wave -> Run]
    BY <1>0 DEF TypeOK, IsScan
  <2> QED BY <2>1, WaveFacts
<1>2. /\ IsDisk(disk) /\ IsDisk(disk') /\ disk'[Handoff] = h
      /\ \A f \in File : f # Handoff => disk'[f] = disk[f]
  <2> PICK d : d = disk
    OBVIOUS
  <2> PICK e : e = disk'
    OBVIOUS
  <2>1. IsDisk(d) /\ DOMAIN e = File /\ e[Handoff] = h /\ \A f \in File : f # Handoff => e[f] = d[f]
    BY <1>0, FileIs DEF TypeOK, IsDisk
  <2>2. IsDisk(e)
    BY <1>1, <2>1, FileIs, DiskType
  <2> QED BY <2>1, <2>2
<1>3. TypeOK'
  <2>1. DOMAIN scan' = Scanner /\ \A t \in Scanner : IsScan(scan'[t])
    BY <1>0, NoScanIs DEF TypeOK
  <2> QED BY <1>0, <1>1, <1>2, <2>1 DEF TypeOK
<1>4. /\ \A w \in Wave : disk'[Latest(w)] = disk[Latest(w)]
      /\ \A r \in Run : \A w \in 0 .. Waves : disk'[History(r, w)] = disk[History(r, w)]
      /\ disk'[Index] = disk[Index]
      /\ disk'[Handoff] \in scanned' /\ disk'[Handoff] # NoFile
  BY <1>0, <1>1, <1>2, FileIs
<1>5. ASSUME NEW b \in Actor PROVE Sound(b)'
  <2>0. Sound(b) /\ req'[b] = req[b] /\ IsRequest(req[b])
    BY <1>0 DEF IInv, TypeOK
  <2>1. Shaped(b)' /\ Holds(b)' /\ Announced(b)' /\ Planned(b)' /\ Todo(b)'
    BY <1>0, <2>0 DEF Sound, Shaped, Holds, Announced, Planned, Todo, Busy
  <2>2. Wrote(b)'
    <3> SUFFICES ASSUME req[b].pc = "write" PROVE Wrote(b)'
      BY <2>0 DEF Wrote
    <3>1. Busy(b) /\ req[b].run \in Run /\ req[b].waves \subseteq Wave /\ req[b].state.done \subseteq Wave
      BY <2>0 DEF Sound, Shaped, Busy, IsRequest, RunState
    <3>2. \A f \in File : AsFound(disk, req[b].before, f) => AsFound(disk, req[b].before, f)'
      BY <1>0, <1>2, <2>0 DEF AsFound
    <3>3. \A w \in Wave : w \in 0 .. Waves
      BY WaveFacts
    <3> QED BY <1>4, <2>0, <3>1, <3>2, <3>3 DEF Sound, Wrote, AsFound
  <2>3. Snapped(b)'
    <3> SUFFICES ASSUME InRoot(b) PROVE Snapped(b)'
      BY <2>0 DEF Snapped, InRoot
    <3> PICK d : d = req[b].before
      OBVIOUS
    <3>1. KeepsHistory(d) /\ (residue = 0 => HasHandoff(d)) /\ (residue = 0 /\ cuts = 0 => Shown(d))
      BY <2>0 DEF Sound, Snapped
    <3>2. KeepsHistory(d)' /\ (HasHandoff(d) => HasHandoff(d)') /\ (Shown(d) => Shown(d)')
      BY <1>0, <3>1 DEF KeepsHistory, HasHandoff, Shown, Accepted, Complete
    <3> QED BY <1>0, <1>4, <2>0, <3>1, <3>2 DEF Snapped
  <2>4. Showing(b)'
    <3> SUFFICES ASSUME req[b].pc = "write", residue = 0, cuts = 0 PROVE Showing(b)'
      BY <1>0, <2>0 DEF Showing
    <3>1. \A r, w : (Soon(b, r, w) <=> Soon(b, r, w)') /\ (Saving(b, r, w) <=> Saving(b, r, w)')
      BY <1>0, <2>0 DEF Soon, Saving, Accepted
    <3>2. \A w \in Wave :
            /\ disk[Latest(w)] # NoFile => Soon(b, disk[Latest(w)], w)
            /\ \A r \in Run : disk[History(r, w)] # NoFile => Saving(b, r, w)
            /\ disk[Index] # NoFile /\ w \in disk[Index].done => \E r \in Run : Soon(b, r, w)
      BY <2>0 DEF Sound, Showing
    <3>3. \A w \in Wave : w \in 0 .. Waves
      BY WaveFacts
    <3> QED BY <1>0, <1>4, <2>0, <3>1, <3>2, <3>3 DEF Showing, Soon, Saving, Accepted
  <2>5. Undone(b)'
    <3>1. \A f \in File : AsFound(disk, req[b].before, f) => AsFound(disk, req[b].before, f)'
      BY <1>0, <1>2, <2>0 DEF AsFound
    <3> QED BY <1>0, <1>4, <2>0, <3>1 DEF Sound, Undone, AsFound
  <2> QED BY <2>1, <2>2, <2>3, <2>4, <2>5 DEF Sound
<1>6. Locked'
  BY <1>0 DEF IInv, Locked, Busy, InRoot
<1>7. VisibleIsAccepted'
  <2> SUFFICES ASSUME RootFree, residue = 0, cuts = 0 PROVE VisibleIsAccepted'
    BY <1>0 DEF VisibleIsAccepted, RootFree, InRoot
  <2>1. \A w \in Wave :
          /\ disk[Latest(w)] # NoFile => Accepted(disk[Latest(w)], w)
          /\ \A r \in Run : disk[History(r, w)] # NoFile => w \in saved[r].done
          /\ disk[Index] # NoFile /\ w \in disk[Index].done => \E r \in Run : Accepted(r, w)
    BY DEF IInv, Good, VisibleIsAccepted
  <2>2. \A w \in Wave : w \in 0 .. Waves
    BY WaveFacts
  <2>3. \A r, w : Accepted(r, w)' <=> Accepted(r, w)
    BY <1>0 DEF Accepted
  <2> SUFFICES ASSUME NEW w \in Wave
               PROVE  /\ disk'[Latest(w)] # NoFile => Accepted(disk[Latest(w)], w)'
                      /\ disk'[Handoff] \notin {NoFile} \cup scanned' => Accepted(disk[Handoff][w], w)'
                      /\ \A r \in Run : disk'[History(r, w)] # NoFile => w \in saved'[r].done
                      /\ disk'[Index] # NoFile /\ w \in disk'[Index].done =>
                           \E r \in Run : Accepted(r, w)'
    BY DEF VisibleIsAccepted
  <2>4. disk'[Handoff] \in scanned'
    BY <1>0, <1>4
  <2>5. /\ disk'[Latest(w)] = disk[Latest(w)] /\ disk'[Index] = disk[Index]
        /\ \A r \in Run : disk'[History(r, w)] = disk[History(r, w)]
    BY <1>4, <2>2
  <2>6. disk'[Latest(w)] # NoFile => Accepted(disk[Latest(w)], w)'
    BY <1>0, <2>1, <2>5 DEF Accepted
  <2>7. \A r \in Run : disk'[History(r, w)] # NoFile => w \in saved'[r].done
    BY <1>0, <2>1, <2>5
  <2>8. disk'[Index] # NoFile /\ w \in disk'[Index].done => \E r \in Run : Accepted(r, w)'
    BY <2>1, <2>3, <2>5
  <2> QED BY <2>4, <2>6, <2>7, <2>8
<1>8. CompleteHasHandoff'
  BY <1>4 DEF CompleteHasHandoff
<1>9. AcceptedKeepsHistory'
  <2>1. \A r \in Run : \A w \in saved[r].done : w \in 0 .. Waves
    BY <1>0, WaveFacts DEF TypeOK, RunState
  <2> QED BY <1>0, <1>4, <2>1 DEF IInv, Good, AcceptedKeepsHistory
<1>10. UnannouncedIsMarked' /\ ClosedIsAccepted'
  BY <1>0 DEF IInv, Good, UnannouncedIsMarked, ClosedIsAccepted
<1> QED BY <1>3, <1>5, <1>6, <1>7, <1>8, <1>9, <1>10 DEF IInv, Good

LEMMA ScanPreserves ==
  ASSUME IInv, NEW s \in Scanner, Scan(s)
  PROVE  IInv'
<1>0. TypeOK /\ IsScan(scan[s]) /\ IsScan(NoScan)
  BY NoScanIs DEF IInv, TypeOK
<1>1. CASE ScanLook(s)
  <2> PICK q : q = [pc |-> "read", listed |-> disk[Handoff] # NoFile, read |-> <<>>]
    OBVIOUS
  <2>1. IsScan(q)
    BY DEF IsScan
  <2> QED BY <1>1, <2>1, ScanMovePreserves DEF ScanLook
<1>2. CASE ScanRead(s)
  <2> DEFINE f == Latest(Len(scan[s].read) + 1)
  <2> PICK q : q = [scan[s] EXCEPT !.read = Append(scan[s].read, disk[f])]
    OBVIOUS
  <2>1. scan[s].pc = "read" /\ scan[s].read \in Seq(Run) /\ disk[f] \in Run
    <3>1. Len(scan[s].read) \in Nat /\ Len(scan[s].read) < Waves
      BY <1>0, <1>2 DEF ScanRead, IsScan
    <3>2. f \in LatestFile
      BY <3>1, WaveFacts DEF LatestFile, Wave
    <3> QED BY <1>0, <1>2, <3>2 DEF ScanRead, IsScan, TypeOK, IsDisk
  <2>2. IsScan(q)
    BY <1>0, <2>1 DEF IsScan
  <2>3. scan' = [scan EXCEPT ![s] = q]
    BY <1>0, <1>2 DEF ScanRead
  <2> QED BY <1>2, <2>2, <2>3, ScanMovePreserves DEF ScanRead
<1>3. CASE ScanHandoff(s)
  <2>1. scan[s].read \in [Wave -> Run] /\ scan[s].read[1] \in Run
    BY <1>0, <1>3, ReadIs DEF ScanHandoff
  <2>2. CASE scan' = [scan EXCEPT ![s] = NoScan] /\ MayClose(s)
    BY <1>0, <1>3, <2>1, <2>2, ScanMovePreserves DEF ScanHandoff, MayClose
  <2>3. CASE scan' = [scan EXCEPT ![s].pc = "write"] /\ UNCHANGED closed
    <3> PICK q : q = [scan[s] EXCEPT !.pc = "write"]
      OBVIOUS
    <3>1. IsScan(q)
      BY <1>0, <2>1 DEF IsScan
    <3> QED BY <1>3, <2>3, <3>1, ScanMovePreserves DEF ScanHandoff
  <2> QED BY <1>3, <2>2, <2>3 DEF ScanHandoff
<1>4. CASE ScanWrite(s)
  BY <1>4, ScanWritePreserves
<1>5. CASE ScanEnds(s)
  BY <1>0, <1>5, ScanMovePreserves DEF ScanEnds
<1> QED BY <1>1, <1>2, <1>3, <1>4, <1>5 DEF Scan

-----------------------------------------------------------------------------
(* The commit. *)

\* What a commit saves.
LEMMA CommitIs ==
  ASSUME IInv, NEW a \in Actor, Commit(a)
  PROVE  /\ req[a].pc = "write" /\ req[a].plan = <<>>
         /\ UNCHANGED <<disk, closed, asked, residue, cuts, scan, scanned>>
         /\ saved' \in [Run -> RunState]
         /\ \A r \in Run : r # req[a].run => saved'[r] = saved[r]
         /\ a \in Handler => saved'[req[a].run].done = req[a].state.done
         /\ a \in Handler => pasted' = pasted
         /\ a \notin Handler => saved' = saved /\ unannounced' = unannounced
         /\ a \notin Handler => pasted' = pasted \cup {<<req[a].run, w>> : w \in req[a].waves}
         /\ \/ unannounced' = unannounced /\ saved'[req[a].run].pending = saved[req[a].run].pending
            \/ unannounced' = unannounced \cup {req[a].run} /\ saved'[req[a].run].pending = TRUE
         /\ \/ Finish(a)
            \/ \E p \in BOOLEAN : /\ Released(a, "announce", p)
                                  /\ a \in Handler => p = saved'[req[a].run].pending
<1>0. Busy(a) /\ Sound(a) /\ TypeOK
  BY DEF Commit, Busy, IInv
<1>1. /\ req[a].run \in Run /\ req[a].waves \in SUBSET Wave
      /\ req[a].op \in {"submit", "retry", "refinal", "materialize", "paste"}
      /\ a \in Handler <=> req[a].op # "paste"
  BY <1>0, BusyIs
<1>2. /\ saved \in [Run -> RunState] /\ req[a].state \in RunState /\ req[a].state.pending \in BOOLEAN
  BY <1>0, RequestIs DEF TypeOK
<1>3. /\ req[a].pc = "write" /\ req[a].plan = <<>>
      /\ UNCHANGED <<disk, closed, asked, residue, cuts, scan, scanned>>
  BY DEF Commit
<1>4. a \in Handler /\ req[a].op # "submit" =>
        /\ req[a].state.done = saved[req[a].run].done
        /\ req[a].state.pending = saved[req[a].run].pending
  BY <1>0 DEF Sound, Holds, Uncommitted
<1>5. CASE req[a].op = "submit"
  <2> PICK s : s = [req[a].state EXCEPT !.pending = TRUE]
    OBVIOUS
  <2>1. s \in RunState /\ s.done = req[a].state.done /\ s.pending = TRUE
    BY <1>2 DEF RunState
  <2>2. /\ saved' = [saved EXCEPT ![req[a].run] = s] /\ unannounced' = unannounced \cup {req[a].run}
        /\ Released(a, "announce", TRUE) /\ pasted' = pasted
    BY <1>5 DEF Commit
  <2>3. saved' \in [Run -> RunState] /\ saved'[req[a].run] = s
    BY <1>1, <1>2, <2>1, <2>2
  <2>4. \A r \in Run : r # req[a].run => saved'[r] = saved[r]
    BY <1>1, <1>2, <2>2
  <2>5. a \in Handler
    BY <1>1, <1>5
  <2> QED BY <1>3, <2>1, <2>2, <2>3, <2>4, <2>5
<1>6. CASE req[a].op \in {"materialize", "refinal"}
  <2> PICK s : s = req[a].state
    OBVIOUS
  <2>1. /\ saved' = [saved EXCEPT ![req[a].run] = s] /\ unannounced' = unannounced
        /\ Finish(a) \/ Released(a, "announce", req[a].state.pending)
        /\ pasted' = pasted
    BY <1>6 DEF Commit
  <2>2. saved' \in [Run -> RunState] /\ saved'[req[a].run] = s
    BY <1>1, <1>2, <2>1
  <2>3. \A r \in Run : r # req[a].run => saved'[r] = saved[r]
    BY <1>1, <1>2, <2>1
  <2>4. a \in Handler /\ req[a].op # "submit"
    BY <1>1, <1>6
  <2> QED BY <1>2, <1>3, <1>4, <2>1, <2>2, <2>3, <2>4
<1>7. CASE req[a].op = "paste"
  <2>1. /\ saved' = saved /\ unannounced' = unannounced /\ Released(a, "announce", FALSE)
        /\ pasted' = pasted \cup {<<req[a].run, w>> : w \in req[a].waves}
    BY <1>7 DEF Commit
  <2> QED BY <1>1, <1>2, <1>3, <1>7, <2>1
<1>8. CASE req[a].op = "retry"
  <2>1. /\ saved' = saved /\ unannounced' = unannounced /\ pasted' = pasted
        /\ Released(a, "announce", req[a].state.pending)
    BY <1>8 DEF Commit
  <2>2. a \in Handler /\ req[a].op # "submit"
    BY <1>1, <1>8
  <2> QED BY <1>1, <1>2, <1>3, <1>4, <2>1, <2>2
<1> QED BY <1>1, <1>5, <1>6, <1>7, <1>8

LEMMA CommitPreserves ==
  ASSUME IInv, NEW a \in Actor, Commit(a)
  PROVE  IInv'
<1> DEFINE run == req[a].run
<1>0. Busy(a) /\ InRoot(a) /\ Sound(a) /\ TypeOK /\ (~InRoot(a) => FALSE)
  BY CommitIs DEF Busy, InRoot, IInv
<1>1. /\ run \in Run /\ req[a].waves \in SUBSET Wave /\ req[a].state.done \in SUBSET Wave
      /\ req[a].op \in {"submit", "retry", "refinal", "materialize", "paste"}
      /\ a \in Handler <=> req[a].op # "paste"
  BY <1>0, BusyIs, RequestIs
<1>2. /\ req[a].pc = "write" /\ req[a].plan = <<>>
      /\ UNCHANGED <<disk, closed, asked, residue, cuts, scan, scanned>>
      /\ saved' \in [Run -> RunState]
      /\ \A r \in Run : r # run => saved'[r] = saved[r]
      /\ a \in Handler => saved'[run].done = req[a].state.done
      /\ a \in Handler => pasted' = pasted
      /\ a \notin Handler => saved' = saved /\ unannounced' = unannounced
      /\ a \notin Handler => pasted' = pasted \cup {<<run, w>> : w \in req[a].waves}
      /\ \/ unannounced' = unannounced /\ saved'[run].pending = saved[run].pending
         \/ unannounced' = unannounced \cup {run} /\ saved'[run].pending = TRUE
  BY CommitIs
<1>3. /\ saved[run].done \subseteq req[a].state.done \/ a \notin Handler
      /\ a \in Handler => req[a].waves \subseteq req[a].state.done
      /\ a \in Handler => \/ req[a].state.done = saved[run].done
                          \/ req[a].op = "submit" /\ req[a].state.done = saved[run].done \cup req[a].waves
  BY <1>0, <1>2 DEF Sound, Holds, Uncommitted
<1>4. \A r \in Run : saved[r].done \subseteq saved'[r].done
  BY <1>1, <1>2, <1>3
\* The request.
<1>5. PICK op \in Op, t \in Run \cup {NoFile}, ws \in SUBSET Wave, pc \in {"idle", "announce"} :
        /\ Becomes(a, op, t, ws, pc, <<>>, Empty)
        /\ req'[a].state \in RunState
        /\ pc = "idle" \/ t = run
        /\ Sound(a)'
  <2>1. CASE Finish(a)
    <3>1. /\ Becomes(a, "none", NoFile, {}, "idle", <<>>, Empty) /\ req'[a].state \in RunState
          /\ "none" \in Op /\ Sound(a)'
      BY <1>0, <2>1, OverIs
    <3>2. NoFile \in Run \cup {NoFile} /\ {} \in SUBSET Wave
      OBVIOUS
    <3> QED BY <3>1, <3>2
  <2>2. CASE ~Finish(a)
    <3>1. PICK p \in BOOLEAN : /\ Released(a, "announce", p)
                               /\ a \in Handler => p = saved'[run].pending
      BY <2>2, CommitIs
    <3>2. /\ Becomes(a, req[a].op, run, req[a].waves, "announce", <<>>, Empty)
          /\ req'[a].state \in RunState
          /\ req'[a].state.done = req[a].state.done /\ req'[a].state.pending = p
      BY <1>0, <1>2, <3>1, ReleasedIs
    <3>3. /\ req'[a].pc = "announce" /\ req'[a].op = req[a].op /\ req'[a].run = run
          /\ req'[a].waves = req[a].waves
      BY <3>2 DEF Becomes
    <3>4. Shaped(a)'
      BY <1>0, <3>3 DEF Sound, Shaped, Busy
    <3>5. Holds(a)'
      BY <1>2, <1>3, <3>1, <3>2, <3>3 DEF Holds, Uncommitted
    <3>6. Announced(a)' /\ Planned(a)' /\ Todo(a)' /\ Wrote(a)' /\ Snapped(a)' /\ Showing(a)' /\ Undone(a)'
      BY <3>3 DEF Announced, Planned, Todo, Wrote, Snapped, Showing, Undone, InRoot
    <3>7. Sound(a)'
      BY <3>4, <3>5, <3>6 DEF Sound
    <3>8. req[a].op \in Op /\ run \in Run \cup {NoFile}
      BY <1>1 DEF Op
    <3> QED BY <1>1, <3>2, <3>7, <3>8
  <2> QED BY <2>1, <2>2
<1>6. TypeOK'
  <2>1. pc \in Pc /\ <<>> \in Seq(File)
    BY <1>5 DEF Pc
  <2>2. DOMAIN req' = Actor /\ \A b \in Actor : IsRequest(req'[b])
    BY <1>0, <1>5, <2>1, BecomesType, EmptyIsDisk
  <2>3. pasted' \subseteq Run \X Wave
    <3>1. pasted \subseteq Run \X Wave
      BY <1>0 DEF TypeOK
    <3>2. \A w \in req[a].waves : <<run, w>> \in Run \X Wave
      BY <1>1
    <3> QED BY <1>2, <3>1, <3>2
  <2>4. unannounced' \subseteq Run
    BY <1>0, <1>1, <1>2 DEF TypeOK
  <2> QED BY <1>0, <1>2, <2>2, <2>3, <2>4 DEF TypeOK
<1>7. ASSUME NEW b \in Actor, b # a PROVE Undisturbed(b)
  <2>1. req'[b] = req[b] /\ ~InRoot(b) /\ Announced(b)
    BY <1>0, <1>5, <1>7, OwnRoot DEF IInv, Sound, Becomes
  <2>2. ASSUME Busy(b), b \in Handler, a \in Handler PROVE req[b].run \in Run /\ req[b].run # run
    BY <1>0, <1>7, <2>2, BusyIs, OwnRun DEF IInv
  <2>3. ASSUME Busy(b), b \in Handler
        PROVE  /\ saved'[req[b].run].done = saved[req[b].run].done
               /\ saved'[req[b].run].pending = saved[req[b].run].pending
    <3>1. CASE a \in Handler
      <4>1. saved'[req[b].run] = saved[req[b].run]
        BY <1>2, <2>2, <2>3, <3>1
      <4> QED BY <4>1
    <3>2. CASE a \notin Handler
      BY <1>2, <3>2
    <3> QED BY <3>1, <3>2
  <2>4. ASSUME req[b].pc = "clear" PROVE req[b].run \notin unannounced'
    <3>1. Busy(b) /\ b \in Handler /\ req[b].run \notin unannounced
      <4>1. Busy(b) /\ Sound(b)
        BY <2>4 DEF Busy, IInv
      <4>2. req[b].op \in {"submit", "retry"}
        BY <2>4, <4>1 DEF Sound, Shaped
      <4> QED BY <2>1, <2>4, <4>1, <4>2, BusyIs DEF Announced
    <3>2. CASE a \in Handler
      BY <1>2, <2>2, <3>1, <3>2
    <3>3. CASE a \notin Handler
      BY <1>2, <3>1, <3>3
    <3> QED BY <3>2, <3>3
  <2> QED BY <1>2, <2>1, <2>3, <2>4 DEF Undisturbed
\* What was to be accepted is.
<1>8. VisibleIsAccepted'
  <2> SUFFICES ASSUME residue = 0, cuts = 0
               PROVE  VisibleIsAccepted'
    BY <1>2 DEF VisibleIsAccepted
  <2>1. \A r, w : w \in Wave /\ r \in Run /\ Soon(a, r, w) => Accepted(r, w)'
    <3> SUFFICES ASSUME NEW r \in Run, NEW w \in Wave, Soon(a, r, w) PROVE Accepted(r, w)'
      OBVIOUS
    <3>1. CASE Accepted(r, w)
      BY <1>2, <1>4, <3>1 DEF Accepted
    <3>2. CASE r = run /\ w \in req[a].waves
      <4>1. CASE a \in Handler
        BY <1>1, <1>2, <1>3, <3>2, <4>1 DEF Accepted
      <4>2. CASE a \notin Handler
        BY <1>2, <3>2, <4>2 DEF Accepted
      <4> QED BY <4>1, <4>2
    <3> QED BY <3>1, <3>2 DEF Soon
  <2>2. \A r \in Run : \A w \in Wave : Saving(a, r, w) => w \in saved'[r].done
    BY <1>1, <1>2, <1>3, <1>4 DEF Saving
  <2>3. ASSUME NEW w \in Wave
        PROVE  /\ disk[Latest(w)] # NoFile => disk[Latest(w)] \in Run
               /\ disk[Handoff] # NoFile => disk[Handoff][w] \in Run
    BY <1>0 DEF TypeOK, IsDisk, LatestFile
  <2>4. \A w \in Wave :
          /\ disk[Latest(w)] # NoFile => Soon(a, disk[Latest(w)], w)
          /\ disk[Handoff] \notin {NoFile} \cup scanned => Soon(a, disk[Handoff][w], w)
          /\ \A r \in Run : disk[History(r, w)] # NoFile => Saving(a, r, w)
          /\ disk[Index] # NoFile /\ w \in disk[Index].done => \E r \in Run : Soon(a, r, w)
    BY <1>0, <1>2 DEF Sound, Showing
  <2> PICK d : d = disk
    OBVIOUS
  <2>5. \A w \in Wave :
          /\ d[Latest(w)] # NoFile => d[Latest(w)] \in Run /\ Soon(a, d[Latest(w)], w)
          /\ d[Handoff] \notin {NoFile} \cup scanned => d[Handoff][w] \in Run /\ Soon(a, d[Handoff][w], w)
          /\ \A r \in Run : d[History(r, w)] # NoFile => Saving(a, r, w)
          /\ d[Index] # NoFile /\ w \in d[Index].done => \E r \in Run : Soon(a, r, w)
    BY <2>3, <2>4
  <2>6. \A w \in Wave :
          /\ d[Latest(w)] # NoFile => Accepted(d[Latest(w)], w)'
          /\ d[Handoff] \notin {NoFile} \cup scanned => Accepted(d[Handoff][w], w)'
          /\ \A r \in Run : d[History(r, w)] # NoFile => w \in saved'[r].done
          /\ d[Index] # NoFile /\ w \in d[Index].done => \E r \in Run : Accepted(r, w)'
    BY <2>1, <2>2, <2>5
  <2>7. disk' = d /\ scanned' = scanned
    BY <1>2
  <2> QED BY <2>6, <2>7 DEF VisibleIsAccepted, Accepted
<1>9. CompleteHasHandoff'
  BY <1>2 DEF IInv, Good, CompleteHasHandoff, Complete
<1>10. AcceptedKeepsHistory'
  <2>1. ASSUME NEW r \in Run, NEW w \in saved'[r].done PROVE disk[History(r, w)] = r
    <3>1. CASE w \in saved[r].done
      BY <3>1 DEF IInv, Good, AcceptedKeepsHistory
    <3>2. CASE w \notin saved[r].done
      <4>1. a \in Handler /\ r = run /\ req[a].op = "submit" /\ w \in req[a].waves
        BY <1>2, <1>3, <2>1, <3>2
      <4> QED BY <1>0, <1>2, <4>1, OnNone DEF Sound, Wrote
    <3> QED BY <3>1, <3>2
  <2> QED BY <1>2, <2>1 DEF AcceptedKeepsHistory
<1>11. UnannouncedIsMarked'
  <2>1. ASSUME NEW r \in unannounced' PROVE saved'[r].pending
    <3>1. CASE r = run
      <4>1. CASE unannounced' = unannounced /\ saved'[run].pending = saved[run].pending
        BY <2>1, <3>1, <4>1 DEF IInv, Good, UnannouncedIsMarked
      <4>2. CASE saved'[run].pending = TRUE
        BY <3>1, <4>2
      <4> QED BY <1>2, <4>1, <4>2
    <3>2. CASE r # run
      <4>1. r \in unannounced /\ r \in Run
        BY <1>0, <1>2, <2>1, <3>2 DEF TypeOK
      <4> QED BY <1>2, <3>2, <4>1 DEF IInv, Good, UnannouncedIsMarked
    <3> QED BY <3>1, <3>2
  <2> QED BY <2>1 DEF UnannouncedIsMarked
<1>12. ClosedIsAccepted'
  <2>1. closed' = closed
    BY <1>2
  <2> QED BY <1>4, <1>6, <2>1, ClosedKept DEF IInv
<1>13. Good'
  BY <1>8, <1>9, <1>10, <1>11, <1>12 DEF Good
<1>14. pc \in {"write", "undo"} => InRoot(a)
  BY <1>5
<1> QED BY <1>0, <1>5, <1>6, <1>7, <1>13, <1>14, StepPreserves

-----------------------------------------------------------------------------
(* The invariant. *)

LEMMA InitInvariant == Init => IInv
<1> SUFFICES ASSUME Init PROVE IInv
  OBVIOUS
<1>1. /\ disk = Empty /\ saved = [r \in Run |-> Fresh] /\ req = [a \in Actor |-> Idle]
      /\ unannounced = {} /\ pasted = {} /\ closed = {} /\ asked = 0 /\ residue = 0 /\ cuts = 0
      /\ scan = [s \in Scanner |-> NoScan] /\ scanned = {}
  BY DEF Init
<1>2. \A a \in Actor : req[a] = Idle /\ req[a].pc = "idle"
  BY <1>1 DEF Idle
<1>3. TypeOK
  <2>1. IsRequest(Idle)
    BY EmptyIsDisk, FreshIs DEF Idle, IsRequest, Op, Pc
  <2>2. DOMAIN req = Actor /\ \A a \in Actor : IsRequest(req[a])
    BY <1>1, <1>2, <2>1
  <2>3. 0 \in 0 .. MaxAsked /\ 0 \in 0 .. MaxResidue /\ 0 \in 0 .. MaxCuts
    BY WaveAssumption
  <2>4. DOMAIN scan = Scanner /\ \A s \in Scanner : IsScan(scan[s])
    BY <1>1, NoScanIs
  <2> QED BY <1>1, <2>2, <2>3, <2>4, EmptyIsDisk, FreshIs DEF TypeOK
<1>4. Locked
  BY <1>2 DEF Locked, Busy, InRoot, Actor
<1>5. \A a \in Actor : Sound(a)
  BY <1>2 DEF Sound, Shaped, Holds, Announced, Planned, Todo, Wrote, Snapped, Showing, Undone, Busy, InRoot
<1>6. Good
  <2>1. \A f \in File : disk[f] = NoFile
    BY <1>1 DEF Empty
  <2>2. Index \in File /\ Handoff \in File
    BY FileIs
  <2>3. \A w \in Wave : Latest(w) \in File /\ \A r \in Run : History(r, w) \in File
    BY FileIs, WaveFacts
  <2>4. \A r \in Run : saved[r].done = {}
    BY <1>1, FreshIs
  <2> QED BY <1>1, <2>1, <2>2, <2>3, <2>4
          DEF Good, VisibleIsAccepted, CompleteHasHandoff, AcceptedKeepsHistory, UnannouncedIsMarked,
              ClosedIsAccepted, Complete
<1> QED BY <1>3, <1>4, <1>5, <1>6 DEF IInv

LEMMA StutterInvariant == IInv /\ UNCHANGED vars => IInv'
<1> SUFFICES ASSUME IInv, UNCHANGED vars PROVE IInv'
  OBVIOUS
<1>1. UNCHANGED <<disk, saved, req, unannounced, pasted, closed, asked, residue, cuts, scan, scanned>>
  BY DEF vars
<1>2. TypeOK'
  BY <1>1 DEF IInv, TypeOK
<1>3. Locked'
  BY <1>1 DEF IInv, Locked, Busy, InRoot
<1>4. ASSUME NEW b \in Actor PROVE Sound(b)'
  <2>1. Announced(b)
    BY DEF IInv, Sound
  <2>2. Undisturbed(b)
    BY <1>1, <2>1 DEF Undisturbed, Announced
  <2> QED BY <2>2, UndisturbedSound DEF IInv
<1>5. Good'
  <2>1. Quietly
    BY <1>1 DEF Quietly, RootFree, InRoot
  <2>2. VisibleIsAccepted' /\ CompleteHasHandoff' /\ AcceptedKeepsHistory'
    BY <2>1, QuietlyGood DEF IInv
  <2>3. UnannouncedIsMarked' /\ ClosedIsAccepted'
    BY <1>1 DEF IInv, Good, UnannouncedIsMarked, ClosedIsAccepted
  <2> QED BY <2>2, <2>3 DEF Good
<1> QED BY <1>2, <1>3, <1>4, <1>5 DEF IInv

LEMMA AdmitPreserves ==
  ASSUME IInv, NEW a \in Handler, Admit(a)
  PROVE  IInv'
BY SubmitPreserves, RetryPreserves, MaterializePreserves DEF Admit

LEMMA ActorStepPreserves ==
  ASSUME IInv, NEW a \in Actor, Step(a)
  PROVE  IInv'
<1>1. CASE Lock(a)
  BY <1>1, LockPreserves
<1>2. CASE GiveUp(a)
  BY <1>2, GiveUpPreserves
<1>3. CASE WriteFile(a)
  BY <1>3, WriteFilePreserves
<1>4. CASE Compose(a)
  BY <1>4, ComposePreserves
<1>5. CASE Commit(a)
  BY <1>5, CommitPreserves
<1>6. CASE Fails(a)
  BY <1>6, FailsPreserves
<1>7. CASE Restore(a)
  BY <1>7, RestorePreserves
<1>8. CASE Announce(a)
  BY <1>8, AnnouncePreserves
<1>9. CASE Clear(a)
  BY <1>9, ClearPreserves
<1>10. CASE Close(a)
  BY <1>10, ClosePreserves
<1>11. CASE Recheck(a)
  BY <1>11, RecheckPreserves
<1> QED BY <1>1, <1>2, <1>3, <1>4, <1>5, <1>6, <1>7, <1>8, <1>9, <1>10, <1>11 DEF Step

LEMMA NextInvariant == IInv /\ [Next]_vars => IInv'
<1> SUFFICES ASSUME IInv, [Next]_vars PROVE IInv'
  OBVIOUS
<1>1. CASE \E a \in Handler : Admit(a)
  BY <1>1, AdmitPreserves
<1>2. CASE \E r \in Run, ws \in SUBSET Wave : Paste(r, ws)
  BY <1>2, PastePreserves
<1>3. CASE \E a \in Actor : Step(a)
  BY <1>3, ActorStepPreserves
<1>4. CASE Probe
  BY <1>4, ProbePreserves
<1>5. CASE Crash(Handler) \/ Crash({Desk})
  <2>1. Handler \in SUBSET Actor /\ {Desk} \in SUBSET Actor
    BY DEF Actor
  <2> QED BY <1>5, <2>1, CrashPreserves
<1>6. CASE \E s \in Scanner : Scan(s)
  BY <1>6, ScanPreserves
<1>7. CASE UNCHANGED vars
  BY <1>7, StutterInvariant
<1> QED BY <1>1, <1>2, <1>3, <1>4, <1>5, <1>6, <1>7 DEF Next, Quiet

\* The inductive invariant holds whatever the request threads, the desktop, the probe,
\* failures and crashes do, in any order; the theorems below follow from it.
THEOREM WaveInvariant == Spec => []IInv
<1>1. Init => IInv
  BY InitInvariant
<1>2. IInv /\ [Next]_vars => IInv'
  BY NextInvariant
<1> QED BY <1>1, <1>2, PTL DEF Spec

\* The variables stay in their types: in particular a plan holds files of this audit
\* root only, and what a snapshot restores is what such files may hold.
THEOREM WaveTypeCorrect == Spec => []TypeOK
<1>1. IInv => TypeOK
  BY DEF IInv
<1> QED BY <1>1, WaveInvariant, PTL

\* Two requests never work on one run, and two transactions never share the audit root,
\* those of the desktop included (run_transaction, state.py:67; campaign.py:655).
THEOREM WaveLocked == Spec => []Locked
<1>1. IInv => Locked
  BY DEF IInv
<1> QED BY <1>1, WaveInvariant, PTL

\* While nobody writes, what a reader finds in the audit root was accepted, until a
\* rollback could not restore a file or a crash cut a transaction (server.py:3484).
\* Scans write meanwhile without a lock (audits.py:593-617): a handoff of the waves that
\* one has read and written is excepted, and nothing else in the root is.
THEOREM WaveVisibleIsAccepted == Spec => []VisibleIsAccepted
<1>1. IInv => VisibleIsAccepted
  BY DEF IInv, Good
<1> QED BY <1>1, WaveInvariant, PTL

\* At no moment, in the middle of a transaction, of a rollback or after a crash, does the
\* index call a campaign complete whose handoff does not exist, until a rollback could not
\* restore a file (server.py:335, 306).
THEOREM WaveCompleteHasHandoff == Spec => []CompleteHasHandoff
<1>1. IInv => CompleteHasHandoff
  BY DEF IInv, Good
<1> QED BY <1>1, WaveInvariant, PTL

\* An accepted wave has its copy in the history for ever: the state of the run is saved
\* after it, and no later transaction, rollback or crash takes it back (server.py:3497).
THEOREM WaveAcceptedKeepsHistory == Spec => []AcceptedKeepsHistory
<1>1. IInv => AcceptedKeepsHistory
  BY DEF IInv, Good
<1> QED BY <1>1, WaveInvariant, PTL

\* The marker of a wave that no generation announced stays until one does
\* (server.py:3593 and 1906).
THEOREM WaveUnannouncedIsMarked == Spec => []UnannouncedIsMarked
<1>1. IInv => UnannouncedIsMarked
  BY DEF IInv, Good
<1> QED BY <1>1, WaveInvariant, PTL

\* A delivery closes the dispatch of a run whose waves are all accepted, no other
\* (server.py:3618).
THEOREM WaveClosedIsAccepted == Spec => []ClosedIsAccepted
<1>1. IInv => ClosedIsAccepted
  BY DEF IInv, Good
<1> QED BY <1>1, WaveInvariant, PTL

LEMMA ClearKeepsAccepted ==
  ASSUME IInv, NEW a \in Actor, Clear(a), NEW r \in Run
  PROVE  saved[r].done \subseteq saved'[r].done
<1>0. /\ req[a].pc = "clear" /\ Busy(a) /\ Sound(a) /\ TypeOK
  BY DEF Clear, Busy, IInv
<1>1. /\ a \in Handler /\ req[a].run \in Run /\ req[a].state.done = saved[req[a].run].done
  BY <1>0, BusyIs DEF Sound, Shaped, Holds, Uncommitted
<1> PICK s : s = [req[a].state EXCEPT !.pending = FALSE]
  OBVIOUS
<1>2. s.done = saved[req[a].run].done
  BY <1>0, <1>1, RequestIs DEF RunState
<1>3. saved' = [saved EXCEPT ![req[a].run] = s] \/ saved' = saved
  BY DEF Clear
<1> QED BY <1>0, <1>1, <1>2, <1>3 DEF TypeOK

LEMMA CommitKeepsAccepted ==
  ASSUME IInv, NEW a \in Actor, Commit(a), NEW r \in Run
  PROVE  saved[r].done \subseteq saved'[r].done
<1>0. Busy(a) /\ Sound(a)
  BY DEF Commit, Busy, IInv
<1>1. /\ req[a].run \in Run
      /\ r # req[a].run => saved'[r] = saved[r]
      /\ a \in Handler => saved'[req[a].run].done = req[a].state.done
      /\ a \notin Handler => saved' = saved
  BY <1>0, BusyIs, CommitIs
<1>2. a \in Handler => saved[req[a].run].done \subseteq req[a].state.done
  BY <1>0 DEF Sound, Holds
<1> QED BY <1>1, <1>2

\* No thread ever saves a state of a run that lacks a wave another one has accepted
\* (save_run_state at server.py:3583 and 1906, under the lock of the run).
THEOREM WaveAcceptedIsKept == Spec => AcceptedIsKept
<1> DEFINE Kept == \A r \in Run : saved[r].done \subseteq saved'[r].done
<1>1. IInv /\ [Next]_vars => Kept
  <2> SUFFICES ASSUME IInv, [Next]_vars, NEW r \in Run PROVE saved[r].done \subseteq saved'[r].done
    OBVIOUS
  <2>1. CASE \E a \in Actor : Clear(a)
    BY <2>1, ClearKeepsAccepted
  <2>2. CASE \E a \in Actor : Commit(a)
    BY <2>2, CommitKeepsAccepted
  <2>3. CASE saved' = saved
    BY <2>3
  <2>4. CASE \E a \in Actor : Step(a)
    BY <2>1, <2>2, <2>3, <2>4
       DEF Step, Lock, GiveUp, WriteFile, Compose, Fails, Restore, Announce, Close, Recheck
  <2>5. CASE (\E a \in Handler : Admit(a)) \/ \E s \in Run, ws \in SUBSET Wave : Paste(s, ws)
    BY <2>3, <2>5 DEF Admit, Submit, Retry, Materialize, Paste, Take
  <2>6. CASE Probe \/ Crash(Handler) \/ Crash({Desk}) \/ UNCHANGED vars
    BY <2>3, <2>6 DEF Probe, Crash, vars
  <2>7. CASE \E s \in Scanner : Scan(s)
    BY <2>3, <2>7 DEF Scan, ScanLook, ScanRead, ScanHandoff, ScanWrite, ScanEnds
  <2> QED BY <2>4, <2>5, <2>6, <2>7 DEF Next, Quiet
<1>2. IInv /\ [Next]_vars => [Kept]_vars
  BY <1>1
<1> QED BY <1>2, WaveInvariant, PTL DEF Spec, AcceptedIsKept

\* The last file of a rollback that restored every file leaves the audit root as the
\* transaction found it, but for a handoff that a scan has written since.
RollbackRestores ==
  \A a \in Actor :
    Restore(a) /\ Len(req[a].plan) = 1 /\ residue' = 0 =>
      \A f \in File : AsFound(disk', req[a].before, f)

\* A rollback that restored every file on its list restored the audit root: nothing the
\* transaction wrote is missing from the list (_final_artifact_paths, server.py:400, and
\* restore_file_snapshots, storage.py:205); a handoff that a scan wrote meanwhile may stay.
THEOREM WaveRollbackRestores == Spec => [][RollbackRestores]_vars
<1>1. IInv => RollbackRestores
  <2> SUFFICES ASSUME IInv, NEW a \in Actor, Restore(a), Len(req[a].plan) = 1, residue' = 0,
                      NEW g \in File
               PROVE  AsFound(disk', req[a].before, g)
    BY DEF RollbackRestores
  <2> DEFINE f == Head(req[a].plan)
  <2>1. /\ req[a].pc = "undo" /\ req[a].plan # <<>> /\ Sound(a) /\ TypeOK
        /\ \/ disk' = [disk EXCEPT ![f] = req[a].before[f]] /\ residue' = residue
           \/ residue' = residue + 1 /\ disk' = disk
    BY DEF Restore, Restored, IInv
  <2>2. residue = 0 /\ disk' = [disk EXCEPT ![f] = req[a].before[f]]
    BY <2>1 DEF TypeOK
  <2>3. req[a].plan \in Seq(File) /\ IsDisk(disk)
    BY <2>1, RequestIs DEF TypeOK
  <2>4. f \in File /\ (g # f => ~On(g, req[a].plan))
    <3>1. f \in File /\ (On(g, req[a].plan) => g = f \/ On(g, Tail(req[a].plan)))
      BY <2>1, <2>3, OnTail
    <3>2. ~On(g, Tail(req[a].plan))
      <4>1. Len(Tail(req[a].plan)) = 0
        BY <2>1, <2>3, HeadTailProperties
      <4> QED BY <4>1 DEF On
    <3> QED BY <3>1, <3>2
  <2>5. CASE g = f
    BY <2>2, <2>3, <2>5 DEF IsDisk, AsFound
  <2>6. CASE g # f
    BY <2>1, <2>2, <2>3, <2>4, <2>6 DEF IsDisk, Sound, Undone, AsFound
  <2> QED BY <2>5, <2>6
<1>2. IInv => [RollbackRestores]_vars
  BY <1>1
<1> QED BY <1>2, WaveInvariant, PTL
=============================================================================
