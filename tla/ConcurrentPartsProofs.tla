----------------------- MODULE ConcurrentPartsProofs -----------------------
(***************************************************************************)
(* The safety of the parts in which several actors share a state: the      *)
(* journal file of a session, the commands a process runs and the stream   *)
(* of a model's answer.  For each there is an invariant, and lemmas that   *)
(* its initial states satisfy it, that every step keeps it and that it     *)
(* implies what the part promises.                                         *)
(***************************************************************************)
EXTENDS ConcurrentParts, TLAPS

-----------------------------------------------------------------------------
(* The journal file of a session.                                          *)

JournalLine == [seq : Nat, stamp : Nat]
JournalFile == [lines : Seq(JournalLine),
                tail : [kind : {"none", "bare", "torn"}, line : JournalLine],
                holder : Nat]
StoreProcess ==
  [at : {"idle", "opening", "opened", "locked", "repair", "live", "writing",
         "cleanup", "remove", "rmdir", "looked", "inspected"},
   goal : {"open", "delete", "discard"}, file : {0} \cup Store!File,
   mine : BOOLEAN, records : Nat, failed : BOOLEAN, mark : Nat,
   tail : Nat, known : SUBSET Nat, seen : Seq(JournalLine)]
StoreState ==
  [files : [Store!File -> JournalFile], path : {0} \cup Store!File, dir : BOOLEAN,
   used : Nat, writes : Nat, created : BOOLEAN, acked : SUBSET Nat,
   proc : [Store!Procs -> StoreProcess]]

StoreTyped == state \in StoreState

\* Who makes the session has yet to open its journal.
Making(p) == state.proc[p].at = "opening" /\ state.proc[p].mine

\* A journal has a directory, and what was acknowledged a journal; only who makes
\* the session opens a journal that was never there.
StorePaths ==
  /\ state.path # 0 => state.dir /\ state.used > 0
  /\ state.path = 0 => state.acked = {}
  /\ state.used > 0 => state.created
  /\ \A p \in Store!Procs : Making(p) => state.used = 0 /\ state.created
  /\ \A p, q \in Store!Procs : Making(p) /\ Making(q) => p = q

\* Nothing is left that could be opened or locked, and nothing will be.
Vanished == state.path = 0 /\ ~state.dir /\ state.used > 0

\* What a process has locked, and that it is at the path.
Owning(p) ==
  LET me == state.proc[p]
      held == me.file # 0 /\ state.files[me.file].holder = p
  IN /\ me.at \in {"opened", "looked"} => me.file # 0
     /\ me.at = "locked" => held
     /\ me.at \in {"repair", "live", "writing"} => held /\ me.file = state.path
     /\ me.at \in {"cleanup", "remove"} =>
          (held /\ me.file = state.path) \/ (me.file = 0 /\ Vanished)

\* What a store knows of its journal.
Writing(p) ==
  LET me == state.proc[p]
      file == state.files[me.file]
  IN /\ me.at = "live" /\ ~me.failed =>
          file.tail.kind = "none" /\ me.records = Len(file.lines)
     /\ me.at = "writing" =>
          /\ file.tail.kind # "none" /\ ~me.failed
          /\ me.records = Len(file.lines) /\ file.tail.line.seq = Len(file.lines) + 1

\* What a reader has seen of a journal stays in it.
Reading(p) ==
  LET me == state.proc[p]
      lines == state.files[me.file].lines
  IN /\ me.at = "looked" =>
          /\ me.mark <= Len(lines)
          /\ \A s \in me.known : \E i \in 1..me.mark : lines[i].stamp = s
     /\ me.at = "inspected" =>
          /\ \A i \in 1..Len(me.seen) : me.seen[i].seq = i
          /\ \A s \in me.known : \E i \in 1..Len(me.seen) : me.seen[i].stamp = s

StoreLines ==
  /\ \A f \in Store!File : \A i \in 1..Len(state.files[f].lines) : state.files[f].lines[i].seq = i
  /\ state.path # 0 => \A s \in state.acked :
       \E i \in 1..Len(state.files[state.path].lines) : state.files[state.path].lines[i].stamp = s

StoreInv ==
  /\ StoreTyped
  /\ StorePaths
  /\ StoreLines
  /\ \A p \in Store!Procs : Owning(p) /\ Writing(p) /\ Reading(p)

\* A step of another process that leaves alone what q has locked, keeps the lines
\* of every journal, and does not bring back what has vanished.
Undisturbed(q) ==
  /\ state'.proc[q] = state.proc[q]
  /\ \A f \in Store!File : state.files[f].holder = q =>
       /\ state'.files[f] = state.files[f]
       /\ f = state.path => state'.path = state.path
  /\ \A f \in Store!File :
       /\ Len(state.files[f].lines) <= Len(state'.files[f].lines)
       /\ \A i \in 1..Len(state.files[f].lines) : state'.files[f].lines[i] = state.files[f].lines[i]
  /\ Vanished => Vanished'

LEMMA UndisturbedKeeps ==
  ASSUME StoreInv, StoreTyped', NEW q \in Store!Procs, Undisturbed(q)
  PROVE  Owning(q)' /\ Writing(q)' /\ Reading(q)'
<1> DEFINE me == state.proc[q]
<1>1. me \in StoreProcess /\ Owning(q) /\ Writing(q) /\ Reading(q)
  BY DEF StoreInv, StoreTyped, StoreState
<1>2. Owning(q)'
  BY <1>1 DEF Owning, Undisturbed, StoreProcess, Vanished
<1>3. Writing(q)'
  BY <1>1 DEF Owning, Writing, Undisturbed, StoreProcess
<1>4. Reading(q)'
  <2>1. CASE me.at = "looked"
    <3>1. me.file \in Store!File /\ me.mark \in Nat /\ state.files[me.file] \in JournalFile
      BY <1>1, <2>1 DEF Owning, StoreProcess, StoreInv, StoreTyped, StoreState
    <3>2. /\ Len(state.files[me.file].lines) \in Nat
          /\ Len(state'.files[me.file].lines) \in Nat
      BY SMTT(30), <3>1 DEF JournalFile, StoreTyped, StoreState
    <3>3. /\ state'.proc[q] = me
          /\ Len(state.files[me.file].lines) <= Len(state'.files[me.file].lines)
          /\ \A i \in 1..Len(state.files[me.file].lines) :
               state'.files[me.file].lines[i] = state.files[me.file].lines[i]
      BY <3>1 DEF Undisturbed
    <3>4. /\ me.mark <= Len(state.files[me.file].lines)
          /\ \A s \in me.known : \E i \in 1..me.mark : state.files[me.file].lines[i].stamp = s
      BY <1>1, <2>1 DEF Reading
    <3>5. me.mark <= Len(state'.files[me.file].lines)
      <4> DEFINE a == me.mark
                 b == Len(state.files[me.file].lines)
                 c == Len(state'.files[me.file].lines)
      <4>1. a \in Nat /\ b \in Nat /\ c \in Nat /\ a <= b /\ b <= c
        BY <3>1, <3>2, <3>3, <3>4
      <4> HIDE DEF a, b, c
      <4>2. a <= c
        BY <4>1
      <4> QED
        BY <4>2 DEF a, c
    <3>6. ASSUME NEW s \in me.known
          PROVE \E i \in 1..me.mark : state'.files[me.file].lines[i].stamp = s
      <4>1. PICK i \in 1..me.mark : state.files[me.file].lines[i].stamp = s
        BY <3>4
      <4>2. i \in 1..Len(state.files[me.file].lines)
        <5> DEFINE a == me.mark
                   b == Len(state.files[me.file].lines)
        <5>1. a \in Nat /\ b \in Nat /\ a <= b
          BY <3>1, <3>2, <3>4
        <5> HIDE DEF a, b
        <5>2. \A k \in 1..a : k \in 1..b
          BY <5>1
        <5> QED
          BY <5>2 DEF a, b
      <4> QED
        BY <3>3, <4>1, <4>2
    <3> QED
      BY <2>1, <3>3, <3>5, <3>6 DEF Reading
  <2>2. CASE me.at # "looked"
    BY <1>1, <2>2 DEF Reading, Undisturbed
  <2> QED
    BY <2>1, <2>2
<1> QED
  BY <1>2, <1>3, <1>4

\* A step of p, put together.
LEMMA StoreStep ==
  ASSUME StoreInv, NEW p \in Store!Procs,
         \A q \in Store!Procs \ {p} : Undisturbed(q),
         StoreTyped', StorePaths', StoreLines', Owning(p)', Writing(p)', Reading(p)'
  PROVE  StoreInv'
<1>1. ASSUME NEW q \in Store!Procs PROVE (Owning(q) /\ Writing(q) /\ Reading(q))'
  BY <1>1, UndisturbedKeeps
<1> QED
  BY <1>1 DEF StoreInv

LEMMA AppendFacts ==
  ASSUME NEW S, NEW s \in Seq(S), NEW e \in S
  PROVE  /\ Append(s, e) \in Seq(S)
         /\ Len(s) \in Nat /\ Len(Append(s, e)) = Len(s) + 1
         /\ \A i \in 1..Len(s) : Append(s, e)[i] = s[i]
         /\ Append(s, e)[Len(s) + 1] = e
OBVIOUS

LEMMA PrefixFacts ==
  ASSUME NEW S, NEW s \in Seq(S), NEW n \in Nat, n <= Len(s)
  PROVE  /\ SubSeq(s, 1, n) \in Seq(S) /\ Len(SubSeq(s, 1, n)) = n
         /\ \A i \in 1..n : SubSeq(s, 1, n)[i] = s[i]
OBVIOUS

LEMMA IdleProcess ==
  /\ Store!Idle \in StoreProcess
  /\ Store!Idle.at = "idle" /\ Store!Idle.mine = FALSE
BY DEF Store!Idle, StoreProcess

LEMMA StoreFacts ==
  ASSUME StoreInv
  PROVE  /\ StoreTyped /\ StorePaths /\ StoreLines
         /\ state \in StoreState
         /\ \A p \in Store!Procs :
              /\ state.proc[p] \in StoreProcess
              /\ Owning(p) /\ Writing(p) /\ Reading(p)
         /\ \A f \in Store!File :
              /\ state.files[f] \in JournalFile
              /\ state.files[f].lines \in Seq(JournalLine)
              /\ Len(state.files[f].lines) \in Nat
BY DEF StoreInv, StoreTyped, StoreState, JournalFile

\* What a step leaves that only changes the process, its journal's lock and the
\* flags.
LEMMA StoreReleased ==
  ASSUME StoreInv, NEW p \in Store!Procs, NEW dir \in BOOLEAN,
         dir = state.dir \/ (state.path = 0 /\ ~dir),
         state' = [Store!Released(state, p) EXCEPT !.dir = dir]
  PROVE  StoreInv'
<1> DEFINE freed(f) == IF state.files[f].holder = p THEN [state.files[f] EXCEPT !.holder = 0]
                       ELSE state.files[f]
<1>0. StoreTyped /\ StorePaths /\ StoreLines
  BY DEF StoreInv
<1>1. Store!Idle \in StoreProcess
  BY DEF Store!Idle, StoreProcess
<1>2. \A f \in Store!File : freed(f) \in JournalFile
  BY ZenonT(60), <1>0 DEF StoreTyped, StoreState, JournalFile
<1>3. /\ state'.files = [f \in Store!File |-> freed(f)]
      /\ state'.proc = [state.proc EXCEPT ![p] = Store!Idle]
      /\ state'.path = state.path /\ state'.dir = dir /\ state'.used = state.used
      /\ state'.writes = state.writes /\ state'.created = state.created
      /\ state'.acked = state.acked
      /\ state' = [files |-> [f \in Store!File |-> freed(f)], path |-> state.path, dir |-> dir,
                   used |-> state.used, writes |-> state.writes, created |-> state.created,
                   acked |-> state.acked, proc |-> [state.proc EXCEPT ![p] = Store!Idle]]
  BY <1>0 DEF StoreTyped, StoreState, Store!Released, Store!Nobody
<1>4. StoreTyped'
  <2> HIDE DEF freed
  <2>1. [f \in Store!File |-> freed(f)] \in [Store!File -> JournalFile]
    BY <1>2
  <2>2. [state.proc EXCEPT ![p] = Store!Idle] \in [Store!Procs -> StoreProcess]
    BY <1>0, <1>1 DEF StoreTyped, StoreState
  <2> QED
    BY <1>0, <2>1, <2>2, <1>3 DEF StoreTyped, StoreState
<1>5. ASSUME NEW f \in Store!File
      PROVE  /\ state'.files[f].lines = state.files[f].lines
             /\ state.files[f].holder # p => state'.files[f] = state.files[f]
  BY <1>0, <1>3 DEF StoreTyped, StoreState, JournalFile
<1>6. ASSUME NEW f \in Store!File PROVE Len(state.files[f].lines) \in Nat
  BY <1>0 DEF StoreTyped, StoreState, JournalFile
<1>7. ASSUME NEW q \in Store!Procs \ {p} PROVE Undisturbed(q)
  <2>1. state'.proc[q] = state.proc[q]
    BY <1>0, <1>3 DEF StoreTyped, StoreState
  <2> QED
    BY <2>1, <1>3, <1>5, <1>6 DEF Undisturbed, Vanished
<1>8. state'.proc[p].at = "idle" /\ \A q \in Store!Procs \ {p} : state'.proc[q] = state.proc[q]
  BY <1>0, <1>3 DEF StoreTyped, StoreState, Store!Idle
<1>9. StorePaths'
  <2>1. \A q \in Store!Procs : Making(q)' => Making(q)
    BY <1>8 DEF Making
  <2> QED
    BY <1>0, <1>3, <2>1 DEF StorePaths
<1>10. StoreLines'
  BY <1>0, <1>3, <1>5 DEF StoreLines, StoreTyped, StoreState
<1>11. Owning(p)' /\ Writing(p)' /\ Reading(p)'
  BY <1>8 DEF Owning, Writing, Reading
<1> QED
  BY <1>4, <1>7, <1>9, <1>10, <1>11, StoreStep

LEMMA StoreReleases ==
  ASSUME StoreInv, NEW p \in Store!Procs, state' = Store!Released(state, p)
  PROVE  StoreInv'
<1>1. state' = [Store!Released(state, p) EXCEPT !.dir = state.dir]
  BY DEF StoreInv, StoreTyped, StoreState, Store!Released
<1>2. state.dir \in BOOLEAN
  BY DEF StoreInv, StoreTyped, StoreState
<1> QED
  BY <1>1, <1>2, StoreReleased

\* A step that changes only what a process is at.
LEMMA StoreMoves ==
  ASSUME StoreInv, NEW p \in Store!Procs, NEW me \in StoreProcess,
         state' = [state EXCEPT !.proc[p] = me],
         me.at = "opening" => ~me.mine,
         Owning(p)', Writing(p)', Reading(p)'
  PROVE  StoreInv'
<1>0. StoreTyped /\ StorePaths /\ StoreLines
  BY DEF StoreInv
<1>1. /\ state'.files = state.files /\ state'.path = state.path /\ state'.dir = state.dir
      /\ state'.used = state.used /\ state'.writes = state.writes
      /\ state'.created = state.created /\ state'.acked = state.acked
      /\ state'.proc = [state.proc EXCEPT ![p] = me]
  BY <1>0 DEF StoreTyped, StoreState
<1>2. StoreTyped'
  BY <1>0 DEF StoreTyped, StoreState
<1>3. state'.proc[p] = me /\ \A q \in Store!Procs \ {p} : state'.proc[q] = state.proc[q]
  BY <1>0, <1>1 DEF StoreTyped, StoreState
<1>4. ASSUME NEW q \in Store!Procs \ {p} PROVE Undisturbed(q)
  <2>1. ASSUME NEW f \in Store!File PROVE Len(state.files[f].lines) \in Nat
    BY <1>0 DEF StoreTyped, StoreState, JournalFile
  <2> QED
    BY <1>1, <1>3, <2>1 DEF Undisturbed, Vanished
<1>5. StorePaths'
  <2>1. \A q \in Store!Procs : Making(q)' => Making(q)
    BY <1>3 DEF Making
  <2> QED
    BY <1>0, <1>1, <2>1 DEF StorePaths
<1>6. StoreLines'
  BY <1>0, <1>1 DEF StoreLines
<1> QED
  BY <1>2, <1>4, <1>5, <1>6, StoreStep

\* A step that changes a journal nobody else has locked.
LEMMA StoreChanges ==
  ASSUME StoreInv, NEW p \in Store!Procs, NEW me \in StoreProcess, NEW f \in Store!File,
         NEW file \in JournalFile, NEW acked \in SUBSET Nat, NEW writes \in Nat,
         state' = [state EXCEPT !.proc[p] = me, !.files[f] = file, !.acked = acked, !.writes = writes],
         state.files[f].holder \in {0, p},
         Len(state.files[f].lines) <= Len(file.lines),
         \A i \in 1..Len(state.files[f].lines) : file.lines[i] = state.files[f].lines[i],
         \A i \in 1..Len(file.lines) : file.lines[i].seq = i,
         acked = state.acked \/ f = state.path,
         \A s \in acked : s \in state.acked \/ \E i \in 1..Len(file.lines) : file.lines[i].stamp = s,
         me.at # "opening",
         Owning(p)', Writing(p)', Reading(p)'
  PROVE  StoreInv'
<1>0. StoreTyped /\ StorePaths /\ StoreLines /\ 0 \notin Store!Procs /\ 0 \notin Store!File
  BY DEF StoreInv, Store!Procs, Store!File
<1>1. /\ state'.files = [state.files EXCEPT ![f] = file]
      /\ state'.path = state.path /\ state'.dir = state.dir
      /\ state'.used = state.used /\ state'.writes = writes
      /\ state'.created = state.created /\ state'.acked = acked
      /\ state'.proc = [state.proc EXCEPT ![p] = me]
  BY <1>0 DEF StoreTyped, StoreState
<1>2. StoreTyped'
  BY <1>0 DEF StoreTyped, StoreState
<1>3. /\ state'.proc[p] = me
      /\ \A q \in Store!Procs \ {p} : state'.proc[q] = state.proc[q]
      /\ state'.files[f] = file
      /\ \A g \in Store!File \ {f} : state'.files[g] = state.files[g]
  BY <1>0, <1>1 DEF StoreTyped, StoreState
<1>4. ASSUME NEW g \in Store!File
      PROVE  /\ Len(state.files[g].lines) <= Len(state'.files[g].lines)
             /\ \A i \in 1..Len(state.files[g].lines) : state'.files[g].lines[i] = state.files[g].lines[i]
  <2>1. Len(state.files[g].lines) \in Nat
    BY StoreFacts
  <2> QED
    BY <1>3, <2>1
<1>5. ASSUME NEW q \in Store!Procs \ {p} PROVE Undisturbed(q)
  <2>1. q # 0 /\ state.files[f].holder # q
    BY <1>0
  <2>2. \A g \in Store!File : state.files[g].holder = q => state'.files[g] = state.files[g]
    BY <1>3, <2>1
  <2> QED
    BY <1>1, <1>3, <1>4, <2>2 DEF Undisturbed, Vanished
<1>6. StorePaths'
  <2>1. \A q \in Store!Procs : Making(q)' => Making(q)
    BY <1>3 DEF Making
  <2> QED
    BY <1>0, <1>1, <2>1 DEF StorePaths
<1>7. StoreLines'
  <2>1. \A g \in Store!File : \A i \in 1..Len(state'.files[g].lines) : state'.files[g].lines[i].seq = i
    BY <1>0, <1>3 DEF StoreLines
  <2>2. ASSUME state.path # 0, NEW s \in acked
        PROVE  \E i \in 1..Len(state'.files[state.path].lines) : state'.files[state.path].lines[i].stamp = s
    <3>1. state.path \in Store!File
      BY <1>0, <2>2 DEF StoreTyped, StoreState
    <3>2. CASE s \in state.acked
      <4>1. PICK i \in 1..Len(state.files[state.path].lines) : state.files[state.path].lines[i].stamp = s
        BY <1>0, <2>2, <3>2 DEF StoreLines
      <4>2. PICK h \in Store!File : h = state.path
        BY <3>1
      <4>3. /\ Len(state.files[h].lines) \in Nat /\ Len(state'.files[h].lines) \in Nat
            /\ i \in 1..Len(state.files[h].lines) /\ state.files[h].lines[i].stamp = s
        BY <1>2, <4>1, <4>2, StoreFacts DEF StoreTyped, StoreState, JournalFile
      <4>4. state'.files[h].lines[i].stamp = s /\ i \in 1..Len(state'.files[h].lines)
        BY <1>4, <4>3
      <4> QED
        BY <4>2, <4>4
    <3>3. CASE s \notin state.acked
      BY <1>3, <2>2, <3>1, <3>3
    <3> QED
      BY <3>2, <3>3
  <2> QED
    BY <1>1, <2>1, <2>2 DEF StoreLines
<1> QED
  BY <1>2, <1>5, <1>6, <1>7, StoreStep

\* A step that opens the journal at the path, which is made when there is none.
LEMMA StoreOpens ==
  ASSUME StoreInv, StoreAssumption, NEW p \in Store!Procs, NEW me \in StoreProcess,
         me.at = "opened", me.file = Store!WithJournal(state).path,
         state.path # 0 \/ state.used < MaxFiles,
         state.path # 0 \/ (state.dir /\ state.used > 0) \/ Making(p),
         state' = [Store!WithJournal(state) EXCEPT !.proc[p] = me]
  PROVE  StoreInv'
<1>0. StoreTyped /\ StorePaths /\ StoreLines
  BY DEF StoreInv
<1> DEFINE new == state.used + 1
<1>1. /\ state'.files = state.files /\ state'.writes = state.writes
      /\ state'.created = state.created /\ state'.acked = state.acked
      /\ state'.proc = [state.proc EXCEPT ![p] = me] /\ state'.path = me.file
      /\ state.path # 0 => state'.path = state.path /\ state'.dir = state.dir /\ state'.used = state.used
      /\ state.path = 0 => state'.path = new /\ state'.dir = TRUE /\ state'.used = new
  BY <1>0 DEF StoreTyped, StoreState, Store!WithJournal
<1>2. state.path = 0 => new \in Store!File /\ new # 0
  BY <1>0 DEF StoreTyped, StoreState, Store!File, StoreAssumption
<1>3. StoreTyped'
  <2>1. CASE state.path # 0
    <3>1. Store!WithJournal(state) = state
      BY <2>1 DEF Store!WithJournal
    <3> QED
      BY <1>0, <3>1 DEF StoreTyped, StoreState
  <2>2. CASE state.path = 0
    <3>1. Store!WithJournal(state) = [state EXCEPT !.used = new, !.path = new, !.dir = TRUE]
      BY <1>0, <2>2 DEF Store!WithJournal, StoreTyped, StoreState
    <3>2. new \in Nat /\ new \in Store!File
      BY <1>0, <1>2, <2>2 DEF StoreTyped, StoreState
    <3> HIDE DEF new
    <3> QED
      BY <1>0, <3>1, <3>2 DEF StoreTyped, StoreState
  <2> QED
    BY <2>1, <2>2
<1>4. state'.proc[p] = me /\ \A q \in Store!Procs \ {p} : state'.proc[q] = state.proc[q]
  BY <1>0, <1>1 DEF StoreTyped, StoreState
<1>5. \A q \in Store!Procs : state.path = 0 /\ Making(q) => q = p
  BY <1>0 DEF StorePaths
<1>6. ASSUME NEW q \in Store!Procs \ {p} PROVE Undisturbed(q)
  <2>1. \A f \in Store!File : Len(state.files[f].lines) \in Nat /\ f # 0
    BY StoreFacts DEF Store!File
  <2>2. ~Vanished
    BY <1>0 DEF Vanished, StorePaths
  <2> QED
    BY <1>1, <1>4, <2>1, <2>2 DEF Undisturbed
<1>7. StorePaths'
  <2>1. \A q \in Store!Procs : Making(q)' => Making(q) /\ state.path # 0
    BY <1>4, <1>5 DEF Making
  <2>2. state.used \in Nat
    BY <1>0 DEF StoreTyped, StoreState
  <2> QED
    BY <1>0, <1>1, <1>2, <2>1, <2>2 DEF StorePaths
<1>8. StoreLines'
  <2>1. CASE state.path # 0
    <3>1. state'.files = state.files /\ state'.path = state.path /\ state'.acked = state.acked
      BY <1>1, <2>1
    <3>2. \A f \in Store!File : \A i \in 1..Len(state'.files[f].lines) : state'.files[f].lines[i].seq = i
      BY <1>0, <3>1 DEF StoreLines
    <3>3. ASSUME NEW s \in state.acked
          PROVE  \E i \in 1..Len(state'.files[state'.path].lines) : state'.files[state'.path].lines[i].stamp = s
      <4>1. PICK i \in 1..Len(state.files[state.path].lines) : state.files[state.path].lines[i].stamp = s
        BY <1>0, <2>1, <3>3 DEF StoreLines
      <4> QED
        BY <3>1, <4>1
    <3> QED
      BY <3>1, <3>2, <3>3 DEF StoreLines
  <2>2. CASE state.path = 0
    BY <1>0, <1>1, <2>2 DEF StoreLines, StorePaths
  <2> QED
    BY <2>1, <2>2
<1>9. Owning(p)' /\ Writing(p)' /\ Reading(p)'
  <2>1. me.file # 0
    BY <1>1, <1>2
  <2> QED
    BY <1>4, <2>1 DEF Owning, Writing, Reading
<1> QED
  BY <1>3, <1>6, <1>7, <1>8, <1>9, StoreStep

-----------------------------------------------------------------------------
(* One lemma per action.                                                   *)

LEMMA StoreCreates ==
  ASSUME StoreInv, NEW p \in Store!Procs, Store!Create(p)
  PROVE  StoreInv'
<1> DEFINE me == [Store!Idle EXCEPT !.at = "opening", !.mine = TRUE]
<1>0. StoreTyped /\ StorePaths /\ StoreLines
  BY DEF StoreInv
<1>1. me \in StoreProcess /\ me.at = "opening"
  BY IdleProcess DEF StoreProcess
<1>2. /\ state' = [state EXCEPT !.created = TRUE, !.dir = TRUE, !.proc[p] = me]
      /\ ~state.created
  BY DEF Store!Create
<1> HIDE DEF me
<1>3. StoreTyped'
  BY <1>0, <1>1, <1>2 DEF StoreTyped, StoreState
<1>4. /\ state'.files = state.files /\ state'.path = state.path /\ state'.dir = TRUE
      /\ state'.used = state.used /\ state'.created = TRUE /\ state'.acked = state.acked
      /\ state'.proc = [state.proc EXCEPT ![p] = me]
  BY <1>0, <1>2 DEF StoreTyped, StoreState
<1>5. state'.proc[p] = me /\ \A q \in Store!Procs \ {p} : state'.proc[q] = state.proc[q]
  BY <1>0, <1>4 DEF StoreTyped, StoreState
<1>6. state.used = 0 /\ state.path = 0
  BY <1>0, <1>2 DEF StorePaths, StoreTyped, StoreState
<1>7. ASSUME NEW q \in Store!Procs \ {p} PROVE Undisturbed(q)
  <2>1. \A f \in Store!File : Len(state.files[f].lines) \in Nat
    BY StoreFacts
  <2> QED
    BY <1>4, <1>5, <1>6, <2>1 DEF Undisturbed, Vanished
<1>8. StorePaths'
  <2>1. \A q \in Store!Procs : Making(q)' => q = p
    BY <1>0, <1>2, <1>5 DEF Making, StorePaths
  <2> QED
    BY <1>0, <1>4, <1>6, <2>1 DEF StorePaths
<1>9. StoreLines'
  BY <1>0, <1>4, <1>6 DEF StoreLines
<1>10. Owning(p)' /\ Writing(p)' /\ Reading(p)'
  BY <1>1, <1>5 DEF Owning, Writing, Reading
<1> QED
  BY <1>3, <1>7, <1>8, <1>9, <1>10, StoreStep

LEMMA StoreResolves ==
  ASSUME StoreInv, NEW p \in Store!Procs, Store!Resolve(p)
  PROVE  StoreInv'
<1> DEFINE me == [Store!Idle EXCEPT !.at = "opening"]
<1>1. me \in StoreProcess /\ me.at = "opening" /\ ~me.mine
  BY IdleProcess DEF StoreProcess
<1>2. state' = [state EXCEPT !.proc[p] = me]
  BY DEF Store!Resolve
<1> HIDE DEF me
<1>3. state'.proc[p] = me
  BY <1>2, StoreFacts DEF StoreState
<1>4. Owning(p)' /\ Writing(p)' /\ Reading(p)'
  BY <1>1, <1>3 DEF Owning, Writing, Reading
<1> QED
  BY <1>1, <1>2, <1>4, StoreMoves

LEMMA StoreDeletes ==
  ASSUME StoreInv, StoreAssumption, NEW p \in Store!Procs, Store!Delete(p)
  PROVE  StoreInv'
<1>0. StoreTyped /\ StorePaths
  BY DEF StoreInv
<1>1. CASE state.dir
  <2> DEFINE me == [Store!Idle EXCEPT !.goal = "delete", !.file = Store!WithJournal(state).path,
                                      !.at = "opened"]
  <2>1. state' = [Store!WithJournal(state) EXCEPT !.proc[p] = me]
    BY <1>1 DEF Store!Delete
  <2>2. state.used > 0 /\ (state.path # 0 \/ state.used < MaxFiles)
    BY DEF Store!Delete
  <2>3. Store!WithJournal(state).path \in {0} \cup Store!File
    BY <1>0, <2>2 DEF Store!WithJournal, StoreTyped, StoreState, Store!File, StoreAssumption
  <2>4. me \in StoreProcess /\ me.at = "opened" /\ me.file = Store!WithJournal(state).path
    BY <2>3, IdleProcess DEF StoreProcess
  <2> HIDE DEF me
  <2> QED
    BY <1>1, <2>1, <2>2, <2>4, StoreOpens
<1>2. CASE ~state.dir
  <2> DEFINE me == [Store!Idle EXCEPT !.goal = "delete", !.file = state.path, !.at = "cleanup"]
  <2>1. state' = [state EXCEPT !.proc[p] = me] /\ state.used > 0
    BY <1>2 DEF Store!Delete
  <2>2. me \in StoreProcess /\ me.at = "cleanup" /\ me.file = state.path
    BY <1>0, IdleProcess DEF StoreProcess, StoreTyped, StoreState
  <2> HIDE DEF me
  <2>3. /\ state'.proc[p] = me /\ state'.path = state.path /\ state'.dir = state.dir
        /\ state'.used = state.used
    BY <1>0, <2>1 DEF StoreTyped, StoreState
  <2>4. me.file = 0 /\ Vanished'
    BY <1>0, <1>2, <2>1, <2>2, <2>3 DEF StorePaths, Vanished
  <2>5. Owning(p)' /\ Writing(p)' /\ Reading(p)'
    BY <2>2, <2>3, <2>4 DEF Owning, Writing, Reading
  <2> QED
    BY <2>1, <2>2, <2>5, StoreMoves
<1> QED
  BY <1>1, <1>2

LEMMA StoreOpensFile ==
  ASSUME StoreInv, StoreAssumption, NEW p \in Store!Procs, Store!OpenFile(p)
  PROVE  StoreInv'
<1>0. StoreTyped /\ StorePaths /\ state.proc[p] \in StoreProcess /\ state.proc[p].at = "opening"
  BY StoreFacts DEF Store!OpenFile, Store!Me
<1>1. CASE state.path = 0 /\ ~state.proc[p].mine
  <2>1. state' = Store!Released(state, p)
    BY <1>1 DEF Store!OpenFile, Store!Me
  <2> QED
    BY <2>1, StoreReleases
<1>2. CASE state.path # 0 \/ state.proc[p].mine
  <2> DEFINE d == Store!WithJournal(state)
             me == [state.proc[p] EXCEPT !.at = "opened", !.file = d.path]
  <2>1. state.path # 0 \/ state.used < MaxFiles
    BY DEF Store!OpenFile
  <2>2. state.path # 0 \/ Making(p)
    BY <1>0, <1>2 DEF Making
  <2>3. d.path \in Store!File /\ d.path # 0 /\ d.proc = state.proc
    BY <1>0, <2>1 DEF Store!WithJournal, StoreTyped, StoreState, Store!File, StoreAssumption
  <2>4. state.path # 0 => d = state
    BY DEF Store!WithJournal
  <2>5. state' = [d EXCEPT !.proc[p] = me]
    <3>1. state' = [d EXCEPT !.proc[p].at = "opened", !.proc[p].file = d.path]
      BY <1>2, <2>3, <2>4 DEF Store!OpenFile, Store!Me
    <3>2. DOMAIN d.proc = Store!Procs /\ DOMAIN state.proc[p] = DOMAIN Store!Idle
      BY <1>0, <2>3, IdleProcess DEF StoreTyped, StoreState, StoreProcess
    <3> HIDE DEF d
    <3> QED
      BY <1>0, <2>3, <3>1, <3>2 DEF StoreTyped, StoreState, StoreProcess
  <2>6. me \in StoreProcess /\ me.at = "opened" /\ me.file = d.path
    BY <1>0, <2>3 DEF StoreProcess
  <2> HIDE DEF me
  <2> QED
    BY <2>1, <2>2, <2>5, <2>6, StoreOpens
<1> QED
  BY <1>0, <1>1, <1>2 DEF StoreProcess

LEMMA StoreLocks ==
  ASSUME StoreInv, NEW p \in Store!Procs, Store!Lock(p)
  PROVE  StoreInv'
<1> DEFINE old == state.proc[p]
           f == old.file
<1>0. /\ StoreTyped /\ old \in StoreProcess /\ old.at = "opened" /\ f \in Store!File
      /\ state.files[f] \in JournalFile /\ f # 0 /\ Len(state.files[f].lines) \in Nat
  BY StoreFacts DEF Store!Lock, Store!Me, Owning, StoreProcess
<1>1. CASE state.files[f].holder = 0
  <2> DEFINE me == [old EXCEPT !.at = "locked"]
             file == [state.files[f] EXCEPT !.holder = p]
  <2>1. state' = [state EXCEPT !.proc[p] = me, !.files[f] = file, !.acked = state.acked,
                               !.writes = state.writes]
    BY <1>0, <1>1 DEF Store!Lock, Store!Me, Store!Mine, Store!Nobody, StoreTyped, StoreState
  <2>2. me \in StoreProcess /\ me.at = "locked" /\ me.file = f
    BY <1>0 DEF StoreProcess
  <2>3. file \in JournalFile /\ file.lines = state.files[f].lines /\ file.holder = p
    BY <1>0 DEF JournalFile, Store!Procs
  <2>4. state'.proc[p] = me /\ state'.files[f] = file
    <3> HIDE DEF me, file
    <3> QED
      BY <1>0, <2>1 DEF StoreTyped, StoreState
  <2>6. /\ \A i \in 1..Len(file.lines) : file.lines[i].seq = i
        /\ state.acked \in SUBSET Nat /\ state.writes \in Nat
    BY <1>0, <2>3, StoreFacts DEF StoreLines, StoreTyped, StoreState
  <2> HIDE DEF me, file
  <2>5. Owning(p)' /\ Writing(p)' /\ Reading(p)'
    BY <1>0, <2>2, <2>3, <2>4 DEF Owning, Writing, Reading
  <2>7. /\ Len(state.files[f].lines) <= Len(file.lines)
        /\ \A i \in 1..Len(state.files[f].lines) : file.lines[i] = state.files[f].lines[i]
        /\ state.files[f].holder \in {0, p}
    BY <1>0, <1>1, <2>3
  <2> QED
    BY <1>0, <2>1, <2>2, <2>3, <2>5, <2>6, <2>7, StoreChanges
<1>2. CASE state.files[f].holder # 0
  <2> DEFINE dir == state.dir /\ (~old.mine \/ state.path # 0)
  <2>1. state' = [Store!Released(state, p) EXCEPT !.dir = @ /\ (~old.mine \/ state.path # 0)]
    BY <1>2 DEF Store!Lock, Store!Me, Store!Mine, Store!Nobody
  <2>2. state' = [Store!Released(state, p) EXCEPT !.dir = dir]
    BY <1>0, <2>1 DEF Store!Released, StoreTyped, StoreState
  <2>3. dir \in BOOLEAN /\ (dir = state.dir \/ (state.path = 0 /\ ~dir))
    BY <1>0 DEF StoreTyped, StoreState
  <2> HIDE DEF dir
  <2> QED
    BY <2>2, <2>3, StoreReleased
<1> QED
  BY <1>1, <1>2

LEMMA StoreChecks ==
  ASSUME StoreInv, NEW p \in Store!Procs, Store!Check(p)
  PROVE  StoreInv'
<1> DEFINE old == state.proc[p]
<1>0. StoreTyped /\ old \in StoreProcess /\ old.at = "locked" /\ Owning(p)
  BY StoreFacts DEF Store!Check, Store!Me
<1>1. CASE old.file = state.path
  <2> DEFINE at == IF old.goal = "delete" THEN "cleanup" ELSE "repair"
             me == [old EXCEPT !.at = at]
  <2>1. state' = [state EXCEPT !.proc[p] = me]
    BY <1>0, <1>1 DEF Store!Check, Store!SameJournal, Store!Me, StoreTyped, StoreState
  <2>2. me \in StoreProcess /\ me.at \in {"cleanup", "repair"} /\ me.file = old.file
    BY <1>0 DEF StoreProcess
  <2> HIDE DEF me
  <2>3. /\ state'.proc[p] = me /\ state'.path = state.path /\ state'.files = state.files
    BY <1>0, <2>1 DEF StoreTyped, StoreState
  <2>4. Owning(p)' /\ Writing(p)' /\ Reading(p)'
    BY <1>0, <1>1, <2>2, <2>3 DEF Owning, Writing, Reading
  <2> QED
    BY <2>1, <2>2, <2>4, StoreMoves
<1>2. CASE old.file # state.path
  <2>1. state' = Store!Released(state, p)
    BY <1>2 DEF Store!Check, Store!SameJournal, Store!Me
  <2> QED
    BY <2>1, StoreReleases
<1> QED
  BY <1>1, <1>2

LEMMA StoreRepairs ==
  ASSUME StoreInv, NEW p \in Store!Procs, Store!Repair(p)
  PROVE  StoreInv'
<1> DEFINE old == state.proc[p]
           f == old.file
           was == state.files[f]
           file == Store!Repaired(was)
<1>0. /\ StoreTyped /\ old \in StoreProcess /\ old.at = "repair" /\ f \in Store!File /\ f # 0
      /\ was \in JournalFile /\ Len(was.lines) \in Nat /\ was.lines \in Seq(JournalLine)
      /\ was.holder = p /\ f = state.path
  BY StoreFacts DEF Store!Repair, Store!Me, Owning, StoreProcess
<1>1. /\ file \in JournalFile /\ file.tail.kind = "none" /\ file.holder = p
      /\ Len(file.lines) \in Nat /\ Len(was.lines) <= Len(file.lines)
      /\ \A i \in 1..Len(was.lines) : file.lines[i] = was.lines[i]
  <2>1. CASE was.tail.kind = "none"
    BY <1>0, <2>1 DEF Store!Repaired
  <2>2. CASE was.tail.kind = "bare"
    <3>1. file = [was EXCEPT !.lines = Append(was.lines, was.tail.line), !.tail = Store!NoTail]
      BY <1>0, <2>2 DEF Store!Repaired
    <3>2. was.tail.line \in JournalLine
      BY <1>0 DEF JournalFile
    <3>3. /\ Append(was.lines, was.tail.line) \in Seq(JournalLine)
          /\ Len(Append(was.lines, was.tail.line)) = Len(was.lines) + 1
          /\ \A i \in 1..Len(was.lines) : Append(was.lines, was.tail.line)[i] = was.lines[i]
      BY <1>0, <3>2
    <3>4. Store!NoTail \in [kind : {"none", "bare", "torn"}, line : JournalLine] /\ Store!NoTail.kind = "none"
      BY DEF Store!NoTail, JournalLine
    <3> DEFINE longer == Append(was.lines, was.tail.line)
    <3>5. /\ longer \in Seq(JournalLine) /\ Len(longer) = Len(was.lines) + 1
          /\ \A i \in 1..Len(was.lines) : longer[i] = was.lines[i]
          /\ file = [was EXCEPT !.lines = longer, !.tail = Store!NoTail]
      BY <3>1, <3>3
    <3> HIDE DEF longer, file
    <3>6. file \in JournalFile /\ file.lines = longer /\ file.tail = Store!NoTail /\ file.holder = p
      BY <1>0, <3>4, <3>5 DEF JournalFile
    <3> QED
      BY <1>0, <3>4, <3>5, <3>6
  <2>3. CASE was.tail.kind = "torn"
    <3>1. file = [was EXCEPT !.tail = Store!NoTail]
      BY <1>0, <2>3 DEF Store!Repaired
    <3>4. Store!NoTail \in [kind : {"none", "bare", "torn"}, line : JournalLine] /\ Store!NoTail.kind = "none"
      BY DEF Store!NoTail, JournalLine
    <3> QED
      BY <1>0, <3>1, <3>4 DEF JournalFile
  <2> QED
    BY <1>0, <2>1, <2>2, <2>3 DEF JournalFile
<1>2. CASE state' = Store!Released(state, p)
  BY <1>2, StoreReleases
<1>3. CASE state' # Store!Released(state, p)
  <2> DEFINE me == [old EXCEPT !.at = "live", !.records = Len(file.lines)]
  <2>1. /\ Store!Readable(file.lines)
        /\ state' = [state EXCEPT !.files[f] = file, !.proc[p].at = "live",
                                  !.proc[p].records = Len(file.lines)]
    BY <1>3 DEF Store!Repair, Store!Me, Store!Mine
  <2> HIDE DEF file
  <2>2. me \in StoreProcess /\ me.at = "live" /\ me.file = f /\ me.records = Len(file.lines)
    BY <1>0, <1>1 DEF StoreProcess
  <2>3. state' = [state EXCEPT !.proc[p] = me, !.files[f] = file, !.acked = state.acked,
                               !.writes = state.writes]
    BY <1>0, <2>1 DEF StoreTyped, StoreState, StoreProcess
  <2> HIDE DEF me
  <2>4. /\ state'.proc[p] = me /\ state'.files[f] = file /\ state'.path = state.path
        /\ state.acked \in SUBSET Nat /\ state.writes \in Nat
    BY <1>0, <2>3 DEF StoreTyped, StoreState
  <2>5. Owning(p)' /\ Writing(p)' /\ Reading(p)'
    BY <1>0, <1>1, <2>2, <2>4 DEF Owning, Writing, Reading
  <2>6. \A i \in 1..Len(file.lines) : file.lines[i].seq = i
    BY <1>1, <2>1 DEF Store!Readable, JournalFile
  <2> QED
    BY ZenonT(60), <1>0, <1>1, <2>2, <2>3, <2>4, <2>5, <2>6, StoreChanges
<1> QED
  BY <1>2, <1>3

LEMMA StoreBegins ==
  ASSUME StoreInv, NEW p \in Store!Procs, Store!Begin(p)
  PROVE  StoreInv'
<1> DEFINE old == state.proc[p]
           f == old.file
           was == state.files[f]
           line == Store!Glued(was, [seq |-> old.records + 1, stamp |-> state.writes + 1])
<1>0. /\ StoreTyped /\ old \in StoreProcess /\ old.at = "live" /\ f \in Store!File /\ f # 0
      /\ was \in JournalFile /\ Len(was.lines) \in Nat /\ was.holder = p /\ f = state.path
      /\ ~old.failed /\ was.tail.kind = "none" /\ old.records = Len(was.lines)
      /\ state.writes \in Nat /\ state.acked \in SUBSET Nat
  BY StoreFacts DEF Store!Begin, Store!Writable, Store!Me, Owning, Writing, StoreProcess, StoreTyped, StoreState
<1>1. PICK kind \in {"torn", "bare"} :
        state' = [state EXCEPT !.writes = @ + 1, !.proc[p].at = "writing",
                    !.files[f].tail = [kind |-> kind, line |-> line]]
  BY DEF Store!Begin, Store!Me, Store!Mine
<1>2. line = [seq |-> Len(was.lines) + 1, stamp |-> state.writes + 1] /\ line \in JournalLine
  BY SMTT(30), <1>0 DEF Store!Glued, JournalLine
<1> DEFINE me == [old EXCEPT !.at = "writing"]
           tail == [kind |-> kind, line |-> line]
           file == [was EXCEPT !.tail = tail]
           writes == state.writes + 1
<1> HIDE DEF line
<1>3. tail \in [kind : {"none", "bare", "torn"}, line : JournalLine] /\ tail.kind # "none" /\ tail.line = line
  BY <1>2
<1> HIDE DEF tail
<1>4. me \in StoreProcess /\ me.at = "writing" /\ me.file = f /\ me.records = Len(was.lines) /\ ~me.failed
  BY <1>0 DEF StoreProcess
<1>5. file \in JournalFile /\ file.lines = was.lines /\ file.tail = tail /\ file.holder = p
  BY <1>0, <1>3 DEF JournalFile
<1>6. state' = [state EXCEPT !.proc[p] = me, !.files[f] = file, !.acked = state.acked, !.writes = writes]
  BY <1>0, <1>1 DEF StoreTyped, StoreState, tail
<1>7. writes \in Nat
  BY <1>0
<1> HIDE DEF me, file, writes
<1>8. state'.proc[p] = me /\ state'.files[f] = file /\ state'.path = state.path
  BY <1>0, <1>6 DEF StoreTyped, StoreState
<1>9. line.seq = Len(was.lines) + 1
  BY <1>2
<1>10. Owning(p)' /\ Writing(p)' /\ Reading(p)'
  BY ZenonT(60), <1>0, <1>3, <1>4, <1>5, <1>8, <1>9 DEF Owning, Writing, Reading
<1>11. /\ Len(state.files[f].lines) <= Len(file.lines)
       /\ \A i \in 1..Len(state.files[f].lines) : file.lines[i] = state.files[f].lines[i]
       /\ \A i \in 1..Len(file.lines) : file.lines[i].seq = i
  BY <1>0, <1>5, StoreFacts DEF StoreLines
<1> QED
  BY ZenonT(60), <1>0, <1>4, <1>5, <1>6, <1>7, <1>10, <1>11, StoreChanges

LEMMA StoreAcknowledges ==
  ASSUME StoreInv, NEW p \in Store!Procs, Store!Acknowledge(p)
  PROVE  StoreInv'
<1> DEFINE old == state.proc[p]
           f == old.file
           was == state.files[f]
           line == was.tail.line
           longer == Append(was.lines, line)
           count == Len(was.lines) + 1
           me == [old EXCEPT !.at = "live", !.records = count]
           file == [was EXCEPT !.lines = longer, !.tail = Store!NoTail]
           acked == state.acked \cup {line.stamp}
<1>0. /\ StoreTyped /\ old \in StoreProcess /\ old.at = "writing" /\ f \in Store!File /\ f # 0
      /\ was \in JournalFile /\ Len(was.lines) \in Nat /\ was.lines \in Seq(JournalLine)
      /\ was.holder = p /\ f = state.path
      /\ ~old.failed /\ old.records = Len(was.lines) /\ line.seq = Len(was.lines) + 1
      /\ state.writes \in Nat /\ state.acked \in SUBSET Nat
  BY StoreFacts DEF Store!Acknowledge, Store!Me, Owning, Writing, StoreProcess, StoreTyped, StoreState
<1>1. line \in JournalLine /\ line.stamp \in Nat
  BY <1>0 DEF JournalFile, JournalLine
<1>2. /\ longer \in Seq(JournalLine) /\ Len(longer) = Len(was.lines) + 1
      /\ \A i \in 1..Len(was.lines) : longer[i] = was.lines[i]
      /\ longer[Len(was.lines) + 1] = line
  <2>1. was.lines \in Seq(JournalLine) /\ line \in JournalLine
    BY <1>0, <1>1
  <2> HIDE DEF was, line
  <2> QED
    BY <2>1, AppendFacts
<1>3. /\ Store!NoTail \in [kind : {"none", "bare", "torn"}, line : JournalLine]
      /\ Store!NoTail.kind = "none"
  BY DEF Store!NoTail, JournalLine
<1>4. state' = [state EXCEPT !.files[f].lines = longer, !.files[f].tail = Store!NoTail,
                             !.acked = acked, !.proc[p].at = "live", !.proc[p].records = count]
  BY <1>0 DEF Store!Acknowledge, Store!Me, Store!Mine, StoreTyped, StoreState, JournalFile
<1>14. count \in Nat
  BY <1>0
<1> HIDE DEF longer, count
<1>5. me \in StoreProcess /\ me.at = "live" /\ me.file = f /\ me.records = count /\ ~me.failed
  BY <1>0, <1>14 DEF StoreProcess
<1>6. file \in JournalFile /\ file.lines = longer /\ file.tail = Store!NoTail /\ file.holder = p
  BY <1>0, <1>2, <1>3 DEF JournalFile
<1>7. acked \in SUBSET Nat
  BY <1>0, <1>1
<1>8. state' = [state EXCEPT !.proc[p] = me, !.files[f] = file, !.acked = acked, !.writes = state.writes]
  <2> HIDE DEF acked
  <2>1. /\ [state.files EXCEPT ![f].lines = longer, ![f].tail = Store!NoTail]
             = [state.files EXCEPT ![f] = file]
        /\ [state.proc EXCEPT ![p].at = "live", ![p].records = count]
             = [state.proc EXCEPT ![p] = me]
    BY <1>0 DEF StoreTyped, StoreState, StoreProcess, JournalFile
  <2>2. state' = [state EXCEPT !.files = [state.files EXCEPT ![f].lines = longer, ![f].tail = Store!NoTail],
                               !.acked = acked,
                               !.proc = [state.proc EXCEPT ![p].at = "live", ![p].records = count]]
    BY <1>0, <1>4 DEF StoreTyped, StoreState
  <2> HIDE DEF me, file
  <2> QED
    BY <1>0, <2>1, <2>2 DEF StoreTyped, StoreState
<1> HIDE DEF me, file
<1>9. state'.proc[p] = me /\ state'.files[f] = file /\ state'.path = state.path
  <2> HIDE DEF acked
  <2> QED
    BY <1>0, <1>8 DEF StoreTyped, StoreState
<1>10. Owning(p)' /\ Writing(p)' /\ Reading(p)'
  BY <1>0, <1>2, <1>3, <1>5, <1>6, <1>9 DEF count, Owning, Writing, Reading
<1>11. /\ Len(was.lines) <= Len(longer)
       /\ \A i \in 1..Len(longer) : longer[i].seq = i
  <2>1. ASSUME NEW i \in 1..Len(was.lines) PROVE was.lines[i].seq = i
    BY <1>0, <2>1, StoreFacts DEF StoreLines
  <2>2. \A i \in 1..Len(longer) : i \in 1..Len(was.lines) \/ i = Len(was.lines) + 1
    BY <1>0, <1>2
  <2>3. longer[Len(was.lines) + 1].seq = Len(was.lines) + 1
    BY <1>0, <1>2
  <2>4. ASSUME NEW i \in 1..Len(longer) PROVE longer[i].seq = i
    <3>1. CASE i \in 1..Len(was.lines)
      BY <1>2, <2>1, <3>1
    <3> QED
      BY <2>2, <2>3, <3>1
  <2>5. Len(was.lines) <= Len(longer)
    <3> DEFINE a == Len(was.lines)
               b == Len(longer)
    <3>1. a \in Nat /\ b = a + 1
      BY <1>0, <1>2
    <3> HIDE DEF a, b
    <3>2. a <= b
      BY <3>1
    <3> QED
      BY <3>2 DEF a, b
  <2> QED
    BY <2>4, <2>5
<1>12. \A s \in acked : s \in state.acked \/ \E i \in 1..Len(file.lines) : file.lines[i].stamp = s
  <2>1. Len(was.lines) + 1 \in 1..Len(file.lines) /\ file.lines[Len(was.lines) + 1] = line
    BY <1>0, <1>2, <1>6
  <2> QED
    BY <2>1
<1>13. \A i \in 1..Len(state.files[f].lines) : file.lines[i] = state.files[f].lines[i]
  BY <1>2, <1>6
<1>15. Len(state.files[f].lines) <= Len(file.lines) /\ \A i \in 1..Len(file.lines) : file.lines[i].seq = i
  BY <1>6, <1>11
<1>16. state.files[f].holder \in {0, p}
  BY <1>0
<1>17. me \in StoreProcess /\ file \in JournalFile /\ me.at # "opening"
  BY <1>5, <1>6
<1>18. f \in Store!File /\ f = state.path /\ state.writes \in Nat
  BY <1>0
<1> HIDE DEF acked, line, was, f
<1> QED
  BY ZenonT(60), <1>7, <1>8, <1>10, <1>12, <1>13, <1>15, <1>16, <1>17, <1>18, StoreChanges

LEMMA StoreWriteFails ==
  ASSUME StoreInv, NEW p \in Store!Procs, Store!WriteFails(p)
  PROVE  StoreInv'
<1> DEFINE old == state.proc[p]
           f == old.file
           was == state.files[f]
           me == [old EXCEPT !.at = "live", !.failed = TRUE]
<1>0. /\ StoreTyped /\ old \in StoreProcess /\ old.at = "writing" /\ f \in Store!File /\ f # 0
      /\ was \in JournalFile /\ Len(was.lines) \in Nat /\ was.holder = p /\ f = state.path
      /\ state.writes \in Nat /\ state.acked \in SUBSET Nat
  BY StoreFacts DEF Store!WriteFails, Store!Me, Owning, StoreProcess, StoreTyped, StoreState
<1>1. PICK tail \in {Store!NoTail, was.tail} :
        state' = [state EXCEPT !.files[f].tail = tail, !.proc[p].at = "live", !.proc[p].failed = TRUE]
  BY DEF Store!WriteFails, Store!Me, Store!Mine
<1> DEFINE file == [was EXCEPT !.tail = tail]
<1>2. tail \in [kind : {"none", "bare", "torn"}, line : JournalLine]
  BY <1>0 DEF Store!NoTail, JournalLine, JournalFile
<1>3. me \in StoreProcess /\ me.at = "live" /\ me.file = f /\ me.failed
  BY <1>0 DEF StoreProcess
<1>4. file \in JournalFile /\ file.lines = was.lines /\ file.holder = p
  BY <1>0, <1>2 DEF JournalFile
<1>5. state' = [state EXCEPT !.proc[p] = me, !.files[f] = file, !.acked = state.acked, !.writes = state.writes]
  BY <1>0, <1>1 DEF StoreTyped, StoreState, StoreProcess
<1> HIDE DEF me, file
<1>6. state'.proc[p] = me /\ state'.files[f] = file /\ state'.path = state.path
  BY <1>0, <1>5 DEF StoreTyped, StoreState
<1>7. Owning(p)' /\ Writing(p)' /\ Reading(p)'
  BY <1>0, <1>3, <1>4, <1>6 DEF Owning, Writing, Reading
<1>8. /\ Len(state.files[f].lines) <= Len(file.lines)
      /\ \A i \in 1..Len(state.files[f].lines) : file.lines[i] = state.files[f].lines[i]
      /\ \A i \in 1..Len(file.lines) : file.lines[i].seq = i
  BY <1>0, <1>4, StoreFacts DEF StoreLines
<1> QED
  BY ZenonT(60), <1>0, <1>3, <1>4, <1>5, <1>7, <1>8, StoreChanges

LEMMA StoreCloses ==
  ASSUME StoreInv, NEW p \in Store!Procs,
         \/ Store!Close(p) \/ Store!Discard(p) \/ Store!Cleanup(p)
         \/ Store!RemoveDirectory(p) \/ Store!Crash(p) \/ Store!Inspected(p)
  PROVE  StoreInv'
<1> DEFINE old == state.proc[p]
<1>0. StoreTyped /\ old \in StoreProcess /\ Owning(p)
  BY StoreFacts
<1>1. CASE state' = Store!Released(state, p)
  BY <1>1, StoreReleases
<1>2. ASSUME NEW goal \in {"open", "delete", "discard"},
             old.at \in {"live", "cleanup"},
             state' = [state EXCEPT !.proc[p] = [old EXCEPT !.at = "remove", !.goal = goal]]
      PROVE  StoreInv'
  <2> DEFINE me == [old EXCEPT !.at = "remove", !.goal = goal]
  <2>1. me \in StoreProcess /\ me.at = "remove" /\ me.file = old.file
    BY <1>0 DEF StoreProcess
  <2>2. state' = [state EXCEPT !.proc[p] = me]
    BY <1>2
  <2> HIDE DEF me
  <2>3. /\ state'.proc[p] = me /\ state'.path = state.path /\ state'.files = state.files
        /\ state'.dir = state.dir /\ state'.used = state.used
    BY <1>0, <2>2 DEF StoreTyped, StoreState
  <2>4. Owning(p)' /\ Writing(p)' /\ Reading(p)'
    BY <1>0, <1>2, <2>1, <2>3 DEF Owning, Writing, Reading, Vanished
  <2> QED
    BY <2>1, <2>2, <2>4, StoreMoves
<1>3. ASSUME old.at \in {"live", "cleanup"}, state' = [state EXCEPT !.proc[p].at = "remove"]
      PROVE  StoreInv'
  <2>1. [state EXCEPT !.proc[p].at = "remove"]
          = [state EXCEPT !.proc[p] = [old EXCEPT !.at = "remove", !.goal = old.goal]]
    BY <1>0 DEF StoreTyped, StoreState, StoreProcess
  <2>2. old.goal \in {"open", "delete", "discard"}
    BY <1>0 DEF StoreProcess
  <2> QED
    BY <1>2, <1>3, <2>1, <2>2
<1>4. CASE Store!Close(p)
  BY <1>1, <1>3, <1>4 DEF Store!Close, Store!Me
<1>5. CASE Store!Discard(p)
  <2>1. state' = [state EXCEPT !.proc[p] = [old EXCEPT !.at = "remove", !.goal = "discard"]]
        /\ old.at = "live"
    BY ZenonT(60), <1>0, <1>5 DEF Store!Discard, Store!Me, StoreTyped, StoreState, StoreProcess
  <2> QED
    BY <1>2, <2>1
<1>6. CASE Store!Cleanup(p)
  BY <1>1, <1>3, <1>6 DEF Store!Cleanup, Store!Me
<1>7. CASE Store!RemoveDirectory(p)
  <2> DEFINE dir == state.dir /\ state.path # 0
  <2>1. state' = [Store!Released(state, p) EXCEPT !.dir = @ /\ state.path # 0]
    BY <1>7 DEF Store!RemoveDirectory
  <2>2. state' = [Store!Released(state, p) EXCEPT !.dir = dir]
    BY <1>0, <2>1 DEF Store!Released, StoreTyped, StoreState
  <2>3. dir \in BOOLEAN /\ (dir = state.dir \/ (state.path = 0 /\ ~dir))
    BY <1>0 DEF StoreTyped, StoreState
  <2> HIDE DEF dir
  <2> QED
    BY <2>2, <2>3, StoreReleased
<1>8. CASE Store!Crash(p) \/ Store!Inspected(p)
  BY <1>1, <1>8 DEF Store!Crash, Store!Inspected
<1> QED
  BY <1>4, <1>5, <1>6, <1>7, <1>8

LEMMA StoreUnlinks ==
  ASSUME StoreInv, NEW p \in Store!Procs, Store!Unlink(p)
  PROVE  StoreInv'
<1> DEFINE old == state.proc[p]
           me == [old EXCEPT !.at = "rmdir"]
<1>0. /\ StoreTyped /\ StorePaths /\ StoreLines /\ old \in StoreProcess /\ Owning(p)
      /\ old.at = "remove"
  BY StoreFacts DEF Store!Unlink, Store!Me
<1>1. me \in StoreProcess /\ me.at = "rmdir"
  BY <1>0 DEF StoreProcess
<1>2. state' = [state EXCEPT !.path = 0, !.proc[p] = me, !.acked = {}]
  BY <1>0 DEF Store!Unlink, StoreTyped, StoreState
<1> HIDE DEF me
<1>3. StoreTyped'
  BY <1>0, <1>1, <1>2 DEF StoreTyped, StoreState
<1>4. /\ state'.files = state.files /\ state'.path = 0 /\ state'.dir = state.dir
      /\ state'.used = state.used /\ state'.created = state.created /\ state'.acked = {}
      /\ state'.proc = [state.proc EXCEPT ![p] = me]
  BY <1>0, <1>2 DEF StoreTyped, StoreState
<1>5. state'.proc[p] = me /\ \A q \in Store!Procs \ {p} : state'.proc[q] = state.proc[q]
  BY <1>0, <1>4 DEF StoreTyped, StoreState
<1>6. ASSUME NEW q \in Store!Procs \ {p} PROVE Undisturbed(q)
  <2>1. \A f \in Store!File : Len(state.files[f].lines) \in Nat /\ f # 0
    BY StoreFacts DEF Store!File
  <2>2. \A f \in Store!File : state.files[f].holder = q => f # state.path
    BY <1>0, <2>1 DEF Owning, Vanished
  <2> QED
    BY <1>4, <1>5, <2>1, <2>2 DEF Undisturbed, Vanished
<1>7. StorePaths'
  <2>1. \A q \in Store!Procs : Making(q)' => Making(q)
    BY <1>1, <1>5 DEF Making
  <2> QED
    BY <1>0, <1>4, <2>1 DEF StorePaths
<1>8. StoreLines'
  BY <1>0, <1>4 DEF StoreLines
<1>9. Owning(p)' /\ Writing(p)' /\ Reading(p)'
  BY <1>1, <1>5 DEF Owning, Writing, Reading
<1> QED
  BY <1>3, <1>6, <1>7, <1>8, <1>9, StoreStep

LEMMA StoreLooks ==
  ASSUME StoreInv, NEW p \in Store!Procs, Store!Look(p)
  PROVE  StoreInv'
<1> DEFINE f == state.path
           file == state.files[f]
           tail == IF file.tail = Store!NoTail THEN 0 ELSE file.tail.line.stamp
           me == [Store!Idle EXCEPT !.at = "looked", !.file = f, !.known = state.acked,
                                    !.mark = Len(file.lines), !.tail = tail]
<1>0. /\ StoreTyped /\ f \in Store!File /\ f # 0 /\ file \in JournalFile
      /\ Len(file.lines) \in Nat /\ state.acked \in SUBSET Nat
  BY StoreFacts DEF Store!Look, StoreState
<1>1. tail \in Nat
  BY <1>0 DEF JournalFile, JournalLine
<1>2. state' = [state EXCEPT !.proc[p] = me]
  BY DEF Store!Look, Store!Lines
<1> HIDE DEF tail
<1>3. /\ me \in StoreProcess /\ me.at = "looked" /\ me.file = f
      /\ me.known = state.acked /\ me.mark = Len(file.lines)
  BY <1>0, <1>1, IdleProcess DEF StoreProcess
<1> HIDE DEF me
<1>4. state'.proc[p] = me /\ state'.files = state.files
  BY <1>0, <1>2 DEF StoreTyped, StoreState
<1>5. \A s \in state.acked : \E i \in 1..Len(file.lines) : file.lines[i].stamp = s
  BY <1>0, StoreFacts DEF StoreLines
<1>6. state'.proc[p].at = "looked" /\ state'.proc[p].file # 0
  BY <1>0, <1>3, <1>4
<1>7. Owning(p)' /\ Writing(p)'
  BY <1>6 DEF Owning, Writing
<1>8. Reading(p)'
  <2> DEFINE n == Len(file.lines)
  <2>1. /\ state'.proc[p].mark = n /\ state'.proc[p].known = state.acked
        /\ state'.files[state'.proc[p].file].lines = file.lines
    BY <1>0, <1>3, <1>4
  <2>2. n <= n /\ \A s \in state.acked : \E i \in 1..n : file.lines[i].stamp = s
    BY <1>0, <1>5
  <2> HIDE DEF n
  <2>3. Len(file.lines) = n
    BY DEF n
  <2> QED
    BY <1>6, <2>1, <2>2, <2>3 DEF Reading
<1> QED
  BY <1>2, <1>3, <1>7, <1>8, StoreMoves

LEMMA StoreReads ==
  ASSUME StoreInv, NEW p \in Store!Procs, Store!Read(p)
  PROVE  StoreInv'
<1> DEFINE old == state.proc[p]
           f == old.file
           lines == state.files[f].lines
<1>0. /\ StoreTyped /\ old \in StoreProcess /\ old.at = "looked" /\ f \in Store!File
      /\ Len(lines) \in Nat /\ old.mark \in Nat /\ old.mark <= Len(lines)
      /\ \A s \in old.known : \E i \in 1..old.mark : lines[i].stamp = s
      /\ \A i \in 1..Len(lines) : lines[i].seq = i
  BY StoreFacts DEF Store!Read, Store!Me, Owning, Reading, StoreProcess, StoreLines
<1>3. lines \in Seq(JournalLine)
  BY <1>0, StoreFacts
<1>1. CASE state' = Store!Released(state, p)
  BY <1>1, StoreReleases
<1>2. CASE state' # Store!Released(state, p)
  <2>1. PICK seen \in Store!Prefix(p) :
          state' = [state EXCEPT !.proc[p].at = "inspected", !.proc[p].seen = seen]
    BY <1>2 DEF Store!Read
  <2>2. PICK n \in IF Store!Overtaken(p) THEN old.mark..Len(lines) ELSE {old.mark} :
          seen = SubSeq(lines, 1, n)
    BY <2>1 DEF Store!Prefix, Store!Me, Store!Lines
  <2>3. n \in Nat /\ n <= Len(lines) /\ old.mark <= n
    <3> DEFINE a == old.mark
               b == Len(lines)
    <3>1. a \in Nat /\ b \in Nat /\ a <= b
      BY <1>0
    <3>2. n \in a..b \/ n = a
      BY <2>2
    <3> HIDE DEF a, b
    <3>3. n \in Nat /\ n <= b /\ a <= n
      BY <3>1, <3>2
    <3> QED
      BY <3>3 DEF a, b
  <2>4. /\ seen \in Seq(JournalLine) /\ Len(seen) = n
        /\ \A i \in 1..n : seen[i] = lines[i]
    <3> HIDE DEF lines
    <3> QED
      BY <1>0, <1>3, <2>2, <2>3, PrefixFacts
  <2> DEFINE me == [old EXCEPT !.at = "inspected", !.seen = seen]
  <2>5. me \in StoreProcess /\ me.at = "inspected" /\ me.seen = seen /\ me.known = old.known
    BY <1>0, <2>4 DEF StoreProcess
  <2>6. state' = [state EXCEPT !.proc[p] = me]
    <3>1. [state.proc EXCEPT ![p].at = "inspected", ![p].seen = seen] = [state.proc EXCEPT ![p] = me]
      <4> DEFINE procs == state.proc
                 left == [procs EXCEPT ![p].at = "inspected", ![p].seen = seen]
      <4>1. procs \in [Store!Procs -> StoreProcess]
        BY <1>0 DEF StoreTyped, StoreState
      <4>2. DOMAIN left = Store!Procs /\ DOMAIN [procs EXCEPT ![p] = me] = Store!Procs
        BY <4>1
      <4>3. left[p] = [[procs[p] EXCEPT !.at = "inspected"] EXCEPT !.seen = seen]
        BY <4>1
      <4>4. ASSUME NEW q \in Store!Procs PROVE left[q] = [procs EXCEPT ![p] = me][q]
        BY <4>1, <4>3, <1>0 DEF StoreProcess
      <4> QED
        BY <4>2, <4>4
    <3>2. state' = [state EXCEPT !.proc = [state.proc EXCEPT ![p].at = "inspected", ![p].seen = seen]]
      BY <1>0, <2>1 DEF StoreTyped, StoreState
    <3> HIDE DEF me
    <3> QED
      BY <1>0, <3>1, <3>2 DEF StoreTyped, StoreState
  <2> HIDE DEF me
  <2>7. state'.proc[p] = me
    BY <1>0, <2>6 DEF StoreTyped, StoreState
  <2>11. \A i \in 1..n : i \in 1..Len(lines)
    <3> DEFINE b == Len(lines)
    <3>1. b \in Nat /\ n \in Nat /\ n <= b
      BY <1>0, <2>3
    <3> HIDE DEF b
    <3>2. \A i \in 1..n : i \in 1..b
      BY <3>1
    <3> QED
      BY <3>2 DEF b
  <2>12. \A i \in 1..old.mark : i \in 1..n
    <3> DEFINE a == old.mark
    <3>1. a \in Nat /\ n \in Nat /\ a <= n
      BY <1>0, <2>3
    <3> HIDE DEF a
    <3>2. \A i \in 1..a : i \in 1..n
      BY <3>1
    <3> QED
      BY <3>2 DEF a
  <2>8. ASSUME NEW i \in 1..n PROVE seen[i].seq = i
    BY <1>0, <2>4, <2>11
  <2>9. ASSUME NEW s \in old.known PROVE \E i \in 1..n : seen[i].stamp = s
    <3>1. PICK i \in 1..old.mark : lines[i].stamp = s
      BY <1>0
    <3>2. i \in 1..n
      BY <2>12
    <3> QED
      BY <2>4, <3>1, <3>2
  <2>10. Owning(p)' /\ Writing(p)' /\ Reading(p)'
    BY <2>4, <2>5, <2>7, <2>8, <2>9 DEF Owning, Writing, Reading
  <2> QED
    BY <2>5, <2>6, <2>10, StoreMoves
<1> QED
  BY <1>1, <1>2

-----------------------------------------------------------------------------
(* The invariant.                                                          *)

LEMMA StoreStarts ==
  ASSUME StoreAssumption, Store!Init
  PROVE  StoreInv
<1> DEFINE file == [lines |-> <<>>, tail |-> Store!NoTail, holder |-> 0]
<1>1. file \in JournalFile /\ file.lines = <<>>
  BY DEF JournalFile, JournalLine, Store!NoTail
<1>2. state = [files |-> [f \in Store!File |-> file], path |-> 0, dir |-> FALSE, used |-> 0,
               writes |-> 0, created |-> FALSE, acked |-> {},
               proc |-> [p \in Store!Procs |-> Store!Idle]]
  BY DEF Store!Init, Store!Nobody
<1> HIDE DEF file
<1>3. StoreTyped
  BY <1>1, <1>2, IdleProcess DEF StoreTyped, StoreState
<1>4. \A p \in Store!Procs : state.proc[p].at = "idle"
  BY <1>2, IdleProcess
<1>5. StorePaths
  BY <1>2, <1>4 DEF StorePaths, Making
<1>6. StoreLines
  BY <1>1, <1>2 DEF StoreLines
<1>7. \A p \in Store!Procs : Owning(p) /\ Writing(p) /\ Reading(p)
  BY <1>4 DEF Owning, Writing, Reading
<1> QED
  BY <1>3, <1>5, <1>6, <1>7 DEF StoreInv

LEMMA StoreNext ==
  ASSUME StoreAssumption, StoreInv, Store!Next
  PROVE  StoreInv'
<1>1. PICK p \in Store!Procs :
        \/ Store!Create(p) \/ Store!Resolve(p) \/ Store!Delete(p) \/ Store!OpenFile(p)
        \/ Store!Lock(p) \/ Store!Check(p) \/ Store!Repair(p)
        \/ Store!Begin(p) \/ Store!Acknowledge(p) \/ Store!WriteFails(p)
        \/ Store!Close(p) \/ Store!Discard(p)
        \/ Store!Cleanup(p) \/ Store!Unlink(p) \/ Store!RemoveDirectory(p) \/ Store!Crash(p)
        \/ Store!Look(p) \/ Store!Read(p) \/ Store!Inspected(p)
  BY DEF Store!Next
<1> QED
  BY <1>1, StoreCreates, StoreResolves, StoreDeletes, StoreOpensFile, StoreLocks, StoreChecks,
     StoreRepairs, StoreBegins, StoreAcknowledges, StoreWriteFails, StoreCloses, StoreUnlinks,
     StoreLooks, StoreReads

LEMMA StoreSafe ==
  ASSUME StoreInv
  PROVE  Store!StoreIsSound
<1>1. \A f \in Store!File : DOMAIN state.files[f].lines = 1..Len(state.files[f].lines)
  BY StoreFacts
<1>2. Store!OpenIsAtPath
  BY StoreFacts DEF Store!OpenIsAtPath, Store!Me, Store!Mine, Owning, StorePaths
<1>3. Store!AcknowledgedKept
  BY <1>1, StoreFacts DEF Store!AcknowledgedKept, Store!Stamps, Store!Lines, StoreLines, StoreState
<1>4. Store!JournalIsSound
  BY <1>1, StoreFacts DEF Store!JournalIsSound, Store!Readable, Store!Lines, StoreLines
<1>5. Store!SnapshotIsSound
  BY StoreFacts DEF Store!SnapshotIsSound, Store!Me, Store!Readable, Store!Stamps, Reading, StoreProcess
<1> QED
  BY <1>2, <1>3, <1>4, <1>5 DEF Store!StoreIsSound

-----------------------------------------------------------------------------
(* The commands a process runs itself.                                     *)

CommandJob ==
  [kind : Commands!Kind, status : {"none", "running"} \cup Commands!Settled,
   call : {"none", "built", "refused", "waiting", "late", "stopping", "returned"},
   got : {"nothing", "result", "handle", "error"}, leader : {"none", "runs", "ok", "bad"},
   kids : 0..1, stuck : BOOLEAN, strays : Nat,
   monitor : {"off", "wait", "kill", "group", "groupkill", "settle", "done"},
   timedOut : BOOLEAN, leftovers : BOOLEAN, reason : {"none"} \cup Commands!Stopper, stops : Nat,
   stoppers : SUBSET Commands!Stopper, kept : BOOLEAN, join : BOOLEAN, seen : BOOLEAN, events : Nat]
JobsState ==
  [run : {"turn", "answered", "cancelled"}, closing : {"no", "exit", "session"},
   left : SUBSET Commands!Job, closed : BOOLEAN, gone : BOOLEAN,
   job : [Commands!Job -> CommandJob]]

\* The job, its monitor and its processes are at one point of its life.
Living(j) ==
  /\ j.call = "none" => j.leader = "none" /\ j.status = "none" /\ j.kids = 0
  /\ j.call \in {"none", "built", "refused"} => ~j.kept
  /\ j.call \in {"none", "built", "refused"} \/ j.status = "none" => j.monitor = "off" /\ j.reason = "none"
  /\ j.monitor = "off" <=> j.status = "none"
  /\ j.monitor = "done" <=> j.status \in Commands!Settled
  /\ j.monitor \in {"group", "groupkill", "settle", "done"} => j.leader # "runs"
  /\ j.kept => j.status # "none"

\* What a settled command left behind, and what its status says of its stop.
Ending(j) ==
  /\ j.monitor \in {"settle", "done"} /\ j.kind = "bash" /\ ~j.timedOut => j.kids = 0 \/ j.stuck
  /\ j.monitor = "kill" => j.timedOut
  /\ j.status \in {"completed", "failed"} => j.reason = "none" /\ ~j.timedOut
  /\ j.reason # "none" => j.status \in {"running", "killed"}
  /\ j.stops <= 1 /\ (j.reason = "none" => j.stops = 0)

\* Who was told of the end, and who has to be.
Telling(j) ==
  /\ j.call # "returned" => j.got = "nothing" /\ ~j.seen
  /\ j.got = "result" => ~j.kept
  /\ j.got = "result" \/ ~j.seen => j.events = 0
  /\ j.events <= 1
  /\ j.seen => j.monitor = "done"
  /\ "tool" \in j.stoppers => j.call = "returned"
  /\ j.call = "late" \/ j.got = "handle" => j.join /\ j.kind # "shell"

\* A command that nobody knows any more is over, or its starter kills it.
Known(j) == j.leader = "runs" /\ ~j.kept => j.stuck \/ j.call \in {"built", "refused"}

Sound(j) == Living(j) /\ Ending(j) /\ Telling(j) /\ Known(j)

Harmless(j) == j.leader = "runs" => j.stuck \/ j.call \in {"built", "refused"}
Joined(j) ==
  j.kind # "shell" =>
    /\ j.call \in {"none", "returned"}
    /\ j.got = "handle" /\ j.kept => j.seen

JobsTyped == state \in JobsState
JobsInv ==
  /\ JobsTyped
  /\ \A c \in Commands!Job : Sound(state.job[c])
  /\ state.closing = "exit" \/ state.gone => state.closed
  /\ state.closing = "exit" => \A c \in Commands!Job \ state.left : Harmless(state.job[c])
  /\ state.gone => \A c \in Commands!Job : Harmless(state.job[c])
  /\ state.run = "answered" => \A c \in Commands!Job : Joined(state.job[c])

\* One job becomes another.
Follows(j, k) ==
  /\ Sound(k)
  /\ state.closed /\ Harmless(j) => Harmless(k)
  /\ state.run = "answered" /\ Joined(j) => Joined(k)
  /\ j.status \in Commands!Settled => k.status = j.status
  /\ j.kept /\ ~k.kept => j.status \in Commands!Settled \/ j.stuck

LEMMA JobFacts ==
  ASSUME JobsInv, NEW c \in Commands!Job
  PROVE  state.job[c] \in CommandJob /\ Sound(state.job[c])
BY DEF JobsInv, JobsTyped, JobsState

LEMMA JobChanges ==
  ASSUME JobsInv, NEW c \in Commands!Job, NEW k \in CommandJob,
         state' = [state EXCEPT !.job[c] = k], Follows(state.job[c], k)
  PROVE  JobsInv' /\ Commands!EndsOnce
<1>1. /\ state'.run = state.run /\ state'.closing = state.closing /\ state'.left = state.left
      /\ state'.closed = state.closed /\ state'.gone = state.gone
      /\ state'.job = [state.job EXCEPT ![c] = k]
  BY DEF JobsInv, JobsTyped, JobsState
<1>2. JobsTyped'
  BY DEF JobsInv, JobsTyped, JobsState
<1>3. state.job \in [Commands!Job -> CommandJob]
  BY DEF JobsInv, JobsTyped, JobsState
<1>4. ASSUME NEW d \in Commands!Job PROVE Follows(state.job[d], state'.job[d])
  <2>1. CASE d = c
    BY <1>1, <1>3, <2>1
  <2>2. CASE d # c
    <3>1. state'.job[d] = state.job[d]
      BY <1>1, <1>3, <2>2
    <3> QED
      BY <3>1 DEF Follows, JobsInv
  <2> QED
    BY <2>1, <2>2
<1>5. JobsInv'
  BY <1>1, <1>2, <1>4 DEF JobsInv, Follows
<1>6. Commands!EndsOnce
  BY <1>4 DEF Follows, Commands!EndsOnce, Commands!J
<1> QED
  BY <1>5, <1>6

LEMMA JobStarts ==
  ASSUME JobsInv, NEW c \in Commands!Job, Commands!Start(c)
  PROVE  JobsInv' /\ Commands!EndsOnce
<1> DEFINE j == state.job[c]
<1>1. j \in CommandJob /\ Sound(j) /\ j.call = "none" /\ ~state.closed
  BY JobFacts DEF Commands!Start, Commands!J
<1>2. PICK kind \in Commands!Kind, stuck \in BOOLEAN :
        /\ kind # "shell" => state.run = "turn"
        /\ state' = [state EXCEPT !.job[c] = [Commands!Absent EXCEPT !.kind = kind, !.call = "built",
                                                !.leader = "runs", !.stuck = stuck]]
  BY DEF Commands!Start, Commands!Set, Commands!With
<1> DEFINE none == Commands!Absent
           k == [none EXCEPT !.kind = kind, !.call = "built", !.leader = "runs", !.stuck = stuck]
<1>3. /\ none \in CommandJob /\ none.status = "none" /\ none.got = "nothing" /\ none.kids = 0
      /\ none.monitor = "off" /\ ~none.timedOut /\ none.reason = "none" /\ none.stops = 0
      /\ none.stoppers = {} /\ ~none.kept /\ ~none.join /\ ~none.seen /\ none.events = 0
  BY DEF Commands!Absent, CommandJob, Commands!Kind
<1> HIDE DEF none
<1>4. k \in CommandJob
  BY <1>2, <1>3 DEF CommandJob
<1>5. Sound(k)
  BY <1>2, <1>3 DEF CommandJob, Sound, Living, Ending, Telling, Known, Commands!Settled
<1>6. Follows(j, k)
  BY <1>1, <1>2, <1>3, <1>5 DEF CommandJob, Follows, Sound, Living, Harmless, Joined, Commands!Settled
<1>7. state' = [state EXCEPT !.job[c] = k]
  BY <1>2 DEF none
<1> QED
  BY <1>4, <1>6, <1>7, JobChanges

LEMMA JobRegisters ==
  ASSUME JobsInv, NEW c \in Commands!Job, Commands!Register(c)
  PROVE  JobsInv' /\ Commands!EndsOnce
<1> DEFINE j == state.job[c]
<1>1. j \in CommandJob /\ Sound(j)
  BY JobFacts
<1>2. CASE state.closed
  <2> DEFINE k == [j EXCEPT !.call = "refused"]
  <2>1. k \in CommandJob /\ Follows(j, k)
    BY <1>1, <1>2 DEF Commands!Register, Commands!J, Living, Ending, Telling, Known, Sound, Harmless, Joined, Follows, CommandJob, Commands!Settled
  <2>2. state' = [state EXCEPT !.job[c] = k]
    BY <1>2 DEF Commands!Register, Commands!Set, Commands!With, Commands!J
  <2> QED
    BY <2>1, <2>2, JobChanges
<1>3. CASE ~state.closed
  <2> DEFINE k == [j EXCEPT !.call = "waiting", !.kept = TRUE, !.status = "running", !.monitor = "wait"]
  <2>1. k \in CommandJob /\ Follows(j, k)
    BY <1>1, <1>3 DEF Commands!Register, Commands!J, Living, Ending, Telling, Known, Sound, Harmless, Joined, Follows, CommandJob, Commands!Settled
  <2>2. state' = [state EXCEPT !.job[c] = k]
    BY <1>3 DEF Commands!Register, Commands!Set, Commands!With, Commands!J
  <2> QED
    BY <2>1, <2>2, JobChanges
<1> QED
  BY <1>2, <1>3

LEMMA JobRefused ==
  ASSUME JobsInv, NEW c \in Commands!Job, Commands!Refused(c)
  PROVE  JobsInv' /\ Commands!EndsOnce
<1> DEFINE j == state.job[c]
<1>1. j \in CommandJob /\ Sound(j)
  BY JobFacts
<1> DEFINE k == [j EXCEPT !.call = "returned", !.got = "error"]
<1>2. k \in CommandJob /\ Follows(j, k)
  BY <1>1 DEF Commands!Refused, Commands!J, Living, Ending, Telling, Known, Sound, Harmless, Joined, Follows, CommandJob, Commands!Settled
<1>3. state' = [state EXCEPT !.job[c] = k]
  BY DEF Commands!Refused, Commands!Set, Commands!With, Commands!J
<1> QED
  BY <1>2, <1>3, JobChanges

LEMMA JobForks ==
  ASSUME JobsInv, NEW c \in Commands!Job, Commands!Forks(c)
  PROVE  JobsInv' /\ Commands!EndsOnce
<1> DEFINE j == state.job[c]
<1>1. j \in CommandJob /\ Sound(j)
  BY JobFacts
<1> DEFINE k == [j EXCEPT !.kids = 1]
<1>2. k \in CommandJob /\ Follows(j, k)
  BY <1>1 DEF Commands!Forks, Commands!J, Living, Ending, Telling, Known, Sound, Harmless, Joined, Follows, CommandJob, Commands!Settled
<1>3. state' = [state EXCEPT !.job[c] = k]
  BY DEF Commands!Forks, Commands!Set, Commands!With, Commands!J
<1> QED
  BY <1>2, <1>3, JobChanges

LEMMA JobExits ==
  ASSUME JobsInv, NEW c \in Commands!Job, Commands!Exits(c)
  PROVE  JobsInv' /\ Commands!EndsOnce
<1> DEFINE j == state.job[c]
<1>1. j \in CommandJob /\ Sound(j)
  BY JobFacts
<1>2. PICK end \in {"ok", "bad"} : Commands!Exits(c) /\ state' = [state EXCEPT !.job[c] = [j EXCEPT !.leader = end]]
  BY DEF Commands!Exits, Commands!Set, Commands!With, Commands!J
<1> DEFINE k == [j EXCEPT !.leader = end]
<1>3. k \in CommandJob /\ Follows(j, k)
  BY <1>1, <1>2 DEF Commands!Exits, Commands!J, Living, Ending, Telling, Known, Sound, Harmless, Joined, Follows, CommandJob, Commands!Settled
<1>4. state' = [state EXCEPT !.job[c] = k]
  BY <1>2 DEF Commands!Exits, Commands!Set, Commands!With, Commands!J
<1> QED
  BY <1>3, <1>4, JobChanges

LEMMA JobKidExits ==
  ASSUME JobsInv, NEW c \in Commands!Job, Commands!KidExits(c)
  PROVE  JobsInv' /\ Commands!EndsOnce
<1> DEFINE j == state.job[c]
<1>1. j \in CommandJob /\ Sound(j)
  BY JobFacts
<1> DEFINE k == [j EXCEPT !.kids = 0]
<1>2. k \in CommandJob /\ Follows(j, k)
  BY <1>1 DEF Commands!KidExits, Commands!J, Living, Ending, Telling, Known, Sound, Harmless, Joined, Follows, CommandJob, Commands!Settled
<1>3. state' = [state EXCEPT !.job[c] = k]
  BY DEF Commands!KidExits, Commands!Set, Commands!With, Commands!J
<1> QED
  BY <1>2, <1>3, JobChanges

LEMMA JobKills ==
  ASSUME JobsInv, NEW c \in Commands!Job, Commands!Kill(c)
  PROVE  JobsInv' /\ Commands!EndsOnce
<1> DEFINE j == state.job[c]
<1>1. /\ j \in CommandJob /\ Sound(j) /\ ~j.stuck /\ (j.leader = "runs" \/ j.kids > 0)
      /\ j.monitor \in {"kill", "groupkill"} \/ j.stoppers # {} \/ j.call = "refused"
  BY JobFacts DEF Commands!Kill, Commands!Killed, Commands!Alive, Commands!J
<1>2. PICK kids \in {0} \cup (IF j.strays < MaxStrays THEN {1} ELSE {}) :
        state' = [state EXCEPT !.job[c] =
                    [j EXCEPT !.leader = IF @ = "runs" THEN "bad" ELSE @, !.kids = kids, !.strays = @ + kids]]
  BY DEF Commands!Kill, Commands!Set, Commands!With, Commands!J
<1> DEFINE leader == IF j.leader = "runs" THEN "bad" ELSE j.leader
           strays == j.strays + kids
           k == [j EXCEPT !.leader = leader, !.kids = kids, !.strays = strays]
<1>3. state' = [state EXCEPT !.job[c] = k]
  BY <1>2
<1>10. kids \in 0..1
  BY <1>2
<1>4. leader \in {"none", "ok", "bad"} /\ strays \in Nat /\ (leader = "none" <=> j.leader = "none")
  BY <1>1, <1>10 DEF CommandJob
<1> HIDE DEF leader, strays
<1>5. k \in CommandJob
  BY <1>1, <1>4, <1>10 DEF CommandJob
<1>6. j.call # "none"
  BY <1>1 DEF Sound, Living, CommandJob
<1>7. Living(k) /\ Telling(k) /\ Known(k)
  BY <1>1, <1>4, <1>6 DEF Sound, Living, Telling, Known, CommandJob
<1>8. Ending(k)
  BY <1>1, <1>4 DEF Sound, Living, Ending, CommandJob
<1>9. Follows(j, k)
  BY <1>1, <1>4, <1>7, <1>8 DEF Follows, Sound, Harmless, Joined, CommandJob
<1> QED
  BY <1>3, <1>5, <1>9, JobChanges

LEMMA JobReaped ==
  ASSUME JobsInv, NEW c \in Commands!Job, Commands!Reaped(c)
  PROVE  JobsInv' /\ Commands!EndsOnce
<1> DEFINE j == state.job[c]
<1>1. j \in CommandJob /\ Sound(j) /\ j.monitor = "wait" /\ j.leader # "runs"
  BY JobFacts DEF Commands!Reaped, Commands!J
<1>2. CASE j.kind = "bash"
  <2> DEFINE leftovers == j.kids > 0
             k == [j EXCEPT !.monitor = "group", !.leftovers = leftovers]
  <2>1. leftovers \in BOOLEAN
    OBVIOUS
  <2> HIDE DEF leftovers
  <2>2. k \in CommandJob
    BY <1>1, <2>1 DEF CommandJob
  <2>3. Follows(j, k)
    BY <1>1 DEF Follows, Sound, Living, Ending, Telling, Known, Harmless, Joined, CommandJob, Commands!Settled
  <2>4. state' = [state EXCEPT !.job[c] = k]
    BY <1>2 DEF leftovers, Commands!Reaped, Commands!Set, Commands!With, Commands!J
  <2> QED
    BY <2>2, <2>3, <2>4, JobChanges
<1>3. CASE j.kind # "bash"
  <2> DEFINE k == [j EXCEPT !.monitor = "settle"]
  <2>1. k \in CommandJob /\ Follows(j, k)
    BY <1>1, <1>3 DEF Follows, Sound, Living, Ending, Telling, Known, Harmless, Joined, CommandJob, Commands!Settled
  <2>2. state' = [state EXCEPT !.job[c] = k]
    BY <1>3 DEF Commands!Reaped, Commands!Set, Commands!With, Commands!J
  <2> QED
    BY <2>1, <2>2, JobChanges
<1> QED
  BY <1>2, <1>3

LEMMA JobTimesOut ==
  ASSUME JobsInv, NEW c \in Commands!Job, Commands!TimesOut(c)
  PROVE  JobsInv' /\ Commands!EndsOnce
<1> DEFINE j == state.job[c]
           monitor == IF j.monitor = "wait" THEN "kill" ELSE "groupkill"
           k == [j EXCEPT !.timedOut = TRUE, !.monitor = monitor]
<1>1. j \in CommandJob /\ Sound(j) /\ j.monitor \in {"wait", "group"}
  BY JobFacts DEF Commands!TimesOut, Commands!J
<1>2. monitor = "kill" \/ (monitor = "groupkill" /\ j.leader # "runs")
  BY <1>1 DEF Sound, Living
<1>3. state' = [state EXCEPT !.job[c] = k]
  BY DEF Commands!TimesOut, Commands!Set, Commands!With, Commands!J
<1> HIDE DEF monitor
<1>4. k \in CommandJob
  BY ZenonT(60), <1>1, <1>2 DEF CommandJob
<1>5. Follows(j, k)
  BY <1>1, <1>2 DEF Follows, Sound, Living, Ending, Telling, Known, Harmless, Joined, CommandJob, Commands!Settled
<1> QED
  BY <1>3, <1>4, <1>5, JobChanges

LEMMA JobGroupStopped ==
  ASSUME JobsInv, NEW c \in Commands!Job, Commands!GroupStopped(c)
  PROVE  JobsInv' /\ Commands!EndsOnce
<1> DEFINE j == state.job[c]
<1>1. j \in CommandJob /\ Sound(j)
  BY JobFacts
<1> DEFINE k == [j EXCEPT !.monitor = "groupkill"]
<1>2. k \in CommandJob /\ Follows(j, k)
  BY <1>1 DEF Commands!GroupStopped, Commands!J, Living, Ending, Telling, Known, Sound, Harmless, Joined, Follows, CommandJob, Commands!Settled
<1>3. state' = [state EXCEPT !.job[c] = k]
  BY DEF Commands!GroupStopped, Commands!Set, Commands!With, Commands!J
<1> QED
  BY <1>2, <1>3, JobChanges

LEMMA JobGroupEnds ==
  ASSUME JobsInv, NEW c \in Commands!Job, Commands!GroupEnds(c)
  PROVE  JobsInv' /\ Commands!EndsOnce
<1> DEFINE j == state.job[c]
<1>1. j \in CommandJob /\ Sound(j)
  BY JobFacts
<1> DEFINE k == [j EXCEPT !.monitor = "settle"]
<1>2. k \in CommandJob /\ Follows(j, k)
  BY <1>1 DEF Commands!GroupEnds, Commands!J, Living, Ending, Telling, Known, Sound, Harmless, Joined, Follows, CommandJob, Commands!Settled
<1>3. state' = [state EXCEPT !.job[c] = k]
  BY DEF Commands!GroupEnds, Commands!Set, Commands!With, Commands!J
<1> QED
  BY <1>2, <1>3, JobChanges

LEMMA JobSettles ==
  ASSUME JobsInv, NEW c \in Commands!Job, Commands!Settle(c)
  PROVE  JobsInv' /\ Commands!EndsOnce
<1> DEFINE j == state.job[c]
           status == Commands!Status(c)
           k == [j EXCEPT !.monitor = "done", !.status = status]
<1>1. j \in CommandJob /\ Sound(j) /\ j.monitor = "settle" /\ j.status \notin Commands!Settled
  BY JobFacts DEF Commands!Settle, Commands!J, Sound, Living
<1>2. /\ status \in Commands!Settled
      /\ j.reason # "none" => status = "killed"
      /\ status \in {"completed", "failed"} => j.reason = "none" /\ ~j.timedOut
  BY <1>1 DEF Commands!Status, Commands!Settled, Commands!J, CommandJob
<1>3. state' = [state EXCEPT !.job[c] = k]
  BY DEF Commands!Settle, Commands!Set, Commands!With, Commands!J
<1> HIDE DEF status
<1>4. k \in CommandJob
  BY <1>1, <1>2 DEF CommandJob
<1>5. Living(k) /\ Ending(k)
  BY <1>1, <1>2 DEF Sound, Living, Ending, CommandJob, Commands!Settled
<1>6. Telling(k) /\ Known(k)
  BY <1>1, <1>2 DEF Sound, Living, Telling, Known, CommandJob, Commands!Settled
<1>7. Follows(j, k)
  BY <1>1, <1>5, <1>6 DEF Follows, Sound, Harmless, Joined, CommandJob
<1> QED
  BY <1>3, <1>4, <1>7, JobChanges

LEMMA JobFinished ==
  ASSUME JobsInv, NEW c \in Commands!Job, Commands!Finished(c)
  PROVE  JobsInv' /\ Commands!EndsOnce
<1> DEFINE j == state.job[c]
<1>1. j \in CommandJob /\ Sound(j)
  BY JobFacts
<1> DEFINE k == [j EXCEPT !.call = "returned", !.got = "result", !.kept = FALSE]
<1>2. k \in CommandJob
  BY <1>1 DEF Commands!Finished, Commands!Result, Commands!Done, Commands!J, CommandJob, Commands!Settled
<1>3. Living(k)
  BY <1>1 DEF Commands!Finished, Commands!Result, Commands!Done, Commands!J, Sound, Living, Ending, CommandJob, Commands!Settled
<1>4. Ending(k)
  BY <1>1 DEF Commands!Finished, Commands!Result, Commands!Done, Commands!J, Sound, Living, Ending, Telling, CommandJob, Commands!Settled
<1>5. Telling(k)
  BY <1>1 DEF Commands!Finished, Commands!Result, Commands!Done, Commands!J, Sound, Living, Ending, Telling, CommandJob, Commands!Settled
<1>6. Known(k)
  BY <1>1 DEF Commands!Finished, Commands!Result, Commands!Done, Commands!J, Sound, Living, Known, CommandJob, Commands!Settled
<1>7. Follows(j, k)
  BY <1>1, <1>2, <1>3, <1>4, <1>5, <1>6 DEF Commands!Finished, Commands!Result, Commands!Done, Commands!J, Sound, Living, Known, Telling, Follows, Harmless, Joined, CommandJob, Commands!Settled
<1>8. state' = [state EXCEPT !.job[c] = k]
  BY DEF Commands!Finished, Commands!Result, Commands!Done, Commands!Set, Commands!With, Commands!J
<1> QED
  BY <1>2, <1>7, <1>8, JobChanges

LEMMA JobYields ==
  ASSUME JobsInv, NEW c \in Commands!Job, Commands!Yields(c)
  PROVE  JobsInv' /\ Commands!EndsOnce
<1> DEFINE j == state.job[c]
<1>1. j \in CommandJob /\ Sound(j)
  BY JobFacts
<1> DEFINE k == [j EXCEPT !.call = "late", !.join = TRUE]
<1>2. k \in CommandJob
  BY <1>1 DEF Commands!Yields, Commands!J, CommandJob, Commands!Settled
<1>3. Living(k)
  BY <1>1 DEF Commands!Yields, Commands!J, Sound, Living, Ending, CommandJob, Commands!Settled
<1>4. Ending(k)
  BY <1>1 DEF Commands!Yields, Commands!J, Sound, Living, Ending, Telling, CommandJob, Commands!Settled
<1>5. Telling(k)
  BY <1>1 DEF Commands!Yields, Commands!J, Sound, Living, Ending, Telling, CommandJob, Commands!Settled
<1>6. Known(k)
  BY <1>1 DEF Commands!Yields, Commands!J, Sound, Living, Known, CommandJob, Commands!Settled
<1>7. Follows(j, k)
  BY <1>1, <1>2, <1>3, <1>4, <1>5, <1>6 DEF Commands!Yields, Commands!J, Sound, Living, Known, Telling, Follows, Harmless, Joined, CommandJob, Commands!Settled
<1>8. state' = [state EXCEPT !.job[c] = k]
  BY DEF Commands!Yields, Commands!Set, Commands!With, Commands!J
<1> QED
  BY <1>2, <1>7, <1>8, JobChanges

LEMMA JobAsksJob ==
  ASSUME JobsInv, NEW c \in Commands!Job, Commands!AsksJob(c)
  PROVE  JobsInv' /\ Commands!EndsOnce
<1> DEFINE j == state.job[c]
<1>1. j \in CommandJob /\ Sound(j)
  BY JobFacts
<1> DEFINE k == [j EXCEPT !.seen = @ \/ j.monitor = "done"]
<1>2. k \in CommandJob /\ Follows(j, k)
  BY <1>1 DEF Commands!AsksJob, Commands!Tell, Commands!Done, Commands!HasHandle, Commands!J, Living, Ending, Telling, Known, Sound, Harmless, Joined, Follows, CommandJob, Commands!Settled
<1>3. state' = [state EXCEPT !.job[c] = k]
  BY DEF Commands!AsksJob, Commands!Tell, Commands!Done, Commands!HasHandle, Commands!Set, Commands!With, Commands!J
<1> QED
  BY <1>2, <1>3, JobChanges

\* A stop that is asked for while the job runs keeps the reason that was there.
LEMMA StopFacts ==
  ASSUME JobsInv, NEW c \in Commands!Job, NEW who \in Commands!Stopper, Commands!CanStop(c),
         who = "tool" => state.job[c].call = "returned"
  PROVE  /\ Commands!Stopping(state.job[c], who) \in CommandJob
         /\ Follows(state.job[c], Commands!Stopping(state.job[c], who))
<1> DEFINE j == state.job[c]
           stops == IF j.reason = "none" THEN j.stops + 1 ELSE j.stops
           stoppers == j.stoppers \cup {who}
           k == [j EXCEPT !.reason = who, !.stops = stops, !.stoppers = stoppers]
<1>1. j \in CommandJob /\ Sound(j) /\ j.kept /\ j.status = "running"
  BY JobFacts DEF Commands!CanStop, Commands!J
<1>2. stops \in Nat /\ stops <= 1 /\ stoppers \in SUBSET Commands!Stopper
  BY <1>1 DEF CommandJob, Sound, Ending
<1>3. k = Commands!Stopping(j, who)
  BY DEF Commands!Stopping
<1>4. who # "none"
  BY DEF Commands!Stopper
<1>7. "tool" \in stoppers => j.call = "returned"
  BY <1>1 DEF Sound, Telling
<1> HIDE DEF stops, stoppers
<1>5. k \in CommandJob
  BY <1>1, <1>2 DEF CommandJob
<1>6. Follows(j, k)
  BY <1>1, <1>2, <1>4, <1>7 DEF Follows, Sound, Living, Ending, Telling, Known, Harmless, Joined, CommandJob, Commands!Settled
<1> QED
  BY <1>3, <1>5, <1>6

LEMMA JobToolStops ==
  ASSUME JobsInv, NEW c \in Commands!Job, Commands!ToolStops(c)
  PROVE  JobsInv' /\ Commands!EndsOnce
<1> DEFINE k == Commands!Stopping(state.job[c], "tool")
<1>1. state.job[c].call = "returned"
  BY JobFacts DEF Commands!ToolStops, Commands!HasHandle, Commands!J, Sound, Telling
<1>3. k \in CommandJob /\ Follows(state.job[c], k)
  BY <1>1, StopFacts DEF Commands!ToolStops, Commands!Stopper
<1>2. state' = [state EXCEPT !.job[c] = k]
  BY DEF Commands!ToolStops, Commands!Set, Commands!With, Commands!J
<1> QED
  BY <1>2, <1>3, JobChanges

LEMMA JobToolStopped ==
  ASSUME JobsInv, NEW c \in Commands!Job, Commands!ToolStopped(c)
  PROVE  JobsInv' /\ Commands!EndsOnce
<1> DEFINE j == state.job[c]
           stoppers == j.stoppers \ {"tool"}
           result == [[j EXCEPT !.stoppers = @ \ {"tool"}] EXCEPT !.seen = @ \/ j.monitor = "done"]
           error == [j EXCEPT !.stoppers = @ \ {"tool"}]
<1>1. j \in CommandJob /\ Sound(j) /\ j.call = "returned"
  BY JobFacts DEF Commands!ToolStopped, Commands!J, Sound, Telling
<1>8. \/ state' = [state EXCEPT !.job[c] = result]
      \/ state' = [state EXCEPT !.job[c] = error]
  BY DEF Commands!ToolStopped, Commands!Stopped, Commands!Done, Commands!Set, Commands!With, Commands!J
<1>9. PICK told \in {j.seen, j.seen \/ j.monitor = "done"} :
        state' = [state EXCEPT !.job[c] = [j EXCEPT !.stoppers = stoppers, !.seen = told]]
  <2>1. /\ result = [j EXCEPT !.stoppers = stoppers, !.seen = (j.seen \/ j.monitor = "done")]
        /\ error = [j EXCEPT !.stoppers = stoppers, !.seen = j.seen]
    BY <1>1 DEF CommandJob
  <2> HIDE DEF result, error
  <2> QED
    BY <1>8, <2>1
<1> DEFINE k == [j EXCEPT !.stoppers = stoppers, !.seen = told]
<1>2. told \in BOOLEAN /\ stoppers \in SUBSET Commands!Stopper
  BY <1>1, <1>9 DEF CommandJob
<1>3. state' = [state EXCEPT !.job[c] = k]
  BY <1>9
<1>4. (told => j.monitor = "done") /\ (j.seen => told)
  BY <1>1, <1>9 DEF Sound, Telling
<1>7. "tool" \notin stoppers
  OBVIOUS
<1> HIDE DEF stoppers
<1>5. k \in CommandJob
  BY <1>1, <1>2 DEF CommandJob
<1>6. Follows(j, k)
  BY <1>1, <1>2, <1>4, <1>7 DEF Follows, Sound, Living, Ending, Telling, Known, Harmless, Joined, CommandJob, Commands!Settled
<1> QED
  BY <1>3, <1>5, <1>6, JobChanges

LEMMA JobCloseOne ==
  ASSUME JobsInv, NEW c \in Commands!Job, Commands!CloseOne(c)
  PROVE  JobsInv' /\ Commands!EndsOnce
<1> DEFINE k == Commands!Stopping(state.job[c], "close")
<1>1. k \in CommandJob /\ Follows(state.job[c], k)
  BY StopFacts DEF Commands!CloseOne, Commands!Stopper
<1>2. state' = [state EXCEPT !.job[c] = k]
  BY DEF Commands!CloseOne, Commands!Set, Commands!With, Commands!J
<1> QED
  BY <1>1, <1>2, JobChanges

LEMMA JobHandsOver ==
  ASSUME JobsInv, NEW c \in Commands!Job, Commands!HandsOver(c)
  PROVE  JobsInv' /\ Commands!EndsOnce
<1> DEFINE j == state.job[c]
           result == [j EXCEPT !.call = "returned", !.got = "result", !.kept = FALSE]
           handle == [j EXCEPT !.call = "returned", !.got = "handle"]
           told == [j EXCEPT !.call = "returned", !.got = "handle", !.seen = TRUE]
<1>1. j \in CommandJob /\ Sound(j) /\ j.call = "late"
  BY JobFacts DEF Commands!HandsOver, Commands!J
<1>2. \/ j.monitor = "done" /\ state' = [state EXCEPT !.job[c] = result]
      \/ state' = [state EXCEPT !.job[c] = handle]
      \/ j.monitor = "done" /\ state' = [state EXCEPT !.job[c] = told]
  BY DEF Commands!HandsOver, Commands!Result, Commands!Done, Commands!Set, Commands!With, Commands!J
<1>3. result \in CommandJob /\ handle \in CommandJob /\ told \in CommandJob
  BY ZenonT(60), <1>1 DEF CommandJob
<1>4. j.monitor = "done" => Follows(j, result)
  BY <1>1 DEF Follows, Sound, Living, Ending, Telling, Known, Harmless, Joined, CommandJob, Commands!Settled
<1>5. Follows(j, handle)
  BY <1>1 DEF Follows, Sound, Living, Ending, Telling, Known, Harmless, Joined, CommandJob, Commands!Settled
<1>6. j.monitor = "done" => Follows(j, told)
  BY <1>1 DEF Follows, Sound, Living, Ending, Telling, Known, Harmless, Joined, CommandJob, Commands!Settled
<1> HIDE DEF result, handle, told
<1> QED
  BY <1>2, <1>3, <1>4, <1>5, <1>6, JobChanges

LEMMA JobCancelCall ==
  ASSUME JobsInv, NEW c \in Commands!Job, Commands!CancelCall(c)
  PROVE  JobsInv' /\ Commands!EndsOnce
<1> DEFINE j == state.job[c]
<1>1. j \in CommandJob /\ Sound(j) /\ j.call = "waiting"
  BY JobFacts DEF Commands!CancelCall, Commands!J
<1>2. CASE Commands!CanStop(c)
  <2> DEFINE stopped == Commands!Stopping(j, "call")
             k == [stopped EXCEPT !.call = "stopping"]
  <2>1. stopped \in CommandJob /\ Follows(j, stopped) /\ stopped.kept /\ stopped.call = "waiting"
    <3>1. stopped \in CommandJob /\ Follows(j, stopped)
      BY <1>2, StopFacts DEF Commands!Stopper
    <3>2. stopped.kept /\ stopped.call = "waiting"
      BY <1>1, <1>2 DEF Commands!Stopping, Commands!CanStop, Commands!J, CommandJob
    <3> QED
      BY <3>1, <3>2
  <2>2. state' = [state EXCEPT !.job[c] = k]
    BY <1>2 DEF Commands!CancelCall, Commands!Set, Commands!With, Commands!J
  <2> HIDE DEF stopped
  <2>3. k \in CommandJob
    BY <2>1 DEF CommandJob
  <2>4. Follows(j, k)
    BY <1>1, <2>1 DEF Follows, Sound, Living, Ending, Telling, Known, Harmless, Joined, CommandJob, Commands!Settled
  <2> QED
    BY <2>2, <2>3, <2>4, JobChanges
<1>3. CASE ~Commands!CanStop(c)
  <2> DEFINE k == [j EXCEPT !.call = "returned", !.got = "error", !.kept = FALSE]
  <2>1. ~j.kept \/ j.status # "running"
    BY <1>3 DEF Commands!CanStop, Commands!J
  <2>2. state' = [state EXCEPT !.job[c] = k]
    BY <1>3 DEF Commands!CancelCall, Commands!Gives, Commands!Set, Commands!With, Commands!J
  <2>3. k \in CommandJob
    BY <1>1 DEF CommandJob
  <2>4. Follows(j, k)
    BY <1>1, <2>1 DEF Follows, Sound, Living, Ending, Telling, Known, Harmless, Joined, CommandJob, Commands!Settled
  <2> QED
    BY <2>2, <2>3, <2>4, JobChanges
<1> QED
  BY <1>2, <1>3

LEMMA JobCallStopped ==
  ASSUME JobsInv, NEW c \in Commands!Job, Commands!CallStopped(c)
  PROVE  JobsInv' /\ Commands!EndsOnce
<1> DEFINE j == state.job[c]
           stoppers == j.stoppers \ {"call"}
           k == [j EXCEPT !.call = "returned", !.got = "error", !.kept = FALSE, !.stoppers = stoppers]
<1>1. j \in CommandJob /\ Sound(j) /\ j.call = "stopping" /\ (j.monitor = "done" \/ j.stuck)
  BY JobFacts DEF Commands!CallStopped, Commands!StopEnds, Commands!Done, Commands!J
<1>2. stoppers \in SUBSET Commands!Stopper
  BY <1>1 DEF CommandJob
<1>3. state' = [state EXCEPT !.job[c] = [[j EXCEPT !.stoppers = @ \ {"call"}]
                                          EXCEPT !.call = "returned", !.got = "error", !.kept = FALSE]]
  BY DEF Commands!CallStopped, Commands!Gives, Commands!Stopped, Commands!Set, Commands!With, Commands!J
<1>4. k = [[j EXCEPT !.stoppers = @ \ {"call"}] EXCEPT !.call = "returned", !.got = "error", !.kept = FALSE]
  BY <1>1 DEF CommandJob
<1> HIDE DEF stoppers
<1>5. k \in CommandJob
  BY <1>1, <1>2 DEF CommandJob
<1>6. Follows(j, k)
  BY <1>1, <1>2 DEF Follows, Sound, Living, Ending, Telling, Known, Harmless, Joined, CommandJob, Commands!Settled
<1> HIDE DEF k
<1> QED
  BY <1>3, <1>4, <1>5, <1>6, JobChanges

LEMMA JobBoundary ==
  ASSUME JobsInv, NEW c \in Commands!Job, Commands!Boundary(c)
  PROVE  JobsInv' /\ Commands!EndsOnce
<1> DEFINE j == state.job[c]
           events == j.events + 1
           k == [j EXCEPT !.seen = TRUE, !.events = events]
<1>1. /\ j \in CommandJob /\ Sound(j) /\ j.kept /\ j.monitor = "done" /\ ~j.seen
      /\ j.call \in {"none", "returned"}
  BY JobFacts DEF Commands!Boundary, Commands!Pending, Commands!Busy, Commands!Calling,
                  Commands!InSession, Commands!Done, Commands!J
<1>2. j.call = "returned" /\ j.events = 0
  BY <1>1 DEF Sound, Living, Telling
<1>3. events = 1
  BY <1>2
<1>4. state' = [state EXCEPT !.job[c] = k]
  BY DEF Commands!Boundary, Commands!Set, Commands!With, Commands!J
<1> HIDE DEF events
<1>5. k \in CommandJob
  BY <1>1, <1>3 DEF CommandJob
<1>6. Follows(j, k)
  BY <1>1, <1>2, <1>3 DEF Follows, Sound, Living, Ending, Telling, Known, Harmless, Joined, CommandJob, Commands!Settled
<1> QED
  BY <1>4, <1>5, <1>6, JobChanges

\* A closer goes on to the next job: this one is over, or cannot be killed.
LEMMA JobCloseNext ==
  ASSUME JobsInv, NEW c \in Commands!Job, Commands!CloseNext(c)
  PROVE  JobsInv' /\ Commands!EndsOnce
<1> DEFINE j == state.job[c]
           stoppers == j.stoppers \ {"close"}
           kept == j.kept /\ ~(state.closing = "session" /\ j.monitor = "done")
           k == [j EXCEPT !.stoppers = stoppers, !.kept = kept]
           left == state.left \ {c}
<1>1. j \in CommandJob /\ Sound(j) /\ JobsTyped
  BY JobFacts DEF JobsInv
<1>2. j.monitor = "done" \/ j.stuck \/ ~j.kept \/ j.status # "running"
  BY DEF Commands!CloseNext, Commands!StopEnds, Commands!CanStop, Commands!Done, Commands!J
<1>3. stoppers \in SUBSET Commands!Stopper /\ kept \in BOOLEAN /\ ("tool" \in stoppers => "tool" \in j.stoppers)
  BY <1>1 DEF CommandJob
<1>4. state' = [[state EXCEPT !.job[c] = k] EXCEPT !.left = left]
  <2>1. state' = [[state EXCEPT !.job[c] =
                     [[j EXCEPT !.stoppers = @ \ {"close"}]
                        EXCEPT !.kept = @ /\ ~(state.closing = "session" /\ j.monitor = "done")]]
                  EXCEPT !.left = @ \ {c}]
    BY DEF Commands!CloseNext, Commands!Stopped, Commands!Done, Commands!With, Commands!J
  <2>2. k = [[j EXCEPT !.stoppers = @ \ {"close"}]
               EXCEPT !.kept = @ /\ ~(state.closing = "session" /\ j.monitor = "done")]
    BY <1>1 DEF CommandJob
  <2>3. [state EXCEPT !.job[c] = k].left = state.left
    BY <1>1 DEF JobsTyped, JobsState
  <2> HIDE DEF k
  <2> QED
    BY <2>1, <2>2, <2>3
<1>5. (j.kept /\ ~kept => j.monitor = "done") /\ (kept => j.kept)
  OBVIOUS
<1> HIDE DEF stoppers, kept
<1>6. k \in CommandJob
  BY <1>1, <1>3 DEF CommandJob
<1>7. Sound(k)
  BY <1>1, <1>3, <1>5 DEF Sound, Living, Ending, Telling, Known, CommandJob, Commands!Settled
<1>8. Follows(j, k) /\ Harmless(k)
  BY <1>1, <1>2, <1>3, <1>5, <1>7 DEF Follows, Sound, Living, Known, Harmless, Joined, CommandJob, Commands!Settled
<1> HIDE DEF k
<1>9. /\ state'.run = state.run /\ state'.closing = state.closing /\ state'.left = left
      /\ state'.closed = state.closed /\ state'.gone = state.gone
      /\ state'.job = [state.job EXCEPT ![c] = k]
  BY <1>1, <1>4 DEF JobsTyped, JobsState
<1>10. JobsTyped'
  BY <1>1, <1>4, <1>6 DEF JobsTyped, JobsState
<1>11. ASSUME NEW d \in Commands!Job
       PROVE  Follows(state.job[d], state'.job[d]) /\ (d = c \/ state'.job[d] = state.job[d])
  <2>1. state.job \in [Commands!Job -> CommandJob]
    BY <1>1 DEF JobsTyped, JobsState
  <2>2. CASE d = c
    BY <1>8, <1>9, <2>1, <2>2
  <2>3. CASE d # c
    <3>1. state'.job[d] = state.job[d]
      BY <1>9, <2>1, <2>3
    <3> QED
      BY <3>1 DEF Follows, JobsInv
  <2> QED
    BY <2>2, <2>3
<1>12. state'.job[c] = k
  BY <1>1, <1>9 DEF JobsTyped, JobsState
<1>13. state'.closing = "exit" => \A d \in Commands!Job \ state'.left : Harmless(state'.job[d])
  BY <1>8, <1>9, <1>11, <1>12 DEF JobsInv
<1>14. JobsInv'
  BY <1>9, <1>10, <1>11, <1>13 DEF JobsInv, Follows
<1>15. Commands!EndsOnce
  BY <1>11 DEF Follows, Commands!EndsOnce, Commands!J
<1> QED
  BY <1>14, <1>15

\* The run and the closing of the manager leave the jobs as they are.
LEMMA JobsStay ==
  ASSUME JobsInv, state'.job = state.job
  PROVE  Commands!EndsOnce /\ \A c \in Commands!Job : Sound(state'.job[c])
BY DEF JobsInv, Commands!EndsOnce, Commands!J

LEMMA JobsRun ==
  ASSUME JobsInv, Commands!Answer \/ Commands!CancelRun \/ Commands!NextRun
  PROVE  JobsInv' /\ Commands!EndsOnce
<1>0. JobsTyped /\ \A c \in Commands!Job : Sound(state.job[c])
  BY DEF JobsInv
<1>1. PICK run \in {"turn", "answered", "cancelled"} :
        /\ state' = [state EXCEPT !.run = run]
        /\ run = "answered" => ~Commands!Busy /\ \A c \in Commands!Job : ~Commands!MustJoin(c)
  BY DEF Commands!Answer, Commands!CancelRun, Commands!NextRun
<1>2. /\ state'.run = run /\ state'.closing = state.closing /\ state'.left = state.left
      /\ state'.closed = state.closed /\ state'.gone = state.gone /\ state'.job = state.job
      /\ JobsTyped'
  BY <1>0, <1>1 DEF JobsTyped, JobsState
<1>3. ASSUME run = "answered", NEW c \in Commands!Job PROVE Joined(state.job[c])
  <2>1. Sound(state.job[c]) /\ ~Commands!Busy /\ ~Commands!MustJoin(c)
    BY <1>0, <1>1, <1>3
  <2> QED
    BY <2>1 DEF Joined, Sound, Telling, Commands!Busy, Commands!Calling, Commands!InSession,
                Commands!MustJoin, Commands!J
<1> QED
  BY <1>2, <1>3, JobsStay DEF JobsInv

LEMMA JobsClose ==
  ASSUME JobsInv, Commands!CloseAll \/ Commands!CloseSession \/ Commands!CloseEnds
  PROVE  JobsInv' /\ Commands!EndsOnce
<1>0. JobsTyped /\ \A c \in Commands!Job : Sound(state.job[c])
  BY DEF JobsInv
<1>1. CASE Commands!CloseAll
  <2> DEFINE left == {c \in Commands!Job : state.job[c].kept}
  <2>1. ~state.closed /\ state' = [state EXCEPT !.closed = TRUE, !.closing = "exit", !.left = left]
    BY <1>1 DEF Commands!CloseAll, Commands!Open, Commands!J
  <2>2. /\ state'.run = state.run /\ state'.closing = "exit" /\ state'.left = left
        /\ state'.closed /\ state'.gone = state.gone /\ state'.job = state.job
        /\ JobsTyped'
    BY <1>0, <2>1 DEF JobsTyped, JobsState
  <2>3. ~state.gone
    BY <2>1 DEF JobsInv
  <2>4. ASSUME NEW c \in Commands!Job \ left PROVE Harmless(state.job[c])
    BY <1>0 DEF Sound, Known, Harmless
  <2> QED
    BY <2>2, <2>3, <2>4, JobsStay DEF JobsInv
<1>2. CASE Commands!CloseSession
  <2> DEFINE left == {c \in Commands!Job : state.job[c].kept /\ Commands!InSession(c)}
  <2>1. ~state.closed /\ state' = [state EXCEPT !.closing = "session", !.left = left]
    BY <1>2 DEF Commands!CloseSession, Commands!Open, Commands!J
  <2>2. /\ state'.run = state.run /\ state'.closing = "session"
        /\ state'.closed = state.closed /\ state'.gone = state.gone /\ state'.job = state.job
        /\ JobsTyped'
    BY <1>0, <2>1 DEF JobsTyped, JobsState
  <2> QED
    BY <2>1, <2>2, JobsStay DEF JobsInv
<1>3. CASE Commands!CloseEnds
  <2> DEFINE gone == state.closing = "exit"
  <2>1. state.left = {} /\ state' = [state EXCEPT !.gone = gone, !.closing = "no"]
    BY <1>3 DEF Commands!CloseEnds
  <2>2. gone \in BOOLEAN
    OBVIOUS
  <2>3. gone => state.closed /\ \A c \in Commands!Job : Harmless(state.job[c])
    BY <2>1 DEF JobsInv
  <2> HIDE DEF gone
  <2>4. /\ state'.run = state.run /\ state'.closing = "no"
        /\ state'.closed = state.closed /\ state'.gone = gone /\ state'.job = state.job
        /\ JobsTyped'
    BY <1>0, <2>1, <2>2 DEF JobsTyped, JobsState
  <2> QED
    BY <2>3, <2>4, JobsStay DEF JobsInv
<1> QED
  BY <1>1, <1>2, <1>3

-----------------------------------------------------------------------------
(* The invariant.                                                          *)

LEMMA JobsStart ==
  ASSUME Commands!Init
  PROVE  JobsInv
<1> DEFINE none == Commands!Absent
<1>1. /\ none \in CommandJob /\ none.status = "none" /\ none.got = "nothing" /\ none.kids = 0
      /\ none.call = "none" /\ none.leader = "none" /\ none.monitor = "off" /\ none.reason = "none"
      /\ none.stops = 0 /\ none.stoppers = {} /\ ~none.kept /\ ~none.seen /\ none.events = 0
  BY DEF Commands!Absent, CommandJob, Commands!Kind
<1> HIDE DEF none
<1>2. Sound(none)
  BY <1>1 DEF CommandJob, Sound, Living, Ending, Telling, Known, Commands!Settled
<1>3. state = [run |-> "turn", closing |-> "no", left |-> {}, closed |-> FALSE, gone |-> FALSE,
               job |-> [c \in Commands!Job |-> none]]
  BY DEF Commands!Init, none
<1>4. JobsTyped
  BY <1>1, <1>3 DEF JobsTyped, JobsState
<1> QED
  BY <1>2, <1>3, <1>4 DEF JobsInv

LEMMA JobsNext ==
  ASSUME JobsInv, Commands!Next
  PROVE  JobsInv' /\ Commands!EndsOnce
<1>1. CASE \E c \in Commands!Job :
             \/ Commands!Start(c) \/ Commands!Register(c) \/ Commands!Refused(c) \/ Commands!Forks(c)
             \/ Commands!Exits(c) \/ Commands!KidExits(c) \/ Commands!Kill(c)
  BY <1>1, JobStarts, JobRegisters, JobRefused, JobForks, JobExits, JobKidExits, JobKills
<1>2. CASE \E c \in Commands!Job :
             \/ Commands!Reaped(c) \/ Commands!TimesOut(c) \/ Commands!GroupStopped(c)
             \/ Commands!GroupEnds(c) \/ Commands!Settle(c)
  BY <1>2, JobReaped, JobTimesOut, JobGroupStopped, JobGroupEnds, JobSettles
<1>3. CASE \E c \in Commands!Job :
             \/ Commands!Finished(c) \/ Commands!Yields(c) \/ Commands!HandsOver(c)
             \/ Commands!CancelCall(c) \/ Commands!CallStopped(c)
  BY <1>3, JobFinished, JobYields, JobHandsOver, JobCancelCall, JobCallStopped
<1>4. CASE \E c \in Commands!Job :
             \/ Commands!AsksJob(c) \/ Commands!ToolStops(c) \/ Commands!ToolStopped(c) \/ Commands!Boundary(c)
  BY <1>4, JobAsksJob, JobToolStops, JobToolStopped, JobBoundary
<1>5. CASE \/ Commands!Answer \/ Commands!CancelRun \/ Commands!NextRun
           \/ Commands!CloseAll \/ Commands!CloseSession \/ Commands!CloseEnds
  BY <1>5, JobsRun, JobsClose
<1>6. CASE \E c \in Commands!Job : Commands!CloseOne(c) \/ Commands!CloseNext(c)
  BY <1>6, JobCloseOne, JobCloseNext
<1> QED
  BY <1>1, <1>2, <1>3, <1>4, <1>5, <1>6 DEF Commands!Next

LEMMA JobsSafe ==
  ASSUME JobsInv
  PROVE  Commands!JobsAreSound
<1>1. ASSUME NEW c \in Commands!Job PROVE state.job[c] \in CommandJob /\ Sound(state.job[c])
  BY JobFacts
<1>2. Commands!EndsTruly /\ Commands!StopsAreKept /\ Commands!ToldOnce
  BY <1>1 DEF Sound, Living, Ending, Telling, CommandJob, Commands!EndsTruly, Commands!StopsAreKept,
              Commands!ToldOnce, Commands!Settled, Commands!Done, Commands!J
<1>3. Commands!AnsweredJoined
  BY <1>1 DEF JobsInv, Sound, Telling, Joined, Commands!AnsweredJoined, Commands!J
<1>4. Commands!ClosedIsQuiet
  BY DEF JobsInv, Harmless, Commands!ClosedIsQuiet, Commands!J
<1> QED
  BY <1>2, <1>3, <1>4 DEF Commands!JobsAreSound

-----------------------------------------------------------------------------
(* The stream of a model's answer.                                         *)

StreamState ==
  [ctx : {"live", "due", "cancelled"}, closing : {"no", "stopping", "closed"},
   body : BOOLEAN, ended : BOOLEAN,
   reader : {"parked", "scan", "line", "tell", "finished"}, request : BOOLEAN, changed : BOOLEAN,
   content : {"none", "some", "done"}, hasData : BOOLEAN, raw : BOOLEAN, partialLine : BOOLEAN,
   result : {"none", "event"} \cup Stream!Ends, endCause : {"none"} \cup Stream!Ends, lost : BOOLEAN,
   drain : BOOLEAN, maxLeft : Nat, quietLeft : Nat, comments : Nat, timer : Nat,
   consumer : {"out", "wait", "idle"}, ret : {"none", "event", "ctx", "idle"} \cup Stream!Ends,
   terminal : {"none", "idle"} \cup Stream!Ends, idleLeft : Nat, idleTimer : Nat]

\* What the reader has parsed waits for the consumer, who asks for it in time.
ReaderSound(s) ==
  /\ ~s.lost /\ s.result # "drain"
  /\ s.content # "none" => s.hasData
  /\ s.result \in Stream!Ends => s.endCause # "none"
  /\ s.result # "none" \/ s.request => s.reader \in {"parked", "tell", "finished"}
  /\ s.result # "none" => ~s.request

\* The end that was returned is the last that is.
Returning(s) ==
  /\ s.terminal \in Stream!Ends => s.endCause # "none" /\ s.result # "event"
  /\ s.consumer \in {"wait", "idle"} => s.terminal = "none"
  /\ s.consumer = "out" =>
       \/ s.ret = "ctx"
       \/ s.ret \in {"none", "event"} /\ s.terminal = "none" /\ ~s.request /\ s.reader \in {"parked", "tell", "finished"}
       \/ s.ret \notin {"none", "event"} /\ s.terminal # "none"

\* The timer of the drain.
Timing(s) ==
  s.drain /\ s.endCause = "none" /\ s.ctx # "cancelled" /\ s.timer # Stream!Off =>
    s.timer <= s.maxLeft /\ (s.reader # "line" => s.timer <= Stream!Left(s))

StreamInv == state \in StreamState /\ ReaderSound(state) /\ Returning(state) /\ Timing(state)

\* What a step may not do, of the streams before and after it.
EndsSo(s, t) ==
  /\ t.endCause = "drain" /\ s.endCause = "none" =>
       t.maxLeft = 0 \/ (t.quietLeft = 0 /\ t.comments >= MinComments /\ t.content = "none" /\ ~t.partialLine)
  /\ t.terminal = "idle" /\ s.terminal = "none" => s.idleLeft = 0
  /\ t.ret = "event" /\ t.consumer = "out" /\ s.consumer = "wait" => s.ctx = "live"
  /\ s.drain /\ s.maxLeft = 0 /\ s.reader = "line" /\ t.reader # "line" => t.endCause # "none" \/ s.ctx = "cancelled"

LEMMA StreamChanges ==
  ASSUME NEW k \in StreamState, state' = k, ReaderSound(k), Returning(k), Timing(k), EndsSo(state, k)
  PROVE  StreamInv' /\ Stream!EndsForCause
<1>1. StreamInv'
  BY DEF StreamInv, ReaderSound, Returning, Timing, Stream!Left, Stream!QuietEnough
<1>2. Stream!EndsForCause
  BY DEF EndsSo, Stream!EndsForCause, Stream!Cancelled
<1> QED
  BY <1>1, <1>2

LEMMA LeftFacts ==
  ASSUME NEW s \in StreamState
  PROVE  Stream!Left(s) \in Nat /\ Stream!Left(s) <= s.maxLeft
BY DEF Stream!Left, StreamState

\* All but how the drain ends, the body, the timer and the wake-up are kept.
Same(s, t) ==
  /\ t.ctx = s.ctx /\ t.closing = s.closing /\ t.ended = s.ended /\ t.reader = s.reader
  /\ t.request = s.request /\ t.content = s.content /\ t.hasData = s.hasData /\ t.raw = s.raw
  /\ t.partialLine = s.partialLine /\ t.result = s.result /\ t.lost = s.lost /\ t.drain = s.drain
  /\ t.maxLeft = s.maxLeft /\ t.quietLeft = s.quietLeft /\ t.comments = s.comments
  /\ t.consumer = s.consumer /\ t.ret = s.ret /\ t.terminal = s.terminal
  /\ t.idleLeft = s.idleLeft /\ t.idleTimer = s.idleTimer

\* The drain is looked at: it goes on, with its timer set, or is over.
Looked(s, t) ==
  /\ t \in StreamState
  /\ Same(s, t)
  /\ \/ t.endCause = s.endCause
     \/ s.drain /\ s.endCause = "none" /\ t.endCause = "drain" /\ Stream!Left(s) = 0
  /\ t.drain /\ t.endCause = "none" /\ t.ctx # "cancelled" =>
       s.endCause = "none" /\ Stream!Left(s) > 0 /\ t.timer = Stream!Left(s)

LEMMA LooksOn ==
  ASSUME StreamAssumption, NEW s \in StreamState
  PROVE  Looked(s, Stream!UpdateDrain(s))
<1> DEFINE left == Stream!Left(s)
           t == Stream!UpdateDrain(s)
           off == Stream!Off
<1> SUFFICES Looked(s, t)
  OBVIOUS
<1>1. left \in Nat /\ off \in Nat
  BY LeftFacts DEF Stream!Off, StreamAssumption
<1>2. CASE ~s.drain
  <2>1. t = s
    BY <1>2 DEF Stream!UpdateDrain, StreamState
  <2> HIDE DEF t
  <2> QED
    BY <1>2, <2>1 DEF Looked, Same
<1>3. CASE s.drain /\ (s.endCause # "none" \/ s.ctx = "cancelled")
  <2>1. t = [s EXCEPT !.timer = off]
    BY <1>3 DEF Stream!UpdateDrain, StreamState
  <2> HIDE DEF t, off
  <2> QED
    BY ZenonT(60), <1>1, <1>3, <2>1 DEF Looked, Same, StreamState
<1>4. CASE s.drain /\ s.endCause = "none" /\ s.ctx # "cancelled" /\ left > 0
  <2>1. t = [s EXCEPT !.timer = left]
    BY <1>4 DEF Stream!UpdateDrain, StreamState
  <2> HIDE DEF t
  <2>2. t.timer = Stream!Left(s) /\ Stream!Left(s) > 0
    BY <1>4, <2>1 DEF StreamState
  <2> HIDE DEF left
  <2> QED
    BY ZenonT(60), <1>1, <1>4, <2>1, <2>2 DEF Looked, Same, StreamState
<1>5. CASE s.drain /\ s.endCause = "none" /\ s.ctx # "cancelled" /\ ~(left > 0)
  <2>1. t = [s EXCEPT !.endCause = "drain", !.body = FALSE, !.timer = off]
    BY <1>5 DEF Stream!UpdateDrain, StreamState
  <2> HIDE DEF t, off
  <2>2. Stream!Left(s) = 0
    BY <1>1, <1>5
  <2> HIDE DEF left
  <2>5. "drain" \in {"none"} \cup Stream!Ends
    BY DEF Stream!Ends
  <2>3. t \in StreamState /\ t.endCause = "drain"
    BY ZenonT(60), <1>1, <2>1, <2>5 DEF StreamState
  <2>4. Same(s, t)
    BY <2>1 DEF Same, StreamState
  <2> QED
    BY <1>5, <2>2, <2>3, <2>4 DEF Looked
<1> QED
  BY <1>2, <1>3, <1>4, <1>5 DEF StreamState

LEMMA Looks ==
  ASSUME StreamAssumption, NEW s \in StreamState
  PROVE  Looked(s, Stream!ExpireDrain(s))
<1> DEFINE t == Stream!UpdateDrain(s)
<1>1. Looked(s, t)
  BY LooksOn
<1>2. Stream!ExpireDrain(s) \in {t, [t EXCEPT !.changed = TRUE]}
  BY DEF Stream!ExpireDrain, Stream!Notified
<1> HIDE DEF t
<1> DEFINE u == [t EXCEPT !.changed = TRUE]
<1>3. u \in StreamState /\ Same(t, u) /\ u.endCause = t.endCause /\ u.timer = t.timer
  BY ZenonT(60), <1>1 DEF Looked, Same, StreamState
<1>4. Stream!ExpireDrain(s) \in {t, u}
  BY <1>2
<1> HIDE DEF u
<1>5. Looked(s, u)
  BY <1>1, <1>3 DEF Looked, Same
<1> QED
  BY <1>1, <1>4, <1>5

-----------------------------------------------------------------------------
(* The steps that change a few fields.                                     *)

LEMMA OffFacts ==
  ASSUME StreamAssumption
  PROVE  Stream!Off \in Nat /\ Stream!Off # 0
BY DEF Stream!Off, StreamAssumption

LEMMA StreamLeaves ==
  ASSUME StreamAssumption, StreamInv, Stream!Leaves
  PROVE  StreamInv' /\ Stream!EndsForCause
<1> DEFINE k == [state EXCEPT !.reader = "finished"]
<1>1. state \in StreamState /\ ReaderSound(state) /\ Returning(state) /\ Timing(state)
  BY DEF StreamInv
<1>2. state' = k
  BY DEF Stream!Leaves, Stream!Cancelled
<1>3. k \in StreamState
  BY <1>1 DEF StreamState, StreamAssumption
<1>4. ReaderSound(k) /\ Returning(k)
  BY <1>1 DEF ReaderSound, Returning, StreamState, Stream!Leaves, Stream!Cancelled
<1>5. Timing(k)
  BY <1>1 DEF Timing, StreamState, StreamAssumption, Stream!Left, Stream!QuietEnough, Stream!Leaves, Stream!Cancelled
<1>6. EndsSo(state, k)
  BY <1>1 DEF EndsSo, StreamState, Stream!Leaves, Stream!Cancelled
<1> HIDE DEF k
<1> QED
  BY <1>2, <1>3, <1>4, <1>5, <1>6, StreamChanges

LEMMA StreamRequested ==
  ASSUME StreamAssumption, StreamInv, Stream!Requested
  PROVE  StreamInv' /\ Stream!EndsForCause
<1> DEFINE k == [state EXCEPT !.reader = "scan", !.request = FALSE]
<1>1. state \in StreamState /\ ReaderSound(state) /\ Returning(state) /\ Timing(state)
  BY DEF StreamInv
<1>2. state' = k
  BY DEF Stream!Requested
<1>3. k \in StreamState
  BY ZenonT(60), <1>1 DEF StreamState, StreamAssumption
<1>4. ReaderSound(k) /\ Returning(k)
  BY <1>1 DEF ReaderSound, Returning, StreamState, Stream!Requested
<1>5. Timing(k)
  BY <1>1 DEF Timing, StreamState, StreamAssumption, Stream!Left, Stream!QuietEnough, Stream!Requested
<1>6. EndsSo(state, k)
  BY <1>1 DEF EndsSo, StreamState, Stream!Requested
<1> HIDE DEF k
<1> QED
  BY <1>2, <1>3, <1>4, <1>5, <1>6, StreamChanges

LEMMA StreamPartial ==
  ASSUME StreamAssumption, StreamInv, Stream!Partial
  PROVE  StreamInv' /\ Stream!EndsForCause
<1> DEFINE k == [state EXCEPT !.partialLine = TRUE, !.idleLeft = IdleLimit]
<1>1. state \in StreamState /\ ReaderSound(state) /\ Returning(state) /\ Timing(state)
  BY DEF StreamInv
<1>2. state' = k
  BY DEF Stream!Partial
<1>3. k \in StreamState
  BY <1>1 DEF StreamState, StreamAssumption
<1>4. ReaderSound(k) /\ Returning(k)
  BY <1>1 DEF ReaderSound, Returning, StreamState, Stream!Partial
<1>5. Timing(k)
  BY <1>1 DEF Timing, StreamState, StreamAssumption, Stream!Left, Stream!QuietEnough, Stream!Partial
<1>6. EndsSo(state, k)
  BY <1>1 DEF EndsSo, StreamState, Stream!Partial
<1> HIDE DEF k
<1> QED
  BY <1>2, <1>3, <1>4, <1>5, <1>6, StreamChanges

LEMMA StreamInterrupted ==
  ASSUME StreamAssumption, StreamInv, Stream!Interrupted
  PROVE  StreamInv' /\ Stream!EndsForCause
<1> DEFINE k == [state EXCEPT !.consumer = "out", !.ret = "ctx"]
<1>1. state \in StreamState /\ ReaderSound(state) /\ Returning(state) /\ Timing(state)
  BY DEF StreamInv
<1>2. state' = k
  BY DEF Stream!Interrupted, Stream!Return, Stream!Cancelled
<1>3. k \in StreamState
  BY ZenonT(60), <1>1 DEF StreamState, StreamAssumption
<1>4. ReaderSound(k) /\ Returning(k)
  BY <1>1 DEF ReaderSound, Returning, StreamState, Stream!Interrupted, Stream!Return, Stream!Cancelled
<1>5. Timing(k)
  BY <1>1 DEF Timing, StreamState, StreamAssumption, Stream!Left, Stream!QuietEnough, Stream!Interrupted, Stream!Return, Stream!Cancelled
<1>6. EndsSo(state, k)
  BY <1>1 DEF EndsSo, StreamState, Stream!Interrupted, Stream!Return, Stream!Cancelled
<1> HIDE DEF k
<1> QED
  BY <1>2, <1>3, <1>4, <1>5, <1>6, StreamChanges

LEMMA StreamBeginDrain ==
  ASSUME StreamAssumption, StreamInv, Stream!BeginDrain
  PROVE  StreamInv' /\ Stream!EndsForCause
<1> DEFINE k == [state EXCEPT !.drain = TRUE, !.maxLeft = DrainLimit, !.quietLeft = QuietLimit,
                        !.comments = 0, !.timer = DrainLimit]
<1>1. state \in StreamState /\ ReaderSound(state) /\ Returning(state) /\ Timing(state)
  BY DEF StreamInv
<1>2. state' = k
  BY DEF Stream!BeginDrain
<1>3. k \in StreamState
  BY <1>1 DEF StreamState, StreamAssumption
<1>4. ReaderSound(k) /\ Returning(k)
  BY <1>1 DEF ReaderSound, Returning, StreamState, Stream!BeginDrain
<1>5. Timing(k)
  BY <1>1 DEF Timing, StreamState, StreamAssumption, Stream!Left, Stream!QuietEnough, Stream!BeginDrain
<1>6. EndsSo(state, k)
  BY <1>1 DEF EndsSo, StreamState, Stream!BeginDrain
<1> HIDE DEF k
<1> QED
  BY <1>2, <1>3, <1>4, <1>5, <1>6, StreamChanges

LEMMA StreamDeadlinePasses ==
  ASSUME StreamAssumption, StreamInv, Stream!DeadlinePasses
  PROVE  StreamInv' /\ Stream!EndsForCause
<1> DEFINE k == [state EXCEPT !.ctx = "due"]
<1>1. state \in StreamState /\ ReaderSound(state) /\ Returning(state) /\ Timing(state)
  BY DEF StreamInv
<1>2. state' = k
  BY DEF Stream!DeadlinePasses
<1>3. k \in StreamState
  BY <1>1 DEF StreamState, StreamAssumption
<1>4. ReaderSound(k) /\ Returning(k)
  BY <1>1 DEF ReaderSound, Returning, StreamState, Stream!DeadlinePasses
<1>5. Timing(k)
  BY <1>1 DEF Timing, StreamState, StreamAssumption, Stream!Left, Stream!QuietEnough, Stream!DeadlinePasses
<1>6. EndsSo(state, k)
  BY <1>1 DEF EndsSo, StreamState, Stream!DeadlinePasses
<1> HIDE DEF k
<1> QED
  BY <1>2, <1>3, <1>4, <1>5, <1>6, StreamChanges

LEMMA StreamCancel ==
  ASSUME StreamAssumption, StreamInv, Stream!Cancel
  PROVE  StreamInv' /\ Stream!EndsForCause
<1> DEFINE k == [state EXCEPT !.ctx = "cancelled"]
<1>1. state \in StreamState /\ ReaderSound(state) /\ Returning(state) /\ Timing(state)
  BY DEF StreamInv
<1>2. state' = k
  BY DEF Stream!Cancel
<1>3. k \in StreamState
  BY <1>1 DEF StreamState, StreamAssumption
<1>4. ReaderSound(k) /\ Returning(k)
  BY <1>1 DEF ReaderSound, Returning, StreamState, Stream!Cancel
<1>5. Timing(k)
  BY <1>1 DEF Timing, StreamState, StreamAssumption, Stream!Left, Stream!QuietEnough, Stream!Cancel
<1>6. EndsSo(state, k)
  BY <1>1 DEF EndsSo, StreamState, Stream!Cancel
<1> HIDE DEF k
<1> QED
  BY <1>2, <1>3, <1>4, <1>5, <1>6, StreamChanges

LEMMA StreamClosed ==
  ASSUME StreamAssumption, StreamInv, Stream!Closed
  PROVE  StreamInv' /\ Stream!EndsForCause
<1> DEFINE k == [state EXCEPT !.closing = "closed"]
<1>1. state \in StreamState /\ ReaderSound(state) /\ Returning(state) /\ Timing(state)
  BY DEF StreamInv
<1>2. state' = k
  BY DEF Stream!Closed
<1>3. k \in StreamState
  BY <1>1 DEF StreamState, StreamAssumption
<1>4. ReaderSound(k) /\ Returning(k)
  BY <1>1 DEF ReaderSound, Returning, StreamState, Stream!Closed
<1>5. Timing(k)
  BY <1>1 DEF Timing, StreamState, StreamAssumption, Stream!Left, Stream!QuietEnough, Stream!Closed
<1>6. EndsSo(state, k)
  BY <1>1 DEF EndsSo, StreamState, Stream!Closed
<1> HIDE DEF k
<1> QED
  BY <1>2, <1>3, <1>4, <1>5, <1>6, StreamChanges

LEMMA StreamClose ==
  ASSUME StreamAssumption, StreamInv, Stream!Close
  PROVE  StreamInv' /\ Stream!EndsForCause
<1> DEFINE off == Stream!Off
           k == [state EXCEPT !.closing = "stopping", !.ctx = "cancelled", !.timer = off, !.body = FALSE]
<1>1. state \in StreamState /\ ReaderSound(state) /\ Returning(state) /\ Timing(state)
  BY DEF StreamInv
<1>2. state' = k
  BY DEF Stream!Close
<1>7. off \in Nat
  BY OffFacts
<1> HIDE DEF off
<1>3. k \in StreamState
  BY ZenonT(60), <1>1, <1>7 DEF StreamState, StreamAssumption
<1>4. ReaderSound(k) /\ Returning(k)
  BY <1>1 DEF ReaderSound, Returning, StreamState, Stream!Close
<1>5. Timing(k)
  BY <1>1 DEF Timing, StreamState, StreamAssumption, Stream!Left, Stream!QuietEnough, Stream!Close
<1>6. EndsSo(state, k)
  BY <1>1 DEF EndsSo, StreamState, Stream!Close
<1> HIDE DEF k
<1> QED
  BY <1>2, <1>3, <1>4, <1>5, <1>6, StreamChanges

-----------------------------------------------------------------------------
(* The drain, looked at by its timer or by the consumer.                   *)

\* A drain that ends has reached its limit, or quiet between events.
DrainsSo(s, t) ==
  t.endCause = "drain" /\ s.endCause = "none" =>
    t.maxLeft = 0 \/ (t.quietLeft = 0 /\ t.comments >= MinComments /\ t.content = "none" /\ ~t.partialLine)

LEMMA LookKeeps ==
  ASSUME StreamAssumption, NEW s \in StreamState, NEW t, Looked(s, t), s.content # "none" => s.hasData
  PROVE  DrainsSo(s, t) /\ Timing(t)
<1>1. t \in StreamState /\ Same(s, t)
  BY DEF Looked
<1>2. Stream!Left(t) = Stream!Left(s)
  BY <1>1 DEF Same, Stream!Left, Stream!QuietEnough
<1>3. Stream!Left(t) \in Nat /\ Stream!Left(t) <= t.maxLeft /\ t.maxLeft \in Nat
  BY <1>1, LeftFacts DEF StreamState
<1>4. Timing(t)
  BY <1>1, <1>2, <1>3 DEF Timing, Looked
<1>5. ASSUME t.endCause = "drain", s.endCause = "none" PROVE Stream!Left(t) = 0
  BY <1>2, <1>5 DEF Looked
<1>6. DrainsSo(s, t)
  BY <1>1, <1>5 DEF DrainsSo, Same, Stream!Left, Stream!QuietEnough, StreamState
<1> QED
  BY <1>4, <1>6

LEMMA LookLasts ==
  ASSUME NEW s \in StreamState, NEW t, Looked(s, t), ReaderSound(s), Returning(s)
  PROVE  ReaderSound(t) /\ Returning(t)
<1>1. Same(s, t) /\ (s.endCause = "none" \/ t.endCause = s.endCause)
      /\ (t.endCause = s.endCause \/ t.endCause = "drain")
  BY DEF Looked
<1> QED
  BY <1>1 DEF ReaderSound, Returning, Same

LEMMA StreamTimerFires ==
  ASSUME StreamAssumption, StreamInv, Stream!TimerFires
  PROVE  StreamInv' /\ Stream!EndsForCause
<1> DEFINE off == Stream!Off
           s == [state EXCEPT !.timer = off]
           k == Stream!ExpireDrain(s)
<1>1. state \in StreamState /\ ReaderSound(state) /\ Returning(state) /\ off \in Nat
  BY OffFacts DEF StreamInv
<1>2. state' = k
  BY DEF Stream!TimerFires
<1> HIDE DEF off
<1>3. s \in StreamState /\ Same(state, s) /\ s.endCause = state.endCause
  BY <1>1 DEF StreamState, Same
<1>4. ReaderSound(s) /\ Returning(s)
  BY <1>1, <1>3 DEF ReaderSound, Returning, Same
<1> HIDE DEF s
<1>5. Looked(s, k)
  BY <1>3, Looks
<1> HIDE DEF k
<1>6. k \in StreamState /\ ReaderSound(k) /\ Returning(k) /\ Timing(k) /\ DrainsSo(s, k)
  BY <1>3, <1>4, <1>5, LookKeeps, LookLasts DEF Looked, ReaderSound
<1>7. Same(s, k)
  BY <1>5 DEF Looked
<1>8. EndsSo(state, k)
  BY <1>3, <1>6, <1>7 DEF EndsSo, DrainsSo, Same
<1> QED
  BY <1>2, <1>6, <1>8, StreamChanges

LEMMA StreamScan ==
  ASSUME StreamAssumption, StreamInv, Stream!Scan
  PROVE  StreamInv' /\ Stream!EndsForCause
<1>1. PICK left \in {IdleLimit, state.idleLeft} :
        state' = [state EXCEPT !.reader = "line", !.idleLeft = left]
  BY DEF Stream!Scan
<1> DEFINE k == [state EXCEPT !.reader = "line", !.idleLeft = left]
<1>2. state \in StreamState /\ ReaderSound(state) /\ Returning(state) /\ Timing(state) /\ state.reader = "scan"
  BY DEF StreamInv, Stream!Scan
<1>3. left \in Nat
  BY <1>1, <1>2 DEF StreamState, StreamAssumption
<1>4. k \in StreamState
  BY <1>2, <1>3 DEF StreamState
<1>5. ReaderSound(k) /\ Returning(k)
  BY <1>2 DEF ReaderSound, Returning, StreamState
<1>6. Timing(k)
  BY <1>2 DEF Timing, StreamState
<1>7. EndsSo(state, k)
  BY <1>2 DEF EndsSo, StreamState
<1>8. state' = k
  BY <1>1
<1> HIDE DEF k
<1> QED
  BY <1>4, <1>5, <1>6, <1>7, <1>8, StreamChanges

LEMMA StreamTell ==
  ASSUME StreamAssumption, StreamInv, Stream!Tell
  PROVE  StreamInv' /\ Stream!EndsForCause
<1> DEFINE reader == IF state.endCause = "none" THEN "parked" ELSE "finished"
           k == [state EXCEPT !.reader = reader, !.changed = TRUE]
<1>1. state \in StreamState /\ ReaderSound(state) /\ Returning(state) /\ Timing(state) /\ state.reader = "tell"
  BY DEF StreamInv, Stream!Tell
<1>2. state' = k
  BY <1>1 DEF Stream!Tell, Stream!Notified, StreamState
<1>3. reader \in {"parked", "finished"}
  OBVIOUS
<1> HIDE DEF reader
<1>4. k \in StreamState
  BY <1>1, <1>3 DEF StreamState
<1>5. ReaderSound(k) /\ Returning(k)
  BY <1>1, <1>3 DEF ReaderSound, Returning, StreamState
<1>6. Timing(k)
  BY <1>1 DEF Timing, StreamState, Stream!Left, Stream!QuietEnough
<1>7. EndsSo(state, k)
  BY <1>1 DEF EndsSo, StreamState
<1> HIDE DEF k
<1> QED
  BY <1>2, <1>4, <1>5, <1>6, <1>7, StreamChanges

LEMMA StreamTick ==
  ASSUME StreamAssumption, StreamInv, Stream!Tick
  PROVE  StreamInv' /\ Stream!EndsForCause
<1> DEFINE maxLeft == Stream!Less(state.maxLeft)
           quietLeft == Stream!Less(state.quietLeft)
           idleLeft == Stream!Less(state.idleLeft)
           idleTimer == Stream!Less(state.idleTimer)
           timer == IF state.timer = Stream!Off THEN Stream!Off ELSE Stream!Less(state.timer)
           k == [state EXCEPT !.maxLeft = maxLeft, !.quietLeft = quietLeft, !.idleLeft = idleLeft,
                              !.idleTimer = idleTimer, !.timer = timer]
<1>1. state \in StreamState /\ ReaderSound(state) /\ Returning(state) /\ Timing(state)
  BY DEF StreamInv
<1>2. state' = k
  BY DEF Stream!Tick
<1>3. \A n \in Nat : Stream!Less(n) \in Nat
  BY DEF Stream!Less
<1>4. /\ state.maxLeft \in Nat /\ state.quietLeft \in Nat /\ state.idleLeft \in Nat
      /\ state.idleTimer \in Nat /\ state.timer \in Nat /\ Stream!Off \in Nat
  BY <1>1, OffFacts DEF StreamState
<1>5. maxLeft \in Nat /\ quietLeft \in Nat /\ idleLeft \in Nat /\ idleTimer \in Nat /\ timer \in Nat
  BY <1>3, <1>4
<1>6. \A m \in Nat, n \in Nat : m <= n => Stream!Less(m) <= Stream!Less(n)
  BY DEF Stream!Less
<1>7. state.timer = Stream!Off \/ timer = Stream!Less(state.timer)
  OBVIOUS
<1>8. state.timer = Stream!Off => timer = Stream!Off
  OBVIOUS
<1>9. k.timer = timer /\ k.maxLeft = maxLeft /\ k.quietLeft = quietLeft
  BY <1>1 DEF StreamState
<1> HIDE DEF timer
<1>10. k \in StreamState
  BY <1>1, <1>5 DEF StreamState
<1>11. ReaderSound(k) /\ Returning(k)
  BY <1>1 DEF ReaderSound, Returning, StreamState
<1>12. Stream!Left(k) = Stream!Less(Stream!Left(state))
  <2>1. Stream!QuietEnough(k) <=> Stream!QuietEnough(state)
    BY <1>1 DEF Stream!QuietEnough, StreamState
  <2> HIDE DEF k
  <2> QED
    BY <1>4, <1>9, <2>1 DEF Stream!Left, Stream!Less
<1>13. Timing(k)
  <2>1. /\ k.drain = state.drain /\ k.endCause = state.endCause /\ k.ctx = state.ctx
        /\ k.reader = state.reader
    BY <1>1 DEF StreamState
  <2>2. Stream!Left(state) \in Nat
    BY <1>1, LeftFacts
  <2> HIDE DEF k
  <2> SUFFICES ASSUME k.drain, k.endCause = "none", k.ctx # "cancelled", k.timer # Stream!Off
               PROVE  k.timer <= k.maxLeft /\ (k.reader # "line" => k.timer <= Stream!Left(k))
    BY DEF Timing
  <2>3. /\ k.timer = Stream!Less(state.timer) /\ state.timer <= state.maxLeft
        /\ state.reader # "line" => state.timer <= Stream!Left(state)
    BY <1>1, <1>7, <1>8, <1>9, <2>1 DEF Timing
  <2> QED
    BY <1>4, <1>6, <1>9, <1>12, <2>1, <2>2, <2>3
<1>14. EndsSo(state, k)
  BY <1>1 DEF EndsSo, StreamState
<1> HIDE DEF k
<1> QED
  BY <1>2, <1>10, <1>11, <1>13, <1>14, StreamChanges

-----------------------------------------------------------------------------
(* The consumer.                                                           *)

\* The consumer takes a result or the end, and returns.
TakesSo(s, t) ==
  /\ t \in StreamState /\ ReaderSound(t) /\ Returning(t) /\ Timing(t)
  /\ t.reader = s.reader /\ t.endCause = s.endCause /\ t.drain = s.drain /\ t.maxLeft = s.maxLeft
  /\ t.quietLeft = s.quietLeft /\ t.comments = s.comments /\ t.content = s.content
  /\ t.partialLine = s.partialLine
  /\ t.terminal # "idle" /\ (t.ret = "event" => s.ctx = "live")

LEMMA Takes ==
  ASSUME NEW s \in StreamState, ReaderSound(s), Returning(s), Timing(s), s.ctx = state.ctx,
         s.terminal = "none", Stream!Ready(s)
  PROVE  TakesSo(s, Stream!Take(s))
<1> DEFINE t == Stream!Take(s)
<1> SUFFICES TakesSo(s, t)
  OBVIOUS
<1>0. "none" \notin Stream!Ends /\ "idle" \notin Stream!Ends /\ "event" \notin Stream!Ends /\ "ctx" \notin Stream!Ends
  BY DEF Stream!Ends
<1>1. CASE s.ctx # "live"
  <2>1. t = [s EXCEPT !.consumer = "out", !.ret = "ctx"]
    BY <1>1 DEF Stream!Take, Stream!Return, Stream!ContextErr
  <2> HIDE DEF t
  <2>2. t \in StreamState
    BY ZenonT(60), <2>1 DEF StreamState
  <2>3. ReaderSound(t) /\ Returning(t)
    BY <2>1, <1>0 DEF ReaderSound, Returning, StreamState
  <2>4. Timing(t)
    BY <2>1 DEF Timing, StreamState, Stream!Left, Stream!QuietEnough
  <2> QED
    BY <1>0, <2>1, <2>2, <2>3, <2>4 DEF TakesSo, StreamState
<1>2. CASE s.ctx = "live" /\ s.result # "none"
  <2> DEFINE terminal == IF s.result \in Stream!Ends THEN s.result ELSE "none"
  <2>1. t = [s EXCEPT !.consumer = "out", !.ret = s.result, !.result = "none", !.terminal = terminal]
    BY <1>2 DEF Stream!Take, Stream!Return, Stream!ContextErr, StreamState
  <2>2. /\ terminal \in {"none"} \cup Stream!Ends
        /\ (terminal = "none" <=> s.result = "event")
        /\ (terminal # "none" => s.endCause # "none")
    BY <1>0, <1>2 DEF ReaderSound, StreamState
  <2> HIDE DEF t, terminal
  <2>3. t \in StreamState
    BY ZenonT(60), <1>2, <2>1, <2>2 DEF StreamState
  <2>4. ReaderSound(t)
    BY <1>0, <2>1 DEF ReaderSound, StreamState
  <2>5. Returning(t)
    BY <1>0, <1>2, <2>1, <2>2 DEF ReaderSound, Returning, StreamState
  <2>6. Timing(t)
    BY <2>1 DEF Timing, StreamState, Stream!Left, Stream!QuietEnough
  <2> QED
    BY <1>0, <1>2, <2>1, <2>2, <2>3, <2>4, <2>5, <2>6 DEF TakesSo, StreamState
<1>3. CASE s.ctx = "live" /\ s.result = "none"
  <2>1. t = [s EXCEPT !.consumer = "out", !.ret = s.endCause, !.terminal = s.endCause]
    BY <1>3 DEF Stream!Take, Stream!Return, Stream!ContextErr, StreamState
  <2>2. s.endCause \in Stream!Ends
    BY <1>3 DEF Stream!Ready, Stream!ContextErr, StreamState
  <2> HIDE DEF t
  <2>3. t \in StreamState
    BY ZenonT(60), <2>1, <2>2 DEF StreamState
  <2>4. ReaderSound(t)
    BY <2>1 DEF ReaderSound, StreamState
  <2>5. Returning(t)
    BY <1>0, <1>3, <2>1, <2>2 DEF Returning, StreamState
  <2>6. Timing(t)
    BY <2>1 DEF Timing, StreamState, Stream!Left, Stream!QuietEnough
  <2> QED
    BY <1>0, <1>3, <2>1, <2>2, <2>3, <2>4, <2>5, <2>6 DEF TakesSo, StreamState
<1> QED
  BY <1>1, <1>2, <1>3

LEMMA StreamWoken ==
  ASSUME StreamAssumption, StreamInv, Stream!Woken
  PROVE  StreamInv' /\ Stream!EndsForCause
<1> DEFINE s == [state EXCEPT !.changed = FALSE]
           t == Stream!Take(s)
<1>1. /\ state \in StreamState /\ ReaderSound(state) /\ Returning(state) /\ Timing(state)
      /\ state.consumer = "wait"
  BY DEF StreamInv, Stream!Woken
<1>2. state' = IF Stream!Ready(s) THEN t ELSE s
  BY DEF Stream!Woken
<1>7. s \in StreamState
  BY <1>1 DEF StreamState
<1>3. Same(state, s) /\ s.endCause = state.endCause /\ s.timer = state.timer
  BY <1>1 DEF StreamState, Same
<1> HIDE DEF s
<1>4. ReaderSound(s) /\ Returning(s) /\ Timing(s)
  BY <1>1, <1>3 DEF ReaderSound, Returning, Timing, Same, Stream!Left, Stream!QuietEnough
<1>5. CASE Stream!Ready(s)
  <2>1. TakesSo(s, t)
    BY <1>1, <1>3, <1>4, <1>5, <1>7, Takes DEF Same, Returning
  <2> HIDE DEF t
  <2>2. EndsSo(state, t)
    BY <1>1, <1>3, <2>1 DEF EndsSo, TakesSo, Same
  <2> QED
    BY <1>2, <1>5, <2>1, <2>2, StreamChanges DEF TakesSo
<1>6. CASE ~Stream!Ready(s)
  <2>1. EndsSo(state, s)
    BY <1>3 DEF EndsSo, Same
  <2> QED
    BY <1>2, <1>4, <1>6, <1>7, <2>1, StreamChanges
<1> QED
  BY <1>5, <1>6

LEMMA StreamIdleFires ==
  ASSUME StreamAssumption, StreamInv, Stream!IdleFires
  PROVE  StreamInv' /\ Stream!EndsForCause
<1> DEFINE s == Stream!ExpireDrain(state)
           t == Stream!Take(s)
           idle == [s EXCEPT !.consumer = "idle"]
<1>1. /\ state \in StreamState /\ ReaderSound(state) /\ Returning(state) /\ Timing(state)
      /\ state.consumer = "wait"
  BY DEF StreamInv, Stream!IdleFires
<1>2. state' = IF Stream!Ready(s) THEN t ELSE idle
  BY DEF Stream!IdleFires
<1>3. Looked(state, s)
  BY <1>1, Looks
<1> HIDE DEF s
<1>4. s \in StreamState /\ Same(state, s) /\ ReaderSound(s) /\ Returning(s) /\ Timing(s) /\ DrainsSo(state, s)
  BY <1>1, <1>3, LookKeeps, LookLasts DEF Looked, ReaderSound
<1>5. CASE Stream!Ready(s)
  <2>1. TakesSo(s, t)
    BY <1>1, <1>4, <1>5, Takes DEF Same, Returning
  <2> HIDE DEF t
  <2>2. EndsSo(state, t)
    BY <1>1, <1>4, <2>1 DEF EndsSo, DrainsSo, TakesSo, Same
  <2> QED
    BY <1>2, <1>5, <2>1, <2>2, StreamChanges DEF TakesSo
<1>6. CASE ~Stream!Ready(s)
  <2>1. idle \in StreamState
    BY <1>4 DEF StreamState
  <2>2. ReaderSound(idle) /\ Returning(idle)
    BY <1>1, <1>4 DEF ReaderSound, Returning, Same, StreamState
  <2>3. Timing(idle)
    BY <1>4 DEF Timing, StreamState, Stream!Left, Stream!QuietEnough
  <2>4. EndsSo(state, idle)
    BY <1>1, <1>4 DEF EndsSo, DrainsSo, Same, StreamState
  <2> HIDE DEF idle
  <2> QED
    BY <1>2, <1>6, <2>1, <2>2, <2>3, <2>4, StreamChanges
<1> QED
  BY <1>5, <1>6

LEMMA StreamIdleEnds ==
  ASSUME StreamAssumption, StreamInv, Stream!IdleEnds
  PROVE  StreamInv' /\ Stream!EndsForCause
<1> DEFINE again == [state EXCEPT !.consumer = "wait", !.idleTimer = state.idleLeft]
           ctx == [state EXCEPT !.consumer = "out", !.ret = "ctx"]
           idle == [state EXCEPT !.consumer = "out", !.ret = "idle", !.terminal = "idle"]
<1>0. "none" \notin Stream!Ends /\ "idle" \notin Stream!Ends
  BY DEF Stream!Ends
<1>1. /\ state \in StreamState /\ ReaderSound(state) /\ Returning(state) /\ Timing(state)
      /\ state.consumer = "idle" /\ state.idleLeft \in Nat
  BY DEF StreamInv, Stream!IdleEnds, StreamState
<1>2. state' = again \/ state' = ctx \/ (state' = idle /\ state.idleLeft = 0)
  BY <1>1 DEF Stream!IdleEnds, Stream!Return
<1>3. again \in StreamState /\ ctx \in StreamState /\ idle \in StreamState
  BY ZenonT(60), <1>1 DEF StreamState
<1>4. ReaderSound(again) /\ ReaderSound(ctx) /\ ReaderSound(idle)
  BY <1>1 DEF ReaderSound, StreamState
<1>5. Returning(again) /\ Returning(ctx) /\ Returning(idle)
  BY <1>0, <1>1 DEF Returning, StreamState
<1>6. Timing(again) /\ Timing(ctx) /\ Timing(idle)
  BY <1>1 DEF Timing, StreamState, Stream!Left, Stream!QuietEnough
<1>7. EndsSo(state, again) /\ EndsSo(state, ctx) /\ (state.idleLeft = 0 => EndsSo(state, idle))
  BY <1>1 DEF EndsSo, StreamState
<1> HIDE DEF again, ctx, idle
<1> QED
  BY <1>2, <1>3, <1>4, <1>5, <1>6, <1>7, StreamChanges

LEMMA StreamCallNext ==
  ASSUME StreamAssumption, StreamInv, Stream!CallNext
  PROVE  StreamInv' /\ Stream!EndsForCause
<1> DEFINE s == Stream!ExpireDrain(state)
           t == Stream!Take(s)
           ctx == [state EXCEPT !.consumer = "out", !.ret = "ctx"]
           wait == [s EXCEPT !.request = TRUE, !.consumer = "wait", !.idleLeft = IdleLimit, !.idleTimer = IdleLimit]
<1>1. /\ state \in StreamState /\ ReaderSound(state) /\ Returning(state) /\ Timing(state)
      /\ state.consumer = "out" /\ state.terminal = "none" /\ state.ret # "ctx"
  BY DEF StreamInv, Stream!CallNext
<1>2. \/ state' = ctx
      \/ Stream!Ready(s) /\ state' = t
      \/ ~Stream!Ready(s) /\ state' = wait
  BY DEF Stream!CallNext, Stream!Return, Stream!Ready
<1>3. Looked(state, s)
  BY <1>1, Looks
<1> HIDE DEF s
<1>4. s \in StreamState /\ Same(state, s) /\ ReaderSound(s) /\ Returning(s) /\ Timing(s) /\ DrainsSo(state, s)
  BY <1>1, <1>3, LookKeeps, LookLasts DEF Looked, ReaderSound
<1>5. CASE state' = ctx
  <2>1. ctx \in StreamState
    BY <1>1 DEF StreamState
  <2>2. ReaderSound(ctx) /\ Returning(ctx)
    BY <1>1 DEF ReaderSound, Returning, StreamState
  <2>3. Timing(ctx) /\ EndsSo(state, ctx)
    BY <1>1 DEF Timing, EndsSo, StreamState, Stream!Left, Stream!QuietEnough
  <2> HIDE DEF ctx
  <2> QED
    BY <1>5, <2>1, <2>2, <2>3, StreamChanges
<1>6. CASE Stream!Ready(s) /\ state' = t
  <2>1. TakesSo(s, t)
    BY <1>1, <1>4, <1>6, Takes DEF Same
  <2> HIDE DEF t
  <2>2. EndsSo(state, t)
    BY <1>1, <1>4, <2>1 DEF EndsSo, DrainsSo, TakesSo, Same
  <2> QED
    BY <1>6, <2>1, <2>2, StreamChanges DEF TakesSo
<1>7. CASE ~Stream!Ready(s) /\ state' = wait
  <2>1. s.result = "none" /\ s.reader \in {"parked", "tell", "finished"}
    BY <1>1, <1>4, <1>7 DEF Stream!Ready, Returning, Same
  <2>2. wait \in StreamState
    BY ZenonT(60), <1>4 DEF StreamState, StreamAssumption
  <2>3. ReaderSound(wait) /\ Returning(wait)
    BY <1>1, <1>4, <2>1 DEF ReaderSound, Returning, Same, StreamState
  <2>4. Timing(wait)
    BY <1>4 DEF Timing, StreamState, Stream!Left, Stream!QuietEnough
  <2>5. EndsSo(state, wait)
    BY <1>1, <1>4 DEF EndsSo, DrainsSo, Same, StreamState
  <2> HIDE DEF wait
  <2> QED
    BY <1>7, <2>2, <2>3, <2>4, <2>5, StreamChanges
<1> QED
  BY <1>2, <1>5, <1>6, <1>7

-----------------------------------------------------------------------------
(* The reader parses a line, or the end.                                   *)

\* What a line or the end makes of the stream.
ParsesSo(s, t) ==
  /\ t \in StreamState
  /\ t.ctx = s.ctx /\ t.closing = s.closing /\ t.reader = s.reader /\ t.request = s.request
  /\ t.lost = s.lost /\ t.drain = s.drain /\ t.maxLeft = s.maxLeft /\ t.endCause = s.endCause
  /\ t.consumer = s.consumer /\ t.ret = s.ret /\ t.terminal = s.terminal /\ t.idleLeft = s.idleLeft
  /\ t.content # "none" => t.hasData
  /\ t.result # "drain"

LEMMA Consumes ==
  ASSUME StreamAssumption, NEW s \in StreamState, ReaderSound(s), NEW line \in Stream!Lines
  PROVE  ParsesSo(s, Stream!Consume(s, line))
<1> DEFINE t == Stream!Consume(s, line)
<1> SUFFICES ParsesSo(s, t)
  OBVIOUS
<1>0. "done" \in Stream!Ends /\ "big" \in Stream!Ends /\ "text" \in Stream!Ends
  BY DEF Stream!Ends
<1>1. CASE line = "blank"
  <2> DEFINE result == IF s.content = "done" THEN "done" ELSE "event"
             event == [s EXCEPT !.result = result, !.content = "none", !.hasData = FALSE]
             nothing == [s EXCEPT !.hasData = FALSE]
  <2>1. t = event \/ (s.content = "none" /\ t = nothing)
    BY <1>1 DEF Stream!Consume, Stream!Dispatched
  <2>2. result \in {"done", "event"}
    OBVIOUS
  <2> HIDE DEF result, t
  <2>5. event \in StreamState
    BY ZenonT(60), <1>0, <2>2 DEF StreamState
  <2>3. ParsesSo(s, event)
    BY <2>2, <2>5 DEF ParsesSo, StreamState
  <2>4. s.content = "none" => ParsesSo(s, nothing)
    BY DEF ParsesSo, ReaderSound, StreamState
  <2> QED
    BY <2>1, <2>3, <2>4
<1>2. CASE line = "comment"
  <2> DEFINE comments == s.comments + 1
             more == [s EXCEPT !.comments = comments]
  <2>1. t \in {s, more}
    BY <1>2 DEF Stream!Consume
  <2>2. comments \in Nat
    BY DEF StreamState
  <2> HIDE DEF comments, t
  <2>3. ParsesSo(s, more) /\ ParsesSo(s, s)
    BY <2>2 DEF ParsesSo, ReaderSound, StreamState
  <2> QED
    BY <2>1, <2>3
<1>3. CASE line = "text"
  <2>1. t = [s EXCEPT !.raw = TRUE]
    BY <1>3 DEF Stream!Consume
  <2> HIDE DEF t
  <2> QED
    BY <2>1 DEF ParsesSo, ReaderSound, StreamState
<1>4. CASE line = "big"
  <2>1. t = [s EXCEPT !.result = "big"]
    BY <1>4 DEF Stream!Consume
  <2> HIDE DEF t
  <2> QED
    BY <1>0, <2>1 DEF ParsesSo, ReaderSound, StreamState
<1>5. CASE line \in {"data", "empty", "done"}
  <2> DEFINE content == Stream!Joined(s.content, s.hasData, line)
             quietLeft == IF s.drain THEN QuietLimit ELSE s.quietLeft
             comments == IF s.drain THEN 0 ELSE s.comments
  <2>1. t = [s EXCEPT !.content = content, !.hasData = TRUE, !.quietLeft = quietLeft, !.comments = comments]
    BY <1>5 DEF Stream!Consume
  <2>2. content \in {"none", "some", "done"} /\ quietLeft \in Nat /\ comments \in Nat
    BY <1>5 DEF Stream!Joined, StreamState, StreamAssumption
  <2> HIDE DEF content, quietLeft, comments, t
  <2>3. t \in StreamState
    BY ZenonT(60), <2>1, <2>2 DEF StreamState
  <2>4. /\ t.ctx = s.ctx /\ t.closing = s.closing /\ t.reader = s.reader /\ t.request = s.request
        /\ t.lost = s.lost /\ t.drain = s.drain /\ t.maxLeft = s.maxLeft /\ t.endCause = s.endCause
        /\ t.consumer = s.consumer /\ t.ret = s.ret /\ t.terminal = s.terminal /\ t.idleLeft = s.idleLeft
    BY <2>1 DEF StreamState
  <2>5. t.hasData /\ t.result = s.result
    BY <2>1 DEF StreamState
  <2> QED
    BY <2>3, <2>4, <2>5 DEF ParsesSo, ReaderSound
<1> QED
  BY <1>1, <1>2, <1>3, <1>4, <1>5 DEF Stream!Lines

LEMMA EndsIt ==
  ASSUME NEW s \in StreamState, ReaderSound(s), NEW fails \in BOOLEAN
  PROVE  ParsesSo(s, Stream!End(s, fails))
<1> DEFINE t == Stream!End(s, fails)
           result == IF s.content = "done" THEN "done" ELSE "event"
           failed == [s EXCEPT !.result = "fail"]
           event == [s EXCEPT !.result = result, !.content = "none", !.hasData = FALSE, !.ended = TRUE]
           text == [s EXCEPT !.result = "text", !.ended = TRUE]
           eof == [s EXCEPT !.result = "eof", !.ended = TRUE]
<1>0. "done" \in Stream!Ends /\ "fail" \in Stream!Ends /\ "text" \in Stream!Ends /\ "eof" \in Stream!Ends
  BY DEF Stream!Ends
<1>1. [Stream!Dispatched(s) EXCEPT !.ended = TRUE] = event
  BY DEF Stream!Dispatched, StreamState
<1>2. t \in {failed, event, text, eof}
  <2> HIDE DEF event
  <2> QED
    BY <1>1 DEF Stream!End
<1>3. result \in {"done", "event"}
  OBVIOUS
<1> HIDE DEF result
<1>7. failed \in StreamState /\ text \in StreamState /\ eof \in StreamState
  BY <1>0 DEF StreamState
<1>8. event \in StreamState
  BY ZenonT(60), <1>0, <1>3 DEF StreamState
<1>4. ParsesSo(s, failed) /\ ParsesSo(s, text) /\ ParsesSo(s, eof)
  BY <1>7 DEF ParsesSo, ReaderSound, StreamState
<1>5. ParsesSo(s, event)
  BY <1>3, <1>8 DEF ParsesSo, StreamState
<1> HIDE DEF t, failed, event, text, eof
<1>6. ParsesSo(s, t)
  BY <1>2, <1>4, <1>5
<1> QED
  BY <1>6 DEF t

\* The reader goes on with an event, the end, or the next line.
LEMMA Parsed ==
  ASSUME StreamAssumption, StreamInv, state.reader = "line", state.endCause = "none",
         state.ctx # "cancelled", NEW s, ParsesSo(state, s), state' = Stream!Parsed(s)
  PROVE  StreamInv' /\ Stream!EndsForCause
<1> DEFINE cause == IF s.result \in Stream!Ends THEN s.result ELSE s.endCause
           over == [s EXCEPT !.endCause = cause]
           u == Stream!UpdateDrain(over)
           reader == IF s.result # "none" \/ u.endCause # "none" THEN "tell" ELSE "scan"
           k == [u EXCEPT !.reader = reader]
<1>0. "none" \notin Stream!Ends /\ "event" \notin Stream!Ends
  BY DEF Stream!Ends
<1>1. state \in StreamState /\ ReaderSound(state) /\ Returning(state) /\ s \in StreamState /\ s.endCause = "none"
  BY DEF StreamInv, ParsesSo
<1>2. state' = k
  BY DEF Stream!Parsed
<1>3. /\ cause \in {"none"} \cup Stream!Ends /\ cause # "drain"
      /\ s.result \in Stream!Ends => cause # "none"
  BY <1>0, <1>1 DEF ParsesSo
<1> HIDE DEF cause
<1>4. over \in StreamState /\ Same(s, over) /\ over.endCause = cause
  BY <1>1, <1>3 DEF StreamState, Same
<1> HIDE DEF over
<1>5. Looked(over, u)
  BY <1>4, LooksOn
<1> HIDE DEF u
<1>6. u \in StreamState /\ Same(s, u) /\ (cause # "none" => u.endCause = cause) /\ DrainsSo(over, u)
  BY <1>4, <1>5, LookKeeps DEF Looked, Same, ParsesSo
<1>7. /\ reader \in {"tell", "scan"}
      /\ s.result # "none" => reader = "tell"
  OBVIOUS
<1> HIDE DEF reader
<1>8. k \in StreamState /\ k.reader = reader
  BY <1>6, <1>7 DEF StreamState
<1>9. ReaderSound(k)
  BY <1>1, <1>3, <1>6, <1>7 DEF ReaderSound, ParsesSo, Same, StreamState
<1>10. Returning(k)
  BY <1>1, <1>6 DEF Returning, ParsesSo, Same, StreamState
<1>11. Stream!Left(k) = Stream!Left(u) /\ Stream!Left(u) = Stream!Left(over)
  BY <1>4, <1>6 DEF Stream!Left, Stream!QuietEnough, Same, StreamState
<1>12. Stream!Left(k) \in Nat /\ k.maxLeft \in Nat /\ Stream!Left(k) <= k.maxLeft
  BY <1>8, LeftFacts DEF StreamState
<1>13. k.timer = u.timer /\ k.drain = u.drain /\ k.endCause = u.endCause /\ k.ctx = u.ctx /\ k.maxLeft = u.maxLeft
  BY <1>6 DEF StreamState
<1>14. /\ k.quietLeft = u.quietLeft /\ k.comments = u.comments /\ k.content = u.content
       /\ k.partialLine = u.partialLine /\ k.terminal = u.terminal /\ k.consumer = u.consumer
  BY <1>6 DEF StreamState
<1> HIDE DEF k
<1>15. k.drain /\ k.endCause = "none" /\ k.ctx # "cancelled" =>
         Stream!Left(k) > 0 /\ k.timer = Stream!Left(k)
  BY <1>5, <1>11, <1>13 DEF Looked
<1>16. Timing(k)
  BY <1>12, <1>15 DEF Timing
<1>17. EndsSo(state, k)
  <2>1. k.endCause = "drain" =>
          k.maxLeft = 0 \/ (k.quietLeft = 0 /\ k.comments >= MinComments /\ k.content = "none" /\ ~k.partialLine)
    BY <1>3, <1>4, <1>6, <1>13, <1>14 DEF DrainsSo
  <2>2. k.terminal = state.terminal /\ k.consumer = state.consumer
    BY <1>6, <1>14 DEF ParsesSo, Same
  <2>3. k.drain = state.drain /\ k.maxLeft = state.maxLeft /\ k.ctx = state.ctx
    BY <1>6, <1>13 DEF ParsesSo, Same
  <2>4. state.drain /\ state.maxLeft = 0 => k.endCause # "none"
    BY <1>12, <1>15, <2>3
  <2> QED
    BY <2>1, <2>2, <2>4 DEF EndsSo
<1> QED
  BY <1>2, <1>8, <1>9, <1>10, <1>16, <1>17, StreamChanges

LEMMA StreamParse ==
  ASSUME StreamAssumption, StreamInv, Stream!Parse
  PROVE  StreamInv' /\ Stream!EndsForCause
<1>1. state \in StreamState /\ ReaderSound(state) /\ Returning(state) /\ Timing(state) /\ state.reader = "line"
  BY DEF StreamInv, Stream!Parse
<1>2. CASE state.endCause # "none" \/ state.ctx = "cancelled"
  <2> DEFINE k == [state EXCEPT !.reader = "finished"]
  <2>1. state' = k
    BY <1>2 DEF Stream!Parse, Stream!Cancelled
  <2>2. k \in StreamState
    BY <1>1 DEF StreamState
  <2>3. ReaderSound(k) /\ Returning(k)
    BY <1>1 DEF ReaderSound, Returning, StreamState
  <2>4. Timing(k) /\ EndsSo(state, k)
    BY <1>1, <1>2 DEF Timing, EndsSo, StreamState
  <2> HIDE DEF k
  <2> QED
    BY <2>1, <2>2, <2>3, <2>4, StreamChanges
<1>3. CASE state.endCause = "none" /\ state.ctx # "cancelled"
  <2> DEFINE s == [state EXCEPT !.partialLine = FALSE]
  <2>1. s \in StreamState
    BY <1>1 DEF StreamState
  <2>2. ReaderSound(s)
    BY <1>1 DEF ReaderSound, StreamState
  <2>3. \/ \E line \in Stream!Lines : state' = Stream!Parsed(Stream!Consume(s, line))
        \/ \E fails \in BOOLEAN : state' = Stream!Parsed(Stream!End(s, fails))
    BY <1>3 DEF Stream!Parse, Stream!Cancelled
  <2>4. ASSUME NEW t, ParsesSo(s, t) PROVE ParsesSo(state, t)
    BY <1>1, <2>4 DEF ParsesSo, StreamState
  <2> HIDE DEF s
  <2>5. ASSUME NEW line \in Stream!Lines PROVE ParsesSo(state, Stream!Consume(s, line))
    BY <2>1, <2>2, <2>4, Consumes
  <2>6. ASSUME NEW fails \in BOOLEAN PROVE ParsesSo(state, Stream!End(s, fails))
    BY <2>1, <2>2, <2>4, EndsIt
  <2> QED
    BY <1>1, <1>3, <2>3, <2>5, <2>6, Parsed
<1> QED
  BY <1>2, <1>3

-----------------------------------------------------------------------------
(* The invariant.                                                          *)

LEMMA StreamStarts ==
  ASSUME StreamAssumption, Stream!Init
  PROVE  StreamInv
<1>1. Stream!Off \in Nat
  BY OffFacts
<1>2. state \in StreamState
  BY <1>1 DEF Stream!Init, StreamState
<1> QED
  BY <1>2 DEF StreamInv, Stream!Init, ReaderSound, Returning, Timing, Stream!Ends

LEMMA StreamNext ==
  ASSUME StreamAssumption, StreamInv, Stream!Next
  PROVE  StreamInv' /\ Stream!EndsForCause
BY StreamTimerFires, StreamLeaves, StreamRequested, StreamPartial, StreamScan, StreamParse, StreamTell,
   StreamCallNext, StreamWoken, StreamIdleFires, StreamIdleEnds, StreamInterrupted, StreamBeginDrain,
   StreamDeadlinePasses, StreamCancel, StreamClose, StreamClosed, StreamTick
   DEF Stream!Next

LEMMA StreamSafe ==
  ASSUME StreamInv
  PROVE  Stream!StreamIsSound
<1>1. Stream!NothingIsLost
  BY DEF StreamInv, ReaderSound, Returning, Stream!NothingIsLost, Stream!Consumed, Stream!Ends
<1>2. Stream!ReaderPauses
  BY DEF StreamInv, Returning, Stream!ReaderPauses
<1>3. Stream!TimerInTime
  BY DEF StreamInv, Timing, Stream!TimerInTime, Stream!Cancelled
<1> QED
  BY <1>1, <1>2, <1>3 DEF Stream!StreamIsSound

-----------------------------------------------------------------------------
(* A step that leaves the state alone keeps the invariants.                *)

LEMMA StoreStutters ==
  ASSUME StoreInv, UNCHANGED state
  PROVE  StoreInv'
<1>1. StoreTyped' /\ StorePaths' /\ StoreLines'
  BY DEF StoreInv, StoreTyped, StorePaths, StoreLines, Making
<1>2. ASSUME NEW p \in Store!Procs PROVE Owning(p)' /\ Writing(p)' /\ Reading(p)'
  <2>1. Owning(p) /\ Writing(p) /\ Reading(p)
    BY DEF StoreInv
  <2>2. Owning(p)'
    BY <2>1 DEF Owning, Vanished
  <2>3. Writing(p)'
    BY <2>1 DEF Writing
  <2>4. Reading(p)'
    BY <2>1 DEF Reading
  <2> QED
    BY <2>2, <2>3, <2>4
<1> QED
  BY <1>1, <1>2 DEF StoreInv

LEMMA JobsStutter ==
  ASSUME JobsInv, UNCHANGED state
  PROVE  JobsInv'
<1>1. JobsTyped'
  BY DEF JobsInv, JobsTyped
<1> QED
  BY <1>1 DEF JobsInv

LEMMA StreamStutters ==
  ASSUME StreamInv, UNCHANGED state
  PROVE  StreamInv'
BY DEF StreamInv

=============================================================================
