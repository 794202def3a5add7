----------------------------- MODULE SessionStore -----------------------------
(***************************************************************************)
(* The journal file of one managed session (src/internal/session): several *)
(* processes create, open, append to, inspect, close and delete it, any of *)
(* them may die, and a record may be written only in part.                 *)
(***************************************************************************)
EXTENDS Naturals, Sequences, FiniteSets

CONSTANTS
  Processes,   \* how many work on the session
  MaxFiles,    \* inodes, and records that are ever written
  MaxWrites

VARIABLE disk

Procs == 1..Processes
Nobody == 0
File == 1..MaxFiles
Stamp == 1..MaxWrites
\* A record as it is found: its sequence number, and which write made it.
Line == [seq : 0..MaxWrites, stamp : Stamp]
\* What follows the last newline: a record without its newline, or part of one.
NoTail == [kind |-> "none", line |-> [seq |-> 0, stamp |-> 1]]
Rest == [kind : {"none", "bare", "torn"}, line : Line]

Idle == [at |-> "idle", goal |-> "open", file |-> 0, mine |-> FALSE, records |-> 0,
         failed |-> FALSE, mark |-> 0,
         tail |-> 0, known |-> {}, seen |-> <<>>]

StoreTypeOK ==
  /\ disk.files \in [File -> [lines : UNION {[1..n -> Line] : n \in 0..MaxWrites},
                              tail : Rest, holder : Procs \cup {Nobody}]]
  /\ disk.path \in {0} \cup File /\ disk.dir \in BOOLEAN
  /\ disk.used \in 0..MaxFiles /\ disk.writes \in 0..MaxWrites
  /\ disk.created \in BOOLEAN /\ disk.acked \subseteq Stamp
  /\ \A p \in Procs :
       /\ disk.proc[p].at \in {"idle", "opening", "opened", "locked", "repair", "live", "writing",
                               "cleanup", "remove", "rmdir", "looked", "inspected"}
       /\ disk.proc[p].goal \in {"open", "delete", "discard"} /\ disk.proc[p].file \in {0} \cup File

Init ==
  disk = [files |-> [f \in File |-> [lines |-> <<>>, tail |-> NoTail, holder |-> Nobody]],
          path |-> 0, dir |-> FALSE, used |-> 0, writes |-> 0, created |-> FALSE,
          acked |-> {}, proc |-> [p \in Procs |-> Idle]]

Me(p) == disk.proc[p]
Mine(p) == disk.files[Me(p).file]
Lines(f) == disk.files[f].lines

\* The locks of a process end with its descriptors.
Released(d, p) ==
  [d EXCEPT !.proc[p] = Idle,
            !.files = [f \in File |-> IF @[f].holder = p THEN [@[f] EXCEPT !.holder = Nobody] ELSE @[f]]]

-----------------------------------------------------------------------------
(* Create makes a directory under a new name and opens a journal in it. *)
Create(p) ==
  /\ Me(p).at = "idle" /\ ~disk.created
  /\ disk' = [disk EXCEPT !.created = TRUE, !.dir = TRUE,
                !.proc[p] = [Idle EXCEPT !.at = "opening", !.mine = TRUE]]

(* Resolve finds a session that has an input; it is opened afterwards. *)
Resolve(p) ==
  /\ Me(p).at = "idle" /\ disk.path # 0 /\ Lines(disk.path) # <<>>
  /\ disk' = [disk EXCEPT !.proc[p] = [Idle EXCEPT !.at = "opening"]]

\* The journal that is opened, made when there is none.
WithJournal(d) ==
  IF d.path # 0 THEN d ELSE [d EXCEPT !.used = @ + 1, !.path = d.used + 1, !.dir = TRUE]

(* Delete: a missing journal is made to be locked, a missing directory not.  *)
(* Nobody deletes a session before its journal was there once.               *)
Delete(p) ==
  /\ Me(p).at = "idle" /\ disk.used > 0 /\ (disk.path # 0 \/ disk.used < MaxFiles)
  /\ LET d == IF disk.dir THEN WithJournal(disk) ELSE disk
     IN disk' = [d EXCEPT !.proc[p] = [Idle EXCEPT !.goal = "delete", !.file = d.path,
                                         !.at = IF disk.dir THEN "opened" ELSE "cleanup"]]

OpenFile(p) ==
  /\ Me(p).at = "opening" /\ (disk.path # 0 \/ disk.used < MaxFiles)
  /\ LET d == IF Me(p).mine THEN WithJournal(disk) ELSE disk
     IN disk' = IF d.path = 0 THEN Released(d, p)
                ELSE [d EXCEPT !.proc[p].at = "opened", !.proc[p].file = d.path]

(* filelock.Acquire does not wait; Create removes its directory if it fails. *)
Lock(p) ==
  /\ Me(p).at = "opened"
  /\ disk' = IF Mine(p).holder = Nobody
             THEN [disk EXCEPT !.files[Me(p).file].holder = p, !.proc[p].at = "locked"]
             ELSE [Released(disk, p) EXCEPT !.dir = @ /\ (~Me(p).mine \/ disk.path # 0)]

\* Mutant: the journal that was opened is taken for the one at the path.
SameJournalAnyway(p) == TRUE

SameJournal(p) == Me(p).file = disk.path

Check(p) ==
  /\ Me(p).at = "locked"
  /\ disk' = IF SameJournal(p)
             THEN [disk EXCEPT !.proc[p].at = IF Me(p).goal = "delete" THEN "cleanup" ELSE "repair"]
             ELSE Released(disk, p)

\* Mutant: the cut takes the newline before the tail with it.
RepairedShort(file) ==
  CASE file.tail.kind = "torn" ->
         [file EXCEPT !.lines = SubSeq(@, 1, Len(@) - 1), !.tail = [kind |-> "bare", line |-> file.lines[Len(file.lines)]]]
    [] OTHER -> file

(* repairIncompleteTail *)
Repaired(file) ==
  CASE file.tail.kind = "none" -> file
    [] file.tail.kind = "bare" -> [file EXCEPT !.lines = Append(@, file.tail.line), !.tail = NoTail]
    [] OTHER -> [file EXCEPT !.tail = NoTail]

\* readRecords: the sequence numbers are those of the lines.
Readable(lines) == \A i \in DOMAIN lines : lines[i].seq = i

(* openStore, once it owns the journal; part of a first record is an error. *)
Repair(p) ==
  /\ Me(p).at = "repair"
  /\ LET file == Repaired(Mine(p))
         broken == Mine(p).tail.kind = "torn" /\ Mine(p).lines = <<>>
     IN disk' = IF broken \/ ~Readable(file.lines) THEN Released(disk, p)
                ELSE [disk EXCEPT !.files[Me(p).file] = file,
                        !.proc[p].at = "live", !.proc[p].records = Len(file.lines)]

-----------------------------------------------------------------------------
\* Mutant: a store goes on writing after a write has failed.
WritableAnyway(p) == Me(p).at = "live"

Writable(p) == Me(p).at = "live" /\ ~Me(p).failed

\* A record written behind the rest of another one is not readable.
Glued(file, line) == IF file.tail.kind = "none" THEN line ELSE [line EXCEPT !.seq = 0]

(* Append: some of the record is in the file before all of it is. *)
Begin(p) ==
  /\ Writable(p) /\ disk.writes < MaxWrites
  /\ \E kind \in {"torn", "bare"} :
       disk' = [disk EXCEPT !.writes = @ + 1, !.proc[p].at = "writing",
                  !.files[Me(p).file].tail =
                    [kind |-> kind, line |-> Glued(Mine(p), [seq |-> Me(p).records + 1, stamp |-> disk.writes + 1])]]

Acknowledge(p) ==
  /\ Me(p).at = "writing"
  /\ LET line == Mine(p).tail.line
     IN disk' = [disk EXCEPT !.files[Me(p).file].lines = Append(@, line),
                             !.files[Me(p).file].tail = NoTail,
                             !.acked = @ \cup {line.stamp},
                             !.proc[p].at = "live", !.proc[p].records = @ + 1]

\* Nothing, part or all but the newline was written.
WriteFails(p) ==
  /\ Me(p).at = "writing"
  /\ \E tail \in {NoTail, Mine(p).tail} :
       disk' = [disk EXCEPT !.files[Me(p).file].tail = tail,
                            !.proc[p].at = "live", !.proc[p].failed = TRUE]

-----------------------------------------------------------------------------
Empty(p) == Me(p).records = 0 /\ ~Me(p).failed

(* Close, and ClosePruningEmpty, which removes a session without a record. *)
Close(p) ==
  /\ Me(p).at = "live"
  /\ \/ disk' = Released(disk, p)
     \/ Empty(p) /\ disk' = [disk EXCEPT !.proc[p].at = "remove"]

(* CloseDiscarding, of a session made for one run. *)
Discard(p) ==
  /\ Me(p).at = "live" /\ Me(p).mine
  /\ disk' = [disk EXCEPT !.proc[p].at = "remove", !.proc[p].goal = "discard"]

(* Delete's caller locks children and asks for jobs: it may refuse. *)
Cleanup(p) ==
  /\ Me(p).at = "cleanup"
  /\ disk' \in {Released(disk, p), [disk EXCEPT !.proc[p].at = "remove"]}

(* removeLocked and RemoveAll: the journal, then the directory if it is empty. *)
Unlink(p) ==
  /\ Me(p).at = "remove"
  /\ disk' = [disk EXCEPT !.path = 0, !.proc[p].at = "rmdir", !.acked = {}]

RemoveDirectory(p) ==
  /\ Me(p).at = "rmdir"
  /\ disk' = [Released(disk, p) EXCEPT !.dir = @ /\ disk.path # 0]

(* A process dies; what it has written stays. *)
Crash(p) == Me(p).at # "idle" /\ disk' = Released(disk, p)

-----------------------------------------------------------------------------
(* Inspect takes the size of a journal that others may be writing, looks for  *)
(* the last newline in it, and reads up to there.                             *)
Look(p) ==
  /\ Me(p).at = "idle" /\ disk.path # 0
  /\ LET tail == disk.files[disk.path].tail
     IN disk' = [disk EXCEPT !.proc[p] =
          [Idle EXCEPT !.at = "looked", !.file = disk.path, !.known = disk.acked,
             !.mark = Len(Lines(disk.path)), !.tail = IF tail = NoTail THEN 0 ELSE tail.line.stamp]]

\* What followed the last newline is gone; shorter records may be in its place.
Overtaken(p) ==
  /\ Me(p).tail # 0 /\ Mine(p).tail.line.stamp # Me(p).tail
  /\ Len(Lines(Me(p).file)) > Me(p).mark => Lines(Me(p).file)[Me(p).mark + 1].stamp # Me(p).tail

\* Mutant: the text behind the last newline is read as a record.
PrefixWhole(p) ==
  LET tail == Mine(p).tail
      rest == IF tail.kind = "torn" THEN [tail.line EXCEPT !.seq = 0] ELSE tail.line
      whole == Lines(Me(p).file) \o (IF tail = NoTail THEN <<>> ELSE <<rest>>)
  IN {SubSeq(whole, 1, Len(whole))}

\* completePrefix
Prefix(p) ==
  LET lines == Lines(Me(p).file)
  IN {SubSeq(lines, 1, n) : n \in IF Overtaken(p) THEN Me(p).mark..Len(lines) ELSE {Me(p).mark}}

Read(p) ==
  /\ Me(p).at = "looked"
  /\ \/ disk' \in {[disk EXCEPT !.proc[p].at = "inspected", !.proc[p].seen = lines] : lines \in Prefix(p)}
     \/ Overtaken(p) /\ disk' = Released(disk, p)

Inspected(p) == Me(p).at = "inspected" /\ disk' = Released(disk, p)

Next ==
  \E p \in Procs :
    \/ Create(p) \/ Resolve(p) \/ Delete(p) \/ OpenFile(p) \/ Lock(p) \/ Check(p) \/ Repair(p)
    \/ Begin(p) \/ Acknowledge(p) \/ WriteFails(p) \/ Close(p) \/ Discard(p)
    \/ Cleanup(p) \/ Unlink(p) \/ RemoveDirectory(p) \/ Crash(p)
    \/ Look(p) \/ Read(p) \/ Inspected(p)

-----------------------------------------------------------------------------
Stamps(lines) == {lines[i].stamp : i \in DOMAIN lines}

(* A store that is open owns the journal that is at its path: an opener that *)
(* was overtaken by a deletion notices, and nobody removes a journal that    *)
(* another one holds (openStore, Delete).                                    *)
OpenIsAtPath ==
  \A p \in Procs : Me(p).at \in {"live", "writing"} =>
    Me(p).file = disk.path /\ Mine(p).holder = p /\ disk.dir

(* A record whose append succeeded is in the journal until the session is    *)
(* deleted, whoever died or repaired what in between (repairIncompleteTail). *)
AcknowledgedKept == disk.path # 0 => disk.acked \subseteq Stamps(Lines(disk.path))

(* No record is ever written behind the rest of another one, so a journal    *)
(* can always be opened again (Store.Append).                                *)
JournalIsSound == \A f \in File : Readable(Lines(f))

(* What a reader makes of a journal in use is sound and has every record     *)
(* that was acknowledged before it looked (completePrefix).                  *)
SnapshotIsSound ==
  \A p \in Procs : Me(p).at = "inspected" =>
    Readable(Me(p).seen) /\ (Me(p).known \subseteq Stamps(Me(p).seen))

(* Whoever opens, writes, repairs, reads or deletes a journal beside others  *)
(* finds and leaves it whole.                                                *)
StoreIsSound == OpenIsAtPath /\ AcknowledgedKept /\ JournalIsSound /\ SnapshotIsSound
=============================================================================
