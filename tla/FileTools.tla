------------------------------ MODULE FileTools ------------------------------
(***************************************************************************)
(* The built-in edit and write tools (src/tools/files.go): how the file a  *)
(* call names is found and checked, the directories that are made for it,  *)
(* and the replacement through a temporary file, while other calls (of the *)
(* agent or of its children) and the user's own programs change the same   *)
(* workspace.                                                              *)
(*                                                                         *)
(* The workspace holds the file f, a link to a file, and a directory that  *)
(* may be missing, with a file n in it; outside of it are the file x and   *)
(* the directory that n's directory may be swapped for.  A content is the  *)
(* set of the changes in it.  Reading, searching, size limits and the      *)
(* description of a change are left out.                                   *)
(***************************************************************************)
EXTENDS Naturals, FiniteSets

CONSTANTS Writers,     \* calls of edit and write
          MaxTroubles  \* changes the user's programs make and steps the system refuses

VARIABLE ft

User == 0
Absent == {Writers + 1}
Calling == 1..Writers
Kinds == {"edit", "write", "expected"}
Paths == {"file", "link", "new"}

Inside == {"f", "n"}
Outside == {"x", "outer"}

\* where a path of an open file is found just now; "link" follows the link
Parent(world, path) == IF path = "new" THEN world.dir ELSE "dir"
Place(world, path) ==
  CASE path = "file" -> "f"
    [] path = "link" -> world.target
    [] path = "new"  -> IF world.dir = "swapped" THEN "outer" ELSE "n"

Exists(world, place) == world.content[place] # Absent
Fresh == [pc |-> "idle", kind |-> "edit", path |-> "file", base |-> Absent, told |-> Absent,
          fixed |-> "f", held |-> FALSE, result |-> "none", raced |-> FALSE,
          swapped |-> FALSE, replaced |-> Absent, landed |-> "f"]

\* One thing at most is not as it should be.
Init ==
  \E dir \in {"missing", "dir", "swapped"}, target \in {"f", "x"}, f \in {{}, Absent} :
    /\ (dir = "dir" /\ (target = "f" \/ f = {})) \/ (target = "f" /\ f = {})
    /\ ft = [world |-> [dir |-> dir, target |-> target,
                        content |-> [p \in Inside \cup Outside |->
                                       IF p \in {"f"} THEN f ELSE IF p = "x" THEN {} ELSE Absent]],
             calls |-> [c \in Calling |-> Fresh], meddles |-> 0, failures |-> 0]

-----------------------------------------------------------------------------
\* A mutant: the temporary file stays.
RemovedNever(call) == call.held

\* The end of a call; its temporary file is removed, where its path still leads.
Removed(call) == call.held /\ call.swapped
Ended(call, result) ==
  [(IF result = "error" THEN Fresh ELSE call) EXCEPT
     !.pc = "done", !.result = result, !.held = Removed(call), !.swapped = call.swapped]

Goes(c, call) == ft' = [ft EXCEPT !.calls[c] = call]
Refuse(c) == Goes(c, Ended(ft.calls[c], "error"))
At(c, pc) == ft.calls[c].pc = pc

\* A call begins; "expected" names the content the model has been told of.  Calls are
\* numbered as they begin.
Begin(c) ==
  /\ At(c, "idle") /\ \A d \in 1..(c - 1) : ~At(d, "idle")
  /\ \E kind \in Kinds, path \in Paths :
       /\ path = "new" => kind = "write"
       /\ Goes(c, [Fresh EXCEPT !.pc = "resolve", !.kind = kind, !.path = path,
                     !.told = IF kind = "expected" THEN ft.world.content[Place(ft.world, path)] ELSE @])

\* resolvePath, resolveReadableFile: scope is checked on the path that is named
\* and on what it resolves to.
InScope(world, path) == Place(world, path) \in Inside

Resolve(c) ==
  LET call == ft.calls[c]
      found == [call EXCEPT !.fixed = Place(ft.world, call.path)]
  IN /\ At(c, "resolve")
     /\ IF ~InScope(ft.world, call.path) THEN Refuse(c)
        ELSE IF call.kind # "edit" THEN Goes(c, [call EXCEPT !.pc = "parent"])
        ELSE IF ~Exists(ft.world, found.fixed) THEN Refuse(c)
        ELSE Goes(c, [found EXCEPT !.pc = "read"])

\* ensureWritableParent: what is there is checked as it resolves, what is missing
\* is made, one directory at a time.
ensureWritableParent(c) ==
  LET call == ft.calls[c]
  IN /\ At(c, "parent")
     /\ CASE Parent(ft.world, call.path) = "swapped" -> Refuse(c)
          [] Parent(ft.world, call.path) = "missing" -> Goes(c, [call EXCEPT !.pc = "mkdir"])
          [] Parent(ft.world, call.path) = "dir"     -> Goes(c, [call EXCEPT !.pc = "target"])

\* A directory another call made meanwhile will do; a link will not.
MakeDirectory(c) ==
  /\ At(c, "mkdir")
  /\ IF ft.world.dir = "swapped" THEN Refuse(c)
     ELSE ft' = [ft EXCEPT !.world.dir = "dir", !.calls[c].pc = "target"]

\* A mutant: what was checked before is trusted.
resolveWriteTargetOnce(c) ==
  LET place == Place(ft.world, ft.calls[c].path)
  IN /\ At(c, "target")
     /\ Goes(c, [ft.calls[c] EXCEPT !.pc = "prepare", !.fixed = place, !.base = ft.world.content[place]])

\* resolveWriteTarget, once the parent is there: what it leads to is checked
\* again, a link is followed to a file that is there, and a file that exists is read.
resolveWriteTarget(c) ==
  LET call == ft.calls[c]
      place == Place(ft.world, call.path)
      there == Exists(ft.world, place)
      read == [call EXCEPT !.fixed = place, !.base = ft.world.content[place]]
  IN /\ At(c, "target")
     /\ IF \/ place \notin Inside
           \/ call.path = "link" /\ ~there
           \/ call.kind = "expected" /\ (~there \/ read.base # call.told)
          THEN Refuse(c)
          ELSE Goes(c, [read EXCEPT !.pc = "prepare"])

\* edit reads the file and refuses unless the text occurs once
ReadOld(c) ==
  LET call == ft.calls[c]
  IN /\ At(c, "read")
     /\ IF ~Exists(ft.world, call.fixed) THEN Refuse(c)
        ELSE \/ Refuse(c)
             \/ Goes(c, [call EXCEPT !.pc = "prepare", !.base = ft.world.content[call.fixed]])

\* where a path that was resolved leads now: its directory may have been swapped
Leads(world, place) == IF place = "n" /\ world.dir = "swapped" THEN "outer" ELSE place

\* atomicReplace: a temporary file beside the target
CreateTemp(c) ==
  LET call == ft.calls[c]
  IN /\ At(c, "prepare")
     /\ Goes(c, [call EXCEPT !.pc = "verify", !.held = TRUE,
                             !.landed = Leads(ft.world, call.fixed)])

\* A mutant: nobody looks again.
VerifyNothing(c) == At(c, "verify") /\ Goes(c, [ft.calls[c] EXCEPT !.pc = "rename"])

\* the file must still hold what the new content was made from, or still be missing
Verify(c) ==
  LET call == ft.calls[c]
  IN /\ At(c, "verify")
     /\ IF ft.world.content[Leads(ft.world, call.fixed)] = call.base
          THEN Goes(c, [call EXCEPT !.pc = "rename"])
          ELSE Refuse(c)

Updated(c, call) == IF call.kind = "edit" THEN call.base \cup {c} ELSE {c}

\* Another writer's change to the place of a call that has verified it.
Raced(calls, c, place) ==
  [d \in Calling |-> IF d # c /\ calls[d].pc = "rename" /\ calls[d].landed = place
                       THEN [calls[d] EXCEPT !.raced = TRUE] ELSE calls[d]]

\* The rename fails when the temporary file is no longer beside the target; the
\* call fails, its file replaced, when the directory cannot be synced.
Rename(c) ==
  LET call == ft.calls[c]
      place == Leads(ft.world, call.fixed)
      done == [call EXCEPT !.replaced = ft.world.content[place], !.held = FALSE]
  IN /\ At(c, "rename")
     /\ IF place # call.landed THEN Refuse(c)
        ELSE \E synced \in {TRUE} \cup (IF ft.failures + ft.meddles < MaxTroubles THEN {FALSE} ELSE {}) :
               ft' = [ft EXCEPT
                        !.world.content[place] = Updated(c, call),
                        !.failures = IF synced THEN @ ELSE @ + 1,
                        !.calls = [Raced(ft.calls, c, place) EXCEPT
                                     ![c] = Ended(done, IF synced THEN "ok" ELSE "unsynced")]]

\* The operating system refuses a step, or the run is cancelled before the first
\* change.
Fail(c) ==
  /\ ft.failures + ft.meddles < MaxTroubles
  /\ ft.calls[c].pc \in {"parent", "mkdir", "target", "read", "prepare", "verify", "rename"}
  /\ ft' = [ft EXCEPT !.failures = @ + 1, !.calls[c] = Ended(@, "error")]

-----------------------------------------------------------------------------
\* The user's programs: they save a file, remove it, repoint the link, and make or
\* swap the directory.
Meddled(world, calls) ==
  ft' = [ft EXCEPT !.world = world, !.calls = calls, !.meddles = @ + 1]

Saves(place, content) ==
  /\ content # ft.world.content[place]
  /\ Meddled([ft.world EXCEPT !.content[place] = content], Raced(ft.calls, 0, place))

Meddle ==
  /\ ft.failures + ft.meddles < MaxTroubles
  /\ \/ Saves("f", IF Exists(ft.world, "f") THEN ft.world.content["f"] \cup {User} ELSE {User})
     \/ Saves("f", Absent)
     \/ ft.world.dir = "dir" /\ Saves("n", {User})
     \/ \E target \in {"f", "x"} \ {ft.world.target} :
          Meddled([ft.world EXCEPT !.target = target], ft.calls)
     \/ \E dir \in {"dir", "swapped"} \ {ft.world.dir} :
          Meddled([ft.world EXCEPT !.dir = dir],
                  [c \in Calling |->
                     IF ft.calls[c].path = "new" /\ ft.calls[c].pc \in {"prepare", "verify", "rename"}
                       THEN [ft.calls[c] EXCEPT !.swapped = TRUE] ELSE ft.calls[c]])

Next ==
  \/ \E c \in Calling :
       \/ Begin(c) \/ Resolve(c) \/ ensureWritableParent(c) \/ MakeDirectory(c)
       \/ resolveWriteTarget(c) \/ ReadOld(c) \/ CreateTemp(c) \/ Verify(c) \/ Rename(c)
       \/ Fail(c)
  \/ Meddle

-----------------------------------------------------------------------------
ToolsTypeOK ==
  /\ ft.world.dir \in {"missing", "dir", "swapped"}
  /\ \A c \in Calling : ft.calls[c].result \in {"none", "ok", "error", "unsynced"}

Wrote(call) == call.result \in {"ok", "unsynced"}

\* A call replaces the content its own was made from, and the one the model was
\* told of; what somebody wrote between the last look and the rename is lost.
ReplacesWhatItRead ==
  \A c \in Calling : LET call == ft.calls[c] IN
    Wrote(call) /\ ~call.raced =>
      /\ call.replaced = call.base
      /\ call.kind = "expected" => call.replaced = call.told
      /\ call.kind = "edit" => call.replaced # Absent

\* A change that was made stays until somebody who has read it replaces it: it is
\* in the file, or in what a later call or the user started from.
NoLostEdit ==
  \A c \in Calling : LET call == ft.calls[c] IN
    (Wrote(call) /\ ~call.swapped /\ ft.meddles = 0
       /\ \A d \in Calling : ~ft.calls[d].raced) =>
      \/ c \in ft.world.content[call.landed]
      \/ \E d \in Calling \ {c} : Wrote(ft.calls[d]) /\ ft.calls[d].kind # "edit"
                                   /\ c \in ft.calls[d].base

\* Nothing outside the workspace is written, unless a directory was swapped after
\* it had been checked.
StaysInside ==
  \A c \in Calling : Wrote(ft.calls[c]) /\ ft.calls[c].landed \in Outside => ft.calls[c].swapped

\* A call that has ended leaves no temporary file where its path leads.
NothingLeftBehind ==
  \A c \in Calling : At(c, "done") /\ ft.calls[c].held => ft.calls[c].swapped

\* A call that was refused has changed no file, and one that wrote has said so.
ChangeIsReported ==
  \A c \in Calling : c \in UNION {ft.world.content[p] : p \in Inside \cup Outside} \ Absent =>
    Wrote(ft.calls[c])

ToolsAreSound ==
  ReplacesWhatItRead /\ NoLostEdit /\ StaysInside /\ NothingLeftBehind /\ ChangeIsReported
=============================================================================
