-------------------------- MODULE FilesystemPolicy --------------------------
(***************************************************************************)
(* The paths the model's tools and processes may use, and how a running    *)
(* session changes them: the layers of config.json, of the command line    *)
(* and of the workspace (src/app/filesystem_paths.go), the policy built of *)
(* them (src/tools/filesystem_policy.go, added_directories.go,             *)
(* protected_paths.go), and the Landlock grants that enforce it on         *)
(* processes (src/tools/sandbox_linux.go).                                 *)
(*                                                                         *)
(* Paths are sequences of names under the root <<>>.  Somebody else may    *)
(* repoint the one symbolic link and remove or make a directory at any     *)
(* time.  What is left out: wording, home expansion, the probe that runs   *)
(* the boundary once before it is trusted, and the system directories a    *)
(* process may read.                                                       *)
(***************************************************************************)
EXTENDS Naturals, Sequences, FiniteSets

CONSTANTS MaxPathChanges,  \* changes a user asks for
          MaxMoves,        \* changes somebody makes to the file system
          MaxStarts        \* starts of the program after the first, in place of one of those

VARIABLE fs

workspace == <<"w">>
toolHome == <<"h">>
Link == <<"l">>
Movable == <<"o", "i">>
Solid == {<<>>, workspace, <<"w", "s">>, <<"o">>, toolHome}
Named == {workspace, <<"w", "s">>, <<"o">>, Movable, Link, <<"l", "i">>}
Targets == {<<"w">>, <<"w", "s">>, <<"o">>, Movable}

\* the file system: the directories that are there, and where the link points;
\* a link to itself is an ordinary directory, if it is there at all
Present(world) == Solid \cup world.dirs
Begins(root, path) == Len(root) <= Len(path) /\ SubSeq(path, 1, Len(root)) = root

\* canonicalpath.Resolve: the target of the deepest prefix that resolves
Resolve(world, path) ==
  IF Begins(Link, path) /\ world.link \in Present(world)
    THEN world.link \o Tail(path)
    ELSE path

Contains(world, root, path) == Begins(Resolve(world, root), Resolve(world, path))
IsDirectory(world, path) == Resolve(world, path) \in Present(world)
Covered(world, roots, path) == \E r \in roots : Contains(world, r, path)

\* A policy holds each tree once.
compactPolicyPaths(world, paths) ==
  {p \in paths : ~Covered(world, paths \ {p}, p)}

AddedPolicy(world, values) ==
  compactPolicyPaths(world, {Resolve(world, v) : v \in values}
                            \ {p \in Named \cup Targets : Contains(world, workspace, p)})
ProtectedPolicy(world, values) ==
  compactPolicyPaths(world, {Resolve(world, v) : v \in values})

\* NewAddedDirectoryPolicy refuses the whole list for one directory that is gone.
AllDirectories(world, values) == \A v \in values : IsDirectory(world, v)

ValidateLayout(world, scope, protected) ==
  /\ ~Covered(world, protected, workspace)
  /\ scope = "workspace" =>
       \A p \in protected : ~Contains(world, p, toolHome) /\ ~Contains(world, toolHome, p)

-----------------------------------------------------------------------------
\* What a policy allows, and what Landlock grants for it.

\* A mutant: a grant follows what its path has become.
readOnlyPathsFollowed(world, run) == run.granted

\* withReadOnlyPaths: a grant that has become a link is no longer one.
readOnlyPaths(world, run) == {p \in run.granted : Resolve(world, p) = p}

canWrite(world, run, path) ==
  \/ run.scope = "machine"
  \/ Begins(workspace, path)
  \/ Covered(world, run.additions, path)

Protects(world, run, path) == Covered(world, run.protection, path)

\* paths that are canonical: what may be asked about
Canonical(world) == {p \in Present(world) : Resolve(world, p) = p}

\* resolveExistingPath and checkWriteScope
ToolsWrite(world, run) == {p \in Canonical(world) : canWrite(world, run, p) /\ ~Protects(world, run, p)}
ToolsRead(world, run) ==
  {p \in Canonical(world) :
     /\ canWrite(world, run, p) \/ \E r \in readOnlyPaths(world, run) : Begins(r, p)
     /\ ~Protects(world, run, p)}

HoldsProtected(world, protected, path) == \E d \in protected : Contains(world, path, d)

\* A mutant: a directory is granted with the protected path it holds.
landlockPathsWhole(world, roots, protected) ==
  {p \in Canonical(world) : ~Covered(world, protected, p)
                             /\ \E r \in roots : Begins(Resolve(world, r), p)}

\* landlockPathsExcept: a directory that holds a protected path is not granted,
\* what it holds is, and links in it are passed over.
landlockPathsExcept(world, roots, protected) ==
  {p \in Canonical(world) :
     /\ ~Covered(world, protected, p)
     /\ ~HoldsProtected(world, protected, p)
     /\ \E r \in {Resolve(world, root) : root \in roots} :
          /\ Begins(r, p)
          /\ \A n \in Len(r)..(Len(p) - 1) : HoldsProtected(world, protected, SubSeq(p, 1, n))}

\* the machine scope grants all but what is protected
writeRoots(run) ==
  IF run.scope = "machine" THEN {<<>>} ELSE {workspace, toolHome} \cup run.additions
readRoots(world, run) ==
  IF run.scope = "machine" THEN {<<>>} ELSE readOnlyPaths(world, run)

NeedsBackend(run) == run.scope = "workspace" \/ run.protection # {}

Granted(world, roots, protected) ==
  LET grants == landlockPathsExcept(world, roots, protected)
  IN {p \in Canonical(world) : \E g \in grants : Begins(g, p)}

ProcessWrites(world, run) ==
  IF NeedsBackend(run) THEN Granted(world, writeRoots(run), run.protection) ELSE Canonical(world)
ProcessReads(world, run) ==
  ProcessWrites(world, run) \cup Granted(world, readRoots(world, run), run.protection)

-----------------------------------------------------------------------------
\* The layers and the changes of a session.

\* rememberedPaths: what no longer resolves is skipped, not an error
RememberedAdded(world, values) ==
  {Resolve(world, v) : v \in {p \in values : IsDirectory(world, p) /\ ~Contains(world, workspace, p)}}
RememberedProtected(world, values) ==
  {Resolve(world, v) : v \in {p \in values : ~Contains(world, p, workspace)}}

resolveFilesystemLayers(world, scope, flags, disk) ==
  LET invocationAdded == AddedPolicy(world, flags.added)
      invocationProtected == ProtectedPolicy(world, flags.protected)
      settingsProtected == ProtectedPolicy(world, flags.settings)
      workspaceAdded == RememberedAdded(world, disk.added)
      workspaceProtected == RememberedProtected(world, disk.protected)
  IN [on |-> TRUE, scope |-> scope,
      invocationAdded |-> invocationAdded,
      invocationProtected |-> invocationProtected,
      settingsProtected |-> settingsProtected,
      workspaceAdded |-> workspaceAdded,
      workspaceProtected |-> workspaceProtected,
      additions |-> AddedPolicy(world, invocationAdded \cup workspaceAdded),
      protection |-> ProtectedPolicy(world, settingsProtected \cup invocationProtected
                                            \cup workspaceProtected),
      granted |-> flags.granted]

Startable(world, run, flags) ==
  /\ AllDirectories(world, flags.added)
  /\ ValidateLayout(world, run.scope, run.protection)

\* A mutant: what config.json protects is taken for the session's own.
OriginOfFlags(path, invocation, settings) ==
  IF path \in invocation THEN "invocation" ELSE "remembered"

\* a path of a policy, and the layer it came from
OriginOf(path, invocation, settings) ==
  IF path \in settings THEN "settings"
  ELSE IF path \in invocation THEN "invocation"
  ELSE "remembered"

\* Mutants: what a new path covers stays on the list; an entry is looked up by
\* what it resolves to.
addPolicyPathBeside(world, paths, path) == paths \cup {path}
resolvePathAlways(world, path, entries) == Resolve(world, path)

addPolicyPath(world, paths, path) == {p \in paths : ~Contains(world, path, p)} \cup {path}

resolvePathRemoval(world, path, entries) ==
  IF path \in entries THEN path ELSE Resolve(world, path)

\* applyWorkspaceFilesystemPaths and applyFilesystemPolicy: the lists are
\* checked as a whole with the layers the session cannot change.
Applicable(world, run, added, protected) ==
  /\ AllDirectories(world, run.invocationAdded \cup added)
  /\ ValidateLayout(world, run.scope,
       ProtectedPolicy(world, run.settingsProtected \cup run.invocationProtected \cup protected))

\* A mutant: the session's list replaces those of the invocation and of config.json.
AppliedAlone(world, run, added, protected) ==
  [run EXCEPT !.workspaceAdded = added, !.workspaceProtected = protected,
              !.additions = AddedPolicy(world, added),
              !.protection = ProtectedPolicy(world, protected)]

Applied(world, run, added, protected) ==
  [run EXCEPT !.workspaceAdded = added,
              !.workspaceProtected = protected,
              !.additions = AddedPolicy(world, run.invocationAdded \cup added),
              !.protection = ProtectedPolicy(world, run.settingsProtected
                                 \cup run.invocationProtected \cup protected)]

\* A change that is refused, by the checks, a runtime or a child, changes nothing
\* and is no step; one that cannot be remembered is in force all the same.
Apply(added, protected) ==
  /\ Applicable(fs.world, fs.run, added, protected)
  /\ \E saved \in BOOLEAN :
       fs' = [fs EXCEPT
                !.run = Applied(fs.world, @, added, protected),
                !.disk = IF saved THEN [added |-> added, protected |-> protected] ELSE @,
                !.kept = saved, !.asked = @ + 1]

Unspent == fs.asked + fs.moves + fs.starts < MaxPathChanges + MaxMoves
MayAsk == fs.run.on /\ fs.asked < MaxPathChanges /\ Unspent

AddDirectory(path) ==
  LET directory == Resolve(fs.world, path)
  IN /\ MayAsk
     /\ IsDirectory(fs.world, path)
     /\ ~Contains(fs.world, workspace, directory)
     /\ ~Covered(fs.world, fs.run.additions, directory)
     /\ Apply(addPolicyPath(fs.world, fs.run.workspaceAdded, directory), fs.run.workspaceProtected)

RemoveAddedDirectory(path) ==
  LET removed == resolvePathRemoval(fs.world, path,
                   fs.run.workspaceAdded \cup fs.run.invocationAdded)
  IN /\ MayAsk
     /\ removed \in fs.run.workspaceAdded
     /\ Apply(fs.run.workspaceAdded \ {removed}, fs.run.workspaceProtected)

ProtectPath(path) ==
  LET resolved == Resolve(fs.world, path)
  IN /\ MayAsk
     /\ ~Contains(fs.world, resolved, workspace)
     /\ ~Covered(fs.world, fs.run.protection, resolved)
     /\ Apply(fs.run.workspaceAdded, addPolicyPath(fs.world, fs.run.workspaceProtected, resolved))

UnprotectPath(path) ==
  LET removed == resolvePathRemoval(fs.world, path, fs.run.workspaceProtected
                   \cup fs.run.invocationProtected \cup fs.run.settingsProtected)
  IN /\ MayAsk
     /\ removed \in fs.run.workspaceProtected
     /\ Apply(fs.run.workspaceAdded, fs.run.workspaceProtected \ {removed})

SwitchScope ==
  LET scope == IF fs.run.scope = "machine" THEN "workspace" ELSE "machine"
  IN /\ MayAsk
     /\ ValidateLayout(fs.world, scope, fs.run.protection)
     /\ fs' = [fs EXCEPT !.run.scope = scope, !.asked = @ + 1]

-----------------------------------------------------------------------------
\* Somebody repoints the link, or a directory goes or comes.
Move ==
  /\ fs.moves < MaxMoves /\ Unspent
  /\ \E world \in {[fs.world EXCEPT !.link = l] : l \in Targets \cup {Link}}
                  \cup {[fs.world EXCEPT !.dirs = (@ \cup {d}) \ (@ \cap {d})] : d \in {Movable, Link}} :
       /\ world # fs.world
       /\ fs' = [fs EXCEPT !.world = world, !.moves = @ + 1, !.moved = TRUE]

\* what config.json, the command line and a submitted input may name
FlagsOf(added, protected, settings, granted) ==
  [added |-> added, protected |-> protected, settings |-> settings, granted |-> granted]
NoFlags == FlagsOf({}, {}, {}, {})
Flags == {NoFlags, FlagsOf({<<"o">>}, {}, {Link}, {}),
          FlagsOf({Link}, {Movable}, {}, {}), FlagsOf({}, {}, {<<"w", "s">>}, {Link})}

\* The program ends and is started again, perhaps without flags; it does not
\* start when what it was told just now makes no sense.
Start(flags, scope) ==
  LET run == resolveFilesystemLayers(fs.world, scope, flags, fs.disk)
  IN /\ fs.starts < MaxStarts /\ Unspent
     /\ fs.asked > 0
     /\ fs' = [fs EXCEPT
                 !.run = IF Startable(fs.world, run, flags) THEN run ELSE [@ EXCEPT !.on = FALSE],
                 !.kept = TRUE, !.moved = FALSE, !.flags = flags, !.starts = @ + 1]

\* what earlier sessions of the workspace remembered
Disks == {[added |-> {}, protected |-> {}], [added |-> {Link, <<"o">>}, protected |-> {}]}

Init ==
  \E link \in {Link, <<"o">>}, dirs \in {{}, {Movable, Link}}, flags \in Flags, disk \in Disks :
    LET world == [link |-> link, dirs |-> dirs]
        run == resolveFilesystemLayers(world, "workspace", flags, disk)
    IN /\ Startable(world, run, flags)
       /\ fs = [world |-> world, run |-> run, disk |-> disk, flags |-> flags,
                kept |-> TRUE, moved |-> FALSE, asked |-> 0, moves |-> 0, starts |-> 0]

Change ==
  \/ \E path \in Named : AddDirectory(path) \/ RemoveAddedDirectory(path)
                         \/ ProtectPath(path) \/ UnprotectPath(path)
  \/ SwitchScope

Next ==
  \/ Change
  \/ Move
  \/ \E flags \in {fs.flags, NoFlags}, scope \in {"workspace", "machine"} : Start(flags, scope)

-----------------------------------------------------------------------------
FilesTypeOK ==
  /\ fs.run.workspaceAdded \subseteq Named \cup Targets
  /\ fs.run.protection \subseteq Named \cup Targets \cup {Append(t, "i") : t \in Targets}
  /\ fs.run.scope \in {"workspace", "machine"}

\* A process reaches nothing that is protected, and nothing the built-in tools
\* would not touch, its own home aside; what they may use it may use too, unless a
\* protected path is in it.
ProcessesAreConfined ==
  LET holding == {p \in Canonical(fs.world) : HoldsProtected(fs.world, fs.run.protection, p)}
      own == {p \in Canonical(fs.world) : Begins(toolHome, p)}
      Confined(process, tools) ==
        /\ \A p \in process : ~Protects(fs.world, fs.run, p)
        /\ process \subseteq tools \cup own
        /\ tools \ holding \subseteq process
  IN /\ Confined(ProcessWrites(fs.world, fs.run), ToolsWrite(fs.world, fs.run))
     /\ Confined(ProcessReads(fs.world, fs.run), ToolsRead(fs.world, fs.run))

\* Whatever a session does, config.json and the command line protect what they did.
ProtectionStays ==
  \A p \in fs.run.settingsProtected \cup fs.run.invocationProtected :
    Protects(fs.world, fs.run, p)

\* The paths a user is shown as remembered are entries of the list the session
\* keeps; it keeps no others, but what another layer covers, unless paths moved.
ShownAsRemembered(effective, invocation, settings) ==
  {p \in effective : OriginOf(p, invocation, settings) = "remembered"}
Shows(effective, kept, invocation, settings) ==
  LET shown == ShownAsRemembered(effective, invocation, settings)
  IN /\ ~fs.moved => shown \subseteq kept
     /\ fs.moves = 0 => {p \in kept : ~Covered(fs.world, invocation \cup settings, p)} \subseteq shown
ListIsShown ==
  /\ Shows(fs.run.additions, fs.run.workspaceAdded, fs.run.invocationAdded, {})
  /\ Shows(fs.run.protection, fs.run.workspaceProtected,
           fs.run.invocationProtected, fs.run.settingsProtected)

\* The next start with the same flags builds the policy that is in force.
StartRestores ==
  (fs.kept /\ ~fs.moved /\ fs.run.on) =>
    fs.run = resolveFilesystemLayers(fs.world, fs.run.scope, fs.flags, fs.disk)

PolicyIsSound ==
  fs.run.on => ProcessesAreConfined /\ ProtectionStays /\ ListIsShown /\ StartRestores

\* A removal takes the entry it names, and only it, even when that entry resolves
\* to another path by now; and what was shown as the session's own is gone.
RemovesWhatIsNamed ==
  LET Removes(path, before, after) ==
        before \ after = {IF path \in before THEN path ELSE Resolve(fs.world, path)}
  IN \A path \in Named \cup Targets :
       /\ RemoveAddedDirectory(path) =>
            /\ Removes(path, fs.run.workspaceAdded, fs'.run.workspaceAdded)
            /\ OriginOf(path, fs.run.invocationAdded, {}) = "remembered" /\ ~fs.moved =>
                 path \notin fs'.run.additions
       /\ UnprotectPath(path) =>
            Removes(path, fs.run.workspaceProtected, fs'.run.workspaceProtected)

ChangesAsNamed == [][RemovesWhatIsNamed]_fs
=============================================================================
