----------------------------- MODULE Preferences -----------------------------
(***************************************************************************)
(* The interactive state of a home (src/internal/state/interactive.go):    *)
(* one document for all workspaces, changed by processes under a lock that *)
(* is waited for a second, and read without it.                            *)
(***************************************************************************)
EXTENDS Naturals, Sequences, SequencesExt, FiniteSets

CONSTANTS
  Models,      \* how many models can be selected
  MaxHistory,  \* maxModelHistory
  MaxSaves     \* how many changes reach the document

VARIABLE prefs

Workspace == {"one", "two"}  \* each process works in its own
Model == 1..Models
NoModel == 0
Effort == {"default", "high"}

\* An entry of the history; the key of a model is its name in lower case.
Entry == [model : {NoModel} \cup Model, effort : Effort]

\* What a user may have edited into the document: an empty model, duplicates,
\* a theme nobody knows.
Edited == {<<>>, <<[model |-> 1, effort |-> "high"], [model |-> NoModel, effort |-> "high"],
                   [model |-> 1, effort |-> "default"], [model |-> 2, effort |-> "default"]>>}

PrefsTypeOK ==
  /\ prefs.doc.theme \in {"none", "dark", "odd"}
  /\ prefs.doc.paths \in [Workspace -> BOOLEAN]
  /\ prefs.doc.selected \in [Workspace -> {NoModel} \cup Model]
  /\ \A i \in DOMAIN prefs.doc.history : prefs.doc.history[i] \in Entry
  /\ prefs.lock \in {"nobody"} \cup Workspace /\ prefs.saves \in 0..MaxSaves
  /\ \A w \in Workspace : prefs.proc[w].at \in {"idle", "wait", "locked", "save"}

NoGoal == [field |-> "none", model |-> NoModel, effort |-> "default"]
Blank == [theme |-> "none", paths |-> [w \in Workspace |-> FALSE],
          selected |-> [w \in Workspace |-> NoModel], history |-> <<>>]
Idle == [at |-> "idle", goal |-> NoGoal, doc |-> Blank]

Init ==
  \E theme \in {"none", "odd"}, history \in Edited :
    prefs = [doc |-> [Blank EXCEPT !.theme = theme, !.history = history], lock |-> "nobody",
             saves |-> 0, recent |-> NoModel, proc |-> [w \in Workspace |-> Idle]]

Me(w) == prefs.proc[w]

\* normalizeModelURI leaves nothing of an empty model; keys are compared.
Fresh(h, i) == h[i].model # NoModel /\ \A j \in 1..i - 1 : h[j].model # h[i].model
Distinct(h) ==
  LET kept == SelectSeq([i \in DOMAIN h |-> [entry |-> h[i], fresh |-> Fresh(h, i)]], LAMBDA e : e.fresh)
  IN [i \in DOMAIN kept |-> kept[i].entry]

FirstOf(s, n) == SubSeq(s, 1, IF Len(s) < n THEN Len(s) ELSE n)

\* validModelHistory, what a reader is shown.
ValidHistory(h) == FirstOf(Distinct(h), MaxHistory)

\* Mutant: the selection is put in front of what is there.
PushPlain(h, entry) == FirstOf(<<entry>> \o h, MaxHistory)

\* pushModelHistory
Push(h, entry) == FirstOf(Distinct(<<entry>> \o h), MaxHistory)

\* What a change makes of a document it is called with.
Changed(w, doc, goal) ==
  CASE goal.field = "theme" -> [doc EXCEPT !.theme = "dark"]
    [] goal.field = "paths" -> [doc EXCEPT !.paths[w] = TRUE]
    [] goal.field = "model" ->
         [doc EXCEPT !.selected[w] = goal.model,
                     !.history = Push(@, [model |-> goal.model, effort |-> goal.effort])]

(* SetThemeSelection, SetFilesystemPaths, SetModelSelection. *)
Begin(w, goal) ==
  /\ Me(w).at = "idle" /\ prefs.saves < MaxSaves
  /\ prefs' = [prefs EXCEPT !.proc[w].at = "wait", !.proc[w].goal = goal]

Goals ==
  {[NoGoal EXCEPT !.field = f] : f \in {"theme", "paths"}}
    \cup [field : {"model"}, model : Model, effort : {"high"}]

\* Mutant: the lock is not waited for.
LockFreeAlways == TRUE

LockFree == prefs.lock = "nobody"

(* acquireInteractiveLock, and the time it waits. *)
Acquire(w) ==
  /\ Me(w).at = "wait" /\ LockFree
  /\ prefs' = [prefs EXCEPT !.lock = w, !.proc[w].at = "locked"]
TimesOut(w) ==
  /\ Me(w).at = "wait" /\ ~LockFree
  /\ prefs' = [prefs EXCEPT !.proc[w] = Idle]

Release(p, w) == [p EXCEPT !.lock = "nobody", !.proc[w] = Idle]

(* mutate: the document is read, and written unless nothing changed. *)
Change(w) ==
  /\ Me(w).at = "locked"
  /\ LET doc == Changed(w, prefs.doc, Me(w).goal)
     IN prefs' = IF doc = prefs.doc THEN Release(prefs, w)
                 ELSE [prefs EXCEPT !.proc[w].at = "save", !.proc[w].doc = doc]

(* saveJSONAtomic publishes the whole document, or fails, before or after. *)
Save(w) ==
  /\ Me(w).at = "save" /\ prefs.saves < MaxSaves
  /\ prefs' = Release([prefs EXCEPT !.doc = Me(w).doc, !.saves = @ + 1,
                         !.recent = IF Me(w).goal.field = "model" THEN Me(w).goal.model ELSE @], w)
SaveFails(w) == Me(w).at = "save" /\ prefs' = Release(prefs, w)

Next ==
  \E w \in Workspace :
    \/ \E goal \in Goals : Begin(w, goal)
    \/ Acquire(w) \/ TimesOut(w) \/ Change(w) \/ Save(w) \/ SaveFails(w)

-----------------------------------------------------------------------------
(* The model selected last, in any workspace, is the one a new workspace     *)
(* starts from, and the history has it once (pushModelHistory).              *)
LastSelectionLeads ==
  prefs.recent # NoModel =>
    /\ prefs.doc.history # <<>> /\ Head(prefs.doc.history).model = prefs.recent
    /\ ValidHistory(prefs.doc.history) = prefs.doc.history

(* A change touches its own field, of its own workspace, and nothing another *)
(* process or a user with an editor has put there (mutate).                  *)
ChangesOwnField ==
  \A w \in Workspace :
    Me(w).at = "save" /\ prefs'.doc # prefs.doc /\ prefs'.proc[w].at = "idle" =>
      prefs'.doc = Changed(w, prefs.doc, Me(w).goal)

(* A selection keeps the order of the others, as a reader is shown them.     *)
PushKeepsOrder ==
  \A m \in Model :
    LET entry == [model |-> m, effort |-> "high"]
        others == SelectSeq(Distinct(prefs.doc.history), LAMBDA e : e.model # m)
    IN ValidHistory(Push(prefs.doc.history, entry)) = FirstOf(<<entry>> \o others, MaxHistory)

PreferencesAreSound == LastSelectionLeads /\ PushKeepsOrder
=============================================================================
