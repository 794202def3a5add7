-------------------------------- MODULE SignIn --------------------------------
(***************************************************************************)
(* Signing in and choosing a model at the terminal: the line that takes a  *)
(* key or a pasted address, the pickers on the way, browser logins with    *)
(* their callbacks, the update of a credential, and the selection of a     *)
(* model that may have to wait for all of them (screen_auth.go,            *)
(* screen_model.go, codex_login.go, internal/codexauth).                   *)
(***************************************************************************)
EXTENDS Naturals, FiniteSets

CONSTANTS
  MaxAsked,   \* what the user asks for
  MaxSignIns  \* logins that are begun, by key or by browser

VARIABLE si

Provider == {"codex", "other"}
Login == 1..MaxSignIns
Before == MaxSignIns + 1  \* a credential from before
Route == {"codex/known", "other/known", "other/new"}
Of(route) == IF route = "codex/known" THEN "codex" ELSE "other"
Known(p) == IF p = "codex" THEN "codex/known" ELSE "other/known"
Declared(route) == route # "other/new"

\* modelSelection: a route, and whether its protocol and its window are given.
Selected(route, api) == [route |-> route, api |-> api, window |-> FALSE]
Nothing == Selected("none", FALSE)
Selection == [route: Route \cup {"none"}, api: BOOLEAN, window: BOOLEAN]

NewLogin == [flow |-> "open", ctx |-> "open", box |-> 0, got |-> 0, wait |-> "none", quit |-> FALSE,
             saved |-> FALSE, told |-> "none"]
NoUpdate == [kind |-> "none", p |-> "other", by |-> 0, sel |-> Nothing, at |-> "begin", cancelled |-> FALSE,
             err |-> "none"]

SignInTypeOK ==
  /\ si.picker \in {"none", "model", "api", "login", "scope"} /\ si.pend \in Selection
  /\ si.login \in Provider \cup {"none"} /\ si.sel \in Selection /\ si.window \in Selection
  /\ si.browser \in 0..MaxSignIns /\ si.port \in 0..MaxSignIns /\ si.begun \in 0..MaxSignIns
  /\ si.update.kind \in {"none", "login", "logout"} /\ si.update.at \in {"begin", "lock", "write", "done"}
  /\ si.update.err \in {"none", "cancelled", "failed"} /\ si.update.sel \in Selection
  /\ si.store \in [Provider -> 0..Before] /\ si.model \in Route /\ si.want \in Route \cup {"none"}
  /\ \A a \in Login : /\ si.att[a].wait \in {"none", "waiting", "exchanging", "done", "failed", "heard"}
                      /\ si.att[a].told \in {"none", "in", "cancelled", "failed"}

\* openStartupLoginPicker, when the model of the session has no credential.
Init ==
  \E key \in {0, Before} :
    si = [picker |-> IF key = 0 THEN "login" ELSE "none", startup |-> key = 0, pend |-> Nothing,
          login |-> "none", sel |-> Nothing, back |-> FALSE, window |-> Nothing, browser |-> 0,
          update |-> NoUpdate, att |-> [a \in Login |-> NewLogin], begun |-> 0, port |-> 0,
          store |-> [p \in Provider |-> IF p = "other" THEN key ELSE 0],
          model |-> "other/known", child |-> "other/known", pref |-> "other/known", unsaved |-> FALSE,
          want |-> "none", keys |-> 0]

-----------------------------------------------------------------------------
(* The selection of a model. Each operator is the set of states it may lead  *)
(* to from s.                                                                *)
Dropped(s) == [s EXCEPT !.want = "none"]
Kept(s, route) == {[s EXCEPT !.pref = route, !.unsaved = FALSE], [s EXCEPT !.unsaved = TRUE]}

\* Mutant: the preference is written first, and the runtime refuses.
AppliedPreferenceFirst(s, route) ==
  {Dropped([s EXCEPT !.pref = route])} \cup Kept([s EXCEPT !.model = route, !.child = route], route)

\* What SwitchModel changes: the runtime, which may refuse, the children, the preference.
Applied(s, route) ==
  {Dropped(s)} \cup Kept([s EXCEPT !.model = route, !.child = route], route)

\* screenModel.switchModel: a route that is not described asks for what is missing.
Switch(s, sel) ==
  LET asked == [s EXCEPT !.window = sel]
      applied == IF sel.route = s.model THEN Kept(s, sel.route)
                 ELSE IF s.store[Of(sel.route)] = 0 THEN {Dropped(s)} ELSE Applied(s, sel.route)
  IN IF Declared(sel.route) \/ (sel.api /\ sel.window) THEN applied
     ELSE IF ~sel.api THEN {[s EXCEPT !.picker = "api", !.pend = sel]}
     ELSE {asked} \cup applied

\* startBrowserLogin, on the port of the callback if nobody has it.
BeginBrowser(s) ==
  LET a == s.begun + 1 IN
  [s EXCEPT !.begun = a, !.browser = a, !.att[a].wait = "waiting", !.port = IF @ = 0 THEN a ELSE @]

\* startProviderLogin
StartLogin(s, p, sel, back) ==
  LET pending == IF sel.route = s.model THEN Nothing ELSE sel
      line == [s EXCEPT !.login = p, !.sel = pending, !.back = back]
  IN IF pending # Nothing /\ s.store[p] # 0 THEN Switch(s, pending)
     ELSE {IF p = "codex" THEN BeginBrowser(line) ELSE [line EXCEPT !.begun = @ + 1]}

\* selectModel
Select(s, sel, back) ==
  LET p == Of(sel.route) IN
  IF sel.route = s.model /\ s.store[p] # 0 THEN Switch(s, sel) ELSE StartLogin(s, p, sel, back)

\* Mutant: a login that is left goes on in its browser.
LeaveLoginOpen(s) == [s EXCEPT !.browser = 0, !.login = "none", !.sel = Nothing, !.back = FALSE]

\* cancelLogin
LeaveLogin(s) ==
  LET line == [s EXCEPT !.browser = 0, !.login = "none", !.sel = Nothing, !.back = FALSE]
  IN IF s.browser = 0 THEN line
     ELSE [line EXCEPT !.att[s.browser].flow = "closed", !.att[s.browser].ctx = "closed"]

-----------------------------------------------------------------------------
(* Keys. A picker takes them first, then a login, then an update.            *)
Key(states) == si.keys < MaxAsked /\ \E s \in states : si' = [s EXCEPT !.keys = @ + 1]
Line == si.picker = "none" /\ si.login = "none" /\ si.update.kind = "none"
Commanding == Line /\ si.window = Nothing
Room == si.begun < MaxSignIns
Wanting(s, route) == [s EXCEPT !.want = route]
Closed == [si EXCEPT !.picker = "none", !.pend = Nothing, !.startup = FALSE]

OpenPicker == Commanding /\ \E k \in {"model", "login"} : Key({[si EXCEPT !.picker = k]})
TypeModel == Commanding /\ Room /\ \E r \in Route, api \in BOOLEAN :
  Key(Select(Wanting(si, r), Selected(r, api), FALSE))
TypeLogin == Commanding /\ Room /\ \E p \in Provider : Key(StartLogin(Dropped(si), p, Nothing, FALSE))
TypeLogout == Commanding /\ \E p \in Provider :
  Key({[si EXCEPT !.update = [NoUpdate EXCEPT !.kind = "logout", !.p = p]]})

\* Mutant: the selection that waited for its window is kept.
TypeWindowAgain ==
  /\ Line /\ Room /\ si.window # Nothing
  /\ Key(Select(si, [si.window EXCEPT !.window = TRUE], FALSE))

TypeWindow ==
  /\ Line /\ Room /\ si.window # Nothing
  /\ Key(Select([si EXCEPT !.window = Nothing], [si.window EXCEPT !.window = TRUE], FALSE))
CancelWindow == Line /\ si.window # Nothing /\ Key({Dropped([si EXCEPT !.window = Nothing])})

ChooseModel == si.picker = "model" /\ Room /\ \E r \in Route :
  Key(Select(Wanting(Closed, r), Selected(r, FALSE), TRUE))
ChooseApi == si.picker = "api" /\ Key(Switch(Closed, [si.pend EXCEPT !.api = TRUE]))

\* At startup a provider comes with a model of its own.
ChooseLogin == si.picker = "login" /\ Room /\ \E p \in Provider :
  LET route == IF Of(si.model) = p THEN si.model ELSE Known(p)
      s == IF si.startup THEN Wanting(Closed, route) ELSE Dropped(Closed)
  IN Key(StartLogin(s, p, IF si.startup THEN Selected(route, FALSE) ELSE Nothing, FALSE))

ClosePicker == si.picker # "none" /\ Key({IF si.picker = "api" THEN Dropped(Closed) ELSE Closed})

\* A change of the scope has ended, and the menu it was asked from comes back.
MenuShown ==
  LET s == [Closed EXCEPT !.picker = "scope"] IN Key({IF si.picker = "api" THEN Dropped(s) ELSE s})

AtLogin == si.picker = "none" /\ si.login # "none"
Number == IF si.browser = 0 THEN si.begun ELSE si.browser
Quit(s) == [s EXCEPT !.att[Number].quit = TRUE, !.att[Number].told = "cancelled"]

\* Escape goes back to the picker; Ctrl+C and an empty line do not (handleLoginKey).
LeaveLine == AtLogin /\ LET s == Dropped(LeaveLogin(Quit(si))) IN
  Key({s} \cup IF si.back THEN {[s EXCEPT !.picker = "model"]} ELSE {})

\* startCredentialUpdate, of a key or of a browser login that has its tokens.
Update(s, p, by) ==
  [s EXCEPT !.login = "none",
            !.update = [NoUpdate EXCEPT !.kind = "login", !.p = p, !.by = by, !.sel = s.sel]]
SubmitKey == AtLogin /\ si.browser = 0 /\ Key({Update(si, si.login, si.begun)})

CancelUpdate ==
  /\ si.picker = "none" /\ si.login = "none" /\ si.update.kind # "none" /\ ~si.update.cancelled
  /\ LET s == [si EXCEPT !.update.cancelled = TRUE] IN
     Key({IF si.browser = 0 THEN s
          ELSE [s EXCEPT !.att[si.browser] = [@ EXCEPT !.quit = TRUE, !.ctx = "closed", !.flow = "closed"]]})

-----------------------------------------------------------------------------
(* A browser login: the address of a page is pasted or called back.          *)
\* Mutant: a page of another login is taken.
SubmitAny(a, page, declined) ==
  /\ si.att[a].flow = "open" /\ si.att[a].box = 0
  /\ si' = [si EXCEPT !.att[a].box = IF declined THEN Before ELSE page]

\* Its state tells whose page it is; one that is taken is the only one (submit).
Submit(a, page, declined) ==
  /\ si.att[a].flow = "open" /\ si.att[a].box = 0 /\ page = a
  /\ si' = [si EXCEPT !.att[a].box = IF declined THEN Before ELSE page]

Browser(page) == page \in 1..si.begun /\ si.att[page].wait # "none"
Paste == AtLogin /\ si.browser # 0 /\ \E page \in Login, declined \in BOOLEAN :
  Browser(page) /\ Submit(si.browser, page, declined)
Callback == si.port # 0 /\ \E page \in Login, declined \in BOOLEAN :
  Browser(page) /\ Submit(si.port, page, declined)

Waits(a, at) == si.att[a].wait = at
Ends(a, how) == si' = [si EXCEPT !.att[a].wait = how, !.att[a].flow = "closed"]
WaitTakes(a) ==
  /\ Waits(a, "waiting") /\ si.att[a].box # 0
  /\ IF si.att[a].box = Before THEN Ends(a, "failed")
     ELSE si' = [si EXCEPT !.att[a].wait = "exchanging", !.att[a].got = si.att[a].box]
WaitStops(a) == Waits(a, "waiting") /\ si.att[a].flow = "closed" /\ Ends(a, "failed")
Exchange(a) == Waits(a, "exchanging") /\ \E how \in {"done", "failed"} : Ends(a, how)
TimesOut(a) == Waits(a, "waiting") /\ si.att[a].flow = "open" /\ si' = [si EXCEPT !.att[a].flow = "closed"]
PortFreed == si.port # 0 /\ si.att[si.port].flow = "closed" /\ si' = [si EXCEPT !.port = 0]

\* Mutant: whichever login is on the line has ended.
FinishCurrentBrowser(a) ==
  /\ si.att[a].wait \in {"done", "failed"}
  /\ LET s == [si EXCEPT !.att[a].wait = "heard"] IN
     si' = IF si.browser = 0 THEN s
           ELSE IF Waits(a, "done") THEN Update(s, si.login, a)
           ELSE Dropped(LeaveLogin([s EXCEPT !.att[a].told = "failed"]))

\* finishBrowserLogin: only the login that is on the line.
FinishBrowser(a) ==
  /\ si.att[a].wait \in {"done", "failed"}
  /\ LET s == [si EXCEPT !.att[a].wait = "heard"] IN
     si' = IF a # si.browser THEN s
           ELSE IF Waits(a, "done") THEN Update(s, si.login, a)
           ELSE Dropped(LeaveLogin([s EXCEPT !.att[a].told = "failed"]))

Flow == \E a \in Login :
  WaitTakes(a) \/ WaitStops(a) \/ Exchange(a) \/ TimesOut(a) \/ FinishBrowser(a)

-----------------------------------------------------------------------------
(* The update of a credential, in the background.                            *)
u == si.update
Updating(at) == u.kind # "none" /\ u.at = at
UpdateEnds(s, err) == si' = [s EXCEPT !.update.at = "done", !.update.err = err]
Off == u.cancelled \/ (si.browser # 0 /\ si.att[si.browser].ctx = "closed")

Complete == Updating("begin") /\ IF Off THEN UpdateEnds(si, "cancelled") ELSE si' = [si EXCEPT !.update.at = "lock"]

\* The lock may never come; the callback asks the context once more.
Locked ==
  /\ Updating("lock")
  /\ \/ ~Off /\ si' = [si EXCEPT !.update.at = "write"]
     \/ Off /\ UpdateEnds(si, "cancelled")
     \/ UpdateEnds(si, "failed")

\* Mutant: the context is asked when the file has been replaced.
WriteThenAsk ==
  /\ Updating("write")
  /\ LET put == [si EXCEPT !.store[u.p] = u.by]
         done == IF u.by = 0 THEN put ELSE [put EXCEPT !.att[u.by].saved = TRUE]
     IN UpdateEnds(done, IF Off THEN "cancelled" ELSE "none")

\* A file that was replaced may still fail to be synced.
Write ==
  /\ Updating("write")
  /\ LET put == [si EXCEPT !.store[u.p] = u.by]
         done == IF u.by = 0 THEN put ELSE [put EXCEPT !.att[u.by].saved = TRUE]
     IN UpdateEnds(done, "none") \/ UpdateEnds(done, "failed") \/ UpdateEnds(si, "failed")

Told(s, a, what) == IF a = 0 THEN s ELSE [s EXCEPT !.att[a].told = what]

\* Mutant: an error is told, and the selection goes on.
FinishUpdateAnyway ==
  /\ Updating("done")
  /\ LET s == LeaveLogin([si EXCEPT !.update = NoUpdate])
         t == IF u.err = "none" THEN Told(s, u.by, "in") ELSE Dropped(Told(s, u.by, u.err))
     IN si' \in (IF u.sel = Nothing THEN {t} ELSE Switch(t, u.sel))

\* finishCredentialUpdate
FinishUpdate ==
  /\ Updating("done")
  /\ LET s == LeaveLogin([si EXCEPT !.update = NoUpdate]) IN
     IF u.err = "cancelled"
     THEN LET t == Dropped(Told(s, u.by, "cancelled"))
          IN si' = IF si.back THEN [t EXCEPT !.picker = "model"] ELSE t
     ELSE IF u.err = "failed" THEN si' = Dropped(Told(s, u.by, "failed"))
     ELSE si' \in (IF u.sel = Nothing THEN {Told(s, u.by, "in")} ELSE Switch(Told(s, u.by, "in"), u.sel))

Keys ==
  \/ OpenPicker \/ TypeModel \/ TypeLogin \/ TypeLogout \/ TypeWindow \/ CancelWindow \/ ChooseModel \/ ChooseApi
  \/ ChooseLogin \/ ClosePicker \/ LeaveLine \/ SubmitKey \/ CancelUpdate \/ Paste
Next == Keys \/ MenuShown \/ Callback \/ Flow \/ PortFreed \/ Complete \/ Locked \/ Write \/ FinishUpdate

-----------------------------------------------------------------------------
(* What waits for a protocol, a window, a login or an update is the model    *)
(* the user asked for last and has not given up (startProviderLogin).        *)
Pending ==
  (IF si.picker = "api" THEN {si.pend} ELSE {}) \cup
  (IF si.window # Nothing THEN {si.window} ELSE {}) \cup
  (IF si.login # "none" THEN {si.sel} ELSE {}) \cup
  (IF si.update.kind = "login" THEN {si.update.sel} ELSE {})
OnlyTheLast == Cardinality(Pending) <= 1 /\ \A sel \in Pending \ {Nothing} : sel.route = si.want

(* A login of which the user hears that it was cancelled has saved nothing,  *)
(* and one that succeeded has (Complete, finishCredentialUpdate).            *)
TellsTheTruth == \A a \in 1..si.begun :
  /\ si.att[a].told = "cancelled" => ~si.att[a].saved
  /\ si.att[a].told = "in" => si.att[a].saved

(* A login ends by what the user does to it or by itself, never because      *)
(* another one has ended (finishBrowserLogin).                               *)
EndsItself == \A a \in 1..si.begun :
  si.att[a].ctx = "closed" => si.att[a].quit \/ si.att[a].wait = "heard"

(* Its callback is its own, and when it is left it listens no longer.        *)
OwnCallback == \A a \in 1..si.begun :
  /\ si.att[a].got \in {0, a}
  /\ a # si.browser => si.att[a].flow = "closed" \/ si.att[a].wait = "none"

(* The hidden line never collects together with a prompt of the composer     *)
(* nor with an update that is on its way (submitInput, updateInput).         *)
OneLine == si.login # "none" => si.window = Nothing /\ si.update.kind = "none"

(* Children and the next start get the model that is in use, unless the user *)
(* was told that it could not be kept (Application.switchModel).             *)
ModelAgrees == si.child = si.model /\ (si.pref = si.model \/ si.unsaved)

SignInIsSound == OnlyTheLast /\ TellsTheTruth /\ EndsItself /\ OwnCallback /\ OneLine /\ ModelAgrees

\* The model changes to what the user asked for last.
ChangesAsAsked == si'.model # si.model => si'.model = si'.want
=============================================================================
