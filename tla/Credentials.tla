----------------------------- MODULE Credentials -----------------------------
(***************************************************************************)
(* The credential store that processes share (src/internal/state), the     *)
(* tokens of a browser login in it (src/internal/modelconfig/codex.go,     *)
(* src/internal/codexauth), and the login itself (src/app/codex_login.go,  *)
(* src/internal/ui/screen_auth.go).  Whoever changes the store holds its   *)
(* lock from the read to the write, and over the exchange with the server, *)
(* which gives a new refresh token for an old one only once.               *)
(***************************************************************************)
EXTENDS Naturals, FiniteSets

CONSTANTS
  Users,       \* how many processes there are
  MaxTokens,   \* how many refresh tokens the server issues
  MaxLogins,   \* how many browser logins are begun
  MaxChanges,  \* how many of them, and of logouts and keys
  MaxFaults    \* how many crashes, lost answers and failing writes

VARIABLE cred

User == 1..Users
Nobody == 0
Token == 1..MaxTokens
NoToken == 0
Login == 1..MaxLogins
NoLogin == 0

\* The file: the tokens of the browser login, and a key of another provider.
Document == [token : {NoToken} \cup Token, key : BOOLEAN]
Empty == [token |-> NoToken, key |-> FALSE]
Legacy == [token |-> 1, key |-> FALSE]

Start == [at |-> "start", goal |-> "none", doc |-> Empty, brings |-> NoToken, login |-> NoLogin]
NoFlow == [at |-> "none", owner |-> Nobody, token |-> NoToken, closed |-> FALSE]

CredTypeOK ==
  /\ cred.exists \in BOOLEAN /\ cred.file \in Document
  /\ cred.legacy \in BOOLEAN /\ cred.lock \in {Nobody} \cup User
  /\ cred.issued \in 1..MaxTokens /\ cred.live \subseteq Token /\ cred.stale \subseteq Token
  /\ cred.changes \in 0..MaxChanges /\ cred.faults \in 0..MaxFaults
  /\ \A u \in User : cred.user[u] \in
       [at : {"start", "idle", "wait", "locked", "exchange", "save", "cleanup"},
        goal : {"none", "migrate", "refresh", "login", "logout", "key"},
        doc : Document, brings : {NoToken} \cup Token, login : {NoLogin} \cup Login]
  /\ \A l \in Login : cred.flow[l] \in
       [at : {"none", "browser", "code", "done", "failed", "over"}, owner : {Nobody} \cup User,
        token : {NoToken} \cup Token, closed : BOOLEAN]

\* A store of an older release may be there, with tokens that are still good.
Init ==
  \E legacy \in BOOLEAN :
    cred = [exists |-> FALSE, file |-> Empty, legacy |-> legacy, lock |-> Nobody,
            issued |-> 1, live |-> {1}, stale |-> {1}, lost |-> FALSE, reused |-> FALSE,
            out |-> FALSE, keyed |-> FALSE, changes |-> 0, faults |-> 0, user |-> [u \in User |-> Start],
            flow |-> [l \in Login |-> NoFlow]]

Me(u) == cred.user[u]
Flow(u) == cred.flow[Me(u).login]

\* The end of what u did, and with it of its lock, at a step where the answer of
\* an exchange may get lost.
Idle(c, u) ==
  [c EXCEPT !.user[u] = [Start EXCEPT !.at = "idle"],
            !.lock = IF @ = u THEN Nobody ELSE @,
            !.lost = @ \/ (Me(u).at = "save" /\ Me(u).goal = "refresh")]
Ends(u) == cred' = Idle(cred, u)

Fails(u) == cred.faults < MaxFaults /\ cred' = [Idle(cred, u) EXCEPT !.faults = @ + 1]

Wants(c, u, goal) == [c EXCEPT !.user[u].at = "wait", !.user[u].goal = goal]

-----------------------------------------------------------------------------
(* OpenCredentials: a store of the older release is migrated first. *)
Open(u) ==
  /\ Me(u).at = "start"
  /\ cred' = IF cred.legacy THEN Wants(cred, u, "migrate") ELSE Idle(cred, u)

(* CurrentTokens reads the store without its lock. *)
CurrentTokens(u) ==
  /\ Me(u).at = "idle" /\ cred.file.token \in cred.stale
  /\ cred' = Wants(cred, u, "refresh")

(* Logout, and a key for someone else. *)
Change(u, goal) ==
  /\ Me(u).at = "idle" /\ cred.changes < MaxChanges
  /\ cred' = [Wants(cred, u, goal) EXCEPT !.changes = @ + 1]

Expire(t) == t \in cred.live \ cred.stale /\ cred' = [cred EXCEPT !.stale = @ \cup {t}]

-----------------------------------------------------------------------------
(* BeginBrowserLogin; the one before it may still be under way. *)
BeginLogin(u, l) ==
  /\ Me(u).at = "idle" /\ Me(u).login = NoLogin /\ cred.flow[l].at = "none"
  /\ cred.changes < MaxChanges /\ \A k \in 1..l - 1 : cred.flow[k].at # "none"
  /\ cred' = [cred EXCEPT !.changes = @ + 1, !.flow[l].at = "browser", !.flow[l].owner = u, !.user[u].login = l]

(* The redirect, from the listener or pasted: the first one fills the slot. *)
Redirect(l) ==
  /\ cred.flow[l].at = "browser" /\ ~cred.flow[l].closed
  /\ cred' = [cred EXCEPT !.flow[l].at = "code"]

(* Wait takes the code to the server, or ends with its context. *)
Tokens(l) ==
  /\ cred.flow[l].at = "code" /\ ~cred.flow[l].closed /\ cred.issued < MaxTokens
  /\ cred' = [cred EXCEPT !.issued = @ + 1, !.live = @ \cup {cred.issued + 1},
                !.flow[l].at = "done", !.flow[l].token = cred.issued + 1]
NoTokens(l) ==
  /\ cred.flow[l].at \in {"browser", "code"}
  /\ cred' = [cred EXCEPT !.flow[l].at = "failed"]

\* A cancelled attempt may end after another one was begun.
IsCurrent(l) == Me(cred.flow[l].owner).login = l

(* finishBrowserLogin *)
FinishLogin(l) ==
  LET u == cred.flow[l].owner
      c == [cred EXCEPT !.flow[l].at = "over"] IN
  /\ cred.flow[l].at \in {"done", "failed"} /\ Me(u).at = "idle"
  /\ cred' = IF ~IsCurrent(l) THEN c
             ELSE IF cred.flow[l].at = "failed" THEN [c EXCEPT !.user[u].login = NoLogin]
             ELSE [Wants(c, u, "login") EXCEPT !.user[u].brings = cred.flow[l].token, !.user[u].login = l]

(* Escape, which also reaches an update that waits for the lock. *)
CloseLogin(u) ==
  /\ Me(u).login # NoLogin /\ Me(u).at \in {"idle", "wait", "locked"} /\ ~Flow(u).closed
  /\ cred' = [cred EXCEPT !.flow[Me(u).login].closed = TRUE,
                !.user[u].login = IF Me(u).at = "idle" THEN NoLogin ELSE @]

-----------------------------------------------------------------------------
\* Mutant: nobody waits for anybody.
FreeAlways(u) == TRUE

Free(u) == cred.lock = Nobody

(* acquireStateLock polls until its context ends; the store is read then. *)
Acquire(u) ==
  /\ Me(u).at = "wait" /\ Free(u)
  /\ cred' = [cred EXCEPT !.lock = u, !.user[u].at = "locked", !.user[u].doc = cred.file]
GiveUp(u) == Me(u).at \in {"wait", "locked"} /\ Me(u).goal # "migrate" /\ Ends(u)

\* Mutant: what an older release left overrides.
MigratedAlways == Legacy

\* The newer store is authoritative once it is there.
Migrated == IF cred.exists \/ ~cred.legacy THEN cred.file ELSE Legacy

(* migrateCredentials publishes the older store, and then removes it. *)
Migrate(u) ==
  /\ Me(u).at = "locked" /\ Me(u).goal = "migrate"
  /\ cred' = [cred EXCEPT !.file = Migrated, !.exists = @ \/ cred.legacy, !.user[u].at = "cleanup"]
Cleanup(u) ==
  /\ Me(u).at = "cleanup"
  /\ cred' = [Idle(cred, u) EXCEPT !.legacy = FALSE]

\* A refresh is still wanted of what is found under the lock.
Found(u) == Me(u).doc.token \in cred.stale

Staged(u, token, key) ==
  cred' = [cred EXCEPT !.user[u].at = "save", !.user[u].doc = [token |-> token, key |-> key]]

\* Mutant: a login that was abandoned meanwhile is stored.
WantedAlways(u) == TRUE

\* Complete looks at its context once more when it is called back.
Wanted(u) == ~Flow(u).closed

(* UpdateCredential calls back with what it read. *)
Update(u) ==
  /\ Me(u).at = "locked"
  /\ \/ /\ Me(u).goal = "refresh" /\ Me(u).doc.token # NoToken /\ Found(u)
        /\ cred' = [cred EXCEPT !.user[u].at = "exchange"]
     \/ Me(u).goal = "refresh" /\ (Me(u).doc.token = NoToken \/ ~Found(u)) /\ Ends(u)
     \/ Me(u).goal = "login" /\ Wanted(u) /\ Staged(u, Me(u).brings, Me(u).doc.key)
     \/ Me(u).goal = "logout" /\ Staged(u, NoToken, Me(u).doc.key)
     \/ Me(u).goal = "key" /\ Staged(u, Me(u).doc.token, TRUE)

(* Refresh, which a cancelled request does not stop: the server takes the old *)
(* token and gives another, whose answer may be lost; or gives no other, or    *)
(* cannot be asked.                                                            *)
Refresh(u) ==
  /\ Me(u).at = "exchange"
  /\ LET t == Me(u).doc.token
         next == cred.issued + 1
         given == [cred EXCEPT !.issued = next, !.live = (@ \ {t}) \cup {next}]
         saving(c, new) == [c EXCEPT !.user[u].at = "save", !.user[u].doc.token = new] IN
     \/ /\ t \in cred.live /\ next \in Token
        /\ \/ cred' = saving(given, next)
           \/ cred.faults < MaxFaults /\ cred' = [Idle(given, u) EXCEPT !.faults = @ + 1, !.lost = TRUE]
     \/ t \in cred.live /\ cred' = saving([cred EXCEPT !.stale = @ \ {t}], t)
     \/ t \notin cred.live /\ cred' = [Idle(cred, u) EXCEPT !.reused = TRUE]
     \/ Ends(u)

\* Mutant: only the profile that changed is written.
SavedAlone(u) == [token |-> Me(u).doc.token, key |-> Me(u).goal = "key"]

Saved(u) == Me(u).doc

(* saveCredentials writes all of the document, or nothing. *)
Save(u) ==
  /\ Me(u).at = "save"
  /\ cred' = [Idle(cred, u) EXCEPT !.file = Saved(u), !.exists = TRUE, !.lost = cred.lost,
                !.out = Me(u).goal = "logout" \/ (@ /\ Me(u).goal # "login"),
                !.keyed = @ \/ Me(u).goal = "key"]
SaveFails(u) == Me(u).at = "save" /\ Fails(u)

\* The process dies; the kernel frees its lock.
Crash(u) ==
  /\ Me(u).at # "start" /\ cred.faults < MaxFaults
  /\ cred' = [Idle(cred, u) EXCEPT !.user[u] = Start, !.faults = @ + 1,
                !.flow = [l \in Login |-> IF cred.flow[l].owner = u THEN [@[l] EXCEPT !.at = "over"] ELSE @[l]]]

Next ==
  \/ \E t \in Token : Expire(t)
  \/ \E l \in Login : Redirect(l) \/ Tokens(l) \/ NoTokens(l) \/ FinishLogin(l)
  \/ \E u \in User :
       \/ Open(u) \/ CurrentTokens(u) \/ Change(u, "logout") \/ Change(u, "key")
       \/ CloseLogin(u) \/ (\E l \in Login : BeginLogin(u, l))
       \/ Acquire(u) \/ GiveUp(u) \/ Migrate(u) \/ Cleanup(u) \/ Update(u)
       \/ Refresh(u) \/ Save(u) \/ SaveFails(u) \/ Crash(u)

-----------------------------------------------------------------------------
(* A refresh token is sent to the server once, unless an answer was lost or  *)
(* could not be saved (UpdateCredential, CurrentTokens).                     *)
TokenUsedOnce == cred.reused => cred.lost

(* What is stored can be refreshed, or is about to be replaced by what its   *)
(* refresh brought (UpdateCredential).                                       *)
StoredIsLive ==
  \/ cred.lost \/ cred.file.token \in {NoToken} \cup cred.live
  \/ \E u \in User : Me(u).at = "save" /\ Me(u).goal = "refresh"

(* A logout is not undone by a refresh that was under way, by a migration,   *)
(* or by a process that had read the tokens before (CurrentTokens).          *)
LogoutStays == cred.out => cred.file.token = NoToken

(* A key is not lost to a process that changes something else in the store   *)
(* (UpdateCredential).                                                       *)
KeyKept == cred.keyed => cred.file.key

(* A login that was abandoned in time is never stored, whenever its browser  *)
(* comes back (finishBrowserLogin, Complete).                                *)
AbandonedStaysOut ==
  \A l \in Login : cred.flow[l].closed /\ cred.flow[l].token # NoToken =>
    cred.file.token # cred.flow[l].token

(* Credentials survive what processes do to them at the same time.           *)
CredentialsAreSound ==
  TokenUsedOnce /\ StoredIsLive /\ LogoutStays /\ KeyKept /\ AbandonedStaysOut
=============================================================================
