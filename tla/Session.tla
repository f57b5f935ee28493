------------------------------- MODULE Session -------------------------------
(***************************************************************************)
(* A session of the console in one tab: the API key in the browser's       *)
(* storage, the auth store that validates it, the router, the question of  *)
(* the confirmation dialogue and the requests in flight                    *)
(* (web/static/js/app.js, api.js, and the pages of web/static/index.html   *)
(* that start requests).  Answers arrive in any order, the tab takes one   *)
(* event at a time and may be reloaded at any moment, and other tabs share *)
(* the storage.                                                            *)
(*                                                                         *)
(* A request is represented by the key in its header.  The pages are       *)
(* "login", "list" (those that load when there is a session) and "detail"  *)
(* (those that load whenever they are routed to).  An empty hash is routed *)
(* like #/login and stands for it.                                         *)
(***************************************************************************)
EXTENDS ConsoleApi

CONSTANTS
  Keys,        \* what may be typed as an API key
  Accounts,    \* the keys of active tenants
  NoKey,       \* nothing stored, or no header
  Idle,        \* no request of this kind in flight
  MaxErrors    \* bound: answers other than a success or a 401

ASSUME SessionAssumption ==
  /\ Accounts \subseteq Keys
  /\ NoKey \notin Keys
  /\ Idle \notin Keys \cup {NoKey}
  /\ MaxErrors \in Nat

VARIABLES
  saved,       \* localStorage's wpp_api_key
  tab,         \* what the tab holds
  errors

vars == <<saved, tab, errors>>

Pages == {"login", "list", "detail"}
Hashes == Pages \cup {"unknown"}

(* Requests by what started them: the two calls of auth.init (Alpine calls *)
(* it when the store is registered, the body's x-init calls it again), the *)
(* login form, the load of a detail page, and any call of the shell: a     *)
(* list's load, an interval, a button (bound: one of these at a time).     *)
Validations == {"store", "body", "login"}
Kinds == Validations \cup {"detail", "call"}

(* `open` is whether the last question still waits for an answer ("again": *)
(* it was executed without) and `served` whether the last call matched one *)
(* route.  Of the last write of the key since the tab was loaded, `foreign` *)
(* says that it was another tab's, and `overtaken` that it was this tab's  *)
(* and left another key's validation unanswered.  No code reads these.     *)
TabState ==
  [authenticated : BOOLEAN, tenant : Keys \cup {NoKey},
   page : Pages, hash : Hashes, moved : BOOLEAN,
   loaded : BOOLEAN, polling : BOOLEAN, sent : [Kinds -> Keys \cup {NoKey, Idle}],
   callback : BOOLEAN, open : {"yes", "no", "again"},
   foreign : BOOLEAN, overtaken : BOOLEAN, served : BOOLEAN]

-----------------------------------------------------------------------------
(* handleHash: where an unknown hash leads depends on the session.         *)
Route(hash, authenticated) ==
  IF hash \in Pages THEN hash ELSE IF authenticated THEN "list" ELSE "login"

HandleHash(s) == [s EXCEPT !.page = Route(s.hash, s.authenticated)]

(* Setting location.hash to what it is raises no hashchange.               *)
Navigate(s, hash) == [s EXCEPT !.hash = hash, !.moved = s.moved \/ hash # s.hash]

SignedOut(s) == Navigate([s EXCEPT !.authenticated = FALSE, !.tenant = NoKey], "login")

(* The detail pages' x-effect, which Alpine runs before the next event:    *)
(* the page loads once, session or not.                                    *)
Effects(s, key) ==
  IF s.page = "detail" /\ ~s.loaded
  THEN [s EXCEPT !.loaded = TRUE, !.sent["detail"] = key]
  ELSE s

(* A tab loads: both calls of auth.init ask the server when there is a key,*)
(* and the router reads the hash.                                          *)
Opened(hash, key) ==
  [authenticated |-> FALSE, tenant |-> NoKey,
   page |-> Route(hash, FALSE), hash |-> hash, moved |-> FALSE,
   loaded |-> FALSE, polling |-> FALSE,
   sent |-> [k \in Kinds |-> IF k \in {"store", "body"} /\ key # NoKey THEN key ELSE Idle],
   callback |-> FALSE, open |-> "no",
   foreign |-> FALSE, overtaken |-> FALSE, served |-> TRUE]

Shell(s) == s.authenticated /\ s.page # "login"

-----------------------------------------------------------------------------
(* The server: a key that is no tenant's, or none, is refused; anything    *)
(* else that is not a success (a deactivated tenant, the rate limit, a     *)
(* failing handler or network) is an error.                                *)
Answers(key) ==
  (IF key \in Accounts THEN {"ok"} ELSE {"unauthorized"})
  \cup (IF errors < MaxErrors THEN {"error"} ELSE {})

(* Mutant: a 401 removes the key and leaves the store signed in.           *)
Refused_OnlyClears(s, answer) == s

(* request(): a 401 removes the key and logs out whichever call it answers *)
(* before it is thrown; the caller sees any failure as an exception.       *)
Refused(s, answer) == IF answer = "unauthorized" THEN SignedOut(s) ELSE s

(* The key is taken for the session's, whichever key is stored by now.     *)
Accepted(k, key, s) ==
  LET accepted == [s EXCEPT !.tenant = key, !.authenticated = TRUE]
  IN  IF k = "login" THEN Navigate(accepted, "list") ELSE accepted

(* Mutant: the catch forgets to reset `authenticated`.                     *)
Validated_StaysSignedIn(k, key, answer, s) ==
  IF answer = "ok" THEN Accepted(k, key, s) ELSE Refused(s, answer)

(* The continuation of auth.init or auth.login after the answer.           *)
Validated(k, key, answer, s) ==
  IF answer = "ok" THEN Accepted(k, key, s)
  ELSE [Refused(s, answer) EXCEPT !.authenticated = FALSE]

(* The body's x-init goes on to router.init.                               *)
Continued(k, key, answer, s) ==
  CASE k = "body" -> HandleHash(Validated(k, key, answer, s))
    [] k \in {"store", "login"} -> Validated(k, key, answer, s)
    [] OTHER -> Refused(s, answer)

(* Which answers remove the stored key.                                    *)
Clears(k, answer) == answer = "unauthorized" \/ (k \in Validations /\ answer = "error")

(* A validation of another key is still unanswered.                        *)
Overtaken(s, key) == \E k \in Validations : s.sent[k] \notin {Idle, key}

(* The tab goes on as s, and leaves the storage alone or writes it.        *)
Become(s) == tab' = Effects(s, saved) /\ UNCHANGED saved
Store(key, s) ==
  /\ saved' = key
  /\ tab' = Effects([s EXCEPT !.foreign = FALSE, !.overtaken = Overtaken(s, key)], key)

-----------------------------------------------------------------------------
Init ==
  /\ saved \in Keys \cup {NoKey}
  /\ tab \in {Effects(Opened(h, saved), saved) : h \in Hashes}
  /\ errors = 0

(* What was in flight is forgotten; the storage and the hash stay.         *)
Reload ==
  /\ Become(Opened(tab.hash, saved))
  /\ UNCHANGED errors

(* The answer to the request of kind k arrives.                            *)
Receive(k) ==
  /\ tab.sent[k] # Idle
  /\ \E answer \in Answers(tab.sent[k]) :
       LET s == Continued(k, tab.sent[k], answer, [tab EXCEPT !.sent[k] = Idle])
       IN  /\ IF Clears(k, answer) THEN Store(NoKey, s) ELSE Become(s)
           /\ errors' = IF answer = "error" THEN errors + 1 ELSE errors

(* A link, the back button or the address bar.                             *)
Visit(hash) ==
  /\ hash # tab.hash
  /\ Become(Navigate(tab, hash))
  /\ UNCHANGED errors

HashChange ==
  /\ tab.moved
  /\ Become(HandleHash([tab EXCEPT !.moved = FALSE]))
  /\ UNCHANGED errors

(* The login form; its button is disabled while it waits.                  *)
SignIn(key) ==
  /\ tab.page = "login"
  /\ tab.sent["login"] = Idle
  /\ Store(key, [tab EXCEPT !.sent["login"] = key])
  /\ UNCHANGED errors

SignOut ==
  /\ Shell(tab)
  /\ Store(NoKey, SignedOut(tab))
  /\ UNCHANGED errors

(* The automatic refresh of a list page; navigation and logout leave it on.*)
TogglePolling ==
  /\ Shell(tab) /\ tab.page = "list"
  /\ Become([tab EXCEPT !.polling = ~@])
  /\ UNCHANGED errors

Send(served) ==
  /\ tab.sent["call"] = Idle
  /\ Become([tab EXCEPT !.sent["call"] = saved, !.served = served])
  /\ UNCHANGED errors

(* TRUE of every call, if the two files agree.                             *)
Outcomes == {Served(call) : call \in Calls}

Poll == tab.polling /\ \E served \in Outcomes : Send(served)
Call == Shell(tab) /\ \E served \in Outcomes : Send(served)

(* A button of a detail page asks before it deletes.  The dialogue covers  *)
(* every page, and stays when the session ends.                            *)
Ask ==
  /\ Shell(tab) /\ tab.page = "detail" /\ ~tab.callback
  /\ Become([tab EXCEPT !.callback = TRUE, !.open = "yes"])
  /\ UNCHANGED errors

Answered(s) == [s EXCEPT !.open = IF @ = "yes" THEN "no" ELSE @]

(* Mutant: the dialogue closes and the callback stays.                     *)
CloseModal_KeepsCallback(s) == s

CloseModal(s) == [s EXCEPT !.callback = FALSE]

Cancel ==
  /\ Become(CloseModal(Answered(tab)))
  /\ UNCHANGED errors

(* The buttons stay under the pointer while the dialogue fades out, so a   *)
(* second click finds what the first one left.                             *)
ExecuteConfirm ==
  /\ tab.callback
  /\ tab.sent["call"] = Idle
  /\ LET run == [tab EXCEPT !.sent["call"] = saved, !.open = IF @ = "yes" THEN "no" ELSE "again"]
     IN  Become(CloseModal(run))
  /\ UNCHANGED errors

TabStep ==
  \/ \E k \in Kinds : Receive(k)
  \/ \E h \in Hashes : Visit(h)
  \/ HashChange
  \/ \E key \in Keys : SignIn(key)
  \/ SignOut
  \/ TogglePolling
  \/ Poll
  \/ Call
  \/ Ask
  \/ Cancel
  \/ ExecuteConfirm
  \/ Reload

(* Another tab signs in, or out.                                           *)
OtherTab(key) ==
  /\ key # saved
  /\ saved' = key
  /\ tab' = [tab EXCEPT !.foreign = TRUE, !.overtaken = FALSE]
  /\ UNCHANGED errors

Next == TabStep \/ \E key \in Keys \cup {NoKey} : OtherTab(key)

Spec == Init /\ [][Next]_vars

(* The browser dispatches its events and keeps its intervals, and the      *)
(* fetch of an interval ends; nothing is assumed of the person at the      *)
(* console.                                                                *)
FairSpec ==
  /\ Spec
  /\ WF_vars(Receive("call"))
  /\ WF_vars(HashChange)
  /\ WF_vars(Poll)
-----------------------------------------------------------------------------
TypeOK ==
  /\ saved \in Keys \cup {NoKey}
  /\ tab \in TabState
  /\ errors \in 0..MaxErrors

(* Once the calls that validate a key have been answered, a stored key has *)
(* its session, and a session its key: in whatever order answers, logins,  *)
(* logouts and reloads follow each other, the tab is signed in if a key is *)
(* stored, and as that key's tenant.  Two things are excepted.  Another tab *)
(* may have written the key since this one did (`foreign`); and if this tab *)
(* wrote or removed the key while a validation of another one was          *)
(* unanswered (`overtaken`), the late acceptance may have signed the tab in *)
(* as a tenant whose key is not stored: auth.init and auth.login do not    *)
(* look at the storage again.                                              *)
SignedInIffKeyStored ==
  (\A k \in Validations : tab.sent[k] = Idle) /\ ~tab.foreign
    => /\ saved # NoKey => tab.authenticated
       /\ tab.authenticated => tab.tenant = saved \/ tab.overtaken

(* A confirmed deletion is requested once, and a cancelled one never,      *)
(* however often the dialogue's buttons are clicked.                       *)
ConfirmedOnce == tab.open # "again"

(* Every call of the console reaches one handler of the gateway: no route  *)
(* is missing, has another method or is hidden by a parameter of another.  *)
EveryCallIsServed == tab.served

(* A logout in another tab ends this tab's session: if it refreshes itself *)
(* it asks without a key, is refused, signs out and shows the login page,  *)
(* unless the person stops the refresh, signs in or goes elsewhere.        *)
SignOutReachesTab ==
  (tab.polling /\ tab.authenticated /\ saved = NoKey)
    ~> \/ saved # NoKey
       \/ ~tab.polling
       \/ ~tab.authenticated /\ (tab.page = "login" \/ tab.hash # "login")

(* Not true of the code (see the README): the stored key is removed only   *)
(* by a logout, by another tab or by an answer to a request that carried   *)
(* it.  api.js removes whatever key is stored when a 401 arrives.          *)
OnlyItsOwnAnswerEndsASession ==
  [][saved # NoKey /\ saved' = NoKey
       => \/ SignOut
          \/ OtherTab(NoKey)
          \/ \E k \in Kinds : tab.sent[k] = saved /\ Receive(k)]_vars

(* Not true of the code: the agreement holds also after a late acceptance. *)
(* When a tab is loaded the key is validated twice; if the first answer is *)
(* an error the key is removed, and the second still signs the tab in.     *)
LateAcceptanceAgrees ==
  (\A k \in Validations : tab.sent[k] = Idle) /\ ~tab.foreign
    => saved = IF tab.authenticated THEN tab.tenant ELSE NoKey

(* Not true of the code: a signed-out tab with nothing under way shows the *)
(* login page.  The shell needs a session and the form the login page, so  *)
(* a tab that is signed out at another hash shows neither.                 *)
SignedOutSeesLogin ==
  ~tab.authenticated /\ ~tab.moved /\ (\A k \in Kinds : tab.sent[k] = Idle)
    => tab.page = "login"
=============================================================================
