---------------------------- MODULE ConsoleProofs ----------------------------
(***************************************************************************)
(* Proofs about the console's common parts (ConsoleShell), its broadcasts  *)
(* page (BroadcastsPage), its page of an instance (InstancePage) and its   *)
(* figures (Figures), and about the four together, for any number of       *)
(* toasts, groups, instances, calls in flight and failures.                *)
(***************************************************************************)
EXTENDS MCConsole, SequenceTheorems, TLAPS

(* Toasts and timeouts are well-formed, and each toast has the one it needs*)
ToastInv == items \subseteq Toast /\ timers \subseteq Timer /\ clock \in Nat /\ EveryToastGoes

(* A toast that is shown brings its own timeout.                           *)
LEMMA ShowKeepsToasts ==
  ASSUME ToastInv, NEW id \in Nat, NEW nth \in Nat, ShowAs(id, nth)
  PROVE  ToastInv'
<1>1. items' \subseteq Toast /\ timers' \subseteq Timer /\ clock' \in Nat
  <2>1. [id |-> id, nth |-> nth, removing |-> FALSE] \in Toast
    BY DEF Toast
  <2>2. [id |-> id, does |-> "dismiss"] \in Timer
    BY DEF Timer
  <2>3. QED
    BY <2>1, <2>2 DEF ShowAs, ToastInv
<1>2. Due([id |-> id, nth |-> nth, removing |-> FALSE]) = [id |-> id, does |-> "dismiss"]
  BY DEF Due
<1>3. EveryToastGoes'
  BY <1>2 DEF ShowAs, ToastInv, EveryToastGoes
<1>4. QED
  BY <1>1, <1>3 DEF ToastInv

(* A dismissal uses up timeouts of its own id, and leaves the one that     *)
(* removes everything it has marked.                                       *)
LEMMA DismissKeepsToasts ==
  ASSUME ToastInv, NEW id \in Nat, NEW rest \in SUBSET timers,
         timers \subseteq rest \cup {[id |-> id, does |-> "dismiss"]},
         Dismiss(id, rest), clock' = clock
  PROVE  ToastInv'
<1>1. items' \subseteq Toast /\ timers' \subseteq Timer /\ clock' \in Nat
  <2>1. \A t \in items : [t EXCEPT !.removing = TRUE] \in Toast
    BY DEF ToastInv, Toast
  <2>2. [id |-> id, does |-> "remove"] \in Timer
    BY DEF Timer
  <2>3. QED
    BY <2>1, <2>2 DEF Dismiss, ToastInv
<1>2. ASSUME NEW t \in items
      PROVE  Due(IF t.id = id THEN [t EXCEPT !.removing = TRUE] ELSE t) \in timers'
  <2>1. CASE t.id = id
    <3>1. Due([t EXCEPT !.removing = TRUE]) = [id |-> id, does |-> "remove"]
      BY <2>1 DEF Due, ToastInv, Toast
    <3>2. QED
      BY <2>1, <3>1 DEF Dismiss
  <2>2. CASE t.id # id
    <3>1. Due(t) \in timers /\ Due(t) # [id |-> id, does |-> "dismiss"]
      BY <2>2 DEF Due, ToastInv, EveryToastGoes
    <3>2. QED
      BY <2>2, <3>1 DEF Dismiss
  <2>3. QED
    BY <2>1, <2>2
<1>3. EveryToastGoes'
  BY <1>2 DEF Dismiss, EveryToastGoes
<1>4. QED
  BY <1>1, <1>3 DEF ToastInv

(* A removal uses up the timeout of the toasts it takes away.              *)
LEMMA RemoveKeepsToasts ==
  ASSUME ToastInv, NEW id \in Nat, NEW rest \in SUBSET timers,
         timers \subseteq rest \cup {[id |-> id, does |-> "remove"]},
         Remove(id, rest), clock' = clock
  PROVE  ToastInv'
<1>1. items' \subseteq Toast /\ timers' \subseteq Timer /\ clock' \in Nat
  BY DEF Remove, ToastInv
<1>2. ASSUME NEW t \in items, t.id # id
      PROVE  Due(t) \in timers'
  <2>1. Due(t) \in timers /\ Due(t) # [id |-> id, does |-> "remove"]
    BY <1>2 DEF Due, ToastInv, EveryToastGoes
  <2>2. QED
    BY <2>1 DEF Remove
<1>3. EveryToastGoes'
  BY <1>2 DEF Remove, EveryToastGoes
<1>4. QED
  BY <1>1, <1>3 DEF ToastInv

(* Every step of the shell keeps the toasts in order.                      *)
LEMMA StepKeepsToasts ==
  ASSUME ToastInv, [ShellStep]_shellVars
  PROVE  ToastInv'
<1>1. CASE Show \/ Copied
  BY <1>1, ShowKeepsToasts DEF Show, Copied, ShowToast, ToastInv
<1>2. CASE Copy \/ ToggleLang \/ ToggleTheme \/ SchemeChanges \/ UNCHANGED shellVars
  BY <1>2 DEF Copy, ToggleLang, ToggleTheme, SchemeChanges, UnchangedToasts, shellVars,
              ToastInv, EveryToastGoes, Due
<1>3. ASSUME NEW timer \in timers, Fire(timer)
      PROVE  ToastInv'
  <2>1. timer \in Timer /\ timers \ {timer} \in SUBSET timers /\ clock' = clock
    BY <1>3 DEF Fire, Later, ToastInv
  <2>2. timer = [id |-> timer.id, does |-> timer.does] /\ timer.id \in Nat
        /\ timer.does \in {"dismiss", "remove"}
    BY <2>1 DEF Timer
  <2>3. CASE timer.does = "dismiss"
    <3>1. Dismiss(timer.id, timers \ {timer})
      BY <1>3, <2>3 DEF Fire
    <3>2. timers \subseteq (timers \ {timer}) \cup {[id |-> timer.id, does |-> "dismiss"]}
      BY <2>2, <2>3
    <3>3. QED
      BY <2>1, <2>2, <3>1, <3>2, DismissKeepsToasts
  <2>4. CASE timer.does = "remove"
    <3>1. Remove(timer.id, timers \ {timer})
      BY <1>3, <2>4 DEF Fire
    <3>2. timers \subseteq (timers \ {timer}) \cup {[id |-> timer.id, does |-> "remove"]}
      BY <2>2, <2>4
    <3>3. QED
      BY <2>1, <2>2, <3>1, <3>2, RemoveKeepsToasts
  <2>5. QED
    BY <2>2, <2>3, <2>4
<1>4. ASSUME NEW toast \in items, Click(toast)
      PROVE  ToastInv'
  <2>1. toast.id \in Nat /\ Dismiss(toast.id, timers) /\ clock' = clock
    BY <1>4 DEF Click, Later, ToastInv, Toast
  <2>2. QED
    BY <2>1, DismissKeepsToasts
<1>5. CASE ReloadShell
  BY <1>5 DEF ReloadShell, ToastInv, EveryToastGoes
<1>6. QED
  BY <1>1, <1>2, <1>3, <1>4, <1>5 DEF ShellStep

(* No toast stays on the screen for good: every one has a timeout pending  *)
(* that takes it further (app.js, store toast).                            *)
THEOREM EveryToastGoesHolds == ShellSpec => []EveryToastGoes
<1>1. InitShell => ToastInv
  BY DEF InitShell, ToastInv, EveryToastGoes
<1>2. ToastInv /\ [ShellStep]_shellVars => ToastInv'
  BY StepKeepsToasts
<1>3. ToastInv => EveryToastGoes
  BY DEF ToastInv
<1>4. QED
  BY <1>1, <1>2, <1>3, PTL DEF ShellSpec
-----------------------------------------------------------------------------
(* What the tab shows and what is stored have their types.                 *)
SettingsInv == shown \in Shown /\ stored \in Stored /\ prefersDark \in BOOLEAN

(* So has what a tab reads when it is loaded.                              *)
LEMMA LoadedIsShown ==
  ASSUME stored \in Stored, prefersDark \in BOOLEAN
  PROVE  Loaded(stored, prefersDark) \in Shown
BY DEF Loaded, LangOf, ThemeOf, Shown, Stored, Languages, Themes, None

(* Every step of the shell keeps them.                                     *)
LEMMA StepKeepsSettings ==
  ASSUME SettingsInv, [ShellStep]_shellVars
  PROVE  SettingsInv'
<1>1. CASE UNCHANGED <<shown, stored>> /\ prefersDark' \in BOOLEAN
  BY <1>1 DEF SettingsInv
<1>2. CASE ToggleLang
  <2>1. PICK lang \in Languages : SetLang(lang) /\ prefersDark' = prefersDark
    BY <1>2 DEF ToggleLang, Languages, UnchangedToasts
  <2>2. QED
    BY <2>1 DEF SetLang, SettingsInv, Shown, Stored
<1>3. CASE ToggleTheme
  BY <1>3 DEF ToggleTheme, SettingsInv, Shown, Stored, Themes, UnchangedToasts
<1>4. CASE ReloadShell
  BY <1>4, LoadedIsShown DEF ReloadShell, SettingsInv
<1>5. CASE Show \/ Copy \/ Copied \/ SchemeChanges
  BY <1>1, <1>5 DEF Show, Copy, Copied, ShowToast, SchemeChanges, SettingsInv
<1>6. CASE (\E timer \in timers : Fire(timer)) \/ (\E toast \in items : Click(toast))
  BY <1>1, <1>6 DEF Fire, Click, Later, SettingsInv
<1>7. CASE UNCHANGED shellVars
  BY <1>1, <1>7 DEF shellVars, SettingsInv
<1>8. QED
  BY <1>2, <1>3, <1>4, <1>5, <1>6, <1>7 DEF ShellStep

(* What the shell holds has its type.                                      *)
ShellInv == ToastInv /\ SettingsInv /\ instant \in BOOLEAN /\ copying \in BOOLEAN

LEMMA StepKeepsShell ==
  ASSUME ShellInv, [ShellStep]_shellVars
  PROVE  ShellInv'
<1>1. ToastInv' /\ SettingsInv'
  BY StepKeepsToasts, StepKeepsSettings DEF ShellInv
<1>2. instant' \in BOOLEAN /\ copying' \in BOOLEAN
  BY Zenon DEF ShellInv, ShellStep, shellVars, Show, Copy, Copied, ShowToast, Fire, Click, Later,
     ToggleLang, ToggleTheme, UnchangedToasts, ReloadShell, SchemeChanges
<1>3. QED
  BY <1>1, <1>2 DEF ShellInv

-----------------------------------------------------------------------------
(* A page whose intervals are those its timer knows of.                    *)
Paced(p) == p \in PageState /\ p.intervals = IF p.timer THEN 1 ELSE 0

(* Starting the refresh stops the interval before, if there is one.        *)
LEMMA StartKeepsPace ==
  ASSUME NEW p, Paced(p)
  PROVE  Paced(StartAutoRefresh(p))
<1> DEFINE stopped == [p EXCEPT !.timer = FALSE, !.intervals = 0]
<1>1. StopAutoRefresh(p) = stopped /\ Paced(stopped)
  <2>1. CASE p.timer
    <3>1. p.intervals = 1 /\ p.intervals - 1 = 0
      BY <2>1 DEF Paced
    <3>2. QED
      BY <2>1, <3>1 DEF Paced, StopAutoRefresh, PageState
  <2>2. CASE ~p.timer
    <3>1. p.intervals = 0 /\ p.timer = FALSE
      BY <2>2 DEF Paced, PageState
    <3>2. QED
      BY <2>2, <3>1 DEF Paced, StopAutoRefresh, PageState
  <2>3. QED
    BY <2>1, <2>2
<1>2. stopped \in PageState /\ stopped.intervals = 0
  BY <1>1 DEF Paced, PageState
<1>3. ASSUME NEW q \in PageState, q.intervals = 0
      PROVE  Paced([q EXCEPT !.timer = TRUE, !.intervals = @ + 1])
  <2> DEFINE r == [q EXCEPT !.timer = TRUE, !.intervals = @ + 1]
  <2>1. r \in PageState
    <3>1. ASSUME NEW n \in Nat, NEW b \in BOOLEAN
          PROVE  [q EXCEPT !.timer = b, !.intervals = n] \in PageState
      BY DEF PageState
    <3>2. q.intervals + 1 \in Nat
      BY <1>3
    <3>3. QED
      BY <3>1, <3>2
  <2>2. r.timer = TRUE /\ r.intervals = 1
    <3>1. r.intervals = q.intervals + 1
      BY DEF PageState
    <3>2. QED
      BY <1>3, <3>1 DEF PageState
  <2>3. QED
    BY <2>1, <2>2 DEF Paced
<1>4. Paced([stopped EXCEPT !.timer = TRUE, !.intervals = @ + 1])
  BY <1>2, <1>3
<1>5. QED
  BY <1>1, <1>4 DEF StartAutoRefresh

(* A load that starts leaves the interval alone.                           *)
LEMMA LoadKeepsPace ==
  ASSUME NEW p, Paced(p), NEW load \in Loads
  PROVE  Paced(LoadBroadcasts(p, load))
<1>1. CASE p.selected = NoGroup
  BY <1>1 DEF Paced, LoadBroadcasts, PageState
<1>2. CASE p.selected # NoGroup
  <2>1. [stage |-> "asked", of |-> p.selected, status |-> "none"] \in Load
    BY <1>2 DEF Paced, PageState, Load
  <2>2. QED
    BY <1>2, <2>1 DEF Paced, LoadBroadcasts, PageState
<1>3. QED
  BY <1>1, <1>2

PageInv == PageTypeOK /\ OneInterval

LEMMA StepKeepsPace ==
  ASSUME PageInv, [PageStep]_pageVars
  PROVE  PageInv'
<1>0. Paced(page) /\ server \in [Groups -> Statuses] /\ failures \in 0..MaxFailures
  BY DEF PageInv, PageTypeOK, OneInterval, Paced
<1>1. SUFFICES Paced(page)' /\ server' \in [Groups -> Statuses] /\ failures' \in 0..MaxFailures
  BY DEF PageInv, PageTypeOK, OneInterval, Paced
<1>2. ASSUME NEW load \in Loads, NEW group \in Groups \cup {NoGroup}, Select(group, load)
      PROVE  Paced(page)' /\ UNCHANGED <<server, failures>>
  <2>1. Paced([page EXCEPT !.selected = group])
    BY <1>0 DEF Paced, PageState
  <2>2. QED
    BY <1>2, <2>1, LoadKeepsPace DEF Select
<1>3. ASSUME NEW load \in Loads, Tick(load)
      PROVE  Paced(page)' /\ UNCHANGED <<server, failures>>
  BY <1>0, <1>3, LoadKeepsPace DEF Tick
<1>4. ASSUME NEW load \in Loads, AnswerLoad(load)
      PROVE  Paced(page)' /\ server' = server /\ failures' \in 0..MaxFailures
  <2>1. page.loads[load] \in Load /\ page.loads[load].stage = "asked"
    BY <1>0, <1>4 DEF AnswerLoad, Paced, PageState
  <2> DEFINE asked == page.loads[load]
  <2>2. asked \in [stage : {"asked"}, of : Groups, status : {"none"}]
    BY <2>1 DEF Load, Free
  <2>3. [asked EXCEPT !.stage = "answered", !.status = server[asked.of]] \in Load
    <3>1. server[asked.of] \in Statuses
      BY <1>0, <2>2
    <3>2. [asked EXCEPT !.stage = "answered", !.status = server[asked.of]]
            \in [stage : {"answered"}, of : Groups, status : Statuses]
      BY <2>2, <3>1
    <3>3. QED
      BY <3>2 DEF Load
  <2>4. [asked EXCEPT !.stage = "failed", !.status = "none"] \in Load
    BY <2>2 DEF Load
  <2>5. Paced(page)'
    <3>1. ASSUME NEW answer \in Load, page' = [page EXCEPT !.loads[load] = answer]
          PROVE  Paced(page)'
      BY <1>0, <3>1 DEF Paced, PageState
    <3>2. QED
      BY <1>4, <2>3, <2>4, <3>1 DEF AnswerLoad
  <2>6. failures' \in 0..MaxFailures /\ server' = server
    BY <1>0, <1>4, PageAssumption DEF AnswerLoad, Succeed, Fail
  <2>7. QED
    BY <2>5, <2>6
<1>5. ASSUME NEW load \in Loads, FinishLoad(load)
      PROVE  Paced(page)' /\ UNCHANGED <<server, failures>>
  <2> DEFINE answer == page.loads[load]
             freed == [page EXCEPT !.loads[load] = Free]
  <2>1. Paced(freed)
    BY <1>0 DEF Paced, PageState, Load
  <2>2. CASE answer.stage = "answered"
    <3>1. answer \in Load
      BY <1>0 DEF Paced, PageState
    <3>2. [of |-> answer.of, status |-> answer.status] \in Listed
      BY <2>2, <3>1 DEF Load, Free, Listed
    <3>3. Paced([freed EXCEPT !.list = [of |-> answer.of, status |-> answer.status]])
      BY <2>1, <3>2 DEF Paced, PageState
    <3>4. QED
      BY <1>5, <2>2, <3>3, StartKeepsPace DEF FinishLoad
  <2>3. CASE answer.stage # "answered"
    BY <1>5, <2>1, <2>3 DEF FinishLoad
  <2>4. QED
    BY <2>2, <2>3
<1>6. ASSUME NEW load \in Loads, FinishButton(load)
      PROVE  Paced(page)' /\ UNCHANGED <<server, failures>>
  <2>1. Paced([page EXCEPT !.button = Idle])
    BY <1>0 DEF Paced, PageState, Button
  <2>2. QED
    BY <1>6, <2>1, LoadKeepsPace DEF FinishButton
<1>7. ASSUME NEW does \in Verbs, Press(does)
      PROVE  Paced(page)' /\ UNCHANGED <<server, failures>>
  <2> DEFINE of == IF does = "create" THEN page.selected ELSE page.list.of
  <2>1. of \in Groups
    <3>1. CASE does = "create"
      BY <1>0, <1>7, <3>1 DEF Press, Offered, Paced, PageState
    <3>2. CASE does \in {"pause", "resume", "cancel"}
      <4>1. page.list.status \in {"processing", "paused"}
        BY <1>7, <3>2 DEF Press, Offered
      <4>2. page.list \in Listed
        BY <1>0, <4>1 DEF Paced, PageState, NoList
      <4>3. QED
        BY <3>2, <4>2 DEF Listed
    <3>3. QED
      BY <1>7, <3>1, <3>2 DEF Verbs
  <2>2. [stage |-> "asked", does |-> does, of |-> of] \in Button
    BY <2>1 DEF Button
  <2>3. QED
    BY <1>0, <1>7, <2>2 DEF Press, Paced, PageState
<1>8. CASE AnswerButton
  <2>1. page.button \in [stage : {"asked", "done"}, does : Verbs, of : Groups]
    BY <1>0, <1>8 DEF AnswerButton, Paced, PageState, Button, Idle
  <2>2. After(page.button.does) \in Statuses
    BY <2>1 DEF After, Verbs, Statuses
  <2>3. [page.button EXCEPT !.stage = "done"] \in Button
    BY <2>1 DEF Button
  <2>4. Paced([page EXCEPT !.button.stage = "done"]) /\ Paced([page EXCEPT !.button = Idle])
    BY <1>0, <2>3 DEF Paced, PageState, Button
  <2>5. QED
    BY <1>0, <1>8, <2>1, <2>2, <2>4, PageAssumption DEF AnswerButton, Succeed, Fail
<1>9. CASE RefreshStatus
  <2>1. page.list \in Listed
    BY <1>0, <1>9 DEF RefreshStatus, Paced, PageState, NoList, Active
  <2>2. [page.list EXCEPT !.status = server[page.list.of]] \in Listed
    BY <1>0, <2>1 DEF Listed
  <2>3. QED
    BY <1>0, <1>9, <2>2 DEF RefreshStatus, Paced, PageState
<1>10. CASE ReloadPage
  BY <1>0, <1>10 DEF ReloadPage, Paced, PageState, Load, Button
<1>11. ASSUME NEW group \in Groups, Progress(group)
       PROVE  server' \in [Groups -> Statuses] /\ UNCHANGED <<page, failures>>
  BY <1>0, <1>11 DEF Progress, After, Statuses
<1>12. CASE UNCHANGED pageVars
  BY <1>0, <1>12 DEF pageVars
<1>13. QED
  BY <1>0, <1>2, <1>3, <1>4, <1>5, <1>6, <1>7, <1>8, <1>9, <1>10, <1>11, <1>12 DEF PageStep, Paced

(* However many loads overlap and whatever order their answers arrive in,  *)
(* at most one interval runs, and the page can stop it (index.html,        *)
(* broadcastsPage).                                                        *)
THEOREM OneIntervalHolds == PageSpec => []OneInterval
<1>1. InitPage => PageInv
  BY PageAssumption DEF InitPage, PageInv, PageTypeOK, OneInterval, PageState, Load, Button, Statuses
<1>2. PageInv /\ [PageStep]_pageVars => PageInv'
  BY StepKeepsPace
<1>3. PageInv => OneInterval
  BY DEF PageInv
<1>4. QED
  BY <1>1, <1>2, <1>3, PTL DEF PageSpec
-----------------------------------------------------------------------------
Gateway == [status : Connection \cup {"gone"}, socket : BOOLEAN, paired : BOOLEAN]
ShownInstance == [of : Instances \cup {NoInstance}, status : Connection \cup {"nothing"}]

(* One interval at most, which the page can stop, and what is loaded is    *)
(* what is routed to.                                                      *)
Tidy(d) ==
  /\ d \in Detail
  /\ d.intervals = IF d.polling THEN 1 ELSE 0
  /\ d.route # NoInstance => d.last = d.route

(* What an answer may say.                                                 *)
Sensible(fetch) ==
  /\ fetch.stage # "free" => fetch.does # "nothing"
  /\ fetch.does \in {"load", "reload"} /\ fetch.stage = "answered" => fetch.found \in Connection

DetailInv ==
  /\ gateway \in [Instances -> Gateway]
  /\ errors \in 0..MaxErrors
  /\ Tidy(detail)
  /\ \A f \in Fetches : Sensible(detail.fetches[f])

(* How the page's operators keep it tidy.                                  *)
Keeps(d, e) == Tidy(e) /\ \A f \in Fetches : Sensible(d.fetches[f]) => Sensible(e.fetches[f])
-----------------------------------------------------------------------------
LEMMA AskTidy ==
  ASSUME NEW d, Tidy(d), NEW f \in Fetches,
         NEW does \in {"load", "reload", "qr", "poll"} \cup Presses,
         NEW of \in Instances \cup {NoInstance}
  PROVE  /\ Keeps(d, Ask(d, f, does, of))
         /\ Ask(d, f, does, of).route = d.route /\ Ask(d, f, does, of).last = d.last
<1> DEFINE fetch == [does |-> does, stage |-> "asked", of |-> of, found |-> "nothing"]
           e == Ask(d, f, does, of)
<1>1. fetch \in Fetch /\ Sensible(fetch)
  BY DEF Fetch, Sensible, Presses
<1>2. e = [d EXCEPT !.fetches[f] = fetch]
  BY DEF Ask
<1>3. e.fetches = [d.fetches EXCEPT ![f] = fetch] /\ e.fetches \in [Fetches -> Fetch]
  BY <1>1, <1>2 DEF Tidy, Detail
<1>4. e \in Detail
  BY <1>2, <1>3 DEF Tidy, Detail
<1>5. e.route = d.route /\ e.last = d.last /\ e.polling = d.polling /\ e.intervals = d.intervals
  BY <1>2 DEF Tidy, Detail
<1>6. \A g \in Fetches : Sensible(d.fetches[g]) => Sensible(e.fetches[g])
  BY <1>1, <1>3 DEF Tidy, Detail
<1>7. QED
  BY <1>4, <1>5, <1>6 DEF Tidy, Keeps

LEMMA LoadTidy ==
  ASSUME NEW d, d \in Detail, d.intervals = IF d.polling THEN 1 ELSE 0,
         NEW f \in Fetches, NEW does \in {"load", "reload"},
         NEW instance \in Instances \cup {NoInstance}, d.route = instance
  PROVE  Keeps(d, LoadInstance(d, f, does, instance))
<1>1. CASE instance \in {NoInstance, d.last}
  BY <1>1 DEF LoadInstance, Keeps, Tidy
<1>2. CASE instance \notin {NoInstance, d.last}
  <2> DEFINE e == [d EXCEPT !.last = instance]
  <2>1. Tidy(e) /\ e.fetches = d.fetches
    BY DEF Tidy, Detail
  <2>2. LoadInstance(d, f, does, instance) = Ask(e, f, does, instance)
    BY <1>2 DEF LoadInstance
  <2>3. Keeps(e, Ask(e, f, does, instance))
    BY <2>1, AskTidy
  <2>4. QED
    BY <2>1, <2>2, <2>3 DEF Keeps
<1>3. QED
  BY <1>1, <1>2

LEMMA LoadAgainTidy ==
  ASSUME NEW d, Tidy(d), NEW f \in Fetches, NEW does \in {"load", "reload"}
  PROVE  Keeps(d, LoadAgain(d, f, does))
<1> DEFINE e == [d EXCEPT !.last = NoInstance]
<1>1. /\ e \in Detail /\ e.intervals = IF e.polling THEN 1 ELSE 0
      /\ e.route = d.route /\ e.fetches = d.fetches /\ d.route \in Instances \cup {NoInstance}
  BY DEF Tidy, Detail
<1>2. Keeps(e, LoadInstance(e, f, does, d.route))
  BY <1>1, LoadTidy
<1>3. QED
  BY <1>1, <1>2 DEF LoadAgain, Keeps

(* Fields that the properties do not depend on.                            *)
LEMMA FieldsTidy ==
  ASSUME NEW d, Tidy(d), NEW show \in BOOLEAN, NEW i \in Instances \cup {NoInstance},
         NEW showing \in ShownInstance
  PROVE  /\ Keeps(d, [d EXCEPT !.showQR = show])
         /\ Keeps(d, [d EXCEPT !.qr = i])
         /\ Keeps(d, [d EXCEPT !.question = i])
         /\ Keeps(d, [d EXCEPT !.shown = showing])
         /\ Keeps(d, [d EXCEPT !.route = NoInstance])
BY DEF Keeps, Tidy, Detail, ShownInstance

LEMMA StopTidy ==
  ASSUME NEW d, Tidy(d)
  PROVE  /\ Keeps(d, StopQRPolling(d))
         /\ ~StopQRPolling(d).polling /\ StopQRPolling(d).intervals = 0
<1>1. CASE d.polling
  <2> DEFINE e == [d EXCEPT !.polling = FALSE, !.intervals = 0]
  <2>1. StopQRPolling(d) = e
    BY <1>1 DEF StopQRPolling, Tidy, Detail
  <2>2. e \in Detail /\ ~e.polling /\ e.intervals = 0 /\ e.fetches = d.fetches
    BY DEF Tidy, Detail
  <2>3. e.route = d.route /\ e.last = d.last
    BY DEF Tidy, Detail
  <2>4. QED
    BY <2>1, <2>2, <2>3 DEF Keeps, Tidy
<1>2. CASE ~d.polling
  BY <1>2 DEF Keeps, Tidy, Detail, StopQRPolling
<1>3. QED
  BY <1>1, <1>2

LEMMA StartTidy ==
  ASSUME NEW d, Tidy(d)
  PROVE  Keeps(d, StartQRPolling(d))
<1> DEFINE stopped == StopQRPolling(d)
           e == [stopped EXCEPT !.polling = TRUE, !.intervals = 1]
<1>1. Keeps(d, stopped) /\ stopped.intervals = 0
  BY StopTidy
<1>2. StartQRPolling(d) = e
  <2>1. stopped.intervals + 1 = 1
    BY <1>1
  <2>2. QED
    BY <2>1 DEF StartQRPolling
<1>3. e \in Detail /\ e.polling /\ e.intervals = 1 /\ e.fetches = stopped.fetches
  BY <1>1 DEF Keeps, Tidy, Detail
<1>4. e.route = stopped.route /\ e.last = stopped.last
  BY <1>1 DEF Keeps, Tidy, Detail
<1>5. QED
  BY <1>1, <1>2, <1>3, <1>4 DEF Keeps, Tidy

LEMMA LoadQRTidy ==
  ASSUME NEW d, Tidy(d), NEW f \in Fetches
  PROVE  Keeps(d, LoadQR(d, f))
<1> DEFINE e == [d EXCEPT !.qr = NoInstance]
<1>1. Keeps(d, e) /\ d.last \in Instances \cup {NoInstance}
  BY FieldsTidy DEF Tidy, Detail, ShownInstance
<1>2. Keeps(e, Ask(e, f, "qr", d.last))
  BY <1>1, AskTidy DEF Keeps
<1>3. QED
  BY <1>1, <1>2 DEF LoadQR, Keeps

LEMMA GotQRTidy ==
  ASSUME NEW d, Tidy(d), NEW f \in Fetches, NEW answer \in Fetch
  PROVE  Keeps(d, GotQR(d, f, answer))
<1>1. CASE answer.found = "code"
  <2> DEFINE e == [d EXCEPT !.qr = answer.of]
  <2>1. Keeps(d, e)
    BY DEF Keeps, Tidy, Detail, Fetch
  <2>2. Keeps(e, StartQRPolling(e))
    BY <2>1, StartTidy DEF Keeps
  <2>3. QED
    BY <1>1, <2>1, <2>2 DEF GotQR, Keeps
<1>2. CASE answer.found # "code"
  <2> DEFINE closed == [d EXCEPT !.showQR = FALSE]
  <2>1. Keeps(d, closed) /\ closed.route = d.route
    BY DEF Keeps, Tidy, Detail
  <2>2. CASE d.route = NoInstance
    <3> DEFINE e == [closed EXCEPT !.last = NoInstance]
    <3>1. Keeps(closed, e)
      BY <2>1, <2>2 DEF Keeps, Tidy, Detail
    <3>2. Keeps(e, StartQRPolling(e))
      BY <3>1, StartTidy DEF Keeps
    <3>3. QED
      BY <1>2, <2>1, <2>2, <3>1, <3>2 DEF GotQR, Keeps
  <2>3. CASE d.route # NoInstance
    <3>1. Keeps(closed, LoadAgain(closed, f, "reload"))
      BY <2>1, LoadAgainTidy DEF Keeps
    <3>2. QED
      BY <1>2, <2>1, <2>3, <3>1 DEF GotQR, Keeps
  <2>4. QED
    BY <2>2, <2>3
<1>3. QED
  BY <1>1, <1>2

LEMMA PairedTidy ==
  ASSUME NEW d, Tidy(d), NEW f \in Fetches
  PROVE  Keeps(d, Paired(d, f))
<1> DEFINE closed == [d EXCEPT !.showQR = FALSE]
           stopped == StopQRPolling(closed)
<1>1. Keeps(d, closed)
  BY DEF Keeps, Tidy, Detail
<1>2. Keeps(closed, stopped)
  BY <1>1, StopTidy DEF Keeps
<1>3. Keeps(stopped, LoadAgain(stopped, f, "load"))
  BY <1>2, LoadAgainTidy DEF Keeps
<1>4. QED
  BY <1>1, <1>2, <1>3 DEF Paired, Keeps

(* What the page does with an answer.                                      *)
LEMMA FinishedTidy ==
  ASSUME NEW d, Tidy(d), NEW f \in Fetches, NEW answer \in Fetch, Sensible(answer),
         answer.stage \in {"answered", "failed"}
  PROVE  Keeps(d, Finished(d, f, answer))
<1> USE DEF Finished
<1>0. Keeps(d, d)
  BY DEF Keeps
<1>1. CASE answer.stage = "failed"
  BY <1>0, <1>1, StartTidy
<1>2. CASE answer.stage = "answered"
  <2> DEFINE show == [d EXCEPT !.shown = [of |-> answer.of, status |-> answer.found]]
  <2>1. CASE answer.does \in {"load", "reload"}
    <3>1. [of |-> answer.of, status |-> answer.found] \in ShownInstance
      BY <1>2, <2>1 DEF Sensible, Fetch, ShownInstance
    <3>2. Keeps(d, show)
      BY <3>1 DEF Keeps, Tidy, Detail, ShownInstance
    <3>3. Keeps(show, StartQRPolling(show))
      BY <3>2, StartTidy DEF Keeps
    <3>4. QED
      BY <1>2, <2>1, <3>2, <3>3 DEF Keeps
  <2>2. CASE answer.does = "qr"
    BY <1>2, <2>2, GotQRTidy
  <2>3. CASE answer.does = "poll"
    BY <1>0, <1>2, <2>3, PairedTidy
  <2>4. CASE answer.does = "connect"
    <3> DEFINE e == [d EXCEPT !.showQR = TRUE]
    <3>1. Keeps(d, e)
      BY DEF Keeps, Tidy, Detail
    <3>2. Keeps(e, LoadQR(e, f))
      BY <3>1, LoadQRTidy DEF Keeps
    <3>3. QED
      BY <1>2, <2>4, <3>1, <3>2 DEF Keeps
  <2>5. CASE answer.does = "disconnect"
    <3>1. Keeps(d, [d EXCEPT !.shown.status = "disconnected"])
      BY DEF Keeps, Tidy, Detail, Connection
    <3>2. QED
      BY <1>2, <2>5, <3>1
  <2>6. CASE answer.does = "restart"
    BY <1>2, <2>6, LoadAgainTidy
  <2>7. CASE answer.does = "delete"
    <3>1. Keeps(d, [d EXCEPT !.route = NoInstance])
      BY DEF Keeps, Tidy, Detail
    <3>2. QED
      BY <1>2, <2>7, <3>1
  <2>8. answer.does # "nothing"
    BY <1>2 DEF Sensible
  <2>9. QED
    BY <2>1, <2>2, <2>3, <2>4, <2>5, <2>6, <2>7, <2>8 DEF Fetch, Presses
<1>3. QED
  BY <1>1, <1>2
-----------------------------------------------------------------------------
(* What the gateway answers, and the instance after it.                    *)
LEMMA OutcomeSensible ==
  ASSUME NEW g \in Gateway, NEW does \in {"load", "reload", "qr", "poll"} \cup Presses,
         NEW outcome \in Outcome(does, g)
  PROVE  /\ outcome.after \in Gateway
         /\ outcome.found \in Connection \cup {"done", "code", "already_connected"}
         /\ does \in {"load", "reload"} => outcome.found \in Connection
<1>0. g.status # "gone"
  <2> SUFFICES ASSUME g.status = "gone" PROVE FALSE
    OBVIOUS
  <2>1. Outcome(does, g) = {}
    BY Zenon DEF Outcome
  <2>2. QED
    BY <2>1
<1>1. CASE does \in {"load", "reload", "poll"}
  <2>1. outcome = [after |-> g, found |-> g.status]
    BY <1>0, <1>1 DEF Outcome
  <2>2. QED
    BY <1>0, <2>1 DEF Gateway
<1>2. CASE does \in {"qr", "connect"}
  <2>1. /\ outcome.after = Started(g)
        /\ outcome.found \in {"done", "code", "already_connected"}
    BY <1>0, <1>2 DEF Outcome
  <2>2. QED
    BY <1>2, <2>1 DEF Gateway, Started, Connection
<1>3. CASE does = "disconnect"
  <2>1. outcome = [after |-> [g EXCEPT !.socket = FALSE, !.status = "disconnected"], found |-> "done"]
    BY <1>0, <1>3 DEF Outcome
  <2>2. QED
    BY <1>3, <2>1 DEF Gateway, Connection
<1>4. CASE does = "restart"
  <2>1. outcome = [after |-> Started(g), found |-> "done"]
    BY <1>0, <1>4 DEF Outcome
  <2>2. QED
    BY <1>4, <2>1 DEF Gateway, Started, Connection
<1>5. CASE does = "delete"
  <2>1. outcome = [after |-> [g EXCEPT !.socket = FALSE, !.status = "gone"], found |-> "done"]
    BY <1>0, <1>5 DEF Outcome
  <2>2. QED
    BY <1>5, <2>1 DEF Gateway
<1>6. QED
  BY <1>1, <1>2, <1>3, <1>4, <1>5 DEF Presses

(* Steps of the page alone.                                                *)
LEMMA DetailSteps ==
  ASSUME DetailInv, NEW f \in Fetches,
         \/ \E i \in Instances \cup {NoInstance} : RouteTo(i, f)
         \/ OpenQR(f) \/ PollQR(f) \/ ConfirmDelete(f)
         \/ \E does \in Presses : PressButton(does, f)
         \/ FinishFetch(f)
  PROVE  Keeps(detail, detail') /\ UNCHANGED <<gateway, errors>>
<1> USE DEF DetailInv
<1>0. detail.last \in Instances \cup {NoInstance}
  BY DEF Tidy, Detail
<1>1. ASSUME NEW i \in Instances \cup {NoInstance}, RouteTo(i, f)
      PROVE  Keeps(detail, detail') /\ UNCHANGED <<gateway, errors>>
  <2> DEFINE d == [detail EXCEPT !.route = i]
  <2>1. /\ d \in Detail /\ d.intervals = IF d.polling THEN 1 ELSE 0
        /\ d.route = i /\ d.fetches = detail.fetches
    BY DEF Tidy, Detail
  <2>2. Keeps(d, LoadInstance(d, f, "load", i))
    BY <2>1, LoadTidy
  <2>3. QED
    BY <1>1, <2>1, <2>2 DEF RouteTo, Keeps
<1>2. CASE OpenQR(f)
  <2> DEFINE d == [detail EXCEPT !.showQR = TRUE]
  <2>1. Keeps(detail, d)
    BY DEF Keeps, Tidy, Detail
  <2>2. Keeps(d, LoadQR(d, f))
    BY <2>1, LoadQRTidy DEF Keeps
  <2>3. QED
    BY <1>2, <2>1, <2>2 DEF OpenQR, Keeps
<1>3. CASE PollQR(f)
  BY <1>0, <1>3, AskTidy DEF PollQR
<1>4. CASE ConfirmDelete(f)
  <2> DEFINE d == [detail EXCEPT !.question = NoInstance]
  <2>1. Keeps(detail, d)
    BY DEF Keeps, Tidy, Detail
  <2>2. Keeps(d, Ask(d, f, "delete", detail.last))
    BY <1>0, <2>1, AskTidy DEF Keeps, Presses
  <2>3. QED
    BY <1>4, <2>1, <2>2 DEF ConfirmDelete, Keeps
<1>5. ASSUME NEW does \in Presses, PressButton(does, f)
      PROVE  Keeps(detail, detail') /\ UNCHANGED <<gateway, errors>>
  BY <1>0, <1>5, AskTidy DEF PressButton
<1>6. CASE FinishFetch(f)
  <2> DEFINE d == [detail EXCEPT !.fetches[f] = Vacant]
             answer == detail.fetches[f]
  <2>1. Vacant \in Fetch /\ Sensible(Vacant)
    BY DEF Vacant, Fetch, Sensible
  <2>2. d.fetches = [detail.fetches EXCEPT ![f] = Vacant]
    BY DEF Tidy, Detail
  <2>3. Keeps(detail, d)
    BY <2>1, <2>2 DEF Keeps, Tidy, Detail
  <2>4. answer \in Fetch /\ Sensible(answer)
    BY DEF Tidy, Detail
  <2>5. Keeps(d, Finished(d, f, answer))
    BY <1>6, <2>3, <2>4, FinishedTidy DEF FinishFetch, Keeps
  <2>6. QED
    BY <1>6, <2>3, <2>5 DEF FinishFetch, Keeps
<1>7. QED
  BY <1>1, <1>2, <1>3, <1>4, <1>5, <1>6

LEMMA AnswerStep ==
  ASSUME DetailInv, NEW f \in Fetches, AnswerFetch(f)
  PROVE  DetailInv'
<1> DEFINE asked == detail.fetches[f]
           outcomes == IF asked.of = NoInstance THEN {} ELSE Outcome(asked.does, gateway[asked.of])
           Answered(stage, found) == [detail EXCEPT !.fetches[f].stage = stage, !.fetches[f].found = found]
<1>1. /\ asked \in Fetch /\ asked.stage = "asked"
      /\ asked.does \in {"load", "reload", "qr", "poll"} \cup Presses
  BY DEF DetailInv, Tidy, Detail, AnswerFetch, Sensible, Fetch
<1>2. ASSUME NEW stage \in {"answered", "failed"},
             NEW found \in Connection \cup {"nothing", "done", "code", "already_connected"},
             stage = "answered" /\ asked.does \in {"load", "reload"} => found \in Connection
      PROVE  Keeps(detail, Answered(stage, found))
  <2> DEFINE e == Answered(stage, found)
             answer == [asked EXCEPT !.stage = stage, !.found = found]
  <2>1. answer \in Fetch /\ Sensible(answer)
    BY <1>1, <1>2 DEF Fetch, Sensible, Presses
  <2>2. e.fetches = [detail.fetches EXCEPT ![f] = answer]
    BY DEF DetailInv, Tidy, Detail
  <2>3. Tidy(e)
    BY <2>1, <2>2 DEF DetailInv, Tidy, Detail
  <2>4. QED
    BY <2>1, <2>2, <2>3 DEF DetailInv, Keeps, Tidy, Detail
<1>3. ASSUME NEW outcome \in outcomes,
             gateway' = [gateway EXCEPT ![asked.of] = outcome.after],
             detail' = Answered("answered", outcome.found), UNCHANGED errors
      PROVE  DetailInv'
  <2>1. asked.of \in Instances /\ gateway[asked.of] \in Gateway
    BY <1>1, <1>3 DEF DetailInv, Fetch, Gateway
  <2>2. /\ outcome.after \in Gateway
        /\ outcome.found \in Connection \cup {"done", "code", "already_connected"}
        /\ asked.does \in {"load", "reload"} => outcome.found \in Connection
    BY <1>1, <1>3, <2>1, OutcomeSensible
  <2>3. Keeps(detail, detail')
    BY <1>2, <1>3, <2>2
  <2>4. QED
    BY <1>3, <2>2, <2>3 DEF DetailInv, Keeps, Gateway
<1>4. ASSUME errors' \in 0..MaxErrors, detail' = Answered("failed", "nothing"), UNCHANGED gateway
      PROVE  DetailInv'
  <2>1. Keeps(detail, detail')
    BY <1>2, <1>4
  <2>2. QED
    BY <1>4, <2>1 DEF DetailInv, Keeps
<1>5. Works => errors' \in 0..MaxErrors
  BY DEF Works, DetailInv
<1>6. Errs => errors' \in 0..MaxErrors
  BY InstancePageAssumption DEF Errs, DetailInv
<1>7. QED
  BY <1>3, <1>4, <1>5, <1>6 DEF AnswerFetch, Works

(* Every step keeps the invariant.                                         *)
LEMMA StepKeepsTidy ==
  ASSUME DetailInv, [DetailStep]_detailVars
  PROVE  DetailInv'
<1>1. ASSUME Keeps(detail, detail'), UNCHANGED <<gateway, errors>> PROVE DetailInv'
  BY <1>1 DEF DetailInv, Keeps
<1>2. CASE UNCHANGED detailVars
  BY <1>2 DEF DetailInv, detailVars, Tidy, Sensible
<1>3. ASSUME NEW f \in Fetches,
             \/ \E i \in Instances \cup {NoInstance} : RouteTo(i, f)
             \/ OpenQR(f) \/ PollQR(f) \/ ConfirmDelete(f)
             \/ \E does \in Presses : PressButton(does, f)
             \/ FinishFetch(f)
      PROVE  DetailInv'
  BY <1>1, <1>3, DetailSteps
<1>4. ASSUME NEW f \in Fetches, AnswerFetch(f) PROVE DetailInv'
  BY <1>4, AnswerStep
<1>5. CASE CloseQR
  <2> DEFINE d == [detail EXCEPT !.showQR = FALSE]
  <2>1. Keeps(detail, d)
    BY DEF DetailInv, Keeps, Tidy, Detail
  <2>2. Keeps(d, StopQRPolling(d))
    BY <2>1, StopTidy DEF Keeps
  <2>3. QED
    BY <1>1, <1>5, <2>1, <2>2 DEF CloseQR, Keeps
<1>6. CASE AskDelete
  <2>1. Keeps(detail, detail')
    BY <1>6 DEF AskDelete, DetailInv, Keeps, Tidy, Detail
  <2>2. QED
    BY <1>1, <1>6, <2>1 DEF AskDelete
<1>7. CASE CancelDelete
  <2>1. Keeps(detail, detail')
    BY <1>7 DEF CancelDelete, DetailInv, Keeps, Tidy, Detail
  <2>2. QED
    BY <1>1, <1>7, <2>1 DEF CancelDelete
<1>8. CASE ReloadDetail
  <2>1. Vacant \in Fetch /\ Sensible(Vacant)
    BY DEF Vacant, Fetch, Sensible
  <2>2. Keeps(detail, Empty(NoInstance))
    BY <2>1 DEF Keeps, Tidy, Detail, Empty
  <2>3. QED
    BY <1>1, <1>8, <2>2 DEF ReloadDetail
<1>9. ASSUME NEW i \in Instances, Event(i) PROVE DetailInv'
  <2> DEFINE g == gateway[i]
             Becomes(after) == gateway' = [gateway EXCEPT ![i] = after]
  <2>0. gateway \in [Instances -> Gateway] /\ g \in Gateway
    BY DEF DetailInv, Gateway
  <2>a. ASSUME NEW after \in Gateway, Becomes(after) PROVE gateway' \in [Instances -> Gateway]
    BY <2>0, <2>a
  <2>b. /\ [g EXCEPT !.paired = TRUE, !.status = "available"] \in Gateway
        /\ [g EXCEPT !.status = "available"] \in Gateway
        /\ [g EXCEPT !.socket = FALSE] \in Gateway
        /\ [g EXCEPT !.socket = FALSE, !.status = "disconnected"] \in Gateway
        /\ [g EXCEPT !.status = "disconnected"] \in Gateway
    BY <2>0 DEF Gateway, Connection
  <2>c. \/ Becomes([g EXCEPT !.paired = TRUE, !.status = "available"])
        \/ Becomes([g EXCEPT !.status = "available"])
        \/ Becomes([g EXCEPT !.socket = FALSE])
        \/ Becomes([g EXCEPT !.socket = FALSE, !.status = "disconnected"])
        \/ Becomes([g EXCEPT !.status = "disconnected"])
    BY <1>9 DEF Event
  <2> HIDE DEF g, Becomes
  <2>1. gateway' \in [Instances -> Gateway]
    BY <2>a, <2>b, <2>c
  <2>2. QED
    BY <1>9, <2>1 DEF Event, DetailInv, Gateway, Tidy, Sensible
<1>10. QED
  BY <1>2, <1>3, <1>4, <1>5, <1>6, <1>7, <1>8, <1>9 DEF DetailStep

LEMMA StartTidied == InitDetail => DetailInv
<1> SUFFICES ASSUME InitDetail PROVE DetailInv
  OBVIOUS
<1>1. Vacant \in Fetch /\ Sensible(Vacant)
  BY DEF Vacant, Fetch, Sensible
<1>2. Tidy(detail) /\ \A f \in Fetches : Sensible(detail.fetches[f])
  BY <1>1 DEF InitDetail, Empty, Tidy, Detail
<1>3. errors \in 0..MaxErrors
  BY InstancePageAssumption DEF InitDetail
<1>4. /\ [status |-> "disconnected", socket |-> FALSE, paired |-> FALSE] \in Gateway
      /\ [status |-> "available", socket |-> TRUE, paired |-> TRUE] \in Gateway
  BY DEF Gateway, Connection
<1>5. gateway \in [Instances -> Gateway]
  BY <1>4, Zenon DEF InitDetail
<1>6. QED
  BY <1>2, <1>3, <1>5 DEF DetailInv, Gateway

(* However loads of QR codes, polls and closings overlap (instanceDetailPage*)
(* of index.html), one interval runs at most and the page can stop it, and *)
(* while the page is routed to, the instance it has loaded last is the one *)
(* it is routed to: for any instances and any number of calls.             *)
THEOREM OneQRIntervalHolds == DetailSpec => []OneQRInterval
<1>1. DetailInv => OneQRInterval
  BY DEF DetailInv, Tidy, OneQRInterval
<1>2. QED
  BY <1>1, StartTidied, StepKeepsTidy, PTL DEF DetailSpec

(* The page's variables keep their types.                                  *)
THEOREM DetailTypeCorrect == DetailSpec => []DetailTypeOK
<1>1. DetailInv => DetailTypeOK
  BY DEF DetailInv, Gateway, Tidy, DetailTypeOK
<1>2. QED
  BY <1>1, StartTidied, StepKeepsTidy, PTL DEF DetailSpec
-----------------------------------------------------------------------------
(* The tenths that toFixed may give are integers, half a tenth away.       *)
LEMMA RoundedClosely ==
  ASSUME NEW n \in Nat, NEW unit \in Nat, unit # 0, NEW t \in ToFixed(n, unit)
  PROVE  t \in Int /\ 2 * (10 * n - t * unit) \in -unit..unit
<1>1. (10 * n) \div unit \in Int
  OBVIOUS
<1>2. t \in {(10 * n) \div unit, (10 * n) \div unit + 1}
      /\ 2 * (10 * n - t * unit) \in -unit..unit
  BY DEF ToFixed
<1> QED
  BY <1>1, <1>2

(* A unit is not used for a count below it, so half a tenth of the unit is *)
(* within a twentieth of the count.                                        *)
LEMMA NumberTold ==
  ASSUME count \in Nat
  PROVE  NumberIsTold
<1> SUFFICES ASSUME NEW f \in FormatNumber(count)
             PROVE  2 * (f.tenths * Unit[f.unit] - 10 * count) \in -count..count
  BY DEF NumberIsTold
<1>1. ASSUME NEW unit \in Nat, unit # 0, unit <= count, NEW t \in ToFixed(count, unit)
      PROVE  2 * (t * unit - 10 * count) \in -count..count
  <2>1. t \in Int /\ 2 * (10 * count - t * unit) \in -unit..unit
    BY <1>1, RoundedClosely
  <2>2. t * unit \in Int
    BY <2>1
  <2> DEFINE p == t * unit
  <2>3. 2 * (10 * count - p) \in -unit..unit /\ p \in Int
    BY <2>1, <2>2
  <2> HIDE DEF p
  <2>4. 2 * (p - 10 * count) \in -count..count
    BY <1>1, <2>3
  <2> QED
    BY <2>4 DEF p
<1>2. CASE count >= 1000000
  <2>1. PICK t \in ToFixed(count, 1000000) : f = [tenths |-> t, unit |-> "M"]
    BY <1>2 DEF FormatNumber
  <2>2. f.tenths = t /\ Unit[f.unit] = 1000000
    BY <2>1 DEF Unit
  <2> QED
    BY <1>1, <1>2, <2>2
<1>3. CASE count >= 1000 /\ ~(count >= 1000000)
  <2>1. PICK t \in ToFixed(count, 1000) : f = [tenths |-> t, unit |-> "K"]
    BY <1>3 DEF FormatNumber
  <2>2. f.tenths = t /\ Unit[f.unit] = 1000
    BY <2>1 DEF Unit
  <2> QED
    BY <1>1, <1>3, <2>2
<1>4. CASE ~(count >= 1000)
  <2>1. f = [tenths |-> 10 * count, unit |-> "plain"]
    BY <1>4 DEF FormatNumber
  <2>2. f.tenths = 10 * count /\ Unit[f.unit] = 1
    BY <2>1 DEF Unit
  <2> QED
    BY <2>2
<1> QED
  BY <1>2, <1>3, <1>4

(* One part alone, and four of them, joined.                               *)
LEMMA JoinedOne ==
  ASSUME NEW a
  PROVE  Seqs!FlattenSeq(<<a>>) = a
<1> DEFINE Loop(f) == f = [i \in 1..Len(<<a>>) |-> IF i = 1 THEN <<a>>[i] ELSE f[i - 1] \o <<a>>[i]]
<1>1. Seqs!FlattenSeq(<<a>>) = (CHOOSE f : Loop(f))[Len(<<a>>)]
  <2>1. Len(<<a>>) # 0
    OBVIOUS
  <2> QED
    BY <2>1, Zenon DEF Seqs!FlattenSeq
<1>2. Loop([i \in 1..Len(<<a>>) |-> a])
  OBVIOUS
<1>3. \A f : Loop(f) => f[Len(<<a>>)] = a
  OBVIOUS
<1> HIDE DEF Loop
<1> QED
  BY <1>1, <1>2, <1>3

LEMMA JoinedFour ==
  ASSUME NEW parts, Len(parts) = 4
  PROVE  Seqs!FlattenSeq(parts) = ((parts[1] \o parts[2]) \o parts[3]) \o parts[4]
<1> DEFINE a == parts[1]
           b == parts[2]
           c == parts[3]
           d == parts[4]
           Loop(f) == f = [i \in 1..Len(parts) |-> IF i = 1 THEN parts[i] ELSE f[i - 1] \o parts[i]]
           joined == [i \in 1..Len(parts) |-> IF i = 1 THEN a
                                              ELSE IF i = 2 THEN a \o b
                                              ELSE IF i = 3 THEN (a \o b) \o c
                                              ELSE ((a \o b) \o c) \o d]
<1>0. Len(parts) = 4 /\ parts[1] = a /\ parts[2] = b /\ parts[3] = c /\ parts[4] = d
  OBVIOUS
<1> HIDE DEF a, b, c, d
<1>1. Seqs!FlattenSeq(parts) = (CHOOSE f : Loop(f))[Len(parts)]
  <2>1. Len(parts) # 0
    BY <1>0
  <2> QED
    BY <2>1, Zenon DEF Seqs!FlattenSeq
<1>2. Loop(joined)
  <2>1. \A i \in 1..4 : i = 1 \/ i = 2 \/ i = 3 \/ i = 4
    OBVIOUS
  <2>2. joined[1] = a /\ joined[2] = a \o b /\ joined[3] = (a \o b) \o c
    BY <1>0
  <2>3. \A i \in 1..4 : joined[i] = IF i = 1 THEN parts[i] ELSE joined[i - 1] \o parts[i]
    BY <1>0, <2>1, <2>2
  <2>4. joined = [i \in 1..Len(parts) |-> joined[i]]
    OBVIOUS
  <2> HIDE DEF joined
  <2> QED
    BY <1>0, <2>3, <2>4, Zenon
<1> HIDE DEF joined
<1>3. \A f : Loop(f) => f[Len(parts)] = ((a \o b) \o c) \o d
  <2> SUFFICES ASSUME NEW f, Loop(f) PROVE f[4] = ((a \o b) \o c) \o d
    BY <1>0
  <2>1. \A i \in 1..4 : f[i] = IF i = 1 THEN parts[i] ELSE f[i - 1] \o parts[i]
    BY <1>0
  <2> HIDE DEF Loop
  <2>2. f[1] = parts[1]
    BY <2>1
  <2>3. f[2] = f[1] \o parts[2]
    <3>1. 2 \in 1..4 /\ 2 # 1 /\ 2 - 1 = 1
      OBVIOUS
    <3> QED
      BY <2>1, <3>1
  <2>4. f[3] = f[2] \o parts[3]
    <3>1. 3 \in 1..4 /\ 3 # 1 /\ 3 - 1 = 2
      OBVIOUS
    <3> QED
      BY <2>1, <3>1
  <2>5. f[4] = f[3] \o parts[4]
    <3>1. 4 \in 1..4 /\ 4 # 1 /\ 4 - 1 = 3
      OBVIOUS
    <3> QED
      BY <2>1, <3>1
  <2> QED
    BY <1>0, <2>2, <2>3, <2>4, <2>5, Zenon
<1> HIDE DEF Loop
<1>4. Seqs!FlattenSeq(parts) = ((a \o b) \o c) \o d
  BY <1>1, <1>2, <1>3
<1> QED
  BY <1>4 DEF a, b, c, d

(* The parts of a telephone number, one behind the other, are the number.  *)
LEMMA PhoneTold ==
  ASSUME NEW T, NEW s \in Seq(T)
  PROVE  Seqs!FlattenSeq(FormatPhone(s)) = s
<1> DEFINE Cut(n) == <<SubSeq(s, 1, 2), SubSeq(s, 3, 4), SubSeq(s, 5, n), SubSeq(s, n + 1, Len(s))>>
<1> DEFINE L == Len(s)
<1>1. ASSUME NEW n \in 5..11, L \in 12..13 PROVE Seqs!FlattenSeq(Cut(n)) = s
  <2> HIDE DEF L
  <2>0. /\ 1 \in 1..L + 1 /\ 2 \in 0..L /\ 4 \in 2..L /\ 4 \in 0..L
        /\ n \in 4..L /\ n \in 0..L /\ L \in n..L /\ 1 - 1 = 0 /\ 2 + 1 = 3 /\ 4 + 1 = 5
    BY <1>1
  <2>1. SubSeq(s, 1, 2) \o SubSeq(s, 3, 4) = SubSeq(s, 1, 4)
    BY <2>0, ConcatAdjacentSubSeq DEF L
  <2>2. SubSeq(s, 1, 4) \o SubSeq(s, 5, n) = SubSeq(s, 1, n)
    BY <2>0, ConcatAdjacentSubSeq DEF L
  <2>3. SubSeq(s, 1, n) \o SubSeq(s, n + 1, L) = SubSeq(s, 1, L)
    BY <2>0, ConcatAdjacentSubSeq DEF L
  <2>4. SubSeq(s, 1, L) = s
    BY SubSeqFull DEF L
  <2> DEFINE a == SubSeq(s, 1, 2)
             b == SubSeq(s, 3, 4)
             c == SubSeq(s, 5, n)
             d == SubSeq(s, n + 1, L)
  <2>5. Seqs!FlattenSeq(Cut(n)) = ((a \o b) \o c) \o d
    <3>1. /\ Len(Cut(n)) = 4
          /\ Cut(n)[1] = a /\ Cut(n)[2] = b /\ Cut(n)[3] = c /\ Cut(n)[4] = d
      BY DEF L
    <3> HIDE DEF Cut, a, b, c, d
    <3> QED
      BY <3>1, JoinedFour
  <2> QED
    BY <2>1, <2>2, <2>3, <2>4, <2>5, Zenon
<1>2. CASE Len(s) = 13
  <2>1. FormatPhone(s) = Cut(9)
    BY <1>2 DEF FormatPhone
  <2> HIDE DEF Cut
  <2> QED
    BY <1>1, <1>2, <2>1
<1>3. CASE Len(s) = 12
  <2>1. FormatPhone(s) = Cut(8)
    BY <1>3 DEF FormatPhone
  <2> HIDE DEF Cut
  <2> QED
    BY <1>1, <1>3, <2>1
<1>4. CASE Len(s) # 13 /\ Len(s) # 12
  <2>1. FormatPhone(s) = <<s>>
    BY <1>4 DEF FormatPhone
  <2> QED
    BY <2>1, JoinedOne
<1> QED
  BY <1>2, <1>3, <1>4

FigureInv == count \in Nat /\ phone \in Seq(Nat)

LEMMA StepKeepsFigures ==
  ASSUME FigureInv, [FigureStep]_figureVars
  PROVE  FigureInv'
<1>1. CASE Counted
  BY <1>1, FiguresAssumption DEF Counted, FigureInv
<1>2. CASE PhoneKnown
  <2>1. PICK n \in Digits : phone' = [i \in 1..n |-> i]
    BY <1>2 DEF PhoneKnown, Phone
  <2>2. n \in Nat /\ phone' \in [1..n -> Nat]
    BY <2>1, FiguresAssumption
  <2>3. phone' \in Seq(Nat)
    BY <2>2
  <2> QED
    BY <1>2, <2>3 DEF PhoneKnown, FigureInv
<1>3. CASE UNCHANGED figureVars
  BY <1>3 DEF figureVars, FigureInv
<1> QED
  BY <1>1, <1>2, <1>3 DEF FigureStep

(* What is shown for a count is within a twentieth of it, and a telephone  *)
(* number is shown whole (utils.js, formatNumber and formatPhone), for any *)
(* counts and numbers of any length.                                       *)
THEOREM FiguresAreToldHolds == FigureSpec => []FiguresAreTold
<1>1. InitFigures => FigureInv
  BY DEF InitFigures, FigureInv
<1>2. FigureInv /\ [FigureStep]_figureVars => FigureInv'
  BY StepKeepsFigures
<1>3. FigureInv => FiguresAreTold
  BY NumberTold, PhoneTold DEF FigureInv, FiguresAreTold
<1> QED
  BY <1>1, <1>2, <1>3, PTL DEF FigureSpec
-----------------------------------------------------------------------------
(* The parts together.                                                     *)
ConsoleInv == ShellInv /\ PageInv /\ DetailInv

LEMMA ConsoleStarts == Init => ConsoleInv
<1> SUFFICES ASSUME Init PROVE ConsoleInv
  OBVIOUS
<1>1. ShellInv
  <2>1. stored \in Stored /\ prefersDark \in BOOLEAN /\ shown = Loaded(stored, prefersDark)
    BY DEF Init, InitShell, Stored, Languages, Themes, None
  <2>2. SettingsInv
    BY <2>1, LoadedIsShown DEF SettingsInv
  <2> QED
    BY <2>2 DEF Init, InitShell, ShellInv, ToastInv, EveryToastGoes
<1>2. PageInv
  BY PageAssumption
     DEF Init, InitPage, PageInv, PageTypeOK, OneInterval, PageState, Load, Button, Statuses
<1>3. DetailInv
  BY StartTidied DEF Init
<1> QED
  BY <1>1, <1>2, <1>3 DEF ConsoleInv

(* A step of one part leaves the others as they are.                       *)
LEMMA ConsoleStep ==
  ASSUME ConsoleInv, [Next]_vars
  PROVE  ConsoleInv'
<1>1. [ShellStep]_shellVars /\ [PageStep]_pageVars /\ [DetailStep]_detailVars
  BY Zenon DEF Next, vars
<1> QED
  BY <1>1, StepKeepsShell, StepKeepsPace, StepKeepsTidy DEF ConsoleInv

(* What the console's stores, pages and dialogues hold keeps its type      *)
(* (app.js, i18n.js and the pages of index.html).                          *)
THEOREM TypeCorrect == Spec => []TypeOK
<1>1. ConsoleInv => TypeOK
  BY DEF ConsoleInv, ShellInv, ToastInv, SettingsInv, PageInv, DetailInv, Gateway, Tidy,
         TypeOK, ShellTypeOK, DetailTypeOK
<1> QED
  BY <1>1, ConsoleStarts, ConsoleStep, PTL DEF Spec
=============================================================================
