---------------------------- MODULE ConsoleShell ----------------------------
(***************************************************************************)
(* What every page of the console has in common: the toasts, the language  *)
(* and the theme (web/static/js/app.js, stores toast, lang and theme;      *)
(* i18n.js; utils.js).  A toast's id is the millisecond it was shown in, so*)
(* two toasts of one millisecond share an id.  Time is abstract: a timeout *)
(* fires at any moment after it was set.  Equal timeouts are one: the      *)
(* second finds nothing left to do.                                        *)
(***************************************************************************)
EXTENDS Naturals

CONSTANT MaxToasts      \* bound: milliseconds in which toasts are shown

ASSUME ShellAssumption == MaxToasts \in Nat

VARIABLES
  items,      \* store toast: the toasts on the screen
  timers,     \* the timeouts that are pending
  clock,      \* the last id given
  instant,    \* whether the millisecond of that id is still on
  copying,    \* whether a write to the clipboard is under way
  shown,      \* the tab: i18n's currentLang, the lang store's current, the
              \* language the labels were rendered in, the theme store, and
              \* whether the document has the class "dark"
  stored,     \* localStorage: wpp_lang and wpp_theme
  prefersDark \* the operating system's colour scheme

shellVars == <<items, timers, clock, instant, copying, shown, stored, prefersDark>>

Languages == {"pt", "en"}
Themes == {"dark", "light"}
None == "none"

(* `nth` tells the toasts of one millisecond apart; their order is left    *)
(* out.                                                                    *)
Toast == [id : Nat, nth : Nat, removing : BOOLEAN]
Timer == [id : Nat, does : {"dismiss", "remove"}]

Shown == [currentLang : Languages, current : Languages, labels : Languages,
          dark : BOOLEAN, class : BOOLEAN]
Stored == [lang : Languages \cup {None}, theme : Themes \cup {None}]
-----------------------------------------------------------------------------
(* theme.init, which runs twice when a tab loads and reads the same twice, *)
(* and i18n's first lines: what is stored wins over the defaults.          *)
ThemeOf(theme, preference) == IF theme = None THEN preference ELSE theme = "dark"
LangOf(lang) == IF lang = None THEN "pt" ELSE lang

Loaded(storage, preference) ==
  [currentLang |-> LangOf(storage.lang), current |-> LangOf(storage.lang),
   labels |-> LangOf(storage.lang),
   dark |-> ThemeOf(storage.theme, preference), class |-> ThemeOf(storage.theme, preference)]

InitShell ==
  /\ items = {} /\ timers = {} /\ clock = 0 /\ instant = FALSE /\ copying = FALSE
  /\ prefersDark \in BOOLEAN
  /\ stored = [lang |-> None, theme |-> None]
  /\ shown = Loaded(stored, prefersDark)

(* toast.show                                                              *)
ShowAs(id, nth) ==
  /\ items' = items \cup {[id |-> id, nth |-> nth, removing |-> FALSE]}
  /\ timers' = timers \cup {[id |-> id, does |-> "dismiss"]}
  /\ clock' = id

(* Within the millisecond of the last toast (bound: two of them), or later.*)
ShowToast ==
  /\ \/ instant /\ ShowAs(clock, 2)
     \/ clock < MaxToasts /\ ShowAs(clock + 1, 1)
  /\ instant' = TRUE
  /\ UNCHANGED <<shown, stored, prefersDark>>

(* Any code of the page may show one.                                      *)
Show == ShowToast /\ UNCHANGED copying

(* copyToClipboard: the promise is settled one way or the other.           *)
Copy == copying' = TRUE /\ UNCHANGED <<items, timers, clock, instant, shown, stored, prefersDark>>
Copied == copying /\ copying' = FALSE /\ ShowToast

(* Mutant: only the first toast of the id is marked.                       *)
Dismiss_First(id, rest) ==
  /\ items' = {IF t.id = id /\ t.nth = 1 THEN [t EXCEPT !.removing = TRUE] ELSE t : t \in items}
  /\ timers' = rest \cup {[id |-> id, does |-> "remove"]}

(* toast.dismiss: everything with this id is marked, and removed later.    *)
Dismiss(id, rest) ==
  /\ items' = {IF t.id = id THEN [t EXCEPT !.removing = TRUE] ELSE t : t \in items}
  /\ timers' = rest \cup {[id |-> id, does |-> "remove"]}

Remove(id, rest) ==
  /\ items' = {t \in items : t.id # id}
  /\ timers' = rest

(* A later millisecond.                                                    *)
Later ==
  /\ instant' = FALSE
  /\ UNCHANGED <<clock, copying, shown, stored, prefersDark>>

Fire(timer) ==
  /\ timer \in timers
  /\ IF timer.does = "dismiss"
     THEN Dismiss(timer.id, timers \ {timer})
     ELSE Remove(timer.id, timers \ {timer})
  /\ Later

(* The button of a toast.                                                  *)
Click(toast) == Dismiss(toast.id, timers) /\ Later
-----------------------------------------------------------------------------
UnchangedToasts == UNCHANGED <<items, timers, clock, instant, copying, prefersDark>>

(* lang.toggle and i18n's setLang.  t() reads a plain variable, which no   *)
(* label depends on: what is on the screen stays as it was rendered.       *)
SetLang(lang) ==
  /\ shown' = [shown EXCEPT !.current = lang, !.currentLang = lang]
  /\ stored' = [stored EXCEPT !.lang = lang]

ToggleLang == SetLang(IF shown.current = "pt" THEN "en" ELSE "pt") /\ UnchangedToasts

ToggleTheme ==
  /\ shown' = [shown EXCEPT !.dark = ~@, !.class = ~shown.dark]
  /\ stored' = [stored EXCEPT !.theme = IF shown.dark THEN "light" ELSE "dark"]
  /\ UnchangedToasts

(* The tab is loaded again: memory is lost, and storage read.              *)
ReloadShell ==
  /\ items' = {} /\ timers' = {} /\ instant' = FALSE /\ copying' = FALSE
  /\ shown' = Loaded(stored, prefersDark)
  /\ UNCHANGED <<clock, stored, prefersDark>>

(* The system changes its scheme; the page looks only when it is loaded.   *)
SchemeChanges ==
  /\ prefersDark' = ~prefersDark
  /\ UNCHANGED <<items, timers, clock, instant, copying, shown, stored>>

ShellStep ==
  \/ Show \/ Copy \/ Copied
  \/ \E timer \in timers : Fire(timer)
  \/ \E toast \in items : Click(toast)
  \/ ToggleLang \/ ToggleTheme
  \/ ReloadShell \/ SchemeChanges

ShellSpec == InitShell /\ [][ShellStep]_shellVars
-----------------------------------------------------------------------------
ShellTypeOK ==
  /\ items \subseteq Toast
  /\ timers \subseteq Timer
  /\ clock \in Nat /\ instant \in BOOLEAN /\ copying \in BOOLEAN
  /\ shown \in Shown /\ stored \in Stored /\ prefersDark \in BOOLEAN

(* Every toast on the screen has a timeout pending that takes it further:  *)
(* one that dismisses it, or, once it is marked, the one that removes it.  *)
(* Toasts of one millisecond share their id, and the timeout or the click  *)
(* that dismisses one of them dismisses both; neither stays for good.      *)
Due(toast) == [id |-> toast.id, does |-> IF toast.removing THEN "remove" ELSE "dismiss"]

EveryToastGoes == \A toast \in items : Due(toast) \in timers

(* Not true of the code (see the README): the labels speak the language    *)
(* that was chosen.                                                        *)
LabelsFollowLanguage == shown.labels = shown.currentLang
=============================================================================
