--------------------------- MODULE BroadcastsPage ---------------------------
(***************************************************************************)
(* The broadcasts page of the console (web/static/index.html,              *)
(* broadcastsPage): the list of the selected group, the loads of it in     *)
(* flight, the interval that repeats them, and the buttons of a broadcast. *)
(* The gateway and other clients change the broadcasts meanwhile; answers  *)
(* arrive in any order.  Each group has at most one broadcast here.        *)
(***************************************************************************)
EXTENDS Naturals, FiniteSets

CONSTANTS
  Groups,      \* the tenant's groups
  NoGroup,     \* nothing selected
  Loads,       \* bound: places for loads in flight
  MaxFailures  \* bound: calls that fail

ASSUME PageAssumption == NoGroup \notin Groups /\ MaxFailures \in Nat

VARIABLES
  server,      \* the status of each group's broadcast, or "none"
  page,        \* what the page holds
  failures

pageVars == <<server, page, failures>>

Statuses == {"none", "pending", "processing", "paused", "completed", "cancelled"}

(* The list shows the broadcast of `of`, with the status it had when the   *)
(* gateway answered.  A load is unanswered, or carries what was answered.  *)
(* `timer` is _refreshTimer, `intervals` counts the intervals that run.    *)
Listed == [of : Groups, status : Statuses]
NoList == [of |-> NoGroup, status |-> "none"]
Free == [stage |-> "free", of |-> NoGroup, status |-> "none"]
Load == {Free}
        \cup [stage : {"asked"}, of : Groups, status : {"none"}]
        \cup [stage : {"answered"}, of : Groups, status : Statuses]
        \cup [stage : {"failed"}, of : Groups, status : {"none"}]

(* A button's request: `does` is the call, `of` whose broadcast it is      *)
(* about; it is idle, under way, or has been answered.                     *)
Verbs == {"create", "pause", "resume", "cancel"}
Idle == [stage |-> "idle", does |-> "none", of |-> NoGroup]
Button == {Idle} \cup [stage : {"asked", "done"}, does : Verbs, of : Groups]

PageState ==
  [selected : Groups \cup {NoGroup}, list : Listed \cup {NoList}, loads : [Loads -> Load],
   timer : BOOLEAN, intervals : Nat, button : Button]

Active == {"pending", "processing"}

InitPage ==
  /\ server \in [Groups -> {"none", "processing", "paused"}]
  /\ page = [selected |-> NoGroup, list |-> NoList, loads |-> [l \in Loads |-> Free],
             timer |-> FALSE, intervals |-> 0, button |-> Idle]
  /\ failures = 0

(* A call answers with what it found, or fails.                            *)
Succeed == UNCHANGED failures
Fail == failures < MaxFailures /\ failures' = failures + 1
-----------------------------------------------------------------------------
(* Mutant: an interval is taken off whether there is one or not.           *)
StopAutoRefresh_Unchecked(p) == [p EXCEPT !.timer = FALSE, !.intervals = @ - 1]

StopAutoRefresh(p) ==
  IF p.timer THEN [p EXCEPT !.timer = FALSE, !.intervals = @ - 1] ELSE p

(* Mutant: the interval is set without stopping the one before.            *)
StartAutoRefresh_Stacks(p) ==
  IF p.list.status \in Active THEN [p EXCEPT !.timer = TRUE, !.intervals = @ + 1] ELSE p

StartAutoRefresh(p) ==
  LET stopped == StopAutoRefresh(p)
  IN  IF p.list.status \in Active
      THEN [stopped EXCEPT !.timer = TRUE, !.intervals = @ + 1]
      ELSE stopped

(* Mutant: a list that is there is not loaded again.                       *)
LoadBroadcasts_Once(p, load) ==
  IF p.selected = NoGroup
  THEN [p EXCEPT !.list = NoList]
  ELSE IF p.list.of = p.selected THEN p
  ELSE [p EXCEPT !.loads[load] = [stage |-> "asked", of |-> p.selected, status |-> "none"]]

(* loadBroadcasts up to its await: without a group the list is emptied,    *)
(* and an interval that runs goes on.                                      *)
LoadBroadcasts(p, load) ==
  IF p.selected = NoGroup
  THEN [p EXCEPT !.list = NoList]
  ELSE [p EXCEPT !.loads[load] = [stage |-> "asked", of |-> p.selected, status |-> "none"]]

CanLoad(load) == page.loads[load].stage = "free"

(* The select's @change; x-model has set selectedGroup.                    *)
Select(group, load) ==
  /\ group # page.selected /\ CanLoad(load)
  /\ page' = LoadBroadcasts([page EXCEPT !.selected = group], load)
  /\ UNCHANGED <<server, failures>>

(* The interval's callback.                                                *)
Tick(load) ==
  /\ page.intervals > 0 /\ CanLoad(load)
  /\ page' = LoadBroadcasts(page, load)
  /\ UNCHANGED <<server, failures>>

(* The gateway reads the rows, or the call fails on the way.               *)
AnswerLoad(load) ==
  LET asked == page.loads[load]
      Answer(stage, status) ==
        page' = [page EXCEPT !.loads[load] = [asked EXCEPT !.stage = stage, !.status = status]]
  IN  /\ asked.stage = "asked"
      /\ \/ Answer("answered", server[asked.of]) /\ Succeed
         \/ Answer("failed", "none") /\ Fail
      /\ UNCHANGED server

(* The rest of loadBroadcasts.  Whichever group is selected by now, the    *)
(* answer becomes the list; a failure leaves list and interval as they are.*)
FinishLoad(load) ==
  LET answer == page.loads[load]
      freed == [page EXCEPT !.loads[load] = Free]
  IN  /\ answer.stage \in {"answered", "failed"}
      /\ page' = IF answer.stage = "answered"
                 THEN StartAutoRefresh([freed EXCEPT !.list = [of |-> answer.of, status |-> answer.status]])
                 ELSE freed
      /\ UNCHANGED <<server, failures>>
-----------------------------------------------------------------------------
(* The buttons a broadcast shows, and the form that creates one.  A request*)
(* is sent to the group that is selected, which its handler does not       *)
(* compare with the broadcast's; without one it has no route, and nothing  *)
(* comes of it.                                                            *)
Offered(does) ==
  CASE does = "create" -> TRUE
    [] does = "pause"  -> page.list.status = "processing"
    [] does = "resume" -> page.list.status = "paused"
    [] does = "cancel" -> page.list.status \in {"processing", "paused"}

Press(does) ==
  /\ page.button = Idle /\ page.selected # NoGroup /\ Offered(does)
  /\ page' = [page EXCEPT !.button =
                [stage |-> "asked", does |-> does,
                 of |-> IF does = "create" THEN page.selected ELSE page.list.of]]
  /\ UNCHANGED <<server, failures>>

(* What a call makes of the broadcast: see Broadcast.                      *)
After(does) ==
  CASE does = "create" -> "pending"
    [] does = "pause"  -> "paused"
    [] does = "resume" -> "processing"
    [] does = "cancel" -> "cancelled"

(* The gateway has acted, and the answer is on its way; or nothing was     *)
(* done, and the button's catch shows an error.                            *)
AnswerButton ==
  /\ page.button.stage = "asked"
  /\ \/ /\ server' = [server EXCEPT ![page.button.of] = After(page.button.does)]
        /\ page' = [page EXCEPT !.button.stage = "done"]
        /\ Succeed
     \/ /\ page' = [page EXCEPT !.button = Idle]
        /\ Fail
        /\ UNCHANGED server

(* The toast, and the load that follows it.                                *)
FinishButton(load) ==
  /\ page.button.stage = "done" /\ CanLoad(load)
  /\ page' = LoadBroadcasts([page EXCEPT !.button = Idle], load)
  /\ UNCHANGED <<server, failures>>

(* refreshStatus: the status of the broadcast alone; the interval is left  *)
(* as it is.  The answer is merged at once (bound: not delayed).           *)
RefreshStatus ==
  /\ page.selected # NoGroup /\ page.list.status \in Active \cup {"paused"}
  /\ page' = [page EXCEPT !.list.status = server[page.list.of]]
  /\ UNCHANGED <<server, failures>>

(* The page is loaded again.                                               *)
ReloadPage ==
  /\ page' = [page EXCEPT !.selected = NoGroup, !.list = NoList, !.loads = [l \in Loads |-> Free],
                          !.timer = FALSE, !.intervals = 0, !.button = Idle]
  /\ UNCHANGED <<server, failures>>

(* The gateway works on a broadcast, or another client does.               *)
Progress(group) ==
  /\ \/ server[group] = "pending" /\ server' = [server EXCEPT ![group] = "processing"]
     \/ server[group] = "processing" /\ server' = [server EXCEPT ![group] = "completed"]
     \/ /\ server[group] # "none"
        /\ \E does \in {"pause", "resume", "cancel"} :
             server' = [server EXCEPT ![group] = After(does)]
  /\ UNCHANGED <<page, failures>>

PageStep ==
  \/ \E load \in Loads :
       \/ \E group \in Groups \cup {NoGroup} : Select(group, load)
       \/ Tick(load) \/ AnswerLoad(load) \/ FinishLoad(load) \/ FinishButton(load)
  \/ \E does \in Verbs : Press(does)
  \/ AnswerButton
  \/ RefreshStatus
  \/ ReloadPage
  \/ \E group \in Groups : Progress(group)

PageSpec == InitPage /\ [][PageStep]_pageVars

(* The browser keeps its interval, and calls end; nothing is assumed of    *)
(* buttons and of other clients.                                           *)
PageFairness ==
  \A load \in Loads :
    WF_pageVars(Tick(load)) /\ WF_pageVars(AnswerLoad(load)) /\ WF_pageVars(FinishLoad(load))
-----------------------------------------------------------------------------
PageTypeOK ==
  /\ server \in [Groups -> Statuses]
  /\ page \in PageState
  /\ failures \in 0..MaxFailures

(* However loads overlap, one interval runs at most, and it is the one that*)
(* the next answer can stop.                                               *)
OneInterval == page.intervals = IF page.timer THEN 1 ELSE 0

(* What is shown as running while an interval runs is caught up with: in   *)
(* whatever order the answers arrive, the list does not stay active when   *)
(* the broadcast is not.                                                   *)
ListCatchesUp ==
  \A group \in Groups :
    LET Outdated == /\ page.selected = group /\ page.list.of = group
                    /\ page.list.status \in Active /\ server[group] \notin Active
    IN  (Outdated /\ page.intervals > 0) ~> ~Outdated

(* Not true of the code (see the README): a broadcast shown as running is  *)
(* being refreshed.  refreshStatus may turn a paused one into a running one*)
(* and starts no interval.                                                 *)
ActiveIsWatched == page.list.status \in Active => page.timer

(* Not true of the code: when no load is under way, the list is that of the*)
(* selected group.  The answer that arrives last wins.                     *)
ListIsSelected ==
  (\A load \in Loads : page.loads[load] = Free) /\ page.list # NoList
    => page.list.of = page.selected
=============================================================================
