---------------------------- MODULE InstancePage ----------------------------
(***************************************************************************)
(* The page of one instance in the console (web/static/index.html,         *)
(* instanceDetailPage): the instance it shows, the dialogue with the QR    *)
(* code, the interval that asks whether the phone has been paired, and the *)
(* buttons, over the handlers of the gateway that answer them              *)
(* (internal/api/handler/instance.go).  Pages are hidden and not destroyed:*)
(* what this one holds survives a visit to another page or instance.       *)
(* How the gateway gets on with a connection is InstanceLifecycle's.       *)
(***************************************************************************)
EXTENDS Naturals, FiniteSets

CONSTANTS
  Instances,   \* the tenant's instances
  NoInstance,  \* no instance, JavaScript's null and undefined
  Fetches,     \* bound: places for calls in flight, as numbers
  MaxErrors    \* bound: calls that fail on the way

ASSUME InstancePageAssumption == NoInstance \notin Instances /\ Fetches \subseteq Nat /\ MaxErrors \in Nat

VARIABLES
  gateway,     \* each instance: its row's status, whether its websocket is
               \* open, and whether a phone is paired with it
  detail,      \* what the page holds
  errors

detailVars == <<gateway, detail, errors>>

Connection == {"disconnected", "connecting", "available"}

(* A call: what it does, about which instance, and what its answer says.   *)
(* "reload" is the load that loadQR waits for before it starts to poll.    *)
Vacant == [does |-> "nothing", stage |-> "free", of |-> NoInstance, found |-> "nothing"]
Presses == {"connect", "disconnect", "restart", "delete"}
Fetch ==
  [does : {"nothing", "load", "reload", "qr", "poll"} \cup Presses,
   stage : {"free", "asked", "answered", "failed"},
   of : Instances \cup {NoInstance},
   found : Connection \cup {"nothing", "done", "code", "already_connected"}]

(* `route` is the router's params.instanceId, `last` the page's _lastId,   *)
(* `qr` whose code qrData is, `polling` whether qrInterval is set,         *)
(* `intervals` counts those that run, and `question` says that the question*)
(* about a deletion is asked and of which instance it was, which no code   *)
(* reads.                                                                  *)
Detail ==
  [route : Instances \cup {NoInstance}, last : Instances \cup {NoInstance},
   shown : [of : Instances \cup {NoInstance}, status : Connection \cup {"nothing"}],
   showQR : BOOLEAN, qr : Instances \cup {NoInstance},
   polling : BOOLEAN, intervals : Nat,
   question : Instances \cup {NoInstance}, fetches : [Fetches -> Fetch]]

Empty(route) ==
  [route |-> route, last |-> NoInstance, shown |-> [of |-> NoInstance, status |-> "nothing"],
   showQR |-> FALSE, qr |-> NoInstance, polling |-> FALSE, intervals |-> 0,
   question |-> NoInstance, fetches |-> [f \in Fetches |-> Vacant]]

InitDetail ==
  /\ gateway \in [Instances -> {[status |-> "disconnected", socket |-> FALSE, paired |-> FALSE],
                                [status |-> "available", socket |-> TRUE, paired |-> TRUE]}]
  /\ detail = Empty(NoInstance)
  /\ errors = 0

Works == UNCHANGED errors
Errs == errors < MaxErrors /\ errors' = errors + 1
-----------------------------------------------------------------------------
Ask(d, f, does, of) ==
  [d EXCEPT !.fetches[f] = [does |-> does, stage |-> "asked", of |-> of, found |-> "nothing"]]

(* The first place that is free.                                           *)
CanAsk(f) ==
  detail.fetches[f].stage = "free" /\ \A g \in Fetches : g < f => detail.fetches[g].stage # "free"

(* load up to its await: the id that was loaded last is not loaded again.  *)
LoadInstance(d, f, does, instance) ==
  IF instance \in {NoInstance, d.last} THEN d ELSE Ask([d EXCEPT !.last = instance], f, does, instance)

(* _lastId = null, and a load of what is routed to by now.                 *)
LoadAgain(d, f, does) == LoadInstance([d EXCEPT !.last = NoInstance], f, does, d.route)

StopQRPolling(d) ==
  IF d.polling THEN [d EXCEPT !.polling = FALSE, !.intervals = @ - 1] ELSE d

(* Mutant: the interval before is not stopped.                             *)
StartQRPolling_Stacks(d) == [d EXCEPT !.polling = TRUE, !.intervals = @ + 1]

StartQRPolling(d) == [StopQRPolling(d) EXCEPT !.polling = TRUE, !.intervals = @ + 1]

(* loadQR up to its await.                                                 *)
LoadQR(d, f) == Ask([d EXCEPT !.qr = NoInstance], f, "qr", d.last)

(* The page is routed to, with the load that its x-effect starts, or left. *)
RouteTo(instance, f) ==
  /\ instance # detail.route /\ CanAsk(f)
  /\ detail' = LoadInstance([detail EXCEPT !.route = instance], f, "load", instance)
  /\ UNCHANGED <<gateway, errors>>

(* The button that shows the QR code, and the one that reloads it.         *)
OpenQR(f) ==
  /\ detail.route # NoInstance /\ CanAsk(f)
  /\ detail' = LoadQR([detail EXCEPT !.showQR = TRUE], f)
  /\ UNCHANGED <<gateway, errors>>

CloseQR ==
  /\ detail.route # NoInstance /\ detail.showQR
  /\ detail' = StopQRPolling([detail EXCEPT !.showQR = FALSE])
  /\ UNCHANGED <<gateway, errors>>

(* The interval's callback, up to its await.                               *)
PollQR(f) ==
  /\ detail.intervals > 0 /\ CanAsk(f)
  /\ detail' = Ask(detail, f, "poll", detail.last)
  /\ UNCHANGED <<gateway, errors>>

(* The buttons for what the page shows.                                    *)
PressButton(does, f) ==
  /\ detail.route # NoInstance /\ CanAsk(f)
  /\ \/ does = "connect" /\ detail.shown.status = "disconnected"
     \/ does = "disconnect" /\ detail.shown.status = "available"
     \/ does = "restart"
  /\ detail' = Ask(detail, f, does, detail.last)
  /\ UNCHANGED <<gateway, errors>>

(* The deletion asks first.  The dialogue stays whatever page is routed to,*)
(* and the callback deletes what was loaded last when it is confirmed.     *)
AskDelete ==
  /\ detail.route # NoInstance /\ detail.question = NoInstance
  /\ detail' = [detail EXCEPT !.question = detail.last]
  /\ UNCHANGED <<gateway, errors>>

CancelDelete ==
  /\ detail.question # NoInstance
  /\ detail' = [detail EXCEPT !.question = NoInstance]
  /\ UNCHANGED <<gateway, errors>>

ConfirmDelete(f) ==
  /\ detail.question # NoInstance /\ CanAsk(f)
  /\ detail' = Ask([detail EXCEPT !.question = NoInstance], f, "delete", detail.last)
  /\ UNCHANGED <<gateway, errors>>
-----------------------------------------------------------------------------
(* StartInstance refuses when a websocket is open, be it one that waits for*)
(* its QR code to be scanned.  What the handlers do and answer, as a set of*)
(* none or one: none is an error.                                          *)
Started(g) == [g EXCEPT !.socket = TRUE, !.status = "connecting"]

Outcome(does, g) ==
  IF g.status = "gone" THEN {} ELSE
  CASE does \in {"load", "reload", "poll"} -> {[after |-> g, found |-> g.status]}
    [] does \in {"qr", "connect"} /\ g.socket -> {}
    [] does = "qr" /\ ~g.socket ->
         {[after |-> Started(g), found |-> IF g.paired THEN "already_connected" ELSE "code"]}
    [] does = "connect" /\ ~g.socket -> {[after |-> Started(g), found |-> "done"]}
    [] does = "disconnect" ->
         {[after |-> [g EXCEPT !.socket = FALSE, !.status = "disconnected"], found |-> "done"]}
    [] does = "restart" -> {[after |-> Started(g), found |-> "done"]}
    [] does = "delete" ->
         {[after |-> [g EXCEPT !.socket = FALSE, !.status = "gone"], found |-> "done"]}

(* The gateway handles the call, and the answer is on its way; or the call *)
(* fails before it is handled.                                             *)
AnswerFetch(f) ==
  LET asked == detail.fetches[f]
      Answered(stage, found) == [detail EXCEPT !.fetches[f].stage = stage, !.fetches[f].found = found]
      outcomes == IF asked.of = NoInstance THEN {} ELSE Outcome(asked.does, gateway[asked.of])
  IN  /\ asked.stage = "asked"
      /\ \/ \E outcome \in outcomes :
              /\ gateway' = [gateway EXCEPT ![asked.of] = outcome.after]
              /\ detail' = Answered("answered", outcome.found)
              /\ Works
         \/ /\ IF outcomes = {} THEN Works ELSE Errs
            /\ detail' = Answered("failed", "nothing")
            /\ UNCHANGED gateway

(* Mutant: the dialogue is left open.                                      *)
Paired_StaysOpen(d, f) == LoadAgain(StopQRPolling(d), f, "load")

(* The interval's callback has learnt that the phone is paired.            *)
Paired(d, f) == LoadAgain(StopQRPolling([d EXCEPT !.showQR = FALSE]), f, "load")

(* The rest of loadQR.                                                     *)
GotQR(d, f, answer) ==
  IF answer.found = "code"
  THEN StartQRPolling([d EXCEPT !.qr = answer.of])
  ELSE LET closed == [d EXCEPT !.showQR = FALSE]
       IN  IF d.route = NoInstance
           THEN StartQRPolling([closed EXCEPT !.last = NoInstance])
           ELSE LoadAgain(closed, f, "reload")

(* What the callers do with an answer; every failure is a toast or nothing,*)
(* and load's own caller goes on.  After a restart that is three seconds   *)
(* later, which is no different from an answer that takes longer.          *)
Finished(d, f, answer) ==
  IF answer.stage = "failed"
  THEN IF answer.does = "reload" THEN StartQRPolling(d) ELSE d
  ELSE LET show == [d EXCEPT !.shown = [of |-> answer.of, status |-> answer.found]]
       IN  CASE answer.does = "load" -> show
             [] answer.does = "reload" -> StartQRPolling(show)
             [] answer.does = "qr" -> GotQR(d, f, answer)
             [] answer.does = "poll" -> IF answer.found = "available" THEN Paired(d, f) ELSE d
             [] answer.does = "connect" -> LoadQR([d EXCEPT !.showQR = TRUE], f)
             [] answer.does = "disconnect" -> [d EXCEPT !.shown.status = "disconnected"]
             [] answer.does = "restart" -> LoadAgain(d, f, "load")
             [] answer.does = "delete" -> [d EXCEPT !.route = NoInstance]

FinishFetch(f) ==
  /\ detail.fetches[f].stage \in {"answered", "failed"}
  /\ detail' = Finished([detail EXCEPT !.fetches[f] = Vacant], f, detail.fetches[f])
  /\ UNCHANGED <<gateway, errors>>

ReloadDetail ==
  /\ detail' = Empty(NoInstance)
  /\ UNCHANGED <<gateway, errors>>
-----------------------------------------------------------------------------
(* The phone is paired; the session comes up; a code expires; the          *)
(* connection is lost; the health monitor notices.                         *)
Event(i) ==
  LET g == gateway[i]
      Becomes(after) == gateway' = [gateway EXCEPT ![i] = after]
  IN  /\ \/ g.socket /\ ~g.paired /\ Becomes([g EXCEPT !.paired = TRUE, !.status = "available"])
         \/ g.socket /\ g.paired /\ g.status = "connecting" /\ Becomes([g EXCEPT !.status = "available"])
         \/ g.socket /\ ~g.paired /\ Becomes([g EXCEPT !.socket = FALSE])
         \/ g.socket /\ g.paired /\ Becomes([g EXCEPT !.socket = FALSE, !.status = "disconnected"])
         \/ ~g.socket /\ g.status = "connecting" /\ Becomes([g EXCEPT !.status = "disconnected"])
      /\ UNCHANGED <<detail, errors>>

DetailStep ==
  \/ \E f \in Fetches :
       \/ \E i \in Instances \cup {NoInstance} : RouteTo(i, f)
       \/ OpenQR(f) \/ PollQR(f) \/ ConfirmDelete(f)
       \/ \E does \in Presses : PressButton(does, f)
       \/ AnswerFetch(f) \/ FinishFetch(f)
  \/ CloseQR \/ AskDelete \/ CancelDelete \/ ReloadDetail
  \/ \E i \in Instances : Event(i)

DetailSpec == InitDetail /\ [][DetailStep]_detailVars

(* The browser keeps its interval, and calls end.  Fairness of the interval*)
(* is strong because the bound on places disables it, and nothing real.    *)
DetailFairness ==
  /\ SF_detailVars(\E f \in Fetches : PollQR(f))
  /\ \A f \in Fetches : WF_detailVars(AnswerFetch(f)) /\ WF_detailVars(FinishFetch(f))
-----------------------------------------------------------------------------
DetailTypeOK ==
  /\ gateway \in [Instances -> [status : Connection \cup {"gone"}, socket : BOOLEAN, paired : BOOLEAN]]
  /\ detail \in Detail
  /\ errors \in 0..MaxErrors

(* However loads of QR codes, polls and closings overlap, one interval runs*)
(* at most and the page can stop it; and while the page is routed to, what *)
(* polls and buttons are about is the instance it is routed to.            *)
OneQRInterval ==
  /\ detail.intervals = IF detail.polling THEN 1 ELSE 0
  /\ detail.route # NoInstance => detail.last = detail.route

(* An open dialogue that polls is closed once its instance is available,   *)
(* unless another instance is loaded, or this one goes away again.         *)
QRDialogCloses ==
  \A i \in Instances :
    LET Open == detail.showQR /\ detail.last = i /\ gateway[i].status = "available"
    IN  (Open /\ detail.intervals > 0) ~> ~Open

(* Not true of the code (see the README): an instance that waits for its   *)
(* phone gets a QR code.  The call that started it holds the websocket, and*)
(* the gateway refuses the next one.                                       *)
WaitingGetsCode ==
  [][\A f \in Fetches :
       LET asked == detail.fetches[f]
       IN  /\ asked.does = "qr" /\ asked.stage = "asked" /\ detail'.fetches[f].stage = "failed"
           /\ asked.of # NoInstance /\ errors' = errors
           => gateway[asked.of].paired \/ gateway[asked.of].status = "gone"]_detailVars

(* Not true of the code: the dialogue shows no other instance's QR code.   *)
CodeIsOfRouted ==
  detail.showQR /\ detail.route # NoInstance => detail.qr \in {NoInstance, detail.route}

(* Not true of the code: the interval runs only while its dialogue is open.*)
PollsForDialog == detail.intervals > 0 => detail.showQR

(* Not true of the code: what is deleted is what the question was about.   *)
DeletesWhatWasAsked ==
  [][\A f \in Fetches :
       detail'.fetches[f].does = "delete" /\ detail.fetches[f].does # "delete"
         => detail'.fetches[f].of = detail.question]_detailVars
=============================================================================
