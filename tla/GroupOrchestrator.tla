-------------------------- MODULE GroupOrchestrator --------------------------
(***************************************************************************)
(* The GroupOrchestrator (internal/orchestrator/group.go) for one group:   *)
(* its cache of the group's strategy, its pause flag, and the selections   *)
(* that broadcast workers, message requests and the health monitor's       *)
(* failovers run concurrently.  Instances change status and connection at  *)
(* any time (InstanceLifecycle says how); what a budget has left changes   *)
(* only with a PATCH of its instance: no code of the gateway counts it.    *)
(***************************************************************************)
EXTENDS Strategy, FiniteSets

CONSTANTS
  Instances,     \* the instances of the group
  Selectors,     \* the selections that may run together
  Nobody,        \* no instance
  Profiles,      \* the columns the group's instances may have: functions from
                 \* Instances to [priority, born, day, hour]
  Reads,         \* may FindByID and the queries fail: {TRUE}, or BOOLEAN
  MaxUpdates,    \* bound: updates of the group's strategy
  MaxChanges,    \* bound: changes of an instance's row or connection
  MaxSends       \* bound: messages counted for one instance

ASSUME GroupAssumption ==
  /\ Nobody \notin Instances /\ IsFiniteSet(Instances)
  /\ Profiles \subseteq
       [Instances -> [priority : Int, born : Int, day : Int, hour : Int]]
  /\ TRUE \in Reads /\ Reads \subseteq BOOLEAN
  /\ MaxUpdates \in Nat /\ MaxChanges \in Nat /\ MaxSends \in Nat

VARIABLES
  strategy,      \* instance_groups.strategy
  columns,       \* instances.priority, created_at and the remaining budgets
  available,     \* the instances whose status is 'available'
  connected,     \* the instances whose connection is up
  strategies,    \* GroupOrchestrator.strategies' entry
  paused,        \* GroupOrchestrator.paused' entry
  sel,           \* each selection: see TypeOK
  updates, changes, sent

vars == <<strategy, columns, available, connected, strategies, paused, sel,
          updates, changes, sent>>
instances == <<columns, available, connected, changes>>
group == <<strategy, updates, paused>>

Row(i) == [id |-> i, priority |-> columns[i].priority, born |-> columns[i].born,
           day |-> columns[i].day, hour |-> columns[i].hour,
           status |-> IF i \in available THEN "available" ELSE "suspect"]
Rows == [id : Instances, priority : Int, born : Int, day : Int, hour : Int,
         status : {"available", "suspect"}]

(* A selection is for Nobody, or the failover of an instance; held is the  *)
(* strategy it got, rows what it chooses from, index what it chose, since  *)
(* the changes its query and its filter had not yet seen.                  *)
Selection ==
  [at : {"idle", "lookup", "row", "store", "query", "filter", "choose", "picked"},
   for : Instances \cup {Nobody}, held : Strategies \cup {"none"},
   rows : Seq(Rows), index : Nat, since : Nat]
NoSelection == [at |-> "idle", for |-> Nobody, held |-> "none", rows |-> <<>>,
                index |-> 0, since |-> 0]

TypeOK ==
  /\ strategy \in Strategies
  /\ columns \in Profiles
  /\ available \in SUBSET Instances
  /\ connected \in SUBSET Instances
  /\ strategies \in Strategies \cup {"none"}
  /\ paused \in BOOLEAN
  /\ sel \in [Selectors -> Selection]
  /\ \A s \in Selectors :
       /\ sel[s].index <= Len(sel[s].rows)
       /\ sel[s].since <= changes
  /\ updates \in 0 .. MaxUpdates
  /\ changes \in 0 .. MaxChanges
  /\ sent \in [Instances -> 0 .. MaxSends]

Init ==
  /\ strategy \in Strategies
  /\ columns \in Profiles
  /\ available \in SUBSET Instances
  /\ connected \in SUBSET Instances
  /\ strategies = "none"
  /\ paused = FALSE
  /\ sel = [s \in Selectors |-> NoSelection]
  /\ updates = 0 /\ changes = 0
  /\ sent = [i \in Instances |-> 0]
-----------------------------------------------------------------------------
Then(s, label) == sel' = [sel EXCEPT ![s].at = label]
Ends(s) == sel' = [sel EXCEPT ![s] = NoSelection]

(* SelectInstance (for Nobody): a paused group is refused.                 *)
BeginSelect(s) ==
  /\ sel[s].at = "idle" /\ ~paused
  /\ Then(s, "lookup")
  /\ UNCHANGED <<group, instances, strategies, sent>>

(* HandleInstanceFailure, for the instance the health monitor names.       *)
BeginFailover(s) ==
  /\ sel[s].at = "idle"
  /\ \E i \in Instances : sel' = [sel EXCEPT ![s].at = "lookup", ![s].for = i]
  /\ UNCHANGED <<group, instances, strategies, sent>>

(* getStrategy: the cache, or else the group's row ...                     *)
LookUpStrategy(s) ==
  /\ sel[s].at = "lookup"
  /\ IF strategies # "none"
     THEN sel' = [sel EXCEPT ![s].at = "query", ![s].held = strategies]
     ELSE Then(s, "row")
  /\ UNCHANGED <<group, instances, strategies, sent>>

FindGroup(s) ==
  /\ sel[s].at = "row"
  /\ \/ sel' = [sel EXCEPT ![s].at = "store", ![s].held = strategy]
     \/ FALSE \in Reads /\ Ends(s)
  /\ UNCHANGED <<group, instances, strategies, sent>>

(* ... which is cached, whoever has cached another one since.              *)
StoreStrategy(s) ==
  /\ sel[s].at = "store"
  /\ strategies' = sel[s].held
  /\ Then(s, "query")
  /\ UNCHANGED <<group, instances, sent>>

(* Every order of the rows of S that a query's ORDER BY allows.            *)
Ordered(S, Before(_, _)) ==
  {rows \in [1 .. Cardinality(S) -> {Row(i) : i \in S}] :
     \A m, n \in DOMAIN rows :
       m < n => rows[m].id # rows[n].id /\ Before(rows[m], rows[n])}

(* FindAvailableByGroupID: ORDER BY priority DESC.                         *)
ByPriority(r, t) == r.priority >= t.priority

(* FindByGroupID: ORDER BY priority DESC, created_at.                      *)
ByPriorityAndAge(r, t) ==
  r.priority > t.priority \/ (r.priority = t.priority /\ r.born <= t.born)

QueryInstances(s) ==
  /\ sel[s].at = "query"
  /\ \/ /\ sel[s].for = Nobody
        /\ \E rows \in Ordered(available, ByPriority) :
             sel' = [sel EXCEPT ![s].at = "filter", ![s].rows = rows, ![s].since = changes]
     \/ /\ sel[s].for # Nobody
        /\ \E rows \in Ordered(Instances, ByPriorityAndAge) :
             sel' = [sel EXCEPT ![s].at = "choose", ![s].since = changes,
                                ![s].rows = Candidates(rows, sel[s].for)]
     \/ FALSE \in Reads /\ Ends(s)
  /\ UNCHANGED <<group, instances, strategies, sent>>

(* Only instances that are connected now, in the query's order.            *)
FilterConnected(s) ==
  /\ sel[s].at = "filter"
  /\ sel' = [sel EXCEPT ![s].at = "choose",
               ![s].rows = Kept(@, {n \in DOMAIN @ : @[n].id \in connected})]
  /\ UNCHANGED <<group, instances, strategies, sent>>

(* The strategy's choice.                                                  *)
Choose(s) ==
  /\ sel[s].at = "choose"
  /\ sel' = [sel EXCEPT ![s].at = "picked",
               ![s].index = SelectInstance(sel[s].held, sel[s].rows)]
  /\ UNCHANGED <<group, instances, strategies, sent>>

Picked(s) == sel[s].rows[sel[s].index]

(* The caller sends through the chosen instance if it is still connected;  *)
(* a failover's outcome is only logged.                                  *)
UseSelection(s) ==
  /\ sel[s].at = "picked"
  /\ sent' = IF sel[s].for = Nobody /\ sel[s].index # 0 /\ Picked(s).id \in connected
                  /\ sent[Picked(s).id] < MaxSends
             THEN [sent EXCEPT ![Picked(s).id] = @ + 1] ELSE sent
  /\ Ends(s)
  /\ UNCHANGED <<group, instances, strategies>>

Select(s) ==
  \/ LookUpStrategy(s) \/ FindGroup(s) \/ StoreStrategy(s) \/ QueryInstances(s)
  \/ FilterConnected(s) \/ Choose(s) \/ UseSelection(s)

(* GroupHandler.Update writes the row and nothing else; InvalidateStrategy *)
(* has no caller.                                                          *)
UpdateGroup ==
  /\ updates < MaxUpdates
  /\ updates' = updates + 1
  /\ strategy' \in Strategies \ {strategy}
  /\ UNCHANGED <<instances, strategies, paused, sel, sent>>

SetPaused ==
  /\ paused' = ~paused
  /\ UNCHANGED <<strategy, updates, instances, strategies, sel, sent>>

(* An instance's status or its connection changes.                         *)
ChangeInstance(i) ==
  /\ changes < MaxChanges
  /\ changes' = changes + 1
  /\ \/ /\ available' \in {available \cup {i}, available \ {i}} \ {available}
        /\ UNCHANGED connected
     \/ /\ connected' \in {connected \cup {i}, connected \ {i}} \ {connected}
        /\ UNCHANGED available
  /\ UNCHANGED <<group, columns, strategies, sel, sent>>

(* InstanceHandler.Update: an instance's priority or its budgets change.   *)
UpdateInstance(i) ==
  /\ changes < MaxChanges
  /\ changes' = changes + 1
  /\ columns' \in {c \in Profiles \ {columns} :
                     /\ c[i].born = columns[i].born
                     /\ \A j \in Instances \ {i} : c[j] = columns[j]}
  /\ UNCHANGED <<group, available, connected, strategies, sel, sent>>

Next ==
  \/ \E s \in Selectors : BeginSelect(s) \/ BeginFailover(s) \/ Select(s)
  \/ UpdateGroup
  \/ SetPaused
  \/ \E i \in Instances : ChangeInstance(i) \/ UpdateInstance(i)

Spec == Init /\ [][Next]_vars
-----------------------------------------------------------------------------
(* A selection that has just chosen, and no instance has changed since its *)
(* query: what it chose can be held against the instances as they are.     *)
Fresh(s) == sel[s].at = "picked" /\ sel[s].since = changes

(* The selection's choice is one of these rows, or nothing if there are    *)
(* none.                                                                   *)
Chose(s, best) == IF best = {} THEN sel[s].index = 0
                  ELSE sel[s].index # 0 /\ Picked(s) \in best

(***************************************************************************)
(* Through the cache, the query, the filter and the scan, a selection      *)
(* chooses a best one of the instances that are both available and         *)
(* connected: the highest priority for failover, for the other strategies  *)
(* the largest remaining daily budget among those that also have an hourly *)
(* budget left; and it chooses none only if there is none.                 *)
(***************************************************************************)
PickIsBest ==
  \A s \in Selectors :
    Fresh(s) /\ sel[s].for = Nobody
      => Chose(s, BestOf(sel[s].held, {Row(i) : i \in available \cap connected}))

(***************************************************************************)
(* A failover's replacement is a best one of the other available           *)
(* instances, and of equally good ones under the failover strategy the     *)
(* oldest: what is reported does not depend on the order of the rows.     *)
(***************************************************************************)
ReplacementIsBest ==
  \A s \in Selectors :
    Fresh(s) /\ sel[s].for # Nobody
      => LET best == BestOf(sel[s].held, {Row(i) : i \in available \ {sel[s].for}})
         IN Chose(s, IF sel[s].held = "failover"
                     THEN {r \in best : \A other \in best : r.born <= other.born}
                     ELSE best)

(***************************************************************************)
(* Only the highest-priority available instance of a failover group is     *)
(* active: two selections with nothing changed in between agree on it.     *)
(***************************************************************************)
OneActiveInstance ==
  \A s, t \in Selectors :
    (\A u \in {s, t} : /\ Fresh(u) /\ sel[u].index # 0
                      /\ sel[u].for = Nobody /\ sel[u].held = "failover")
      => Picked(s).id = Picked(t).id

(***************************************************************************)
(* While no selection is under way the cached strategy, if there is one,   *)
(* is the row's: an update of the group takes effect.                      *)
(***************************************************************************)
CacheFollowsRow ==
  (\A s \in Selectors : sel[s].at = "idle") => strategies \in {"none", strategy}

(***************************************************************************)
(* A rotation sends no more through an instance than the daily budget it   *)
(* had left.                                                               *)
(***************************************************************************)
BudgetRespected ==
  strategies = "rotation" /\ updates = 0
    => \A i \in Instances : sent[i] <= columns[i].day
=============================================================================
