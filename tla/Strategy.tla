------------------------------ MODULE Strategy ------------------------------
(***************************************************************************)
(* How a group chooses an instance: the scans of strategy_failover.go,     *)
(* strategy_rotation.go and strategy_hybrid.go (internal/orchestrator), as *)
(* functions of a sequence of instance rows.  A row is a record with id,   *)
(* status, priority and the remaining daily and hourly budgets, day and    *)
(* hour.  The result is an index; 0 stands for the error "no instance".    *)
(***************************************************************************)
EXTENDS Integers, Sequences

Strategies == {"failover", "rotation", "hybrid"}

(* The loop over n rows, of which only those in fit count: best[i] is what *)
(* it holds after row i, the first of the rows worth the most so far.      *)
Scan(fit, worth, n) ==
  LET best[i \in 0 .. n] ==
        IF i = 0 THEN 0
        ELSE IF i \in fit /\ (best[i - 1] = 0 \/ worth[i] > worth[best[i - 1]]) THEN i
        ELSE best[i - 1]
  IN best[n]

(* FailoverStrategy: an empty slice is an error.  Mutant: the slice's      *)
(* first row is taken without asking whether there is one.                 *)
Priorities(s) == [i \in DOMAIN s |-> s[i].priority]
Failover_NoEmptyCheck(s) ==
  IF s = <<>> THEN 1 ELSE Scan(DOMAIN s, Priorities(s), Len(s))
Failover(s) == Scan(DOMAIN s, Priorities(s), Len(s))

(* RotationStrategy: a row without daily or hourly budget is skipped, and  *)
(* bestRemaining starts below every budget.  Mutant: the hourly budget is  *)
(* not looked at.                                                          *)
HasBudget_DailyOnly(row) == row.day > 0
HasBudget(row) == row.day > 0 /\ row.hour > 0

Rotation(s) ==
  Scan({i \in DOMAIN s : HasBudget(s[i])}, [i \in DOMAIN s |-> s[i].day], Len(s))

(* HybridStrategy delegates to its RotationStrategy.                       *)
SelectInstance(strategy, s) == IF strategy = "failover" THEN Failover(s) ELSE Rotation(s)

(* The slice a loop builds by appending the rows of s at these indices.    *)
Kept(s, indices) ==
  LET slice[i \in 0 .. Len(s)] ==
        IF i = 0 THEN <<>>
        ELSE IF i \in indices THEN Append(slice[i - 1], s[i])
        ELSE slice[i - 1]
  IN slice[Len(s)]

(* OnInstanceFailed, whose choice among these rows is SelectInstance's:    *)
(* the available rows but the failed one.  Mutant: the failed instance is  *)
(* not left out.                                                           *)
Candidates_KeepFailed(s, failed) == Kept(s, {i \in DOMAIN s : s[i].status = "available"})
Candidates(s, failed) ==
  Kept(s, {i \in DOMAIN s : s[i].id # failed /\ s[i].status = "available"})
-----------------------------------------------------------------------------
(* What a choice among the rows of a set should be, without a scan.        *)

Worth(strategy, row) == IF strategy = "failover" THEN row.priority ELSE row.day

(* The rows of S that have a budget, if the strategy looks at it, and are  *)
(* worth no less than any other such row.                                  *)
BestOf(strategy, S) ==
  LET Fit == {r \in S : strategy = "failover" \/ (r.day > 0 /\ r.hour > 0)}
  IN {r \in Fit : \A other \in Fit : Worth(strategy, other) <= Worth(strategy, r)}
=============================================================================
