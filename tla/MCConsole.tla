------------------------------ MODULE MCConsole ------------------------------
(***************************************************************************)
(* TLC instances of the console's pages.  ConsoleShell, BroadcastsPage,    *)
(* InstancePage and Figures share no variable: a behaviour of the console  *)
(* interleaves one of each, and an invariant of any of them holds in the   *)
(* interleaving when it holds in its own part.  So TLC takes the sum of the*)
(* four and not the product: `part` says which of them moves.              *)
(***************************************************************************)
EXTENDS ConsoleShell, BroadcastsPage, InstancePage, Figures

VARIABLE part

vars == <<shellVars, pageVars, detailVars, figureVars, part>>

(* The parts that do not move start from one of their initial states.      *)
Init ==
  /\ InitShell /\ InitPage /\ InitDetail /\ InitFigures
  /\ part \in {"shell", "page", "detail", "figures"}
  /\ part # "shell" => ~prefersDark
  /\ part # "page" => \A group \in Groups : server[group] = "none"
  /\ part # "detail" => \A i \in Instances : ~gateway[i].paired

Next ==
  /\ \/ part = "shell" /\ ShellStep /\ UNCHANGED <<pageVars, detailVars, figureVars>>
     \/ part = "page" /\ PageStep /\ UNCHANGED <<shellVars, detailVars, figureVars>>
     \/ part = "detail" /\ DetailStep /\ UNCHANGED <<shellVars, pageVars, figureVars>>
     \/ part = "figures" /\ FigureStep /\ UNCHANGED <<shellVars, pageVars, detailVars>>
  /\ UNCHANGED part

(* Counts on both sides of every border of a unit and of a rounding.       *)
MCCounts ==
  {0, 1, 149, 999, 1000, 1049, 1050, 1051, 9999, 99949, 99950, 999949, 999950, 999999,
   1000000, 1049999, 1050000, 1050001, 99999999}

Spec == Init /\ [][Next]_vars
FairSpec ==
  /\ Spec
  /\ part = "page" => PageFairness
  /\ part = "detail" => DetailFairness

(* What the console's stores, pages and dialogues hold has its type.       *)
TypeOK == ShellTypeOK /\ PageTypeOK /\ DetailTypeOK
=============================================================================
