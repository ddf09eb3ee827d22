---------------------------- MODULE AbstractPlan ----------------------------
(***************************************************************************)
(* What query planning promises, independent of how the plan is searched:  *)
(* starting from the WhereLoop candidates of a join, sqlite4WhereBegin     *)
(* either ends with a join order that uses one candidate per FROM table    *)
(* and runs every candidate after the tables it depends on, or reports     *)
(* "no query solution", and it does the latter only when no such order     *)
(* exists.  Planning always ends.                                           *)
(***************************************************************************)
EXTENDS Integers, Sequences, FiniteSets

CONSTANTS
  Tables,   \* the FROM-clause tables
  Loops     \* the WhereLoop candidates: records with tab and prereq

VARIABLES
  status,   \* "planning", "done" or "error"
  plan      \* the chosen join order, as indices into Loops

\* The tables a partial join order has visited.
Visited(p) == {Loops[p[k]].tab : k \in 1..Len(p)}

\* The candidates that may run next: a table not yet visited, whose
\* prerequisites the order has already supplied.
Usable(p) ==
  {l \in DOMAIN Loops : Loops[l].tab \notin Visited(p)
                        /\ Loops[l].prereq \subseteq Visited(p)}

\* The join orders of k loops, one loop per table, each loop after the
\* tables it depends on.
RECURSIVE Orders(_)
Orders(k) ==
  IF k = 0 THEN {<< >>}
  ELSE UNION {{Append(p, l) : l \in Usable(p)} : p \in Orders(k - 1)}

ValidPlans == Orders(Cardinality(Tables))

Init == status = "planning" /\ plan = << >>

Choose ==
  /\ status = "planning"
  /\ \E p \in ValidPlans : plan' = p
  /\ status' = "done"

Fail ==
  /\ status = "planning"
  /\ ValidPlans = {}
  /\ status' = "error"
  /\ UNCHANGED plan

Next == Choose \/ Fail

vars == <<status, plan>>

Safety == Init /\ [][Next]_vars

\* Next is enabled in every "planning" state (Choose when a valid plan
\* exists, Fail otherwise), so weak fairness amounts to leaving "planning".
Terminates == <>(status # "planning")

Spec == Safety /\ WF_vars(Next)
=============================================================================
