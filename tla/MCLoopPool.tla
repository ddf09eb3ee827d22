----------------------------- MODULE MCLoopPool -----------------------------
(***************************************************************************)
(* Candidates of one table T whose loops may depend on outer tables X, Y.  *)
(* Slot 0 (iSortIdx 0) holds an automatic index on T.c = X.c and the full *)
(* scan of the PK; slot 1 holds the loops of an index i1 that might help   *)
(* the ORDER BY: the plain scan, probes by X, by Y or by a constant, a     *)
(* two-term probe by X (rule (5) against the one-term probe) and a probe   *)
(* needing both X and Y.  The OR triples are the costs of one OR sub-term *)
(* for five outer dependencies, enough to overfill a WhereOrSet of         *)
(* N_OR_COST = 3.                                                          *)
(***************************************************************************)
EXTENDS LoopPool

Tmpl(slot, pre, setup, run, nLT, idx) ==
  [iTab |-> "T", iSortIdx |-> slot, prereq |-> pre, rSetup |-> setup,
   rRun |-> run, nOut |-> 10, nLTerm |-> nLT, pIndex |-> idx]

AutoX  == Tmpl(0, {"X"}, 30, 20, 1, "none")      \* automatic index
FullPk == Tmpl(0, {}, 0, 60, 0, "pk")            \* full scan of the PK
I1Scan == Tmpl(1, {}, 0, 50, 0, "i1")            \* i1 scan for ORDER BY
I1X    == Tmpl(1, {"X"}, 0, 25, 1, "i1")         \* i1.a = X.a
I1XB   == Tmpl(1, {"X"}, 0, 30, 2, "i1")         \* i1.a = X.a AND i1.b = 5
I1Y    == Tmpl(1, {"Y"}, 0, 25, 1, "i1")         \* i1.a = Y.a
I1XY   == Tmpl(1, {"X", "Y"}, 0, 25, 1, "i1")    \* i1.a = X.a + Y.a
I1K    == Tmpl(1, {}, 0, 22, 1, "i1")            \* i1.a = 7

MCTemplates == {AutoX, FullPk, I1Scan, I1X, I1XB, I1Y, I1XY, I1K}

Triple(pre, run, out) == [prereq |-> pre, rRun |-> run, nOut |-> out]

MCOrTriples ==
  { Triple({"X"}, 20, 10), Triple({"Y"}, 30, 12), Triple({"Z"}, 40, 14),
    Triple({}, 15, 20), Triple({"X", "Y"}, 35, 5), Triple({"W"}, 10, 30) }

(***************************************************************************)
(* Properties.                                                             *)
(***************************************************************************)
TypeOK ==
  /\ pool \in Seq(Templates) /\ offered \subseteq Templates
  /\ orOffered \subseteq OrTriples /\ Len(orSet) <= N_OR_COST
  /\ \A i \in 1..Len(orSet) :
       orSet[i].prereq \subseteq UNION {x.prereq : x \in OrTriples}

\* Dominance as spec.md (section 4.4.5) defines it: E dominates C.
Dominates(e, c) ==
  /\ e.iTab = c.iTab /\ e.iSortIdx = c.iSortIdx
  /\ e.prereq \subseteq c.prereq /\ e.rSetup <= c.rSetup /\ e.rRun <= c.rRun

\* Pruning never makes a join order impossible: for every template that
\* was offered, pLoops keeps a loop of the same table and sort index that
\* needs no outer table the template did not need.  Replacing, skipping
\* and the prefix rule of whereLoopInsert must all respect dependencies.
PrereqCoverage ==
  \A t \in offered : \E j \in 1..Len(pool) :
    pool[j].iTab = t.iTab /\ pool[j].iSortIdx = t.iSortIdx
    /\ pool[j].prereq \subseteq t.prereq

\* whereLoopInsert only appends a loop after scanning every loop of its
\* slot: a loop it appends is never dominated by one already in pLoops.
NoDominatedAppend ==
  [][Len(pool') > Len(pool) =>
       \A j \in 1..Len(pool) : ~Dominates(pool[j], pool'[Len(pool')])]_vars

\* While the WhereOrSet has room, whereOrInsert loses nothing: every triple
\* inserted so far is matched by an entry as cheap with no more
\* prerequisites (overwrites and rejections keep this).
OrCoverageWhileNotFull ==
  Len(orSet) < N_OR_COST =>
    \A x \in orOffered : \E i \in 1..Len(orSet) :
      orSet[i].rRun <= x.rRun /\ orSet[i].prereq \subseteq x.prereq

\* The comment of whereOrInsert: pSet keeps the N_OR_COST best entries seen
\* so far.  A triple may be dropped only for entries that match it, or
\* when the set is full of entries at most as costly.
OrSetKeepsBest ==
  \A x \in orOffered :
    \/ \E i \in 1..Len(orSet) :
         orSet[i].rRun <= x.rRun /\ orSet[i].prereq \subseteq x.prereq
    \/ Len(orSet) = N_OR_COST /\ \A i \in 1..Len(orSet) : orSet[i].rRun <= x.rRun
=============================================================================
