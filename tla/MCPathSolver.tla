---------------------------- MODULE MCPathSolver ----------------------------
(***************************************************************************)
(* A four-way join for the path solver.  Each table has a one-row loop     *)
(* (rowid or unique-key equality) and a scan loop, so that after two       *)
(* generations up to twelve (maskLoop, isOrderedValid) classes compete for *)
(* mxChoice = 10 slots and the worst path is evicted.  ORDER BY names one  *)
(* column of every table, so paths made only of one-row loops stay        *)
(* "cannot tell yet" (-1) until the last table joins.                      *)
(***************************************************************************)
EXTENDS PathSolver

MCTables == {"A", "B", "C", "D"}

MCOrderBy ==
  [i \in 1..4 |-> [isCol |-> TRUE, tab |-> <<"A", "B", "C", "D">>[i],
                   col |-> "x", desc |-> i = 3,
                   usage |-> {<<"A", "B", "C", "D">>[i]}]]

MCEqTerms == {[tab |-> "B", col |-> "x", prereq |-> {"A"}]}

MCNotNull == {<<"A", "x">>, <<"C", "x">>}

Col(c, r) == [col |-> c, rev |-> r]

\* A WhereLoop record as whereLoopAddAll leaves it in pWInfo->pLoops
\* (rRun is a variable of PathSolver).
Loop(t, pre, out, one, idx, uniq, cols, nEq, ops) ==
  [tab |-> t, prereq |-> pre, rSetup |-> 0, nOut |-> out,
   oneRow |-> one, vtab |-> FALSE, vtabOrdered |-> FALSE, idx |-> idx,
   unique |-> uniq, cols |-> cols, nEq |-> nEq, eqOps |-> ops]

\* Rowid or unique-key equality lookup.
OneRow(t, pre) ==
  Loop(t, pre, 0, TRUE, "index", TRUE, <<Col("pk", FALSE)>>, 1, <<"EQ">>)

\* Scan loops: A over index (x, pk); B over index (x, pk); C over a unique
\* index (x DESC, pk); D by a full scan of the table b-tree.  B has a second
\* one-row loop, the lookup B.pk = A.y, which must run after A.
ScanA == Loop("A", {}, 40, FALSE, "index", FALSE,
              <<Col("x", FALSE), Col("pk", FALSE)>>, 0, << >>)
ScanB == Loop("B", {}, 20, FALSE, "index", FALSE,
              <<Col("x", FALSE), Col("pk", FALSE)>>, 0, << >>)
ScanC == Loop("C", {}, 40, FALSE, "index", TRUE,
              <<Col("x", TRUE), Col("pk", FALSE)>>, 0, << >>)
ScanD == Loop("D", {}, 50, FALSE, "none", FALSE, << >>, 0, << >>)

MCLoops == << OneRow("A", {}), ScanA, OneRow("B", {}), ScanB,
              OneRow("C", {}), ScanC, OneRow("D", {}), ScanD, OneRow("B", {"A"}) >>

\* The run costs of the four one-row loops vary between cheap and dear.
MCRunChoices ==
  { <<a, 50, b, 40, c, 55, d, 66, 10>> :
      a \in {20, 60}, b \in {20, 60}, c \in {20, 60}, d \in {20, 60} }

MCNQueryLoopChoices == {0, 60}

(***************************************************************************)
(* Properties.                                                             *)
(***************************************************************************)
PathType ==
  [maskLoop : SUBSET Tables, revLoop : SUBSET Nat, aLoop : Seq(Nat),
   nRow : 0..65535, rCost : 0..65535, isOrdered : BOOLEAN,
   isOrderedValid : BOOLEAN]

TypeOK ==
  /\ pc \in {"begin", "solve", "return", "done"}
  /\ pass \in 0..2 /\ iLoop \in 0..nLoop
  /\ aFrom \in Seq(PathType) /\ aTo \in Seq(PathType)
  /\ Len(aFrom) <= mxChoice /\ Len(aTo) <= mxChoice
  /\ mxCost \in 0..65535 /\ rc \in {"ok", "error"}

\* The solver ends with at most one path (assert(nFrom==1) before loading
\* aFrom[0]): the satisfier never answers "cannot tell" for a complete
\* join, so no second class of full paths survives to be silently ignored
\* by the disabled search for the cheapest one.
FinalSinglePath ==
  (pc = "solve" /\ iLoop = nLoop) => Len(aFrom) <= 1

\* Every extension the solver prices in one generation.
Candidates ==
  {Extend(aFrom[iw[1]], iw[2]) :
     iw \in {iw \in (1..Len(aFrom)) \X DOMAIN Loops :
               Usable(aFrom[iw[1]].maskLoop, iw[2])}}

ClassOf(p) == <<p.maskLoop, p.isOrderedValid>>
BestCost(cands, c) == SetMin({n.rCost : n \in {n \in cands : ClassOf(n) = c}})

\* When a generation is complete, aTo holds the mxChoice cheapest classes
\* of paths (a class is a (maskLoop, isOrderedValid) pair), each at the
\* cheapest cost priced for it: neither the skip test against mxCost, nor
\* the eviction of the entry found by scanning down to cost mxCost, nor the
\* in-place update of a class ever keeps a worse path over a better one.
GenerationKeepsBest ==
  (pc = "solve" /\ iLoop < nLoop /\ ii > Len(aFrom))
    => \A cands \in {Candidates} :
       LET classes == {ClassOf(n) : n \in cands}
           kept    == {ClassOf(aTo[j]) : j \in 1..Len(aTo)}
       IN  /\ Len(aTo) = IF Cardinality(classes) < mxChoice
                         THEN Cardinality(classes) ELSE mxChoice
           /\ \A j \in 1..Len(aTo) : aTo[j].rCost = BestCost(cands, ClassOf(aTo[j]))
           /\ \A c \in classes \ kept : \A j \in 1..Len(aTo) :
                BestCost(cands, c) >= aTo[j].rCost

\* The solver together with its two calls from sqlite4WhereBegin
\* implements the abstract planner: it ends, its plan is a valid join
\* order, and it reports "no query solution" only when none exists.
AP == INSTANCE AbstractPlan
        WITH Tables <- Tables, Loops <- Loops,
             status <- IF pc # "done" THEN "planning"
                       ELSE IF rc = "error" THEN "error" ELSE "done",
             plan <- IF pc = "done" /\ rc = "ok" THEN plan ELSE << >>

ImplementsAbstractPlan == AP!Safety /\ AP!Terminates
=============================================================================
