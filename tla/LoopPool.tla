------------------------------ MODULE LoopPool ------------------------------
(***************************************************************************)
(* The WhereLoop candidate pool of src/src/where.c.  whereLoopInsert adds  *)
(* a template WhereLoop to pWInfo->pLoops, replacing or skipping a loop    *)
(* that it is compared with; with pBuilder->pOrSet set it instead hands    *)
(* the template's (prereq, rRun, nOut) to whereOrInsert, which keeps the   *)
(* N_OR_COST best triples of an OR sub-term in a WhereOrSet.               *)
(*                                                                         *)
(* A template is a record: iTab, iSortIdx, prereq (a set of tables),       *)
(* rSetup, rRun, nOut (WhereCosts), nLTerm and pIndex ("none" when         *)
(* WHERE_INDEXED is clear, else the index).  pLoops is a sequence in list  *)
(* order.  The builders emit every template once, so each is inserted at   *)
(* most once; offered and orOffered record what was inserted.              *)
(***************************************************************************)
EXTENDS Integers, Sequences, FiniteSets

CONSTANTS
  Templates,   \* the templates whereLoopAddBtree & co. build
  OrTriples,   \* the (prereq, rRun, nOut) triples handed to whereOrInsert
  N_OR_COST    \* capacity of a WhereOrSet (3 in the code)

VARIABLES
  pool,        \* pWInfo->pLoops
  offered,     \* templates inserted so far
  orSet,       \* pSet->a[0..n-1] of the WhereOrSet
  orOffered    \* triples inserted so far

vars == <<pool, offered, orSet, orOffered>>

(***************************************************************************)
(* whereLoopInsert with pBuilder->pOrSet == 0.                             *)
(***************************************************************************)

\* Conditions (1) and (2): loops with another iTab or iSortIdx are never
\* compared.
SameSlot(p, t) == p.iTab = t.iTab /\ p.iSortIdx = t.iSortIdx

\* p is equal or better than the template in dependencies, setup and run
\* cost (the first branch of the scan).
CoversStrict(p, t) ==
  p.prereq \subseteq t.prereq /\ p.rSetup <= t.rSetup /\ p.rRun < t.rRun
Covers(p, t) ==
  p.prereq \subseteq t.prereq /\ p.rSetup <= t.rSetup /\ p.rRun <= t.rRun

\* Condition (5): the template uses more terms of the same index with the
\* same dependencies.
MoreTerms(p, t) ==
  /\ p.nLTerm < t.nLTerm
  /\ p.pIndex # "none" /\ t.pIndex # "none" /\ p.pIndex = t.pIndex
  /\ p.prereq = t.prereq

\* The template is no worse than p in every respect (the second branch).
ImprovesReversed(p, t) ==
  p.prereq \subseteq t.prereq /\ p.rRun >= t.rRun /\ p.rSetup >= t.rSetup
Improves(p, t) ==
  t.prereq \subseteq p.prereq /\ p.rRun >= t.rRun /\ p.rSetup >= t.rSetup

\* The loop over pWInfo->pLoops from position j: the first loop of the same
\* slot that either branch applies to decides.  Result: [kind |-> "noop",
\* "replace" or "append", at |-> the position written].
RECURSIVE InsertScan(_, _, _)
InsertScan(loops, t, j) ==
  IF j > Len(loops) THEN [kind |-> "append", at |-> j]
  ELSE LET p == loops[j] IN
       IF ~SameSlot(p, t) THEN InsertScan(loops, t, j + 1)
       ELSE IF Covers(p, t)
            THEN IF MoreTerms(p, t) THEN [kind |-> "replace", at |-> j]
                 ELSE [kind |-> "noop", at |-> j]
       ELSE IF Improves(p, t) THEN [kind |-> "replace", at |-> j]
       ELSE InsertScan(loops, t, j + 1)

\* whereLoopAddBtree generates and inserts the automatic-index loops of a
\* table before its other loops (the order SETUP-INVARIANT relies on).
SetupOrder(t) ==
  t.rSetup > 0 => \A u \in offered : u.iTab = t.iTab => u.rSetup > 0

\* whereLoopInsert(pBuilder, pTemplate): overwrite p in place (keeping its
\* position), skip the template, or append a new loop at the list's end.
InsertLoop(t) ==
  /\ t \notin offered /\ SetupOrder(t)
  /\ LET o == InsertScan(pool, t, 1) IN
       pool' = CASE o.kind = "noop"    -> pool
                 [] o.kind = "append"  -> Append(pool, t)
                 [] o.kind = "replace" -> [pool EXCEPT ![o.at] = t]
  /\ offered' = offered \cup {t}
  /\ UNCHANGED <<orSet, orOffered>>

(***************************************************************************)
(* whereOrInsert(pSet, prereq, rRun, nOut).                                *)
(***************************************************************************)

\* An entry e makes the new triple x redundant: "return 0".
OrCovered(e, x) == e.rRun <= x.rRun /\ e.prereq \subseteq x.prereq

\* The new triple x makes entry e redundant: "goto whereOrInsert_done".
OrImproves(e, x) == x.rRun <= e.rRun /\ x.prereq \subseteq e.prereq

\* whereOrInsert_done: p takes prereq and rRun of x and the smaller nOut.
OrOverwriteKeepPrereq(s, i, x) ==
  [s EXCEPT ![i] = [prereq |-> @.prereq, rRun |-> x.rRun,
                    nOut |-> IF @.nOut > x.nOut THEN x.nOut ELSE @.nOut]]
OrOverwrite(s, i, x) ==
  [s EXCEPT ![i] = [prereq |-> x.prereq, rRun |-> x.rRun,
                    nOut |-> IF @.nOut > x.nOut THEN x.nOut ELSE @.nOut]]

\* The entry a full set gives up: p starts at a[0] and moves to a[i] when
\* p->rRun > a[i].rRun, i.e. the first entry of least rRun.
OrEvictSlot(s) ==
  CHOOSE i \in 1..Len(s) : \A k \in 1..Len(s) :
    s[i].rRun < s[k].rRun \/ (s[i].rRun = s[k].rRun /\ i <= k)

\* The scan over the n entries: the first entry either test applies to.
RECURSIVE OrScan(_, _, _)
OrScan(s, x, i) ==
  IF i > Len(s) THEN [kind |-> "end", at |-> i]
  ELSE IF OrImproves(s[i], x) THEN [kind |-> "overwrite", at |-> i]
  ELSE IF OrCovered(s[i], x) THEN [kind |-> "reject", at |-> i]
  ELSE OrScan(s, x, i + 1)

\* The set still has room for one more entry: pSet->n<N_OR_COST.
OrHasRoomOffByOne(n) == n <= N_OR_COST
OrHasRoom(n) == n < N_OR_COST

\* The set after whereOrInsert(pSet, x.prereq, x.rRun, x.nOut).
OrInsertResult(s, x) ==
  LET o == OrScan(s, x, 1)
      p == OrEvictSlot(s)
  IN  CASE o.kind = "overwrite" -> OrOverwrite(s, o.at, x)
        [] o.kind = "reject"    -> s
        [] OrHasRoom(Len(s))    -> Append(s, x)
        [] s[p].rRun <= x.rRun  -> s
        [] OTHER                -> OrOverwrite(s, p, x)

\* whereLoopInsert with pBuilder->pOrSet != 0, or the cross-product loop of
\* whereLoopAddOr, inserting one triple.
InsertOr(x) ==
  /\ x \notin orOffered
  /\ orSet' = OrInsertResult(orSet, x)
  /\ orOffered' = orOffered \cup {x}
  /\ UNCHANGED <<pool, offered>>

\* pWInfo->pLoops starts empty (whereInfo allocated zeroed); a WhereOrSet
\* starts with n = 0 (sCur.n = 0, sSum.n = 0).
Init ==
  /\ pool = << >> /\ offered = {}
  /\ orSet = << >> /\ orOffered = {}

Next ==
  \/ \E t \in Templates : InsertLoop(t)
  \/ \E x \in OrTriples : InsertOr(x)

Spec == Init /\ [][Next]_vars
=============================================================================
