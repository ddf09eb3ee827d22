----------------------------- MODULE LoopBuilder -----------------------------
(***************************************************************************)
(* WhereLoop generation of src/src/where.c: whereLoopAddAll and the        *)
(* builders it calls for b-tree tables (whereLoopAddMatch,                 *)
(* whereLoopAddBtree, whereLoopAddBtreeIndex, whereLoopAddOr), feeding     *)
(* whereLoopInsert (module LoopPool).                                      *)
(*                                                                         *)
(* All builders work on one template, *pBuilder->pNew, whose fields        *)
(* persist from one builder call, and one table, to the next; here it is  *)
(* the record pNew threaded through the operators.  A builder is a pure   *)
(* operator returning [ems |-> the templates it passed to whereLoopInsert, *)
(* in order, nw |-> pNew afterwards]; with pBuilder->pOrSet set (inside    *)
(* whereLoopAddOr) the templates are folded into a WhereOrSet instead.    *)
(*                                                                         *)
(* Data: a table is a record of the catalog and FROM-clause fields the     *)
(* builders read, an index a record of Index fields, a WHERE term a record *)
(* [op, tab, col, equiv, rhs, prereqRight, nList, idx, indexable, sub]    *)
(* with op one of EQ, IN, ISNULL, GT (also GE), LT (also LE), MATCH, OR,   *)
(* NONE (see WhereScan).  Row counts are integers converted with WhereCost *)
(* as the code does.  The terms of a probe come from whereScanNext with    *)
(* its equivalence classes (module WhereScan); collating sequences are    *)
(* all the default.                                                        *)
(*                                                                         *)
(* A virtual table (isVirtual) is planned by whereLoopAddVirtual instead   *)
(* (module VirtualTable); its method behaves as tb.bestIndex.  heap holds  *)
(* the idxStr strings its xBestIndex allocated that are not yet freed; a   *)
(* template or a pool loop owns one when its vtab.needFree is set.         *)
(***************************************************************************)
EXTENDS Integers, Sequences, FiniteSets, WhereCost, WhereScan

CONSTANTS
  Idx,            \* the Index objects of the schema, by name
  TabsChoices,    \* possible pTabList->a[], in FROM order
  WCChoices,      \* possible pWInfo->sWC.a[], the analysed WHERE terms
  OrderByChoices, \* possible pWInfo->pOrderBy: sequences of [isCol, tab, col]
  WctrlChoices,   \* possible wctrlFlags, subsets of {"AND_ONLY", "ONEPASS_DESIRED"}
  VtabStatements, \* further statements q, joining virtual tables
  XBestIndex(_, _, _)  \* the answer of xBestIndex (module VirtualTable)

VARIABLES
  q,              \* the statement being planned: [tabs, wc, orderBy, wctrl]
  iTab,           \* the next FROM position whereLoopAddAll works on (1-based)
  mExtra, mPrior, priorJoinType,
  pNew,           \* *pBuilder->pNew
  queue,          \* templates built for table iTab-1 not yet inserted
  pool,           \* pWInfo->pLoops
  offered,        \* every template handed to whereLoopInsert so far
  heap,           \* idxStr strings allocated by xBestIndex and not freed
  rc              \* the rc of whereLoopAddAll: "OK" or "ERROR"

vars == <<q, iTab, mExtra, mPrior, priorJoinType, pNew, queue, pool, offered, heap, rc>>

Tabs == q.tabs
WC == q.wc
OrderBy == q.orderBy
WctrlFlags == q.wctrl

VT == INSTANCE VirtualTable

LP == INSTANCE LoopPool WITH Templates <- {}, OrTriples <- {}, N_OR_COST <- 3,
                            pool <- pool, offered <- {}, orSet <- << >>,
                            orOffered <- {}

\* Bind e once and apply F: coverage-mode TLC re-evaluates a LET name at
\* every reference.
Once(e, F(_)) == CHOOSE r \in {F(v) : v \in {e}} : TRUE

\* WhereLoop.u.vtab of a loop that is not WHERE_VIRTUALTABLE.
NoVtab == [needFree |-> FALSE, idxStr |-> "none", isOrdered |-> FALSE, omitMask |-> {}]

\* The record whereLoopInsert receives: the LoopPool fields (pIndex is
\* "none" unless WHERE_INDEXED) plus flags, nEq, the terms aLTerm[] and
\* u.vtab.
TemplateOf(nw) ==
  [iTab |-> nw.iTab, iSortIdx |-> nw.iSortIdx, prereq |-> nw.prereq,
   rSetup |-> nw.rSetup, rRun |-> nw.rRun, nOut |-> nw.nOut,
   nLTerm |-> nw.nLTerm,
   pIndex |-> IF "INDEXED" \in nw.wsFlags THEN nw.pIndex ELSE "none",
   wsFlags |-> nw.wsFlags, nEq |-> nw.nEq,
   terms |-> [k \in 1..nw.nLTerm |-> nw.aLTerm[k]],
   vtab |-> IF "VIRTUALTABLE" \in nw.wsFlags THEN nw.vtab ELSE NoVtab]

\* pNew->aLTerm[k-1] = t (the array is grown on demand; its memory is
\* modelled in ShortCut).
SetLTerm(a, k, t) == IF k <= Len(a) THEN [a EXCEPT ![k] = t] ELSE Append(a, t)

(***************************************************************************)
(* whereLoopAddBtreeIndex                                                  *)
(***************************************************************************)

\* The operators a probe may use for its next column (opMask).
OpMask(nw, tb, ix) ==
  LET m == IF "BTM_LIMIT" \in nw.wsFlags THEN {"LT"}
           ELSE IF tb.jointype = "LEFT" THEN {"EQ", "IN", "GT", "LT"}
           ELSE {"EQ", "IN", "ISNULL", "GT", "LT"}
  IN  IF ix.bUnordered THEN m \ {"GT", "LT"} ELSE m

\* whereScanInit(&scan, pBuilder->pWC, pSrc->iCursor, iCol, opMask, pProbe)
\* run to its end: the terms of the clause chain wcs on column c of tb or
\* a column equal to it, with an operator in ops.
ScanTerms(wcs, tb, c, ops) == ScanAll(wcs, tb.cur, c, ops)

\* The column probed after nEq equality columns, or "none" when the probe
\* is over (a PRIMARY KEY index has no further column).
ProbeColumn(ix, nEq) ==
  IF nEq < Len(ix.cols) THEN ix.cols[nEq + 1]
  ELSE IF ~ix.isPk THEN ix.pkCol ELSE "none"

\* nRowEst: whereCost(aiRowEst[nEq+1]), at least 1 for a non-unique index.
RowEstAfter(ix, nEq) ==
  IF nEq < Len(ix.cols)
  THEN LET r == WhereCost(ix.aiRowEst[nEq + 2])
       IN  IF r = 0 /\ ~ix.unique THEN 1 ELSE r
  ELSE 0

\* The template for term t of the loop over the scan (nw with wsFlags, nEq
\* and nLTerm reset to the saved sv), then the branch for t's operator, the range estimate, and
\* the run cost.  Returns [nw, nIn].
TermTemplate(nw, sv, ix, t, nInMul, rLogSize) ==
  LET nRowEst == RowEstAfter(ix, sv.nEq)
      base == [nw EXCEPT !.nLTerm = sv.nLTerm + 1,
                         !.aLTerm = SetLTerm(nw.aLTerm, sv.nLTerm + 1, t),
                         !.prereq = (sv.prereq \cup t.prereqRight) \ sv.maskSelf,
                         !.rRun = rLogSize]
      nIn == CASE t.op = "IN" -> IF t.nList = 0 THEN 46 ELSE WhereCost(t.nList)
               [] t.op = "ISNULL" -> 10
               [] OTHER -> 0
      br == CASE t.op = "IN" ->
                   [base EXCEPT !.wsFlags = @ \cup {"COLUMN_IN"},
                                !.rRun = U16(@ + nIn), !.nEq = @ + 1,
                                !.nOut = U16(nRowEst + nInMul + nIn)]
              [] t.op = "EQ" ->
                   [base EXCEPT !.wsFlags = @ \cup {"COLUMN_EQ"} \cup
                                  (IF ix.unique /\ nInMul = 0 /\ sv.nEq = Len(ix.cols) - 1
                                   THEN {"ONEROW"} ELSE {}),
                                !.nEq = @ + 1, !.nOut = U16(nRowEst + nInMul)]
              [] t.op = "ISNULL" ->
                   [base EXCEPT !.wsFlags = @ \cup {"COLUMN_NULL"}, !.nEq = @ + 1,
                                !.nOut = U16(nRowEst + nInMul + nIn)]
              [] t.op = "GT" ->
                   [base EXCEPT !.wsFlags = @ \cup {"COLUMN_RANGE", "BTM_LIMIT"}]
              [] OTHER ->
                   [base EXCEPT !.wsFlags = @ \cup {"COLUMN_RANGE", "TOP_LIMIT"}]
      \* whereRangeScanEst without STAT3: 20 per bound present.
      rDiv == (IF "BTM_LIMIT" \in br.wsFlags THEN 20 ELSE 0)
              + (IF "TOP_LIMIT" \in br.wsFlags THEN 20 ELSE 0)
      ranged == IF "COLUMN_RANGE" \in br.wsFlags
                THEN [br EXCEPT !.nOut = IF sv.nOut > rDiv + 10 THEN sv.nOut - rDiv ELSE 10]
                ELSE br
      fetched == IF ranged.wsFlags \cap {"IDX_ONLY", "PRIMARY_KEY"} = {}
                 THEN [ranged EXCEPT !.rRun = WhereCostAdd(@, IF rLogSize > 27
                                                             THEN rLogSize - 17 ELSE 10)]
                 ELSE ranged
  IN  [nw |-> [fetched EXCEPT !.rRun = WhereCostAdd(@, fetched.nOut)], nIn |-> nIn]

\* Does the probe go on to the next column after this template?
Extends(nw, ix) ==
  "TOP_LIMIT" \notin nw.wsFlags
  /\ nw.nEq < Len(ix.cols) + (IF ix.hasName THEN 1 ELSE 0)

RECURSIVE AddBtreeIndex(_, _, _, _, _), ScanLoop(_, _, _, _, _, _, _, _, _)

\* The for-loop over the scan: each usable term gives one template, which
\* is inserted and, unless it closes the probe, extended by recursion.
ScanLoop(terms, k, sv, nw, tb, ix, nInMul, wcs, ems) ==
  IF k > Len(terms) THEN [ems |-> ems, nw |-> nw]
  ELSE IF terms[k].prereqRight \cap nw.maskSelf # {}
  THEN ScanLoop(terms, k + 1, sv, nw, tb, ix, nInMul, wcs, ems)
  ELSE Once(TermTemplate([nw EXCEPT !.wsFlags = sv.wsFlags, !.nEq = sv.nEq,
                                    !.nLTerm = sv.nLTerm],
                         sv, ix, terms[k], nInMul, EstLog(WhereCost(ix.aiRowEst[1]))),
         LAMBDA r :
           IF Extends(r.nw, ix)
           THEN Once(AddBtreeIndex(r.nw, tb, ix, U16(nInMul + r.nIn), wcs),
                  LAMBDA s : ScanLoop(terms, k + 1, sv, s.nw, tb, ix, nInMul, wcs,
                                      (ems \o <<TemplateOf(r.nw)>>) \o s.ems))
           ELSE ScanLoop(terms, k + 1, sv, r.nw, tb, ix, nInMul, wcs,
                         ems \o <<TemplateOf(r.nw)>>))

\* whereLoopAddBtreeIndex(pBuilder, pSrc, pProbe, nInMul): try one more
\* column of the probe, then restore the fields it saved.
AddBtreeIndex(nw, tb, ix, nInMul, wcs) ==
  LET c == ProbeColumn(ix, nw.nEq) IN
  IF c = "none" THEN [ems |-> << >>, nw |-> nw]
  ELSE Once(ScanLoop(ScanTerms(wcs, tb, c, OpMask(nw, tb, ix)), 1, nw,
                     [nw EXCEPT !.rSetup = 0], tb, ix, nInMul, wcs, << >>),
         LAMBDA s : [ems |-> s.ems,
                     nw |-> [s.nw EXCEPT !.prereq = nw.prereq, !.nEq = nw.nEq,
                                         !.wsFlags = nw.wsFlags, !.nOut = nw.nOut,
                                         !.nLTerm = nw.nLTerm]])
(***************************************************************************)
(* whereLoopAddMatch, indexMightHelpWithOrderBy, whereLoopAddBtree         *)
(***************************************************************************)

\* findMatchExpr: the first MATCH term of the builder's clause on tb.
MatchTerms(wc, tb) == SelectSeq(wc, LAMBDA t : t.op = "MATCH" /\ t.tab = tb.cur)

\* whereLoopAddMatch: a MATCH term gives the only loop of the table.
AddMatch(nw, wc, tb, mx) ==
  LET t == MatchTerms(wc, tb)[1]
      n2 == [nw EXCEPT !.prereq = t.prereqRight, !.wsFlags = {"INDEXED"},
                       !.rSetup = 0, !.rRun = 1, !.nOut = 1, !.nEq = 0,
                       !.pIndex = t.idx]
  IN  [ems |-> <<TemplateOf(n2)>>, nw |-> n2]

\* indexMightHelpWithOrderBy: 0 at the first ORDER BY term that is not a
\* column, 1 at the first column of tb that the index holds.
RECURSIVE MightHelpFrom(_, _, _)
MightHelpFrom(ix, tb, ii) ==
  IF ii > Len(OrderBy) THEN FALSE
  ELSE IF ~OrderBy[ii].isCol THEN FALSE
  ELSE IF OrderBy[ii].tab = tb.cur /\ \E j \in 1..Len(ix.cols) : ix.cols[j] = OrderBy[ii].col
       THEN TRUE
  ELSE MightHelpFrom(ix, tb, ii + 1)
IndexMightHelpWithOrderBy(ix, tb) == ~ix.bUnordered /\ MightHelpFrom(ix, tb, 1)

\* termCanDriveIndex(pTerm, pSrc, 0).
TermCanDriveIndex(t, tb) == t.tab = tb.cur /\ t.op = "EQ"

\* The automatic-index templates: one per term of the builder's clause
\* that can drive an index.  iSortIdx is not assigned.
RECURSIVE AutoLoop(_, _, _, _, _, _, _)
AutoLoop(wc, k, nw, tb, mx, rSize, ems) ==
  IF k > Len(wc) THEN [ems |-> ems, nw |-> nw]
  ELSE IF wc[k].prereqRight \cap nw.maskSelf = {} /\ TermCanDriveIndex(wc[k], tb)
  THEN LET rLogSize == EstLog(rSize)
           n2 == [nw EXCEPT !.nEq = 1, !.pIndex = 0, !.nLTerm = 1,
                            !.aLTerm = SetLTerm(nw.aLTerm, 1, wc[k]),
                            !.rSetup = U16(rLogSize + rSize + 28), !.nOut = 43,
                            !.rRun = WhereCostAdd(rLogSize, 43),
                            !.wsFlags = {"AUTO_INDEX"},
                            !.prereq = mx \cup wc[k].prereqRight]
       IN  AutoLoop(wc, k + 1, n2, tb, mx, rSize, Append(ems, TemplateOf(n2)))
  ELSE AutoLoop(wc, k + 1, nw, tb, mx, rSize, ems)

\* Automatic indexes are built unless inside an OR, with INDEXED BY or
\* NOT INDEXED, without SQLITE4_AutoIndex or for a correlated subquery.
AutoIndexAllowed(tb, orMode) ==
  ~orMode /\ tb.autoIndex /\ tb.indexedBy = "none" /\ ~tb.notIndexed

\* The table without a PRIMARY KEY (a view or ephemeral table): full scan.
PkLessScan(nw, mx, rSize) ==
  [nw EXCEPT !.nEq = 0, !.nLTerm = 0, !.iSortIdx = 0, !.rSetup = 0,
             !.prereq = mx, !.nOut = rSize, !.pIndex = 0, !.wsFlags = {},
             !.rRun = U16(WhereCostAdd(rSize, EstLog(rSize)) + 16)]

\* The index list the loop walks: from INDEXED BY, from the PK for NOT
\* INDEXED, else all of pTab->pIndex (pProbe->pNext follows the list).
ProbeList(tb) ==
  LET from(n) == SubSeq(tb.indexes,
                        CHOOSE k \in 1..Len(tb.indexes) : tb.indexes[k] = n,
                        Len(tb.indexes))
  IN  IF tb.indexedBy # "none" THEN from(tb.indexedBy)
      ELSE IF tb.notIndexed THEN (IF tb.pk = "none" THEN << >> ELSE from(tb.pk))
      ELSE tb.indexes

\* The template for probe ix as the loop body sets it up, and whether the
\* full scan of the index is inserted, with its cost.
ProbeTemplateNoPkScan(nw, tb, ix, iSortIdx, mx, rSize) ==
  LET bCover == ~ix.isPk /\ tb.colUsed \subseteq ix.cover
      b == IndexMightHelpWithOrderBy(ix, tb)
      n1 == [nw EXCEPT !.nEq = 0, !.nLTerm = 0, !.rSetup = 0, !.prereq = mx,
                       !.nOut = rSize, !.pIndex = ix.name,
                       !.wsFlags = {"INDEXED"} \cup (IF bCover THEN {"IDX_ONLY"} ELSE {})
                                   \cup (IF ix.isPk THEN {"PRIMARY_KEY"} ELSE {}),
                       !.iSortIdx = IF b THEN iSortIdx ELSE 0]
  IN  [nw |-> [n1 EXCEPT !.rRun = U16(rSize + EstLog(rSize))],
       scan |-> b \/ (bCover /\ ~ix.bUnordered /\ "ONEPASS_DESIRED" \notin WctrlFlags)]
ProbeTemplate(nw, tb, ix, iSortIdx, mx, rSize) ==
  LET bCover == ~ix.isPk /\ tb.colUsed \subseteq ix.cover
      b == IndexMightHelpWithOrderBy(ix, tb)
      n1 == [nw EXCEPT !.nEq = 0, !.nLTerm = 0, !.rSetup = 0, !.prereq = mx,
                       !.nOut = rSize, !.pIndex = ix.name,
                       !.wsFlags = {"INDEXED"} \cup (IF bCover THEN {"IDX_ONLY"} ELSE {})
                                   \cup (IF ix.isPk THEN {"PRIMARY_KEY"} ELSE {}),
                       !.iSortIdx = IF b THEN iSortIdx ELSE 0]
      rRun == CASE ix.isPk -> U16(WhereCostAdd(rSize, EstLog(rSize)) + 16)
                [] bCover -> U16(10 + WhereCostAdd(rSize, EstLog(rSize)) - (IF b THEN 1 ELSE 0))
                [] OTHER  -> U16(rSize + EstLog(rSize))
  IN  [nw |-> [n1 EXCEPT !.rRun = rRun],
       scan |-> ix.isPk \/ b \/ (bCover /\ ~ix.bUnordered
                                 /\ "ONEPASS_DESIRED" \notin WctrlFlags)]

\* The loop over the probes; iSortIdx counts every index visited.
RECURSIVE IndexLoop(_, _, _, _, _, _, _, _)
IndexLoop(probes, k, nw, tb, mx, rSize, wcs, ems) ==
  IF k > Len(probes) THEN [ems |-> ems, nw |-> nw]
  ELSE IF Idx[probes[k]].fts
  THEN IndexLoop(probes, k + 1, nw, tb, mx, rSize, wcs, ems)
  ELSE Once(ProbeTemplate(nw, tb, Idx[probes[k]], k, mx, rSize),
         LAMBDA pt :
           Once(AddBtreeIndex(pt.nw, tb, Idx[probes[k]], 0, wcs),
             LAMBDA s :
               LET ems2 == ems \o (IF pt.scan THEN <<TemplateOf(pt.nw)>> ELSE << >>) \o s.ems
               IN  IF tb.indexedBy # "none" \/ tb.notIndexed
                   THEN [ems |-> ems2, nw |-> s.nw]
                   ELSE IndexLoop(probes, k + 1, s.nw, tb, mx, rSize, wcs, ems2)))

\* whereLoopAddBtree(pBuilder, mExtra): wc is pBuilder->pWC, wcs the clause
\* chain its scans walk (pWC, then pWC->pOuter).
AddBtreeAutoLast(nw, tb, mx, orMode, wc, wcs) ==
  IF MatchTerms(wc, tb) # << >> THEN AddMatch(nw, wc, tb, mx)
  ELSE LET rSize == WhereCost(tb.nRowEst) IN
       Once(IndexLoop(ProbeList(tb), 1, nw, tb, mx, rSize, wcs, << >>),
         LAMBDA c :
           Once(IF AutoIndexAllowed(tb, orMode) THEN AutoLoop(wc, 1, c.nw, tb, mx, rSize, << >>)
                ELSE [ems |-> << >>, nw |-> c.nw],
             LAMBDA a : [ems |-> c.ems \o a.ems, nw |-> a.nw]))
AddBtree(nw, tb, mx, orMode, wc, wcs) ==
  IF MatchTerms(wc, tb) # << >> THEN AddMatch(nw, wc, tb, mx)
  ELSE LET rSize == WhereCost(tb.nRowEst) IN
       Once(IF AutoIndexAllowed(tb, orMode) THEN AutoLoop(wc, 1, nw, tb, mx, rSize, << >>)
            ELSE [ems |-> << >>, nw |-> nw],
         LAMBDA a :
           Once(IF tb.pk = "none"
                THEN [ems |-> a.ems \o <<TemplateOf(PkLessScan(a.nw, mx, rSize))>>,
                      nw |-> PkLessScan(a.nw, mx, rSize)]
                ELSE a,
             LAMBDA c : IndexLoop(ProbeList(tb), 1, c.nw, tb, mx, rSize, wcs, c.ems)))
(***************************************************************************)
(* whereLoopAddVirtual                                                     *)
(***************************************************************************)

\* The template for one plan the dialogue accepted (lines 4888-4900).
VtabTemplate(nw, p) ==
  [nw EXCEPT !.prereq = p.prereq, !.nLTerm = p.nLTerm, !.aLTerm = p.aLTerm,
             !.rSetup = 0, !.rRun = p.rRun, !.nOut = 46,
             !.vtab = [needFree |-> p.needFree, idxStr |-> p.idxStr,
                       isOrdered |-> p.isOrdered, omitMask |-> p.omitMask]]

\* whereLoopAddVirtual(pBuilder): no mExtra is passed to it.  The result
\* also gives rc and the strings allocated and freed during the call.
AddVirtual(nw, tb, wc, orderBy, ctx) ==
  LET n0 == [nw EXCEPT !.prereq = {}, !.rSetup = 0, !.wsFlags = {"VIRTUALTABLE"},
                       !.nLTerm = 0, !.vtab = NoVtab]
  IN  Once(VT!AddVirtualPlans(wc, tb.cur, tb.bestIndex, orderBy, ctx), LAMBDA r :
      Once([k \in DOMAIN r.plans |-> VtabTemplate(n0, r.plans[k])], LAMBDA ts :
        [ems |-> [k \in DOMAIN ts |-> TemplateOf(ts[k])],
         nw |-> [(IF ts = << >> THEN n0 ELSE ts[Len(ts)])
                 EXCEPT !.prereq = r.prereq, !.vtab.needFree = FALSE],
         rc |-> r.rc, alloc |-> r.alloc, freed |-> r.freed]))

\* AddBtree's result in the form of AddVirtual's.
BtreeResult(b) == Once(b, LAMBDA v : [ems |-> v.ems, nw |-> v.nw, rc |-> "OK",
                                      alloc |-> {}, freed |-> {}])

(***************************************************************************)
(* whereLoopAddOr                                                          *)
(***************************************************************************)

\* The (prereq, rRun, nOut) triple whereLoopInsert hands to whereOrInsert.
Triple(pre, run, out) == [prereq |-> pre, rRun |-> run, nOut |-> out]

\* whereOrInsert of every triple of seq into set s, in order.
RECURSIVE OrFold(_, _)
OrFold(s, seq) ==
  IF seq = << >> THEN s ELSE OrFold(LP!OrInsertResult(s, Head(seq)), Tail(seq))

\* The cross product of sPrev and sCur into an empty sSum.
OrCross(sPrev, sCur) ==
  OrFold(<< >>, [n \in 1..(Len(sPrev) * Len(sCur)) |->
                   LET i == (n - 1) \div Len(sCur) + 1
                       j == ((n - 1) % Len(sCur)) + 1
                   IN  Triple(sPrev[i].prereq \cup sCur[j].prereq,
                              WhereCostAdd(sPrev[i].rRun, sCur[j].rRun),
                              WhereCostAdd(sPrev[i].nOut, sCur[j].nOut))])

\* One sub-term planned with pOrSet = &sCur and a clause of that one term
\* (its pOuter the WHERE clause): by whereLoopAddBtree, or by
\* whereLoopAddVirtual, whose triples then get mExtra.  A string the
\* dialogue allocates is freed at once after whereOrInsert (line 4909).
SubBuild(nw, tb, mx, sub) ==
  IF tb.isVirtual
  THEN LET r == AddVirtual(nw, tb, <<sub>>, << >>, <<"or", sub>>)
       IN  [r EXCEPT !.ems = [i \in DOMAIN @ |-> [@[i] EXCEPT !.prereq = @ \cup mx]]]
  ELSE BtreeResult(AddBtree(nw, tb, mx, TRUE, <<sub>>, << <<sub>>, WC >>))

\* The loop over the sub-terms of one OR term: the first sCur becomes
\* sSum, later ones are crossed with it, and an empty sCur empties sSum.
\* The loop does not test rc: each sub-term's call overwrites it.
RECURSIVE SubTermLoop(_, _, _, _, _, _, _, _)
SubTermLoop(subs, j, nw, tb, mx, sSum, once, rc0) ==
  IF j > Len(subs) THEN [sSum |-> sSum, nw |-> nw, rc |-> rc0]
  ELSE IF subs[j].tab # tb.cur THEN SubTermLoop(subs, j + 1, nw, tb, mx, sSum, once, rc0)
  ELSE Once(SubBuild(nw, tb, mx, subs[j]),
         LAMBDA r :
           LET sCur == OrFold(<< >>, [i \in 1..Len(r.ems) |->
                                        Triple(r.ems[i].prereq, r.ems[i].rRun, r.ems[i].nOut)])
           IN  IF sCur = << >> THEN [sSum |-> << >>, nw |-> r.nw, rc |-> r.rc]
               ELSE SubTermLoop(subs, j + 1, r.nw, tb, mx,
                                IF once THEN sCur ELSE OrCross(sSum, sCur), FALSE, r.rc))

\* One MULTI_OR template per entry of sSum, marked up by 18 for the
\* secondary lookup.
RECURSIVE OrLoops(_, _, _, _)
OrLoops(sSum, i, nw, ems) ==
  IF i > Len(sSum) THEN [ems |-> ems, nw |-> nw]
  ELSE LET n2 == [nw EXCEPT !.rRun = U16(sSum[i].rRun + 18), !.nOut = sSum[i].nOut,
                            !.prereq = sSum[i].prereq]
       IN  OrLoops(sSum, i + 1, n2, Append(ems, TemplateOf(n2)))

\* An OR term this table can drive an index for.
IsOrTermFor(t, tb) == t.op = "OR" /\ tb.cur \in t.indexable

\* The loop over the OR terms, while rc is SQLITE4_OK; the MULTI_OR
\* templates are inserted only if the sub-term loop left rc OK.
RECURSIVE OrTermLoop(_, _, _, _, _, _)
OrTermLoop(k, nw, tb, mx, ems, rc0) ==
  IF k > Len(WC) \/ rc0 # "OK" THEN [ems |-> ems, nw |-> nw, rc |-> rc0]
  ELSE IF ~IsOrTermFor(WC[k], tb) THEN OrTermLoop(k + 1, nw, tb, mx, ems, rc0)
  ELSE Once(SubTermLoop(WC[k].sub, 1, nw, tb, mx, << >>, TRUE, rc0),
         LAMBDA r :
           Once(OrLoops(IF r.rc = "OK" THEN r.sSum ELSE << >>, 1,
                        [r.nw EXCEPT !.nLTerm = 1, !.aLTerm = SetLTerm(r.nw.aLTerm, 1, WC[k]),
                                     !.wsFlags = {"MULTI_OR"}, !.rSetup = 0,
                                     !.iSortIdx = 0, !.nEq = 0, !.pIndex = 0, !.vtab = NoVtab],
                        << >>),
             LAMBDA o : OrTermLoop(k + 1, o.nw, tb, mx, ems \o o.ems, r.rc)))

\* whereLoopAddOr(pBuilder, mExtra).
AddOr(nw, tb, mx) ==
  IF "AND_ONLY" \in WctrlFlags THEN [ems |-> << >>, nw |-> nw, rc |-> "OK"]
  ELSE OrTermLoop(1, nw, tb, mx, << >>, "OK")

(***************************************************************************)
(* whereLoopAddAll and whereLoopInsert                                     *)
(***************************************************************************)

\* mExtra for the next table: all tables to the left once a LEFT or CROSS
\* join is on either side of it.
NextMExtraPriorOnly(mx, mp, jt, pjt) ==
  IF pjt \in {"LEFT", "CROSS"} THEN mp ELSE mx
NextMExtra(mx, mp, jt, pjt) ==
  IF {jt, pjt} \cap {"LEFT", "CROSS"} # {} THEN mp ELSE mx

\* One iteration of the loop over the tables: whereLoopAddBtree, then
\* whereLoopAddOr, with the same pNew; their templates queue up for
\* whereLoopInsert in the order the builders produce them.
AddTable ==
  /\ queue = << >> /\ iTab <= Len(Tabs)
  /\ LET tb == Tabs[iTab]
         mx == NextMExtra(mExtra, mPrior, tb.jointype, priorJoinType)
         n1 == [pNew EXCEPT !.iTab = iTab, !.maskSelf = {tb.cur}]
     IN  /\ \E r \in {Once(IF tb.isVirtual THEN AddVirtual(n1, tb, WC, OrderBy, iTab)
                          ELSE BtreeResult(AddBtree(n1, tb, mx, FALSE, WC, <<WC>>)),
                          LAMBDA b :
                            IF b.rc # "OK" THEN b
                            ELSE Once(AddOr(b.nw, tb, mx),
                                   LAMBDA o : [b EXCEPT !.ems = @ \o o.ems, !.nw = o.nw,
                                                        !.rc = o.rc]))} :
                /\ queue' = r.ems /\ pNew' = r.nw /\ rc' = r.rc
                /\ heap' = (heap \cup r.alloc) \ r.freed
         /\ mExtra' = mx /\ priorJoinType' = tb.jointype
         /\ mPrior' = mPrior \cup {tb.cur}
  \* "if( rc || db->mallocFailed ) break;"
  /\ iTab' = IF rc' = "OK" THEN iTab + 1 ELSE Len(Tabs) + 1
  /\ UNCHANGED <<q, pool, offered>>

\* whereLoopXfer(db, p, pTemplate) hands an idxStr over: pFrom no longer
\* owns it.  (whereLoopClearUnion of the overwritten loop drops its own
\* string without freeing it: the sqlite4_free is under #if 0.)
XferSourceKeep(t) == t
XferSource(t) == [t EXCEPT !.vtab.needFree = FALSE]

\* whereLoopInsert(pBuilder, pNew) for the next template built, then, for
\* a virtual table, the free of pNew's string if pNew still owns it.
Insert ==
  /\ queue # << >>
  /\ LET t == Head(queue)
         o == LP!InsertScan(pool, t, 1)
         src == IF o.kind = "noop" THEN t ELSE XferSource(t)
     IN  /\ pool' = CASE o.kind = "noop"    -> pool
                      [] o.kind = "append"  -> Append(pool, t)
                      [] o.kind = "replace" -> [pool EXCEPT ![o.at] = t]
         /\ heap' = IF src.vtab.needFree THEN heap \ {src.vtab.idxStr} ELSE heap
  /\ offered' = offered \cup {Head(queue)}
  /\ queue' = Tail(queue)
  /\ UNCHANGED <<q, iTab, mExtra, mPrior, priorJoinType, pNew, rc>>

\* whereLoopInit(pNew) at the start of whereLoopAddAll; the other fields
\* are those of the zeroed WhereInfo allocation.
Init ==
  /\ q \in [tabs : TabsChoices, wc : WCChoices, orderBy : OrderByChoices,
            wctrl : WctrlChoices] \cup VtabStatements
  /\ iTab = 1 /\ mExtra = {} /\ mPrior = {} /\ priorJoinType = "INNER"
  /\ pNew = [iTab |-> 0, maskSelf |-> {}, iSortIdx |-> 0, prereq |-> {},
             rSetup |-> 0, rRun |-> 0, nOut |-> 0, wsFlags |-> {}, nEq |-> 0,
             pIndex |-> 0, nLTerm |-> 0, aLTerm |-> << >>, vtab |-> NoVtab]
  /\ queue = << >> /\ pool = << >> /\ offered = {} /\ heap = {} /\ rc = "OK"

\* All loops are built; the path solver takes over.
Done == iTab > Len(Tabs) /\ queue = << >> /\ UNCHANGED vars

Next == AddTable \/ Insert \/ Done

Spec == Init /\ [][Next]_vars
=============================================================================
