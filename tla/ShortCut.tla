------------------------------ MODULE ShortCut ------------------------------
(***************************************************************************)
(* The single-table part of sqlite4WhereBegin of src/src/where.c: the      *)
(* DISTINCT set-up (lines 5888-5910, with isDistinctRedundant and          *)
(* findIndexCol), then whereShortCut, the no-frills planner tried first    *)
(* for a one-table query.  whereShortCut walks the table's index list and *)
(* takes the first UNIQUE index whose every column has an == term, filling *)
(* pBuilder->pNew->aLTerm[] one column at a time through whereLoopResize.  *)
(*                                                                         *)
(* The memory of aLTerm[] is kept: nLSlot slots, initially the 4 of        *)
(* aLTermSpace[] (which the zeroed WhereInfo allocation leaves NULL), grown *)
(* by whereLoopResize to a multiple of 8 with memcpy of the old slots into  *)
(* raw (uninitialised) memory.  A store at an index >= nLSlot is recorded   *)
(* in oob: it lands outside the array.                                     *)
(*                                                                         *)
(* The WHERE clause is pWC->a[] as exprAnalyzeAll leaves it for one table  *)
(* "t", in the term records of module WhereScan: a "col = constant" term   *)
(* has op "EQ" and no prerequisite; a "X = Y" term between two columns of  *)
(* t has no operator bit, only WO_EQUIV, and comes with its commuted twin  *)
(* (line 1685).  findTerm is WhereScan's, so an == term is found through  *)
(* a chain of column equalities.  A found term is recorded in aLTerm[] by *)
(* the column it constrains.  The DISTINCT list holds columns of t, the    *)
(* rowid ("rowid", iColumn<0) and other expressions ("expr"); an ORDER BY  *)
(* term is one of the same three kinds.  Collating sequences are the      *)
(* defaults, so findIndexCol's collation test always matches.              *)
(***************************************************************************)
EXTENDS Integers, Sequences, FiniteSets

CONSTANTS
  Columns,       \* the columns of the table
  Indexes,       \* pTab->pIndex in list order: [unique, isPk, cols, cover]
  NotNull,       \* the columns declared NOT NULL (aCol[].notNull)
  WhereChoices,  \* possible pWC->a[]: sequences of WhereScan terms
  DistinctChoices, \* possible pResultSet: sets of columns, "rowid", "expr"
  OrderByChoices,  \* possible pOrderBy: sequences of "col", "rowid", "expr"
  ColNo,         \* iColumn of each column of the table
  BMS,           \* bits in a Bitmask (64 in the build)
  ColUsedChoices,\* possible sets of columns the statement reads
  MallocMayFail  \* whether sqlite4DbMallocRaw may return 0

VARIABLES
  where, distinct, orderBy, colUsed, isVirtual, zIndex,  \* the query (inputs)
  wctrl,    \* pWInfo->wctrlFlags
  pOrderBy, \* pWInfo->pOrderBy # 0
  pc,       \* "distinct", "begin", "idx", "col", "probed", "end", "done"
  iIdx,     \* position of pIdx in pTab->pIndex (1-based)
  j,        \* the column counter of the inner loop (0-based as in C)
  pLoop,    \* *pBuilder->pNew
  oob,      \* indices of aLTerm[] stored to outside its nLSlot slots
  wi,       \* the WhereInfo fields whereShortCut sets
  result    \* the return value

vars == <<where, distinct, orderBy, colUsed, isVirtual, zIndex, wctrl, pOrderBy,
          pc, iIdx, j, pLoop, oob, wi, result>>
inputs == <<where, distinct, orderBy, colUsed, isVirtual, zIndex>>

WS == INSTANCE WhereScan

\* ArraySize(p->aLTermSpace).
NLTermSpace == 4

\* whereLoopInit(sWLB.pNew) on the memory sqlite4DbMallocZero returned.
InitLoop ==
  [wsFlags |-> {}, nLTerm |-> 0, nEq |-> 0, pIndex |-> 0, rRun |-> 0,
   nOut |-> 0, nLSlot |-> NLTermSpace,
   aLTerm |-> [k \in 0..NLTermSpace - 1 |-> "null"]]

\* findTerm(pWC, iCur, iColumn, notReady, WO_EQ, pIdx) on the one-clause
\* chain of t: the column of the == term found, or none (0).
FindTerm(c, notReady) ==
  LET r == WS!FindTerm(<<where>>, "t", c, notReady, {"EQ"})
  IN  IF r = << >> THEN "none" ELSE r[1].col

\* findIndexCol(pParse, pDistinct, iBase, pIdx, iCol) >= 0: the DISTINCT
\* list has the column itself (a TK_COLUMN of t with the index's
\* collation, which is the default for both).
FindIndexCol(c) == c \in distinct

\* isDistinctRedundant for the one table of the FROM clause: the rowid is
\* in the list, or some UNIQUE index has, on every column, a "col=X" term
\* (findTerm with notReady ~0), or the column is in the list and NOT NULL.
IsDistinctRedundantNullable ==
  \/ "rowid" \in distinct
  \/ \E i \in 1..Len(Indexes) :
       /\ Indexes[i].unique
       /\ \A k \in 1..Len(Indexes[i].cols) :
            LET c == Indexes[i].cols[k]
            IN  FindTerm(c, {"t"}) # "none" \/ FindIndexCol(c)
IsDistinctRedundant ==
  \/ "rowid" \in distinct
  \/ \E i \in 1..Len(Indexes) :
       /\ Indexes[i].unique
       /\ \A k \in 1..Len(Indexes[i].cols) :
            LET c == Indexes[i].cols[k]
            IN  FindTerm(c, {"t"}) # "none" \/ (FindIndexCol(c) /\ c \in NotNull)

\* The ORDER BY scan of lines 5891-5899: a term that is not a column
\* before any rowid term disables the ORDER BY.
OrderByHasExpr ==
  \E i \in 1..Len(orderBy) :
    orderBy[i] = "expr" /\ \A k \in 1..(i - 1) : orderBy[k] = "col"

\* Lines 5891-5910, between exprAnalyzeAll and whereShortCut: under
\* WHERE_WANT_DISTINCT an ORDER BY with an expression is dropped; then
\* either the DISTINCT is redundant (eDistinct = UNIQUE), or, without an
\* ORDER BY, the result set becomes the ORDER BY and DISTINCTBY is set.
Distinct ==
  /\ pc = "distinct"
  /\ LET want == "WANT_DISTINCT" \in wctrl
         ob   == pOrderBy /\ ~(want /\ OrderByHasExpr)
     IN  /\ wi' = IF want /\ IsDistinctRedundant
                  THEN [wi EXCEPT !.eDistinct = "UNIQUE"] ELSE wi
         /\ IF want /\ ~IsDistinctRedundant /\ ~ob
            THEN wctrl' = wctrl \cup {"DISTINCTBY"} /\ pOrderBy' = TRUE
            ELSE pOrderBy' = ob /\ UNCHANGED wctrl
  /\ pc' = "begin"
  /\ UNCHANGED <<inputs, iIdx, j, pLoop, oob, result>>

\* pIdx->aiColumn[jj] (jj 0-based).
ColumnAtFirst(i, jj) == Indexes[i].cols[1]
ColumnAt(i, jj) == Indexes[i].cols[jj + 1]

\* pItem->colUsed as a set of bit numbers: column iCol sets bit iCol, and
\* every column from BMS-1 on shares the last bit.
ColUsedMask(S) == {IF ColNo[c] >= BMS - 1 THEN BMS - 1 ELSE ColNo[c] : c \in S}

\* columnsInIndex: the bits of the covered columns below BMS-1, none for
\* the PRIMARY KEY index.
ColumnsInIndexAllBits(i) ==
  IF Indexes[i].isPk THEN {}
  ELSE {ColNo[c] : c \in {c \in Indexes[i].cover : ColNo[c] < BMS}}
ColumnsInIndex(i) ==
  IF Indexes[i].isPk THEN {}
  ELSE {ColNo[c] : c \in {c \in Indexes[i].cover : ColNo[c] < BMS - 1}}

\* (n+7)&~7
RoundUp8(n) == ((n + 7) \div 8) * 8

\* The [nLSlot, aLTerm] pairs whereLoopResize(db, p, n) can leave; its
\* SQLITE4_NOMEM return leaves both as they were.
ResizeAlways(p, n) ==
  {[nLSlot |-> RoundUp8(n),
    aLTerm |-> [k \in 0..RoundUp8(n) - 1 |->
                  IF k < p.nLSlot THEN p.aLTerm[k] ELSE "garbage"]]}
Resize(p, n) ==
  IF p.nLSlot >= n THEN {[nLSlot |-> p.nLSlot, aLTerm |-> p.aLTerm]}
  ELSE {[nLSlot |-> RoundUp8(n),
         aLTerm |-> [k \in 0..RoundUp8(n) - 1 |->
                       IF k < p.nLSlot THEN p.aLTerm[k] ELSE "garbage"]]}
       \cup (IF MallocMayFail THEN {[nLSlot |-> p.nLSlot, aLTerm |-> p.aLTerm]} ELSE {})

\* The three early returns before the index loop.
EarlyExit == "FORCE_TABLE" \in wctrl \/ isVirtual \/ zIndex

Begin ==
  /\ pc = "begin"
  /\ IF EarlyExit
     THEN pc' = "done" /\ result' = 0 /\ UNCHANGED pLoop
     ELSE pc' = "idx" /\ pLoop' = [pLoop EXCEPT !.wsFlags = {}] /\ UNCHANGED result
  /\ UNCHANGED <<inputs, wctrl, pOrderBy, iIdx, j, oob, wi>>

\* for(pIdx=pTab->pIndex; pIdx; pIdx=pIdx->pNext): skip a non-unique
\* index (onError==OE_None), start the column loop of a unique one.
NextIndexNoReset ==
  /\ pc = "idx"
  /\ IF iIdx > Len(Indexes) THEN pc' = "end" /\ UNCHANGED iIdx
     ELSE IF ~Indexes[iIdx].unique THEN iIdx' = iIdx + 1 /\ UNCHANGED pc
     ELSE pc' = "col" /\ UNCHANGED iIdx
  /\ UNCHANGED <<inputs, wctrl, pOrderBy, j, pLoop, oob, wi, result>>
NextIndex ==
  /\ pc = "idx"
  /\ IF iIdx > Len(Indexes) THEN pc' = "end" /\ UNCHANGED <<iIdx, j>>
     ELSE IF ~Indexes[iIdx].unique THEN iIdx' = iIdx + 1 /\ UNCHANGED <<pc, j>>
     ELSE pc' = "col" /\ j' = 0 /\ UNCHANGED iIdx
  /\ UNCHANGED <<inputs, wctrl, pOrderBy, pLoop, oob, wi, result>>

\* One iteration over the columns of pIdx: findTerm, then
\* whereLoopResize(db, pLoop, j) and pLoop->aLTerm[j] = pTerm; the loop
\* ends at j==nColumn or at a column without an == term.
Column ==
  /\ pc = "col"
  /\ IF j < Len(Indexes[iIdx].cols) /\ FindTerm(ColumnAt(iIdx, j), {}) # "none"
     THEN \E r \in Resize(pLoop, j) :
            /\ pLoop' = [pLoop EXCEPT
                           !.nLSlot = r.nLSlot,
                           !.aLTerm = IF j < r.nLSlot
                                      THEN [r.aLTerm EXCEPT ![j] = FindTerm(ColumnAt(iIdx, j), {})]
                                      ELSE r.aLTerm]
            /\ oob' = IF j < r.nLSlot THEN oob ELSE oob \cup {j}
            /\ j' = j + 1 /\ UNCHANGED pc
     ELSE pc' = "probed" /\ UNCHANGED <<pLoop, oob, j>>
  /\ UNCHANGED <<inputs, wctrl, pOrderBy, iIdx, wi, result>>

\* After the column loop: continue with the next index unless every
\* column matched; then fill in the one-row loop and break.
Probed ==
  /\ pc = "probed"
  /\ IF j # Len(Indexes[iIdx].cols)
     THEN pc' = "idx" /\ iIdx' = iIdx + 1 /\ UNCHANGED pLoop
     ELSE /\ pLoop' = [pLoop EXCEPT
                         !.wsFlags = {"COLUMN_EQ", "ONEROW", "INDEXED"} \cup
                            (IF ColUsedMask(colUsed) \subseteq ColumnsInIndex(iIdx)
                             THEN {"IDX_ONLY"} ELSE {}),
                         !.nLTerm = j, !.nEq = j, !.pIndex = iIdx, !.rRun = 39]
          /\ pc' = "end" /\ UNCHANGED iIdx
  /\ UNCHANGED <<inputs, wctrl, pOrderBy, j, oob, wi, result>>

\* if( pLoop->wsFlags ): hand the loop to pWInfo->a[0] and return 1.
End ==
  /\ pc = "end"
  /\ IF pLoop.wsFlags # {}
     THEN /\ pLoop' = [pLoop EXCEPT !.nOut = 1]
          /\ wi' = [pWLoop |-> "pNew", nRowOut |-> 1,
                    bOBSat |-> pOrderBy \/ wi.bOBSat,
                    eDistinct |-> IF "WANT_DISTINCT" \in wctrl THEN "UNIQUE"
                                  ELSE wi.eDistinct]
          /\ result' = 1
     ELSE result' = 0 /\ UNCHANGED <<pLoop, wi>>
  /\ pc' = "done"
  /\ UNCHANGED <<inputs, wctrl, pOrderBy, iIdx, j, oob>>

\* sqlite4WhereBegin reaches whereShortCut for a one-table FROM clause
\* with a zeroed WhereInfo and pNew set up by whereLoopInit.
Init ==
  /\ where \in WhereChoices /\ colUsed \in ColUsedChoices
  /\ wctrl \in SUBSET {"FORCE_TABLE", "WANT_DISTINCT"}
  /\ isVirtual \in BOOLEAN /\ zIndex \in BOOLEAN
  /\ orderBy \in OrderByChoices /\ pOrderBy = (orderBy # << >>)
  \* The result set is read only under WANT_DISTINCT: one stands for all
  \* of them otherwise.
  /\ distinct \in IF "WANT_DISTINCT" \in wctrl THEN DistinctChoices
                  ELSE {CHOOSE d \in DistinctChoices : TRUE}
  /\ pc = "distinct" /\ iIdx = 1 /\ j = 0
  /\ pLoop = InitLoop /\ oob = {}
  /\ wi = [pWLoop |-> "none", nRowOut |-> 0, bOBSat |-> FALSE, eDistinct |-> "none"]
  /\ result = 0

\* After whereShortCut returns, sqlite4WhereBegin goes on to the general
\* planner or to code generation; nothing here changes any more.
Done == pc = "done" /\ UNCHANGED vars

Next == Distinct \/ Begin \/ NextIndex \/ Column \/ Probed \/ End \/ Done

\* sqlite4WhereBegin and whereShortCut are straight-line code with bounded loops: every step
\* before "done" is enabled (checked: no deadlock), so weak fairness.
Spec == Init /\ [][Next]_vars /\ WF_vars(Next)
=============================================================================
