----------------------------- MODULE OrderBySat -----------------------------
(***************************************************************************)
(* wherePathSatisfiesOrderBy (src/src/where.c): does a partial join order, *)
(* with one more WhereLoop appended, deliver rows in ORDER BY order?       *)
(* Answers 1 (yes), 0 (no, a sort is needed) or -1 (cannot tell yet).      *)
(*                                                                         *)
(* Data abstraction.  A cursor bitmask is a set of tables.  An ORDER BY    *)
(* term is a record: isCol (op==TK_COLUMN), tab and col (iTable,iColumn),  *)
(* desc (sortOrder) and usage (exprTableUsage of the term).  A WHERE term  *)
(* that findTerm(...,WO_EQ|WO_ISNULL) can return is a record of the       *)
(* constrained tab and col and its prereqRight.  Every column carries the  *)
(* default collating sequence, so the collation comparisons always match.  *)
(* A WhereLoop is a record; the fields read here are tab, oneRow           *)
(* (WHERE_ONEROW), vtab / vtabOrdered (WHERE_VIRTUALTABLE, u.vtab.isOrdered)*)
(* idx ("none", "unordered" for bUnordered or FTS5, or "index"), unique    *)
(* (onError!=OE_None), cols (index columns then PK columns, each with col  *)
(* and rev) and eqOps (operator of aLTerm[j] for the nEq leading columns). *)
(***************************************************************************)
EXTENDS Integers, Sequences, FiniteSets

CONSTANTS
  OrderBy,      \* pOrderBy: sequence of ORDER BY / GROUP BY terms
  EqTerms,      \* WHERE terms of the form X=expr or X IS NULL
  NotNull,      \* set of <<tab, col>> declared NOT NULL
  WctrlFlags    \* subset of {"GROUPBY", "DISTINCTBY"} of pWInfo->wctrlFlags

nOrderBy == Len(OrderBy)
obDone == 1..nOrderBy

\* F applied to the value of e, with e evaluated once: the walks below
\* thread a state record through recursive calls that read it many times.
Once(e, F(_)) == CHOOSE r \in {F(v) : v \in {e}} : TRUE

\* The ORDER BY term i names column col of table tab.
IsColumn(i, tab, col) ==
  OrderBy[i].isCol /\ OrderBy[i].tab = tab /\ OrderBy[i].col = col

\* Mark off ORDER BY terms of loop p's table fixed by X=? or X IS NULL
\* against outer loops only (findTerm with notReady == ~ready).
EqMarked(p, obSat, ready) ==
  {i \in obDone \ obSat :
     OrderBy[i].isCol /\ OrderBy[i].tab = p.tab
     /\ \E e \in EqTerms : e.tab = p.tab /\ e.col = OrderBy[i].col
                           /\ e.prereq \subseteq ready}

\* The ORDER BY term the j-th index column is compared with: for ORDER BY
\* only the first unsatisfied term (bOnce), for GROUP BY / DISTINCT any.
MatchTerm(p, col, obSat, flags) ==
  LET open == obDone \ obSat
      cand == IF flags \cap {"GROUPBY", "DISTINCTBY"} = {}
              THEN {i \in open : \A k \in open : i <= k}
              ELSE open
      hit  == {i \in cand : IsColumn(i, p.tab, col)}
  IN  IF hit = {} THEN 0 ELSE CHOOSE i \in hit : \A k \in hit : i <= k

\* One iteration of the loop over the columns of p's index (column j,
\* 1-based): the state after it and whether the loop stops there (a
\* "break" or a "return 0").
ColumnStep(p, k, flags, j, s) ==
  IF j <= p.nEq /\ p.eqOps[j] \in {"EQ", "ISNULL"}
  THEN [stop |-> FALSE, s |-> [s EXCEPT !.iod = s.iod /\ p.eqOps[j] # "ISNULL"]]
  ELSE
    LET c    == p.cols[j]
        iod  == s.iod /\ (j <= p.nEq \/ <<p.tab, c.col>> \in NotNull)
        i    == MatchTerm(p, c.col, s.obSat, flags)
        rev  == IF s.revSet THEN s.rev ELSE (c.rev # OrderBy[i].desc)
    IN  IF i = 0 THEN [stop |-> TRUE, s |-> [s EXCEPT !.iod = FALSE]]
        \* the sort-order test reads pWInfo->wctrlFlags, not wctrlFlags
        ELSE IF "GROUPBY" \in WctrlFlags
        THEN [stop |-> FALSE, s |-> [s EXCEPT !.obSat = @ \cup {i}, !.iod = iod]]
        ELSE IF s.revSet /\ (s.rev # c.rev) # OrderBy[i].desc
        THEN [stop |-> TRUE, s |-> [s EXCEPT !.ret0 = TRUE]]
        ELSE [stop |-> FALSE,
              s |-> [s EXCEPT !.obSat = @ \cup {i}, !.iod = iod, !.rev = rev,
                              !.revSet = TRUE,
                              !.revMask = IF rev THEN @ \cup {k} ELSE @]]

\* The loop over the columns of p's index from column j.  Returns the
\* updated obSat, isOrderDistinct, rev/revSet, revMask, whether the walk
\* reached the end (j==nColumn) and whether it returned 0.
RECURSIVE ColumnWalk(_, _, _, _, _)
ColumnWalk(p, k, flags, j, s) ==
  IF j > Len(p.cols) THEN [s EXCEPT !.complete = TRUE]
  ELSE LET r == ColumnStep(p, k, flags, j, s)
       IN  IF r.stop THEN r.s ELSE ColumnWalk(p, k, flags, j + 1, r.s)

\* Once every loop so far is order-distinct, mark off the ORDER BY terms
\* that use only those loops' tables.
MarkOrderDistinctSkipped(obSat, od) == obSat
MarkOrderDistinct(obSat, od) ==
  obSat \cup {i \in obDone \ obSat : OrderBy[i].usage \subseteq od}

\* Lines 5178-5289 for loop p: a one-row loop leaves the state alone, a loop
\* without a usable ordered index returns 0, otherwise the column walk;
\* reaching the end of the index makes the loop order-distinct.
AfterColumns(p, k, flags, s1) ==
  IF p.oneRow THEN s1
  ELSE IF p.idx # "index" THEN [s1 EXCEPT !.ret0 = TRUE]
  ELSE Once(ColumnWalk(p, k, flags, 1,
              [s1 EXCEPT !.iod = p.unique, !.rev = FALSE, !.revSet = FALSE,
                         !.complete = FALSE]),
            LAMBDA w : [w EXCEPT !.iod = @ \/ w.complete])

\* One iteration of the loop over the WhereLoops of the path (iLoop = k).
OrderByStep(p, k, flags, s) ==
  Once(AfterColumns(p, k, flags,
         [s EXCEPT !.obSat = @ \cup EqMarked(p, @, s.ready)]),
       LAMBDA s2 :
         IF s2.ret0 \/ ~s2.iod THEN [s2 EXCEPT !.ready = @ \cup {p.tab}]
         ELSE [s2 EXCEPT !.odMask = @ \cup {p.tab}, !.ready = @ \cup {p.tab},
                         !.obSat = MarkOrderDistinct(@, s2.odMask \cup {p.tab})])

RECURSIVE PathWalk(_, _, _, _)
PathWalk(loops, flags, k, s) ==
  IF s.ret0 \/ ~s.iod \/ s.obSat = obDone \/ k > Len(loops) THEN s
  ELSE PathWalk(loops, flags, k + 1, Once(OrderByStep(loops[k], k, flags, s),
                                          LAMBDA v : v))

\* wherePathSatisfiesOrderBy(pWInfo, pOrderBy, pPath, wctrlFlags, nLoop,
\* pLast, pRevMask) with path = pPath->aLoop[0..nLoop-1].  Result is
\* [res |-> 1, 0 or -1, rev |-> the loops (1-based) to run in reverse].
SatisfiesOrderBy(path, last, flags) ==
  IF last.vtab THEN [res |-> IF last.vtabOrdered THEN 1 ELSE 0, rev |-> {}]
  ELSE Once(PathWalk(Append(path, last), flags, 1,
                     [obSat |-> {}, iod |-> TRUE, odMask |-> {}, ready |-> {},
                      rev |-> FALSE, revSet |-> FALSE, revMask |-> {},
                      complete |-> FALSE, ret0 |-> FALSE]),
            LAMBDA s :
              [res |-> CASE s.ret0 -> 0
                         [] s.obSat = obDone -> 1
                         [] ~s.iod -> 0
                         [] OTHER -> -1,
               rev |-> s.revMask])
=============================================================================
