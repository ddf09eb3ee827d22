----------------------------- MODULE WhereScan -----------------------------
(***************************************************************************)
(* whereScanInit, whereScanNext and findTerm of src/src/where.c: the       *)
(* iterator over the WHERE terms "X <op> <expr>" on a column X, which also *)
(* returns the terms on every column Y that a chain of X=Y equalities      *)
(* (terms marked WO_EQUIV) makes equal to X.                               *)
(*                                                                         *)
(* A clause chain is a sequence of clauses, innermost first (pWC, then     *)
(* pWC->pOuter, ...); a clause is a sequence of terms.  A term is a record *)
(* with at least                                                           *)
(*   tab, col     the column on its left (leftCursor, u.leftColumn);       *)
(*   op           its operator, "NONE" for an eOperator without one of the *)
(*                WO_EQ..WO_ISNULL bits (a column equality within one      *)
(*                table, line 1685);                                       *)
(*   equiv        whether eOperator has WO_EQUIV;                          *)
(*   rhs          <<tab, col>> when its right side is a column, else << >>;*)
(*   prereqRight  the tables its right side uses.                          *)
(* A column is the pair <<cursor, column>>.  Collating sequences and       *)
(* affinities are all the defaults, so the checks at 955-969 never skip.   *)
(***************************************************************************)
EXTENDS Integers, Sequences, FiniteSets

\* ArraySize(pScan->aEquiv): 22 ints, two per column.
AEquivSize == 22

\* The scan's position: the clause c of the chain and term k in it
\* (both 1-based), the column iEquiv of aEquiv being searched, and
\* aEquiv, the columns found equal to the original so far.
ScanInit(cur, col) == [c |-> 1, k |-> 1, iEquiv |-> 1, aEquiv |-> << <<cur, col>> >>]

\* Lines 935-952: an equivalence term adds the column on its right, unless
\* it is there already or aEquiv is full.
AddEquivNoDedupe(a, t) ==
  IF t.equiv /\ 2 * Len(a) < AEquivSize THEN Append(a, t.rhs) ELSE a
AddEquiv(a, t) ==
  IF t.equiv /\ 2 * Len(a) < AEquivSize /\ ~\E j \in 1..Len(a) : a[j] = t.rhs
  THEN Append(a, t.rhs) ELSE a

\* Lines 970-976: X=Y found while searching for Y that is the term
\* X=Y's commuted twin back to the original column.
Circular(t, a) == t.op = "EQ" /\ t.rhs = a[1]

\* whereScanNext: found, the next matching term and the scan after it;
\* found is FALSE at the end (the NULL return).
RECURSIVE ScanNext(_, _, _)
ScanNext(chain, ops, st) ==
  IF st.iEquiv > Len(st.aEquiv) THEN [found |-> FALSE, term |-> << >>, st |-> st]
  ELSE IF st.c > Len(chain)
  THEN ScanNext(chain, ops, [st EXCEPT !.c = 1, !.k = 1, !.iEquiv = @ + 1])
  ELSE IF st.k > Len(chain[st.c])
  THEN ScanNext(chain, ops, [st EXCEPT !.c = @ + 1, !.k = 1])
  ELSE LET t == chain[st.c][st.k]
           st1 == [st EXCEPT !.aEquiv = AddEquiv(@, t), !.k = @ + 1]
       IN  IF <<t.tab, t.col>> # st.aEquiv[st.iEquiv]
           THEN ScanNext(chain, ops, [st EXCEPT !.k = @ + 1])
           ELSE IF t.op \in ops /\ ~Circular(t, st.aEquiv)
           THEN [found |-> TRUE, term |-> t, st |-> st1]
           ELSE ScanNext(chain, ops, st1)

\* Every term the scan returns, in order: the loop of a caller that runs
\* the scan to its end (whereLoopAddBtreeIndex).
RECURSIVE ScanRest(_, _, _, _)
ScanRest(chain, ops, st, acc) ==
  LET r == ScanNext(chain, ops, st)
  IN  IF ~r.found THEN acc ELSE ScanRest(chain, ops, r.st, Append(acc, r.term))

ScanAll(chain, cur, col, ops) == ScanRest(chain, ops, ScanInit(cur, col), << >>)

\* findTerm: the first term whose right side uses no table at all with
\* ==, else the first whose right side uses no table of notReady; as a
\* sequence of at most one term (<< >> is the NULL return).
RECURSIVE FindFromFirst(_, _, _, _, _)
FindFromFirst(chain, ops, notReady, st, pResult) ==
  LET r == ScanNext(chain, ops, st)
  IN  IF ~r.found THEN pResult
      ELSE IF r.term.prereqRight \cap notReady = {} THEN <<r.term>>
      ELSE FindFromFirst(chain, ops, notReady, r.st, pResult)
RECURSIVE FindFrom(_, _, _, _, _)
FindFrom(chain, ops, notReady, st, pResult) ==
  LET r == ScanNext(chain, ops, st)
  IN  IF ~r.found THEN pResult
      ELSE IF r.term.prereqRight \cap notReady = {} /\ r.term.prereqRight = {}
              /\ r.term.op = "EQ"
      THEN <<r.term>>
      ELSE FindFrom(chain, ops, notReady, r.st,
                    IF r.term.prereqRight \cap notReady = {} /\ pResult = << >>
                    THEN <<r.term>> ELSE pResult)

FindTerm(chain, cur, col, notReady, ops) ==
  FindFrom(chain, ops, notReady, ScanInit(cur, col), << >>)
=============================================================================
