---------------------------- MODULE TermAnalysis ----------------------------
(***************************************************************************)
(* The WHERE clause of src/src/where.c as sqlite4WhereBegin builds it:     *)
(* whereSplit cuts the expression at its ANDs into the term array pWC->a[],*)
(* exprAnalyzeAll runs exprAnalyze on each term from the last to the first,*)
(* and exprAnalyze appends virtual terms (the commuted twin of X=Y, the    *)
(* two range terms of BETWEEN and LIKE, the MATCH and x>NULL terms), each  *)
(* linked to its parent by iParent, the parent counting them in nChild.    *)
(* Code generation then marks terms TERM_CODED through disableTerm, which  *)
(* walks up the iParent links.                                             *)
(*                                                                         *)
(* The array's memory is kept: nSlot slots, first the aStatic[] of the    *)
(* WhereClause (inside the zeroed WhereInfo), then blocks that            *)
(* whereClauseInsert allocates raw and fills by memcpy.  Every such move  *)
(* starts a new generation gen; a WhereTerm pointer is [gen, idx], and a  *)
(* store through a pointer of an older generation lands in freed memory:  *)
(* it is lost, and stale records it.  The allocation numbered failAt (a   *)
(* growth, or the WhereOrInfo or WhereAndInfo of an OR term; a choice of  *)
(* the initial state, 0 for none) finds no memory, and db->mallocFailed   *)
(* then fails every later one.  The OR clause of an OR term and the AND   *)
(* clause of each of its AND subterms are clauses of their own, kept in   *)
(* the term's field sub; nAlloc and failed, which belong to the db, are   *)
(* carried into a sub-clause and back.                                    *)
(*                                                                         *)
(* An operand is << >> (not a column) or <<cursor, column>>.  A leaf is    *)
(* [op, l, r, list, str, fn, coll]: pLeft, pRight, the operands of        *)
(* x.pList, the string (a LIKE pattern, or the bound of a LIKE range      *)
(* term), the LIKE function and the collation a range term carries; an    *)
(* AND or OR node is [op, l, r].  ON clauses of LEFT JOINs (EP_FromJoin)  *)
(* and affinities are not modelled (every column a LIKE tests is TEXT);   *)
(* SQLITE4_Transitive is enabled.                                         *)
(***************************************************************************)
EXTENDS Integers, Sequences, FiniteSets

LP == INSTANCE LikePrefix

CONSTANTS
  ExprChoices,   \* possible WHERE expressions (pWhere)
  AStatic,       \* ArraySize(aStatic): 8, or 1 under SQLITE4_SMALL_STACK
  MaxAlloc,      \* the largest allocation number failAt may name
  Tables,        \* the cursors of the FROM clause (pWInfo->sMaskSet)
  Stat3          \* SQLITE4_ENABLE_STAT3 with the Stat3 optimization on

VARIABLES
  expr,     \* pWhere
  failAt,   \* the allocation that fails (0: none)
  wc,       \* the WhereClause: [op, a, nSlot, gen, zero, nAlloc, stale, failed]
  i,        \* exprAnalyzeAll's loop counter, plus one
  phase,    \* "split", "analyze", "code", "error"
  direct    \* terms code generation has passed to disableTerm itself

vars == <<expr, failAt, wc, i, phase, direct>>

\* The comparison operators allowedOp accepts, and the WO_ bits.
CmpOps == {"EQ", "LT", "GT", "LE", "GE", "IN", "ISNULL"}

Leaf(op, l, r) == [op |-> op, l |-> l, r |-> r, list |-> << >>, str |-> << >>,
                   fn |-> "none", coll |-> "none"]

IsCol(x) == x # << >>

Node(e) == e.op \in {"AND", "OR"}

\* exprTableUsage / exprListTableUsage: the cursors an operand or an
\* expression refers to.
Usage(x) == IF IsCol(x) THEN {x[1]} ELSE {}
ListUsage(s) == UNION {Usage(s[k]) : k \in DOMAIN s}
RECURSIVE ExprUsage(_)
ExprUsage(e) ==
  IF Node(e) THEN ExprUsage(e.l) \cup ExprUsage(e.r)
  ELSE Usage(e.l) \cup Usage(e.r) \cup ListUsage(e.list)

\* exprCommute (lines 864-890): swap the operands; GT<->LT, GE<->LE.
CommuteOp(op) ==
  CASE op = "GT" -> "LT" [] op = "LT" -> "GT"
    [] op = "GE" -> "LE" [] op = "LE" -> "GE" [] OTHER -> op
Commute(e) == [e EXCEPT !.l = e.r, !.r = e.l, !.op = CommuteOp(e.op)]

\* An uninitialised nChild: no u8 value, it stands for whatever the memory held.
Garbage == -1

\* Bind e once and apply F: coverage-mode TLC re-evaluates a LET name at
\* every reference.
Once(e, F(_)) == CHOOSE r \in {F(v) : v \in {e}} : TRUE

\* The term fields whereClauseInsert leaves: nChild is zero in the
\* aStatic[] of a zeroed WhereInfo or WhereOrInfo, and uninitialised in
\* that of a WhereAndInfo (sqlite4DbMallocRaw) and in a grown array.
NewTerm(e, flags, w) ==
  [e |-> e, flags |-> flags, iParent |-> -1,
   nChild |-> IF w.gen = 0 /\ w.zero THEN 0 ELSE Garbage,
   left |-> << >>, eOp |-> {}, prereqRight |-> {}, prereqAll |-> {},
   sub |-> << >>, indexable |-> {}]

\* whereClauseInit of the clause of sqlite4WhereBegin.
ClauseInit == [op |-> "none", a |-> << >>, nSlot |-> AStatic, gen |-> 0, zero |-> TRUE,
               nAlloc |-> 0, stale |-> FALSE, failed |-> FALSE]

\* whereClauseInit of the clause of a WhereOrInfo (zero) or WhereAndInfo
\* allocated while w was the clause at hand.
SubClause(w, zero) == [ClauseInit EXCEPT !.zero = zero, !.nAlloc = w.nAlloc,
                                         !.failed = w.failed]

\* w after work on sub-clause s: the db's allocations and any lost store.
DbFrom(w, s) == [w EXCEPT !.nAlloc = s.nAlloc, !.failed = s.failed, !.stale = @ \/ s.stale]

\* sqlite4DbMallocRaw / sqlite4DbMallocZero: ok is FALSE when it fails.
Alloc(w) ==
  IF w.nAlloc + 1 = failAt \/ w.failed
  THEN [w |-> [w EXCEPT !.nAlloc = @ + 1, !.failed = TRUE], ok |-> FALSE]
  ELSE [w |-> [w EXCEPT !.nAlloc = @ + 1], ok |-> TRUE]

InsertNoGrow(w, e, flags) ==
  [w |-> [w EXCEPT !.a = Append(@, NewTerm(e, flags, w))], idx |-> Len(w.a)]

\* whereClauseInsert (lines 683-710): the clause after appending the
\* term for e, and its index (0-based), 0 when the array was full and
\* could not grow (db->mallocFailed is then set, and sqlite4DbMallocRaw
\* fails from then on).
Insert(w, e, flags) ==
  IF Len(w.a) < w.nSlot
  THEN [w |-> [w EXCEPT !.a = Append(@, NewTerm(e, flags, w))], idx |-> Len(w.a)]
  ELSE Once(Alloc(w), LAMBDA al :
         IF ~al.ok THEN [w |-> al.w, idx |-> 0]
         ELSE Once([al.w EXCEPT !.gen = @ + 1, !.nSlot = 2 * @], LAMBDA g :
                [w |-> [g EXCEPT !.a = Append(@, NewTerm(e, flags, g))], idx |-> Len(w.a)]))

\* &pWC->a[idx], and stores of the fields of record u through it.
Ptr(w, idx) == [gen |-> w.gen, idx |-> idx]
At(w, p) == w.a[p.idx + 1]
Store(w, p, u) ==
  IF p.gen = w.gen
  THEN [w EXCEPT !.a[p.idx + 1] = [k \in DOMAIN @ |-> IF k \in DOMAIN u THEN u[k] ELSE @[k]]]
  ELSE [w EXCEPT !.stale = TRUE]

\* whereSplit (lines 729-738).
RECURSIVE WhereSplit(_, _, _)
WhereSplit(w, e, op) ==
  IF e.op = op THEN WhereSplit(WhereSplit([w EXCEPT !.op = op], e.l, op), e.r, op)
  ELSE Insert([w EXCEPT !.op = op], e, {}).w

\* Lines 1659-1670: the tables the right side of a leaf uses.
PrereqRight(e) ==
  IF Node(e) THEN ExprUsage(e.r)
  ELSE IF e.op = "IN" THEN ListUsage(e.list) ELSE IF e.op = "ISNULL" THEN {} ELSE Usage(e.r)

Virtual == {"VIRTUAL", "DYNAMIC"}

\* The analysis of one term: the clause, the pointer pTerm as it stands,
\* and whether exprAnalyze returned before its last statement.
Result(w, p, ret) == [w |-> w, p |-> p, ret |-> ret]

\* pTerm->nChild = n; pTerm->wtFlags |= TERM_COPIED.
Copied(w, p, n) == Store(w, p, [nChild |-> n, flags |-> At(w, p).flags \cup {"COPIED"}])

RECURSIVE ExprAnalyze(_, _), BetweenChild(_, _, _, _), AnalyzeFrom(_, _)

\* exprAnalyzeAll (lines 1155-1163) of a sub-clause.
AnalyzeAll(w) == AnalyzeFrom(w, Len(w.a) - 1)

\* Lines 1682-1729: X <op> Y with allowedOp(op).  A column on the left
\* sets leftCursor; a column on the right as well adds the commuted twin
\* as a virtual child, a column on the right only commutes the term.
AnalyzeCmp(w, idx, e) ==
  LET pl     == Usage(e.l)
      opMask == IF PrereqRight(e) \cap pl = {} THEN CmpOps \cup {"EQUIV"} ELSE {"EQUIV"}
      p0     == Ptr(w, idx)
      twin   == Commute(e)
      Fill(extra) == [left |-> e.r, prereqRight |-> pl, prereqAll |-> ExprUsage(e),
                      eOp |-> ({twin.op} \cup extra) \cap opMask]
  IN  Once(IF IsCol(e.l) THEN Store(w, p0, [left |-> e.l, eOp |-> {e.op} \cap opMask])
           ELSE w, LAMBDA w1 :
      IF ~IsCol(e.r) THEN Result(w1, p0, FALSE)
      ELSE IF ~IsCol(e.l)
      THEN Result(Store(Store(w1, p0, [e |-> twin]), p0, Fill({})), p0, FALSE)
      ELSE Once(Insert(w1, twin, Virtual), LAMBDA ins :
           LET pNew  == Ptr(ins.w, ins.idx)
               extra == IF e.op = "EQ" THEN {"EQUIV"} ELSE {}
               w2    == Store(ins.w, pNew, [iParent |-> idx])
               p1    == Ptr(w2, idx)
               w3    == Store(Copied(w2, p1, 1), p1, [eOp |-> At(w2, p1).eOp \cup extra])
           IN  IF ins.idx = 0 THEN Result(ins.w, p0, TRUE)
               ELSE Result(Store(w3, pNew, Fill(extra)), p1, FALSE)))

BetweenChildParentFirst(w, idx, e, k) ==
  LET ins == Insert(w, Leaf(IF k = 1 THEN "GE" ELSE "LE", e.l, e.list[k]), Virtual)
  IN  ExprAnalyze(Store(ins.w, Ptr(ins.w, ins.idx), [iParent |-> idx]), ins.idx)

\* Lines 1753-1764, iteration k: append X>=lo (or X<=hi), analyse it,
\* refresh pTerm, and make the BETWEEN term its parent.
BetweenChild(w, idx, e, k) ==
  Once(Insert(w, Leaf(IF k = 1 THEN "GE" ELSE "LE", e.l, e.list[k]), Virtual), LAMBDA ins :
  Once(ExprAnalyze(ins.w, ins.idx), LAMBDA w1 :
  Store(w1, Ptr(w1, ins.idx), [iParent |-> idx])))

BetweenNoRefresh(w, idx, e) ==
  LET w2 == BetweenChild(BetweenChild(w, idx, e, 1), idx, e, 2)
      p  == Ptr(w, idx)
  IN  Result(Store(w2, p, [nChild |-> 2]), p, FALSE)

\* Lines 1747-1766, with pTerm as line 1762 last refreshed it.
Between(w, idx, e) ==
  Once(BetweenChild(BetweenChild(w, idx, e, 1), idx, e, 2), LAMBDA w2 :
  Result(Store(w2, Ptr(w2, idx), [nChild |-> 2]), Ptr(w2, idx), FALSE))

\* Lines 1791-1842: x LIKE 'abc%' (pLeft is x.pList->a[1]) gains the
\* virtual terms x>='abc' and x<'abd' under the collation of the function,
\* each analysed as it is added; they become its children only when the
\* prefix is the whole pattern.
LikeRange(op, e, s, lg) == [Leaf(op, e.list[2], << >>) EXCEPT !.str = s, !.coll = LP!LikeColl(lg)]
Like(w, idx, e) ==
  Once(LP!IsLikeOrGlob(e.fn, IsCol(e.list[2]), e.str), LAMBDA lg :
  Once(Insert(w, LikeRange("GE", e, lg.prefix, lg), Virtual), LAMBDA ins1 :
  Once(ExprAnalyze(ins1.w, ins1.idx), LAMBDA w1 :
  Once(Insert(w1, LikeRange("LT", e, LP!LikeUpper(lg), lg), Virtual), LAMBDA ins2 :
  Once(ExprAnalyze(ins2.w, ins2.idx), LAMBDA w2 :
  LET p  == Ptr(w2, idx)
      w3 == Store(Store(w2, Ptr(w2, ins1.idx), [iParent |-> idx]),
                  Ptr(w2, ins2.idx), [iParent |-> idx])
  IN  Result(IF LP!LikeComplete(lg) THEN Store(w3, p, [nChild |-> 2]) ELSE w2, p, FALSE))))))

\* Lines 1852-1879: match(expr, column) gains a virtual WO_MATCH term on
\* the column, unless expr uses the column's table.  idxNew is not
\* checked: when the insert fails, the stores go to a[0].
Match(w, idx, e) ==
  LET ins  == Insert(w, Leaf("MATCH", << >>, e.list[1]), Virtual)
      pNew == Ptr(ins.w, ins.idx)
      w1   == Store(ins.w, pNew, [prereqRight |-> Usage(e.list[1]), left |-> e.list[2],
                                  eOp |-> {"MATCH"}, iParent |-> idx])
      p    == Ptr(w1, idx)
      w2   == Copied(w1, p, 1)
  IN  IF Usage(e.list[1]) \cap Usage(e.list[2]) # {} THEN Result(w, Ptr(w, idx), FALSE)
      ELSE Result(Store(w2, pNew, [prereqAll |-> At(w2, p).prereqAll]), p, FALSE)

\* Lines 1893-1921: x IS NOT NULL gains the virtual term x>NULL (TERM_VNULL).
NotNull(w, idx, e) ==
  LET ins  == Insert(w, Leaf("GT", e.l, << >>), Virtual \cup {"VNULL"})
      pNew == Ptr(ins.w, ins.idx)
      w1   == Store(ins.w, pNew, [prereqRight |-> {}, left |-> e.l, eOp |-> {"GT"},
                                  iParent |-> idx])
      p    == Ptr(w1, idx)
      w2   == Copied(w1, p, 1)
  IN  IF ins.idx = 0 THEN Result(ins.w, Ptr(w, idx), FALSE)
      ELSE Result(Store(w2, pNew, [prereqAll |-> At(w2, p).prereqAll]), p, FALSE)

(***************************************************************************)
(* exprAnalyzeOrTerm (lines 1380-1610).                                    *)
(***************************************************************************)

\* WO_SINGLE: the operators of a single comparison.
SingleOps == CmpOps \cup {"MATCH"}

\* getMask: the cursor of a term's left column, "none" for leftCursor -1.
Cursor(t) == IF IsCol(t.left) THEN t.left[1] ELSE "none"

\* Lines 1421-1448: an OR subterm that is no single comparison becomes an
\* AND subterm, whose own clause is split at its ANDs and analysed; the
\* tables of its indexable conjuncts bound indexable.  s is the loop's
\* state [sub, indexable, chng] (pOrWc, indexable, chngToIN).
AndSubterm(s, k) ==
  Once(Alloc(s.sub), LAMBDA al :
  IF ~al.ok THEN [s EXCEPT !.sub = al.w, !.chng = {}]
  ELSE Once(AnalyzeAll(WhereSplit(SubClause(al.w, FALSE), s.sub.a[k].e, "AND")), LAMBDA aw :
       LET b == IF aw.failed THEN {}
                ELSE UNION {Usage(aw.a[j].left) : j \in {j \in DOMAIN aw.a : aw.a[j].e.op \in CmpOps}}
       IN  [s EXCEPT !.sub = [DbFrom(al.w, aw) EXCEPT !.a[k].sub = aw,
                                !.a[k].flags = @ \cup {"ANDINFO"}, !.a[k].eOp = {"AND"}],
                     !.indexable = @ \cap b, !.chng = {}]))

\* Lines 1419-1466: the loop over the OR subterms, first to last, while
\* indexable is not empty.  A TERM_COPIED X=Y is skipped: its virtual
\* twin stands for both columns.
RECURSIVE OrScan(_, _)
OrScan(s, k) ==
  IF k > Len(s.sub.a) \/ s.indexable = {} THEN s
  ELSE LET t == s.sub.a[k]
           b == Usage(t.left) \cup
                  (IF "VIRTUAL" \in t.flags THEN Usage(s.sub.a[t.iParent + 1].left) ELSE {})
       IN  OrScan(IF t.eOp \cap SingleOps = {} THEN AndSubterm(s, k)
                  ELSE IF "COPIED" \in t.flags THEN s
                  ELSE [s EXCEPT !.indexable = @ \cap b,
                                 !.chng = IF "EQ" \in t.eOp THEN @ \cap b ELSE {}],
                  k + 1)

ClearOk(sub, k) == [sub EXCEPT !.a[k].flags = @ \ {"OR_OK"}]

\* Lines 1508-1531: from subterm k on, clear TERM_OR_OK and stop at the
\* first subterm on a table of chngToIN other than iCursor; k is past the
\* end when there is none.
RECURSIVE FindCandidate(_, _, _, _)
FindCandidate(sub, k, chng, iCursor) ==
  IF k > Len(sub.a) THEN [sub |-> sub, k |-> k]
  ELSE IF Cursor(sub.a[k]) = iCursor \/ Cursor(sub.a[k]) \notin chng
  THEN FindCandidate(ClearOk(sub, k), k + 1, chng, iCursor)
  ELSE [sub |-> ClearOk(sub, k), k |-> k]

\* Lines 1544-1566: from subterm k on, each subterm on the candidate's
\* table must be on its column x, and is marked TERM_OR_OK.
RECURSIVE CheckColumn(_, _, _)
CheckColumn(sub, k, x) ==
  IF k > Len(sub.a) THEN [sub |-> sub, ok |-> TRUE]
  ELSE IF Cursor(sub.a[k]) # x[1] THEN CheckColumn(ClearOk(sub, k), k + 1, x)
  ELSE IF sub.a[k].left # x THEN [sub |-> sub, ok |-> FALSE]
  ELSE CheckColumn([sub EXCEPT !.a[k].flags = @ \cup {"OR_OK"}], k + 1, x)

SearchOnePass(sub, j, chng, iCursor) ==
  Once(FindCandidate(sub, 1, chng, iCursor), LAMBDA f :
  IF f.k > Len(sub.a) THEN [sub |-> f.sub, ok |-> FALSE]
  ELSE CheckColumn(f.sub, f.k, f.sub.a[f.k].left))

\* Lines 1504-1567: at most two candidates, the second on another table.
RECURSIVE Search(_, _, _, _)
Search(sub, j, chng, iCursor) ==
  IF j = 2 THEN [sub |-> sub, ok |-> FALSE]
  ELSE Once(FindCandidate(sub, 1, chng, iCursor), LAMBDA f :
       IF f.k > Len(sub.a) THEN [sub |-> f.sub, ok |-> FALSE]
       ELSE Once(CheckColumn(f.sub, f.k, f.sub.a[f.k].left), LAMBDA c :
            IF c.ok THEN c ELSE Search(c.sub, j + 1, chng, f.sub.a[f.k].left[1])))

\* Lines 1576-1602: the IN expression x IN (...) of the subterms marked
\* TERM_OR_OK, x being the left side of the last of them.
InExpr(sub) ==
  LET ok == SelectSeq(sub.a, LAMBDA t : "OR_OK" \in t.flags)
  IN  [Leaf("IN", ok[Len(ok)].e.l, << >>) EXCEPT !.list = [k \in DOMAIN ok |-> ok[k].e.r]]

\* exprAnalyzeOrTerm: pTerm is not moved before line 1598, as only the
\* sub-clauses grow; idxNew is not checked.
OrTerm(w, idx, e) ==
  LET p == Ptr(w, idx) IN
  Once(Alloc(w), LAMBDA al :
  IF ~al.ok THEN Result(al.w, p, FALSE)
  ELSE Once(AnalyzeAll(WhereSplit(SubClause(al.w, TRUE), e, "OR")), LAMBDA sub0 :
  IF sub0.failed
  THEN Result(Store(DbFrom(al.w, sub0), p, [flags |-> At(w, p).flags \cup {"ORINFO"},
                                            sub |-> sub0]), p, FALSE)
  ELSE Once(OrScan([sub |-> sub0, indexable |-> Tables, chng |-> Tables], 1), LAMBDA sc :
  Once(Store(DbFrom(al.w, sc.sub), p,
             [flags |-> At(w, p).flags \cup {"ORINFO"}, sub |-> sc.sub,
              indexable |-> sc.indexable, eOp |-> IF sc.indexable = {} THEN {} ELSE {"OR"}]),
       LAMBDA w2 :
  IF sc.chng = {} THEN Result(w2, p, FALSE)
  ELSE Once(Search(sc.sub, 0, sc.chng, "none"), LAMBDA sr :
  IF ~sr.ok THEN Result(Store(w2, p, [sub |-> sr.sub]), p, FALSE)
  ELSE Once(Insert(Store(w2, p, [sub |-> sr.sub]), InExpr(sr.sub), Virtual), LAMBDA ins :
  Once(ExprAnalyze(ins.w, ins.idx), LAMBDA w4 :
  Result(Store(Store(w4, Ptr(w4, ins.idx), [iParent |-> idx]), Ptr(w4, idx),
               [nChild |-> 1, eOp |-> {"NOOP"}]), Ptr(w4, idx), FALSE))))))))

\* exprAnalyze (lines 1631-1928) of the term at idx.  The last statement,
\* pTerm->prereqRight |= extraRight, stores through pTerm (extraRight is
\* 0 without ON clauses).
ExprAnalyze(w, idx) ==
  IF w.failed THEN w
  ELSE
  LET e == w.a[idx + 1].e IN
  Once(Store(w, Ptr(w, idx), [prereqRight |-> PrereqRight(e), prereqAll |-> ExprUsage(e),
                              left |-> << >>, iParent |-> -1, eOp |-> {}]), LAMBDA w0 :
  Once(CASE e.op \in CmpOps -> AnalyzeCmp(w0, idx, e)
         [] e.op = "BETWEEN" /\ w.op = "AND" -> Between(w0, idx, e)
         [] e.op = "OR" -> OrTerm(w0, idx, e)
         [] e.op = "LIKE" /\ w.op = "AND"
              /\ LP!IsLikeOrGlob(e.fn, IsCol(e.list[2]), e.str).ok -> Like(w0, idx, e)
         [] e.op = "MATCH_FN" /\ IsCol(e.list[2]) -> Match(w0, idx, e)
         [] e.op = "NOTNULL" /\ Stat3 /\ IsCol(e.l) -> NotNull(w0, idx, e)
         [] OTHER -> Result(w0, Ptr(w0, idx), FALSE), LAMBDA r :
  IF r.ret THEN r.w
  ELSE Store(r.w, r.p, [prereqRight |-> At(r.w, r.p).prereqRight])))

AnalyzeFrom(w, k) == IF k < 0 THEN w ELSE Once(ExprAnalyze(w, k), LAMBDA w1 : AnalyzeFrom(w1, k - 1))

\* disableTerm (lines 2891-2904) with pLevel->iLeftJoin # 0 as leftJoin:
\* mark the term coded and, when it was its parent's last uncoded child,
\* the parent too.  nChild is a u8.
RECURSIVE DisableTermNoGuard(_, _, _)
DisableTermNoGuard(w, idx, leftJoin) ==
  LET t == w.a[idx + 1]
      w1 == [w EXCEPT !.a[idx + 1].flags = @ \cup {"CODED"}]
      q == t.iParent + 1
      w2 == [w1 EXCEPT !.a[q].nChild = IF @ = Garbage THEN @ ELSE (@ - 1) % 256]
  IN  IF leftJoin THEN w
      ELSE IF t.iParent < 0 THEN w1
      ELSE IF w2.a[q].nChild = 0 THEN DisableTermNoGuard(w2, t.iParent, leftJoin)
      ELSE w2
RECURSIVE DisableTerm(_, _, _)
DisableTerm(w, idx, leftJoin) ==
  LET t == w.a[idx + 1]
      w1 == [w EXCEPT !.a[idx + 1].flags = @ \cup {"CODED"}]
      q == t.iParent + 1
      w2 == [w1 EXCEPT !.a[q].nChild = IF @ = Garbage THEN @ ELSE (@ - 1) % 256]
  IN  IF "CODED" \in t.flags \/ leftJoin THEN w
      ELSE IF t.iParent < 0 THEN w1
      ELSE IF w2.a[q].nChild = 0 THEN DisableTerm(w2, t.iParent, leftJoin)
      ELSE w2

(***************************************************************************)
(* sqlite4WhereBegin around the WHERE clause.                              *)
(***************************************************************************)

\* The WhereInfo was just allocated; whereClauseInit has run.
Init ==
  /\ expr \in ExprChoices
  /\ failAt \in 0..MaxAlloc
  /\ wc = ClauseInit
  /\ i = 0 /\ phase = "split" /\ direct = {}

\* Line 5827: whereSplit(&pWInfo->sWC, pWhere, TK_AND); exprAnalyzeAll
\* then starts at the last term.
Split ==
  /\ phase = "split"
  /\ \E w \in {WhereSplit(wc, expr, "AND")} : wc' = w /\ i' = Len(w.a)
  /\ phase' = "analyze"
  /\ UNCHANGED <<expr, failAt, direct>>

\* One iteration of exprAnalyzeAll (lines 1160-1162).  Terms appended
\* meanwhile lie above i and are never analysed here.
Analyze ==
  /\ phase = "analyze" /\ i > 0
  /\ wc' = ExprAnalyze(wc, i - 1)
  /\ i' = i - 1
  /\ UNCHANGED <<expr, failAt, phase, direct>>

\* Lines 5883-5885: after a failed allocation the statement is abandoned.
EndAnalysis ==
  /\ phase = "analyze" /\ i = 0
  /\ phase' = IF wc.failed THEN "error" ELSE "code"
  /\ UNCHANGED <<expr, failAt, wc, i, direct>>

\* Code generation (codeEqualityTerm, codeAllEqualityTerms, the range and
\* residual-term loops of sqlite4WhereCodeOneLoopStart) calls disableTerm
\* on terms it has coded, in a level that may be a LEFT JOIN's.
Disable ==
  /\ phase = "code"
  /\ \E t \in 0..(Len(wc.a) - 1), leftJoin \in BOOLEAN :
       /\ wc' = DisableTerm(wc, t, leftJoin)
       /\ direct' = IF leftJoin THEN direct ELSE direct \cup {t}
  /\ UNCHANGED <<expr, failAt, i, phase>>

\* whereBeginError: nothing more happens to the clause.
Abandoned == phase = "error" /\ UNCHANGED vars

Next == Split \/ Analyze \/ EndAnalysis \/ Disable \/ Abandoned

Spec == Init /\ [][Next]_vars
=============================================================================
