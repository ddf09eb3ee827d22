---------------------------- MODULE MCLoopBuilder ----------------------------
(***************************************************************************)
(* A two-table schema:                                                     *)
(*   A(a PRIMARY KEY, b, c) with index iAb(b), 1000 rows;                  *)
(*   B(x PRIMARY KEY, y, z) with index iBy(y) and UNIQUE uByz(y, z),       *)
(*   500 rows.                                                             *)
(* The statement joins A and B, as an inner join, a LEFT JOIN, or with     *)
(* INDEXED BY uByz, under one of a set of WHERE clauses that between them  *)
(* drive every builder branch: join equalities in both directions,         *)
(* constant equalities, IN lists, IS NULL, two-sided ranges and an OR.     *)
(* The statements of VtabStatements join A with B as a virtual table       *)
(* whose xBestIndex behaves in one of four ways (MCXBestIndex).            *)
(***************************************************************************)
EXTENDS LoopBuilder

Index(n, cols, u, pk, cover, est, pkc) ==
  [name |-> n, cols |-> cols, unique |-> u, isPk |-> pk, bUnordered |-> FALSE,
   cover |-> cover, aiRowEst |-> est, hasName |-> TRUE, pkCol |-> pkc, fts |-> FALSE]

MCIdx ==
  [n \in {"pkA", "iAb", "pkB", "iBy", "uByz"} |->
     CASE n = "pkA"  -> Index(n, <<"a">>, TRUE, TRUE, {}, <<1000, 1>>, "none")
       [] n = "iAb"  -> Index(n, <<"b">>, FALSE, FALSE, {"a", "b"}, <<1000, 10>>, "a")
       [] n = "pkB"  -> Index(n, <<"x">>, TRUE, TRUE, {}, <<500, 1>>, "none")
       [] n = "iBy"  -> Index(n, <<"y">>, FALSE, FALSE, {"x", "y"}, <<500, 20>>, "x")
       [] n = "uByz" -> Index(n, <<"y", "z">>, TRUE, FALSE, {"x", "y", "z"}, <<500, 20, 1>>, "x")]

Tab(cur, jt, idxs, pk, n, by, used) ==
  [cur |-> cur, jointype |-> jt, indexes |-> idxs, pk |-> pk, nRowEst |-> n,
   indexedBy |-> by, notIndexed |-> FALSE, autoIndex |-> TRUE, colUsed |-> used,
   isVirtual |-> FALSE, bestIndex |-> "none"]

TabA == Tab("A", "INNER", <<"pkA", "iAb">>, "pkA", 1000, "none", {"a", "b", "c"})
TabB(jt, by) == Tab("B", jt, <<"pkB", "iBy", "uByz">>, "pkB", 500, by, {"x", "y"})

\* B as a virtual table whose xBestIndex behaves as b.
VtabB(jt, b) == [Tab("B", jt, << >>, "none", 500, "none", {"x", "y"}) EXCEPT
                   !.isVirtual = TRUE, !.bestIndex = b]

MCTabsChoices ==
  { <<TabA, TabB("INNER", "none")>>, <<TabA, TabB("LEFT", "none")>>,
    <<TabA, TabB("INNER", "uByz")>> }

Term(op, tab, col, pre, n) ==
  [op |-> op, tab |-> tab, col |-> col, equiv |-> FALSE, rhs |-> << >>,
   prereqRight |-> pre, nList |-> n, idx |-> "none", indexable |-> {}, sub |-> << >>]

\* A column equality X=Y: WO_EQ|WO_EQUIV, its right side a column.
EqCol(tab, col, rtab, rcol) ==
  [Term("EQ", tab, col, {rtab}, 0) EXCEPT !.equiv = TRUE, !.rhs = <<rtab, rcol>>]

EqAB  == EqCol("A", "b", "B", "y")          \* A.b = B.y
EqBA  == EqCol("B", "y", "A", "b")          \* its commuted virtual term
\* A.a = A.b: both sides on A, so only WO_EQUIV is kept (line 1685)
EqAaAb == [EqCol("A", "a", "A", "b") EXCEPT !.op = "NONE"]
EqAbAa == [EqCol("A", "b", "A", "a") EXCEPT !.op = "NONE"]
EqAa  == Term("EQ", "A", "a", {}, 0)        \* A.a = 5
EqBy  == Term("EQ", "B", "y", {}, 0)        \* B.y = 3
EqBz  == Term("EQ", "B", "z", {}, 0)        \* B.z = 4
InBz  == Term("IN", "B", "z", {}, 3)        \* B.z IN (1, 2, 3)
NulBz == Term("ISNULL", "B", "z", {}, 0)    \* B.z IS NULL
GtBy  == Term("GT", "B", "y", {}, 0)        \* B.y > 5
LtBy  == Term("LT", "B", "y", {}, 0)        \* B.y < 9
\* A.a = 1 OR A.b = 2
OrA == [Term("OR", "none", "none", {}, 0) EXCEPT
          !.indexable = {"A"},
          !.sub = <<Term("EQ", "A", "a", {}, 0), Term("EQ", "A", "b", {}, 0)>>]

\* B MATCH 'x', answered by the full-text index ftsB
MatchB == [Term("MATCH", "B", "none", {}, 0) EXCEPT !.idx = "ftsB"]
In1By == Term("IN", "B", "y", {}, 1)         \* B.y IN (7)

\* B.y = 1 OR B.z = 2
OrB == [Term("OR", "none", "none", {}, 0) EXCEPT
          !.indexable = {"B"},
          !.sub = <<Term("EQ", "B", "y", {}, 0), Term("EQ", "B", "z", {}, 0)>>]

MCWCChoices ==
  { << >>, <<EqAB, EqBA>>, <<EqAB, EqBA, EqAa>>, <<GtBy, LtBy>>,
    <<EqBy, InBz>>, <<OrA, EqAB, EqBA>>, <<EqBy, NulBz>>, <<EqBy, EqBz>>,
    <<EqAB, EqBA, EqBy>>, <<EqAaAb, EqAbAa, EqAB, EqBA, EqBy>> }

MCOrderByChoices ==
  { << >>, <<[isCol |-> TRUE, tab |-> "B", col |-> "y"]>>,
    <<[isCol |-> TRUE, tab |-> "A", col |-> "b"]>> }

MCWctrlChoices == { {}, {"AND_ONLY"} }

(***************************************************************************)
(* The virtual table's xBestIndex.  Constraints it uses are numbered in    *)
(* order from argvIndex 1; its estimatedCost falls with the number used,   *)
(* the first beyond 2000000000 (the exponent branch of                     *)
(* whereCostFromDouble).                                                   *)
(*   Greedy:   uses and omits every usable constraint, consumes the ORDER  *)
(*             BY, returns a string it allocated;                          *)
(*   Cautious: uses every usable constraint, omits none, consumes nothing, *)
(*             returns a static string;                                    *)
(*   Broken:   gives every constraint argvIndex 1, usable or not;          *)
(*   Failing:  returns SQLITE4_ERROR after allocating a string.            *)
(***************************************************************************)
VtabCosts == <<2147483647, 2000, 50, 10>>
UsedBefore(aCons, i) == Cardinality({j \in 1..i : aCons[j].usable})
MCXBestIndex(b, aCons, nOB) ==
  LET nUsed == UsedBefore(aCons, Len(aCons))
      inOrder == [i \in DOMAIN aCons |-> IF aCons[i].usable THEN UsedBefore(aCons, i) ELSE 0]
  IN  CASE b = "Greedy" ->
             [rc |-> "OK", argv |-> inOrder, omit |-> DOMAIN aCons,
              orderByConsumed |-> nOB > 0, idxStr |-> "alloc", cost |-> VtabCosts[nUsed + 1]]
        [] b = "Cautious" ->
             [rc |-> "OK", argv |-> inOrder, omit |-> {},
              orderByConsumed |-> FALSE, idxStr |-> "static", cost |-> VtabCosts[nUsed + 1]]
        [] b = "Broken" ->
             [rc |-> "OK", argv |-> [i \in DOMAIN aCons |-> 1], omit |-> {},
              orderByConsumed |-> FALSE, idxStr |-> "alloc", cost |-> 1000]
        [] OTHER ->
             [rc |-> "ERROR", argv |-> [i \in DOMAIN aCons |-> 0], omit |-> {},
              orderByConsumed |-> FALSE, idxStr |-> "alloc", cost |-> 1000]

MCBehaviours == {"Greedy", "Cautious", "Broken", "Failing"}

\* A join of A and the virtual table B under clauses with constant and
\* join constraints, IN, IS NULL and an OR on B.
MCVtabStatements ==
  [tabs : {<<TabA, VtabB("INNER", b)>> : b \in MCBehaviours},
   wc : { << >>, <<EqBy, InBz>>, <<EqAB, EqBA>>, <<EqBy, EqBz>>, <<OrB>>,
          <<EqBA, InBz, NulBz>> },
   orderBy : { << >>, <<[isCol |-> TRUE, tab |-> "B", col |-> "y"]>> },
   wctrl : { {} }]

\* The statement where a Greedy table's cheaper later plan replaces its
\* first one in the pool.
MCVtabLeak ==
  { [tabs |-> <<TabA, VtabB("INNER", "Greedy")>>, wc |-> <<EqBy, InBz>>,
     orderBy |-> << >>, wctrl |-> {}] }

\* Every column of the schema, as <<cursor, column>>.
MCColumns == {<<"A", c>> : c \in {"a", "b", "c"}} \cup {<<"B", c>> : c \in {"x", "y", "z"}}

\* The single statements of the runs that look at one code path.
MCTabsLeft == { <<TabA, TabB("LEFT", "none")>> }
MCTabsInner == { <<TabA, TabB("INNER", "none")>> }
MCWCMatch == { <<MatchB>> }
MCWCJoin == { <<EqAB, EqBA>> }
MCWCRange == { <<GtBy, LtBy>> }
MCWCIn1 == { <<In1By, EqBz>> }
MCNoOrderBy == { << >> }
MCOrderByAb == { <<[isCol |-> TRUE, tab |-> "A", col |-> "b"]>> }
MCNoWctrl == { {} }
MCNoStatements == {}

(***************************************************************************)
(* Properties.                                                             *)
(***************************************************************************)

\* SETUP-INVARIANT and the assertion before it in whereLoopInsert: every
\* loop a template is compared with has no smaller rSetup, and two nonzero
\* setup costs are equal.  It holds only because whereLoopAddBtree emits
\* the automatic-index templates of a table before all its others.
SetupInvariant ==
  queue # << >> =>
    \A j \in 1..Len(pool) :
      LP!SameSlot(pool[j], Head(queue)) =>
        /\ pool[j].rSetup >= Head(queue).rSetup
        /\ pool[j].rSetup = 0 \/ Head(queue).rSetup = 0
           \/ pool[j].rSetup = Head(queue).rSetup

\* The tables to the left of FROM position i.
LeftOf(i) == {Tabs[k].cur : k \in 1..(i - 1)}

\* A table that is the right operand of a LEFT (or CROSS) join must be
\* iterated inside every table to its left: every loop whereLoopAddAll
\* leaves for it has those tables as prerequisites (mExtra).
LeftJoinOrder ==
  \A j \in 1..Len(pool) :
    Tabs[pool[j].iTab].jointype \in {"LEFT", "CROSS"} =>
      LeftOf(pool[j].iTab) \subseteq pool[j].prereq

\* Without INDEXED BY, loop generation and pruning always leave every
\* table a loop it can run with only the tables to its left outside it,
\* so the solver can always find the FROM-order plan (unless a builder
\* failed, which ends planning with an error).
PlannableWithoutIndexedBy ==
  (iTab > Len(Tabs) /\ queue = << >> /\ rc = "OK") =>
    \A i \in 1..Len(Tabs) :
      Tabs[i].indexedBy = "none" =>
        \E j \in 1..Len(pool) : pool[j].iTab = i /\ pool[j].prereq \subseteq LeftOf(i)

\* The clause chains the builders scan: the WHERE clause, and each
\* sub-term of an OR term with the WHERE clause as its pOuter.
SeqSet(s) == {s[i] : i \in DOMAIN s}
Chains ==
  {<<WC>>} \cup
  UNION {{<< <<t.sub[j]>>, WC >> : j \in DOMAIN t.sub} : t \in {u \in SeqSet(WC) : u.op = "OR"}}
TermsOf(chain) == UNION {SeqSet(chain[i]) : i \in DOMAIN chain}
AllOps == {"EQ", "IN", "ISNULL", "GT", "LT"}

\* The reference: the columns equal to x by the transitive closure of the
\* equivalence terms of the chain, and the terms on them.
RECURSIVE Closure(_, _)
Closure(ts, S) ==
  LET S2 == S \cup {t.rhs : t \in {u \in ts : u.equiv /\ <<u.tab, u.col>> \in S}}
  IN  IF S2 = S THEN S ELSE Closure(ts, S2)
ScanReference(chain, x, ops) ==
  {t \in TermsOf(chain) :
     /\ <<t.tab, t.col>> \in Closure(TermsOf(chain), {x})
     /\ t.op \in ops /\ ~(t.op = "EQ" /\ t.rhs = x)}

\* whereScanNext returns every term on a column equal to X through any
\* chain of == terms in any clause of the chain, once each, other than
\* the way back to X itself, while the class fits in aEquiv[].  Checked
\* once per statement, before the first table is planned.
ScanAgreesWithClosure ==
  iTab = 1 =>
    \A chain \in Chains, x \in MCColumns :
      Cardinality(Closure(TermsOf(chain), {x})) <= AEquivSize \div 2 =>
        \A s \in {ScanAll(chain, x[1], x[2], AllOps)} :
          Len(s) = Cardinality(SeqSet(s)) /\ SeqSet(s) = ScanReference(chain, x, AllOps)

\* findTerm (spec.md 4.3.4): it finds a term on X, or a column equal to
\* X, whose right side needs no table of notReady whenever one exists,
\* and one with a constant right side whenever one of those exists.
FindTermPrefersConstant ==
  iTab = 1 =>
    \A x \in MCColumns, nr \in {{}, {"A"}, {"B"}} :
      \A r \in {FindTerm(<<WC>>, x[1], x[2], nr, {"EQ"})} :
        LET cands == {t \in ScanReference(<<WC>>, x, {"EQ"}) : t.prereqRight \cap nr = {}}
        IN  /\ (r = << >>) = (cands = {})
            /\ (\E t \in cands : t.prereqRight = {}) => r[1].prereqRight = {}

\* An automatic index has no order to offer: the auto-index templates of
\* whereLoopAddBtree carry iSortIdx 0, the "unordered" tag that decides
\* the slot whereLoopInsert compares them in.
AutoIndexUnordered ==
  \A t \in offered : "AUTO_INDEX" \in t.wsFlags => t.iSortIdx = 0

\* Without samples each range endpoint divides the rows by 4 (cost 20):
\* a scan with both a bottom and a top limit and no == prefix expects
\* the table's rows less 40, and never fewer than 10 (2 rows).
MaxOf(a, b) == IF a >= b THEN a ELSE b
RangeEstimate ==
  \A t \in offered :
    ({"BTM_LIMIT", "TOP_LIMIT"} \subseteq t.wsFlags /\ t.nEq = 0) =>
      t.nOut = MaxOf(WhereCost(Tabs[t.iTab].nRowEst) - 40, 10)

\* The loops that own an idxStr: its needFree flag is set.
Owners == {t \in SeqSet(queue) \cup SeqSet(pool) : t.vtab.needFree}

\* A loop that owns a plan string points at a live one: whereLoopXfer
\* moves ownership into the pool loop (pNew gives it up), so the free
\* after whereLoopInsert and the free of the next phase's leftovers never
\* release a string a queued template or pool loop still holds.
NoDanglingIdxStr == \A t \in Owners : t.vtab.idxStr \in heap

\* spec.md 5: the plan string is released on every path: every string
\* xBestIndex allocated and the planner has not freed has a loop that
\* owns it (so freeing the loops frees it).
NoLeakedIdxStr == \A s \in heap : \E t \in Owners : t.vtab.idxStr = s

\* What whereLoopAddVirtual accepts from xBestIndex is a plan the code
\* generator can run: the terms it uses are distinct terms on the table,
\* their tables are prerequisites, an IN term is used only if the table
\* omits its EQ test, and a loop with an IN term never claims the order.
VirtualLoopSound ==
  \A t \in offered :
    "VIRTUALTABLE" \in t.wsFlags =>
      LET used == {i \in 1..t.nLTerm : t.terms[i] # VT!NoTerm}
      IN  /\ \A k \in used :
               /\ t.terms[k].tab = Tabs[t.iTab].cur
               /\ t.terms[k].prereqRight \subseteq t.prereq
               /\ t.terms[k].op = "IN" => (k - 1) \in t.vtab.omitMask
          /\ \A k, m \in used : k # m => t.terms[k] # t.terms[m]
          /\ (\E k \in used : t.terms[k].op = "IN") => ~t.vtab.isOrdered

\* The assertion in the == branch of whereLoopAddBtreeIndex: a loop
\* marked ONEROW has no IN operator on its key (the table key aside).
OneRowNotIn ==
  \A t \in offered : "ONEROW" \in t.wsFlags => "COLUMN_IN" \notin t.wsFlags
(***************************************************************************)
(* Row estimates from sample histograms (RowEstimate), checked against     *)
(* the true counts of every table of up to two rows per key over three    *)
(* keys, with samples any non-empty set of its keys as ANALYZE records    *)
(* them (nLt and nEq exact).  The statistics do not depend on the state:  *)
(* the checks are made in the initial states (iTab = 1), where the        *)
(* planner is about to ask for estimates.                                 *)
(***************************************************************************)
RE == INSTANCE RowEstimate
SX == INSTANCE SequencesExt

StatKeys == 1..3
TrueLt(d, v) == LET RECURSIVE S(_) S(k) == IF k < 1 THEN 0 ELSE d[k] + S(k - 1)
                IN  S(IF v > 3 THEN 3 ELSE v - 1)
TrueEq(d, v) == IF v \in StatKeys THEN d[v] ELSE 0
Stats(d, smp) ==
  [n |-> TrueLt(d, 4), avgEq |-> 1,
   aSample |-> LET ks == SX!SetToSortSeq(smp, LAMBDA a, b : a < b)
               IN  [j \in DOMAIN ks |-> [key |-> ks[j], nLt |-> TrueLt(d, ks[j]),
                                        nEq |-> d[ks[j]]]]]
StatCases ==
  {<<d, smp>> : d \in [StatKeys -> 0..2],
                smp \in SUBSET StatKeys}

\* whereKeyStats answers exactly at a sample (rows below it and equal to
\* it), and elsewhere puts the rows below v between the rows up to the
\* nearest sample below and the rows under the nearest sample above, the
\* interval the true count lies in: the scan for the first sample not
\* less than v (lines 2531-2542) neither stops early nor passes over an
\* equal sample.
KeyStatsAccurate ==
  iTab = 1 =>
  \A c \in StatCases, v \in 0..4, up \in BOOLEAN :
    LET d  == c[1]
        S  == c[2]
        a  == RE!KeyStats(Stats(d, S), v, up)
        bl == {k \in S : k < v}
        ab == {k \in S : k > v}
        lo == IF bl = {} THEN 0
              ELSE LET m == CHOOSE k \in bl : \A j \in bl : j <= k IN TrueLt(d, m) + d[m]
        hi == IF ab = {} THEN TrueLt(d, 4)
              ELSE TrueLt(d, CHOOSE k \in ab : \A j \in ab : k <= j)
    IN  /\ S \subseteq {k \in StatKeys : d[k] > 0} /\ S # {}
        => IF v \in S THEN a = <<TrueLt(d, v), d[v]>>
           ELSE lo <= a[1] /\ a[1] <= hi

\* spec.md 4.5: with samples, a range on the first index column divides
\* the rows by the rows it selects, cost(n) - cost(n_lt_hi - n_lt_lo).
\* For bounds at sample keys, under each of >, >=, < and <=, the STAT3
\* branch of whereRangeScanEst (lines 2698-2744) gives exactly that: the
\* equal rows are skipped by x>v and taken by x<=v.
Stat3RangeAtSamples ==
  iTab = 1 =>
  \A c \in StatCases :
    LET d == c[1]
        S == c[2]
        Bounds(ops) == {RE!NoBound} \cup {[op |-> o, v |-> k, vnull |-> FALSE] : o \in ops, k \in S}
        Sel(l, u) == {k \in StatKeys :
                        /\ l.op = "GT" => k > l.v
                        /\ l.op = "GE" => k >= l.v
                        /\ u.op = "LT" => k < u.v
                        /\ u.op = "LE" => k <= u.v}
        Cnt(l, u) == LET RECURSIVE C(_) C(T) == IF T = {} THEN 0
                                               ELSE LET k == CHOOSE k \in T : TRUE IN d[k] + C(T \ {k})
                     IN  C(Sel(l, u))
    IN  S \subseteq {k \in StatKeys : d[k] > 0} /\ S # {} =>
          \A l \in Bounds({"GT", "GE"}), u \in Bounds({"LT", "LE"}) :
            (l # RE!NoBound \/ u # RE!NoBound) =>
              RE!RangeScanEst(Stats(d, S), 0, TRUE, l, u)
                = RE!U16(RE!WhereCost(TrueLt(d, 4)) - RE!WhereCost(Cnt(l, u)))

\* spec.md 4.5: an equality on a sample key is estimated at the sample's
\* nEq, and x IN (v1, v2, ...) at the sum over its values, at most the
\* row count: whereEqualScanEst and the loop of whereInScanEst (lines
\* 2851-2858) give the rows with those keys for every list of up to two
\* distinct sample keys, and report no estimate for a value that is not
\* a key.
Stat3EqualAtSamples ==
  iTab = 1 =>
  \A c \in StatCases :
    LET d == c[1]
        S == c[2]
        ix == Stats(d, S)
    IN  S \subseteq {k \in StatKeys : d[k] > 0} /\ S # {} =>
          /\ \A k \in S : RE!EqualScanEst(ix, k) = [ok |-> TRUE, nRow |-> d[k]]
          /\ \A k, m \in S : k # m =>
               RE!InScanEst(ix, <<k, m>>) = [ok |-> TRUE, nRow |-> d[k] + d[m]]
          /\ \A k \in S : ~RE!InScanEst(ix, <<k, RE!NoValue>>).ok
=============================================================================
