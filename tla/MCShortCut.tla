----------------------------- MODULE MCShortCut -----------------------------
(***************************************************************************)
(* A table t(a, b, c, d, e, f) with PRIMARY KEY (a), a UNIQUE index u4 on  *)
(* (b, c, d, e), a plain index on (b) and a UNIQUE index u2 on (c, b);     *)
(* a, b and d are NOT NULL.  The WHERE clause has "col = constant" on any  *)
(* subset of a..e and none, one or a chain of two column equalities (e=a; *)
(* d=f and f=c), so an index column may be bound only through another      *)
(* column.  The DISTINCT lists and ORDER BYs cover each branch of the      *)
(* DISTINCT set-up.  u4 fills all four slots of aLTermSpace[].  The wide    *)
(* variant adds a UNIQUE index u6 on (b, c, d, e, f, a), whose probe needs *)
(* more than four terms.                                                   *)
(***************************************************************************)
EXTENDS ShortCut

MCColumns == {"a", "b", "c", "d", "e", "f"}

Idx(u, pk, cols, cover) == [unique |-> u, isPk |-> pk, cols |-> cols, cover |-> cover]

PkA == Idx(TRUE, TRUE, <<"a">>, {"a"})
U4  == Idx(TRUE, FALSE, <<"b", "c", "d", "e">>, {"a", "b", "c", "d", "e"})
IB  == Idx(FALSE, FALSE, <<"b">>, {"a", "b"})
U2  == Idx(TRUE, FALSE, <<"c", "b">>, {"a", "b", "c"})
U6  == Idx(TRUE, FALSE, <<"b", "c", "d", "e", "f", "a">>, MCColumns)

MCIndexes == <<U4, IB, U2, PkA>>
MCWideIndexes == <<IB, U6, PkA>>

MCNotNull == {"a", "b", "d"}

\* The terms exprAnalyze leaves for "c = constant" and for "x = y" (the
\* original, and the commuted twin it appends, both WO_EQUIV only).
ConstTerm(c) == [tab |-> "t", col |-> c, op |-> "EQ", equiv |-> FALSE,
                 rhs |-> << >>, prereqRight |-> {}]
EquivTerm(x, y) == [tab |-> "t", col |-> x, op |-> "NONE", equiv |-> TRUE,
                    rhs |-> <<"t", y>>, prereqRight |-> {"t"}]

ColOrder == <<"a", "b", "c", "d", "e", "f">>
Consts(S) == SelectSeq([k \in 1..6 |-> ConstTerm(ColOrder[k])], LAMBDA t : t.col \in S)
Originals(P) == [k \in 1..Len(P) |-> EquivTerm(P[k][1], P[k][2])]
\* exprAnalyzeAll works from the last term back, so the twins are
\* appended in reverse order.
Twins(P) == [k \in 1..Len(P) |-> EquivTerm(P[Len(P) + 1 - k][2], P[Len(P) + 1 - k][1])]
Clause(S, P) == Consts(S) \o Originals(P) \o Twins(P)

MCEquivChoices == {<< >>, << <<"e", "a">> >>, << <<"d", "f">>, <<"f", "c">> >>}
MCWhereChoices == {Clause(S, P) : S \in SUBSET {"a", "b", "c", "d", "e"}, P \in MCEquivChoices}
MCWideWhereChoices == {Clause({"b", "c", "d", "e", "f", "a"}, << >>),
                       Clause({"b", "c", "d", "e", "f"}, << >>)}

MCDistinctChoices == {{"b", "c"}, {"a", "expr"}, {"rowid", "f"}, {"d", "e", "expr"}}
MCOrderByChoices == {<< >>, <<"col">>, <<"col", "expr">>, <<"rowid", "expr">>}

\* Column numbers, and a Bitmask of four bits, so that d (column 3) takes
\* the last bit and e and f share it.
MCColNo == [c \in MCColumns |-> (CHOOSE k \in 1..6 : ColOrder[k] = c) - 1]
MCColUsedChoices == {{"a", "b", "c"}, {"a", "f"}, {"b", "e"}}

(***************************************************************************)
(* Properties.                                                             *)
(***************************************************************************)
TypeOK ==
  /\ pc \in {"distinct", "begin", "idx", "col", "probed", "end", "done"}
  /\ iIdx \in 1..(Len(Indexes) + 1) /\ j \in 0..Cardinality(Columns)
  /\ pLoop.nLSlot \in {NLTermSpace} \cup {8 * k : k \in 1..4}
  /\ DOMAIN pLoop.aLTerm = 0..(pLoop.nLSlot - 1)
  /\ \A k \in DOMAIN pLoop.aLTerm : pLoop.aLTerm[k] \in Columns \cup {"null", "garbage"}
  /\ result \in {0, 1}
  /\ pOrderBy \in BOOLEAN /\ wctrl \subseteq {"FORCE_TABLE", "WANT_DISTINCT", "DISTINCTBY"}
  /\ wi.eDistinct \in {"none", "UNIQUE"}

\* The reference answer.  ConstCols: the columns with a "col = constant"
\* term; Bound(S): S and every column a chain of column equalities makes
\* equal to one of S.
ConstCols == {where[k].col : k \in {k \in DOMAIN where : where[k].op = "EQ"}}
EquivPairs == {<<where[k].col, where[k].rhs[2]>> : k \in {k \in DOMAIN where : where[k].equiv}}
RECURSIVE Close(_, _)
Close(S, n) == IF n = 0 THEN S
               ELSE Close(S \cup {p[2] : p \in {p \in EquivPairs : p[1] \in S}}, n - 1)
Bound(S) == Close(S, Cardinality(Columns))
FullyConstrained(i) == \A k \in 1..Len(Indexes[i].cols) : Indexes[i].cols[k] \in Bound(ConstCols)
Eligible == {i \in 1..Len(Indexes) : Indexes[i].unique /\ FullyConstrained(i)}

\* whereShortCut succeeds exactly when no early return applies and some
\* unique index is fully constrained by == terms, and then it plans the
\* first such index of pTab->pIndex as a one-row lookup, so the skipped
\* non-unique indexes and the partially matched unique ones between them
\* never decide the plan.
ShortCutAgreesWithReference ==
  pc = "done" =>
    IF EarlyExit \/ Eligible = {}
    THEN result = 0 /\ wi.pWLoop = "none"
    ELSE /\ result = 1 /\ wi.pWLoop = "pNew" /\ wi.nRowOut = 1
         /\ pLoop.pIndex = CHOOSE i \in Eligible : \A k \in Eligible : i <= k

\* The loop handed to code generation reads aLTerm[0..nLTerm-1]: those
\* slots lie inside the array and hold, in index-column order, a
\* "col = constant" term on the chosen index's column or on a column a
\* chain of equalities makes equal to it, not terms left by an index
\* tried before it nor memory whereLoopResize did not initialise.
LoopTermsMatchIndex ==
  (pc = "done" /\ result = 1) =>
    /\ pLoop.nLTerm = Len(Indexes[pLoop.pIndex].cols)
    /\ \A k \in 0..(pLoop.nLTerm - 1) :
         /\ k < pLoop.nLSlot
         /\ pLoop.aLTerm[k] \in ConstCols
         /\ pLoop.aLTerm[k] \in Bound({Indexes[pLoop.pIndex].cols[k + 1]})

\* A one-row plan marked WHERE_IDX_ONLY reads the row from the index
\* alone: every column the statement uses must be one the index holds,
\* including columns past BMS-1 that share the last bit of colUsed.
IdxOnlyCovers ==
  (pc = "done" /\ result = 1 /\ "IDX_ONLY" \in pLoop.wsFlags)
    => colUsed \subseteq Indexes[pLoop.pIndex].cover

\* Two different rows of t that both satisfy the WHERE clause, described
\* column by column by how their values compare: both NULL ("NN"), equal
\* and not NULL ("EQ"), or different ("DF").  NOT NULL columns are never
\* NULL, a "col = constant" column is EQ, the two sides of a column
\* equality compare alike and are not NULL, and no UNIQUE index (NULLs
\* never collide in one) has all its columns EQ.  The rowids differ.
TwoRows ==
  {k \in [Columns -> {"NN", "EQ", "DF"}] :
     /\ \A c \in NotNull : k[c] # "NN"
     /\ \A c \in ConstCols : k[c] = "EQ"
     /\ \A p \in EquivPairs : k[p[1]] = k[p[2]] /\ k[p[1]] # "NN"
     /\ \A i \in 1..Len(Indexes) :
          Indexes[i].unique => \E n \in 1..Len(Indexes[i].cols) : k[Indexes[i].cols[n]] # "EQ"}
\* The rows are the same DISTINCT row: no rowid in the list and every
\* listed column equal, NULL matching NULL ("expr" may be equal).
SameDistinctRow(k) == "rowid" \notin distinct /\ \A c \in distinct \cap Columns : k[c] # "DF"

\* When sqlite4WhereBegin marks the DISTINCT as needing no work
\* (eDistinct = UNIQUE, by isDistinctRedundant or by the one-row plan of
\* whereShortCut), no two rows the query returns can be duplicates.
DistinctUniqueSound ==
  (pc = "done" /\ wi.eDistinct = "UNIQUE") => ~\E k \in TwoRows : SameDistinctRow(k)

\* Every store to pLoop->aLTerm[] lands inside the nLSlot slots the array
\* has (whereLoopResize is meant to make room before each store).
ALTermInBounds == oob = {}
=============================================================================
