--------------------------- MODULE MCTermAnalysis ---------------------------
(***************************************************************************)
(* WHERE clauses over A(a, b) and B(x), built with SQLITE4_SMALL_STACK     *)
(* (aStatic[1]), so that nearly every virtual term moves the array.  The  *)
(* LIKE and GLOB patterns are byte strings over the ASCII codes of '%' 37, *)
(* '*' 42, '?' 63, '@' 64, 'A' 65, '[' 91, '_' 95, 'a' 97, 'b' 98, 'c' 99  *)
(* and the byte 0xFF.                                                      *)
(***************************************************************************)
EXTENDS TermAnalysis, SequencesExt

Aa == <<"A", "a">>
Ab == <<"A", "b">>
Bx == <<"B", "x">>
K  == << >>                     \* a constant, a string or a parameter

WithList(e, s) == [e EXCEPT !.list = s]
And(x, y) == [op |-> "AND", l |-> x, r |-> y]
Or(x, y)  == [op |-> "OR", l |-> x, r |-> y]

EqAB     == Leaf("EQ", Aa, Bx)                               \* A.a = B.x
LtBA     == Leaf("LT", Bx, Ab)                               \* B.x < A.b
EqAaAb   == Leaf("EQ", Aa, Ab)                               \* A.a = A.b
EqKB     == Leaf("EQ", K, Bx)                                \* 5 = B.x
EqAK     == Leaf("EQ", Aa, K)                                \* A.a = 5
EqAbB    == Leaf("EQ", Ab, Bx)                               \* A.b = B.x
InAB     == WithList(Leaf("IN", Aa, K), <<Bx>>)              \* A.a IN (B.x)
NullAb   == Leaf("ISNULL", Ab, K)                            \* A.b IS NULL
Btw      == WithList(Leaf("BETWEEN", Aa, K), <<Bx, K>>)      \* A.a BETWEEN B.x AND 5
Pat(fn, z, col) == [WithList(Leaf("LIKE", K, K), <<K, col>>) EXCEPT !.fn = fn, !.str = z]
LikeAb   == Pat("like", <<97, 98, 37>>, Ab)                 \* A.b LIKE 'ab%'
LikeAbX  == Pat("like", <<97, 98, 37, 99>>, Ab)             \* A.b LIKE 'ab%c'
LikeAt   == Pat("like", <<97, 64, 37>>, Ab)                 \* A.b LIKE 'a@%'
LikeFF   == Pat("like", <<97, 255, 37>>, Ab)                \* A.b LIKE 'a\xff%'
LikeCs   == Pat("like_cs", <<97, 65, 95>>, Ab)              \* A.b LIKE 'aA_', case-sensitive
LikePct  == Pat("like", <<37, 97>>, Ab)                     \* A.b LIKE '%a'
GlobA    == Pat("glob", <<97, 65, 42>>, Ab)                 \* A.b GLOB 'aA*'
GlobSet  == Pat("glob", <<97, 91, 98>>, Ab)                 \* A.b GLOB 'a[b'
LikeK    == Pat("like", <<97, 37>>, K)                      \* 'q' LIKE 'a%'
MatchB   == WithList(Leaf("MATCH_FN", K, K), <<K, Bx>>)      \* match('q', B.x)
MatchAA  == WithList(Leaf("MATCH_FN", K, K), <<Aa, Ab>>)     \* match(A.a, A.b)
NotNullA == Leaf("NOTNULL", Ab, K)                           \* A.b IS NOT NULL
Other    == Leaf("OTHER", Aa, Bx)                            \* A.a + B.x

MCExprChoices ==
  { EqAB, Btw, LikeAb, MatchB,
    And(Btw, EqAB), And(EqAB, And(LikeAb, LtBA)), And(MatchB, NotNullA),
    And(EqKB, Btw), And(EqAaAb, LikeAbX), And(InAB, And(EqAK, NullAb)),
    And(Other, And(MatchAA, Btw)),
    Or(EqAB, EqAbB), Or(EqAK, Or(EqAB, EqAK)), Or(EqAB, EqKB), Or(EqAK, EqKB),
    Or(EqAK, LtBA), Or(EqAaAb, EqAK), Or(And(EqAK, NullAb), Btw),
    And(Or(EqAK, EqAB), LikeAb),
    LikeAt, LikeFF, LikeCs, LikePct, GlobA, GlobSet, LikeK, And(LikeAbX, EqAK) }

(***************************************************************************)
(* Properties.                                                             *)
(***************************************************************************)

TypeOK ==
  /\ phase \in {"split", "analyze", "code", "error"}
  /\ i \in 0..Len(wc.a)
  /\ Len(wc.a) <= wc.nSlot
  /\ direct \subseteq 0..(Len(wc.a) - 1)
  /\ \A q \in DOMAIN wc.a : wc.a[q].iParent \in -1..(Len(wc.a) - 1)

\* exprAnalyze re-fetches pTerm = &pWC->a[idxTerm] after every call that
\* may append a term (lines 1706, 1762, 1836, 1874, 1916): no store of
\* the analysis ever goes through a pointer into an array that
\* whereClauseInsert has since replaced.
NoStaleTermPointer == ~wc.stale

Children(q) == {c \in DOMAIN wc.a : wc.a[c].iParent = q - 1}
Parents == {q \in DOMAIN wc.a : Children(q) # {}}
Coded(q) == "CODED" \in wc.a[q].flags

\* Once the clause is analysed, and after any sequence of disableTerm
\* calls, every term that is some term's iParent, or has a nonzero nChild,
\* counts in nChild exactly its children not yet coded: the decrement of
\* pOther->nChild in disableTerm (line 2899) reads a count that exprAnalyze
\* set (nChild is uninitialised in a grown array) and that matches the
\* iParent links it made.
ChildCount ==
  phase = "code" =>
    \A q \in Parents \cup {q \in DOMAIN wc.a : wc.a[q].nChild > 0} :
      wc.a[q].nChild = Cardinality({c \in Children(q) : ~Coded(c)})

\* A parent term that code generation never disabled itself is coded
\* exactly when all its children are: disabling the last child of a
\* BETWEEN, LIKE, MATCH or X=Y term disables the term, and disabling a
\* child again does not.
CodedWhenChildrenCoded ==
  phase = "code" =>
    \A q \in Parents :
      (q - 1) \notin direct => (Coded(q) <=> \A c \in Children(q) : Coded(c))

\* The disjuncts of an OR expression, and its reference rewriting: the OR
\* equals x IN (...) when every disjunct is x = e or e = x, e not using
\* x's table.
RECURSIVE Disjuncts(_)
Disjuncts(e) == IF e.op = "OR" THEN Disjuncts(e.l) \o Disjuncts(e.r) ELSE <<e>>
EqOn(d, x) ==
  /\ d.op = "EQ"
  /\ \/ d.l = x /\ x[1] \notin Usage(d.r)
     \/ d.r = x /\ x[1] \notin Usage(d.l)
OtherSide(d, x) == IF d.l = x THEN d.r ELSE d.l
InColumns(ds) == {x \in {ds[1].l, ds[1].r} : IsCol(x) /\ \A k \in DOMAIN ds : EqOn(ds[k], x)}
IsInFor(ie, ds) ==
  \E x \in InColumns(ds) :
    /\ ie.l = x
    /\ Len(ie.list) = Len(ds)
    /\ {ie.list[k] : k \in DOMAIN ie.list} = {OtherSide(ds[k], x) : k \in DOMAIN ds}

\* exprAnalyzeOrTerm adds the virtual IN term (line 1598) exactly when the
\* OR term is x = e1 OR e2 = x OR ... for one column x, and that term is
\* x IN (e1, e2, ...): the two-pass candidate search over the OR clause,
\* whose X=Y subterms appear as a TERM_COPIED original and a virtual
\* twin, neither misses a column nor accepts a wrong one.
OrToInExact ==
  phase = "code" =>
    \A q \in DOMAIN wc.a : wc.a[q].e.op = "OR" =>
      LET ds  == Disjuncts(wc.a[q].e)
          ins == {c \in Children(q) : wc.a[c].e.op = "IN"}
      IN  /\ Cardinality(ins) = IF InColumns(ds) = {} THEN 0 ELSE 1
          /\ \A c \in ins : IsInFor(wc.a[c].e, ds)

(***************************************************************************)
(* Reference semantics of LIKE and GLOB and of the two collations, each    *)
(* byte a character, checked over every string of up to three bytes of an *)
(* alphabet with both cases, the folding boundaries '@' and '[', and 0xFF. *)
(***************************************************************************)
Subjects == BoundedSeq({64, 65, 91, 97, 98, 99, 255}, 3)

\* BINARY compares bytes, the shorter string first on a common prefix;
\* NOCASE compares the ASCII-lower-cased strings the same way.
RECURSIVE ByteLess(_, _)
ByteLess(x, y) ==
  /\ y # << >>
  /\ \/ x = << >>
     \/ x[1] < y[1]
     \/ x[1] = y[1] /\ ByteLess(Tail(x), Tail(y))
Folded(x, coll) == IF coll = "NOCASE" THEN [k \in DOMAIN x |-> LP!UpperToLower(x[k])] ELSE x
CollLess(x, y, coll) == ByteLess(Folded(x, coll), Folded(y, coll))

\* x LIKE/GLOB p, no ESCAPE: matchAll any run, matchOne one byte, and a
\* set that never closes (no ']' in the alphabet) matches nothing.
RECURSIVE Matches(_, _, _)
Matches(p, x, fn) ==
  LET f == LP!LikeFunction(fn) IN
  CASE p = << >> -> x = << >>
    [] p[1] = f.wc[1] -> Matches(Tail(p), x, fn) \/ (x # << >> /\ Matches(p, Tail(x), fn))
    [] p[1] = f.wc[2] -> x # << >> /\ Matches(Tail(p), Tail(x), fn)
    [] p[1] = f.wc[3] -> FALSE
    [] OTHER -> /\ x # << >>
                /\ Folded(<<p[1]>>, LP!LikeColl(f)) = Folded(<<x[1]>>, LP!LikeColl(f))
                /\ Matches(Tail(p), Tail(x), fn)

\* x >= g AND x < t, each under its own collation.
InRange(x, g, t) == ~CollLess(x, g.str, g.coll) /\ CollLess(x, t.str, t.coll)

\* The range terms exprAnalyze added for the LIKE term q, and the state
\* right after the analysis (the terms do not change afterwards).
LikeTerms == {q \in DOMAIN wc.a : wc.a[q].e.op = "LIKE"}
RangeOf(q, op) ==
  {c \in DOMAIN wc.a : wc.a[c].e.op = op /\ wc.a[c].e.coll # "none"
                       /\ wc.a[c].e.l = wc.a[q].e.list[2]}
Analysed == phase = "code" /\ \A q \in DOMAIN wc.a : ~Coded(q)

\* The terms x>=prefix and x<succ(prefix) that isLikeOrGlob and the LIKE
\* branch of exprAnalyze add (lines 1226-1236, 1803-1834) are implied by
\* the LIKE or GLOB: every string the pattern matches lies in the range,
\* so an index range scan on them loses no row, whatever the function's
\* case folding, the byte before the wildcard, or the pattern's tail.
LikeRangeImplied ==
  Analysed =>
    \A q \in LikeTerms : \A g \in RangeOf(q, "GE"), t \in RangeOf(q, "LT"), x \in Subjects :
      Matches(wc.a[q].e.str, x, wc.a[q].e.fn) => InRange(x, wc.a[g].e, wc.a[t].e)

\* When the LIKE term is made the parent of its range terms (isComplete,
\* lines 1836-1840), disableTerm drops the LIKE once both are coded, so
\* nothing evaluates the pattern: the range must then be exact, every
\* string in it matching the pattern.
CompleteLikeExact ==
  Analysed =>
    \A q \in LikeTerms \cap Parents : \A g, t \in Children(q), x \in Subjects :
      /\ wc.a[g].e.op = "GE" /\ wc.a[t].e.op = "LT"
      /\ InRange(x, wc.a[g].e, wc.a[t].e)
      => Matches(wc.a[q].e.str, x, wc.a[q].e.fn)
=============================================================================
