# TLA+ models of the SQLite4 WHERE-clause planner

This directory holds TLA+ models of the query planner in `src/src/where.c`,
with the TLC configurations that check them. `src/keywordhash.h` is
generated code with no state to check. `spec.md` describes the planner in
prose. Where the prose and the code disagree, the models follow the code
and the disagreement is checked as a violation run.

## The system

`sqlite4WhereBegin` plans one SELECT/UPDATE/DELETE loop nest in these steps:

1. **Term analysis.** `whereSplit`, `exprAnalyze`, `exprAnalyzeOrTerm` and
   `isLikeOrGlob` break the WHERE clause into `WhereTerm`s. Tables become
   bits of a `Bitmask` through `getMask` and `exprTableUsage`.
2. **Loop generation.** `whereLoopAddAll` calls `whereLoopAddBtree`,
   `whereLoopAddBtreeIndex`, `whereLoopAddVirtual` and `whereLoopAddOr`.
   For each table they build *template* `WhereLoop`s, which cover full
   scans, index probes, automatic indexes and OR unions. They price each
   template with the log-space `WhereCost` arithmetic and hand it to
   `whereLoopInsert`.
3. **The candidate pool.** `whereLoopInsert` decides whether a template
   replaces a loop of `pWInfo->pLoops`, is skipped, or is appended. Inside
   OR processing, the builders set `pOrSet`. Then `whereLoopInsert` passes
   the template's cost to `whereOrInsert`, which keeps the 3 best
   `(prereq, rRun, nOut)` triples.
4. **Join order.** `wherePathSolver` searches for the join order by keeping
   the `mxChoice` cheapest partial paths per generation. For each partial
   path it asks `wherePathSatisfiesOrderBy` whether the order already
   delivers rows in ORDER BY order. `sqlite4WhereBegin` calls the solver
   once with `nRowEst = 0`. If there is an ORDER BY, it calls the solver a
   second time with `nRowOut + 1`, so that the sort is priced.
5. **Code generation.** `codeOneLoopStart`, `sqlite4WhereEnd` and their
   helpers emit VDBE code for the chosen plan.

## Modules

| Module | Models | State / actions |
|---|---|---|
| `WhereCost` | `whereCostAdd`, `whereCost`, `estLog`, `whereCostToInt` | Pure operators. The u16 result is kept with `U16` (mod 2^16). Loops become `RECURSIVE` operators. |
| `TermAnalysis` | `whereClauseInit`, `whereClauseInsert`, `whereSplit`, `exprAnalyzeAll`, `exprAnalyze`, `exprAnalyzeOrTerm`, `disableTerm` | The term array with its memory, and the phases of `sqlite4WhereBegin` around it (listed below). |
| `LikePrefix` | `isLikeOrGlob` and the LIKE branch of `exprAnalyze` (lines 1802-1823) | Pure operators: the prefix scan, the 0xFF test, `isComplete`, the incremented upper bound with the `'@'` case, the collation. |
| `MCTermAnalysis` | Instance of `TermAnalysis` | Twenty-seven WHERE clauses and the term properties, with the reference OR-to-IN rewriting and reference LIKE/GLOB matching and collations. |
| `WhereScan` | `whereScanInit`, `whereScanNext`, `findTerm` | `RECURSIVE` operators over a chain of clauses (listed below). |
| `OrderBySat` | `wherePathSatisfiesOrderBy` | A pure operator over abstract loops (see below). |
| `LoopBuilder` | `whereLoopAddAll`, `whereLoopAddBtree`, `whereLoopAddBtreeIndex`, `whereLoopAddMatch`, `whereLoopAddOr`, and the `whereLoopAddVirtual` call with its `whereLoopInsert`/`whereLoopXfer` string ownership | One action per table and one per `whereLoopInsert` call (listed below). |
| `VirtualTable` | `allocateIndexInfo`, `vtabBestIndex`, the phases of `whereLoopAddVirtual`, `whereCostFromDouble` | Pure operators; `xBestIndex` is the constant operator `XBestIndex` (listed below). |
| `RowEstimate` | `whereKeyStats`, `whereRangeScanEst`, `whereEqualScanEst`, `whereInScanEst` (STAT3) | Pure operators over an index's statistics: row count, `avgEq`, and samples `[key, nLt, nEq]` with keys abstracted to their order. |
| `MCLoopBuilder` | Instance of `LoopBuilder` | A two-table schema, WHERE clauses, ORDER BYs, four `xBestIndex` behaviours of a virtual table, and the builder, scan and virtual-table properties. |
| `LoopPool` | `whereLoopInsert` in both modes, and `whereOrInsert` | Listed below. |
| `MCLoopPool` | Instance of `LoopPool` | Templates of one table, OR triples, and the pool properties. |
| `PathSolver` | `wherePathSolver`, driven by `sqlite4WhereBegin` | Variables mirror the solver's locals and the `WhereInfo` fields it writes (listed below). |
| `AbstractPlan` | What planning promises | Listed below. |
| `MCPathSolver` | Instance of `PathSolver` | A four-way join, the refinement mapping and the solver properties. |
| `ShortCut` | The DISTINCT set-up of `sqlite4WhereBegin` (`isDistinctRedundant`, `findIndexCol`), then `whereShortCut` with `whereLoopInit` and `whereLoopResize`; `findTerm` through `WhereScan` | One action per step (listed below). |
| `MCShortCut` | Instance of `ShortCut` | A six-column table with four indexes and three NOT NULL columns, the analysed WHERE clauses, and the shortcut and DISTINCT properties. |

Details of the larger modules:

- **`OrderBySat`.** This is a pure operator. It takes the path, the next
  loop and the control flags, and returns 1, 0 or -1 plus the reverse mask.
  - `ColumnWalk` is the loop over index columns.
  - `OrderByStep` is one iteration over the path's loops.
  - `MarkOrderDistinct` marks off terms covered by order-distinct loops.
- **`PathSolver`.**
  - *Variables:* the solver's locals `aFrom`, `aTo`, `mxCost`, `iLoop`,
    `ii`, `wl` and `rSortCost`, plus the `WhereInfo` fields it writes:
    `plan` (`a[].pWLoop`), `nRowOut`, `bOBSat`, `revMask` and `rc` (nErr).
  - *Actions:* `Candidate` is one iteration of the innermost loop: the
    usability tests, pricing, the ORDER BY test, and merging into `aTo`.
    `NextGeneration` swaps `aTo` and `aFrom`. `Finish` fails or loads the
    plan. `WhereBegin` makes the two calls.
- **`AbstractPlan`.** It has two variables, `status` and `plan`. Planning
  either picks a valid join order or fails, and fails only when no valid
  order exists.
- **`TermAnalysis`.**
  - *Variables:* `expr` (`pWhere`), `failAt` (which allocation finds no
    memory, 0 for none), `wc` (the `WhereClause`: its split operator
    `op`, terms `a`, `nSlot`, a generation counter `gen`, whether its
    `aStatic` was zeroed, the allocation count `nAlloc`, `failed` for
    `db->mallocFailed` and `stale`), `i` (the loop counter of
    `exprAnalyzeAll`), `phase` and `direct`.
  - *Allocations counted:* the growths of every term array and the
    `WhereOrInfo` / `WhereAndInfo` of OR terms. Once one fails,
    `db->mallocFailed` fails every later one. Expression copies
    (`sqlite4ExprDup`, `sqlite4PExpr`) are assumed to succeed.
  - *Memory.* Each growth of the array moves it, so it starts a new
    generation. A `WhereTerm*` is modelled as `[gen, idx]`. A store through
    a pointer from an older generation lands in freed memory: it is lost,
    and `stale` records it. In a grown array, `nChild` is uninitialised,
    which the model writes as `Garbage`.
  - *Actions:* `Split` is `whereSplit`, `Analyze` is one call of
    `exprAnalyze` from `exprAnalyzeAll`, and `EndAnalysis` is the
    `mallocFailed` test at line 5883. `Disable` is a call of `disableTerm`
    from code generation, on any term, in a LEFT JOIN level or not.
    `Abandoned` is `whereBeginError`.
  - *`exprAnalyze`* is a `RECURSIVE` operator. Its branches are operators
    of their own:
    - `AnalyzeCmp`: the commuted twin of X=Y, or commuting in place;
    - `Between`, built from `BetweenChild`;
    - `Like`, `Match` and `NotNull`;
    - `OrTerm`, which is `exprAnalyzeOrTerm`. It splits the OR into an
      OR clause of its own (kept in the term's `sub` field) and analyses
      that clause with `AnalyzeAll`. `OrScan` computes `indexable` and
      `chngToIN`; a subterm that is not a single comparison becomes an
      AND subterm (`AndSubterm`) with its own analysed AND clause.
      `Search` is the two-pass search for the IN column, built from
      `FindCandidate` and `CheckColumn`. The virtual IN term is built by
      `InExpr` from the subterms marked `TERM_OR_OK`.

    BETWEEN and LIKE are expanded only in a clause split at AND
    (`pWC->op==TK_AND`), as in the code. A LIKE leaf carries its
    function (`like`, `like_cs` for `case_sensitive_like`, `glob`, or
    another), its pattern as a byte string, and its left operand; `Like`
    asks `LikePrefix`'s `IsLikeOrGlob` whether the rewrite applies, and
    the range terms it adds carry their bound and collation (`LikeRange`).

    Each branch keeps every `pTerm` re-fetch and every store in the
    code's order.
- **`WhereScan`.** `ScanNext` is one call of `whereScanNext`. Its state is
  the clause, the term and the `aEquiv` position. `ScanAll` collects
  every answer. `FindTerm` is `findTerm`: it returns the first answer
  whose right side is a constant, or else the first usable answer.
- **`LoopBuilder`.**
  - *Builders.* Each builder is a pure operator that threads the shared
    template `pNew` through its calls. It returns the templates it hands
    to `whereLoopInsert`, in order.
  - *Actions:* `AddTable` is one iteration of `whereLoopAddAll`, including
    its `mExtra`/`mPrior` update. It queues the table's templates.
    `Insert` hands the next queued template to `whereLoopInsert`, using
    `LoopPool`'s operator through `INSTANCE`.
  - *Terms.* The terms of a probe come from `WhereScan`.
  - *Virtual tables.* A table with `isVirtual` is planned by
    `AddVirtual`, which runs `VirtualTable`'s dialogue, turns each
    accepted plan into a template (`VtabTemplate`, with `u.vtab`'s
    `needFree`, `idxStr`, `isOrdered` and `omitMask`) and reports `rc`.
    An error stops `whereLoopAddAll` after that table (`iTab` jumps past
    the end); the templates built before it are still inserted. Two
    more variables follow the code: `heap`, the strings `xBestIndex`
    allocated and nobody freed yet, and `rc`. `Insert` models the
    ownership hand-over: `whereLoopXfer` clears the template's
    `needFree` (`XferSource`), and the free after `whereLoopInsert`
    releases the string only if the template still owns it. Inside
    `whereLoopAddOr` every string is freed within the call, so the OR
    path changes no `heap`.
- **`VirtualTable`.** `Constraints` and `NOrderBy` are the arrays
  `allocateIndexInfo` fills. `PhaseLoop` is the `for(iPhase...)` loop
  with its two skips; `PhaseBody` is one phase: the `usable` flags,
  the free of the previous phase's string, the call (an answer
  `[rc, argv, omit, orderByConsumed, idxStr, cost]`),
  `VtabBestIndexFails`, and `UsageLoop` over `aConstraintUsage[]` with
  the malfunction error and the IN break. A string is named by the call
  and the phase that allocated it.
- **`ShortCut`.** Its variables are the query inputs (the analysed WHERE
  terms `where`, the result set `distinct`, the ORDER BY `orderBy`,
  `colUsed` and the early-return flags), `wctrl` and `pOrderBy` of the
  WhereInfo, the program counter `pc`, `iIdx` and `j`, the template
  `pLoop` with its `aLTerm` slots, and `oob`, the indices stored past the
  array. `Distinct` is lines 5888-5910 of `sqlite4WhereBegin`: the ORDER
  BY scan, then `isDistinctRedundant` or the DISTINCTBY rewrite. Then come
  `Begin`, `NextIndex`, `Column` (`findTerm`, then `whereLoopResize`, then
  the store), `Probed` and `End`. `Probed` sets `IDX_ONLY` as the code
  does, from `pItem->colUsed` as a Bitmask (`ColUsedMask`: columns from
  `BMS-1` on share the last bit) and `columnsInIndex`. `findTerm` is `WhereScan`'s, over one
  clause: a `col = constant` term is `EQ`, a column equality `x = y` of
  the one table has only `WO_EQUIV` and a commuted twin, so an index
  column is found bound through a chain of equalities.
- **`LoopPool`.** It has two variables, `pool` (`pLoops`, in list order)
  and `orSet`. The action `InsertLoop` is `whereLoopInsert` without an
  `pOrSet`, and `InsertOr` is the `pOrSet` branch.

### Data abstraction

- **Bitmasks.** A `Bitmask` of cursors is a set of table names.
- **Costs.** WhereCosts are integers kept in u16 range. Costs that come
  from row estimates are inputs: the `RunChoices` constant, or fields of a
  template.
- **WhereLoop.** A `WhereLoop` is a record with only the fields the code
  under study reads.
  - For the solver: `tab`, `prereq`, `rSetup`, `nOut`, and the shape of
    its index: `oneRow`, `vtab`, `idx`, `unique`, `cols`, `nEq` and `eqOps`.
  - For the pool: `iTab`, `iSortIdx`, `prereq`, `rSetup`, `rRun`, `nOut`,
    `nLTerm` and `pIndex`.
- **ORDER BY and WHERE terms.** An ORDER BY term is a record.
  - *Analysed terms.* For the builders and the scan, an analysed WHERE
    term is the record `[op, tab, col, equiv, rhs, prereqRight, ...]`.
    The solver's `OrderBySat` still takes its equality terms as a
    constant.
  - *Raw expressions.* For `TermAnalysis`, an expression is a tree of
    AND nodes over leaves `[op, l, r, list, complete]`. An operand is a
    column `<<cursor, column>>` or `<< >>` for anything else.
- **Collations.** All columns use the default collating sequence, so the
  collation tests always match.

### Control kept

- **Solver.** The two `continue` tests and the three answers of the ORDER
  BY test are kept. So are the merge of equal `(maskLoop, isOrderedValid)`
  classes, the skip test against `mxCost`, the downward scan for the slot
  to evict, and the recomputation of `mxCost` when `aTo` is full. The
  failure path and the load of `aFrom[0]` (after `assert(nFrom==1)`) are
  kept too.
- **`whereLoopInsert`.** The model keeps the first-match scan, its two
  branches, rule (5) and the list position of a replaced loop.
- **`whereOrInsert`.** The model keeps the scan, appending while
  `n<N_OR_COST`, and the choice of the entry to overwrite when full.
- **`exprAnalyze`.** Kept in the code's order:
  - the early return when `mallocFailed` is set;
  - the `idxNew==0` returns that exist (1703, 1909) and the ones that are
    missing (1763, 1838, 1868);
  - every `pTerm` re-fetch;
  - the reset of `iParent` at 1680, before the parent links are made.
- **`disableTerm`.** The model keeps the `TERM_CODED` and LEFT JOIN
  guards, and the u8 decrement and recursion.

## Runs

| Run (cfg) | Expect | Checks | States |
|---|---|---|---|
| `terms` (`MCTermAnalysis.cfg`) | pass | `TypeOK`, `NoStaleTermPointer`, `ChildCount`, `CodedWhenChildrenCoded`, `OrToInExact`, `LikeRangeImplied`, `CompleteLikeExact` | 2646 |
| `builder` (`MCLoopBuilder.cfg`) | pass | `SetupInvariant`, `LeftJoinOrder`, `PlannableWithoutIndexedBy`, `ScanAgreesWithClosure`, `FindTermPrefersConstant`, `NoDanglingIdxStr`, `VirtualLoopSound`, `KeyStatsAccurate`, `Stat3RangeAtSamples`, `Stat3EqualAtSamples` | 2413 |
| `builder_match` (`MCLoopBuilderMatch.cfg`) | violation | `LeftJoinOrder` | |
| `builder_autosort` (`MCLoopBuilderAutoSort.cfg`) | violation | `AutoIndexUnordered` | |
| `builder_range` (`MCLoopBuilderRange.cfg`) | violation | `RangeEstimate` | |
| `builder_in1` (`MCLoopBuilderIn1.cfg`) | violation | `OneRowNotIn` | |
| `builder_vtab_leak` (`MCLoopBuilderVtabLeak.cfg`) | violation | `NoLeakedIdxStr` | |
| `shortcut` (`MCShortCut.cfg`) | pass | `TypeOK`, `ShortCutAgreesWithReference`, `LoopTermsMatchIndex`, `DistinctUniqueSound`, `IdxOnlyCovers` | 208140 |
| `shortcut_wide` (`MCShortCutWide.cfg`) | violation | `ALTermInBounds` | |
| `solver` (`MCPathSolver.cfg`) | pass | `TypeOK`, `FinalSinglePath`, `GenerationKeepsBest`, `ImplementsAbstractPlan` | 12544 |
| `pool` (`MCLoopPool.cfg`) | pass | `TypeOK`, `PrereqCoverage`, `OrCoverageWhileNotFull`, `NoDominatedAppend` | 1413808 |
| `orset_keeps_best` (`MCOrSetKeepsBest.cfg`) | violation | `OrSetKeepsBest` | |

**`terms`** uses twenty-seven WHERE clauses over tables A(a, b) and B(x), in a
build with `aStatic[1]` (`SQLITE4_SMALL_STACK`).

- *Clauses:* X=Y across tables, X<Y, a same-table equality, a commuted
  constant, IN, IS NULL, BETWEEN with a column bound, complete and
  incomplete LIKE, `match()` on a column and on its own table, IS NOT
  NULL, and an opaque term. They appear alone and in ANDs of two or three.
  Eight clauses have OR terms:
  - ORs that become IN: on A.a (with a constant and a column disjunct)
    and on B.x;
  - `A.a=B.x OR A.b=B.x`, where only the second pass of the search
    finds B.x;
  - ORs that do not become IN: across two tables, with a range, with a
    same-table equality, and with AND and BETWEEN disjuncts;
  - an OR inside an AND.

  Ten clauses have a LIKE or GLOB: `'ab%'` (complete), `'ab%c'`,
  `'a@%'` (the `'@'` case), `'a\xff%'` (the 0xFF test), `'aA_'` under
  `case_sensitive_like`, `'%a'` (no prefix), GLOB `'aA*'` (complete) and
  `'a[b'`, and a LIKE whose left side is not a column.
- *Failures:* any one of the first six allocations may fail.
- *Properties:*
  - `NoStaleTermPointer` says that no store goes through a `pTerm` from
    before a move of the array.
  - `ChildCount` says that, after any sequence of `disableTerm` calls,
    every parent (and every term with a nonzero `nChild`) counts exactly
    its uncoded children.
  - `CodedWhenChildrenCoded` says that a parent which code generation
    never disabled itself is coded exactly when all its children are.
  - `OrToInExact` compares `exprAnalyzeOrTerm` with a reference
    definition. An OR term gets a virtual IN child exactly when every
    disjunct is `x = e` or `e = x` for one column x, with e not using x's
    table. That child is then `x IN (...)` over the other sides of the
    disjuncts. The mutant that stops the search after one pass breaks
    it on `A.a=B.x OR A.b=B.x`.
  - `LikeRangeImplied` says that the range terms `x>=prefix` and
    `x<succ(prefix)` hold for every string of up to three bytes, over
    `@ A [ a b c 0xFF`, that the pattern matches (a byte-wise reference
    LIKE/GLOB and BINARY/NOCASE comparison in `MCTermAnalysis`). Without
    the 0xFF test the successor of `'a\xff'` wraps to `'a'` and the
    range is empty.
  - `CompleteLikeExact` says that when the LIKE becomes the parent of its
    range terms, so that `disableTerm` drops it once both are coded,
    every string in the range matches. Without the `'@'` case, `'a['`
    lies in the NOCASE range `['a@', 'aA')` but does not match `'a@%'`.

  spec.md scenario 2 expects `x LIKE 'abc%'` to stay as a post-filter.
  The code drops it: the pattern is complete, the LIKE is the range
  terms' parent, and `CodedWhenChildrenCoded` and `CompleteLikeExact`
  show that it is coded with them and that this is sound. The run list
  has no slot for a violation run of the scenario's wording.

**`builder`** runs about 180 two-table statements through
`whereLoopAddAll`. Table A has a PK and an index on b. Table B has a PK, an
index on y and a UNIQUE index on (y, z). The statements vary in:

- *join:* inner, LEFT, or INDEXED BY;
- *WHERE clause:* ten choices, covering join equalities both ways,
  constants, IN, IS NULL, ranges, an OR, and a same-table equivalence;
- *ORDER BY:* three choices;
- *control flags:* two choices.

Its properties:

- `SetupInvariant` is the assertion in `whereLoopInsert`.
- `LeftJoinOrder` says every loop of a LEFT JOIN's right table needs
  every table to its left.
- `PlannableWithoutIndexedBy` says every table keeps a loop runnable in
  FROM order.
- `ScanAgreesWithClosure` checks `whereScanNext` against a reference
  transitive closure of the equalities, on every column and clause chain.
- `FindTermPrefersConstant` checks `findTerm`'s choice.
- `NoDanglingIdxStr` says every queued template or pool loop that owns
  a plan string (`needFree`) points at one not yet freed.
- `VirtualLoopSound` says every virtual-table template uses distinct
  terms of its own table, has their tables as prerequisites, uses an IN
  term only if the table omits its test, and never claims the ORDER BY
  with an IN term.
- The three row-estimate properties do not depend on the builder's
  state; they are checked in the initial states (`iTab = 1`), over every
  table with up to two rows on each of three keys and every non-empty
  set of its keys as samples (with their exact `nLt` and `nEq`, as
  ANALYZE records them), for values below, between, at and above the
  samples.
  - `KeyStatsAccurate`: `whereKeyStats` is exact at a sample, and
    elsewhere puts the rows below v between the rows up to the nearest
    sample below and the rows under the nearest sample above.
  - `Stat3RangeAtSamples`: for bounds at sample keys under `>`, `>=`, `<`
    and `<=`, the STAT3 divisor is `cost(n) - cost(rows in range)`, the
    formula of spec.md 4.5.
  - `Stat3EqualAtSamples`: equality and two-value IN estimates on sample
    keys are the rows with those keys, and a value that is not a key
    gives no estimate.

  Off the samples, `x<=v` adds `avgEq` to interpolated rows. The upper
  end can then pass the row count, and the u16 subtraction at line 2737
  wraps. With 8 rows all equal to the one sample 2 and `avgEq` 1,
  `x<=3` gets the divisor 65534, and the loop is estimated at 2 rows.
  This is listed as a hazard; the builder's indexes have no samples, so
  no run checks a plan that uses it.

48 more statements (`MCVtabStatements`) join A with B as a virtual
table, inner-joined, under six WHERE clauses (none; a constant and an
IN; a join equality; two constants; an OR on B; a join equality, an IN
and an IS NULL, which reaches all four phases) and two ORDER BYs. Its
`xBestIndex` behaves in one of four ways: *Greedy* uses and omits every
usable constraint, consumes the ORDER BY and allocates its string, with
a cost that falls with the number of constraints used (the first above
2000000000, the exponent branch of `whereCostFromDouble`); *Cautious*
omits nothing and returns a static string; *Broken* gives every
constraint `argvIndex` 1 (a plan with one usable constraint, the
"invalid plan" error with an unusable one, the malfunction error with
two); *Failing* returns an error after allocating a string.

`findTerm`'s comment (lines 1121-1122) says it tries to return a term
that does not use `WO_EQUIV`. The code does not test `WO_EQUIV`. It
prefers a term whose right side needs no table, and only among `==`
terms. `FindTermPrefersConstant` states what the code does.

**`shortcut`** covers every subset of `==` columns of a..e, combined with
no column equality, `e = a`, or the chain `d = f`, `f = c`. It covers
each early-return flag, and with `WANT_DISTINCT` four result sets: `b, c`
(redundant only through `c = X`, since c is nullable), `a, expr`, `rowid,
f` and `d, e, expr`. ORDER BYs are none, a column, a column then an
expression (dropped under DISTINCT), and the rowid then an expression
(kept: the scan stops at the rowid). The table's unique indexes have at
most four columns, and every allocation may fail. The Bitmask has
`BMS = 4` bits instead of 64, so that column d (number 3) takes the last
bit and e and f share it; the column sets used are `a, b, c`, `a, f` and
`b, e`. `IdxOnlyCovers` checks that an index-only plan holds every column
used. The code is generic in `BMS`, so four bits reach the same boundary
that a table of 64 or more columns reaches in the build.
`DistinctUniqueSound` compares `eDistinct = UNIQUE` with a reference:
two different rows that satisfy the WHERE clause and the schema,
described column by column as both NULL, equal, or different. No such
pair may agree on every DISTINCT column.

**`solver`** checks a four-way join of A, B, C and D, so
`mxChoice = 10`.

- *Loops.* Each table has a one-row lookup and a scan. B also has a lookup
  that needs A. This gives up to twelve path classes after the second
  generation, so `aTo` fills and entries are evicted at positions other
  than the first.
- *Costs.* The run costs of the four lookups vary over 16 combinations,
  and `nQueryLoop` takes two values.
- *ORDER BY.* It names a column of every table. Paths of lookups therefore
  stay "cannot tell" until the last table joins, and the sort cost of the
  second call matters.
- *Properties:*
  - `GenerationKeepsBest` says that at the end of every generation `aTo`
    holds exactly the `mxChoice` cheapest classes, each at its best cost.
  - `FinalSinglePath` is the precondition of `assert(nFrom==1)`.
  - `ImplementsAbstractPlan` is the refinement. `AbstractPlan` is
    instantiated with `status` and `plan` mapped from `pc`, `rc` and
    `plan`. Its safety part and its termination are checked as
    properties.
- *Size.* 12544 states, about 70 s.

The solver's failure path ("no query solution", when every join order
needs a table that is not yet joined) is in the model. No run currently
reaches it: the project is limited to twelve runs, and a cyclic-prerequisite
join was the run given up for `terms`.

**`pool`** (`MCLoopPool.cfg`) checks every interleaving of eight
templates for one table and six OR triples for a WhereOrSet of capacity 3
(1413808 states, about two minutes).

- *Templates:* an automatic index and a PK scan in slot 0, and six loops
  of index `i1` in slot 1. The slot-1 loops include a pair for rule (5)
  and three loops that one constant probe dominates.
- *Properties:*
  - `PrereqCoverage`: pruning never leaves an offered template without a
    loop of its slot that needs no more outer tables.
  - `NoDominatedAppend`: an appended loop is never dominated by an
    existing one.
  - `OrCoverageWhileNotFull`: the OR set loses nothing before it is
    full; `TypeOK` bounds it by `N_OR_COST`.

The violation runs, and what they show (see `findings` in PROJECT.json):

- **`LeftJoinOrder`** (`builder_match`). `B MATCH ...` on the right
  table of a LEFT JOIN gives B a loop with no prerequisite.
  `whereLoopAddMatch` (line 4565) sets `prereq` from the term alone and
  never uses its `mExtra` argument. The solver may then put B outside A.
- **`AutoIndexUnordered`** (`builder_autosort`). The automatic-index
  templates (line 4645) do not set `iSortIdx`. Under ORDER BY A.b, B's
  template carries the value 2 left by A's last index probe.
  `whereLoopInsert` therefore compares it with the wrong slot.
- **`RangeEstimate`** (`builder_range`, spec.md 4.5). Each range bound
  should divide the rows by 4. For `y>5 AND y<9`, the top-limit template
  starts from a `saved_nOut` that already includes the bottom limit, and
  `whereRangeScanEst` counts both bounds again. So `nOut` is 89-20-40=29
  instead of 49.
- **`OneRowNotIn`** (`builder_in1`, the assertion at line 4434).
  `y IN (7)` has `nIn = whereCost(1) = 0`. The recursive call therefore
  gets `nInMul == 0` and marks a loop that carries `COLUMN_IN` as ONEROW.
- **`NoLeakedIdxStr`** (`builder_vtab_leak`, spec.md section 5: the
  plan string is released on every path). For `B.y=3 AND B.z IN (...)`
  on a Greedy virtual table, phase 0 inserts a plan owning string
  `<<2,0>>`; phase 1's cheaper plan overwrites that pool loop, and
  `whereLoopClearUnion` (line 4101) drops the string with its free under
  `#if 0`. Unchosen pool loops lose theirs the same way in
  `whereLoopDelete`.
- **`ALTermInBounds`** (`shortcut_wide`). `whereShortCut` resizes
  `aLTerm` to `j` slots and then stores `aLTerm[j]`. At `j == 4` the store
  goes past the four slots of `aLTermSpace`.
- **`OrSetKeepsBest`** (comment of `whereOrInsert`: "keeps the N_OR_COST
  best entries"). It fails because, with the set full, the search at lines
  569-572 picks the *cheapest* entry. A still cheaper triple then
  overwrites it, and the entry at cost 20 is lost while entries at 30 and
  40 stay. The trace also shows the evicted entry's `nOut` carried over.

Each property of a passing run has a mutant in PROJECT.json: a plausible
bug in one mapped definition that TLC then catches.


### Bounds

- **Term array.** `aStatic[1]` makes the array grow at the 2nd, 3rd, 5th
  and 9th term, so the growth lands inside the analysis of every kind of
  term:
  - between a BETWEEN or LIKE term and its children;
  - inside a child's own twin insert.

  With `aStatic[8]`, none of these clauses would move the array. Failing
  the 1st, 2nd or 3rd growth puts a failed insert in the split, in a
  twin, in a BETWEEN child, and in the MATCH and x>NULL inserts. The
  OR clauses need up to seven allocations: the `WhereOrInfo`, growths of
  the OR clause, the `WhereAndInfo` of each AND subterm and growths of
  its clause. Failing any of the first six lands a failure in each of
  those.
- **LIKE.** Three-byte subjects over `@ A [ a b c 0xFF` contain a
  string on each side of every bound the patterns produce, both cases
  of every letter in them, the bytes on either side of the alphabet
  folding (`'@'`, `'['`) and the wrap byte. The check runs only in the
  state right after the analysis, since the terms do not change later.
- **Row estimates.** Three keys with up to two rows each give a sample
  with a gap on each side, neighbouring samples, empty keys and keys
  repeated. Values 0 and 4 lie below and above every key.
- **Builder.** Two tables are enough for every `mExtra`/`mPrior` case
  (inner, LEFT, and a table after a LEFT one) and for column equalities
  across tables. Six columns keep every equivalence class well inside the
  11 columns of `aEquiv`. The cut-off at a full `aEquiv` is therefore not
  reached; see the hazards.
- **Shortcut.** A four-column unique index fills `aLTermSpace`. The wide
  run adds a six-column index to go past it.
- **Solver.** Four tables are the fewest that make `mxChoice = 10` and
  let more classes than slots compete. With three tables, at most 7
  classes exist per generation.
- **Pool.** One table with two slots is enough, because loops of
  different `iTab` or `iSortIdx` are never compared. Eight templates give
  every outcome of the scan: skip, replace by either branch, rule (5),
  append after an incomparable loop, and append in the other slot.
- **OR set.** Six triples give overwrite, reject, append, full-set
  reject and full-set eviction (a seventh only multiplies the
  interleavings with the pool's templates).
- **Virtual table.** Three constraints (one needing A, one IN) reach all
  four phases and both skips; the four behaviours reach every exit of a
  phase: a plan, the IN break, both `vtabBestIndex` errors and the
  malfunction error.

### Fairness

Planning is a single-threaded computation. Every state before the end
has a next statement, and TLC's deadlock check confirms this.

- **Solver and shortcut.** `Spec` assumes weak fairness of `Next`, written
  as `[]<><<Next>>_vars \/ <>(pc = "done")` in the solver. A stuttering
  `Done` step follows the plan.
- **Builder and term analysis.** These check only safety. They end in a
  stuttering `Done` or `Abandoned` step. In the term model, `Disable` stays
  enabled during code generation.
- **Pool runs.** These check only safety, and they stop after their last
  template, so those cfgs disable the deadlock check.

## Not modelled, and why

- **Other term analysis.**
  - ON clauses of LEFT JOINs (`EP_FromJoin`, `extraRight`) and
    affinities (the ticket #2249 check in the OR-to-IN search) are not
    modelled: all affinities are the default.
  - `whereClauseClear`, which frees the sub-clauses, is not modelled.
  - Of `isLikeOrGlob`, the `sqlite4VdbeSetVarmask` call and the dummy
    `OP_Variable` for a bound pattern are code generation and not
    modelled; a pattern is a string whichever way it was given. The
    LIKE function's wildcards and case folding (`sqlite4IsLikeFunction`,
    `sqlite4UpperToLower`) are not in `src/` and are modelled from the
    SQL semantics. The reference matcher treats every byte as a
    character, as the single-byte `+1` of the rewrite does.
  - The loop builders take analysed terms as constants; they are not fed
    from `TermAnalysis`.
- **Row estimation and virtual tables.**
  - The builder's indexes have no samples. It uses `aiRowEst` and the
    plain estimate of `whereRangeScanEst` (inline in `TermTemplate`), and
    the STAT3 block of `whereLoopAddBtreeIndex` (4467-4480) is not in it.
    `RowEstimate` models the estimators on their own. `valueFromExpr`
    and `whereSampleKeyinfo` (key encoding and their allocation errors)
    are not modelled: a value is its key, or `NoValue` when it has none.
  - `xBestIndex` is extension code: it is a constant operator with four
    behaviours. A NOMEM from it, `idxNum` and the `aOrderBy` contents
    are not modelled. A LEFT-joined virtual table is not in the builder
    run: its loops lack `mExtra` (line 4786), the defect `builder_match`
    shows for MATCH, and would hide the other properties.
- **Code generation** (`codeOneLoopStart`, `sqlite4WhereEnd`,
  `constructAutomaticIndex`) emits VDBE programs. Only its calls of
  `disableTerm` are modelled.
- **Other left-outs.**
  - The eDistinct re-check at the end of the solver.
  - The `nSrc != 1` return of `isDistinctRedundant`; the DISTINCT set-up
    is modelled only for the one-table queries that reach
    `whereShortCut`.
  - Collation mismatches.
  - `OptimizationDisabled`.
  - The BMS limit of 63 ORDER BY terms and tables.
- **The u16 wrap** of `whereCostAdd` and of the path's `nRow` sum (5499)
  is kept in the operators, but no reachable cost comes near 2^16: the
  whereCost of a 64-bit row count is below 640. It is not listed as a
  hazard.

## Plan for further modules

- **Builder from analysis:** feed `LoopBuilder` the terms `TermAnalysis`
  produces, instead of a constant list.
- **`MaskSet`:** `getMask` and `createMask`, for the BMS limit.
- **DISTINCT re-check:** the GROUP BY / DISTINCT runs of `OrderBySat`,
  with the `pWInfo->wctrlFlags` read at line 5260. That read applies the
  same sort-order rule or a stricter one, so at worst an optimisation is
  missed; it is not listed as a hazard.
