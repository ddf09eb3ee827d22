---------------------------- MODULE VirtualTable ----------------------------
(***************************************************************************)
(* The dialogue of src/src/where.c with a virtual table's xBestIndex       *)
(* method: allocateIndexInfo builds the sqlite4_index_info of the table's  *)
(* WHERE constraints and ORDER BY, and whereLoopAddVirtual calls           *)
(* vtabBestIndex up to four times, each time with a different set of      *)
(* constraints marked usable, and turns every answer it accepts into a    *)
(* plan for a WHERE_VIRTUALTABLE loop.                                    *)
(*                                                                         *)
(* The method itself is outside the planner: XBestIndex(b, aCons, nOB) is  *)
(* the answer of a table whose method behaves as b, given the constraints *)
(* (each with its usable flag) and the number of ORDER BY terms passed.   *)
(* An answer is [rc, argv, omit, orderByConsumed, idxStr, cost]: argv[i]   *)
(* is aConstraintUsage[i-1].argvIndex, omit the constraints whose omit     *)
(* flag it set, idxStr "none", "static" or "alloc" (a string it allocated  *)
(* and asks the planner to free, needToFreeIdxStr), cost its              *)
(* estimatedCost, a whole number.  An allocated string is named by where  *)
(* the call was made and in which phase.                                   *)
(*                                                                         *)
(* WHERE terms are the records of LoopBuilder; a term that does not exist  *)
(* (aLTerm[i] == 0) is NoTerm.  TERM_VNULL terms are not among the inputs. *)
(***************************************************************************)
EXTENDS Integers, Sequences, FiniteSets, WhereCost

CONSTANT XBestIndex(_, _, _)

NoTerm == [op |-> "NULL"]

\* Bind e once and apply F (coverage-mode TLC expands a LET name at
\* every reference).
Once(e, F(_)) == CHOOSE r \in {F(v) : v \in {e}} : TRUE

\* whereCostFromDouble: an estimatedCost above 2000000000 is converted
\* from its binary exponent, (a>>52)-1022, i.e. floor(log2 x) + 1.
RECURSIVE Log2Floor(_)
Log2Floor(x) == IF x < 2 THEN 0 ELSE 1 + Log2Floor(x \div 2)
WhereCostFromDouble(x) ==
  IF x <= 1 THEN 0
  ELSE IF x <= 2000000000 THEN WhereCost(x)
  ELSE U16((Log2Floor(x) + 1) * 10)

(***************************************************************************)
(* allocateIndexInfo                                                       *)
(***************************************************************************)

\* The terms of clause wc that become constraints of cursor cur, with
\* their operator (IN is passed as EQ) and offset in wc, in the zeroed
\* allocation (usable 0).  The counting loop and the filling loop apply
\* the same test.
IsConstraint(t, cur) == t.tab = cur /\ t.op # "ISNULL"
Constraints(wc, cur) ==
  LET ks == SelectSeq([k \in 1..Len(wc) |-> k], LAMBDA k : IsConstraint(wc[k], cur))
  IN  [i \in 1..Len(ks) |->
         [iColumn |-> wc[ks[i]].col, iTermOffset |-> ks[i], usable |-> FALSE,
          op |-> IF wc[ks[i]].op = "IN" THEN "EQ" ELSE wc[ks[i]].op]]

\* nOrderBy: the ORDER BY is passed only when all of it is columns of cur.
NOrderBy(orderBy, cur) ==
  IF \A i \in 1..Len(orderBy) : orderBy[i].isCol /\ orderBy[i].tab = cur
  THEN Len(orderBy) ELSE 0

(***************************************************************************)
(* whereLoopAddVirtual                                                     *)
(***************************************************************************)

\* The switch on iPhase: which constraints xBestIndex may use.
Usable(phase, t) ==
  CASE phase = 0 -> t.prereqRight = {} /\ t.op # "IN"
    [] phase = 1 -> t.prereqRight = {}
    [] phase = 2 -> t.op # "IN"
    [] OTHER     -> TRUE

\* vtabBestIndex: the method's error, or a usage of a constraint that was
\* not usable, makes pParse->nErr nonzero.
VtabBestIndexFails(ans, aCons) ==
  ans.rc # "OK" \/ \E i \in DOMAIN aCons : ~aCons[i].usable /\ ans.argv[i] > 0

\* An IN constraint the table will not omit ends the phase: it might
\* repeat rows.
StopsAtInNever(omit, t) == FALSE
StopsAtIn(omit, t) == t.op = "IN" /\ ~omit

\* The loop over aConstraintUsage[]: u is [i, aLTerm, mxTerm, prereq,
\* omitMask, orderByConsumed]; the result adds kind "done", "break" or
\* "malfunction" (the xBestIndex() malfunction error).
RECURSIVE UsageLoop(_, _, _, _)
UsageLoop(wc, aCons, ans, u) ==
  IF u.i > Len(aCons) THEN [u EXCEPT !.kind = "done"]
  ELSE LET iTerm == ans.argv[u.i] - 1
           t == wc[aCons[u.i].iTermOffset]
           om == u.i \in ans.omit
           u1 == [u EXCEPT !.prereq = @ \cup t.prereqRight,
                           !.aLTerm = [@ EXCEPT ![iTerm] = t],
                           !.mxTerm = IF iTerm > @ THEN iTerm ELSE @,
                           !.omitMask = IF iTerm < 16 /\ om THEN @ \cup {iTerm} ELSE @,
                           !.orderByConsumed = IF t.op = "IN" /\ om THEN FALSE ELSE @]
       IN  IF iTerm < 0 THEN UsageLoop(wc, aCons, ans, [u EXCEPT !.i = @ + 1])
           ELSE IF iTerm >= Len(aCons) \/ u.aLTerm[iTerm] # NoTerm
           THEN [u EXCEPT !.kind = "malfunction"]
           ELSE IF StopsAtIn(om, t) THEN [u1 EXCEPT !.kind = "break"]
           ELSE UsageLoop(wc, aCons, ans, [u1 EXCEPT !.i = @ + 1])

\* The outcome of one phase, given its constraints, the answer and the
\* usage loop's result: a vtabBestIndex error, the malfunction error, the
\* IN break, or a plan (whose string pNew now owns).  The previous
\* phase's string is freed first if still owned.
PhaseOutcome(wc, cons, aCons, ans, u, nOB, ctx, phase, st) ==
  LET seenIn == st.seenIn \/ (phase = 0 /\ \E i \in DOMAIN cons : wc[cons[i].iTermOffset].op = "IN")
      seenVar == st.seenVar \/ (phase = 0 /\ \E i \in DOMAIN cons : wc[cons[i].iTermOffset].prereqRight # {})
      sid == <<ctx, phase>>
      str == CASE ans.idxStr = "alloc" -> sid [] ans.idxStr = "static" -> "static" [] OTHER -> "none"
      st1 == [st EXCEPT !.seenIn = seenIn, !.seenVar = seenVar, !.str = str,
                        !.needToFree = ans.idxStr = "alloc",
                        !.alloc = IF ans.idxStr = "alloc" THEN @ \cup {sid} ELSE @,
                        !.freed = IF st.needToFree THEN @ \cup {st.str} ELSE @]
      plan == [prereq |-> u.prereq, nLTerm |-> u.mxTerm + 1,
               aLTerm |-> [k \in 1..(u.mxTerm + 1) |-> u.aLTerm[k - 1]],
               omitMask |-> u.omitMask, isOrdered |-> nOB # 0 /\ u.orderByConsumed,
               idxStr |-> str, needFree |-> ans.idxStr = "alloc",
               rRun |-> WhereCostFromDouble(ans.cost)]
  IN  IF VtabBestIndexFails(ans, aCons) THEN [st1 EXCEPT !.rc = "ERROR"]
      ELSE IF u.kind = "malfunction" THEN [st1 EXCEPT !.rc = "ERROR", !.prereq = u.prereq]
      ELSE IF u.kind = "break" THEN [st1 EXCEPT !.prereq = u.prereq]
      ELSE [st1 EXCEPT !.plans = Append(@, plan), !.needToFree = FALSE, !.prereq = u.prereq]

\* One phase: mark the usable constraints (phase 0 also notes whether
\* there are IN and non-constant ones), reset the outputs, ask
\* xBestIndex, check its usage.  st is [seenIn, seenVar, str, needToFree,
\* alloc, freed, plans, rc, prereq]; ctx names the call.
PhaseBody(wc, cur, b, nOB, ctx, phase, st) ==
  Once(Constraints(wc, cur), LAMBDA cons :
  Once([i \in DOMAIN cons |-> [cons[i] EXCEPT !.usable = Usable(phase, wc[cons[i].iTermOffset])]],
    LAMBDA aCons :
  Once(XBestIndex(b, aCons, nOB), LAMBDA ans :
  Once(UsageLoop(wc, aCons, ans,
                 [i |-> 1, aLTerm |-> [k \in 0..(Len(cons) - 1) |-> NoTerm], mxTerm |-> -1,
                  prereq |-> {}, omitMask |-> {}, orderByConsumed |-> ans.orderByConsumed,
                  kind |-> "none"]),
    LAMBDA u : PhaseOutcome(wc, cons, aCons, ans, u, nOB, ctx, phase, st)))))

\* The for-loop over iPhase, with its skips: phases 1 and 3 only after an
\* IN constraint, 2 and 3 only after a non-constant one.
RECURSIVE PhaseLoop(_, _, _, _, _, _, _)
PhaseLoop(wc, cur, b, nOB, ctx, p, st) ==
  LET p1 == IF ~st.seenIn /\ p % 2 = 1 THEN p + 1 ELSE p
  IN  IF p > 3 \/ p1 > 3 \/ (~st.seenVar /\ p1 > 1) THEN st
      ELSE Once(PhaseBody(wc, cur, b, nOB, ctx, p1, st),
             LAMBDA st1 : IF st1.rc # "OK" THEN st1
                          ELSE PhaseLoop(wc, cur, b, nOB, ctx, p1 + 1, st1))

\* whereLoopAddVirtual: the plans it hands to whereLoopInsert, in order,
\* the strings it allocated and freed (the exit label frees the last
\* one if it is still owned), rc, and pNew->prereq as left.
AddVirtualPlans(wc, cur, b, orderBy, ctx) ==
  Once(PhaseLoop(wc, cur, b, NOrderBy(orderBy, cur), ctx, 0,
                 [seenIn |-> FALSE, seenVar |-> FALSE, str |-> "none",
                  needToFree |-> FALSE, alloc |-> {}, freed |-> {},
                  plans |-> << >>, rc |-> "OK", prereq |-> {}]),
    LAMBDA st : [st EXCEPT !.freed = IF st.needToFree THEN @ \cup {st.str} ELSE @])
=============================================================================
