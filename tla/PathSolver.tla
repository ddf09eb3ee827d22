----------------------------- MODULE PathSolver -----------------------------
(***************************************************************************)
(* The join-order solver wherePathSolver of src/src/where.c, driven the    *)
(* way sqlite4WhereBegin drives it: one call with nRowEst==0 and, when     *)
(* there is an ORDER BY, a second call with nRowEst = nRowOut+1.           *)
(*                                                                         *)
(* The solver keeps at most mxChoice WherePaths per generation (aFrom,     *)
(* aTo), extends every path of the previous generation by every usable     *)
(* WhereLoop, and merges paths with the same (maskLoop, isOrderedValid).   *)
(* One Candidate step is one iteration of the innermost loop over          *)
(* pWInfo->pLoops; the loop counters ii and wl are kept 1-based.           *)
(***************************************************************************)
EXTENDS Integers, Sequences, FiniteSets, WhereCost, OrderBySat

CONSTANTS
  Tables,           \* the FROM-clause cursors (pTabList, nTabList >= 2)
  Loops,            \* pWInfo->pLoops as whereLoopAddAll leaves it
  RunChoices,       \* possible rRun estimates of the loops (functions)
  NQueryLoopChoices \* possible values of pParse->nQueryLoop (a WhereCost)

VARIABLES
  rRun,       \* rRun of each WhereLoop of Loops
  nQueryLoop, \* pParse->nQueryLoop
  pass,       \* 0 before the first call, then 1 or 2: which solver call
  pc,         \* "begin", "solve", "return" (solver returned) or "done"
  nRowEst, rSortCost, mxCost, iLoop, ii, wl, aFrom, aTo,
  rc,         \* "ok" or "error" (pParse->nErr after "no query solution")
  plan,       \* pWInfo->a[].pWLoop, as indices into Loops
  nRowOut, bOBSat, revMask

vars == <<rRun, nQueryLoop, pass, pc, nRowEst, rSortCost, mxCost, iLoop,
          ii, wl, aFrom, aTo, rc, plan, nRowOut, bOBSat, revMask>>

nLoop == Cardinality(Tables)
mxChoice == IF nLoop = 1 THEN 1 ELSE IF nLoop = 2 THEN 5 ELSE 10
hasOrderBy == nOrderBy > 0

SetMax(S) == CHOOSE c \in S : \A d \in S : d <= c
SetMin(S) == CHOOSE c \in S : \A d \in S : c <= d
Costs(paths) == {paths[j].rCost : j \in 1..Len(paths)}

\* pWLoop can follow a path over the tables in mask: its prerequisites
\* are in the path, its table is not (the two "continue" tests at the top
\* of the inner loop).
UsableNoPrereq(mask, w) == Loops[w].tab \notin mask
Usable(mask, w) == Loops[w].prereq \subseteq mask /\ Loops[w].tab \notin mask

\* The loop sequences aLoop[] the solver can build: each loop usable
\* after the ones before it.
RECURSIVE Prefixes(_)
Prefixes(k) ==
  IF k = 0 THEN {<< >>}
  ELSE UNION {{Append(p, w) : w \in {w \in DOMAIN Loops :
                 Usable({Loops[p[m]].tab : m \in 1..Len(p)}, w)}} :
                p \in Prefixes(k - 1)}

\* wherePathSatisfiesOrderBy for every path and next loop the solver can
\* ask about.  It depends only on the loops, not on their costs, so it is
\* tabulated once.
SatTable ==
  [pw \in (UNION {Prefixes(k) : k \in 0..(nLoop - 1)}) \X DOMAIN Loops |->
     SatisfiesOrderBy([k \in 1..Len(pw[1]) |-> Loops[pw[1][k]]],
                      Loops[pw[2]], WctrlFlags)]

\* Lines 5366-5392: seed aFrom with one empty path and price the sort.
SolverInit(est) ==
  /\ nRowEst' = est
  /\ aFrom' = << [maskLoop |-> {}, revLoop |-> {}, aLoop |-> << >>,
                  nRow |-> IF nQueryLoop < 46 THEN nQueryLoop ELSE 46,
                  rCost |-> 0, isOrdered |-> FALSE,
                  isOrderedValid |-> ~hasOrderBy \/ est = 0] >>
  /\ rSortCost' = IF ~hasOrderBy \/ est = 0 THEN 0 ELSE est + EstLog(est)
  /\ aTo' = << >>
  /\ mxCost' = 0
  /\ iLoop' = 0 /\ ii' = 1 /\ wl' = 1
  /\ pc' = "solve"

\* Cost of pFrom extended by pWLoop, before any sort cost is added.
ExtendCost(f, w) ==
  WhereCostAdd(WhereCostAdd(Loops[w].rSetup, U16(rRun[w] + f.nRow)), f.rCost)

\* The path pFrom+pWLoop as the solver records it in aTo[].
Extend(f, w) ==
  LET sat == SatTable[<<f.aLoop, w>>]
      res == IF f.isOrderedValid THEN 2 ELSE sat.res
  IN [maskLoop |-> f.maskLoop \cup {Loops[w].tab},
      revLoop  |-> IF f.isOrderedValid THEN f.revLoop ELSE sat.rev,
      aLoop    |-> Append(f.aLoop, w),
      nRow     |-> U16(f.nRow + Loops[w].nOut),
      rCost    |-> IF res = 0 THEN WhereCostAdd(ExtendCost(f, w), rSortCost)
                   ELSE ExtendCost(f, w),
      isOrdered      |-> IF res \in {0, 1} THEN res = 1 ELSE f.isOrdered,
      isOrderedValid |-> res # -1]

\* for(jj=nTo-1; aTo[jj].rCost<mxCost; jj--): the slot to overwrite.
ReplaceSlotFirst(to, mx) == 1
ReplaceSlot(to, mx) ==
  LET S == {j \in 1..Len(to) : to[j].rCost >= mx}
  IN  IF S = {} THEN 0 ELSE SetMax(S)

\* aTo[] still has a free slot: if( nTo<mxChoice ) jj = nTo++.
HasFreeSlotOffByOne(nTo) == nTo <= mxChoice
HasFreeSlot(nTo) == nTo < mxChoice

\* mxCost after aTo[] changed: recomputed over all mxChoice entries once
\* aTo[] is full (lines 5490-5495), otherwise left as it was.
MxCostAfter(to2, mx) ==
  IF Len(to2) >= mxChoice THEN SetMax(Costs(to2)) ELSE mx

\* Merge the new path n into aTo (lines 5418-5496): update the path of
\* the same class if n is cheaper, else take a free slot, else replace
\* the worst path if n beats mxCost.  Result: [to |-> aTo, mx |-> mxCost].
Offer(to, mx, n) ==
  LET nTo  == Len(to)
      same == {j \in 1..nTo : to[j].maskLoop = n.maskLoop
                              /\ to[j].isOrderedValid = n.isOrderedValid}
      jj   == IF same # {} THEN SetMin(same)
              ELSE IF HasFreeSlot(nTo) THEN nTo + 1
              ELSE ReplaceSlot(to, mx)
      to2  == IF jj = nTo + 1 THEN Append(to, n) ELSE [to EXCEPT ![jj] = n]
      skip == IF same # {} THEN to[jj].rCost <= n.rCost
              ELSE ~HasFreeSlot(nTo) /\ n.rCost >= mx
  IN  IF skip THEN [to |-> to, mx |-> mx]
      ELSE [to |-> to2, mx |-> MxCostAfter(to2, mx)]

\* Advance the two nested loop counters (ii over aFrom, wl over pLoops).
Advance ==
  IF wl < Len(Loops) THEN wl' = wl + 1 /\ ii' = ii
  ELSE wl' = 1 /\ ii' = ii + 1

\* One iteration of the innermost loop of wherePathSolver.
Candidate ==
  /\ pc = "solve" /\ iLoop < nLoop /\ ii <= Len(aFrom)
  /\ \E r \in {IF Usable(aFrom[ii].maskLoop, wl)
                THEN Offer(aTo, mxCost, Extend(aFrom[ii], wl))
                ELSE [to |-> aTo, mx |-> mxCost]} :
       aTo' = r.to /\ mxCost' = r.mx
  /\ Advance
  /\ UNCHANGED <<rRun, nQueryLoop, pass, pc, nRowEst, rSortCost, iLoop,
                 aFrom, rc, plan, nRowOut, bOBSat, revMask>>

\* Swap the roles of aFrom and aTo for the next generation.
NextGeneration ==
  /\ pc = "solve" /\ iLoop < nLoop /\ ii > Len(aFrom)
  /\ aFrom' = aTo /\ aTo' = << >>
  /\ iLoop' = iLoop + 1 /\ ii' = 1 /\ wl' = 1
  /\ UNCHANGED <<rRun, nQueryLoop, pass, pc, nRowEst, rSortCost, mxCost,
                 rc, plan, nRowOut, bOBSat, revMask>>

\* End of wherePathSolver: fail with "no query solution", or load aFrom[0]
\* into pWInfo (the search for the cheapest aFrom[] entry is "#if 0").
Finish ==
  /\ pc = "solve" /\ iLoop = nLoop
  /\ pc' = "return"
  /\ IF aFrom = << >>
     THEN rc' = "error" /\ UNCHANGED <<plan, nRowOut, bOBSat, revMask>>
     ELSE LET p == aFrom[1] IN
          /\ plan' = p.aLoop
          /\ nRowOut' = p.nRow
          /\ bOBSat' = (bOBSat \/ (p.isOrdered /\ "DISTINCTBY" \notin WctrlFlags))
          /\ revMask' = IF p.isOrdered /\ "DISTINCTBY" \notin WctrlFlags
                        THEN p.revLoop ELSE revMask
          /\ UNCHANGED rc
  /\ UNCHANGED <<rRun, nQueryLoop, pass, nRowEst, rSortCost, mxCost, iLoop,
                 ii, wl, aFrom, aTo>>

\* sqlite4WhereBegin around the solver (lines 5934-5938): a first call with
\* nRowEst==0, then, when there is an ORDER BY, a second call priced for
\* sorting nRowOut+1 rows; after that, planning is over.  The return code
\* of the first call is not tested: an error only surfaces via nErr.
WhereBegin ==
  /\ pc \in {"begin", "return"}
  /\ CASE pass = 0 -> pass' = 1 /\ SolverInit(0)
       [] pass = 1 /\ hasOrderBy -> pass' = 2 /\ SolverInit(U16(nRowOut + 1))
       [] OTHER -> pc' = "done" /\ UNCHANGED <<pass, nRowEst, rSortCost,
                                     mxCost, iLoop, ii, wl, aFrom, aTo>>
  /\ UNCHANGED <<rRun, nQueryLoop, rc, plan, nRowOut, bOBSat, revMask>>

\* The WhereInfo is allocated zeroed (sqlite4DbMallocZero).
Init ==
  /\ rRun \in RunChoices
  /\ nQueryLoop \in NQueryLoopChoices
  /\ pass = 0 /\ pc = "begin"
  /\ rc = "ok" /\ plan = << >> /\ nRowOut = 0
  /\ bOBSat = FALSE /\ revMask = {}
  /\ nRowEst = 0 /\ rSortCost = 0 /\ mxCost = 0
  /\ iLoop = 0 /\ ii = 1 /\ wl = 1 /\ aFrom = << >> /\ aTo = << >>

\* Once sqlite4WhereBegin has its plan, nothing in planning changes.
Done == pc = "done" /\ UNCHANGED vars

Next == Candidate \/ NextGeneration \/ Finish \/ WhereBegin \/ Done

\* Planning is one sequential computation: until sqlite4WhereBegin has
\* its plan, its next statement runs.  Next is enabled in every state
\* before "done" (checked: no deadlock), so this is weak fairness of Next.
Spec == Init /\ [][Next]_vars /\ ([]<><<Next>>_vars \/ <>(pc = "done"))
=============================================================================
