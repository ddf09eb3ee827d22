----------------------------- MODULE RowEstimate ----------------------------
(***************************************************************************)
(* The row estimates of src/src/where.c (SQLITE4_ENABLE_STAT3) as pure     *)
(* operators.  An index's statistics are a record [n, avgEq, aSample]:     *)
(* aiRowEst[0], the average repeat count of a key that is not a sample,   *)
(* and the samples in key order, each [key, nLt, nEq] (rows below the     *)
(* key, rows equal to it).  A key is a natural number: the index key      *)
(* encoding preserves order and memcmp-then-length compares it, so the    *)
(* scan of lines 2531-2542 only ever asks "less, equal or greater".  A    *)
(* bound or a value that valueFromExpr cannot turn into a key (not a      *)
(* literal or bound parameter: an empty buffer) is NoValue.               *)
(***************************************************************************)
EXTENDS Integers, Sequences, WhereCost

NoValue == -1

\* A range bound of whereRangeScanEst: pLower/pUpper, or no term.
NoBound == [op |-> "none", v |-> NoValue, vnull |-> FALSE]

\* The scan of whereKeyStats with res<0 for res<=0: an equal sample is
\* passed over.
FirstSampleGT(s, v, i) ==
  IF \E j \in i..Len(s) : s[j].key > v
  THEN CHOOSE j \in i..Len(s) : s[j].key > v /\ \A k \in i..(j - 1) : s[k].key <= v
  ELSE Len(s) + 1

\* Lines 2531-2542: the first sample whose key is >= v, Len+1 if none.
RECURSIVE FirstSampleGE(_, _, _)
FirstSampleGE(s, v, i) ==
  IF i <= Len(s) /\ s[i].key < v THEN FirstSampleGE(s, v, i + 1) ELSE i

\* whereKeyStats (lines 2508-2575): <<aStat[0], aStat[1]>>, the estimated
\* rows less than and equal to v.  Off the samples, the rows below v are
\* put a third (roundUp: two thirds) into the gap between the samples
\* around it, and the rows equal to it are avgEq.
KeyStats(ix, v, roundUp) ==
  LET s      == ix.aSample
      i      == FirstSampleGE(s, v, 1)
      iLower == IF i = 1 THEN 0 ELSE s[i - 1].nEq + s[i - 1].nLt
      iUpper == IF i = 1 THEN s[1].nLt ELSE IF i > Len(s) THEN ix.n ELSE s[i].nLt
      iGap   == IF iLower >= iUpper THEN 0 ELSE iUpper - iLower
  IN  IF i <= Len(s) /\ s[i].key = v THEN <<s[i].nLt, s[i].nEq>>
      ELSE <<iLower + (IF roundUp THEN (iGap * 2) \div 3 ELSE iGap \div 3), ix.avgEq>>

\* The divisor with the rows equal to v skipped for x>=v instead of x>v.
Stat3RangeDivGeSkips(ix, lower, upper) ==
  LET a  == KeyStats(ix, lower.v, FALSE)
      b  == KeyStats(ix, upper.v, TRUE)
      lo == IF lower.op # "none" /\ lower.v # NoValue
            THEN a[1] + (IF lower.op = "GE" THEN a[2] ELSE 0) ELSE 0
      hi == IF upper.op # "none" /\ upper.v # NoValue
            THEN b[1] + (IF upper.op = "LE" THEN b[2] ELSE 0) ELSE ix.n
  IN  IF hi > lo THEN U16(WhereCost(ix.n) - WhereCost(hi - lo)) ELSE WhereCost(ix.n)

\* Lines 2702-2744: iLower and iUpper from the samples (x>v also skips
\* the rows equal to v, x<=v also takes them), and the divisor whereCost(n)
\* less whereCost(iUpper-iLower), in a WhereCost.
Stat3RangeDiv(ix, lower, upper) ==
  LET a  == KeyStats(ix, lower.v, FALSE)
      b  == KeyStats(ix, upper.v, TRUE)
      lo == IF lower.op # "none" /\ lower.v # NoValue
            THEN a[1] + (IF lower.op = "GT" THEN a[2] ELSE 0) ELSE 0
      hi == IF upper.op # "none" /\ upper.v # NoValue
            THEN b[1] + (IF upper.op = "LE" THEN b[2] ELSE 0) ELSE ix.n
  IN  IF hi > lo THEN U16(WhereCost(ix.n) - WhereCost(hi - lo)) ELSE WhereCost(ix.n)

\* whereRangeScanEst (lines 2686-2761): the STAT3 estimate for a range on
\* the first column of an index with samples, else 20 (a factor of 4) for
\* each bound, an x>NULL lower bound (TERM_VNULL) not counting.
RangeScanEst(ix, nEq, stat3, lower, upper) ==
  IF nEq = 0 /\ Len(ix.aSample) > 0 /\ stat3
  THEN Stat3RangeDiv(ix, lower, upper)
  ELSE (IF lower.op # "none" /\ ~lower.vnull THEN 20 ELSE 0)
       + (IF upper.op # "none" THEN 20 ELSE 0)

\* whereEqualScanEst (lines 2781-2819): rc and aStat[1] for the value (the
\* NULL of x IS NULL encodes as the least key); SQLITE4_NOTFOUND, *pnRow
\* unchanged, when the value is no key.
EqualScanEst(ix, v) ==
  IF v = NoValue THEN [ok |-> FALSE, nRow |-> 0]
  ELSE [ok |-> TRUE, nRow |-> KeyStats(ix, v, FALSE)[2]]

\* whereInScanEst (lines 2839-2862): the sum of the equality estimates of
\* the list, capped at n; a value that is no key stops the loop and the
\* error leaves *pnRow unchanged.
\* The loop without its last value.
InScanSumShort(ix, list, k, sum) ==
  LET RECURSIVE L(_, _) L(j, t) == IF j >= Len(list) THEN [ok |-> TRUE, nRow |-> t]
                                   ELSE IF ~EqualScanEst(ix, list[j]).ok THEN [ok |-> FALSE, nRow |-> 0]
                                   ELSE L(j + 1, t + EqualScanEst(ix, list[j]).nRow)
  IN  L(k, sum)
RECURSIVE InScanSum(_, _, _, _)
InScanSum(ix, list, k, sum) ==
  IF k > Len(list) THEN [ok |-> TRUE, nRow |-> sum]
  ELSE IF ~EqualScanEst(ix, list[k]).ok THEN [ok |-> FALSE, nRow |-> 0]
  ELSE InScanSum(ix, list, k + 1, sum + EqualScanEst(ix, list[k]).nRow)
InScanEst(ix, list) ==
  LET r == InScanSum(ix, list, 1, 0)
  IN  IF r.ok /\ r.nRow > ix.n THEN [r EXCEPT !.nRow = ix.n] ELSE r
=============================================================================
