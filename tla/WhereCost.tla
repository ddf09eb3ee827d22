----------------------------- MODULE WhereCost -----------------------------
(***************************************************************************)
(* Log-space cost arithmetic of the query planner (src/src/where.c).       *)
(*                                                                         *)
(* A WhereCost is an unsigned 16-bit integer approximating 10*log2(x).     *)
(* Every operator below is a translation of one C function; arithmetic    *)
(* that the C code performs in a WhereCost (u16) result is reduced modulo  *)
(* 2^16 with U16, because the C conversion to "unsigned short" wraps.      *)
(***************************************************************************)
EXTENDS Integers, Sequences

\* typedef unsigned short int WhereCost
CostWidth == 16
U16(n) == n % (2^CostWidth)

\* Static table x[] of whereCostAdd: the increment added to the larger
\* operand, indexed by the difference of the operands (0..31).
CostAddTable ==
  << 10, 10, 9, 9, 8, 8, 7, 7, 7, 6, 6, 6, 5, 5, 5,
     4, 4, 4, 4, 3, 3, 3, 3, 3, 3, 2, 2, 2, 2, 2, 2, 2 >>

\* whereCostAdd(a,b): approximate sum of two log-space costs.  The C code
\* has one branch for a>=b and a mirror branch for b>a; both are the
\* expression below with hi the larger and lo the smaller operand.
WhereCostAdd(a, b) ==
  LET hi == IF a >= b THEN a ELSE b
      lo == IF a >= b THEN b ELSE a
  IN  U16(IF hi > lo + 49 THEN hi
          ELSE IF hi > lo + 31 THEN hi + 1
          ELSE hi + CostAddTable[hi - lo + 1])

\* Static table a[] of whereCost, indexed by the low three bits.
CostFracTable == << 0, 2, 3, 5, 6, 7, 8, 9 >>

\* whereCost(x): convert a row count into 10*log2(x).
RECURSIVE ScaleUpSmall(_, _), ShiftBy4(_, _), ShiftBy1(_, _)
\* while( x<8 ){ y -= 10; x <<= 1; }
ScaleUpSmall(x, y) == IF x < 8 THEN ScaleUpSmall(2 * x, y - 10) ELSE <<x, y>>
\* while( x>255 ){ y += 40; x >>= 4; }
ShiftBy4(x, y) == IF x > 255 THEN ShiftBy4(x \div 16, y + 40) ELSE <<x, y>>
\* while( x>15 ){ y += 10; x >>= 1; }
ShiftBy1(x, y) == IF x > 15 THEN ShiftBy1(x \div 2, y + 10) ELSE <<x, y>>

WhereCost(x) ==
  IF x < 2 THEN 0
  ELSE LET xy == IF x < 8 THEN ScaleUpSmall(x, 40)
                 ELSE LET s4 == ShiftBy4(x, 40) IN ShiftBy1(s4[1], s4[2])
       IN  CostFracTable[(xy[1] % 8) + 1] + xy[2] - 10

\* estLog(N): estimate of log2 of a value already in log-space.
EstLog(n) == LET x == WhereCost(n) IN IF x > 33 THEN x - 33 ELSE 0

\* whereCostToInt(x): convert a WhereCost back to a row count (rough).
WhereCostToInt(c) ==
  IF c < 10 THEN 1
  ELSE LET n0 == c % 10
           e  == c \div 10
           n  == IF n0 >= 5 THEN n0 - 2 ELSE IF n0 >= 1 THEN n0 - 1 ELSE n0
       IN  IF e >= 3 THEN (n + 8) * 2^(e - 3) ELSE (n + 8) \div 2^(3 - e)
=============================================================================
