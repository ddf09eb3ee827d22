----------------------------- MODULE LikePrefix -----------------------------
(***************************************************************************)
(* The LIKE and GLOB optimisation of src/src/where.c as pure operators:   *)
(* isLikeOrGlob finds the literal prefix of the pattern and whether the    *)
(* pattern is that prefix followed by one multi-character wildcard, and   *)
(* exprAnalyze turns the prefix into the upper bound of the range by      *)
(* incrementing its last byte.                                             *)
(*                                                                         *)
(* A string is the sequence of its bytes, 1..255, without the terminating *)
(* zero.  The function is "like" (the built-in, case-insensitive), "like_ *)
(* cs" (PRAGMA case_sensitive_like), "glob", or "none" for any other       *)
(* function; the operand on the left is a TEXT column of an ordinary      *)
(* table (left) or anything else.                                          *)
(***************************************************************************)
EXTENDS Integers, Sequences, SequencesExt

\* sqlite4IsLikeFunction: wc[] = {matchAll, matchOne, matchSet} and the
\* case folding of the function ('%' '_' for LIKE, '*' '?' '[' for GLOB;
\* LIKE has no set, and 0 never occurs inside a string).
LikeFunction(fn) ==
  CASE fn = "like"    -> [wc |-> <<37, 95, 0>>, noCase |-> TRUE]
    [] fn = "like_cs" -> [wc |-> <<37, 95, 0>>, noCase |-> FALSE]
    [] fn = "glob"    -> [wc |-> <<42, 63, 91>>, noCase |-> FALSE]
    [] fn = "none"    -> [wc |-> <<0, 0, 0>>, noCase |-> FALSE]

\* sqlite4UpperToLower[]: ASCII case folding.
UpperToLower(c) == IF c \in 65..90 THEN c + 32 ELSE c

\* Lines 1227-1230: cnt counts the bytes before the first wildcard.
RECURSIVE PrefixLen(_, _, _)
PrefixLen(z, wc, cnt) ==
  IF cnt < Len(z) /\ z[cnt + 1] \notin {wc[1], wc[2], wc[3]}
  THEN PrefixLen(z, wc, cnt + 1) ELSE cnt

\* isLikeOrGlob without the check that the prefix does not end in 0xFF.
IsLikeOrGlobNo255(fn, left, z) ==
  LET f   == LikeFunction(fn)
      cnt == PrefixLen(z, f.wc, 0)
  IN  [ok       |-> fn # "none" /\ left /\ cnt # 0,
       prefix   |-> SubSeq(z, 1, cnt),
       complete |-> cnt + 1 = Len(z) /\ z[cnt + 1] = f.wc[1],
       noCase   |-> f.noCase]

\* isLikeOrGlob (lines 1174-1271) on the pattern z of a TK_STRING or of
\* the bound TEXT value of a TK_VARIABLE: the rewrite applies when the
\* function is LIKE or GLOB, the left operand a TEXT column of an
\* ordinary table, and the prefix non-empty and not ending in 0xFF; the
\* pattern is complete when the first wildcard is matchAll and the last
\* byte.  The prefix expression is z cut at cnt.
IsLikeOrGlob(fn, left, z) ==
  LET f   == LikeFunction(fn)
      cnt == PrefixLen(z, f.wc, 0)
  IN  [ok       |-> fn # "none" /\ left /\ cnt # 0 /\ z[cnt] # 255,
       prefix   |-> SubSeq(z, 1, cnt),
       complete |-> cnt + 1 = Len(z) /\ z[cnt + 1] = f.wc[1],
       noCase   |-> f.noCase]

\* Lines 1803-1821: pStr2 is pStr1 with its last byte c, folded to lower
\* case under noCase, replaced by the u8 c+1; a zero there ends the string.
LikeUpper(lg) ==
  LET c  == IF lg.noCase THEN UpperToLower(Last(lg.prefix)) ELSE Last(lg.prefix)
      c1 == (c + 1) % 256
  IN  IF c1 = 0 THEN Front(lg.prefix)
      ELSE [lg.prefix EXCEPT ![Len(lg.prefix)] = c1]

\* The completeness test without the '@' case of line 1815.
LikeCompleteAnyByte(lg) == lg.complete

\* Line 1815: under noCase, incrementing '@' ('A'-1) gives 'A', which the
\* NOCASE collation folds to 'a', so the range is no longer exact and the
\* LIKE must stay: isComplete is cleared.
LikeComplete(lg) == lg.complete /\ ~(lg.noCase /\ Last(lg.prefix) = 64)

\* Lines 1822-1823: the collation of both range terms.
LikeColl(lg) == IF lg.noCase THEN "NOCASE" ELSE "BINARY"
=============================================================================
