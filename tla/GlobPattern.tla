----------------------------- MODULE GlobPattern -----------------------------
(***************************************************************************)
(* What a glob means: * stands for any characters, ? for one, and every    *)
(* other character for itself. Names and patterns are strings; they are    *)
(* read one character at a time with SubSeq.                               *)
(***************************************************************************)
EXTENDS Integers, Sequences

CharAt(x, i) == IF i <= Len(x) THEN SubSeq(x, i, i) ELSE "end"

\* The places of str from which the pattern from i on fits, those it fits from i + 1 on known.
Extended(pat, str, i, next) ==
  IF CharAt(pat, i) = "*" THEN {j \in 1 .. Len(str) + 1 : \E k \in next : j <= k}
  ELSE {j \in 1 .. Len(str) : j + 1 \in next /\ CharAt(pat, i) \in {"?", CharAt(str, j)}}

Fits(pat, str) ==
  LET from[i \in 1 .. Len(pat) + 1] ==
        IF i > Len(pat) THEN {Len(str) + 1} ELSE Extended(pat, str, i, from[i + 1])
  IN  from

Matches(pat, str) == 1 \in Fits(pat, str)[1]
=============================================================================
