--------------------------------- MODULE Glob ---------------------------------
(***************************************************************************)
(* glob_match of gcc16-proveout/probes/10_matcher_spike.cpp: two pointers  *)
(* and one place to come back to, one step per iteration of its loops. An  *)
(* index one past the end reads the terminator.                            *)
(***************************************************************************)
EXTENDS GlobPattern

CONSTANTS
  Patterns,  \* the patterns
  Subjects   \* the names: identifiers, which hold no * themselves

\* "end" stands for the terminator, which no string holds.
ASSUME StringsAreTerminated ==
  \A x \in Patterns \cup Subjects :
    Len(x) \in Nat /\ \A i \in 1 .. Len(x) : SubSeq(x, i, i) # "end"

ASSUME NamesHoldNoStar == \A x \in Subjects : \A i \in 1 .. Len(x) : SubSeq(x, i, i) # "*"

VARIABLES
  pat, str,  \* the arguments
  p, s,      \* pat and s of the code
  star, ss,  \* the last star, 0 for the null pointer, and where s was then
  answer     \* "none" until the function returns

globVars == <<pat, str, p, s, star, ss, answer>>

GlobInit ==
  /\ pat \in Patterns /\ str \in Subjects
  /\ p = 1 /\ s = 1 /\ star = 0 /\ ss = 0
  /\ answer = "none"

InLoop == answer = "none" /\ s <= Len(str)

Literal == CharAt(pat, p) = "?" \/ CharAt(pat, p) = CharAt(str, s)
Star    == CharAt(pat, p) = "*"

Advance ==
  /\ InLoop /\ Literal
  /\ p' = p + 1 /\ s' = s + 1
  /\ UNCHANGED <<pat, str, star, ss, answer>>

\* Fault: a star takes at least one character.
RememberLater ==
  /\ InLoop /\ ~Literal /\ Star
  /\ star' = p /\ p' = p + 1 /\ s' = s + 1 /\ ss' = s + 1
  /\ UNCHANGED <<pat, str, answer>>

Remember ==
  /\ InLoop /\ ~Literal /\ Star
  /\ star' = p /\ p' = p + 1 /\ ss' = s
  /\ UNCHANGED <<pat, str, s, answer>>

\* Fault: the place to come back to is not moved.
BacktrackInPlace ==
  /\ InLoop /\ ~Literal /\ ~Star /\ star # 0
  /\ p' = star + 1 /\ s' = ss + 1
  /\ UNCHANGED <<pat, str, star, ss, answer>>

Backtrack ==
  /\ InLoop /\ ~Literal /\ ~Star /\ star # 0
  /\ p' = star + 1 /\ ss' = ss + 1 /\ s' = ss'
  /\ UNCHANGED <<pat, str, star, answer>>

Reject ==
  /\ InLoop /\ ~Literal /\ ~Star /\ star = 0
  /\ answer' = "no"
  /\ UNCHANGED <<pat, str, p, s, star, ss>>

SkipStar ==
  /\ answer = "none" /\ s > Len(str) /\ Star
  /\ p' = p + 1
  /\ UNCHANGED <<pat, str, s, star, ss, answer>>

Return ==
  /\ answer = "none" /\ s > Len(str) /\ ~Star
  /\ answer' = IF p > Len(pat) THEN "yes" ELSE "no"
  /\ UNCHANGED <<pat, str, p, s, star, ss>>

GlobNext == Advance \/ Remember \/ Backtrack \/ Reject \/ SkipStar \/ Return

GlobSpec == GlobInit /\ [][GlobNext]_globVars

-----------------------------------------------------------------------------
(* glob_match reads neither string past its terminator, and comes back to  *)
(* a place inside the pattern and no later than where it is in the name.   *)
GlobInBounds ==
  /\ p \in 1 .. Len(pat) + 1 /\ s \in 1 .. Len(str) + 1
  /\ star \in 0 .. Len(pat)
  /\ star # 0 => ss \in 1 .. s

(* Coming back to the last star only is enough: glob_match says yes to     *)
(* exactly the names that the pattern stands for.                          *)
GlobIsReference ==
  answer # "none" => (answer = "yes") = Matches(pat, str)

(* The loop ends, however often it comes back.                             *)
GlobEnds == answer = "none" ~> answer # "none"
=============================================================================
