---------------------------- MODULE MatchingProofs ----------------------------
(***************************************************************************)
(* The sessions of MCMatching, for all their inputs. glob_match stays      *)
(* inside its two strings, though its loop tests only one of them for its  *)
(* end, and decides the pattern's meaning: the one star it can come back   *)
(* to is enough. However often it comes back, it gets further. The         *)
(* comparison of two surfaces leaves artifacts that back its verdict, and  *)
(* that is the verdict on what Python finds.                               *)
(***************************************************************************)
EXTENDS Glob, SurfaceDiff, Induction, SequenceTheorems

InBounds ==
  /\ pat \in Patterns /\ str \in Subjects
  /\ GlobInBounds

(* A literal or a star at the end of the pattern is never found: the       *)
(* terminator is neither, so the pointer into the pattern can move on.     *)
LEMMA InsidePattern ==
  ASSUME InBounds, InLoop, Literal \/ Star
  PROVE  p \in 1 .. Len(pat)
<1>1. Len(pat) \in Nat /\ Len(str) \in Nat
  BY StringsAreTerminated DEF InBounds
<1>2. SUFFICES ASSUME p = Len(pat) + 1
               PROVE  FALSE
  BY <1>1 DEF InBounds, GlobInBounds
<1>3. CharAt(pat, p) = "end"
  BY <1>1, <1>2 DEF CharAt
<1>4. s \in 1 .. Len(str) /\ CharAt(str, s) # "end"
  BY <1>1, StringsAreTerminated DEF InBounds, GlobInBounds, InLoop, CharAt
<1> QED
  BY <1>3, <1>4 DEF Literal, Star

(* Each step of the two loops keeps both pointers and the place to come    *)
(* back to inside the strings.                                             *)
LEMMA StepStaysInBounds ==
  ASSUME InBounds, [GlobNext]_globVars
  PROVE  InBounds'
<1>1. Len(pat) \in Nat /\ Len(str) \in Nat
  BY StringsAreTerminated DEF InBounds
<1>2. CASE Advance
  <2>1. p \in 1 .. Len(pat)
    BY <1>2, InsidePattern DEF Advance
  <2>2. s \in 1 .. Len(str)
    BY <1>1, <1>2 DEF Advance, InLoop, InBounds, GlobInBounds
  <2> QED
    BY <1>1, <1>2, <2>1, <2>2 DEF Advance, InBounds, GlobInBounds
<1>3. CASE Remember
  <2>1. p \in 1 .. Len(pat)
    BY <1>3, InsidePattern DEF Remember
  <2> QED
    BY <1>1, <1>3, <2>1 DEF Remember, InBounds, GlobInBounds
<1>4. CASE Backtrack
  <2>1. s \in 1 .. Len(str) /\ ss \in 1 .. s /\ star \in 1 .. Len(pat)
    BY <1>1, <1>4 DEF Backtrack, InLoop, InBounds, GlobInBounds
  <2> QED
    BY <1>1, <1>4, <2>1 DEF Backtrack, InBounds, GlobInBounds
<1>5. CASE SkipStar
  <2>1. p \in 1 .. Len(pat)
    BY <1>1, <1>5 DEF SkipStar, Star, CharAt, InBounds, GlobInBounds
  <2> QED
    BY <1>1, <1>5, <2>1 DEF SkipStar, InBounds, GlobInBounds
<1>6. CASE Reject \/ Return \/ UNCHANGED globVars
  BY <1>6 DEF Reject, Return, globVars, InBounds, GlobInBounds
<1> QED
  BY <1>2, <1>3, <1>4, <1>5, <1>6 DEF GlobNext

(* glob_match of probe 10 never reads past either terminator, whatever the *)
(* pattern and the name.                                                   *)
THEOREM GlobStaysInBounds == GlobSpec => []GlobInBounds
<1>1. GlobInit => InBounds
  BY StringsAreTerminated DEF GlobInit, InBounds, GlobInBounds
<1>2. InBounds /\ [GlobNext]_globVars => InBounds'
  BY StepStaysInBounds
<1>3. InBounds => GlobInBounds
  BY DEF InBounds
<1> QED
  BY <1>1, <1>2, <1>3, PTL DEF GlobSpec

-----------------------------------------------------------------------------
(* A step moves the last star on; or it keeps that and moves on the place  *)
(* to come back to; or it keeps both and moves on in the pattern. All      *)
(* three are bounded by the strings (GlobInBounds).                        *)
GetsFurther ==
  \/ star' > star
  \/ star' = star /\ ss' > ss
  \/ star' = star /\ ss' = ss /\ p' > p

(* While the loop runs it gets further, and once answered it is at rest    *)
(* (10_matcher_spike.cpp:49-60).                                           *)
GlobGetsFurther ==
  [][IF answer' = "none" THEN GetsFurther ELSE answer = "none" /\ UNCHANGED <<star, ss, p>>]_globVars

(* The last star is behind the place in the pattern, so the next is a      *)
(* later one.                                                              *)
StarBehind == InBounds /\ star < p /\ ss \in 0 .. Len(str) + 1

LEMMA StarStaysBehind ==
  ASSUME StarBehind, [GlobNext]_globVars
  PROVE  StarBehind'
<1>1. InBounds'
  BY StepStaysInBounds DEF StarBehind
<1>2. star \in Nat /\ p \in Nat /\ s \in Nat /\ ss \in Nat /\ Len(str) \in Nat /\ star < p
  BY StringsAreTerminated DEF StarBehind, InBounds, GlobInBounds
<1>3. CASE Advance \/ SkipStar
  BY <1>1, <1>2, <1>3 DEF Advance, SkipStar, StarBehind
<1>4. CASE Remember
  BY <1>1, <1>2, <1>4 DEF Remember, InLoop, StarBehind
<1>5. CASE Backtrack
  <2>1. ss <= s /\ s <= Len(str)
    BY <1>2, <1>5 DEF Backtrack, InLoop, StarBehind, InBounds, GlobInBounds
  <2> QED
    BY <1>1, <1>2, <1>5, <2>1 DEF Backtrack, StarBehind
<1>6. CASE Reject \/ Return \/ UNCHANGED globVars
  BY <1>1, <1>6 DEF Reject, Return, globVars, StarBehind
<1> QED
  BY <1>3, <1>4, <1>5, <1>6 DEF GlobNext

LEMMA StepGetsFurther ==
  ASSUME StarBehind, GlobNext
  PROVE  IF answer' = "none" THEN GetsFurther ELSE answer = "none" /\ UNCHANGED <<star, ss, p>>
<1>1. star \in Nat /\ p \in Nat /\ ss \in Nat /\ star < p
  BY DEF StarBehind, InBounds, GlobInBounds
<1>2. CASE Advance
  BY <1>1, <1>2 DEF Advance, InLoop, GetsFurther
<1>3. CASE Remember
  BY <1>1, <1>3 DEF Remember, InLoop, GetsFurther
<1>4. CASE Backtrack
  BY <1>1, <1>4 DEF Backtrack, InLoop, GetsFurther
<1>5. CASE SkipStar
  BY <1>1, <1>5 DEF SkipStar, GetsFurther
<1>6. CASE Reject \/ Return
  <2>1. answer' # "none" /\ answer = "none" /\ star' = star /\ ss' = ss /\ p' = p
    BY <1>6 DEF Reject, InLoop, Return
  <2> QED
    BY <2>1
<1> QED
  BY <1>2, <1>3, <1>4, <1>5, <1>6 DEF GlobNext

(* However often glob_match comes back to a star, it never stands twice at *)
(* the same star, place to come back to and place in the pattern, and of   *)
(* these there are finitely many: the safety half of GlobEnds              *)
(* (glob_match 10_matcher_spike.cpp:49-60).                                *)
THEOREM GlobGetsFurtherHolds ==
  GlobSpec => [](GlobInBounds /\ ss \in 0 .. Len(str) + 1) /\ GlobGetsFurther
<1>1. GlobInit => StarBehind
  BY StringsAreTerminated DEF GlobInit, StarBehind, InBounds, GlobInBounds
<1>2. StarBehind /\ [GlobNext]_globVars => StarBehind'
  BY StarStaysBehind
<1>3. StarBehind => GlobInBounds /\ ss \in 0 .. Len(str) + 1
  BY DEF StarBehind, InBounds
<1>4. StarBehind /\ GlobNext =>
        IF answer' = "none" THEN GetsFurther ELSE answer = "none" /\ UNCHANGED <<star, ss, p>>
  BY StepGetsFurther
<1> QED
  BY <1>1, <1>2, <1>3, <1>4, PTL DEF GlobSpec, GlobGetsFurther

-----------------------------------------------------------------------------
(* The definition of Fits is a recursive one; these lemmas show that there *)
(* is a function that satisfies its equation, so that Fits does.           *)
FitsFrom(x, y, i, f) ==
  IF i > Len(x) THEN {Len(y) + 1} ELSE Extended(x, y, i, f[i + 1])

IsFits(x, y, f) == f = [i \in 1 .. Len(x) + 1 |-> FitsFrom(x, y, i, f)]

LEMMA FitsExists ==
  ASSUME NEW x, NEW y, Len(x) \in Nat
  PROVE  \E f : IsFits(x, y, f)
<1> DEFINE n == Len(x)
           Partial(k, f) == /\ f = [i \in n + 1 - k .. n + 1 |-> f[i]]
                            /\ \A i \in n + 1 - k .. n + 1 : f[i] = FitsFrom(x, y, i, f)
           S == {k \in Nat : k <= n => \E f : Partial(k, f)}
<1>1. 0 \in S
  <2> DEFINE f == [i \in n + 1 - 0 .. n + 1 |-> {Len(y) + 1}]
  <2>1. Partial(0, f)
    BY DEF FitsFrom
  <2> QED BY <2>1
<1>2. ASSUME NEW k \in Nat, k \in S
      PROVE  k + 1 \in S
  <2>1. SUFFICES ASSUME k + 1 <= n
                 PROVE  \E g : Partial(k + 1, g)
    OBVIOUS
  <2>2. PICK f : Partial(k, f)
    BY <1>2, <2>1
  <2> DEFINE g == [i \in n + 1 - (k + 1) .. n + 1 |->
                     IF i = n - k THEN Extended(x, y, i, f[i + 1]) ELSE f[i]]
  <2>3. ASSUME NEW i \in n + 1 - (k + 1) .. n + 1
        PROVE  g[i] = FitsFrom(x, y, i, g)
    <3>1. CASE i = n - k
      <4>1. i + 1 \in n + 1 - (k + 1) .. n + 1 /\ i + 1 # n - k /\ ~ (i > n)
        BY <2>1, <3>1
      <4>2. g[i + 1] = f[i + 1] /\ g[i] = Extended(x, y, i, f[i + 1])
        BY <3>1, <4>1
      <4> QED BY <4>1, <4>2 DEF FitsFrom
    <3>2. CASE i # n - k
      <4>1. i \in n + 1 - k .. n + 1
        BY <2>1, <3>2
      <4>2. g[i] = f[i] /\ f[i] = FitsFrom(x, y, i, f)
        BY <2>2, <3>2, <4>1
      <4>3. ~ (i > n) => i + 1 \in n + 1 - (k + 1) .. n + 1 /\ i + 1 # n - k
        BY <4>1
      <4>4. ~ (i > n) => g[i + 1] = f[i + 1]
        BY <4>3
      <4> QED BY <4>2, <4>4 DEF FitsFrom
    <3> QED BY <3>1, <3>2
  <2>4. g = [i \in n + 1 - (k + 1) .. n + 1 |-> g[i]]
    OBVIOUS
  <2> HIDE DEF g
  <2> QED BY <2>3, <2>4
<1>3. n \in S
  <2> HIDE DEF S
  <2> QED BY <1>1, <1>2, SetInduction
<1>4. PICK f : Partial(n, f)
  BY <1>3
<1>5. n + 1 - n = 1
  OBVIOUS
<1>6. f = [i \in 1 .. n + 1 |-> FitsFrom(x, y, i, f)]
  BY <1>4, <1>5
<1> QED BY <1>6 DEF IsFits

LEMMA FitsEquation ==
  ASSUME NEW x, NEW y, Len(x) \in Nat
  PROVE  IsFits(x, y, Fits(x, y))
<1>1. PICK f : IsFits(x, y, f)
  BY FitsExists
<1> QED BY <1>1, Zenon DEF Fits, FitsFrom, IsFits

Fit(i, j) == j \in Fits(pat, str)[i]

(* The equation of Fits, case by case.                                     *)
LEMMA FitFacts ==
  ASSUME InBounds
  PROVE  /\ Len(pat) \in Nat /\ Len(str) \in Nat
         /\ \A j : Fit(Len(pat) + 1, j) <=> j = Len(str) + 1
         /\ \A j : \A i \in 1 .. Len(pat) :
              CharAt(pat, i) = "*" =>
                (Fit(i, j) <=> j \in 1 .. Len(str) + 1 /\ \E k : Fit(i + 1, k) /\ j <= k)
         /\ \A j : \A i \in 1 .. Len(pat) :
              CharAt(pat, i) # "*" =>
                (Fit(i, j) <=> /\ j \in 1 .. Len(str) /\ Fit(i + 1, j + 1)
                               /\ CharAt(pat, i) = "?" \/ CharAt(pat, i) = CharAt(str, j))
         /\ \A j : \A i \in 1 .. Len(pat) + 1 : Fit(i, j) => j \in 1 .. Len(str) + 1
<1>1. Len(pat) \in Nat /\ Len(str) \in Nat
  BY StringsAreTerminated DEF InBounds
<1>2. \A i \in 1 .. Len(pat) + 1 : Fits(pat, str)[i] = FitsFrom(pat, str, i, Fits(pat, str))
  BY <1>1, FitsEquation DEF IsFits
<1>3. \A j : Fit(Len(pat) + 1, j) <=> j = Len(str) + 1
  BY <1>1, <1>2 DEF Fit, FitsFrom
<1>4. \A i \in 1 .. Len(pat) : Fits(pat, str)[i] = Extended(pat, str, i, Fits(pat, str)[i + 1])
  BY <1>1, <1>2 DEF FitsFrom
<1>5. ASSUME NEW i \in 1 .. Len(pat), NEW j, CharAt(pat, i) = "*"
      PROVE  Fit(i, j) <=> j \in 1 .. Len(str) + 1 /\ \E k : Fit(i + 1, k) /\ j <= k
  BY <1>4, <1>5 DEF Fit, Extended
<1>6. ASSUME NEW i \in 1 .. Len(pat), NEW j, CharAt(pat, i) # "*"
      PROVE  Fit(i, j) <=> /\ j \in 1 .. Len(str) /\ Fit(i + 1, j + 1)
                           /\ CharAt(pat, i) = "?" \/ CharAt(pat, i) = CharAt(str, j)
  BY <1>4, <1>6 DEF Fit, Extended
<1>7. ASSUME NEW i \in 1 .. Len(pat) + 1, NEW j, Fit(i, j)
      PROVE  j \in 1 .. Len(str) + 1
  BY <1>1, <1>3, <1>5, <1>6, <1>7
<1> QED BY <1>1, <1>3, <1>5, <1>6, <1>7

(* What is left to decide. The pattern fits the name exactly when its rest *)
(* fits where the two pointers are, or when what follows the last star     *)
(* fits somewhere further on than where it was tried last; and wherever    *)
(* what follows that star fits, the rest of the pattern fits as far on as  *)
(* the two pointers have come since.                                       *)
Undecided ==
  Fit(1, 1) <=> \/ Fit(p, s)
                \/ star # 0 /\ \E k \in ss + 1 .. Len(str) + 1 : Fit(star + 1, k)

SameStride ==
  star # 0 => \A k \in ss .. Len(str) + 1 : Fit(star + 1, k) => Fit(p, k + (s - ss))

Decided == answer # "none" => (answer = "yes" <=> Fit(1, 1))

GlobInv == InBounds /\ Undecided /\ SameStride /\ Decided

LEMMA StepDecides ==
  ASSUME GlobInv, [GlobNext]_globVars
  PROVE  GlobInv'
<1> DEFINE n == Len(pat)
           m == Len(str)
<1>1. InBounds /\ InBounds'
  BY StepStaysInBounds DEF GlobInv
<1>2. /\ n \in Nat /\ m \in Nat /\ p \in 1 .. n + 1 /\ s \in 1 .. m + 1 /\ star \in 0 .. n
      /\ star # 0 => ss \in 1 .. s
  BY <1>1, FitFacts DEF InBounds, GlobInBounds
<1>3. \A j : \A i \in 1 .. n + 1 : Fit(i, j) => j \in 1 .. m + 1
  BY <1>1, FitFacts
<1>4. \A i \in 1 .. m : CharAt(str, i) # "*"
  BY <1>1, <1>2, NamesHoldNoStar DEF InBounds, CharAt
<1>5. CASE Advance
  <2>1. p \in 1 .. n /\ s \in 1 .. m /\ UNCHANGED <<pat, str, star, ss, answer>> /\ answer = "none"
    BY <1>1, <1>2, <1>5, InsidePattern DEF Advance, InLoop
  <2>2. CharAt(pat, p) # "*"
    BY <1>4, <1>5, <2>1 DEF Advance, Literal
  <2>3. \A j : Fit(p, j) => Fit(p + 1, j + 1)
    BY <1>1, <2>1, <2>2, FitFacts
  <2>4. Fit(p + 1, s + 1) => Fit(p, s)
    BY <1>1, <1>5, <2>1, <2>2, FitFacts DEF Advance, Literal
  <2>5. p' = p + 1 /\ s' = s + 1
    BY <1>5 DEF Advance
  <2>6. \A i, j : Fit(i, j)' <=> Fit(i, j)
    BY <2>1 DEF Fit
  <2>7. SameStride'
    BY <1>2, <2>1, <2>3, <2>5, <2>6 DEF SameStride, GlobInv
  <2>8. Undecided'
    BY <1>2, <2>1, <2>3, <2>4, <2>5, <2>6 DEF Undecided, GlobInv
  <2> QED BY <1>1, <2>1, <2>7, <2>8 DEF GlobInv, Decided
<1>6. CASE Remember
  <2>1. /\ p \in 1 .. n /\ s \in 1 .. m /\ UNCHANGED <<pat, str, s, answer>> /\ answer = "none"
        /\ p' = p + 1 /\ star' = p /\ ss' = s /\ CharAt(pat, p) = "*"
    BY <1>1, <1>2, <1>6, InsidePattern DEF Remember, InLoop, Star
  <2>2. Fit(p, s) <=> \E k \in s .. m + 1 : Fit(p + 1, k)
    <3>1. Fit(p, s) <=> \E k : Fit(p + 1, k) /\ s <= k
      BY <1>1, <1>2, <2>1, FitFacts
    <3>2. \A k : Fit(p + 1, k) => k \in 1 .. m + 1
      BY <1>2, <1>3, <2>1
    <3>3. \A k : Fit(p + 1, k) /\ s <= k <=> k \in s .. m + 1 /\ Fit(p + 1, k)
      BY <1>2, <3>2
    <3> QED BY <3>1, <3>3
  <2>3. \A j \in s .. m + 1 : Fit(p, j) => Fit(p, s)
    <3>1. SUFFICES ASSUME NEW j \in s .. m + 1, Fit(p, j)
                   PROVE  Fit(p, s)
      OBVIOUS
    <3>2. PICK k : Fit(p + 1, k) /\ j <= k
      BY <1>1, <2>1, <3>1, FitFacts
    <3>3. k \in s .. m + 1
      BY <1>2, <1>3, <2>1, <3>1, <3>2
    <3> QED BY <2>2, <3>2, <3>3
  <2>4. ASSUME star # 0, NEW k \in ss + 1 .. m + 1, Fit(star + 1, k)
        PROVE  Fit(p, s)
    <3>1. Fit(p, k + (s - ss))
      BY <1>2, <2>4 DEF GlobInv, SameStride
    <3>2. k + (s - ss) \in s .. m + 1
      BY <1>2, <1>3, <2>4, <3>1
    <3> QED BY <2>3, <3>1, <3>2
  <2>5. Fit(1, 1) <=> Fit(p, s)
    BY <2>4 DEF GlobInv, Undecided
  <2>6. \A i, j : Fit(i, j)' <=> Fit(i, j)
    BY <2>1 DEF Fit
  <2>7. SameStride'
    BY <1>2, <2>1, <2>6 DEF SameStride
  <2>8. Undecided'
    <3>1. Fit(p, s) <=> Fit(p + 1, s) \/ \E k \in s + 1 .. m + 1 : Fit(p + 1, k)
      BY <1>2, <2>1, <2>2
    <3> QED BY <1>2, <2>1, <2>5, <2>6, <3>1 DEF Undecided
  <2> QED BY <1>1, <2>1, <2>7, <2>8 DEF GlobInv, Decided
<1>7. CASE Backtrack \/ Reject
  <2>1. /\ s \in 1 .. m /\ UNCHANGED <<pat, str>> /\ answer = "none"
        /\ ~ Literal /\ CharAt(pat, p) # "*"
    BY <1>2, <1>7 DEF Backtrack, Reject, InLoop, Star
  <2>2. ~ Fit(p, s)
    <3>1. CASE p = n + 1
      BY <1>1, <1>2, <2>1, <3>1, FitFacts
    <3>2. CASE p \in 1 .. n
      BY <1>1, <2>1, <3>2, FitFacts DEF Literal
    <3> QED BY <1>2, <3>1, <3>2
  <2>3. \A i, j : Fit(i, j)' <=> Fit(i, j)
    BY <2>1 DEF Fit
  <2>4. CASE Backtrack
    <3>1. /\ star \in 1 .. n /\ ss \in 1 .. s /\ UNCHANGED <<star, answer>>
          /\ p' = star + 1 /\ ss' = ss + 1 /\ s' = ss + 1
      BY <1>2, <2>4 DEF Backtrack
    <3>2. Fit(1, 1) <=> \E k \in ss + 1 .. m + 1 : Fit(star + 1, k)
      BY <2>2, <3>1 DEF GlobInv, Undecided
    <3>3. Fit(1, 1) <=> \/ Fit(star + 1, ss + 1)
                        \/ \E k \in ss + 2 .. m + 1 : Fit(star + 1, k)
      BY <1>2, <2>1, <3>1, <3>2
    <3>4. Undecided'
      BY <1>2, <2>1, <2>3, <3>1, <3>3 DEF Undecided
    <3>5. SameStride'
      BY <1>2, <2>1, <2>3, <3>1 DEF SameStride
    <3> QED BY <1>1, <2>1, <3>1, <3>4, <3>5 DEF GlobInv, Decided
  <2>5. CASE Reject
    <3>1. star = 0 /\ answer' = "no" /\ UNCHANGED <<p, s, star, ss>>
      BY <2>5 DEF Reject
    <3>2. ~ Fit(1, 1)
      BY <2>2, <3>1 DEF GlobInv, Undecided
    <3> QED BY <1>1, <2>1, <2>3, <3>1, <3>2 DEF GlobInv, Undecided, SameStride, Decided
  <2> QED BY <1>7, <2>4, <2>5
<1>8. CASE SkipStar
  <2>1. /\ p \in 1 .. n /\ s = m + 1 /\ UNCHANGED <<pat, str, s, star, ss, answer>>
        /\ answer = "none" /\ p' = p + 1 /\ CharAt(pat, p) = "*"
    BY <1>1, <1>2, <1>8 DEF SkipStar, Star, CharAt
  <2>2. \A j \in m + 1 .. m + 1 : Fit(p, j) <=> Fit(p + 1, j)
    BY <1>1, <1>2, <1>3, <2>1, FitFacts
  <2>3. \A i, j : Fit(i, j)' <=> Fit(i, j)
    BY <2>1 DEF Fit
  <2>4. Undecided'
    BY <1>2, <2>1, <2>2, <2>3 DEF GlobInv, Undecided
  <2>5. ASSUME star # 0, NEW k \in ss .. m + 1, Fit(star + 1, k)
        PROVE  Fit(p + 1, k + (s - ss))
    <3>1. Fit(p, k + (s - ss))
      BY <1>2, <2>5 DEF GlobInv, SameStride
    <3>2. k + (s - ss) \in m + 1 .. m + 1
      BY <1>2, <1>3, <2>1, <2>5, <3>1
    <3> QED BY <2>2, <3>1, <3>2
  <2>6. SameStride'
    BY <2>1, <2>3, <2>5 DEF SameStride
  <2> QED BY <1>1, <2>1, <2>4, <2>6 DEF GlobInv, Decided
<1>9. CASE Return
  <2>1. /\ s = m + 1 /\ UNCHANGED <<pat, str, p, s, star, ss>> /\ CharAt(pat, p) # "*"
        /\ answer' = IF p > n THEN "yes" ELSE "no"
    BY <1>2, <1>9 DEF Return, Star
  <2>2. \A i, j : Fit(i, j)' <=> Fit(i, j)
    BY <2>1 DEF Fit
  <2>3. CASE p > n
    <3>1. p = n + 1 /\ Fit(p, s)
      BY <1>1, <1>2, <2>1, <2>3, FitFacts
    <3>2. Fit(1, 1)
      BY <3>1 DEF GlobInv, Undecided
    <3> QED BY <1>1, <2>1, <2>2, <2>3, <3>2 DEF GlobInv, Undecided, SameStride, Decided
  <2>4. CASE ~ (p > n)
    <3>1. ~ Fit(p, s)
      BY <1>1, <1>2, <2>1, <2>4, FitFacts
    <3>2. ASSUME star # 0, NEW k \in ss + 1 .. m + 1, Fit(star + 1, k)
          PROVE  FALSE
      <4>1. Fit(p, k + (s - ss))
        BY <1>2, <3>2 DEF GlobInv, SameStride
      <4>2. k + (s - ss) \in 1 .. m + 1
        BY <1>2, <1>3, <4>1
      <4>3. ss \in Int /\ k \in Int /\ k > ss /\ s \in Int
        BY <1>2, <3>2
      <4> QED BY <1>2, <2>1, <4>2, <4>3
    <3>3. ~ Fit(1, 1)
      BY <3>1, <3>2 DEF GlobInv, Undecided
    <3> QED BY <1>1, <2>1, <2>2, <2>4, <3>3 DEF GlobInv, Undecided, SameStride, Decided
  <2> QED BY <2>3, <2>4
<1>10. CASE UNCHANGED globVars
  BY <1>1, <1>10 DEF globVars, GlobInv, Undecided, SameStride, Decided, Fit
<1> QED BY <1>5, <1>6, <1>7, <1>8, <1>9, <1>10 DEF GlobNext

(* Coming back to the last star only is enough: when glob_match of probe   *)
(* 10 says yes, the pattern stands for the name, and when it says no, it   *)
(* does not, whatever the pattern and the name.                            *)
THEOREM GlobDecides == GlobSpec => []GlobIsReference
<1>1. GlobInit => GlobInv
  <2>1. ASSUME GlobInit
        PROVE  GlobInv
    <3>1. InBounds
      BY <2>1, StringsAreTerminated DEF GlobInit, InBounds, GlobInBounds
    <3> QED BY <2>1, <3>1 DEF GlobInit, GlobInv, Undecided, SameStride, Decided
  <2> QED BY <2>1
<1>2. GlobInv /\ [GlobNext]_globVars => GlobInv'
  BY StepDecides
<1>3. GlobInv => GlobIsReference
  <2>1. Matches(pat, str) \in BOOLEAN /\ (Matches(pat, str) <=> Fit(1, 1))
    BY DEF Matches, Fit
  <2>2. GlobInv => (answer # "none" => (answer = "yes" <=> Matches(pat, str)))
    BY <2>1 DEF GlobInv, Decided
  <2> QED BY <2>1, <2>2, Zenon DEF GlobIsReference
<1> QED
  BY <1>1, <1>2, <1>3, PTL DEF GlobSpec

-----------------------------------------------------------------------------
(* surface_diff.py compare: nothing is written before both lanes have been *)
(* dumped, and what is written is what was dumped.                         *)
Backed(l) == artifact[l] = <<"json", describe_module(dumped[l])>>

SurfaceInv ==
  /\ phase \in {"idle", "dump constexpr", "dump emit", "write constexpr", "write emit", "diff"}
  /\ DOMAIN artifact = Lanes /\ DOMAIN dumped = Lanes
  /\ phase \in {"dump constexpr", "dump emit"} => artifact = before
  /\ phase = "write emit" => Backed("constexpr")
  /\ phase = "diff" => \A l \in Lanes : Backed(l)
  /\ ArtifactsBackVerdict

LEMMA SurfaceNextInv == ASSUME SurfaceInv, [SurfaceNext]_surfaceVars PROVE SurfaceInv'
<1>1. CASE Compare
  BY <1>1 DEF Compare, SurfaceInv, ArtifactsBackVerdict, Finished
<1>2. CASE Exit
  BY <1>2 DEF Exit, SurfaceInv, ArtifactsBackVerdict, Finished, Backed
<1>3. CASE KillCompare
  <2>1. phase' = "idle" /\ status' = "killed" /\ dumped' = dumped
    BY <1>3 DEF KillCompare
  <2>2. DOMAIN artifact' = Lanes
    BY <1>3 DEF KillCompare, SurfaceInv
  <2> QED
    BY <2>1, <2>2 DEF SurfaceInv, ArtifactsBackVerdict, Finished
<1>4. ASSUME NEW l \in Lanes, Rebuild(l) PROVE SurfaceInv'
  BY <1>4 DEF Rebuild, SurfaceInv, ArtifactsBackVerdict, Finished, Backed
<1>5. ASSUME NEW l \in Lanes, Dumped(l) PROVE SurfaceInv'
  BY <1>5 DEF Dumped, DumpStep, Lanes, SurfaceInv, ArtifactsBackVerdict, Finished
<1>6. ASSUME NEW l \in Lanes, DumpFails(l) PROVE SurfaceInv'
  BY <1>6 DEF DumpFails, DumpStep, SurfaceInv, ArtifactsBackVerdict, Finished
<1>7. ASSUME NEW l \in Lanes, WriteArtifact(l) PROVE SurfaceInv'
  <2>1. /\ artifact' = [artifact EXCEPT ![l] = <<"json", describe_module(dumped[l])>>] /\ dumped' = dumped
        /\ phase = WriteStep(l) /\ phase' = IF l = "constexpr" THEN "write emit" ELSE "diff"
    BY <1>7 DEF WriteArtifact
  <2>2. Backed(l)' /\ DOMAIN artifact' = Lanes
    BY <2>1 DEF SurfaceInv, Backed
  <2>3. CASE l = "constexpr"
    BY <2>1, <2>2, <2>3 DEF SurfaceInv, ArtifactsBackVerdict, Finished, Backed
  <2>4. CASE l # "constexpr"
    <3>1. Backed("constexpr") /\ "constexpr" \in Lanes
      BY <2>1, <2>4 DEF SurfaceInv, WriteStep, Lanes
    <3>2. artifact'["constexpr"] = artifact["constexpr"]
      BY <2>1, <2>4, <3>1 DEF SurfaceInv
    <3>3. Backed("constexpr")'
      BY <2>1, <3>1, <3>2 DEF Backed
    <3>4. \A m \in Lanes : Backed(m)'
      BY <2>2, <2>4, <3>3 DEF Lanes
    <3> QED
      BY <2>1, <2>2, <2>4, <3>4 DEF SurfaceInv, ArtifactsBackVerdict, Finished
  <2> QED
    BY <2>3, <2>4
<1>8. CASE UNCHANGED surfaceVars
  BY <1>8 DEF surfaceVars, SurfaceInv, ArtifactsBackVerdict, Finished, Backed
<1> QED
  BY <1>1, <1>2, <1>3, <1>4, <1>5, <1>6, <1>7, <1>8 DEF SurfaceNext

(* ArtifactsBackVerdict, for all modules, whatever describes and compares  *)
(* them: the two artifacts on disk are those of the verdict, and a dump    *)
(* that failed left the ones that were there.                              *)
THEOREM ArtifactsBackVerdictHolds == SurfaceSpec => []ArtifactsBackVerdict
<1>1. SurfaceInit => SurfaceInv
  BY DEF SurfaceInit, SurfaceInv, ArtifactsBackVerdict, Finished
<1>2. SurfaceInv /\ [SurfaceNext]_surfaceVars => SurfaceInv'
  BY SurfaceNextInv
<1>3. SurfaceInv => ArtifactsBackVerdict
  BY DEF SurfaceInv
<1> QED
  BY <1>1, <1>2, <1>3, PTL DEF SurfaceSpec

-----------------------------------------------------------------------------
(* surface_diff.py: what describing keeps and diffing finds. A place in a  *)
(* description is that of a name, or of a key of its information, and the  *)
(* way to both is made of names and keys.                                  *)
Steps == STRING \cup JsonKeys

Paths == Seq(Steps) \ {<<>>}

LEMMA KeysAreSteps == JsonKeys \subseteq Steps /\ "attrs" \in Steps
BY DEF Steps, JsonKeys

LEMMA PlaceFacts ==
  ASSUME NEW path \in Paths
  PROVE  /\ Len(path) \in Nat /\ Len(path) >= 1
         /\ Place(path) \in Seq(Steps) /\ Len(Place(path)) = 2 * Len(path) - 1
         /\ \A j \in 1 .. Len(path) : Place(path)[2 * j - 1] = path[j]
         /\ \A j \in 1 .. Len(path) - 1 : Place(path)[2 * j] = "attrs"
<1> DEFINE n == Len(path)
<1>1. n \in Nat /\ n >= 1
  BY EmptySeq, LenProperties DEF Paths
<1>2. \A i \in 1 .. 2 * n - 1 : i % 2 = 1 => (i + 1) \div 2 \in 1 .. n
  BY <1>1
<1>3. Place(path) = [i \in 1 .. 2 * n - 1 |-> IF i % 2 = 1 THEN path[(i + 1) \div 2] ELSE "attrs"]
  BY DEF Place
<1>4. \A i \in 1 .. 2 * n - 1 : Place(path)[i] \in Steps
  <2>1. \A j \in 1 .. n : path[j] \in Steps
    BY ElementOfSeq DEF Paths
  <2> TAKE i \in 1 .. 2 * n - 1
  <2>2. CASE i % 2 = 1
    <3>1. path[(i + 1) \div 2] \in Steps
      BY <1>2, <2>1, <2>2
    <3> QED
      BY <1>3, <2>2, <3>1
  <2>3. CASE i % 2 # 1
    BY <1>3, <2>3, KeysAreSteps
  <2> QED
    BY <2>2, <2>3
<1>5. 2 * n - 1 \in Nat
  BY <1>1
<1>6. Place(path) \in Seq(Steps) /\ Len(Place(path)) = 2 * n - 1
  BY <1>3, <1>4, <1>5
<1>7. \A j \in 1 .. n : 2 * j - 1 \in 1 .. 2 * n - 1 /\ (2 * j - 1) % 2 = 1 /\ (2 * j - 1 + 1) \div 2 = j
  BY <1>1
<1>8. \A j \in 1 .. n - 1 : 2 * j \in 1 .. 2 * n - 1 /\ (2 * j) % 2 # 1
  BY <1>1
<1>9. \A j \in 1 .. n : Place(path)[2 * j - 1] = path[j]
  BY <1>3, <1>7
<1>10. \A j \in 1 .. n - 1 : Place(path)[2 * j] = "attrs"
  BY <1>3, <1>8
<1> QED
  BY <1>1, <1>6, <1>9, <1>10

(* What appending leaves and adds.                                         *)
LEMMA AppendFacts ==
  ASSUME NEW T, NEW q \in Seq(T), NEW e \in T
  PROVE  /\ Append(q, e) \in Seq(T) /\ Len(Append(q, e)) = Len(q) + 1
         /\ Append(q, e)[Len(q) + 1] = e
         /\ \A i \in 1 .. Len(q) : Append(q, e)[i] = q[i]
BY AppendProperties, LenProperties

(* A place is that of one path, and none is that of a key.                 *)
LEMMA PlacesDiffer ==
  ASSUME NEW x \in Paths, NEW y \in Paths
  PROVE  /\ Place(x) # <<>> /\ (Place(x) = Place(y) => x = y)
         /\ \A k, l \in Steps :
              /\ Append(Place(x), k) # <<>> /\ Append(Place(x), k) # Place(y)
              /\ Append(Place(x), k) = Append(Place(y), l) => x = y /\ k = l
<1>1. /\ Len(Place(x)) = 2 * Len(x) - 1 /\ Len(Place(y)) = 2 * Len(y) - 1
      /\ Len(x) \in Nat /\ Len(x) >= 1 /\ Len(y) \in Nat /\ Len(y) >= 1
      /\ Place(x) \in Seq(Steps) /\ Place(y) \in Seq(Steps) /\ x \in Seq(Steps) /\ y \in Seq(Steps)
  BY PlaceFacts DEF Paths
<1>2. Place(x) # <<>>
  BY <1>1
<1>3. ASSUME Place(x) = Place(y) PROVE x = y
  <2>1. Len(x) = Len(y)
    BY <1>1, <1>3
  <2>2. \A j \in 1 .. Len(x) : x[j] = y[j]
    <3> TAKE j \in 1 .. Len(x)
    <3>1. Place(x)[2 * j - 1] = x[j] /\ Place(y)[2 * j - 1] = y[j]
      BY <2>1, PlaceFacts DEF Paths
    <3> QED
      BY <1>3, <3>1
  <2> QED
    BY <1>1, <2>1, <2>2, SeqEqual
<1>4. ASSUME NEW k \in Steps, NEW l \in Steps
      PROVE  /\ Append(Place(x), k) # <<>> /\ Append(Place(x), k) # Place(y)
             /\ Append(Place(x), k) = Append(Place(y), l) => x = y /\ k = l
  <2> DEFINE px == Place(x)
             py == Place(y)
  <2>1. /\ Append(px, k) \in Seq(Steps) /\ Len(Append(px, k)) = Len(px) + 1
        /\ Len(Append(py, l)) = Len(py) + 1
        /\ Append(px, k)[Len(px) + 1] = k /\ Append(py, l)[Len(py) + 1] = l
        /\ \A i \in 1 .. Len(px) : Append(px, k)[i] = px[i]
        /\ \A i \in 1 .. Len(py) : Append(py, l)[i] = py[i]
    <3>1. px \in Seq(Steps) /\ py \in Seq(Steps)
      BY <1>1
    <3> HIDE DEF px, py
    <3>2. /\ Append(px, k) \in Seq(Steps) /\ Len(Append(px, k)) = Len(px) + 1
          /\ Append(px, k)[Len(px) + 1] = k /\ \A i \in 1 .. Len(px) : Append(px, k)[i] = px[i]
      BY <3>1, AppendFacts
    <3>3. /\ Len(Append(py, l)) = Len(py) + 1
          /\ Append(py, l)[Len(py) + 1] = l /\ \A i \in 1 .. Len(py) : Append(py, l)[i] = py[i]
      BY <3>1, AppendFacts
    <3> QED
      BY <3>2, <3>3, Zenon
  <2> HIDE DEF px, py
  <2>2. Len(px) = 2 * Len(x) - 1 /\ Len(py) = 2 * Len(y) - 1 /\ px \in Seq(Steps) /\ py \in Seq(Steps)
    BY <1>1 DEF px, py
  <2>3. Append(px, k) # <<>> /\ Append(px, k) # py
    <3>1. Len(Append(px, k)) = 2 * Len(x) /\ Len(x) \in Nat /\ Len(y) \in Nat /\ Len(x) >= 1
      BY <1>1, <2>1, <2>2
    <3>2. Len(Append(px, k)) # 0 /\ Len(Append(px, k)) # Len(py)
      BY <2>2, <3>1
    <3>3. Len(<<>>) = 0
      OBVIOUS
    <3> HIDE DEF px, py
    <3> QED
      BY <3>2, <3>3
  <2>4. ASSUME Append(px, k) = Append(py, l) PROVE x = y /\ k = l
    <3>1. Len(px) = Len(py) /\ Len(px) \in Nat
      BY <1>1, <2>1, <2>2, <2>4
    <3>2. k = l
      BY <2>1, <2>4, <3>1
    <3>3. px = py
      <4>1. \A i \in 1 .. Len(px) : px[i] = py[i]
        BY <2>1, <2>4, <3>1
      <4> QED
        BY <2>2, <3>1, <4>1, SeqEqual
    <3> QED
      BY <1>3, <3>2, <3>3 DEF px, py
  <2> QED
    BY <2>3, <2>4 DEF px, py
<1> QED
  BY <1>2, <1>3, <1>4

(* The keys on the way to a place are places of shorter paths, and their   *)
(* "attrs".                                                                *)
LEMMA PlacePrefix ==
  ASSUME NEW path \in Paths, NEW i \in 1 .. Len(Place(path)) - 1
  PROVE  \E j \in 1 .. Len(path) - 1 :
           LET upper == SubSeq(path, 1, j)
           IN  /\ upper \in Paths /\ Len(upper) = j
               /\ SubSeq(Place(path), 1, i) \in {Place(upper), Append(Place(upper), "attrs")}
<1> DEFINE n == Len(path)
           whole == Place(path)
           pre == SubSeq(whole, 1, i)
<1>1. /\ n \in Nat /\ n >= 1 /\ whole \in Seq(Steps) /\ Len(whole) = 2 * n - 1
      /\ \A j \in 1 .. n : whole[2 * j - 1] = path[j]
      /\ \A j \in 1 .. n - 1 : whole[2 * j] = "attrs"
  BY PlaceFacts
<1>2. PICK j \in 1 .. n - 1 : i = 2 * j - 1 \/ i = 2 * j
  <2>1. (i + 1) \div 2 \in 1 .. n - 1 /\ (i = 2 * ((i + 1) \div 2) - 1 \/ i = 2 * ((i + 1) \div 2))
    BY <1>1
  <2> QED
    BY <2>1
<1> DEFINE upper == SubSeq(path, 1, j)
           up == Place(upper)
<1>3. upper \in Seq(Steps) /\ Len(upper) = j /\ \A k \in 1 .. j : upper[k] = path[k]
  BY <1>1, SubSeqProperties DEF Paths
<1>4. upper \in Paths /\ upper # <<>>
  BY <1>3 DEF Paths
<1>5. /\ up \in Seq(Steps) /\ Len(up) = 2 * j - 1
      /\ \A k \in 1 .. j : up[2 * k - 1] = path[k]
      /\ \A k \in 1 .. j - 1 : up[2 * k] = "attrs"
  BY <1>3, <1>4, PlaceFacts
<1>6. \A k \in 1 .. 2 * j - 1 : up[k] = whole[k]
  <2> TAKE k \in 1 .. 2 * j - 1
  <2>1. PICK l \in 1 .. j : k = 2 * l - 1 \/ (k = 2 * l /\ l \in 1 .. j - 1)
    <3>1. /\ (k + 1) \div 2 \in 1 .. j
          /\ \/ k = 2 * ((k + 1) \div 2) - 1
             \/ k = 2 * ((k + 1) \div 2) /\ (k + 1) \div 2 \in 1 .. j - 1
      OBVIOUS
    <3> QED
      BY <3>1
  <2>2. l \in 1 .. n /\ (l \in 1 .. j - 1 => l \in 1 .. n - 1)
    BY <1>1
  <2> QED
    BY <1>1, <1>5, <2>1, <2>2
<1>7. pre \in Seq(Steps) /\ Len(pre) = i /\ \A k \in 1 .. i : pre[k] = whole[k]
  BY <1>1, SubSeqProperties
<1> HIDE DEF whole, up, upper, pre
<1>8. CASE i = 2 * j - 1
  <2>1. pre = up
    BY <1>5, <1>6, <1>7, <1>8, SeqEqual
  <2> QED
    BY <1>3, <1>4, <2>1 DEF pre, whole, up, upper
<1>9. CASE i = 2 * j
  <2> DEFINE ext == Append(up, "attrs")
  <2>1. /\ ext \in Seq(Steps) /\ Len(ext) = i /\ ext[i] = "attrs"
        /\ \A k \in 1 .. 2 * j - 1 : ext[k] = up[k]
    <3>1. up \in Seq(Steps) /\ Len(up) = 2 * j - 1 /\ "attrs" \in Steps
      BY <1>5, KeysAreSteps
    <3>2. /\ Append(up, "attrs") \in Seq(Steps) /\ Len(Append(up, "attrs")) = Len(up) + 1
          /\ Append(up, "attrs")[Len(up) + 1] = "attrs"
          /\ \A k \in 1 .. Len(up) : Append(up, "attrs")[k] = up[k]
      BY <3>1, AppendFacts
    <3>3. Len(up) + 1 = i
      BY <1>9, <3>1
    <3> QED
      BY <3>1, <3>2, <3>3
  <2>2. whole[i] = "attrs"
    BY <1>1, <1>9
  <2>3. \A k \in 1 .. i : k \in 1 .. 2 * j - 1 \/ k = i
    BY <1>9
  <2> HIDE DEF ext
  <2>4. \A k \in 1 .. i : ext[k] = pre[k]
    BY <1>6, <1>7, <2>1, <2>2, <2>3
  <2>5. pre = ext
    BY <1>7, <2>1, <2>4, SeqEqual
  <2> QED
    BY <1>3, <1>4, <2>5 DEF pre, whole, up, upper, ext
<1> QED
  BY <1>2, <1>8, <1>9

(* A surface is made of paths, and of a path the way to it.                *)
LEMMA SurfacePaths ==
  ASSUME NEW mod \in Modules, NEW path \in DOMAIN mod
  PROVE  /\ path \in Paths /\ Len(path) \in Nat /\ Len(path) >= 1 /\ DOMAIN path = 1 .. Len(path)
         /\ \A i \in 1 .. Len(path) - 1 :
              SubSeq(path, 1, i) \in DOMAIN mod /\ mod[SubSeq(path, 1, i)].kind = "class"
<1>1. /\ path \in Seq(STRING) /\ path # <<>>
      /\ \A i \in 1 .. Len(path) - 1 :
           SubSeq(path, 1, i) \in DOMAIN mod /\ mod[SubSeq(path, 1, i)].kind = "class"
  BY SurfacesAreTrees
<1>2. path \in Paths
  BY <1>1 DEF Paths, Steps
<1>3. Len(path) \in Nat /\ Len(path) >= 1 /\ DOMAIN path = 1 .. Len(path)
  BY <1>2, EmptySeq, LenProperties DEF Paths
<1> QED
  BY <1>1, <1>2, <1>3

(* Where no class is inside one of its own name nothing is cut off.        *)
LEMMA NothingIsCutOff ==
  ASSUME NEW mod \in Modules, ~NameRepeats(mod)
  PROVE  /\ \A path \in DOMAIN mod : ~Recurs(mod, path)
         /\ Shown(mod) = {path \in DOMAIN mod : NamesShown(path)}
<1>1. ASSUME NEW path \in DOMAIN mod PROVE ~Recurs(mod, path)
  <2>1. \A i \in 1 .. Len(path) - 1 : i < Len(path) /\ i \in DOMAIN path /\ Len(path) \in DOMAIN path
    BY SurfacePaths
  <2> QED
    BY <2>1 DEF Recurs, NameRepeats
<1>2. \A path \in DOMAIN mod : \A i \in 1 .. Len(path) - 1 : ~Recurs(mod, SubSeq(path, 1, i))
  BY <1>1, SurfacePaths
<1> QED
  BY <1>1, <1>2 DEF Shown

(* What a set of keys and values has at a key.                             *)
LEMMA AtIsMember ==
  ASSUME NEW doc, \A e \in doc : e = <<e[1], e[2]>>, NEW at, NEW v
  PROVE  v \in At(doc, at) <=> <<at, v>> \in doc
<1>1. ASSUME v \in At(doc, at) PROVE <<at, v>> \in doc
  <2>1. PICK e \in doc : e[1] = at /\ e[2] = v
    BY <1>1 DEF At
  <2> QED
    BY <2>1
<1>2. ASSUME <<at, v>> \in doc PROVE v \in At(doc, at)
  BY <1>2 DEF At
<1> QED
  BY <1>1, <1>2

(* What is told of an attribute is keys of JSON with their values.         *)
LEMMA InfoIsPairs ==
  ASSUME NEW mod, NEW path
  PROVE  \A e \in Info(mod, path) : e = <<e[1], e[2]>> /\ e[1] \in JsonKeys
<1>1. ASSUME NEW e \in _describe_class(mod, path) PROVE e = <<e[1], e[2]>> /\ e[1] \in JsonKeys
  <2>1. \/ e = <<"recursive", TRUE>> \/ e = <<"bases", mod[path].bases>>
        \/ e = <<"doc", mod[path].doc>> \/ e = <<"attrs", "dict">>
    BY <1>1, Zenon DEF _describe_class
  <2>2. PICK k \in JsonKeys : \E v : e = <<k, v>>
    <3>1. {"recursive", "bases", "doc", "attrs"} \subseteq JsonKeys
      BY DEF JsonKeys
    <3> QED
      BY <2>1, <3>1, Zenon
  <2>3. PICK v : e = <<k, v>>
    BY <2>2
  <2> QED
    BY <2>2, <2>3
<1>2. ASSUME NEW e \in _describe_attr(mod[path]) PROVE e = <<e[1], e[2]>> /\ e[1] \in JsonKeys
  <2>1. \/ e = <<"kind", mod[path].kind>> \/ e = <<"doc", mod[path].doc>>
        \/ e = <<"writable", mod[path].writable>> \/ e = <<"value", mod[path].doc>>
    BY <1>2, Zenon DEF _describe_attr
  <2> QED
    BY <2>1 DEF JsonKeys
<1> QED
  BY <1>1, <1>2 DEF Info

(* What a description holds.                                               *)
LEMMA Description ==
  ASSUME NEW mod, NEW e
  PROVE  e \in describe_module(mod) <=>
           \/ e = <<<<>>, "dict">>
           \/ \E path \in Shown(mod) :
                \/ e = <<Place(path), "dict">>
                \/ \E m \in Info(mod, path) : e = <<Append(Place(path), m[1]), m[2]>>
BY DEF describe_module

(* A description is keys with their values.                                *)
LEMMA DescriptionIsPairs ==
  ASSUME NEW mod
  PROVE  \A e \in describe_module(mod) : e = <<e[1], e[2]>>
<1> TAKE e \in describe_module(mod)
<1>1. CASE e = <<<<>>, "dict">>
  BY <1>1
<1>2. ASSUME NEW path \in Shown(mod), e = <<Place(path), "dict">> PROVE e = <<e[1], e[2]>>
  BY <1>2
<1>3. ASSUME NEW path \in Shown(mod), NEW m \in Info(mod, path),
             e = <<Append(Place(path), m[1]), m[2]>>
      PROVE  e = <<e[1], e[2]>>
  BY <1>3
<1> QED
  BY <1>1, <1>2, <1>3, Description

(* A description read back: at the root and at each name shown an object,  *)
(* and at the keys of a name its information.                              *)
LEMMA DescriptionRead ==
  ASSUME NEW mod \in Modules
  PROVE  LET doc == describe_module(mod)
         IN  /\ At(doc, <<>>) = {"dict"}
             /\ \A x \in Paths : At(doc, Place(x)) = IF x \in Shown(mod) THEN {"dict"} ELSE {}
             /\ \A x \in Paths : \A k \in Steps :
                  At(doc, Append(Place(x), k)) = IF x \in Shown(mod) THEN At(Info(mod, x), k) ELSE {}
             /\ \A at \in Keys(doc) :
                  \/ at = <<>>
                  \/ \E x \in Shown(mod) : at = Place(x) \/ \E k \in JsonKeys : at = Append(Place(x), k)
<1> DEFINE doc == describe_module(mod)
<1>1. \A at, v : v \in At(doc, at) <=> <<at, v>> \in doc
  BY DescriptionIsPairs, AtIsMember
<1>2. \A path \in Shown(mod) : path \in Paths
  BY SurfacePaths DEF Shown
<1>3. \A path \in Shown(mod) : \A m \in Info(mod, path) : m[1] \in JsonKeys /\ m[1] \in Steps
  BY InfoIsPairs, KeysAreSteps
<1>4. ASSUME NEW x \in Paths, NEW y \in Paths
      PROVE  /\ Place(x) # <<>> /\ (Place(x) = Place(y) => x = y)
             /\ \A k, l \in Steps :
                  /\ Append(Place(x), k) # <<>> /\ Append(Place(x), k) # Place(y)
                  /\ Append(Place(x), k) = Append(Place(y), l) => x = y /\ k = l
  BY PlacesDiffer
<1>5. \A at, v : <<at, v>> \in doc <=>
        \/ at = <<>> /\ v = "dict"
        \/ \E path \in Shown(mod) :
             \/ at = Place(path) /\ v = "dict"
             \/ \E m \in Info(mod, path) : at = Append(Place(path), m[1]) /\ v = m[2]
  BY Description
<1> HIDE DEF doc
<1>6. At(doc, <<>>) = {"dict"}
  <2>1. \A path \in Shown(mod) : Place(path) # <<>>
    BY <1>2, <1>4
  <2>2. \A path \in Shown(mod) : \A m \in Info(mod, path) : Append(Place(path), m[1]) # <<>>
    BY <1>2, <1>3, <1>4
  <2>3. \A v : <<<<>>, v>> \in doc <=> v = "dict"
    BY <1>5, <2>1, <2>2
  <2> QED
    BY <1>1, <2>3
<1>7. ASSUME NEW x \in Paths
      PROVE  At(doc, Place(x)) = IF x \in Shown(mod) THEN {"dict"} ELSE {}
  <2>1. \A path \in Shown(mod) : Place(x) = Place(path) => x = path
    BY <1>2, <1>4
  <2>2. \A path \in Shown(mod) : \A m \in Info(mod, path) : Place(x) # Append(Place(path), m[1])
    BY <1>2, <1>3, <1>4
  <2>3. Place(x) # <<>>
    BY <1>4
  <2>4. \A v : <<Place(x), v>> \in doc <=> x \in Shown(mod) /\ v = "dict"
    BY <1>5, <2>1, <2>2, <2>3
  <2> QED
    BY <1>1, <2>4
<1>8. ASSUME NEW x \in Paths, NEW k \in Steps
      PROVE  At(doc, Append(Place(x), k)) = IF x \in Shown(mod) THEN At(Info(mod, x), k) ELSE {}
  <2>1. \A v : <<Append(Place(x), k), v>> \in doc <=> x \in Shown(mod) /\ <<k, v>> \in Info(mod, x)
    <3> TAKE v
    <3>1. ASSUME <<Append(Place(x), k), v>> \in doc PROVE x \in Shown(mod) /\ <<k, v>> \in Info(mod, x)
      <4>1. PICK path \in Shown(mod) : \E m \in Info(mod, path) :
              Append(Place(x), k) = Append(Place(path), m[1]) /\ v = m[2]
        BY <1>2, <1>4, <1>5, <3>1
      <4>2. PICK m \in Info(mod, path) : Append(Place(x), k) = Append(Place(path), m[1]) /\ v = m[2]
        BY <4>1
      <4>3. x = path /\ k = m[1]
        BY <1>2, <1>3, <1>4, <4>2
      <4> QED
        BY <4>2, <4>3, InfoIsPairs
    <3>2. ASSUME x \in Shown(mod), <<k, v>> \in Info(mod, x) PROVE <<Append(Place(x), k), v>> \in doc
      BY <1>5, <3>2
    <3> QED
      BY <3>1, <3>2
  <2>2. \A v : v \in At(Info(mod, x), k) <=> <<k, v>> \in Info(mod, x)
    BY InfoIsPairs, AtIsMember
  <2> QED
    <3>1. CASE x \in Shown(mod)
      <4>1. \A v : v \in At(doc, Append(Place(x), k)) <=> v \in At(Info(mod, x), k)
        BY <1>1, <2>1, <2>2, <3>1, Zenon
      <4>2. At(doc, Append(Place(x), k)) = At(Info(mod, x), k)
        BY <4>1, Zenon
      <4> QED
        BY <3>1, <4>2
    <3>2. CASE x \notin Shown(mod)
      BY <1>1, <2>1, <3>2
    <3> QED
      BY <3>1, <3>2
<1>9. ASSUME NEW at \in Keys(doc)
      PROVE  \/ at = <<>>
             \/ \E x \in Shown(mod) : at = Place(x) \/ \E k \in JsonKeys : at = Append(Place(x), k)
  <2>1. PICK e \in doc : e[1] = at
    BY <1>9 DEF Keys
  <2>2. PICK v : <<at, v>> \in doc
    BY <2>1, DescriptionIsPairs DEF doc
  <2> QED
    BY <1>3, <1>5, <2>2
<1> QED
  BY <1>6, <1>7, <1>8, <1>9 DEF doc

(* The information on an attribute tells what it is, and what it is        *)
(* determines the information.                                             *)
LEMMA InfoEntries ==
  ASSUME NEW mod, NEW x, ~Recurs(mod, x), NEW v
  PROVE  LET kind == mod[x].kind
             info == Info(mod, x)
         IN  /\ <<"kind", v>> \in info <=> kind # "class" /\ v = kind
             /\ <<"doc", v>> \in info <=> kind \in {"class", "method", "property"} /\ v = mod[x].doc
             /\ <<"value", v>> \in info <=> kind \in {"int", "str"} /\ v = mod[x].doc
             /\ <<"writable", v>> \in info <=> kind = "property" /\ v = mod[x].writable
             /\ <<"bases", v>> \in info <=> kind = "class" /\ v = mod[x].bases
             /\ <<"attrs", v>> \in info <=> kind = "class" /\ v = "dict"
             /\ ~(<<"recursive", v>> \in info)
<1>1. CASE mod[x].kind = "class"
  <2>1. Info(mod, x) = {<<"bases", mod[x].bases>>, <<"doc", mod[x].doc>>, <<"attrs", "dict">>}
    BY <1>1 DEF Info, _describe_class
  <2> QED
    BY <1>1, <2>1
<1>2. CASE mod[x].kind # "class"
  <2> DEFINE kind == mod[x].kind
             doc == mod[x].doc
             writable == mod[x].writable
  <2>1. \A e : e \in Info(mod, x) <=>
          \/ e = <<"kind", kind>>
          \/ kind \in {"method", "property"} /\ e = <<"doc", doc>>
          \/ kind = "property" /\ e = <<"writable", writable>>
          \/ kind \in {"int", "str"} /\ e = <<"value", doc>>
    BY <1>2 DEF Info, _describe_attr
  <2> HIDE DEF kind, doc, writable
  <2>2. kind # "class"
    BY <1>2 DEF kind
  <2>3. /\ <<"kind", v>> \in Info(mod, x) <=> kind # "class" /\ v = kind
        /\ <<"doc", v>> \in Info(mod, x) <=> kind \in {"class", "method", "property"} /\ v = doc
        /\ <<"value", v>> \in Info(mod, x) <=> kind \in {"int", "str"} /\ v = doc
        /\ <<"writable", v>> \in Info(mod, x) <=> kind = "property" /\ v = writable
        /\ ~(<<"bases", v>> \in Info(mod, x)) /\ ~(<<"attrs", v>> \in Info(mod, x))
        /\ ~(<<"recursive", v>> \in Info(mod, x))
    BY <2>1, <2>2
  <2> QED
    BY <2>2, <2>3 DEF kind, doc, writable
<1> QED
  BY <1>1, <1>2

(* Attributes with the same information are the same to Python.            *)
LEMMA InfoTellsFact ==
  ASSUME NEW a \in Modules, NEW b \in Modules, NEW x, x \in DOMAIN a, x \in DOMAIN b,
         ~Recurs(a, x), ~Recurs(b, x)
  PROVE  (\A k \in JsonKeys : At(Info(a, x), k) = At(Info(b, x), k)) <=> Fact(a, x) = Fact(b, x)
<1> DEFINE A(k, v) == <<k, v>> \in Info(a, x)
           B(k, v) == <<k, v>> \in Info(b, x)
<1>1. (\A k \in JsonKeys : At(Info(a, x), k) = At(Info(b, x), k))
        <=> \A k \in JsonKeys : \A v : A(k, v) <=> B(k, v)
  <2>1. \A k, v : v \in At(Info(a, x), k) <=> A(k, v)
    BY InfoIsPairs, AtIsMember
  <2>2. \A k, v : v \in At(Info(b, x), k) <=> B(k, v)
    BY InfoIsPairs, AtIsMember
  <2> HIDE DEF A, B
  <2>3. \A k : At(Info(a, x), k) = At(Info(b, x), k) <=> \A v : A(k, v) <=> B(k, v)
    <3> TAKE k
    <3>1. At(Info(a, x), k) = At(Info(b, x), k) => \A v : A(k, v) <=> B(k, v)
      BY <2>1, <2>2, Zenon
    <3>2. (\A v : A(k, v) <=> B(k, v)) => At(Info(a, x), k) = At(Info(b, x), k)
      BY <2>1, <2>2, Zenon
    <3> QED
      BY <3>1, <3>2
  <2> QED
    BY <2>3
<1>2. /\ a[x].kind \in {"class", "method", "property", "int", "str"}
      /\ b[x].kind \in {"class", "method", "property", "int", "str"}
      /\ a[x].writable \in BOOLEAN /\ b[x].writable \in BOOLEAN
      /\ (a[x].kind # "class" => a[x].bases = "") /\ (b[x].kind # "class" => b[x].bases = "")
  <2>1. \A mod \in Modules : \A path \in DOMAIN mod :
          mod[path].kind \in {"class", "method", "property", "int", "str"}
    BY SurfacesAreTrees, Zenon
  <2>2. \A mod \in Modules : \A path \in DOMAIN mod :
          mod[path].kind # "class" => mod[path].bases = ""
    BY SurfacesAreTrees, Zenon
  <2>3. \A mod \in Modules : \A path \in DOMAIN mod : mod[path].writable \in BOOLEAN
    BY SurfacesAreTrees, Zenon
  <2> QED
    BY <2>1, <2>2, <2>3, Zenon
<1>3. \A v : /\ A("kind", v) <=> a[x].kind # "class" /\ v = a[x].kind
             /\ A("doc", v) <=> a[x].kind \in {"class", "method", "property"} /\ v = a[x].doc
             /\ A("value", v) <=> a[x].kind \in {"int", "str"} /\ v = a[x].doc
             /\ A("writable", v) <=> a[x].kind = "property" /\ v = a[x].writable
             /\ A("bases", v) <=> a[x].kind = "class" /\ v = a[x].bases
             /\ A("attrs", v) <=> a[x].kind = "class" /\ v = "dict"
             /\ ~A("recursive", v)
  BY InfoEntries
<1>4. \A v : /\ B("kind", v) <=> b[x].kind # "class" /\ v = b[x].kind
             /\ B("doc", v) <=> b[x].kind \in {"class", "method", "property"} /\ v = b[x].doc
             /\ B("value", v) <=> b[x].kind \in {"int", "str"} /\ v = b[x].doc
             /\ B("writable", v) <=> b[x].kind = "property" /\ v = b[x].writable
             /\ B("bases", v) <=> b[x].kind = "class" /\ v = b[x].bases
             /\ B("attrs", v) <=> b[x].kind = "class" /\ v = "dict"
             /\ ~B("recursive", v)
  BY InfoEntries
<1>5. Fact(a, x) = Fact(b, x) <=>
        /\ a[x].kind = b[x].kind /\ a[x].doc = b[x].doc /\ a[x].bases = b[x].bases
        /\ (a[x].kind = "property" /\ a[x].writable) <=> (b[x].kind = "property" /\ b[x].writable)
  BY <1>2, Zenon DEF Fact
<1> HIDE DEF A, B
<1>6. ASSUME \A k \in JsonKeys : \A v : A(k, v) <=> B(k, v)
      PROVE  Fact(a, x) = Fact(b, x)
  <2>1. \A v : /\ A("kind", v) <=> B("kind", v)
               /\ A("doc", v) <=> B("doc", v)
               /\ A("value", v) <=> B("value", v)
               /\ A("writable", v) <=> B("writable", v)
               /\ A("bases", v) <=> B("bases", v)
    BY <1>6 DEF JsonKeys
  <2>2. a[x].kind = b[x].kind
    BY <1>3, <1>4, <2>1
  <2>3. a[x].doc = b[x].doc
    BY <1>2, <1>3, <1>4, <2>1, <2>2
  <2>4. a[x].bases = b[x].bases
    <3>1. CASE a[x].kind = "class"
      BY <1>3, <1>4, <2>1, <2>2, <3>1
    <3>2. CASE a[x].kind # "class"
      BY <1>2, <2>2, <3>2, Zenon
    <3> QED
      BY <3>1, <3>2
  <2>5. a[x].kind = "property" => a[x].writable = b[x].writable
    BY <1>3, <1>4, <2>1, <2>2, Zenon
  <2> QED
    BY <1>5, <2>2, <2>3, <2>4, <2>5, Zenon
<1>7. ASSUME Fact(a, x) = Fact(b, x)
      PROVE  \A k \in JsonKeys : \A v : A(k, v) <=> B(k, v)
  <2>1. a[x].kind = "property" => a[x].writable = b[x].writable
    BY <1>2, <1>5, <1>7
  <2>2. \A v : /\ A("kind", v) <=> B("kind", v)
               /\ A("doc", v) <=> B("doc", v)
               /\ A("value", v) <=> B("value", v)
               /\ A("writable", v) <=> B("writable", v)
               /\ A("bases", v) <=> B("bases", v)
               /\ A("attrs", v) <=> B("attrs", v)
               /\ A("recursive", v) <=> B("recursive", v)
    BY <1>3, <1>4, <1>5, <1>7, <2>1, Zenon
  <2> QED
    BY <2>2 DEF JsonKeys
<1> QED
  BY <1>1, <1>6, <1>7

(* An ignore pattern is about a name wherever it is in a description.      *)
LEMMA IgnoredPlaces ==
  ASSUME NEW patterns \in Ignores, NEW x \in Paths
  PROVE  /\ Ignored(Place(x), patterns) <=> Ignored(x, patterns)
         /\ \A k \in JsonKeys : Ignored(Append(Place(x), k), patterns) <=> Ignored(x, patterns)
<1> DEFINE q == Place(x)
<1>1. /\ Len(x) \in Nat /\ Len(x) >= 1 /\ q \in Seq(Steps) /\ Len(q) = 2 * Len(x) - 1
      /\ \A j \in 1 .. Len(x) : q[2 * j - 1] = x[j]
      /\ \A j \in 1 .. Len(x) - 1 : q[2 * j] = "attrs"
  BY PlaceFacts
<1>2. \A k \in JsonKeys : k \notin patterns
  BY IgnoresAreNames
<1>3. "attrs" \notin patterns
  BY <1>2 DEF JsonKeys
<1>4. DOMAIN x = 1 .. Len(x) /\ DOMAIN q = 1 .. Len(q)
  BY <1>1, LenProperties DEF Paths
<1> HIDE DEF q
<1>5. ASSUME NEW i \in DOMAIN x, x[i] \in patterns PROVE Ignored(q, patterns)
  <2>1. 2 * i - 1 \in 1 .. Len(q) /\ q[2 * i - 1] = x[i]
    BY <1>1, <1>4
  <2> QED
    BY <1>4, <1>5, <2>1 DEF Ignored
<1>6. ASSUME NEW i \in DOMAIN q, q[i] \in patterns PROVE Ignored(x, patterns)
  <2>1. PICK j \in 1 .. Len(x) : i = 2 * j - 1 \/ (i = 2 * j /\ j \in 1 .. Len(x) - 1)
    <3>1. /\ (i + 1) \div 2 \in 1 .. Len(x)
          /\ \/ i = 2 * ((i + 1) \div 2) - 1
             \/ i = 2 * ((i + 1) \div 2) /\ (i + 1) \div 2 \in 1 .. Len(x) - 1
      <4>1. i \in 1 .. 2 * Len(x) - 1 /\ Len(x) \in Nat
        BY <1>1, <1>4
      <4> QED
        BY <4>1
    <3> QED
      BY <3>1
  <2>2. x[j] \in patterns
    BY <1>1, <1>3, <1>6, <2>1
  <2> QED
    BY <1>4, <2>2 DEF Ignored
<1>7. Ignored(q, patterns) <=> Ignored(x, patterns)
  BY <1>5, <1>6 DEF Ignored
<1>8. ASSUME NEW k \in JsonKeys
      PROVE  Ignored(Append(q, k), patterns) <=> Ignored(q, patterns)
  <2> DEFINE ext == Append(q, k)
  <2>1. /\ ext \in Seq(Steps) /\ Len(ext) = Len(q) + 1 /\ ext[Len(q) + 1] = k
        /\ \A i \in 1 .. Len(q) : ext[i] = q[i]
    BY <1>1, KeysAreSteps, AppendFacts
  <2>2. DOMAIN ext = 1 .. Len(q) + 1
    BY <2>1, LenProperties
  <2>3. Len(q) \in Nat
    BY <1>1
  <2> HIDE DEF ext
  <2>4. \A i \in 1 .. Len(q) + 1 : i \in 1 .. Len(q) \/ i = Len(q) + 1
    BY <2>3
  <2>5. \A i \in 1 .. Len(q) : i \in 1 .. Len(q) + 1
    BY <2>3
  <2>6. Ignored(ext, patterns) <=> Ignored(q, patterns)
    BY <1>2, <1>4, <2>1, <2>2, <2>4, <2>5 DEF Ignored
  <2> QED
    BY <2>6 DEF ext
<1> QED
  BY <1>7, <1>8 DEF q

(* What is before a place is before what is added to it.                   *)
LEMMA SubSeqFacts ==
  ASSUME NEW T, NEW q \in Seq(T)
  PROVE  /\ SubSeq(q, 1, 0) = <<>>
         /\ \A e \in T : \A i \in 1 .. Len(q) - 1 : SubSeq(Append(q, e), 1, i) = SubSeq(q, 1, i)
         /\ \A e \in T : SubSeq(Append(q, e), 1, Len(q)) = q
<1>1. Len(q) \in Nat
  BY LenProperties
<1>2. SubSeq(q, 1, 0) = <<>>
  BY SubSeqProperties, EmptySeq
<1>3. ASSUME NEW e \in T, NEW i \in 1 .. Len(q) - 1
      PROVE  SubSeq(Append(q, e), 1, i) = SubSeq(q, 1, i)
  <2>1. /\ Append(q, e) \in Seq(T) /\ Len(Append(q, e)) = Len(q) + 1
        /\ \A j \in 1 .. Len(q) : Append(q, e)[j] = q[j]
    BY AppendFacts
  <2> DEFINE l == SubSeq(Append(q, e), 1, i)
             r == SubSeq(q, 1, i)
  <2>2. l \in Seq(T) /\ Len(l) = i /\ \A j \in 1 .. i : l[j] = Append(q, e)[j]
    BY <1>1, <2>1, SubSeqProperties
  <2>3. r \in Seq(T) /\ Len(r) = i /\ \A j \in 1 .. i : r[j] = q[j]
    BY <1>1, SubSeqProperties
  <2>4. \A j \in 1 .. i : j \in 1 .. Len(q)
    BY <1>1
  <2> HIDE DEF l, r
  <2>5. l = r
    BY <2>1, <2>2, <2>3, <2>4, SeqEqual
  <2> QED
    BY <2>5 DEF l, r
<1>4. ASSUME NEW e \in T PROVE SubSeq(Append(q, e), 1, Len(q)) = q
  <2>1. /\ Append(q, e) \in Seq(T) /\ Len(Append(q, e)) = Len(q) + 1
        /\ \A j \in 1 .. Len(q) : Append(q, e)[j] = q[j]
    BY AppendFacts
  <2> DEFINE l == SubSeq(Append(q, e), 1, Len(q))
  <2>2. l \in Seq(T) /\ Len(l) = Len(q) /\ \A j \in 1 .. Len(q) : l[j] = Append(q, e)[j]
    BY <1>1, <2>1, SubSeqProperties
  <2> HIDE DEF l
  <2>3. l = q
    BY <2>1, <2>2, SeqEqual
  <2> QED
    BY <2>3 DEF l
<1> QED
  BY <1>2, <1>3, <1>4

(* The walk comes to a name, and to the keys of one that is in both, when  *)
(* all that is above the name is a class in both.                          *)
LEMMA Walked ==
  ASSUME NEW a \in Modules, NEW b \in Modules, ~NameRepeats(a), ~NameRepeats(b),
         NEW patterns \in Ignores, NEW x \in Paths, ~Ignored(x, patterns),
         \A j \in 1 .. Len(x) - 1 :
           LET upper == SubSeq(x, 1, j)
           IN  /\ upper \in Shown(a) \cap Shown(b)
               /\ a[upper].kind = "class" /\ b[upper].kind = "class"
  PROVE  /\ Visited(describe_module(a), describe_module(b), Place(x), patterns)
         /\ x \in Shown(a) \cap Shown(b) =>
              \A k \in JsonKeys :
                Visited(describe_module(a), describe_module(b), Append(Place(x), k), patterns)
<1> DEFINE da == describe_module(a)
           db == describe_module(b)
           Object(at) == "dict" \in At(da, at) \cap At(db, at)
           q == Place(x)
<1>1. Object(<<>>)
  BY DescriptionRead
<1>2. ASSUME NEW y \in Paths, y \in Shown(a) \cap Shown(b)
      PROVE  /\ Object(Place(y))
             /\ a[y].kind = "class" /\ b[y].kind = "class" => Object(Append(Place(y), "attrs"))
  <2>1. Object(Place(y))
    BY <1>2, DescriptionRead
  <2>2. ASSUME a[y].kind = "class", b[y].kind = "class" PROVE Object(Append(Place(y), "attrs"))
    <3>1. ~Recurs(a, y) /\ ~Recurs(b, y)
      BY <1>2, NothingIsCutOff
    <3>2. <<"attrs", "dict">> \in Info(a, y) /\ <<"attrs", "dict">> \in Info(b, y)
      BY <2>2, <3>1, InfoEntries
    <3>3. "dict" \in At(Info(a, y), "attrs") /\ "dict" \in At(Info(b, y), "attrs")
      BY <3>2, InfoIsPairs, AtIsMember
    <3>4. /\ At(da, Append(Place(y), "attrs")) = At(Info(a, y), "attrs")
          /\ At(db, Append(Place(y), "attrs")) = At(Info(b, y), "attrs")
      BY <1>2, KeysAreSteps, DescriptionRead
    <3> QED
      BY <3>3, <3>4
  <2> QED
    BY <2>1, <2>2
<1>3. q \in Seq(Steps) /\ Len(q) \in Nat /\ Len(q) = 2 * Len(x) - 1
  BY PlaceFacts
<1>4. ASSUME NEW i \in 0 .. Len(q) - 1 PROVE Object(SubSeq(q, 1, i))
  <2>1. CASE i = 0
    BY <1>1, <1>3, <2>1, SubSeqFacts
  <2>2. CASE i # 0
    <3>1. i \in 1 .. Len(Place(x)) - 1
      BY <1>3, <2>2
    <3>2. PICK j \in 1 .. Len(x) - 1 :
            LET upper == SubSeq(x, 1, j)
            IN  upper \in Paths /\ SubSeq(q, 1, i) \in {Place(upper), Append(Place(upper), "attrs")}
      BY <3>1, PlacePrefix
    <3> QED
      BY <1>2, <3>2
  <2> QED
    BY <2>1, <2>2
<1>5. Visited(da, db, q, patterns)
  BY <1>4, IgnoredPlaces DEF Visited
<1>6. ASSUME x \in Shown(a) \cap Shown(b), NEW k \in JsonKeys
      PROVE  Visited(da, db, Append(q, k), patterns)
  <2>1. ~Ignored(Append(q, k), patterns)
    BY IgnoredPlaces
  <2>2. k \in Steps /\ Len(Append(q, k)) = Len(q) + 1 /\ Append(q, k) \in Seq(Steps)
    BY <1>3, KeysAreSteps, AppendFacts
  <2>3. Object(q)
    BY <1>2, <1>6
  <2>4. ASSUME NEW i \in 0 .. Len(q) PROVE Object(SubSeq(Append(q, k), 1, i))
    <3>1. CASE i = 0
      BY <1>1, <2>2, <3>1, SubSeqFacts
    <3>2. CASE i = Len(q)
      <4>1. SubSeq(Append(q, k), 1, Len(q)) = q
        BY <1>3, <2>2, SubSeqFacts
      <4> QED
        BY <2>3, <3>2, <4>1, Zenon
    <3>3. CASE i \in 1 .. Len(q) - 1
      <4>1. SubSeq(Append(q, k), 1, i) = SubSeq(q, 1, i)
        BY <1>3, <2>2, <3>3, SubSeqFacts
      <4>2. Object(SubSeq(q, 1, i))
        BY <1>3, <1>4, <3>3
      <4> QED
        BY <4>1, <4>2
    <3> QED
      BY <1>3, <3>1, <3>2, <3>3
  <2>5. 0 .. Len(Append(q, k)) - 1 = 0 .. Len(q)
    BY <1>3, <2>2
  <2> QED
    BY <2>1, <2>4, <2>5 DEF Visited
<1> QED
  BY <1>5, <1>6

(* The surfaces agree: each name shown and not ignored is in both, and the *)
(* same.                                                                   *)
Matters(x, patterns) == NamesShown(x) /\ ~Ignored(x, patterns)

Same(a, b, x) == x \in DOMAIN a /\ x \in DOMAIN b /\ Fact(a, x) = Fact(b, x)

Agree(a, b, patterns) ==
  \A x \in DOMAIN a \cup DOMAIN b : Matters(x, patterns) => Same(a, b, x)

(* What is compared is the same when the surfaces agree.                   *)
LEMMA ComparedAgree ==
  ASSUME NEW a, NEW b, NEW patterns
  PROVE  Compared(a, patterns) = Compared(b, patterns) <=> Agree(a, b, patterns)
<1>1. \A m, f : f \in Compared(m, patterns) <=>
        \E x \in DOMAIN m : Matters(x, patterns) /\ f = Fact(m, x)
  BY DEF Compared, Matters
<1>2. \A m, n, x, y : Fact(m, x) = Fact(n, y) => x = y
  BY Zenon DEF Fact
<1>3. ASSUME Compared(a, patterns) = Compared(b, patterns) PROVE Agree(a, b, patterns)
  <2>1. ASSUME NEW x \in DOMAIN a, Matters(x, patterns) PROVE Same(a, b, x)
    <3>1. Fact(a, x) \in Compared(b, patterns)
      BY <1>1, <1>3, <2>1, Zenon
    <3>2. PICK y \in DOMAIN b : Fact(a, x) = Fact(b, y)
      BY <1>1, <3>1
    <3>3. x = y
      BY <1>2, <3>2
    <3> QED
      BY <2>1, <3>2, <3>3 DEF Same
  <2>2. ASSUME NEW x \in DOMAIN b, Matters(x, patterns) PROVE Same(a, b, x)
    <3>1. Fact(b, x) \in Compared(a, patterns)
      BY <1>1, <1>3, <2>2, Zenon
    <3>2. PICK y \in DOMAIN a : Fact(b, x) = Fact(a, y)
      BY <1>1, <3>1
    <3>3. x = y
      BY <1>2, <3>2
    <3> QED
      BY <2>2, <3>2, <3>3 DEF Same
  <2> QED
    BY <2>1, <2>2 DEF Agree
<1>4. ASSUME Agree(a, b, patterns) PROVE Compared(a, patterns) = Compared(b, patterns)
  <2>1. ASSUME NEW f \in Compared(a, patterns) PROVE f \in Compared(b, patterns)
    <3>1. PICK x \in DOMAIN a : Matters(x, patterns) /\ f = Fact(a, x)
      BY <1>1
    <3>2. x \in DOMAIN b /\ f = Fact(b, x)
      BY <1>4, <3>1 DEF Agree, Same
    <3> QED
      BY <1>1, <3>1, <3>2
  <2>2. ASSUME NEW f \in Compared(b, patterns) PROVE f \in Compared(a, patterns)
    <3>1. PICK x \in DOMAIN b : Matters(x, patterns) /\ f = Fact(b, x)
      BY <1>1
    <3>2. x \in DOMAIN a /\ f = Fact(a, x)
      BY <1>4, <3>1 DEF Agree, Same
    <3> QED
      BY <1>1, <3>1, <3>2
  <2> QED
    BY <2>1, <2>2
<1> QED
  BY <1>3, <1>4

(* Surfaces that agree have no difference.                                 *)
LEMMA AgreementIsFound ==
  ASSUME NEW a \in Modules, NEW b \in Modules, ~NameRepeats(a), ~NameRepeats(b),
         NEW patterns \in Ignores, Agree(a, b, patterns)
  PROVE  _diff(describe_module(a), describe_module(b), patterns) = {}
<1> DEFINE da == describe_module(a)
           db == describe_module(b)
<1>1. SUFFICES ASSUME NEW at \in Keys(da) \cup Keys(db), ~Ignored(at, patterns)
               PROVE  At(da, at) = At(db, at)
  BY DEF _diff, Visited
<1>2. CASE at = <<>>
  BY <1>2, DescriptionRead
<1>3. ASSUME NEW x \in Shown(a) \cup Shown(b),
             at = Place(x) \/ \E k \in JsonKeys : at = Append(Place(x), k)
      PROVE  At(da, at) = At(db, at)
  <2>1. x \in Paths /\ x \in DOMAIN a \cup DOMAIN b /\ NamesShown(x)
    BY SurfacePaths DEF Shown
  <2>2. ~Ignored(x, patterns)
    BY <1>1, <1>3, <2>1, IgnoredPlaces
  <2>3. x \in DOMAIN a /\ x \in DOMAIN b /\ Fact(a, x) = Fact(b, x)
    BY <2>1, <2>2 DEF Agree, Matters, Same
  <2>4. x \in Shown(a) /\ x \in Shown(b) /\ ~Recurs(a, x) /\ ~Recurs(b, x)
    BY <2>1, <2>3, NothingIsCutOff
  <2>5. \A k \in JsonKeys : At(Info(a, x), k) = At(Info(b, x), k)
    BY <2>3, <2>4, InfoTellsFact
  <2>6. CASE at = Place(x)
    BY <2>1, <2>4, <2>6, DescriptionRead
  <2>7. ASSUME NEW k \in JsonKeys, at = Append(Place(x), k) PROVE At(da, at) = At(db, at)
    <3>1. k \in Steps
      BY KeysAreSteps
    <3> QED
      BY <2>1, <2>4, <2>5, <2>7, <3>1, DescriptionRead
  <2> QED
    BY <1>3, <2>6, <2>7
<1>4. \/ at = <<>>
      \/ \E x \in Shown(a) \cup Shown(b) :
           at = Place(x) \/ \E k \in JsonKeys : at = Append(Place(x), k)
  <2>1. CASE at \in Keys(da)
    <3>1. \/ at = <<>>
          \/ \E x \in Shown(a) : at = Place(x) \/ \E k \in JsonKeys : at = Append(Place(x), k)
      BY <2>1, DescriptionRead
    <3> QED
      BY <3>1, Zenon
  <2>2. CASE at \in Keys(db)
    <3>1. \/ at = <<>>
          \/ \E x \in Shown(b) : at = Place(x) \/ \E k \in JsonKeys : at = Append(Place(x), k)
      BY <2>2, DescriptionRead
    <3> QED
      BY <3>1, Zenon
  <2> QED
    BY <1>1, <2>1, <2>2
<1> QED
  BY <1>2, <1>3, <1>4

(* What the shortest of the names that differ holds is compared: all that  *)
(* is above it is the same class in both, so that the walk comes to it.    *)
LEMMA DifferenceIsFound ==
  ASSUME NEW a \in Modules, NEW b \in Modules, ~NameRepeats(a), ~NameRepeats(b),
         NEW patterns \in Ignores,
         _diff(describe_module(a), describe_module(b), patterns) = {},
         NEW x \in DOMAIN a \cup DOMAIN b, Matters(x, patterns),
         \A y \in DOMAIN a \cup DOMAIN b :
           Len(y) < Len(x) /\ Matters(y, patterns) => Same(a, b, y)
  PROVE  Same(a, b, x)
<1> DEFINE da == describe_module(a)
           db == describe_module(b)
<1>1. /\ x \in Paths /\ Len(x) \in Nat /\ DOMAIN x = 1 .. Len(x) /\ Len(x) >= 1
      /\ \/ \A i \in 1 .. Len(x) - 1 : SubSeq(x, 1, i) \in DOMAIN a /\ a[SubSeq(x, 1, i)].kind = "class"
         \/ \A i \in 1 .. Len(x) - 1 : SubSeq(x, 1, i) \in DOMAIN b /\ b[SubSeq(x, 1, i)].kind = "class"
  BY SurfacePaths
<1>2. NamesShown(x) /\ ~Ignored(x, patterns)
  BY DEF Matters
<1>3. ASSUME NEW j \in 1 .. Len(x) - 1
      PROVE  LET upper == SubSeq(x, 1, j)
             IN  /\ upper \in Shown(a) \cap Shown(b)
                 /\ a[upper].kind = "class" /\ b[upper].kind = "class"
  <2> DEFINE upper == SubSeq(x, 1, j)
  <2>1. upper \in DOMAIN a \cup DOMAIN b
    BY <1>1
  <2>2. /\ upper \in Seq(Steps) /\ Len(upper) = j /\ DOMAIN upper = 1 .. j
        /\ \A k \in 1 .. j : upper[k] = x[k]
    BY <1>1, SubSeqProperties, LenProperties DEF Paths
  <2>3. NamesShown(upper)
    BY <1>1, <1>2, <2>2 DEF NamesShown
  <2>4. ~Ignored(upper, patterns)
    BY <1>1, <1>2, <2>2 DEF Ignored
  <2>5. Len(upper) < Len(x)
    BY <1>1, <2>2
  <2> HIDE DEF upper
  <2>6. Same(a, b, upper)
    BY <2>1, <2>3, <2>4, <2>5 DEF Matters
  <2>7. upper \in Shown(a) /\ upper \in Shown(b)
    BY <2>3, <2>6, NothingIsCutOff DEF Same
  <2>8. a[upper].kind = b[upper].kind
    BY <2>6, Zenon DEF Same, Fact
  <2>9. a[upper].kind = "class" \/ b[upper].kind = "class"
    BY <1>1 DEF upper
  <2> QED
    BY <2>7, <2>8, <2>9 DEF upper
<1>4. /\ Visited(da, db, Place(x), patterns)
      /\ x \in Shown(a) \cap Shown(b) =>
           \A k \in JsonKeys : Visited(da, db, Append(Place(x), k), patterns)
  BY <1>1, <1>2, <1>3, Walked
<1>5. \A at : Visited(da, db, at, patterns) => At(da, at) = At(db, at)
  <2>1. ASSUME NEW at, at \notin Keys(da) \cup Keys(db) PROVE At(da, at) = At(db, at)
    <3>1. At(da, at) = {} /\ At(db, at) = {}
      BY <2>1 DEF At, Keys
    <3> QED
      BY <3>1
  <2>2. ASSUME NEW at \in Keys(da) \cup Keys(db), Visited(da, db, at, patterns)
        PROVE  At(da, at) = At(db, at)
    BY <2>2 DEF _diff
  <2> QED
    BY <2>1, <2>2
<1>6. x \in Shown(a) /\ x \in Shown(b)
  <2>1. At(da, Place(x)) = At(db, Place(x))
    BY <1>4, <1>5
  <2>2. x \in Shown(a) \cup Shown(b)
    BY <1>2, NothingIsCutOff
  <2>3. /\ At(da, Place(x)) = IF x \in Shown(a) THEN {"dict"} ELSE {}
        /\ At(db, Place(x)) = IF x \in Shown(b) THEN {"dict"} ELSE {}
    BY <1>1, DescriptionRead
  <2> QED
    BY <2>1, <2>2, <2>3
<1>7. ASSUME NEW k \in JsonKeys PROVE At(Info(a, x), k) = At(Info(b, x), k)
  <2>1. At(da, Append(Place(x), k)) = At(db, Append(Place(x), k))
    BY <1>4, <1>5, <1>6
  <2>2. k \in Steps
    BY KeysAreSteps
  <2> QED
    BY <1>1, <1>6, <2>1, <2>2, DescriptionRead
<1>8. x \in DOMAIN a /\ x \in DOMAIN b /\ ~Recurs(a, x) /\ ~Recurs(b, x)
  BY <1>6, NothingIsCutOff DEF Shown
<1> QED
  BY <1>7, <1>8, InfoTellsFact DEF Same

(* Surfaces without a difference agree.                                    *)
LEMMA DiffIsExact ==
  ASSUME NEW a \in Modules, NEW b \in Modules, ~NameRepeats(a), ~NameRepeats(b),
         NEW patterns \in Ignores
  PROVE  _diff(describe_module(a), describe_module(b), patterns) = {}
           <=> Compared(a, patterns) = Compared(b, patterns)
<1>1. ASSUME _diff(describe_module(a), describe_module(b), patterns) = {}
      PROVE  Agree(a, b, patterns)
  <2> DEFINE All == DOMAIN a \cup DOMAIN b
             S == {n \in Nat : \A x \in All : Len(x) < n /\ Matters(x, patterns) => Same(a, b, x)}
  <2>1. \A x \in All : Len(x) \in Nat
    BY SurfacePaths
  <2>2. 0 \in S
    BY <2>1
  <2>3. ASSUME NEW n \in Nat, n \in S PROVE n + 1 \in S
    <3>1. ASSUME NEW x \in All, Len(x) < n + 1, Matters(x, patterns) PROVE Same(a, b, x)
      <4>1. ASSUME NEW y \in All, Len(y) < Len(x), Matters(y, patterns) PROVE Same(a, b, y)
        <5>1. Len(y) < n
          BY <2>1, <3>1, <4>1
        <5> QED
          BY <2>3, <4>1, <5>1
      <4> QED
        BY <1>1, <3>1, <4>1, DifferenceIsFound
    <3> QED
      BY <3>1
  <2> HIDE DEF S
  <2>4. \A n \in Nat : n \in S
    BY <2>2, <2>3, SetInduction
  <2>5. ASSUME NEW x \in All, Matters(x, patterns) PROVE Same(a, b, x)
    <3>1. Len(x) + 1 \in S /\ Len(x) < Len(x) + 1
      BY <2>1, <2>4
    <3> QED
      BY <2>5, <3>1 DEF S
  <2> QED
    BY <2>5 DEF Agree
<1> QED
  BY <1>1, AgreementIsFound, ComparedAgree

(* What a comparison holds is of the modules that were built, and its      *)
(* verdict is that of their descriptions.                                  *)
AllDumped == \A l \in Lanes : dumped[l] \in Modules

DumpInv ==
  /\ built \in [Lanes -> Modules] /\ ignore \in Ignores /\ DOMAIN dumped = Lanes
  /\ phase = "dump emit" => dumped["constexpr"] \in Modules
  /\ phase \in {"write constexpr", "write emit", "diff"} => AllDumped
  /\ Finished => AllDumped /\ (status = "0" <=> Mismatches = {})

(* Every step keeps it.                                                    *)
LEMMA DumpNextInv == ASSUME DumpInv, [SurfaceNext]_surfaceVars PROVE DumpInv'
<1>1. CASE Compare
  BY <1>1 DEF Compare, DumpInv, Finished
<1>2. CASE Exit
  <2>1. phase' = "idle" /\ UNCHANGED <<built, ignore, dumped>> /\ AllDumped
    BY <1>2 DEF Exit, DumpInv
  <2>2. Mismatches' = Mismatches /\ AllDumped'
    BY <2>1 DEF Mismatches, AllDumped
  <2>3. status' = "0" <=> Mismatches = {}
    BY <1>2 DEF Exit
  <2> QED
    BY <2>1, <2>2, <2>3 DEF DumpInv
<1>3. CASE KillCompare
  BY <1>3 DEF KillCompare, DumpInv, Finished
<1>4. ASSUME NEW l \in Lanes, Rebuild(l) PROVE DumpInv'
  <2>1. UNCHANGED <<ignore, phase, dumped, status>> /\ built' \in [Lanes -> Modules]
    <3>1. PICK mod \in Rebuilds : built' = [built EXCEPT ![l] = mod]
      BY <1>4 DEF Rebuild
    <3>2. mod \in Modules
      BY SurfacesAreTrees, Zenon
    <3> QED
      BY <1>4, <3>1, <3>2 DEF Rebuild, DumpInv
  <2>2. Mismatches' = Mismatches /\ AllDumped' = AllDumped /\ Finished' = Finished
    BY <2>1 DEF Mismatches, AllDumped, Finished
  <2> QED
    BY <2>1, <2>2 DEF DumpInv
<1>5. ASSUME NEW l \in Lanes, Dumped(l) PROVE DumpInv'
  <2>1. /\ dumped' = [dumped EXCEPT ![l] = built[l]] /\ UNCHANGED <<built, ignore>>
        /\ phase' = IF l = "constexpr" THEN "dump emit" ELSE "write constexpr"
        /\ phase = DumpStep(l)
    BY <1>5 DEF Dumped
  <2>2. dumped'[l] \in Modules /\ DOMAIN dumped' = Lanes
    BY <2>1 DEF DumpInv
  <2>3. CASE l = "constexpr"
    BY <2>1, <2>2, <2>3 DEF DumpInv, Finished
  <2>4. CASE l # "constexpr"
    <3>1. l = "emit" /\ phase = "dump emit"
      BY <2>1, <2>4 DEF Lanes, DumpStep
    <3>2. dumped'["constexpr"] \in Modules
      BY <2>1, <3>1 DEF DumpInv, Lanes
    <3>3. AllDumped'
      BY <2>2, <3>1, <3>2 DEF AllDumped, Lanes
    <3> QED
      BY <2>1, <2>2, <3>1, <3>3 DEF DumpInv, Finished
  <2> QED
    BY <2>3, <2>4
<1>6. ASSUME NEW l \in Lanes, DumpFails(l) PROVE DumpInv'
  BY <1>6 DEF DumpFails, DumpInv, Finished
<1>7. ASSUME NEW l \in Lanes, WriteArtifact(l) PROVE DumpInv'
  <2>1. UNCHANGED <<built, ignore, dumped>> /\ phase' \in {"write emit", "diff"} /\ AllDumped
    BY <1>7 DEF WriteArtifact, WriteStep, DumpInv
  <2>2. AllDumped'
    BY <2>1 DEF AllDumped
  <2> QED
    BY <2>1, <2>2 DEF DumpInv, Finished
<1>8. CASE UNCHANGED surfaceVars
  <2>1. UNCHANGED <<built, ignore, phase, dumped, status>>
    BY <1>8 DEF surfaceVars
  <2>2. Mismatches' = Mismatches /\ AllDumped' = AllDumped /\ Finished' = Finished
    BY <2>1 DEF Mismatches, AllDumped, Finished
  <2> QED
    BY <2>1, <2>2 DEF DumpInv
<1> QED
  BY <1>1, <1>2, <1>3, <1>4, <1>5, <1>6, <1>7, <1>8 DEF SurfaceNext

(* SurfaceVerdictIsExact, for surfaces of every shape and depth: the gate  *)
(* passes exactly the modules in which Python finds the same, what is      *)
(* ignored left aside, unless a class is inside one of its own name.       *)
THEOREM SurfaceVerdictIsExactHolds == SurfaceSpec => []SurfaceVerdictIsExact
<1>1. SurfaceInit => DumpInv
  BY DEF SurfaceInit, DumpInv, Finished
<1>2. DumpInv /\ [SurfaceNext]_surfaceVars => DumpInv'
  BY DumpNextInv
<1>3. DumpInv => SurfaceVerdictIsExact
  <2>1. SUFFICES ASSUME DumpInv, Finished, \A l \in Lanes : ~NameRepeats(dumped[l])
                 PROVE  status = "0" <=> Compared(dumped["constexpr"], ignore) = Compared(dumped["emit"], ignore)
    BY DEF SurfaceVerdictIsExact
  <2>2. /\ dumped["constexpr"] \in Modules /\ ~NameRepeats(dumped["constexpr"])
        /\ dumped["emit"] \in Modules /\ ~NameRepeats(dumped["emit"])
        /\ ignore \in Ignores /\ (status = "0" <=> Mismatches = {})
    BY <2>1 DEF DumpInv, AllDumped, Lanes
  <2> QED
    BY <2>2, DiffIsExact DEF Mismatches
<1> QED
  BY <1>1, <1>2, <1>3, PTL DEF SurfaceSpec
=============================================================================
