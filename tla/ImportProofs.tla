----------------------------- MODULE ImportProofs -----------------------------
(***************************************************************************)
(* The import of an extension module is complete, for every module whose   *)
(* names are WellFormed. The invariant follows the calls under way: each   *)
(* frame was called by the one below it for the base before its next, all  *)
(* earlier bases are registered, and a bind function that is past its      *)
(* early return has a type nobody registers in the meantime, because its   *)
(* callees are all of smaller depth.                                       *)
(***************************************************************************)
EXTENDS Extension, Induction, SequenceTheorems, FiniteSetTheorems

Frames == [type : BoundTypes(ext), next : Nat \ {0}]

Shape ==
  /\ ext \in Exts
  /\ returned \in Nat
  /\ stack \in Seq(Frames)
  /\ registered \subseteq BoundTypes(ext)
  /\ ready \in BOOLEAN

(* An attribute is a type's own name, or a function once all is done.      *)
Names ==
  \A n \in DOMAIN attrs :
     \/ attrs[n] = "function" /\ ready
     \/ /\ attrs[n] \in registered
        /\ n = Short(ext, attrs[n]) \/ n = Qual(ext, attrs[n])

(* Who called whom.                                                        *)
Callers ==
  /\ \A i \in 1 .. Len(stack) - 1 :
        /\ stack[i].next - 1 \in DOMAIN Bases(ext, stack[i].type)
        /\ stack[i + 1].type = Bases(ext, stack[i].type)[stack[i].next - 1]
  /\ \A i, j \in 1 .. Len(stack) :
        i < j => Depth[ext][stack[j].type] < Depth[ext][stack[i].type]

(* What the calls under way have registered, and what they have not yet.   *)
Progress ==
  /\ \A i \in 1 .. Len(stack) : \A j \in DOMAIN Bases(ext, stack[i].type) :
        /\ j < stack[i].next - 1 => Bases(ext, stack[i].type)[j] \in registered
        /\ i = Len(stack) /\ j < stack[i].next => Bases(ext, stack[i].type)[j] \in registered
  /\ \A i \in 1 .. Len(stack) : stack[i].next > 1 => stack[i].type \notin registered

(* NB_MODULE's own list.                                                   *)
Listed ==
  /\ returned <= Len(BindCalls(ext))
  /\ \A i \in 1 .. returned : BindCalls(ext)[i] \in registered
  /\ stack # <<>> => returned < Len(BindCalls(ext)) /\ stack[1].type = BindCalls(ext)[returned + 1]
  /\ ready => stack = <<>> /\ returned = Len(BindCalls(ext))

Inv == Shape /\ Names /\ EveryTypeHasItsName /\ BasesComeFirst /\ Callers /\ Progress /\ Listed

-----------------------------------------------------------------------------
(* The stack of a state of the right shape.                                *)
LEMMA StackFacts ==
  ASSUME Shape
  PROVE  /\ Len(stack) \in Nat
         /\ stack # <<>> => Len(stack) >= 1
         /\ \A i \in 1 .. Len(stack) : /\ stack[i] \in Frames
                                       /\ stack[i].type \in BoundTypes(ext)
                                       /\ stack[i].next \in Nat /\ stack[i].next >= 1
<1>1. stack \in Seq(Frames)
  BY DEF Shape
<1>2. Len(stack) \in Nat /\ (stack # <<>> => Len(stack) \in Nat \ {0})
  BY <1>1, EmptySeq, LenProperties
<1>3. \A i \in 1 .. Len(stack) : stack[i] \in Frames
  BY <1>1, ElementOfSeq
<1> QED BY <1>2, <1>3 DEF Frames

(* The bases of a type and the list of a module are sequences of types.    *)
LEMMA ModuleFacts ==
  ASSUME Shape
  PROVE  /\ WellFormed(ext)
         /\ Len(BindCalls(ext)) \in Nat
         /\ \A t \in BoundTypes(ext) :
              /\ Len(Bases(ext, t)) \in Nat
              /\ DOMAIN Bases(ext, t) = 1 .. Len(Bases(ext, t))
              /\ \A i \in DOMAIN Bases(ext, t) : Bases(ext, t)[i] \in BoundTypes(ext)
<1>1. WellFormed(ext)
  BY ExtsAreWellFormed DEF Shape
<1>2. Len(BindCalls(ext)) \in Nat
  BY <1>1, LenProperties DEF WellFormed
<1>3. ASSUME NEW t \in BoundTypes(ext)
      PROVE  /\ Len(Bases(ext, t)) \in Nat
             /\ DOMAIN Bases(ext, t) = 1 .. Len(Bases(ext, t))
             /\ \A i \in DOMAIN Bases(ext, t) : Bases(ext, t)[i] \in BoundTypes(ext)
  <2>1. Bases(ext, t) \in Seq(BoundTypes(ext))
    BY <1>1 DEF WellFormed
  <2> QED BY <2>1, LenProperties, ElementOfSeq
<1> QED BY <1>1, <1>2, <1>3

(* Init establishes the invariant: nothing is registered yet.              *)
LEMMA InitInv == ASSUME ImportInit PROVE Inv
<1>1. Shape /\ Names /\ EveryTypeHasItsName /\ BasesComeFirst
  <2>1. <<>> \in Seq(Frames)
    BY EmptySeq
  <2>2. DOMAIN attrs = {}
    BY DEF ImportInit
  <2> QED BY <2>1, <2>2 DEF ImportInit, Shape, Names, EveryTypeHasItsName, BasesComeFirst
<1>2. Len(stack) = 0
  BY DEF ImportInit
<1>3. Callers /\ Progress
  BY <1>2 DEF Callers, Progress
<1>4. Listed
  BY <1>1, ModuleFacts DEF ImportInit, Listed
<1> QED BY <1>1, <1>3, <1>4 DEF Inv

(* The name a bind function chooses for a type that is not registered is   *)
(* no attribute yet: a type that has the short name and one that has the   *)
(* qualified name would make three types of one short name.                *)
LEMMA NameIsFree ==
  ASSUME Shape, Names, EveryTypeHasItsName, ~ready,
         NEW t \in BoundTypes(ext), t \notin registered
  PROVE  PyName(t) \notin DOMAIN attrs
<1>1. WellFormed(ext)
  BY ExtsAreWellFormed DEF Shape
<1>2. CASE Short(ext, t) \notin DOMAIN attrs
  BY <1>2 DEF PyName
<1>3. CASE Short(ext, t) \in DOMAIN attrs
  <2>1. SUFFICES ASSUME Qual(ext, t) \in DOMAIN attrs PROVE FALSE
    BY <1>3 DEF PyName
  <2> DEFINE u == attrs[Short(ext, t)]
             v == attrs[Qual(ext, t)]
  <2>2. u \in registered /\ u \in BoundTypes(ext) /\ Short(ext, u) = Short(ext, t)
    BY <1>1, <1>3 DEF Names, Shape, WellFormed
  <2>3. v \in registered /\ v \in BoundTypes(ext) /\ Qual(ext, v) = Qual(ext, t)
    BY <1>1, <2>1 DEF Names, Shape, WellFormed
  <2>4. Short(ext, v) = Short(ext, t)
    BY <1>1, <2>3 DEF WellFormed
  <2>5. Short(ext, t) # Qual(ext, t)
    BY <1>1 DEF WellFormed
  <2>6. u # v
    BY <1>3, <2>1, <2>2, <2>3, <2>5 DEF EveryTypeHasItsName
  <2>7. u # t /\ v # t
    BY <2>2, <2>3
  <2>8. u = v \/ u = t \/ v = t
    BY <1>1, <2>2, <2>3, <2>4 DEF WellFormed
  <2> QED BY <2>6, <2>7, <2>8
<1> QED BY <1>2, <1>3

(* NB_MODULE calls the next bind function.                                 *)
LEMMA CallNextInv == ASSUME Inv, CallNext PROVE Inv'
<1>1. WellFormed(ext)
  BY ExtsAreWellFormed DEF Inv, Shape
<1>2. BindCalls(ext)[returned + 1] \in BoundTypes(ext)
  BY <1>1 DEF Inv, Shape, Listed, WellFormed, CallNext
<1>3. stack' = <<Frame(BindCalls(ext)[returned + 1])>> /\ Len(stack') = 1 /\ stack' \in Seq(Frames)
  BY <1>2 DEF CallNext, Frame, Frames
<1>4. stack'[1].next = 1 /\ stack'[1].type = BindCalls(ext)[returned + 1]
  BY <1>3 DEF Frame
<1>5. Shape' /\ Names' /\ EveryTypeHasItsName' /\ BasesComeFirst'
  BY <1>3 DEF Inv, Shape, Names, EveryTypeHasItsName, BasesComeFirst, CallNext, Frames
<1>6. Callers'
  BY <1>3 DEF Callers
<1>7. Progress'
  <2>1. \A j \in DOMAIN Bases(ext, stack'[1].type) : j \in Nat /\ j >= 1
    BY <1>2, <1>4, ModuleFacts DEF Inv
  <2>2. UNCHANGED <<ext, registered>>
    BY DEF CallNext
  <2> QED BY <1>3, <1>4, <2>1, <2>2 DEF Progress
<1>8. Listed'
  BY <1>3, <1>4 DEF Inv, Listed, CallNext, Shape, Importing
<1> QED BY <1>5, <1>6, <1>7, <1>8 DEF Inv

(* A bind function calls that of a base: of smaller depth than all below.  *)
LEMMA CallBaseInv == ASSUME Inv, CallBase PROVE Inv'
<1> DEFINE n == Len(stack)
           T == stack[n].type
           b == Bases(ext, T)[stack[n].next]
<1>1. WellFormed(ext)
  BY ExtsAreWellFormed DEF Inv, Shape
<1>2. n \in Nat /\ n >= 1 /\ stack[n] \in Frames /\ T \in BoundTypes(ext) /\ stack[n].next \in Nat \ {0}
  BY StackFacts DEF Inv, CallBase
<1>3. stack[n].next \in DOMAIN Bases(ext, T) /\ b \in BoundTypes(ext)
      /\ Depth[ext][b] < Depth[ext][T]
  BY <1>1, <1>2 DEF CallBase, Top, WellFormed
<1>4. /\ stack' \in Seq(Frames) /\ Len(stack') = n + 1
      /\ stack'[n + 1] = [type |-> b, next |-> 1]
      /\ stack'[n] = [type |-> T, next |-> stack[n].next + 1]
      /\ \A i \in 1 .. n - 1 : stack'[i] = stack[i]
  BY <1>2, <1>3 DEF CallBase, Top, Frame, Frames, Inv, Shape
<1>5. UNCHANGED <<ext, returned, registered, attrs, ready>> /\ ~ready /\ stack # <<>>
  BY DEF CallBase, Importing
<1>6. Shape' /\ Names' /\ EveryTypeHasItsName' /\ BasesComeFirst'
  BY <1>4, <1>5 DEF Inv, Shape, Names, EveryTypeHasItsName, BasesComeFirst, Frames
<1>7. T \notin registered
  BY <1>2 DEF Inv, Progress, CallBase, Top
<1>8. \A i \in 1 .. n : stack[i] \in Frames /\ stack[i].type \in BoundTypes(ext)
                        /\ stack[i].next \in Nat /\ Depth[ext][stack[i].type] \in Int
  BY <1>1, StackFacts DEF Inv, WellFormed
<1>9. Callers'
  <2>1. ASSUME NEW i \in 1 .. n
        PROVE  /\ stack'[i].next - 1 \in DOMAIN Bases(ext, stack'[i].type)
               /\ stack'[i + 1].type = Bases(ext, stack'[i].type)[stack'[i].next - 1]
    <3>1. CASE i = n
      BY <1>2, <1>3, <1>4, <3>1
    <3>2. CASE i = n - 1 /\ i >= 1
      BY <1>2, <1>4, <3>2 DEF Inv, Callers
    <3>3. CASE i < n - 1
      BY <1>2, <1>4, <3>3 DEF Inv, Callers
    <3>4. i = n \/ (i = n - 1 /\ i >= 1) \/ i < n - 1
      BY <1>2
    <3> QED BY <3>1, <3>2, <3>3, <3>4
  <2>2. ASSUME NEW i \in 1 .. n + 1, NEW j \in 1 .. n + 1, i < j
        PROVE  Depth[ext][stack'[j].type] < Depth[ext][stack'[i].type]
    <3>1. \A k \in 1 .. n : stack'[k].type = stack[k].type
      BY <1>2, <1>4
    <3>2. CASE j <= n
      BY <1>2, <2>2, <3>1, <3>2 DEF Inv, Callers
    <3>3. CASE j = n + 1 /\ i = n
      BY <1>3, <1>4, <3>3
    <3>4. CASE j = n + 1 /\ i < n
      <4>1. Depth[ext][stack[n].type] < Depth[ext][stack[i].type]
        BY <1>2, <3>4 DEF Inv, Callers
      <4>2. Depth[ext][stack[i].type] \in Int /\ Depth[ext][T] \in Int /\ Depth[ext][b] \in Int
        BY <1>1, <1>2, <1>3, <1>8, <3>4 DEF WellFormed
      <4>3. stack'[j].type = b /\ stack'[i].type = stack[i].type
        BY <1>2, <1>4, <3>1, <3>4
      <4> QED BY <1>3, <4>1, <4>2, <4>3
    <3> QED BY <1>2, <2>2, <3>2, <3>3, <3>4
  <2>3. Len(stack') - 1 = n /\ Len(stack') = n + 1
    BY <1>2, <1>4
  <2>4. \A i \in 1 .. Len(stack') - 1 :
           /\ stack'[i].next - 1 \in DOMAIN Bases(ext, stack'[i].type)
           /\ stack'[i + 1].type = Bases(ext, stack'[i].type)[stack'[i].next - 1]
    BY <2>1, <2>3, Zenon
  <2>5. \A i, j \in 1 .. Len(stack') :
           i < j => Depth[ext][stack'[j].type] < Depth[ext][stack'[i].type]
    BY <2>2, <2>3, Zenon
  <2>6. ext' = ext
    BY <1>5
  <2> QED BY <2>4, <2>5, <2>6, Zenon DEF Callers, Bases
<1>10. Progress'
  <2>1. ASSUME NEW i \in 1 .. n + 1, NEW j \in DOMAIN Bases(ext, stack'[i].type)
        PROVE  /\ j < stack'[i].next - 1 => Bases(ext, stack'[i].type)[j] \in registered
               /\ i = n + 1 /\ j < stack'[i].next => Bases(ext, stack'[i].type)[j] \in registered
    <3>1. stack'[i].type \in BoundTypes(ext) /\ j \in Nat /\ j >= 1
      <4>1. stack'[i].type \in BoundTypes(ext)
        BY <1>2, <1>3, <1>4, <1>8
      <4> QED BY <4>1, ModuleFacts DEF Inv
    <3>2. CASE i = n + 1
      BY <1>4, <3>1, <3>2
    <3>3. CASE i = n
      <4>1. stack'[i].type = T /\ stack'[i].next = stack[n].next + 1 /\ i # n + 1
        BY <1>2, <1>4, <3>3
      <4>2. j < stack[n].next => Bases(ext, T)[j] \in registered
        BY <1>2, <4>1 DEF Inv, Progress
      <4> QED BY <1>2, <3>1, <4>1, <4>2
    <3>4. CASE i < n
      <4>1. stack'[i] = stack[i] /\ i # n + 1
        BY <1>2, <1>4, <3>4
      <4>2. j < stack[i].next - 1 => Bases(ext, stack[i].type)[j] \in registered
        BY <1>2, <3>4, <4>1 DEF Inv, Progress
      <4> QED BY <4>1, <4>2
    <3> QED BY <1>2, <3>2, <3>3, <3>4
  <2>2. ASSUME NEW i \in 1 .. n + 1, stack'[i].next > 1
        PROVE  stack'[i].type \notin registered
    BY <1>2, <1>4, <1>7, <2>2 DEF Inv, Progress
  <2> QED BY <1>2, <1>4, <1>5, <2>1, <2>2 DEF Progress
<1>11. Listed'
  <2>1. stack'[1].type = stack[1].type /\ stack' # <<>>
    BY <1>2, <1>4
  <2> QED BY <1>5, <2>1 DEF Inv, Listed
<1> QED BY <1>6, <1>9, <1>10, <1>11 DEF Inv

(* A call returns with its type registered: what is left of the stack is   *)
(* the stack before the call, and its top has one base more registered.    *)
LEMMA ReturnInv ==
  ASSUME Inv, stack # <<>>, ReturnTo(Pop), ext' = ext, ~ready, ready' = ready,
         registered \subseteq registered', registered' \subseteq registered \cup {Top.type},
         Top.type \in registered'
  PROVE  /\ stack' \in Seq(Frames) /\ returned' \in Nat
         /\ Callers' /\ Progress' /\ Listed'
<1> DEFINE n == Len(stack)
<1>1. WellFormed(ext)
  BY ExtsAreWellFormed DEF Inv, Shape
<1>2. n \in Nat /\ n >= 1 /\ Top = stack[n] /\ Top.type \in BoundTypes(ext)
  BY StackFacts DEF Inv, Top
<1>3. /\ stack' \in Seq(Frames) /\ Len(stack') = n - 1
      /\ \A i \in 1 .. n - 1 : stack'[i] = stack[i]
  <2>1. \A i \in 1 .. n - 1 : stack[i] \in Frames
    BY <1>2, StackFacts DEF Inv
  <2>2. stack' = SubSeq(stack, 1, n - 1)
    BY DEF ReturnTo, Pop
  <2>3. /\ SubSeq(stack, 1, n - 1) \in Seq(Frames)
        /\ Len(SubSeq(stack, 1, n - 1)) = IF 1 <= n - 1 THEN (n - 1) - 1 + 1 ELSE 0
        /\ \A i \in 1 .. (n - 1) - 1 + 1 : SubSeq(stack, 1, n - 1)[i] = stack[1 + i - 1]
    <3>1. n - 1 \in Int
      BY <1>2
    <3> QED BY <2>1, <3>1, SubSeqProperties
  <2>4. n - 1 = (n - 1) - 1 + 1 /\ (n = 1 => n - 1 = 0) /\ (n # 1 => 1 <= n - 1)
    <3>1. \A k \in Nat : k >= 1 => /\ k - 1 = (k - 1) - 1 + 1 /\ (k = 1 => k - 1 = 0)
                                   /\ (k # 1 => 1 <= k - 1)
      OBVIOUS
    <3> QED BY <1>2, <3>1
  <2>5. \A i \in 1 .. n - 1 : 1 + i - 1 = i
    OBVIOUS
  <2>6. Len(stack') = n - 1
    BY <1>2, <2>2, <2>3, <2>4
  <2>7. \A i \in 1 .. n - 1 : stack'[i] = stack[i]
    BY <2>2, <2>3, <2>4, <2>5
  <2> QED BY <2>2, <2>3, <2>6, <2>7
<1>4. \A i \in 1 .. n : stack[i] \in Frames /\ stack[i].type \in BoundTypes(ext) /\ stack[i].next \in Nat
  BY StackFacts DEF Inv
<1>5. \A i \in 1 .. n - 1 : stack[i].type # Top.type
  <2>1. \A i \in 1 .. n - 1 : Depth[ext][stack[n].type] < Depth[ext][stack[i].type]
    BY <1>2 DEF Inv, Callers
  <2>2. Depth[ext][Top.type] \in Nat
    BY <1>1, <1>2 DEF WellFormed
  <2> QED BY <1>2, <2>1, <2>2
<1>6. Callers'
  <2>1. ext' = ext /\ Len(stack') = n - 1 /\ \A i \in 1 .. n - 1 : i \in 1 .. n
    BY <1>2, <1>3
  <2>2. ASSUME NEW i \in 1 .. Len(stack') - 1
        PROVE  /\ stack'[i].next - 1 \in DOMAIN Bases(ext, stack'[i].type)
               /\ stack'[i + 1].type = Bases(ext, stack'[i].type)[stack'[i].next - 1]
    <3>1. i \in 1 .. n - 1 /\ i + 1 \in 1 .. n - 1
      BY <1>2, <2>1
    <3> QED BY <1>2, <1>3, <3>1 DEF Inv, Callers
  <2>3. ASSUME NEW i \in 1 .. Len(stack'), NEW j \in 1 .. Len(stack'), i < j
        PROVE  Depth[ext][stack'[j].type] < Depth[ext][stack'[i].type]
    <3>1. stack'[i] = stack[i] /\ stack'[j] = stack[j] /\ i \in 1 .. n /\ j \in 1 .. n
      BY <1>3, <2>1
    <3> QED BY <1>2, <2>3, <3>1 DEF Inv, Callers
  <2> QED BY <2>1, <2>2, <2>3 DEF Callers, Bases
<1>7. Progress'
  <2>1. ASSUME NEW i \in 1 .. n - 1, NEW j \in DOMAIN Bases(ext, stack[i].type)
        PROVE  /\ j < stack[i].next - 1 => Bases(ext, stack[i].type)[j] \in registered'
               /\ i = n - 1 /\ j < stack[i].next => Bases(ext, stack[i].type)[j] \in registered'
    <3>1. stack[i].type \in BoundTypes(ext) /\ stack[i].next \in Nat /\ j \in Nat
      BY <1>2, <1>4, ModuleFacts DEF Inv
    <3>2. j < stack[i].next - 1 => Bases(ext, stack[i].type)[j] \in registered'
      BY <1>2, <3>1 DEF Inv, Progress
    <3>3. CASE i = n - 1 /\ j = stack[i].next - 1
      BY <1>2, <3>3 DEF Inv, Callers
    <3> QED BY <3>1, <3>2, <3>3
  <2>2. ASSUME NEW i \in 1 .. n - 1, stack[i].next > 1
        PROVE  stack[i].type \notin registered'
    BY <1>2, <1>5, <2>2 DEF Inv, Progress
  <2> QED BY <1>2, <1>3, <2>1, <2>2 DEF Progress
<1>8. returned' \in Nat /\ Listed'
  <2>1. CASE n = 1
    <3>1. stack' = <<>> /\ returned' = returned + 1
      BY <1>2, <1>3, <2>1 DEF ReturnTo
    <3>2. BindCalls(ext)[returned + 1] \in registered'
      BY <1>2, <2>1 DEF Inv, Listed
    <3>3. Len(BindCalls(ext)) \in Nat
      BY <1>1 DEF WellFormed
    <3> QED BY <3>1, <3>2, <3>3 DEF Inv, Shape, Listed
  <2>2. CASE n # 1
    <3>1. stack' # <<>> /\ returned' = returned /\ stack'[1] = stack[1]
      BY <1>2, <1>3, <2>2 DEF ReturnTo
    <3> QED BY <3>1 DEF Inv, Shape, Listed
  <2> QED BY <2>1, <2>2
<1> QED BY <1>3, <1>6, <1>7, <1>8

(* The early return of a type that is registered.                          *)
LEMMA AlreadyBoundInv == ASSUME Inv, AlreadyBound PROVE Inv'
<1>1. UNCHANGED <<ext, registered, attrs, ready>> /\ Top.type \in registered
  BY DEF AlreadyBound
<1>2. stack' \in Seq(Frames) /\ returned' \in Nat /\ Callers' /\ Progress' /\ Listed'
  BY <1>1, ReturnInv DEF AlreadyBound, Importing
<1> QED BY <1>1, <1>2 DEF Inv, Shape, Names, EveryTypeHasItsName, BasesComeFirst, Frames

(* The registration under a name that is free.                             *)
LEMMA RegisterInv == ASSUME Inv, Register PROVE Inv'
<1> DEFINE T == Top.type
           p == PyName(T)
<1>1. WellFormed(ext)
  BY ExtsAreWellFormed DEF Inv, Shape
<1>2. Len(stack) \in Nat /\ Len(stack) >= 1 /\ Top = stack[Len(stack)] /\ Top \in Frames
  BY StackFacts DEF Inv, Register, Top
<1>3. T \in BoundTypes(ext) /\ T \notin registered
  BY <1>2 DEF Frames, Register, Inv, Progress
<1>4. registered' = registered \cup {T} /\ UNCHANGED <<ext, ready>> /\ ~ready
  BY DEF Register, Importing
<1>5. stack' \in Seq(Frames) /\ returned' \in Nat /\ Callers' /\ Progress' /\ Listed'
  BY <1>4, ReturnInv DEF Register
<1>6. p \notin DOMAIN attrs
  BY <1>3, <1>4, NameIsFree DEF Inv
<1>7. /\ DOMAIN attrs' = DOMAIN attrs \cup {p} /\ attrs'[p] = T
      /\ \A m \in DOMAIN attrs : attrs'[m] = attrs[m]
  BY <1>6 DEF Register, SetAttr
<1>8. Shape'
  BY <1>3, <1>4, <1>5 DEF Inv, Shape, Frames
<1>9. Names'
  BY <1>4, <1>7 DEF Inv, Names, PyName
<1>10. \A m \in DOMAIN attrs : attrs[m] # T
  BY <1>1, <1>3, <1>4 DEF Inv, Names
<1>11. EveryTypeHasItsName'
  BY <1>4, <1>6, <1>7, <1>10 DEF Inv, EveryTypeHasItsName
<1>12. BasesComeFirst'
  <2>1. \A i \in DOMAIN Bases(ext, T) : i < Top.next
    BY <1>2, <1>3, ModuleFacts DEF Inv, Register, Frames
  <2>2. \A i \in DOMAIN Bases(ext, T) : Bases(ext, T)[i] \in registered
    BY <1>2, <2>1 DEF Inv, Progress
  <2> QED BY <1>4, <2>2 DEF Inv, BasesComeFirst
<1> QED BY <1>5, <1>8, <1>9, <1>11, <1>12 DEF Inv

(* The free functions take no type's name.                                 *)
LEMMA DefineFunctionsInv == ASSUME Inv, DefineFunctions PROVE Inv'
<1> DEFINE F == Ext[ext].functions
<1>1. WellFormed(ext)
  BY ExtsAreWellFormed DEF Inv, Shape
<1>2. UNCHANGED <<ext, returned, stack, registered>> /\ ready' /\ stack = <<>>
      /\ returned = Len(BindCalls(ext)) /\ ~ready
  BY DEF DefineFunctions, Importing
<1>3. /\ DOMAIN attrs' = DOMAIN attrs \cup F
      /\ \A n \in F : attrs'[n] = "function"
      /\ \A n \in DOMAIN attrs : n \notin F => attrs'[n] = attrs[n]
  BY DEF DefineFunctions
<1>4. \A n \in DOMAIN attrs : n \notin F
  BY <1>1, <1>2 DEF Inv, Shape, Names, WellFormed
<1>5. registered \subseteq BoundTypes(ext) /\ \A t \in registered : t # "function"
  BY <1>1 DEF Inv, Shape, WellFormed
<1>6. Shape' /\ BasesComeFirst' /\ Callers' /\ Progress' /\ Listed'
  BY <1>2 DEF Inv, Shape, BasesComeFirst, Callers, Progress, Listed, Frames
<1>7. Names'
  BY <1>2, <1>3, <1>4 DEF Inv, Names
<1>8. EveryTypeHasItsName'
  BY <1>2, <1>3, <1>4, <1>5 DEF Inv, EveryTypeHasItsName
<1> QED BY <1>6, <1>7, <1>8 DEF Inv

(* The invariant holds throughout the import.                              *)
LEMMA InvHolds == ImportSpec => []Inv
<1>1. ImportInit => Inv
  BY InitInv
<1>2. Inv /\ [ImportNext]_importVars => Inv'
  <2> SUFFICES ASSUME Inv, [ImportNext]_importVars PROVE Inv'
    OBVIOUS
  <2>1. CASE CallNext
    BY <2>1, CallNextInv
  <2>2. CASE AlreadyBound
    BY <2>2, AlreadyBoundInv
  <2>3. CASE CallBase
    BY <2>3, CallBaseInv
  <2>4. CASE Register
    BY <2>4, RegisterInv
  <2>5. CASE DefineFunctions
    BY <2>5, DefineFunctionsInv
  <2>6. CASE UNCHANGED importVars
    BY <2>6 DEF importVars, Inv, Shape, Names, EveryTypeHasItsName, BasesComeFirst, Callers,
       Progress, Listed, Frames
  <2> QED BY <2>1, <2>2, <2>3, <2>4, <2>5, <2>6 DEF ImportNext
<1> QED BY <1>1, <1>2, PTL DEF ImportSpec

-----------------------------------------------------------------------------
(* ImportIsComplete, for every extension module: no type is lost to        *)
(* another one of its name, bases are registered before the classes        *)
(* derived from them, and every listed type is bound when NB_MODULE ends.  *)
THEOREM ImportCompletes == ImportSpec => []ImportIsComplete
<1>1. Inv => ImportIsComplete
  BY DEF Inv, Shape, Listed, ImportIsComplete
<1> QED BY <1>1, InvHolds, PTL

(* The process that also calls what it imports does so too.                *)
LEMMA SpecImports == Spec => ImportSpec
<1>1. Init => ImportInit
  BY DEF Init
<1>2. [Next]_vars => [ImportNext]_importVars
  BY DEF Next, vars, importVars, CallOverload, CallOperator, MakeObject, CallVirtual
<1> QED BY <1>1, <1>2, PTL DEF Spec, ImportSpec

THEOREM ProcessImports == Spec => []ImportIsComplete
  BY SpecImports, ImportCompletes, PTL

-----------------------------------------------------------------------------
(* Virtual functions. The slots of a trampoline hold virtual functions     *)
(* only, so that two are enough; and the object stays, once there is one.  *)
Objects == [base : {"Shape", "Circle"}, overrides : SUBSET Virtuals, slots : SUBSET Virtuals]

ObjectInv ==
  /\ py = NoObject \/ py \in Objects
  /\ lastCall.kind = "virtual" => py # NoObject
  /\ OverrideReached

LEMMA TwoSlots == ASSUME NEW S \in SUBSET Virtuals PROVE Cardinality(S) \in Nat /\ Cardinality(S) <= 2
<1>1. IsFiniteSet({}) /\ Cardinality({}) = 0
  BY FS_EmptySet
<1>2. IsFiniteSet({"area"}) /\ Cardinality({"area"}) = 1
  BY FS_Singleton
<1>3. {"area"} \cup {"name"} = Virtuals /\ "name" \notin {"area"}
  BY DEF Virtuals
<1>4. IsFiniteSet(Virtuals) /\ Cardinality(Virtuals) = 2
  <2>1. /\ IsFiniteSet({"area"} \cup {"name"})
        /\ Cardinality({"area"} \cup {"name"}) = 1 + 1
    BY <1>2, <1>3, FS_AddElement
  <2> QED BY <1>3, <2>1
<1>5. IsFiniteSet(S) /\ Cardinality(S) <= Cardinality(Virtuals)
  BY <1>4, FS_Subset
<1>6. Cardinality(S) \in Nat
  BY <1>5, FS_CardinalityType
<1> QED BY <1>4, <1>5, <1>6

LEMMA CallVirtualInv == ASSUME ObjectInv, CallVirtual PROVE ObjectInv'
<1>1. PICK method \in Virtuals, from \in {"C++", "Python"} :
        LET direct == from = "Python" /\ method \in py.overrides
        IN  /\ lastCall' = [kind |-> "virtual", method |-> method,
                            answer |-> IF direct THEN "python" ELSE Trampoline(method)]
            /\ py' = IF direct THEN py ELSE [py EXCEPT !.slots = @ \cup {method}]
  BY DEF CallVirtual
<1>2. py \in Objects /\ py # NoObject
  BY DEF CallVirtual, ObjectInv
<1>3. py' \in Objects /\ py'.base = py.base /\ py'.overrides = py.overrides
  BY <1>1, <1>2 DEF Objects
<1>4. py' # NoObject
  BY <1>3 DEF Objects, NoObject
<1>5. Cardinality(py.slots \cup {method}) \in Nat /\ Cardinality(py.slots \cup {method}) <= 2
  <2>1. py.slots \cup {method} \in SUBSET Virtuals
    BY <1>2 DEF Objects
  <2> QED BY <2>1, TwoSlots
<1>6. Trampoline(method) = IF method \in py.overrides THEN "python" ELSE CppAnswer(py.base, method)
  BY <1>5 DEF Trampoline, TrampolineSize
<1>7. /\ lastCall'.method = method
      /\ lastCall'.answer = IF method \in py.overrides THEN "python" ELSE CppAnswer(py.base, method)
  BY <1>1, <1>6
<1>8. OverrideReached'
  BY <1>3, <1>7 DEF OverrideReached, CppAnswer
<1> QED BY <1>3, <1>4, <1>8 DEF ObjectInv

(* OverrideReached, for every emitted module: whatever was called before,  *)
(* from Python or from C++, a virtual call runs the override of the Python *)
(* class or the code of its base, and finds room in the trampoline.        *)
THEOREM OverrideReachedHolds == Spec => []OverrideReached
<1>1. Init => ObjectInv
  BY DEF Init, ObjectInv, OverrideReached, NoCall
<1>2. ObjectInv /\ [Next]_vars => ObjectInv'
  <2> SUFFICES ASSUME ObjectInv, [Next]_vars PROVE ObjectInv'
    OBVIOUS
  <2>1. CASE UNCHANGED <<lastCall, py>>
    BY <2>1 DEF ObjectInv, OverrideReached
  <2>2. CASE CallOverload
    <3>1. lastCall'.kind # "virtual" /\ py' = py
      BY <2>2 DEF CallOverload, Outcome
    <3> QED BY <3>1 DEF ObjectInv, OverrideReached
  <2>3. CASE CallOperator
    <3>1. lastCall'.kind # "virtual" /\ py' = py
      BY <2>3 DEF CallOperator
    <3> QED BY <3>1 DEF ObjectInv, OverrideReached
  <2>4. CASE MakeObject
    <3>1. lastCall'.kind # "virtual" /\ py' \in Objects
      BY <2>4 DEF MakeObject, ObjectInv, Objects
    <3> QED BY <3>1 DEF ObjectInv, OverrideReached
  <2>5. CASE CallVirtual
    BY <2>5, CallVirtualInv
  <2> QED BY <2>1, <2>2, <2>3, <2>4, <2>5 DEF Next, vars
<1>3. ObjectInv => OverrideReached
  BY DEF ObjectInv
<1> QED BY <1>1, <1>2, <1>3, PTL DEF Spec

-----------------------------------------------------------------------------
(* Overloads: what OverloadsAreDistinct says of the statements of a class. *)
LEMMA StatementFacts ==
  ASSUME NEW e \in Exts, NEW c \in DOMAIN Ext[e].defs
  PROVE  LET defs == Ext[e].defs[c]
         IN  /\ defs \in Seq(Statements)
             /\ DOMAIN defs = 1 .. Len(defs) /\ Len(defs) \in Nat
             /\ \A i \in DOMAIN defs : defs[i].params \in Seq(STRING)
             /\ \A i, j \in DOMAIN defs : defs[i].name = defs[j].name => Distinct(Ext[e], defs[i], defs[j])
<1> DEFINE defs == Ext[e].defs[c]
<1>1. /\ defs \in Seq(Statements)
      /\ \A i, j \in DOMAIN defs : defs[i].name = defs[j].name => Distinct(Ext[e], defs[i], defs[j])
  BY OverloadsAreDistinct
<1> HIDE DEF defs
<1>2. DOMAIN defs = 1 .. Len(defs) /\ Len(defs) \in Nat /\ \A i \in DOMAIN defs : defs[i] \in Statements
  BY <1>1
<1>3. \A i \in DOMAIN defs : defs[i].params \in Seq(STRING)
  BY <1>2 DEF Statements
<1> QED BY <1>1, <1>2, <1>3 DEF defs

(* The arguments of an exact call are as many as the parameters.           *)
LEMMA ExactCallFacts ==
  ASSUME NEW M, NEW o, o.params \in Seq(STRING), NEW args \in ExactCalls(M, o)
  PROVE  /\ Len(args) = Len(o.params) /\ DOMAIN args = DOMAIN o.params
         /\ \A n \in DOMAIN args : args[n] \in Accepts(M, o.params[n])
<1>1. \A n \in DOMAIN args : args[n] \in Accepts(M, o.params[n])
  BY DEF ExactCalls
<1> DEFINE T == UNION {Accepts(M, o.params[n]) : n \in DOMAIN o.params}
<1>2. args \in [DOMAIN o.params -> T]
  BY DEF ExactCalls
<1> HIDE DEF T
<1>3. Len(o.params) \in Nat /\ DOMAIN o.params = 1 .. Len(o.params)
  OBVIOUS
<1>4. args \in Seq(T) /\ Len(args) = Len(o.params)
  BY <1>2, <1>3
<1> QED BY <1>1, <1>2, <1>4

(* A call whose arguments are those of an overload never comes  *)
(* to the second pass, so that no conversion takes part in it.             *)
LEMMA DispatchTakesExact ==
  ASSUME NEW e \in Exts, NEW c \in DOMAIN Ext[e].defs, NEW i \in DOMAIN Ext[e].defs[c],
         NEW args \in ExactCalls(Ext[e], Ext[e].defs[c][i])
  PROVE  LET name == Ext[e].defs[c][i].name
             k == Dispatch(Ext[e], c, name, args)
         IN  /\ k \in DOMAIN Ext[e].defs[c] /\ k # 0
             /\ Ext[e].defs[c][k].name = name
             /\ Len(Ext[e].defs[c][k].params) = Len(args)
             /\ \A n \in DOMAIN args : args[n] \in Accepts(Ext[e], Ext[e].defs[c][k].params[n])
<1> DEFINE M == Ext[e]
           defs == Ext[e].defs[c]
           name == defs[i].name
           exact == {j \in Chain(M, c, name) : Fits(defs[j], args, LAMBDA t : Accepts(M, t))}
<1>1. /\ defs \in Seq(Statements)
      /\ DOMAIN defs = 1 .. Len(defs) /\ Len(defs) \in Nat
      /\ defs[i].params \in Seq(STRING)
  BY StatementFacts
<1>2. /\ Len(defs[i].params) = Len(args) /\ DOMAIN args = DOMAIN defs[i].params
      /\ \A n \in DOMAIN args : args[n] \in Accepts(M, defs[i].params[n])
  BY <1>1, ExactCallFacts
<1>3. i \in exact /\ exact \in SUBSET DOMAIN defs
  <2>1. i \in Chain(M, c, name)
    BY DEF Chain
  <2>2. Fits(defs[i], args, LAMBDA t : Accepts(M, t))
    BY <1>2 DEF Fits
  <2>3. exact \in SUBSET DOMAIN defs
    BY DEF Chain
  <2> QED BY <2>1, <2>2, <2>3
<1>7. exact \in SUBSET Nat /\ exact # {}
  <2> HIDE DEF defs, M, exact
  <2> QED BY <1>1, <1>3
<1>4. First(exact) \in exact
  BY <1>7, LeastMember, Zenon DEF First
<1>5. Dispatch(M, c, name, args) = First(exact)
  BY <1>7 DEF Dispatch
<1> HIDE DEF First
<1>6. First(exact) # 0
  <2> HIDE DEF defs, M, exact
  <2> QED BY <1>1, <1>3, <1>4
<1> QED BY <1>4, <1>5, <1>6 DEF Chain, Fits

(* DispatchIsExact, for all modules whose overloads of one name are        *)
(* Distinct: in whatever order they were emitted, a call runs an overload  *)
(* that takes what the one it was meant for takes.                         *)
THEOREM DispatchIsExactHolds == Spec => []DispatchIsExact
<1>1. Init => DispatchIsExact
  BY DEF Init, DispatchIsExact, NoCall
<1>2. DispatchIsExact /\ Inv /\ [Next]_vars => DispatchIsExact'
  <2> SUFFICES ASSUME DispatchIsExact, Inv, [Next]_vars PROVE DispatchIsExact'
    OBVIOUS
  <2>1. ext' = ext
    BY DEF Next, vars, importVars, ImportNext, CallNext, AlreadyBound, CallBase, Register,
       DefineFunctions, CallOverload, CallOperator, MakeObject, CallVirtual
  <2>2. CASE lastCall' = lastCall
    BY <2>1, <2>2 DEF DispatchIsExact, B
  <2>3. CASE CallOverload
    <3> DEFINE Called(c, i, args) ==
                 LET wanted == B.defs[c][i]
                     chosen == Dispatch(B, c, wanted.name, args)
                 IN  lastCall' = IF chosen = 0 THEN [kind |-> "refused", wanted |-> wanted]
                                 ELSE Outcome(wanted, B.defs[c][chosen])
    <3>0. \E c \in DOMAIN B.defs : \E i \in DOMAIN B.defs[c] :
             \E args \in ExactCalls(B, B.defs[c][i]) : Called(c, i, args)
      BY <2>3 DEF CallOverload
    <3> HIDE DEF Called
    <3>a. PICK c \in DOMAIN B.defs : \E i \in DOMAIN B.defs[c] :
             \E args \in ExactCalls(B, B.defs[c][i]) : Called(c, i, args)
      BY <3>0
    <3>b. PICK i \in DOMAIN B.defs[c] : \E args \in ExactCalls(B, B.defs[c][i]) : Called(c, i, args)
      BY <3>a
    <3>1. PICK args \in ExactCalls(B, B.defs[c][i]) : Called(c, i, args)
      BY <3>b
    <3> DEFINE wanted == B.defs[c][i]
               k == Dispatch(B, c, wanted.name, args)
    <3>2. ext \in Exts
      BY DEF Inv, Shape
    <3>3. /\ k \in DOMAIN B.defs[c] /\ k # 0 /\ B.defs[c][k].name = wanted.name
          /\ Len(B.defs[c][k].params) = Len(args)
          /\ \A n \in DOMAIN args : args[n] \in Accepts(B, B.defs[c][k].params[n])
      BY <3>2, DispatchTakesExact DEF B
    <3>4. lastCall' = Outcome(wanted, B.defs[c][k])
      BY <3>1, <3>3 DEF Called
    <3>5. lastCall'.wanted = wanted /\ lastCall'.ran = B.defs[c][k]
      BY <3>4 DEF Outcome
    <3>6. /\ wanted.params \in Seq(STRING) /\ B.defs[c][k].params \in Seq(STRING)
          /\ Distinct(B, wanted, B.defs[c][k])
      BY <3>2, <3>3, StatementFacts, Zenon DEF B
    <3>7. /\ Len(args) = Len(wanted.params) /\ DOMAIN args = DOMAIN wanted.params
          /\ \A n \in DOMAIN args : args[n] \in Accepts(B, wanted.params[n])
      BY <3>6, ExactCallFacts
    <3> HIDE DEF wanted, k
    <3>10. \A n \in DOMAIN wanted.params :
             Accepts(B, wanted.params[n]) \cap Accepts(B, B.defs[c][k].params[n]) # {}
      BY <3>3, <3>7
    <3>11. \A n \in DOMAIN wanted.params :
             Accepts(B, wanted.params[n]) = Accepts(B, B.defs[c][k].params[n])
      BY <3>3, <3>6, <3>7, <3>10 DEF Distinct
    <3>12. DOMAIN B.defs[c][k].params = DOMAIN wanted.params
      BY <3>3, <3>6, <3>7
    <3>13. B' = B
      BY <2>1 DEF B
    <3> QED BY <3>5, <3>11, <3>12, <3>13 DEF DispatchIsExact
  <2>4. CASE lastCall'.kind \in {"operator", "virtual"}
    BY <2>4 DEF DispatchIsExact
  <2> QED BY <2>2, <2>3, <2>4 DEF Next, vars, CallOperator, MakeObject, CallVirtual
<1> QED BY <1>1, <1>2, SpecImports, InvHolds, PTL DEF Spec
=============================================================================
