------------------------------ MODULE Extension ------------------------------
(***************************************************************************)
(* One Python process that imports an emitted extension module and then    *)
(* calls what it defines: overloads with arguments of exactly the types    *)
(* they were written for, binary operators on every pair of operand types, *)
(* and virtual functions of an object whose Python class overrides some.   *)
(***************************************************************************)
EXTENDS Import, Overloads

VARIABLES
  lastCall,  \* the last call and what came of it
  py         \* the object of a Python subclass: base, overrides, trampoline slots

vars == <<importVars, lastCall, py>>

B == Ext[ext]

(* The statements of a class, and what the types of two of its overloads   *)
(* of one name must be for their order not to matter: some parameter tells *)
(* them apart, or Python cannot tell them apart by any.                    *)
Distinct(M, o, p) ==
  Len(o.params) = Len(p.params) =>
    \/ \E k \in DOMAIN o.params : Accepts(M, o.params[k]) \cap Accepts(M, p.params[k]) = {}
    \/ \A k \in DOMAIN o.params : Accepts(M, o.params[k]) = Accepts(M, p.params[k])

Statements == [name : STRING, params : Seq(STRING), ret : STRING]

ASSUME OverloadsAreDistinct ==
  \A e \in Exts : \A c \in DOMAIN Ext[e].defs :
    /\ Ext[e].defs[c] \in Seq(Statements)
    /\ \A i, j \in DOMAIN Ext[e].defs[c] :
         Ext[e].defs[c][i].name = Ext[e].defs[c][j].name =>
           Distinct(Ext[e], Ext[e].defs[c][i], Ext[e].defs[c][j])

NoCall   == [kind |-> "none"]
NoObject == [base |-> "none", overrides |-> {}, slots |-> {}]

-----------------------------------------------------------------------------
(* A call of an overload: wanted is the overload whose parameter types the *)
(* arguments are, ran the one that nanobind's dispatch picks. Only then is *)
(* the result converted, and a type that nobody bound raises TypeError.    *)
Outcome(wanted, ran) == [kind |-> "overload", wanted |-> wanted, ran |-> ran]

CallOverload ==
  /\ ready
  /\ \E c \in DOMAIN B.defs : \E i \in DOMAIN B.defs[c] : \E args \in ExactCalls(B, B.defs[c][i]) :
        LET wanted == B.defs[c][i]
            chosen == Dispatch(B, c, wanted.name, args)
        IN  lastCall' = IF chosen = 0 THEN [kind |-> "refused", wanted |-> wanted]
                        ELSE Outcome(wanted, B.defs[c][chosen])
  /\ UNCHANGED <<importVars, py>>

-----------------------------------------------------------------------------
(* Binary operators: the method of the left operand, and the reflected one *)
(* of the right operand when the left returned NotImplemented and is of    *)
(* another type.                                                           *)
Operators == << [fwd |-> "__truediv__", rev |-> "__rtruediv__"],
                [fwd |-> "__add__", rev |-> "__radd__"],
                [fwd |-> "__sub__", rev |-> "__rsub__"] >>

Operands == DOMAIN B.classes \cup {"int", "timedelta"}

Method(a, name, b) ==
  IF a \in DOMAIN B.classes THEN Dispatch(B, a, name, <<a, b>>) ELSE 0

\* Fault: the reflected method is never asked.
OperateUnreflected(op, a, b) ==
  LET left == Method(a, op.fwd, b)
  IN  IF left # 0 THEN B.defs[a][left].params ELSE <<>>

(* The C++ operand types of the operator that runs, left operand first.    *)
Operate(op, a, b) ==
  LET left == Method(a, op.fwd, b)
      right == IF a = b THEN 0 ELSE Method(b, op.rev, a)
  IN  IF left # 0 THEN B.defs[a][left].params
      ELSE IF right # 0 THEN Reverse(B.defs[b][right].params)
      ELSE <<>>

CallOperator ==
  /\ ready
  /\ \E i \in DOMAIN Operators : \E a, b \in Operands :
        lastCall' = [kind |-> "operator", op |-> i, left |-> a, right |-> b,
                     ran |-> Operate(Operators[i], a, b)]
  /\ UNCHANGED <<importVars, py>>

-----------------------------------------------------------------------------
(* Virtual functions of the shapes fixture. *)
Virtuals == {"area", "name"}

(* shapes.h: area is pure in Shape; Circle overrides both.                 *)
CppAnswer(base, method) ==
  IF base = "Shape" /\ method = "area" THEN "raises" ELSE base

\* Fault: a slot for the methods a class adds or makes pure only.
TrampolineSizeOwn(base) == IF base = "Shape" THEN 2 ELSE 1

(* NB_TRAMPOLINE(Base, 2): one slot for every method looked up so far.     *)
TrampolineSize(base) == 2

MakeObject ==
  /\ ready /\ py = NoObject
  /\ \E base \in DOMAIN B.classes \cap {"Shape", "Circle"} : \E over \in SUBSET Virtuals :
        py' = [base |-> base, overrides |-> over, slots |-> {}]
  /\ UNCHANGED <<importVars, lastCall>>

(* The trampoline of C++ looks the method up in the Python class, once,    *)
(* and keeps the answer in a slot.                                         *)
Trampoline(method) ==
  CASE Cardinality(py.slots \cup {method}) > TrampolineSize(py.base) -> "aborts"
    [] method \in py.overrides -> "python"
    [] OTHER -> CppAnswer(py.base, method)

(* From C++ through a base reference (call_area, call_name): always the    *)
(* trampoline. From Python: the override itself, or the bound method,      *)
(* whose lambda makes a virtual call.                                      *)
CallVirtual ==
  /\ ready /\ py # NoObject
  /\ \E method \in Virtuals, from \in {"C++", "Python"} :
        LET direct == from = "Python" /\ method \in py.overrides
        IN  /\ lastCall' = [kind |-> "virtual", method |-> method,
                            answer |-> IF direct THEN "python" ELSE Trampoline(method)]
            /\ py' = IF direct THEN py ELSE [py EXCEPT !.slots = @ \cup {method}]
  /\ UNCHANGED importVars

-----------------------------------------------------------------------------
Init == ImportInit /\ lastCall = NoCall /\ py = NoObject

Next ==
  \/ ImportNext /\ UNCHANGED <<lastCall, py>>
  \/ CallOverload
  \/ CallOperator
  \/ MakeObject
  \/ CallVirtual

Spec == Init /\ [][Next]_vars

-----------------------------------------------------------------------------
(* A call with the argument types of one overload of an emitted module may *)
(* run another one only if Python cannot tell their parameters apart (two  *)
(* units of duration, a scalar and a pointer to one): the order in which   *)
(* the overloads were emitted never lets an implicit conversion win.       *)
DispatchIsExact ==
  lastCall.kind = "overload" =>
    /\ DOMAIN lastCall.ran.params = DOMAIN lastCall.wanted.params
    /\ \A i \in DOMAIN lastCall.ran.params :
          Accepts(B, lastCall.ran.params[i]) = Accepts(B, lastCall.wanted.params[i])

(* The operators of C++ that the module emits, as pairs of operand types.  *)
CppOperators(op) ==
  UNION {  {B.defs[c][i].params : i \in Chain(B, c, op.fwd)}
             \cup {Reverse(B.defs[c][i].params) : i \in Chain(B, c, op.rev)} :
           c \in DOMAIN B.classes }

(* A Python operator runs the C++ operator of exactly its operands when    *)
(* C++ has one, whichever operand's method was asked first; and one that   *)
(* C++ does not have works in Python only where an operand stands for an   *)
(* int through its __int__ (month(7) / month(4) is the fourth of July).    *)
OperatorsAreCpp ==
  lastCall.kind = "operator" =>
    LET ops == CppOperators(Operators[lastCall.op])
        Fit(p) == lastCall.left \in Accepts(B, p[1]) /\ lastCall.right \in Accepts(B, p[2])
    IN  IF \E p \in ops : Fit(p) THEN lastCall.ran \in ops /\ Fit(lastCall.ran)
        ELSE lastCall.ran # <<>> =>
               \E i \in 1 .. 2 : /\ lastCall.ran[i] = "int"
                                 /\ <<lastCall.left, lastCall.right>>[i] \in HasInt(B)

(* An overload whose result Python can hold is never hidden by an earlier  *)
(* one that takes the same arguments and returns what nobody bound: the    *)
(* += that a json reverse iterator inherits from std::reverse_iterator     *)
(* returns that base, and is emitted after the class's own.                *)
ResultIsHeld ==
  lastCall.kind = "overload" /\ Returns(B, lastCall.wanted.ret) => Returns(B, lastCall.ran.ret)

(* Whatever was called before and from which side, a virtual call on an    *)
(* object of a Python class runs its override, or else the C++ code of its *)
(* base, and never aborts in the trampoline.                               *)
OverrideReached ==
  lastCall.kind = "virtual" =>
    lastCall.answer = IF lastCall.method \in py.overrides THEN "python"
                      ELSE CppAnswer(py.base, lastCall.method)
=============================================================================
