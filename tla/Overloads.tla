------------------------------ MODULE Overloads ------------------------------
(***************************************************************************)
(* The statements of an emitted binding module (binding.gen.cpp) as data,  *)
(* and how a call from Python picks one of them.                           *)
(*                                                                         *)
(* A statement cls.def(name, lambda) is an overload: its name, the C++     *)
(* types of its parameters without const and references (self first), and  *)
(* the C++ type it returns.                                                *)
(* A module is a record:                                                   *)
(*   classes  the C++ types it binds, each with its Python name, the name  *)
(*            it falls back to and the bases its bind function calls first *)
(*   calls    the bind functions NB_MODULE calls, in order                 *)
(*   defs     the overloads of each class, in the order of their cls.def   *)
(***************************************************************************)
EXTENDS Integers, Sequences, FiniteSets, SequencesExt

Def(name, params, ret) == [name |-> name, params |-> params, ret |-> ret]

(* Families of statements that differ in one place only. *)
Ctors(T, sigs)   == [i \in DOMAIN sigs  |-> Def("__init__", sigs[i], T)]
Getters(T, gs)   == [i \in DOMAIN gs    |-> Def(gs[i][1], <<T>>, gs[i][2])]
Statics(names, T) == [i \in DOMAIN names |-> Def(names[i], <<>>, T)]
Compare(T, ops)  == [i \in DOMAIN ops   |-> Def(ops[i], <<T, T>>, "bool")]
Binary(op, T, rs) == [i \in DOMAIN rs   |-> Def(op, <<T, rs[i][1]>>, rs[i][2])]
InPlace(T, D)    == << Def("__iadd__", <<T, D>>, T), Def("__isub__", <<T, D>>, T) >>
Attrs(T, F, names) ==
    [i \in DOMAIN names |-> Def(names[i], <<T>>, F)]
    \o [i \in DOMAIN names |-> Def(names[i], <<T, F>>, "void")]

Eq2 == << "__eq__", "__ne__" >>
Rel6 == Eq2 \o << "__lt__", "__gt__", "__le__", "__ge__" >>

Class(name, qual, bases) == [name |-> name, qual |-> qual, bases |-> bases]

-----------------------------------------------------------------------------
(* nanobind, as the emitted modules use it. *)

(* The Python types a type caster accepts for a C++ type that is not bound *)
(* by the module; a type with no caster accepts nothing. A duration of any *)
(* unit is a timedelta, and a pointer to a scalar is taken from a scalar.  *)
CasterTypes ==
    [ bool |-> {"bool"}, int |-> {"int"}, float |-> {"float"},
      float_ptr |-> {"float"}, str |-> {"str"}, none |-> {"NoneType"},
      days |-> {"timedelta"}, months |-> {"timedelta"}, years |-> {"timedelta"},
      sys_days |-> {"datetime"}, local_days |-> {"timedelta"},
      bytes_list |-> {"list_int"}, int_list |-> {"list_int"},
      float_list |-> {"list_float"}, str_map |-> {"dict_str"} ]

Accepts(B, T) ==
    CASE T \in DOMAIN B.classes ->
            {c \in DOMAIN B.classes : c = T \/ Contains(B.classes[c].bases, T)}
      [] T \in DOMAIN B.vectors ->
            IF B.vectors[T] \in DOMAIN B.classes THEN {T} ELSE {}
      [] T \in DOMAIN CasterTypes -> CasterTypes[T]
      [] OTHER -> {}

HasInt(B) == {c \in DOMAIN B.defs :
                \E i \in DOMAIN B.defs[c] : B.defs[c][i].name = "__int__"}

(* What the second pass converts besides: an int parameter takes whatever  *)
(* Python's int() takes (numeric strings are left out), a float parameter  *)
(* also takes an int.                                                      *)
Converts(B, T) ==
    Accepts(B, T) \cup
    CASE T = "int"   -> {"bool"} \cup HasInt(B)
      [] T \in {"float", "float_ptr"} -> {"int"}
      [] OTHER -> {}

Fits(o, args, Takes(_)) ==
    /\ Len(o.params) = Len(args)
    /\ \A i \in DOMAIN args : args[i] \in Takes(o.params[i])

(* The overloads that a class has under a name: nanobind's chain of them.  *)
Chain(B, cls, name) == {i \in DOMAIN B.defs[cls] : B.defs[cls][i].name = name}

First(S) == CHOOSE i \in S : \A j \in S : i <= j

\* Fault: one pass, in which every overload converts.
DispatchOnePass(B, cls, name, args) ==
    LET conv == {i \in Chain(B, cls, name) :
                   Fits(B.defs[cls][i], args, LAMBDA t : Converts(B, t))}
    IN  IF conv # {} THEN First(conv) ELSE 0

(* The overload a call runs: the first, in the order of their definition,  *)
(* that takes the arguments as they are, or else the first that takes them *)
(* converted; 0 when there is none (TypeError, or NotImplemented of an     *)
(* operator).                                                              *)
Dispatch(B, cls, name, args) ==
    LET chain == Chain(B, cls, name)
        exact == {i \in chain : Fits(B.defs[cls][i], args, LAMBDA t : Accepts(B, t))}
        conv  == {i \in chain : Fits(B.defs[cls][i], args, LAMBDA t : Converts(B, t))}
    IN  IF exact # {} THEN First(exact)
        ELSE IF conv # {} THEN First(conv) ELSE 0

(* A value of this C++ type can be returned to Python. *)
Returns(B, T) == T = "void" \/ Accepts(B, T) # {}

(* The argument types that fit an overload without any conversion. *)
ExactCalls(B, o) ==
    {args \in [DOMAIN o.params -> UNION {Accepts(B, o.params[i]) : i \in DOMAIN o.params}] :
        \A i \in DOMAIN args : args[i] \in Accepts(B, o.params[i])}
=============================================================================
