-------------------------------- MODULE Import --------------------------------
(***************************************************************************)
(* What importing an emitted extension module does: NB_MODULE calls the    *)
(* bind function of each type of the pack, in the pack's order, and then   *)
(* defines the free functions. A bind function returns when its type is    *)
(* registered already; otherwise it calls the bind functions of the bases, *)
(* then registers the type under its short name, or under its qualified    *)
(* name when the module has an attribute of the short one.                 *)
(***************************************************************************)
EXTENDS Integers, Sequences

CONSTANTS
  Exts,  \* the extension modules
  Ext,   \* of each: classes (per type: name, qual, bases), calls, functions
  Depth  \* of each: how far a type is above the types without bases

VARIABLES
  ext,        \* the module that is imported
  returned,   \* how many calls of NB_MODULE have returned
  stack,      \* the bind functions under way, the innermost last
  registered, \* the types nanobind knows
  attrs,      \* the module's attributes: name -> type, or "function"
  ready       \* NB_MODULE has returned

importVars == <<ext, returned, stack, registered, attrs, ready>>

BoundTypes(e) == DOMAIN Ext[e].classes
Short(e, t) == Ext[e].classes[t].name
Qual(e, t)  == Ext[e].classes[t].qual
Bases(e, t) == Ext[e].classes[t].bases
BindCalls(e) == Ext[e].calls

Frame(t)  == [type |-> t, next |-> 1]
Top       == stack[Len(stack)]
Pop       == SubSeq(stack, 1, Len(stack) - 1)

(* The shape of a module (no class is a base of itself, at any distance),  *)
(* and what its names must be for the fallback to be enough: no three      *)
(* types share a short name, a qualified name is never a short one, and a  *)
(* free function has neither.                                              *)
WellFormed(e) ==
  /\ \A t \in BoundTypes(e) :
        /\ t # "function"
        /\ Depth[e][t] \in Nat
        /\ Bases(e, t) \in Seq(BoundTypes(e))
        /\ \A i \in DOMAIN Bases(e, t) : Depth[e][Bases(e, t)[i]] < Depth[e][t]
  /\ BindCalls(e) \in Seq(BoundTypes(e))
  /\ \A t, u, v \in BoundTypes(e) :
        Short(e, t) = Short(e, u) /\ Short(e, u) = Short(e, v) => t = u \/ u = v \/ t = v
  /\ \A t, u \in BoundTypes(e) : /\ Short(e, t) # Qual(e, u)
                                 /\ Qual(e, t) = Qual(e, u) => Short(e, t) = Short(e, u)
  /\ \A f \in Ext[e].functions, t \in BoundTypes(e) : f # Short(e, t) /\ f # Qual(e, t)

ASSUME ExtsAreWellFormed == \A e \in Exts : WellFormed(e)

-----------------------------------------------------------------------------
ImportInit ==
  /\ ext \in Exts
  /\ returned = 0
  /\ stack = <<>>
  /\ registered = {}
  /\ attrs = [n \in {} |-> "function"]
  /\ ready = FALSE

Importing == ~ready

(* NB_MODULE calls the next bind function of its list. *)
CallNext ==
  /\ Importing /\ stack = <<>> /\ returned < Len(BindCalls(ext))
  /\ stack' = <<Frame(BindCalls(ext)[returned + 1])>>
  /\ UNCHANGED <<ext, returned, registered, attrs, ready>>

(* The innermost bind function returns to its caller. *)
ReturnTo(rest) ==
  /\ stack' = rest
  /\ returned' = IF rest = <<>> THEN returned + 1 ELSE returned

(* if (nb::type<T>().is_valid()) return; only on entry. *)
AlreadyBound ==
  /\ Importing /\ stack # <<>> /\ Top.next = 1
  /\ Top.type \in registered
  /\ ReturnTo(Pop)
  /\ UNCHANGED <<ext, registered, attrs, ready>>

(* The bases come first, whatever the order of the list. *)
CallBase ==
  /\ Importing /\ stack # <<>>
  /\ Top.next = 1 => Top.type \notin registered
  /\ Top.next <= Len(Bases(ext, Top.type))
  /\ stack' = Append([stack EXCEPT ![Len(stack)].next = @ + 1],
                     Frame(Bases(ext, Top.type)[Top.next]))
  /\ UNCHANGED <<ext, returned, registered, attrs, ready>>

\* Fault: the fallback name is never taken.
PyNameShort(t) == Short(ext, t)

PyName(t) == IF Short(ext, t) \in DOMAIN attrs THEN Qual(ext, t) ELSE Short(ext, t)

SetAttr(n, value) ==
  attrs' = [m \in DOMAIN attrs \cup {n} |-> IF m = n THEN value ELSE attrs[m]]

(* nb::class_<T, Bases...>(m, py_name) and its overloads. *)
Register ==
  /\ Importing /\ stack # <<>>
  /\ Top.next = 1 => Top.type \notin registered
  /\ Top.next > Len(Bases(ext, Top.type))
  /\ registered' = registered \cup {Top.type}
  /\ SetAttr(PyName(Top.type), Top.type)
  /\ ReturnTo(Pop)
  /\ UNCHANGED <<ext, ready>>

(* The m.def statements that follow the calls. *)
DefineFunctions ==
  /\ Importing /\ stack = <<>> /\ returned = Len(BindCalls(ext))
  /\ attrs' = [n \in DOMAIN attrs \cup Ext[ext].functions |->
                  IF n \in Ext[ext].functions THEN "function" ELSE attrs[n]]
  /\ ready' = TRUE
  /\ UNCHANGED <<ext, returned, stack, registered>>

ImportNext == CallNext \/ AlreadyBound \/ CallBase \/ Register \/ DefineFunctions

ImportSpec == ImportInit /\ [][ImportNext]_importVars

-----------------------------------------------------------------------------
(* Every registered type is an attribute of the module under exactly one   *)
(* name: no later type and no function took it over.                       *)
EveryTypeHasItsName ==
  \A t \in registered : \E n \in DOMAIN attrs :
     /\ attrs[n] = t
     /\ \A m \in DOMAIN attrs : attrs[m] = t => m = n

(* A type is registered after its bases, in whatever order the pack lists  *)
(* them: nanobind refuses a class whose base it does not know.             *)
BasesComeFirst ==
  \A t \in registered : \A i \in DOMAIN Bases(ext, t) : Bases(ext, t)[i] \in registered

(* The import of an extension never loses a type to another one of its     *)
(* name, registers bases before the classes derived from them, and ends    *)
(* with every type of the list bound.                                      *)
ImportIsComplete ==
  /\ EveryTypeHasItsName
  /\ BasesComeFirst
  /\ ready => \A i \in DOMAIN BindCalls(ext) : BindCalls(ext)[i] \in registered
=============================================================================
