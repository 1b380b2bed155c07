------------------------------ MODULE BindSet ------------------------------
(***************************************************************************)
(* How a reflect_ pack becomes the set of entities to bind. The binder is  *)
(* a submodule; this is its bind set as the probes 12_exclude_if.cpp and   *)
(* 13_match_instantiate.cpp and the packs of corpus/runs rely on it.       *)
(*                                                                         *)
(* Every exclusion of the pack is in force from the start. Each element    *)
(* expands to its seeds, in order; a namespace contributes its members;    *)
(* and what the signatures of a bound class mention is bound in turn,      *)
(* unless the signature mentions something excluded. The order in which    *)
(* the bound classes are visited is left open.                             *)
(***************************************************************************)
EXTENDS Matchers

CONSTANT Cases  \* the packs: [world, pack, claims] each

VARIABLES
  case,      \* the pack at hand
  seeds,     \* the seeds of the elements expanded so far
  bound,     \* the bind set
  unvisited  \* the bound entities whose signatures are still to be read

vars == <<case, seeds, bound, unvisited>>

D    == case.world
Pack == case.pack

Elements(kind) == {Pack[i] : i \in {j \in DOMAIN Pack : Pack[j].el = kind}}
Listed == UNION {x.listed : x \in Elements("exclude")}
Preds  == UNION {x.preds : x \in Elements("exclude")}

Hit(e) == e \in Listed \/ AnyAccepts(D, Preds, e)

\* An entity is excluded with its template and with whatever it is declared in.
Excluded(e) ==
  LET d == Dealias(D, e)
  IN  Hit(d) \/ \E i \in DOMAIN d.path : Hit(Plain(SubSeq(d.path, 1, i)))

(* The arguments of a specialisation are looked at, but a function type    *)
(* among them is taken as it is: what it is made of escapes the exclusion  *)
(* (corpus/findings/BINDER-0027, open).                                    *)
Tainted(e) ==
  Excluded(e) \/ \E i \in DOMAIN Dealias(D, e).args : Excluded(Plain(Dealias(D, e).args[i]))

-----------------------------------------------------------------------------
Inside(scope) == {p \in DOMAIN D : IsStrictPrefix(scope, p)}

\* The walk goes from scope down to p through namespaces that Open lets it enter.
Reached(scope, p, Open(_)) ==
  \A i \in Len(scope) + 1 .. Len(p) - 1 :
    LET q == SubSeq(p, 1, i) IN Kind(D, q) = "namespace" /\ Open(Plain(q))

NamespaceMembers(ns) ==
  {Plain(p) : p \in {q \in Inside(ns) : /\ Kind(D, q) \in {"class", "enum", "function"}
                                        /\ Reached(ns, q, LAMBDA x : TRUE)}}

\* A nested namespace the matcher accepts is a seed; any other is searched.
MatchSeeds(el) ==
  {Dealias(D, Plain(p)) :
     p \in {q \in Inside(el.scope) :
              /\ Accepts(D, el.matcher, Plain(q)) /\ EntityKind(D, Plain(q)) # "template"
              /\ ~Tainted(Plain(q))
              /\ Reached(el.scope, q, LAMBDA x : ~Accepts(D, el.matcher, x))}}

\* Matched templates are sought in the namespaces of the pack and of its match_ markers.
Roots ==
  {x.scope : x \in Elements("match")}
  \cup {x.entity.path : x \in {y \in Elements("entity") :
                                 EntityKind(D, y.entity) = "namespace"}}

Targets(el) ==
  IF el.target = "direct" THEN {el.template}
  ELSE {p \in UNION {Inside(r) : r \in Roots} :
          Kind(D, p) = "template" /\ Accepts(D, el.matcher, Plain(p)) /\ ~Excluded(Plain(p))}

Corners(sets) == {c \in [DOMAIN sets -> UNION Range(sets)] : \A i \in DOMAIN sets : c[i] \in sets[i]}

\* A listed tuple is taken; a corner of a product that does not substitute is skipped.
InstantiateSeeds(el) ==
  UNION {{Specialised(t, c) : c \in el.rule.tuples \cup
                             (IF el.rule.sets = <<>> THEN {}
                              ELSE Corners(el.rule.sets) \ D[t].refuses)}
         : t \in Targets(el)}

SeedsOf(el) ==
  CASE el.el = "entity"      -> {el.entity}
    [] el.el = "exclude"     -> {}
    [] el.el = "match"       -> MatchSeeds(el)
    [] el.el = "instantiate" -> InstantiateSeeds(el)

\* reflect_enum skips an enum that has no identifier, after the matcher has taken it.
Skipped(e) == EntityKind(D, e) = "enum" /\ Last(Dealias(D, e).path) = ""

Contributes(e) ==
  {x \in IF EntityKind(D, e) = "namespace" THEN NamespaceMembers(e.path) ELSE {Dealias(D, e)} :
     ~Tainted(x) /\ ~Skipped(x)}

(* What the signatures of a bound class bring in, aliases resolved. Each   *)
(* is taken whole or dropped, and what a type caster converts needs no     *)
(* class: a callback's std::function is not bound, the member that takes   *)
(* it is.                                                                  *)
Discovered(e) ==
  IF e.path \notin DOMAIN D THEN {}
  ELSE {x \in {Dealias(D, y) : y \in UNION {s \in D[e.path].signatures : \A z \in s : ~Tainted(z)}} :
          Kind(D, x.path) # "caster"}

ToVisit(es) == {e \in es : Discovered(e) # {}}

-----------------------------------------------------------------------------
Init ==
  /\ case \in Cases
  /\ seeds = <<>> /\ bound = {} /\ unvisited = {}

Grow(new) ==
  /\ bound' = bound \cup new
  /\ unvisited' = unvisited \cup ToVisit(new \ bound)

Expand ==
  /\ Len(seeds) < Len(Pack)
  /\ LET new == SeedsOf(Pack[Len(seeds) + 1])
     IN  /\ seeds' = Append(seeds, new)
         /\ Grow(UNION {Contributes(e) : e \in new})
  /\ UNCHANGED case

Discover ==
  /\ Len(seeds) = Len(Pack)
  /\ \E e \in unvisited :
       /\ bound' = bound \cup Discovered(e)
       /\ unvisited' = (unvisited \ {e}) \cup ToVisit(Discovered(e) \ bound)
  /\ UNCHANGED <<case, seeds>>

Next == Expand \/ Discover

Spec == Init /\ [][Next]_vars

Complete == Len(seeds) = Len(Pack) /\ unvisited = {}

-----------------------------------------------------------------------------
\* A claim is about the seeds of one element, or about the bind set at the end (of = 0).
About(claim) == IF claim.of = 0 THEN bound ELSE seeds[claim.of]

\* The classes, enums and functions that the pack itself lists.
ListedEntities == {x.entity : x \in {y \in Elements("entity") : EntityKind(D, y.entity) # "namespace"}}

(* Every bind set comes out as its pack's comments and static_asserts say: *)
(* what they name is there, what they rule out is not, and where they      *)
(* count, the count is right; and no exclusion, however wide its globs,    *)
(* takes away an entity that the pack itself lists.                        *)
BindSetAsClaimed ==
  Complete =>
    /\ \A claim \in case.claims :
         /\ claim.has \subseteq About(claim)
         /\ claim.lacks \cap About(claim) = {}
         /\ claim.size \in {NoCount, Cardinality(About(claim))}
    /\ \A e \in ListedEntities : Dealias(D, e) \in bound
=============================================================================
