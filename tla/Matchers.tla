------------------------------ MODULE Matchers ------------------------------
(***************************************************************************)
(* The matcher vocabulary of a reflect_ pack: predicates over entities, as *)
(* gcc16-proveout/probes/10_matcher_spike.cpp builds them and probe 11     *)
(* pins them down for the binder's header, a submodule.                    *)
(*                                                                         *)
(* An entity is a path of identifiers and template arguments, paths too.   *)
(* D gives the declaration of each path: its kind, the entity an alias     *)
(* stands for, the bases of a class, the signatures that mention others,   *)
(* and the arguments a template's constraint refuses.                      *)
(***************************************************************************)
EXTENDS GlobPattern, SequencesExt

Plain(path)             == [path |-> path, args |-> <<>>]
Specialised(path, args) == [path |-> path, args |-> args]

Declared(kind) ==
  [kind |-> kind, of |-> Plain(<<>>), bases |-> {}, signatures |-> {}, refuses |-> {}]

Kind(D, path) == IF path \in DOMAIN D THEN D[path].kind ELSE "builtin"

Dealias(D, e) == IF Kind(D, e.path) = "alias" THEN D[e.path].of ELSE e

\* std::meta calls a specialisation a type; only the bare template is one.
EntityKind(D, e) ==
  LET d == Dealias(D, e)
  IN  IF d.args # <<>> /\ Kind(D, d.path) = "template" THEN "class" ELSE Kind(D, d.path)

IsType(D, e) == EntityKind(D, e) \in {"class", "incomplete", "enum", "builtin"}

-----------------------------------------------------------------------------
(* The leaves. An entity without an identifier of its own has no name to   *)
(* match: a builtin type, a function type, the global namespace, which is  *)
(* the empty path, and what is declared without one, whose path ends so.   *)

NameOf(D, path) ==
  IF Kind(D, path) \in {"builtin", "function type"} \/ Last(path) = "" THEN <<>> ELSE <<Last(path)>>

\* Fault: the name that is written, of an alias too.
NameAsWritten(D, e) == NameOf(D, e.path)

Name(D, e) == NameOf(D, Dealias(D, e).path)

Named(D, pattern, e) == \E n \in ToSet(Name(D, e)) : Matches(pattern, n)

NamedType(D, pattern, e) == IsType(D, e) /\ Named(D, pattern, e)

IsClass(D, e) == EntityKind(D, e) \in {"class", "incomplete"}

InNamespace(D, ns, e) == IsStrictPrefix(ns, Dealias(D, e).path)

\* A class is derived from itself; one that is never defined, from nothing.
DerivedFrom(D, base, e) ==
  LET ancestors[n \in Nat] ==
        IF n = 0 THEN {Dealias(D, e).path}
        ELSE ancestors[n - 1] \cup
               UNION {D[c].bases : c \in ancestors[n - 1] \cap DOMAIN D}
  IN  EntityKind(D, e) = "class" /\ base \in ancestors[3]

named_(pattern)        == [op |-> "named", pattern |-> pattern]
named_type_(pattern)   == [op |-> "named type", pattern |-> pattern]
in_namespace_(ns)      == [op |-> "in", ns |-> ns]
derived_from_(base)    == [op |-> "derived", base |-> base]
is_class_              == [op |-> "class"]
kind_(kind)            == [op |-> "kind", kind |-> kind]
all_of_(matchers)      == [op |-> "all", of |-> matchers]
any_of_(matchers)      == [op |-> "any", of |-> matchers]
not_(matcher)          == [op |-> "not", of |-> <<matcher>>]

\* The matchers that a matcher is made of: combinators nest three deep at most in the packs.
Parts(m) ==
  LET parts[n \in Nat] ==
        IF n = 0 THEN {m}
        ELSE parts[n - 1] \cup
               UNION {ToSet(x.of) : x \in {y \in parts[n - 1] : y.op \in {"all", "any", "not"}}}
  IN  parts[3]

Accepts(D, m, e) ==
  LET accepts[x \in Parts(m)] ==
        CASE x.op = "named"      -> Named(D, x.pattern, e)
          [] x.op = "named type" -> NamedType(D, x.pattern, e)
          [] x.op = "in"         -> InNamespace(D, x.ns, e)
          [] x.op = "derived"    -> DerivedFrom(D, x.base, e)
          [] x.op = "class"      -> IsClass(D, e)
          [] x.op = "kind"       -> EntityKind(D, e) = x.kind
          [] x.op = "all"        -> \A i \in DOMAIN x.of : accepts[x.of[i]]
          [] x.op = "any"        -> \E i \in DOMAIN x.of : accepts[x.of[i]]
          [] x.op = "not"        -> ~accepts[x.of[1]]
  IN  accepts[m]

\* any_pred_matches: the predicates gathered from the markers of a pack.
AnyAccepts(D, preds, e) == \E m \in preds : Accepts(D, m, e)

\* count_matches: the types of one scope, not of the scopes inside it.
MembersAccepted(D, scope, preds) ==
  {p \in DOMAIN D : /\ Len(p) = Len(scope) + 1 /\ IsPrefix(scope, p)
                    /\ IsType(D, Plain(p)) /\ AnyAccepts(D, preds, Plain(p))}

-----------------------------------------------------------------------------
(* The elements of a pack, and a claim about what they come to: of = 0 is  *)
(* about the bind set, of = i about the seeds of element i.                *)
entity_(e) == [el |-> "entity", entity |-> e]
exclude_(listed, preds) == [el |-> "exclude", listed |-> listed, preds |-> preds]
match_(scope, m) == [el |-> "match", scope |-> scope, matcher |-> m]
with_(tuples) == [tuples |-> tuples, sets |-> <<>>]
product_(sets) == [tuples |-> {}, sets |-> sets]
instantiate_(template, rule) ==
  [el |-> "instantiate", target |-> "direct", template |-> template, rule |-> rule]
instantiate_matched_(m, rule) ==
  [el |-> "instantiate", target |-> "matched", matcher |-> m, rule |-> rule]

NoCount == 0 - 1  \* a claim that counts nothing

SeedClaim(i, has, lacks, size) == [of |-> i, has |-> has, lacks |-> lacks, size |-> size]
SetClaim(has, lacks)           == SeedClaim(0, has, lacks, NoCount)
Case_(world, pack, claims)     == [world |-> world, pack |-> pack, claims |-> claims]
=============================================================================
