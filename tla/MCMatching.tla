----------------------------- MODULE MCMatching -----------------------------
(***************************************************************************)
(* What is bound, for TLC, one session at a time: the tables of the probes *)
(* are read, glob_match runs on one pattern and one name, one pack becomes *)
(* its bind set, or the modules of the two lanes are compared.             *)
(***************************************************************************)
EXTENDS Glob, BindSet, Packs, SurfaceDiff

VARIABLE session  \* "tables", "glob", "packs" or "surface"

Strings(chars, n) ==
  LET of[i \in 0 .. n] == IF i = 0 THEN {""} ELSE of[i - 1] \cup {x \o c : x \in of[i - 1], c \in chars}
  IN  of[n]

MCPatterns == Strings({"a", "b", "*", "?"}, 4) \cup {row[1] : row \in HeaderGlobTable}
MCSubjects == Strings({"a", "b"}, 4) \cup {row[2] : row \in HeaderGlobTable}

Nothing == Case_(<<>>, <<>>, {})

MCCases == {PackCases[c] : c \in DOMAIN PackCases}

NoGlob == pat = "" /\ str = "" /\ p = 1 /\ s = 1 /\ star = 0 /\ ss = 0 /\ answer = "yes"
NoPack == case = Nothing /\ seeds = <<>> /\ bound = {} /\ unvisited = {}

\* Surfaces that differ in one place each, at the top, in a class, and in one nested twice.
Doc1 == Attr("method", "f(self)", FALSE)
Doc2 == Attr("method", "f(self, x)", FALSE)
ClassA == <<"A">> :> ClassOf("object", "A")
MethodF(doc) == <<"A", "f">> :> doc
OfA(name, attr) == ClassA @@ MethodF(Doc1) @@ <<"A", name>> :> attr
WithInner(name) == OfA(name, ClassOf("object", "B"))
MCModules ==
  { <<"f">> :> Doc1, ClassA @@ MethodF(Doc1), ClassA @@ MethodF(Doc2),
    <<"A">> :> ClassOf("Base", "A") @@ MethodF(Doc1),
    OfA("__module__", Attr("str", "m", FALSE)),
    OfA("p", Attr("property", "p", FALSE)), OfA("p", Attr("property", "p", TRUE)),
    WithInner("B") @@ <<"A", "B", "v">> :> Attr("int", "1", FALSE),
    WithInner("B") @@ <<"A", "B", "v">> :> Attr("int", "2", FALSE),
    WithInner("B") @@ <<"A", "B", "B">> :> ClassOf("object", "B") @@ <<"A", "B", "__eq__">> :> Doc1,
    WithInner("A") @@ <<"A", "A", "f">> :> Doc1, WithInner("A") @@ <<"A", "A", "f">> :> Doc2 }
MCRebuilds == {<<"f">> :> Doc1}
MCIgnores == {{}, {"f"}, {"B", "p"}}

NoSurface ==
  /\ built = [l \in Lanes |-> NoAttrs] /\ ignore = {} /\ phase = "idle" /\ dumped = built
  /\ status = "none" /\ compares = 0 /\ artifact = <<>> /\ before = <<>>

MatchingInit ==
  \/ session = "tables" /\ NoGlob /\ NoPack /\ NoSurface
  \/ session = "glob" /\ GlobInit /\ NoPack /\ NoSurface
  \/ session = "packs" /\ NoGlob /\ Init /\ NoSurface
  \/ session = "surface" /\ NoGlob /\ NoPack /\ SurfaceInit

RunGlob    == session = "glob" /\ GlobNext /\ UNCHANGED <<vars, surfaceVars, session>>
RunPack    == session = "packs" /\ Next /\ UNCHANGED <<globVars, surfaceVars, session>>
RunCompare == session = "surface" /\ SurfaceNext /\ UNCHANGED <<globVars, vars, session>>

MatchingNext == RunGlob \/ RunPack \/ RunCompare

MatchingSpec ==
  MatchingInit /\ [][MatchingNext]_<<globVars, vars, surfaceVars, session>> /\ WF_globVars(RunGlob)

(* What probes 10 and 11 assert of the matchers, the tables of globs, of   *)
(* leaves with their hostile inputs, and of combinators, holds of them.    *)
MatchersAsAsserted == session = "tables" => Asserted
=============================================================================
