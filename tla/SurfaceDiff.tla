---------------------------- MODULE SurfaceDiff ----------------------------
(***************************************************************************)
(* surface_diff.py, Gate 6b: the modules of the two lanes are described,   *)
(* the descriptions written and compared.                                  *)
(*                                                                         *)
(* A surface is a tree, given by its paths: the sequence of names that     *)
(* leads from the module through classes to an attribute, and what is      *)
(* there, a class with its bases, or an attribute with its kind, its       *)
(* docstring or value and, for a property, whether it can be set. A JSON   *)
(* document is a tree too: the set of its <<keys, value>>, the value of an *)
(* object being "dict".                                                    *)
(***************************************************************************)
EXTENDS Integers, Sequences, TLC

CONSTANTS
  Modules,      \* the surfaces that a lane's module can have
  Ignores,      \* the sets of surface_diff_ignore patterns, each as the names it is found in
  Rebuilds,     \* bound: those of them that a later build gives a lane
  MaxCompares   \* bound: comparisons made

Lanes == {"constexpr", "emit"}

NoAttrs == [n \in {} |-> n]

Attr(kind, doc, writable) == [kind |-> kind, doc |-> doc, writable |-> writable, bases |-> ""]
ClassOf(bases, doc)       == [kind |-> "class", doc |-> doc, writable |-> FALSE, bases |-> bases]

\* A path of names goes through classes, and what has no bases to show has none.
ASSUME SurfacesAreTrees ==
  /\ Rebuilds \subseteq Modules
  /\ \A mod \in Modules : \A path \in DOMAIN mod :
       /\ path \in Seq(STRING) /\ path # <<>>
       /\ \A i \in 1 .. Len(path) - 1 :
            SubSeq(path, 1, i) \in DOMAIN mod /\ mod[SubSeq(path, 1, i)].kind = "class"
       /\ mod[path].kind \in {"class", "method", "property", "int", "str"}
       /\ mod[path].kind # "class" => mod[path].bases = ""
       /\ mod[path].writable \in BOOLEAN

\* The keys of a description, which no ignore pattern is about.
JsonKeys == {"kind", "doc", "writable", "value", "bases", "attrs", "recursive"}

ASSUME IgnoresAreNames == \A patterns \in Ignores : patterns \cap JsonKeys = {}

SYNTH_DUNDERS == {"__init__", "__eq__"}
Dunders       == SYNTH_DUNDERS \cup {"__module__"}

_interesting(name) == name \in Dunders => name \in SYNTH_DUNDERS

-----------------------------------------------------------------------------
\* A class inside one of its name is cut off as recursive, whatever it holds.
Recurs(mod, path) ==
  mod[path].kind = "class" /\ \E i \in 1 .. Len(path) - 1 : path[i] = path[Len(path)]

_describe_attr(attr) ==
  {<<"kind", attr.kind>>}
  \cup (IF attr.kind \in {"method", "property"} THEN {<<"doc", attr.doc>>} ELSE {})
  \cup (IF attr.kind = "property" THEN {<<"writable", attr.writable>>} ELSE {})
  \cup (IF attr.kind \in {"int", "str"} THEN {<<"value", attr.doc>>} ELSE {})

_describe_class(mod, path) ==
  IF Recurs(mod, path) THEN {<<"recursive", TRUE>>}
  ELSE {<<"bases", mod[path].bases>>, <<"doc", mod[path].doc>>, <<"attrs", "dict">>}

Info(mod, path) ==
  IF mod[path].kind = "class" THEN _describe_class(mod, path) ELSE _describe_attr(mod[path])

\* What is described: no dunder at the top, only some in a class, and nothing below a cut.
NamesShown(path) == path[1] \notin Dunders /\ \A i \in DOMAIN path : _interesting(path[i])

Shown(mod) ==
  {path \in DOMAIN mod :
     NamesShown(path) /\ \A i \in 1 .. Len(path) - 1 : ~Recurs(mod, SubSeq(path, 1, i))}

\* The keys that lead to an attribute in the description: its names, "attrs" between any two.
Place(path) ==
  [i \in 1 .. 2 * Len(path) - 1 |-> IF i % 2 = 1 THEN path[(i + 1) \div 2] ELSE "attrs"]

describe_module(mod) ==
  {<<<<>>, "dict">>} \cup {<<Place(path), "dict">> : path \in Shown(mod)}
  \cup UNION {{<<Append(Place(path), member[1]), member[2]>> : member \in Info(mod, path)} :
               path \in Shown(mod)}

Keys(doc)   == {entry[1] : entry \in doc}
At(doc, at) == {entry[2] : entry \in {x \in doc : x[1] = at}}

\* rx.search on the path: a pattern is found inside one of its names, here none spans two of them.
Ignored(path, patterns) == \E i \in DOMAIN path : path[i] \in patterns

\* The walk goes down through what is an object in both, and stops at what is ignored.
Visited(a, b, at, patterns) ==
  /\ ~Ignored(at, patterns)
  /\ \A i \in 0 .. Len(at) - 1 : "dict" \in At(a, SubSeq(at, 1, i)) \cap At(b, SubSeq(at, 1, i))

\* Fault: only the keys that both objects have are compared.
_diff_common(a, b, patterns) ==
  {at \in Keys(a) \cap Keys(b) : Visited(a, b, at, patterns) /\ At(a, at) # At(b, at)}

\* _diff: the paths at which one has a key and the other not, or the values differ.
_diff(a, b, patterns) ==
  {at \in Keys(a) \cup Keys(b) : Visited(a, b, at, patterns) /\ At(a, at) # At(b, at)}

-----------------------------------------------------------------------------
VARIABLES
  built,     \* the module in each lane's build directory
  ignore,    \* the ignore patterns of meta.toml
  phase,     \* "idle", or the step that compare is at
  dumped,    \* the surface of each lane that its dump found
  artifact,  \* surface_constexpr.json and surface_emit.json
  status,    \* the exit status of the last comparison, or "killed"
  before,    \* history: the artifacts as that comparison found them
  compares

surfaceVars == <<built, ignore, phase, dumped, artifact, status, before, compares>>

Absent == "absent"
Torn   == "torn"

SurfaceInit ==
  /\ built \in [Lanes -> Modules] /\ ignore \in Ignores
  /\ phase = "idle" /\ dumped = [l \in Lanes |-> NoAttrs] /\ status = "none" /\ compares = 0
  /\ artifact = [l \in Lanes |-> <<Absent, {}>>] /\ before = artifact

\* An invocation of run_gates.py builds a lane anew.
Rebuild(lane) ==
  /\ phase = "idle" /\ built' \in {[built EXCEPT ![lane] = mod] : mod \in Rebuilds}
  /\ UNCHANGED <<ignore, phase, dumped, artifact, status, before, compares>>

Compare ==
  /\ phase = "idle" /\ compares < MaxCompares
  /\ phase' = "dump constexpr" /\ compares' = compares + 1 /\ before' = artifact
  /\ UNCHANGED <<built, ignore, dumped, artifact, status>>

DumpStep(lane) == IF lane = "constexpr" THEN "dump constexpr" ELSE "dump emit"

Described(lane) == <<"json", describe_module(built[lane])>>

\* Fault: each dump writes its artifact before the other lane is dumped.
DumpedAndWritten(lane) ==
  /\ phase = DumpStep(lane)
  /\ dumped' = [dumped EXCEPT ![lane] = built[lane]]
  /\ artifact' = [artifact EXCEPT ![lane] = Described(lane)]
  /\ phase' = IF lane = "constexpr" THEN "dump emit" ELSE "write constexpr"
  /\ UNCHANGED <<built, ignore, status, before, compares>>

\* dump_lane, when the module imports.
Dumped(lane) ==
  /\ phase = DumpStep(lane)
  /\ dumped' = [dumped EXCEPT ![lane] = built[lane]]
  /\ phase' = IF lane = "constexpr" THEN "dump emit" ELSE "write constexpr"
  /\ UNCHANGED <<built, ignore, artifact, status, before, compares>>

\* dump_lane, when the interpreter of a lane fails: sys.exit(3).
DumpFails(lane) ==
  /\ phase = DumpStep(lane)
  /\ phase' = "idle" /\ status' = "3"
  /\ UNCHANGED <<built, ignore, dumped, artifact, before, compares>>

WriteStep(lane) == IF lane = "constexpr" THEN "write constexpr" ELSE "write emit"

WriteArtifact(lane) ==
  /\ phase = WriteStep(lane)
  /\ artifact' = [artifact EXCEPT ![lane] = <<"json", describe_module(dumped[lane])>>]
  /\ phase' = IF lane = "constexpr" THEN "write emit" ELSE "diff"
  /\ UNCHANGED <<built, ignore, dumped, status, before, compares>>

Mismatches ==
  _diff(describe_module(dumped["constexpr"]), describe_module(dumped["emit"]), ignore)

Exit ==
  /\ phase = "diff"
  /\ status' = (IF Mismatches = {} THEN "0" ELSE "1") /\ phase' = "idle"
  /\ UNCHANGED <<built, ignore, dumped, artifact, before, compares>>

\* A kill: write_text may be between its truncation and its end.
KillCompare ==
  /\ phase # "idle" /\ phase' = "idle" /\ status' = "killed"
  /\ \/ UNCHANGED artifact
     \/ \E lane \in Lanes : phase = WriteStep(lane) /\ artifact' = [artifact EXCEPT ![lane] = <<Torn, {}>>]
  /\ UNCHANGED <<built, ignore, dumped, before, compares>>

SurfaceNext ==
  \/ Compare \/ Exit \/ KillCompare
  \/ \E lane \in Lanes : Rebuild(lane) \/ Dumped(lane) \/ DumpFails(lane) \/ WriteArtifact(lane)

SurfaceSpec == SurfaceInit /\ [][SurfaceNext]_surfaceVars

-----------------------------------------------------------------------------
Finished == phase = "idle" /\ status \in {"0", "1"}

(* A verdict is backed by the two artifacts on disk, which both describe   *)
(* the modules it compared, and a dump that failed (exit 3) left both as   *)
(* they were: never one of this comparison beside one of another, unless a *)
(* kill fell between the writes. (surface_diff.py:139-156.)                *)
ArtifactsBackVerdict ==
  /\ Finished => \A l \in Lanes : artifact[l] = <<"json", describe_module(dumped[l])>>
  /\ phase = "idle" /\ status = "3" => artifact = before

\* Reference: what Python finds at a path of names, of a property alone whether it can be set.
Fact(mod, path) ==
  <<path, mod[path].kind, mod[path].doc,
    mod[path].kind = "property" /\ mod[path].writable, mod[path].bases>>

Compared(mod, patterns) ==
  {Fact(mod, path) : path \in {x \in DOMAIN mod : NamesShown(x) /\ ~Ignored(x, patterns)}}

\* A class inside a class of its own name.
NameRepeats(mod) ==
  \E path \in DOMAIN mod : \E i, j \in DOMAIN path : i < j /\ path[i] = path[j]

(* The gate passes exactly the modules whose surfaces agree in every class,*)
(* base, docstring, value and property, at any depth, what the ignore list *)
(* names and what nanobind adds by itself left aside. Modules with a class *)
(* inside one of its own name are excepted: describing cuts those off.     *)
(* (_describe_class surface_diff.py:63-79, _diff :102-117.)                *)
SurfaceVerdictIsExact ==
  Finished /\ (\A l \in Lanes : ~NameRepeats(dumped[l])) =>
    (status = "0" <=> Compared(dumped["constexpr"], ignore) = Compared(dumped["emit"], ignore))
=============================================================================
