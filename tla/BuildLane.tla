------------------------------ MODULE BuildLane ------------------------------
(***************************************************************************)
(* Gate 4 of one run directory on one backend: the scripts build_module.sh *)
(* (constexpr lane), build_module_codegen.sh (the same after a generator   *)
(* has written the trampolines; it ends in an exec of the former) and      *)
(* build_module_emit.sh (emit lane), and what run_lane makes of their exit *)
(* status and stderr.  A script is a chain of commands, each followed by   *)
(* `|| { echo BUILD_FAIL_STAGE=...; exit }`: a stage here.  A stage has    *)
(* the name of the file it makes.                                          *)
(***************************************************************************)
EXTENDS Verdict

CONSTANT MaxBuilds  \* bound: scripts started

ASSUME MaxBuildsAssumption == MaxBuilds \in Nat

Stages == {"gen_extra", "gen", "text", "obj", "extra", "module"}

VARIABLES
  conf,    \* what meta.toml says: strategy is two_stage; there are extra_sources
  nblib,   \* the emit lane's support archive $NBLIB_PROD exists
  file,    \* per build directory (a lane's own), what each stage has left there
  lane,    \* the lane of the build in progress
  pc,      \* the stage it is at; "idle" when none runs
  failure, \* per lane, how its last build ended: not yet, "pass" or the stage of B.<stage>
  shown,   \* per lane, whose diagnostics detect_toolchain_bug was given
  builds

vars == <<conf, nblib, file, lane, pc, failure, shown, builds>>

(***************************************************************************)
(* A file remembers the build it was made by, the builds that made what    *)
(* went into it, and the compilers that made the code in it: the           *)
(* reflection toolchain ("corpus") or the production compiler ("prod").    *)
(* Nothing is a file that is not there, or not usable.                     *)
(***************************************************************************)
Toolchains == {"corpus", "prod"}
Nothing == [by |-> 0, from |-> {}, code |-> {}]

Confs == [two_stage : BOOLEAN, extra : BOOLEAN]

Generates == lane = "emit" \/ conf.two_stage

First(l) == IF l = "emit" /\ conf.extra THEN "gen_extra"
            ELSE IF l = "emit" \/ conf.two_stage THEN "gen"
            ELSE "obj"

After(s) == CASE s = "gen_extra" -> "gen"
              [] s = "gen"       -> "text"
              [] s = "text"      -> "obj"
              [] s = "obj"       -> IF conf.extra THEN "extra" ELSE "module"
              [] OTHER           -> "module"

\* Fault: the library objects of the generator are there already, and linked again.
InputsReuse(s) ==
  CASE s = "gen"    -> IF lane = "emit" /\ conf.extra THEN {"gen_extra"} ELSE {}
    [] s = "text"   -> {"gen"}
    [] s = "obj"    -> IF Generates THEN {"text"} ELSE {}
    [] s = "module" -> IF ~conf.extra THEN {"obj"}
                       ELSE IF lane = "emit" THEN {"obj", "gen_extra"} ELSE {"obj", "extra"}
    [] OTHER        -> {}

\* The files of the build directory that the command of a stage is given.
Inputs(s) ==
  CASE s = "gen"    -> IF lane = "emit" /\ conf.extra THEN {"gen_extra"} ELSE {}
    [] s = "text"   -> {"gen"}
    [] s = "obj"    -> IF Generates THEN {"text"} ELSE {}
    [] s = "module" -> IF conf.extra THEN {"obj", "extra"} ELSE {"obj"}
    [] OTHER        -> {}

\* Whose compiler a stage runs.
Cxx(s) == IF lane = "emit" /\ s \in {"obj", "extra", "module"} THEN "prod" ELSE "corpus"

\* Rendered text has no code in it; a program or module also has its support archive's.
CodeOf(s) == IF s = "text" THEN {} ELSE {Cxx(s)} \cup UNION {file[lane][i].code : i \in Inputs(s)}

Made(s) == [by |-> builds, from |-> {builds} \cup UNION {file[lane][i].from : i \in Inputs(s)},
            code |-> CodeOf(s)]

\* Fault: one table of stages for all the scripts.
ReportOneTable(s) ==
  CASE s \in {"gen_extra", "gen"} -> "gen_compile"
    [] s = "text"   -> "gen_run"
    [] s = "obj"    -> "compile"
    [] s = "extra"  -> "extra_compile"
    [] OTHER        -> "link"

\* The stage a script reports: of the emit lane, both steps of stage 1 are emit_gen_compile.
Report(s) ==
  IF lane = "emit"
  THEN CASE s \in {"gen_extra", "gen"} -> "emit_gen_compile"
         [] s = "text"   -> "emit_gen_run"
         [] s = "obj"    -> "emit_compile"
         [] s = "extra"  -> "emit_extra_compile"
         [] OTHER        -> "emit_link"
  ELSE CASE s = "gen"    -> "gen_compile"
         [] s = "text"   -> "gen_run"
         [] s = "obj"    -> "compile"
         [] s = "extra"  -> "extra_compile"
         [] OTHER        -> "link"

Init ==
  /\ conf \in Confs /\ nblib \in BOOLEAN
  /\ file = [l \in Lanes |-> [s \in Stages |-> Nothing]]
  /\ lane = "constexpr" /\ pc = "idle"
  /\ failure = [l \in Lanes |-> "none"]
  /\ shown = [l \in Lanes |-> {}]
  /\ builds = 0

\* Between builds the agent edits meta.toml, or the support archive is built.
Edit ==
  /\ pc = "idle"
  /\ conf' \in Confs /\ nblib' \in {nblib, TRUE}
  /\ UNCHANGED <<file, lane, pc, failure, shown, builds>>

\* Fault: the classifier is shown every failure.
FailShowsAll(l, stage, cxx) ==
  /\ failure' = [failure EXCEPT ![l] = stage]
  /\ shown' = [shown EXCEPT ![l] = cxx]
  /\ pc' = "idle"

\* run_lane records B.<stage>; what it shows the bug classifier is the output of the lane's
\* reflection toolchain, and of the generator it built.
Fail(l, stage, cxx) ==
  /\ failure' = [failure EXCEPT ![l] = stage]
  /\ shown' = [shown EXCEPT ![l] =
                 IF l # "emit" \/ stage \in {"emit_gen_compile", "emit_gen_run"} THEN cxx ELSE {}]
  /\ pc' = "idle"

Begin(l) ==
  /\ pc = "idle" /\ builds < MaxBuilds
  /\ builds' = builds + 1
  /\ lane' = l
  /\ pc' = First(l)
  /\ failure' = [failure EXCEPT ![l] = "none"]
  /\ shown' = [shown EXCEPT ![l] = {}]
  /\ UNCHANGED <<conf, nblib, file>>

\* The emit script looks for its archive first, and names no stage when there is none: run_lane
\* takes "module" for it.
ArchiveMissing ==
  /\ lane = "emit" /\ pc = First("emit") /\ ~nblib
  /\ Fail("emit", "module", {})
  /\ UNCHANGED <<conf, nblib, file, lane, builds>>

Runs(s) == pc = s /\ (lane = "emit" => nblib)

\* What a command that did not end well has left of its output.
Spoils(s) == \E left \in {Nothing, file[lane][s]} : file' = [file EXCEPT ![lane][s] = left]

StagePasses(s) ==
  /\ Runs(s) /\ s # "module"
  /\ \A i \in Inputs(s) : file[lane][i] # Nothing
  /\ file' = [file EXCEPT ![lane][s] = Made(s)]
  /\ pc' = After(s)
  /\ UNCHANGED <<conf, nblib, lane, failure, shown, builds>>

Link ==
  /\ Runs("module")
  /\ \A i \in Inputs("module") : file[lane][i] # Nothing
  /\ file' = [file EXCEPT ![lane]["module"] = Made("module")]
  /\ failure' = [failure EXCEPT ![lane] = "pass"]
  /\ pc' = "idle"
  /\ UNCHANGED <<conf, nblib, lane, shown, builds>>

\* Fault: the script has no `set -e`, and a command no `|| exit`.
StageFailsGoesOn(s) ==
  /\ Runs(s) /\ Spoils(s)
  /\ pc' = IF s = "module" THEN "idle" ELSE After(s)
  /\ failure' = IF s = "module" THEN [failure EXCEPT ![lane] = "pass"] ELSE failure
  /\ UNCHANGED <<conf, nblib, lane, shown, builds>>

StageFails(s) ==
  /\ Runs(s) /\ Spoils(s)
  /\ Fail(lane, Report(s), IF s = "text" THEN file[lane]["gen"].code ELSE {Cxx(s)})
  /\ UNCHANGED <<conf, nblib, lane, builds>>

\* Killed in a stage; its command may still end well, and nobody is told.
Kill(s) ==
  /\ Runs(s)
  /\ \E left \in {Nothing, file[lane][s], Made(s)} : file' = [file EXCEPT ![lane][s] = left]
  /\ pc' = "idle"
  /\ UNCHANGED <<conf, nblib, lane, failure, shown, builds>>

Next ==
  \/ Edit \/ ArchiveMissing \/ Link
  \/ \E l \in Lanes : Begin(l)
  \/ \E s \in Stages : StagePasses(s) \/ StageFails(s) \/ Kill(s)

Spec == Init /\ [][Next]_vars

-----------------------------------------------------------------------------
(* Properties                                                              *)

Files == [by : 0 .. MaxBuilds, from : SUBSET (1 .. MaxBuilds), code : SUBSET Toolchains]

EmitReports == {"emit_gen_compile", "emit_gen_run", "emit_compile", "emit_extra_compile", "emit_link"}

ModuleReports == {"gen_compile", "gen_run", "compile", "extra_compile", "link"}

Filed(l) == IF l = "emit" THEN EmitReports ELSE ModuleReports

\* The type invariant; a lane is only ever filed under the stages of its own scripts, or "module".
TypeOK ==
  /\ conf \in Confs /\ nblib \in BOOLEAN
  /\ file \in [Lanes -> [Stages -> Files]]
  /\ lane \in Lanes /\ pc \in Stages \cup {"idle"}
  /\ failure \in [Lanes -> {"none", "pass", "module"} \cup EmitReports \cup ModuleReports]
  /\ \A l \in Lanes : failure[l] \in {"none", "pass", "module"} \cup Filed(l)
  /\ shown \in [Lanes -> SUBSET Toolchains]
  /\ builds \in 0 .. MaxBuilds

\* A module that a passed build left is made of files of that build alone: no object, generated
\* header or generated source of an earlier build, of another strategy or with other sources, is
\* in it, although they share a build directory that nobody cleans (run_gates.py:172).
ModuleIsOwn ==
  \A l \in Lanes : failure[l] = "pass" =>
    file[l]["module"] # Nothing /\ file[l]["module"].from = {file[l]["module"].by}

\* The emit lane's module has only code of the production compiler in it (run_gates.py:15-16, the
\* deployability story; two C++ runtimes in one module are what env.sh:89-92 warns of), although
\* the same library sources were compiled in the same directory for the generator.
OneRuntime == failure["emit"] = "pass" => file["emit"]["module"].code = {"prod"}

\* detect_toolchain_bug is never given the output of the production compiler (run_gates.py:109-110).
ReflectionDiagnosticsOnly == \A l \in Lanes : shown[l] \subseteq {"corpus"}

Gate == INSTANCE GateFour WITH
  running <- [lane |-> lane, number |-> IF pc = "idle" THEN 0 ELSE builds],
  module  <- [l \in Lanes |-> file[l]["module"].by],
  code    <- [l \in Lanes |-> IF failure[l] \in {"none", "pass"} THEN failure[l] ELSE "B"]

\* To run_lane a script is one step: it passes with a module of this very build, or fails and
\* leaves none or the one that was there.
ImplementsGateFour == Gate!GateFourSpec
=============================================================================
