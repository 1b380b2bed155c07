# TLA+ verification of the binding-test corpus

The repository holds the machinery that proves a C++26 reflection binder (mirrorbind, on
nanobind) against 36 directories of declarations: `corpus/lib` drives every directory through a
ladder of gates and records a verdict, `corpus/runs` holds the directories, `gcc16-proveout`
brings up the GCC 16 backend and a development environment for GCC itself. The binder, nanobind,
the compiler and the bound libraries are submodules; their contents are not here and are modelled
only as far as the scripts use them.

Half of the project is about the *verdicts*: the campaign's product is a table of outcomes, and a
wrong "E" (clean success) is worse than any crash. That half is scripts, processes and files, so its
hazards are stale files, shared files, kills between two writes, and several processes on one tree.

The other half is about what the verdicts are *of*: which declarations a run binds, what the emitted
modules do when Python calls them, and the C++ wrappers the tests drive. There the hazards are orders:
of overloads, of bind functions, of calls into an object that owns a thread, a handle or a parser.

## 1. Inventory

| component | state it keeps | operations | what is hard |
|---|---|---|---|
| gate orchestrator, `corpus/lib/run_gates.py` | `tests/expected.json`, the module in each build directory, `result[-gcc16].json`; in memory the record, `has_diff`, the lanes left | one invocation: Gate 1 probe, native oracle, per lane compile / import / pytest (Gates 4-6), Gate 6b, combine, write the record, exit code | files of an earlier invocation are still there; two backends share the tree; a kill anywhere; the verdict is combined from three sources in a fixed order |
| archive cache, `build_abseil.sh`, `build_cmake_lib.sh`, `build_nanobind_prod.sh`, `ci_prepare.sh` | build tree, install prefix, merged archive, `nb_combined.o`, `libnanobind-static.a` | check, configure and ninja, install, rm, merge, save; `--force` | shared by all runs of a library; the cache key is the existence of a file; `set -e` or a kill between steps, or inside the save; the submodule moves |
| campaign and aggregation, `aggregate.py`, the loop of `PROVE_OUT.md` | every `result.json`, `results.jsonl`, `report.md`, `toolchain_bugs.md`, the submodule pins | a gate run per directory; read all the records, write three outputs | records change while they are read; three outputs written in sequence; the pin recorded is not that of the binder |
| GCC development environment, `gcc16-proveout/devenv/scripts` | one checkout, a build tree per branch | clone, configure, build all or cc1plus only, test | one checkout behind several trees |
| lane build scripts, `build_module.sh`, `build_module_emit.sh`, `build_module_codegen.sh`, `build_native.sh`, `probe.sh` | objects, the generator, the generated TU, the module | up to five stages, each with an exit code and a `BUILD_FAIL_STAGE` | which stage a failure is filed under; what a failed stage leaves behind |
| environment, `env.sh`, `gcc16_run.sh` | exported paths | - | which paths are per backend |
| surface diff, `surface_diff.py` | two dumps, two artifacts | describe two modules, write both, diff them, apply ignores | recursion cut by name; a dump that fails; artifacts of two comparisons side by side |
| matcher and bind-set probes, `gcc16-proveout/probes/10` to `13` | two pointers and a place to come back to | glob match, matchers and combinators, `exclude_if_`, `match_`, `instantiate_` | backtracking; entities a matcher was not meant for; which declarations stay bound |
| run packs, `corpus/runs/*/binding/binding_args.h` | - | list, match, instantiate, exclude | what a signature brings back in; members that hide each other |
| emitted modules, `corpus/runs/*/binding/build-emit/binding.gen.cpp` | nanobind's types, the module's attributes, trampoline slots | import, overload call, operator, virtual call | the order of calls and of overloads; results nobody bound; slots |
| examples, `examples/serialize_poc.cpp` | a byte buffer, a cursor, a text | write, read, compare, JSON | field order, nesting, the comma flag |
| stateful fixtures, `leveldbtest.h`, `httptest.h`, `tftest.h`, `tomlfix.h`, `simdjsontest.h` | an owned handle and a batch, a server thread, a task log, a parser and the handles into it | open/close/put/get/write, start/stop/request, run, look a path up, parse and navigate | threads; calls in the wrong order; boundaries of a path; what a handle points at |
| run directories, findings, repros, prompts | declarations, assertions, prose | - | - |

Interaction: an agent edits a run directory and starts `run_gates.py`, which starts the lane build
scripts and waits for each. Those link what the archive scripts left behind, possibly on behalf of
another run. The record a run leaves is read by `aggregate.py`, started by any agent at any time.
Everything is communicated through files on one tree; there is no locking anywhere.

A pack decides what is bound; the binder turns it into an emitted module; the lane build compiles that
and Gate 5 imports it; the run's pytest calls it and the fixtures' wrappers; `surface_diff.py`
compares what the two lanes made of one pack.

What makes each component correct:

- *orchestrator*: an E was earned by the invocation that records it; Gate 5 imports only what this
  invocation built; the exit code is 0 exactly when all lanes that ran are clean and agree; the failure
  shown explains the outcome; every invocation ends; the record file is whole, or being written, or
  what a kill left.
- *archive cache*: what the existence check takes is a complete library of one version, unless its save
  is under way or was stopped; a forced rebuild refreshes it; preparing leaves something to link.
- *aggregation*: each output is a set of records that was on disk; none is skipped, none goes back;
  the three outputs agree when it ends; results that name one binder come from one binder.
- *devenv*: what is tested as a branch was compiled from that branch.
- *build scripts*: every failure is filed under the stage that failed; no stage uses what an
  earlier, failed one should have made.
- *surface diff*: zero mismatches exactly when the two surfaces are equal outside the ignores, and the
  artifacts on disk are those of the verdict.
- *matchers and packs*: glob and matchers agree with a reference definition; a bind set has what its
  pack names, and what an exclusion reaches is what the packs' comments and the findings say it does.
- *emitted modules*: an import binds every listed type under a name of its own, bases first; a call runs
  the overload it was written for, or one whose result Python can hold; an override is always reached.
- *serde*: read inverts write, the text is the object's.
- *fixtures*: no call sequence loses a thread or a handle, or locks a database for good; the task log
  respects the graph; a path reaches its node; a handle reads the document it came from.

The hazards that follow from this are listed in `PROJECT.json`, each at its line, with the
properties that cover it or the reason none does.

## 2. Modules

| module | models | composed with |
|---|---|---|
| `Verdict` | the taxonomy and the pure rules of `run_gates.py` (worst lane, surface, mirror, exit code) | used by `GateRun` and `RunLedger` |
| `GateRun` | one run directory and the invocations on it, one per backend at a time | instantiates `RunLedger` |
| `RunLedger` | what a reader of the record files may rely on: the abstract specification of `run_gates.py` | - |
| `GateRunProofs` | theorems about `GateRun` | extends `GateRun` |
| `BuildLane` | the three build scripts behind Gate 4, on one directory and backend | instantiates `GateFour` |
| `GateFour` | what `run_lane` takes a script for: the abstract specification of `BuildLane`, and the compile step of `GateRun` | - |
| `BuildLaneProofs` | theorems about `BuildLane` | extends `BuildLane` |
| `ArchiveCache` | the archive scripts, several agents on one library | - |
| `ArchiveCacheProofs` | theorems about `ArchiveCache` | extends `ArchiveCache` |
| `Campaign` | the directories' record files as `RunLedger` promises them, the pins, `aggregate.py` | - |
| `CampaignProofs` | theorems about `Campaign` | extends `Campaign` |
| `DevEnv` | the GCC checkout and its build trees | - |
| `GlobPattern`, `Glob` | what a glob means; `glob_match` step by step | `Matchers` uses the first |
| `Matchers`, `MatcherTables` | entities, leaves and combinators; the tables probes 10 and 11 assert | - |
| `BindSet` | how a pack becomes a bind set (the binder's, external) | extends `Matchers` |
| `MatcherPacks`, `EigenPack`, `Packs` | the packs of probes 12 and 13 and of the 36 runs, with their claims | the cases of `BindSet` |
| `SurfaceDiff` | how `surface_diff.py` describes and diffs, and `compare` as a process | - |
| `MatchingProofs` | theorems about `Glob` and `SurfaceDiff` | extends the two |
| `Overloads` | statements of an emitted module as data, and nanobind's dispatch | - |
| `DateExt`, `JsonExt`, `SmallExts` | the eight emitted modules | data for `Extension` |
| `Import` | what `NB_MODULE` and the bind functions do | - |
| `Extension` | one Python process that imports a module and calls it | extends `Import`, `Overloads` |
| `ImportProofs` | theorems about `Import` and `Extension` | extends `Extension` |
| `KVStore`, `EchoServer`, `Diamond`, `TomlFix`, `SimdDoc` | the stateful fixtures | - |
| `FixtureProofs` | theorems about them | extends `KVStore`, `EchoServer`, `Diamond`, `TomlFix`, `SimdDoc`, `Serde` |
| `Serde` | the serializer of `serialize_poc.cpp` | - |
| `Induction` | two theorems on sets of naturals that the others cite | - |
| `MCGateRun`, `MCArchiveCache`, `MCCampaign`, `MCDevEnv`, `MCMatching`, `MCFixtures` | model values and the finite sets for TLC; the last two run one session of several modules at a time | extend the above |

### GateRun

A process of the model is an invocation of `run_gates.py` under one `$CORPUS_TOOLCHAIN`; `pc` says
which subprocess it waits for. Each subprocess is one action for each way it can end, and the
Python between two subprocesses belongs to the action before it: `Return` is the return from
`run_lane`, the settling of E against E-weak, the advance of the loop and, after the last lane, the
combination and the mirror. `write_text` truncates and then writes; both `expected.json` and the
record are therefore written in two steps, and `Crash` can come between any two.

What the code keeps in files survives `Crash`, what it keeps in `r` does not. `stamp`, `built`,
`judgedBy` and `expected.by` are history: they name the invocation that produced a record, an
imported module and the ground truth, and no guard reads them. A failed compile may keep or
remove the module of an earlier invocation, since a linker removes its output and the stages before
it do not touch it. A torn `expected.json` makes pytest fail at collection.

Assumption on the environment: a directory has one agent, who edits it between invocations, not
during one (the isolation rule of `PROVE_OUT.md`), and does not start two invocations of one
backend at once. What an agent can leave is `Dirs`: with or without an oracle, tests, and an emit
lane for each backend.

### BuildLane

The step that `GateRun` calls compile, taken apart. A script is a chain of commands, each with its
`|| { echo BUILD_FAIL_STAGE=...; exit; }`; a stage is such a command and has the name of the file it
makes: the generator's copy of the library sources, the generator, the text it writes
(`trampolines.gen.h` or `binding.gen.cpp`), the binding's object, the library sources, the module.
`build_module_codegen.sh` ends in an `exec` of `build_module.sh`, so the two are one chain. A file
carries, as history, the builds that went into it and the compilers its code came from. A stage that
fails or is killed leaves its old output or none (or, killed, possibly the finished one), and nobody
cleans a build directory, so whatever can be stale is there. Between two builds the agent may
change strategy and sources. All library sources count as one, compiled together.

`GateFour` says what this looks like from `run_lane`: a build begins, and ends in a module of its own,
in a B with no module or the old one, or killed with any of the three. These are `CompilePasses`,
`CompileFails` and `Crash` of `GateRun`. `code` forgets the stage.

On the gcc16 backend both compilers are the same `g++`, and `OneRuntime` is about flags only; it is
the clang backend that has two runtimes.

### ArchiveCache

An agent is a run that prepares: `nb_check`, `nb_compile`, `nb_archive` are
`build_nanobind_prod.sh`, `check` to `save` are `build_abseil.sh` or its twin
`build_cmake_lib.sh`, `ready` is the moment between `ci_prepare.sh` and the run's link. Ninja
and install act on one component at a time, so a kill or another agent can come between two.
A component of `tree`, `prefix` and `merged` is just the version it was built from. `ar -M` fills the
archive in two steps: `Merge` has the file there under its name, `Saved` has it whole, and `writer` says who
is between the two. How `ar` writes is not in this repository; current binutils copies a temporary into the file, so a
stop in between (`writer = Dead`) leaves a broken archive that the existence check takes from then on.
`Fault` is a kill or a command that fails under `set -e`; nothing is undone. Of two compilers writing one
`nb_combined.o`, the path names the file of the one that opened it last.

Assumption: the submodule is moved (`Pull`) while nobody is between configure and merge. Without
it, no script could promise an archive of one version.

### Campaign

A directory's record file is taken at the abstraction `RunLedger` proves right: absent, torn or
whole. `Records` keeps the number of the invocation, the binder really compiled in and the
`binder_commit` written. The collector's glob lists the files that are there, torn ones included;
a torn one makes `json.loads` raise before anything is written. The three outputs are opened and
filled one after another (`at`). Assumptions: submodule pins move while no gate run is in progress;
one collector at a time for the four checked properties. With two collectors the older rows can be
published last and two texts can be mixed in one file, both of which the module allows.

### DevEnv

A source is a branch with the number of edits made. `Configure` checks the branch out and makes its
tree; `BuildAll` may stop after either program; `Test` runs the tree's driver and cc1plus.

### Glob, Matchers, BindSet and the packs

`Glob` has one action per branch of `glob_match`, with its pointers as indices; one past the end reads
the terminator. `GlobPattern` is the reference: a glob is the set of names it stands for.
`Matchers` gives each leaf and combinator as a predicate over entities. An entity is a path with template
arguments, and a world says of each path what it declares: its kind, what an alias stands for, its bases,
the signatures that mention others, and the arguments a constraint refuses. The hostile inputs of
probe 11 (namespaces, builtins, incomplete classes) are entities too.

The binder that computes a bind set is a submodule. `BindSet` is what the probes' `static_assert`s and
the packs' comments rely on: exclusions are in force from the start, the elements contribute their
seeds in order, and bound classes bring in what their signatures mention, a signature that mentions
something excluded being dropped whole. What a signature brings in is resolved first, an alias bound as what it
stands for. An exclusion does not look inside a function type, so a member whose callback is a `std::function` of
something excluded is bound (`corpus/findings/BINDER-0027`, the `httplib` case), and an enum without a name is
matched and then skipped (`Skipped`, the `fmt` case). The order of discovery is open. A case is a world, a pack and its claims.
The claims are the `static_assert`s of probes 12 and 13 and, for a run, what its comments say becomes
of the pack. For packs that only list it is that nothing comes in that they do not list,
which is so because the fixture's functions mention listed entities only; the count of `json`,
`tinyobjloader` and the three `_fixture_` runs is that of their emitted module. The world of a run
holds the entities the pack, its comments and its fixture name, not the whole library.

### SurfaceDiff

A surface is a tree of attributes, given as the function from its paths of names to what is at their ends
(`SurfacesAreTrees`: what a path goes through is in it too, and a class). The JSON of `describe_module` is the set of
its key paths with their values, an object's being "dict": a name's is at its `Place`, with "attrs" between any two names,
and what `_describe_class` and `_describe_attr` tell of it (`Info`) one key below. The recursion of the code is then a
condition on the way to a path: `Shown` are the paths whose names are interesting with no class above that `Recurs`, and
`Visited` the key paths that `_diff` comes to, through objects of both sides and nothing ignored. `compare` is a process: dump one lane, dump the other, write one
artifact, write the other, diff, exit. A dump may fail (exit 3), a kill may come anywhere and tear the
artifact that is being written, and lanes are rebuilt between comparisons. The reference, `Compared`,
is the set of facts that Python finds, one per path. Docstrings stand for signatures. An ignore pattern stands for
the names it is found in by `rx.search`; a pattern that spans two names of a path is not modelled.

### Import, Overloads and Extension

A `cls.def` is an overload: a name, the C++ types of its parameters, what it returns and whether it
changes its object. The modules `DateExt`, `JsonExt` and `SmallExts` are these statements in the order
of the generated files, families that differ in one place written once. `Import` runs `NB_MODULE`: a call
stack of bind functions, each with its early return, its calls of the bases, and the fallback to the
qualified name. `Extension` then calls: `CallOverload` picks an overload, gives it arguments of
exactly its types and runs what nanobind's two passes (exact, then with implicit conversions) pick;
`CallOperator` follows Python's protocol for binary operators; `CallVirtual` enters from Python or from
C++ and goes through the trampoline and its slots.

### The fixtures and Serde

`KVStore`: handles that own a DB of one name and one batch beside them; `db` is the handle's pointer
and `locked` what LevelDB holds open, and it is a property that the two agree. `EchoServer`: `start` is three
steps (bind, spawn, wait until ready), the listener thread and its handlers run by themselves, a
request waits in the backlog until it is accepted; `bind_to_any_port` is taken to succeed. `Diamond`: `run` clears, resets, submits and waits
while workers take ready tasks; a body counts and then logs under the mutex. `TomlFix`: every call
parses again and walks a dotted path, a sequence of characters, turn by turn as the loop of `resolve` does (`Turn`);
the tree is the function from the keys that lead to a node to its type, an array's with the types of its elements. A node
also carries the types that `value<T>()` converts it to (`RetrievedAs`, toml++'s: an integer is a
float if a double holds it, a float an integer if it is one, and so on), and an accessor answers with what that has.
`SimdDoc`: a handle is a kind, a parser and a place on its tape, and remembers as history the node it
was given for. `Serde`: `to_json`, `write`, `read` and `equal` are one loop over the fields of a type with a call of
itself for a nested aggregate. A step is one turn of the innermost loop or its end (`Walked`), and the path `at`, the places
of the loops that run, is the call stack; a type is the function from the paths of its fields to what they are, a byte
remembers the value it is part of, and `Equal` is `==`, which is neither reflexive (a NaN) nor the identity (-0.0).

Python keeps to the protocol that the runs' tests keep: `put` and `get` on an open store, `start` on a
server that is not started, a handle while its `Doc` is kept. What the code does outside of it is undefined
(a null pointer, `std::terminate`, a dangling handle) and noted at the hazards.

## 3. Runs

| run | shows | bounds |
|---|---|---|
| `gate_one` | `TypeOK`, `FreshVerdict`, `OwnBuild`, `FailureIsExplained`, `ExitZeroMeansAgreement`, `ImplementsLedger` (refinement), `RunEnds` (liveness) | one backend, every kind of directory, two invocations, killed anywhere or not: a first leaves any files it can, a second meets them |
| `gate_stale` | violation: `JudgedByOwnOracle` | one backend, the kind of directory all 36 runs are, with an `expected.json` committed |
| `gate_mirror` | violation: `MirrorsConstexpr` | the same, one invocation |
| `gate_two_backends` | violation: `RecordSurvives` | both backends, two invocations |
| `lane_build` | `TypeOK`, `ModuleIsOwn`, `OneRuntime`, `ReflectionDiagnosticsOnly`, `ImplementsGateFour` (refinement) | three builds of either lane: one leaves anything it can, a second fails or is killed on top of it, a third passes |
| `archive_cache` | `TypeOK`, `CachedIsOneVersion`, `OwnPrepareLinks`, `PartialIsReplaced`, `ForceRefreshes` | two agents, four scripts, one fault, two versions of two components each of which one is common: every kind of leftover (same, changed, dropped, added) and an interrupted, a concurrent and a forced rebuild |
| `archive_pool` | violation: `PoolIsolation` | two agents, no force, no fault |
| `campaign` | `TypeOK`, `EarlierOutputIsNewer`, `RollupIsComplete`, `ReportAdvances` | two directories, three gate runs, one bump, two aggregations, one kill: a record can be overwritten between its two readings and an aggregation can follow a half-finished one |
| `campaign_binder` | violation: `OneBinderPerCommit` | two gate runs, one bump |
| `devenv_flip` | violation: `TestedBranch` | two branches, one edit |
| `matching` | `GlobIsReference`, `GlobEnds` (liveness), `MatchersAsAsserted`, `BindSetAsClaimed`, `SurfaceVerdictIsExact`, `ArtifactsBackVerdict` | patterns over `a b * ?` and names over `a b` of up to four characters (two stars with text on three sides) and those of probe 11's table; all packs; twelve surfaces that differ from their neighbours in one place, three ignore sets, two comparisons, rebuilds to one module |
| `fixtures` | `ImportIsComplete`, `DispatchIsExact`, `OperatorsAreCpp`, `ResultIsHeld`, `OverrideReached`, `StoreIsFaithful`, `EveryCallIsServed` (liveness), `EveryRunIsComplete` (liveness), `PathsReachTheirNodes`, `HandlesReadTheirDoc`, `JsonIsTheObject`, `SerdeRoundTrips` | the eight emitted modules, and one with its bind functions called in reverse so that a derived class comes before its base; every overload, every operator on every pair of operand types, every set of overrides; two handles, two keys, one value and its absence, batches of two, three acknowledged operations; two starts, eight requests; three workers, two runs; five documents, paths of up to four characters over `a` and `.`; two Docs, three sources, three handles; six types, nested, empty or ending in a nested one, over two scalars, one of which is not equal to itself |

`MaxRuns`, `MaxBuilds`, `MaxVersion`, `MaxPrepares`, `MaxFaults`, `MaxGates`, `MaxBumps`, `MaxRollups`,
`MaxKills`, `MaxEdits`, `MaxCompares`, `MaxBatch`, `MaxAcked`, `MaxStarts` and `MaxHandles` are the only
bounds, each a guard of one action, and `Rebuilds` the modules a rebuilt lane may have. Deadlock is not
checked in `archive_cache`, `archive_pool`, `campaign`, `campaign_binder`, `matching` and `fixtures`,
where a function returns, a bind set is complete, or the bounds let everything come to rest; `GateRun`,
`BuildLane` and `DevEnv` always have a step. The agents of `ArchiveCache` are
interchangeable and declared symmetric; its properties are all safety. A session of `MCMatching` and
`MCFixtures` is one component's behaviour; sessions share no state and are put in one run to be
checked together.

Six runs are expected to be violated. Each checks what a docstring or document says, quoted at
the property and in `PROJECT.json`: the third leg of the three-way validation can be the committed
`expected.json` (`gate_stale`, one invocation whose oracle fails); the record's top-level failure, said to mirror the
constexpr lane, can be the emit lane's or the surface diff's (`gate_mirror`); the gcc16 backend overwrites the ground
truth of the macOS record; two runs of a library in the pool are not isolated; flipping between the two GCC trees does
need a reconfigure; `binder_commit` is not the binder's commit. They do not touch the properties that hold: an oracle
that failed never leads to an E (`FreshVerdict`), and a failure at the top is always one of the record's own
(`FailureIsExplained`).

Some properties say what the code does do wrong by excepting it: `CachedIsOneVersion` leaves out the archive whose
save was stopped, which every later run takes; `SurfaceVerdictIsExact` leaves out modules with a class inside one of
its own name, which the recursion cut hides.

Fairness is weak throughout and is stated of code that goes on by itself:

- `RunEnds`: the steps of an invocation. The script waits for a subprocess with `subprocess.run`, and goes
  on when it ends; nobody has to call it again. That a subprocess ends is part of the assumption:
  `run_gates.py` sets no timeout. Nothing is assumed of `Start`, `Edit` or `Crash`.
- `EveryCallIsServed`: the steps of a call that Python is in, and those of the server's threads; not
  that Python calls anything. It rests on `start` waiting until the server is ready: without it, `stop` can
  pass a listener that is not running yet and join it forever.
- `EveryRunIsComplete`: the steps of `run`, and that some worker goes on.
- `GlobEnds`: the loop of a function that nothing interrupts.

Every property has at least one faulty variant of a modelled definition that breaks it (marked
`Fault:` in the modules, before the definition it stands in for): the guard, the early return or the
order of steps that the property depends on.

## 4. Theorems

All of them are for every value of the constants: any set of backends, directories, agents, components,
documents or patterns, any bounds. What is assumed of a constant is a named `ASSUME` in the module that
declares it, which TLC evaluates on the values of a run.

### The gates

- `TypeCorrect`: directly inductive. The lemmas (`SettleType`, `ConcludeType`, `ReturnType`, ...) say what the
  record builders return.
- `OwnBuildHolds`. `OwnBuild` only speaks of lanes that have imported. Its strengthening
  `Provenance` adds what must be known one and two steps earlier: at `import` the module on disk is
  this invocation's (`ImportsOwn`), at `test` the lane remembers that (`TestsOwn`). The module file of
  a backend is written by that backend alone, so this needs no assumption on the number of backends.
- `FreshVerdictHolds`, under `OneBackend`. `Freshness` adds that while lanes are compiled, imported
  and tested with `has_diff` true, `expected.json` is whole and of this invocation (`OracleDone`); that
  an E lane was judged by it (`EarnedE`); that a lane under test has no outcome yet (`Unsettled`); and that a
  combined E means that every lane is E (`Decided`, from the lemma `CombinedE`). `OracleDone` is what
  fails with two backends: the other one may truncate the file between two steps. The theorem is false
  there, for the reason `gate_two_backends` shows.
- `FailureIsExplainedHolds` and `ExitZeroMeansAgreementHolds`, for any number of backends. Both speak of a
  finished record; the invariant `Ladder` says which record there can be at each label. Before the lanes, none has been
  tried (`NothingTried`); in the lanes, those behind are settled, the one under way is blank and the ones ahead
  untouched (`LanesClimbed`), and all that passed did so against the same truth (`PassesAs`: E with
  a fresh oracle, E-weak without, never both in one record); afterwards the record is one of these two kinds,
  combined (`GoodRecord`). From there it is arithmetic of the taxonomy: `WorstLaneIsWorst` for the maximum over the lanes,
  `SurfaceDecidesWhen`, `GoodIsExplained` for the three writers of the failure, `ExitOfGood` for the code.
- `LedgerRefined`: `run_gates.py` implements `RunLedger`. A finishing step writes a verdict that the ledger
  can judge (`NothingTriedJudged`, `ClimbedJudged`, from `Ladder`), and every other step is a stutter of it, a crash between
  the truncation and the write included.
- `RunsGetShorterHolds`, the safety half of `RunEnds`: `Left` counts the steps an invocation has before it, three for every lane
  it has not struck off. A step of the invocation lowers it, nobody else changes it, and it is twelve at most and zero only
  at `idle` (`LeftIsBounded`, from `Ladder`). What remains of `RunEnds` is that a step can be taken and, fairly, is.

### The build scripts and the archives

- `ModuleIsOwnHolds`, `OneRuntimeHolds`, `ReflectionDiagnosticsOnlyHolds`. The three speak of the end of
  a build; `ContentInv` adds what a stage relies on: while a build is under way, every file the next
  command is given is of this build and of the right compiler (`Ready`). `MadeOwn` says that a
  stage makes such a file of such files, `PassReady` that it leaves the next one ready.
- `GateFourRefined`: `BuildLane` implements `GateFour`. `EndRefines` is the one argument for all ways a
  build can end, by which module and which outcome it leaves.
- `CachedIsOneVersionHolds`, `OwnPrepareLinksHolds`, `ForceRefreshesHolds`. `LibraryInv`
  adds what a script has behind it at each label: at `install` and later every component of the current version
  is built (`TreeBuilt`), at `remove`, `merge` and `save` also installed (`Installed`), and at `save` the archive is to be
  one of that version, or another run has removed it (`Saving`). The steps of
  another agent only bring components to that same version, and the version does not move meanwhile.
  `MergeMakesVersion` then gives the archive. `ForceRefreshes` is an action property and follows
  from the same invariant at `save`. Stops are part of all three: the first says of an archive that is not whole
  that its writer is at its save or was stopped there, and of every archive which version it is meant to be.
- `PartialIsReplacedHolds`. `SupportInv` adds that, as long as nothing was stopped, a partial object belongs to a
  compiler still running.

### The campaign

- `CampaignTypeCorrect`, with `pins <= bumps` added (`Typed`), since the bound on pins is the one on bumps.
- `ReportsFollowRecords`, for any number of collectors: what a collector has read or an output shows is
  never newer than the record on disk (`FromDisk`), because a gate run under way has a newer number than the record it
  replaces (`Stamped`).
- `EarlierOutputIsNewerHolds`, `ReportAdvancesHolds`, `RollupIsCompleteHolds`, under `OneCollector`. `Advancing`
  is about the middle of an aggregation: what was read is no older than what the outputs show and than what there was at the
  start (`Caught`), all outputs before the one being written are whole and equal to the rows (`Writing`), and the outputs
  are ordered (`Ordered`), which a kill between two of them keeps. With two collectors `Caught` fails: the other may publish
  newer rows between a read and its write. `aggregate.py` takes no lock, so one collector at a time is an assumption
  on those who start it and not something the code ensures.

### The emitted modules

- `ImportCompletes`: `ImportIsComplete` for every extension module whose names are well formed
  (`ExtsAreWellFormed`: no three types of one short name, no qualified name that is another's short one, no
  function with a type's name, bases of smaller depth). The invariant follows the call stack: each
  frame was called by the one below it for the base before its next (`Callers`), and a bind function past its
  early return has a type that nobody registers meanwhile, because its callees are of smaller depth.
  `ProcessImports` carries it to the process that also calls the module.
- `DispatchIsExactHolds`, for every module whose statements are distinct (`OverloadsAreDistinct`: of two overloads of one
  class, name and number of parameters, either some parameter tells them apart or Python cannot tell them apart by any).
  `DispatchTakesExact` is the heart: with exact arguments the first pass finds an overload, the least index of a nonempty
  set (`LeastMember`), so that the converting pass is never reached.
- `OverrideReachedHolds`: a trampoline has a slot for each of the two virtual functions, and a slot is taken only by a
  function that has none (`ObjectInv`, `TwoSlots`).

### Matching

- `GlobStaysInBounds`: `glob_match` reads neither string past its terminator, though its loop tests only one
  of the two; `InsidePattern` is why, a terminator being neither a star nor a character of a name.
- `GlobGetsFurtherHolds`, the safety half of `GlobEnds`: however often the loop comes back to a star, the star, the place it comes back
  to and the place in the pattern only move on, compared in this order, and `GlobInBounds` bounds them all (`StarBehind`: the
  star is behind the pointer, so the next one remembered is a later one).
- `GlobDecides`: `glob_match` answers as the reference does, for every pattern and every name without a star
  (`NamesHoldNoStar`: names are identifiers). The reference is a recursive function over the pattern from its end. The
  invariant says that the pattern fits the name exactly if its rest fits where the two pointers are, or what follows the
  last star fits further on than where it was tried (`Undecided`); and that wherever what follows that star fits, the rest
  of the pattern fits as much further on as the pointers have moved since (`SameStride`), which is why an earlier star need not be
  tried again.
- `ArtifactsBackVerdictHolds`: it is about the order of dumps and writes only, and uses nothing of what describing does.
- `SurfaceVerdictIsExactHolds`, for surfaces of every shape and depth that are trees (`SurfacesAreTrees`) and ignore patterns
  about names, not about the keys of a description (`IgnoresAreNames`: the one that `meta.toml`'s comments report is the name
  of a method). A description can be read back (`DescriptionRead`), because a place is that of one path and never that of
  a key (`PlacesDiffer`, by the parity of its length), and its information tells what Python finds (`InfoTellsFact`). That equal
  surfaces have no mismatch is then immediate (`AgreementIsFound`). That unequal ones have one is an induction on the
  length of a name's path (`DifferenceIsFound`): for the shortest path that differs, everything above is the same class in both, so
  the walk comes to its place (`Walked`) and to each key below. The exception for repeated class names is needed:
  `NothingIsCutOff` is false without it.

### The fixtures

- `StoreIsFaithfulHolds`: `locked = db` is inductive by itself; that a get finds the last acknowledged write needs
  `DiskIsLast` and `ReplayKeepsLast`, what a sequence of operations leaves for each key.
- `HandlesReadTheirDocHolds`: `Rooted` says that a handle is at a place of its document's tape that exists, and that its node
  is what the way from the root to that place leads to (`NodeOfChild`).
- `PathsReachTheirNodesHolds`, for any tree in which tables lead to each node (`DocumentsAreTrees`): keys joined by dots are
  walked cut by cut (`JoinedIsFound`), and what the loop finds was joined (`LoopWalks`, from `Walks`, which says where the
  cuts of the path so far are), so that what `resolve` gives is the one node that the path names (`ResolveIsExact`). Nothing is
  assumed of the conversions: an accessor answers with a node's type exactly if `value<T>()` has the accessor's for that node.
- `CompleteHolds`, the safety half of `EveryRunIsComplete`, for any number of workers: `DiamondInv` counts each task once, in the
  tasks done or in a worker's hand, and `LogOf` says which logs a set of done tasks can have left.
- `AnswersAreToTheRequest`, the safety half of `EveryCallIsServed`: a reply is `Routed` of the request that waits for
  it, and only a server that is not started refuses (`OnlyStoppedRefuses`, `EchoInv`).

### The serializer

`JsonIsTheObjectHolds` and `SerdeRoundTripsHolds`, for any aggregates of any depth and width (`TypesAreTrees`: a field is in
an aggregate that has its place), scalars of any number and size, and texts that are no punctuation (`TokensDiffer`). Both rest on
`WalkPasses`: in the order of the places, a step of the walk passes the field it stands at and no other, whether it goes on, goes
into an aggregate or returns from one, so that nothing is skipped or passed twice, and at its end everything is passed.

- `JsonInv` is what a reader of the text so far knows (`Known`): it is in the object that `to_json` is in, the flag `first` of
  each call says whether it has read a member there, and its members are those of the fields passed. A turn keeps it
  (`PrefixedKnown`, `JsonTurnInv`) and so does the brace at the end of a loop (`JsonEndInv`), which puts the reader back in the
  caller's object, wanting more.
- `Trail` is the way of the walk that wrote the bytes: where it stood after each step and how many bytes there were. `ReadInv` says
  that `read` stands on it, with its cursor behind the bytes there were; so each `memcpy` finds the bytes of its scalar
  (`HeldIsCopied`), and where the trail ends so do the bytes (`CallEqualInv`). That the two walks agree is why
  `read` may leave `end` alone. `CompareInv` is the same for `eq`, which stops early and never forgets.

### How recursion is proved about

The fold of a `WriteBatch`, the way down a document, the turns of `resolve`'s loop, the meaning of a glob and what a reader makes of a text
are recursive functions. Such a definition
is a `CHOOSE` of a function that satisfies its equation, so nothing about it is known until one is shown to exist:
`ReplayExists`, `WayExists` and their like do that by induction on the length, and `ReplayEquation`, `WayEquation` then
give the equation. The library's induction theorems take an operator as a parameter, which the provers here
cannot instantiate; `SetInduction` in `Induction` is induction stated of a set of naturals instead, proved from
the well-foundedness of `<`, and `LeastMember` the existence of a least member.

### Only model-checked

- The liveness of `RunEnds`, `EveryCallIsServed`, `EveryRunIsComplete` and `GlobEnds`: fairness and `ENABLED` are
  out of the prover's reach. The safety half of each is proved: `RunsGetShorterHolds`, `AnswersAreToTheRequest`,
  `CompleteHolds` and `GlobGetsFurtherHolds`.
- `OperatorsAreCpp`, `ResultIsHeld`, `MatchersAsAsserted`, `BindSetAsClaimed`: facts about the tables of
  the modules and packs in the repository, finite and false of others; TLC evaluates them whole.

## 5. Not modelled

*Scripts.* Diagnostics, metrics, notes, flag translation and the layout of the report; the `-prod`
archives of the clang backend (the same recipe in another prefix); `--force` of `build_nanobind_prod.sh`; the
container of the GCC environment. `--mode` is modelled, and so is its overwriting the record of a
full run. `driver.py`, which `PROVE_OUT.md` describes, is not in the repository.

*External.* The contents of the submodules: the binder (`BindSet` is what is relied on), nanobind's
dispatch and type registry, Python's operator protocol, LevelDB, cpp-httplib, Taskflow, toml++ and simdjson.
Each is modelled in the module that uses it, from how the code here uses it, and marked external in the map.

*Packs and emitted modules.* Library entities that neither a pack, its comments nor its fixture name; the
names given to specialisations; annotations; `__str__`; `super()` inside an override (it calls through the
trampoline again); conversions of strings to numbers; a C++ function that throws midway (`patch_inplace` of `json` after
some of its operations); the emitted modules that are not kept in the repository.

*Fixtures.* Calls outside the protocol (section 2); serializers of toml++,
`slice_info`, `at_pointer`; `cqtest.h`, `logtest.h` and the value-only fixtures of the other runs (one-line
adapters without state). `Serde` gives the reader the buffer the writer made: the code does not guard
against a shorter one. `JsonIsTheObject` is about the structure of the text; that a value's own text is JSON is not
modelled (a NaN is written `nan`).

*Compile-time probes and reproducers.* Probes 01 to 09 and the reproducers under `findings` hold one check of
a language feature or one compiler bug each: they have neither state nor an algorithm.

## 6. Plan

1. *done* - `Verdict`, `GateRun`, `RunLedger`; `ArchiveCache`; `Campaign`; `DevEnv`.
2. *done* - `BuildLane` and `GateFour`, with the refinement proved.
3. *done* - the fixtures, with liveness of the two that have threads.
4. *done* - globs, matchers, packs and bind sets; the surface diff; serde; the emitted modules.
5. *done* - the proofs of the gate orchestrator with its refinement of the ledger, of the campaign, the emitted
   modules, globs, the surface diff, five fixtures and the serializer (section 4).
6. Records of one lane in `Campaign`, to see what `aggregate.py` makes of a `--mode` run in its columns.
