----------------------------- MODULE ArchiveCache -----------------------------
(***************************************************************************)
(* The prebuilt static archives a compiled run links on the gcc16 backend: *)
(* ci_prepare.sh, build_nanobind_prod.sh and build_abseil.sh (and its      *)
(* generalisation build_cmake_lib.sh, the same recipe).  All the runs of   *)
(* a library, and every run for the nanobind support archive, share one    *)
(* build tree, one install prefix and one archive file, and a cached file  *)
(* is taken by its existence alone.  The agents are the runs of a pool     *)
(* that prepare and link at the same time.                                 *)
(***************************************************************************)
EXTENDS Naturals

CONSTANTS
  Agents,      \* the runs that prepare: the themes abseil_*, each in a shell of its own
  Forcers,     \* those of them that may be a rebuild by hand, with --force
  Parts,       \* the component libraries libabsl_*.a
  PartsOf,     \* which components a version of the library has
  MaxVersion,  \* bound: versions the submodule moves through
  MaxPrepares, \* bound: scripts started
  MaxFaults    \* bound: scripts killed, or stopped by `set -e`

Versions == 1 .. MaxVersion

Nobody == "nobody"
Dead == "dead"   \* an agent whose script stopped inside its save

ASSUME AgentsAssumption == Nobody \notin Agents /\ Dead \notin Agents /\ Forcers \subseteq Agents
ASSUME VersionsAssumption == MaxVersion \in Nat \ {0}
ASSUME PartsAssumption == PartsOf \in [Versions -> (SUBSET Parts) \ {{}}]
ASSUME BoundsAssumption == MaxPrepares \in Nat /\ MaxFaults \in Nat

VARIABLES
  src,       \* the checkout under corpus/libs: its version, 0 while the submodule is empty
  tree,      \* per component, the version of its library in BUILD_DIR (0: never built)
  prefix,    \* per component, the version installed under PREFIX/lib (0: not installed)
  merged,    \* lib<slug>_merged.a: the components in it, or to be in it, each with its version
  writer,    \* who still has to finish that file: Nobody when it is whole
  obj,       \* nb_combined.o: who opened it last, and whether that compiler has closed it
  nblib,     \* libnanobind-static.a
  pc, force, \* per agent: where its script is, and --force
  removedBy, \* who last ran rm -f on the merged archive
  prepares, faults

vars == <<src, tree, prefix, merged, writer, obj, nblib, pc, force, removedBy, prepares, faults>>
libVars == <<src, tree, prefix, merged, writer, removedBy>>
nbVars == <<obj, nblib>>

NoArchive == [p \in {} |-> 0]
NoObject == [by |-> Nobody, text |-> "absent"]

Labels == {"idle", "nb_check", "nb_compile", "nb_archive", "check", "ninja", "install",
           "remove", "merge", "save", "ready"}

Building == {"ninja", "install", "remove", "merge", "save"}

Goto(a, label) == pc' = [pc EXCEPT ![a] = label]

Init ==
  /\ src = 0
  /\ tree = [p \in Parts |-> 0]
  /\ prefix = [p \in Parts |-> 0]
  /\ merged = NoArchive /\ writer = Nobody
  /\ obj = NoObject
  /\ nblib = "absent"
  /\ pc = [a \in Agents |-> "idle"]
  /\ force = [a \in Agents |-> FALSE]
  /\ removedBy = Nobody
  /\ prepares = 0 /\ faults = 0

-----------------------------------------------------------------------------
(* The submodule and the start of a script                                 *)

\* Assumption on the user: the submodule is moved between builds, not under one.
Pull ==
  /\ src \in 1 .. (MaxVersion - 1)
  /\ \A a \in Agents : pc[a] \notin Building
  /\ src' = src + 1
  /\ UNCHANGED <<tree, prefix, merged, writer, obj, nblib, pc, force, removedBy, prepares, faults>>

\* ci_prepare.sh <slug>: the submodule is initialised, then the support archive is asked for.
CiPrepare(a) ==
  /\ pc[a] = "idle" /\ prepares < MaxPrepares
  /\ src' = IF src = 0 THEN 1 ELSE src
  /\ force' = [force EXCEPT ![a] = FALSE]
  /\ Goto(a, "nb_check")
  /\ prepares' = prepares + 1
  /\ UNCHANGED <<tree, prefix, merged, writer, removedBy, nbVars, faults>>

\* build_abseil.sh --force, or NB_FORCE_REBUILD=1, by hand.
ForceRebuild(a) ==
  /\ a \in Forcers /\ pc[a] = "idle" /\ prepares < MaxPrepares
  /\ src # 0   \* "submodule not initialized": exit 1
  /\ force' = [force EXCEPT ![a] = TRUE]
  /\ Goto(a, "check")
  /\ prepares' = prepares + 1
  /\ UNCHANGED <<libVars, nbVars, faults>>

-----------------------------------------------------------------------------
(* build_nanobind_prod.sh                                                  *)

NbCheck(a) ==
  /\ pc[a] = "nb_check"
  /\ \/ nblib # "absent" /\ Goto(a, "check") /\ UNCHANGED obj
     \* the compiler opens its output: until it closes it, the file is partial
     \/ /\ nblib = "absent" /\ Goto(a, "nb_compile")
        /\ obj' = [by |-> a, text |-> "partial"]
  /\ UNCHANGED <<libVars, nblib, force, prepares, faults>>

\* Fault: ar is run on whatever the compiler has written so far.
NbCompiledTooSoon(a) ==
  /\ pc[a] = "nb_compile"
  /\ Goto(a, "nb_archive")
  /\ UNCHANGED <<libVars, nbVars, force, prepares, faults>>

NbCompiled(a) ==
  /\ pc[a] = "nb_compile"
  \* of two compilers on one path, the path names the file of the one that opened it last
  /\ obj' = IF obj.by = a THEN [obj EXCEPT !.text = "whole"] ELSE obj
  /\ Goto(a, "nb_archive")
  /\ UNCHANGED <<libVars, nblib, force, prepares, faults>>

NbArchive(a) ==
  /\ pc[a] = "nb_archive"
  /\ nblib' = obj.text
  /\ Goto(a, "check")
  /\ UNCHANGED <<libVars, obj, force, prepares, faults>>

-----------------------------------------------------------------------------
(* build_abseil.sh / build_cmake_lib.sh                                    *)

\* Fault: the cache is asked before the arguments are.
CheckIgnoresForce(a) ==
  /\ pc[a] = "check"
  /\ Goto(a, IF merged # NoArchive THEN "ready" ELSE "ninja")
  /\ UNCHANGED <<libVars, nbVars, force, prepares, faults>>

Check(a) ==
  /\ pc[a] = "check"
  /\ Goto(a, IF ~force[a] /\ merged # NoArchive THEN "ready" ELSE "ninja")
  /\ UNCHANGED <<libVars, nbVars, force, prepares, faults>>

\* ninja brings one more component up to date, or finds nothing left to do.
Ninja(a) ==
  /\ pc[a] = "ninja"
  /\ LET stale == {p \in PartsOf[src] : tree[p] # src} IN
       \/ /\ stale # {}
          /\ \E p \in stale : tree' = [tree EXCEPT ![p] = src]
          /\ UNCHANGED pc
       \/ stale = {} /\ Goto(a, "install") /\ UNCHANGED tree
  /\ UNCHANGED <<src, prefix, merged, writer, removedBy, nbVars, force, prepares, faults>>

\* Fault: a component that is already installed is left as it is.
InstallMissing(a) ==
  /\ pc[a] = "install"
  /\ LET due == {p \in PartsOf[src] : prefix[p] = 0} IN
       \/ /\ due # {}
          /\ \E p \in due : prefix' = [prefix EXCEPT ![p] = tree[p]]
          /\ UNCHANGED pc
       \/ due = {} /\ Goto(a, "remove") /\ UNCHANGED prefix
  /\ UNCHANGED <<src, tree, merged, writer, removedBy, nbVars, force, prepares, faults>>

\* cmake --install copies the components that differ; what an older version left stays.
Install(a) ==
  /\ pc[a] = "install"
  /\ LET due == {p \in PartsOf[src] : prefix[p] # tree[p]} IN
       \/ /\ due # {}
          /\ \E p \in due : prefix' = [prefix EXCEPT ![p] = tree[p]]
          /\ UNCHANGED pc
       \/ due = {} /\ Goto(a, "remove") /\ UNCHANGED prefix
  /\ UNCHANGED <<src, tree, merged, writer, removedBy, nbVars, force, prepares, faults>>

Remove(a) ==
  /\ pc[a] = "remove"
  /\ merged' = NoArchive /\ writer' = Nobody
  /\ removedBy' = a
  /\ Goto(a, "merge")
  /\ UNCHANGED <<src, tree, prefix, nbVars, force, prepares, faults>>

\* Fault: with a library already in place there is nothing to save.
MergeUnlessThere(a) ==
  /\ pc[a] = "merge"
  /\ UNCHANGED <<merged, writer>>
  /\ Goto(a, "save")
  /\ UNCHANGED <<src, tree, prefix, removedBy, nbVars, force, prepares, faults>>

\* Fault: the components are taken from a fixed list instead of what is installed.
MergeByName(a) ==
  /\ pc[a] = "merge"
  /\ merged' = prefix /\ writer' = a
  /\ Goto(a, "save")
  /\ UNCHANGED <<src, tree, prefix, removedBy, nbVars, force, prepares, faults>>

\* ar -M with every library `find` saw under the prefix.  Nothing is assumed of its `save` but
\* that it creates the file, or truncates the one that is there, and later has it whole.
Merge(a) ==
  /\ pc[a] = "merge"
  /\ merged' = [p \in {q \in Parts : prefix[q] # 0} |-> prefix[p]]
  /\ writer' = a
  /\ Goto(a, "save")
  /\ UNCHANGED <<src, tree, prefix, removedBy, nbVars, force, prepares, faults>>

\* The `save` is complete.  When another agent has removed or truncated the file meanwhile, this
\* agent's bytes are in a file without a name, or under a hole that the other still has to fill.
Saved(a) ==
  /\ pc[a] = "save"
  /\ writer' = IF writer = a THEN Nobody ELSE writer
  /\ Goto(a, "ready")
  /\ UNCHANGED <<src, tree, prefix, merged, removedBy, nbVars, force, prepares, faults>>

-----------------------------------------------------------------------------
(* The run links and is done; or its script stops where it is              *)

Link(a) ==
  /\ pc[a] = "ready"
  /\ Goto(a, "idle")
  /\ UNCHANGED <<libVars, nbVars, force, prepares, faults>>

\* A kill, or a command that fails under `set -e`: nothing is undone.
Fault(a) ==
  /\ pc[a] \notin {"idle", "ready"} /\ faults < MaxFaults
  /\ faults' = faults + 1
  /\ writer' = IF writer = a THEN Dead ELSE writer
  /\ Goto(a, "idle")
  /\ UNCHANGED <<src, tree, prefix, merged, removedBy, nbVars, force, prepares>>

Support(a) == NbCheck(a) \/ NbCompiled(a) \/ NbArchive(a)

Library(a) == Check(a) \/ Ninja(a) \/ Install(a) \/ Remove(a) \/ Merge(a) \/ Saved(a)

Next ==
  \/ Pull
  \/ \E a \in Agents :
       CiPrepare(a) \/ ForceRebuild(a) \/ Support(a) \/ Library(a) \/ Link(a) \/ Fault(a)

Spec == Init /\ [][Next]_vars

-----------------------------------------------------------------------------
(* Properties                                                              *)

Archives == UNION {[S -> Versions] : S \in SUBSET Parts}

\* The type invariant.
TypeOK ==
  /\ src \in 0 .. MaxVersion
  /\ tree \in [Parts -> 0 .. MaxVersion] /\ prefix \in [Parts -> 0 .. MaxVersion]
  /\ merged \in Archives /\ writer \in Agents \cup {Nobody, Dead}
  /\ obj \in [by : Agents \cup {Nobody}, text : {"absent", "partial", "whole"}]
  /\ nblib \in {"absent", "partial", "whole"}
  /\ pc \in [Agents -> Labels] /\ force \in [Agents -> BOOLEAN]
  /\ removedBy \in Agents \cup {Nobody}
  /\ prepares \in 0 .. MaxPrepares /\ faults \in 0 .. MaxFaults

IsVersion(archive, v) == \A p \in PartsOf[v] : p \in DOMAIN archive /\ archive[p] = v

\* An archive that the existence check would take (build_abseil.sh:44, build_cmake_lib.sh:44) is
\* meant to have every component of some one version of the library at that version, whatever was
\* stopped before and whoever else builds in the same tree; and it is whole, unless a run is at its
\* `save` now, or one was stopped inside it: that one leaves a broken file that the check keeps.
CachedIsOneVersion ==
  merged # NoArchive =>
    /\ \E v \in Versions : IsVersion(merged, v)
    /\ writer # Nobody => IF writer = Dead THEN faults > 0 ELSE pc[writer] = "save"

\* A run whose prepare has ended finds its archive, unless another run's rm -f (build_abseil.sh:92)
\* came in between: no sequence of kills and rebuilds makes a script report success and leave nothing.
OwnPrepareLinks == \A a \in Agents : pc[a] = "ready" /\ merged = NoArchive => removedBy \notin {a, Nobody}

\* A forced rebuild leaves the version that is checked out, whatever the prefix had before and
\* whatever was left broken, or an archive that another run has removed or is still saving.
ForceRefreshes ==
  [][\A a \in Agents : force[a] /\ pc[a] # "ready" /\ pc'[a] = "ready" =>
       \/ IsVersion(merged', src) /\ writer' # a
       \/ merged' = NoArchive /\ removedBy' \notin {a, Nobody}]_vars

\* A support archive made of a half-written nb_combined.o is replaced by an agent still at work on
\* it, as long as no script is stopped; once it is, the existence check keeps the broken archive.
PartialIsReplaced ==
  nblib = "partial" => faults > 0 \/ \E a \in Agents : pc[a] \in {"nb_compile", "nb_archive"}

\* PROVE_OUT.md:174, "Per-repo CWD + per-repo build dir = isolation": what one run's prepare made
\* is there when that run links.  False for two runs of one library in the pool of 2-4.
PoolIsolation == \A a \in Agents : pc[a] = "ready" => merged # NoArchive
=============================================================================
