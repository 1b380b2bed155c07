-------------------------- MODULE ArchiveCacheProofs --------------------------
(***************************************************************************)
(* Proofs about ArchiveCache, for every set of agents, of components and   *)
(* every sequence of versions of the library.                              *)
(***************************************************************************)
EXTENDS ArchiveCache, TLAPS

\* No archive is an archive without components.
LEMMA NoArchiveType == NoArchive \in Archives /\ DOMAIN NoArchive = {}
<1>1. NoArchive \in [{} -> Versions]
  BY DEF NoArchive
<1> QED
  BY <1>1 DEF Archives

\* What ar merges under a well-typed prefix is an archive.
LEMMA MergedType ==
  ASSUME prefix \in [Parts -> 0 .. MaxVersion]
  PROVE  [p \in {q \in Parts : prefix[q] # 0} |-> prefix[p]] \in Archives
<1> DEFINE S == {q \in Parts : prefix[q] # 0}
<1>1. \A p \in S : prefix[p] \in Versions
  BY VersionsAssumption DEF Versions
<1>2. [p \in S |-> prefix[p]] \in [S -> Versions]
  BY <1>1
<1>3. S \in SUBSET Parts
  OBVIOUS
<1> QED
  BY <1>2, <1>3 DEF Archives

\* Nothing is checked out, built or cached at first, and that is well typed.
THEOREM ArchiveInitType == Init => TypeOK
BY NoArchiveType, VersionsAssumption, BoundsAssumption
   DEF Init, TypeOK, Labels, NoObject

\* Every step of a script, a pull or a fault keeps the state well typed.
THEOREM ArchiveNextType == TypeOK /\ [Next]_vars => TypeOK'
<1> SUFFICES ASSUME TypeOK, [Next]_vars PROVE TypeOK'
  OBVIOUS
<1>1. \A a \in Agents, label \in Labels : Goto(a, label) => pc' \in [Agents -> Labels]
  BY DEF TypeOK, Goto
<1>2. CASE UNCHANGED vars
  BY <1>2 DEF vars, TypeOK
<1>3. CASE Pull
  BY <1>3, VersionsAssumption DEF Pull, TypeOK
<1>4. ASSUME NEW a \in Agents, CiPrepare(a) PROVE TypeOK'
  BY <1>1, <1>4, VersionsAssumption, BoundsAssumption
     DEF CiPrepare, TypeOK, libVars, nbVars, Labels
<1>5. ASSUME NEW a \in Agents, ForceRebuild(a) PROVE TypeOK'
  BY <1>1, <1>5, BoundsAssumption DEF ForceRebuild, TypeOK, libVars, nbVars, Labels
<1>6. ASSUME NEW a \in Agents, NbCheck(a) PROVE TypeOK'
  BY <1>1, <1>6 DEF NbCheck, TypeOK, libVars, Labels
<1>7. ASSUME NEW a \in Agents, NbCompiled(a) PROVE TypeOK'
  BY <1>1, <1>7 DEF NbCompiled, TypeOK, libVars, Labels
<1>8. ASSUME NEW a \in Agents, NbArchive(a) PROVE TypeOK'
  BY <1>1, <1>8 DEF NbArchive, TypeOK, libVars, Labels
<1>9. ASSUME NEW a \in Agents, Check(a) PROVE TypeOK'
  BY <1>1, <1>9 DEF Check, TypeOK, libVars, nbVars, Labels
<1>10. ASSUME NEW a \in Agents, Ninja(a) PROVE TypeOK'
  BY <1>1, <1>10 DEF Ninja, TypeOK, nbVars, Labels
<1>11. ASSUME NEW a \in Agents, Install(a) PROVE TypeOK'
  BY <1>1, <1>11 DEF Install, TypeOK, nbVars, Labels
<1>12. ASSUME NEW a \in Agents, Remove(a) PROVE TypeOK'
  BY <1>1, <1>12, NoArchiveType DEF Remove, TypeOK, nbVars, Labels
<1>13. ASSUME NEW a \in Agents, Merge(a) PROVE TypeOK'
  BY <1>1, <1>13, MergedType DEF Merge, TypeOK, nbVars, Labels
<1>14. ASSUME NEW a \in Agents, Link(a) PROVE TypeOK'
  BY <1>1, <1>14 DEF Link, TypeOK, libVars, nbVars, Labels
<1>15. ASSUME NEW a \in Agents, Fault(a) PROVE TypeOK'
  BY <1>1, <1>15, BoundsAssumption DEF Fault, TypeOK, nbVars, Labels
<1>16. ASSUME NEW a \in Agents, Saved(a) PROVE TypeOK'
  BY <1>1, <1>16 DEF Saved, TypeOK, nbVars, Labels
<1> QED
  BY <1>2, <1>3, <1>4, <1>5, <1>6, <1>7, <1>8, <1>9, <1>10, <1>11, <1>12, <1>13, <1>14, <1>15,
     <1>16
     DEF Next, Support, Library

\* Every reachable state is well typed.
THEOREM ArchiveTypeCorrect == Spec => []TypeOK
BY ArchiveInitType, ArchiveNextType, PTL DEF Spec

-----------------------------------------------------------------------------
(* The archive of the library                                              *)

\* What a script has behind it at each label, whoever else works in the same tree.
CheckedOut == \A a \in Agents : pc[a] # "idle" => src # 0

TreeBuilt == \A a \in Agents : pc[a] \in {"install", "remove", "merge", "save"} =>
               \A p \in PartsOf[src] : tree[p] = src

Installed == \A a \in Agents : pc[a] \in {"remove", "merge", "save"} =>
               \A p \in PartsOf[src] : prefix[p] = src

\* The archive that a save ends with: the version checked out, unless another agent removed it.
Saving == \A a \in Agents : pc[a] = "save" =>
            \/ IsVersion(merged, src)
            \/ merged = NoArchive /\ removedBy \notin {a, Nobody}

LibraryInv == /\ CheckedOut /\ TreeBuilt /\ Installed /\ Saving
              /\ CachedIsOneVersion /\ OwnPrepareLinks

\* The components of a version are components, and there are some.
LEMMA SomeParts ==
  ASSUME NEW v \in Versions
  PROVE  PartsOf[v] \subseteq Parts /\ PartsOf[v] # {}
BY PartsAssumption

\* An archive of some version is not the missing one.
LEMMA VersionIsSomething ==
  ASSUME NEW v \in Versions, NEW archive, IsVersion(archive, v)
  PROVE  archive # NoArchive
BY SomeParts, NoArchiveType DEF IsVersion

\* A script that is about to merge merges exactly the version that is checked out, and possibly
\* components that only an older version had.
LEMMA MergeMakesVersion ==
  ASSUME TypeOK, LibraryInv, NEW a \in Agents, Merge(a)
  PROVE  src \in Versions /\ IsVersion(merged', src)
<1>1. src \in Versions
  BY DEF TypeOK, LibraryInv, CheckedOut, Merge, Versions
<1>2. \A p \in PartsOf[src] : p \in Parts /\ prefix[p] = src /\ src # 0
  BY <1>1, SomeParts DEF LibraryInv, Installed, Merge, Versions
<1>3. merged' = [p \in {q \in Parts : prefix[q] # 0} |-> prefix[p]]
  BY DEF Merge
<1> QED
  BY <1>1, <1>2, <1>3 DEF IsVersion

\* A step that leaves the checkout, the tree, the prefix and the archive alone, and takes an agent
\* that is not at its save neither into the build nor past it, keeps the invariant.
LEMMA LibraryFrame ==
  ASSUME TypeOK, LibraryInv, UNCHANGED libVars, faults' = faults, NEW a \in Agents, src # 0,
         \A c \in Agents \ {a} : pc'[c] = pc[c], pc[a] # "save",
         pc'[a] \in {"idle", "nb_check", "nb_compile", "nb_archive", "check", "ninja"}
  PROVE  LibraryInv'
<1>1. UNCHANGED <<src, tree, prefix, merged, writer, removedBy>>
  BY DEF libVars
<1>2. \A c \in Agents : pc'[c] \in {"install", "remove", "merge", "save", "ready"} =>
        pc[c] = pc'[c]
  OBVIOUS
<1>3. CheckedOut'
  BY <1>1 DEF CheckedOut
<1>4. TreeBuilt' /\ Installed'
  BY <1>1, <1>2 DEF LibraryInv, TreeBuilt, Installed
<1>5. Saving'
  BY <1>1, <1>2 DEF LibraryInv, Saving, IsVersion
<1>6. CachedIsOneVersion'
  BY <1>1, <1>2 DEF LibraryInv, CachedIsOneVersion, IsVersion, TypeOK
<1>7. OwnPrepareLinks'
  BY <1>1, <1>2 DEF LibraryInv, OwnPrepareLinks
<1> QED
  BY <1>3, <1>4, <1>5, <1>6, <1>7 DEF LibraryInv

\* At first nobody works and there is no archive.
THEOREM LibraryInit == Init => LibraryInv
BY DEF Init, LibraryInv, CheckedOut, TreeBuilt, Installed, Saving, CachedIsOneVersion,
       OwnPrepareLinks

\* Every step keeps the invariant.  The pull and the first checkout change the version only while
\* nobody builds; another agent's ninja and install only bring components to that version; and a
\* removal leaves its own agent short of "ready".
THEOREM LibraryNext == TypeOK /\ LibraryInv /\ [Next]_vars => LibraryInv'
<1> SUFFICES ASSUME TypeOK, LibraryInv, [Next]_vars PROVE LibraryInv'
  OBVIOUS
<1>1. \A a \in Agents : \A label : Goto(a, label) =>
        pc'[a] = label /\ \A c \in Agents \ {a} : pc'[c] = pc[c]
  BY DEF TypeOK, Goto
<1>2. CASE UNCHANGED vars
  BY <1>2 DEF vars, LibraryInv, CheckedOut, TreeBuilt, Installed, Saving, CachedIsOneVersion,
              OwnPrepareLinks, IsVersion
<1>3. CASE Pull
  <2>1. \A a \in Agents : pc'[a] \notin Building
    BY <1>3 DEF Pull
  <2>2. TreeBuilt' /\ Installed' /\ Saving'
    BY <2>1 DEF Building, TreeBuilt, Installed, Saving
  <2>3. CheckedOut'
    BY <1>3 DEF Pull, TypeOK, CheckedOut
  <2> QED
    BY <1>3, <2>2, <2>3
       DEF Pull, LibraryInv, CachedIsOneVersion, OwnPrepareLinks, IsVersion
<1>4. ASSUME NEW a \in Agents, CiPrepare(a) PROVE LibraryInv'
  <2>1. pc'[a] = "nb_check" /\ \A c \in Agents \ {a} : pc'[c] = pc[c]
    BY <1>1, <1>4 DEF CiPrepare
  <2>2. src # 0 => src' = src
    BY <1>4 DEF CiPrepare
  <2>3. src' # 0
    BY <1>4 DEF CiPrepare
  <2>4. src = 0 => \A c \in Agents : pc[c] = "idle"
    BY DEF LibraryInv, CheckedOut
  <2>5. CheckedOut'
    BY <2>3 DEF CheckedOut
  <2>6. TreeBuilt' /\ Installed' /\ Saving'
    BY <1>4, <2>1, <2>2, <2>4
       DEF CiPrepare, LibraryInv, TreeBuilt, Installed, Saving, IsVersion
  <2>7. CachedIsOneVersion'
    BY <1>4, <2>1 DEF CiPrepare, LibraryInv, CachedIsOneVersion, IsVersion, TypeOK
  <2>8. OwnPrepareLinks'
    BY <1>4, <2>1 DEF CiPrepare, LibraryInv, OwnPrepareLinks
  <2> QED
    BY <2>5, <2>6, <2>7, <2>8 DEF LibraryInv
<1>5. ASSUME NEW a \in Agents, ForceRebuild(a) PROVE LibraryInv'
  <2>1. /\ pc[a] = "idle" /\ pc'[a] = "check" /\ \A c \in Agents \ {a} : pc'[c] = pc[c]
        /\ src # 0 /\ UNCHANGED libVars /\ faults' = faults
    BY <1>1, <1>5 DEF ForceRebuild
  <2> QED
    BY <2>1, LibraryFrame
<1>6. ASSUME NEW a \in Agents, Support(a) PROVE LibraryInv'
  <2>1. src # 0
    BY <1>6 DEF Support, NbCheck, NbCompiled, NbArchive, LibraryInv, CheckedOut
  <2>2. UNCHANGED libVars /\ faults' = faults
    BY <1>6 DEF Support, NbCheck, NbCompiled, NbArchive
  <2>3. /\ pc[a] # "save" /\ pc'[a] \in {"nb_compile", "nb_archive", "check"}
        /\ \A c \in Agents \ {a} : pc'[c] = pc[c]
    BY <1>1, <1>6 DEF Support, NbCheck, NbCompiled, NbArchive
  <2> QED
    BY <2>1, <2>2, <2>3, LibraryFrame
<1>7. ASSUME NEW a \in Agents, Check(a) PROVE LibraryInv'
  <2>1. src # 0 /\ UNCHANGED libVars /\ faults' = faults /\ pc[a] = "check"
    BY <1>7 DEF Check, LibraryInv, CheckedOut
  <2>2. CASE ~force[a] /\ merged # NoArchive
    <3>1. pc'[a] = "ready" /\ \A c \in Agents \ {a} : pc'[c] = pc[c]
      BY <1>1, <1>7, <2>2 DEF Check
    <3>2. CheckedOut' /\ TreeBuilt' /\ Installed' /\ Saving'
      BY <2>1, <3>1 DEF LibraryInv, CheckedOut, TreeBuilt, Installed, Saving, IsVersion, libVars
    <3>3. CachedIsOneVersion'
      BY <2>1, <3>1 DEF LibraryInv, CachedIsOneVersion, IsVersion, libVars, TypeOK
    <3>4. OwnPrepareLinks'
      BY <2>1, <2>2 DEF OwnPrepareLinks, libVars
    <3> QED
      BY <3>2, <3>3, <3>4 DEF LibraryInv
  <2>3. CASE ~(~force[a] /\ merged # NoArchive)
    <3>1. pc'[a] = "ninja" /\ \A c \in Agents \ {a} : pc'[c] = pc[c]
      BY <1>1, <1>7, <2>3 DEF Check
    <3> QED
      BY <2>1, <3>1, LibraryFrame
  <2> QED
    BY <2>2, <2>3
<1>8. ASSUME NEW a \in Agents, Ninja(a) PROVE LibraryInv'
  <2>1. /\ src # 0 /\ src' = src /\ prefix' = prefix /\ merged' = merged /\ writer' = writer
        /\ removedBy' = removedBy /\ faults' = faults /\ pc[a] = "ninja"
    BY <1>8 DEF Ninja, LibraryInv, CheckedOut
  <2>2. \A p \in Parts : tree[p] = src => tree'[p] = src
    BY <1>8 DEF Ninja, TypeOK
  <2>3. PartsOf[src] \subseteq Parts
    BY <2>1, SomeParts DEF TypeOK, Versions
  <2>4. \A c \in Agents : pc'[c] = pc[c] \/ (c = a /\ pc'[c] = "install")
    BY <1>1, <1>8 DEF Ninja
  <2>5. pc'[a] = "install" => \A p \in PartsOf[src] : tree'[p] = src
    BY <1>1, <1>8 DEF Ninja
  <2>6. TreeBuilt'
    BY <2>1, <2>2, <2>3, <2>4, <2>5 DEF LibraryInv, TreeBuilt
  <2>7. CheckedOut' /\ Installed' /\ Saving' /\ OwnPrepareLinks'
    BY <2>1, <2>4
       DEF LibraryInv, CheckedOut, Installed, Saving, OwnPrepareLinks, IsVersion
  <2>8. CachedIsOneVersion'
    BY <2>1, <2>4 DEF LibraryInv, CachedIsOneVersion, IsVersion, TypeOK
  <2> QED
    BY <2>6, <2>7, <2>8 DEF LibraryInv
<1>9. ASSUME NEW a \in Agents, Install(a) PROVE LibraryInv'
  <2>1. /\ src # 0 /\ src' = src /\ tree' = tree /\ merged' = merged /\ writer' = writer
        /\ removedBy' = removedBy /\ faults' = faults /\ pc[a] = "install"
    BY <1>9 DEF Install, LibraryInv, CheckedOut
  <2>2. \A p \in PartsOf[src] : tree[p] = src
    BY <1>9 DEF Install, LibraryInv, TreeBuilt
  <2>3. PartsOf[src] \subseteq Parts
    BY <2>1, SomeParts DEF TypeOK, Versions
  <2>4. \A p \in PartsOf[src] : prefix[p] = src => prefix'[p] = src
    BY <1>9, <2>2, <2>3 DEF Install, TypeOK
  <2>5. \A c \in Agents : pc'[c] = pc[c] \/ (c = a /\ pc'[c] = "remove")
    BY <1>1, <1>9 DEF Install
  <2>6. pc'[a] = "remove" => \A p \in PartsOf[src] : prefix'[p] = src
    BY <1>1, <1>9, <2>2 DEF Install
  <2>7. Installed'
    BY <2>1, <2>4, <2>5, <2>6 DEF LibraryInv, Installed
  <2>8. TreeBuilt'
    BY <2>1, <2>2, <2>5 DEF LibraryInv, TreeBuilt
  <2>9. CheckedOut' /\ Saving' /\ OwnPrepareLinks'
    BY <2>1, <2>5 DEF LibraryInv, CheckedOut, Saving, OwnPrepareLinks, IsVersion
  <2>10. CachedIsOneVersion'
    BY <2>1, <2>5 DEF LibraryInv, CachedIsOneVersion, IsVersion, TypeOK
  <2> QED
    BY <2>7, <2>8, <2>9, <2>10 DEF LibraryInv
<1>10. ASSUME NEW a \in Agents, Remove(a) PROVE LibraryInv'
  <2>1. /\ src # 0 /\ src' = src /\ tree' = tree /\ prefix' = prefix
        /\ merged' = NoArchive /\ removedBy' = a
    BY <1>10 DEF Remove, LibraryInv, CheckedOut
  <2>2. pc[a] = "remove" /\ pc'[a] = "merge" /\ \A c \in Agents \ {a} : pc'[c] = pc[c]
    BY <1>1, <1>10 DEF Remove
  <2>3. CheckedOut' /\ TreeBuilt' /\ Installed'
    BY <2>1, <2>2 DEF LibraryInv, CheckedOut, TreeBuilt, Installed
  <2>4. CachedIsOneVersion'
    BY <2>1 DEF CachedIsOneVersion, NoArchive
  <2>5. OwnPrepareLinks' /\ Saving'
    BY <2>1, <2>2, AgentsAssumption DEF OwnPrepareLinks, Saving, NoArchive
  <2> QED
    BY <2>3, <2>4, <2>5 DEF LibraryInv
<1>11. ASSUME NEW a \in Agents, Merge(a) PROVE LibraryInv'
  <2>1. src \in Versions /\ IsVersion(merged', src)
    BY <1>11, MergeMakesVersion
  <2>2. merged' # NoArchive
    BY <2>1, VersionIsSomething
  <2>3. pc[a] = "merge" /\ pc'[a] = "save" /\ \A c \in Agents \ {a} : pc'[c] = pc[c]
    BY <1>1, <1>11 DEF Merge
  <2>4. CheckedOut' /\ TreeBuilt' /\ Installed'
    BY <1>11, <2>3 DEF Merge, LibraryInv, CheckedOut, TreeBuilt, Installed
  <2>5. OwnPrepareLinks'
    BY <2>2, <2>3 DEF OwnPrepareLinks, NoArchive
  <2>6. src' = src /\ writer' = a
    BY <1>11 DEF Merge
  <2>7. Saving'
    <3>1. IsVersion(merged', src')
      BY <2>1, <2>6
    <3> QED
      BY <3>1 DEF Saving, IsVersion
  <2>8. a # Nobody /\ a # Dead
    BY AgentsAssumption
  <2>9. CachedIsOneVersion'
    BY <2>1, <2>3, <2>6, <2>8 DEF CachedIsOneVersion, IsVersion
  <2> QED
    BY <2>4, <2>5, <2>7, <2>9 DEF LibraryInv
<1>12. ASSUME NEW a \in Agents, Saved(a) PROVE LibraryInv'
  <2>1. /\ pc[a] = "save" /\ pc'[a] = "ready" /\ \A c \in Agents \ {a} : pc'[c] = pc[c]
        /\ UNCHANGED <<src, tree, prefix, merged, removedBy, faults>>
        /\ writer' = IF writer = a THEN Nobody ELSE writer
    BY <1>1, <1>12 DEF Saved
  <2>2. CheckedOut' /\ TreeBuilt' /\ Installed' /\ Saving'
    BY <2>1 DEF LibraryInv, CheckedOut, TreeBuilt, Installed, Saving, IsVersion
  <2>3. src \in Versions
    BY <2>1 DEF TypeOK, LibraryInv, CheckedOut, Versions
  <2>4. merged = NoArchive => removedBy \notin {a, Nobody}
    BY <2>1, <2>3, VersionIsSomething DEF LibraryInv, Saving
  <2>5. OwnPrepareLinks'
    BY <2>1, <2>4 DEF LibraryInv, OwnPrepareLinks
  <2>6. CachedIsOneVersion'
    BY <2>1 DEF LibraryInv, CachedIsOneVersion, IsVersion, TypeOK
  <2> QED
    BY <2>2, <2>5, <2>6 DEF LibraryInv
<1>13. ASSUME NEW a \in Agents, Link(a) PROVE LibraryInv'
  <2>1. /\ pc[a] = "ready" /\ pc'[a] = "idle" /\ \A c \in Agents \ {a} : pc'[c] = pc[c]
        /\ src # 0 /\ UNCHANGED libVars /\ faults' = faults
    BY <1>1, <1>13 DEF Link, LibraryInv, CheckedOut
  <2> QED
    BY <2>1, LibraryFrame
<1>14. ASSUME NEW a \in Agents, Fault(a) PROVE LibraryInv'
  <2>1. /\ pc[a] # "idle" /\ pc'[a] = "idle" /\ \A c \in Agents \ {a} : pc'[c] = pc[c]
        /\ UNCHANGED <<src, tree, prefix, merged, removedBy>>
        /\ faults' = faults + 1 /\ writer' = IF writer = a THEN Dead ELSE writer
    BY <1>1, <1>14 DEF Fault
  <2>2. CheckedOut' /\ TreeBuilt' /\ Installed' /\ Saving' /\ OwnPrepareLinks'
    BY <2>1 DEF LibraryInv, CheckedOut, TreeBuilt, Installed, Saving, OwnPrepareLinks, IsVersion
  <2>3. faults \in Nat
    BY BoundsAssumption DEF TypeOK
  <2>4. CachedIsOneVersion'
    BY <2>1, <2>3 DEF LibraryInv, CachedIsOneVersion, IsVersion, TypeOK
  <2> QED
    BY <2>2, <2>4 DEF LibraryInv
<1> QED
  BY <1>2, <1>3, <1>4, <1>5, <1>6, <1>7, <1>8, <1>9, <1>10, <1>11, <1>12, <1>13, <1>14
     DEF Next, Library

\* CachedIsOneVersion holds in every reachable state, for every number of agents and versions: the
\* order install, rm, merge keeps versions apart, and only a stop inside a save leaves a broken file.
THEOREM CachedIsOneVersionHolds == Spec => []CachedIsOneVersion
<1>1. LibraryInv => CachedIsOneVersion
  BY DEF LibraryInv
<1> QED
  BY <1>1, ArchiveInitType, ArchiveNextType, LibraryInit, LibraryNext, PTL DEF Spec

\* OwnPrepareLinks holds in every reachable state: a prepared archive is lost only to another's rm.
THEOREM OwnPrepareLinksHolds == Spec => []OwnPrepareLinks
<1>1. LibraryInv => OwnPrepareLinks
  BY DEF LibraryInv
<1> QED
  BY <1>1, ArchiveInitType, ArchiveNextType, LibraryInit, LibraryNext, PTL DEF Spec

\* The step that makes a forced rebuild ready is the end of its save, and nothing that another agent
\* does in the meantime puts another version there.
THEOREM ForceRefreshesHolds == Spec => ForceRefreshes
<1> DEFINE Refresh == \A a \in Agents :
             force[a] /\ pc[a] # "ready" /\ pc'[a] = "ready" =>
               \/ IsVersion(merged', src) /\ writer' # a
               \/ merged' = NoArchive /\ removedBy' \notin {a, Nobody}
<1>1. TypeOK /\ LibraryInv /\ [Next]_vars => [Refresh]_vars
  <2> SUFFICES ASSUME TypeOK, LibraryInv, Next, NEW a \in Agents,
                      force[a], pc[a] # "ready", pc'[a] = "ready"
               PROVE  \/ IsVersion(merged', src) /\ writer' # a
                      \/ merged' = NoArchive /\ removedBy' \notin {a, Nobody}
    OBVIOUS
  <2>1. \A b \in Agents : \A label : Goto(b, label) =>
          pc'[b] = label /\ \A c \in Agents \ {b} : pc'[c] = pc[c]
    BY DEF TypeOK, Goto
  <2>2. ASSUME NEW b \in Agents, b # a,
               CiPrepare(b) \/ ForceRebuild(b) \/ Support(b) \/ Library(b) \/ Link(b) \/ Fault(b)
        PROVE  FALSE
    <3>1. pc'[a] = pc[a]
      BY <2>1, <2>2
         DEF CiPrepare, ForceRebuild, Support, Library, Link, Fault, NbCheck, NbCompiled,
             NbArchive, Check, Ninja, Install, Remove, Merge, Saved
    <3> QED
      BY <3>1
  <2>3. CASE Saved(a)
    <3>1. \/ IsVersion(merged, src)
          \/ merged = NoArchive /\ removedBy \notin {a, Nobody}
      BY <2>3 DEF Saved, LibraryInv, Saving
    <3>2. writer' # a
      BY <2>3, AgentsAssumption DEF Saved
    <3> QED
      BY <2>3, <3>1, <3>2 DEF Saved, IsVersion
  <2>4. ASSUME CiPrepare(a) \/ ForceRebuild(a) \/ Support(a) \/ Check(a) \/ Ninja(a) \/ Install(a)
               \/ Remove(a) \/ Merge(a) \/ Link(a) \/ Fault(a)
        PROVE  FALSE
    BY <2>1, <2>4
       DEF CiPrepare, ForceRebuild, Support, Link, Fault, NbCheck, NbCompiled,
           NbArchive, Check, Ninja, Install, Remove, Merge
  <2> QED
    BY <2>2, <2>3, <2>4 DEF Next, Pull, Library
<1> QED
  BY <1>1, ArchiveInitType, ArchiveNextType, LibraryInit, LibraryNext, PTL
     DEF Spec, ForceRefreshes

-----------------------------------------------------------------------------
(* The support archive                                                     *)

\* The object on disk is there once a compiler has been started, and partial only while the
\* compiler that opened it last is running; an archive made of it meanwhile will be replaced.
SupportInv ==
  /\ \A a \in Agents : pc[a] \in {"nb_compile", "nb_archive"} => obj.text # "absent"
  /\ faults = 0 /\ obj.text = "partial" => obj.by \in Agents /\ pc[obj.by] = "nb_compile"
  /\ PartialIsReplaced

\* At first there is no object and no archive.
THEOREM SupportInit == Init => SupportInv
BY DEF Init, SupportInv, PartialIsReplaced, NoObject

\* Every step keeps the invariant: two compilers may be on one object, but the one that opened it
\* last has still to archive it.
THEOREM SupportNext == TypeOK /\ SupportInv /\ [Next]_vars => SupportInv'
<1> SUFFICES ASSUME TypeOK, SupportInv, [Next]_vars PROVE SupportInv'
  OBVIOUS
<1>1. \A a \in Agents : \A label : Goto(a, label) =>
        pc'[a] = label /\ \A c \in Agents \ {a} : pc'[c] = pc[c]
  BY DEF TypeOK, Goto
<1>2. CASE UNCHANGED vars
  BY <1>2 DEF vars, SupportInv, PartialIsReplaced
<1>3. CASE Pull
  BY <1>3 DEF Pull, SupportInv, PartialIsReplaced
<1>4. ASSUME NEW a \in Agents,
             CiPrepare(a) \/ ForceRebuild(a) \/ Library(a) \/ Link(a)
      PROVE  SupportInv'
  <2>1. obj' = obj /\ nblib' = nblib /\ faults' = faults
    BY <1>4 DEF CiPrepare, ForceRebuild, Library, Check, Ninja, Install, Remove, Merge, Saved, Link, nbVars
  <2>2. /\ \A c \in Agents : pc'[c] \in {"nb_compile", "nb_archive"} => pc'[c] = pc[c]
        /\ \A c \in Agents : pc[c] \in {"nb_compile", "nb_archive"} => pc'[c] = pc[c]
    BY <1>1, <1>4 DEF CiPrepare, ForceRebuild, Library, Check, Ninja, Install, Remove, Merge, Saved, Link
  <2> QED
    BY <2>1, <2>2 DEF SupportInv, PartialIsReplaced
<1>5. ASSUME NEW a \in Agents, NbCheck(a) PROVE SupportInv'
  <2>1. CASE nblib # "absent" /\ Goto(a, "check") /\ UNCHANGED obj
    BY <1>1, <1>5, <2>1 DEF NbCheck, SupportInv, PartialIsReplaced
  <2>2. CASE nblib = "absent" /\ Goto(a, "nb_compile") /\ obj' = [by |-> a, text |-> "partial"]
    BY <1>1, <1>5, <2>2 DEF NbCheck, SupportInv, PartialIsReplaced
  <2> QED
    BY <1>5, <2>1, <2>2 DEF NbCheck
<1>6. ASSUME NEW a \in Agents, NbCompiled(a) PROVE SupportInv'
  <2>1. /\ pc[a] = "nb_compile" /\ pc'[a] = "nb_archive" /\ nblib' = nblib /\ faults' = faults
        /\ \A c \in Agents \ {a} : pc'[c] = pc[c]
    BY <1>1, <1>6 DEF NbCompiled
  <2>2. CASE obj.by = a
    <3>1. obj'.text = "whole"
      BY <1>6, <2>2 DEF NbCompiled, TypeOK
    <3> QED
      BY <2>1, <3>1 DEF SupportInv, PartialIsReplaced
  <2>3. CASE obj.by # a
    <3>1. obj' = obj
      BY <1>6, <2>3 DEF NbCompiled
    <3> QED
      BY <2>1, <2>3, <3>1 DEF SupportInv, PartialIsReplaced
  <2> QED
    BY <2>2, <2>3
<1>7. ASSUME NEW a \in Agents, NbArchive(a) PROVE SupportInv'
  <2>1. /\ pc[a] = "nb_archive" /\ pc'[a] = "check" /\ nblib' = obj.text
        /\ obj' = obj /\ faults' = faults
        /\ \A c \in Agents \ {a} : pc'[c] = pc[c]
    BY <1>1, <1>7 DEF NbArchive
  <2>2. faults = 0 /\ obj.text = "partial" => obj.by \in Agents /\ pc'[obj.by] = "nb_compile"
    BY <2>1 DEF SupportInv
  <2>3. faults \in Nat
    BY BoundsAssumption DEF TypeOK
  <2>4. PartialIsReplaced'
    BY <2>1, <2>2, <2>3 DEF PartialIsReplaced
  <2>5. \A c \in Agents : pc'[c] \in {"nb_compile", "nb_archive"} => pc'[c] = pc[c]
    BY <2>1
  <2> QED
    BY <2>1, <2>2, <2>4, <2>5 DEF SupportInv
<1>8. ASSUME NEW a \in Agents, Fault(a) PROVE SupportInv'
  <2>1. faults' = faults + 1 /\ faults \in Nat /\ obj' = obj
    BY <1>8, BoundsAssumption DEF Fault, TypeOK, nbVars
  <2>2. \A c \in Agents : pc'[c] \in {"nb_compile", "nb_archive"} => pc'[c] = pc[c]
    BY <1>1, <1>8 DEF Fault
  <2>3. faults' > 0
    BY <2>1
  <2> QED
    BY <2>1, <2>2, <2>3 DEF SupportInv, PartialIsReplaced
<1> QED
  BY <1>2, <1>3, <1>4, <1>5, <1>6, <1>7, <1>8 DEF Next, Support

\* PartialIsReplaced holds in every reachable state, for every number of agents.
THEOREM PartialIsReplacedHolds == Spec => []PartialIsReplaced
<1>1. SupportInv => PartialIsReplaced
  BY DEF SupportInv
<1> QED
  BY <1>1, ArchiveInitType, ArchiveNextType, SupportInit, SupportNext, PTL DEF Spec
=============================================================================
