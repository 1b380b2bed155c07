--------------------------- MODULE BuildLaneProofs ---------------------------
(***************************************************************************)
(* Theorems about BuildLane, for every number of builds.                   *)
(***************************************************************************)
EXTENDS BuildLane, TLAPS

\* A stage's command makes a well-typed file of the running build.
LEMMA MadeType ==
  ASSUME TypeOK, builds # 0, NEW s \in Stages
  PROVE  /\ Made(s) \in Files /\ Made(s) # Nothing /\ Made(s).by = builds
         /\ Inputs(s) \subseteq Stages
<1>1. builds \in 1 .. MaxBuilds
  BY MaxBuildsAssumption DEF TypeOK
<1>2. Inputs(s) \subseteq Stages
  BY DEF Inputs, Stages
<1>3. Cxx(s) \in Toolchains
  BY DEF Cxx, Toolchains
<1>4. \A i \in Inputs(s) : file[lane][i] \in Files
  BY <1>2 DEF TypeOK
<1>5. UNION {file[lane][i].from : i \in Inputs(s)} \subseteq 1 .. MaxBuilds
  BY <1>4 DEF Files
<1>6. UNION {file[lane][i].code : i \in Inputs(s)} \subseteq Toolchains
  BY <1>4 DEF Files
<1>7. CodeOf(s) \subseteq Toolchains
  BY <1>3, <1>6 DEF CodeOf
<1>8. {builds} \cup UNION {file[lane][i].from : i \in Inputs(s)} \subseteq 1 .. MaxBuilds
  BY <1>1, <1>5
<1>9. Made(s) \in Files /\ Made(s).by = builds
  BY <1>1, <1>7, <1>8 DEF Made, Files
<1> QED
  BY <1>2, <1>9 DEF Nothing

\* Nothing is a file record too.
LEMMA NothingType == Nothing \in Files
BY MaxBuildsAssumption DEF Nothing, Files

\* Writing one file of the running lane keeps the directories well typed.
LEMMA WriteType ==
  ASSUME TypeOK, NEW s \in Stages, NEW f \in Files
  PROVE  [file EXCEPT ![lane][s] = f] \in [Lanes -> [Stages -> Files]]
BY DEF TypeOK

\* A failed build is filed under a stage of the lane's own script.
LEMMA ReportFiled ==
  ASSUME TypeOK, NEW s \in Stages
  PROVE  Report(s) \in Filed(lane)
BY DEF TypeOK, Report, Filed, EmitReports, ModuleReports, Stages, Lanes

\* What Fail leaves is well typed.
LEMMA FailType ==
  ASSUME TypeOK, NEW l \in Lanes, NEW st \in {"module"} \cup Filed(l),
         NEW cxx \in SUBSET Toolchains, Fail(l, st, cxx)
  PROVE  /\ failure' \in [Lanes -> {"none", "pass", "module"} \cup EmitReports \cup ModuleReports]
         /\ \A k \in Lanes : failure'[k] \in {"none", "pass", "module"} \cup Filed(k)
         /\ shown' \in [Lanes -> SUBSET Toolchains]
         /\ pc' = "idle"
<1>1. st \in {"none", "pass", "module"} \cup EmitReports \cup ModuleReports
  BY DEF Filed
<1>2. failure' = [failure EXCEPT ![l] = st]
  BY DEF Fail
<1> QED
  BY <1>1, <1>2 DEF TypeOK, Fail

-----------------------------------------------------------------------------
(* Types.  That a build in progress has a number is needed for its files.  *)

Numbered == pc # "idle" => builds # 0

Typed == TypeOK /\ Numbered

\* At first nothing is built and no build runs.
THEOREM BuildInitType == Init => Typed
BY NothingType, MaxBuildsAssumption
   DEF Init, Typed, TypeOK, Numbered, Lanes, Filed

\* Every step keeps the types: a stage writes one file of its lane, and a failure is filed under
\* a stage of that lane's script.
THEOREM BuildNextType == Typed /\ [Next]_vars => Typed'
<1> SUFFICES ASSUME Typed, [Next]_vars PROVE Typed'
  OBVIOUS
<1> USE DEF Typed
<1>1. CASE UNCHANGED vars
  BY <1>1 DEF vars, TypeOK, Numbered, Filed
<1>2. CASE Edit
  BY <1>2 DEF Edit, TypeOK, Numbered, Filed
<1>3. CASE ArchiveMissing
  <2>1. TypeOK'
    BY <1>3, FailType DEF ArchiveMissing, TypeOK, Lanes, Toolchains
  <2> QED
    BY <1>3, <2>1 DEF ArchiveMissing, Fail, Numbered
<1>4. CASE Link
  <2>1. "module" \in Stages /\ builds # 0 /\ lane \in Lanes
    BY <1>4 DEF Link, Runs, Numbered, Stages, TypeOK
  <2>2. file' \in [Lanes -> [Stages -> Files]]
    BY <1>4, <2>1, MadeType, WriteType DEF Link
  <2>3. /\ failure' \in [Lanes -> {"none", "pass", "module"} \cup EmitReports \cup ModuleReports]
        /\ \A l \in Lanes : failure'[l] \in {"none", "pass", "module"} \cup Filed(l)
    BY <1>4, <2>1 DEF Link, TypeOK, Filed
  <2> QED
    BY <1>4, <2>2, <2>3 DEF Link, TypeOK, Numbered
<1>5. ASSUME NEW l \in Lanes, Begin(l) PROVE Typed'
  <2>1. First(l) \in Stages
    BY DEF First, Stages
  <2>2. builds' \in 0 .. MaxBuilds /\ builds' # 0
    BY <1>5, MaxBuildsAssumption DEF Begin, TypeOK
  <2> QED
    BY <1>5, <2>1, <2>2 DEF Begin, TypeOK, Numbered, Filed, Toolchains
<1>6. ASSUME NEW s \in Stages, StagePasses(s) PROVE Typed'
  <2>1. builds # 0
    BY <1>6 DEF StagePasses, Runs, Numbered, Stages
  <2>2. file' \in [Lanes -> [Stages -> Files]]
    BY <1>6, <2>1, MadeType, WriteType DEF StagePasses
  <2>3. After(s) \in Stages
    BY DEF After, Stages
  <2> QED
    BY <1>6, <2>1, <2>2, <2>3 DEF StagePasses, TypeOK, Numbered, Filed
<1>7. ASSUME NEW s \in Stages, StageFails(s) PROVE Typed'
  <2>1. file[lane][s] \in Files
    BY DEF TypeOK
  <2>2. file' \in [Lanes -> [Stages -> Files]]
    BY <1>7, <2>1, NothingType, WriteType DEF StageFails, Spoils
  <2>3. (IF s = "text" THEN file[lane]["gen"].code ELSE {Cxx(s)}) \in SUBSET Toolchains
    BY DEF TypeOK, Files, Stages, Cxx, Toolchains
  <2>4. TypeOK'
    BY <1>7, <2>2, <2>3, ReportFiled, FailType DEF StageFails, TypeOK
  <2> QED
    BY <1>7, <2>4 DEF StageFails, Fail, Numbered
<1>8. ASSUME NEW s \in Stages, Kill(s) PROVE Typed'
  <2>1. builds # 0
    BY <1>8 DEF Kill, Runs, Numbered, Stages
  <2>2. file[lane][s] \in Files
    BY DEF TypeOK
  <2>3. file' \in [Lanes -> [Stages -> Files]]
    BY <1>8, <2>1, <2>2, NothingType, MadeType, WriteType DEF Kill
  <2> QED
    BY <1>8, <2>3 DEF Kill, TypeOK, Numbered, Filed
<1> QED
  BY <1>1, <1>2, <1>3, <1>4, <1>5, <1>6, <1>7, <1>8 DEF Next

\* run_lane's state and the files of both build directories are well typed.
THEOREM BuildTypeCorrect == Spec => []TypeOK
<1>1. Typed => TypeOK
  BY DEF Typed
<1> QED
  BY <1>1, BuildInitType, BuildNextType, PTL DEF Spec

-----------------------------------------------------------------------------
(***************************************************************************)
(* What is in a module.  ModuleIsOwn and OneRuntime speak of the end of a  *)
(* build; on the way there, the files a stage is about to use must be      *)
(* known to be this build's, and their code the right compiler's.          *)
(***************************************************************************)

\* The file of a stage is this build's alone, with code of that stage's compiler only.
Own(s) == /\ file[lane][s] # Nothing
          /\ file[lane][s].by = builds /\ file[lane][s].from = {builds}
          /\ file[lane][s].code = IF s = "text" THEN {} ELSE {Cxx(s)}

\* The object of the binding waits for the extra sources to be compiled.
Ready(s) == (\A i \in Inputs(s) : Own(i)) /\ (s = "extra" => Own("obj"))

Underway == pc # "idle" => failure[lane] = "none" /\ Ready(pc)

ContentInv == Underway /\ ModuleIsOwn /\ OneRuntime /\ ReflectionDiagnosticsOnly

\* The inputs of a stage are compiled by its own compiler, or rendered text.
LEMMA InputsCxx ==
  ASSUME NEW s \in Stages, NEW i \in Inputs(s), s # "text"
  PROVE  i \in Stages /\ (i = "text" \/ Cxx(i) = Cxx(s))
BY DEF Inputs, Cxx, Stages

\* What a stage makes of its own build's files is its own build's.
LEMMA MadeOwn ==
  ASSUME NEW s \in Stages, \A i \in Inputs(s) : Own(i), builds # 0
  PROVE  /\ Made(s) # Nothing /\ Made(s).by = builds /\ Made(s).from = {builds}
         /\ Made(s).code = IF s = "text" THEN {} ELSE {Cxx(s)}
<1>1. UNION {file[lane][i].from : i \in Inputs(s)} \subseteq {builds}
  BY DEF Own
<1>2. s # "text" => UNION {file[lane][i].code : i \in Inputs(s)} \subseteq {Cxx(s)}
  BY InputsCxx DEF Own
<1>3. /\ Made(s).by = builds
      /\ Made(s).from = {builds} \cup UNION {file[lane][i].from : i \in Inputs(s)}
      /\ Made(s).code = CodeOf(s)
  BY DEF Made
<1>4. Made(s) # Nothing
  BY <1>3 DEF Nothing
<1>5. CodeOf(s) = IF s = "text" THEN {} ELSE {Cxx(s)}
  BY <1>2 DEF CodeOf
<1> QED
  BY <1>1, <1>3, <1>4, <1>5

\* The first stage of a script uses no file of the build directory.
LEMMA FirstInputs ==
  ASSUME NEW l \in Lanes, Begin(l)
  PROVE  (Inputs(First(l)) = {})' /\ First(l) # "extra" /\ First(l)' = First(l)
BY DEF Begin, First, Inputs, Generates, Lanes

\* A stage that passes leaves the next one its inputs, if it was ready itself.
LEMMA PassReady ==
  ASSUME Typed, ContentInv, NEW s \in Stages, StagePasses(s)
  PROVE  Ready(pc)'
<1>1. pc = s /\ s # "idle" /\ builds # 0 /\ Ready(s) /\ lane \in Lanes
  BY DEF StagePasses, Runs, Stages, Typed, TypeOK, Numbered, ContentInv, Underway
<1>2. file' = [file EXCEPT ![lane][s] = Made(s)] /\ UNCHANGED <<conf, lane, builds>>
  BY DEF StagePasses
<1>3. file'[lane][s] = Made(s) /\ \A i \in Stages \ {s} : file'[lane][i] = file[lane][i]
  BY <1>1, <1>2 DEF Typed, TypeOK
<1>4. \A i : Cxx(i)' = Cxx(i)
  BY <1>2 DEF Cxx
<1>5. Own(s)'
  BY <1>1, <1>2, <1>3, <1>4, MadeOwn DEF Own, Ready
<1>6. s = "extra" => Own("obj")'
  BY <1>1, <1>2, <1>3, <1>4 DEF Own, Ready, Stages
<1>7. pc' = After(s) /\ \A i \in Inputs(pc)' : i = s \/ (s = "extra" /\ i = "obj")
  BY <1>2 DEF After, Inputs, StagePasses, Stages
<1>8. pc' = "extra" => s = "obj"
  BY DEF After, Stages, StagePasses
<1> QED
  BY <1>5, <1>6, <1>7, <1>8 DEF Ready

\* Nothing is built yet, so nothing has passed.
THEOREM ContentInit == Init => ContentInv
BY DEF Init, ContentInv, Underway, ModuleIsOwn, OneRuntime, ReflectionDiagnosticsOnly, Lanes

\* Every step keeps what is known of the files: the files of the other lane's directory, and of
\* a build that has not ended, are not in a module that passed.
THEOREM ContentNext == Typed /\ ContentInv /\ [Next]_vars => ContentInv'
<1> SUFFICES ASSUME Typed, ContentInv, [Next]_vars PROVE ContentInv'
  OBVIOUS
<1> USE DEF ContentInv
<1>t. /\ file \in [Lanes -> [Stages -> Files]] /\ lane \in Lanes
      /\ failure \in [Lanes -> {"none", "pass", "module"} \cup EmitReports \cup ModuleReports]
      /\ shown \in [Lanes -> SUBSET Toolchains]
  BY DEF Typed, TypeOK
<1>1. CASE UNCHANGED vars
  BY <1>1 DEF vars, Underway, Ready, Inputs, Own, Cxx, Generates, ModuleIsOwn, OneRuntime,
              ReflectionDiagnosticsOnly
<1>2. CASE Edit
  BY <1>2 DEF Edit, Underway, ModuleIsOwn, OneRuntime, ReflectionDiagnosticsOnly
<1>3. CASE ArchiveMissing
  <2>1. /\ file' = file /\ pc' = "idle"
        /\ failure' = [failure EXCEPT !["emit"] = "module"]
        /\ shown' = [shown EXCEPT !["emit"] = {}]
    BY <1>3 DEF ArchiveMissing, Fail
  <2>2. ModuleIsOwn' /\ OneRuntime'
    BY <1>t, <2>1 DEF ModuleIsOwn, OneRuntime, Lanes
  <2> QED
    BY <1>t, <2>1, <2>2 DEF Underway, ReflectionDiagnosticsOnly
<1>4. CASE Link
  <2>1. /\ pc = "module" /\ pc' = "idle" /\ UNCHANGED <<lane, shown>>
        /\ file' = [file EXCEPT ![lane]["module"] = Made("module")]
        /\ failure' = [failure EXCEPT ![lane] = "pass"]
    BY <1>4 DEF Link, Runs
  <2>2. builds # 0 /\ Ready("module")
    BY <2>1 DEF Typed, Numbered, Underway
  <2>3. /\ Made("module") # Nothing /\ Made("module").by = builds
        /\ Made("module").from = {builds} /\ Made("module").code = {Cxx("module")}
    BY <2>2, MadeOwn DEF Ready, Stages
  <2>4. /\ file'[lane]["module"] = Made("module")
        /\ \A l \in Lanes \ {lane} : file'[l] = file[l]
    BY <1>t, <2>1 DEF Stages
  <2>5. ModuleIsOwn'
    BY <1>t, <2>1, <2>3, <2>4 DEF ModuleIsOwn
  <2>6. OneRuntime'
    BY <1>t, <2>1, <2>3, <2>4 DEF OneRuntime, Cxx, Lanes
  <2> QED
    BY <2>1, <2>5, <2>6 DEF Underway, ReflectionDiagnosticsOnly
<1>5. ASSUME NEW l \in Lanes, Begin(l) PROVE ContentInv'
  <2>1. /\ file' = file /\ lane' = l /\ pc' = First(l)
        /\ failure' = [failure EXCEPT ![l] = "none"] /\ shown' = [shown EXCEPT ![l] = {}]
    BY <1>5 DEF Begin
  <2>2. Underway'
    BY <1>t, <1>5, <2>1, FirstInputs DEF Underway, Ready
  <2>3. ModuleIsOwn' /\ OneRuntime'
    BY <1>t, <2>1 DEF ModuleIsOwn, OneRuntime, Lanes
  <2> QED
    BY <1>t, <2>1, <2>2, <2>3 DEF ReflectionDiagnosticsOnly
<1>6. ASSUME NEW s \in Stages, StagePasses(s) PROVE ContentInv'
  <2>1. /\ file' = [file EXCEPT ![lane][s] = Made(s)] /\ pc' = After(s)
        /\ UNCHANGED <<lane, failure, shown>> /\ failure[lane] = "none"
    BY <1>6 DEF StagePasses, Runs, Underway, Stages
  <2>2. \A l \in Lanes \ {lane} : file'[l] = file[l]
    BY <1>t, <2>1
  <2>3. ModuleIsOwn' /\ OneRuntime'
    BY <1>t, <2>1, <2>2 DEF ModuleIsOwn, OneRuntime, Lanes
  <2>4. Underway'
    BY <1>6, <2>1, PassReady DEF Underway
  <2> QED
    BY <2>1, <2>3, <2>4 DEF ReflectionDiagnosticsOnly
<1>7. ASSUME NEW s \in Stages, StageFails(s) PROVE ContentInv'
  <2> DEFINE cxx == IF s = "text" THEN file[lane]["gen"].code ELSE {Cxx(s)}
  <2>1. /\ Spoils(s) /\ Fail(lane, Report(s), cxx) /\ UNCHANGED lane /\ pc = s /\ pc # "idle"
    BY <1>7 DEF StageFails, Runs, Stages
  <2>2. /\ pc' = "idle" /\ failure' = [failure EXCEPT ![lane] = Report(s)]
        /\ shown' = [shown EXCEPT ![lane] =
             IF lane # "emit" \/ Report(s) \in {"emit_gen_compile", "emit_gen_run"} THEN cxx ELSE {}]
    BY <2>1 DEF Fail
  <2>3. \A l \in Lanes \ {lane} : file'[l] = file[l]
    BY <1>t, <2>1 DEF Spoils
  <2>4. Report(s) # "pass"
    BY DEF Report, Stages
  <2>5. ModuleIsOwn' /\ OneRuntime'
    BY <1>t, <2>2, <2>3, <2>4 DEF ModuleIsOwn, OneRuntime, Lanes
  <2>6. lane # "emit" \/ Report(s) \in {"emit_gen_compile", "emit_gen_run"} => cxx \subseteq {"corpus"}
    <3>1. CASE s = "text"
      <4>1. Own("gen")
        BY <2>1, <3>1 DEF Underway, Ready, Inputs
      <4> QED
        BY <3>1, <4>1 DEF Own, Cxx
    <3>2. CASE s # "text"
      BY <3>2 DEF Report, Cxx, Stages
    <3> QED
      BY <3>1, <3>2
  <2>7. ReflectionDiagnosticsOnly'
    BY <1>t, <2>2, <2>6 DEF ReflectionDiagnosticsOnly
  <2> QED
    BY <2>2, <2>5, <2>7 DEF Underway
<1>8. ASSUME NEW s \in Stages, Kill(s) PROVE ContentInv'
  <2>1. /\ \E left \in {Nothing, file[lane][s], Made(s)} : file' = [file EXCEPT ![lane][s] = left]
        /\ pc' = "idle" /\ UNCHANGED <<lane, failure, shown>> /\ failure[lane] = "none"
    BY <1>8 DEF Kill, Runs, Underway, Stages
  <2>2. \A l \in Lanes \ {lane} : file'[l] = file[l]
    BY <1>t, <2>1
  <2>3. ModuleIsOwn' /\ OneRuntime'
    BY <1>t, <2>1, <2>2 DEF ModuleIsOwn, OneRuntime, Lanes
  <2> QED
    BY <2>1, <2>3 DEF Underway, ReflectionDiagnosticsOnly
<1> QED
  BY <1>1, <1>2, <1>3, <1>4, <1>5, <1>6, <1>7, <1>8 DEF Next

\* A module that a passed build left is made of that build's files alone.
THEOREM ModuleIsOwnHolds == Spec => []ModuleIsOwn
<1>1. Typed /\ ContentInv => ModuleIsOwn
  BY DEF ContentInv
<1> QED
  BY <1>1, BuildInitType, BuildNextType, ContentInit, ContentNext, PTL DEF Spec

\* The emit lane's module has code of the production compiler only.
THEOREM OneRuntimeHolds == Spec => []OneRuntime
<1>1. Typed /\ ContentInv => OneRuntime
  BY DEF ContentInv
<1> QED
  BY <1>1, BuildInitType, BuildNextType, ContentInit, ContentNext, PTL DEF Spec

\* The bug classifier is given diagnostics of the reflection toolchain only.
THEOREM ReflectionDiagnosticsOnlyHolds == Spec => []ReflectionDiagnosticsOnly
<1>1. Typed /\ ContentInv => ReflectionDiagnosticsOnly
  BY DEF ContentInv
<1> QED
  BY <1>1, BuildInitType, BuildNextType, ContentInit, ContentNext, PTL DEF Spec

-----------------------------------------------------------------------------
(***************************************************************************)
(* BuildLane implements GateFour.  In a step a build ends (Link,           *)
(* StageFails, ArchiveMissing, Kill) or begins; everything else stutters,  *)
(* the files a stage makes on the way being no module.                     *)
(***************************************************************************)

Running == [lane |-> lane, number |-> IF pc = "idle" THEN 0 ELSE builds]
Module == [l \in Lanes |-> file[l]["module"].by]
Outcome(f) == IF f \in {"none", "pass"} THEN f ELSE "B"
Code == [l \in Lanes |-> Outcome(failure[l])]

\* How the module of a lane's directory changes when one file of the running lane is written.
LEMMA ModuleWritten ==
  ASSUME Typed, NEW s \in Stages, NEW f, file' = [file EXCEPT ![lane][s] = f]
  PROVE  Module' = [Module EXCEPT ![lane] = IF s = "module" THEN f.by ELSE @]
<1>1. file \in [Lanes -> [Stages -> Files]] /\ lane \in Lanes /\ "module" \in Stages
  BY DEF Typed, TypeOK, Stages
<1>2. \A l \in Lanes : file'[l]["module"].by =
        IF l = lane /\ s = "module" THEN f.by ELSE file[l]["module"].by
  BY <1>1
<1> QED
  BY <1>1, <1>2 DEF Module

\* How the outcomes change when one lane's failure is set.
LEMMA CodeWritten ==
  ASSUME Typed, NEW l \in Lanes, NEW f, failure' = [failure EXCEPT ![l] = f]
  PROVE  Code' = [Code EXCEPT ![l] = Outcome(f)]
BY DEF Typed, TypeOK, Code, Outcome

\* A build that begins is GateFour's BeginBuild.
LEMMA BeginRefines ==
  ASSUME Typed, NEW l \in Lanes, Begin(l)
  PROVE  Gate!BeginBuild
<1>1. pc = "idle" /\ lane' = l /\ pc' # "idle" /\ builds' # 0 /\ file' = file
  BY MaxBuildsAssumption DEF Begin, First, Typed, TypeOK
<1>2. Code' = [Code EXCEPT ![l] = "none"]
  BY CodeWritten DEF Begin, Outcome
<1> QED
  BY <1>1, <1>2 DEF Gate!BeginBuild, Gate!Lanes, Lanes, Code, Outcome

\* A build that ends is one of GateFour's three ends, by what became of its module and outcome.
LEMMA EndRefines ==
  ASSUME Typed, pc \in Stages, pc' = "idle", lane' = lane,
         NEW s \in Stages, NEW f, file' = [file EXCEPT ![lane][s] = f],
         \/ /\ s = "module" /\ f.by = builds
            /\ Code' = [Code EXCEPT ![lane] = "pass"]
         \/ /\ s = "module" => f.by \in {0, file[lane]["module"].by}
            /\ Code' = [Code EXCEPT ![lane] = "B"]
         \/ /\ s = "module" => f.by \in {0, file[lane]["module"].by, builds}
            /\ Code' = Code
  PROVE  Gate!Passes \/ Gate!Fails \/ Gate!Killed
<1>1. lane \in Lanes /\ builds # 0 /\ pc # "idle"
  BY DEF Typed, TypeOK, Numbered, Stages
<1>2. Gate!Ends
  BY <1>1 DEF Gate!Ends
<1> DEFINE m == IF s = "module" THEN f.by ELSE Module[lane]
<1>3. Module' = [Module EXCEPT ![lane] = m] /\ Module[lane] = file[lane]["module"].by
  BY <1>1, ModuleWritten DEF Module
<1> HIDE DEF m
<1>4. /\ Running = [lane |-> lane, number |-> builds]
      /\ Running.lane = lane /\ Running.number = builds
  BY <1>1 DEF Running
<1>5. /\ s = "module" => m = f.by
      /\ s # "module" => m = file[lane]["module"].by
  BY <1>3 DEF m
<1>6. CASE s = "module" /\ f.by = builds /\ Code' = [Code EXCEPT ![lane] = "pass"]
  <2>1. m \in {builds}
    BY <1>5, <1>6
  <2> QED
    BY <1>2, <1>3, <1>4, <1>6, <2>1 DEF Gate!Passes, Gate!Leaves, Running, Module, Code, Outcome
<1>7. CASE /\ s = "module" => f.by \in {0, file[lane]["module"].by}
           /\ Code' = [Code EXCEPT ![lane] = "B"]
  <2>1. m \in {0, Module[lane]}
    BY <1>3, <1>5, <1>7
  <2> QED
    BY <1>2, <1>3, <1>4, <1>7, <2>1 DEF Gate!Fails, Gate!Leaves, Running, Module, Code, Outcome
<1>8. CASE /\ s = "module" => f.by \in {0, file[lane]["module"].by, builds}
           /\ Code' = Code
  <2>1. m \in {0, Module[lane], builds}
    BY <1>3, <1>5, <1>8
  <2> QED
    BY <1>2, <1>3, <1>4, <1>8, <2>1 DEF Gate!Killed, Gate!Leaves, Running, Module, Code, Outcome
<1> QED
  BY <1>6, <1>7, <1>8

\* Initially no build runs, and no directory holds a module.
THEOREM GateFourInitRefined == Init => Gate!GateFourInit
BY DEF Init, Gate!GateFourInit, Gate!Lanes, Lanes, Nothing, Stages

\* Every step of a script is a step of GateFour, or does not show.
THEOREM GateFourStepRefined == Typed /\ [Next]_vars => [Gate!GateFourNext]_Gate!gateVars
<1> SUFFICES ASSUME Typed, [Next]_vars
             PROVE  Gate!GateFourNext \/ (Running' = Running /\ Module' = Module /\ Code' = Code)
  BY DEF Gate!gateVars, Running, Module, Code, Outcome
<1>t. /\ file \in [Lanes -> [Stages -> Files]] /\ lane \in Lanes /\ "module" \in Stages
      /\ "gen" \in Stages
  BY DEF Typed, TypeOK, Stages
<1>1. CASE UNCHANGED vars
  BY <1>1 DEF vars, Running, Module, Code
<1>2. CASE Edit
  BY <1>2 DEF Edit, Running, Module, Code
<1>3. CASE ArchiveMissing
  <2>1. /\ file' = [file EXCEPT ![lane]["gen"] = file[lane]["gen"]]
        /\ pc \in Stages /\ pc' = "idle" /\ lane' = lane
        /\ failure' = [failure EXCEPT ![lane] = "module"]
    BY <1>t, <1>3 DEF ArchiveMissing, Fail, First, Stages
  <2>2. Code' = [Code EXCEPT ![lane] = "B"]
    BY <1>t, <2>1, CodeWritten DEF Outcome
  <2> QED
    BY <1>t, <2>1, <2>2, EndRefines DEF Gate!GateFourNext
<1>4. CASE Link
  <2>1. /\ file' = [file EXCEPT ![lane]["module"] = Made("module")]
        /\ pc \in Stages /\ pc' = "idle" /\ lane' = lane
        /\ failure' = [failure EXCEPT ![lane] = "pass"]
    BY <1>4 DEF Link, Runs, Stages
  <2>2. Code' = [Code EXCEPT ![lane] = "pass"]
    BY <1>t, <2>1, CodeWritten DEF Outcome
  <2>3. Made("module").by = builds
    BY DEF Made
  <2> QED
    BY <1>t, <2>1, <2>2, <2>3, EndRefines DEF Gate!GateFourNext
<1>5. ASSUME NEW l \in Lanes, Begin(l) PROVE Gate!GateFourNext
  BY <1>5, BeginRefines DEF Gate!GateFourNext
<1>6. ASSUME NEW s \in Stages, StagePasses(s)
      PROVE  Running' = Running /\ Module' = Module /\ Code' = Code
  <2>1. /\ file' = [file EXCEPT ![lane][s] = Made(s)] /\ s # "module"
        /\ pc # "idle" /\ pc' # "idle" /\ UNCHANGED <<lane, builds, failure>>
    BY <1>6 DEF StagePasses, Runs, After, Stages
  <2>2. Module' = Module
    BY <1>t, <2>1, ModuleWritten DEF Module
  <2> QED
    BY <2>1, <2>2 DEF Running, Code
<1>7. ASSUME NEW s \in Stages, StageFails(s) PROVE Gate!GateFourNext
  <2>1. /\ pc \in Stages /\ pc' = "idle" /\ lane' = lane
        /\ failure' = [failure EXCEPT ![lane] = Report(s)]
    BY <1>7 DEF StageFails, Runs, Fail
  <2>2. PICK left \in {Nothing, file[lane][s]} : file' = [file EXCEPT ![lane][s] = left]
    BY <1>7 DEF StageFails, Spoils
  <2>3. Code' = [Code EXCEPT ![lane] = "B"]
    <3>1. Outcome(Report(s)) = "B"
      BY DEF Outcome, Report, Stages
    <3> QED
      BY <1>t, <2>1, <3>1, CodeWritten
  <2>4. s = "module" => left.by \in {0, file[lane]["module"].by}
    BY <2>2 DEF Nothing
  <2> QED
    BY <2>1, <2>2, <2>3, <2>4, EndRefines DEF Gate!GateFourNext
<1>8. ASSUME NEW s \in Stages, Kill(s) PROVE Gate!GateFourNext
  <2>1. pc \in Stages /\ pc' = "idle" /\ lane' = lane /\ Code' = Code
    BY <1>8 DEF Kill, Runs, Code
  <2>2. PICK left \in {Nothing, file[lane][s], Made(s)} : file' = [file EXCEPT ![lane][s] = left]
    BY <1>8 DEF Kill
  <2>3. s = "module" => left.by \in {0, file[lane]["module"].by, builds}
    BY <2>2 DEF Nothing, Made
  <2> QED
    BY <2>1, <2>2, <2>3, EndRefines DEF Gate!GateFourNext
<1> QED
  BY <1>1, <1>2, <1>3, <1>4, <1>5, <1>6, <1>7, <1>8 DEF Next

\* To run_lane a build script is one step, that passes with a module of this very build or fails
\* and leaves none or the one that was there.
THEOREM GateFourRefined == Spec => ImplementsGateFour
<1> QED
  BY GateFourInitRefined, GateFourStepRefined, BuildInitType, BuildNextType, PTL DEF Spec, ImplementsGateFour, Gate!GateFourSpec
=============================================================================
