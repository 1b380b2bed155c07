---------------------------- MODULE GateRunProofs ----------------------------
(* Proofs about GateRun: types, and what an imported module and an E were earned by,
   and how long an invocation can be. *)
EXTENDS GateRun, TLAPS

(***************************************************************************)
(* The operators of Verdict.                                               *)
(***************************************************************************)

\* Settling a lane leaves a lane record.
LEMMA SettleType ==
  ASSUME NEW L \in LaneRecords, NEW d \in BOOLEAN, NEW t \in BOOLEAN
  PROVE  Settle(L, d, t) \in LaneRecords
  BY DEF Settle, LaneRecords, Outcomes

\* Concluding a record leaves a record.
LEMMA ConcludeType ==
  ASSUME NEW rec \in Records
  PROVE  Conclude(rec) \in Records
<1>1. \A l \in Lanes : rec.lanes[l] \in LaneRecords
  BY DEF Records
<1>2. "constexpr" \in Lanes /\ "emit" \in Lanes
  BY DEF Lanes
<1>3. CombinedOutcome(rec.lanes, rec.surface) \in Outcomes \cup {"none"}
  BY <1>1, <1>2 DEF CombinedOutcome, WorstLane, LaneRecords, Outcomes
<1>4. MirroredFailure(rec.lanes, rec.surface) \in LaneCodes \cup {"A.compile", "D.surface"}
  BY <1>1, <1>2 DEF MirroredFailure, LaneRecords
<1>5. MirroredGate(rec.lanes) \in 0..6
  BY <1>1, <1>2 DEF MirroredGate, LaneRecords
<1> QED
  BY <1>3, <1>4, <1>5 DEF Conclude, Records

\* The record every invocation starts from is a record.
LEMMA BlankType ==
  ASSUME NEW s \in Nat
  PROVE  BlankRecord(s) \in Records
  BY DEF BlankRecord, Records, lane_record, LaneRecords, LaneCodes, Lanes

\* Writing one lane of a record leaves a record.
LEMMA LaneUpdateType ==
  ASSUME NEW rec \in Records, NEW l \in Lanes, NEW L \in LaneRecords
  PROVE  [rec EXCEPT !.lanes = [rec.lanes EXCEPT ![l] = L]] \in Records
  BY DEF Records

\* A step that only writes one lane of b's record keeps the type of r.
LEMMA SetLaneType ==
  ASSUME TypeOK, NEW b \in Backends, NEW L \in LaneRecords, SetLane(b, L)
  PROVE  r' \in [Backends -> Records]
<1>1. CurrentLane(b) \in Lanes
  BY DEF CurrentLane, Lanes
<1>2. [r[b] EXCEPT !.lanes = [r[b].lanes EXCEPT ![CurrentLane(b)] = L]] \in Records
  BY <1>1, LaneUpdateType DEF TypeOK
<1> QED
  BY <1>2 DEF SetLane, TypeOK

\* Single fields of a record.
LEMMA FieldType ==
  ASSUME NEW rec \in Records
  PROVE  /\ [rec EXCEPT !.gate = 1] \in Records
         /\ \A s \in {"pass", "fail"} : [rec EXCEPT !.surface = s] \in Records
         /\ \A bug \in {"none", "probe"} :
              [rec EXCEPT !.outcome = "A", !.failure = "A.compile", !.bug = bug] \in Records
         /\ \A ls \in [Lanes -> LaneRecords], bug \in {"none", "probe"} \cup Lanes :
              [rec EXCEPT !.lanes = ls, !.bug = bug] \in Records
<1>1. [rec EXCEPT !.gate = 1] \in Records
  BY DEF Records
<1>2. ASSUME NEW s \in {"pass", "fail"} PROVE [rec EXCEPT !.surface = s] \in Records
  BY DEF Records
<1>3. ASSUME NEW bug \in {"none", "probe"}
      PROVE  [rec EXCEPT !.outcome = "A", !.failure = "A.compile", !.bug = bug] \in Records
  BY DEF Records, Outcomes
<1>4. ASSUME NEW ls \in [Lanes -> LaneRecords], NEW bug \in {"none", "probe"} \cup Lanes
      PROVE  [rec EXCEPT !.lanes = ls, !.bug = bug] \in Records
  BY DEF Records
<1> QED
  BY <1>1, <1>2, <1>3, <1>4

\* run_lane returning, and the loop storing its lane, keeps the types.
LEMMA ReturnType ==
  ASSUME TypeOK, NEW b \in Backends, NEW L \in LaneRecords,
         NEW bug \in {"none", "probe"} \cup Lanes, Return(b, L, bug)
  PROVE  /\ r' \in [Backends -> Records]
         /\ todo' \in [Backends -> SUBSET Lanes]
         /\ pc' \in [Backends -> Labels]
<1> DEFINE S    == Settle(L, hasDiff[b], dir.tests)
           ls   == [r[b].lanes EXCEPT ![CurrentLane(b)] = S]
           rest == todo[b] \ {CurrentLane(b)}
           rec  == [r[b] EXCEPT !.lanes = ls, !.bug = bug]
           next == IF rest # {} THEN "compile" ELSE IF BothImported(ls) THEN "surface" ELSE "finish"
<1>1. S \in LaneRecords
  BY SettleType, DirsAssumption DEF TypeOK
<1>2. ls \in [Lanes -> LaneRecords]
  BY <1>1 DEF TypeOK, Records, CurrentLane, Lanes
<1>3. rec \in Records
  <2>1. r[b] \in Records
    BY DEF TypeOK
  <2> QED
    BY <1>2, <2>1, FieldType
<1>4. (IF next = "finish" THEN Conclude(rec) ELSE rec) \in Records
  BY <1>3, ConcludeType
<1>5. r' = [r EXCEPT ![b] = IF next = "finish" THEN Conclude(rec) ELSE rec]
  BY DEF Return
<1>6. r' \in [Backends -> Records]
  BY <1>4, <1>5 DEF TypeOK
<1>7. todo' = [todo EXCEPT ![b] = rest] /\ pc' = [pc EXCEPT ![b] = next]
  BY DEF Return, Goto
<1>8. next \in Labels
  BY DEF Labels
<1> QED
  BY <1>6, <1>7, <1>8 DEF TypeOK

\* A run directory as it is checked out is well typed.
THEOREM InitType == Init => TypeOK
BY BlankType, DirsAssumption DEF Init, TypeOK, Texts, Labels

\* Every step of run_gates.py, an edit or a kill keeps the state well typed.
THEOREM NextType == TypeOK /\ [Next]_vars => TypeOK'
<1> SUFFICES ASSUME TypeOK, [Next]_vars PROVE TypeOK'
  OBVIOUS
<1>1. CASE UNCHANGED vars
  BY <1>1 DEF vars, TypeOK
<1>2. CASE Edit
  BY <1>2 DEF Edit, TypeOK
<1>3. ASSUME NEW b \in Backends, Start(b) PROVE TypeOK'
  <2>1. clock' \in Nat /\ BlankRecord(clock') \in Records
    BY <1>3, BlankType DEF Start, TypeOK
  <2>2. r' \in [Backends -> Records]
    BY <1>3, <2>1 DEF Start, TypeOK
  <2>3. PICK mode \in Modes : todo' = [todo EXCEPT ![b] = LanesToRun(b, mode)]
    BY <1>3 DEF Start
  <2>4. LanesToRun(b, mode) \subseteq Lanes
    BY DEF LanesToRun, Modes, Lanes
  <2>5. todo' \in [Backends -> SUBSET Lanes]
    BY <2>3, <2>4 DEF TypeOK
  <2>6. hasDiff' \in [Backends -> BOOLEAN]
    BY <1>3, DirsAssumption DEF Start, TypeOK
  <2>7. pc' \in [Backends -> Labels]
    BY <1>3 DEF Start, Goto, TypeOK, Labels
  <2> QED
    BY <1>3, <2>1, <2>2, <2>5, <2>6, <2>7 DEF Start, TypeOK
<1>4. ASSUME NEW b \in Backends, Crash(b) PROVE TypeOK'
  <2>1. CurrentLane(b) \in Lanes /\ r[b].stamp \in Nat
    BY DEF CurrentLane, Lanes, TypeOK, Records
  <2>2. module' \in [Backends -> [Lanes -> Nat]]
    <3>1. CASE pc[b] = "compile"
      <4>1. PICK left \in {0, module[b][CurrentLane(b)], r[b].stamp} :
              module' = [module EXCEPT ![b][CurrentLane(b)] = left]
        BY <1>4, <3>1 DEF Crash
      <4>2. left \in Nat
        BY <2>1 DEF TypeOK
      <4> QED
        BY <2>1, <4>1, <4>2 DEF TypeOK
    <3>2. CASE pc[b] # "compile"
      BY <1>4, <3>2 DEF Crash, TypeOK
    <3> QED
      BY <3>1, <3>2
  <2> QED
    BY <1>4, <2>2, BlankType DEF Crash, Goto, Forget, TypeOK, Labels
<1>5. ASSUME NEW b \in Backends, ProbePasses(b) PROVE TypeOK'
  <2>1. [r[b] EXCEPT !.gate = 1] \in Records
    BY FieldType DEF TypeOK
  <2> QED
    BY <1>5, <2>1 DEF ProbePasses, Goto, TypeOK, Labels
<1>6. ASSUME NEW b \in Backends, ProbeFails(b) PROVE TypeOK'
  <2>1. PICK bug \in {"none", "probe"} :
          r' = [r EXCEPT ![b].outcome = "A", ![b].failure = "A.compile", ![b].bug = bug]
    BY <1>6 DEF ProbeFails
  <2>2. [r[b] EXCEPT !.outcome = "A", !.failure = "A.compile", !.bug = bug] \in Records
    BY FieldType DEF TypeOK
  <2>3. r' = [r EXCEPT ![b] = [r[b] EXCEPT !.outcome = "A", !.failure = "A.compile", !.bug = bug]]
    BY <2>1 DEF TypeOK
  <2>4. r' \in [Backends -> Records]
    BY <2>2, <2>3 DEF TypeOK
  <2> QED
    BY <1>6, <2>4 DEF ProbeFails, Goto, TypeOK, Labels
<1>7. ASSUME NEW b \in Backends, OracleRuns(b) PROVE TypeOK'
  BY <1>7 DEF OracleRuns, Goto, TypeOK, Labels, Texts
<1>8. ASSUME NEW b \in Backends, OracleFails(b) PROVE TypeOK'
  BY <1>8 DEF OracleFails, Goto, TypeOK, Labels
<1>9. ASSUME NEW b \in Backends, Regenerate(b) PROVE TypeOK'
  BY <1>9 DEF Regenerate, Goto, TypeOK, Labels, Texts, Records
<1>10. ASSUME NEW b \in Backends, CompileFails(b) PROVE TypeOK'
  <2>1. CurrentLane(b) \in Lanes
    BY DEF CurrentLane, Lanes
  <2>2. PICK left \in {0, module[b][CurrentLane(b)]} :
          module' = [module EXCEPT ![b][CurrentLane(b)] = left]
    BY <1>10 DEF CompileFails
  <2>3. module' \in [Backends -> [Lanes -> Nat]]
    BY <2>1, <2>2 DEF TypeOK
  <2>4. PICK bug \in {r[b].bug, IF r[b].bug = "none" THEN CurrentLane(b) ELSE r[b].bug} :
          Return(b, [lane_record EXCEPT !.outcome = "B", !.code = "B"], bug)
    BY <1>10 DEF CompileFails
  <2>5. bug \in {"none", "probe"} \cup Lanes
    BY <2>1 DEF TypeOK, Records
  <2>6. [lane_record EXCEPT !.outcome = "B", !.code = "B"] \in LaneRecords
    BY DEF lane_record, LaneRecords, LaneCodes, Outcomes
  <2> QED
    BY <2>3, <2>4, <2>5, <2>6, ReturnType DEF Return, TypeOK
<1>11. ASSUME NEW b \in Backends, CompilePasses(b) PROVE TypeOK'
  <2>1. [lane_record EXCEPT !.gate = 4] \in LaneRecords
    BY DEF lane_record, LaneRecords, LaneCodes
  <2>2. r' \in [Backends -> Records]
    BY <1>11, <2>1, SetLaneType DEF CompilePasses
  <2>3. module' \in [Backends -> [Lanes -> Nat]]
    BY <1>11 DEF CompilePasses, TypeOK, Records
  <2> QED
    BY <1>11, <2>2, <2>3 DEF CompilePasses, Goto, TypeOK, Labels
<1> DEFINE LaneOK(b) == Lane(b) \in LaneRecords /\ r[b].bug \in {"none", "probe"} \cup Lanes
<1>12. \A b \in Backends : LaneOK(b) /\ module[b][CurrentLane(b)] \in Nat
  BY DEF Lane, CurrentLane, Lanes, TypeOK, Records
<1>13. ASSUME NEW b \in Backends, ImportFails(b) PROVE TypeOK'
  <2>1. [Lane(b) EXCEPT !.outcome = "C", !.code = "C"] \in LaneRecords
    BY <1>12 DEF LaneRecords, LaneCodes, Outcomes
  <2> QED
    BY <1>12, <1>13, <2>1, ReturnType DEF ImportFails, Return, TypeOK
<1>14. ASSUME NEW b \in Backends, ImportPasses(b) PROVE TypeOK'
  <2> DEFINE L == [Lane(b) EXCEPT !.gate = 5, !.built = module[b][CurrentLane(b)]]
             M == [L EXCEPT !.outcome = "E-weak", !.gate = 6]
  <2>1. L \in LaneRecords /\ M \in LaneRecords
    BY <1>12 DEF LaneRecords, Outcomes
  <2>2. CASE dir.tests
    <3>1. SetLane(b, L) /\ Goto(b, "test") /\ UNCHANGED <<dir, expected, module, result, todo, hasDiff, exit, clock>>
      BY <1>14, <2>2 DEF ImportPasses
    <3>2. r' \in [Backends -> Records]
      BY <2>1, <3>1, SetLaneType
    <3> QED
      BY <3>1, <3>2 DEF Goto, TypeOK, Labels
  <2>3. CASE ~dir.tests
    <3>1. Return(b, M, r[b].bug) /\ UNCHANGED module
      BY <1>14, <2>3 DEF ImportPasses
    <3> QED
      BY <1>12, <2>1, <3>1, ReturnType DEF Return, TypeOK
  <2> QED
    BY <2>2, <2>3
<1>15. \A b \in Backends : Tested(b) \in LaneRecords
  BY <1>12 DEF Tested, LaneRecords, TypeOK
<1>16. ASSUME NEW b \in Backends, TestPasses(b) PROVE TypeOK'
  BY <1>12, <1>15, <1>16, ReturnType DEF TestPasses, Return, TypeOK
<1>17. ASSUME NEW b \in Backends, TestFails(b) PROVE TypeOK'
  <2>1. [Tested(b) EXCEPT !.outcome = "D", !.code = "D.value"] \in LaneRecords
    BY <1>15 DEF LaneRecords, LaneCodes, Outcomes
  <2> QED
    BY <1>12, <1>17, <2>1, ReturnType DEF TestFails, Return, TypeOK
<1>18. ASSUME NEW b \in Backends, SurfaceDiff(b) PROVE TypeOK'
  <2>1. PICK s \in {"pass", "fail"} : r' = [r EXCEPT ![b] = Conclude([r[b] EXCEPT !.surface = s])]
    BY <1>18 DEF SurfaceDiff
  <2>2. [r[b] EXCEPT !.surface = s] \in Records
    BY FieldType DEF TypeOK
  <2>3. r' \in [Backends -> Records]
    BY <2>1, <2>2, ConcludeType DEF TypeOK
  <2> QED
    BY <1>18, <2>3 DEF SurfaceDiff, Goto, TypeOK, Labels
<1>19. ASSUME NEW b \in Backends, Finish(b) PROVE TypeOK'
  BY <1>19 DEF Finish, Goto, TypeOK, Labels, Texts
<1>20. ASSUME NEW b \in Backends, Publish(b) PROVE TypeOK'
  BY <1>20, BlankType DEF Publish, ExitCode, Goto, Forget, TypeOK, Labels, Texts
<1> QED
  BY <1>1, <1>2, <1>3, <1>4, <1>5, <1>6, <1>7, <1>8, <1>9, <1>10, <1>11, <1>13, <1>14,
     <1>16, <1>17, <1>18, <1>19, <1>20 DEF Next, Step

\* Every reachable state is well typed.
THEOREM TypeCorrect == Spec => []TypeOK
<1>1. Init => TypeOK
  BY InitType
<1>2. TypeOK /\ [Next]_vars => TypeOK'
  BY NextType
<1> QED
  BY <1>1, <1>2, PTL DEF Spec
-----------------------------------------------------------------------------
(***************************************************************************)
(* Provenance of imported modules, for any set of backends on the          *)
(* directory.  OwnBuild alone is not inductive: what Gate 5 is about to    *)
(* import, and what the lane under test was imported from, must be known.  *)
(***************************************************************************)

ImportsOwn(b) == pc[b] = "import" => module[b][CurrentLane(b)] = r[b].stamp

TestsOwn(b) == pc[b] = "test" => Lane(b).built = r[b].stamp

LanesOwn(b) == \A l \in Lanes :
                 Imported(r[b].lanes[l]) => r[b].lanes[l].built = r[b].stamp

Provenance == \A b \in Backends : ImportsOwn(b) /\ TestsOwn(b) /\ LanesOwn(b)

\* What Return does to the record and the label of b; everybody else keeps theirs.
LEMMA ReturnShape ==
  ASSUME TypeOK, NEW b \in Backends, NEW L, NEW bug, Return(b, L, bug)
  PROVE  /\ r'[b].lanes = [r[b].lanes EXCEPT ![CurrentLane(b)] = Settle(L, hasDiff[b], dir.tests)]
         /\ r'[b].stamp = r[b].stamp
         /\ pc'[b] \in {"compile", "surface", "finish"}
         /\ r'[b].outcome = IF pc'[b] = "finish" THEN CombinedOutcome(r'[b].lanes, r'[b].surface)
                                                 ELSE r[b].outcome
         /\ \A c \in Backends \ {b} : r'[c] = r[c] /\ pc'[c] = pc[c] /\ todo'[c] = todo[c]
<1> DEFINE ls   == [r[b].lanes EXCEPT ![CurrentLane(b)] = Settle(L, hasDiff[b], dir.tests)]
           rest == todo[b] \ {CurrentLane(b)}
           rec  == [r[b] EXCEPT !.lanes = ls, !.bug = bug]
           next == IF rest # {} THEN "compile" ELSE IF BothImported(ls) THEN "surface" ELSE "finish"
           new  == IF next = "finish" THEN Conclude(rec) ELSE rec
<1>1. r' = [r EXCEPT ![b] = new] /\ pc' = [pc EXCEPT ![b] = next] /\ todo' = [todo EXCEPT ![b] = rest]
  BY DEF Return, Goto
<1>2. r'[b] = new /\ pc'[b] = next
  BY <1>1 DEF TypeOK
<1>3. r[b] \in Records
  BY DEF TypeOK
<1>4. rec.lanes = ls /\ rec.stamp = r[b].stamp /\ rec.surface = r[b].surface /\ rec.outcome = r[b].outcome
  BY <1>3 DEF Records
<1>5. /\ Conclude(rec).lanes = rec.lanes /\ Conclude(rec).stamp = rec.stamp
      /\ Conclude(rec).surface = rec.surface
      /\ Conclude(rec).outcome = CombinedOutcome(rec.lanes, rec.surface)
  BY <1>3 DEF Conclude, Records
<1>6. next \in {"compile", "surface", "finish"}
  OBVIOUS
<1>7. \A c \in Backends \ {b} : r'[c] = r[c] /\ pc'[c] = pc[c] /\ todo'[c] = todo[c]
  BY <1>1 DEF TypeOK
<1>8. CASE next = "finish"
  BY <1>2, <1>4, <1>5, <1>7, <1>8
<1>9. CASE next # "finish"
  BY <1>2, <1>4, <1>6, <1>7, <1>9
<1> QED
  BY <1>8, <1>9

\* A lane that returns with an own or with no module keeps the provenance.
LEMMA ReturnOwn ==
  ASSUME TypeOK, NEW b \in Backends, NEW L \in LaneRecords, NEW bug, Return(b, L, bug),
         Provenance, Imported(L) => L.built = r[b].stamp,
         \A c \in Backends \ {b} : module'[c] = module[c]
  PROVE  Provenance'
<1>1. SUFFICES ASSUME NEW c \in Backends PROVE (ImportsOwn(c) /\ TestsOwn(c) /\ LanesOwn(c))'
  BY DEF Provenance
<1>2. CASE c = b
  <2>1. pc'[b] \notin {"import", "test"} /\ r'[b].stamp = r[b].stamp
    BY ReturnShape
  <2>2. (ImportsOwn(b) /\ TestsOwn(b))'
    BY <2>1 DEF ImportsOwn, TestsOwn
  <2>3. ASSUME NEW l \in Lanes, Imported(r'[b].lanes[l]) PROVE r'[b].lanes[l].built = r[b].stamp
    <3>1. r'[b].lanes = [r[b].lanes EXCEPT ![CurrentLane(b)] = Settle(L, hasDiff[b], dir.tests)]
      BY ReturnShape
    <3>2. r[b].lanes \in [Lanes -> LaneRecords]
      BY DEF TypeOK, Records
    <3>3. Settle(L, hasDiff[b], dir.tests).gate = L.gate /\ Settle(L, hasDiff[b], dir.tests).built = L.built
      BY DEF Settle, LaneRecords
    <3>4. CASE l = CurrentLane(b)
      BY <2>3, <3>1, <3>2, <3>3, <3>4 DEF Imported
    <3>5. CASE l # CurrentLane(b)
      <4>1. r'[b].lanes[l] = r[b].lanes[l]
        BY <3>1, <3>2, <3>5
      <4> QED
        BY <2>3, <4>1 DEF Provenance, LanesOwn
    <3> QED
      BY <3>4, <3>5
  <2> QED
    BY <1>2, <2>1, <2>2, <2>3 DEF LanesOwn
<1>3. CASE c # b
  <2>1. r'[c] = r[c] /\ pc'[c] = pc[c] /\ todo'[c] = todo[c] /\ module'[c] = module[c]
    BY <1>3, ReturnShape
  <2> QED
    BY <2>1 DEF Provenance, ImportsOwn, TestsOwn, LanesOwn, CurrentLane, Lane
<1> QED
  BY <1>2, <1>3

\* Writing the current lane of b changes that lane and nothing else of any record.
LEMMA SetLaneShape ==
  ASSUME TypeOK, NEW b \in Backends, NEW L, SetLane(b, L)
  PROVE  /\ r'[b].lanes = [r[b].lanes EXCEPT ![CurrentLane(b)] = L]
         /\ r'[b].lanes[CurrentLane(b)] = L
         /\ r'[b].stamp = r[b].stamp /\ r'[b].outcome = r[b].outcome
         /\ \A c \in Backends \ {b} : r'[c] = r[c]
<1>1. r[b] \in Records
  BY DEF TypeOK
<1>2. r'[b] = [r[b] EXCEPT !.lanes = [r[b].lanes EXCEPT ![CurrentLane(b)] = L]]
  BY DEF SetLane, TypeOK
<1>3. CurrentLane(b) \in Lanes /\ r[b].lanes \in [Lanes -> LaneRecords]
  BY <1>1 DEF CurrentLane, Lanes, Records
<1> QED
  BY <1>1, <1>2, <1>3 DEF SetLane, TypeOK, Records

\* A step that leaves the lanes of b alone, or blanks them, and does not lead b to the import.
LEMMA FrameOwn ==
  ASSUME Provenance, NEW b \in Backends,
         \/ r'[b].lanes = r[b].lanes /\ r'[b].stamp = r[b].stamp
         \/ r'[b].lanes = [l \in Lanes |-> lane_record],
         pc'[b] \notin {"import", "test"},
         \A c \in Backends \ {b} : r'[c] = r[c] /\ pc'[c] = pc[c] /\ todo'[c] = todo[c] /\ module'[c] = module[c]
  PROVE  Provenance'
<1>1. SUFFICES ASSUME NEW c \in Backends PROVE (ImportsOwn(c) /\ TestsOwn(c) /\ LanesOwn(c))'
  BY DEF Provenance
<1>2. CASE c = b
  <2>1. (ImportsOwn(b) /\ TestsOwn(b))'
    BY DEF ImportsOwn, TestsOwn
  <2>2. LanesOwn(b)'
    BY DEF LanesOwn, Provenance, Imported, lane_record
  <2> QED
    BY <1>2, <2>1, <2>2
<1>3. CASE c # b
  BY <1>3 DEF Provenance, ImportsOwn, TestsOwn, LanesOwn, CurrentLane, Lane
<1> QED
  BY <1>2, <1>3

\* The lanes of a blank record are blank, so they have imported nothing.
LEMMA BlankShape ==
  ASSUME NEW s PROVE BlankRecord(s).lanes = [l \in Lanes |-> lane_record] /\ BlankRecord(s).outcome = "none"
  BY DEF BlankRecord

\* Before the first invocation no lane has imported anything.
THEOREM InitProvenance == Init => Provenance
  BY DEF Init, Provenance, ImportsOwn, TestsOwn, LanesOwn, BlankRecord, Imported, lane_record

\* Every step keeps what each lane imported an own build: the strengthening of OwnBuild says at
\* which labels the module on disk must be the invocation's own (import) and already recorded (test).
THEOREM NextProvenance == TypeOK /\ Provenance /\ [Next]_vars => Provenance'
<1> SUFFICES ASSUME TypeOK, Provenance, [Next]_vars PROVE Provenance'
  OBVIOUS
<1>1. CASE UNCHANGED vars \/ Edit
  BY <1>1 DEF vars, Edit, Provenance, ImportsOwn, TestsOwn, LanesOwn, CurrentLane, Lane
<1>2. ASSUME NEW b \in Backends, Start(b) \/ Crash(b) \/ Publish(b) PROVE Provenance'
  <2>1. pc'[b] \notin {"import", "test"} /\ r'[b].lanes = [l \in Lanes |-> lane_record]
    BY <1>2, BlankShape DEF Start, Crash, Publish, Forget, Goto, TypeOK
  <2>2. \A c \in Backends \ {b} : r'[c] = r[c] /\ pc'[c] = pc[c] /\ todo'[c] = todo[c] /\ module'[c] = module[c]
    BY <1>2 DEF Start, Crash, Publish, Forget, Goto, TypeOK
  <2> QED
    BY <2>1, <2>2, FrameOwn
<1>3. ASSUME NEW b \in Backends,
             ProbePasses(b) \/ ProbeFails(b) \/ OracleRuns(b) \/ OracleFails(b) \/ Regenerate(b) \/ Finish(b)
      PROVE  Provenance'
  <2>1. pc'[b] \notin {"import", "test"}
    BY <1>3 DEF ProbePasses, ProbeFails, OracleRuns, OracleFails, Regenerate, Finish, Goto, TypeOK
  <2>2. r'[b].lanes = r[b].lanes /\ r'[b].stamp = r[b].stamp
    <3>1. r[b] \in Records
      BY DEF TypeOK
    <3> QED
      BY <1>3, <3>1 DEF ProbePasses, ProbeFails, OracleRuns, OracleFails, Regenerate, Finish, TypeOK, Records
  <2>3. \A c \in Backends \ {b} : r'[c] = r[c] /\ pc'[c] = pc[c] /\ todo'[c] = todo[c] /\ module'[c] = module[c]
    BY <1>3 DEF ProbePasses, ProbeFails, OracleRuns, OracleFails, Regenerate, Finish, Goto, TypeOK
  <2> QED
    BY <2>1, <2>2, <2>3, FrameOwn
<1>4. ASSUME NEW b \in Backends, CompileFails(b) PROVE Provenance'
  <2> DEFINE L == [lane_record EXCEPT !.outcome = "B", !.code = "B"]
  <2>1. PICK bug : Return(b, L, bug)
    BY <1>4 DEF CompileFails
  <2>2. L \in LaneRecords /\ ~Imported(L)
    <3>1. L \in LaneRecords
      BY DEF lane_record, LaneRecords, LaneCodes, Outcomes
    <3>2. L.gate = 1
      BY DEF lane_record
    <3> QED
      BY <3>1, <3>2 DEF Imported
  <2>3. \A c \in Backends \ {b} : module'[c] = module[c]
    BY <1>4 DEF CompileFails, TypeOK
  <2> HIDE DEF L
  <2> QED
    BY <2>1, <2>2, <2>3, ReturnOwn
<1>5. ASSUME NEW b \in Backends, CompilePasses(b) PROVE Provenance'
  <2> DEFINE L == [lane_record EXCEPT !.gate = 4]
  <2>1. SetLane(b, L) /\ pc' = [pc EXCEPT ![b] = "import"] /\ todo' = todo
    BY <1>5 DEF CompilePasses, Goto
  <2>2. module' = [module EXCEPT ![b][CurrentLane(b)] = r[b].stamp]
    BY <1>5 DEF CompilePasses
  <2>3. ~Imported(L)
    BY DEF Imported, lane_record
  <2> HIDE DEF L
  <2>4. CurrentLane(b) \in Lanes /\ r[b].lanes \in [Lanes -> LaneRecords]
    BY DEF CurrentLane, Lanes, TypeOK, Records
  <2>5. SUFFICES ASSUME NEW c \in Backends PROVE (ImportsOwn(c) /\ TestsOwn(c) /\ LanesOwn(c))'
    BY DEF Provenance
  <2>6. CASE c = b
    <3>1. r'[b].stamp = r[b].stamp /\ r'[b].lanes = [r[b].lanes EXCEPT ![CurrentLane(b)] = L]
      BY <2>1, SetLaneShape
    <3>2. ImportsOwn(b)' /\ TestsOwn(b)'
      BY <2>1, <2>2, <2>4, <3>1 DEF ImportsOwn, TestsOwn, CurrentLane, TypeOK
    <3>3. ASSUME NEW l \in Lanes, Imported(r'[b].lanes[l]) PROVE r'[b].lanes[l].built = r'[b].stamp
      <4>1. l # CurrentLane(b)
        BY <2>3, <2>4, <3>1, <3>3
      <4>2. r'[b].lanes[l] = r[b].lanes[l]
        BY <2>4, <3>1, <4>1
      <4> QED
        BY <3>1, <3>3, <4>2 DEF LanesOwn, Provenance
    <3> QED
      BY <2>6, <3>2, <3>3 DEF LanesOwn
  <2>7. CASE c # b
    <3>1. r'[c] = r[c] /\ pc'[c] = pc[c] /\ todo'[c] = todo[c] /\ module'[c] = module[c]
      BY <2>1, <2>2, <2>7, SetLaneShape DEF TypeOK
    <3> QED
      BY <3>1 DEF Provenance, ImportsOwn, TestsOwn, LanesOwn, CurrentLane, Lane
  <2> QED
    BY <2>6, <2>7
<1>6. ASSUME NEW b \in Backends PROVE Lane(b) \in LaneRecords /\ CurrentLane(b) \in Lanes
                                       /\ module[b][CurrentLane(b)] \in Nat
  BY DEF Lane, CurrentLane, Lanes, TypeOK, Records
<1>7. ASSUME NEW b \in Backends, ImportFails(b) PROVE Provenance'
  <2> DEFINE L == [Lane(b) EXCEPT !.outcome = "C", !.code = "C"]
  <2>1. Return(b, L, r[b].bug) /\ module' = module
    BY <1>7 DEF ImportFails
  <2>2. L \in LaneRecords /\ L.gate = Lane(b).gate /\ L.built = Lane(b).built
    BY <1>6 DEF LaneRecords, LaneCodes, Outcomes
  <2>3. Imported(L) => L.built = r[b].stamp
    BY <1>6, <2>2 DEF Provenance, LanesOwn, Lane, Imported
  <2> HIDE DEF L
  <2> QED
    BY <2>1, <2>2, <2>3, ReturnOwn
<1>8. ASSUME NEW b \in Backends, ImportPasses(b) PROVE Provenance'
  <2> DEFINE L == [Lane(b) EXCEPT !.gate = 5, !.built = module[b][CurrentLane(b)]]
             M == [L EXCEPT !.outcome = "E-weak", !.gate = 6]
  <2>1. L \in LaneRecords /\ M \in LaneRecords /\ L.built = r[b].stamp /\ M.built = r[b].stamp
    BY <1>6, <1>8 DEF LaneRecords, Outcomes, ImportPasses, Provenance, ImportsOwn
  <2>2. module' = module
    BY <1>8 DEF ImportPasses
  <2>3. CASE dir.tests
    <3>1. SetLane(b, L) /\ pc' = [pc EXCEPT ![b] = "test"] /\ todo' = todo
      BY <1>8, <2>3 DEF ImportPasses, Goto
    <3> HIDE DEF L
    <3>2. SUFFICES ASSUME NEW c \in Backends PROVE (ImportsOwn(c) /\ TestsOwn(c) /\ LanesOwn(c))'
      BY DEF Provenance
    <3>3. CASE c = b
      <4>1. /\ r'[b].stamp = r[b].stamp /\ r'[b].lanes[CurrentLane(b)] = L
            /\ r'[b].lanes = [r[b].lanes EXCEPT ![CurrentLane(b)] = L]
        BY <3>1, SetLaneShape
      <4>2. ImportsOwn(b)' /\ TestsOwn(b)'
        BY <2>1, <3>1, <4>1 DEF ImportsOwn, TestsOwn, CurrentLane, Lane, TypeOK
      <4>3. LanesOwn(b)'
        <5>1. r[b].lanes \in [Lanes -> LaneRecords]
          BY DEF TypeOK, Records
        <5> QED
          BY <2>1, <4>1, <5>1 DEF LanesOwn, Provenance
      <4> QED
        BY <3>3, <4>2, <4>3
    <3>4. CASE c # b
      <4>1. r'[c] = r[c] /\ pc'[c] = pc[c] /\ todo'[c] = todo[c] /\ module'[c] = module[c]
        BY <2>2, <3>1, <3>4, SetLaneShape DEF TypeOK
      <4> QED
        BY <4>1 DEF Provenance, ImportsOwn, TestsOwn, LanesOwn, CurrentLane, Lane
    <3> QED
      BY <3>3, <3>4
  <2>4. CASE ~dir.tests
    <3>1. Return(b, M, r[b].bug)
      BY <1>8, <2>4 DEF ImportPasses
    <3> HIDE DEF M
    <3> QED
      BY <2>1, <2>2, <3>1, ReturnOwn
  <2> QED
    BY <2>3, <2>4
<1>9. ASSUME NEW b \in Backends, TestPasses(b) \/ TestFails(b) PROVE Provenance'
  <2>1. PICK L \in {Tested(b), [Tested(b) EXCEPT !.outcome = "D", !.code = "D.value"]} :
          Return(b, L, r[b].bug) /\ module' = module
    BY <1>9 DEF TestPasses, TestFails
  <2>2. Tested(b) \in LaneRecords /\ Tested(b).built = Lane(b).built
    BY <1>6 DEF Tested, LaneRecords, TypeOK
  <2>3. L \in LaneRecords /\ L.built = Lane(b).built
    BY <2>1, <2>2 DEF LaneRecords, LaneCodes, Outcomes
  <2>4. L.built = r[b].stamp
    BY <1>9, <2>3 DEF TestPasses, TestFails, Provenance, TestsOwn
  <2> QED
    BY <2>1, <2>3, <2>4, ReturnOwn
<1>10. ASSUME NEW b \in Backends, SurfaceDiff(b) PROVE Provenance'
  <2>1. PICK s \in {"pass", "fail"} : r' = [r EXCEPT ![b] = Conclude([r[b] EXCEPT !.surface = s])]
    BY <1>10 DEF SurfaceDiff
  <2>2. r[b] \in Records
    BY DEF TypeOK
  <2>3. r'[b].lanes = r[b].lanes /\ r'[b].stamp = r[b].stamp
    BY <2>1, <2>2 DEF Conclude, Records, TypeOK
  <2>4. pc'[b] \notin {"import", "test"}
    BY <1>10 DEF SurfaceDiff, Goto, TypeOK
  <2>5. \A c \in Backends \ {b} : r'[c] = r[c] /\ pc'[c] = pc[c] /\ todo'[c] = todo[c] /\ module'[c] = module[c]
    BY <1>10, <2>1 DEF SurfaceDiff, Goto, TypeOK
  <2> QED
    BY <2>3, <2>4, <2>5, FrameOwn
<1> QED
  BY <1>1, <1>2, <1>3, <1>4, <1>5, <1>7, <1>8, <1>9, <1>10 DEF Next, Step

\* OwnBuild holds in every reachable state, however many backends share the directory: Gate 5
\* imports only what the same invocation built, even after failed and killed builds.
THEOREM OwnBuildHolds == Spec => []OwnBuild
<1>1. Provenance => OwnBuild
  BY DEF Provenance, LanesOwn, OwnBuild
<1> QED
  BY <1>1, InitType, NextType, InitProvenance, NextProvenance, PTL DEF Spec
-----------------------------------------------------------------------------
(***************************************************************************)
(* What an E was earned by, when one backend works on the directory: the   *)
(* oracle's file must still be this invocation's while lanes are tested,   *)
(* and the outcome being worked out must be that of every lane.            *)
(***************************************************************************)

OneBackend == \A b, c \in Backends : b = c

EarnedE(rec) == \A l \in Lanes : rec.lanes[l].outcome = "E" =>
                  rec.lanes[l].built = rec.stamp /\ rec.lanes[l].judgedBy = rec.stamp

AllLanesE(rec) == rec.outcome = "E" =>
                    \A l \in Lanes : Executed(rec.lanes[l]) => rec.lanes[l].outcome = "E"

OracleDone(b) == hasDiff[b] /\ pc[b] \in {"compile", "import", "test"} =>
                   expected = [text |-> "whole", by |-> r[b].stamp]

Unsettled(b) == pc[b] \in {"import", "test"} => Lane(b).outcome = "none"

Decided(b) == pc[b] \in {"finish", "publish"} => AllLanesE(r[b])

FreshRecord(b) == Recorded(b) => AllLanesE(result[b].record) /\ EarnedE(result[b].record)

Fresh(b) == EarnedE(r[b]) /\ OracleDone(b) /\ Unsettled(b) /\ Decided(b) /\ FreshRecord(b)

Freshness == \A b \in Backends : Fresh(b)

\* A combined E means that every lane that ran is E.
LEMMA CombinedE ==
  ASSUME NEW ls \in [Lanes -> LaneRecords], NEW s, CombinedOutcome(ls, s) = "E",
         NEW l \in Lanes, Executed(ls[l])
  PROVE  ls[l].outcome = "E"
<1>1. /\ Rank["E"] = 0 /\ Rank["E-weak"] = 1 /\ Rank["D"] = 2
      /\ Rank["C"] = 3 /\ Rank["B"] = 4 /\ Rank["A"] = 5
  BY DEF Rank, Outcomes
<1>2. WorstLane(ls) = "E"
  BY DEF CombinedOutcome
<1>3. \A k \in Lanes : ls[k].outcome \in Outcomes \cup {"none"}
  BY DEF LaneRecords
<1>4. CASE l = "constexpr"
  <2>1. ls["constexpr"].outcome # "none"
    BY <1>4 DEF Executed
  <2>2. ASSUME ls["constexpr"].outcome # "E" PROVE FALSE
    <3>1. WorstLane(ls) = ls["emit"].outcome /\ Rank[ls["emit"].outcome] > Rank[ls["constexpr"].outcome]
      BY <1>2, <2>1, <2>2 DEF WorstLane, Executed
    <3>2. Rank[ls["constexpr"].outcome] \in Nat
      BY <1>1, <1>3, <2>1 DEF Outcomes, Lanes
    <3> QED
      BY <1>1, <1>2, <3>1, <3>2
  <2> QED
    BY <1>4, <2>2
<1>5. CASE l = "emit"
  <2>1. ls["emit"].outcome # "none" /\ ls["emit"].outcome \in Outcomes
    BY <1>3, <1>5 DEF Executed
  <2>2. ASSUME ls["emit"].outcome # "E" PROVE FALSE
    <3>1. ls["constexpr"].outcome = "E" /\ ~(Rank[ls["emit"].outcome] > Rank[ls["constexpr"].outcome])
      BY <1>2, <2>1, <2>2 DEF WorstLane, Executed
    <3>2. Rank[ls["emit"].outcome] > 0
      BY <1>1, <2>1, <2>2 DEF Outcomes
    <3> QED
      BY <1>1, <3>1, <3>2
  <2> QED
    BY <1>5, <2>2
<1> QED
  BY <1>4, <1>5 DEF Lanes

\* Settling yields an E only from a lane that passed Gate 6 in a run that has a ground truth.
LEMMA SettledE ==
  ASSUME NEW L \in LaneRecords, NEW d \in BOOLEAN, NEW t \in BOOLEAN, Settle(L, d, t).outcome = "E"
  PROVE  /\ L.outcome = "E" \/ (L.outcome = "none" /\ d)
         /\ Settle(L, d, t).built = L.built /\ Settle(L, d, t).judgedBy = L.judgedBy
  BY DEF Settle, LaneRecords

\* A lane that returns keeps the record earned, if an E it settles to is earned.
LEMMA ReturnFresh ==
  ASSUME OneBackend, TypeOK, Freshness, NEW b \in Backends, NEW L \in LaneRecords,
         pc[b] \in {"compile", "import", "test"},
         NEW bug \in {"none", "probe"} \cup Lanes, Return(b, L, bug),
         L.outcome # "E",
         L.outcome = "none" /\ hasDiff[b] => L.built = r[b].stamp /\ L.judgedBy = r[b].stamp
  PROVE  Freshness'
<1>1. SUFFICES Fresh(b)'
  BY DEF OneBackend, Freshness
<1> DEFINE S == Settle(L, hasDiff[b], dir.tests)
<1>2. hasDiff[b] \in BOOLEAN /\ dir.tests \in BOOLEAN /\ CurrentLane(b) \in Lanes
  BY DirsAssumption DEF TypeOK, CurrentLane, Lanes
<1>3. S \in LaneRecords /\ (S.outcome = "E" => S.built = r[b].stamp /\ S.judgedBy = r[b].stamp)
  BY <1>2, SettledE, SettleType
<1>4. /\ r'[b].lanes = [r[b].lanes EXCEPT ![CurrentLane(b)] = S]
      /\ r'[b].stamp = r[b].stamp
      /\ pc'[b] \in {"compile", "surface", "finish"}
      /\ r'[b].outcome = IF pc'[b] = "finish" THEN CombinedOutcome(r'[b].lanes, r'[b].surface)
                                              ELSE r[b].outcome
  BY ReturnShape
<1>5. r[b].lanes \in [Lanes -> LaneRecords]
  BY DEF TypeOK, Records
<1> HIDE DEF S
<1>6. r'[b].lanes \in [Lanes -> LaneRecords]
  BY <1>3, <1>4, <1>5
<1>7. EarnedE(r[b])'
  <2>1. SUFFICES ASSUME NEW l \in Lanes, r'[b].lanes[l].outcome = "E"
                 PROVE  r'[b].lanes[l].built = r'[b].stamp /\ r'[b].lanes[l].judgedBy = r'[b].stamp
    BY DEF EarnedE
  <2>2. CASE l = CurrentLane(b)
    BY <1>3, <1>4, <1>5, <2>1, <2>2
  <2>3. CASE l # CurrentLane(b)
    <3>1. r'[b].lanes[l] = r[b].lanes[l]
      BY <1>4, <1>5, <2>3
    <3> QED
      BY <1>4, <2>1, <3>1 DEF Freshness, Fresh, EarnedE
  <2> QED
    BY <2>2, <2>3
<1>8. OracleDone(b)'
  <2>1. hasDiff' = hasDiff /\ expected' = expected
    BY DEF Return
  <2>2. hasDiff[b] => expected = [text |-> "whole", by |-> r[b].stamp]
    BY DEF Freshness, Fresh, OracleDone
  <2> QED
    BY <1>4, <2>1, <2>2 DEF OracleDone
<1>9. Unsettled(b)'
  BY <1>4 DEF Unsettled
<1>10. Decided(b)'
  <2>1. SUFFICES ASSUME pc'[b] = "finish", r'[b].outcome = "E", NEW l \in Lanes, Executed(r'[b].lanes[l])
                 PROVE  r'[b].lanes[l].outcome = "E"
    BY <1>4 DEF Decided, AllLanesE
  <2>2. CombinedOutcome(r'[b].lanes, r'[b].surface) = "E"
    BY <1>4, <2>1
  <2> QED
    BY <1>6, <2>1, <2>2, CombinedE
<1>11. FreshRecord(b)'
  <2>1. result' = result
    BY DEF Return
  <2> QED
    BY <2>1 DEF FreshRecord, Recorded, Freshness, Fresh
<1> QED
  BY <1>7, <1>8, <1>9, <1>10, <1>11 DEF Fresh

\* Before the first invocation there is no E to have been earned.
THEOREM InitFreshness == Init => Freshness
<1> SUFFICES ASSUME Init, NEW b \in Backends PROVE Fresh(b)
  BY DEF Freshness
<1>1. r[b] = BlankRecord(0) /\ pc[b] = "idle" /\ result[b].text = "absent"
  BY DEF Init
<1>2. EarnedE(r[b])
  BY <1>1 DEF EarnedE, BlankRecord, lane_record
<1> QED
  BY <1>1, <1>2 DEF Fresh, OracleDone, Unsettled, Decided, FreshRecord, Recorded

\* Every step of the only backend keeps the chain from the oracle that ran, over expected.json and
\* the judged lanes, to the record under construction and the one on disk.
THEOREM NextFreshness == OneBackend /\ TypeOK /\ Provenance /\ Freshness /\ [Next]_vars => Freshness'
<1> SUFFICES ASSUME OneBackend, TypeOK, Provenance, Freshness, [Next]_vars PROVE Freshness'
  OBVIOUS
<1> USE DEF Goto
<1>1. CASE UNCHANGED vars \/ Edit
  BY <1>1 DEF vars, Edit, Freshness, Fresh, EarnedE, OracleDone, Unsettled, Decided, AllLanesE,
              FreshRecord, Recorded, CurrentLane, Lane
<1>2. ASSUME NEW b \in Backends PROVE Lane(b) \in LaneRecords /\ r[b].bug \in {"none", "probe"} \cup Lanes
                                       /\ CurrentLane(b) \in Lanes /\ r[b] \in Records
                                       /\ module[b][CurrentLane(b)] \in Nat
  BY DEF Lane, CurrentLane, Lanes, TypeOK, Records
<1>3. ASSUME NEW b \in Backends, Start(b) \/ Crash(b) PROVE Freshness'
  <2>1. SUFFICES Fresh(b)'
    BY DEF OneBackend, Freshness
  <2>2. /\ pc'[b] \in {"idle", "probe"} /\ result' = result
        /\ r'[b].lanes = [l \in Lanes |-> lane_record]
    BY <1>3, BlankShape DEF Start, Crash, Forget, TypeOK
  <2>3. EarnedE(r[b])'
    BY <2>2 DEF EarnedE, lane_record
  <2> QED
    BY <2>2, <2>3 DEF Fresh, OracleDone, Unsettled, Decided, FreshRecord, Recorded, Freshness
<1>4. ASSUME NEW b \in Backends, ProbePasses(b) \/ ProbeFails(b) PROVE Freshness'
  <2>1. SUFFICES Fresh(b)'
    BY DEF OneBackend, Freshness
  <2>2. r'[b].lanes = r[b].lanes /\ r'[b].stamp = r[b].stamp /\ result' = result /\ hasDiff' = hasDiff
    BY <1>2, <1>4 DEF ProbePasses, ProbeFails, TypeOK, Records
  <2>3. /\ pc'[b] \in {"oracle", "compile", "finish"}
        /\ pc'[b] = "compile" => ~hasDiff[b]
        /\ pc'[b] = "finish" => r'[b].outcome = "A"
    BY <1>2, <1>4 DEF ProbePasses, ProbeFails, TypeOK, Records
  <2> QED
    BY <2>2, <2>3 DEF Fresh, EarnedE, OracleDone, Unsettled, Decided, AllLanesE, FreshRecord, Recorded, Freshness
<1>5. ASSUME NEW b \in Backends, OracleRuns(b) \/ OracleFails(b) \/ Regenerate(b) PROVE Freshness'
  <2>1. SUFFICES Fresh(b)'
    BY DEF OneBackend, Freshness
  <2>2. r' = r /\ result' = result /\ pc'[b] \in {"regenerate", "compile"}
    BY <1>5 DEF OracleRuns, OracleFails, Regenerate, TypeOK
  <2>3. OracleDone(b)'
    BY <1>5 DEF OracleRuns, OracleFails, Regenerate, OracleDone, TypeOK
  <2> QED
    BY <2>2, <2>3 DEF Fresh, EarnedE, Unsettled, Decided, FreshRecord, Recorded, Freshness
<1>6. ASSUME NEW b \in Backends, CompileFails(b) PROVE Freshness'
  <2> DEFINE L == [lane_record EXCEPT !.outcome = "B", !.code = "B"]
  <2>1. PICK bug \in {r[b].bug, IF r[b].bug = "none" THEN CurrentLane(b) ELSE r[b].bug} : Return(b, L, bug)
    BY <1>6 DEF CompileFails
  <2>2. bug \in {"none", "probe"} \cup Lanes
    BY <1>2, <2>1
  <2>3. L \in LaneRecords /\ L.outcome = "B"
    BY DEF lane_record, LaneRecords, LaneCodes, Outcomes
  <2>4. pc[b] = "compile"
    BY <1>6 DEF CompileFails
  <2> HIDE DEF L
  <2> QED
    BY <2>1, <2>2, <2>3, <2>4, ReturnFresh
<1>7. ASSUME NEW b \in Backends, NEW L \in LaneRecords, SetLane(b, L), L.outcome = "none",
             pc[b] \in {"compile", "import"}, pc'[b] \in {"import", "test"},
             todo' = todo, hasDiff' = hasDiff, expected' = expected, result' = result
      PROVE  Freshness'
  <2>1. SUFFICES Fresh(b)'
    BY DEF OneBackend, Freshness
  <2>2. /\ r'[b].lanes = [r[b].lanes EXCEPT ![CurrentLane(b)] = L]
        /\ r'[b].lanes[CurrentLane(b)] = L
        /\ r'[b].stamp = r[b].stamp
    BY <1>7, SetLaneShape
  <2>3. r[b].lanes \in [Lanes -> LaneRecords]
    BY <1>2 DEF Records
  <2>4. EarnedE(r[b])'
    <3>1. SUFFICES ASSUME NEW l \in Lanes, r'[b].lanes[l].outcome = "E"
                   PROVE  r'[b].lanes[l].built = r'[b].stamp /\ r'[b].lanes[l].judgedBy = r'[b].stamp
      BY DEF EarnedE
    <3>2. l # CurrentLane(b)
      BY <1>7, <2>2, <3>1
    <3>3. r'[b].lanes[l] = r[b].lanes[l]
      BY <2>2, <2>3, <3>2
    <3> QED
      BY <2>2, <3>1, <3>3 DEF Freshness, Fresh, EarnedE
  <2>5. Unsettled(b)'
    BY <1>7, <2>2 DEF Unsettled, Lane, CurrentLane
  <2>6. OracleDone(b)'
    BY <1>7, <2>2 DEF OracleDone, Freshness, Fresh
  <2> QED
    BY <1>7, <2>4, <2>5, <2>6 DEF Fresh, Decided, FreshRecord, Recorded, Freshness
<1>8. ASSUME NEW b \in Backends, CompilePasses(b) PROVE Freshness'
  <2>1. [lane_record EXCEPT !.gate = 4] \in LaneRecords /\ [lane_record EXCEPT !.gate = 4].outcome = "none"
    BY DEF lane_record, LaneRecords, LaneCodes
  <2> QED
    BY <1>7, <1>8, <2>1 DEF CompilePasses, TypeOK
<1>9. ASSUME NEW b \in Backends, ImportFails(b) PROVE Freshness'
  <2>1. [Lane(b) EXCEPT !.outcome = "C", !.code = "C"] \in LaneRecords
        /\ [Lane(b) EXCEPT !.outcome = "C", !.code = "C"].outcome = "C"
    BY <1>2 DEF LaneRecords, LaneCodes, Outcomes
  <2> QED
    BY <1>2, <1>9, <2>1, ReturnFresh DEF ImportFails
<1>10. ASSUME NEW b \in Backends, ImportPasses(b) PROVE Freshness'
  <2> DEFINE L == [Lane(b) EXCEPT !.gate = 5, !.built = module[b][CurrentLane(b)]]
             M == [L EXCEPT !.outcome = "E-weak", !.gate = 6]
  <2>1. L \in LaneRecords /\ M \in LaneRecords /\ L.outcome = Lane(b).outcome /\ M.outcome = "E-weak"
    BY <1>2 DEF LaneRecords, Outcomes
  <2>2. pc[b] = "import" /\ Lane(b).outcome = "none"
    BY <1>10 DEF ImportPasses, Freshness, Fresh, Unsettled
  <2>3. CASE dir.tests
    <3>1. SetLane(b, L) /\ pc'[b] = "test" /\ UNCHANGED <<todo, hasDiff, expected, result>>
      BY <1>10, <2>3 DEF ImportPasses, TypeOK
    <3> HIDE DEF L
    <3> QED
      BY <1>7, <2>1, <2>2, <3>1
  <2>4. CASE ~dir.tests
    <3>1. Return(b, M, r[b].bug)
      BY <1>10, <2>4 DEF ImportPasses
    <3> HIDE DEF M
    <3> QED
      BY <1>2, <2>1, <2>2, <3>1, ReturnFresh
  <2> QED
    BY <2>3, <2>4
<1>11. ASSUME NEW b \in Backends PROVE
         /\ Tested(b) \in LaneRecords
         /\ Tested(b).outcome = Lane(b).outcome /\ Tested(b).built = Lane(b).built
         /\ expected.text = "whole" => Tested(b).judgedBy = expected.by
  BY <1>2 DEF Tested, LaneRecords, TypeOK
<1>12. ASSUME NEW b \in Backends, TestPasses(b) PROVE Freshness'
  <2>1. pc[b] = "test" /\ Return(b, Tested(b), r[b].bug)
    BY <1>12 DEF TestPasses
  <2>2. Tested(b).outcome = "none"
    BY <1>11, <2>1 DEF Freshness, Fresh, Unsettled
  <2>3. ASSUME hasDiff[b] PROVE Tested(b).built = r[b].stamp /\ Tested(b).judgedBy = r[b].stamp
    <3>1. expected.text = "whole" /\ expected.by = r[b].stamp
      BY <2>1, <2>3 DEF Freshness, Fresh, OracleDone
    <3> QED
      BY <1>11, <2>1, <3>1 DEF Provenance, TestsOwn
  <2> QED
    BY <1>2, <1>11, <2>1, <2>2, <2>3, ReturnFresh
<1>13. ASSUME NEW b \in Backends, TestFails(b) PROVE Freshness'
  <2>1. [Tested(b) EXCEPT !.outcome = "D", !.code = "D.value"] \in LaneRecords
        /\ [Tested(b) EXCEPT !.outcome = "D", !.code = "D.value"].outcome = "D"
    BY <1>11 DEF LaneRecords, LaneCodes, Outcomes
  <2> QED
    BY <1>2, <1>13, <2>1, ReturnFresh DEF TestFails
<1>14. ASSUME NEW b \in Backends, SurfaceDiff(b) PROVE Freshness'
  <2>1. SUFFICES Fresh(b)'
    BY DEF OneBackend, Freshness
  <2>2. PICK s \in {"pass", "fail"} : r' = [r EXCEPT ![b] = Conclude([r[b] EXCEPT !.surface = s])]
    BY <1>14 DEF SurfaceDiff
  <2>3. /\ r'[b].lanes = r[b].lanes /\ r'[b].stamp = r[b].stamp
        /\ r'[b].outcome = CombinedOutcome(r[b].lanes, s)
    BY <1>2, <2>2 DEF Conclude, Records, TypeOK
  <2>4. pc'[b] = "finish" /\ result' = result
    BY <1>14 DEF SurfaceDiff, TypeOK
  <2>5. AllLanesE(r[b])'
    <3>1. r[b].lanes \in [Lanes -> LaneRecords]
      BY <1>2 DEF Records
    <3> QED
      BY <2>3, <3>1, CombinedE DEF AllLanesE
  <2> QED
    BY <2>3, <2>4, <2>5 DEF Fresh, EarnedE, OracleDone, Unsettled, Decided, FreshRecord, Recorded, Freshness
<1>15. ASSUME NEW b \in Backends, Finish(b) PROVE Freshness'
  <2>1. SUFFICES Fresh(b)'
    BY DEF OneBackend, Freshness
  <2>2. r' = r /\ pc[b] = "finish" /\ pc'[b] = "publish" /\ result'[b].text = "torn"
    BY <1>15 DEF Finish, TypeOK
  <2> QED
    BY <2>2 DEF Fresh, EarnedE, OracleDone, Unsettled, Decided, FreshRecord, Recorded, Freshness
<1>16. ASSUME NEW b \in Backends, Publish(b) PROVE Freshness'
  <2>1. SUFFICES Fresh(b)'
    BY DEF OneBackend, Freshness
  <2>2. /\ pc[b] = "publish" /\ pc'[b] = "idle" /\ result'[b].record = r[b]
        /\ r'[b].lanes = [l \in Lanes |-> lane_record]
    BY <1>16, BlankShape DEF Publish, Forget, TypeOK
  <2>3. EarnedE(r[b])'
    BY <2>2 DEF EarnedE, lane_record
  <2>4. FreshRecord(b)'
    BY <2>2 DEF FreshRecord, Freshness, Fresh, Decided, EarnedE, AllLanesE
  <2> QED
    BY <2>2, <2>3, <2>4 DEF Fresh, OracleDone, Unsettled, Decided
<1> QED
  BY <1>1, <1>3, <1>4, <1>5, <1>6, <1>8, <1>9, <1>10, <1>12, <1>13, <1>14, <1>15, <1>16
     DEF Next, Step

\* An E on disk was earned by the invocation that wrote it, lane by lane, as long as one backend
\* works on the directory; gate_two_backends shows what a second one does to the ground truth.
THEOREM FreshVerdictHolds == OneBackend => (Spec => []FreshVerdict)
<1> SUFFICES ASSUME OneBackend PROVE Spec => []FreshVerdict
  OBVIOUS
<1>1. Freshness => FreshVerdict
  BY DEF Freshness, Fresh, FreshRecord, AllLanesE, EarnedE, FreshVerdict
<1>2. TypeOK /\ Provenance /\ Freshness /\ [Next]_vars => Freshness'
  BY NextFreshness
<1> QED
  BY <1>1, <1>2, InitType, NextType, InitProvenance, NextProvenance, InitFreshness, PTL DEF Spec
-----------------------------------------------------------------------------
(***************************************************************************)
(* The shape of a climb, for any set of backends: what each lane's outcome *)
(* says of its gate and its code, which lanes are still to come, and that  *)
(* the record which finish writes is concluded from its own lanes.  The    *)
(* failure mirror, the exit code and the ledger all follow from it.        *)
(***************************************************************************)

LaneBlank(L) == L.outcome = "none" /\ L.code = "none"

LaneSettled(L) ==
  \/ L.outcome \in {"E", "E-weak"} /\ L.code = "none" /\ L.gate = 6
  \/ L.outcome = "D" /\ L.code = "D.value" /\ L.gate = 6
  \/ L.outcome = "C" /\ L.code = "C" /\ L.gate = 4
  \/ L.outcome = "B" /\ L.code = "B" /\ L.gate = 1

\* Which E a lane that passes gets is decided by the run: by its oracle and its tests.
PassesAs(L, truth) == (L.outcome = "E" => truth) /\ (L.outcome = "E-weak" => ~truth)

LanesClimbed(b) ==
  \A l \in Lanes :
    \/ LaneBlank(r[b].lanes[l])
    \/ l \notin todo[b] /\ LaneSettled(r[b].lanes[l]) /\ PassesAs(r[b].lanes[l], hasDiff[b] /\ dir.tests)

NothingTried(rec) ==
  /\ rec.outcome = "A" /\ rec.failure = "A.compile" /\ rec.surface = "skip"
  /\ \A l \in Lanes : LaneBlank(rec.lanes[l])

LanesAgree(ls) ==
  /\ \A l \in Lanes : LaneBlank(ls[l]) \/ LaneSettled(ls[l])
  /\ \A k, l \in Lanes : ~ (ls[k].outcome = "E" /\ ls[l].outcome = "E-weak")

Climbed(rec) ==
  /\ \E l \in Lanes : Executed(rec.lanes[l])
  /\ LanesAgree(rec.lanes)
  /\ rec.surface \in IF BothImported(rec.lanes) THEN {"pass", "fail"} ELSE {"skip"}
  /\ rec.outcome = CombinedOutcome(rec.lanes, rec.surface)
  /\ rec.failure = MirroredFailure(rec.lanes, rec.surface)

GoodRecord(rec) == NothingTried(rec) \/ Climbed(rec)

BeforeLanes == {"probe", "oracle", "regenerate"}
InLanes == {"compile", "import", "test"}

AtRung(b) ==
  /\ pc[b] \in BeforeLanes => \A l \in Lanes : r[b].lanes[l] = lane_record
  /\ pc[b] \in BeforeLanes \cup InLanes => todo[b] # {} /\ r[b].surface = "skip"
  /\ pc[b] \in InLanes \cup {"surface"} => LanesClimbed(b)
  /\ pc[b] = "import" => Lane(b).gate = 4
  /\ pc[b] = "surface" => BothImported(r[b].lanes)
  /\ pc[b] \in {"finish", "publish"} => GoodRecord(r[b])
  /\ pc[b] = "publish" => result[b].text = "torn"
  /\ Recorded(b) => GoodRecord(result[b].record)

Ladder == \A b \in Backends : AtRung(b)

\* The rest of what Return does: the lane is struck off, and the record concluded at the end.
LEMMA ReturnConcludes ==
  ASSUME TypeOK, NEW b \in Backends, NEW L, NEW bug, Return(b, L, bug)
  PROVE  /\ todo'[b] = todo[b] \ {CurrentLane(b)} /\ r'[b].surface = r[b].surface
         /\ pc'[b] = IF todo'[b] # {} THEN "compile"
                     ELSE IF BothImported(r'[b].lanes) THEN "surface" ELSE "finish"
         /\ pc'[b] = "finish" =>
              /\ r'[b].outcome = CombinedOutcome(r'[b].lanes, r'[b].surface)
              /\ r'[b].failure = MirroredFailure(r'[b].lanes, r'[b].surface)
         /\ UNCHANGED <<dir, result, hasDiff>>
<1> DEFINE ls   == [r[b].lanes EXCEPT ![CurrentLane(b)] = Settle(L, hasDiff[b], dir.tests)]
           rest == todo[b] \ {CurrentLane(b)}
           rec  == [r[b] EXCEPT !.lanes = ls, !.bug = bug]
           next == IF rest # {} THEN "compile" ELSE IF BothImported(ls) THEN "surface" ELSE "finish"
           new  == IF next = "finish" THEN Conclude(rec) ELSE rec
<1>1. r'[b] = new /\ pc'[b] = next /\ todo'[b] = rest /\ UNCHANGED <<dir, result, hasDiff>>
  BY DEF Return, Goto, TypeOK
<1>2. r[b] \in Records
  BY DEF TypeOK
<1>3. rec.lanes = ls /\ rec.surface = r[b].surface
  BY <1>2 DEF Records
<1>4. /\ Conclude(rec).lanes = rec.lanes /\ Conclude(rec).surface = rec.surface
      /\ Conclude(rec).outcome = CombinedOutcome(rec.lanes, rec.surface)
      /\ Conclude(rec).failure = MirroredFailure(rec.lanes, rec.surface)
  BY <1>2 DEF Conclude, Records
<1> HIDE DEF ls, rec
<1>5. r'[b].lanes = ls /\ r'[b].surface = r[b].surface
  BY <1>1, <1>3, <1>4
<1>6. next = "finish" => r'[b] = Conclude(rec)
  BY <1>1
<1> QED
  BY <1>1, <1>3, <1>4, <1>5, <1>6

\* A lane that returns settled takes its place in the climb.
LEMMA ReturnClimbs ==
  ASSUME TypeOK, Ladder, NEW b \in Backends, NEW L \in LaneRecords, NEW bug, Return(b, L, bug),
         pc[b] \in InLanes,
         LaneSettled(Settle(L, hasDiff[b], dir.tests)),
         PassesAs(Settle(L, hasDiff[b], dir.tests), hasDiff[b] /\ dir.tests)
  PROVE  AtRung(b)'
<1> DEFINE S     == Settle(L, hasDiff[b], dir.tests)
           truth == hasDiff[b] /\ dir.tests
<1>1. /\ r'[b].lanes = [r[b].lanes EXCEPT ![CurrentLane(b)] = S]
      /\ todo'[b] = todo[b] \ {CurrentLane(b)} /\ r'[b].surface = "skip"
      /\ pc'[b] = IF todo'[b] # {} THEN "compile"
                  ELSE IF BothImported(r'[b].lanes) THEN "surface" ELSE "finish"
      /\ pc'[b] = "finish" => /\ r'[b].outcome = CombinedOutcome(r'[b].lanes, r'[b].surface)
                              /\ r'[b].failure = MirroredFailure(r'[b].lanes, r'[b].surface)
      /\ UNCHANGED <<dir, result, hasDiff>>
  <2>1. r[b].surface = "skip"
    BY DEF Ladder, AtRung
  <2> HIDE DEF S
  <2> QED
    BY <2>1, ReturnShape, ReturnConcludes DEF S
<1>2. LaneSettled(S) /\ PassesAs(S, truth)
  OBVIOUS
<1> HIDE DEF S, truth
<1>3. r[b].lanes \in [Lanes -> LaneRecords] /\ CurrentLane(b) \in Lanes
  BY DEF TypeOK, Records, CurrentLane, Lanes
<1>4. ASSUME NEW l \in Lanes
      PROVE  \/ LaneBlank(r'[b].lanes[l])
             \/ l \notin todo'[b] /\ LaneSettled(r'[b].lanes[l]) /\ PassesAs(r'[b].lanes[l], truth)
  <2>1. CASE l = CurrentLane(b)
    BY <1>1, <1>2, <1>3, <2>1
  <2>2. CASE l # CurrentLane(b)
    <3>1. r'[b].lanes[l] = r[b].lanes[l] /\ (l \notin todo[b] => l \notin todo'[b])
      BY <1>1, <1>3, <2>2
    <3> QED
      BY <3>1 DEF Ladder, AtRung, LanesClimbed, truth
  <2> QED
    BY <2>1, <2>2
<1>5. LanesClimbed(b)'
  BY <1>1, <1>4 DEF LanesClimbed, truth
<1>6. pc'[b] = "finish" => GoodRecord(r'[b])
  <2>1. SUFFICES ASSUME pc'[b] = "finish" PROVE Climbed(r'[b])
    BY DEF GoodRecord
  <2>2. ~ BothImported(r'[b].lanes)
    BY <1>1, <2>1
  <2>3. Executed(r'[b].lanes[CurrentLane(b)])
    BY <1>1, <1>2, <1>3 DEF Executed, LaneSettled
  <2>4. LanesAgree(r'[b].lanes)
    <3>1. \A l \in Lanes : LaneBlank(r'[b].lanes[l]) \/ LaneSettled(r'[b].lanes[l])
      BY <1>4
    <3>2. ASSUME NEW k \in Lanes, NEW l \in Lanes,
                 r'[b].lanes[k].outcome = "E", r'[b].lanes[l].outcome = "E-weak"
          PROVE  FALSE
      <4>1. PassesAs(r'[b].lanes[k], truth) /\ PassesAs(r'[b].lanes[l], truth)
        BY <1>4, <3>2 DEF LaneBlank
      <4> QED
        BY <3>2, <4>1 DEF PassesAs
    <3> QED
      BY <3>1, <3>2 DEF LanesAgree
  <2> QED
    BY <1>1, <1>3, <2>1, <2>2, <2>3, <2>4 DEF Climbed
<1>7. Recorded(b)' => GoodRecord(result'[b].record)
  BY <1>1 DEF Ladder, AtRung, Recorded
<1> QED
  BY <1>1, <1>5, <1>6, <1>7 DEF AtRung, BeforeLanes, InLanes

\* A step of one backend leaves the others where they are.
LEMMA OthersStay ==
  ASSUME Ladder, NEW b \in Backends, dir' = dir, AtRung(b)',
         \A c \in Backends \ {b} : /\ r'[c] = r[c] /\ pc'[c] = pc[c] /\ todo'[c] = todo[c]
                                   /\ hasDiff'[c] = hasDiff[c] /\ result'[c] = result[c]
  PROVE  Ladder'
<1>1. ASSUME NEW c \in Backends, c # b PROVE AtRung(c)'
  <2>1. /\ r'[c] = r[c] /\ pc'[c] = pc[c] /\ todo'[c] = todo[c]
        /\ hasDiff'[c] = hasDiff[c] /\ result'[c] = result[c]
    BY <1>1
  <2>2. AtRung(c)
    BY DEF Ladder
  <2> QED
    BY <2>1, <2>2 DEF AtRung, LanesClimbed, Lane, CurrentLane, Recorded
<1> QED
  BY <1>1 DEF Ladder

THEOREM InitLadder == Init => Ladder
BY DEF Init, Ladder, AtRung, Recorded, BeforeLanes, InLanes

\* Every step of every backend keeps its climb in shape: the strengthening that the properties of
\* the record need, for any number of backends on the directory.
THEOREM NextLadder == TypeOK /\ Ladder /\ [Next]_vars => Ladder'
<1> SUFFICES ASSUME TypeOK, Ladder, [Next]_vars PROVE Ladder'
  OBVIOUS
<1> USE DEF Goto
<1>1. CASE UNCHANGED vars
  BY <1>1 DEF vars, Ladder, AtRung, LanesClimbed, Lane, CurrentLane, Recorded
<1>2. CASE Edit
  <2>1. SUFFICES ASSUME NEW b \in Backends PROVE AtRung(b)'
    BY DEF Ladder
  <2>2. pc[b] = "idle" /\ pc' = pc /\ result' = result
    BY <1>2 DEF Edit
  <2> QED
    BY <2>2 DEF AtRung, Ladder, Recorded, BeforeLanes, InLanes
<1>3. ASSUME NEW b \in Backends
      PROVE  /\ r[b] \in Records /\ Lane(b) \in LaneRecords /\ CurrentLane(b) \in Lanes
             /\ hasDiff[b] \in BOOLEAN /\ dir.tests \in BOOLEAN
             /\ module[b][CurrentLane(b)] \in Nat
             /\ r[b].lanes \in [Lanes -> LaneRecords]
             /\ AtRung(b)
  BY DirsAssumption DEF Lane, CurrentLane, Lanes, TypeOK, Records, Ladder
<1>4. ASSUME NEW b \in Backends, Start(b) PROVE Ladder'
  <2>1. PICK mode \in Modes : todo' = [todo EXCEPT ![b] = LanesToRun(b, mode)]
    BY <1>4 DEF Start
  <2>2. LanesToRun(b, mode) # {}
    BY DEF LanesToRun, Lanes, Modes
  <2>3. /\ todo'[b] # {} /\ pc'[b] = "probe" /\ result' = result /\ dir' = dir
        /\ r'[b] = BlankRecord(clock')
    BY <1>4, <2>1, <2>2 DEF Start, TypeOK
  <2>4. AtRung(b)'
    BY <1>3, <2>3 DEF AtRung, BlankRecord, BeforeLanes, InLanes, Recorded
  <2>5. \A c \in Backends \ {b} : /\ r'[c] = r[c] /\ pc'[c] = pc[c] /\ todo'[c] = todo[c]
                                 /\ hasDiff'[c] = hasDiff[c]
    BY <1>4, <2>1 DEF Start, TypeOK
  <2> QED
    BY <2>3, <2>4, <2>5, OthersStay
<1>5. ASSUME NEW b \in Backends, Crash(b) \/ Publish(b) PROVE Ladder'
  <2>1. pc'[b] = "idle" /\ dir' = dir
    BY <1>5 DEF Crash, Publish, TypeOK
  <2>2. Recorded(b)' => GoodRecord(result'[b].record)
    <3>1. CASE Crash(b)
      BY <1>3, <3>1 DEF Crash, AtRung, Recorded
    <3>2. CASE Publish(b)
      BY <1>3, <3>2 DEF Publish, AtRung, TypeOK
    <3> QED
      BY <1>5, <3>1, <3>2
  <2>3. AtRung(b)'
    BY <2>1, <2>2 DEF AtRung, BeforeLanes, InLanes
  <2>4. \A c \in Backends \ {b} : /\ r'[c] = r[c] /\ pc'[c] = pc[c] /\ todo'[c] = todo[c]
                                 /\ hasDiff'[c] = hasDiff[c] /\ result'[c] = result[c]
    BY <1>5 DEF Crash, Publish, Forget, TypeOK
  <2> QED
    BY <2>1, <2>3, <2>4, OthersStay
<1>6. ASSUME NEW b \in Backends, ProbePasses(b) \/ OracleRuns(b) \/ OracleFails(b) \/ Regenerate(b)
      PROVE  Ladder'
  <2>1. /\ pc[b] \in BeforeLanes /\ pc'[b] \in {"oracle", "regenerate", "compile"}
        /\ dir' = dir /\ todo' = todo /\ result' = result
    BY <1>6 DEF ProbePasses, OracleRuns, OracleFails, Regenerate, BeforeLanes, TypeOK
  <2>2. r'[b].lanes = r[b].lanes /\ r'[b].surface = r[b].surface
    BY <1>3, <1>6 DEF ProbePasses, OracleRuns, OracleFails, Regenerate, TypeOK, Records
  <2>3. \A l \in Lanes : r'[b].lanes[l] = lane_record
    BY <1>3, <2>1, <2>2 DEF AtRung
  <2>4. LanesClimbed(b)'
    BY <2>3 DEF LanesClimbed, LaneBlank, lane_record
  <2>5. AtRung(b)'
    BY <1>3, <2>1, <2>2, <2>3, <2>4 DEF AtRung, Recorded, BeforeLanes, InLanes
  <2>6. \A c \in Backends \ {b} : r'[c] = r[c] /\ pc'[c] = pc[c] /\ hasDiff'[c] = hasDiff[c]
    BY <1>6 DEF ProbePasses, OracleRuns, OracleFails, Regenerate, TypeOK
  <2> QED
    BY <2>1, <2>5, <2>6, OthersStay
<1>7. ASSUME NEW b \in Backends, ProbeFails(b) PROVE Ladder'
  <2>1. /\ pc[b] \in BeforeLanes /\ pc'[b] = "finish"
        /\ dir' = dir /\ todo' = todo /\ result' = result /\ hasDiff' = hasDiff
    BY <1>7 DEF ProbeFails, BeforeLanes, TypeOK
  <2>2. /\ r'[b].lanes = r[b].lanes /\ r'[b].surface = r[b].surface
        /\ r'[b].outcome = "A" /\ r'[b].failure = "A.compile"
    BY <1>3, <1>7 DEF ProbeFails, TypeOK, Records
  <2>3. NothingTried(r'[b])
    BY <1>3, <2>1, <2>2 DEF AtRung, NothingTried, LaneBlank, lane_record
  <2>4. AtRung(b)'
    BY <1>3, <2>1, <2>3 DEF AtRung, GoodRecord, Recorded, BeforeLanes, InLanes
  <2>5. \A c \in Backends \ {b} : r'[c] = r[c] /\ pc'[c] = pc[c]
    BY <1>7 DEF ProbeFails, TypeOK
  <2> QED
    BY <2>1, <2>4, <2>5, OthersStay
<1>8. ASSUME NEW b \in Backends, NEW L \in LaneRecords, NEW bug, Return(b, L, bug), pc[b] \in InLanes,
             LaneSettled(Settle(L, hasDiff[b], dir.tests)),
             PassesAs(Settle(L, hasDiff[b], dir.tests), hasDiff[b] /\ dir.tests)
      PROVE  Ladder'
  <2>1. AtRung(b)'
    BY <1>8, ReturnClimbs
  <2>2. \A c \in Backends \ {b} : r'[c] = r[c] /\ pc'[c] = pc[c] /\ todo'[c] = todo[c]
    BY <1>8, ReturnShape
  <2>3. UNCHANGED <<dir, hasDiff, result>>
    BY <1>8 DEF Return
  <2> QED
    BY <2>1, <2>2, <2>3, OthersStay
<1>9. ASSUME NEW b \in Backends, CompileFails(b) PROVE Ladder'
  <2> DEFINE L == [lane_record EXCEPT !.outcome = "B", !.code = "B"]
  <2>1. PICK bug : Return(b, L, bug)
    BY <1>9 DEF CompileFails
  <2>2. L \in LaneRecords /\ L.outcome = "B" /\ L.code = "B" /\ L.gate = 1
    BY DEF lane_record, LaneRecords, LaneCodes, Outcomes
  <2>3. pc[b] \in InLanes
    BY <1>9 DEF CompileFails, InLanes
  <2> HIDE DEF L
  <2>4. Settle(L, hasDiff[b], dir.tests) = L
    BY <2>2 DEF Settle
  <2> QED
    BY <1>8, <2>1, <2>2, <2>3, <2>4 DEF LaneSettled, PassesAs
<1>10. ASSUME NEW b \in Backends, NEW L \in LaneRecords, SetLane(b, L), L.outcome = "none", L.code = "none",
              pc[b] \in InLanes, pc'[b] \in InLanes, pc'[b] = "import" => L.gate = 4,
              pc' = [pc EXCEPT ![b] = pc'[b]], UNCHANGED <<dir, todo, hasDiff, result>>
       PROVE  Ladder'
  <2>1. /\ r'[b].lanes = [r[b].lanes EXCEPT ![CurrentLane(b)] = L]
        /\ r'[b].lanes[CurrentLane(b)] = L
        /\ \A c \in Backends \ {b} : r'[c] = r[c]
    BY <1>10, SetLaneShape
  <2>2. r'[b].surface = r[b].surface
    BY <1>3, <1>10 DEF SetLane, TypeOK, Records
  <2>3. LanesClimbed(b)'
    <3>1. SUFFICES ASSUME NEW l \in Lanes
                   PROVE  \/ LaneBlank(r'[b].lanes[l])
                          \/ l \notin todo[b] /\ LaneSettled(r'[b].lanes[l])
                             /\ PassesAs(r'[b].lanes[l], hasDiff[b] /\ dir.tests)
      BY <1>10 DEF LanesClimbed
    <3>2. CASE l = CurrentLane(b)
      BY <1>10, <2>1, <3>2 DEF LaneBlank
    <3>3. CASE l # CurrentLane(b)
      <4>1. r'[b].lanes[l] = r[b].lanes[l]
        BY <1>3, <2>1, <3>3
      <4> QED
        BY <1>3, <1>10, <4>1 DEF AtRung, LanesClimbed
    <3> QED
      BY <3>2, <3>3
  <2>4. pc'[b] = "import" => Lane(b)'.gate = 4
    BY <1>10, <2>1 DEF Lane, CurrentLane
  <2>5. AtRung(b)'
    BY <1>3, <1>10, <2>2, <2>3, <2>4 DEF AtRung, Recorded, BeforeLanes, InLanes
  <2>6. \A c \in Backends \ {b} : pc'[c] = pc[c]
    BY <1>10 DEF TypeOK
  <2> QED
    BY <1>10, <2>1, <2>5, <2>6, OthersStay
<1>11. ASSUME NEW b \in Backends, CompilePasses(b) PROVE Ladder'
  <2>1. [lane_record EXCEPT !.gate = 4] \in LaneRecords /\ [lane_record EXCEPT !.gate = 4].gate = 4
        /\ [lane_record EXCEPT !.gate = 4].outcome = "none" /\ [lane_record EXCEPT !.gate = 4].code = "none"
    BY DEF lane_record, LaneRecords, LaneCodes
  <2>2. pc[b] = "compile" /\ pc'[b] = "import" /\ pc' = [pc EXCEPT ![b] = "import"]
    BY <1>11 DEF CompilePasses, TypeOK
  <2> QED
    BY <1>10, <1>11, <2>1, <2>2 DEF CompilePasses, InLanes
\* The lane under test has not been tried before.
<1>12. ASSUME NEW b \in Backends, pc[b] \in {"import", "test"} PROVE LaneBlank(Lane(b))
  <2>1. todo[b] # {} /\ LanesClimbed(b)
    BY <1>3, <1>12 DEF AtRung, InLanes
  <2>2. CurrentLane(b) \in todo[b]
    BY <2>1 DEF CurrentLane, TypeOK, Lanes
  <2> QED
    BY <1>3, <2>1, <2>2 DEF LanesClimbed, Lane
<1>13. ASSUME NEW b \in Backends, ImportFails(b) PROVE Ladder'
  <2> DEFINE L == [Lane(b) EXCEPT !.outcome = "C", !.code = "C"]
  <2>1. pc[b] = "import" /\ Return(b, L, r[b].bug)
    BY <1>13 DEF ImportFails
  <2>2. Lane(b).gate = 4
    BY <1>3, <2>1 DEF AtRung
  <2>3. L \in LaneRecords /\ L.outcome = "C" /\ L.code = "C" /\ L.gate = 4
    BY <1>3, <2>2 DEF LaneRecords, LaneCodes, Outcomes
  <2> HIDE DEF L
  <2>4. Settle(L, hasDiff[b], dir.tests) = L
    BY <2>3 DEF Settle
  <2> QED
    BY <1>8, <2>1, <2>3, <2>4 DEF LaneSettled, PassesAs, InLanes
<1>14. ASSUME NEW b \in Backends, ImportPasses(b) PROVE Ladder'
  <2> DEFINE L == [Lane(b) EXCEPT !.gate = 5, !.built = module[b][CurrentLane(b)]]
             M == [L EXCEPT !.outcome = "E-weak", !.gate = 6]
  <2>1. pc[b] = "import"
    BY <1>14 DEF ImportPasses
  <2>2. Lane(b).outcome = "none" /\ Lane(b).code = "none"
    BY <1>12, <2>1 DEF LaneBlank
  <2>3. /\ L \in LaneRecords /\ L.outcome = "none" /\ L.code = "none"
        /\ M \in LaneRecords /\ M.outcome = "E-weak" /\ M.code = "none" /\ M.gate = 6
    BY <1>3, <2>2 DEF LaneRecords, Outcomes
  <2>4. CASE dir.tests
    <3>1. SetLane(b, L) /\ pc' = [pc EXCEPT ![b] = "test"] /\ UNCHANGED <<dir, todo, hasDiff, result>>
      BY <1>14, <2>4 DEF ImportPasses
    <3> HIDE DEF L
    <3>2. pc'[b] = "test"
      BY <3>1 DEF TypeOK
    <3> QED
      BY <1>10, <2>1, <2>3, <3>1, <3>2 DEF InLanes
  <2>5. CASE ~dir.tests
    <3>1. Return(b, M, r[b].bug)
      BY <1>14, <2>5 DEF ImportPasses
    <3> HIDE DEF M
    <3>2. Settle(M, hasDiff[b], dir.tests) = M
      BY <2>3 DEF Settle
    <3>3. LaneSettled(M) /\ PassesAs(M, hasDiff[b] /\ dir.tests)
      BY <2>3, <2>5 DEF LaneSettled, PassesAs
    <3> QED
      BY <1>8, <2>1, <2>3, <3>1, <3>2, <3>3 DEF InLanes
  <2> QED
    BY <2>4, <2>5
<1>15. ASSUME NEW b \in Backends, pc[b] = "test"
       PROVE  /\ Tested(b) \in LaneRecords /\ Tested(b).outcome = "none"
              /\ Tested(b).code = "none" /\ Tested(b).gate = 6
  <2>1. Lane(b).outcome = "none" /\ Lane(b).code = "none"
    BY <1>12, <1>15 DEF LaneBlank
  <2> QED
    BY <1>3, <2>1 DEF Tested, LaneRecords, TypeOK
<1>16. ASSUME NEW b \in Backends, TestPasses(b) PROVE Ladder'
  <2>1. pc[b] = "test" /\ Return(b, Tested(b), r[b].bug)
    BY <1>16 DEF TestPasses
  <2> DEFINE S == Settle(Tested(b), hasDiff[b], dir.tests)
  <2>2. /\ S.outcome = IF hasDiff[b] /\ dir.tests THEN "E" ELSE "E-weak"
        /\ S.code = "none" /\ S.gate = 6
    BY <1>15, <2>1 DEF Settle, LaneRecords
  <2> HIDE DEF S
  <2>3. LaneSettled(S) /\ PassesAs(S, hasDiff[b] /\ dir.tests)
    BY <2>2 DEF LaneSettled, PassesAs
  <2> QED
    BY <1>8, <1>15, <2>1, <2>3 DEF InLanes, S
<1>17. ASSUME NEW b \in Backends, TestFails(b) PROVE Ladder'
  <2> DEFINE L == [Tested(b) EXCEPT !.outcome = "D", !.code = "D.value"]
  <2>1. pc[b] = "test" /\ Return(b, L, r[b].bug)
    BY <1>17 DEF TestFails
  <2>2. L \in LaneRecords /\ L.outcome = "D" /\ L.code = "D.value" /\ L.gate = 6
    BY <1>15, <2>1 DEF LaneRecords, LaneCodes, Outcomes
  <2> HIDE DEF L
  <2>3. Settle(L, hasDiff[b], dir.tests) = L
    BY <2>2 DEF Settle
  <2> QED
    BY <1>8, <2>1, <2>2, <2>3 DEF LaneSettled, PassesAs, InLanes
<1>18. ASSUME NEW b \in Backends, SurfaceDiff(b) PROVE Ladder'
  <2>1. PICK s \in {"pass", "fail"} : r' = [r EXCEPT ![b] = Conclude([r[b] EXCEPT !.surface = s])]
    BY <1>18 DEF SurfaceDiff
  <2>2. /\ r'[b].lanes = r[b].lanes /\ r'[b].surface = s
        /\ r'[b].outcome = CombinedOutcome(r[b].lanes, s)
        /\ r'[b].failure = MirroredFailure(r[b].lanes, s)
    BY <1>3, <2>1 DEF Conclude, Records, TypeOK
  <2>3. /\ pc[b] = "surface" /\ pc' = [pc EXCEPT ![b] = "finish"] /\ pc'[b] = "finish"
        /\ UNCHANGED <<dir, todo, hasDiff, result>>
    BY <1>18 DEF SurfaceDiff, TypeOK
  <2>4. LanesClimbed(b) /\ BothImported(r[b].lanes)
    BY <1>3, <2>3 DEF AtRung
  <2>5. LanesAgree(r[b].lanes)
    BY <2>4 DEF LanesClimbed, LanesAgree, PassesAs, LaneBlank
  <2>6. \E l \in Lanes : Executed(r[b].lanes[l])
    BY <2>4 DEF BothImported, Lanes
  <2>7. Climbed(r'[b])
    BY <2>2, <2>4, <2>5, <2>6 DEF Climbed
  <2>8. AtRung(b)'
    BY <1>3, <2>3, <2>7 DEF AtRung, GoodRecord, Recorded, BeforeLanes, InLanes
  <2>9. \A c \in Backends \ {b} : r'[c] = r[c] /\ pc'[c] = pc[c]
    BY <2>1, <2>3 DEF TypeOK
  <2> QED
    BY <2>3, <2>8, <2>9, OthersStay
<1>19. ASSUME NEW b \in Backends, Finish(b) PROVE Ladder'
  <2>1. /\ pc[b] = "finish" /\ pc' = [pc EXCEPT ![b] = "publish"] /\ pc'[b] = "publish"
        /\ result'[b].text = "torn" /\ UNCHANGED <<dir, todo, hasDiff, r>>
    BY <1>19 DEF Finish, TypeOK
  <2>2. AtRung(b)'
    BY <1>3, <2>1 DEF AtRung, Recorded, BeforeLanes, InLanes
  <2>3. \A c \in Backends \ {b} : result'[c] = result[c] /\ pc'[c] = pc[c]
    BY <1>19 DEF Finish, TypeOK
  <2> QED
    BY <2>1, <2>2, <2>3, OthersStay
<1> QED
  BY <1>1, <1>2, <1>4, <1>5, <1>6, <1>7, <1>9, <1>11, <1>13, <1>14, <1>16, <1>17, <1>18, <1>19
     DEF Next, Step

-----------------------------------------------------------------------------
(***************************************************************************)
(* What the record says of its lanes: the rules of Verdict, for every      *)
(* record that a climb can end with.                                       *)
(***************************************************************************)

LEMMA RankTable ==
  /\ Rank["E"] = 0 /\ Rank["E-weak"] = 1 /\ Rank["D"] = 2
  /\ Rank["C"] = 3 /\ Rank["B"] = 4 /\ Rank["A"] = 5
  BY DEF Rank, Outcomes

\* The rank orders the outcomes, and two outcomes of one rank are one.
LEMMA RankOrders ==
  /\ \A o \in Outcomes : Rank[o] \in 0 .. 5
  /\ \A o, p \in Outcomes : Rank[o] = Rank[p] => o = p
  /\ \A o \in Outcomes : Clean(o) <=> Rank[o] < Rank["D"]
<1>1. \A o \in Outcomes : Rank[o] \in 0 .. 5
  BY RankTable DEF Outcomes
<1>2. \A o, p \in Outcomes : Rank[o] = Rank[p] => o = p
  BY RankTable DEF Outcomes
<1>3. \A o \in Outcomes : Clean(o) <=> Rank[o] < Rank["D"]
  BY RankTable DEF Outcomes, Clean
<1> QED
  BY <1>1, <1>2, <1>3

\* The accumulation over the lane loop is the worst outcome of a lane that ran.
LEMMA WorstLaneIsWorst ==
  ASSUME NEW ls \in [Lanes -> LaneRecords], \E l \in Lanes : Executed(ls[l])
  PROVE  /\ WorstLane(ls) \in Outcomes
         /\ \E l \in Lanes : Executed(ls[l]) /\ WorstLane(ls) = ls[l].outcome
         /\ \A l \in Lanes : Executed(ls[l]) => Rank[ls[l].outcome] <= Rank[WorstLane(ls)]
<1> DEFINE cx == ls["constexpr"]
           em == ls["emit"]
<1>1. /\ cx.outcome \in Outcomes \cup {"none"} /\ em.outcome \in Outcomes \cup {"none"}
      /\ Executed(cx) \/ Executed(em)
      /\ "constexpr" \in Lanes /\ "emit" \in Lanes
  BY DEF LaneRecords, Lanes
<1>2. CASE ~ Executed(cx)
  <2>1. WorstLane(ls) = em.outcome /\ em.outcome \in Outcomes
    BY <1>1, <1>2 DEF WorstLane, Executed
  <2>2. \A l \in Lanes : Executed(ls[l]) => l = "emit"
    BY <1>2 DEF Lanes
  <2>3. Rank[em.outcome] <= Rank[em.outcome]
    BY <2>1, RankOrders
  <2> QED
    BY <1>1, <1>2, <2>1, <2>2, <2>3
<1>3. CASE Executed(cx) /\ Executed(em) /\ Rank[em.outcome] > Rank[cx.outcome]
  <2>1. WorstLane(ls) = em.outcome /\ em.outcome \in Outcomes /\ cx.outcome \in Outcomes
    BY <1>1, <1>3 DEF WorstLane, Executed
  <2>2. Rank[cx.outcome] <= Rank[em.outcome] /\ Rank[em.outcome] <= Rank[em.outcome]
    BY <1>3, <2>1, RankOrders
  <2> QED
    BY <1>1, <1>3, <2>1, <2>2 DEF Lanes
<1>4. CASE Executed(cx) /\ ~(Executed(em) /\ Rank[em.outcome] > Rank[cx.outcome])
  <2>1. WorstLane(ls) = cx.outcome /\ cx.outcome \in Outcomes
    BY <1>1, <1>4 DEF WorstLane, Executed
  <2>2. Executed(em) => Rank[em.outcome] <= Rank[cx.outcome]
    BY <1>1, <1>4, <2>1, RankOrders DEF Executed
  <2>3. Rank[cx.outcome] <= Rank[cx.outcome]
    BY <2>1, RankOrders
  <2> QED
    BY <1>1, <1>4, <2>1, <2>2, <2>3 DEF Lanes
<1> QED
  BY <1>2, <1>3, <1>4

\* The combined lanes are clean exactly when every lane that ran is.
LEMMA WorstLaneClean ==
  ASSUME NEW ls \in [Lanes -> LaneRecords], \E l \in Lanes : Executed(ls[l])
  PROVE  Clean(WorstLane(ls)) <=> \A l \in Lanes : Executed(ls[l]) => Clean(ls[l].outcome)
<1>1. /\ WorstLane(ls) \in Outcomes
      /\ \E l \in Lanes : Executed(ls[l]) /\ WorstLane(ls) = ls[l].outcome
      /\ \A l \in Lanes : Executed(ls[l]) => Rank[ls[l].outcome] <= Rank[WorstLane(ls)]
  BY WorstLaneIsWorst
<1>2. \A l \in Lanes : Executed(ls[l]) => ls[l].outcome \in Outcomes
  BY DEF LaneRecords, Executed
<1>3. ASSUME Clean(WorstLane(ls)), NEW l \in Lanes, Executed(ls[l]) PROVE Clean(ls[l].outcome)
  <2>1. ls[l].outcome \in Outcomes /\ Rank[ls[l].outcome] <= Rank[WorstLane(ls)]
    BY <1>1, <1>2, <1>3
  <2>2. Rank[WorstLane(ls)] < 2
    BY <1>1, <1>3, RankOrders, RankTable
  <2> QED
    BY <1>1, <2>1, <2>2, RankOrders, RankTable
<1> QED
  BY <1>1, <1>3

\* The surface diff decides exactly when it ran, failed, and no lane had failed before it.
LEMMA SurfaceDecidesWhen ==
  ASSUME NEW rec \in Records, Climbed(rec)
  PROVE  SurfaceDecides(rec.lanes, rec.surface)
           <=> rec.surface = "fail" /\ \A l \in Lanes : Clean(rec.lanes[l].outcome)
<1>1. rec.lanes \in [Lanes -> LaneRecords] /\ \E l \in Lanes : Executed(rec.lanes[l])
  BY DEF Records, Climbed
<1>2. rec.surface = "fail" => \A l \in Lanes : Executed(rec.lanes[l])
  BY DEF Climbed, BothImported
<1>3. WorstLane(rec.lanes) \in Outcomes
  BY <1>1, WorstLaneIsWorst
<1>4. Clean(WorstLane(rec.lanes)) <=> Rank[WorstLane(rec.lanes)] < Rank["D"]
  BY <1>3, RankOrders
<1>5. \A l \in Lanes : Clean(rec.lanes[l].outcome) => Executed(rec.lanes[l])
  BY DEF Clean, Executed
<1> QED
  BY <1>1, <1>2, <1>4, <1>5, WorstLaneClean DEF SurfaceDecides

-----------------------------------------------------------------------------
(* The failure mirror *)

\* What FailureIsExplained says of one record.
Explained(rec) ==
  /\ Clean(rec.outcome) <=> rec.failure = "none"
  /\ rec.failure = "D.surface" => rec.surface = "fail" /\ \A l \in Lanes : rec.lanes[l].code = "none"
  /\ rec.failure \in {"B", "C", "D.value"} => \E l \in Lanes : rec.lanes[l].code = rec.failure

\* A settled lane shows no code exactly when it is clean.
LEMMA CodeOfLane ==
  ASSUME NEW L, LaneBlank(L) \/ LaneSettled(L)
  PROVE  /\ Executed(L) => (L.code = "none" <=> Clean(L.outcome))
         /\ ~ Executed(L) => L.code = "none"
  BY DEF LaneBlank, LaneSettled, Executed, Clean

LEMMA GoodIsExplained == ASSUME NEW rec \in Records, GoodRecord(rec) PROVE Explained(rec)
<1>1. CASE NothingTried(rec)
  BY <1>1 DEF NothingTried, Explained, Clean
<1>2. CASE Climbed(rec)
  <2>1. /\ rec.lanes \in [Lanes -> LaneRecords] /\ "constexpr" \in Lanes /\ "emit" \in Lanes
        /\ \A l \in Lanes : LaneBlank(rec.lanes[l]) \/ LaneSettled(rec.lanes[l])
        /\ \E l \in Lanes : Executed(rec.lanes[l])
    BY <1>2 DEF Records, Climbed, LanesAgree, Lanes
  <2>2. /\ rec.outcome = CombinedOutcome(rec.lanes, rec.surface)
        /\ rec.failure = MirroredFailure(rec.lanes, rec.surface)
    BY <1>2 DEF Climbed
  <2>3. \A l \in Lanes : /\ Executed(rec.lanes[l]) =>
                              (rec.lanes[l].code = "none" <=> Clean(rec.lanes[l].outcome))
                         /\ ~ Executed(rec.lanes[l]) => rec.lanes[l].code = "none"
    BY <2>1, CodeOfLane
  <2>4. CASE SurfaceDecides(rec.lanes, rec.surface)
    <3>1. rec.outcome = "D" /\ rec.failure = "D.surface"
      BY <2>2, <2>4 DEF CombinedOutcome, MirroredFailure
    <3>2. rec.surface = "fail" /\ \A l \in Lanes : Clean(rec.lanes[l].outcome)
      BY <1>2, <2>4, SurfaceDecidesWhen
    <3>3. \A l \in Lanes : rec.lanes[l].code = "none"
      BY <2>3, <3>2 DEF Clean, Executed
    <3> QED
      BY <3>1, <3>2, <3>3 DEF Explained, Clean
  <2>5. CASE ~ SurfaceDecides(rec.lanes, rec.surface)
    <3>1. rec.outcome = WorstLane(rec.lanes)
          /\ rec.failure = IF rec.lanes["constexpr"].code # "none" THEN rec.lanes["constexpr"].code
                           ELSE rec.lanes["emit"].code
      BY <2>2, <2>5 DEF CombinedOutcome, MirroredFailure
    <3>2. rec.failure = "none" <=> \A l \in Lanes : rec.lanes[l].code = "none"
      BY <3>1 DEF Lanes
    <3>3. Clean(rec.outcome) <=> \A l \in Lanes : rec.lanes[l].code = "none"
      BY <2>1, <2>3, <3>1, WorstLaneClean
    <3>4. \E l \in Lanes : rec.failure = rec.lanes[l].code
      BY <2>1, <3>1
    <3>5. rec.failure # "D.surface"
      BY <2>1, <3>4 DEF LaneBlank, LaneSettled
    <3> QED
      BY <3>2, <3>3, <3>4, <3>5 DEF Explained
  <2> QED
    BY <2>4, <2>5
<1> QED
  BY <1>1, <1>2 DEF GoodRecord

\* The failure at the top of a record is a failure of that record, for every set of backends and
\* every interleaving of their runs with kills and edits.
THEOREM FailureIsExplainedHolds == Spec => []FailureIsExplained
<1>1. TypeOK /\ Ladder => FailureIsExplained
  <2> SUFFICES ASSUME TypeOK, Ladder, NEW b \in Backends, Recorded(b)
               PROVE  Explained(result[b].record)
    BY DEF FailureIsExplained, Explained
  <2>1. result[b].record \in Records
    BY DEF TypeOK
  <2>2. GoodRecord(result[b].record)
    BY DEF Ladder, AtRung
  <2> QED
    BY <2>1, <2>2, GoodIsExplained
<1> QED
  BY <1>1, InitType, NextType, InitLadder, NextLadder, PTL DEF Spec

-----------------------------------------------------------------------------
(* The exit code *)

\* What ExitZeroMeansAgreement says of one record.
Agreement(rec) ==
  LET ran == {l \in Lanes : Executed(rec.lanes[l])} IN
  /\ ran # {} /\ \A l \in ran : Clean(rec.lanes[l].outcome)
  /\ ran = Lanes => rec.surface = "pass"

LEMMA ExitOfGood ==
  ASSUME NEW rec \in Records, GoodRecord(rec)
  PROVE  ExitCode(rec.outcome, rec.surface) = 0 <=> Agreement(rec)
<1>1. CASE NothingTried(rec)
  <2>1. ExitCode(rec.outcome, rec.surface) = 1
    BY <1>1 DEF NothingTried, ExitCode, Clean
  <2>2. ~ Agreement(rec)
    BY <1>1 DEF NothingTried, Agreement, LaneBlank, Executed
  <2> QED
    BY <2>1, <2>2
<1>2. CASE Climbed(rec)
  <2>1. rec.lanes \in [Lanes -> LaneRecords] /\ \E l \in Lanes : Executed(rec.lanes[l])
    BY <1>2 DEF Records, Climbed
  <2>2. ExitCode(rec.outcome, rec.surface) = 0 <=> Clean(rec.outcome) /\ rec.surface # "fail"
    BY DEF ExitCode
  <2>3. rec.surface # "fail" => rec.outcome = WorstLane(rec.lanes)
    BY <1>2 DEF Climbed, CombinedOutcome, SurfaceDecides
  <2>4. Clean(WorstLane(rec.lanes))
          <=> \A l \in Lanes : Executed(rec.lanes[l]) => Clean(rec.lanes[l].outcome)
    BY <2>1, WorstLaneClean
  <2>5. \A l \in Lanes : Clean(rec.lanes[l].outcome) => Imported(rec.lanes[l])
    BY <1>2 DEF Climbed, LanesAgree, LaneBlank, LaneSettled, Clean, Imported
  <2>6. ASSUME \A l \in Lanes : Executed(rec.lanes[l]) => Clean(rec.lanes[l].outcome)
        PROVE  rec.surface # "fail" <=> ((\A l \in Lanes : Executed(rec.lanes[l])) => rec.surface = "pass")
    <3>1. CASE \A l \in Lanes : Executed(rec.lanes[l])
      <4>1. BothImported(rec.lanes)
        BY <2>5, <2>6, <3>1 DEF BothImported
      <4> QED
        BY <1>2, <3>1, <4>1 DEF Climbed
    <3>2. CASE ~ \A l \in Lanes : Executed(rec.lanes[l])
      <4>1. rec.surface = "skip"
        BY <1>2, <3>2 DEF Climbed, BothImported
      <4> QED
        BY <3>2, <4>1
    <3> QED
      BY <3>1, <3>2
  <2>7. Agreement(rec) <=>
          /\ \A l \in Lanes : Executed(rec.lanes[l]) => Clean(rec.lanes[l].outcome)
          /\ (\A l \in Lanes : Executed(rec.lanes[l])) => rec.surface = "pass"
    BY <2>1 DEF Agreement
  <2> QED
    BY <2>2, <2>3, <2>4, <2>6, <2>7
<1> QED
  BY <1>1, <1>2 DEF GoodRecord

\* run_gates.py exits with 0 on agreement and only on it.
THEOREM ExitZeroMeansAgreementHolds == Spec => ExitZeroMeansAgreement
<1>1. ASSUME TypeOK, Ladder, NEW b \in Backends, Publish(b)
      PROVE  exit'[b] = 0 <=> Agreement(result'[b].record)
  <2>1. r[b] \in Records /\ GoodRecord(r[b])
    BY <1>1 DEF TypeOK, Publish, Ladder, AtRung
  <2>2. result'[b].record = r[b] /\ exit'[b] = ExitCode(r[b].outcome, r[b].surface)
    BY <1>1 DEF TypeOK, Publish
  <2> QED
    BY <2>1, <2>2, ExitOfGood
<1>2. TypeOK /\ Ladder =>
        \A b \in Backends : Publish(b) =>
          LET rec == result'[b].record
              ran == {l \in Lanes : Executed(rec.lanes[l])} IN
          exit'[b] = 0 <=> /\ ran # {} /\ \A l \in ran : Clean(rec.lanes[l].outcome)
                           /\ ran = Lanes => rec.surface = "pass"
  BY <1>1 DEF Agreement
<1> QED
  BY <1>2, InitType, NextType, InitLadder, NextLadder, PTL DEF Spec, ExitZeroMeansAgreement

-----------------------------------------------------------------------------
(***************************************************************************)
(* The refinement of RunLedger: Finish opens the record file, Publish      *)
(* fills it with the verdict on one observation, every other step does not *)
(* show.                                                                   *)
(***************************************************************************)

VerdictOf(rec) == [outcome |-> rec.outcome, lanes |-> [l \in Lanes |-> rec.lanes[l].outcome],
                   surface |-> rec.surface]

Shown == [b \in Backends |-> [text |-> result[b].text, verdict |-> VerdictOf(result[b].record)]]

\* The instance's taxonomy is this module's.
LEMMA SameTaxonomy == Ledger!Lanes = Lanes /\ Ledger!Outcomes = Outcomes /\ Ledger!Rank = Rank
BY DEF Ledger!Lanes, Lanes, Ledger!Outcomes, Outcomes, Ledger!Rank, Rank

\* The worst of a set of outcomes is the one no other exceeds.
LEMMA WorstIs ==
  ASSUME NEW S \in SUBSET Outcomes, NEW x \in S, \A y \in S : Rank[y] <= Rank[x]
  PROVE  Ledger!Worst(S) = x
<1>1. Ledger!Worst(S) = CHOOSE w \in S : \A y \in S : Rank[y] <= Rank[w]
  BY SameTaxonomy DEF Ledger!Worst
<1>2. Ledger!Worst(S) \in S /\ \A y \in S : Rank[y] <= Rank[Ledger!Worst(S)]
  BY <1>1, Zenon
<1>3. Rank[x] <= Rank[Ledger!Worst(S)] /\ Rank[Ledger!Worst(S)] <= Rank[x]
  BY <1>2
<1>4. x \in Outcomes /\ Ledger!Worst(S) \in Outcomes
  BY <1>2
<1>5. Rank[x] = Rank[Ledger!Worst(S)]
  BY <1>3, <1>4, RankOrders
<1> QED
  BY <1>4, <1>5, RankOrders

\* When the probe fails, the record is the verdict on a climb that saw only that.
LEMMA NothingTriedJudged ==
  ASSUME NEW rec \in Records, NothingTried(rec)
  PROVE  \E o \in Ledger!Observations : VerdictOf(rec) = Ledger!Judge(o)
<1> DEFINE o == [probe |-> FALSE, asked |-> Lanes, lane |-> [l \in Lanes |-> "B"], agree |-> TRUE]
<1>1. o \in Ledger!Observations
  <2>1. Lanes # {} /\ [l \in Lanes |-> "B"] \in [Lanes -> Outcomes \ {"A"}]
    BY DEF Lanes, Outcomes
  <2>2. \A k, l \in o.asked : ~(o.lane[k] = "E" /\ o.lane[l] = "E-weak")
    OBVIOUS
  <2>3. o \in [probe : BOOLEAN, asked : (SUBSET Lanes) \ {{}},
               lane : [Lanes -> Outcomes \ {"A"}], agree : BOOLEAN]
    BY <2>1
  <2> HIDE DEF o
  <2> QED
    BY <2>2, <2>3, SameTaxonomy DEF Ledger!Observations
<1>2. ~ o.probe
  OBVIOUS
<1> HIDE DEF o
<1>3. Ledger!SurfaceVerdict(o) = "skip"
  BY <1>2 DEF Ledger!SurfaceVerdict
<1>4. Ledger!Worst({"A"}) = "A"
  <2>1. {"A"} \in SUBSET Outcomes /\ "A" \in {"A"} /\ \A y \in {"A"} : Rank[y] <= Rank["A"]
    BY RankTable DEF Outcomes
  <2> QED
    BY <2>1, WorstIs
<1>5. Ledger!Judge(o) = [outcome |-> "A", lanes |-> [l \in Lanes |-> "none"], surface |-> "skip"]
  BY <1>2, <1>3, <1>4, SameTaxonomy DEF Ledger!Judge
<1>6. rec.outcome = "A" /\ rec.surface = "skip" /\ \A l \in Lanes : rec.lanes[l].outcome = "none"
  BY DEF NothingTried, LaneBlank
<1>7. VerdictOf(rec) = [outcome |-> "A", lanes |-> [l \in Lanes |-> "none"], surface |-> "skip"]
  BY <1>6 DEF VerdictOf
<1> QED
  BY <1>1, <1>5, <1>7

\* A record of the lanes is the verdict on a climb that saw those lanes end as they did.
LEMMA ClimbedJudged ==
  ASSUME NEW rec \in Records, Climbed(rec)
  PROVE  \E o \in Ledger!Observations : VerdictOf(rec) = Ledger!Judge(o)
<1> DEFINE ls   == rec.lanes
           ran  == {l \in Lanes : Executed(ls[l])}
           lane == [l \in Lanes |-> IF Executed(ls[l]) THEN ls[l].outcome ELSE "B"]
           o    == [probe |-> TRUE, asked |-> ran, lane |-> lane, agree |-> rec.surface # "fail"]
           S    == {lane[l] : l \in ran} \cup (IF rec.surface = "fail" THEN {"D"} ELSE {})
<1>1. /\ ls \in [Lanes -> LaneRecords] /\ \E l \in Lanes : Executed(ls[l])
      /\ \A l \in Lanes : Executed(ls[l]) => LaneSettled(ls[l])
      /\ \A k, l \in Lanes : ~ (ls[k].outcome = "E" /\ ls[l].outcome = "E-weak")
  BY DEF Records, Climbed, LanesAgree, LaneBlank, Executed
<1>2. \A l \in Lanes : Executed(ls[l]) => ls[l].outcome \in Outcomes \ {"A"}
  BY <1>1 DEF LaneSettled, Outcomes
<1>3. lane \in [Lanes -> Outcomes \ {"A"}] /\ \A l \in ran : lane[l] = ls[l].outcome
  BY <1>2 DEF Outcomes
<1>4. o \in Ledger!Observations
  <2>1. ran \in (SUBSET Lanes) \ {{}}
    BY <1>1
  <2>2. \A k, l \in ran : ~(lane[k] = "E" /\ lane[l] = "E-weak")
    BY <1>1, <1>3
  <2> HIDE DEF ran, lane
  <2>3. /\ o \in [probe : BOOLEAN, asked : (SUBSET Lanes) \ {{}},
                  lane : [Lanes -> Outcomes \ {"A"}], agree : BOOLEAN]
        /\ o.asked = ran /\ o.lane = lane
    BY <1>3, <2>1
  <2> HIDE DEF o
  <2> QED
    BY <2>2, <2>3, SameTaxonomy DEF Ledger!Observations
<1>5. Ledger!SurfaceVerdict(o) = rec.surface
  <2>1. o.asked = ran /\ o.lane = lane /\ o.probe = TRUE /\ o.agree = (rec.surface # "fail")
    OBVIOUS
  <2>2. BothImported(ls) <=> /\ ran = Lanes
                             /\ \A l \in Lanes : Rank[lane[l]] <= Rank["D"]
    <3>1. \A l \in Lanes : Executed(ls[l]) => (Imported(ls[l]) <=> Rank[ls[l].outcome] <= Rank["D"])
      BY <1>1, RankTable DEF LaneSettled, Imported
    <3>2. ran = Lanes <=> \A l \in Lanes : Executed(ls[l])
      OBVIOUS
    <3> QED
      BY <1>3, <3>1, <3>2 DEF BothImported
  <2> HIDE DEF o, ran, lane
  <2>3. Ledger!Comparable(o) <=> BothImported(ls)
    BY <2>1, <2>2, SameTaxonomy DEF Ledger!Comparable
  <2>4. rec.surface \in IF BothImported(ls) THEN {"pass", "fail"} ELSE {"skip"}
    BY DEF Climbed
  <2> QED
    BY <2>1, <2>3, <2>4 DEF Ledger!SurfaceVerdict
<1>6. Ledger!Worst(S) = rec.outcome
  <2>1. S \in SUBSET Outcomes
    BY <1>3 DEF Outcomes
  <2>2. /\ WorstLane(ls) \in Outcomes /\ WorstLane(ls) \in {lane[l] : l \in ran}
        /\ \A l \in ran : Rank[lane[l]] <= Rank[WorstLane(ls)]
    BY <1>1, <1>3, WorstLaneIsWorst
  <2>3. /\ rec.outcome = IF SurfaceDecides(ls, rec.surface) THEN "D" ELSE WorstLane(ls)
        /\ SurfaceDecides(ls, rec.surface) <=> rec.surface = "fail" /\ Rank[WorstLane(ls)] < Rank["D"]
    BY DEF Climbed, CombinedOutcome, SurfaceDecides
  <2>4. Rank[WorstLane(ls)] \in 0 .. 5 /\ \A l \in ran : Rank[lane[l]] \in 0 .. 5
    BY <1>3, <2>2, RankOrders
  <2>5. rec.outcome \in S
    BY <2>2, <2>3
  <2>6. ASSUME NEW y \in S PROVE Rank[y] <= Rank[rec.outcome]
    <3>1. CASE SurfaceDecides(ls, rec.surface)
      BY <2>2, <2>3, <2>4, <3>1, RankTable
    <3>2. CASE ~ SurfaceDecides(ls, rec.surface)
      BY <2>2, <2>3, <2>4, <3>2, RankTable
    <3> QED
      BY <3>1, <3>2
  <2> HIDE DEF S
  <2> QED
    BY <2>1, <2>5, <2>6, WorstIs
<1>7. \A l \in Lanes : ls[l].outcome = IF l \in ran THEN lane[l] ELSE "none"
  BY <1>3 DEF Executed
<1>8. o.probe /\ o.asked = ran /\ o.lane = lane
  OBVIOUS
<1> HIDE DEF o, ran, lane
<1>9. Ledger!Judge(o) = [outcome |-> rec.outcome, surface |-> rec.surface,
                         lanes |-> [l \in Lanes |-> IF l \in ran THEN lane[l] ELSE "none"]]
  BY <1>5, <1>6, <1>8, SameTaxonomy DEF Ledger!Judge
<1>10. VerdictOf(rec) = Ledger!Judge(o)
  BY <1>7, <1>9 DEF VerdictOf
<1> QED
  BY <1>4, <1>10

THEOREM LedgerInitRefined == Init => Ledger!LedgerInit
BY DEF Init, Ledger!LedgerInit

THEOREM LedgerStepRefined == TypeOK /\ Ladder /\ [Next]_vars => [Ledger!LedgerNext]_Shown
<1> SUFFICES ASSUME TypeOK, Ladder, [Next]_vars PROVE Ledger!LedgerNext \/ Shown' = Shown
  OBVIOUS
<1>1. CASE result' = result
  BY <1>1 DEF Shown
<1>2. ASSUME NEW b \in Backends, Finish(b) PROVE Ledger!Open(b)
  <2>1. result' = [result EXCEPT ![b].text = "torn"]
    BY <1>2 DEF Finish
  <2>2. Shown' = [Shown EXCEPT ![b].text = "torn"]
    <3>1. result'[b].text = "torn" /\ result'[b].record = result[b].record
      BY <2>1 DEF TypeOK
    <3>2. \A c \in Backends \ {b} : result'[c] = result[c]
      BY <2>1 DEF TypeOK
    <3> QED
      BY <3>1, <3>2 DEF Shown
  <2> QED
    BY <2>2 DEF Ledger!Open, Shown, VerdictOf
<1>3. ASSUME NEW b \in Backends, Publish(b) PROVE Ledger!Record(b)
  <2>1. /\ result' = [result EXCEPT ![b] = [text |-> "whole", record |-> r[b]]]
        /\ r[b] \in Records /\ result[b].text = "torn" /\ GoodRecord(r[b])
    BY <1>3 DEF Publish, TypeOK, Ladder, AtRung
  <2>2. PICK o \in Ledger!Observations : VerdictOf(r[b]) = Ledger!Judge(o)
    BY <2>1, NothingTriedJudged, ClimbedJudged DEF GoodRecord
  <2>3. Shown' = [Shown EXCEPT ![b] = [text |-> "whole", verdict |-> Ledger!Judge(o)]]
    BY <2>1, <2>2 DEF Shown, TypeOK
  <2>4. Shown[b].text = "torn"
    BY <2>1 DEF Shown
  <2> QED
    BY <2>3, <2>4 DEF Ledger!Record, Shown, VerdictOf
<1>4. \/ result' = result
      \/ \E b \in Backends : Finish(b) \/ Publish(b)
  <2>1. CASE UNCHANGED vars \/ Edit
    BY <2>1 DEF vars, Edit
  <2>2. ASSUME NEW b \in Backends, Start(b) \/ Crash(b) PROVE result' = result
    BY <2>2 DEF Start, Crash
  <2>3. ASSUME NEW b \in Backends, ProbePasses(b) \/ ProbeFails(b) \/ OracleRuns(b) \/ OracleFails(b)
        PROVE  result' = result
    BY <2>3 DEF ProbePasses, ProbeFails, OracleRuns, OracleFails
  <2>4. ASSUME NEW b \in Backends, Regenerate(b) \/ CompilePasses(b) \/ SurfaceDiff(b)
        PROVE  result' = result
    BY <2>4 DEF Regenerate, CompilePasses, SurfaceDiff
  <2>5. ASSUME NEW b \in Backends, CompileFails(b) \/ ImportFails(b) PROVE result' = result
    BY <2>5 DEF CompileFails, ImportFails, Return
  <2>6. ASSUME NEW b \in Backends, ImportPasses(b) \/ TestPasses(b) \/ TestFails(b)
        PROVE  result' = result
    BY <2>6 DEF ImportPasses, TestPasses, TestFails, Return
  <2> QED
    BY <2>1, <2>2, <2>3, <2>4, <2>5, <2>6 DEF Next, Step
<1> QED
  BY <1>1, <1>2, <1>3, <1>4 DEF Ledger!LedgerNext

\* run_gates.py implements RunLedger: whatever backends share the directory, whenever one is
\* killed, each record file is absent, open, or the verdict on one consistent observation.
THEOREM LedgerRefined == Spec => ImplementsLedger
<1>1. TypeOK /\ Ladder /\ [Next]_vars => [Ledger!LedgerNext]_(
        [b \in Backends |-> [text    |-> result[b].text,
                             verdict |-> [outcome |-> result[b].record.outcome,
                                          lanes   |-> [l \in Lanes |-> result[b].record.lanes[l].outcome],
                                          surface |-> result[b].record.surface]]])
  BY LedgerStepRefined DEF Shown, VerdictOf
<1> QED
  BY <1>1, LedgerInitRefined, InitType, NextType, InitLadder, NextLadder, PTL
     DEF Spec, ImplementsLedger, Ledger!LedgerSpec
-----------------------------------------------------------------------------
(***************************************************************************)
(* An invocation gets shorter: how many more steps run_gates.py can take   *)
(* at each label, three for every lane it has not struck off.  With the    *)
(* fairness of FairSpec this is the argument of RunEnds.                   *)
(***************************************************************************)

Open(b) == (IF "constexpr" \in todo[b] THEN 3 ELSE 0) + (IF "emit" \in todo[b] THEN 3 ELSE 0)

Left(b) ==
  CASE pc[b] = "idle"       -> 0
    [] pc[b] = "publish"    -> 1
    [] pc[b] = "finish"     -> 2
    [] pc[b] = "surface"    -> 3
    [] pc[b] = "test"       -> 1 + Open(b)
    [] pc[b] = "import"     -> 2 + Open(b)
    [] pc[b] = "compile"    -> 3 + Open(b)
    [] pc[b] = "regenerate" -> 10
    [] pc[b] = "oracle"     -> 11
    [] pc[b] = "probe"      -> 12

\* What is left at each label.
LEMMA LeftAt ==
  ASSUME TypeOK, NEW b \in Backends
  PROVE  /\ Open(b) \in 0 .. 6
         /\ pc[b] = "idle" => Left(b) = 0
         /\ pc[b] = "publish" => Left(b) = 1
         /\ pc[b] = "finish" => Left(b) = 2
         /\ pc[b] = "surface" => Left(b) = 3
         /\ pc[b] = "test" => Left(b) = 1 + Open(b)
         /\ pc[b] = "import" => Left(b) = 2 + Open(b)
         /\ pc[b] = "compile" => Left(b) = 3 + Open(b)
         /\ pc[b] = "regenerate" => Left(b) = 10
         /\ pc[b] = "oracle" => Left(b) = 11
         /\ pc[b] = "probe" => Left(b) = 12
<1>1. Open(b) \in 0 .. 6
  BY DEF Open
<1> QED
  BY <1>1 DEF Left

\* No label has more than twelve steps to go, and only idle has none.
LEMMA LeftIsBounded ==
  ASSUME TypeOK, Ladder, NEW b \in Backends
  PROVE  Left(b) \in 0 .. 12 /\ (Left(b) = 0 <=> pc[b] = "idle")
<1>1. pc[b] \in Labels
  BY DEF TypeOK
<1>2. Open(b) \in 0 .. 6
  BY LeftAt
<1> QED
  BY <1>1, <1>2, LeftAt DEF Labels

\* Striking a lane off takes its three steps away.
LEMMA ReturnIsShorter ==
  ASSUME TypeOK, TypeOK', Ladder, NEW b \in Backends, pc[b] \in InLanes, NEW L, NEW bug, Return(b, L, bug)
  PROVE  Left(b)' < Left(b)
<1>1. /\ todo'[b] = todo[b] \ {CurrentLane(b)}
      /\ pc'[b] = IF todo'[b] # {} THEN "compile"
                  ELSE IF BothImported(r'[b].lanes) THEN "surface" ELSE "finish"
  BY ReturnConcludes
<1>2. todo[b] # {} /\ todo[b] \subseteq {"constexpr", "emit"}
  BY DEF TypeOK, Ladder, AtRung, Lanes
<1>3. Open(b)' = Open(b) - 3 /\ Open(b) \in {3, 6} /\ (Open(b) = 3 <=> todo'[b] = {})
  BY <1>1, <1>2 DEF Open, CurrentLane
<1>4. Left(b) > Open(b) /\ Left(b) \in 0 .. 12
  BY <1>3, LeftAt, LeftIsBounded DEF InLanes
<1>5. CASE todo'[b] # {}
  <2>1. Left(b)' = 3 + Open(b)'
    BY <1>1, <1>5 DEF Left
  <2> QED
    BY <1>3, <1>4, <2>1
<1>6. CASE todo'[b] = {}
  <2>1. Left(b)' \in {2, 3}
    BY <1>1, <1>6 DEF Left
  <2>2. Left(b)' <= 3 /\ Left(b) > 3
    BY <1>3, <1>4, <1>6, <2>1
  <2> QED
    BY <1>4, <2>1, <2>2
<1> QED
  BY <1>5, <1>6

\* Every other step of the script leads to a label with fewer steps to go.
LEMMA StepIsShorter ==
  ASSUME TypeOK, TypeOK', Ladder, NEW b \in Backends, Crash(b) \/ Step(b)
  PROVE  pc[b] # "idle" /\ Left(b)' < Left(b)
<1>1. Open(b) \in 0 .. 6 /\ (pc[b] \in InLanes => Open(b) >= 3)
  <2>1. pc[b] \in InLanes => todo[b] # {} /\ todo[b] \subseteq {"constexpr", "emit"}
    BY DEF TypeOK, Ladder, AtRung, Lanes
  <2> QED
    BY <2>1 DEF Open
<1>2. CASE Crash(b)
  <2>1. pc[b] # "idle" /\ pc'[b] = "idle"
    BY <1>2 DEF Crash, Goto, TypeOK
  <2>2. Left(b)' = 0
    BY <2>1 DEF Left
  <2>3. Left(b) \in 0 .. 12 /\ Left(b) # 0
    BY <2>1, LeftIsBounded
  <2> QED
    BY <2>1, <2>2, <2>3
<1>3. CASE ProbePasses(b) \/ ProbeFails(b)
  <2>1. /\ pc[b] = "probe" /\ pc'[b] \in {"oracle", "compile", "finish"} /\ todo' = todo
    BY <1>3 DEF ProbePasses, ProbeFails, Goto, TypeOK
  <2>2. Open(b)' = Open(b)
    BY <2>1 DEF Open
  <2>3. Left(b)' \in {11, 3 + Open(b)', 2} /\ Left(b) = 12
    BY <2>1 DEF Left
  <2> QED
    BY <1>1, <2>1, <2>2, <2>3
<1>4. CASE OracleRuns(b) \/ OracleFails(b) \/ Regenerate(b)
  <2>1. /\ todo' = todo /\ \/ pc[b] = "oracle" /\ pc'[b] = "regenerate"
                           \/ pc[b] \in {"oracle", "regenerate"} /\ pc'[b] = "compile"
    BY <1>4 DEF OracleRuns, OracleFails, Regenerate, Goto, TypeOK
  <2>2. Open(b)' = Open(b)
    BY <2>1 DEF Open
  <2>3. \/ Left(b)' = 10 /\ Left(b) = 11
        \/ Left(b)' = 3 + Open(b)' /\ Left(b) \in {10, 11}
    BY <2>1 DEF Left
  <2> QED
    BY <1>1, <2>1, <2>2, <2>3
<1>5. CASE CompilePasses(b)
  <2>1. pc[b] = "compile" /\ pc'[b] = "import" /\ todo' = todo
    BY <1>5 DEF CompilePasses, Goto, TypeOK
  <2>2. Open(b)' = Open(b) /\ Left(b)' = 2 + Open(b)' /\ Left(b) = 3 + Open(b)
    BY <2>1 DEF Left, Open
  <2> QED
    BY <1>1, <2>1, <2>2
<1>6. CASE CompileFails(b) \/ ImportFails(b) \/ TestPasses(b) \/ TestFails(b)
  <2>1. pc[b] \in InLanes /\ pc[b] # "idle"
    BY <1>6 DEF CompileFails, ImportFails, TestPasses, TestFails, InLanes
  <2>2. \E L, bug : Return(b, L, bug)
    BY <1>6 DEF CompileFails, ImportFails, TestPasses, TestFails
  <2> QED
    BY <2>1, <2>2, ReturnIsShorter
<1>7. CASE ImportPasses(b)
  <2>1. pc[b] = "import"
    BY <1>7 DEF ImportPasses
  <2>2. CASE dir.tests
    <3>1. pc'[b] = "test" /\ todo' = todo
      BY <1>7, <2>2 DEF ImportPasses, Goto, TypeOK
    <3>2. Open(b)' = Open(b) /\ Left(b)' = 1 + Open(b)' /\ Left(b) = 2 + Open(b)
      BY <2>1, <3>1 DEF Left, Open
    <3> QED
      BY <1>1, <2>1, <3>2
  <2>3. CASE ~dir.tests
    <3>1. \E L, bug : Return(b, L, bug)
      BY <1>7, <2>3 DEF ImportPasses
    <3>2. pc[b] \in InLanes
      BY <2>1 DEF InLanes
    <3> QED
      BY <2>1, <3>1, <3>2, ReturnIsShorter
  <2> QED
    BY <2>2, <2>3
<1>8. CASE SurfaceDiff(b) \/ Finish(b) \/ Publish(b)
  <2>1. \/ pc[b] = "surface" /\ pc'[b] = "finish"
        \/ pc[b] = "finish" /\ pc'[b] = "publish"
        \/ pc[b] = "publish" /\ pc'[b] = "idle"
    BY <1>8 DEF SurfaceDiff, Finish, Publish, Goto, TypeOK
  <2> QED
    BY <2>1 DEF Left
<1> QED
  BY <1>2, <1>3, <1>4, <1>5, <1>6, <1>7, <1>8 DEF Step

\* The steps of one backend do not lengthen the run of another, and nor does a start or an edit.
LEMMA OthersKeepTheirs ==
  ASSUME TypeOK, NEW b \in Backends, pc[b] # "idle", [Next]_vars, ~(Crash(b) \/ Step(b))
  PROVE  Left(b)' = Left(b)
<1>1. pc'[b] = pc[b] /\ todo'[b] = todo[b]
  <2>1. CASE UNCHANGED vars \/ Edit
    BY <2>1 DEF vars, Edit
  <2>2. ASSUME NEW c \in Backends, Start(c) PROVE pc'[b] = pc[b] /\ todo'[b] = todo[b]
    <3>1. c # b
      BY <2>2 DEF Start
    <3> QED
      BY <2>2, <3>1 DEF Start, Goto, TypeOK
  <2>3. ASSUME NEW c \in Backends, c # b, Crash(c) PROVE pc'[b] = pc[b] /\ todo'[b] = todo[b]
    BY <2>3 DEF Crash, Goto, Forget, TypeOK
  <2>4. ASSUME NEW c \in Backends, c # b, Step(c) PROVE pc'[b] = pc[b] /\ todo'[b] = todo[b]
    <3>1. ASSUME NEW L, NEW bug, Return(c, L, bug) PROVE pc'[b] = pc[b] /\ todo'[b] = todo[b]
      BY <2>4, <3>1 DEF Return, Goto, TypeOK
    <3>2. CASE ProbePasses(c) \/ ProbeFails(c) \/ OracleRuns(c) \/ OracleFails(c) \/ Regenerate(c)
      BY <2>4, <3>2 DEF ProbePasses, ProbeFails, OracleRuns, OracleFails, Regenerate, Goto, TypeOK
    <3>3. CASE CompilePasses(c) \/ SurfaceDiff(c) \/ Finish(c) \/ Publish(c)
      BY <2>4, <3>3 DEF CompilePasses, SurfaceDiff, Finish, Publish, Goto, Forget, TypeOK
    <3>4. CASE CompileFails(c) \/ ImportFails(c) \/ TestPasses(c) \/ TestFails(c)
      BY <3>1, <3>4 DEF CompileFails, ImportFails, TestPasses, TestFails
    <3>5. CASE ImportPasses(c)
      <4>1. CASE dir.tests
        BY <2>4, <3>5, <4>1 DEF ImportPasses, Goto, TypeOK
      <4>2. CASE ~dir.tests
        BY <3>1, <3>5, <4>2 DEF ImportPasses
      <4> QED
        BY <4>1, <4>2
    <3> QED
      BY <2>4, <3>2, <3>3, <3>4, <3>5 DEF Step
  <2> QED
    BY <2>1, <2>2, <2>3, <2>4 DEF Next
<1> QED
  BY <1>1 DEF Left, Open

\* Whatever a step of an invocation is, it has fewer left after it; a step of another changes nothing
\* (run_gates.py:386-463).
RunsGetShorter ==
  [][\A b \in Backends : pc[b] # "idle" =>
       IF Crash(b) \/ Step(b) THEN Left(b)' < Left(b) ELSE Left(b)' = Left(b)]_vars

\* An invocation of run_gates.py takes twelve steps at the most, whatever fails in it and whatever
\* the others on the directory do meanwhile: no lane is tried twice and no loop goes round again
\* (the lane loop run_gates.py:419-431).
THEOREM RunsGetShorterHolds ==
  Spec => /\ [](\A b \in Backends : Left(b) \in 0 .. 12 /\ (Left(b) = 0 <=> pc[b] = "idle"))
          /\ RunsGetShorter
<1>1. TypeOK /\ Ladder => \A b \in Backends : Left(b) \in 0 .. 12 /\ (Left(b) = 0 <=> pc[b] = "idle")
  BY LeftIsBounded
<1>2. TypeOK /\ TypeOK' /\ Ladder /\ [Next]_vars =>
        \A b \in Backends : pc[b] # "idle" =>
          IF Crash(b) \/ Step(b) THEN Left(b)' < Left(b) ELSE Left(b)' = Left(b)
  BY StepIsShorter, OthersKeepTheirs
<1> QED
  BY <1>1, <1>2, InitType, NextType, InitLadder, NextLadder, PTL DEF Spec, RunsGetShorter
=============================================================================
