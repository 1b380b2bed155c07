------------------------------- MODULE GateRun -------------------------------
(***************************************************************************)
(* corpus/lib/run_gates.py working on ONE run directory.  A process per    *)
(* backend (clang-p2996 on the host, gcc16 in a container that mounts the  *)
(* same tree) climbs the gate ladder: probe, native oracle, then for every *)
(* lane compile / import / pytest, then the surface diff and the record.   *)
(*                                                                         *)
(* Each subprocess the script waits for is one action with the outcomes    *)
(* the tool can have; the script's own code between two subprocesses is    *)
(* part of the action.  A file written with write_text is truncated in one *)
(* step and filled in the next, since a kill or a reader may come between. *)
(***************************************************************************)
EXTENDS Verdict, FiniteSets

CONSTANTS Backends,   \* the values of $CORPUS_TOOLCHAIN that work on this directory
          Dirs,       \* what an agent may have put in the directory
          MaxRuns     \* bound: invocations of run_gates.py, all backends together

\* oracle: tests/oracle_native.cpp exists; tests: test_bindings.py exists; emitOn: the backends
\* for which meta.toml asks for the emit lane (has_emit).
ASSUME DirsAssumption == Dirs \subseteq [oracle : BOOLEAN, tests : BOOLEAN, emitOn : SUBSET Backends]

ASSUME MaxRunsAssumption == MaxRuns \in Nat

Modes == {"auto", "both", "constexpr", "emit"}
Texts == {"absent", "torn", "whole"}
Labels == {"idle", "probe", "oracle", "regenerate", "compile", "import", "test", "surface",
           "finish", "publish"}

VARIABLES
  dir,        \* what the agent put in the directory
  expected,   \* tests/expected.json
  module,     \* the importable module in each backend's build directory, by lane
  result,     \* result.json and result-gcc16.json
  pc,         \* where each backend's run_gates.py is; "idle" when none runs
  todo,       \* the rest of lanes_to_run
  hasDiff,    \* has_diff
  r,          \* the record under construction
  exit,       \* exit code of the last invocation that returned (2: none yet)
  clock       \* invocations so far; an invocation's number is its stamp

vars == <<dir, expected, module, result, pc, todo, hasDiff, r, exit, clock>>

Records == [stamp : Nat, outcome : Outcomes \cup {"none"}, gate : 0..6,
            lanes : [Lanes -> LaneRecords], surface : {"skip", "pass", "fail"},
            failure : LaneCodes \cup {"A.compile", "D.surface"},
            bug : {"none", "probe"} \cup Lanes]

\* r = {...}: the record every invocation starts from.
BlankRecord(s) == [stamp |-> s, outcome |-> "none", gate |-> 0,
                   lanes |-> [l \in Lanes |-> lane_record], surface |-> "skip",
                   failure |-> "none", bug |-> "none"]

\* lanes_to_run; emitOn is the set of backends whose has_emit is true.
LanesToRun(b, mode) ==
  CASE mode = "auto" -> IF b \in dir.emitOn THEN Lanes ELSE {"constexpr"}
    [] mode = "both" -> Lanes
    [] OTHER         -> {mode}

\* The lane loop takes constexpr before emit.
CurrentLane(b) == IF "constexpr" \in todo[b] THEN "constexpr" ELSE "emit"

Goto(b, label) == pc' = [pc EXCEPT ![b] = label]

SetLane(b, L) == r' = [r EXCEPT ![b].lanes[CurrentLane(b)] = L]

Lane(b) == r[b].lanes[CurrentLane(b)]

\* The process is gone, and its locals with it.
Forget(b) == /\ todo' = [todo EXCEPT ![b] = {}]
             /\ hasDiff' = [hasDiff EXCEPT ![b] = FALSE]
             /\ r' = [r EXCEPT ![b] = BlankRecord(0)]

\* A run directory as it is checked out: expected.json may be committed, nothing is built.
Init ==
  /\ dir \in Dirs
  /\ expected \in [text : {"absent", "whole"}, by : {0}]
  /\ module = [b \in Backends |-> [l \in Lanes |-> 0]]
  /\ result = [b \in Backends |-> [text |-> "absent", record |-> BlankRecord(0)]]
  /\ pc = [b \in Backends |-> "idle"]
  /\ todo = [b \in Backends |-> {}]
  /\ hasDiff = [b \in Backends |-> FALSE]
  /\ r = [b \in Backends |-> BlankRecord(0)]
  /\ exit = [b \in Backends |-> 2]
  /\ clock = 0

-----------------------------------------------------------------------------
(* The agent, and the start of an invocation *)

\* Between invocations the directory's one agent edits its sources and meta.toml.
Edit ==
  /\ \A b \in Backends : pc[b] = "idle"
  /\ dir' \in Dirs
  /\ UNCHANGED <<expected, module, result, pc, todo, hasDiff, r, exit, clock>>

Start(b) ==
  /\ pc[b] = "idle"
  /\ clock < MaxRuns
  /\ clock' = clock + 1
  /\ \E mode \in Modes : todo' = [todo EXCEPT ![b] = LanesToRun(b, mode)]
  /\ r' = [r EXCEPT ![b] = BlankRecord(clock')]
  /\ hasDiff' = [hasDiff EXCEPT ![b] = dir.oracle]
  /\ Goto(b, "probe")
  /\ UNCHANGED <<dir, expected, module, result, exit>>

\* Killed (Ctrl-C, the container stops): the locals are gone, the files stay.  In a build, the
\* module may be gone, untouched or complete (GateFour).
Crash(b) ==
  /\ pc[b] # "idle"
  /\ Goto(b, "idle")
  /\ Forget(b)
  /\ IF pc[b] = "compile"
     THEN \E left \in {0, module[b][CurrentLane(b)], r[b].stamp} :
            module' = [module EXCEPT ![b][CurrentLane(b)] = left]
     ELSE UNCHANGED module
  /\ UNCHANGED <<dir, expected, result, exit, clock>>

-----------------------------------------------------------------------------
(* Gate 1 and the oracle *)

ProbePasses(b) ==
  /\ pc[b] = "probe"
  /\ r' = [r EXCEPT ![b].gate = 1]
  /\ Goto(b, IF hasDiff[b] THEN "oracle" ELSE "compile")
  /\ UNCHANGED <<dir, expected, module, result, todo, hasDiff, exit, clock>>

\* A: no lane is tried.
ProbeFails(b) ==
  /\ pc[b] = "probe"
  /\ \E bug \in {"none", "probe"} :
       r' = [r EXCEPT ![b].outcome = "A", ![b].failure = "A.compile", ![b].bug = bug]
  /\ Goto(b, "finish")
  /\ UNCHANGED <<dir, expected, module, result, todo, hasDiff, exit, clock>>

\* build_native.sh and the oracle succeed; write_text opens expected.json.
OracleRuns(b) ==
  /\ pc[b] = "oracle"
  /\ expected' = [expected EXCEPT !.text = "torn"]
  /\ Goto(b, "regenerate")
  /\ UNCHANGED <<dir, module, result, todo, hasDiff, r, exit, clock>>

\* Fault: a failed oracle leaves has_diff as it is.
OracleFailsSilently(b) ==
  /\ pc[b] = "oracle"
  /\ Goto(b, "compile")
  /\ UNCHANGED <<dir, expected, module, result, todo, hasDiff, r, exit, clock>>

\* The oracle does not build, does not run or prints nothing: noted, and the run goes on
\* with whatever expected.json there is.
OracleFails(b) ==
  /\ pc[b] = "oracle"
  /\ hasDiff' = [hasDiff EXCEPT ![b] = FALSE]
  /\ Goto(b, "compile")
  /\ UNCHANGED <<dir, expected, module, result, todo, r, exit, clock>>

Regenerate(b) ==
  /\ pc[b] = "regenerate"
  /\ expected' = [text |-> "whole", by |-> r[b].stamp]
  /\ Goto(b, "compile")
  /\ UNCHANGED <<dir, module, result, todo, hasDiff, r, exit, clock>>

-----------------------------------------------------------------------------
(* Gates 4, 5 and 6 of one lane *)

\* run_lane returns L and the loop settles and stores it.  The next lane, or Gate 6b when
\* both lanes imported, or the record.  The combination and the mirror are computed on the
\* way to the record (Conclude).
Conclude(rec) ==
  [rec EXCEPT !.outcome = CombinedOutcome(rec.lanes, rec.surface),
              !.failure = MirroredFailure(rec.lanes, rec.surface),
              !.gate    = MirroredGate(rec.lanes)]

\* Fault: the loop does not advance past a lane that failed.
ReturnRetries(b, L, bug) ==
  LET ls   == [r[b].lanes EXCEPT ![CurrentLane(b)] = Settle(L, hasDiff[b], dir.tests)]
      rest == IF L.code = "none" THEN todo[b] \ {CurrentLane(b)} ELSE todo[b]
      rec  == [r[b] EXCEPT !.lanes = ls, !.bug = bug]
      next == IF rest # {} THEN "compile" ELSE IF BothImported(ls) THEN "surface" ELSE "finish"
  IN  /\ todo' = [todo EXCEPT ![b] = rest]
      /\ r' = [r EXCEPT ![b] = IF next = "finish" THEN Conclude(rec) ELSE rec]
      /\ Goto(b, next)
      /\ UNCHANGED <<dir, expected, result, hasDiff, exit, clock>>

Return(b, L, bug) ==
  LET ls   == [r[b].lanes EXCEPT ![CurrentLane(b)] = Settle(L, hasDiff[b], dir.tests)]
      rest == todo[b] \ {CurrentLane(b)}
      rec  == [r[b] EXCEPT !.lanes = ls, !.bug = bug]
      next == IF rest # {} THEN "compile" ELSE IF BothImported(ls) THEN "surface" ELSE "finish"
  IN  /\ todo' = [todo EXCEPT ![b] = rest]
      /\ r' = [r EXCEPT ![b] = IF next = "finish" THEN Conclude(rec) ELSE rec]
      /\ Goto(b, next)
      /\ UNCHANGED <<dir, expected, result, hasDiff, exit, clock>>

\* Fault: a failed build does not end the lane.
CompileFailsGoesOn(b) ==
  /\ pc[b] = "compile"
  /\ SetLane(b, lane_record)
  /\ Goto(b, "import")
  /\ UNCHANGED <<dir, expected, module, result, todo, hasDiff, exit, clock>>

\* A failed build may leave the module of an earlier invocation where it is.  The first
\* reflection diagnostic that looks like a compiler bug is kept, whatever lane it is from.
CompileFails(b) ==
  /\ pc[b] = "compile"
  /\ \E left \in {0, module[b][CurrentLane(b)]} :
       module' = [module EXCEPT ![b][CurrentLane(b)] = left]
  /\ \E bug \in {r[b].bug, IF r[b].bug = "none" THEN CurrentLane(b) ELSE r[b].bug} :
       Return(b, [lane_record EXCEPT !.outcome = "B", !.code = "B"], bug)

CompilePasses(b) ==
  /\ pc[b] = "compile"
  /\ module' = [module EXCEPT ![b][CurrentLane(b)] = r[b].stamp]
  /\ SetLane(b, [lane_record EXCEPT !.gate = 4])
  /\ Goto(b, "import")
  /\ UNCHANGED <<dir, expected, result, todo, hasDiff, exit, clock>>

ImportFails(b) ==
  /\ pc[b] = "import"
  /\ Return(b, [Lane(b) EXCEPT !.outcome = "C", !.code = "C"], r[b].bug)
  /\ UNCHANGED module

\* Gate 5 passes; without test_bindings.py the lane ends here.
ImportPasses(b) ==
  LET L == [Lane(b) EXCEPT !.gate = 5, !.built = module[b][CurrentLane(b)]] IN
  /\ pc[b] = "import"
  /\ module[b][CurrentLane(b)] # 0
  /\ IF dir.tests
     THEN /\ SetLane(b, L)
          /\ Goto(b, "test")
          /\ UNCHANGED <<dir, expected, result, todo, hasDiff, exit, clock>>
     ELSE Return(b, [L EXCEPT !.outcome = "E-weak", !.gate = 6], r[b].bug)
  /\ UNCHANGED module

\* The suite reads expected.json while pytest collects it.
Tested(b) == [Lane(b) EXCEPT !.gate = 6,
                             !.judgedBy = IF expected.text = "whole" THEN expected.by ELSE 0]

\* Every suite of the corpus parses the file when it is imported, so that none passes without it.
TestPasses(b) ==
  /\ pc[b] = "test"
  /\ expected.text = "whole"
  /\ Return(b, Tested(b), r[b].bug)
  /\ UNCHANGED module

\* A wrong value, or no readable expected.json: pytest exits non-zero either way.
TestFails(b) ==
  /\ pc[b] = "test"
  /\ Return(b, [Tested(b) EXCEPT !.outcome = "D", !.code = "D.value"], r[b].bug)
  /\ UNCHANGED module

-----------------------------------------------------------------------------
(* Gate 6b and the record *)

SurfaceDiff(b) ==
  /\ pc[b] = "surface"
  /\ \E s \in {"pass", "fail"} : r' = [r EXCEPT ![b] = Conclude([r[b] EXCEPT !.surface = s])]
  /\ Goto(b, "finish")
  /\ UNCHANGED <<dir, expected, module, result, todo, hasDiff, exit, clock>>

\* finish opens the result file ...
Finish(b) ==
  /\ pc[b] = "finish"
  /\ result' = [result EXCEPT ![b].text = "torn"]
  /\ Goto(b, "publish")
  /\ UNCHANGED <<dir, expected, module, todo, hasDiff, r, exit, clock>>

\* ... writes the record and returns the exit code.
Publish(b) ==
  /\ pc[b] = "publish"
  /\ result' = [result EXCEPT ![b] = [text |-> "whole", record |-> r[b]]]
  /\ exit' = [exit EXCEPT ![b] = ExitCode(r[b].outcome, r[b].surface)]
  /\ Goto(b, "idle")
  /\ Forget(b)
  /\ UNCHANGED <<dir, expected, module, clock>>

Step(b) ==
  \/ ProbePasses(b)   \/ ProbeFails(b)
  \/ OracleRuns(b)    \/ OracleFails(b)   \/ Regenerate(b)
  \/ CompilePasses(b) \/ CompileFails(b)
  \/ ImportPasses(b)  \/ ImportFails(b)
  \/ TestPasses(b)    \/ TestFails(b)
  \/ SurfaceDiff(b)   \/ Finish(b)        \/ Publish(b)

Next == Edit \/ \E b \in Backends : Start(b) \/ Crash(b) \/ Step(b)

Spec == Init /\ [][Next]_vars

\* The script waits for every subprocess and takes its next step when it ends; nobody has
\* to start it.
FairSpec == Spec /\ \A b \in Backends : WF_vars(Step(b))

-----------------------------------------------------------------------------
(* Properties *)

TypeOK ==
  /\ dir \in Dirs
  /\ expected \in [text : Texts, by : Nat]
  /\ module \in [Backends -> [Lanes -> Nat]]
  /\ result \in [Backends -> [text : Texts, record : Records]]
  /\ pc \in [Backends -> Labels]
  /\ todo \in [Backends -> SUBSET Lanes]
  /\ hasDiff \in [Backends -> BOOLEAN]
  /\ r \in [Backends -> Records]
  /\ exit \in [Backends -> 0..2]
  /\ clock \in Nat

Recorded(b) == result[b].text = "whole"

\* An E on disk was earned by the invocation that wrote it: every lane it ran imported a module
\* that invocation built and passed pytest against the expected.json that invocation's own
\* oracle wrote.  This is what the early returns of run_lane and has_diff = False are for.
FreshVerdict ==
  \A b \in Backends : Recorded(b) /\ result[b].record.outcome = "E" =>
    LET rec == result[b].record IN
    \A l \in Lanes : Executed(rec.lanes[l]) =>
       rec.lanes[l].built = rec.stamp /\ rec.lanes[l].judgedBy = rec.stamp

\* Gate 5 never imports a module that an earlier invocation left in the build directory, whatever
\* the verdict (a failed build returns before the import).
OwnBuild ==
  \A b \in Backends : \A l \in Lanes :
    Imported(r[b].lanes[l]) => r[b].lanes[l].built = r[b].stamp

\* run_gates.py:8-9, a gated run "always executes all three legs and requires them to agree", the
\* first being "the native C++ oracle (ground truth, regenerating tests/expected.json)": a lane whose
\* suite passed, in a directory with an oracle, was judged by what that run's oracle wrote and not
\* by the file of an earlier invocation or by the one that is committed (stamp 0).  False.
JudgedByOwnOracle ==
  \A b \in Backends : \A l \in Lanes :
    LET L == r[b].lanes[l] IN
    dir.oracle /\ dir.tests /\ L.gate = 6 /\ L.code = "none" => L.judgedBy = r[b].stamp

\* result_schema.json:31, "The v1 top-level gate_results/furthest_gate/failure mirror the constexpr
\* lane": a record that has a constexpr lane shows that lane's gate and failure at the top.  False
\* where the surface diff or the emit lane fails and the constexpr lane is clean.
MirrorsConstexpr ==
  \A b \in Backends :
    LET rec == result[b].record  cx == rec.lanes["constexpr"] IN
    Recorded(b) /\ Executed(cx) => rec.gate = cx.gate /\ rec.failure = cx.code

\* The failure a record shows at the top belongs to a lane or a surface diff of that record, and
\* is there exactly when the outcome is not clean.  (That it need not be the constexpr lane's is
\* what MirrorsConstexpr is about.)
FailureIsExplained ==
  \A b \in Backends : Recorded(b) =>
    LET rec == result[b].record IN
    /\ Clean(rec.outcome) <=> rec.failure = "none"
    /\ rec.failure = "D.surface" => rec.surface = "fail" /\ \A l \in Lanes : rec.lanes[l].code = "none"
    /\ rec.failure \in {"B", "C", "D.value"} => \E l \in Lanes : rec.lanes[l].code = rec.failure

\* run_gates.py returns 0 only when every lane it ran ended clean and, if it ran both, their
\* surfaces were compared and agree; and it returns 1 otherwise.
ExitZeroMeansAgreement ==
  [][\A b \in Backends : Publish(b) =>
       LET rec == result'[b].record
           ran == {l \in Lanes : Executed(rec.lanes[l])} IN
       exit'[b] = 0 <=> /\ ran # {} /\ \A l \in ran : Clean(rec.lanes[l].outcome)
                        /\ ran = Lanes => rec.surface = "pass"]_vars

\* Backends keep their artifacts apart: while the E of a backend stands and nothing of it runs,
\* the ground truth that E was judged by stays on disk.
RecordSurvives ==
  [][\A b \in Backends :
       /\ pc[b] = "idle" /\ pc'[b] = "idle"
       /\ Recorded(b) /\ result[b].record.outcome = "E"
       /\ result[b].record.stamp = expected.by
       => expected' = expected]_vars

\* Every invocation ends: with a record and an exit code, or killed.
RunEnds == \A b \in Backends : pc[b] # "idle" ~> pc[b] = "idle"

\* The ledger that the files of this directory show.
Ledger == INSTANCE RunLedger WITH
  Owners <- Backends,
  ledger <- [b \in Backends |->
               [text    |-> result[b].text,
                verdict |-> [outcome |-> result[b].record.outcome,
                             lanes   |-> [l \in Lanes |-> result[b].record.lanes[l].outcome],
                             surface |-> result[b].record.surface]]]

\* run_gates.py implements the ledger: each record is the verdict on one consistent observation of
\* the gates (worst lane, D for a surface mismatch, surface skipped unless both lanes imported,
\* lanes never split between E and E-weak), and appears only whole or as an open file.
ImplementsLedger == Ledger!LedgerSpec
=============================================================================
