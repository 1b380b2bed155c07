------------------------------- MODULE Verdict -------------------------------
(***************************************************************************)
(* The failure taxonomy of the corpus and the rules that turn the gates of *)
(* one run into the record that corpus/lib/run_gates.py writes.  Nothing   *)
(* here has a state: GateRun evaluates these operators in its last steps.  *)
(***************************************************************************)
EXTENDS Naturals

Lanes == {"constexpr", "emit"}

Outcomes == {"E", "E-weak", "D", "C", "B", "A"}

\* OUTCOME_RANK: the greater, the worse.
Rank == [o \in Outcomes |-> CASE o = "E" -> 0 [] o = "E-weak" -> 1 [] o = "D" -> 2
                              [] o = "C" -> 3 [] o = "B" -> 4 [] o = "A" -> 5]

(***************************************************************************)
(* A lane record.  gate is furthest_gate, code is failure["code"] with the *)
(* build stage and the signal left out.  built and judgedBy are history:   *)
(* the stamp of the module that Gate 5 imported and the stamp of the       *)
(* expected.json that Gate 6 compared with (0: none).                      *)
(***************************************************************************)
LaneCodes == {"none", "B", "C", "D.value"}

LaneRecords == [outcome : Outcomes \cup {"none"}, gate : {1, 4, 5, 6},
                code : LaneCodes, built : Nat, judgedBy : Nat]

lane_record == [outcome |-> "none", gate |-> 1, code |-> "none", built |-> 0, judgedBy |-> 0]

Executed(L) == L.outcome # "none"
Imported(L) == L.gate >= 5
Clean(o)    == o \in {"E", "E-weak"}

\* The lane loop settles a lane that passed Gate 6: E only with an oracle and tests.
Settle(L, hasDiff, hasTests) ==
  IF L.outcome = "none" THEN [L EXCEPT !.outcome = IF hasDiff /\ hasTests THEN "E" ELSE "E-weak"]
  ELSE L

\* Fault: the diff runs as soon as both lanes were tried.
BothTried(ls) == \A l \in Lanes : Executed(ls[l])

\* Gate 6b runs only when both lanes were asked for and both imported.
BothImported(ls) == \A l \in Lanes : Executed(ls[l]) /\ Imported(ls[l])

\* Fault: the last lane of the loop decides.
LastLane(ls) == IF Executed(ls["emit"]) THEN ls["emit"].outcome ELSE ls["constexpr"].outcome

\* The accumulation over lanes_to_run: constexpr comes first, emit replaces it only if worse.
WorstLane(ls) ==
  LET cx == ls["constexpr"]  em == ls["emit"] IN
  IF ~Executed(cx) THEN em.outcome
  ELSE IF Executed(em) /\ Rank[em.outcome] > Rank[cx.outcome] THEN em.outcome
  ELSE cx.outcome

SurfaceDecides(ls, surface) == surface = "fail" /\ Rank[WorstLane(ls)] < Rank["D"]

CombinedOutcome(ls, surface) == IF SurfaceDecides(ls, surface) THEN "D" ELSE WorstLane(ls)

\* Fault: a surface mismatch sets the outcome only.
MirroredLanesOnly(ls, surface) ==
  IF ls["constexpr"].code # "none" THEN ls["constexpr"].code ELSE ls["emit"].code

\* The legacy mirror: the surface failure first, then the constexpr lane's, then the emit lane's.
MirroredFailure(ls, surface) ==
  IF SurfaceDecides(ls, surface) THEN "D.surface"
  ELSE IF ls["constexpr"].code # "none" THEN ls["constexpr"].code
  ELSE ls["emit"].code

MirroredGate(ls) == IF Executed(ls["constexpr"]) THEN ls["constexpr"].gate ELSE 1

\* Fault: the rank of the outcome is returned.
ExitRank(outcome, surface) == Rank[outcome]

\* finish's return value: 0 iff the outcome is clean and the surface diff did not fail.
ExitCode(outcome, surface) == IF Clean(outcome) /\ surface # "fail" THEN 0 ELSE 1
=============================================================================
