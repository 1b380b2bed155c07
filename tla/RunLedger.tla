------------------------------ MODULE RunLedger ------------------------------
(***************************************************************************)
(* What a reader of a run directory may rely on: the abstract              *)
(* specification of run_gates.py.  There are no processes, lanes in flight *)
(* or build directories; a backend's record file is opened and, in one     *)
(* step, filled with the verdict on some observation of the gates.         *)
(***************************************************************************)
EXTENDS Verdict

CONSTANT Owners  \* the backends, each with a record file of its own

VARIABLE ledger

Verdicts == [outcome : Outcomes, lanes : [Lanes -> Outcomes \cup {"none"}],
             surface : {"skip", "pass", "fail"}]

\* Everything one climb of the ladder can see: whether the headers compile, which lanes were
\* asked for, how far each got, and whether the two modules show the same surface.
Observations ==
  {o \in [probe : BOOLEAN, asked : (SUBSET Lanes) \ {{}},
          lane : [Lanes -> Outcomes \ {"A"}], agree : BOOLEAN] :
     \* the oracle and the tests are the run's, not a lane's: lanes that pass, pass alike
     \A k, l \in o.asked : ~(o.lane[k] = "E" /\ o.lane[l] = "E-weak")}

Comparable(o) == o.asked = Lanes /\ \A l \in Lanes : Rank[o.lane[l]] <= Rank["D"]

SurfaceVerdict(o) == IF ~o.probe \/ ~Comparable(o) THEN "skip" ELSE IF o.agree THEN "pass" ELSE "fail"

Worst(S) == CHOOSE x \in S : \A y \in S : Rank[y] <= Rank[x]

Judge(o) ==
  [outcome |-> Worst(IF ~o.probe THEN {"A"}
                     ELSE {o.lane[l] : l \in o.asked}
                          \cup (IF SurfaceVerdict(o) = "fail" THEN {"D"} ELSE {})),
   lanes   |-> [l \in Lanes |-> IF o.probe /\ l \in o.asked THEN o.lane[l] ELSE "none"],
   surface |-> SurfaceVerdict(o)]

LedgerInit == \A b \in Owners : ledger[b].text = "absent"

Open(b) == ledger' = [ledger EXCEPT ![b].text = "torn"]

Record(b) ==
  /\ ledger[b].text = "torn"
  /\ \E o \in Observations : ledger' = [ledger EXCEPT ![b] = [text |-> "whole", verdict |-> Judge(o)]]

LedgerNext == \E b \in Owners : Open(b) \/ Record(b)

LedgerSpec == LedgerInit /\ [][LedgerNext]_ledger
=============================================================================
