------------------------------- MODULE Campaign -------------------------------
(***************************************************************************)
(* The campaign over all run directories: one agent per repository that    *)
(* runs run_gates.py, the collectors that run aggregate.py over all of     *)
(* them meanwhile, and the umbrella repository whose submodule pointers    *)
(* say which binder is under test.  A directory's record file is the one   *)
(* RunLedger promises (GateRun shows that run_gates.py keeps the promise); *)
(* aggregate.py reads every record and then writes its three outputs one   *)
(* after another.                                                          *)
(***************************************************************************)
EXTENDS Naturals, Sequences

CONSTANTS
  Slugs,      \* the runs, as the sequence that sorted(glob) yields
  Collectors, \* who runs aggregate.py
  MaxGates,   \* bound: invocations of run_gates.py
  MaxBumps,   \* bound: submodule pointers moved
  MaxRollups, \* bound: invocations of aggregate.py
  MaxKills    \* bound: scripts killed

Agents == {Slugs[i] : i \in DOMAIN Slugs}  \* one agent per repository

ASSUME BoundsAssumption ==
  MaxGates \in Nat /\ MaxBumps \in Nat /\ MaxRollups \in Nat /\ MaxKills \in Nat

VARIABLES
  pins,    \* HEAD:mirrorbind (the binder) and HEAD:nanobind
  result,  \* per run, result.json
  gate,    \* where each agent's run_gates.py is
  draft,   \* the record it builds
  outputs, \* results.jsonl, report.md and toolchain_bugs.md, in the order they are written
  roll,    \* where each collector's aggregate.py is, and at which output
  at,
  left,    \* the records it has still to read, as places in Slugs
  rows,    \* those it has read
  base,    \* history: what was on disk when it was started
  gates, bumps, rollups, kills

gateVars == <<result, gate, draft, gates>>
rollVars == <<outputs, roll, at, left, rows, base, rollups>>
vars == <<pins, gateVars, rollVars, bumps, kills>>

\* n: which invocation wrote it (0: none); binder: the binder it really tested.
Records == [n : 0 .. MaxGates, binder : 0 .. MaxBumps, binder_commit : 0 .. MaxBumps]
NoRecord == [n |-> 0, binder |-> 0, binder_commit |-> 0]
NoRows == [s \in Agents |-> NoRecord]
Outputs == 1 .. 3

Goto(c, label) == roll' = [roll EXCEPT ![c] = label]

Init ==
  /\ pins = [mirrorbind |-> 0, nanobind |-> 0]
  /\ result = [a \in Agents |-> [text |-> "absent", record |-> NoRecord]]
  /\ gate = [a \in Agents |-> "idle"]
  /\ draft = NoRows
  /\ outputs = [o \in Outputs |-> [text |-> "absent", rows |-> NoRows]]
  /\ roll = [c \in Collectors |-> "idle"]
  /\ at = [c \in Collectors |-> 1]
  /\ left = [c \in Collectors |-> {}]
  /\ rows = [c \in Collectors |-> NoRows]
  /\ base = [c \in Collectors |-> NoRows]
  /\ gates = 0 /\ bumps = 0 /\ rollups = 0 /\ kills = 0

\* Between gate runs a commit moves a submodule.
Bump ==
  /\ bumps < MaxBumps /\ \A a \in Agents : gate[a] = "idle"
  /\ \E m \in {"mirrorbind", "nanobind"} : pins' = [pins EXCEPT ![m] = @ + 1]
  /\ bumps' = bumps + 1
  /\ UNCHANGED <<gateVars, rollVars, kills>>

-----------------------------------------------------------------------------
(* run_gates.py                                                            *)

\* The record is begun, its binder_commit with it, and the binder's headers are compiled.
Gates(a) ==
  /\ gate[a] = "idle" /\ gates < MaxGates
  /\ gates' = gates + 1
  /\ draft' = [draft EXCEPT ![a] = [n |-> gates', binder |-> pins.mirrorbind,
                                    binder_commit |-> pins.nanobind]]
  /\ gate' = [gate EXCEPT ![a] = "climb"]
  /\ UNCHANGED <<pins, result, rollVars, bumps, kills>>

Open(a) ==
  /\ gate[a] = "climb"
  /\ result' = [result EXCEPT ![a].text = "torn"]
  /\ gate' = [gate EXCEPT ![a] = "publish"]
  /\ UNCHANGED <<pins, draft, gates, rollVars, bumps, kills>>

Publish(a) ==
  /\ gate[a] = "publish"
  /\ result' = [result EXCEPT ![a] = [text |-> "whole", record |-> draft[a]]]
  /\ gate' = [gate EXCEPT ![a] = "idle"]
  /\ UNCHANGED <<pins, draft, gates, rollVars, bumps, kills>>

KillGates(a) ==
  /\ gate[a] # "idle" /\ kills < MaxKills
  /\ kills' = kills + 1
  /\ gate' = [gate EXCEPT ![a] = "idle"]
  /\ UNCHANGED <<pins, result, draft, gates, rollVars, bumps>>

-----------------------------------------------------------------------------
(* aggregate.py                                                            *)

Listed == {i \in DOMAIN Slugs : result[Slugs[i]].text # "absent"}

\* Fault: the glob is taken as the list of results, and its last entry dropped.
AggregateDropsLast(c) ==
  /\ roll[c] = "idle" /\ rollups < MaxRollups
  /\ rollups' = rollups + 1
  /\ left' = [left EXCEPT ![c] = {i \in Listed : \E j \in Listed : i < j}]
  /\ rows' = [rows EXCEPT ![c] = NoRows]
  /\ base' = [base EXCEPT ![c] = [s \in Agents |-> result[s].record]]
  /\ Goto(c, "read")
  /\ UNCHANGED <<pins, outputs, at, gateVars, bumps, kills>>

\* The glob lists the result files there are; a torn one is one of them.
Aggregate(c) ==
  /\ roll[c] = "idle" /\ rollups < MaxRollups
  /\ rollups' = rollups + 1
  /\ left' = [left EXCEPT ![c] = Listed]
  /\ rows' = [rows EXCEPT ![c] = NoRows]
  /\ base' = [base EXCEPT ![c] = [s \in Agents |-> result[s].record]]
  /\ Goto(c, "read")
  /\ UNCHANGED <<pins, outputs, at, gateVars, bumps, kills>>

\* The next record in the order of the glob.
IsNext(c, i) == i \in left[c] /\ \A j \in left[c] : i <= j

\* Fault: a record that does not parse is passed over.
ReadSkipsTorn(c) ==
  /\ roll[c] = "read"
  /\ \E i \in DOMAIN Slugs :
       /\ IsNext(c, i)
       /\ LET s == Slugs[i] IN
            rows' = IF result[s].text = "whole" THEN [rows EXCEPT ![c][s] = result[s].record] ELSE rows
       /\ left' = [left EXCEPT ![c] = @ \ {i}]
  /\ UNCHANGED <<pins, outputs, roll, at, base, rollups, gateVars, bumps, kills>>

\* json.loads raises on a torn file, and nothing has been written yet.
Read(c) ==
  /\ roll[c] = "read"
  /\ \E i \in DOMAIN Slugs :
       /\ IsNext(c, i)
       /\ LET s == Slugs[i] IN
            IF result[s].text = "whole"
            THEN /\ rows' = [rows EXCEPT ![c][s] = result[s].record]
                 /\ left' = [left EXCEPT ![c] = @ \ {i}]
                 /\ UNCHANGED roll
            ELSE Goto(c, "idle") /\ UNCHANGED <<rows, left>>
  /\ UNCHANGED <<pins, outputs, at, base, rollups, gateVars, bumps, kills>>

\* Fault: a results.jsonl that is there is not written again.
HaveReadKeepsJsonl(c) ==
  /\ roll[c] = "read" /\ left[c] = {}
  /\ at' = [at EXCEPT ![c] = IF outputs[1].text = "whole" THEN 2 ELSE 1]
  /\ Goto(c, "open")
  /\ UNCHANGED <<pins, outputs, left, rows, base, rollups, gateVars, bumps, kills>>

HaveRead(c) ==
  /\ roll[c] = "read" /\ left[c] = {}
  /\ at' = [at EXCEPT ![c] = 1]
  /\ Goto(c, "open")
  /\ UNCHANGED <<pins, outputs, left, rows, base, rollups, gateVars, bumps, kills>>

OpenOutput(c) ==
  /\ roll[c] = "open"
  /\ outputs' = [outputs EXCEPT ![at[c]].text = "torn"]
  /\ Goto(c, "fill")
  /\ UNCHANGED <<pins, at, left, rows, base, rollups, gateVars, bumps, kills>>

\* Fault: off by one at the last output.
FillPastEnd(c) ==
  /\ roll[c] = "fill"
  /\ outputs' = [outputs EXCEPT ![at[c]] = [text |-> "whole", rows |-> rows[c]]]
  /\ IF at[c] <= 3 THEN at' = [at EXCEPT ![c] = @ + 1] /\ Goto(c, "open")
                   ELSE UNCHANGED at /\ Goto(c, "idle")
  /\ UNCHANGED <<pins, left, rows, base, rollups, gateVars, bumps, kills>>

\* A write on an empty file is the file; on one that another collector has filled since, a
\* shorter text leaves the tail of the other.
FillOutput(c) ==
  /\ roll[c] = "fill"
  /\ \E text \in IF outputs[at[c]].text = "torn" THEN {"whole"} ELSE {"whole", "mixed"} :
       outputs' = [outputs EXCEPT ![at[c]] = [text |-> text, rows |-> rows[c]]]
  /\ IF at[c] < 3 THEN at' = [at EXCEPT ![c] = @ + 1] /\ Goto(c, "open")
                  ELSE UNCHANGED at /\ Goto(c, "idle")
  /\ UNCHANGED <<pins, left, rows, base, rollups, gateVars, bumps, kills>>

KillRollup(c) ==
  /\ roll[c] # "idle" /\ kills < MaxKills
  /\ kills' = kills + 1
  /\ Goto(c, "idle")
  /\ UNCHANGED <<pins, outputs, at, left, rows, base, rollups, gateVars, bumps>>

Next ==
  \/ Bump
  \/ \E a \in Agents : Gates(a) \/ Open(a) \/ Publish(a) \/ KillGates(a)
  \/ \E c \in Collectors :
       Aggregate(c) \/ Read(c) \/ HaveRead(c) \/ OpenOutput(c) \/ FillOutput(c) \/ KillRollup(c)

Spec == Init /\ [][Next]_vars

-----------------------------------------------------------------------------
(* Properties                                                              *)

\* The type invariant.
TypeOK ==
  /\ pins \in [{"mirrorbind", "nanobind"} -> 0 .. MaxBumps]
  /\ result \in [Agents -> [text : {"absent", "torn", "whole"}, record : Records]]
  /\ gate \in [Agents -> {"idle", "climb", "publish"}] /\ draft \in [Agents -> Records]
  /\ outputs \in [Outputs -> [text : {"absent", "torn", "whole", "mixed"}, rows : [Agents -> Records]]]
  /\ roll \in [Collectors -> {"idle", "read", "open", "fill"}] /\ at \in [Collectors -> Outputs]
  /\ left \in [Collectors -> SUBSET DOMAIN Slugs]
  /\ rows \in [Collectors -> [Agents -> Records]] /\ base \in [Collectors -> [Agents -> Records]]
  /\ gates \in 0 .. MaxGates /\ bumps \in 0 .. MaxBumps
  /\ rollups \in 0 .. MaxRollups /\ kills \in 0 .. MaxKills

Readable(o) == outputs[o].text = "whole"

\* aggregate.py writes results.jsonl, then report.md, then toolchain_bugs.md (lines 34, 101, 122)
\* while the agents go on and may be killed in between: with one collector an output never shows a
\* newer record than one written before it, so results.jsonl is the one to believe.
EarlierOutputIsNewer ==
  \A p, o \in Outputs : p < o /\ Readable(p) /\ Readable(o) =>
    \A s \in Agents : outputs[o].rows[s].n <= outputs[p].rows[s].n

Finishes(c) == roll[c] = "fill" /\ roll'[c] = "idle" /\ kills' = kills

\* An aggregation that ends by itself leaves three outputs that agree and show, for every run, the
\* record there was when it began or a newer one: none is skipped, none is taken from a torn file.
RollupIsComplete ==
  [][\A c \in Collectors : Finishes(c) =>
       \A o \in Outputs : /\ Readable(o)' /\ outputs'[o].rows = rows[c]
                          /\ \A s \in Agents : base[c][s].n <= outputs'[o].rows[s].n]_vars

\* A published report never goes back to an older record of a run.
ReportAdvances ==
  [][\A o \in Outputs : Readable(o)' =>
       \A s \in Agents : outputs[o].rows[s].n <= outputs'[o].rows[s].n]_vars

\* env.sh:76, "Binder commit, recorded into every result for the feedback loop" (PROVE_OUT.md:
\* 176-179 reruns the failures after a binder change and reads the diffs between binder commits):
\* results with one binder_commit come from one binder.
OneBinderPerCommit ==
  \A s, t \in Agents :
    result[s].text = "whole" /\ result[t].text = "whole"
    /\ result[s].record.binder_commit = result[t].record.binder_commit
    => result[s].record.binder = result[t].record.binder
=============================================================================
