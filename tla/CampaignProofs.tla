---------------------------- MODULE CampaignProofs ----------------------------
(***************************************************************************)
(* Theorems about the campaign, for every list of runs, every number of    *)
(* gate runs, bumps, roll-ups and kills, and (where it matters) for one    *)
(* collector: the reports it publishes only ever advance, and the earlier  *)
(* of its three outputs is never behind a later one.                       *)
(***************************************************************************)
EXTENDS Campaign, TLAPS

\* The record that p shows of a run is never newer than the one q shows.
Behind(p, q) == \A s \in Agents : p[s].n <= q[s].n

OnDisk == [s \in Agents |-> result[s].record]

\* The stamps of gate runs: what is on disk is older than what is being made.
Stamped ==
  \A a \in Agents : /\ result[a].record.n <= gates /\ draft[a].n <= gates
                    /\ gate[a] # "idle" => result[a].record.n <= draft[a].n
                    /\ result[a].text = "absent" => result[a].record.n = 0

\* Nothing that aggregate.py has read or written is newer than what is on disk.
FromDisk ==
  /\ \A c \in Collectors : Behind(base[c], OnDisk) /\ Behind(rows[c], OnDisk)
  /\ \A o \in Outputs : Behind(outputs[o].rows, OnDisk)

HasRead(c, s) == \A i \in left[c] : Slugs[i] # s

\* What a collector has read of a run is not behind what was on disk at its start, nor behind
\* what any output shows.
Caught(c) ==
  roll[c] = "read" =>
    \A s \in Agents : HasRead(c, s) =>
      base[c][s].n <= rows[c][s].n /\ \A o \in Outputs : outputs[o].rows[s].n <= rows[c][s].n

\* A collector that writes has all its rows, and the outputs before the one it is at are done.
Writing(c) ==
  roll[c] \in {"open", "fill"} =>
    /\ Behind(base[c], rows[c])
    /\ \A o \in Outputs : /\ Behind(outputs[o].rows, rows[c])
                          /\ o < at[c] => outputs[o].text = "whole" /\ outputs[o].rows = rows[c]

OpenIsTorn(c) == roll[c] = "fill" => outputs[at[c]].text = "torn"

Ordered == \A p, o \in Outputs : p < o => Behind(outputs[o].rows, outputs[p].rows)

Advancing == /\ Stamped /\ FromDisk /\ Ordered
             /\ \A c \in Collectors : Caught(c) /\ Writing(c) /\ OpenIsTorn(c)

OneCollector == \A c, d \in Collectors : c = d

-----------------------------------------------------------------------------
(* Types *)

\* A pin is moved once per bump, so the bound on bumps bounds it.
Typed == TypeOK /\ \A m \in {"mirrorbind", "nanobind"} : pins[m] <= bumps

\* The lists of runs a collector reads are a function of the collector and of the run.
LEMMA RowRead ==
  ASSUME NEW f \in [Collectors -> [Agents -> Records]], NEW c \in Collectors, NEW s \in Agents,
         NEW rec \in Records, NEW g, g = [f EXCEPT ![c][s] = rec]
  PROVE  /\ g \in [Collectors -> [Agents -> Records]] /\ g[c][s] = rec
         /\ \A t \in Agents : t # s => g[c][t] = f[c][t]
         /\ \A d \in Collectors : d # c => g[d] = f[d]
  OBVIOUS

\* Writing an output touches that output.
LEMMA OutputWritten ==
  ASSUME TypeOK, NEW o \in Outputs, NEW text \in {"absent", "torn", "whole", "mixed"},
         NEW rs \in [Agents -> Records],
         \/ outputs' = [outputs EXCEPT ![o] = [text |-> text, rows |-> rs]]
         \/ outputs' = [outputs EXCEPT ![o].text = text] /\ rs = outputs[o].rows
  PROVE  /\ outputs' \in [Outputs -> [text : {"absent", "torn", "whole", "mixed"},
                                      rows : [Agents -> Records]]]
         /\ outputs'[o].text = text /\ outputs'[o].rows = rs
         /\ \A p \in Outputs : p # o => outputs'[p] = outputs[p]
<1> DEFINE File == [text : {"absent", "torn", "whole", "mixed"}, rows : [Agents -> Records]]
           f    == [text |-> text, rows |-> rs]
<1>1. outputs \in [Outputs -> File] /\ f \in File /\ f.text = text /\ f.rows = rs
  BY DEF TypeOK
<1>2. outputs' = [outputs EXCEPT ![o] = f]
  <2>1. CASE outputs' = [outputs EXCEPT ![o].text = text] /\ rs = outputs[o].rows
    <3>1. [outputs[o] EXCEPT !.text = text] = f
      BY <1>1, <2>1
    <3> QED
      BY <2>1, <3>1
  <2> QED
    BY <2>1
<1> HIDE DEF File, f
<1>3. outputs' \in [Outputs -> File] /\ outputs'[o] = f /\ \A p \in Outputs : p # o => outputs'[p] = outputs[p]
  BY <1>1, <1>2
<1> QED
  BY <1>1, <1>3 DEF File

\* Opening a file keeps what it held, for the reader of the model.
LEMMA Opened ==
  ASSUME NEW f \in [text : {"absent", "torn", "whole"}, record : Records]
  PROVE  /\ [f EXCEPT !.text = "torn"] \in [text : {"absent", "torn", "whole"}, record : Records]
         /\ [f EXCEPT !.text = "torn"].text = "torn" /\ [f EXCEPT !.text = "torn"].record = f.record
OBVIOUS

THEOREM CampaignInitType == Init => Typed
<1> SUFFICES ASSUME Init PROVE Typed
  OBVIOUS
<1>1. NoRecord \in Records /\ 0 \in 0 .. MaxGates /\ 0 \in 0 .. MaxBumps
      /\ 0 \in 0 .. MaxRollups /\ 1 \in Outputs
  BY BoundsAssumption DEF NoRecord, Records, Outputs
<1>2. NoRows \in [Agents -> Records]
  BY <1>1 DEF NoRows
<1> QED
  BY <1>1, <1>2, BoundsAssumption DEF Init, Typed, TypeOK

THEOREM CampaignNextType == Typed /\ [Next]_vars => Typed'
<1> SUFFICES ASSUME Typed, [Next]_vars PROVE Typed'
  OBVIOUS
<1> USE DEF Typed, TypeOK
<1>1. CASE UNCHANGED vars
  BY <1>1 DEF vars, gateVars, rollVars
<1>2. CASE Bump
  <2>1. PICK m \in {"mirrorbind", "nanobind"} : pins' = [pins EXCEPT ![m] = @ + 1]
    BY <1>2 DEF Bump
  <2>2. bumps' = bumps + 1 /\ bumps' \in 0 .. MaxBumps
    BY <1>2, BoundsAssumption DEF Bump
  <2>3. \A k \in {"mirrorbind", "nanobind"} : pins'[k] \in 0 .. MaxBumps /\ pins'[k] <= bumps'
    BY <2>1, <2>2, BoundsAssumption
  <2>4. pins' \in [{"mirrorbind", "nanobind"} -> 0 .. MaxBumps]
    BY <2>1, <2>3
  <2> QED
    BY <1>2, <2>2, <2>3, <2>4 DEF Bump, gateVars, rollVars
<1>3. ASSUME NEW a \in Agents, Gates(a) PROVE Typed'
  <2>1. gates' \in 0 .. MaxGates
    BY <1>3, BoundsAssumption DEF Gates
  <2>2. [n |-> gates', binder |-> pins.mirrorbind, binder_commit |-> pins.nanobind] \in Records
    BY <2>1 DEF Records
  <2> QED
    BY <1>3, <2>1, <2>2 DEF Gates, rollVars
<1>4. ASSUME NEW a \in Agents, Open(a) \/ Publish(a) PROVE Typed'
  <2>1. result' \in [Agents -> [text : {"absent", "torn", "whole"}, record : Records]]
    <3>1. CASE Open(a)
      <4>1. [result[a] EXCEPT !.text = "torn"] \in [text : {"absent", "torn", "whole"}, record : Records]
        BY Opened
      <4> QED
        BY <3>1, <4>1 DEF Open
    <3>2. CASE Publish(a)
      BY <3>2 DEF Publish
    <3> QED
      BY <1>4, <3>1, <3>2
  <2> QED
    BY <1>4, <2>1 DEF Open, Publish, rollVars
<1>5. ASSUME NEW a \in Agents, KillGates(a) PROVE Typed'
  <2>1. kills' \in 0 .. MaxKills
    BY <1>5, BoundsAssumption DEF KillGates
  <2> QED
    BY <1>5, <2>1 DEF KillGates, rollVars
<1>6. ASSUME NEW c \in Collectors, Aggregate(c) PROVE Typed'
  <2>1. rollups' \in 0 .. MaxRollups
    BY <1>6, BoundsAssumption DEF Aggregate
  <2>2. NoRows \in [Agents -> Records] /\ [s \in Agents |-> result[s].record] \in [Agents -> Records]
    BY BoundsAssumption DEF NoRows, NoRecord, Records
  <2>3. Listed \in SUBSET DOMAIN Slugs
    BY DEF Listed
  <2>4. rows' \in [Collectors -> [Agents -> Records]] /\ base' \in [Collectors -> [Agents -> Records]]
        /\ left' \in [Collectors -> SUBSET DOMAIN Slugs]
    BY <1>6, <2>2, <2>3 DEF Aggregate
  <2> QED
    BY <1>6, <2>1, <2>4 DEF Aggregate, Goto, gateVars
<1>7. ASSUME NEW c \in Collectors, Read(c) PROVE Typed'
  <2>1. PICK i \in DOMAIN Slugs :
           \/ /\ rows' = [rows EXCEPT ![c][Slugs[i]] = result[Slugs[i]].record]
              /\ left' = [left EXCEPT ![c] = @ \ {i}]
              /\ UNCHANGED roll
           \/ Goto(c, "idle") /\ UNCHANGED <<rows, left>>
    BY <1>7 DEF Read
  <2>2. Slugs[i] \in Agents /\ result[Slugs[i]].record \in Records
    BY DEF Agents
  <2>3. rows' \in [Collectors -> [Agents -> Records]]
    <3>1. CASE rows' = [rows EXCEPT ![c][Slugs[i]] = result[Slugs[i]].record]
      BY <2>2, <3>1, RowRead
    <3> QED
      BY <2>1, <3>1
  <2>4. left' \in [Collectors -> SUBSET DOMAIN Slugs]
    <3>1. CASE left' = [left EXCEPT ![c] = @ \ {i}]
      <4>1. left[c] \ {i} \in SUBSET DOMAIN Slugs
        OBVIOUS
      <4> QED
        BY <3>1, <4>1
    <3> QED
      BY <2>1, <3>1
  <2>5. roll' \in [Collectors -> {"idle", "read", "open", "fill"}]
    BY <2>1 DEF Goto
  <2> QED
    BY <1>7, <2>3, <2>4, <2>5 DEF Read, gateVars
<1>8. ASSUME NEW c \in Collectors, HaveRead(c) PROVE Typed'
  BY <1>8 DEF HaveRead, Goto, gateVars, Outputs
<1>9. ASSUME NEW c \in Collectors, OpenOutput(c) PROVE Typed'
  <2>1. at[c] \in Outputs /\ outputs[at[c]].rows \in [Agents -> Records]
    OBVIOUS
  <2>2. outputs' \in [Outputs -> [text : {"absent", "torn", "whole", "mixed"}, rows : [Agents -> Records]]]
    BY <1>9, <2>1, OutputWritten DEF OpenOutput
  <2> QED
    BY <1>9, <2>2 DEF OpenOutput, Goto, gateVars
<1>10. ASSUME NEW c \in Collectors, FillOutput(c) PROVE Typed'
  <2>1. PICK text \in {"whole", "mixed"} :
           outputs' = [outputs EXCEPT ![at[c]] = [text |-> text, rows |-> rows[c]]]
    BY <1>10 DEF FillOutput
  <2>2. outputs' \in [Outputs -> [text : {"absent", "torn", "whole", "mixed"}, rows : [Agents -> Records]]]
    BY <2>1, OutputWritten
  <2>3. at' \in [Collectors -> Outputs] /\ roll' \in [Collectors -> {"idle", "read", "open", "fill"}]
    <3>1. CASE at' = [at EXCEPT ![c] = @ + 1] /\ at[c] < 3 /\ Goto(c, "open")
      <4>1. at[c] + 1 \in Outputs
        <5>1. at[c] \in Outputs
          OBVIOUS
        <5>2. at[c] \in 1 .. 3 => at[c] + 1 \in 1 .. 3
          BY <3>1
        <5> QED
          BY <5>1, <5>2, Zenon DEF Outputs
      <4> QED
        BY <3>1, <4>1 DEF Goto
    <3>2. CASE UNCHANGED at /\ Goto(c, "idle")
      BY <3>2 DEF Goto
    <3> QED
      BY <1>10, <3>1, <3>2 DEF FillOutput
  <2> QED
    BY <1>10, <2>2, <2>3 DEF FillOutput, gateVars
<1>11. ASSUME NEW c \in Collectors, KillRollup(c) PROVE Typed'
  <2>1. kills' \in 0 .. MaxKills
    BY <1>11, BoundsAssumption DEF KillRollup
  <2> QED
    BY <1>11, <2>1 DEF KillRollup, Goto, gateVars
<1> QED
  BY <1>1, <1>2, <1>3, <1>4, <1>5, <1>6, <1>7, <1>8, <1>9, <1>10, <1>11 DEF Next

\* Every reachable state of the campaign is well-typed.
THEOREM CampaignTypeCorrect == Spec => []TypeOK
<1>1. Typed => TypeOK
  BY DEF Typed
<1> QED
  BY <1>1, CampaignInitType, CampaignNextType, PTL DEF Spec

-----------------------------------------------------------------------------
(***************************************************************************)
(* For any number of collectors: the records on disk only advance, and     *)
(* nothing that was read or reported is ahead of them.                     *)
(***************************************************************************)

LEMMA RecordNumber == ASSUME NEW rec \in Records PROVE rec.n \in Nat
BY BoundsAssumption DEF Records

LEMMA BehindIsTransitive ==
  ASSUME NEW p \in [Agents -> Records], NEW q \in [Agents -> Records], NEW u \in [Agents -> Records],
         Behind(p, q), Behind(q, u)
  PROVE  Behind(p, u)
<1> SUFFICES ASSUME NEW s \in Agents PROVE p[s].n <= u[s].n
  BY DEF Behind
<1>1. p[s].n \in Nat /\ q[s].n \in Nat /\ u[s].n \in Nat
  BY RecordNumber
<1> QED
  BY <1>1 DEF Behind

LEMMA OnDiskType == ASSUME TypeOK PROVE OnDisk \in [Agents -> Records]
BY DEF TypeOK, OnDisk

\* A step of an agent keeps the stamps in order and takes no record on disk back.
LEMMA AgentAdvances ==
  ASSUME Typed, Stamped, Bump \/ \E a \in Agents : Gates(a) \/ Open(a) \/ Publish(a) \/ KillGates(a)
  PROVE  Stamped' /\ Behind(OnDisk, OnDisk') /\ UNCHANGED rollVars
<1> SUFFICES ASSUME NEW t \in Agents
             PROVE  /\ result'[t].record.n <= gates' /\ draft'[t].n <= gates'
                    /\ gate'[t] # "idle" => result'[t].record.n <= draft'[t].n
                    /\ result'[t].text = "absent" => result'[t].record.n = 0
                    /\ result[t].record.n <= result'[t].record.n
                    /\ UNCHANGED rollVars
  <2>1. UNCHANGED rollVars
    BY DEF Bump, Gates, Open, Publish, KillGates
  <2> QED
    BY <2>1 DEF Stamped, Behind, OnDisk
<1>1. /\ result[t].record.n \in Nat /\ draft[t].n \in Nat /\ gates \in Nat
      /\ result[t].record.n <= gates /\ draft[t].n <= gates
      /\ gate[t] # "idle" => result[t].record.n <= draft[t].n
      /\ result[t].text = "absent" => result[t].record.n = 0
  <2>1. result[t].record \in Records /\ draft[t] \in Records /\ gates \in Nat
    BY BoundsAssumption DEF Typed, TypeOK
  <2> QED
    BY <2>1, RecordNumber DEF Stamped
<1>2. CASE Bump
  BY <1>1, <1>2 DEF Bump, gateVars
<1>3. ASSUME NEW a \in Agents, Gates(a) \/ Open(a) \/ Publish(a) \/ KillGates(a), a # t
      PROVE  result'[t] = result[t] /\ draft'[t] = draft[t] /\ gate'[t] = gate[t]
             /\ gates' \in Nat /\ gates <= gates' /\ UNCHANGED rollVars
  BY <1>1, <1>3 DEF Gates, Open, Publish, KillGates, Typed, TypeOK
<1>4. CASE Gates(t)
  <2>1. gates' = gates + 1 /\ draft'[t].n = gates' /\ result' = result /\ UNCHANGED rollVars
    BY <1>4 DEF Gates, Typed, TypeOK
  <2> QED
    BY <1>1, <2>1
<1>5. CASE Open(t)
  <2>1. result'[t].text = "torn" /\ result'[t].record = result[t].record
    BY <1>5, Opened DEF Open, Typed, TypeOK
  <2>2. gate[t] # "idle" /\ UNCHANGED <<draft, gates, rollVars>>
    BY <1>5 DEF Open
  <2> QED
    BY <1>1, <2>1, <2>2
<1>6. CASE Publish(t)
  <2>1. result'[t].text = "whole" /\ result'[t].record = draft[t] /\ gate'[t] = "idle"
    BY <1>6 DEF Publish, Typed, TypeOK
  <2>2. gate[t] # "idle" /\ UNCHANGED <<draft, gates, rollVars>>
    BY <1>6 DEF Publish
  <2> QED
    BY <1>1, <2>1, <2>2
<1>7. CASE KillGates(t)
  <2>1. gate'[t] = "idle" /\ UNCHANGED <<result, draft, gates, rollVars>>
    BY <1>7 DEF KillGates, Typed, TypeOK
  <2> QED
    BY <1>1, <2>1
<1> QED
  BY <1>1, <1>2, <1>3, <1>4, <1>5, <1>6, <1>7

\* What aggregate.py reads, and what it writes, was on disk.
LEMMA CollectorFromDisk ==
  ASSUME Typed, Stamped, FromDisk,
         \E c \in Collectors :
           Aggregate(c) \/ Read(c) \/ HaveRead(c) \/ OpenOutput(c) \/ FillOutput(c) \/ KillRollup(c)
  PROVE  FromDisk' /\ UNCHANGED gateVars
<1>1. PICK c \in Collectors :
        Aggregate(c) \/ Read(c) \/ HaveRead(c) \/ OpenOutput(c) \/ FillOutput(c) \/ KillRollup(c)
  OBVIOUS
<1>2. UNCHANGED gateVars
  BY <1>1 DEF Aggregate, Read, HaveRead, OpenOutput, FillOutput, KillRollup
<1>3. OnDisk' = OnDisk
  BY <1>2 DEF OnDisk, gateVars
<1>t. \A s \in Agents : result[s].record.n \in Nat
  BY RecordNumber DEF Typed, TypeOK
<1>4. CASE Aggregate(c)
  <2>1. Behind(OnDisk, OnDisk) /\ Behind(NoRows, OnDisk)
    BY <1>t DEF Behind, OnDisk, NoRows, NoRecord
  <2>2. /\ base'[c] = OnDisk /\ rows'[c] = NoRows /\ outputs' = outputs
        /\ \A d \in Collectors : d # c => base'[d] = base[d] /\ rows'[d] = rows[d]
    BY <1>4 DEF Aggregate, Typed, TypeOK, OnDisk
  <2> QED
    BY <1>2, <1>3, <2>1, <2>2 DEF FromDisk
<1>5. CASE Read(c)
  <2>1. base' = base /\ outputs' = outputs
    BY <1>5 DEF Read
  <2>2. PICK i \in DOMAIN Slugs :
          rows' = [rows EXCEPT ![c][Slugs[i]] = result[Slugs[i]].record] \/ rows' = rows
    BY <1>5 DEF Read
  <2>3. Slugs[i] \in Agents
    BY DEF Agents
  <2>4. CASE rows' = [rows EXCEPT ![c][Slugs[i]] = result[Slugs[i]].record]
    <3>1. rows \in [Collectors -> [Agents -> Records]] /\ result[Slugs[i]].record \in Records
      BY <2>3 DEF Typed, TypeOK
    <3>2. /\ rows'[c][Slugs[i]] = result[Slugs[i]].record
          /\ \A t \in Agents : t # Slugs[i] => rows'[c][t] = rows[c][t]
          /\ \A d \in Collectors : d # c => rows'[d] = rows[d]
      BY <2>3, <2>4, <3>1, RowRead
    <3>3. Behind(rows'[c], OnDisk)
      BY <1>t, <2>3, <3>2 DEF Behind, OnDisk, FromDisk
    <3> QED
      BY <1>2, <1>3, <2>1, <3>2, <3>3 DEF FromDisk
  <2> QED
    BY <1>2, <1>3, <2>1, <2>2, <2>4 DEF FromDisk
<1>6. CASE HaveRead(c) \/ KillRollup(c)
  BY <1>2, <1>3, <1>6 DEF HaveRead, KillRollup, FromDisk
<1>7. CASE OpenOutput(c)
  <2>1. base' = base /\ rows' = rows /\ at[c] \in Outputs /\ outputs[at[c]].rows \in [Agents -> Records]
    BY <1>7 DEF OpenOutput, Typed, TypeOK
  <2>2. \A o \in Outputs : outputs'[o].rows = outputs[o].rows
    BY <1>7, <2>1, OutputWritten DEF OpenOutput, Typed
  <2> QED
    BY <1>2, <1>3, <2>1, <2>2 DEF FromDisk
<1>8. CASE FillOutput(c)
  <2>1. base' = base /\ rows' = rows /\ at[c] \in Outputs /\ rows[c] \in [Agents -> Records]
    BY <1>8 DEF FillOutput, Typed, TypeOK
  <2>2. PICK text \in {"whole", "mixed"} :
          outputs' = [outputs EXCEPT ![at[c]] = [text |-> text, rows |-> rows[c]]]
    BY <1>8 DEF FillOutput
  <2>3. outputs'[at[c]].rows = rows[c] /\ \A o \in Outputs : o # at[c] => outputs'[o] = outputs[o]
    BY <2>1, <2>2, OutputWritten DEF Typed
  <2> QED
    BY <1>2, <1>3, <2>1, <2>3 DEF FromDisk
<1> QED
  BY <1>1, <1>2, <1>4, <1>5, <1>6, <1>7, <1>8

THEOREM InitFromDisk == Init => Stamped /\ FromDisk
BY DEF Init, Stamped, FromDisk, Behind, OnDisk, NoRows, NoRecord

THEOREM NextFromDisk == Typed /\ Stamped /\ FromDisk /\ [Next]_vars => Stamped' /\ FromDisk'
<1> SUFFICES ASSUME Typed, Stamped, FromDisk, [Next]_vars PROVE Stamped' /\ FromDisk'
  OBVIOUS
<1>1. CASE UNCHANGED vars
  BY <1>1 DEF vars, gateVars, rollVars, Stamped, FromDisk, OnDisk
<1>2. CASE Bump \/ \E a \in Agents : Gates(a) \/ Open(a) \/ Publish(a) \/ KillGates(a)
  <2>1. Stamped' /\ Behind(OnDisk, OnDisk') /\ UNCHANGED <<outputs, rows, base>>
    BY <1>2, AgentAdvances DEF rollVars
  <2>2. OnDisk \in [Agents -> Records] /\ OnDisk' \in [Agents -> Records]
    <3>1. Typed'
      BY CampaignNextType
    <3> QED
      BY <3>1 DEF Typed, TypeOK, OnDisk
  <2>3. ASSUME NEW p \in [Agents -> Records], Behind(p, OnDisk) PROVE Behind(p, OnDisk')
    BY <2>1, <2>2, <2>3, BehindIsTransitive
  <2>4. /\ \A c \in Collectors : base[c] \in [Agents -> Records] /\ rows[c] \in [Agents -> Records]
        /\ \A o \in Outputs : outputs[o].rows \in [Agents -> Records]
    BY DEF Typed, TypeOK
  <2> QED
    BY <2>1, <2>3, <2>4 DEF FromDisk
<1>3. CASE \E c \in Collectors :
             Aggregate(c) \/ Read(c) \/ HaveRead(c) \/ OpenOutput(c) \/ FillOutput(c) \/ KillRollup(c)
  <2>1. FromDisk' /\ UNCHANGED gateVars
    BY <1>3, CollectorFromDisk
  <2> QED
    BY <2>1 DEF Stamped, gateVars
<1> QED
  BY <1>1, <1>2, <1>3 DEF Next

\* Whoever reads a report sees nothing that is newer than the run's own record on disk.
THEOREM ReportsFollowRecords == Spec => [](Stamped /\ FromDisk)
<1> QED
  BY CampaignInitType, CampaignNextType, InitFromDisk, NextFromDisk, PTL DEF Spec

-----------------------------------------------------------------------------
(***************************************************************************)
(* With one collector: what it writes is not behind what any output shows. *)
(* Two collectors break this (the slower one publishes the older rows).    *)
(***************************************************************************)

Rolls(c) == Caught(c) /\ Writing(c) /\ OpenIsTorn(c)

LEMMA AggregateRolls ==
  ASSUME Typed, Advancing, NEW c \in Collectors, Aggregate(c)
  PROVE  Rolls(c)' /\ outputs' = outputs
<1>1. /\ roll'[c] = "read" /\ left'[c] = Listed /\ rows'[c] = NoRows /\ base'[c] = OnDisk
      /\ outputs' = outputs
  BY DEF Aggregate, Goto, Typed, TypeOK, OnDisk
<1>2. ASSUME NEW s \in Agents, \A i \in Listed : Slugs[i] # s
      PROVE  OnDisk[s].n = 0 /\ \A o \in Outputs : outputs[o].rows[s].n <= 0
  <2>1. PICK i \in DOMAIN Slugs : Slugs[i] = s
    BY DEF Agents
  <2>2. result[s].text = "absent"
    BY <1>2, <2>1 DEF Listed
  <2>3. OnDisk[s].n = 0
    BY <2>2 DEF OnDisk, Advancing, Stamped
  <2> QED
    BY <2>3 DEF Advancing, FromDisk, Behind
<1>3. Caught(c)'
  BY <1>1, <1>2 DEF Caught, HasRead, NoRows, NoRecord
<1> QED
  BY <1>1, <1>3 DEF Rolls, Writing, OpenIsTorn

LEMMA ReadRolls ==
  ASSUME Typed, Advancing, NEW c \in Collectors, Read(c)
  PROVE  Rolls(c)' /\ outputs' = outputs
<1>1. roll[c] = "read" /\ outputs' = outputs /\ base' = base
  BY DEF Read
<1>2. PICK i \in DOMAIN Slugs :
        \/ /\ rows' = [rows EXCEPT ![c][Slugs[i]] = result[Slugs[i]].record]
           /\ left' = [left EXCEPT ![c] = @ \ {i}]
           /\ UNCHANGED roll
        \/ Goto(c, "idle")
  BY DEF Read
<1>3. CASE Goto(c, "idle")
  <2>1. roll'[c] = "idle"
    BY <1>3 DEF Goto, Typed, TypeOK
  <2> QED
    BY <1>1, <2>1 DEF Rolls, Caught, Writing, OpenIsTorn
<1>4. CASE /\ rows' = [rows EXCEPT ![c][Slugs[i]] = result[Slugs[i]].record]
           /\ left' = [left EXCEPT ![c] = @ \ {i}]
           /\ UNCHANGED roll
  <2>1. /\ Slugs[i] \in Agents /\ result[Slugs[i]].record \in Records
        /\ rows \in [Collectors -> [Agents -> Records]]
    BY DEF Agents, Typed, TypeOK
  <2>2. /\ rows'[c][Slugs[i]] = result[Slugs[i]].record
        /\ \A t \in Agents : t # Slugs[i] => rows'[c][t] = rows[c][t]
    BY <1>4, <2>1, RowRead
  <2>3. left'[c] = left[c] \ {i} /\ roll'[c] = "read"
    BY <1>1, <1>4 DEF Typed, TypeOK
  <2>4. ASSUME NEW s \in Agents, HasRead(c, s)'
        PROVE  base[c][s].n <= rows'[c][s].n /\ \A o \in Outputs : outputs[o].rows[s].n <= rows'[c][s].n
    <3>1. CASE s = Slugs[i]
      BY <2>1, <2>2, <3>1 DEF Advancing, FromDisk, Behind, OnDisk
    <3>2. CASE s # Slugs[i]
      <4>1. HasRead(c, s)
        BY <2>3, <2>4, <3>2 DEF HasRead
      <4> QED
        BY <1>1, <2>2, <3>2, <4>1 DEF Advancing, Caught
    <3> QED
      BY <3>1, <3>2
  <2>5. Caught(c)'
    BY <1>1, <2>4 DEF Caught
  <2> QED
    BY <1>1, <2>3, <2>5 DEF Rolls, Writing, OpenIsTorn
<1> QED
  BY <1>2, <1>3, <1>4

LEMMA HaveReadRolls ==
  ASSUME Typed, Advancing, NEW c \in Collectors, HaveRead(c)
  PROVE  Rolls(c)' /\ outputs' = outputs
<1>1. /\ roll[c] = "read" /\ left[c] = {} /\ roll'[c] = "open" /\ at'[c] = 1
      /\ UNCHANGED <<outputs, rows, base>>
  BY DEF HaveRead, Goto, Typed, TypeOK
<1>2. \A s \in Agents : /\ base[c][s].n <= rows[c][s].n
                        /\ \A o \in Outputs : outputs[o].rows[s].n <= rows[c][s].n
  BY <1>1 DEF Advancing, Caught, HasRead
<1>3. \A o \in Outputs : ~ (o < 1)
  BY DEF Outputs
<1>4. Writing(c)'
  BY <1>1, <1>2, <1>3 DEF Writing, Behind
<1> QED
  BY <1>1, <1>4 DEF Rolls, Caught, OpenIsTorn

\* Opening an output leaves every row where it was.
LEMMA OpenOutputRolls ==
  ASSUME Typed, Advancing, NEW c \in Collectors, OpenOutput(c)
  PROVE  Rolls(c)' /\ \A o \in Outputs : outputs'[o].rows = outputs[o].rows
<1>1. /\ roll[c] = "open" /\ roll'[c] = "fill" /\ at[c] \in Outputs /\ UNCHANGED <<at, rows, base>>
      /\ outputs[at[c]].rows \in [Agents -> Records]
  BY DEF OpenOutput, Goto, Typed, TypeOK
<1>2. /\ outputs'[at[c]].text = "torn" /\ \A o \in Outputs : outputs'[o].rows = outputs[o].rows
      /\ \A o \in Outputs : o # at[c] => outputs'[o] = outputs[o]
  <2>1. outputs' = [outputs EXCEPT ![at[c]].text = "torn"]
    BY DEF OpenOutput
  <2>2. /\ outputs'[at[c]].text = "torn" /\ outputs'[at[c]].rows = outputs[at[c]].rows
        /\ \A o \in Outputs : o # at[c] => outputs'[o] = outputs[o]
    <3>1. outputs \in [Outputs -> [text : {"absent", "torn", "whole", "mixed"}, rows : [Agents -> Records]]]
      BY DEF Typed, TypeOK
    <3> QED
      BY <1>1, <2>1, <3>1
  <2> QED
    BY <2>2
<1>3. \A o \in Outputs : o < at[c] => o # at[c]
  BY <1>1 DEF Outputs
<1>4. Writing(c)'
  BY <1>1, <1>2, <1>3 DEF Advancing, Writing
<1> QED
  BY <1>1, <1>2, <1>4 DEF Rolls, Caught, OpenIsTorn

\* What FillOutput writes is whole, and no output shows more than it does.
LEMMA FillOutputShape ==
  ASSUME Typed, Advancing, NEW c \in Collectors, FillOutput(c)
  PROVE  /\ roll[c] = "fill" /\ at[c] \in Outputs /\ UNCHANGED <<rows, base>>
         /\ outputs'[at[c]].text = "whole" /\ outputs'[at[c]].rows = rows[c]
         /\ \A o \in Outputs : o # at[c] => outputs'[o] = outputs[o]
         /\ \A o \in Outputs : Behind(outputs[o].rows, rows[c])
         /\ \A o \in Outputs : o < at[c] => outputs[o].text = "whole" /\ outputs[o].rows = rows[c]
         /\ Behind(base[c], rows[c]) /\ Behind(rows[c], rows[c])
         /\ IF at[c] < 3 THEN at'[c] = at[c] + 1 /\ roll'[c] = "open" ELSE roll'[c] = "idle"
<1>1. roll[c] = "fill" /\ at[c] \in Outputs /\ rows[c] \in [Agents -> Records] /\ UNCHANGED <<rows, base>>
  BY DEF FillOutput, Typed, TypeOK
<1>2. outputs[at[c]].text = "torn"
  BY <1>1 DEF Advancing, OpenIsTorn
<1>3. outputs' = [outputs EXCEPT ![at[c]] = [text |-> "whole", rows |-> rows[c]]]
  BY <1>2 DEF FillOutput
<1>4. /\ outputs'[at[c]].text = "whole" /\ outputs'[at[c]].rows = rows[c]
      /\ \A o \in Outputs : o # at[c] => outputs'[o] = outputs[o]
  BY <1>1, <1>3, OutputWritten DEF Typed
<1>5. Writing(c)
  BY DEF Advancing
<1>6. Behind(rows[c], rows[c])
  <2>1. \A s \in Agents : rows[c][s].n \in Nat
    BY <1>1, RecordNumber
  <2> QED
    BY <2>1 DEF Behind
<1>7. IF at[c] < 3 THEN at'[c] = at[c] + 1 /\ roll'[c] = "open" ELSE roll'[c] = "idle"
  BY DEF FillOutput, Goto, Typed, TypeOK
<1> QED
  BY <1>1, <1>4, <1>5, <1>6, <1>7 DEF Writing

LEMMA FillOutputRolls ==
  ASSUME Typed, Advancing, NEW c \in Collectors, FillOutput(c)
  PROVE  /\ Rolls(c)' /\ Ordered'
         /\ \A o \in Outputs : Behind(outputs[o].rows, outputs'[o].rows)
<1>1. /\ roll[c] = "fill" /\ at[c] \in Outputs /\ UNCHANGED <<rows, base>>
      /\ outputs'[at[c]].text = "whole" /\ outputs'[at[c]].rows = rows[c]
      /\ \A o \in Outputs : o # at[c] => outputs'[o] = outputs[o]
      /\ \A o \in Outputs : Behind(outputs[o].rows, rows[c])
      /\ \A o \in Outputs : o < at[c] => outputs[o].text = "whole" /\ outputs[o].rows = rows[c]
      /\ Behind(base[c], rows[c]) /\ Behind(rows[c], rows[c])
      /\ IF at[c] < 3 THEN at'[c] = at[c] + 1 /\ roll'[c] = "open" ELSE roll'[c] = "idle"
  BY FillOutputShape
<1>2. \A o \in Outputs : Behind(outputs'[o].rows, rows[c])
  BY <1>1
<1>3. ASSUME NEW o \in Outputs, o < at[c] + 1
      PROVE  outputs'[o].text = "whole" /\ outputs'[o].rows = rows[c]
  <2>1. o = at[c] \/ (o < at[c] /\ o # at[c])
    BY <1>1, <1>3 DEF Outputs
  <2> QED
    BY <1>1, <2>1
<1>4. Writing(c)'
  <2>1. CASE at[c] < 3
    BY <1>1, <1>2, <1>3, <2>1 DEF Writing
  <2>2. CASE ~(at[c] < 3)
    BY <1>1, <2>2 DEF Writing
  <2> QED
    BY <2>1, <2>2
<1>5. Rolls(c)'
  BY <1>1, <1>4 DEF Rolls, Caught, OpenIsTorn
<1>6. ASSUME NEW p \in Outputs, NEW o \in Outputs, p < o
      PROVE  Behind(outputs'[o].rows, outputs'[p].rows)
  <2>1. CASE p < at[c] + 1
    BY <1>2, <1>3, <2>1
  <2>2. CASE ~(p < at[c] + 1)
    <3>1. p # at[c] /\ o # at[c]
      BY <1>1, <1>6, <2>2 DEF Outputs
    <3> QED
      BY <1>1, <1>6, <3>1 DEF Advancing, Ordered
  <2> QED
    BY <2>1, <2>2
<1>7. ASSUME NEW o \in Outputs PROVE Behind(outputs[o].rows, outputs'[o].rows)
  <2>1. CASE o = at[c]
    BY <1>1, <2>1
  <2>2. CASE o # at[c]
    <3>1. outputs'[o] = outputs[o] /\ \A s \in Agents : outputs[o].rows[s].n \in Nat
      BY <1>1, <2>2, RecordNumber DEF Typed, TypeOK
    <3> QED
      BY <3>1 DEF Behind
  <2> QED
    BY <2>1, <2>2
<1> QED
  BY <1>5, <1>6, <1>7 DEF Ordered

\* Every step leaves the outputs ordered and takes no row of any of them back.
LEMMA CollectorRolls ==
  ASSUME Typed, Advancing, NEW c \in Collectors,
         Aggregate(c) \/ Read(c) \/ HaveRead(c) \/ OpenOutput(c) \/ FillOutput(c) \/ KillRollup(c)
  PROVE  Rolls(c)' /\ Ordered' /\ \A o \in Outputs : Behind(outputs[o].rows, outputs'[o].rows)
<1>1. CASE \A o \in Outputs : outputs'[o].rows = outputs[o].rows
  <2>1. Ordered'
    BY <1>1 DEF Advancing, Ordered
  <2>2. \A o \in Outputs : \A s \in Agents : outputs[o].rows[s].n \in Nat
    BY RecordNumber DEF Typed, TypeOK
  <2>3. \A o \in Outputs : Behind(outputs[o].rows, outputs'[o].rows)
    BY <1>1, <2>2 DEF Behind
  <2>4. CASE KillRollup(c)
    <3>1. roll'[c] = "idle"
      BY <2>4 DEF KillRollup, Goto, Typed, TypeOK
    <3> QED
      BY <2>1, <2>3, <3>1 DEF Rolls, Caught, Writing, OpenIsTorn
  <2> QED
    BY <2>1, <2>3, <2>4, AggregateRolls, ReadRolls, HaveReadRolls, OpenOutputRolls, FillOutputRolls
<1>2. CASE FillOutput(c)
  BY <1>2, FillOutputRolls
<1>3. CASE Aggregate(c) \/ Read(c) \/ HaveRead(c) \/ OpenOutput(c) \/ KillRollup(c)
  <2>1. \A o \in Outputs : outputs'[o].rows = outputs[o].rows
    BY <1>3, OpenOutputRolls DEF Aggregate, Read, HaveRead, KillRollup
  <2> QED
    BY <1>1, <2>1
<1> QED
  BY <1>2, <1>3

THEOREM InitAdvancing == Init => Advancing
<1>1. Init => Ordered /\ \A c \in Collectors : Rolls(c)
  BY DEF Init, Ordered, Behind, NoRows, NoRecord, Rolls, Caught, Writing, OpenIsTorn
<1> QED
  BY <1>1, InitFromDisk DEF Advancing, Rolls

THEOREM NextAdvancing == OneCollector /\ Typed /\ Advancing /\ [Next]_vars => Advancing'
<1> SUFFICES ASSUME OneCollector, Typed, Advancing, [Next]_vars PROVE Advancing'
  OBVIOUS
<1>1. Stamped' /\ FromDisk'
  BY NextFromDisk DEF Advancing
<1>2. CASE UNCHANGED rollVars
  <2>1. Ordered' /\ \A c \in Collectors : Rolls(c)'
    BY <1>2 DEF rollVars, Advancing, Ordered, Rolls, Caught, HasRead, Writing, OpenIsTorn
  <2> QED
    BY <1>1, <2>1 DEF Advancing, Rolls
<1>3. CASE UNCHANGED vars
  BY <1>2, <1>3 DEF vars
<1>4. CASE Bump \/ \E a \in Agents : Gates(a) \/ Open(a) \/ Publish(a) \/ KillGates(a)
  <2>1. UNCHANGED rollVars
    BY <1>4, AgentAdvances DEF Advancing
  <2> QED
    BY <1>2, <2>1
<1>5. ASSUME NEW c \in Collectors,
             Aggregate(c) \/ Read(c) \/ HaveRead(c) \/ OpenOutput(c) \/ FillOutput(c) \/ KillRollup(c)
      PROVE  Advancing'
  <2>1. Rolls(c)' /\ Ordered'
    BY <1>5, CollectorRolls
  <2>2. \A d \in Collectors : d = c
    BY DEF OneCollector
  <2> QED
    BY <1>1, <2>1, <2>2 DEF Advancing, Rolls
<1> QED
  BY <1>3, <1>4, <1>5 DEF Next

-----------------------------------------------------------------------------
(* The properties of the reports *)

\* Of the three outputs an earlier one is never behind a later one, whenever a roll-up is killed.
THEOREM EarlierOutputIsNewerHolds == OneCollector => (Spec => []EarlierOutputIsNewer)
<1> SUFFICES ASSUME OneCollector PROVE Spec => []EarlierOutputIsNewer
  OBVIOUS
<1>1. Advancing => EarlierOutputIsNewer
  BY DEF Advancing, Ordered, Behind, EarlierOutputIsNewer
<1>2. Typed /\ Advancing /\ [Next]_vars => Advancing'
  BY NextAdvancing
<1> QED
  BY <1>1, <1>2, CampaignInitType, CampaignNextType, InitAdvancing, PTL DEF Spec

\* No step takes a row of any output back.
LEMMA RowsAdvance ==
  ASSUME Typed, Advancing, [Next]_vars
  PROVE  \A o \in Outputs : Behind(outputs[o].rows, outputs'[o].rows)
<1>1. CASE outputs' = outputs
  <2>1. \A o \in Outputs : \A s \in Agents : outputs[o].rows[s].n \in Nat
    BY RecordNumber DEF Typed, TypeOK
  <2> QED
    BY <1>1, <2>1 DEF Behind
<1>2. CASE Bump \/ \E a \in Agents : Gates(a) \/ Open(a) \/ Publish(a) \/ KillGates(a)
  <2>1. outputs' = outputs
    BY <1>2, AgentAdvances DEF rollVars, Advancing
  <2> QED
    BY <1>1, <2>1
<1>3. CASE UNCHANGED vars
  BY <1>1, <1>3 DEF vars, rollVars
<1> QED
  BY <1>2, <1>3, CollectorRolls DEF Next

THEOREM ReportAdvancesHolds == OneCollector => (Spec => ReportAdvances)
<1> SUFFICES ASSUME OneCollector PROVE Spec => ReportAdvances
  OBVIOUS
<1>1. Typed /\ Advancing /\ [Next]_vars =>
        \A o \in Outputs : Readable(o)' => \A s \in Agents : outputs[o].rows[s].n <= outputs'[o].rows[s].n
  BY RowsAdvance DEF Behind
<1>2. Typed /\ Advancing /\ [Next]_vars => Advancing'
  BY NextAdvancing
<1> QED
  BY <1>1, <1>2, CampaignInitType, CampaignNextType, InitAdvancing, PTL DEF Spec, ReportAdvances

\* A roll-up that ends by itself ends with the last output, and all three show its rows.
LEMMA FinishCompletes ==
  ASSUME Typed, Advancing, [Next]_vars, NEW c \in Collectors, Finishes(c)
  PROVE  \A o \in Outputs : /\ Readable(o)' /\ outputs'[o].rows = rows[c]
                            /\ \A s \in Agents : base[c][s].n <= outputs'[o].rows[s].n
<1>1. roll[c] = "fill" /\ roll'[c] = "idle" /\ kills' = kills
  BY DEF Finishes
<1>2. roll' # roll
  BY <1>1
<1>3. FillOutput(c)
  <2>1. kills \in Nat
    BY DEF Typed, TypeOK
  <2>2. \A d \in Collectors : ~ KillRollup(d)
    BY <1>1, <2>1 DEF KillRollup
  <2>3. ~ (Bump \/ \E a \in Agents : Gates(a) \/ Open(a) \/ Publish(a) \/ KillGates(a))
    BY <1>2, AgentAdvances DEF Advancing, rollVars
  <2>4. ~ UNCHANGED vars
    BY <1>2 DEF vars, rollVars
  <2>5. PICK d \in Collectors : Aggregate(d) \/ Read(d) \/ HaveRead(d) \/ OpenOutput(d) \/ FillOutput(d)
    BY <2>2, <2>3, <2>4 DEF Next
  <2>6. d = c
    BY <1>1, <2>5 DEF Aggregate, Read, HaveRead, OpenOutput, FillOutput, Goto, Typed, TypeOK
  <2> QED
    BY <1>1, <2>5, <2>6 DEF Aggregate, Read, HaveRead, OpenOutput
<1>4. /\ at[c] \in Outputs /\ outputs'[at[c]].text = "whole" /\ outputs'[at[c]].rows = rows[c]
      /\ \A o \in Outputs : o # at[c] => outputs'[o] = outputs[o]
      /\ \A o \in Outputs : o < at[c] => outputs[o].text = "whole" /\ outputs[o].rows = rows[c]
      /\ Behind(base[c], rows[c])
      /\ IF at[c] < 3 THEN at'[c] = at[c] + 1 /\ roll'[c] = "open" ELSE roll'[c] = "idle"
  BY <1>3, FillOutputShape
<1>5. \A o \in Outputs : o = at[c] \/ (o < at[c] /\ o # at[c])
  BY <1>1, <1>4 DEF Outputs
<1>6. \A o \in Outputs : outputs'[o].text = "whole" /\ outputs'[o].rows = rows[c]
  BY <1>4, <1>5
<1> QED
  BY <1>4, <1>6 DEF Readable, Behind

THEOREM RollupIsCompleteHolds == OneCollector => (Spec => RollupIsComplete)
<1> SUFFICES ASSUME OneCollector PROVE Spec => RollupIsComplete
  OBVIOUS
<1>1. Typed /\ Advancing /\ [Next]_vars =>
        \A c \in Collectors : Finishes(c) =>
          \A o \in Outputs : /\ Readable(o)' /\ outputs'[o].rows = rows[c]
                             /\ \A s \in Agents : base[c][s].n <= outputs'[o].rows[s].n
  BY FinishCompletes
<1>2. Typed /\ Advancing /\ [Next]_vars => Advancing'
  BY NextAdvancing
<1> QED
  BY <1>1, <1>2, CampaignInitType, CampaignNextType, InitAdvancing, PTL DEF Spec, RollupIsComplete
=============================================================================
