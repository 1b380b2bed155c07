------------------------------- MODULE GateFour -------------------------------
(***************************************************************************)
(* What run_lane takes a build script for: one step that either leaves the *)
(* module of this invocation in the lane's build directory or reports a B  *)
(* and leaves no module or the one that was there.  It is the compile step *)
(* of GateRun, and the abstract specification of BuildLane.                *)
(***************************************************************************)
EXTENDS Verdict

VARIABLES
  running, \* the build in progress: its lane and number (number 0: none)
  module,  \* the module in each lane's build directory, by the build that made it (0: none)
  code     \* per lane, how its last build ended: not yet, "pass" or "B"

BeginBuild ==
  /\ running.number = 0
  /\ running'.lane \in Lanes /\ running'.number # 0
  /\ code' = [code EXCEPT ![running'.lane] = "none"]
  /\ UNCHANGED module

Leaves(S) == \E m \in S : module' = [module EXCEPT ![running.lane] = m]

Ends == running.number # 0 /\ running'.number = 0

Passes ==
  /\ Ends /\ Leaves({running.number})
  /\ code' = [code EXCEPT ![running.lane] = "pass"]

Fails ==
  /\ Ends /\ Leaves({0, module[running.lane]})
  /\ code' = [code EXCEPT ![running.lane] = "B"]

\* Killed while the module is being linked: anything.
Killed ==
  /\ Ends /\ Leaves({0, module[running.lane], running.number})
  /\ UNCHANGED code

GateFourInit == running.number = 0 /\ \A l \in Lanes : module[l] = 0 /\ code[l] = "none"

GateFourNext == BeginBuild \/ Passes \/ Fails \/ Killed

gateVars == <<running, module, code>>

GateFourSpec == GateFourInit /\ [][GateFourNext]_gateVars
=============================================================================
