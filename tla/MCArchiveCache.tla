---------------------------- MODULE MCArchiveCache ----------------------------
(***************************************************************************)
(* ArchiveCache for TLC: a library whose second version adds a component   *)
(* and drops one.                                                          *)
(***************************************************************************)
EXTENDS ArchiveCache, TLC

CONSTANTS base, crc, log, a1, a2

Components == {base, crc, log}

ComponentsOf == [v \in Versions |-> IF v = 1 THEN {base, log} ELSE {base, crc}]

AgentSymmetry == Permutations(Agents)
=============================================================================
