------------------------------ MODULE MCGateRun ------------------------------
(***************************************************************************)
(* GateRun for TLC.  AllDirs is every kind of run directory; CorpusDirs is *)
(* the kind the corpus has 36 of: an oracle, tests and an [emit] table.    *)
(***************************************************************************)
EXTENDS GateRun

CONSTANTS clang, gcc16

AllDirs == [oracle : BOOLEAN, tests : BOOLEAN, emitOn : SUBSET Backends]

CorpusDirs == [oracle : {TRUE}, tests : {TRUE}, emitOn : {Backends}]
=============================================================================
