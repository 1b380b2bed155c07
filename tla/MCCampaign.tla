------------------------------ MODULE MCCampaign ------------------------------
(***************************************************************************)
(* Campaign for TLC: the runs of two repositories.                         *)
(***************************************************************************)
EXTENDS Campaign

CONSTANTS fmt, glm, c1

TwoSlugs == <<fmt, glm>>
=============================================================================
