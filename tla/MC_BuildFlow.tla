---------------------------- MODULE MC_BuildFlow ----------------------------
(***************************************************************************)
(* Bounds for BuildFlow.  Three invocations reach a full build, a failed  *)
(* or partial rerun and a resume after it; two days reach a resume on the *)
(* day after the build whose outputs it reuses.                            *)
(***************************************************************************)
EXTENDS BuildFlow

MC_MaxInvocations == 3
MC_MaxDay == 2
=============================================================================
