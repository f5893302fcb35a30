----------------------------- MODULE MCCpuRuntime -----------------------------
(* Small instances of CpuRuntime for TLC. *)
EXTENDS CpuRuntime
=============================================================================
