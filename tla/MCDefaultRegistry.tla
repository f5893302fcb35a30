-------------------------- MODULE MCDefaultRegistry --------------------------
(* Small instances of DefaultRegistry for TLC. *)
EXTENDS DefaultRegistry

CONSTANTS cpu, cuda, r1, r2, r3

\* r1 is the built-in runtime, r2 a second one for the CPU.
MCTypeOf == [r \in Runtime |-> IF r = r3 THEN cuda ELSE cpu]
=============================================================================
