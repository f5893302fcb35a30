-------------------------- MODULE MCRuntimeRegistry --------------------------
(* Small instances of RuntimeRegistry for TLC. *)
EXTENDS RuntimeRegistry

CONSTANTS cpu, cuda, r1, r2, r3, r4

\* Two runtimes compete for one device type, one has a type to itself, and one
\* reports a type that is not valid.
MCTypeOf ==
  [r \in Runtime |-> IF r \in {r1, r2} THEN cpu ELSE IF r = r3 THEN cuda ELSE InvalidType]
=============================================================================
