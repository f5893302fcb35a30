------------------------------- MODULE MCShape -------------------------------
(* Small instances of Shape for TLC. *)
EXTENDS Shape
=============================================================================
