------------------------------ MODULE MCScalar ------------------------------
(* Small instances of Scalar for TLC: halves and integers of 6 bits. *)
EXTENDS Scalar

MCFloat == [digits |-> 3, top |-> 5]
MCDouble == [digits |-> 4, top |-> 5]
MCLongDouble == [digits |-> 6, top |-> 6]

\* Nothing, a fraction, a number that no float has, and what is not a number.
MCImaginary == {Zero, Finite(1), Finite(Largest(MCDouble)), Infinity(-1), NaN}
=============================================================================
