----------------------------- MODULE CheckedMath -----------------------------
(***************************************************************************)
(* core/checked_math.h: addition and multiplication of integers of a type  *)
(* of finite width that answer "overflow" instead of wrapping.             *)
(***************************************************************************)
EXTENDS Integers

CONSTANT OVERFLOW

\* The integer types of a width, given by their largest values.
Signed(max) == [min |-> -max - 1, max |-> max]

Unsigned(max) == [min |-> 0, max |-> max]

Values(T) == T.min..T.max

IsUnsigned(T) == T.min = 0

\* Division of integers in C++ rounds towards zero.
Quotient(a, b) ==
  IF a >= 0
  THEN IF b > 0 THEN a \div b ELSE -(a \div (-b))
  ELSE IF b > 0 THEN -((-a) \div b) ELSE (-a) \div (-b)

AddOverflows(T, lhs, rhs) ==
  IF IsUnsigned(T) THEN lhs > T.max - rhs
  ELSE \/ rhs > 0 /\ lhs > T.max - rhs
       \/ rhs < 0 /\ lhs < T.min - rhs

checked_add(T, lhs, rhs) == IF AddOverflows(T, lhs, rhs) THEN OVERFLOW ELSE lhs + rhs

\* Varied: the bound itself counts as an overflow.
MultiplyOverflows_Early(T, lhs, rhs) ==
  IF IsUnsigned(T) THEN lhs > Quotient(T.max, rhs)
  ELSE \/ lhs > 0 /\ rhs > 0 /\ lhs >= Quotient(T.max, rhs)
       \/ lhs > 0 /\ rhs < 0 /\ rhs < Quotient(T.min, lhs)
       \/ lhs < 0 /\ rhs > 0 /\ lhs < Quotient(T.min, rhs)
       \/ lhs < 0 /\ rhs < 0 /\ lhs < Quotient(T.max, rhs)

\* The tests for factors that are not zero, in the order of the code: no quotient
\* of the second group is the one that is itself out of range.
MultiplyOverflows(T, lhs, rhs) ==
  IF IsUnsigned(T) THEN lhs > Quotient(T.max, rhs)
  ELSE \/ lhs = -1 /\ rhs = T.min
       \/ rhs = -1 /\ lhs = T.min
       \/ lhs > 0 /\ rhs > 0 /\ lhs > Quotient(T.max, rhs)
       \/ lhs > 0 /\ rhs < 0 /\ rhs < Quotient(T.min, lhs)
       \/ lhs < 0 /\ rhs > 0 /\ lhs < Quotient(T.min, rhs)
       \/ lhs < 0 /\ rhs < 0 /\ lhs < Quotient(T.max, rhs)

checked_multiply(T, lhs, rhs) ==
  IF lhs = 0 \/ rhs = 0 THEN 0
  ELSE IF MultiplyOverflows(T, lhs, rhs) THEN OVERFLOW ELSE lhs * rhs
=============================================================================
