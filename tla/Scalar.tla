-------------------------------- MODULE Scalar --------------------------------
(***************************************************************************)
(* include/gradyx/core/scalar.h: a number of any supported type, kept as   *)
(* one of five kinds, and Scalar::to<T>(), which converts it to a type or  *)
(* says why it will not.                                                   *)
(*                                                                         *)
(* Numbers are given in units: 1 is Unit of them, so that the least        *)
(* floating-point number is an integer too.  Signs of zero and payloads of *)
(* NaN are left out.                                                       *)
(***************************************************************************)
EXTENDS Integers

CONSTANTS
  Unit,          \* how many of the least positive double make 1
  Short, Long,   \* the digits of a narrow and of the widest signed type, without the sign
  Float, Double, LongDouble,   \* the formats, see Formats
  Imaginary,     \* the imaginary parts that occur
  NoReply        \* no call has been made yet

\* A floating-point format: its numbers are m * 2^e units, m of up to `digits`
\* binary digits and e up to `top`.
Formats == [digits : Nat, top : Nat]

Largest(F) == (2^F.digits - 1) * 2^F.top

\* How the formats and the integer types of the supported platforms relate: every
\* integer is within the range of a float, a double is too short for the largest ones,
\* and a long double, with the 64 digits of x86-64, holds them all.
ASSUME ScalarAssumption ==
  /\ Unit \in Nat /\ \E n \in 0..Unit : Unit = 2^n
  /\ {Short, Long} \subseteq Nat \ {0} /\ Short < Long
  /\ {Float, Double, LongDouble} \subseteq Formats
  /\ Float.digits < Double.digits /\ Double.digits < Long /\ Long < LongDouble.digits
  /\ 2^(Long + 1) * Unit <= Largest(Float)
  /\ Float.top <= Double.top /\ Double.top <= LongDouble.top

Finite(n) == [class |-> "finite", n |-> n]

Infinity(sign) == [class |-> "infinite", n |-> sign]

NaN == [class |-> "nan", n |-> 0]

IsFinite(x) == x.class = "finite"

\* The types that scalars are made of and converted to.
Integral ==
  {[of |-> "signed", digits |-> d] : d \in {Short, Long}}
    \cup {[of |-> "unsigned", digits |-> d] : d \in {Short + 1, Long + 1}}

Floating == {[of |-> "floating", format |-> F] : F \in {Float, Double, LongDouble}}

Complex == {[of |-> "complex", format |-> F] : F \in {Float, Double}}

Bool == [of |-> "bool"]

Type == {Bool} \cup Integral \cup Floating \cup Complex

IntegersOf(T) == (IF T.of = "signed" THEN -(2^T.digits) ELSE 0)..(2^T.digits - 1)

FinitesOf(F) ==
  LET magnitudes == {m * 2^e : m \in 0..(2^F.digits - 1), e \in 0..F.top} IN
  magnitudes \cup {-n : n \in magnitudes}

FloatsOf(F) == {Finite(n) : n \in FinitesOf(F)} \cup {Infinity(1), Infinity(-1), NaN}

\* No constructor takes a long double.
ValuesOf(T) ==
  CASE T = Bool -> BOOLEAN
    [] T \in Integral -> IntegersOf(T)
    [] T \in Floating -> IF T.format = LongDouble THEN {} ELSE FloatsOf(T.format)
    [] T \in Complex -> FloatsOf(T.format) \X (FloatsOf(T.format) \cap Imaginary)

VARIABLES
  given,   \* the type and the value that the scalar has been made from
  scalar,  \* kind_ and value_
  reply    \* the type that the last call asks for, and what it returns

scvars == <<given, scalar, reply>>

-----------------------------------------------------------------------------
(* Conversions of the language. *)

\* The distance of the numbers of F around n.
Spacing(F, n) ==
  LET m == IF n < 0 THEN -n ELSE n
      e == CHOOSE k \in 0..m : m < 2^(F.digits + k) /\ (k = 0 \/ m >= 2^(F.digits + k - 1))
  IN 2^e

\* Conversion to F rounds to the nearest number, to the even one of two, and
\* beyond the largest to infinity.
Cast(F, x) ==
  IF ~IsFinite(x) THEN x ELSE
  LET gap == Spacing(F, x.n)
      q == x.n \div gap
      r == x.n % gap
      up == 2 * r > gap \/ (2 * r = gap /\ q % 2 = 1)
      n == (IF up THEN q + 1 ELSE q) * gap IN
  IF n > Largest(F) THEN Infinity(1)
  ELSE IF n < -Largest(F) THEN Infinity(-1) ELSE Finite(n)

-----------------------------------------------------------------------------
(* Result<T>: a value, or a Status that is not OK. *)

Value(v) == [code |-> "Ok", value |-> v]

\* A Status of that code, normalized by the constructor of Result
Failure(code) == [code |-> IF code = "Ok" THEN "Internal" ELSE code]

HasValue(result) == result.code = "Ok"

-----------------------------------------------------------------------------
(* Scalar's constructors and conversions. *)

\* All integers are kept with the widest type, all floating-point numbers as double.
Construct(T, v) ==
  CASE T = Bool -> [kind |-> "boolean", value |-> v]
    [] T \in Integral -> [kind |-> T.of, value |-> v]
    [] T \in Floating -> [kind |-> "floating", value |-> Cast(Double, v)]
    [] T \in Complex -> [kind |-> "complex", value |-> <<Cast(Double, v[1]), Cast(Double, v[2])>>]

\* Scalar::dtype(): the type that the scalar is kept with, by its kind
dtype(s) ==
  CASE s.kind = "boolean" -> Bool
    [] s.kind = "signed" -> [of |-> "signed", digits |-> Long]
    [] s.kind = "unsigned" -> [of |-> "unsigned", digits |-> Long + 1]
    [] s.kind = "floating" -> [of |-> "floating", format |-> Double]
    [] s.kind = "complex" -> [of |-> "complex", format |-> Double]

Zero == Finite(0)

One == Finite(Unit)

to_bool(s) ==
  LET Exactly(zero, one) == IF s.value \in {zero, one} THEN Value(s.value = one)
                            ELSE Failure("InvalidArgument") IN
  CASE s.kind = "boolean" -> Value(s.value)
    [] s.kind \in {"signed", "unsigned"} -> Exactly(0, 1)
    [] s.kind = "floating" -> Exactly(Zero, One)
    [] s.kind = "complex" -> Exactly(<<Zero, Zero>>, <<One, Zero>>)

\* Varied: the bound itself is let through.
floating_to_integer_Bound(T, x) ==
  LET upper == 2^T.digits * Unit IN
  IF ~IsFinite(x) THEN Failure("OutOfRange")
  ELSE IF x.n % Unit # 0 THEN Failure("InvalidArgument")
  ELSE IF x.n < (IF T.of = "signed" THEN -upper ELSE 0) \/ x.n > upper THEN Failure("OutOfRange")
  ELSE Value(x.n \div Unit)

\* A finite number, a whole one, and one below 2^digits, in this order
floating_to_integer(T, x) ==
  LET upper == 2^T.digits * Unit IN
  IF ~IsFinite(x) THEN Failure("OutOfRange")
  ELSE IF x.n % Unit # 0 THEN Failure("InvalidArgument")
  ELSE IF x.n < (IF T.of = "signed" THEN -upper ELSE 0) \/ x.n >= upper THEN Failure("OutOfRange")
  ELSE Value(x.n \div Unit)

to_integer(T, s) ==
  CASE s.kind = "boolean" -> Value(IF s.value THEN 1 ELSE 0)
    [] s.kind \in {"signed", "unsigned"} ->
         IF s.value \in IntegersOf(T) THEN Value(s.value) ELSE Failure("OutOfRange")
    [] s.kind = "floating" -> floating_to_integer(T, Cast(LongDouble, s.value))
    [] s.kind = "complex" ->
         IF s.value[2] # Zero THEN Failure("InvalidArgument")
         ELSE floating_to_integer(T, Cast(LongDouble, s.value[1]))

to_real(s) ==
  CASE s.kind = "boolean" -> Value(IF s.value THEN One ELSE Zero)
    [] s.kind \in {"signed", "unsigned"} -> Value(Cast(LongDouble, Finite(s.value * Unit)))
    [] s.kind = "floating" -> Value(Cast(LongDouble, s.value))
    [] s.kind = "complex" ->
         IF s.value[2] # Zero THEN Failure("InvalidArgument")
         ELSE Value(Cast(LongDouble, s.value[1]))

\* Varied: what is too large becomes an infinity.
checked_floating_cast_Unchecked(F, x) == Value(Cast(F, x))

\* Only a finite number beyond the largest of F is refused.
checked_floating_cast(F, x) ==
  IF IsFinite(x) /\ (x.n < -Largest(F) \/ x.n > Largest(F)) THEN Failure("OutOfRange")
  ELSE Value(Cast(F, x))

\* Varied: integers go through a float.
complex_parts_Float(s) ==
  CASE s.kind = "boolean" -> <<IF s.value THEN One ELSE Zero, Zero>>
    [] s.kind \in {"signed", "unsigned"} -> <<Cast(Float, Finite(s.value * Unit)), Zero>>
    [] s.kind = "floating" -> <<s.value, Zero>>
    [] s.kind = "complex" -> s.value

\* Here integers become doubles, not long doubles.
complex_parts(s) ==
  CASE s.kind = "boolean" -> <<IF s.value THEN One ELSE Zero, Zero>>
    [] s.kind \in {"signed", "unsigned"} -> <<Cast(Double, Finite(s.value * Unit)), Zero>>
    [] s.kind = "floating" -> <<s.value, Zero>>
    [] s.kind = "complex" -> s.value

\* Varied: every floating-point number goes through a float.
Convert_Float(T, s) ==
  CASE T = Bool -> to_bool(s)
    [] T \in Integral -> to_integer(T, s)
    [] T \in Floating ->
         LET real == to_real(s) IN
         IF ~HasValue(real) THEN Failure(real.code)
         ELSE checked_floating_cast(T.format, Cast(Float, real.value))
    [] T \in Complex ->
         LET parts == complex_parts(s)
             real == checked_floating_cast(T.format, parts[1])
             imaginary == checked_floating_cast(T.format, parts[2]) IN
         IF ~HasValue(real) THEN Failure(real.code)
         ELSE IF ~HasValue(imaginary) THEN Failure(imaginary.code)
         ELSE Value(<<real.value, imaginary.value>>)

\* Scalar::to<T>()
Convert(T, s) ==
  CASE T = Bool -> to_bool(s)
    [] T \in Integral -> to_integer(T, s)
    [] T \in Floating ->
         LET real == to_real(s) IN
         IF ~HasValue(real) THEN Failure(real.code)
         ELSE checked_floating_cast(T.format, real.value)
    [] T \in Complex ->
         LET parts == complex_parts(s)
             real == checked_floating_cast(T.format, parts[1])
             imaginary == checked_floating_cast(T.format, parts[2]) IN
         IF ~HasValue(real) THEN Failure(real.code)
         ELSE IF ~HasValue(imaginary) THEN Failure(imaginary.code)
         ELSE Value(<<real.value, imaginary.value>>)

\* A scalar never changes: it is made from some value, and then asked.
ScalarInit ==
  \E T \in Type : \E v \in ValuesOf(T) :
    /\ given = <<T, v>>
    /\ scalar = Construct(T, v)
    /\ reply = NoReply

Ask(T) ==
  /\ reply' = <<T, Convert(T, scalar)>>
  /\ UNCHANGED <<given, scalar>>

ScalarNext == \E T \in Type : Ask(T)

ScalarSpec == ScalarInit /\ [][ScalarNext]_scvars

-----------------------------------------------------------------------------
\* What the scalar stands for, as a floating-point number of any precision.
Number ==
  CASE scalar.kind = "boolean" -> IF scalar.value THEN One ELSE Zero
    [] scalar.kind \in {"signed", "unsigned"} -> Finite(scalar.value * Unit)
    [] scalar.kind = "floating" -> scalar.value
    [] scalar.kind = "complex" -> scalar.value[1]

IsReal == scalar.kind = "complex" => scalar.value[2] = Zero

Asks(types) == reply # NoReply /\ reply[1] \in types

\* A value comes back out of a scalar as it went in, asked for in its own type, and
\* what dtype() names is a type that every such scalar converts to without loss.
RoundTrip ==
  /\ Asks({given[1]}) => reply[2] = Value(given[2])
  /\ Asks({dtype(scalar)}) => reply[2] = Value(scalar.value)

\* bool and the integer types get exactly the number or, when they cannot express it,
\* an error: of a fractional or complex number that is InvalidArgument.
IntegersExact ==
  Asks({Bool} \cup Integral) =>
    LET numbers == IF reply[1] = Bool THEN 0..1 ELSE IntegersOf(reply[1])
        fits == IsReal /\ IsFinite(Number) /\ \E n \in numbers : Number.n = n * Unit IN
    /\ HasValue(reply[2]) <=> fits
    /\ HasValue(reply[2]) =>
         Number.n = Unit * (IF reply[1] # Bool THEN reply[2].value
                            ELSE IF reply[2].value THEN 1 ELSE 0)
    /\ ~HasValue(reply[2]) =>
         reply[2].code = IF reply[1] = Bool \/ ~IsReal
                              \/ (IsFinite(Number) /\ Number.n % Unit # 0)
                         THEN "InvalidArgument" ELSE "OutOfRange"

\* No number of the format is nearer than y; what is not finite stays what it is.
Nearest(F, x, y) ==
  IF ~IsFinite(x) THEN y = x
  ELSE /\ IsFinite(y) /\ y.n \in FinitesOf(F)
       /\ LET Far(n) == IF n < x.n THEN x.n - n ELSE n - x.n IN
          \A n \in FinitesOf(F) : Far(y.n) <= Far(n)

TooLarge(F, x) == IsFinite(x) /\ (x.n > Largest(F) \/ x.n < -Largest(F))

\* A floating-point type gets its number nearest to the scalar's, rounded once, and
\* only what lies beyond its largest number, or is not real, is refused.
RealsNearest ==
  Asks(Floating) =>
    LET F == reply[1].format IN
    IF ~IsReal THEN reply[2] = Failure("InvalidArgument")
    ELSE IF TooLarge(F, Number) THEN reply[2] = Failure("OutOfRange")
    ELSE HasValue(reply[2]) /\ Nearest(F, Number, reply[2].value)

\* A complex type gets the same number, but for an integer too long for a double,
\* which is rounded twice and may become the nearest but one: never beyond a neighbour.
ComplexFaithful ==
  Asks(Complex) =>
    LET F == reply[1].format
        parts == <<Number, IF scalar.kind = "complex" THEN scalar.value[2] ELSE Zero>> IN
    IF \E i \in 1..2 : TooLarge(F, parts[i]) THEN reply[2] = Failure("OutOfRange")
    ELSE LET got == reply[2].value IN
      /\ HasValue(reply[2])
      /\ Nearest(F, parts[2], got[2])
      /\ \/ Nearest(F, parts[1], got[1])
         \/ /\ parts[1].n \notin FinitesOf(Double)
            /\ \A n \in FinitesOf(F) :
                 ~(parts[1].n < n /\ n < got[1].n) /\ ~(got[1].n < n /\ n < parts[1].n)
=============================================================================
