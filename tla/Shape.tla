-------------------------------- MODULE Shape --------------------------------
(***************************************************************************)
(* core/shape.h and shape.cc: a shape, its number of elements and its      *)
(* contiguous strides, each computed by a loop of checked multiplications, *)
(* one iteration a step.                                                   *)
(***************************************************************************)
EXTENDS CheckedMath, Sequences

CONSTANTS
  DimMax,   \* std::numeric_limits<std::int64_t>::max()
  MaxRank,  \* the largest rank of a shape (bounds the model)
  NULL

ASSUME ShapeAssumption ==
  /\ DimMax \in Nat \ {0} /\ MaxRank \in Nat
  /\ OVERFLOW \notin Int /\ NULL \notin Int /\ NULL # OVERFLOW
  /\ OVERFLOW \notin Seq(Int) /\ NULL \notin Seq(Int)
  /\ \A word \in {"InvalidArgument", "true", "false"} : word \notin {NULL, OVERFLOW}

Dim == Signed(DimMax)                 \* std::int64_t, and Stride

Count == Unsigned(2 * DimMax + 1)     \* std::uint64_t

VARIABLES
  pc,       \* the function that is running
  dims,     \* dims_ of the shape, once it is constructed
  axis,     \* the loop's position
  acc,      \* `count` of numel, `next_stride` of contiguous_strides
  strides,  \* `strides` of contiguous_strides
  numel,    \* what numel() returned
  layout,   \* what contiguous_strides() returned
  asked,    \* the strides is_contiguous() was asked about
  dense     \* what it returned

svars == <<pc, dims, axis, acc, strides, numel, layout, asked, dense>>

answer == <<asked, dense>>

TypeOK ==
  /\ pc \in {"new", "idle", "numel", "strides", "rejected"}
  /\ dims \in Seq(0..DimMax)
  /\ axis \in 0..(Len(dims) + 1)
  /\ acc \in Values(Count) /\ (pc = "strides" => acc \in Values(Dim))
  /\ strides \in Seq(Values(Dim))
  /\ numel \in Values(Count) \cup {NULL, OVERFLOW}
  /\ layout \in Seq(Values(Dim)) \cup {NULL, OVERFLOW}
  /\ asked \in Seq(Values(Dim))
  /\ dense \in {NULL, OVERFLOW, "InvalidArgument", "true", "false"}

Init ==
  /\ pc = "new" /\ dims = <<>> /\ axis = 0 /\ acc = 1 /\ strides = <<>>
  /\ numel = NULL /\ layout = NULL
  /\ asked = <<>> /\ dense = NULL

-----------------------------------------------------------------------------
\* from_dims; the constructors throw where it answers InvalidArgument.
FromDims(given) ==
  /\ pc = "new"
  /\ IF \E i \in 1..Len(given) : given[i] < 0
     THEN pc' = "rejected" /\ UNCHANGED dims
     ELSE pc' = "idle" /\ dims' = given
  /\ UNCHANGED <<axis, acc, strides, numel, layout, answer>>

\* Varied: an extent of zero is left to the loop.
BeginNumel_NoZero ==
  /\ pc = "idle" /\ numel = NULL
  /\ pc' = "numel" /\ axis' = 1 /\ acc' = 1
  /\ UNCHANGED <<dims, strides, numel, layout, answer>>

BeginNumel ==
  /\ pc = "idle" /\ numel = NULL
  /\ IF \E i \in 1..Len(dims) : dims[i] = 0
     THEN numel' = 0 /\ UNCHANGED <<pc, axis, acc>>
     ELSE pc' = "numel" /\ axis' = 1 /\ acc' = 1 /\ UNCHANGED numel
  /\ UNCHANGED <<dims, strides, layout, answer>>

NumelStep ==
  LET next == checked_multiply(Count, acc, dims[axis]) IN
  /\ pc = "numel" /\ axis <= Len(dims)
  /\ IF next = OVERFLOW
     THEN pc' = "idle" /\ numel' = OVERFLOW /\ UNCHANGED <<axis, acc>>
     ELSE acc' = next /\ axis' = axis + 1 /\ UNCHANGED <<pc, numel>>
  /\ UNCHANGED <<dims, strides, layout, answer>>

NumelReturns ==
  /\ pc = "numel" /\ axis > Len(dims)
  /\ pc' = "idle" /\ numel' = acc
  /\ UNCHANGED <<dims, axis, acc, strides, layout, answer>>

BeginStrides ==
  /\ pc = "idle" /\ layout = NULL
  /\ pc' = "strides" /\ axis' = Len(dims) /\ acc' = 1
  /\ strides' = [i \in 1..Len(dims) |-> 1]
  /\ UNCHANGED <<dims, numel, layout, answer>>

\* std::max(shape[index], Dim{1})
Extent(d) == IF d < 1 THEN 1 ELSE d

\* Varied: the stride is stored after the multiplication.
StridesStep_Late ==
  LET next == checked_multiply(Dim, acc, Extent(dims[axis])) IN
  /\ pc = "strides" /\ axis > 0
  /\ IF next = OVERFLOW
     THEN pc' = "idle" /\ layout' = OVERFLOW /\ UNCHANGED <<axis, acc, strides>>
     ELSE /\ acc' = next /\ axis' = axis - 1
          /\ strides' = [strides EXCEPT ![axis] = next]
          /\ UNCHANGED <<pc, layout>>
  /\ UNCHANGED <<dims, numel, answer>>

StridesStep ==
  LET next == checked_multiply(Dim, acc, Extent(dims[axis])) IN
  /\ pc = "strides" /\ axis > 0
  /\ strides' = [strides EXCEPT ![axis] = acc]
  /\ IF next = OVERFLOW
     THEN pc' = "idle" /\ layout' = OVERFLOW /\ UNCHANGED <<axis, acc>>
     ELSE acc' = next /\ axis' = axis - 1 /\ UNCHANGED <<pc, layout>>
  /\ UNCHANGED <<dims, numel, answer>>

StridesReturn ==
  /\ pc = "strides" /\ axis = 0
  /\ pc' = "idle" /\ layout' = strides
  /\ UNCHANGED <<dims, axis, acc, strides, numel, answer>>

\* Varied: the ranks are not compared, and the shorter sequence decides.
IsContiguous_Prefix(given) ==
  /\ pc = "idle" /\ layout # NULL /\ dense = NULL
  /\ asked' = given
  /\ dense' = IF layout = OVERFLOW THEN OVERFLOW
              ELSE IF \A i \in 1..Len(dims) : i <= Len(given) => given[i] = layout[i]
              THEN "true" ELSE "false"
  /\ UNCHANGED <<pc, dims, axis, acc, strides, numel, layout>>

\* is_contiguous, once its call of contiguous_strides has returned.
IsContiguous(given) ==
  /\ pc = "idle" /\ layout # NULL /\ dense = NULL
  /\ asked' = given
  /\ dense' = IF Len(given) # Len(dims) THEN "InvalidArgument"
              ELSE IF layout = OVERFLOW THEN OVERFLOW
              ELSE IF given = layout THEN "true" ELSE "false"
  /\ UNCHANGED <<pc, dims, axis, acc, strides, numel, layout>>

-----------------------------------------------------------------------------
Tuples(S) == UNION {[1..n -> S] : n \in 0..MaxRank}

\* Strides a caller asks about.
GivenStrides ==
  {layout, Append(dims, 1), [i \in 1..Len(dims) |-> 1],
   [i \in 1..Len(dims) |-> dims[Len(dims) + 1 - i]]} \ {OVERFLOW}

Next ==
  \/ \E given \in Tuples(Values(Dim)) : FromDims(given)
  \/ BeginNumel \/ NumelStep \/ NumelReturns
  \/ BeginStrides \/ StridesStep \/ StridesReturn
  \/ layout # NULL /\ \E given \in GivenStrides : IsContiguous(given)

Spec == Init /\ [][Next]_svars

-----------------------------------------------------------------------------
\* The product of the first n elements of s.
Product(s) ==
  LET f[n \in 0..Len(s)] == IF n = 0 THEN 1 ELSE f[n - 1] * s[n] IN f[Len(s)]

Returned(result) == result \notin {NULL, OVERFLOW}

\* numel() is the product of the extents if 64 bits can express it, wherever the
\* zeros are and however large the products before them.
NumelExact ==
  numel # NULL =>
    numel = IF Product(dims) <= Count.max THEN Product(dims) ELSE OVERFLOW

Indices == {ix \in [1..Len(dims) -> 0..DimMax] : \A i \in 1..Len(dims) : ix[i] < dims[i]}

Offset(ix, s) ==
  LET f[n \in 0..Len(s)] == IF n = 0 THEN 0 ELSE f[n - 1] + ix[n] * s[n] IN f[Len(s)]

\* ix comes before jx when the last index varies fastest.
Before(ix, jx) ==
  \E i \in 1..Len(dims) : ix[i] < jx[i] /\ \A j \in 1..(i - 1) : ix[j] = jx[j]

\* Strides under which the elements are numbered 0, 1, 2, ... in row-major order.
RowMajor(s) ==
  /\ Len(s) = Len(dims)
  /\ {Offset(ix, s) : ix \in Indices} = 0..(Product(dims) - 1)
  /\ \A ix, jx \in Indices : Before(ix, jx) => Offset(ix, s) < Offset(jx, s)

\* With contiguous strides no two elements share a place, none is left out, and
\* no offset exceeds what a stride can express.
StridesRowMajor == Returned(layout) => RowMajor(layout) /\ Product(dims) <= DimMax

\* A shape is refused strides only when its extents, an empty one counted as 1,
\* multiply to more than a stride can express; then numel() may still succeed, but
\* never the other way round.
StridesOverflow ==
  layout # NULL =>
    /\ layout = OVERFLOW <=> Product([i \in 1..Len(dims) |-> Extent(dims[i])]) > DimMax
    /\ Returned(layout) => numel # OVERFLOW

\* is_contiguous() says yes only to row-major strides, and no to others unless an
\* extent of at most 1 leaves a stride without meaning.
DenseExact ==
  /\ dense = "true" => RowMajor(asked)
  /\ dense = "false" /\ RowMajor(asked) => \E i \in 1..Len(dims) : dims[i] <= 1
=============================================================================
