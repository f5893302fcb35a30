----------------------------- MODULE CpuAllocator -----------------------------
(***************************************************************************)
(* CpuAllocator::allocate of backend/cpu/runtime.cc, on the handles of     *)
(* DataPtr.  std::size_t has Width bits; posix_memalign is external: it    *)
(* gives memory of the size and alignment asked for, or none.              *)
(***************************************************************************)
EXTENDS DataPtr

CONSTANTS
  Width,        \* the bits of std::size_t
  MaxAlign,     \* alignof(std::max_align_t)
  PointerSize   \* sizeof(void*)

SizeT == 0..(2^Width - 1)

PtrdiffMax == 2^(Width - 1) - 1

ASSUME AllocatorAssumption ==
  /\ Width \in Nat \ {0}
  /\ PointerSize \in SizeT /\ MaxAlign \in SizeT
  /\ {k \in 0..(Width - 1) : MaxAlign = 2^k} # {}
  /\ PointerSize <= MaxAlign
  /\ Bytes \subseteq SizeT
  /\ NULL \notin {"empty", "memory", "InvalidArgument", "ResourceExhausted"}

VARIABLES
  alignment,  \* alignment[b]: the alignment posix_memalign was asked for
  asked,      \* asked[b]: the alignment the caller of allocate asked for
  reply       \* what the last call of allocate answered

avars == <<alignment, asked, reply>>

AllocatorTypeOK ==
  /\ TypeOK
  /\ alignment \in [Block -> SizeT] /\ asked \in [Block -> SizeT]
  /\ reply \in {NULL, "empty", "memory", "InvalidArgument", "ResourceExhausted"}

AllocatorInit ==
  /\ Init
  /\ alignment = [b \in Block |-> 0] /\ asked = [b \in Block |-> 0]
  /\ reply = NULL

-----------------------------------------------------------------------------
\* The positions of the bits of a value that are set.
Bits(value) == {k \in 0..(Width - 1) : (value \div 2^k) % 2 = 1}

\* Varied: the test for zero is left out.  value - 1 wraps.
IsPowerOfTwo_OrZero(value) ==
  Bits(value) \cap Bits((value + 2^Width - 1) % 2^Width) = {}

\* value != 0 && (value & (value - 1)) == 0
IsPowerOfTwo(value) == value # 0 /\ Bits(value) \cap Bits(value - 1) = {}

ActualAlignment(a) == IF a < MaxAlign THEN MaxAlign ELSE a

\* The checks, in the order of the code; NULL when there is memory to ask for.
Refusal(n, a, d) ==
  IF d # Cpu0 \/ ~IsPowerOfTwo(a) THEN "InvalidArgument"
  ELSE IF n = 0 THEN "empty"
  ELSE IF ActualAlignment(a) < PointerSize THEN "InvalidArgument"
  ELSE IF n > PtrdiffMax THEN "ResourceExhausted" ELSE NULL

Refused(x, n, a, d) ==
  /\ ProgramRuns /\ Free(x) /\ ptr[x] = Empty
  /\ Refusal(n, a, d) # NULL
  /\ reply' = Refusal(n, a, d)
  /\ UNCHANGED <<dvars, alignment, asked>>

\* posix_memalign fails.
Exhausted(x, n, a, d) ==
  /\ ProgramRuns /\ Free(x) /\ ptr[x] = Empty
  /\ Refusal(n, a, d) = NULL
  /\ reply' = "ResourceExhausted"
  /\ UNCHANGED <<dvars, alignment, asked>>

\* The result's DataPtr, which the caller moves into x.
Allocated(x, n, a, d, b) ==
  /\ Refusal(n, a, d) = NULL
  /\ Construct(x, b, [data |-> b, bytes |-> n, device |-> d, context |-> NULL,
                      deleter |-> "free_cpu_memory"])
  /\ alignment' = [alignment EXCEPT ![b] = ActualAlignment(a)]
  /\ asked' = [asked EXCEPT ![b] = a]
  /\ reply' = "memory"

Allocate(x, n, a, d) ==
  Refused(x, n, a, d) \/ Exhausted(x, n, a, d) \/ \E b \in Block : Allocated(x, n, a, d, b)

AllocatorNext ==
  \/ \E x \in Handle, n \in Bytes \cup {0, 2^Width - 1}, a \in SizeT, d \in Device :
       Allocate(x, n, a, d)
  \/ Next /\ UNCHANGED avars

AllocatorSpec == AllocatorInit /\ [][AllocatorNext]_<<dvars, avars>>

-----------------------------------------------------------------------------
\* Whatever the request, memory comes from the allocator only for a power of two
\* as alignment and is aligned to it and for any type, is not empty, is small
\* enough for pointer differences, and is on cpu:0.
AllocationSound ==
  \A b \in Block : made[b].deleter = "free_cpu_memory" =>
    /\ \E k \in 0..(Width - 1) : asked[b] = 2^k
    /\ alignment[b] % MaxAlign = 0 /\ alignment[b] % asked[b] = 0
    /\ made[b].bytes \in 1..PtrdiffMax /\ made[b].device = Cpu0
=============================================================================
