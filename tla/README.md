# GradyX in TLA+

TLA+ models of GradyX, TLC configurations that check them on small instances, and TLAPS proofs of
theorems about them for instances of any size. Paths below are relative to the repository.
`PROJECT.json` says which lines each definition models (`map`), which runs and theorems there are,
and what could go wrong in this code (`hazards`).

GradyX is at its first phase: a C++20 library of about two thousand lines that holds the basic types,
the ownership model and the runtime boundary of a deep learning framework. There are no operators,
tensors or CUDA runtime yet. What can go wrong is therefore in four places: reference counting without
locks, shared tables and events behind locks, owners of memory, and arithmetic at the limits of its
types.

## 1. Inventory

| Component | State | Operations | Interacts with | Hard behaviours | What makes it correct |
|---|---|---|---|---|---|
| Intrusive reference counting, `include/gradyx/core/intrusive_ptr.h` | per target a control block: `strong_refs`, `weak_refs`, `target`; per handle a pointer | construct, copy, move, assign, swap, reset, `lock`, `expired`, `use_count`, `make_intrusive` | all threads that have a handle, through three atomics | CAS loops against decrements, `lock` against the last release, the two-stage end of target and block, constructors that throw, counts at their limit; memory orders; handles that are members of targets, and destructors that call the program | no dangling handle, no freed block used, exact counts, one destruction after every use, no leak but cycles, no resurrection |
| Runtime registry, `src/runtime/registry.cc` | `runtimes_`, `mutex_` (shared) | `register_runtime`, `get` | threads; hands out `shared_ptr`s | readers and writers, check then insert, exceptions under the lock | calls are atomic, registrations final, the mutex is given back |
| Default registry, `backend/cpu/runtime.cc:164-177` | two function-local statics and their guards | `default_runtime_registry`, `register_builtin_runtimes`, `register_cpu_runtime` | calls the registry; the CPU runtime is what it registers | first callers race, initialization throws and is retried, the Status is discarded | the CPU runtime is there for whoever has the registry |
| CPU runtime, `backend/cpu/runtime.cc:23-76,112-162` | `next_stream_id_`; per event `recorded_`, `completed_`, `mutex_` | `create_stream`, `create_event`, `record`, `query`, `synchronize`, `wait` and constant answers | threads share a runtime and its events | counter wraparound, flags set one after the other, early returns under the lock | distinct ids, no half-recorded event, "recorded" is final |
| `DataPtr`, `include/gradyx/core/data_ptr.h` | `allocation_`, `context_`, `deleter_` | construct, move, assign, swap, `reset` | calls a deleter, which may use other handles | the order of deleter and clearing, re-entrancy | each piece of memory freed once, with its own context |
| CPU allocator, `backend/cpu/runtime.cc:81-110` | none | `allocate` | makes `DataPtr`s; `posix_memalign` and `free` are external | limits of `size_t` and `ptrdiff_t`, alignment 0 | alignment and size of what is handed out |
| Checked arithmetic, `include/gradyx/core/checked_math.h` | none | `checked_add`, `checked_multiply` | used by `Shape` | smallest value times -1, rounding of quotients | exact result or overflow |
| Shape and strides, `src/core/shape.cc` | `dims_` | `from_dims`, `numel`, `contiguous_strides`, `is_contiguous` | checked arithmetic | zero extents against overflow, signed strides against unsigned counts | exact count, row-major numbering without gaps |
| Scalar, `include/gradyx/core/scalar.h` | `kind_`, `value_` | `to<T>` | `Result` | rounding, range limits, non-finite values | a conversion is exact or refused |
| Device, DType, Layout | immutable values, constant tables | checked construction, parsing, names | everywhere, as values | an index at the limits of int32 | tables agree with enumerations |
| Status, Result | immutable values | construction, `value()` | everywhere, as return values | none that interacts with others | never a success without a value |
| Version; CUDA boundary; build, tests, tools | none | constants; `cuda_status` | none at this commit | none | none |

The runtime registry keeps runtimes alive by `std::shared_ptr`; the intrusive handles are for targets
of the program's own, and no class of the library derives from `IntrusivePtrTarget` yet. `DataPtr`
is what allocators return; the CPU allocator is a member of the CPU runtime.

## 2. Plan

The order in which the system is modelled, most important behaviour first:

1. `IntrusivePtr` with `SharedOwnership`, what it promises; the inductive invariant `IntrusivePtrInv`,
   and its proof, the refinement included.
2. `RuntimeRegistry` with `AtomicRegistry`, what it promises, and the proof that it implements it.
3. `CpuRuntime`, with its proof.
4. `DataPtr`, extended by `CpuAllocator`, with their proof.
5. `CheckedMath`, extended by `Shape`, with their proof.
6. `DefaultRegistry`, which extends `RuntimeRegistry`, with its proof.
7. `OwnershipGraph`, the same `SharedOwnership` implemented by handles that are members of targets,
   with its proof.
8. `MemoryOrders`, what `IntrusivePtr` takes for granted of its atomics, with its proof.
9. `Scalar`, with its proof.

All of it is done. Every safety property that a run expects to hold is proved for all values of the
constants (those of the reference counts for a `size_t` that can count the strong references); what only
runs check is liveness (section 5).

## 3. Modules

### Intrusive reference counting

`IntrusivePtr` has one control block per `Object`. `refs["strong"]`, `refs["weak"]` and `target` are its
three atomics, `block` says whether it is allocated, `life` how far the target has got (`constructing`
while the derived constructor runs, `aborted` if it threw). `ptr[x]` is what holder `x` refers to. A
holder is a handle, a target itself (the implicit weak reference of `intrusive_ptr.h:25`), or a local of
a running function: the temporary `copy` of an assignment, what `reset` exchanged out, what `lock` is
about to return. So every reference that a count stands for sits somewhere, and "the count is exact" is
a statement about a cardinality.

`call[t]` is the member function that thread `t` runs: the label of its next atomic access, the control
block it works on, the count it last read, its destination and source. Every load, compare-exchange,
fetch_sub and exchange is a step of its own. Construction and destruction of a target take two steps, so
that others can run meanwhile. A compare-exchange that fails although the value is right (`_weak`) leaves
the state as it was. Plain handles are not atomic objects: `Exclusive` and `Shared` say that no thread
uses a handle while another changes it, which is the contract of any C++ object. What is atomic in the
code, the counts and `target`, has no such guard. Copy construction and copy assignment are one action
`Copy`: the constructor is the case of an empty destination. The counts wrap (`Plus1`, `Minus1`) and
`Terminate` is the `std::terminate` of `increment_ref_count`.

`SharedOwnership` is what a user relies on, without counts: an object lives while it is owned, is
destroyed once it is not, and its bookkeeping goes once nobody watches it. `IntrusivePtr` maps to it
by reading off the holders. A target whose constructor has not returned, or threw, is not yet visible.

`OwnershipGraph` puts handles inside targets, in one thread. `ptr` is what every handle refers to,
variables and members alike; that a reference is the last one is read off `ptr`, which is what the
exact counts of `IntrusivePtr` allow. `stack` holds the functions that have not returned. `reset()` of a
last reference puts a destruction there: first the `body` of the derived destructor, then its `members`,
then the `base` class, which gives up the implicit weak reference, then `free` if nobody watches. While a
body runs the program may do anything it can otherwise do, with its variables and with what it can reach
(`InScope`), the members of the dying target included. It leaves alone, as with any C++ object, the handles that a
waiting call is still going to use. A construction is one step: its constructor calls nothing. A move assignment is `reset()` and then `Take`, which reads the source: if source or
destination went with the target that `reset()` destroyed, `Take` uses a handle that is gone, and the model
stops there (`undefined`). Each frame remembers (`kept`) whether something else kept both handles.

`MemoryOrders` looks at one target with the memory orders of its atomic accesses. `seen[t]` are the
accesses that happen before the point thread `t` has reached, and `released[a]` what an acquiring access
to atomic `a` learns; of each thread's accesses to the target, and to the control block, the last one
counts. A relaxed read-modify-write continues the release sequence it comes upon and learns nothing. An
acquiring load may read an older value (`AcquireLoad`), a read-modify-write reads the latest one.
Retry loops are one step, since `IntrusivePtr` has them. Handles move between threads by means that
synchronize (`HandOver`), as a mutex or a queue does; uses of the target by owners race only as far as the
owners let them, which is the program's side.

### Registry

`RuntimeRegistry` has the table `runtimes`, what each thread holds of `mutex_`, and `call[t]`. Validation
before the lock, locking, `contains`, `emplace` and `find` are steps. The label `emplace` is a hash table
in pieces: nobody else may then be at `contains`, `emplace` or `find`. `Throws` is `std::bad_alloc`
wherever the code allocates: error messages and the node. The lock guard's destructor is part of every
step that returns. `AtomicRegistry` is the registry with each call as one step between invocation and
answer; the refinement mapping keeps the table and hides the mutex.

`DefaultRegistry` puts the guard of the function-local static before it. `entry[t]` says how far `t` has
got: waiting at the guard, making the runtime, registering it, or in possession of the registry.
Initialization that throws leaves the guard unset and the next thread retries; initialization that
returns keeps the Status and looks at it no more. Once in possession, a thread calls the registry as it
likes, also to register a second CPU runtime. `registry` itself, the first static, has a constructor that
neither throws nor interacts.

### CPU runtime

`CpuRuntime` has the counter, the ids handed out so far in the order of the counter (`streams`), and
events as two flags and a mutex. Streams as arguments are told apart only as far as the code does:
default-constructed, of `cpu:0`, of another device. `acknowledged[e]` and `known` are history: whether
some call that had returned knew event `e` recorded, and whether it did so before this call began. They
let `RecordedForAll` speak about the order of calls. `default_stream`, `device_count`, `capabilities`,
`allocator`, `synchronize(Device)` and `device_type` change nothing and answer constants.

### Memory

`DataPtr` is sequential. Its difficulty is the deleter, code of the program that runs in the middle of
`reset`. `stack` holds the calls of `reset` that wait for a deleter; `free_cpu_memory` calls nothing
(`ProgramRuns`), any other deleter may run every operation on handles that no waiting call uses (`Free`).
That a deleter leaves the waiting handles alone is the caller's side: at `data_ptr.h:55` the members still
hold what is being freed, so a deleter that reset its own handle would free twice. `CpuAllocator` extends
it by `allocate`, with a `size_t` of `Width` bits, and records the alignment asked for and obtained.
Memory is identified by its allocation: an address that `malloc` hands out again is a new block.
`posix_memalign` and `free` are external, and may fail whenever they are called.

### Arithmetic and shapes

`CheckedMath` has the two functions as operators over a type given by its least and greatest value, with
division that rounds towards zero. `Shape` runs `numel` and `contiguous_strides` as loops, one iteration
a step, and answers `is_contiguous` for strides a caller may hold. `Dim` is a signed type with largest
value `DimMax`, `Count` the unsigned type of the same width.

`Scalar` has the constructors, which keep integers with 64 bits and floating-point numbers as doubles, and
`to<T>` for every `T`, as operators with the names of the source. A number is given in units of the least
positive double, so fractions and rounding are integer arithmetic. A format is a number of digits and a
largest exponent; `Cast` is the conversion of the language, to nearest, ties to even, overflow to
infinity. `ScalarAssumption` says how the formats relate on the platforms GradyX names: a `long double`
holds every 64-bit integer, a `double` does not, and every integer is within the range of a `float`.
`Result` appears with the normalization of an OK status (`result.h:55-60`).

## 4. Runs

Bounds are in the `.cfg` files. `CHECK_DEADLOCK FALSE` appears where the program really stops: the two
runs in which `std::terminate` is called, `Shape`, which computes its answers and is done, `MemoryOrders`,
where a target is made once and in the end gone, and `OwnershipGraph`, where undefined behaviour ends the
behaviour and the program may run out of targets. Type invariants and the inductive invariants are
proved, and not repeated in the runs.

| Run | Instance | What it shows |
|---|---|---|
| `IntrusivePtrSafety` | 2 threads, 2 targets, 3 strong and 2 weak handles, 7 references | No dangling handle (`NoDanglingHandle`), no access to a freed block (`NoUseAfterFree`), `use_count` and `expired` exact (`UseCountExact`), nothing leaked (`NoLeak`), `lock` finds its target (`LockFindsTarget`), one destruction without owners (`DestructorRunsOnce`), zero is final (`NoResurrection`). Two threads make every race of two accesses; a third handle lets one thread release while two others are copied or locked. |
| `IntrusivePtrLimit` | 2 threads, 1 target, 3 weak handles and locals, a count that ends at 3 | With more weak references wanted than the type can count, `increment_ref_count` terminates and no count wraps (`NoWrap`). |
| `IntrusivePtrLockWraps` | 1 thread, 3 strong handles, a count that ends at 2 | Expected violation of `NoWrap`: see section 6. |
| `IntrusivePtrRefinement` | 2 threads, 1 target, 2 strong and 2 weak handles, fairness | The handles implement `SharedOwnership`, its liveness included: a target without owners is destroyed and its block reclaimed (`ImplementsSharedOwnership`). A thread is caught in a retry loop only while others keep changing counts (`LockFree`). |
| `RuntimeRegistry` | 3 threads, 4 runtimes (two of one device type, one invalid), 2 device types | No torn read (`NoTornRead`), registrations are final (`StableRegistration`), some call returns (`SomeCallReturns`), calls are atomic (`ImplementsAtomicRegistry`). |
| `DefaultRegistry` | 3 threads, 3 runtimes (one built in, one rival for its type), 2 device types | However initialization is raced for and retried, the discarded Status is never an error (`NothingDiscarded`), the CPU runtime is there (`CpuAlwaysThere`), and no thread keeps the guard (`InitializationEnds`). |
| `CpuRuntime` | 3 threads, 1 event, 4 streams with 3 ids | Ids are distinct, and 0 stays the default stream's, until they wrap (`StreamsDistinct`), no half-recorded event (`NoHalfRecorded`), recorded for one is recorded for all who ask later (`RecordedForAll`), no event stays locked (`SomeCallReturns`). Three ids and four streams make the wraparound happen. |
| `CpuAllocator` | 3 handles, 3 blocks, a 3-bit `size_t`, all alignments, sizes 0, 3 (`PTRDIFF_MAX`) and 7 (`SIZE_MAX`) | Handles stay whole and deleters get their own arguments (`HandleIntact`), memory is freed once and a visible handle never refers to freed memory (`FreedOnce`), none is lost (`NoLeak`), allocations are aligned and sized (`AllocationSound`). Three handles are enough for a deleter that moves one handle to another while a third waits, three blocks for a deleter inside a deleter. |
| `Shape` | a 4-bit `Dim` (largest value 7), all shapes of rank up to 3 | `numel` is exact or overflow (`NumelExact`); strides number the elements in row-major order (`StridesRowMajor`) and are refused only for the reason they must be (`StridesOverflow`); `is_contiguous` agrees (`DenseExact`). Products up to 7 * 7 * 7 pass both limits, 7 and 15. |
| `OwnershipGraph` | 3 targets with a strong and a weak member each, 2 strong variables | What can be reached is alive, through any nesting of destructions (`ReachableIsAlive`); once the last call has returned only cycles, and what they own, are left (`OnlyCyclesLeak`); a move assignment uses a handle that is gone only if nothing else kept it, or a destructor interfered (`MoveSourceSurvives`); handles in targets implement `SharedOwnership` (`GraphIsSharedOwnership`). Three targets make a chain destroyed in one call, a cycle with something hanging on it, and a destructor that drops a third target while the second is going. |
| `MemoryOrders` | 2 threads, 3 strong and 2 weak references | Destruction happens after every use (`DestroyedAfterUse`), deletion of the control block after every access to it (`FreedAfterUse`), and `lock()` takes over what former owners did (`LockTakesOver`). Three references let a release on either thread come between two others; the proof has no bounds. |
| `Scalar` | floats of 3, doubles of 4 and long doubles of 6 digits, in halves; integers of 3 and 6 bits; complex numbers with five imaginary parts | Every value of every type, asked for as every type: what went in comes out, also as the type that `dtype()` names (`RoundTrip`); integers are exact or refused with the right code (`IntegersExact`); floating-point numbers are the nearest (`RealsNearest`); complex ones too, but for an integer too long for a double, which stays within a neighbour (`ComplexFaithful`). The widest integers have one digit more than a double and every format has numbers beyond all integers, as in the code. |

Each property also has a mutant, a plausible bug in a definition (`Name_Variant`, above the definition
it varies), under which the same run finds the property violated.

### Fairness

Safety runs assume none. `FairSpec` has weak fairness of each thread's `Step`: a thread inside a member
function is scheduled again. Nothing obliges a thread to call one. Weak fairness does not get a thread
through a contended mutex or CAS loop, and nothing in the code or the standard would: a `std::mutex` or
`std::shared_mutex` may serve others for ever. Hence the progress properties are those of the whole:
`SomeCallReturns` (a mutex left locked would stop everyone) and `LockFree`. Destruction and reclamation in
`SharedOwnership` are promised since `release_strong_ref` has no loop: a thread that takes a count to zero
goes on to destroy, which is weak fairness of `Step`.

## 5. Proofs

| Module | Theorems |
|---|---|
| `IntrusivePtrProofs` | `TypeCorrect`, without any assumption on the number of references; `Invariance`: `EnoughRefs` implies that `IInv` always holds; from it the seven properties of the run `IntrusivePtrSafety`, `CountsNeverWrap`, and `ImplementsSharing` (the refinement) |
| `OwnershipGraphProofs` | `GraphInvariant`, `ReachableStaysAlive`, `GraphImplementsSharing` (the refinement), `MovesReadLiveHandles`, `LeaksAreCycles` |
| `MemoryOrdersProofs` | `OrdersInvariant`, `DestroysAfterUse`, `FreesAfterUse`, `LocksTakeOver` |
| `RegistryProofs` | `RegistryInvariance`, `TableIsNeverTorn`, `RegistrationIsFinal`, `RegistryIsAtomic` (the refinement); `DefaultInvariance`, `NoErrorIsDiscarded`, `CpuIsThere` |
| `CpuRuntimeProofs` | `RuntimeInvariance`, `StreamIdsAreDistinct`, `NeverHalfRecorded`, `RecordedIsFinal` |
| `DataPtrProofs` | `DataInvariant`, `HandlesStayIntact`, `MemoryFreedOnce`, `MemoryNotLost`, `AllocatorTypeCorrect`, `AllocationsSound`, all of `AllocatorSpec` |
| `ArithmeticProofs` | `AddIsExact`, `MultiplyIsExact`; `ShapeTypeCorrect`, `NumelCountsElements`, `StridesRefused`, `StridesAreRowMajor`, `ContiguityDecided`; `ScalarsRoundTrip`, `IntegersAreExact`, `RealsAreNearest`, `ComplexIsFaithful` |
| `Induction` | lemmas only: a set of natural numbers has a least element, induction for sets, sequences defined by a step exist and are unique, and powers of two |

All hold for every value of the constants that satisfies the module's named `ASSUME`: any sets of
threads, targets and handles (finite ones for the counts); any sets of runtimes, device types, events,
blocks and members; any width, rank and extents; any floating-point formats that relate as
`ScalarAssumption` says.

**Reference counting.** None of the safety properties is inductive alone. `IInv` has these parts.
`CountInv` says each count is the number of holders, which are variables, temporaries and the target
itself. `StrongOwnerInv` and `WeakOwnerInv` say what being referred to guarantees: a live target, an
allocated block. `ObjectInv` ties the stages of a target to its control block. `LocalInv` says which
temporaries carry references at which label, `SourceInv` that the handle a call reads still holds what
the call read from it, `StageInv` what a call may assume of its own object. `RaceInv` is the callers'
contract carried along; `UniqueInv` says that one call at most constructs, destroys or frees an object,
and `DrainInv` that a count of zero has a call that is dealing with it. Each step then changes one holder
and one count together, and a lemma on the cardinality of the owners relates the two. `EnoughRefs`, that
`MaxRefs` is at least the number of places a strong reference can be in, is needed for one reason: at
`intrusive_ptr.h:85-86` the count may otherwise wrap (section 6). A process in which each reference takes
at least a pointer's size satisfies it. `TypeCorrect` does without it.

`ImplementsSharing` says that the handles implement `SharedOwnership`, apart from its fairness. The
owners it sees are the strong holders, the watchers the weak handles and locals, of targets whose
constructor has returned. Every step moves one reference, exchanges two, changes the stage of one target,
or shows nothing; `IInv` says which, since it knows what the locals of a call carry at each label. One
fact comes on top: `WatchInv`, that no local watches a target under construction. It is what makes the
end of a constructor one step of `SharedOwnership`, in which the caller becomes the one owner of a target
that nobody watches.

**Handles inside targets.** `GraphInv` ties the stack to the targets: `StackInv` says that the calls that
wait are in a destructor's body or destroying members, each about a target of its own whose stage of life
only that call can end; `HandleInv` that strong handles refer to live targets and weak ones to targets
with a control block. A destruction inside a destruction then cannot be of the same target, since a
target that is being destroyed has no owner and `lock()` refuses it. `ReachableIsAlive` needs one more
idea: the set of live targets is closed under members, so the least closed set is within it. The
refinement adds `AssignInv`, that the destination of a waiting move assignment is empty, so that `Take`
is an exchange of owners.

`MovesReadLiveHandles` is about a move assignment, whose `reset()` may run any number of destructors
before the source is read. `KeptInv` says of every waiting assignment that could count on something else
to keep its handles (`kept`): they are variables, or members of targets that the variables keep, those of
the destructor that called it included; and only the latest assignment counts on it. The targets that
`reset()` destroys are not among those, and members change only in the target that is being destroyed, so
they all stay (`KeptSafeStays`). Once a destructor calls the program, the program may do away with them;
the property says so.

`LeaksAreCycles` rests on `LeakInv`: whatever is alive has an owner, whatever is being destroyed has a
call that does it, a member that refers to something belongs to a target that is there, and the targets
made so far are finitely many. When no call is left, a target out of reach has an owner out of reach
(`LostOwner`). Among the owners of a target, direct or not, take the one with the fewest owners of its
own: it must own itself (`LostCycle`). No path is followed anywhere: what is reachable is the least set
closed under members, and the fewest are the least element of a set of numbers (`LeastElement`).

**Memory orders.** `OrdersInv` says where the accesses that a deletion must come after are known. As long
as a strong reference is left, every access to the target has been seen by the owners together or
released into the count (`TargetInv`): a use is seen by its own thread, which has a reference; a release
moves what its thread has seen into the count; a relaxed increment takes nothing away. So the last
decrement, which acquires, finds it all. `BlockInv` is the same for the control block and all references
to it, with one link more: the thread between the last strong release and the release of the implicit
weak reference carries what it has learned. `ControlInv` says there is one such thread at most.

**Registry.** `FrameInv` says what a call at each label was given, `LockInv` who holds the mutex and how,
`AbsentInv` that an entry found absent under the exclusive lock is still absent when it is made. The last
needs the second, and atomicity needs it: without it `emplace` would answer "ok" and change nothing.

**Default registry.** Every step of `DefaultNext` is a step of `RuntimeRegistry` or leaves it alone, so
`IInv` comes for free. `EntryInv` says that only the thread that has the guard registers, and that others
are inside only once it is set; `BuiltinInv` that the CPU entry is then the built-in runtime and before
is empty. A failed attempt leaves it empty, since `emplace` either completes or undoes its work; that is
why a retry cannot meet `AlreadyExists`.

**CPU runtime.** `StreamInv` gives the last `IdLimit` ids as a function of the counter, from which two
equal ids are at least `IdLimit` apart. `FlagsInv` says the flags differ only while the mutex is held by
the recording thread, and what history variables imply of them.

**Memory.** `DataInv` is `TypeOK`, `NoLeak` and two parts. `StackInv` says that waiting calls have
handles of their own, and arguments that those handles still have; `MemoryInv` that a handle has what its
memory was made with, alone, and that freed memory is left only in handles that a call is about to clear
(`Stale`). Exclusiveness is what makes one deletion enough: clearing a handle loses no other's memory.
`AllocationsSound` is about bits: `value & (value - 1)` is zero for powers of two only. The proof takes
the least power of two above the value, and shows that the value and the value before it have the bit
below in common unless the value is that bit (`OneBit`).

**Checked arithmetic.** `FactorBound` turns "greater than a quotient" into "product greater than the
dividend"; each sign case of `checked_multiply` is one use of it.

**Shapes.** `ShapeInv` says where each loop stands: `acc` is the product of the extents before `axis` in
`numel`, of those after it in `contiguous_strides`, and `strides` has the products from there on. The
loop of `numel` runs only if no extent is zero, and then products do not shrink (`ProductGrows`): an
overflow at one axis is an overflow of the whole. Products are recursive functions. That they exist and
are unique is `StepsExist` and `StepsUnique`, and what holds of all of them is `SetInduction`.

`StridesAreRowMajor` needs more. The elements that share their first indices fill a block (`Blocks`), and
blocks do not overlap, so an element that comes before another has the smaller offset (`OffsetsOrdered`);
and the indices of a place are the digits of its offset (`OffsetsOnto`). `ContiguityDecided` is the
converse: two numberings in row-major order with the same numbers agree (`OneNumbering`), since an
element with the least number that they disagree on would come after one that it comes before; and an
axis longer than 1 shows its stride, as the offset of its second element (`StrideIsOffset`).

**Scalars.** `ScalarInv` is immediate; the work is in `Cast`. The spacing of the format around a number
is the least power of two with which its digits reach the number (`SpacingOf`). Rounding to a multiple of
the spacing is nearest among the multiples (`RoundedIsNearest`); a number of the format that is no such
multiple has a smaller exponent and lies beyond the power of two where the spacing changes, which is a
multiple itself and nearer (`CastIsNearest`). So what a format has is cast to itself (`CastIsExact`), and
`Platform` derives from `ScalarAssumption` that a double goes unchanged through a long double, and so
does every integer. An integer that becomes a complex number is rounded twice (`RoundedTwice`): the
double is at least as near to it as every number of the float, all of which are doubles, so none of them
lies between the integer and the result.

Only model-checked: all liveness and fairness (`LockFree`, `SomeCallReturns`, `InitializationEnds`, and
`ImplementsSharedOwnership`, which has fairness on both sides; its safety part is `ImplementsSharing`).
The prover has no rules for ENABLED, on which fairness rests.

The library's induction theorems take an operator as a parameter, which the provers cannot instantiate.
`Induction` states what is needed of them for sets: to show that all numbers have a property, one shows
that the set of those that have it contains 0 and is closed under successor.

## 6. Findings

`increment_ref_count` (`intrusive_ptr.h:93-104`) terminates the process at the largest count.
`try_retain_strong_ref` (`intrusive_ptr.h:81-91`), which `lock()` uses, increments the same strong count
without that test, and wraps it to zero. `IntrusivePtrLockWraps` shows it. It takes as many references as
a `size_t` counts, so it is an inconsistency between two functions and not something a program meets.

Noted while modelling, with no doc or test that says otherwise: move assignment of `DataPtr` and of both
intrusive handles releases what it holds before it reads the source, so a source inside the released
object is read after its end (`head = std::move(head->next)`; `OwnershipGraph` reaches it, and
`MoveSourceSurvives` says when); `DataPtr::reset` calls its deleter before it clears its members, where
`IntrusivePtr::reset` clears first; stream ids are unique per runtime object, not per device;
`contiguous_strides` can overflow for a shape without elements; `Scalar::to<float>` rounds an integer once
and `to<std::complex<float>>` twice (`ComplexFaithful` says by how much they differ).

## 7. Not modelled

- Memory orders in `IntrusivePtr` and `OwnershipGraph`, which are sequentially consistent: `MemoryOrders`
  shows that the accesses to target and control block are ordered. The modification order of one atomic,
  which the counting rests on, is the same for any memory order. `MemoryOrders` has no load of a count
  older than the thread itself has seen, and no fences, since the code has none.
- Members and threads at once: `OwnershipGraph` has one thread. A target's destruction is run by one
  thread, and what other threads do meanwhile reaches it through the counts, which `IntrusivePtr` has.
- Weak move assignment between members of targets, and stack overflow by a long chain of targets.
- `DataPtr`s inside memory that a `DataPtr` owns: nothing in the library puts one there. The order of
  steps is that of `IntrusivePtr`, which `OwnershipGraph` has.
- `Device`, `DType`, `Layout`, `Status`, version: immutable values and tables, with parsers and names that
  unit tests enumerate. The modules keep which code a call answers with, and the allocation failure that
  building a message can cause; `Scalar` has what conversions use of `Result`.
- Two `CpuRuntime` objects: stream ids are unique per object, and `Stream` does not say which one.
- Polymorphism of `Runtime`, `Allocator` and `Event`: there is one implementation of each.
- Destruction of events and runtimes: their owners are `unique_ptr` and `shared_ptr` of the standard
  library, which the caller must not let go of during a call.
- CUDA: a Status conversion and a version constant at this commit.
- Build files, tests, benchmarks and tools.
