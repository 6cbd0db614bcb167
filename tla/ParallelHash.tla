---------------------------- MODULE ParallelHash ----------------------------
(***************************************************************************)
(* One call of hash_tree_root on a vector: the three overloads of          *)
(* merkleize.hpp that split the vector in two, hash the last half on a     *)
(* thread of std::async and the first half themselves, and join.           *)
(*                                                                         *)
(* A frame is one activation of the recursive function.  Frame 1 is the    *)
(* caller's; frame k calls frame 2k for its first half, on its own thread, *)
(* and launches frame 2k+1 for its last half.  The two_blocks of frame k   *)
(* are the results of frames 2k and 2k+1; frame 1 writes its result into   *)
(* the buffer of the caller.                                               *)
(*                                                                         *)
(* What may fail: allocating memory and starting a thread.  An exception   *)
(* unwinds the frame: the future is destroyed first, which waits for the   *)
(* thread, then two_blocks, in the reverse order of their declarations.    *)
(***************************************************************************)
EXTENDS Merkle, FiniteSets

CONSTANTS
    BYTES_PER_CHUNK,    \* 32 in the code
    MaxCpu,             \* bound: cores of the machine, and cpu_count
    Cores,              \* the answers of hardware_concurrency tried
    MaxFaults,          \* bound: allocations and launches that fail
    Requests            \* the calls tried, see RequestType

(* basic: a vector of basic values, sizeof bytes each, packed into chunks; *)
(* otherwise the elements are roots, or objects that are hashed one by one *)
(* to a chunk each.                                                        *)
RequestType ==
    [basic : BOOLEAN, sizeof : Nat \ {0}, size : Nat, limit : Nat,
     cpu_count : 0 .. MaxCpu]

IsPowerOf2(n) == \E e \in 0 .. n : n = Pow2[e]

(* The basic types have 1, 2, 4, 8 or 32 bytes.  The caller respects the   *)
(* limit, and no tree is higher than zero_hash_array, with 42 entries, can *)
(* serve: the library checks neither.                                      *)
ASSUME ParallelAssumption ==
    /\ BYTES_PER_CHUNK \in Nat \ {0} /\ IsPowerOf2(BYTES_PER_CHUNK)
    /\ MaxCpu \in Nat \ {0}
    /\ Cores \subseteq 0 .. MaxCpu
    /\ MaxFaults \in Nat
    /\ Requests \subseteq RequestType
    /\ \A r \in Requests :
          /\ IsPowerOf2(r.sizeof) /\ r.sizeof <= BYTES_PER_CHUNK
          /\ ~r.basic => r.sizeof = BYTES_PER_CHUNK
          /\ LET chunks == CeilDiv(r.size, BYTES_PER_CHUNK \div r.sizeof)
             IN  /\ r.limit > 0 => chunks <= r.limit
                 /\ TreeHeight(chunks, r.limit) < zero_hash_depth

VARIABLES
    request,                \* the caller's arguments
    hardware_concurrency,   \* what the machine answers, 0 if it cannot tell
    pc,                     \* where each frame is
    arg,                    \* its parameters: [lo, size, cpu_count, limit]
    i,                      \* its loop counter
    result,                 \* the 32 bytes it writes: half k % 2 of the
                            \* two_blocks of frame k \div 2
    heap,                   \* the frames whose two_blocks is allocated
    faults                  \* failures so far

vars == <<request, hardware_concurrency, pc, arg, i, result, heap, faults>>

(* A frame forks only with a cpu_count of 2 or more and halves it, so the  *)
(* numbering stays below 2 * MaxCpu.                                       *)
Frames == 1 .. 2 * MaxCpu - 1

NoArg == [lo |-> 0, size |-> 0, cpu_count |-> 0, limit |-> 0]

Finished == {"ok", "threw"}
Forked   == {"first", "get", "unwind"}      \* the last half may be running
Active(k) == pc[k] \notin {"idle"} \cup Finished

-----------------------------------------------------------------------------
(* The computations at the top of the functions.                           *)

(* The arguments of the outermost call.                                    *)
whole == [lo |-> 0, size |-> request.size, cpu_count |-> request.cpu_count,
          limit |-> request.limit]

(* Elements to a chunk.                                                    *)
per == BYTES_PER_CHUNK \div request.sizeof

(* 0 means all the cores.                                                  *)
cpus(k) == IF arg[k].cpu_count = 0 THEN hardware_concurrency
                                   ELSE arg[k].cpu_count

(* The size below which a vector is hashed in one go.                      *)
threshold == IF request.basic THEN 4 * BYTES_PER_CHUNK ELSE 4

(* Mutant: a frame that has one cpu forks.                                 *)
ForkingOnOneCpu(k) == cpus(k) < 1 \/ arg[k].size < threshold

(* The sequential path is taken.                                           *)
in_one_go(k) == cpus(k) < 2 \/ arg[k].size < threshold

(* Mutant: half the elements, not half the next power of two.              *)
FloorHalf(k) == arg[k].size \div 2

(* Mutant: the next power of two, not halved.                              *)
NotHalved(k) == bit_ceil(arg[k].size)

(* Elements of the first half: a whole subtree of them.                    *)
half_size(k) == bit_ceil(arg[k].size) \div 2

(* Mutant: the limit of a half counted in elements.                        *)
LimitInElements(k) == half_size(k)

(* Chunks of the first half; half_size itself when an element is a chunk.  *)
chunk_size(k) == CeilDiv(half_size(k) * request.sizeof, BYTES_PER_CHUNK)

(* The parameters of the two calls; both halves get the same limit.        *)
first(k) == [lo |-> arg[k].lo, size |-> half_size(k),
             cpu_count |-> cpus(k) \div 2, limit |-> chunk_size(k)]

(* Mutant: the last half is hashed without a limit.                        *)
UnboundedLast(k) == [lo |-> arg[k].lo + half_size(k),
                     size |-> arg[k].size - half_size(k),
                     cpu_count |-> cpus(k) \div 2, limit |-> 0]

last(k) == [lo |-> arg[k].lo + half_size(k),
            size |-> arg[k].size - half_size(k),
            cpu_count |-> cpus(k) \div 2, limit |-> chunk_size(k)]

-----------------------------------------------------------------------------
WriteResult(k, node) == result' = [result EXCEPT ![k] = node]

Goto(k, label) == pc' = [pc EXCEPT ![k] = label]

NoFault == UNCHANGED faults
Fault   == faults < MaxFaults /\ faults' = faults + 1

-----------------------------------------------------------------------------
Init ==
    /\ request \in Requests
    /\ hardware_concurrency \in Cores
    /\ pc = [k \in Frames |-> IF k = 1 THEN "call" ELSE "idle"]
    /\ arg = [k \in Frames |-> IF k = 1 THEN whole ELSE NoArg]
    /\ i = [k \in Frames |-> 0]
    /\ result = [k \in Frames |-> ZeroChunk]
    /\ heap = {}
    /\ faults = 0

(* Few elements or a single cpu: sparse_hash_tree, and the copy of its     *)
(* last chunk.  For objects, after hashing every element with one cpu.     *)
Sequential(k) ==
    /\ pc[k] = "call" /\ in_one_go(k)
    /\ WriteResult(k, Merkleize(per, arg[k].lo, arg[k].size, arg[k].limit))
    /\ Goto(k, "ok")
    /\ UNCHANGED <<request, hardware_concurrency, arg, i, heap, faults>>

(* The buffers of the sequential path cannot be allocated.                 *)
SequentialThrows(k) ==
    /\ pc[k] = "call" /\ in_one_go(k)
    /\ Fault
    /\ Goto(k, "threw")
    /\ UNCHANGED <<request, hardware_concurrency, arg, i, result, heap>>

Allocate(k) ==
    /\ pc[k] = "call" /\ ~in_one_go(k)
    /\ result' = [result EXCEPT ![2 * k] = ZeroChunk, ![2 * k + 1] = ZeroChunk]
    /\ heap' = heap \cup {k}
    /\ Goto(k, "async")
    /\ UNCHANGED <<request, hardware_concurrency, arg, i, faults>>

AllocateThrows(k) ==
    /\ pc[k] = "call" /\ ~in_one_go(k)
    /\ Fault
    /\ Goto(k, "threw")
    /\ UNCHANGED <<request, hardware_concurrency, arg, i, result, heap>>

(* std::async starts the last half; the frame goes on into the first.      *)
Async(k) ==
    /\ pc[k] = "async"
    /\ arg' = [arg EXCEPT ![2 * k] = first(k), ![2 * k + 1] = last(k)]
    /\ pc' = [pc EXCEPT ![k] = "first", ![2 * k] = "call",
                        ![2 * k + 1] = "call"]
    /\ UNCHANGED <<request, hardware_concurrency, i, result, heap, faults>>

(* No thread to be had: there is no future yet, two_blocks is released.    *)
AsyncThrows(k) ==
    /\ pc[k] = "async"
    /\ Fault
    /\ heap' = heap \ {k}
    /\ Goto(k, "threw")
    /\ UNCHANGED <<request, hardware_concurrency, arg, i, result>>

FirstReturned(k) ==
    /\ pc[k] = "first" /\ pc[2 * k] = "ok"
    /\ Goto(k, "get")
    /\ UNCHANGED <<request, hardware_concurrency, arg, i, result, heap,
                   faults>>

(* The exception of the first half starts unwinding this frame.            *)
FirstThrew(k) ==
    /\ pc[k] = "first" /\ pc[2 * k] = "threw"
    /\ Goto(k, "unwind")
    /\ UNCHANGED <<request, hardware_concurrency, arg, i, result, heap,
                   faults>>

(* Mutant: two_blocks is released without waiting for the thread.          *)
DetachingUnwind(k) ==
    /\ pc[k] = "unwind"
    /\ heap' = heap \ {k}
    /\ Goto(k, "threw")
    /\ UNCHANGED <<request, hardware_concurrency, arg, i, result, faults>>

(* ~future waits for the thread and drops what it threw; then ~two_blocks. *)
Unwind(k) ==
    /\ pc[k] = "unwind" /\ pc[2 * k + 1] \in Finished
    /\ heap' = heap \ {k}
    /\ Goto(k, "threw")
    /\ UNCHANGED <<request, hardware_concurrency, arg, i, result, faults>>

(* Mutant: the halves are joined before the last one is there.             *)
ImpatientGet(k) ==
    /\ pc[k] = "get" /\ pc[2 * k + 1] # "threw"
    /\ WriteResult(k, Hash(result[2 * k], result[2 * k + 1]))
    /\ i' = [i EXCEPT ![k] = log2ceil(chunk_size(k)) + 1]
    /\ Goto(k, "raise")
    /\ UNCHANGED <<request, hardware_concurrency, arg, heap, faults>>

(* future.get() returns; the two halves are hashed into the result.        *)
Get(k) ==
    /\ pc[k] = "get" /\ pc[2 * k + 1] = "ok"
    /\ WriteResult(k, Hash(result[2 * k], result[2 * k + 1]))
    /\ i' = [i EXCEPT ![k] = log2ceil(chunk_size(k)) + 1]
    /\ Goto(k, "raise")
    /\ UNCHANGED <<request, hardware_concurrency, arg, heap, faults>>

(* Mutant: the exception of the thread is dropped, as by future.wait().    *)
IgnoringGetThrows(k) ==
    /\ pc[k] = "get" /\ pc[2 * k + 1] = "threw"
    /\ WriteResult(k, Hash(result[2 * k], result[2 * k + 1]))
    /\ i' = [i EXCEPT ![k] = log2ceil(chunk_size(k)) + 1]
    /\ Goto(k, "raise")
    /\ UNCHANGED <<request, hardware_concurrency, arg, heap, faults>>

(* future.get() rethrows what the thread threw.                            *)
GetThrows(k) ==
    /\ pc[k] = "get" /\ pc[2 * k + 1] = "threw"
    /\ heap' = heap \ {k}
    /\ Goto(k, "threw")
    /\ UNCHANGED <<request, hardware_concurrency, arg, i, result, faults>>

(* One turn of the loop that raises the root to the height of the limit.   *)
Raise(k) ==
    /\ pc[k] = "raise" /\ i[k] < log2ceil(arg[k].limit)
    /\ WriteResult(k, Hash(result[k], zero_hash_array[i[k]]))
    /\ i' = [i EXCEPT ![k] = @ + 1]
    /\ UNCHANGED <<request, hardware_concurrency, pc, arg, heap, faults>>

Return(k) ==
    /\ pc[k] = "raise" /\ i[k] >= log2ceil(arg[k].limit)
    /\ heap' = heap \ {k}
    /\ Goto(k, "ok")
    /\ UNCHANGED <<request, hardware_concurrency, arg, i, result, faults>>

Step(k) ==
    \/ Sequential(k) \/ Allocate(k) \/ Async(k)
    \/ FirstReturned(k) \/ FirstThrew(k) \/ Unwind(k)
    \/ Get(k) \/ GetThrows(k) \/ Raise(k) \/ Return(k)

Failure(k) == SequentialThrows(k) \/ AllocateThrows(k) \/ AsyncThrows(k)

Terminating == pc[1] \in Finished /\ UNCHANGED vars

Next == (\E k \in Frames : Step(k) \/ Failure(k)) \/ Terminating

(* Every thread that can take a step eventually does: the threads are the  *)
(* operating system's.  A failure is never obliged to happen.              *)
Fairness == \A k \in Frames : WF_vars(Step(k))

Spec == Init /\ [][Next]_vars /\ Fairness

-----------------------------------------------------------------------------
(* Properties.                                                             *)

ArgType == [lo : Nat, size : Nat, cpu_count : 0 .. MaxCpu, limit : Nat]

(* Every variable has its type.  Node values are left open.                *)
TypeOK ==
    /\ request \in Requests
    /\ hardware_concurrency \in Cores
    /\ pc \in [Frames -> {"idle", "call", "async", "raise"}
                            \cup Forked \cup Finished]
    /\ arg \in [Frames -> ArgType]
    /\ i \in [Frames -> Nat]
    /\ DOMAIN result = Frames
    /\ heap \subseteq Frames
    /\ faults \in 0 .. MaxFaults

(* The buffer a frame writes into exists for as long as the frame runs,    *)
(* whichever of its relatives throws meanwhile: the lambda of std::async   *)
(* captured two_blocks by reference, and no path, unwinding included,      *)
(* frees it under the thread (lines 239 to 244).                           *)
BlocksOutliveWriters ==
    \A k \in Frames \ {1} : Active(k) => k \div 2 \in heap

(* Frames below k.  Three generations suffice for a cpu_count under 16.    *)
Halves(F) == (UNION {{2 * k, 2 * k + 1} : k \in F}) \cap Frames
Descendants(k) ==
    LET one == Halves({k})
        two == Halves(one)
    IN  one \cup two \cup Halves(two)

(* A frame that has returned or thrown has joined everything it started:   *)
(* no thread below it runs and no buffer of theirs is left.                *)
JoinedBeforeReturn ==
    \A k \in Frames : pc[k] \in Finished =>
        /\ k \notin heap
        /\ \A d \in Descendants(k) : ~Active(d) /\ d \notin heap

(* The caller's thread and the threads of the odd frames, while they run.  *)
Threads == {k \in Frames : Active(k) /\ k % 2 = 1}

(* A call never has more threads than the cpu_count it was given, or than  *)
(* the machine has cores, one if that is unknown: halving cpu_count at     *)
(* every fork bounds the whole tree, and never reaches the 0 that means    *)
(* all the cores again.                                                    *)
ThreadBound ==
    Cardinality(Threads) <= IF cpus(1) = 0 THEN 1 ELSE cpus(1)

(* A half that has been hashed, and whose two_blocks still exists, is the  *)
(* reference root of its elements under its limit, and a frame in the loop *)
(* holds the root at the height its counter says: the split at a power of  *)
(* two, the limits handed down and the raising by empty trees agree.       *)
HalvesCorrect ==
    \A k \in Frames :
        /\ pc[k] = "ok" /\ (k = 1 \/ k \div 2 \in heap) =>
              result[k] = Merkleize(per, arg[k].lo, arg[k].size, arg[k].limit)
        /\ pc[k] = "raise" =>
              result[k] = Subtree(i[k], per, arg[k].lo, arg[k].lo + arg[k].size)

(* The call implements the promise of HashTreeRoot: it ends, with the root *)
(* if nothing failed and with an exception if anything did, on whichever   *)
(* thread.                                                                 *)
Promise == INSTANCE HashTreeRoot WITH
    Calls   <- VectorCalls,
    RootOf  <- VectorRoot,
    request <- [per |-> per, size |-> request.size, limit |-> request.limit],
    status  <- CASE pc[1] = "ok"    -> "returned"
                 [] pc[1] = "threw" -> "threw"
                 [] OTHER           -> "running",
    failed  <- faults > 0,
    root    <- IF pc[1] = "ok" THEN result[1] ELSE ZeroChunk

ImplementsPromise == Promise!Spec

-----------------------------------------------------------------------------
(* The inductive invariant, in named parts.                                *)

(* A frame and the two it may have started.                                *)
Family(k) ==
    2 * k + 1 \in Frames =>
        LET one == pc[2 * k]
            two == pc[2 * k + 1]
        IN  /\ pc[k] \in {"idle", "call", "async"} => one = "idle" /\ two = "idle"
            /\ pc[k] = "first"   => one # "idle" /\ two # "idle"
            /\ pc[k] = "get"     => one = "ok" /\ two # "idle"
            /\ pc[k] = "unwind"  => one = "threw" /\ two # "idle"
            /\ pc[k] = "raise"   => one = "ok" /\ two = "ok"
            /\ pc[k] \in Finished => {one, two} \subseteq {"idle"} \cup Finished

(* two_blocks exists from its allocation until the frame is left.          *)
Holding == Forked \cup {"async", "raise"}
Held(k) == k \in heap <=> pc[k] \in Holding

(* What a frame is asked to hash respects its limit and the table, and the *)
(* cpus of the outermost frame suffice for as many frames as are numbered  *)
(* up to this one, if each has the share of this one.                      *)
Asked(k) ==
    pc[k] # "idle" =>
        LET chunks == CeilDiv(arg[k].size, per)
        IN  /\ arg[k].limit > 0 => chunks <= arg[k].limit
            /\ TreeHeight(chunks, arg[k].limit) < zero_hash_depth
            /\ k # 1 => arg[k].cpu_count > 0
            /\ (k + 1) * cpus(k) <= 2 * cpus(1)

(* A frame that forked had enough to share, and handed out its halves.     *)
Shared(k) ==
    /\ pc[k] \in Holding => ~in_one_go(k)
    /\ pc[k] \in Forked => arg[2 * k] = first(k) /\ arg[2 * k + 1] = last(k)

(* The loop counter runs from the height of the two halves together to the *)
(* height of the limit.                                                    *)
Raising(k) ==
    pc[k] = "raise" =>
        LET joined == log2ceil(chunk_size(k)) + 1
        IN  /\ i[k] >= joined
            /\ i[k] <= IF arg[k].limit = 0 THEN joined ELSE log2ceil(arg[k].limit)

(* The outermost frame has been called, for the whole vector.              *)
Outermost == pc[1] # "idle" /\ arg[1] = whole

(* An exception has its cause, and one whose frame is still waited for is  *)
(* not forgotten until the caller has it.                                  *)
Thrown ==
    /\ \A k \in Frames : pc[k] = "threw" => faults > 0
    /\ faults > 0 =>
          \/ pc[1] = "threw"
          \/ \E k \in Frames : pc[k] \in Forked /\ "threw" \in {pc[2 * k], pc[2 * k + 1]}

IInv ==
    /\ TypeOK
    /\ Outermost
    /\ \A k \in Frames :
          Family(k) /\ Held(k) /\ Asked(k) /\ Shared(k) /\ Raising(k)
    /\ HalvesCorrect
    /\ Thrown
=============================================================================
