----------------------------- MODULE ObjectRoot -----------------------------
(***************************************************************************)
(* hash_tree_root of a whole object: the overloads of merkleize.hpp and    *)
(* container.hpp for basic values, vectors, lists, bit sequences and       *)
(* containers, calling each other down the object.                         *)
(*                                                                         *)
(* An object is a tree, and a path is where in it a part lies: <<>> is the *)
(* object, <<2, 1>> the first part of its second part.  Every part has one *)
(* call, so a path also names a call.  The hash of a vector, forking or    *)
(* not, is one step here, and what ParallelHash promises is assumed of it: *)
(* it writes the reference root if the vector respects its limit and the   *)
(* table of empty trees, with at most cpu_count threads, all joined.  A    *)
(* vector of objects that forks hashes its elements in any order, at most  *)
(* cpu_count at once.                                                      *)
(***************************************************************************)
EXTENDS Integers, Sequences, FiniteSetsExt, SequencesExt

CONSTANTS
    Hash(_, _),         \* hashtree_hash of two consecutive chunks
    Value(_, _, _),     \* the chunk of basic values lo..end-1 of a part
    Bits(_),            \* the chunk whose bits of these positions are set
    Length(_),          \* the chunk of a number of std::uint64_t
    ZeroChunk,          \* 32 zero bytes
    Garbage,            \* a chunk with bytes nobody wrote
    zero_hash_depth,    \* number of entries of zero_hash_array
    CHAR_BIT,           \* 8 in the code
    BYTES_PER_CHUNK,    \* 32 in the code
    MaxCpu,             \* bound: cores of the machine, and cpu_count
    Cores,              \* the answers of hardware_concurrency tried
    MaxFaults,          \* bound: allocations and launches that fail
    MaxDepth,           \* bound: parts within parts
    MaxWidth,           \* bound: members of a container, elements of a vector
    Objects             \* the objects tried

(***************************************************************************)
(* The kinds of objects, records with these fields:                        *)
(*   "basic"      id                                                       *)
(*   "packed"     id, sizeof, size, list, N    basic values                *)
(*   "roots"      id, sizeof, size, list, N    32-byte arrays              *)
(*   "bits"       bits, list, N                ssz::list<bool>, bitset     *)
(*   "objects"    elems, list, N               other vectors and lists     *)
(*   "container"  elems                                                    *)
(* list tells an ssz::list, of limit N, from a vector.                     *)
(***************************************************************************)
Composite(o) == o.kind \in {"objects", "container"}
IsList(o) == o.kind \notin {"basic", "container"} /\ o.list

length(o) == CASE o.kind \in {"packed", "roots"} -> o.size
               [] o.kind = "bits"                -> Len(o.bits)
               [] o.kind = "basic"               -> 1
               [] OTHER                          -> Len(o.elems)

Part(o, p) == FoldLeft(LAMBDA whole, c : whole.elems[c], o, p)

Paths(o) ==
    {p \in SeqOf(1 .. MaxWidth, MaxDepth) :
        \A n \in DOMAIN p : LET above == Part(o, SubSeq(p, 1, n - 1))
                           IN  Composite(above) /\ p[n] \in DOMAIN above.elems}

Tree(leaves) == INSTANCE Merkle WITH Chunk <- LAMBDA lo, end : leaves[end]

(* Basic values or bits to a chunk; other parts have a chunk each.         *)
PerChunk(o) == CASE o.kind = "packed" -> BYTES_PER_CHUNK \div o.sizeof
                 [] o.kind = "bits"   -> CHAR_BIT * BYTES_PER_CHUNK
                 [] OTHER             -> 1

(* The least height at which the tree holds all the type may have.         *)
Height(o) ==
    LET room == IF IsList(o) THEN o.N ELSE length(o)
    IN  CHOOSE h \in 0 .. room :
            /\ room <= PerChunk(o) * Tree(<<>>)!Pow2[h]
            /\ \A g \in 0 .. h - 1 : PerChunk(o) * Tree(<<>>)!Pow2[g] < room

(* What an object is by its type; a list is within its limit, and no tree  *)
(* as high as the table of empty ones, which the library does not check.   *)
OfItsType(o) ==
    /\ o.kind \in {"basic", "packed", "roots", "bits", "objects", "container"}
    /\ o.kind \in {"packed", "roots"} => o.size \in Nat
    /\ o.kind = "packed" => /\ o.sizeof \in 1 .. BYTES_PER_CHUNK
                            /\ BYTES_PER_CHUNK % o.sizeof = 0
    /\ o.kind = "roots" => o.sizeof = BYTES_PER_CHUNK
    /\ o.kind = "bits" => /\ o.bits \in Seq(BOOLEAN)
                          /\ ~o.list => o.N = Len(o.bits)
    /\ Composite(o) => o.elems \in Seq(Range(o.elems)) /\ Len(o.elems) <= MaxWidth
    /\ o.kind \notin {"basic", "container"} => o.list \in BOOLEAN
    /\ IsList(o) => o.N \in Nat /\ length(o) <= o.N
    /\ Height(o) < zero_hash_depth

ASSUME ObjectAssumption ==
    /\ {CHAR_BIT, BYTES_PER_CHUNK, MaxCpu, zero_hash_depth} \subseteq Nat \ {0}
    /\ {MaxFaults, MaxDepth, MaxWidth} \subseteq Nat
    /\ Cores \subseteq 0 .. MaxCpu
    /\ \A o \in Objects : \A p \in Paths(o) :
          /\ OfItsType(Part(o, p))
          /\ Composite(Part(o, p)) => Len(p) < MaxDepth

VARIABLES
    object,                 \* what is hashed
    hardware_concurrency,   \* what the machine answers, 0 if it cannot tell
    pc,                     \* where the call of each part is
    cpu_count,              \* its parameter
    result,                 \* the 32 bytes it writes, a chunk of the buffer
                            \* of the call it is made from
    faults                  \* failures so far

vars == <<object, hardware_concurrency, pc, cpu_count, result, faults>>

At(p) == Part(object, p)
Parts(p) == IF Composite(At(p)) THEN {Append(p, c) : c \in DOMAIN At(p).elems}
                                ELSE {}

Finished == {"ok", "threw"}
Active(p) == pc[p] \notin {"idle"} \cup Finished

CeilDiv(n, k) == (n + k - 1) \div k

-----------------------------------------------------------------------------
(* What the overloads compute before they hash.                            *)

BitChunk(positions) == IF positions = {} THEN ZeroChunk ELSE Bits(positions)

ValueChunks(o) ==
    LET per == BYTES_PER_CHUNK \div o.sizeof
    IN  [c \in 1 .. CeilDiv(o.size, per) |->
            Value(o.id, per * (c - 1), Min({per * c, o.size}))]

(* serialize of a bitset or a bitlist, sentinel included; module Bitlist.  *)
(* A byte is the set of its bits that are 1.                               *)
serialize(o) ==
    LET n == Len(o.bits)
        bytes == IF o.list THEN n \div CHAR_BIT + 1 ELSE CeilDiv(n, CHAR_BIT)
    IN  [b \in 1 .. bytes |->
            {j \in 0 .. CHAR_BIT - 1 :
                LET bit == CHAR_BIT * (b - 1) + j
                IN  (bit < n /\ o.bits[bit + 1]) \/ (o.list /\ bit = n)}]

(* Mutant: the sentinel is cleared, a byte that had nothing else stays.    *)
SentinelCleared(o) ==
    LET bytes == serialize(o)
    IN  IF o.list THEN [bytes EXCEPT ![Len(bytes)] = @ \ {Max(@)}] ELSE bytes

(* The bytes hashed: the sentinel goes, with its byte if that was all.     *)
hashed_bytes(o) ==
    LET bytes == serialize(o)
        highest_bit == Max(Last(bytes))
    IN  CASE ~o.list                   -> bytes
          [] o.list /\ highest_bit = 0 -> Front(bytes)
          [] OTHER -> [bytes EXCEPT ![Len(bytes)] = @ \ {highest_bit}]

BitChunks(o) ==
    LET bytes == hashed_bytes(o)
    IN  [c \in 1 .. CeilDiv(Len(bytes), BYTES_PER_CHUNK) |->
            BitChunk({k \in 0 .. CHAR_BIT * BYTES_PER_CHUNK - 1 :
                LET b == BYTES_PER_CHUNK * (c - 1) + k \div CHAR_BIT + 1
                IN  b <= Len(bytes) /\ k % CHAR_BIT \in bytes[b]})]

(* The chunks of the vector that the call of a part hashes in the end.     *)
chunks(p) == CASE At(p).kind \in {"packed", "roots"} -> ValueChunks(At(p))
               [] At(p).kind = "bits" -> BitChunks(At(p))
               [] OTHER -> [c \in DOMAIN At(p).elems |-> result[Append(p, c)]]

(* Mutant: the limit of a list of basic values is its number of elements.  *)
LimitInElements(o) ==
    CASE o.kind = "bits" -> CeilDiv(o.N, CHAR_BIT * BYTES_PER_CHUNK)
      [] IsList(o)       -> o.N
      [] OTHER           -> 0

(* Its limit in chunks, 0 for none.                                        *)
limit(o) ==
    CASE o.kind = "bits" -> CeilDiv(o.N, CHAR_BIT * BYTES_PER_CHUNK)
      [] o.kind = "packed" /\ o.list -> CeilDiv(o.N * o.sizeof, BYTES_PER_CHUNK)
      [] o.kind \in {"roots", "objects"} /\ o.list -> o.N
      [] OTHER -> 0

(* 0 means all the cores, for every call that is passed a 0.               *)
cpus(p) == IF cpu_count[p] = 0 THEN hardware_concurrency ELSE cpu_count[p]

(* The overloads for vectors fork only above a size: of basic values, for  *)
(* containers and bits of bytes, or of roots and objects.                  *)
in_one_go(p) ==
    LET o == At(p)
    IN  \/ cpus(p) < 2
        \/ CASE o.kind \in {"roots", "objects"} -> length(o) < 4
             [] o.kind = "packed"    -> length(o) < 4 * BYTES_PER_CHUNK
             [] o.kind = "bits"      -> Len(hashed_bytes(o)) < 4 * BYTES_PER_CHUNK
             [] o.kind = "container" ->
                   BYTES_PER_CHUNK * length(o) < 4 * BYTES_PER_CHUNK
             [] OTHER -> TRUE

(* Members of a container, and the elements of a vector that does not      *)
(* fork, are hashed one after the other.                                   *)
one_by_one(p) == At(p).kind = "container" \/ in_one_go(p)

at_once(p) == IF one_by_one(p) THEN 1 ELSE cpus(p)

(* Mutant: the elements of a vector may use as many threads as the vector. *)
SharingCpus(p) == cpu_count[p]

(* Mutant: a container keeps a cpu for itself, of 0 as well.               *)
KeepingOneCpu(p) == IF At(p).kind = "container" THEN cpu_count[p] - 1 ELSE 1

(* The cpu_count passed on: a container's own to its members, 1 to the     *)
(* elements of a vector, whether it forks or not.                          *)
passed_on(p) == IF At(p).kind = "container" THEN cpu_count[p] ELSE 1

-----------------------------------------------------------------------------
Goto(p, label) == pc' = [pc EXCEPT ![p] = label]
WriteResult(p, chunk) == result' = [result EXCEPT ![p] = chunk]

(* The buffer of the caller is zeroed; the others are not there yet.       *)
Init ==
    /\ object \in Objects
    /\ hardware_concurrency \in Cores
    /\ pc = [p \in Paths(object) |-> IF p = <<>> THEN "call" ELSE "idle"]
    /\ \E n \in 0 .. MaxCpu :
          cpu_count = [p \in Paths(object) |-> IF p = <<>> THEN n ELSE 0]
    /\ result = [p \in Paths(object) |-> IF p = <<>> THEN ZeroChunk ELSE Garbage]
    /\ faults = 0

(* hash_tree_root of a basic value: its bytes only, the rest of the chunk  *)
(* is what it was.                                                         *)
Basic(p) ==
    /\ pc[p] = "call" /\ At(p).kind = "basic"
    /\ WriteResult(p, IF result[p] = ZeroChunk THEN Value(At(p).id, 0, 1)
                                               ELSE Garbage)
    /\ Goto(p, "ok")
    /\ UNCHANGED <<object, hardware_concurrency, cpu_count, faults>>

(* Nothing below a vector of basic values, roots or bits.                  *)
Enter(p) ==
    /\ pc[p] = "call" /\ At(p).kind \in {"packed", "roots", "bits"}
    /\ Goto(p, "hash")
    /\ UNCHANGED <<object, hardware_concurrency, cpu_count, result, faults>>

(* Mutant: the buffer for the chunks is reserved and not zeroed.           *)
EnterUninitialized(p) ==
    /\ pc[p] = "call" /\ Composite(At(p))
    /\ Goto(p, "members")
    /\ UNCHANGED <<object, hardware_concurrency, cpu_count, result, faults>>

(* A zeroed buffer for the chunks of the members or elements.              *)
EnterComposite(p) ==
    /\ pc[p] = "call" /\ Composite(At(p))
    /\ result' = [q \in DOMAIN result |-> IF q \in Parts(p) THEN ZeroChunk
                                                            ELSE result[q]]
    /\ Goto(p, "members")
    /\ UNCHANGED <<object, hardware_concurrency, cpu_count, faults>>

(* The next member or element, or, on some thread of a vector that forks,  *)
(* any element; those threads go on when one of them has failed.           *)
Start(p, q) ==
    /\ \/ pc[p] = "members"
       \/ pc[p] = "unwind" /\ ~one_by_one(p)
    /\ pc[q] = "idle"
    /\ Cardinality({r \in Parts(p) : Active(r)}) < at_once(p)
    /\ one_by_one(p) =>
          \A r \in Parts(p) : pc[r] = "ok" <=> Last(r) < Last(q)
    /\ cpu_count' = [cpu_count EXCEPT ![q] = passed_on(p)]
    /\ Goto(q, "call")
    /\ UNCHANGED <<object, hardware_concurrency, result, faults>>

Gathered(p) ==
    /\ pc[p] = "members" /\ \A q \in Parts(p) : pc[q] = "ok"
    /\ Goto(p, "hash")
    /\ UNCHANGED <<object, hardware_concurrency, cpu_count, result, faults>>

PartThrew(p) ==
    /\ pc[p] = "members" /\ \E q \in Parts(p) : pc[q] = "threw"
    /\ Goto(p, "unwind")
    /\ UNCHANGED <<object, hardware_concurrency, cpu_count, result, faults>>

(* Mutant: the exception leaves while elements are hashed on threads.      *)
UnwindWithoutJoin(p) ==
    /\ pc[p] = "unwind"
    /\ Goto(p, "threw")
    /\ UNCHANGED <<object, hardware_concurrency, cpu_count, result, faults>>

(* The futures wait for their threads before the exception goes on.        *)
Unwind(p) ==
    /\ pc[p] = "unwind" /\ \A q \in Parts(p) : ~Active(q)
    /\ Goto(p, "threw")
    /\ UNCHANGED <<object, hardware_concurrency, cpu_count, result, faults>>

(* What ParallelHash assumes of the vector it is asked to hash.            *)
Respected(p) ==
    LET n == Len(chunks(p))
    IN  /\ limit(At(p)) > 0 => n <= limit(At(p))
        /\ Tree(chunks(p))!TreeHeight(n, limit(At(p))) < zero_hash_depth

HashVector(p) ==
    /\ pc[p] = "hash" /\ Respected(p)
    /\ LET n == Len(chunks(p))
       IN  WriteResult(p, Tree(chunks(p))!Merkleize(1, 0, n, limit(At(p))))
    /\ Goto(p, IF IsList(At(p)) THEN "mix" ELSE "ok")
    /\ UNCHANGED <<object, hardware_concurrency, cpu_count, faults>>

HashUndefined(p) ==
    /\ pc[p] = "hash" /\ ~Respected(p)
    /\ Goto(p, "undefined")
    /\ UNCHANGED <<object, hardware_concurrency, cpu_count, result, faults>>

mix_in_length(p) ==
    /\ pc[p] = "mix"
    /\ WriteResult(p, Hash(result[p], Length(length(At(p)))))
    /\ Goto(p, "ok")
    /\ UNCHANGED <<object, hardware_concurrency, cpu_count, faults>>

(* A buffer cannot be allocated, or no thread be started for an element.   *)
Throws(p) ==
    /\ \/ pc[p] \in {"call", "hash"} /\ At(p).kind # "basic"
       \/ pc[p] = "members" /\ ~one_by_one(p)
    /\ faults < MaxFaults /\ faults' = faults + 1
    /\ Goto(p, IF pc[p] = "members" THEN "unwind" ELSE "threw")
    /\ UNCHANGED <<object, hardware_concurrency, cpu_count, result>>

Step(p) ==
    \/ Basic(p) \/ Enter(p) \/ EnterComposite(p)
    \/ \E q \in Parts(p) : Start(p, q)
    \/ Gathered(p) \/ PartThrew(p) \/ Unwind(p)
    \/ HashVector(p) \/ HashUndefined(p) \/ mix_in_length(p)

Terminating == pc[<<>>] \in Finished /\ UNCHANGED vars

Next == (\E p \in DOMAIN pc : Step(p) \/ Throws(p)) \/ Terminating

(* The threads are the operating system's: while some call can go on, one  *)
(* does.                                                                   *)
Spec == Init /\ [][Next]_vars /\ WF_vars(\E p \in DOMAIN pc : Step(p))

-----------------------------------------------------------------------------
(* The reference: hash_tree_root of the SSZ specification.                 *)

(* That of part p of o, given those of the parts right below it.           *)
RootOver(o, p, below) ==
    LET part == Part(o, p)
        leaves ==
            CASE part.kind \in {"packed", "roots"} -> ValueChunks(part)
              [] part.kind = "bits" ->
                   [c \in 1 .. CeilDiv(length(part), PerChunk(part)) |->
                       BitChunk({k \in 0 .. PerChunk(part) - 1 :
                           LET bit == PerChunk(part) * (c - 1) + k
                           IN  bit < length(part) /\ part.bits[bit + 1]})]
              [] OTHER -> [c \in DOMAIN part.elems |-> below[Append(p, c)]]
        body == Tree(leaves)!Subtree(Height(part), 1, 0, Len(leaves))
    IN  CASE part.kind = "basic" -> Value(part.id, 0, 1)
          [] IsList(part)        -> Hash(body, Length(length(part)))
          [] OTHER               -> body

AllRoots(o, below) == [p \in Paths(o) |-> RootOver(o, p, below)]

(* Entry n has the roots of the parts with less than n levels below them.  *)
RootsOf(o) ==
    LET roots[n \in Nat] == IF n = 0 THEN <<>> ELSE AllRoots(o, roots[n - 1])
    IN  roots

ReferenceRoots == [o \in Objects |-> RootsOf(o)[MaxDepth + 1][<<>>]]
Root(o) == ReferenceRoots[o]

-----------------------------------------------------------------------------
(* Properties.                                                             *)

(* Every variable has its type.  Chunks are left open.                     *)
TypeOK ==
    LET paths == Paths(object)
    IN  /\ object \in Objects /\ hardware_concurrency \in Cores
        /\ pc \in [paths -> Finished \cup {"idle", "call", "members",
                                    "unwind", "hash", "mix", "undefined"}]
        /\ cpu_count \in [paths -> 0 .. MaxCpu]
        /\ DOMAIN result = paths
        /\ faults \in 0 .. MaxFaults

(* Whatever an object is made of, the vectors its calls hash respect the   *)
(* limits they are given and the table of empty trees: what ParallelHash   *)
(* assumes, and no line of the library checks.  A bitlist as long as its   *)
(* limit does only because the byte of its sentinel goes (line 337).       *)
LimitsRespected == \A p \in DOMAIN pc : pc[p] # "undefined"

(* Threads that the vector of a call may have started for itself.          *)
Forking(p) ==
    /\ ~in_one_go(p)
    /\ \/ pc[p] = "hash"
       \/ At(p).kind = "objects" /\ pc[p] \in {"members", "unwind"}
Started(p) == IF Forking(p) THEN cpus(p) - 1 ELSE 0
Threads == UNION {{p} \X (1 .. Started(p)) : p \in DOMAIN pc}

(* All the calls inside one object together never have more threads than   *)
(* the outermost was given, or than the machine has cores: members are     *)
(* hashed one after the other, though each that is passed a 0 asks for all *)
(* the cores anew, and elements that run side by side fork no more.        *)
NestedThreadBound ==
    Cardinality(Threads) + 1 <= IF cpus(<<>>) = 0 THEN 1 ELSE cpus(<<>>)

(* A call that has returned or thrown left nothing running below it: the   *)
(* object, and the buffer of the chunks, may go.                           *)
NothingLeftBelow ==
    \A p, q \in DOMAIN pc :
        pc[p] \in Finished /\ IsStrictPrefix(p, q) => ~Active(q)

(* What holds at every step, and implies the properties above.             *)

RootAt(p) == RootsOf(object)[MaxDepth + 1 - Len(p)][p]

(* Who has no parts does not wait for any; a basic value is no vector.     *)
Places(p) ==
    /\ pc[p] \in {"members", "unwind"} => Composite(At(p))
    /\ pc[p] = "hash" => At(p).kind # "basic"
    /\ pc[p] # "undefined"

(* A part is called by the one above it, which waits while it is at work.  *)
Called(q) ==
    pc[q] # "idle" =>
        /\ pc[Front(q)] \notin {"idle", "call"}
        /\ cpu_count[q] = passed_on(Front(q))
        /\ Active(q) => pc[Front(q)] \in {"members", "unwind"}

OneAtATime(p) ==
    At(p).kind = "container" =>
        \A q, r \in Parts(p) : Active(q) /\ Active(r) => q = r

(* The chunk of a part that has not begun is still zero.                   *)
Zeroed(q) ==
    (\/ pc[q] = "call"
     \/ q # <<>> /\ pc[q] = "idle" /\ pc[Front(q)] \in {"members", "unwind"})
        => result[q] = ZeroChunk

Complete(p) ==
    pc[p] \in {"hash", "mix", "ok"} => \A q \in Parts(p) : pc[q] = "ok"

Correct(p) ==
    /\ pc[p] = "ok" => result[p] = RootAt(p)
    /\ pc[p] = "mix" => /\ IsList(At(p))
                        /\ Hash(result[p], Length(length(At(p)))) = RootAt(p)

Failed(p) == pc[p] \in {"unwind", "threw"}

IInv ==
    /\ TypeOK
    /\ \A p \in DOMAIN pc :
          /\ Places(p) /\ OneAtATime(p) /\ Zeroed(p) /\ Complete(p) /\ Correct(p)
          /\ p # <<>> => Called(p)
    /\ pc[<<>>] # "idle"
    /\ faults > 0 <=> \E p \in DOMAIN pc : Failed(p)

(* The call implements the promise of HashTreeRoot: it ends, with the root *)
(* of the SSZ specification for the whole object, or with an exception if  *)
(* anything failed in any of its parts, on whichever thread.               *)
Promise == INSTANCE HashTreeRoot WITH
    Calls   <- Objects,
    RootOf  <- Root,
    request <- object,
    status  <- CASE pc[<<>>] = "ok"    -> "returned"
                 [] pc[<<>>] = "threw" -> "threw"
                 [] OTHER              -> "running",
    failed  <- faults > 0,
    root    <- IF pc[<<>>] = "ok" THEN result[<<>>] ELSE ZeroChunk

ImplementsPromise == Promise!Spec
=============================================================================
