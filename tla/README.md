# Verification of ssz++

TLA+ models of [ssz++](../src/README.md), a header-only C++23 library that
serializes, deserializes and Merkleizes the objects of the Ethereum consensus
layer (SSZ), with the runs that model-check them and the theorems that are
proved about them. Line numbers are those of the headers in `src/lib`.

## The system

The library keeps no state between calls, except one table. Its calls are
nested: a container calls the codec of its members, the hash of a list calls
the hash of a vector, and the hash of a long vector calls itself on another
thread. What is hard in it is the concurrency of the hash, and the sequential
algorithms with several cursors in one buffer.

| Component | State it keeps | Operations | Interacts with | Hard behaviour | What makes it correct |
|---|---|---|---|---|---|
| logarithms (`math.hpp`) | none | `log2ceil` | heights of all trees | 0, powers of two | least height of a tree with n leaves |
| empty trees (`merkleize.hpp` 83-94) | `zero_hash_array`, 42 entries, initialised once per translation unit | lookup | both hash algorithms | index past the end, static initialisation | entry h is the root of the empty tree of height h |
| sequential merkleization (`sparse_hash_tree`, 96-186) | the buffer of all layers and two iterators, per call | sizes the buffer, hashes the leaves, then layer by layer | called by `hash_tree_root` below the thresholds | odd layers, a last chunk that is not whole, no chunk at all, limits above the data | buffer exactly filled, last chunk the root |
| parallel `hash_tree_root` of vectors (222-309) | per activation: parameters, `two_blocks` on the heap, a future | split in two, `std::async`, join, raise to the height of the limit | activations share `two_blocks` by reference; exceptions cross threads through futures | every interleaving; failing allocations and thread launches; lifetime of captured references; `cpu_count` 0 means all cores | the root is that of the sequential definition, or the exception arrives; threads are bounded and joined |
| `hash_tree_root` of lists, bitsets, basic values, containers (205-210, 291-352; `container.hpp` 185-208) | a zeroed buffer of the roots of the parts, per call | mixes in lengths, converts limits to chunks, removes sentinels, hashes members one after the other, elements of a long vector on threads | calls the two above, and itself down the object | limits in chunks, `cpu_count` 0 at every level, an exception of an element while others are hashed | root of the SSZ type, threads bounded over the whole object, nothing left running |
| container codec (`container.hpp` 46-160) | per call: two cursors to write, one and a list of offsets to read | `SSZ_CONT`: size, `serialize`, `deserialize` | the codecs of the members | two cursors in one buffer, two passes over the members, sizes taken from the object read into | layout is the SSZ encoding, round trip |
| lists and vectors (`lists.hpp` 34-207, 281-383) | `ssz::list`: a `std::vector` with a limit that nothing enforces | size, `serialize`, `deserialize` | the codecs of the elements; written in the middle of a container's buffer | the table of offsets, number of elements read from the first offset, lost bytes | layout, round trip; of a list that lost its end, what arrived in full is read where it was |
| bit sequences (`lists.hpp` 109-122, 209-276, 385-421) | none | size, `serialize`, `deserialize` of bitlists and bitvectors | used as members | sentinel at byte boundaries, buffers in use, the limit | round trip at every length |
| basic types, concepts (`basic_types.hpp`, `concepts.hpp`) | none | conversion; fixed or variable size | everything | whatever has no `variable_size` counts as fixed size, a `std::vector` or an array of lists too | what counts as fixed has one size |
| hexadecimal and YAML decoding (`bytelists.hpp`, `bitlists.hpp`, `container.hpp` 162-182, end of `lists.hpp`) | none | reads values, and whole containers, from text | yaml-cpp | in place, member after member; the comma fold drops results; room counted in characters, bytes and bits | what is written in full is read exactly, what is refused changes nothing and is heard of |
| beacon chain types (13 headers) | none | declarations of containers | all of the above | limits of lists as high as 2^40 | base classes fit the members, heights below 42 |
| hashtree, intx, yaml-cpp, snappy | external | | | | |

## Modules

| Module | Models | Checked by |
|---|---|---|
| `Merkle` | logarithms, `zero_hash_array`, and the reference definition of an SSZ Merkle tree over an abstract `Hash` | `MerkleProofs`, all hash runs |
| `HashTreeRoot` | abstract specification: what a hash call promises, for whatever can be asked (`Calls`) and its reference root (`RootOf`) | refined by the next three |
| `SparseHashTree` | `sparse_hash_tree`, `compute_hashtree_size`, `hash_first_layer` | `MCSparseHashTree`, `SparseHashTreeProofs` |
| `ParallelHash` | the three forking overloads of `hash_tree_root` | `MCParallelHash`, `ParallelHashProofs` |
| `ObjectRoot` | `hash_tree_root` of a whole object: all the other overloads, calling each other | `MCObjectRoot`, `ObjectRootProofs` |
| `BeaconTypes` | the containers of the beacon chain, as data | `MCTypeWalk` |
| `TypeWalk` | what the library derives from a type: height of its tree, fixed or variable size | `MCTypeWalk` |
| `ContainerCodec` | `SSZ_CONT` serialize and deserialize | `MCContainerCodec`, `ContainerCodecProofs` |
| `ListCodec` | vectors, arrays and lists | `MCListCodec`, `ListCodecProofs` |
| `Bitlist` | bitlists and bitvectors | `MCBitlist`, `BitlistYamlProofs` |
| `YamlDecode` | `YAML_CONT`, hexadecimal text, bitlists, bitsets and lists in YAML | `MCYamlDecode`, `BitlistYamlProofs` |
| `NatRecursion` | functions defined by recursion on the naturals exist and unfold; where sequences written one after the other lie | proved there |
| `MerkleProofs`, `SparseHashTreeProofs`, `ParallelHashProofs`, `BitlistYamlProofs`, `ContainerCodecProofs`, `ListCodecProofs`, `ObjectRootProofs` | lemmas and theorems | `tlapm` |

How state and actions correspond to the code:

* **Data is abstract, control is not.** A 32-byte chunk is a term: `Chunk(lo,
  end)` of the elements it holds, or `Hash` of two terms. Two roots are equal
  only if they are the same tree. In the codecs a byte is a record that names
  the member or element and its position, so a byte in the wrong place is
  always noticed; an offset is the sequence of the bytes of a word, and what
  other bytes give when read as an offset is any number.
* **`SparseHashTree`.** `ret` is the buffer, `first` and `last` the iterators
  in chunks, `pc` the place in the function: `Allocate` (175-185) sizes the
  buffer, `FirstLayer` hashes the bytes of the input, `NextLayer` is a turn of
  the loop at 157. Writing outside the buffer violates `BufferExact`.
* **`ParallelHash`.** A frame is an activation of the recursive function.
  Frame k runs frame 2k on its own thread (its first half) and starts frame
  2k+1 with `std::async`. `arg[k]` holds its parameters, `result[k]` the 32
  bytes it writes, a half of the `two_blocks` of frame k div 2; `heap` is the
  set of frames whose `two_blocks` is allocated. `Sequential` is the path below
  the thresholds, whose result is the reference root: that is what
  `SparseHashTree` shows. `Allocate`, `Async`, `FirstReturned`, `Get`, `Raise`
  and `Return` follow the lines of the function; `...Throws`, `FirstThrew` and
  `Unwind` are its exceptions: a future is destroyed before `two_blocks`, and
  the destructor of a future of `std::async` waits for its thread. `Raise` is
  one turn of the loop at 246, so that its writes interleave with those of
  other threads.
* **`ObjectRoot`.** An object is a tree of parts; a path from the outermost
  one names a part and its call. `Enter...` allocates the buffer of the roots
  of the parts, `Start` is the call for the next member or element, or, of a
  vector that forks, for any element that a thread comes to. `HashVector` is
  the call of the overload for vectors, one step: `ParallelHash` shows what it
  does if the vector respects its limit and the table of empty trees, and
  `HashUndefined` is what is left if it does not. `limit`, `hashed_bytes`,
  `in_one_go` and `passed_on` are the computations the overloads make. The
  bytes of a bitlist are those of `Bitlist`. `Throws` is a failing allocation
  or thread launch, `Unwind` the wait for the threads before the exception goes
  on.
* **`TypeWalk`** goes through a type as `_container_hash` and the hash of the
  elements do, and says at every part which height is asked for and whether
  the concepts take it for fixed size. **`BeaconTypes`** has the constants of
  the library as they are; limits, all powers of two, by their exponents.
* **`YamlDecode`.** One action is one member of `yaml_decode_container`, with
  the conversion its type selects. A byte is the pair of its hexadecimal
  digits, a text the characters after `0x`. What yaml-cpp does is assumed: a
  missing member throws, a node of another kind is not decoded, a number is a
  text without `0x` where a text is wanted, a sequence is decoded element by
  element into a vector that replaces the list at the end.
  `Documents` and `Objects` are the documents and earlier objects there may be
  for a container.
* **`ContainerCodec`.** One container is serialized into a buffer, then
  deserialized into another one of the same type, which may hold anything. One
  action is the visit of one member by the lambda of `serialize`, of
  `deserialize_fixed_size_members`, or of `deserialize_variable_size_members`.
  Members are "array" (size fixed by the type), "vector" (`std::vector`, fixed
  size for the library but not for its type) or "list". `held` is the sizes of
  the target's members before the call, which is what the reader goes by. A
  fixed-size member for which there are too few bytes (`DeserializeShort`) does
  not stop the reader: a vector becomes shorter, other members keep or clear
  the rest, and the cursor stops at the end. An access outside the buffer ends
  in `"undefined"`, an exception in `"threw"`.
* **`ListCodec`.** The same for elements, in a buffer that `serialize` sizes or
  in the middle of one of the caller's, and with a reader that may have lost
  bytes at the end. Basic elements are one copy, others one action each. The
  `deserialize` of an element gives the element back from the bytes that its
  own `serialize` wrote, as this module, `Bitlist` and `ContainerCodec` show of
  theirs. From other bytes it may give an element that they encode or another
  one (`ElementsOf`: a bitlist without its last byte ends at the highest bit
  left), throw, or be undefined (`ElementFaults`: an empty bitlist). An object
  of which only a part arrived throws if its basic values lack bytes
  (`ChunkThrows`) and otherwise keeps or clears the rest (`ChunkCompleted`: a
  `std::bitset`, an array of objects).
* **`Bitlist`.** A byte is the set of its bits that are 1. The buffer, which a
  caller may provide, was zero or not before.

The hash modules are composed by what they promise. `SparseHashTree`
implements `HashTreeRoot` for a buffer; `ParallelHash` has that as its step
`Sequential` and implements `HashTreeRoot` for a vector; `ObjectRoot` has that
as its step `HashVector` and implements `HashTreeRoot` for an object.
`ParallelHash` assumes that vectors respect their limits and that no tree is
higher than the table: `LimitsRespected` shows that `ObjectRoot` only asks for
such, and `TablesSuffice` that the types of the beacon chain do.

`ContainerCodec` takes the bytes of a member as given; `ListCodec` and
`Bitlist` show that a list or bitlist is its encoding, of the size announced,
touches nothing around it and is read back, which is what a container, or a
list of such objects, needs of its parts at every depth of nesting.
`YamlDecode` takes a bit sequence for the bytes of its encoding, and says which
bytes a text gives: `DecodedBitlist` proves that for a bitlist these are the
bytes that `Bitlist` writes after reading those of the text. This is why the
two have their proofs in one module.

## Runs

| Run | Question | Properties | Bounds, and why they are enough |
|---|---|---|---|
| `sparse_hash_tree` | is the buffer exact and every layer right? | `TypeOK`, `BufferExact`, `LayerCorrect`, `IInv`, `ImplementsPromise` | chunks of 2 bytes, 0 to 18 bytes: 0 to 9 chunks, each with a whole and a partial last chunk; limits at, below and above powers of two. Nine chunks have odd layers at every height. |
| `parallel_objects` | is the result right, are threads bounded and joined, buffers alive and exceptions delivered, in every interleaving? | `TypeOK`, `BlocksOutliveWriters`, `JoinedBeforeReturn`, `ThreadBound`, `HalvesCorrect`, `IInv`, `ImplementsPromise` | up to 9 elements with `cpu_count` 0 to 4 on 1, 3, 4 or an unknown number of cores: two levels of forks; two failures anywhere, so that both halves of a fork may throw. |
| `parallel_packed` | do thresholds, split and limits agree when elements are smaller than a chunk? | `ThreadBound`, `HalvesCorrect`, `ImplementsPromise` | one or two elements to a chunk, 7 to 33 elements around the threshold and the powers of two, 8 cpus: three levels of forks; one failure. |
| `object_root` | is the root of a whole object right, whatever is nested in what and whatever fails; do all its calls together keep to the cpus; is nothing left running? | `TypeOK`, `IInv`, `LimitsRespected`, `NestedThreadBound`, `NothingLeftBelow`, `ImplementsPromise` | chunks of 2 bytes of 2 bits. Bitlists of every length from 0 to their limits 8 and 9, around the boundaries of bytes and chunks, bitsets of 1 to 9 bits, lists of values and roots empty, below and at their limits; an object like a beacon state, and a vector that forks over elements that would. 0, 1 or 3 cores, `cpu_count` 0 to 3, two failures. `MaxDepth` and `MaxWidth` bound the set of sequences among which paths are looked for; no object reaches further. |
| `type_walk` | do the types of the beacon chain satisfy what the code does not check? | `TypeOK`, `TablesSuffice`, `SizesDeclared` | none: the four outermost types with the constants of the library, part by part |
| `yaml_decode` | is what is written in full read exactly, what is refused kept and reported, and nothing accessed out of bounds? | `YamlTypeOK`, `WellFormedDecoded`, `RefusedKept`, `RefusalHeard`, `NoOverrun` | pairs of members, every kind first and last; texts of 0 to 3 bytes with and without `0x`, of odd length, with a letter that is no digit; numbers where a text is wanted and the other way round; sequences of up to two elements, each good or bad; fresh and used objects. Two members show what the fold drops and what an exception leaves. |
| `container_codec` | is the layout the SSZ encoding, do the passes of the reader meet, does the container come back? | `TypeOK`, `LayoutExact`, `PassesMeet`, `RoundTrip` | every order of up to three members of the three kinds, each of 0 to 2 bytes, and every earlier value of the target by size. Three members have a list before, between and after fixed ones. 9 values of `uint32_t`, so that the largest containers overflow it. |
| `container_fresh_vector` | does a `std::vector` come back in a fresh object? | `RoundTripFresh`, violated | as above |
| `list_codec` | is a list its encoding wherever it starts, does it come back, and what is read of it if its end is lost? | `TypeOK`, `LayoutExact`, `RoundTrip`, `ArrivedIntact` | up to three elements of 0, 1, 3 or 10 bytes, or of one width; 10 values of `uint32_t`, so that sums wrap before the last element, and an element of 10 bytes wraps an offset onto a later one that is in range; up to 4 bytes lost, more than an element and than an offset. |
| `list_of_vectors` | does a list of `std::vector`s come back? | `VectorsRoundTrip`, violated | as above |
| `bits_codec` | is a bit sequence read back, at every length? | `TypeOK`, `RoundTrip`, `SizeExact` | bytes of 3 bits, up to 7 bits: before, at and after two byte boundaries; every value of the bits; clean and dirty buffers. |
| `full_bitlist` | is every bitlist within its limit read back? | `WithinLimitReadable`, violated | as above |

The properties, in words, stand before each definition. Every one is broken by
at least one plausible bug, an operator marked "Mutant" beside the definition
it would replace; `PROJECT.json` pairs them.

What the runs of `YamlDecode` exclude, because the code does otherwise and no
document says what it should do: `"0x"` decoded over a byte list that is not
empty leaves it as it was (`bytelists.hpp:110`); the limits of lists are not
checked; a bitlist without a byte reads in front of its vector
(`lists.hpp:402`); a character that is no digit counts as 0; a text shorter
than an array leaves its last bytes. They are in the definitions of
`WellFormed`, `Refused` and `NoOverrun`, and among the hazards.

The three violated properties are what the documentation promises and the code
does not do:

* `WithinLimitReadable`: `deserialize` of `ssz::list<bool, N>` (`lists.hpp:419`)
  compares N with the bits of all the bytes, sentinel and padding included, and
  refuses lists that are within their limit.
* `RoundTripFresh`: the size of a `std::vector` member is taken from the object
  deserialized into (`container.hpp:123`), which is empty in the use that
  `src/README.md:79-89` shows.
* `VectorsRoundTrip`: the size of the elements of a list is taken from a
  value-initialised one (`lists.hpp:292-294`); of a `std::vector` it is 0, and
  divided by.

## Fairness

`ParallelHash` assumes weak fairness of `Step(k)` for every frame k: a thread
of the operating system that can go on eventually does. Failures have no
fairness: none ever has to happen. The sequential modules assume weak fairness
of `Next`: a function that was called runs. `ObjectRoot` assumes weak fairness
of the step of some call: as long as one of the threads at work can go on, one
does. Which one is left open, so this is less than the fairness of every
thread. The abstract `HashTreeRoot` has
weak fairness of returning, or of throwing after a failure.

## Proofs

Everything below is proved for every value of the constants. The assumptions
are `ZeroHashDepthAssumption`; `ParallelAssumption`: chunk and element sizes
are powers of two, the vector respects its limit, and no tree is as high as
`zero_hash_array` is long; `SparseAssumption`: the same of buffers; and
`BitlistAssumption`: bytes have bits. The library checks neither the limit nor
the height; the runs `object_root` and `type_walk` show that its own calls, and
the types it comes with, respect them. `CodecAssumption` and `ListAssumption`
say that members and elements are sequences of some kind each, and that an
offset has at least one byte; nothing bounds their number or size, so that the
theorems hold of containers and lists that overflow `std::uint32_t` wherever
their statements do not exclude them. `ObjectAssumption` says that the parts of
the objects are what their types say: values fill chunks, a list is within its
limit, and the least tree with room for what the type allows is lower than the
table. It does not say that the limits in chunks, or the trees that the library
asks for, are those of the types: that is proved. `MaxDepth` and `MaxWidth` may
be any numbers that bound how deep and wide the objects are. `YamlAssumption`
says that a container has at least one member (the fold over none does not
compile), that bitsets fill their last byte, that a document has some node of
yaml-cpp for every member (or none: `Missing`), and that the earlier object has
values of its types; it bounds neither texts nor sequences nor lengths.

1. `NatRecursion` proves that a function defined by recursion on the naturals
   exists and satisfies its equation (`RecursionExists`, `RecursionUnfolds`):
   the library's theorem on it takes an operator as a parameter, which the
   provers cannot instantiate. By it `Pow2`, `ZeroHash`, `Node`, `layers` and
   the sums of lengths of the codecs unfold, and induction is by sets. It also
   proves where `FlattenSeq` puts each of its sequences (`AreFlat`): behind the
   sum of the lengths before it.
2. `MerkleProofs`: `Log2Ceil` (the least height), `HalfOfBitCeil` (the split is
   a power of two and leaves no half empty), `NodeSplit` (a tree is the hash of
   the trees of its two halves), `NodeRaised` (a tree at most half full is the
   hash of its left half and an empty tree), and arithmetic.
3. `SparseHashTreeProofs`: the inductive invariant `IInv` of `sparse_hash_tree`
   and what follows from it.
4. `ParallelHashProofs`: the same for the forking overloads.
5. `BitlistYamlProofs`: the same for bit sequences, and for reading a container
   from a document; and that the two agree on what a bitlist in a document is.
6. `ContainerCodecProofs`: the inductive invariant of both cursors of the
   writer and of the two passes of the reader, and what follows from it.
7. `ListCodecProofs`: the same for the elements of lists and vectors, and that
   what arrived of an encoding is read where it was.
8. `ObjectRootProofs`: the inductive invariant of all the calls inside an
   object, for any nesting, and what follows from it.

**`SparseHashTree`.** `LayerCorrect` says what the layer just written holds,
`BufferExact` that it is inside of the buffer. Neither is inductive: that the
next layer still fits needs `RoomLeft`, by which the room behind a layer is
that of exactly the layers above it (`layers`, the loop of
`compute_hashtree_size`, counted from the layer at hand), and `Sized`, by which
the buffer keeps its size. At the last layer `RoomLeft` says that no room is
left, so the root is the last chunk, which is `Rooted`. The steps of the proof
are `CeilDivTwice` (rounding up layer by layer is rounding up once),
`FirstLayerCorrect` (in place or through the copy, a pair of chunks gives the
subtree above it) and `NextLayerCorrect` (so does an odd last chunk with the
entry of the table for its height).

**`ParallelHash`.** `HalvesCorrect` alone is not inductive. When a frame joins
its halves, their results are right for *their* arguments; that these are the
two halves of the frame's own needs `Shared`. That the split is possible at all
needs `Asked` (a half respects its limit, trees fit in the table, frame numbers
stay in range because cpus are halved). That both halves are finished, and the
thread of the last half cannot write any more, needs `Family`, which relates
the places of three frames. That their buffer still exists needs `Held`. That
the loop continues at the height at which the halves were joined needs
`Raising`. `Thrown` says that an exception on its way to the caller is held by
a frame that waits for it; without it a root could be returned after a failure.
`ThreadBound` follows from a count: by `Asked`, frame k has so many cpus that
the frames below it are numbered below twice the cpus of the outermost one, and
only every other number is a thread.

**`Bitlist`.** `Encoded` says that a buffer that is overwritten holds the
encoding of the bits, whatever it held; `RoundTrip` and `SizeExact` follow from
what `deserialize` makes of an encoding (`BitlistBack`, `BitvectorBack`), the
length of a bitlist from `SentinelHighest`. `ReadEncoded` is the other
direction, for bytes that need not come from `serialize`: what is read of them
is written as they were, but for a last byte of zero, which becomes the
sentinel.

**`YamlDecode`.** The properties speak of members passed, of the member at hand
and of those not reached. What relates them is `YamlIInv`: a member that was
passed is what its own node and earlier value make of it alone
(`MembersDecoded`), the others are untouched; the call only fails on a member
that is not written in full (`FailsOnBad`); what the last conversion returned
tells whether its node was of the right kind (`LastHeard`). Two lemmas say what
a step does to it: one for a conversion that returns (`ReturnedStep`), one for
what ends the call (`EndsStep`). What is left to show for each action is about
one member: that the conversion gives what `MemberDecoded` asks
(`ArrayDecoded`, `BytesDecoded`, `BitsetDecoded`, `BitlistDecoded`,
`ListDecoded`), or that a member in full would have been accepted
(`ArrayAccepted` and the like). They rest on `DigitValue` (the table inverts the
digits, capitals or not, and takes no other digit than 0 for 0), `BytesEncoded`
(a text of digits of any length is that of the bytes read from it) and
`AcceptedFits` (a text that is accepted has an even number of characters and no
more bytes than there is room for, in the range given and in a vector sized by
the text). The bitlist without a byte is the one text that is accepted and read
out of bounds.

**`ContainerCodec`.** `LayoutExact` says what the buffer is at the end. What is
inductive is what it is at every member: `Cursors` has the two cursors at the
sums of the lengths of the members written, `Layout` the bytes behind them equal
to those of the encoding and all others still zero. In the reader `FirstPass`
has the list of offsets at one entry for each list passed, `SecondPass` the
index into it at the number of lists before the member; together they say that
the two passes name the same list with the same offset, which is `PassesMeet`.
`RoundTrip` is that every member read so far is the one written.

**`ListCodec`.** `IInv` says of the writer where its cursors are and which
part of the buffer holds the encoding (`BufferOK`, `CursorsOK`, `Complete`), of
the reader which elements it has (`Chunks`), which offsets and ends it has taken
from the table (`Offsets`, `Ends`), and that no access was outside
(`NoFault`). `ArrivedIntact` follows at the end of the call: `Ends` has every
variable-size element that got its own bytes in its place, and an element that
arrived in full did, because the offsets on both sides of it are those of the
encoding; for basic values and vectors of objects, `FixedBytes` says that the
elements read are all of the bytes received, none of them in part.

**`ObjectRoot`.** A call knows only the one it was made from and those it makes,
and `IInv` relates just these: a part at work has a caller that waits (`Called`),
a container has one member at work (`OneAtATime`), the chunk of a part that has
not begun is zero (`Zeroed`, which a basic value needs: it writes its own bytes
only), and a call that hashes has all its parts behind it (`Complete`). The
properties are about calls far apart. `NothingLeftBelow` follows up the path:
whoever is at work has callers that wait up to the object itself (`AllWait`).
`NestedThreadBound` follows because a call that is not told to keep to one cpu
lies below containers only (`BelowContainers`), which hash one member at a time,
so that of two calls that fork one would be above the other and both be waiting
and hashing (`OneForks`). That what is hashed is right, `Correct`, needs no more
of the other calls than that their chunks are the roots of their parts, but it
needs what the overloads compute: `HashedBytes` (whatever a bitlist ends with,
removing the sentinel leaves the bytes of its bits alone, the last byte too if
it had nothing else), `LimitOfType` and `TreeOfType` (limits in chunks give the
tree of the type, for values of any size) and `RootOfVector`. `LimitsRespected`
is a consequence of the same lemmas. The reference is a recursion on the depth
of parts, unfolded by `RecursionUnfolds`.

| Module | Theorem | Says |
|---|---|---|
| `SparseHashTreeProofs` | `Invariance`, `TypeCorrect` | `Spec => []IInv`; types, the layer lies inside the buffer |
| | `BufferSized` | the buffer is exact |
| | `LayersCorrect` | every layer holds the roots of its subtrees |
| | `KeepsPromise` | it refines the safety part of `HashTreeRoot` |
| `ParallelHashProofs` | `Invariance`, `TypeCorrect` | `Spec => []IInv`; types, frames never outgrow the cpus |
| | `RootsCorrect` | every half consumed, and the answer, is the reference root |
| | `BuffersOutliveWriters` | no thread writes into a freed `two_blocks` |
| | `ThreadsBounded` | never more threads than `cpu_count` or cores |
| | `ThreadsJoined` | nothing runs below a frame that returned or threw |
| | `KeepsPromise` | it refines the safety part of `HashTreeRoot` |
| `BitlistYamlProofs` | `TypeCorrect` | types; a bitset keeps its length |
| | `ComesBack` | round trip, at every length |
| | `SizesExact` | the size announced is the size written |
| | `YamlInvariance`, `YamlTypeCorrect` | `YamlSpec => []YamlIInv`; types, arrays and bitsets keep their lengths |
| | `DecodesWellFormed` | a member in full is decoded to what is written, whatever is around it |
| | `KeepsRefused` | what is refused or not reached keeps its value |
| | `HearsRefusal` | no bad text or missing member passes in silence |
| | `StaysInBounds` | no access out of bounds, but for the bitlist without a byte |
| | `DecodedBitlist` | a bitlist in a document is what `Bitlist` reads and writes |
| `ContainerCodecProofs` | `Invariance`, `TypeCorrect` | `Spec => []IInv`; types, and the writer's cursors keep to their parts of the buffer if its length fits in 32 bits |
| | `SerializesExactly` | the bytes written are the SSZ encoding |
| | `FirstPassSuffices` | the second pass finds the offsets the first one left |
| | `ComesBack` | round trip, whatever the target held |
| `ListCodecProofs` | `Invariance`, `TypeCorrect` | `Spec => []IInv`; types, no element is written past the size announced |
| | `SerializesExactly` | the bytes written are the encoding, and nothing around them changes |
| | `KeepsWhatArrived` | of bytes that lost their end and are accepted, the elements that arrived in full are in their places |
| | `ComesBack` | round trip |
| `ObjectRootProofs` | `Invariance`, `TypeCorrect` | `Spec => []IInv`, types |
| | `LimitsKept` | every vector hashed respects its limit and the table |
| | `NothingOutlives` | nothing runs below a call that returned or threw |
| | `NestedThreadsBounded` | all calls together keep to the cpus of the outermost |
| | `KeepsPromise` | it refines the safety part of `HashTreeRoot` |

Only model-checked: liveness (the fairness part of `ImplementsPromise`), and
everything about `TypeWalk`. Out of the prover's reach are liveness under
fairness, `ENABLED`, and recursion over types (`OneSize`). `BeaconTypes` has no
parameters: what `type_walk` checks, with the constants of the library, is
checked for all there is.

## Not modelled, and why

* The hash function, byte order and the conversion of basic values: data. The
  big-endian branches would be the same control with another conversion.
* Writing YAML and hexadecimal text, characters beyond 127, and containers
  nested in a document: nesting repeats the same walk.
* Lists beyond their limits (`push_back`, `data()` and the constructors allow
  them, `lists.hpp:56`): no document says what their root or encoding is.
* Deserialization of bytes that were not written by `serialize`, other than
  with their end lost: what the code should do with them is not documented. Of
  a list that lost its end, what becomes of the element that lost bytes is left
  to its type, and no property speaks of it: the code reads a bitlist without
  its sentinel as a shorter one (`lists.hpp:402-404`).
* Texts with `0x` where a number is wanted: yaml-cpp reads hexadecimal numbers
  from some of them.
* Failing allocations in the codecs, which only propagate to the caller, and
  the initialisation order of `zero_hash_array` across translation units.
* `deserialize<T>` by value or on the heap (`ssz++.hpp`): they call the modelled
  one on a fresh object. Tests, benchmarks, build files.

## Plan

Done, in this order: hash trees (`Merkle`, `SparseHashTree`, `ParallelHash`),
because there are threads; the codecs (`ContainerCodec`, `Bitlist`,
`ListCodec`); the composition of the hash over whole objects (`ObjectRoot`) and
the types that discharge its assumptions (`BeaconTypes`, `TypeWalk`); reading
text (`YamlDecode`); the proofs of the hash and bit algorithms, of the codecs,
of the hash of whole objects and of reading text. What is left:

1. Containers nested in a document, which repeat the walk of `YamlDecode`.
2. The order in which `zero_hash_array` and other static objects of several
   translation units are initialised (`merkleize.hpp:94`).
