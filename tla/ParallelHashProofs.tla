------------------------- MODULE ParallelHashProofs -------------------------
(***************************************************************************)
(* The safety of ParallelHash, for every machine, vector and limit, and    *)
(* any number of failures.                                                 *)
(***************************************************************************)
EXTENDS ParallelHash, MerkleProofs, FiniteSetTheorems

-----------------------------------------------------------------------------
(* Arithmetic of the split.                                                *)

(* IsPowerOf2 without the bound on the exponent.                           *)
LEMMA PowerOf2 ==
    ASSUME NEW n, IsPowerOf2(n)
    PROVE  \E e \in Nat : n = Pow2[e]
BY DEF IsPowerOf2

(* The elements to a chunk are a power of two too.                         *)
LEMMA PerFacts ==
    ASSUME request \in Requests
    PROVE  /\ request \in RequestType
           /\ BYTES_PER_CHUNK \in Nat \ {0}
           /\ per \in Nat \ {0}
           /\ BYTES_PER_CHUNK = request.sizeof * per
           /\ \E e \in Nat : per = Pow2[e]
           /\ ~request.basic => per = 1
           /\ per <= BYTES_PER_CHUNK
<1>1. /\ request \in RequestType /\ BYTES_PER_CHUNK \in Nat \ {0}
      /\ IsPowerOf2(BYTES_PER_CHUNK) /\ IsPowerOf2(request.sizeof)
      /\ request.sizeof <= BYTES_PER_CHUNK
      /\ ~request.basic => request.sizeof = BYTES_PER_CHUNK
  BY ParallelAssumption
<1>2. PICK c \in Nat : BYTES_PER_CHUNK = Pow2[c]
  BY <1>1, PowerOf2
<1>3. PICK b \in Nat : request.sizeof = Pow2[b]
  BY <1>1, PowerOf2
<1>4. request.sizeof \in Nat \ {0}
  BY <1>1 DEF RequestType
<1>5. b <= c
  <2>1. CASE c < b
    <3>1. Pow2[c + 1] <= Pow2[b]
      BY <2>1, Pow2Monotone
    <3> QED BY <3>1, <1>1, <1>2, <1>3, Pow2Next, Pow2Type
  <2> QED BY <2>1
<1>6. c - b \in Nat /\ b + (c - b) = c
  BY <1>5
<1>7. BYTES_PER_CHUNK = request.sizeof * Pow2[c - b]
  BY <1>2, <1>3, <1>6, Pow2Product
<1>8. Pow2[c - b] \in Nat \ {0}
  BY <1>6, Pow2Type
<1>9. per = Pow2[c - b]
  <2>1. ASSUME NEW s \in Nat \ {0}, NEW q \in Nat PROVE (s * q) \div s = q
    OBVIOUS
  <2> QED BY <2>1, <1>4, <1>7, <1>8 DEF per
<1>10. per <= BYTES_PER_CHUNK
  <2>1. ASSUME NEW s \in Nat \ {0}, NEW q \in Nat PROVE q <= s * q
    OBVIOUS
  <2> QED BY <2>1, <1>4, <1>7, <1>8, <1>9
<1>11. ASSUME ~request.basic PROVE per = 1
  <2>1. ASSUME NEW s \in Nat \ {0} PROVE s \div s = 1
    OBVIOUS
  <2> QED BY <2>1, <1>1, <1>11, <1>4 DEF per
<1> QED BY <1>1, <1>6, <1>7, <1>8, <1>9, <1>10, <1>11

(* A vector that is split has a first half of 2^h whole chunks and a last  *)
(* half that fits in as many; together they take a tree of height h + 1.   *)
SplitHeight(k) == log2ceil(chunk_size(k))

(* The split: half_size is a whole number of chunks, a power of two of     *)
(* them, and leaves both halves nonempty.                                  *)
LEMMA Split ==
    ASSUME TypeOK, NEW k \in Frames, ~in_one_go(k)
    PROVE  /\ SplitHeight(k) \in Nat
           /\ chunk_size(k) = Pow2[SplitHeight(k)]
           /\ half_size(k) = per * chunk_size(k)
           /\ half_size(k) \in Nat \ {0}
           /\ half_size(k) < arg[k].size
           /\ arg[k].size <= 2 * half_size(k)
           /\ CeilDiv(half_size(k), per) = chunk_size(k)
           /\ CeilDiv(arg[k].size - half_size(k), per) <= chunk_size(k)
           /\ chunk_size(k) < CeilDiv(arg[k].size, per)
           /\ log2ceil(CeilDiv(arg[k].size, per)) = SplitHeight(k) + 1
<1> DEFINE n == arg[k].size
           a == log2ceil(n) - 1
           B == BYTES_PER_CHUNK
           s == request.sizeof
<1>1. n \in Nat /\ request \in Requests
  BY DEF TypeOK, ArgType
<1>2. /\ B \in Nat \ {0} /\ per \in Nat \ {0} /\ B = s * per /\ per <= B
      /\ ~request.basic => per = 1
      /\ s \in Nat \ {0}
  BY <1>1, PerFacts DEF RequestType
<1>3. PICK e \in Nat : per = Pow2[e]
  BY <1>1, PerFacts
<1>4. n >= 4 /\ (n >= 4 * per)
  <2>1. n >= threshold /\ threshold \in Nat
    BY <1>1, <1>2 DEF in_one_go, threshold
  <2>2. threshold >= 4 /\ threshold >= 4 * per
    BY <1>2 DEF threshold
  <2> QED BY <1>1, <1>2, <2>1, <2>2
<1>5. a \in Nat /\ half_size(k) = Pow2[a] /\ Pow2[a] < n /\ n <= 2 * Pow2[a]
  BY <1>1, <1>4, HalfOfBitCeil DEF half_size
<1>6. Pow2[a] \in Nat \ {0}
  BY <1>5, Pow2Type
<1>7. e < a
  <2>1. Pow2[e] < Pow2[a]
    BY <1>1, <1>2, <1>3, <1>4, <1>5, <1>6
  <2> QED BY <2>1, <1>5, Pow2Strict
<1> DEFINE h == a - e
<1>8. h \in Nat /\ e + h = a
  BY <1>5, <1>7
<1>9. Pow2[h] \in Nat \ {0} /\ Pow2[a] = per * Pow2[h]
  <2> HIDE DEF h, a
  <2>1. Pow2[e] * Pow2[h] = Pow2[e + h]
    BY <1>3, <1>8, Pow2Product
  <2>2. Pow2[h] \in Nat \ {0}
    BY <1>8, Pow2Type
  <2> QED BY <1>3, <1>8, <2>1, <2>2, Zenon
<1>10. chunk_size(k) = Pow2[h]
  <2>1. half_size(k) * s = B * Pow2[h]
    BY <1>2, <1>5, <1>9
  <2> QED BY <2>1, <1>2, <1>9, CeilDivExact DEF chunk_size
<1>11. SplitHeight(k) = h
  BY <1>8, <1>10, Log2OfPow2 DEF SplitHeight
<1> HIDE DEF h, a, n
<1>12. CeilDiv(half_size(k), per) = chunk_size(k)
  BY <1>2, <1>5, <1>9, <1>10, CeilDivExact
<1>13. CeilDiv(n - half_size(k), per) <= chunk_size(k)
  <2>1. n - half_size(k) \in Nat /\ n - half_size(k) <= per * Pow2[h]
    BY <1>1, <1>5, <1>6, <1>9
  <2> QED BY <2>1, <1>2, <1>9, <1>10, CeilDivAtMost
<1>14. ~ (CeilDiv(n, per) <= Pow2[h])
  BY <1>1, <1>2, <1>5, <1>6, <1>9, CeilDivAtMost
<1>15. CeilDiv(n, per) <= Pow2[h + 1]
  <2>1. Pow2[h + 1] = 2 * Pow2[h] /\ Pow2[h + 1] \in Nat
    BY <1>8, Pow2Next, Pow2Type
  <2>2. n <= per * Pow2[h + 1]
    BY <1>1, <1>2, <1>5, <1>9, <2>1
  <2> QED BY <1>1, <1>2, <2>1, <2>2, CeilDivAtMost
<1>16. CeilDiv(n, per) \in Nat
  BY <1>1, <1>2, CeilDivBounds
<1>17. log2ceil(CeilDiv(n, per)) = h + 1
  BY <1>8, <1>9, <1>14, <1>15, <1>16, HeightOfMore
<1> QED BY <1>1, <1>5, <1>6, <1>8, <1>9, <1>10, <1>11, <1>12, <1>13, <1>14,
           <1>16, <1>17 DEF n

(* The tree of the two halves is not higher than what the frame was asked. *)
LEMMA SplitBelowLimit ==
    ASSUME TypeOK, NEW k \in Frames, pc[k] # "idle", Asked(k), ~in_one_go(k)
    PROVE  /\ SplitHeight(k) + 1 < zero_hash_depth
           /\ arg[k].limit > 0 => SplitHeight(k) + 1 <= log2ceil(arg[k].limit)
           /\ log2ceil(arg[k].limit) < zero_hash_depth
<1> DEFINE l == arg[k].limit
           chunks == CeilDiv(arg[k].size, per)
<1>1. /\ SplitHeight(k) \in Nat /\ log2ceil(chunks) = SplitHeight(k) + 1
      /\ chunk_size(k) < chunks
  BY Split
<1>2. l \in Nat /\ chunks \in Nat /\ zero_hash_depth \in Nat
  <2>1. l \in Nat /\ arg[k].size \in Nat /\ request \in Requests
    BY DEF TypeOK, ArgType
  <2> QED BY <2>1, PerFacts, CeilDivBounds, ZeroHashDepthAssumption
<1>3. l > 0 => chunks <= l
  BY DEF Asked
<1>4. TreeHeight(chunks, l) < zero_hash_depth
  BY DEF Asked
<1> HIDE DEF chunks, l
<1>5. CASE l = 0
  <2>1. log2ceil(l) = 0
    BY <1>5 DEF log2ceil
  <2> QED BY <1>1, <1>2, <1>4, <1>5, <2>1 DEF TreeHeight, l
<1>6. CASE l > 0
  <2>1. log2ceil(chunks) <= log2ceil(l)
    BY <1>2, <1>3, <1>6, Log2Monotone
  <2>2. log2ceil(l) \in Nat
    BY <1>2, Log2CeilType
  <2> QED BY <1>1, <1>2, <1>4, <1>6, <2>1, <2>2 DEF TreeHeight, l
<1> QED BY <1>2, <1>5, <1>6

(* A frame has at most all the cpus.                                       *)
LEMMA CpusType ==
    ASSUME TypeOK, NEW k \in Frames
    PROVE  cpus(k) \in 0 .. MaxCpu /\ 1 \in Frames /\ cpus(1) \in 0 .. MaxCpu
<1>1. MaxCpu \in Nat \ {0} /\ Cores \subseteq 0 .. MaxCpu /\ 1 \in Frames
  BY ParallelAssumption DEF Frames
<1> QED BY <1>1 DEF TypeOK, ArgType, cpus

(* There are numbers left for the two frames a frame starts.               *)
LEMMA Room ==
    ASSUME TypeOK, NEW k \in Frames, pc[k] # "idle", Asked(k), ~in_one_go(k)
    PROVE  /\ 2 * k \in Frames /\ 2 * k + 1 \in Frames
           /\ cpus(k) \div 2 \in 1 .. MaxCpu
           /\ (2 * k + 1) * (cpus(k) \div 2) <= 2 * cpus(1)
           /\ (2 * k + 2) * (cpus(k) \div 2) <= 2 * cpus(1)
<1> DEFINE c == cpus(k)
           B == cpus(1)
<1>1. MaxCpu \in Nat /\ Cores \subseteq 0 .. MaxCpu
  BY ParallelAssumption
<1>2. c \in 0 .. MaxCpu /\ B \in 0 .. MaxCpu
  BY <1>1, CpusType
<1>3. c >= 2
  BY <1>2 DEF in_one_go
<1>4. (k + 1) * c <= 2 * B
  BY DEF Asked
<1>5. k \in Nat
  BY DEF Frames
<1> HIDE DEF c, B
<1>6. (k + 1) * 2 <= (k + 1) * c
  BY <1>2, <1>3, <1>5
<1>7. 2 * k + 2 <= 2 * B
  BY <1>2, <1>4, <1>5, <1>6
<1>8. c \div 2 \in 1 .. MaxCpu /\ 2 * (c \div 2) <= c
  BY <1>1, <1>2, <1>3
<1>9. PICK d \in 1 .. MaxCpu : d = c \div 2 /\ 2 * d <= c
  BY <1>8
<1>10. (k + 1) * (2 * d) <= (k + 1) * c
  BY <1>2, <1>5, <1>9
<1>11. (2 * k + 2) * d = (k + 1) * (2 * d)
  BY <1>5, <1>9
<1>12. (2 * k + 1) * d <= (2 * k + 2) * d
  BY <1>5, <1>9
<1>13. (2 * k + 2) * d <= 2 * B
  <2>1. \A x, y, z \in Int : x <= y /\ y <= z => x <= z
    OBVIOUS
  <2>2. (k + 1) * (2 * d) \in Int /\ (k + 1) * c \in Int /\ 2 * B \in Int
    BY <1>1, <1>2, <1>5, <1>9
  <2> QED BY <1>4, <1>10, <1>11, <2>1, <2>2
<1>14. (2 * k + 1) * d <= 2 * B
  BY <1>2, <1>5, <1>9, <1>12, <1>13
<1>15. 2 * k \in Frames /\ 2 * k + 1 \in Frames
  BY <1>1, <1>2, <1>5, <1>7 DEF Frames
<1> QED BY <1>8, <1>9, <1>13, <1>14, <1>15 DEF c, B

-----------------------------------------------------------------------------
(* The steps of one frame.                                                 *)

(* The halves a frame hands out are of the type of arguments.              *)
LEMMA HalvesType ==
    ASSUME TypeOK, NEW k \in Frames, pc[k] # "idle", Asked(k), ~in_one_go(k)
    PROVE  first(k) \in ArgType /\ last(k) \in ArgType
<1>1. arg[k].lo \in Nat /\ arg[k].size \in Nat
  BY DEF TypeOK, ArgType
<1>2. /\ half_size(k) \in Nat /\ half_size(k) < arg[k].size
      /\ chunk_size(k) \in Nat
  BY Split, Pow2Type
<1>3. cpus(k) \div 2 \in 0 .. MaxCpu
  BY Room, ParallelAssumption
<1> QED BY <1>1, <1>2, <1>3 DEF first, last, ArgType

(* Every step of a frame keeps the types.                                  *)
LEMMA TypeStep ==
    ASSUME IInv, NEW k \in Frames, Step(k) \/ Failure(k)
    PROVE  TypeOK'
<1> USE DEF Goto, WriteResult, Forked, Finished
<1>1. TypeOK /\ Asked(k) /\ Shared(k) /\ Raising(k)
  BY DEF IInv
<1>2. MaxFaults \in Nat
  BY ParallelAssumption
<1>3. CASE Sequential(k)
  BY <1>1, <1>3 DEF Sequential, TypeOK
<1>4. CASE SequentialThrows(k)
  BY <1>1, <1>2, <1>4 DEF SequentialThrows, TypeOK, Fault
<1>5. CASE Allocate(k)
  BY <1>1, <1>5 DEF Allocate, TypeOK
<1>6. CASE AllocateThrows(k)
  BY <1>1, <1>2, <1>6 DEF AllocateThrows, TypeOK, Fault
<1>7. CASE Async(k)
  <2>1. ~in_one_go(k) /\ pc[k] # "idle"
    BY <1>1, <1>7 DEF Async, Shared, Holding
  <2>2. 2 * k \in Frames /\ 2 * k + 1 \in Frames
    BY <1>1, <2>1, Room
  <2>3. first(k) \in ArgType /\ last(k) \in ArgType
    BY <1>1, <2>1, HalvesType
  <2>4. arg' \in [Frames -> ArgType]
    BY <1>1, <1>7, <2>2, <2>3 DEF Async, TypeOK
  <2> QED BY <1>1, <1>7, <2>4 DEF Async, TypeOK
<1>8. CASE AsyncThrows(k)
  BY <1>1, <1>2, <1>8 DEF AsyncThrows, TypeOK, Fault
<1>9. CASE FirstReturned(k)
  BY <1>1, <1>9 DEF FirstReturned, TypeOK
<1>10. CASE FirstThrew(k)
  BY <1>1, <1>10 DEF FirstThrew, TypeOK
<1>11. CASE Unwind(k)
  BY <1>1, <1>11 DEF Unwind, TypeOK
<1>12. CASE Get(k)
  <2>1. ~in_one_go(k)
    BY <1>1, <1>12 DEF Get, Shared, Holding
  <2>2. log2ceil(chunk_size(k)) + 1 \in Nat
    BY <1>1, <2>1, Split DEF SplitHeight
  <2> QED BY <1>1, <1>12, <2>2 DEF Get, TypeOK
<1>13. CASE GetThrows(k)
  BY <1>1, <1>13 DEF GetThrows, TypeOK
<1>14. CASE Raise(k)
  BY <1>1, <1>14 DEF Raise, TypeOK
<1>15. CASE Return(k)
  BY <1>1, <1>15 DEF Return, TypeOK
<1> QED BY <1>3, <1>4, <1>5, <1>6, <1>7, <1>8, <1>9, <1>10, <1>11, <1>12, <1>13, <1>14, <1>15
        DEF Step, Failure

(* The stages of a frame and of the frames below it keep in step.          *)
LEMMA FamilyStep ==
    ASSUME IInv, NEW k \in Frames, Step(k) \/ Failure(k), NEW j \in Frames
    PROVE  Family(j)'
<1> USE DEF Goto, Forked, Finished
<1>1. /\ pc \in [Frames -> {"idle", "call", "async", "raise"}
                              \cup Forked \cup Finished]
      /\ Family(j) /\ Family(k)
  BY DEF IInv, TypeOK
<1>2. 2 * j + 1 \in Frames => 2 * j \in Frames
  BY ParallelAssumption DEF Frames
<1>3. j \in Int /\ k \in Int
  BY DEF Frames
<1>4. CASE Sequential(k)
  BY <1>1, <1>2, <1>3, <1>4 DEF Sequential, Family
<1>5. CASE SequentialThrows(k)
  BY <1>1, <1>2, <1>3, <1>5 DEF SequentialThrows, Family
<1>6. CASE Allocate(k)
  BY <1>1, <1>2, <1>3, <1>6 DEF Allocate, Family
<1>7. CASE AllocateThrows(k)
  BY <1>1, <1>2, <1>3, <1>7 DEF AllocateThrows, Family
<1>8. CASE Async(k)
  <2>1. 2 * k + 1 \in Frames
    <3>1. ~in_one_go(k) /\ TypeOK /\ Asked(k) /\ pc[k] # "idle"
      BY <1>8 DEF IInv, Async, Shared, Holding
    <3> QED BY <3>1, Room
  <2> QED BY <1>1, <1>2, <1>3, <1>8, <2>1 DEF Async, Family
<1>9. CASE AsyncThrows(k)
  BY <1>1, <1>2, <1>3, <1>9 DEF AsyncThrows, Family
<1>10. CASE FirstReturned(k)
  BY <1>1, <1>2, <1>3, <1>10 DEF FirstReturned, Family
<1>11. CASE FirstThrew(k)
  BY <1>1, <1>2, <1>3, <1>11 DEF FirstThrew, Family
<1>12. CASE Unwind(k)
  BY <1>1, <1>2, <1>3, <1>12 DEF Unwind, Family
<1>13. CASE Get(k)
  BY <1>1, <1>2, <1>3, <1>13 DEF Get, Family
<1>14. CASE GetThrows(k)
  BY <1>1, <1>2, <1>3, <1>14 DEF GetThrows, Family
<1>15. CASE Raise(k)
  BY <1>1, <1>2, <1>3, <1>15 DEF Raise, Family
<1>16. CASE Return(k)
  BY <1>1, <1>2, <1>3, <1>16 DEF Return, Family
<1> QED BY <1>4, <1>5, <1>6, <1>7, <1>8, <1>9, <1>10, <1>11, <1>12, <1>13, <1>14, <1>15, <1>16
        DEF Step, Failure

(* The heap holds exactly the buffers of the frames that need theirs.      *)
LEMMA HeldStep ==
    ASSUME IInv, NEW k \in Frames, Step(k) \/ Failure(k), NEW j \in Frames
    PROVE  Held(j)'
<1> USE DEF Goto, Forked, Finished, Holding
<1>1. /\ pc \in [Frames -> {"idle", "call", "async", "raise"}
                              \cup Forked \cup Finished]
      /\ Family(k) /\ Held(j) /\ Held(k)
  BY DEF IInv, TypeOK
<1>2. CASE Sequential(k)
  BY <1>1, <1>2 DEF Sequential, Held
<1>3. CASE SequentialThrows(k)
  BY <1>1, <1>3 DEF SequentialThrows, Held
<1>4. CASE Allocate(k)
  BY <1>1, <1>4 DEF Allocate, Held
<1>5. CASE AllocateThrows(k)
  BY <1>1, <1>5 DEF AllocateThrows, Held
<1>6. CASE Async(k)
  <2>1. 2 * k + 1 \in Frames /\ 2 * k \in Frames
    <3>1. ~in_one_go(k) /\ TypeOK /\ Asked(k) /\ pc[k] # "idle"
      BY <1>6 DEF IInv, Async, Shared
    <3> QED BY <3>1, Room
  <2>2. pc[2 * k] = "idle" /\ pc[2 * k + 1] = "idle"
    BY <1>1, <1>6, <2>1 DEF Async, Family
  <2> QED BY <1>1, <1>6, <2>1, <2>2 DEF Async, Held
<1>7. CASE AsyncThrows(k)
  BY <1>1, <1>7 DEF AsyncThrows, Held
<1>8. CASE FirstReturned(k)
  BY <1>1, <1>8 DEF FirstReturned, Held
<1>9. CASE FirstThrew(k)
  BY <1>1, <1>9 DEF FirstThrew, Held
<1>10. CASE Unwind(k)
  BY <1>1, <1>10 DEF Unwind, Held
<1>11. CASE Get(k)
  BY <1>1, <1>11 DEF Get, Held
<1>12. CASE GetThrows(k)
  BY <1>1, <1>12 DEF GetThrows, Held
<1>13. CASE Raise(k)
  BY <1>1, <1>13 DEF Raise, Held
<1>14. CASE Return(k)
  BY <1>1, <1>14 DEF Return, Held
<1> QED BY <1>2, <1>3, <1>4, <1>5, <1>6, <1>7, <1>8, <1>9, <1>10, <1>11, <1>12, <1>13, <1>14
        DEF Step, Failure

(* Only Async gives a frame its arguments, and only to a frame that has    *)
(* not started; everything computed from the arguments stands still.       *)
LEMMA Unchanging ==
    ASSUME IInv, NEW k \in Frames, Step(k) \/ Failure(k), ~Async(k)
    PROVE  /\ arg' = arg
           /\ request' = request
           /\ hardware_concurrency' = hardware_concurrency
           /\ pc[k] # "idle"
           /\ \A j \in Frames \ {k} : pc'[j] = pc[j]
           /\ pc'[k] \in Holding => pc[k] \in Holding \/ Allocate(k)
           /\ pc'[k] \in Forked => pc[k] \in Forked
BY DEF IInv, TypeOK, Step, Failure, Goto, Holding, Forked, Finished,
       Sequential, SequentialThrows, Allocate, AllocateThrows, AsyncThrows,
       FirstReturned, FirstThrew, Unwind, Get, GetThrows, Raise, Return

(* What launching the two halves changes.                                  *)
LEMMA AsyncFacts ==
    ASSUME IInv, NEW k \in Frames, Async(k)
    PROVE  /\ ~in_one_go(k)
           /\ 2 * k \in Frames /\ 2 * k + 1 \in Frames
           /\ pc[2 * k] = "idle" /\ pc[2 * k + 1] = "idle"
           /\ 2 * k # k /\ 2 * k + 1 # k /\ 2 * k # 2 * k + 1
           /\ pc[k] # "idle"
           /\ pc' = [pc EXCEPT ![k] = "first", ![2 * k] = "call",
                               ![2 * k + 1] = "call"]
           /\ arg' = [arg EXCEPT ![2 * k] = first(k), ![2 * k + 1] = last(k)]
           /\ request' = request
           /\ hardware_concurrency' = hardware_concurrency
<1>1. TypeOK /\ Family(k) /\ Asked(k) /\ Shared(k) /\ pc[k] = "async"
  BY DEF IInv, Async
<1>2. ~in_one_go(k)
  BY <1>1 DEF Shared, Holding
<1>3. 2 * k \in Frames /\ 2 * k + 1 \in Frames
  BY <1>1, <1>2, Room
<1>4. pc[2 * k] = "idle" /\ pc[2 * k + 1] = "idle"
  BY <1>1, <1>3 DEF Family
<1>5. 2 * k # k /\ 2 * k + 1 # k /\ 2 * k # 2 * k + 1
  BY DEF Frames
<1> QED BY <1>1, <1>2, <1>3, <1>4, <1>5 DEF Async

(* Every step keeps Outermost: the caller's frame is never called again.   *)
LEMMA OutermostStep ==
    ASSUME IInv, NEW k \in Frames, Step(k) \/ Failure(k)
    PROVE  Outermost'
<1>1. pc[1] # "idle" /\ arg[1] = whole /\ 1 \in Frames
  BY ParallelAssumption DEF IInv, Outermost, Frames
<1>2. /\ pc \in [Frames -> {"idle", "call", "async", "raise"}
                              \cup Forked \cup Finished]
      /\ arg \in [Frames -> ArgType]
  BY DEF IInv, TypeOK
<1>3. CASE Async(k)
  <2>1. 1 \notin {2 * k, 2 * k + 1}
    BY DEF Frames
  <2> QED BY <1>1, <1>2, <1>3, <2>1, AsyncFacts DEF Outermost, whole
<1>4. CASE ~Async(k) /\ k # 1
  BY <1>1, <1>4, Unchanging DEF Outermost, whole
<1>5. CASE ~Async(k) /\ k = 1
  <2>1. pc'[1] # "idle"
    BY <1>1, <1>2, <1>5
       DEF Step, Failure, Goto, Sequential, SequentialThrows, Allocate,
           AllocateThrows, AsyncThrows, FirstReturned, FirstThrew, Unwind,
           Get, GetThrows, Raise, Return
  <2> QED BY <1>1, <1>5, <2>1, Unchanging DEF Outermost, whole
<1> QED BY <1>3, <1>4, <1>5

(* The caller keeps its cpus.                                              *)
LEMMA CpusKept ==
    ASSUME IInv, NEW k \in Frames, Step(k) \/ Failure(k)
    PROVE  cpus(1)' = cpus(1)
<1>1. arg[1] = whole /\ arg'[1] = whole'
  BY OutermostStep DEF IInv, Outermost
<1>2. request' = request /\ hardware_concurrency' = hardware_concurrency
  BY Unchanging, AsyncFacts
<1> QED BY <1>1, <1>2 DEF cpus, whole

(* Every step keeps Asked: the halves respect the limit they are given,    *)
(* and the frames below them can be numbered.                              *)
LEMMA AskedStep ==
    ASSUME IInv, NEW k \in Frames, Step(k) \/ Failure(k), NEW j \in Frames
    PROVE  Asked(j)'
<1>1. TypeOK /\ Asked(j) /\ Asked(k)
  BY DEF IInv
<1>2. CASE ~Async(k)
  <2>1. pc'[j] # "idle" => pc[j] # "idle"
    BY <1>2, Unchanging
  <2>2. cpus(j)' = cpus(j) /\ per' = per /\ arg' = arg
    BY <1>2, Unchanging DEF cpus, per
  <2> QED BY <1>1, <2>1, <2>2, CpusKept DEF Asked
<1>3. CASE Async(k)
  <2>1. /\ ~in_one_go(k) /\ pc[k] # "idle"
        /\ arg' = [arg EXCEPT ![2 * k] = first(k), ![2 * k + 1] = last(k)]
        /\ 2 * k \in Frames /\ 2 * k + 1 \in Frames
        /\ 2 * k # 2 * k + 1 /\ per' = per
    BY <1>3, AsyncFacts DEF Async, per
  <2>2. CASE j \notin {2 * k, 2 * k + 1}
    <3>1. arg'[j] = arg[j] /\ cpus(j)' = cpus(j)
      BY <1>1, <2>1, <2>2, <1>3, AsyncFacts DEF TypeOK, cpus
    <3>2. pc'[j] # "idle" => pc[j] # "idle"
      BY <1>1, <1>3, <2>1, <2>2, AsyncFacts DEF TypeOK
    <3> QED BY <1>1, <2>1, <3>1, <3>2, CpusKept DEF Asked
  <2>3. CASE j \in {2 * k, 2 * k + 1}
    <3>1. arg'[j] \in {first(k), last(k)}
      BY <1>1, <2>1, <2>3 DEF TypeOK
    <3>2. /\ arg'[j].limit = chunk_size(k)
          /\ CeilDiv(arg'[j].size, per) <= chunk_size(k)
          /\ arg'[j].cpu_count = cpus(k) \div 2
      <4>1. /\ CeilDiv(half_size(k), per) <= chunk_size(k)
            /\ CeilDiv(arg[k].size - half_size(k), per) <= chunk_size(k)
        BY <1>1, <2>1, Split, Pow2Type
      <4> QED BY <3>1, <4>1 DEF first, last
    <3>3. chunk_size(k) > 0 /\ log2ceil(chunk_size(k)) < zero_hash_depth
      <4>1. SplitHeight(k) + 1 < zero_hash_depth /\ SplitHeight(k) \in Nat
        BY <1>1, <2>1, Split, SplitBelowLimit
      <4>2. chunk_size(k) \in Nat \ {0}
        BY <1>1, <2>1, Split, Pow2Type
      <4> QED BY <4>1, <4>2, ZeroHashDepthAssumption DEF SplitHeight
    <3>4. TreeHeight(CeilDiv(arg'[j].size, per), arg'[j].limit) < zero_hash_depth
      BY <3>2, <3>3 DEF TreeHeight
    <3>5. cpus(k) \div 2 > 0 /\ (j + 1) * (cpus(k) \div 2) <= 2 * cpus(1)
      <4>1. cpus(k) \div 2 \in 1 .. MaxCpu
        BY <1>1, <2>1, Room
      <4>2. CASE j = 2 * k
        BY <1>1, <2>1, <4>1, <4>2, Room
      <4>3. CASE j = 2 * k + 1
        <5>1. j + 1 = 2 * k + 2
          BY <4>3 DEF Frames
        <5> QED BY <1>1, <2>1, <4>1, <5>1, Room
      <4> QED BY <2>3, <4>2, <4>3
    <3>6. cpus(j)' = cpus(k) \div 2
      <4>1. arg'[j].cpu_count # 0
        BY <1>1, <2>1, <3>2, Room
      <4> QED BY <3>2, <4>1 DEF cpus
    <3> QED BY <2>1, <3>2, <3>3, <3>4, <3>5, <3>6, CpusKept DEF Asked
  <2> QED BY <2>2, <2>3
<1> QED BY <1>2, <1>3

(* Every step keeps Shared: the parameters of a half stay those its parent *)
(* computed.                                                               *)
LEMMA SharedStep ==
    ASSUME IInv, NEW k \in Frames, Step(k) \/ Failure(k), NEW j \in Frames
    PROVE  Shared(j)'
<1>1. TypeOK /\ Shared(j) /\ Asked(j) /\ Family(j)
  BY DEF IInv
<1>2. CASE ~Async(k)
  <2>1. /\ pc'[j] \in Holding => pc[j] \in Holding \/ Allocate(j)
        /\ pc'[j] \in Forked => pc[j] \in Forked
    BY <1>2, Unchanging
  <2>2. /\ in_one_go(j)' <=> in_one_go(j)
        /\ first(j)' = first(j) /\ last(j)' = last(j)
    BY <1>2, Unchanging DEF in_one_go, first, last, half_size, chunk_size,
                            cpus, threshold
  <2> QED BY <1>1, <1>2, <2>1, <2>2, Unchanging DEF Shared, Allocate
<1>3. CASE Async(k)
  <2>1. CASE j \in {2 * k, 2 * k + 1}
    <3>1. pc'[j] = "call"
      BY <1>1, <1>3, <2>1, AsyncFacts DEF TypeOK
    <3> QED BY <3>1 DEF Shared, Holding, Forked
  <2>2. CASE j \notin {2 * k, 2 * k + 1}
    <3>1. arg'[j] = arg[j]
      BY <1>1, <1>3, <2>2, AsyncFacts DEF TypeOK
    <3>2. /\ in_one_go(j)' <=> in_one_go(j)
          /\ first(j)' = first(j) /\ last(j)' = last(j)
      BY <1>3, <3>1, AsyncFacts DEF in_one_go, first, last, half_size,
                                    chunk_size, cpus, threshold
    <3>3. CASE j = k
      <4>1. ~in_one_go(k) /\ arg'[2 * k] = first(k) /\ arg'[2 * k + 1] = last(k)
        BY <1>1, <1>3, AsyncFacts DEF TypeOK
      <4> QED BY <3>2, <3>3, <4>1 DEF Shared
    <3>4. CASE j # k
      <4>1. pc'[j] = pc[j]
        BY <1>1, <1>3, <2>2, <3>4, AsyncFacts DEF TypeOK
      <4>2. 2 * j \notin {2 * k, 2 * k + 1} /\ 2 * j + 1 \notin {2 * k, 2 * k + 1}
        BY <3>4 DEF Frames
      <4>3. pc[j] \in Forked => 2 * j \in Frames /\ 2 * j + 1 \in Frames
        <5>1. pc[j] \in Forked => pc[j] # "idle" /\ ~in_one_go(j)
          BY <1>1 DEF Shared, Holding, Forked
        <5> QED BY <1>1, <5>1, Room
      <4>4. ASSUME pc[j] \in Forked
            PROVE  arg'[2 * j] = arg[2 * j] /\ arg'[2 * j + 1] = arg[2 * j + 1]
        <5>1. arg' = [arg EXCEPT ![2 * k] = first(k), ![2 * k + 1] = last(k)]
          BY <1>3, AsyncFacts
        <5>2. arg \in [Frames -> ArgType]
          BY <1>1 DEF TypeOK
        <5> QED BY <4>2, <4>3, <4>4, <5>1, <5>2
      <4> QED BY <1>1, <3>2, <4>1, <4>4 DEF Shared
    <3> QED BY <3>3, <3>4
  <2> QED BY <2>1, <2>2
<1> QED BY <1>2, <1>3

-----------------------------------------------------------------------------
(* The nodes.                                                              *)

(* The loop counter stays between the height of the joined halves and the  *)
(* height of the limit.                                                    *)
LEMMA RaisingStep ==
    ASSUME IInv, NEW k \in Frames, Step(k) \/ Failure(k), NEW j \in Frames
    PROVE  Raising(j)'
<1>1. TypeOK /\ Raising(j) /\ Asked(j) /\ Shared(j)
  BY DEF IInv
<1>2. CASE Async(k)
  <2>1. pc'[j] = "raise" => pc[j] = "raise" /\ j \notin {k, 2 * k, 2 * k + 1}
    BY <1>1, <1>2, AsyncFacts DEF TypeOK
  <2>2. pc'[j] = "raise" => arg'[j] = arg[j] /\ i'[j] = i[j]
    BY <1>1, <1>2, <2>1, AsyncFacts DEF TypeOK, Async
  <2> QED BY <1>1, <1>2, <2>1, <2>2, AsyncFacts
          DEF Raising, chunk_size, half_size
<1>3. CASE ~Async(k)
  <2>1. arg' = arg /\ chunk_size(j)' = chunk_size(j)
    BY <1>3, Unchanging DEF chunk_size, half_size
  <2>2. CASE Get(k) /\ j = k
    <3>1. ~in_one_go(j) /\ pc[j] # "idle"
      BY <1>1, <2>2 DEF Get, Shared, Holding, Forked
    <3>2. i'[j] = log2ceil(chunk_size(j)) + 1
      BY <1>1, <2>2 DEF Get, TypeOK
    <3>3. /\ SplitHeight(j) \in Nat /\ arg[j].limit \in Nat
          /\ arg[j].limit > 0 => SplitHeight(j) + 1 <= log2ceil(arg[j].limit)
      BY <1>1, <3>1, Split, SplitBelowLimit DEF TypeOK, ArgType
    <3> QED BY <2>1, <3>2, <3>3 DEF Raising, SplitHeight
  <2>3. CASE Raise(k) /\ j = k
    <3>1. /\ i'[j] = i[j] + 1 /\ i[j] \in Nat /\ pc[j] = "raise"
          /\ i[j] < log2ceil(arg[j].limit)
      BY <1>1, <2>3 DEF Raise, TypeOK
    <3>2. arg[j].limit # 0
      BY <3>1 DEF log2ceil
    <3>3. log2ceil(arg[j].limit) \in Nat
      BY <1>1, Log2CeilType DEF TypeOK, ArgType
    <3>4. ~in_one_go(j)
      BY <1>1, <3>1 DEF Shared, Holding
    <3>5. log2ceil(chunk_size(j)) \in Nat
      BY <1>1, <3>4, Split DEF SplitHeight
    <3> QED BY <1>1, <2>1, <3>1, <3>2, <3>3, <3>5 DEF Raising
  <2>4. CASE ~((Get(k) \/ Raise(k)) /\ j = k)
    <3>1. pc'[j] = "raise" => pc[j] = "raise" /\ i'[j] = i[j]
      BY <1>1, <1>3, <2>4
         DEF TypeOK, Step, Failure, Goto, Sequential, SequentialThrows,
             Allocate, AllocateThrows, AsyncThrows, FirstReturned, FirstThrew,
             Unwind, Get, GetThrows, Raise, Return
    <3> QED BY <1>1, <2>1, <3>1 DEF Raising
  <2> QED BY <2>2, <2>3, <2>4
<1> QED BY <1>2, <1>3

(* The nodes of a frame, by height.                                        *)
Elements(k, h) == Subtree(h, per, arg[k].lo, arg[k].lo + arg[k].size)

(* When both halves are there, hashing them gives the node above them.     *)
LEMMA JoinCorrect ==
    ASSUME IInv, NEW k \in Frames, Get(k)
    PROVE  Hash(result[2 * k], result[2 * k + 1]) =
             Elements(k, log2ceil(chunk_size(k)) + 1)
<1> DEFINE h    == SplitHeight(k)
           lo   == arg[k].lo
           half == half_size(k)
           end  == lo + arg[k].size
<1>1. /\ TypeOK /\ Family(k) /\ Held(k) /\ Asked(k) /\ Shared(k)
      /\ HalvesCorrect
  BY DEF IInv
<1>2. /\ pc[k] = "get" /\ pc[2 * k + 1] = "ok" /\ ~in_one_go(k) /\ k \in heap
      /\ arg[2 * k] = first(k) /\ arg[2 * k + 1] = last(k)
  BY <1>1 DEF Get, Shared, Held, Holding, Forked
<1>3. 2 * k \in Frames /\ 2 * k + 1 \in Frames
  BY <1>1, <1>2, Room
<1>4. pc[2 * k] = "ok"
  BY <1>1, <1>2, <1>3 DEF Family
<1>5. (2 * k) \div 2 = k /\ (2 * k + 1) \div 2 = k
  BY DEF Frames
<1>6. /\ result[2 * k] = Merkleize(per, lo, half, chunk_size(k))
      /\ result[2 * k + 1] =
            Merkleize(per, lo + half, arg[k].size - half, chunk_size(k))
  BY <1>1, <1>2, <1>3, <1>4, <1>5 DEF HalvesCorrect, first, last
<1>7. /\ h \in Nat /\ chunk_size(k) = Pow2[h] /\ half = per * chunk_size(k)
      /\ half \in Nat \ {0} /\ half < arg[k].size
  BY <1>1, <1>2, Split
<1>8. chunk_size(k) # 0
  BY <1>7, Pow2Type
<1>9. lo \in Nat /\ arg[k].size \in Nat /\ end \in Nat /\ per \in Nat \ {0}
  BY <1>1, PerFacts DEF TypeOK, ArgType
<1>10. /\ result[2 * k] = Subtree(h, per, lo, lo + half)
       /\ result[2 * k + 1] = Subtree(h, per, lo + half, end)
  <2>1. lo + half + (arg[k].size - half) = end
    BY <1>7, <1>9
  <2> QED BY <1>6, <1>8, <2>1 DEF Merkleize, TreeHeight, SplitHeight
<1>11. Subtree(h + 1, per, lo, end) =
         Hash(Subtree(h, per, lo, lo + half), Subtree(h, per, lo + half, end))
  <2>1. per * Pow2[h] = half /\ lo + half <= end
    BY <1>7, <1>9
  <2> QED BY <1>7, <1>9, <2>1, NodeSplit
<1> QED BY <1>10, <1>11 DEF Elements, SplitHeight

(* A turn of the loop goes one level up.                                   *)
LEMMA RaiseCorrect ==
    ASSUME IInv, NEW k \in Frames, Raise(k)
    PROVE  Hash(result[k], zero_hash_array[i[k]]) = Elements(k, i[k] + 1)
<1> DEFINE h == SplitHeight(k)
<1>1. /\ TypeOK /\ Asked(k) /\ Shared(k) /\ Raising(k) /\ HalvesCorrect
      /\ pc[k] = "raise" /\ i[k] < log2ceil(arg[k].limit)
  BY DEF IInv, Raise
<1>2. ~in_one_go(k)
  BY <1>1 DEF Shared, Holding
<1>3. /\ h \in Nat /\ arg[k].size <= 2 * half_size(k)
      /\ half_size(k) = per * Pow2[h]
  BY <1>1, <1>2, Split
<1>4. i[k] \in Nat /\ i[k] >= h + 1
  BY <1>1 DEF TypeOK, Raising, SplitHeight
<1>5. zero_hash_array[i[k]] = ZeroHash[i[k]]
  <2>1. log2ceil(arg[k].limit) < zero_hash_depth
    BY <1>1, <1>2, SplitBelowLimit
  <2>2. log2ceil(arg[k].limit) \in Nat
    BY <1>1, Log2CeilType DEF TypeOK, ArgType
  <2>3. i[k] \in 0 .. zero_hash_depth - 1
    BY <1>1, <1>4, <2>1, <2>2, ZeroHashDepthAssumption
  <2> QED BY <2>3 DEF zero_hash_array
<1>6. /\ arg[k].lo \in Nat /\ arg[k].size \in Nat /\ per \in Nat \ {0}
      /\ arg[k].lo + arg[k].size \in Nat
  BY <1>1, PerFacts DEF TypeOK, ArgType
<1>7. arg[k].size <= per * Pow2[i[k]]
  <2>1. Pow2[h + 1] = 2 * Pow2[h] /\ Pow2[h] \in Nat /\ Pow2[i[k]] \in Nat
    BY <1>3, <1>4, Pow2Next, Pow2Type
  <2>2. Pow2[h + 1] <= Pow2[i[k]]
    BY <1>3, <1>4, Pow2Monotone
  <2>3. per * (2 * Pow2[h]) <= per * Pow2[i[k]]
    BY <1>6, <2>1, <2>2
  <2>4. per * (2 * Pow2[h]) = 2 * (per * Pow2[h])
    BY <1>6, <2>1
  <2>5. per * Pow2[i[k]] \in Nat /\ per * Pow2[h] \in Nat
    BY <1>6, <2>1
  <2> QED BY <1>3, <1>6, <2>3, <2>4, <2>5
<1>8. result[k] = Elements(k, i[k])
  BY <1>1 DEF HalvesCorrect, Elements
<1>9. Elements(k, i[k] + 1) = Hash(Elements(k, i[k]), ZeroHash[i[k]])
  <2>1. per * Pow2[i[k]] \in Nat
    BY <1>4, <1>6, Pow2Type
  <2>2. arg[k].lo + arg[k].size <= arg[k].lo + per * Pow2[i[k]]
    BY <1>6, <1>7, <2>1
  <2> QED BY <1>4, <1>6, <2>2, NodeRaised DEF Elements
<1> QED BY <1>5, <1>8, <1>9

(* The loop stops at the height of the limit, or where it began if there   *)
(* is no limit.                                                            *)
LEMMA ReturnCorrect ==
    ASSUME IInv, NEW k \in Frames, Return(k)
    PROVE  result[k] = Merkleize(per, arg[k].lo, arg[k].size, arg[k].limit)
<1>1. /\ TypeOK /\ Asked(k) /\ Shared(k) /\ Raising(k) /\ HalvesCorrect
      /\ pc[k] = "raise" /\ i[k] >= log2ceil(arg[k].limit)
  BY DEF IInv, Return
<1>2. ~in_one_go(k)
  BY <1>1 DEF Shared, Holding
<1>3. log2ceil(CeilDiv(arg[k].size, per)) = SplitHeight(k) + 1
  BY <1>1, <1>2, Split
<1>4. /\ i[k] \in Nat /\ arg[k].limit \in Nat
      /\ log2ceil(arg[k].limit) \in Nat /\ SplitHeight(k) \in Nat
  BY <1>1, <1>2, Split, Log2CeilType DEF TypeOK, ArgType
<1>5. i[k] = TreeHeight(CeilDiv(arg[k].size, per), arg[k].limit)
  BY <1>1, <1>3, <1>4 DEF Raising, TreeHeight, SplitHeight
<1>6. result[k] = Elements(k, i[k])
  BY <1>1 DEF HalvesCorrect, Elements
<1> QED BY <1>5, <1>6 DEF Merkleize, Elements

(* Every step keeps HalvesCorrect: a finished half and a root being raised *)
(* are reference roots.                                                    *)
LEMMA HalvesStep ==
    ASSUME IInv, NEW k \in Frames, Step(k) \/ Failure(k)
    PROVE  HalvesCorrect'
<1>1. /\ TypeOK /\ HalvesCorrect /\ Family(k)
      /\ pc \in [Frames -> {"idle", "call", "async", "raise"}
                              \cup Forked \cup Finished]
      /\ DOMAIN result = Frames
  BY DEF IInv, TypeOK
<1> DEFINE root(j) == Merkleize(per, arg[j].lo, arg[j].size, arg[j].limit)
<1>2. SUFFICES ASSUME NEW j \in Frames
               PROVE  /\ pc'[j] = "ok" /\ (j = 1 \/ j \div 2 \in heap') =>
                            result'[j] = root(j)'
                      /\ pc'[j] = "raise" => result'[j] = Elements(j, i[j])'
  BY DEF HalvesCorrect, Elements
<1>3. /\ pc[j] = "ok" /\ (j = 1 \/ j \div 2 \in heap) => result[j] = root(j)
      /\ pc[j] = "raise" => result[j] = Elements(j, i[j])
  BY <1>1 DEF HalvesCorrect, Elements
<1>4. CASE Async(k)
  <2>1. pc'[j] \in {"ok", "raise"} =>
           pc[j] = pc'[j] /\ j \notin {k, 2 * k, 2 * k + 1}
    BY <1>1, <1>4, AsyncFacts
  <2>2. j \notin {2 * k, 2 * k + 1} => arg'[j] = arg[j]
    BY <1>1, <1>4, AsyncFacts DEF TypeOK
  <2>3. result' = result /\ heap' = heap /\ i' = i /\ per' = per
    BY <1>4 DEF Async, per
  <2> QED BY <1>3, <2>1, <2>2, <2>3 DEF Elements
<1>5. CASE ~Async(k)
  <2>1. arg' = arg /\ per' = per /\ pc[k] # "idle"
    BY <1>5, Unchanging DEF per
  <2>2. root(j)' = root(j)
    BY <2>1
  <2>3. CASE j = k
    <3>1. CASE Sequential(k)
      BY <1>1, <2>1, <2>3, <3>1 DEF Sequential, WriteResult, Goto
    <3>2. CASE Return(k)
      BY <1>1, <2>2, <2>3, <3>2, ReturnCorrect DEF Return, Goto
    <3>3. CASE Get(k)
      <4>1. pc'[k] = "raise" /\ i'[k] = log2ceil(chunk_size(k)) + 1
        BY <1>1, <3>3 DEF Get, Goto, TypeOK
      <4>2. result'[k] = Elements(k, log2ceil(chunk_size(k)) + 1)
        BY <1>1, <3>3, JoinCorrect DEF Get, WriteResult
      <4> QED BY <2>1, <2>3, <4>1, <4>2 DEF Elements
    <3>4. CASE Raise(k)
      <4>1. pc'[k] = "raise" /\ i'[k] = i[k] + 1
        BY <1>1, <3>4 DEF Raise, TypeOK
      <4>2. result'[k] = Elements(k, i[k] + 1)
        BY <1>1, <3>4, RaiseCorrect DEF Raise, WriteResult
      <4> QED BY <2>1, <2>3, <4>1, <4>2 DEF Elements
    <3>5. CASE ~(Sequential(k) \/ Return(k) \/ Get(k) \/ Raise(k))
      <4>1. pc'[k] \notin {"ok", "raise"}
        BY <1>1, <1>5, <3>5
           DEF Step, Failure, Goto, SequentialThrows, Allocate,
               AllocateThrows, AsyncThrows, FirstReturned, FirstThrew,
               Unwind, GetThrows
      <4> QED BY <2>3, <4>1
    <3> QED BY <3>1, <3>2, <3>3, <3>4, <3>5
  <2>4. CASE j # k
    <3>1. pc'[j] = pc[j]
      BY <1>5, <2>4, Unchanging
    <3>2. CASE Allocate(k)
      <4>1. pc[j] # "idle" => j \notin {2 * k, 2 * k + 1}
        <5>1. pc[k] = "call"
          BY <3>2 DEF Allocate
        <5>2. j \in {2 * k, 2 * k + 1} => 2 * k + 1 \in Frames
          BY ParallelAssumption DEF Frames
        <5> QED BY <1>1, <5>1, <5>2 DEF Family
      <4>2. pc[j] # "idle" => result'[j] = result[j]
        BY <1>1, <3>2, <4>1 DEF Allocate
      <4>3. pc[j] # "idle" => j \div 2 # k
        BY <4>1 DEF Frames
      <4>4. i' = i /\ heap' = heap \cup {k}
        BY <3>2 DEF Allocate
      <4> QED BY <1>3, <2>1, <2>2, <3>1, <4>2, <4>3, <4>4 DEF Elements
    <3>3. CASE ~Allocate(k)
      <4>1. result'[j] = result[j] /\ i'[j] = i[j] /\ heap' \subseteq heap
        BY <1>1, <1>5, <2>4, <3>3
           DEF TypeOK, Step, Failure, WriteResult, Sequential,
               SequentialThrows, AllocateThrows, AsyncThrows, FirstReturned,
               FirstThrew, Unwind, Get, GetThrows, Raise, Return
      <4> QED BY <1>3, <2>1, <2>2, <3>1, <4>1 DEF Elements
    <3> QED BY <3>2, <3>3
  <2> QED BY <2>3, <2>4
<1> QED BY <1>4, <1>5

-----------------------------------------------------------------------------
(* The failures.                                                           *)

(* A frame still waited for is waited for by one that forked.              *)
LEMMA WaitedFor ==
    ASSUME IInv, NEW k \in Frames, pc[k] # "idle", k # 1,
           pc[k] \notin Finished
    PROVE  \E p \in Frames : pc[p] \in Forked /\ k \in {2 * p, 2 * p + 1}
<1> DEFINE p == k \div 2
<1>1. p \in Frames /\ k \in {2 * p, 2 * p + 1} /\ 2 * p + 1 \in Frames
  BY ParallelAssumption DEF Frames
<1>2. Family(p) /\ pc[p] \in {"idle", "call", "async", "raise"}
                               \cup Forked \cup Finished
  BY <1>1 DEF IInv, TypeOK
<1>3. pc[p] \in Forked
  BY <1>1, <1>2 DEF Family, Finished, Forked
<1> QED BY <1>1, <1>3

(* Every step keeps Thrown: no exception is lost on its way to the caller. *)
LEMMA ThrownStep ==
    ASSUME IInv, NEW k \in Frames, Step(k) \/ Failure(k)
    PROVE  Thrown'
<1> USE DEF Forked, Finished
<1>1. /\ pc \in [Frames -> {"idle", "call", "async", "raise"}
                              \cup Forked \cup Finished]
      /\ Thrown /\ Family(k) /\ faults \in Nat
      /\ \A j \in Frames : Family(j) /\ Asked(j) /\ Shared(j)
      /\ TypeOK
  BY ParallelAssumption DEF IInv, TypeOK
<1>2. \A j \in Frames : pc[j] \in Forked => 2 * j \in Frames /\ 2 * j + 1 \in Frames
  <2> TAKE j \in Frames
  <2>1. pc[j] \in Forked => ~in_one_go(j)
    BY <1>1 DEF Shared, Holding
  <2> QED BY <1>1, <2>1, Room
<1>3. faults' \in Nat /\ faults' >= faults
  BY <1>1 DEF Step, Failure, Fault, Sequential, SequentialThrows, Allocate,
      AllocateThrows, Async, AsyncThrows, FirstReturned, FirstThrew, Unwind,
      Get, GetThrows, Raise, Return
<1>4. \A j \in Frames : pc'[j] = "threw" => faults' > 0
  <2>1. CASE Failure(k)
    BY <1>1, <2>1 DEF Failure, Fault, SequentialThrows, AllocateThrows, AsyncThrows
  <2>2. CASE FirstThrew(k) \/ Unwind(k) \/ GetThrows(k)
    <3>1. faults > 0
      <4>1. pc[k] \in Forked
        BY <2>2 DEF FirstThrew, Unwind, GetThrows
      <4> QED BY <1>1, <1>2, <2>2, <4>1
              DEF FirstThrew, Unwind, GetThrows, Thrown, Family
    <3> QED BY <1>3, <3>1, <1>1
  <2>3. CASE ~(Failure(k) \/ FirstThrew(k) \/ Unwind(k) \/ GetThrows(k))
    <3>1. \A j \in Frames : pc'[j] = "threw" => pc[j] = "threw"
      BY <1>1, <2>3 DEF Step, Goto, Sequential, Allocate, Async, FirstReturned,
                        Get, Raise, Return
    <3> QED BY <1>1, <1>3, <3>1 DEF Thrown
  <2> QED BY <2>1, <2>2, <2>3
<1> DEFINE Known(p) == pc[p] \in Forked /\ "threw" \in {pc[2 * p], pc[2 * p + 1]}
<1>5. ASSUME pc'[k] = "threw", pc[k] # "threw", pc[k] # "idle"
      PROVE  pc'[1] = "threw" \/ \E p \in Frames : Known(p)'
  <2>1. CASE k = 1
    BY <1>5, <2>1
  <2>2. CASE k # 1
    <3>1. pc[k] \notin Finished
      BY <1>1, <1>5 DEF Step, Failure, Sequential, SequentialThrows, Allocate,
          AllocateThrows, Async, AsyncThrows, FirstReturned, FirstThrew,
          Unwind, Get, GetThrows, Raise, Return
    <3>2. PICK p \in Frames : pc[p] \in Forked /\ k \in {2 * p, 2 * p + 1}
      BY <1>5, <2>2, <3>1, WaitedFor
    <3>3. p # k
      BY <3>2 DEF Frames
    <3>4. ~Async(k)
      BY <1>1, <1>5, AsyncFacts
    <3>5. pc'[p] = pc[p]
      BY <3>3, <3>4, Unchanging
    <3> QED BY <1>5, <3>2, <3>5
  <2> QED BY <2>1, <2>2
<1>6. faults' > 0 => pc'[1] = "threw" \/ \E p \in Frames : Known(p)'
  <2>1. CASE pc'[k] = "threw" /\ pc[k] # "threw"
    <3>1. pc[k] # "idle"
      BY <2>1, Unchanging, AsyncFacts
    <3> QED BY <1>5, <2>1, <3>1
  <2>2. CASE ~(pc'[k] = "threw" /\ pc[k] # "threw")
    <3>1. faults' = faults
      BY <1>1, <2>2 DEF Step, Failure, Fault, Goto, Sequential,
          SequentialThrows, Allocate, AllocateThrows, Async, AsyncThrows,
          FirstReturned, FirstThrew, Unwind, Get, GetThrows, Raise, Return
    <3>2. \A j \in Frames : pc[j] = "threw" => pc'[j] = "threw"
      <4>1. CASE Async(k)
        <5>1. ASSUME NEW j \in Frames, pc[j] = "threw" PROVE pc'[j] = "threw"
          <6>1. j \notin {k, 2 * k, 2 * k + 1}
            BY <4>1, <5>1, AsyncFacts DEF Async
          <6> QED BY <1>1, <4>1, <5>1, <6>1, AsyncFacts
        <5> QED BY <5>1
      <4>2. CASE ~Async(k)
        <5>1. pc[k] # "threw"
          BY <1>1 DEF Step, Failure, Sequential, SequentialThrows, Allocate,
              AllocateThrows, Async, AsyncThrows, FirstReturned, FirstThrew,
              Unwind, Get, GetThrows, Raise, Return
        <5> QED BY <4>2, <5>1, Unchanging
      <4> QED BY <4>1, <4>2
    <3>3. ASSUME NEW p \in Frames, Known(p) PROVE Known(p)'
      <4>1. 2 * p \in Frames /\ 2 * p + 1 \in Frames /\ Family(p)
        BY <1>1, <1>2, <3>3
      <4>2. "threw" \in {pc'[2 * p], pc'[2 * p + 1]}
        BY <3>2, <3>3, <4>1
      <4>3. CASE p # k
        <5>1. pc'[p] = pc[p]
          <6>1. CASE Async(k)
            <7>1. pc[p] # "idle" /\ pc[p] # "async"
              BY <3>3
            <7> QED BY <1>1, <4>3, <6>1, <7>1, AsyncFacts
          <6>2. CASE ~Async(k)
            BY <4>3, <6>2, Unchanging
          <6> QED BY <6>1, <6>2
        <5> QED BY <3>3, <4>2, <5>1
      <4>4. CASE p = k
        <5>1. pc'[k] \in Forked
          BY <1>1, <2>2, <3>3, <4>1, <4>4
             DEF Family, Step, Failure, Goto, Sequential, SequentialThrows,
                 Allocate, AllocateThrows, Async, AsyncThrows, FirstReturned,
                 FirstThrew, Unwind, Get, GetThrows, Raise, Return
        <5> QED BY <4>2, <4>4, <5>1
      <4> QED BY <4>3, <4>4
    <3>4. 1 \in Frames
      BY ParallelAssumption DEF Frames
    <3>5. faults > 0 => pc[1] = "threw" \/ \E p \in Frames : Known(p)
      BY <1>1 DEF Thrown
    <3> HIDE DEF Known
    <3> QED BY <3>1, <3>2, <3>3, <3>4, <3>5
  <2> QED BY <2>1, <2>2
<1> QED BY <1>4, <1>6 DEF Thrown

-----------------------------------------------------------------------------
(* The invariant.                                                          *)

(* The caller's vector respects the limit and the table: what a request is *)
(* assumed to be.                                                          *)
LEMMA InitInvariant == Init => IInv
<1> SUFFICES ASSUME Init PROVE IInv
  OBVIOUS
<1> USE DEF Forked, Finished, Holding
<1>1. /\ MaxCpu \in Nat \ {0} /\ Cores \subseteq 0 .. MaxCpu
      /\ MaxFaults \in Nat /\ 1 \in Frames
  BY ParallelAssumption DEF Frames
<1>2. request \in Requests /\ request \in RequestType
  BY PerFacts DEF Init
<1>3. TypeOK
  BY <1>1, <1>2 DEF Init, TypeOK, ArgType, NoArg, whole, RequestType
<1>4. Outermost
  BY <1>1 DEF Init, Outermost
<1>5. ASSUME NEW k \in Frames
      PROVE  Family(k) /\ Held(k) /\ Shared(k) /\ Raising(k)
  <2>1. 2 * k + 1 \in Frames => 2 * k \in Frames /\ 2 * k # 1 /\ 2 * k + 1 # 1
    BY <1>1 DEF Frames
  <2>2. pc[k] \in {"idle", "call"} /\ heap = {}
    BY DEF Init
  <2>3. Family(k)
    BY <2>1, <2>2 DEF Init, Family
  <2> QED BY <2>2, <2>3 DEF Held, Shared, Raising
<1>6. ASSUME NEW k \in Frames PROVE Asked(k)
  <2>1. CASE k = 1
    <3>1. /\ arg[k].size = request.size /\ arg[k].limit = request.limit
          /\ arg[k].cpu_count = request.cpu_count
      BY <1>1, <2>1 DEF Init, whole
    <3>2. (k + 1) * cpus(k) <= 2 * cpus(1)
      <4>1. cpus(k) \in 0 .. MaxCpu
        BY <1>1, <1>2, <3>1 DEF cpus, Init, RequestType
      <4> QED BY <1>1, <2>1, <4>1
    <3>3. LET chunks == CeilDiv(request.size, per)
          IN  /\ request.limit > 0 => chunks <= request.limit
              /\ TreeHeight(chunks, request.limit) < zero_hash_depth
      BY <1>2, ParallelAssumption DEF per
    <3> QED BY <2>1, <3>1, <3>2, <3>3 DEF Asked
  <2>2. CASE k # 1
    BY <2>2 DEF Init, Asked
  <2> QED BY <2>1, <2>2
<1>7. HalvesCorrect /\ Thrown
  BY <1>1 DEF Init, HalvesCorrect, Thrown
<1> QED BY <1>3, <1>4, <1>5, <1>6, <1>7 DEF IInv

(* The invariant is inductive.                                             *)
LEMMA StepInvariant == IInv /\ [Next]_vars => IInv'
<1> SUFFICES ASSUME IInv, [Next]_vars PROVE IInv'
  OBVIOUS
<1>1. ASSUME NEW k \in Frames, Step(k) \/ Failure(k) PROVE IInv'
  <2>1. TypeOK' /\ HalvesCorrect' /\ Thrown'
    BY <1>1, TypeStep, HalvesStep, ThrownStep
  <2>2. ASSUME NEW j \in Frames
        PROVE  (Family(j) /\ Held(j) /\ Asked(j) /\ Shared(j) /\ Raising(j))'
    BY <1>1, FamilyStep, HeldStep, AskedStep, SharedStep, RaisingStep
  <2>3. Outermost'
    BY <1>1, OutermostStep
  <2> QED BY <2>1, <2>2, <2>3 DEF IInv
<1>2. ASSUME UNCHANGED vars PROVE IInv'
  <2>1. TypeOK' /\ Outermost' /\ HalvesCorrect' /\ Thrown'
    BY <1>2 DEF IInv, vars, TypeOK, Outermost, whole, HalvesCorrect, Thrown, per
  <2>2. ASSUME NEW k \in Frames
        PROVE  (Family(k) /\ Held(k) /\ Asked(k) /\ Shared(k) /\ Raising(k))'
    <3>1. Family(k) /\ Held(k) /\ Asked(k) /\ Shared(k) /\ Raising(k)
      BY DEF IInv
    <3> QED BY <1>2, <3>1
            DEF vars, Family, Held, Asked, Shared, Raising, cpus, in_one_go,
                threshold, first, last, half_size, chunk_size, per
  <2> QED BY <2>1, <2>2 DEF IInv
<1> QED BY <1>1, <1>2 DEF Next, Terminating

(* Every reachable state satisfies the inductive invariant: it contains    *)
(* type correctness (every allocation, counter and argument stays in its   *)
(* range) and HalvesCorrect.                                               *)
THEOREM Invariance == Spec => []IInv
BY InitInvariant, StepInvariant, PTL DEF Spec

-----------------------------------------------------------------------------
(* What the invariant means.                                               *)

(* Type correctness.                                                       *)
THEOREM TypeCorrect == Spec => []TypeOK
BY Invariance, PTL DEF IInv

(* Every half that is consumed, and the answer, are reference roots: the   *)
(* recursion is correct for every size, limit, packing and cpu_count.      *)
THEOREM RootsCorrect == Spec => []HalvesCorrect
BY Invariance, PTL DEF IInv

(* No frame writes into a two_blocks that has been freed, whoever throws.  *)
THEOREM BuffersOutliveWriters == Spec => []BlocksOutliveWriters
<1>1. IInv => BlocksOutliveWriters
  <2> SUFFICES ASSUME IInv, NEW k \in Frames \ {1}, Active(k)
               PROVE  k \div 2 \in heap
    BY DEF BlocksOutliveWriters
  <2>1. PICK p \in Frames : pc[p] \in Forked /\ k \in {2 * p, 2 * p + 1}
    BY WaitedFor DEF Active, Finished
  <2>2. p = k \div 2
    BY <2>1 DEF Frames
  <2>3. Held(p)
    BY DEF IInv
  <2> QED BY <2>1, <2>2, <2>3 DEF Held, Holding
<1> QED BY <1>1, Invariance, PTL

(* A call never has more threads than the cpu_count it was given, or than  *)
(* the machine has cores: the odd frames that run are numbered below twice *)
(* the cpus of the outermost one, and half of those numbers are odd.       *)
THEOREM ThreadsBounded == Spec => []ThreadBound
<1>1. ASSUME IInv PROVE ThreadBound
  <2> DEFINE bound == IF cpus(1) = 0 THEN 1 ELSE cpus(1)
             rank  == [k \in Threads |-> (k + 1) \div 2]
  <2>1. TypeOK /\ 1 \in Frames /\ cpus(1) \in Nat /\ bound \in Nat \ {0}
    BY <1>1, ParallelAssumption, CpusType DEF IInv, Frames
  <2>2. ASSUME NEW k \in Threads
        PROVE  k \in Nat \ {0} /\ k % 2 = 1 /\ k + 1 <= 2 * bound
    <3>1. k \in Frames /\ k \in Nat \ {0} /\ k % 2 = 1 /\ pc[k] # "idle"
      BY DEF Threads, Active, Frames
    <3>2. CASE k = 1
      BY <2>1, <3>2
    <3>3. CASE k # 1
      <4>1. (k + 1) * cpus(k) <= 2 * cpus(1) /\ arg[k].cpu_count > 0
        BY <1>1, <3>1, <3>3 DEF IInv, Asked
      <4>2. cpus(k) \in Nat /\ cpus(k) >= 1
        <5>1. cpus(k) \in 0 .. MaxCpu /\ MaxCpu \in Nat
          BY <2>1, <3>1, CpusType, ParallelAssumption
        <5>2. arg[k].cpu_count \in 0 .. MaxCpu
          BY <2>1, <3>1 DEF TypeOK, ArgType
        <5> QED BY <4>1, <5>1, <5>2 DEF cpus
      <4>3. k + 1 <= (k + 1) * cpus(k)
        BY <3>1, <4>2
      <4>4. k + 1 <= 2 * cpus(1)
        <5>1. (k + 1) * cpus(k) \in Int
          BY <3>1, <4>2
        <5> QED BY <2>1, <3>1, <4>1, <4>3, <5>1
      <4> QED BY <2>1, <3>1, <4>4
    <3> QED BY <3>1, <3>2, <3>3
  <2>3. ASSUME NEW k \in Threads PROVE rank[k] \in 1 .. bound
    BY <2>1, <2>2
  <2>4. ASSUME NEW j \in Threads, NEW k \in Threads, rank[j] = rank[k]
        PROVE  j = k
    BY <2>2, <2>4
  <2>5. rank \in Injection(Threads, 1 .. bound)
    BY <2>3, <2>4 DEF Injection, IsInjective
  <2>6. IsFiniteSet(1 .. bound) /\ Cardinality(1 .. bound) = bound
    BY <2>1, FS_Interval
  <2>7. Cardinality(Threads) <= bound
    BY <2>5, <2>6, FS_Injection
  <2> QED BY <2>7 DEF ThreadBound
<1> QED BY <1>1, Invariance, PTL

(* A frame that is not running has nothing running below it.               *)
LEMMA JoinedBelow ==
    ASSUME IInv, NEW k \in Frames, pc[k] \in Finished \cup {"idle"},
           NEW d \in Frames, d \in {2 * k, 2 * k + 1}
    PROVE  pc[d] \in Finished \cup {"idle"} /\ d \notin heap
<1>1. 2 * k + 1 \in Frames
  BY ParallelAssumption DEF Frames
<1>2. Family(k) /\ Held(d)
  BY DEF IInv
<1>3. pc[d] \in Finished \cup {"idle"}
  BY <1>1, <1>2 DEF Family, Finished
<1> QED BY <1>2, <1>3 DEF Held, Holding, Forked, Finished

(* A frame that has returned or thrown has joined every thread and freed   *)
(* every buffer of three generations below it.                             *)
THEOREM ThreadsJoined == Spec => []JoinedBeforeReturn
<1>1. IInv => JoinedBeforeReturn
  <2> SUFFICES ASSUME IInv, NEW k \in Frames, pc[k] \in Finished
               PROVE  /\ k \notin heap
                      /\ \A d \in Descendants(k) : ~Active(d) /\ d \notin heap
    BY DEF JoinedBeforeReturn
  <2> DEFINE Quiet(F) == F \subseteq Frames /\
                \A d \in F : pc[d] \in Finished \cup {"idle"} /\ d \notin heap
  <2>1. Quiet({k})
    <3>1. Held(k)
      BY DEF IInv
    <3> QED BY <3>1 DEF Held, Holding, Forked, Finished
  <2>2. ASSUME NEW F, Quiet(F) PROVE Quiet(Halves(F))
    <3> SUFFICES ASSUME NEW d \in Halves(F)
                 PROVE  d \in Frames /\ pc[d] \in Finished \cup {"idle"}
                        /\ d \notin heap
      OBVIOUS
    <3>1. PICK f \in F : d \in {2 * f, 2 * f + 1} /\ d \in Frames
      BY DEF Halves
    <3>2. f \in Frames /\ pc[f] \in Finished \cup {"idle"}
      BY <2>2
    <3> QED BY <3>1, <3>2, JoinedBelow
  <2> DEFINE one == Halves({k})
             two == Halves(one)
             three == Halves(two)
  <2> HIDE DEF Quiet, one, two, three
  <2>3. Quiet(one)
    BY <2>1, <2>2 DEF one
  <2>4. Quiet(two)
    BY <2>2, <2>3 DEF two
  <2>5. Quiet(three)
    BY <2>2, <2>4 DEF three
  <2>6. Descendants(k) = one \cup two \cup three
    BY DEF Descendants, one, two, three
  <2> QED BY <2>1, <2>3, <2>4, <2>5, <2>6 DEF Quiet, Active
<1> QED BY <1>1, Invariance, PTL

-----------------------------------------------------------------------------
(* The safety half of the refinement.                                      *)

(* While any frame runs, the caller's does.                                *)
CallerWaits == \A k \in Frames : Active(k) => Active(1)

(* The caller waits for every frame: none outlives its answer.             *)
LEMMA CallerRuns == IInv => CallerWaits
<1> SUFFICES ASSUME IInv, NEW k \in Frames, Active(k) PROVE Active(1)
  BY DEF CallerWaits
<1> DEFINE S == {n \in Nat : \A j \in Frames : j <= n /\ Active(j) => Active(1)}
<1>1. 0 \in S
  BY DEF Frames
<1>2. ASSUME NEW n \in Nat, n \in S PROVE n + 1 \in S
  <2> SUFFICES ASSUME NEW j \in Frames, j <= n + 1, Active(j), j # 1
               PROVE  Active(1)
    BY DEF Frames
  <2>1. PICK p \in Frames : pc[p] \in Forked /\ j \in {2 * p, 2 * p + 1}
    BY WaitedFor DEF Active
  <2>2. p <= n
    BY <2>1 DEF Frames
  <2>3. Active(p)
    BY <2>1 DEF Active, Forked, Finished
  <2> QED BY <1>2, <2>2, <2>3
<1>3. Nat \subseteq S
  <2> HIDE DEF S
  <2> QED BY <1>1, <1>2, Powers!SetInduction
<1>4. k \in S
  BY <1>3 DEF Frames
<1> QED BY <1>4

(* The call begins as the promise does.                                    *)
LEMMA InitRefines == Init => Promise!Init
<1> SUFFICES ASSUME Init PROVE Promise!Init
  OBVIOUS
<1>1. pc[1] = "call" /\ faults = 0
  BY ParallelAssumption DEF Init, Frames
<1>2. [per |-> per, size |-> request.size, limit |-> request.limit]
         \in [per : Nat \ {0}, size : Nat, limit : Nat]
  BY PerFacts DEF Init, RequestType
<1> QED BY <1>1, <1>2 DEF Promise!Init, Promise!NoRoot, VectorCalls

(* A step of a frame is a failure, a return or a throw of the promise, or  *)
(* the caller notices nothing.                                             *)
LEMMA StepRefines ==
    ASSUME IInv, IInv', CallerWaits', NEW k \in Frames, Step(k) \/ Failure(k)
    PROVE  [Promise!Next]_Promise!vars
<1> USE DEF Finished, Forked
<1>1. /\ pc \in [Frames -> {"idle", "call", "async", "raise"}
                              \cup Forked \cup Finished]
      /\ pc' \in [Frames -> {"idle", "call", "async", "raise"}
                              \cup Forked \cup Finished]
      /\ faults \in Nat /\ faults' \in Nat /\ 1 \in Frames
      /\ DOMAIN result = Frames
  BY ParallelAssumption DEF IInv, TypeOK, Frames
<1>2. request' = request /\ per' = per /\ faults' >= faults /\ Active(k)
  BY <1>1 DEF per, Active, Step, Failure, Fault, Sequential, SequentialThrows,
      Allocate, AllocateThrows, Async, AsyncThrows, FirstReturned, FirstThrew,
      Unwind, Get, GetThrows, Raise, Return
<1>3. pc[1] \notin Finished /\ pc[1] # "idle"
  BY <1>2, CallerRuns DEF Active, CallerWaits
<1>4. pc'[1] # "idle"
  BY DEF IInv, Outermost
<1> DEFINE status == CASE pc[1] = "ok"    -> "returned"
                       [] pc[1] = "threw" -> "threw"
                       [] OTHER           -> "running"
<1>5. status = "running"
  BY <1>3
<1>6. CASE pc'[1] = "ok"
  <2>1. faults' = 0
    <3>1. \A p \in Frames : pc'[p] \notin Forked
      <4> SUFFICES ASSUME NEW p \in Frames, pc'[p] \in Forked PROVE FALSE
        OBVIOUS
      <4>1. Active(p)'
        BY DEF Active
      <4>2. Active(1)'
        BY <4>1 DEF CallerWaits
      <4> QED BY <1>6, <4>2 DEF Active
    <3>2. Thrown'
      BY DEF IInv
    <3> QED BY <1>1, <1>6, <3>1, <3>2 DEF Thrown
  <2>2. faults = 0
    BY <1>1, <1>2, <2>1
  <2>3. result'[1] = Merkleize(per, 0, request.size, request.limit)
    <3>1. HalvesCorrect' /\ arg'[1] = whole'
      BY DEF IInv, Outermost
    <3> QED BY <1>1, <1>2, <1>6, <3>1 DEF HalvesCorrect, whole
  <2> DEFINE asked == [per |-> per, size |-> request.size,
                       limit |-> request.limit]
  <2>4. asked' = asked
    BY <1>2
  <2>5. VectorRoot(asked) = result'[1]
    BY <2>3 DEF VectorRoot
  <2>6. (faults > 0) = FALSE /\ (faults' > 0) = FALSE
    BY <2>1, <2>2
  <2>7. status' = "returned"
    BY <1>6
  <2>8. (IF pc[1] = "ok" THEN result[1] ELSE ZeroChunk)' = result'[1]
    BY <1>6
  <2>9. Promise!Return
    BY <1>5, <2>4, <2>5, <2>6, <2>7, <2>8, Zenon
       DEF Promise!Return
  <2> QED BY <2>9 DEF Promise!Next
<1>7. CASE pc'[1] = "threw"
  <2>1. faults' > 0
    BY <1>1, <1>7 DEF IInv, Thrown
  <2>2. Promise!Throw
    BY <1>2, <1>3, <1>7, <2>1 DEF Promise!Throw
  <2> QED BY <2>2 DEF Promise!Next
<1>8. CASE pc'[1] \notin Finished
  <2>1. CASE (faults > 0) = (faults' > 0)
    BY <1>2, <1>3, <1>8, <2>1 DEF Promise!vars
  <2>2. CASE ~(faults > 0) /\ faults' > 0
    <3>1. Promise!Fail
      BY <1>2, <1>3, <1>8, <2>2 DEF Promise!Fail
    <3> QED BY <3>1 DEF Promise!Next
  <2> QED BY <1>1, <1>2, <2>1, <2>2
<1> QED BY <1>6, <1>7, <1>8

(* The detailed specification implements the safety of the promise: the    *)
(* only answer is the reference root, given only if nothing failed, and an *)
(* exception reaches the caller only if something did.                     *)
THEOREM KeepsPromise == Spec => Promise!Init /\ [][Promise!Next]_Promise!vars
<1>1. IInv /\ IInv' /\ CallerWaits' /\ [Next]_vars
        => [Promise!Next]_Promise!vars
  <2> SUFFICES ASSUME IInv, IInv', CallerWaits', [Next]_vars
               PROVE  [Promise!Next]_Promise!vars
    OBVIOUS
  <2>1. ASSUME UNCHANGED vars PROVE UNCHANGED Promise!vars
    BY <2>1 DEF vars, Promise!vars, per
  <2> QED BY <2>1, StepRefines DEF Next, Terminating
<1> QED BY <1>1, CallerRuns, InitRefines, Invariance, PTL DEF Spec
=============================================================================
