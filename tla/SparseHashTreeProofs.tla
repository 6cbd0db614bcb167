------------------------ MODULE SparseHashTreeProofs ------------------------
(***************************************************************************)
(* The safety of SparseHashTree, for every buffer, limit and chunk size.   *)
(***************************************************************************)
EXTENDS SparseHashTree, MerkleProofs

NoLayers == [m \in Nat |-> 0]
Layering == INSTANCE NatRecursion WITH Base <- NoLayers, Succ <- OneMore

-----------------------------------------------------------------------------
(* Arithmetic.                                                             *)

(* Rounding up twice is rounding up once: the layers are those of the      *)
(* leaves, whether counted one from another or from the leaves.            *)
LEMMA CeilDivTwice ==
    ASSUME NEW n \in Nat, NEW k \in Nat \ {0}
    PROVE  CeilDiv(CeilDiv(n, k), 2) = CeilDiv(n, 2 * k)
<1> DEFINE c == CeilDiv(n, k)
           a == CeilDiv(c, 2)
           b == CeilDiv(n, 2 * k)
<1>1. c \in Nat
  BY CeilDivBounds
<1>2. 2 * k \in Nat \ {0}
  OBVIOUS
<1> HIDE DEF c
<1>3. a \in Nat /\ b \in Nat
  <2>1. 2 \in Nat \ {0}
    OBVIOUS
  <2>2. a \in Nat
    BY <1>1, <2>1, CeilDivBounds
  <2>3. b \in Nat
    BY <1>2, CeilDivBounds
  <2> QED BY <2>2, <2>3
<1>4. ASSUME NEW q \in Nat PROVE a <= q <=> b <= q
  <2>1. a <= q <=> c <= 2 * q
    BY <1>1, CeilDivAtMost
  <2>2. c <= 2 * q <=> n <= k * (2 * q)
    BY CeilDivAtMost DEF c
  <2>3. b <= q <=> n <= (2 * k) * q
    BY <1>2, CeilDivAtMost
  <2>4. k * (2 * q) = (2 * k) * q
    OBVIOUS
  <2> QED BY <2>1, <2>2, <2>3, <2>4
<1> HIDE DEF a, b
<1>5. a = b
  BY <1>3, <1>4
<1> QED BY <1>5 DEF a, b, c

(* The equation of layers holds.                                           *)
LEMMA LayersDef ==
    \A k \in Nat : layers[k] = IF k = 0 THEN NoLayers ELSE OneMore(k, layers[k - 1])
<1>1. layers = Layering!rec
  BY DEF layers, Layering!rec, NoLayers
<1> QED BY <1>1, Layering!RecursionUnfolds

(* k layers above m chunks are the next one and k - 1 above it.            *)
LEMMA LayersUnfold ==
    ASSUME NEW k \in Nat, NEW m \in Nat
    PROVE  /\ layers[0][m] = 0
           /\ layers[k + 1][m] = CeilDiv(m, 2) + layers[k][CeilDiv(m, 2)]
<1>1. layers[0] = NoLayers
  BY LayersDef
<1>2. layers[k + 1] = OneMore(k + 1, layers[k])
  BY LayersDef
<1> QED BY <1>1, <1>2 DEF NoLayers, OneMore

(* Layers have a number of chunks.                                         *)
LEMMA LayersType == \A k \in Nat : \A m \in Nat : layers[k][m] \in Nat
<1> DEFINE S == {k \in Nat : \A m \in Nat : layers[k][m] \in Nat}
<1>1. 0 \in S
  BY LayersUnfold
<1>2. ASSUME NEW k \in Nat, k \in S PROVE k + 1 \in S
  <2>1. SUFFICES ASSUME NEW m \in Nat PROVE layers[k + 1][m] \in Nat
    OBVIOUS
  <2>2. CeilDiv(m, 2) \in Nat
    BY CeilDivBounds
  <2> QED BY <1>2, <2>2, LayersUnfold
<1>3. Nat \subseteq S
  <2> HIDE DEF S
  <2> QED BY <1>1, <1>2, Layering!SetInduction
<1> QED BY <1>3

-----------------------------------------------------------------------------
(* Sequences.                                                              *)

(* A function on 1..n is a sequence of length n.                           *)
LEMMA FunctionLength ==
    ASSUME NEW n \in Nat, NEW s, s = [c \in 1 .. n |-> s[c]]
    PROVE  s \in Seq({s[c] : c \in 1 .. n}) /\ Len(s) = n
<1> DEFINE S == {s[c] : c \in 1 .. n}
<1>1. s \in [1 .. n -> S]
  OBVIOUS
<1>2. s \in Seq(S)
  BY <1>1
<1> QED BY <1>1, <1>2

(* One more element at the end.                                            *)
LEMMA OneAppended ==
    ASSUME NEW n \in Nat, NEW s, s = [c \in 1 .. n |-> s[c]], NEW x
    PROVE  /\ Len(s \o <<x>>) = n + 1
           /\ DOMAIN (s \o <<x>>) = 1 .. n + 1
           /\ \A c \in 1 .. n : (s \o <<x>>)[c] = s[c]
           /\ (s \o <<x>>)[n + 1] = x
<1> DEFINE S == {s[c] : c \in 1 .. n} \cup {x}
<1>1. s \in [1 .. n -> S]
  OBVIOUS
<1>2. s \in Seq(S) /\ Len(s) = n
  BY <1>1
<1>3. <<x>> \in Seq(S) /\ Len(<<x>>) = 1 /\ <<x>>[1] = x
  OBVIOUS
<1> HIDE DEF S
<1> QED BY <1>2, <1>3
-----------------------------------------------------------------------------
(* The parameters.                                                         *)

(* The chunks of the input, and how they fit under the tree.               *)
LEMMA Fits ==
    ASSUME TypeOK, Within
    PROVE  /\ byte_length \in Nat /\ BYTES_PER_CHUNK \in Nat \ {0}
           /\ chunk_count \in Nat
           /\ byte_length <= BYTES_PER_CHUNK * chunk_count
           /\ BYTES_PER_CHUNK * chunk_count < byte_length + BYTES_PER_CHUNK
           /\ depth \in Nat /\ depth < zero_hash_depth
           /\ chunk_count <= Pow2[depth]
<1>1. /\ byte_length \in Nat /\ BYTES_PER_CHUNK \in Nat \ {0}
      /\ MaxBytes \in Nat /\ byte_length <= MaxBytes
      /\ limit \in Nat /\ limit \in Limits
  BY SparseAssumption DEF TypeOK
<1>2. /\ chunk_count \in Nat
      /\ byte_length <= BYTES_PER_CHUNK * chunk_count
      /\ BYTES_PER_CHUNK * chunk_count < byte_length + BYTES_PER_CHUNK
  BY <1>1, CeilDivBounds DEF chunk_count
<1>3. depth \in Nat /\ Pow2[depth] \in Nat \ {0}
  BY <1>1, <1>2, Log2CeilType, Pow2Type DEF depth, TreeHeight
<1>4. CASE limit = 0
  <2>1. depth = log2ceil(chunk_count)
    BY <1>4 DEF depth, TreeHeight
  <2>2. chunk_count <= Pow2[depth]
    <3>1. CASE chunk_count = 0
      BY <1>3, <3>1
    <3>2. CASE chunk_count # 0
      BY <1>2, <2>1, <3>2, Log2Ceil
    <3> QED BY <3>1, <3>2
  <2>3. CeilDiv(MaxBytes, BYTES_PER_CHUNK) \in Nat
        /\ MaxBytes <= BYTES_PER_CHUNK * CeilDiv(MaxBytes, BYTES_PER_CHUNK)
    BY <1>1, CeilDivBounds
  <2>4. chunk_count <= CeilDiv(MaxBytes, BYTES_PER_CHUNK)
    <3> DEFINE q == CeilDiv(MaxBytes, BYTES_PER_CHUNK)
    <3>1. byte_length <= BYTES_PER_CHUNK * q
      <4> HIDE DEF q
      <4>1. q \in Nat /\ MaxBytes <= BYTES_PER_CHUNK * q
        BY <2>3 DEF q
      <4>2. BYTES_PER_CHUNK * q \in Nat
        BY <1>1, <4>1
      <4> QED BY <1>1, <4>1, <4>2
    <3> QED BY <1>1, <2>3, <3>1, CeilDivAtMost DEF chunk_count
  <2>5. log2ceil(chunk_count) <= log2ceil(CeilDiv(MaxBytes, BYTES_PER_CHUNK))
    BY <1>2, <2>3, <2>4, Log2Monotone
  <2>6. log2ceil(CeilDiv(MaxBytes, BYTES_PER_CHUNK)) \in Nat
        /\ log2ceil(CeilDiv(MaxBytes, BYTES_PER_CHUNK)) < zero_hash_depth
    BY <2>3, Log2CeilType, SparseAssumption
  <2> QED BY <1>1, <1>2, <1>3, <2>1, <2>2, <2>5, <2>6, ZeroHashDepthAssumption
<1>5. CASE limit # 0
  <2>1. depth = log2ceil(limit) /\ depth < zero_hash_depth
    BY <1>1, <1>5, SparseAssumption DEF depth, TreeHeight
  <2>2. limit <= Pow2[depth]
    BY <1>1, <1>5, <2>1, Log2Ceil
  <2> QED BY <1>1, <1>2, <1>3, <1>5, <2>1, <2>2 DEF Within
<1> QED BY <1>4, <1>5

(* The layer of a height: as many chunks as subtrees hold data, one for    *)
(* the whole tree.                                                         *)
LEMMA LayerWidth ==
    ASSUME TypeOK, Within, chunk_count > 0, NEW h \in Nat
    PROVE  LET m == CeilDiv(chunk_count, Pow2[h])
           IN  /\ m \in Nat \ {0}
               /\ byte_length <= BYTES_PER_CHUNK * (Pow2[h] * m)
               /\ CeilDiv(m, 2) = CeilDiv(chunk_count, Pow2[h + 1])
               /\ h = depth => m = 1
<1> DEFINE m == CeilDiv(chunk_count, Pow2[h])
<1>1. Pow2[h] \in Nat \ {0} /\ Pow2[h + 1] = 2 * Pow2[h]
  BY Pow2Type, Pow2Next
<1>2. m \in Nat /\ chunk_count <= Pow2[h] * m
  BY <1>1, Fits, CeilDivBounds
<1>3. CeilDiv(m, 2) = CeilDiv(chunk_count, Pow2[h + 1])
  BY <1>1, Fits, CeilDivTwice
<1>4. ASSUME h = depth PROVE m <= 1
  <2>1. chunk_count <= Pow2[h] * 1
    BY <1>1, <1>4, Fits
  <2> QED BY <1>1, <2>1, Fits, CeilDivAtMost
<1> HIDE DEF m
<1>5. m # 0
  BY <1>1, <1>2, Fits
<1>6. byte_length <= BYTES_PER_CHUNK * (Pow2[h] * m)
  <2>1. ASSUME NEW b \in Nat, NEW x \in Nat, NEW y \in Nat, x <= y
        PROVE  b * x <= b * y
    BY <2>1
  <2>2. Pow2[h] * m \in Nat
    BY <1>1, <1>2
  <2>3. BYTES_PER_CHUNK * chunk_count <= BYTES_PER_CHUNK * (Pow2[h] * m)
    BY <1>2, <2>1, <2>2, Fits
  <2> QED BY <2>2, <2>3, Fits
<1> QED BY <1>2, <1>3, <1>4, <1>5, <1>6 DEF m

-----------------------------------------------------------------------------
(* The layers.                                                             *)

(* Writing chunks at a position that leaves room for them.                 *)
LEMMA WrittenChunks ==
    ASSUME NEW size \in Nat, DOMAIN ret = 1 .. size,
           NEW at \in Nat, NEW n \in Nat, at + n <= size,
           NEW chunks, DOMAIN chunks = 1 .. n
    PROVE  /\ DOMAIN Written(at, chunks) = 1 .. size
           /\ Len(Written(at, chunks)) = size
           /\ \A c \in 0 .. n - 1 : Written(at, chunks)[at + c + 1] = chunks[c + 1]
<1> DEFINE w == Written(at, chunks)
<1>1. w = [c \in 1 .. size |-> w[c]] /\ DOMAIN w = 1 .. size
  BY DEF Written
<1>2. ASSUME NEW c \in 0 .. n - 1 PROVE w[at + c + 1] = chunks[c + 1]
  <2>1. at + c + 1 \in 1 .. size /\ (at + c + 1) - at = c + 1 /\ c + 1 \in 1 .. n
    OBVIOUS
  <2> QED BY <2>1 DEF Written
<1> HIDE DEF w
<1>3. Len(w) = size
  BY <1>1, FunctionLength
<1> QED BY <1>1, <1>2, <1>3 DEF w

(* A pair of chunks as they are read: whole in place, padded in the copy.  *)
LEMMA LeavesRead ==
    ASSUME TypeOK, Within, NEW c \in Nat
    PROVE  /\ Copied(c) = Subtree(0, BYTES_PER_CHUNK, c * BYTES_PER_CHUNK,
                                  byte_length)
           /\ (c + 1) * BYTES_PER_CHUNK <= byte_length => InPlace(c) = Copied(c)
<1> DEFINE lo == c * BYTES_PER_CHUNK
<1>1. lo \in Nat /\ (c + 1) * BYTES_PER_CHUNK = lo + BYTES_PER_CHUNK
  BY Fits
<1>2. Copied(c) = Subtree(0, BYTES_PER_CHUNK, lo, byte_length)
  BY <1>1, Fits, NodeLeaf DEF Copied
<1>3. ASSUME lo + BYTES_PER_CHUNK <= byte_length PROVE InPlace(c) = Copied(c)
  <2>1. ~ (lo >= byte_length)
    BY <1>1, <1>3, Fits
  <2> QED BY <1>1, <1>3, <2>1 DEF InPlace, Copied, Leaf
<1> QED BY <1>1, <1>2, <1>3

(* Hashing two neighbours gives the subtree above them.                    *)
LEMMA PairAbove ==
    ASSUME TypeOK, Within, NEW h \in Nat, NEW b \in Nat \ {0}
    PROVE  LET lo == (2 * b - 2) * Pow2[h] * BYTES_PER_CHUNK
               up == (2 * b - 1) * Pow2[h] * BYTES_PER_CHUNK
           IN  /\ lo \in Nat
               /\ up = lo + BYTES_PER_CHUNK * Pow2[h]
               /\ (b - 1) * Pow2[h + 1] * BYTES_PER_CHUNK = lo
               /\ Subtree(h + 1, BYTES_PER_CHUNK, lo, byte_length) =
                    Hash(Subtree(h, BYTES_PER_CHUNK, lo, byte_length),
                         Subtree(h, BYTES_PER_CHUNK, up, byte_length))
<1>1. ASSUME NEW x \in Nat, NEW y \in Nat
      PROVE  /\ (2 * b - 2) * x * y \in Nat
             /\ (2 * b - 1) * x * y = (2 * b - 2) * x * y + y * x
             /\ (b - 1) * (2 * x) * y = (2 * b - 2) * x * y
  <2>1. PICK p \in Nat : b = p + 1
    <3>1. b - 1 \in Nat /\ b = (b - 1) + 1
      OBVIOUS
    <3> QED BY <3>1
  <2>2. x * y \in Nat /\ y * x = x * y
    OBVIOUS
  <2>3. /\ (2 * b - 2) * x * y = (2 * p) * (x * y)
        /\ (2 * b - 1) * x * y = (2 * p + 1) * (x * y)
        /\ (b - 1) * (2 * x) * y = p * (2 * (x * y))
    BY <2>1
  <2>4. ASSUME NEW z \in Nat
        PROVE  (2 * p) * z \in Nat /\ (2 * p + 1) * z = (2 * p) * z + z
               /\ p * (2 * z) = (2 * p) * z
    OBVIOUS
  <2> QED BY <2>2, <2>3, <2>4
<1>2. Pow2[h] \in Nat /\ Pow2[h + 1] = 2 * Pow2[h]
  BY Pow2Type, Pow2Next
<1>3. byte_length \in Nat /\ BYTES_PER_CHUNK \in Nat
  BY Fits
<1> DEFINE lo == (2 * b - 2) * Pow2[h] * BYTES_PER_CHUNK
           up == (2 * b - 1) * Pow2[h] * BYTES_PER_CHUNK
<1>4. /\ lo \in Nat /\ up = lo + BYTES_PER_CHUNK * Pow2[h]
      /\ (b - 1) * Pow2[h + 1] * BYTES_PER_CHUNK = lo
  BY <1>1, <1>2, <1>3
<1>5. ASSUME NEW x \in Nat, NEW y, y = x + BYTES_PER_CHUNK * Pow2[h]
      PROVE  Subtree(h + 1, BYTES_PER_CHUNK, x, byte_length) =
                Hash(Subtree(h, BYTES_PER_CHUNK, x, byte_length),
                     Subtree(h, BYTES_PER_CHUNK, y, byte_length))
  BY <1>3, <1>5, NodeAbove
<1> HIDE DEF lo, up
<1>6. Subtree(h + 1, BYTES_PER_CHUNK, lo, byte_length) =
         Hash(Subtree(h, BYTES_PER_CHUNK, lo, byte_length),
              Subtree(h, BYTES_PER_CHUNK, up, byte_length))
  BY <1>4, <1>5
<1> QED BY <1>4, <1>6 DEF lo, up

(* hash_first_layer writes the subtrees of height 1, whatever lies behind  *)
(* the bytes of the input.                                                 *)
LEMMA FirstLayerCorrect ==
    ASSUME TypeOK, Within, chunk_count > 0
    PROVE  LET n == CeilDiv(chunk_count, 2)
           IN  /\ n \in Nat /\ Len(hash_first_layer) = n
               /\ DOMAIN hash_first_layer = 1 .. n
               /\ \A b \in 1 .. n :
                     hash_first_layer[b] =
                        Subtree(1, BYTES_PER_CHUNK,
                                (b - 1) * Pow2[1] * BYTES_PER_CHUNK, byte_length)
<1> DEFINE n == CeilDiv(chunk_count, 2)
           root(b) == Subtree(1, BYTES_PER_CHUNK,
                              (b - 1) * Pow2[1] * BYTES_PER_CHUNK, byte_length)
           left_over_bytes == byte_length % BYTES_PER_CHUNK # 0
           whole           == chunk_count % 2 = 0 /\ ~left_over_bytes
           first_blocks    == IF whole THEN chunk_count \div 2
                                       ELSE (chunk_count - 1) \div 2
           in_place == [b \in 1 .. first_blocks |->
                           Hash(InPlace(2 * b - 2), InPlace(2 * b - 1))]
           last_block == Hash(Copied(2 * first_blocks), Copied(2 * first_blocks + 1))
<1>1. chunk_count \in Nat \ {0} /\ BYTES_PER_CHUNK \in Nat \ {0} /\ byte_length \in Nat
  BY Fits
<1>2. ASSUME NEW b \in Nat \ {0}
      PROVE  Hash(Copied(2 * b - 2), Copied(2 * b - 1)) = root(b)
  <2>1. 2 * b - 2 \in Nat /\ 2 * b - 1 \in Nat
    OBVIOUS
  <2>2. Pow2[0] = 1 /\ 0 \in Nat /\ 0 + 1 = 1
    BY Pow2Zero
  <2>3. /\ (2 * b - 2) * Pow2[0] * BYTES_PER_CHUNK = (2 * b - 2) * BYTES_PER_CHUNK
        /\ (2 * b - 1) * Pow2[0] * BYTES_PER_CHUNK = (2 * b - 1) * BYTES_PER_CHUNK
    BY <1>1, <2>1, <2>2
  <2>4. root(b) = Hash(Subtree(0, BYTES_PER_CHUNK, (2 * b - 2) * BYTES_PER_CHUNK,
                               byte_length),
                       Subtree(0, BYTES_PER_CHUNK, (2 * b - 1) * BYTES_PER_CHUNK,
                               byte_length))
    BY <2>2, <2>3, PairAbove
  <2> QED BY <2>1, <2>4, LeavesRead
<1>3. ASSUME NEW b \in 1 .. first_blocks
      PROVE  in_place[b] = root(b)
  <2>1. /\ b \in Nat \ {0} /\ 2 * b - 2 \in Nat /\ 2 * b - 1 \in Nat
        /\ (2 * b - 2) + 1 = 2 * b - 1 /\ (2 * b - 1) + 1 = 2 * b
    BY <1>1
  <2>2. 2 * b * BYTES_PER_CHUNK <= byte_length
    <3>1. CASE whole
      <4>1. 2 * b <= chunk_count
        BY <1>1, <3>1
      <4>2. 2 * b * BYTES_PER_CHUNK <= chunk_count * BYTES_PER_CHUNK
        BY <1>1, <2>1, <4>1
      <4>3. byte_length = BYTES_PER_CHUNK * chunk_count
        <5>1. ASSUME NEW k \in Nat \ {0}, NEW x \in Nat, NEW c \in Nat,
                     x % k = 0, x <= k * c, k * c < x + k
              PROVE  x = k * c
          <6>1. x = k * (x \div k) /\ x \div k \in Nat
            BY <5>1
          <6> DEFINE q == x \div k
          <6> HIDE DEF q
          <6>2. q \in Nat /\ x = k * q
            BY <6>1 DEF q
          <6>3. ~ (q + 1 <= c)
            <7>1. q + 1 <= c => k * (q + 1) <= k * c
              BY <6>2
            <7>2. k * (q + 1) = k * q + k
              BY <6>2
            <7> QED BY <5>1, <6>2, <7>1, <7>2
          <6>4. ~ (c + 1 <= q)
            <7>1. c + 1 <= q => k * (c + 1) <= k * q
              BY <6>2
            <7>2. k * (c + 1) = k * c + k
              OBVIOUS
            <7> QED BY <5>1, <6>2, <7>1, <7>2
          <6>5. q = c
            BY <6>2, <6>3, <6>4
          <6> QED BY <6>2, <6>5
        <5> QED BY <1>1, <3>1, <5>1, Fits
      <4>4. chunk_count * BYTES_PER_CHUNK = BYTES_PER_CHUNK * chunk_count
        BY <1>1
      <4> QED BY <4>2, <4>3, <4>4
    <3>2. CASE ~whole
      <4>1. 2 * b <= chunk_count - 1
        BY <1>1, <3>2
      <4>2. 2 * b * BYTES_PER_CHUNK <= (chunk_count - 1) * BYTES_PER_CHUNK
        BY <1>1, <2>1, <4>1
      <4>3. (chunk_count - 1) * BYTES_PER_CHUNK
              = BYTES_PER_CHUNK * chunk_count - BYTES_PER_CHUNK
        BY <1>1
      <4>4. BYTES_PER_CHUNK * chunk_count < byte_length + BYTES_PER_CHUNK
        BY Fits
      <4>5. /\ 2 * b * BYTES_PER_CHUNK \in Int
            /\ BYTES_PER_CHUNK * chunk_count \in Int
        BY <1>1, <2>1
      <4> QED BY <1>1, <4>2, <4>3, <4>4, <4>5
    <3> QED BY <3>1, <3>2
  <2>3. (2 * b - 1) * BYTES_PER_CHUNK <= byte_length
    <3>1. (2 * b - 1) * BYTES_PER_CHUNK <= 2 * b * BYTES_PER_CHUNK
      BY <1>1, <2>1
    <3>2. /\ (2 * b - 1) * BYTES_PER_CHUNK \in Int
          /\ 2 * b * BYTES_PER_CHUNK \in Int
      BY <1>1, <2>1
    <3> QED BY <1>1, <2>2, <3>1, <3>2
  <2>4. InPlace(2 * b - 2) = Copied(2 * b - 2) /\ InPlace(2 * b - 1) = Copied(2 * b - 1)
    BY <2>1, <2>2, <2>3, LeavesRead
  <2> QED BY <1>2, <2>1, <2>4
<1>4. first_blocks \in Nat /\ n \in Nat
  BY <1>1 DEF CeilDiv
<1>5. in_place = [b \in 1 .. first_blocks |-> in_place[b]]
  OBVIOUS
<1>6. CASE whole
  <2>1. hash_first_layer = in_place /\ n = first_blocks
    BY <1>1, <1>6 DEF hash_first_layer, CeilDiv
  <2>2. Len(in_place) = first_blocks /\ DOMAIN in_place = 1 .. first_blocks
    <3> HIDE DEF in_place, first_blocks
    <3> QED BY <1>4, <1>5, FunctionLength
  <2> HIDE DEF in_place, first_blocks, root, n
  <2>3. \A b \in 1 .. n : in_place[b] = root(b)
    BY <1>3, <2>1
  <2> QED BY <1>4, <2>1, <2>2, <2>3 DEF n, root
<1>7. CASE ~whole
  <2>1. hash_first_layer = in_place \o <<last_block>>
    BY <1>7 DEF hash_first_layer
  <2>2. n = first_blocks + 1
    BY <1>1, <1>7 DEF CeilDiv
  <2>3. last_block = root(n)
    <3>1. n \in Nat \ {0} /\ 2 * n - 2 = 2 * first_blocks
          /\ 2 * n - 1 = 2 * first_blocks + 1
      <4> HIDE DEF n, first_blocks
      <4> QED BY <1>4, <2>2
    <3> HIDE DEF n, first_blocks, root
    <3> QED BY <1>2, <3>1
  <2> HIDE DEF in_place, first_blocks, root, n, last_block
  <2>4. /\ Len(in_place \o <<last_block>>) = n
        /\ DOMAIN (in_place \o <<last_block>>) = 1 .. n
        /\ \A b \in 1 .. first_blocks :
              (in_place \o <<last_block>>)[b] = in_place[b]
        /\ (in_place \o <<last_block>>)[n] = last_block
    BY <1>4, <1>5, <2>2, OneAppended
  <2>5. \A b \in 1 .. n : (in_place \o <<last_block>>)[b] = root(b)
    BY <1>3, <1>4, <2>2, <2>3, <2>4
  <2> QED BY <1>4, <2>1, <2>4, <2>5 DEF n, root
<1> QED BY <1>6, <1>7

(* A turn of the loop writes the subtrees one level higher.                *)
LEMMA NextLayerCorrect ==
    ASSUME TypeOK, Within, LayerCorrect, pc = "layers", chunk_count > 0,
           height < depth
    PROVE  LET n == CeilDiv(last - first, 2)
           IN  /\ n \in Nat /\ Len(next_layer) = n
               /\ DOMAIN next_layer = 1 .. n
               /\ \A b \in 1 .. n :
                     next_layer[b] =
                        Subtree(height + 1, BYTES_PER_CHUNK,
                                (b - 1) * Pow2[height + 1] * BYTES_PER_CHUNK,
                                byte_length)
<1> DEFINE dist == last - first
           n == CeilDiv(dist, 2)
           k == dist \div 2
           root(b) == Subtree(height + 1, BYTES_PER_CHUNK,
                              (b - 1) * Pow2[height + 1] * BYTES_PER_CHUNK,
                              byte_length)
           pairs == [b \in 1 .. k |-> Hash(ret[first + 2 * b - 1], ret[first + 2 * b])]
           tail == Hash(ret[last], zero_hash_array[height])
<1>1. /\ first \in Nat /\ last \in Nat /\ height \in Nat
      /\ height < zero_hash_depth
      /\ Pow2[height] \in Nat \ {0} /\ Pow2[height + 1] = 2 * Pow2[height]
  BY Fits, Pow2Type, Pow2Next, ZeroHashDepthAssumption DEF TypeOK
<1>2. /\ dist \in Nat \ {0} /\ dist = CeilDiv(chunk_count, Pow2[height])
      /\ byte_length <= BYTES_PER_CHUNK * (Pow2[height] * dist)
  BY <1>1, LayerWidth DEF LayerCorrect
<1>3. ASSUME NEW c \in 0 .. dist - 1
      PROVE  ret[first + c + 1] =
                Subtree(height, BYTES_PER_CHUNK,
                        c * Pow2[height] * BYTES_PER_CHUNK, byte_length)
  BY <1>3 DEF LayerCorrect
<1>4. k \in Nat /\ n \in Nat /\ 2 * k <= dist
      /\ (dist % 2 = 1 => n = k + 1 /\ dist = 2 * k + 1)
      /\ (dist % 2 # 1 => n = k)
  <2> HIDE DEF dist
  <2> QED BY <1>2 DEF CeilDiv
<1>5. ASSUME NEW b \in 1 .. k PROVE pairs[b] = root(b)
  <2>1. /\ b \in Nat \ {0} /\ 2 * b - 2 \in 0 .. dist - 1
        /\ 2 * b - 1 \in 0 .. dist - 1
        /\ first + (2 * b - 2) + 1 = first + 2 * b - 1
        /\ first + (2 * b - 1) + 1 = first + 2 * b
    <3> HIDE DEF k, dist
    <3> QED BY <1>1, <1>2, <1>4
  <2>2. /\ ret[first + 2 * b - 1] =
              Subtree(height, BYTES_PER_CHUNK,
                      (2 * b - 2) * Pow2[height] * BYTES_PER_CHUNK, byte_length)
        /\ ret[first + 2 * b] =
              Subtree(height, BYTES_PER_CHUNK,
                      (2 * b - 1) * Pow2[height] * BYTES_PER_CHUNK, byte_length)
    BY <1>3, <2>1
  <2> QED BY <1>1, <2>1, <2>2, PairAbove
<1>6. ASSUME dist % 2 = 1 PROVE tail = root(n)
  <2> DEFINE lo == (2 * n - 2) * Pow2[height] * BYTES_PER_CHUNK
  <2>1. n \in Nat \ {0} /\ dist = 2 * n - 1 /\ 2 * n - 2 \in 0 .. dist - 1
    <3> HIDE DEF n, k, dist
    <3> QED BY <1>2, <1>4, <1>6
  <2>2. first + (2 * n - 2) + 1 = last
    <3>1. last = first + dist
      BY <1>1
    <3> HIDE DEF n, dist
    <3> QED BY <1>1, <2>1, <3>1
  <2>3. ret[last] = Subtree(height, BYTES_PER_CHUNK, lo, byte_length)
    BY <1>3, <2>1, <2>2
  <2>4. zero_hash_array[height] = ZeroHash[height]
    BY <1>1, ZeroHashDepthAssumption DEF zero_hash_array
  <2>5. /\ lo \in Nat
        /\ (n - 1) * Pow2[height + 1] * BYTES_PER_CHUNK = lo
        /\ (2 * n - 1) * Pow2[height] * BYTES_PER_CHUNK
              = lo + BYTES_PER_CHUNK * Pow2[height]
    BY <1>1, <2>1, PairAbove
  <2>6. byte_length <= lo + BYTES_PER_CHUNK * Pow2[height]
    <3>1. ASSUME NEW x \in Nat, NEW y \in Nat, NEW z \in Nat
          PROVE  z * (x * y) = y * x * z
      OBVIOUS
    <3>2. BYTES_PER_CHUNK * (Pow2[height] * dist)
            = dist * Pow2[height] * BYTES_PER_CHUNK
      <4> HIDE DEF dist
      <4> QED BY <1>1, <1>2, <3>1, Fits
    <3> QED BY <1>2, <2>1, <2>5, <3>2
  <2>7. Subtree(height + 1, BYTES_PER_CHUNK, lo, byte_length) =
          Hash(Subtree(height, BYTES_PER_CHUNK, lo, byte_length), ZeroHash[height])
    <3> HIDE DEF lo
    <3> QED BY <1>1, <2>5, <2>6, Fits, NodeRaised
  <2> QED BY <2>3, <2>4, <2>5, <2>7
<1>7. pairs = [b \in 1 .. k |-> pairs[b]]
  OBVIOUS
<1>8. CASE dist % 2 = 1
  <2>1. next_layer = pairs \o <<tail>>
    BY <1>8 DEF next_layer
  <2> HIDE DEF pairs, tail, root, n, k, dist
  <2>2. /\ Len(pairs \o <<tail>>) = n /\ DOMAIN (pairs \o <<tail>>) = 1 .. n
        /\ \A b \in 1 .. k : (pairs \o <<tail>>)[b] = pairs[b]
        /\ (pairs \o <<tail>>)[n] = tail
    BY <1>4, <1>7, <1>8, OneAppended
  <2>3. \A b \in 1 .. n : (pairs \o <<tail>>)[b] = root(b)
    BY <1>4, <1>5, <1>6, <1>8, <2>2
  <2> QED BY <1>4, <2>1, <2>2, <2>3 DEF n, root, dist
<1>9. CASE dist % 2 # 1
  <2>1. next_layer = pairs
    BY <1>9 DEF next_layer
  <2>2. Len(pairs) = k /\ DOMAIN pairs = 1 .. k
    BY <1>4, <1>7, FunctionLength
  <2> HIDE DEF pairs, tail, root, n, k, dist
  <2> QED BY <1>4, <1>5, <1>9, <2>1, <2>2 DEF n, root, dist
<1> QED BY <1>8, <1>9

-----------------------------------------------------------------------------
(* The invariant.                                                          *)

(* What the code computes from the parameters does not change with the     *)
(* rest of the state.                                                      *)
LEMMA SameCall ==
    ASSUME UNCHANGED <<byte_length, limit>>
    PROVE  chunk_count' = chunk_count /\ depth' = depth /\ Within' = Within
BY DEF chunk_count, depth, Within

(* The root of the reference is that of a tree of height depth.            *)
LEMMA WholeTree ==
    ASSUME TypeOK
    PROVE  Merkleize(BYTES_PER_CHUNK, 0, byte_length, limit) =
             Subtree(depth, BYTES_PER_CHUNK, 0, byte_length)
<1>1. 0 + byte_length = byte_length
  BY SparseAssumption DEF TypeOK
<1> QED BY <1>1 DEF Merkleize, depth, chunk_count

(* The invariant holds initially.                                          *)
LEMMA InitInvariant == Init => IInv
<1> SUFFICES ASSUME Init PROVE IInv
  OBVIOUS
<1>1. byte_length \in Nat /\ limit \in Nat /\ limit \in Limits
  BY SparseAssumption DEF Init
<1>2. chunk_count \in Nat
  BY <1>1, SparseAssumption, CeilDivBounds DEF chunk_count
<1>3. depth \in Nat
  BY <1>1, <1>2, Log2CeilType DEF depth, TreeHeight
<1>4. Len(ret) = 0 /\ DOMAIN ret = 1 .. Len(ret)
  BY DEF Init
<1>5. TypeOK
  BY <1>1, <1>3, <1>4 DEF Init, TypeOK
<1>6. Within
  BY DEF Init, Within
<1>7. Before /\ Sized /\ RoomLeft /\ BufferExact /\ LayerCorrect /\ Rooted
  BY <1>4 DEF Init, Before, Sized, RoomLeft, BufferExact, LayerCorrect, Rooted
<1> QED BY <1>5, <1>6, <1>7 DEF IInv

(* An empty input: the chunk that is returned is the root of an empty tree *)
(* of the height of the limit.                                             *)
LEMMA EmptyStep == IInv /\ Empty => IInv'
<1> SUFFICES ASSUME IInv, Empty PROVE IInv'
  OBVIOUS
<1>1. TypeOK /\ Within /\ Before
  BY DEF IInv
<1>2. /\ chunk_count' = chunk_count /\ depth' = depth /\ Within' = Within
      /\ pc' = "done" /\ chunk_count = 0
  BY SameCall DEF Empty
<1>3. /\ DOMAIN ret' = 1 .. 2 /\ Len(ret') = 2
      /\ ret'[2] = zero_hash_array[depth]
  BY DEF Empty
<1>4. TypeOK' /\ Within' /\ Before'
  BY <1>1, <1>2, <1>3 DEF Empty, TypeOK, Before
<1>5. byte_length = 0
  BY <1>1, <1>2, Fits
<1>6. zero_hash_array[depth] = ZeroHash[depth]
  BY <1>1, Fits, ZeroHashDepthAssumption DEF zero_hash_array
<1>7. Subtree(depth, BYTES_PER_CHUNK, 0, byte_length) = ZeroHash[depth]
  <2>1. 0 \in Nat /\ byte_length \in Nat /\ 0 >= byte_length
    BY <1>5
  <2>2. depth \in Nat /\ BYTES_PER_CHUNK \in Nat
    BY <1>1, Fits
  <2> QED BY <2>1, <2>2, NodePastEnd
<1>8. Rooted'
  <2>1. byte_length' = byte_length /\ limit' = limit
    BY DEF Empty
  <2>2. ret'[Len(ret')] = Merkleize(BYTES_PER_CHUNK, 0, byte_length, limit)
    BY <1>1, <1>3, <1>6, <1>7, WholeTree
  <2> QED BY <2>1, <2>2 DEF Rooted
<1>9. last' = 0
  BY <1>1 DEF Empty, Before
<1>10. BufferExact'
  BY <1>2, <1>3, <1>9 DEF BufferExact
<1>11. Sized' /\ RoomLeft' /\ LayerCorrect'
  BY <1>2 DEF Sized, RoomLeft, LayerCorrect
<1> QED BY <1>4, <1>8, <1>10, <1>11 DEF IInv

(* There is room for a root, at least.                                     *)
LEMMA RoomForRoot ==
    ASSUME NEW n \in Nat \ {0}, NEW d \in Nat
    PROVE  compute_hashtree_size(n, d) \in Nat \ {0}
<1>1. CASE d = 0
  BY <1>1 DEF compute_hashtree_size
<1>2. CASE d # 0
  <2> DEFINE k == d - 1
             half == CeilDiv(n, 2)
             above == layers[k][half]
  <2>1. k \in Nat /\ d = k + 1
    BY <1>2
  <2>2. half \in Nat /\ n <= 2 * half
    BY CeilDivBounds
  <2>3. above \in Nat
    BY <2>1, <2>2, LayersType
  <2>4. compute_hashtree_size(n, d) = half + above
    BY <1>2, <2>1, LayersUnfold DEF compute_hashtree_size
  <2> HIDE DEF half, above
  <2> QED BY <2>2, <2>3, <2>4
<1> QED BY <1>1, <1>2

(* The buffer is given the size of all the layers.                         *)
LEMMA AllocateStep == IInv /\ Allocate => IInv'
<1> SUFFICES ASSUME IInv, Allocate PROVE IInv'
  OBVIOUS
<1> DEFINE size == compute_hashtree_size(chunk_count, depth)
<1>1. TypeOK /\ Within /\ Before
  BY DEF IInv
<1>2. /\ chunk_count' = chunk_count /\ depth' = depth /\ Within' = Within
      /\ chunk_count > 0 /\ chunk_count \in Nat /\ depth \in Nat
      /\ pc' = IF depth = 0 THEN "copy" ELSE "leaves"
      /\ first' = 0 /\ last' = 0 /\ height' = 0
  BY <1>1, Fits, SameCall DEF Allocate, Before
<1>3. Within' /\ Before'
  BY <1>1, <1>2 DEF Before
<1>4. size \in Nat \ {0}
  BY <1>2, RoomForRoot
<1>5. ret' = Zeroed(size)
  BY DEF Allocate
<1> HIDE DEF size
<1>6. DOMAIN ret' = 1 .. size /\ Len(ret') = size
  <2>1. ret' = [c \in 1 .. size |-> ret'[c]]
    BY <1>5 DEF Zeroed
  <2> QED BY <1>4, <2>1, FunctionLength
<1>10. TypeOK'
  BY <1>1, <1>2, <1>4, <1>6 DEF Allocate, TypeOK
<1>7. Sized'
  BY <1>2, <1>6 DEF Sized, size
<1>8. BufferExact'
  BY <1>2, <1>4, <1>6 DEF BufferExact
<1>9. RoomLeft' /\ LayerCorrect' /\ Rooted'
  BY <1>2 DEF RoomLeft, LayerCorrect, Rooted
<1> QED BY <1>3, <1>7, <1>8, <1>9, <1>10 DEF IInv

(* A single chunk is its own root.                                         *)
LEMMA CopyOnlyStep == IInv /\ CopyOnly => IInv'
<1> SUFFICES ASSUME IInv, CopyOnly PROVE IInv'
  OBVIOUS
<1>1. TypeOK /\ Within /\ Before /\ Sized
  BY DEF IInv
<1>2. /\ chunk_count' = chunk_count /\ depth' = depth /\ Within' = Within
      /\ pc = "copy" /\ pc' = "done"
      /\ first = 0 /\ first' = 0 /\ last' = 1 /\ height' = height
  BY <1>1, SameCall DEF CopyOnly, Before
<1>3. chunk_count > 0 /\ depth = 0 /\ DOMAIN ret = 1 .. 1
  BY <1>1, <1>2 DEF Sized, compute_hashtree_size
<1>4. Within' /\ Before'
  BY <1>1, <1>2 DEF Before
<1>5. DOMAIN ret' = 1 .. 1 /\ Len(ret') = 1 /\ ret'[1] = Copied(0)
  <2>1. DOMAIN <<Copied(0)>> = 1 .. 1 /\ <<Copied(0)>>[1] = Copied(0)
    OBVIOUS
  <2>2. ret' = Written(0, <<Copied(0)>>)
    BY DEF CopyOnly
  <2> DEFINE chunks == <<Copied(0)>>
  <2> HIDE DEF chunks
  <2>3. DOMAIN chunks = 1 .. 1 /\ chunks[1] = Copied(0)
    BY <2>1 DEF chunks
  <2>4. ASSUME NEW one \in Nat, NEW zero \in Nat, one = 1, zero = 0
        PROVE  /\ DOMAIN Written(zero, chunks) = 1 .. one
               /\ Len(Written(zero, chunks)) = one
               /\ \A c \in 0 .. one - 1 :
                     Written(zero, chunks)[zero + c + 1] = chunks[c + 1]
    <3>1. zero + one <= one /\ DOMAIN ret = 1 .. one
          /\ DOMAIN chunks = 1 .. one
      BY <1>3, <2>3, <2>4
    <3> QED BY <3>1, WrittenChunks
  <2>5. 0 \in 0 .. 1 - 1 /\ 0 + 0 + 1 = 1 /\ 0 + 1 = 1
    OBVIOUS
  <2>6. Written(0, chunks)[1] = chunks[1]
    BY <2>4, <2>5
  <2> QED BY <2>2, <2>3, <2>4, <2>6 DEF chunks
<1>6. Copied(0) = Subtree(depth, BYTES_PER_CHUNK, 0, byte_length)
  <2>1. 0 * BYTES_PER_CHUNK = 0
    BY SparseAssumption
  <2> QED BY <1>1, <1>3, <2>1, LeavesRead
<1>7. Rooted'
  <2>1. byte_length' = byte_length /\ limit' = limit
    BY DEF CopyOnly
  <2> QED BY <1>1, <1>5, <1>6, <2>1, WholeTree DEF Rooted
<1>8. BufferExact'
  BY <1>2, <1>5 DEF BufferExact
<1>9. Sized' /\ RoomLeft' /\ LayerCorrect'
  BY <1>2 DEF Sized, RoomLeft, LayerCorrect
<1>10. TypeOK'
  BY <1>1, <1>2, <1>5 DEF CopyOnly, TypeOK
<1> QED BY <1>4, <1>7, <1>8, <1>9, <1>10 DEF IInv

(* Writing the layer of height h behind the one below it: it fits, and it  *)
(* leaves room for the rest.                                               *)
LEMMA LayerWritten ==
    ASSUME IInv, NEW h \in Nat, h < depth, NEW chunks,
           UNCHANGED <<byte_length, limit>>,
           pc \in {"leaves", "layers"}, pc' = "layers",
           LET n == CeilDiv(chunk_count, Pow2[h + 1])
           IN  /\ last + layers[depth - h][CeilDiv(chunk_count, Pow2[h])]
                     = Len(ret)
               /\ Len(chunks) = n /\ DOMAIN chunks = 1 .. n
               /\ \A b \in 1 .. n :
                     chunks[b] = Subtree(h + 1, BYTES_PER_CHUNK,
                                         (b - 1) * Pow2[h + 1] * BYTES_PER_CHUNK,
                                         byte_length),
           ret' = Written(last, chunks), first' = last,
           last' = last + Len(chunks), height' = h + 1
    PROVE  IInv'
<1> DEFINE m == CeilDiv(chunk_count, Pow2[h])
           n == CeilDiv(chunk_count, Pow2[h + 1])
           size == Len(ret)
           root(c) == Subtree(h + 1, BYTES_PER_CHUNK,
                              c * Pow2[h + 1] * BYTES_PER_CHUNK, byte_length)
<1>1. TypeOK /\ Within /\ Sized
  BY DEF IInv
<1>2. /\ chunk_count' = chunk_count /\ depth' = depth /\ Within' = Within
      /\ byte_length' = byte_length
  BY SameCall
<1>3. /\ chunk_count > 0 /\ depth \in Nat /\ depth # 0
      /\ last \in Nat /\ size = compute_hashtree_size(chunk_count, depth)
      /\ DOMAIN ret = 1 .. size
  BY <1>1, Fits DEF Sized, TypeOK
<1>4. m \in Nat /\ n \in Nat /\ n = CeilDiv(m, 2)
  <2>1. h + 1 \in Nat
    OBVIOUS
  <2> QED BY <1>1, <1>3, <2>1, LayerWidth
<1>5. size \in Nat
  BY <1>1, <1>3, Fits, LayersType DEF compute_hashtree_size
<1> HIDE DEF n, m, size
<1>6. /\ depth - (h + 1) \in Nat
      /\ last + (n + layers[depth - (h + 1)][n]) = size
      /\ layers[depth - (h + 1)][n] \in Nat
  <2>1. depth - (h + 1) \in Nat /\ depth - h = (depth - (h + 1)) + 1
    BY <1>3
  <2>2. layers[depth - h][m] = n + layers[depth - (h + 1)][n]
    BY <1>4, <2>1, LayersUnfold
  <2>3. last + layers[depth - h][m] = size
    BY DEF m, size
  <2> QED BY <1>4, <2>1, <2>2, <2>3, LayersType
<1>7. last + n <= size
  <2>1. ASSUME NEW x \in Nat, NEW y \in Nat, NEW z \in Nat, x + (y + z) = size
        PROVE  x + y <= size
    BY <1>5, <2>1
  <2> QED BY <1>3, <1>4, <1>6, <2>1
<1>8. DOMAIN chunks = 1 .. n /\ Len(chunks) = n
  BY DEF n
<1>9. /\ DOMAIN ret' = 1 .. size /\ Len(ret') = size
      /\ \A c \in 0 .. n - 1 : ret'[last + c + 1] = chunks[c + 1]
  <2>1. /\ DOMAIN Written(last, chunks) = 1 .. size
        /\ Len(Written(last, chunks)) = size
        /\ \A c \in 0 .. n - 1 :
              Written(last, chunks)[last + c + 1] = chunks[c + 1]
    <3> DEFINE w == Written(last, chunks)
    <3>1. last \in Nat /\ DOMAIN ret = 1 .. size
      BY <1>3
    <3>2. n \in Nat
      BY <1>4
    <3>3. \A c \in 0 .. n - 1 : w[last + c + 1] = chunks[c + 1]
      <4> SUFFICES ASSUME NEW c \in 0 .. n - 1
                   PROVE  w[last + c + 1] = chunks[c + 1]
        OBVIOUS
      <4> HIDE DEF w, root
      <4>1. c \in Nat /\ c < n
        BY <3>2
      <4>2. last + c + 1 \in 1 .. size
        BY <3>1, <3>2, <1>5, <1>7, <4>1
      <4>3. (last + c + 1) - last = c + 1
        BY <3>1, <4>1
      <4>4. c + 1 \in 1 .. n
        BY <3>2, <4>1
      <4> QED BY <3>1, <1>8, <4>2, <4>3, <4>4 DEF w, Written
    <3>4. DOMAIN w = 1 .. size /\ Len(w) = size
      BY <3>1, <3>2, <1>5, <1>7, <1>8, WrittenChunks
    <3> QED BY <3>3, <3>4
  <2> QED BY <2>1
<1>10. TypeOK'
  <2>1. h + 1 \in 0 .. depth
    BY <1>3
  <2>2. last \in 0 .. last + n /\ last + n \in 0 .. size
    BY <1>3, <1>4, <1>5, <1>7
  <2>3. DOMAIN ret' = 1 .. Len(ret') /\ Len(ret') = size /\ size # 0
    BY <1>1, <1>9 DEF TypeOK, size
  <2> QED BY <1>1, <1>2, <1>3, <1>8, <2>1, <2>2, <2>3 DEF TypeOK
<1>11. Sized'
  BY <1>2, <1>3, <1>9 DEF Sized
<1>12. last' = last + n /\ last' - first' = n
  BY <1>3, <1>4, <1>8
<1>13. RoomLeft'
  <2>1. (last + n) + layers[depth - (h + 1)][n] = size
    <3>1. ASSUME NEW x \in Nat, NEW y \in Nat, NEW z \in Nat
          PROVE  (x + y) + z = x + (y + z)
      OBVIOUS
    <3> DEFINE room == layers[depth - (h + 1)][n]
    <3>2. /\ last \in Nat /\ n \in Nat /\ room \in Nat /\ last + (n + room) = size
      BY <1>3, <1>4, <1>6
    <3> HIDE DEF room
    <3>3. (last + n) + room = size
      BY <3>1, <3>2
    <3> QED BY <3>3 DEF room
  <2>2. height' > 0 /\ height' = h + 1
    OBVIOUS
  <2> QED BY <1>2, <1>9, <1>12, <2>1, <2>2 DEF RoomLeft
<1>14. BufferExact'
  BY <1>7, <1>9, <1>12 DEF BufferExact
<1>15. ASSUME NEW c \in 0 .. n - 1 PROVE ret'[last + c + 1] = root(c)
  <2>1. c + 1 \in 1 .. n /\ (c + 1) - 1 = c
    BY <1>4
  <2>2. chunks[c + 1] = root((c + 1) - 1)
    BY <2>1 DEF n
  <2> QED BY <1>9, <2>1, <2>2
<1>16. LayerCorrect'
  BY <1>2, <1>12, <1>15 DEF LayerCorrect, n
<1>17. Within' /\ Before' /\ Rooted'
  BY <1>1, <1>2 DEF Before, Rooted
<1> QED BY <1>10, <1>11, <1>13, <1>14, <1>16, <1>17 DEF IInv

(* The first layer.                                                        *)
LEMMA FirstLayerStep == IInv /\ FirstLayer => IInv'
<1> SUFFICES ASSUME IInv, FirstLayer PROVE IInv'
  OBVIOUS
<1>1. TypeOK /\ Within /\ Before /\ Sized
  BY DEF IInv
<1>2. /\ pc = "leaves" /\ pc' = "layers"
      /\ UNCHANGED <<byte_length, limit>>
      /\ first' = first /\ first = 0 /\ last = 0 /\ height' = 1
      /\ ret' = Written(0, hash_first_layer)
      /\ last' = Len(hash_first_layer)
  BY <1>1 DEF FirstLayer, Before
<1>3. /\ chunk_count > 0 /\ chunk_count \in Nat /\ depth \in Nat /\ depth # 0
      /\ Len(ret) = layers[depth][chunk_count]
  BY <1>1, <1>2, Fits DEF Sized, compute_hashtree_size
<1>4. CeilDiv(chunk_count, Pow2[0]) = chunk_count
  <2>1. CeilDiv(1 * chunk_count, 1) = chunk_count
    BY <1>3, CeilDivExact
  <2> QED BY <1>3, <2>1, Pow2Zero
<1>5. CeilDiv(chunk_count, 2) = CeilDiv(chunk_count, Pow2[0 + 1])
  BY <1>4, <1>1, <1>3, LayerWidth
<1> DEFINE n == CeilDiv(chunk_count, 2)
           chunks == hash_first_layer
<1>6. /\ n \in Nat /\ Len(chunks) = n /\ DOMAIN chunks = 1 .. n
      /\ \A b \in 1 .. n :
            chunks[b] = Subtree(0 + 1, BYTES_PER_CHUNK,
                                (b - 1) * Pow2[0 + 1] * BYTES_PER_CHUNK,
                                byte_length)
  <2>1. 0 + 1 = 1
    OBVIOUS
  <2> QED BY <1>1, <1>3, <2>1, FirstLayerCorrect
<1>7. /\ 0 \in Nat /\ 0 < depth /\ height' = 0 + 1
      /\ ret' = Written(last, chunks) /\ first' = last
  BY <1>2, <1>3
<1>8. last + layers[depth - 0][CeilDiv(chunk_count, Pow2[0])] = Len(ret)
  BY <1>2, <1>3, <1>4, LayersType
<1> HIDE DEF chunks
<1>9. last' = last + Len(chunks)
  BY <1>2, <1>6 DEF chunks
<1> QED BY <1>2, <1>5, <1>6, <1>7, <1>8, <1>9, LayerWritten

(* The layers above it.                                                    *)
LEMMA NextLayerStep == IInv /\ NextLayer => IInv'
<1> SUFFICES ASSUME IInv, NextLayer PROVE IInv'
  OBVIOUS
<1>1. TypeOK /\ Within /\ Sized /\ RoomLeft /\ LayerCorrect
  BY DEF IInv
<1>2. /\ pc = "layers" /\ pc' = "layers" /\ height < depth
      /\ UNCHANGED <<byte_length, limit>>
      /\ first' = last /\ height' = height + 1
      /\ ret' = Written(last, next_layer)
      /\ last' = last + Len(next_layer)
  BY DEF NextLayer
<1>3. chunk_count > 0 /\ height \in Nat
  BY <1>1, <1>2, Fits DEF Sized, TypeOK
<1>4. /\ last - first = CeilDiv(chunk_count, Pow2[height])
      /\ last + layers[depth - height][last - first] = Len(ret)
  BY <1>1, <1>2 DEF LayerCorrect, RoomLeft
<1>5. CeilDiv(last - first, 2) = CeilDiv(chunk_count, Pow2[height + 1])
  BY <1>1, <1>3, <1>4, LayerWidth
<1> DEFINE n == CeilDiv(last - first, 2)
           chunks == next_layer
<1>6. /\ n \in Nat /\ Len(chunks) = n /\ DOMAIN chunks = 1 .. n
      /\ \A b \in 1 .. n :
            chunks[b] = Subtree(height + 1, BYTES_PER_CHUNK,
                                (b - 1) * Pow2[height + 1] * BYTES_PER_CHUNK,
                                byte_length)
  BY <1>1, <1>2, <1>3, NextLayerCorrect
<1> HIDE DEF chunks
<1> QED BY <1>2, <1>3, <1>4, <1>5, <1>6, LayerWritten DEF chunks

(* At the height of the tree one chunk is left, at the end of the buffer.  *)
LEMMA ReturnStep == IInv /\ Return => IInv'
<1> SUFFICES ASSUME IInv, Return PROVE IInv'
  OBVIOUS
<1>1. TypeOK /\ Within /\ Sized /\ RoomLeft /\ LayerCorrect /\ BufferExact
  BY DEF IInv
<1>2. /\ chunk_count' = chunk_count /\ depth' = depth /\ Within' = Within
      /\ pc = "layers" /\ pc' = "done"
      /\ UNCHANGED <<byte_length, limit, ret, first, last, height>>
  BY SameCall DEF Return
<1>3. /\ chunk_count > 0 /\ height = depth /\ depth \in Nat
      /\ first \in Nat /\ last \in Nat
  BY <1>1, <1>2, Fits DEF Sized, TypeOK, Return
<1>4. last - first = 1
  <2>1. last - first = CeilDiv(chunk_count, Pow2[height])
    BY <1>1, <1>2 DEF LayerCorrect
  <2> QED BY <1>1, <1>3, <2>1, LayerWidth
<1>5. last = first + 1
  BY <1>3, <1>4
<1>6. last = Len(ret)
  <2>1. depth - height = 0
    BY <1>3
  <2>2. last + layers[0][1] = Len(ret)
    BY <1>1, <1>2, <1>4, <2>1 DEF RoomLeft
  <2>3. layers[0][1] = 0
    BY LayersUnfold
  <2> QED BY <1>3, <2>2, <2>3
<1>7. BufferExact'
  BY <1>2, <1>3, <1>5, <1>6 DEF BufferExact
<1>8. ret[Len(ret)] = Subtree(depth, BYTES_PER_CHUNK, 0, byte_length)
  <2>1. 0 \in 0 .. last - first - 1 /\ first + 0 + 1 = Len(ret)
    BY <1>3, <1>4, <1>5, <1>6
  <2>2. ret[first + 0 + 1] =
          Subtree(height, BYTES_PER_CHUNK, 0 * Pow2[height] * BYTES_PER_CHUNK,
                  byte_length)
    BY <1>1, <1>2, <2>1 DEF LayerCorrect
  <2>3. 0 * Pow2[height] * BYTES_PER_CHUNK = 0
    BY <1>3, Pow2Type, SparseAssumption
  <2> QED BY <1>3, <2>1, <2>2, <2>3
<1>9. Rooted'
  BY <1>1, <1>2, <1>8, WholeTree DEF Rooted
<1>10. TypeOK' /\ Within' /\ Before'
  BY <1>1, <1>2 DEF TypeOK, Before
<1>11. Sized' /\ RoomLeft' /\ LayerCorrect'
  BY <1>2 DEF Sized, RoomLeft, LayerCorrect
<1> QED BY <1>7, <1>9, <1>10, <1>11 DEF IInv

(* The invariant is inductive.                                             *)
LEMMA StepInvariant == IInv /\ [Next]_vars => IInv'
<1>1. IInv /\ UNCHANGED vars => IInv'
  BY DEF IInv, vars, TypeOK, Within, Before, Sized, RoomLeft, BufferExact,
         LayerCorrect, Rooted, chunk_count, depth
<1> QED BY <1>1, EmptyStep, AllocateStep, CopyOnlyStep, FirstLayerStep,
           NextLayerStep, ReturnStep DEF Next, Terminating

(* Every reachable state satisfies the inductive invariant: behind each    *)
(* layer there is room for exactly those above it, and what is returned is *)
(* the root.                                                               *)
THEOREM Invariance == Spec => []IInv
BY InitInvariant, StepInvariant, PTL DEF Spec

-----------------------------------------------------------------------------
(* What the invariant means.                                               *)

(* Type correctness.                                                       *)
THEOREM TypeCorrect == Spec => []TypeOK
BY Invariance, PTL DEF IInv

(* compute_hashtree_size is exact, for every number of chunks and limit.   *)
THEOREM BufferSized == Spec => []BufferExact
BY Invariance, PTL DEF IInv

(* Every layer holds the reference roots of its subtrees, whatever the     *)
(* number of bytes in the last chunk and of chunks in the layers.          *)
THEOREM LayersCorrect == Spec => []LayerCorrect
BY Invariance, PTL DEF IInv

-----------------------------------------------------------------------------
(* The safety half of the refinement.                                      *)

(* The call begins as the promise does.                                    *)
LEMMA InitRefines == Init => Promise!Init
<1> SUFFICES ASSUME Init PROVE Promise!Init
  OBVIOUS
<1>1. TypeOK
  BY InitInvariant DEF IInv
<1>2. [per |-> BYTES_PER_CHUNK, size |-> byte_length, limit |-> limit]
         \in [per : Nat \ {0}, size : Nat, limit : Nat]
  BY <1>1, SparseAssumption DEF TypeOK
<1>3. pc = "start"
  BY DEF Init
<1> QED BY <1>2, <1>3 DEF Promise!Init, Promise!NoRoot, VectorCalls

(* A step either enters "done", which is the return of the promise, or the *)
(* caller notices nothing.                                                 *)
LEMMA StepRefines == IInv' /\ [Next]_vars => [Promise!Next]_Promise!vars
<1> SUFFICES ASSUME IInv', [Next]_vars PROVE [Promise!Next]_Promise!vars
  OBVIOUS
<1> DEFINE asked == [per |-> BYTES_PER_CHUNK, size |-> byte_length,
                     limit |-> limit]
<1>1. CASE UNCHANGED vars
  BY <1>1 DEF vars, Promise!vars
<1>2. CASE UNCHANGED <<byte_length, limit>> /\ pc # "done" /\ pc' # "done"
  BY <1>2 DEF Promise!vars
<1>3. CASE UNCHANGED <<byte_length, limit>> /\ pc # "done" /\ pc' = "done"
  <2>1. ret'[Len(ret')] = Merkleize(BYTES_PER_CHUNK, 0, byte_length, limit)
    BY <1>3 DEF IInv, Rooted
  <2>2. VectorRoot(asked) = ret'[Len(ret')]
    BY <2>1 DEF VectorRoot
  <2>3. asked' = asked
    BY <1>3
  <2>4. Promise!Return
    BY <1>3, <2>2, <2>3 DEF Promise!Return
  <2> QED BY <2>4 DEF Promise!Next
<1>4. \/ UNCHANGED vars
      \/ UNCHANGED <<byte_length, limit>> /\ pc # "done"
  BY DEF Next, Empty, Allocate, CopyOnly, FirstLayer, NextLayer, Return,
         Terminating
<1> QED BY <1>1, <1>2, <1>3, <1>4

(* sparse_hash_tree implements the safety of the promise: the only answer  *)
(* it ever gives is the reference root.                                    *)
THEOREM KeepsPromise == Spec => Promise!Init /\ [][Promise!Next]_Promise!vars
BY InitRefines, Invariance, StepRefines, PTL DEF Spec
=============================================================================
