---------------------------- MODULE MerkleProofs ----------------------------
(***************************************************************************)
(* What the logarithms, the empty trees and the reference tree of Merkle   *)
(* compute, for every input.                                               *)
(***************************************************************************)
EXTENDS Merkle, TLAPS

Double(n, v) == 2 * v
HashTwice(h, below) == Hash(below, below)

Powers == INSTANCE NatRecursion WITH Base <- 1, Succ <- Double
Zeroes == INSTANCE NatRecursion WITH Base <- ZeroChunk, Succ <- HashTwice
Nodes  == INSTANCE NatRecursion WITH Base <- Leaves, Succ <- Above

-----------------------------------------------------------------------------
(* The recursive functions satisfy their equations.                        *)

(* The equation of Pow2 holds.                                             *)
LEMMA Pow2Def ==
    \A n \in Nat : Pow2[n] = IF n = 0 THEN 1 ELSE 2 * Pow2[n - 1]
<1>1. Pow2 = Powers!rec
  BY DEF Pow2, Powers!rec, Double
<1> QED BY <1>1, Powers!RecursionUnfolds DEF Double

(* The equation of ZeroHash holds.                                         *)
LEMMA ZeroHashDef ==
    \A h \in Nat : ZeroHash[h] = IF h = 0 THEN ZeroChunk
                                 ELSE Hash(ZeroHash[h - 1], ZeroHash[h - 1])
<1>1. ZeroHash = Zeroes!rec
  BY DEF ZeroHash, Zeroes!rec, HashTwice
<1> QED BY <1>1, Zeroes!RecursionUnfolds DEF HashTwice

(* The equation of Node holds.                                             *)
LEMMA NodeDef ==
    \A h \in Nat : Node[h] = IF h = 0 THEN Leaves ELSE Above(h, Node[h - 1])
<1>1. Node = Nodes!rec
  BY DEF Node, Nodes!rec
<1> QED BY <1>1, Nodes!RecursionUnfolds

-----------------------------------------------------------------------------
(* Powers of two.                                                          *)

(* A power of two is a positive number.                                    *)
LEMMA Pow2Type == \A n \in Nat : Pow2[n] \in Nat \ {0}
<1> DEFINE S == {n \in Nat : Pow2[n] \in Nat \ {0}}
<1>1. 0 \in S
  BY Pow2Def
<1>2. ASSUME NEW n \in Nat, n \in S PROVE n + 1 \in S
  <2>1. Pow2[n + 1] = 2 * Pow2[n]
    BY Pow2Def
  <2> QED BY <1>2, <2>1
<1>3. Nat \subseteq S
  <2> HIDE DEF S
  <2> QED BY <1>1, <1>2, Powers!SetInduction
<1> QED BY <1>3

(* 2^(n+1) is twice 2^n.                                                   *)
LEMMA Pow2Next == \A n \in Nat : Pow2[n + 1] = 2 * Pow2[n]
BY Pow2Def

(* 2^0 is 1.                                                               *)
LEMMA Pow2Zero == Pow2[0] = 1
BY Pow2Def

(* 2^n > n.                                                                *)
LEMMA Pow2Above == \A n \in Nat : n < Pow2[n]
<1> DEFINE S == {n \in Nat : n < Pow2[n]}
<1>1. 0 \in S
  BY Pow2Zero
<1>2. ASSUME NEW n \in Nat, n \in S PROVE n + 1 \in S
  BY <1>2, Pow2Next, Pow2Type
<1>3. Nat \subseteq S
  <2> HIDE DEF S
  <2> QED BY <1>1, <1>2, Powers!SetInduction
<1> QED BY <1>3

(* Pow2 is monotone.                                                       *)
LEMMA Pow2Monotone ==
    ASSUME NEW m \in Nat, NEW n \in Nat, m <= n
    PROVE  Pow2[m] <= Pow2[n]
<1> DEFINE S == {k \in Nat : Pow2[m] <= Pow2[m + k]}
<1>1. 0 \in S
  BY Pow2Type
<1>2. ASSUME NEW k \in Nat, k \in S PROVE k + 1 \in S
  <2>1. Pow2[m + k + 1] = 2 * Pow2[m + k]
    BY Pow2Next
  <2>2. m + (k + 1) = m + k + 1
    OBVIOUS
  <2>3. Pow2[m] \in Nat /\ Pow2[m + k] \in Nat
    BY Pow2Type
  <2> QED BY <1>2, <2>1, <2>2, <2>3
<1>3. Nat \subseteq S
  <2> HIDE DEF S
  <2> QED BY <1>1, <1>2, Powers!SetInduction
<1>4. n - m \in S
  BY <1>3
<1>5. m + (n - m) = n
  OBVIOUS
<1> QED BY <1>4, <1>5

(* The larger power has the larger exponent.                               *)
LEMMA Pow2Strict ==
    ASSUME NEW m \in Nat, NEW n \in Nat, Pow2[m] < Pow2[n]
    PROVE  m < n
<1>1. CASE n <= m
  <2>1. Pow2[n] <= Pow2[m]
    BY <1>1, Pow2Monotone
  <2> QED BY <2>1, Pow2Type
<1> QED BY <1>1

(* 2^m * 2^n = 2^(m+n).                                                    *)
LEMMA Pow2Product ==
    ASSUME NEW m \in Nat, NEW n \in Nat
    PROVE  Pow2[m] * Pow2[n] = Pow2[m + n]
<1> DEFINE S == {k \in Nat : Pow2[m] * Pow2[k] = Pow2[m + k]}
<1>1. 0 \in S
  BY Pow2Type, Pow2Zero
<1>2. ASSUME NEW k \in Nat, k \in S PROVE k + 1 \in S
  <2>1. Pow2[m + k + 1] = 2 * Pow2[m + k] /\ Pow2[k + 1] = 2 * Pow2[k]
    BY Pow2Next
  <2>2. m + (k + 1) = m + k + 1
    OBVIOUS
  <2>3. Pow2[m] \in Nat /\ Pow2[k] \in Nat
    BY Pow2Type
  <2>4. Pow2[m] * (2 * Pow2[k]) = 2 * (Pow2[m] * Pow2[k])
    BY <2>3
  <2> QED BY <1>2, <2>1, <2>2, <2>4
<1>3. Nat \subseteq S
  <2> HIDE DEF S
  <2> QED BY <1>1, <1>2, Powers!SetInduction
<1> QED BY <1>3

-----------------------------------------------------------------------------
(* Logarithms.                                                             *)

(* bit_width(m) is the least k with m < 2^k.                               *)
LEMMA BitWidth ==
    ASSUME NEW m \in Nat
    PROVE  /\ bit_width(m) \in 0 .. m
           /\ m < Pow2[bit_width(m)]
           /\ \A j \in 0 .. bit_width(m) - 1 : Pow2[j] <= m
<1> DEFINE S == {k \in Nat : m < Pow2[k]}
<1>1. m \in S
  BY Pow2Above
<1>2. PICK k \in S : \A y \in S : k <= y
  BY <1>1, Powers!LeastNumber
<1>3. k \in 0 .. m /\ m < Pow2[k]
  BY <1>1, <1>2
<1>4. ASSUME NEW j \in 0 .. k - 1 PROVE Pow2[j] <= m
  <2>1. j \in Nat /\ ~ (k <= j)
    BY <1>3
  <2>2. ~ (m < Pow2[j])
    BY <1>2, <2>1
  <2> QED BY <2>1, <2>2, Pow2Type
<1> QED BY <1>3, <1>4 DEF bit_width

(* 2^(log2ceil(n) - 1) < n <= 2^log2ceil(n).                               *)
LEMMA Log2Ceil ==
    ASSUME NEW n \in Nat \ {0}
    PROVE  /\ log2ceil(n) \in Nat
           /\ n <= Pow2[log2ceil(n)]
           /\ \A j \in Nat : j < log2ceil(n) => Pow2[j] < n
<1>1. n - 1 \in Nat
  OBVIOUS
<1>2. log2ceil(n) = bit_width(n - 1)
  BY DEF log2ceil
<1>3. log2ceil(n) \in Nat
  BY <1>1, <1>2, BitWidth
<1>4. Pow2[log2ceil(n)] \in Nat
  BY <1>3, Pow2Type
<1>5. n <= Pow2[log2ceil(n)]
  BY <1>1, <1>2, <1>4, BitWidth
<1>6. ASSUME NEW j \in Nat, j < log2ceil(n) PROVE Pow2[j] < n
  <2>1. j \in 0 .. bit_width(n - 1) - 1
    BY <1>2, <1>3, <1>6
  <2>2. Pow2[j] <= n - 1 /\ Pow2[j] \in Nat
    BY <1>1, <2>1, BitWidth, Pow2Type
  <2> QED BY <2>2
<1> QED BY <1>3, <1>5, <1>6

(* log2ceil is defined for every number, 0 included.                       *)
LEMMA Log2CeilType == \A n \in Nat : log2ceil(n) \in Nat
<1>1. log2ceil(0) = 0
  BY DEF log2ceil
<1> QED BY <1>1, Log2Ceil

(* Only log2ceil(n) has that property.                                     *)
LEMMA Log2CeilUnique ==
    ASSUME NEW n \in Nat \ {0}, NEW d \in Nat, n <= Pow2[d],
           \A j \in Nat : j < d => Pow2[j] < n
    PROVE  log2ceil(n) = d
<1>1. log2ceil(n) \in Nat /\ Pow2[log2ceil(n)] \in Nat /\ Pow2[d] \in Nat
  BY Log2Ceil, Pow2Type
<1>2. ~ (log2ceil(n) < d)
  BY <1>1, Log2Ceil
<1>3. ~ (d < log2ceil(n))
  BY <1>1, Log2Ceil
<1> QED BY <1>1, <1>2, <1>3

(* log2ceil is exact on powers of two.                                     *)
LEMMA Log2OfPow2 == \A d \in Nat : log2ceil(Pow2[d]) = d
<1> TAKE d \in Nat
<1>1. ASSUME NEW j \in Nat, j < d PROVE Pow2[j] < Pow2[d]
  <2>1. Pow2[j + 1] <= Pow2[d]
    BY <1>1, Pow2Monotone
  <2> QED BY <2>1, Pow2Next, Pow2Type
<1>2. Pow2[d] \in Nat \ {0}
  BY Pow2Type
<1>3. Pow2[d] <= Pow2[d]
  BY <1>2
<1> QED BY <1>1, <1>2, <1>3, Log2CeilUnique

(* log2ceil is monotone: more chunks never need a lower tree.              *)
LEMMA Log2Monotone ==
    ASSUME NEW m \in Nat, NEW n \in Nat, m <= n
    PROVE  log2ceil(m) <= log2ceil(n)
<1>1. CASE m = 0
  BY <1>1, Log2CeilType DEF log2ceil
<1>2. CASE m # 0
  <2>1. log2ceil(m) \in Nat /\ log2ceil(n) \in Nat /\ Pow2[log2ceil(n)] \in Nat
    BY Log2CeilType, Pow2Type
  <2>2. n <= Pow2[log2ceil(n)]
    BY <1>2, Log2Ceil
  <2>3. ~ (log2ceil(n) < log2ceil(m))
    BY <1>2, <2>1, <2>2, Log2Ceil
  <2> QED BY <2>1, <2>3
<1> QED BY <1>1, <1>2

(* bit_ceil(n) / 2 is a power of two that splits n in two nonempty parts,  *)
(* the second not longer than the first.                                   *)
LEMMA HalfOfBitCeil ==
    ASSUME NEW n \in Nat, n >= 2
    PROVE  /\ log2ceil(n) - 1 \in Nat
           /\ bit_ceil(n) \div 2 = Pow2[log2ceil(n) - 1]
           /\ Pow2[log2ceil(n) - 1] < n
           /\ n <= 2 * Pow2[log2ceil(n) - 1]
<1> DEFINE d == log2ceil(n)
<1>1. d \in Nat /\ n <= Pow2[d]
  BY Log2Ceil
<1>2. d # 0
  BY <1>1, Pow2Zero
<1>3. d - 1 \in Nat
  BY <1>1, <1>2
<1>4. Pow2[d] = 2 * Pow2[d - 1]
  BY <1>1, <1>2, Pow2Def
<1>5. Pow2[d - 1] \in Nat
  BY <1>3, Pow2Type
<1>6. Pow2[d - 1] < n
  BY <1>1, <1>3, Log2Ceil
<1>7. bit_ceil(n) \div 2 = Pow2[d - 1]
  BY <1>4, <1>5 DEF bit_ceil
<1> QED BY <1>1, <1>3, <1>4, <1>6, <1>7

-----------------------------------------------------------------------------
(* Division.                                                               *)

(* CeilDiv(n, k) is n / k rounded up.                                      *)
LEMMA CeilDivBounds ==
    ASSUME NEW n \in Nat, NEW k \in Nat \ {0}
    PROVE  /\ CeilDiv(n, k) \in Nat
           /\ n <= k * CeilDiv(n, k)
           /\ k * CeilDiv(n, k) < n + k
<1>1. ASSUME NEW a \in Nat
      PROVE  a \div k \in Nat /\ k * (a \div k) <= a /\ a < k * (a \div k) + k
  OBVIOUS
<1>2. n + k - 1 \in Nat
  OBVIOUS
<1> QED BY <1>1, <1>2 DEF CeilDiv

(* n elements fit in q chunks exactly when ceil(n / k) is at most q.       *)
LEMMA CeilDivAtMost ==
    ASSUME NEW n \in Nat, NEW k \in Nat \ {0}, NEW q \in Nat
    PROVE  CeilDiv(n, k) <= q <=> n <= k * q
<1> DEFINE r == CeilDiv(n, k)
<1>1. r \in Nat /\ n <= k * r /\ k * r < n + k
  BY CeilDivBounds
<1> HIDE DEF r
<1>2. ASSUME r <= q PROVE n <= k * q
  <2>1. k * r <= k * q
    BY <1>1, <1>2
  <2> QED BY <1>1, <2>1
<1>3. ASSUME q + 1 <= r PROVE ~ (n <= k * q)
  <2>1. k * (q + 1) <= k * r
    BY <1>1, <1>3
  <2>2. k * (q + 1) = k * q + k
    OBVIOUS
  <2> QED BY <1>1, <2>1, <2>2
<1>4. r <= q \/ q + 1 <= r
  BY <1>1
<1>5. r <= q <=> n <= k * q
  BY <1>2, <1>3, <1>4, <1>1
<1> QED BY <1>5 DEF r

(* Nothing is rounded when k divides n.                                    *)
LEMMA CeilDivExact ==
    ASSUME NEW q \in Nat, NEW k \in Nat \ {0}
    PROVE  CeilDiv(k * q, k) = q
<1> DEFINE r == CeilDiv(k * q, k)
<1>1. k * q \in Nat /\ k * q <= k * q
  OBVIOUS
<1>2. r <= q
  BY <1>1, CeilDivAtMost
<1>3. r \in Nat /\ k * q <= k * r
  BY <1>1, CeilDivBounds
<1> HIDE DEF r
<1>4. ASSUME r + 1 <= q PROVE FALSE
  <2>1. k * (r + 1) <= k * q
    BY <1>3, <1>4
  <2>2. k * (r + 1) = k * r + k
    BY <1>3
  <2> QED BY <1>3, <2>1, <2>2
<1>5. r = q
  BY <1>2, <1>3, <1>4
<1> QED BY <1>5 DEF r

(* The height of a tree for a power of two of chunks, and for more.        *)
LEMMA HeightOfMore ==
    ASSUME NEW n \in Nat, NEW h \in Nat, Pow2[h] < n, n <= Pow2[h + 1]
    PROVE  log2ceil(n) = h + 1
<1>1. n \in Nat \ {0}
  BY Pow2Type
<1>2. ASSUME NEW j \in Nat, j < h + 1 PROVE Pow2[j] < n
  <2>1. j <= h
    BY <1>2
  <2> QED BY <2>1, Pow2Monotone, Pow2Type
<1> QED BY <1>1, <1>2, Log2CeilUnique

-----------------------------------------------------------------------------
(* The reference tree.                                                     *)

(* A tree of height 0 is a chunk.                                          *)
LEMMA NodeLeaf ==
    ASSUME NEW per \in Nat, NEW lo \in Nat, NEW end \in Nat
    PROVE  Subtree(0, per, lo, end) = Leaf(per, lo, end)
<1>1. Node[0] = Leaves
  BY NodeDef
<1>2. Leaves[per] = [x \in Nat |-> [y \in Nat |-> Leaf(per, x, y)]]
  BY DEF Leaves
<1>3. Leaves[per][lo][end] = Leaf(per, lo, end)
  BY <1>2
<1> QED BY <1>1, <1>3 DEF Subtree

(* A tree of height h+1 hashes the two trees of height h side by side.     *)
LEMMA NodeAbove ==
    ASSUME NEW h \in Nat, NEW per \in Nat, NEW lo \in Nat, NEW end \in Nat
    PROVE  Subtree(h + 1, per, lo, end) =
             Hash(Subtree(h, per, lo, end),
                  Subtree(h, per, lo + per * Pow2[h], end))
<1>1. Node[h + 1] = Above(h + 1, Node[h])
  BY NodeDef
<1>2. (h + 1) - 1 = h
  OBVIOUS
<1> DEFINE below == Node[h]
<1>3. Above(h + 1, below)[per] =
        [x \in Nat |-> [y \in Nat |->
            Hash(below[per][x][y], below[per][x + per * Pow2[h]][y])]]
  BY <1>2 DEF Above
<1>4. Above(h + 1, below)[per][lo][end] =
        Hash(below[per][lo][end], below[per][lo + per * Pow2[h]][end])
  BY <1>3
<1> QED BY <1>1, <1>4 DEF Subtree

(* A tree that begins past the last element is a tree of zeroes.           *)
LEMMA NodePastEnd ==
    ASSUME NEW per \in Nat, NEW end \in Nat
    PROVE  \A h \in Nat : \A lo \in Nat :
              lo >= end => Subtree(h, per, lo, end) = ZeroHash[h]
<1> DEFINE S == {h \in Nat : \A lo \in Nat :
                    lo >= end => Subtree(h, per, lo, end) = ZeroHash[h]}
<1>1. 0 \in S
  BY NodeLeaf, ZeroHashDef DEF Leaf
<1>2. ASSUME NEW h \in Nat, h \in S PROVE h + 1 \in S
  <2>1. SUFFICES ASSUME NEW lo \in Nat, lo >= end
                 PROVE  Subtree(h + 1, per, lo, end) = ZeroHash[h + 1]
    OBVIOUS
  <2>2. per * Pow2[h] \in Nat
    BY Pow2Type
  <2>3. lo + per * Pow2[h] \in Nat /\ lo + per * Pow2[h] >= end
    BY <2>1, <2>2
  <2>4. /\ Subtree(h, per, lo, end) = ZeroHash[h]
        /\ Subtree(h, per, lo + per * Pow2[h], end) = ZeroHash[h]
    BY <1>2, <2>1, <2>3
  <2>5. ZeroHash[h + 1] = Hash(ZeroHash[h], ZeroHash[h])
    BY ZeroHashDef
  <2> QED BY <2>4, <2>5, NodeAbove
<1>3. Nat \subseteq S
  <2> HIDE DEF S
  <2> QED BY <1>1, <1>2, Nodes!SetInduction
<1> QED BY <1>3

(* Elements past the end of a tree do not matter to it.                    *)
LEMMA NodeIgnoresRest ==
    ASSUME NEW per \in Nat \ {0}, NEW e \in Nat, NEW f \in Nat
    PROVE  \A h \in Nat : \A lo \in Nat :
              lo + per * Pow2[h] <= e /\ lo + per * Pow2[h] <= f =>
                 Subtree(h, per, lo, e) = Subtree(h, per, lo, f)
<1> DEFINE S == {h \in Nat : \A lo \in Nat :
                    lo + per * Pow2[h] <= e /\ lo + per * Pow2[h] <= f =>
                       Subtree(h, per, lo, e) = Subtree(h, per, lo, f)}
<1>1. 0 \in S
  <2>1. SUFFICES ASSUME NEW lo \in Nat,
                        lo + per * Pow2[0] <= e, lo + per * Pow2[0] <= f
                 PROVE  Subtree(0, per, lo, e) = Subtree(0, per, lo, f)
    OBVIOUS
  <2>2. lo + per <= e /\ lo + per <= f
    BY <2>1, Pow2Zero
  <2>3. ~ (lo >= e) /\ ~ (lo >= f)
    BY <2>2
  <2> QED BY <2>2, <2>3, NodeLeaf DEF Leaf
<1>2. ASSUME NEW h \in Nat, h \in S PROVE h + 1 \in S
  <2>1. SUFFICES ASSUME NEW lo \in Nat,
                        lo + per * Pow2[h + 1] <= e,
                        lo + per * Pow2[h + 1] <= f
                 PROVE  Subtree(h + 1, per, lo, e) = Subtree(h + 1, per, lo, f)
    OBVIOUS
  <2> DEFINE w == per * Pow2[h]
  <2>2. w \in Nat
    BY Pow2Type
  <2>3. per * Pow2[h + 1] = 2 * w
    BY Pow2Next, Pow2Type
  <2>4. lo + w \in Nat /\ lo + w <= e /\ lo + w <= f
    BY <2>1, <2>2, <2>3
  <2>5. (lo + w) + w <= e /\ (lo + w) + w <= f
    BY <2>1, <2>2, <2>3
  <2>6. Subtree(h, per, lo, e) = Subtree(h, per, lo, f)
    BY <1>2, <2>4
  <2>7. Subtree(h, per, lo + w, e) = Subtree(h, per, lo + w, f)
    BY <1>2, <2>4, <2>5
  <2> QED BY <2>6, <2>7, NodeAbove
<1>3. Nat \subseteq S
  <2> HIDE DEF S
  <2> QED BY <1>1, <1>2, Nodes!SetInduction
<1> QED BY <1>3

(* A tree no wider than its left half pairs that half with an empty tree.  *)
LEMMA NodeRaised ==
    ASSUME NEW h \in Nat, NEW per \in Nat, NEW lo \in Nat, NEW end \in Nat,
           end <= lo + per * Pow2[h]
    PROVE  Subtree(h + 1, per, lo, end) =
             Hash(Subtree(h, per, lo, end), ZeroHash[h])
<1> DEFINE mid == lo + per * Pow2[h]
<1>1. mid \in Nat /\ mid >= end
  BY Pow2Type
<1>2. Subtree(h + 1, per, lo, end) =
         Hash(Subtree(h, per, lo, end), Subtree(h, per, mid, end))
  BY NodeAbove
<1> HIDE DEF mid
<1>3. Subtree(h, per, mid, end) = ZeroHash[h]
  BY <1>1, NodePastEnd
<1> QED BY <1>2, <1>3, Zenon

(* Splitting at the width of the left half: each half is a tree of its own *)
(* elements.                                                               *)
LEMMA NodeSplit ==
    ASSUME NEW h \in Nat, NEW per \in Nat \ {0}, NEW lo \in Nat, NEW end \in Nat,
           lo + per * Pow2[h] <= end
    PROVE  Subtree(h + 1, per, lo, end) =
             Hash(Subtree(h, per, lo, lo + per * Pow2[h]),
                  Subtree(h, per, lo + per * Pow2[h], end))
<1>1. lo + per * Pow2[h] \in Nat
  BY Pow2Type
<1>2. Subtree(h, per, lo, end) = Subtree(h, per, lo, lo + per * Pow2[h])
  BY <1>1, NodeIgnoresRest
<1> QED BY <1>2, NodeAbove
=============================================================================
